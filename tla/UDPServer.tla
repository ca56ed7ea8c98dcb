------------------------------ MODULE UDPServer ------------------------------
(***************************************************************************)
(* TUDPTransport::Impl of m3/src/udp_transport_impl.{h,cc}, opened as a    *)
(* server: the I/O thread receives datagrams into help_buffer_ and appends *)
(* them to main_buffer_, a thread reads bytes from main_buffer_, the owner *)
(* closes the transport.  UDP loses, repeats and reorders datagrams.       *)
(*                                                                         *)
(* Every section under mutex_ is one step.  What a byte is, is left open.  *)
(***************************************************************************)
EXTENDS Integers, Sequences

CONSTANTS
  BufferSize,    \* the size read_async gives to help_buffer_
  MaxReceives    \* bound: receives that end, with a datagram or with an error

ASSUME ServerAssumption ==
  /\ BufferSize \in Nat \ {0}
  /\ MaxReceives \in Nat

VARIABLES
  open,         \* open_
  inProgress,   \* in_progress_
  main,         \* main_buffer_
  help,         \* help_buffer_, the bytes received
  readPc,       \* where the reading thread is inside read_virt
  ioPc,         \* where the I/O thread is
  closePc,      \* where the owner is inside close
  ioStopped,    \* io_context_.stop() has been called
  receives      \* uses of the bound

transport == <<open, inProgress, main, help, readPc, ioPc, closePc, ioStopped>>
serverVars == <<transport, receives>>

\* receive_cv_.notify_one(): the only waiter is the thread inside read_virt.
NotifyReceive == readPc' = IF readPc = "waiting" THEN "woken" ELSE readPc

-----------------------------------------------------------------------------
(* Wrong on purpose: forms of the operations below that plausible mistakes *)
(* would give them.  No specification uses them; each breaks a property.   *)

\* The handler appends and does not notify.
IoAppendSilent ==
  /\ ioPc = "received"
  /\ main' = main \o help
  /\ ioPc' = "read_async"
  /\ UNCHANGED <<open, inProgress, help, readPc, closePc, ioStopped, receives>>

\* close wakes nobody who reads.
CloseSkipsReceive ==
  /\ closePc = "receive"
  /\ closePc' = "stop"
  /\ UNCHANGED <<open, inProgress, main, help, readPc, ioPc, ioStopped, receives>>

-----------------------------------------------------------------------------
(* The I/O thread: read_async, io_context_.run and the receive's handler.  *)

IoReadAsync ==
  /\ ioPc = "read_async"
  /\ help' = <<>>
  /\ ioPc' = "receiving"
  /\ UNCHANGED <<open, inProgress, main, readPc, closePc, ioStopped, receives>>

\* The socket has a datagram: what exceeds the buffer is thrown away.
IoReceive(datagram) ==
  /\ ioPc = "receiving" /\ ~ioStopped
  /\ receives < MaxReceives
  /\ receives' = receives + 1
  /\ help' = IF Len(datagram) > BufferSize THEN SubSeq(datagram, 1, BufferSize)
             ELSE datagram
  /\ ioPc' = "received"
  /\ UNCHANGED <<open, inProgress, main, readPc, closePc, ioStopped>>

\* The handler is given an error: it logs it and receives again.
IoError ==
  /\ ioPc = "receiving" /\ ~ioStopped
  /\ receives < MaxReceives
  /\ receives' = receives + 1
  /\ ioPc' = "read_async"
  /\ UNCHANGED <<open, inProgress, main, help, readPc, closePc, ioStopped>>

\* The handler appends under mutex_; an empty datagram is passed over.
IoAppend ==
  /\ ioPc = "received"
  /\ main' = main \o help
  /\ ioPc' = IF help = <<>> THEN "read_async" ELSE "notify"
  /\ UNCHANGED <<open, inProgress, help, readPc, closePc, ioStopped, receives>>

IoNotify ==
  /\ ioPc = "notify"
  /\ NotifyReceive
  /\ ioPc' = "read_async"
  /\ UNCHANGED <<open, inProgress, main, help, closePc, ioStopped, receives>>

\* A stopped I/O context runs no more handlers.
IoStop ==
  /\ ioPc = "receiving" /\ ioStopped
  /\ ioPc' = "done"
  /\ UNCHANGED <<open, inProgress, main, help, readPc, closePc, ioStopped, receives>>

-----------------------------------------------------------------------------
(* read_virt(buf, n)                                                       *)

\* The bytes that leave main_buffer_.
Take(n) ==
  LET len == IF n < Len(main) THEN n ELSE Len(main) IN
  main' = SubSeq(main, len + 1, Len(main))

\* There are bytes: the wait's predicate holds at once.
Read(n) ==
  /\ readPc = "outside"
  /\ open /\ ~inProgress
  /\ main # <<>>
  /\ Take(n)
  /\ UNCHANGED <<open, inProgress, help, readPc, ioPc, closePc, ioStopped, receives>>

\* There are none: the thread waits, and in_progress_ refuses a second reader.
ReadWait ==
  /\ readPc = "outside"
  /\ open /\ ~inProgress
  /\ main = <<>>
  /\ inProgress' = TRUE
  /\ readPc' = "waiting"
  /\ UNCHANGED <<open, main, help, ioPc, closePc, ioStopped, receives>>

\* Woken, with bytes to return.
ReadWoken(n) ==
  /\ readPc = "woken"
  /\ open /\ main # <<>>
  /\ Take(n)
  /\ inProgress' = FALSE
  /\ readPc' = "outside"
  /\ UNCHANGED <<open, help, ioPc, closePc, ioStopped, receives>>

\* The transport is closed, before the call or while it waited: it throws,
\* whatever main_buffer_ still holds.
ReadThrows ==
  /\ ~open
  /\ readPc \in {"outside", "woken"}
  /\ inProgress' = (inProgress /\ readPc = "outside")
  /\ readPc' = "outside"
  /\ UNCHANGED <<open, main, help, ioPc, closePc, ioStopped, receives>>

-----------------------------------------------------------------------------
(* close_and_join()                                                        *)

Close ==
  /\ closePc = "outside"
  /\ open
  /\ open' = FALSE
  /\ closePc' = "receive"
  /\ UNCHANGED <<inProgress, main, help, readPc, ioPc, ioStopped, receives>>

CloseNotifyReceive ==
  /\ closePc = "receive"
  /\ NotifyReceive
  /\ closePc' = "stop"
  /\ UNCHANGED <<open, inProgress, main, help, ioPc, ioStopped, receives>>

\* submit_cv_ has no waiter in a server; then io_context_.stop().
CloseStop ==
  /\ closePc = "stop"
  /\ ioStopped' = TRUE
  /\ closePc' = "join"
  /\ UNCHANGED <<open, inProgress, main, help, readPc, ioPc, receives>>

CloseJoin ==
  /\ closePc = "join"
  /\ ioPc = "done"
  /\ closePc' = "closed"
  /\ UNCHANGED <<open, inProgress, main, help, readPc, ioPc, ioStopped, receives>>

-----------------------------------------------------------------------------

\* The transport has been opened: open() binds the socket and starts the thread.
ServerInit ==
  /\ open = TRUE /\ inProgress = FALSE
  /\ main = <<>> /\ help = <<>>
  /\ readPc = "outside" /\ ioPc = "read_async" /\ closePc = "outside"
  /\ ioStopped = FALSE
  /\ receives = 0

IoStep    == IoReadAsync \/ IoError \/ IoAppend \/ IoNotify \/ IoStop
CloseStep == CloseNotifyReceive \/ CloseStop \/ CloseJoin

-----------------------------------------------------------------------------
(* Properties.                                                             *)

\* The reader is never left asleep: while it waits, bytes have yet to be
\* announced by the handler, and a closed transport by close().
ReaderAwake ==
  readPc = "waiting" =>
    /\ inProgress
    /\ main # <<>> => ioPc = "notify"
    /\ open \/ closePc = "receive"
=============================================================================
