------------------------------ MODULE UDPClient ------------------------------
(***************************************************************************)
(* TUDPTransport::Impl of m3/src/udp_transport_impl.{h,cc}, opened as a    *)
(* client: threads write bytes into main_buffer_ and flush them, an I/O    *)
(* thread moves them to help_buffer_ and sends that as one datagram, and   *)
(* close stops and joins the I/O thread.                                   *)
(*                                                                         *)
(* Every section under mutex_ is one step.  A call that throws because the *)
(* transport is not open, or because a flush is in progress, changes       *)
(* nothing and is a stuttering step.  A chunk (what one write_virt adds)   *)
(* is numbered, and its size is the unit of MaxPacket.                     *)
(***************************************************************************)
EXTENDS Integers, Sequences

CONSTANTS
  Clients,      \* threads that share the transport
  MaxPacket,    \* MAX_UDP_PACKET_SIZE, in chunks
  MaxWrites,    \* bound: calls of write_virt
  MaxErrors,    \* bound: sends that fail
  MaxSpurious   \* bound: spurious wakeups of flush

ASSUME ClientAssumption ==
  /\ Clients # {}
  /\ MaxPacket \in Nat
  /\ MaxWrites \in Nat
  /\ MaxErrors \in Nat
  /\ MaxSpurious \in Nat

VARIABLES
  open,        \* open_
  inProgress,  \* in_progress_
  main,        \* main_buffer_
  help,        \* help_buffer_
  pc,          \* where each client is
  ioPc,        \* where the I/O thread is
  op,          \* the asynchronous send, as the I/O context sees it
  stopped,     \* io_context_.stop() has been called
  writes, errors, spurious,   \* uses of the three bounds
  \* History, read by no action:
  kept,        \* every chunk written, less those flush discarded
  taken,       \* every chunk the I/O thread has moved out of main
  sent,        \* every chunk of every datagram sent, in order
  covers       \* the last chunk each client has asked to flush

buffers == <<main, help>>
bounds  == <<writes, errors, spurious>>
history == <<kept, taken, sent, covers>>
vars    == <<open, inProgress, buffers, pc, ioPc, op, stopped, bounds, history>>

\* receive_cv_.notify_one(): wakes a thread that waits in flush, if there is one.
NotifyReceive(c) ==
  IF \E d \in Clients : pc[d] = "flushing"
  THEN \E d \in Clients :
         pc[d] = "flushing" /\ pc' = [c EXCEPT ![d] = "woken"]
  ELSE pc' = c

\* submit_cv_.notify_one(): only the I/O thread waits on it.
NotifySubmit == ioPc' = IF ioPc = "waiting" THEN "woken" ELSE ioPc

-----------------------------------------------------------------------------
(* Wrong on purpose: forms of the operations below that plausible mistakes *)
(* would give them.  No specification uses them; each breaks a property.   *)

\* write_virt copies one byte past the end of its argument.
WriteOverrun(c) ==
  /\ pc[c] = "idle"
  /\ open
  /\ writes < MaxWrites
  /\ writes' = writes + 1
  /\ main' = main \o <<writes + 1, 0>>
  /\ kept' = kept \o <<writes + 1, 0>>
  /\ UNCHANGED <<open, inProgress, help, pc, ioPc, op, stopped, errors, spurious,
                 taken, sent, covers>>

\* flush with its conditions relaxed, or without its notification.
FlushVariant(c, concurrent, limit, notify) ==
  /\ pc[c] = "idle"
  /\ open /\ (concurrent \/ ~inProgress)
  /\ main # <<>> /\ Len(main) <= limit
  /\ inProgress' = TRUE
  /\ IF notify THEN NotifySubmit ELSE UNCHANGED ioPc
  /\ pc' = [pc EXCEPT ![c] = "flushing"]
  /\ covers' = [covers EXCEPT ![c] = writes]
  /\ UNCHANGED <<open, buffers, op, stopped, bounds, kept, taken, sent>>

FlushConcurrent(c) == FlushVariant(c, TRUE, MaxPacket, TRUE)
FlushOneTooMany(c) == FlushVariant(c, FALSE, MaxPacket + 1, TRUE)
FlushSilent(c)     == FlushVariant(c, FALSE, MaxPacket, FALSE)

\* close leaves a waiting flush asleep.
CloseSkipsReceive(c) ==
  /\ pc[c] = "close_receive"
  /\ pc' = [pc EXCEPT ![c] = "close_submit"]
  /\ UNCHANGED <<open, inProgress, buffers, ioPc, op, stopped, bounds, history>>

\* The handler leaves what it has sent in help_buffer_.
IoHandlerKeeps ==
  /\ ioPc = "run" /\ op \in {"sent", "failed"}
  /\ ~stopped
  /\ op' = "none"
  /\ ioPc' = "notify"
  /\ UNCHANGED <<open, inProgress, buffers, pc, stopped, bounds, history>>

-----------------------------------------------------------------------------
(* The calls of the clients.                                               *)

\* open(): the new thread blocks on mutex_ until open_ is set.  The transport
\* is opened once, as the reporter does.
Open(c) ==
  /\ pc[c] = "idle"
  /\ ioPc = "none"
  /\ open' = TRUE
  /\ ioPc' = "write_async"
  /\ UNCHANGED <<inProgress, buffers, pc, op, stopped, bounds, history>>

\* write_virt()
Write(c) ==
  /\ pc[c] = "idle"
  /\ open
  /\ writes < MaxWrites
  /\ writes' = writes + 1
  /\ main' = Append(main, writes + 1)
  /\ kept' = Append(kept, writes + 1)
  /\ UNCHANGED <<open, inProgress, help, pc, ioPc, op, stopped, errors, spurious,
                 taken, sent, covers>>

\* flush() up to receive_cv_.wait, which releases mutex_ as it blocks.
Flush(c) ==
  /\ pc[c] = "idle"
  /\ open /\ ~inProgress
  /\ main # <<>> /\ Len(main) <= MaxPacket
  /\ inProgress' = TRUE
  /\ NotifySubmit
  /\ pc' = [pc EXCEPT ![c] = "flushing"]
  /\ covers' = [covers EXCEPT ![c] = writes]
  /\ UNCHANGED <<open, buffers, op, stopped, bounds, kept, taken, sent>>

\* flush() of a buffer that exceeds the packet size: it is cleared, and the
\* call throws.
FlushTooLarge(c) ==
  /\ pc[c] = "idle"
  /\ open /\ ~inProgress
  /\ Len(main) > MaxPacket
  /\ main' = <<>>
  /\ kept' = taken
  /\ UNCHANGED <<open, inProgress, help, pc, ioPc, op, stopped, bounds,
                 taken, sent, covers>>

\* flush() after the wait: it returns, or throws if the transport was closed.
FlushReturn(c) ==
  /\ pc[c] = "woken"
  /\ inProgress' = FALSE
  /\ pc' = [pc EXCEPT ![c] = "idle"]
  /\ UNCHANGED <<open, buffers, ioPc, op, stopped, bounds, history>>

\* That wait has no predicate: it may return without a notification.
SpuriousWakeup(c) ==
  /\ pc[c] = "flushing"
  /\ spurious < MaxSpurious
  /\ spurious' = spurious + 1
  /\ pc' = [pc EXCEPT ![c] = "woken"]
  /\ UNCHANGED <<open, inProgress, buffers, ioPc, op, stopped, writes, errors,
                 history>>

\* close_and_join(): clear open_ under mutex_, then notify both condition
\* variables, stop the I/O context and join the thread.
Close(c) ==
  /\ pc[c] = "idle"
  /\ open
  /\ open' = FALSE
  /\ pc' = [pc EXCEPT ![c] = "close_receive"]
  /\ UNCHANGED <<inProgress, buffers, ioPc, op, stopped, bounds, history>>

CloseNotifyReceive(c) ==
  /\ pc[c] = "close_receive"
  /\ NotifyReceive([pc EXCEPT ![c] = "close_submit"])
  /\ UNCHANGED <<open, inProgress, buffers, ioPc, op, stopped, bounds, history>>

CloseNotifySubmit(c) ==
  /\ pc[c] = "close_submit"
  /\ NotifySubmit
  /\ pc' = [pc EXCEPT ![c] = "close_stop"]
  /\ UNCHANGED <<open, inProgress, buffers, op, stopped, bounds, history>>

CloseStop(c) ==
  /\ pc[c] = "close_stop"
  /\ stopped' = TRUE
  /\ pc' = [pc EXCEPT ![c] = "close_join"]
  /\ UNCHANGED <<open, inProgress, buffers, ioPc, op, bounds, history>>

CloseJoin(c) ==
  /\ pc[c] = "close_join"
  /\ ioPc = "done"
  /\ pc' = [pc EXCEPT ![c] = "idle"]
  /\ UNCHANGED <<open, inProgress, buffers, ioPc, op, stopped, bounds, history>>

-----------------------------------------------------------------------------
(* The I/O thread: write_async, io_context_.run and the send's handler.    *)

\* write_async() on a closed transport starts no operation, so run() is out
\* of work and the thread ends.
IoQuit ==
  /\ ioPc \in {"write_async", "woken"}
  /\ ~open
  /\ ioPc' = "done"
  /\ UNCHANGED <<open, inProgress, buffers, pc, op, stopped, bounds, history>>

\* Its wait has a predicate: without a flush in progress it blocks (again).
IoWait ==
  /\ ioPc \in {"write_async", "woken"}
  /\ open /\ ~inProgress
  /\ ioPc' = "waiting"
  /\ UNCHANGED <<open, inProgress, buffers, pc, op, stopped, bounds, history>>

\* Otherwise the bytes move behind what help still holds, and the send starts.
IoSubmit ==
  /\ ioPc \in {"write_async", "woken"}
  /\ open /\ inProgress
  /\ help' = help \o main
  /\ main' = <<>>
  /\ taken' = taken \o main
  /\ op' = "sending"
  /\ ioPc' = "run"
  /\ UNCHANGED <<open, inProgress, pc, stopped, bounds, kept, sent, covers>>

\* The socket: a UDP send takes the whole datagram or fails.
SocketSend ==
  /\ ioPc = "run" /\ op = "sending"
  /\ op' = "sent"
  /\ sent' = sent \o help
  /\ UNCHANGED <<open, inProgress, buffers, pc, ioPc, stopped, bounds,
                 kept, taken, covers>>

SocketFail ==
  /\ ioPc = "run" /\ op = "sending"
  /\ errors < MaxErrors
  /\ errors' = errors + 1
  /\ op' = "failed"
  /\ UNCHANGED <<open, inProgress, buffers, pc, ioPc, stopped, writes, spurious,
                 history>>

\* The handler under mutex_: help is kept when the send failed.
IoHandler ==
  /\ ioPc = "run" /\ op \in {"sent", "failed"}
  /\ ~stopped
  /\ help' = IF op = "sent" THEN <<>> ELSE help
  /\ op' = "none"
  /\ ioPc' = "notify"
  /\ UNCHANGED <<open, inProgress, main, pc, stopped, bounds, history>>

\* The handler notifies the flush it takes to be waiting and calls write_async.
IoNotify ==
  /\ ioPc = "notify"
  /\ NotifyReceive(pc)
  /\ ioPc' = "write_async"
  /\ UNCHANGED <<open, inProgress, buffers, op, stopped, bounds, history>>

\* A stopped I/O context runs no more handlers.
IoStopped ==
  /\ ioPc = "run"
  /\ stopped
  /\ ioPc' = "done"
  /\ UNCHANGED <<open, inProgress, buffers, pc, op, stopped, bounds, history>>

-----------------------------------------------------------------------------
(* The specification.                                                      *)

Init ==
  /\ open = FALSE /\ inProgress = FALSE
  /\ main = <<>> /\ help = <<>>
  /\ pc = [c \in Clients |-> "idle"]
  /\ ioPc = "none" /\ op = "none" /\ stopped = FALSE
  /\ writes = 0 /\ errors = 0 /\ spurious = 0
  /\ kept = <<>> /\ taken = <<>> /\ sent = <<>>
  /\ covers = [c \in Clients |-> 0]

\* What the code makes a thread do once it is inside a call.
ClientStep(c) ==
  \/ FlushReturn(c)
  \/ CloseNotifyReceive(c) \/ CloseNotifySubmit(c) \/ CloseStop(c) \/ CloseJoin(c)

IoStep ==
  \/ IoQuit \/ IoWait \/ IoSubmit \/ IoHandler \/ IoNotify \/ IoStopped

Socket == SocketSend \/ SocketFail

Finished ==
  /\ ioPc = "done"
  /\ \A c \in Clients : pc[c] = "idle"
  /\ UNCHANGED vars

Next ==
  \/ \E c \in Clients :
       \/ Open(c) \/ Write(c) \/ Flush(c) \/ FlushTooLarge(c) \/ Close(c)
       \/ SpuriousWakeup(c)
       \/ ClientStep(c)
  \/ IoStep
  \/ Socket
  \/ Finished

Spec == Init /\ [][Next]_vars

\* Threads that can run do run, and the kernel completes a send.  No client
\* has to write, to flush or to close.
FairSpec ==
  /\ Spec
  /\ WF_vars(IoStep) /\ WF_vars(Socket)
  /\ \A c \in Clients : WF_vars(ClientStep(c))

-----------------------------------------------------------------------------
(* Properties.                                                             *)

Chunks  == 1 .. MaxWrites
InFlush == {"flushing", "woken"}
InClose == {"close_receive", "close_submit", "close_stop", "close_join"}

\* Every variable of the transport has its type: the buffers hold chunks that
\* were written and nothing else.
TypeOK ==
  /\ open \in BOOLEAN /\ inProgress \in BOOLEAN /\ stopped \in BOOLEAN
  /\ main \in Seq(Chunks) /\ help \in Seq(Chunks)
  /\ kept \in Seq(Chunks) /\ taken \in Seq(Chunks) /\ sent \in Seq(Chunks)
  /\ pc \in [Clients -> {"idle"} \cup InFlush \cup InClose]
  /\ ioPc \in {"none", "write_async", "waiting", "woken", "run", "notify", "done"}
  /\ op \in {"none", "sending", "sent", "failed"}
  /\ writes \in 0 .. MaxWrites /\ errors \in Nat /\ spurious \in Nat
  /\ covers \in [Clients -> Nat]

\* Bytes travel main_buffer_, help_buffer_, socket in the order they were
\* written, each of them once, through failed sends, premature wakeups of
\* flush, concurrent writes and close.
BytesConserved ==
  /\ kept = taken \o main
  /\ taken = sent \o (IF op = "sent" THEN <<>> ELSE help)

\* in_progress_ is set exactly while one thread is inside flush's wait, so a
\* second flush is refused and never waits beside the first.
OneFlush ==
  /\ inProgress <=> \E c \in Clients : pc[c] \in InFlush
  /\ \A c, d \in Clients : pc[c] \in InFlush /\ pc[d] \in InFlush => c = d

\* The I/O thread never sleeps through a flush or a close: blocked in
\* submit_cv_.wait, it has no flush to serve, and close has still to notify it.
NoLostSubmit ==
  ioPc = "waiting" =>
    /\ ~inProgress
    /\ open \/ \E c \in Clients : pc[c] \in {"close_receive", "close_submit"}

\* Every call ends: a flush, whether its bytes are sent, refused or cut off by
\* close, and close() itself, since the I/O thread sees the stop wherever it is.
CallsReturn == \A c \in Clients : (pc[c] # "idle") ~> (pc[c] = "idle")

\* "Flush flushes any metrics the BaseStatsReporter may have buffered"
\* (base_stats_reporter.h:36): when flush returns from an open transport, none
\* of the bytes it was asked to send is left in main_buffer_.
FlushedIsTaken ==
  [][\A c \in Clients :
       FlushReturn(c) /\ open => \A i \in 1 .. Len(main) : main[i] > covers[c]]_vars

\* "Maximum size of UDP packet" (udp_transport_impl.cc:38): no datagram handed
\* to the socket exceeds it.
DatagramFits == op = "sending" => Len(help) <= MaxPacket

-----------------------------------------------------------------------------
(* The inductive invariant behind the safety properties.                   *)

\* A send is on its way only while the I/O thread runs the I/O context, or
\* after it has left it for good: write_async finds none, and starts one.
SendInv == ioPc \notin {"run", "done"} => op = "none"

\* Init implies it and every step preserves it.
IInv == TypeOK /\ SendInv /\ BytesConserved /\ OneFlush /\ NoLostSubmit
=============================================================================
