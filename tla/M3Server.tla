------------------------------ MODULE M3Server ------------------------------
(***************************************************************************)
(* The receiving end: a thread that serves the M3 service (the serve loop  *)
(* of m3/tests/mock_server.h around the generated M3Processor) reads from  *)
(* the server transport, and another one stops it.  The peers are clients  *)
(* of the service, of this version of m3.thrift or of a later one.         *)
(*                                                                         *)
(* The bytes of the transport are the tokens of ThriftTypes.  Once a cut   *)
(* datagram has made a read() method meet a token that it does not expect, *)
(* what it makes of the bytes is left open (garbled).                      *)
(***************************************************************************)
EXTENDS UDPServer, ThriftTypes

CONSTANT
  Traffic        \* the sequences of datagrams that peers may have sent, each a
                 \* record of its tokens and of the batches they mean

ASSUME TrafficAssumption ==
  \A s \in Traffic : \A i \in DOMAIN s :
    /\ s[i].tokens \in Seq(Range(s[i].tokens))
    /\ s[i].batches \in Seq(Range(s[i].batches))

VARIABLES
  sent,          \* the datagrams of this behaviour
  stack,         \* the calls of read() methods
  servePc,       \* where the serving thread is
  stopMutex,     \* owner of the server's mutex_
  stopped,       \* stopped_
  \* History, read by no action:
  arrived,       \* the indices of the datagrams received, in order
  handled        \* the batches given to the handler, in order

serveVars == <<stack, servePc, stopMutex, stopped, handled>>
vars == <<serverVars, serveVars, sent, arrived>>

-----------------------------------------------------------------------------
(* Wrong on purpose.                                                       *)

\* An unknown method's arguments are left unread.
DispatchCallUnread(t) ==
  IF t.name = "emitMetricBatch"
  THEN <<Frame("call", NothingSet), Frame("Args", Args)>>
  ELSE <<[Frame("call", NothingSet) EXCEPT !.next = "done"]>>

\* stop() does not set the flag before it closes.
StopForgets ==
  /\ closePc = "outside" /\ stopMutex = "free"
  /\ stopMutex' = "owner"
  /\ Close
  /\ UNCHANGED <<stack, servePc, stopped, handled, sent, arrived>>

-----------------------------------------------------------------------------
(* The network and the transport's own thread.                             *)

Arrive(i) ==
  /\ IoReceive(sent[i].tokens)
  /\ arrived' = Append(arrived, i)
  /\ UNCHANGED <<serveVars, sent>>

Io == IoStep /\ UNCHANGED <<serveVars, sent, arrived>>

-----------------------------------------------------------------------------
(* The serving thread.                                                     *)

\* The top of serve's loop: it ends when the server has been stopped.
ServeLoop ==
  /\ servePc = "loop"
  /\ stopMutex = "free"
  /\ servePc' = IF stopped THEN "returned" ELSE "process"
  /\ UNCHANGED <<serverVars, stack, stopMutex, stopped, handled, sent, arrived>>

\* read_virt inside a read() method blocks.
ServeWait ==
  /\ servePc \in {"process", "read"}
  /\ ReadWait
  /\ UNCHANGED <<serveVars, sent, arrived>>

\* dispatchCall: process_emitMetricBatch reads its arguments; those of a
\* method that is not in the map are skipped.
DispatchCall(t) ==
  IF t.name = "emitMetricBatch"
  THEN <<Frame("call", NothingSet), Frame("Args", Args)>>
  ELSE <<Frame("call", NothingSet), Frame("Skipped", NothingSet)>>

\* readMessageBegin
ServeMessage ==
  /\ servePc = "process"
  /\ Read(1) \/ ReadWoken(1)
  /\ IF Head(main).kind = "message"
     THEN stack' = DispatchCall(Head(main)) /\ servePc' = "read"
     ELSE stack' = <<>> /\ servePc' = "garbled"
  /\ UNCHANGED <<stopMutex, stopped, handled, sent, arrived>>

\* A read() method reads its next token.
ServeToken ==
  /\ servePc = "read"
  /\ Last(stack).next # "done"
  /\ Read(1) \/ ReadWoken(1)
  /\ IF Fits(stack, Head(main))
     THEN stack' = Settle(ReadToken(stack, Head(main))) /\ servePc' = "read"
     ELSE stack' = <<>> /\ servePc' = "garbled"
  /\ UNCHANGED <<stopMutex, stopped, handled, sent, arrived>>

\* The arguments are complete.  The handler gets the batch; that it throws makes
\* no difference.  For an unknown method the reply fails, since a server
\* transport cannot write, and serve catches that.
ServeCall ==
  LET args == Last(stack).obj IN
  /\ servePc = "read"
  /\ Last(stack).next = "done"
  /\ \/ /\ 1 \in DOMAIN args
        /\ handled' = Append(handled, args[1])
        /\ servePc' = "loop"
     \/ /\ 1 \notin DOMAIN args
        /\ servePc' = "catch"
        /\ UNCHANGED handled
  /\ stack' = <<>>
  /\ UNCHANGED <<serverVars, stopMutex, stopped, sent, arrived>>

\* read_virt throws because the transport is closed.
ServeThrows ==
  /\ servePc \in {"process", "read"}
  /\ servePc = "read" => Last(stack).next # "done"
  /\ ReadThrows
  /\ stack' = <<>>
  /\ servePc' = "catch"
  /\ UNCHANGED <<stopMutex, stopped, handled, sent, arrived>>

\* catch (const TTransportException&) in serve
ServeCatch ==
  /\ servePc = "catch"
  /\ stopMutex = "free"
  /\ servePc' = IF stopped THEN "returned" ELSE "loop"
  /\ UNCHANGED <<serverVars, stack, stopMutex, stopped, handled, sent, arrived>>

Serve == \/ ServeLoop \/ ServeWait \/ ServeMessage \/ ServeToken \/ ServeCall
         \/ ServeThrows \/ ServeCatch

-----------------------------------------------------------------------------
(* stop(), with mutex_ locked until the transport is closed.               *)

Stopping ==
  /\ closePc = "outside" /\ stopMutex = "free"
  /\ stopMutex' = "owner"
  /\ stopped' = TRUE
  /\ Close
  /\ UNCHANGED <<stack, servePc, handled, sent, arrived>>

CloseTransport == CloseStep /\ UNCHANGED <<serveVars, sent, arrived>>

StopReturns ==
  /\ closePc = "closed" /\ stopMutex = "owner"
  /\ stopMutex' = "free"
  /\ UNCHANGED <<serverVars, stack, servePc, stopped, handled, sent, arrived>>

-----------------------------------------------------------------------------
(* The specification.                                                      *)

Init ==
  /\ ServerInit
  /\ sent \in Traffic
  /\ stack = <<>> /\ servePc = "loop"
  /\ stopMutex = "free" /\ stopped = FALSE
  /\ arrived = <<>> /\ handled = <<>>

Finished == servePc \in {"returned", "garbled"} /\ closePc = "closed" /\ UNCHANGED vars

Next ==
  \/ \E i \in DOMAIN sent : Arrive(i)
  \/ Io
  \/ Serve
  \/ Stopping \/ CloseTransport \/ StopReturns
  \/ Finished

Spec == Init /\ [][Next]_vars

\* Threads that can run do run.  No datagram has to arrive, and nobody has to
\* stop the server.
FairSpec ==
  Spec /\ WF_vars(Io) /\ WF_vars(Serve) /\ WF_vars(CloseTransport \/ StopReturns)

-----------------------------------------------------------------------------
(* Properties.                                                             *)

\* A datagram longer than the buffer has been received as the k-th.
Cut(k) == Len(sent[arrived[k]].tokens) > BufferSize

\* The batches of the datagrams received before such a one, in order of arrival.
Carried ==
  LET whole == {k \in DOMAIN arrived : \A j \in 1 .. k : ~Cut(j)} IN
  FlattenSeq([k \in whole |-> sent[arrived[k]].batches])

\* Whatever is lost, repeated or reordered on the way, and wherever the stream
\* of bytes is cut into reads, the handler is given the batches that arrived,
\* equal to those that were emitted and in order, also from peers that send
\* fields, types and methods this version does not know.  Only what follows a
\* datagram longer than the buffer may be anything.
BatchesIntact ==
  \/ IsPrefix(handled, Carried)
  \/ IsPrefix(Carried, handled) /\ \E k \in DOMAIN arrived : Cut(k)

\* The read() methods stay in step with the messages: a token that does not
\* fit can only follow a datagram that was longer than the buffer, and when
\* all bytes are read the thread is between two messages with all of them
\* handled.
InStep ==
  (\A k \in DOMAIN arrived : ~Cut(k)) =>
    /\ servePc # "garbled"
    /\ (servePc \in {"loop", "process"} /\ main = <<>> /\ ioPc # "received")
         => handled = Carried

\* What arrives whole is handled, unless the server is stopped first.
ArrivedHandled ==
  (Len(handled) < Len(Carried)) ~> (Len(handled) >= Len(Carried) \/ stopped)

\* Once the transport is closed, close() wakes a reader that waits, joins the I/O
\* thread and returns; the serve loop ends, and does not spin on a transport that
\* throws.
ServeReturns == ~open ~> (stopMutex = "free" /\ servePc \in {"returned", "garbled"})
=============================================================================
