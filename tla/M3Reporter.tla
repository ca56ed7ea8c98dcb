----------------------------- MODULE M3Reporter -----------------------------
(***************************************************************************)
(* The M3 reporter of m3/src/reporter_impl.{h,cc}: threads that hold a     *)
(* shared_ptr to the reporter call its Report and Flush methods, a         *)
(* background thread (Run) moves metrics from a bounded queue into the     *)
(* batch to emit, and the destructor stops that thread and joins it.       *)
(*                                                                         *)
(* Steps are cut at the lock operations.  A critical section is one step   *)
(* where nothing outside its mutex can see its middle.  The transport is   *)
(* abstract here: a call of emitMetricBatch delivers the batch or throws.  *)
(***************************************************************************)
EXTENDS Integers, Sequences

CONSTANTS
  Callers,        \* threads that hold a shared_ptr to the reporter
  Metrics,        \* the metrics they report
  Size,           \* Size[m]: bytes of m as Metric::write encodes it
  Overhead,       \* bytes of an empty MetricBatch with the common tags
  MaxPacketSize,  \* the max_packet_size given to the constructor
  MaxQueueSize,   \* max_queue_size_
  MaxReports,     \* bound: calls of a Report method
  MaxFlushes,     \* bound: calls of Flush from outside
  MaxSpurious     \* bound: spurious wakeups of the background thread

Bg   == "background"   \* the thread that runs Run
None == "none"         \* the owner of a free mutex

ASSUME ConstantsAssumption ==
  /\ Callers # {}
  /\ Bg \notin Callers
  /\ None \notin Callers
  /\ Metrics # {}
  /\ Size \in [Metrics -> Nat]
  /\ Overhead \in Nat
  /\ MaxPacketSize \in Nat
  /\ MaxQueueSize \in Nat
  /\ MaxReports \in Nat
  /\ MaxFlushes \in Nat
  /\ MaxSpurious \in Nat

\* max_packet_size_: a fifth of the packet is kept for the encoding overhead.
PacketLimit == (MaxPacketSize \div 5) * 4

\* What a local variable holds before its first assignment; nothing reads it.
AnyMetric == CHOOSE m \in Metrics : TRUE

VARIABLES
  run,            \* run_
  runMutex,       \* owner of run_mutex_
  queue,          \* queue_
  emissionMutex,  \* owner of emission_mutex_
  batch,          \* emission_batch_.metrics
  written,        \* calc_transport's written_
  metric,         \* the metric Run is processing
  bgPc,           \* where the background thread is
  pc,             \* where each caller is
  arg,            \* the metric each caller is reporting
  refs,           \* the callers that still hold a shared_ptr
  closed,         \* transport_->close() has been called
  reports, flushes, spurious,   \* uses of the three bounds
  \* History, read by no action:
  accepted,       \* every metric pushed on the queue, in order
  emitted,        \* every metric passed to emitMetricBatch, in order
  delivered,      \* the emitted metrics whose batch did not throw
  batchBytes,     \* the bytes of the metrics in batch
  counted         \* what `written' accounts for beside metrics

shared  == <<run, runMutex, queue, emissionMutex, batch, written, metric>>
threads == <<bgPc, pc, arg, refs, closed>>
bounds  == <<reports, flushes, spurious>>
history == <<accepted, emitted, delivered, batchBytes, counted>>
vars    == <<shared, threads, bounds, history>>

-----------------------------------------------------------------------------
(* Condition variable and emission, shared by several actions.             *)

\* bg_thread_cv_.notify_one(): Run is the only thread that waits on it, and a
\* notification that finds nobody waiting is lost.
NotifyBg == bgPc' = IF bgPc = "waiting" THEN "woken" ELSE bgPc

\* Flush() up to the call of emitMetricBatch: with nothing to emit the mutex
\* is released at once.
FlushLock(t) ==
  /\ emissionMutex = None
  /\ emissionMutex' = IF batch = <<>> THEN None ELSE t
  /\ UNCHANGED <<batch, history>>

\* Wrong on purpose: an exception returns before the batch is cleared.
FlushEmitKeepsRefused(t) ==
  /\ emissionMutex = t
  /\ emissionMutex' = None
  /\ emitted' = emitted \o batch
  /\ \/ delivered' = delivered \o batch /\ batch' = <<>> /\ batchBytes' = 0
     \/ UNCHANGED <<delivered, batch, batchBytes>>
  /\ UNCHANGED <<accepted, counted>>

\* The rest of Flush(): the batch is cleared whether or not the transport
\* throws, so a batch that could not be sent is gone.
FlushEmit(t) ==
  /\ emissionMutex = t
  /\ emissionMutex' = None
  /\ emitted' = emitted \o batch
  /\ \/ delivered' = delivered \o batch
     \/ delivered' = delivered
  /\ batch' = <<>>
  /\ batchBytes' = 0
  /\ UNCHANGED <<accepted, counted>>

-----------------------------------------------------------------------------
(* Wrong on purpose: forms of the operations below that plausible mistakes *)
(* would give them.  No specification uses them; each breaks a property.   *)

\* Enqueue locks queue_mutex_, which Run does not hold while it processes.
EnqueueLockOther(c) ==
  /\ pc[c] = "enqueue"
  /\ runMutex' = c
  /\ pc' = [pc EXCEPT ![c] = "enqueue_locked"]
  /\ UNCHANGED <<run, queue, emissionMutex, batch, written, metric,
                 bgPc, arg, refs, closed, bounds, history>>

\* Enqueue with the queue's limit off by one, or without its notification.
EnqueueVariant(c, limit, notify) ==
  LET accept == run /\ Len(queue) # limit IN
  /\ pc[c] = "enqueue_locked"
  /\ queue' = IF accept THEN Append(queue, arg[c]) ELSE queue
  /\ accepted' = IF accept THEN Append(accepted, arg[c]) ELSE accepted
  /\ IF accept /\ notify THEN NotifyBg ELSE UNCHANGED bgPc
  /\ runMutex' = None
  /\ pc' = [pc EXCEPT ![c] = "idle"]
  /\ UNCHANGED <<run, emissionMutex, batch, written, metric, arg, refs, closed,
                 bounds, emitted, delivered, batchBytes, counted>>

EnqueueOneTooMany(c) == EnqueueVariant(c, MaxQueueSize + 1, TRUE)
EnqueueSilent(c)     == EnqueueVariant(c, MaxQueueSize, FALSE)

\* Whoever drops a reference first runs the destructor.
ReleaseDestroys(c) ==
  /\ pc[c] = "idle"
  /\ refs' = refs \ {c}
  /\ pc' = [pc EXCEPT ![c] = IF refs = Callers THEN "dtor" ELSE "gone"]
  /\ UNCHANGED <<shared, bgPc, arg, closed, bounds, history>>

\* The destructor clears run_ without run_mutex_.
DtorStopUnlocked(c) ==
  /\ pc[c] = "dtor"
  /\ run' = FALSE
  /\ pc' = [pc EXCEPT ![c] = "dtor_notify"]
  /\ UNCHANGED <<runMutex, queue, emissionMutex, batch, written, metric,
                 bgPc, arg, refs, closed, bounds, history>>

\* The destructor joins without notifying.
DtorNotifyNobody(c) ==
  /\ pc[c] = "dtor_notify"
  /\ pc' = [pc EXCEPT ![c] = "dtor_join"]
  /\ UNCHANGED <<shared, bgPc, arg, refs, closed, bounds, history>>

\* Run sleeps with run_mutex_ held.
RunWaitLocked ==
  /\ bgPc = "dequeue"
  /\ queue = <<>>
  /\ bgPc' = "waiting"
  /\ UNCHANGED <<shared, pc, arg, refs, closed, bounds, history>>

\* The closing drain pops the metric at both ends of the loop's body.
RunDrainPops ==
  /\ bgPc = "drain"
  /\ queue # <<>>
  /\ metric' = Head(queue)
  /\ queue' = Tail(queue)
  /\ bgPc' = "process"
  /\ UNCHANGED <<run, runMutex, emissionMutex, batch, written,
                 pc, arg, refs, closed, bounds, history>>

\* Run returns without the last Flush.
RunDrainedNoFlush ==
  /\ bgPc = "drain"
  /\ queue = <<>>
  /\ bgPc' = "exit"
  /\ UNCHANGED <<shared, pc, arg, refs, closed, bounds, history>>

\* After the reset the current metric's size is not added again; or, in place
\* of the reset, the packet size is subtracted and the count underflows.
ProcessResetVariant(w) ==
  /\ bgPc = "reset"
  /\ written' = w
  /\ counted' = Overhead
  /\ bgPc' = "push"
  /\ UNCHANGED <<run, runMutex, queue, emissionMutex, batch, metric, pc, arg,
                 refs, closed, bounds, accepted, emitted, delivered, batchBytes>>

ProcessResetForgets   == ProcessResetVariant(Overhead)
ProcessResetSubtracts == ProcessResetVariant(written - MaxPacketSize)

-----------------------------------------------------------------------------
(* The callers.                                                            *)

\* A Report method builds the metric and calls Enqueue.
StartReport(c, m) ==
  /\ pc[c] = "idle"
  /\ reports < MaxReports
  /\ pc' = [pc EXCEPT ![c] = "enqueue"]
  /\ arg' = [arg EXCEPT ![c] = m]
  /\ reports' = reports + 1
  /\ UNCHANGED <<shared, bgPc, refs, closed, flushes, spurious, history>>

EnqueueLock(c) ==
  /\ pc[c] = "enqueue"
  /\ runMutex = None
  /\ runMutex' = c
  /\ pc' = [pc EXCEPT ![c] = "enqueue_locked"]
  /\ UNCHANGED <<run, queue, emissionMutex, batch, written, metric,
                 bgPc, arg, refs, closed, bounds, history>>

\* Enqueue under run_mutex_: a stopped reporter and a full queue drop the
\* metric, otherwise it is pushed and the background thread notified.
Enqueue(c) ==
  LET accept == run /\ Len(queue) # MaxQueueSize IN
  /\ pc[c] = "enqueue_locked"
  /\ queue' = IF accept THEN Append(queue, arg[c]) ELSE queue
  /\ accepted' = IF accept THEN Append(accepted, arg[c]) ELSE accepted
  /\ IF accept THEN NotifyBg ELSE UNCHANGED bgPc
  /\ runMutex' = None
  /\ pc' = [pc EXCEPT ![c] = "idle"]
  /\ UNCHANGED <<run, emissionMutex, batch, written, metric, arg, refs, closed,
                 bounds, emitted, delivered, batchBytes, counted>>

StartFlush(c) ==
  /\ pc[c] = "idle"
  /\ flushes < MaxFlushes
  /\ pc' = [pc EXCEPT ![c] = "flush"]
  /\ flushes' = flushes + 1
  /\ UNCHANGED <<shared, bgPc, arg, refs, closed, reports, spurious, history>>

CallerFlushLock(c) ==
  /\ pc[c] = "flush"
  /\ FlushLock(c)
  /\ pc' = [pc EXCEPT ![c] = IF batch = <<>> THEN "idle" ELSE "flush_emit"]
  /\ UNCHANGED <<run, runMutex, queue, written, metric,
                 bgPc, arg, refs, closed, bounds>>

CallerFlushEmit(c) ==
  /\ pc[c] = "flush_emit"
  /\ FlushEmit(c)
  /\ pc' = [pc EXCEPT ![c] = "idle"]
  /\ UNCHANGED <<run, runMutex, queue, written, metric,
                 bgPc, arg, refs, closed, bounds>>

\* A caller drops its shared_ptr; the last one runs the destructor.
Release(c) ==
  /\ pc[c] = "idle"
  /\ refs' = refs \ {c}
  /\ pc' = [pc EXCEPT ![c] = IF refs = {c} THEN "dtor" ELSE "gone"]
  /\ UNCHANGED <<shared, bgPc, arg, closed, bounds, history>>

-----------------------------------------------------------------------------
(* The destructor: stop, notify, join, close.                              *)

DtorStop(c) ==
  /\ pc[c] = "dtor"
  /\ runMutex = None
  /\ run' = FALSE
  /\ pc' = [pc EXCEPT ![c] = "dtor_notify"]
  /\ UNCHANGED <<runMutex, queue, emissionMutex, batch, written, metric,
                 bgPc, arg, refs, closed, bounds, history>>

DtorNotify(c) ==
  /\ pc[c] = "dtor_notify"
  /\ NotifyBg
  /\ pc' = [pc EXCEPT ![c] = "dtor_join"]
  /\ UNCHANGED <<shared, arg, refs, closed, bounds, history>>

DtorJoinAndClose(c) ==
  /\ pc[c] = "dtor_join"
  /\ bgPc = "done"
  /\ closed' = TRUE
  /\ pc' = [pc EXCEPT ![c] = "gone"]
  /\ UNCHANGED <<shared, bgPc, arg, refs, bounds, history>>

-----------------------------------------------------------------------------
(* The background thread.  It owns run_mutex_ from the moment it first     *)
(* locks it until it waits, and again from each wakeup to the next wait.   *)
(* queue_mutex_ is locked by this thread alone and so excludes nobody.     *)

\* Thread start, or the return of wait(): lock run_mutex_, then test run_.
RunLock ==
  /\ bgPc \in {"start", "woken"}
  /\ runMutex = None
  /\ runMutex' = Bg
  /\ bgPc' = IF run THEN "dequeue" ELSE "drain"
  /\ UNCHANGED <<run, queue, emissionMutex, batch, written, metric,
                 pc, arg, refs, closed, bounds, history>>

\* The inner loop pops a metric before it processes it.
RunDequeue ==
  /\ bgPc = "dequeue"
  /\ queue # <<>>
  /\ metric' = Head(queue)
  /\ queue' = Tail(queue)
  /\ bgPc' = "process"
  /\ UNCHANGED <<run, runMutex, emissionMutex, batch, written,
                 pc, arg, refs, closed, bounds, history>>

\* bg_thread_cv_.wait(run_lock) releases run_mutex_ and blocks in one step.
RunWait ==
  /\ bgPc = "dequeue"
  /\ queue = <<>>
  /\ runMutex' = None
  /\ bgPc' = "waiting"
  /\ UNCHANGED <<run, queue, emissionMutex, batch, written, metric,
                 pc, arg, refs, closed, bounds, history>>

\* The wait has no predicate: it may return without a notification.
SpuriousWakeup ==
  /\ bgPc = "waiting"
  /\ spurious < MaxSpurious
  /\ spurious' = spurious + 1
  /\ bgPc' = "woken"
  /\ UNCHANGED <<shared, pc, arg, refs, closed, reports, flushes, history>>

\* The closing drain processes the front of the queue, then pops it.
RunDrain ==
  /\ bgPc = "drain"
  /\ queue # <<>>
  /\ metric' = Head(queue)
  /\ bgPc' = "process"
  /\ UNCHANGED <<run, runMutex, queue, emissionMutex, batch, written,
                 pc, arg, refs, closed, bounds, history>>

RunDrained ==
  /\ bgPc = "drain"
  /\ queue = <<>>
  /\ bgPc' = "final_flush"
  /\ UNCHANGED <<shared, pc, arg, refs, closed, bounds, history>>

\* Process: add the metric's size to what calc_transport has seen.
Process ==
  /\ bgPc = "process"
  /\ written' = written + Size[metric]
  /\ bgPc' = IF written + Size[metric] > PacketLimit THEN "overflow_flush" ELSE "push"
  /\ UNCHANGED <<run, runMutex, queue, emissionMutex, batch, metric,
                 pc, arg, refs, closed, bounds, history>>

ProcessFlushLock ==
  /\ bgPc = "overflow_flush"
  /\ FlushLock(Bg)
  /\ bgPc' = IF batch = <<>> THEN "reset" ELSE "overflow_emit"
  /\ UNCHANGED <<run, runMutex, queue, written, metric,
                 pc, arg, refs, closed, bounds>>

ProcessFlushEmit ==
  /\ bgPc = "overflow_emit"
  /\ FlushEmit(Bg)
  /\ bgPc' = "reset"
  /\ UNCHANGED <<run, runMutex, queue, written, metric,
                 pc, arg, refs, closed, bounds>>

\* calc_transport->flush(), then an empty batch and the metric are written.
ProcessReset ==
  /\ bgPc = "reset"
  /\ written' = Overhead + Size[metric]
  /\ counted' = Overhead
  /\ bgPc' = "push"
  /\ UNCHANGED <<run, runMutex, queue, emissionMutex, batch, metric, pc, arg,
                 refs, closed, bounds, accepted, emitted, delivered, batchBytes>>

\* The end of Process, and the return to the loop it was called from: run_
\* cannot change while this thread owns run_mutex_, so it tells the loops apart.
ProcessPush ==
  /\ bgPc = "push"
  /\ emissionMutex = None
  /\ batch' = Append(batch, metric)
  /\ batchBytes' = batchBytes + Size[metric]
  /\ bgPc' = IF run THEN "dequeue" ELSE "pop"
  /\ UNCHANGED <<run, runMutex, queue, emissionMutex, written, metric, pc, arg,
                 refs, closed, bounds, accepted, emitted, delivered, counted>>

RunPop ==
  /\ bgPc = "pop"
  /\ queue' = Tail(queue)
  /\ bgPc' = "drain"
  /\ UNCHANGED <<run, runMutex, emissionMutex, batch, written, metric,
                 pc, arg, refs, closed, bounds, history>>

RunFinalFlushLock ==
  /\ bgPc = "final_flush"
  /\ FlushLock(Bg)
  /\ bgPc' = IF batch = <<>> THEN "exit" ELSE "final_emit"
  /\ UNCHANGED <<run, runMutex, queue, written, metric,
                 pc, arg, refs, closed, bounds>>

RunFinalFlushEmit ==
  /\ bgPc = "final_emit"
  /\ FlushEmit(Bg)
  /\ bgPc' = "exit"
  /\ UNCHANGED <<run, runMutex, queue, written, metric,
                 pc, arg, refs, closed, bounds>>

\* Run returns: run_lock's destructor releases run_mutex_.
RunExit ==
  /\ bgPc = "exit"
  /\ runMutex' = None
  /\ bgPc' = "done"
  /\ UNCHANGED <<run, queue, emissionMutex, batch, written, metric,
                 pc, arg, refs, closed, bounds, history>>

-----------------------------------------------------------------------------
(* The specification.                                                      *)

Init ==
  /\ run = TRUE
  /\ runMutex = None
  /\ queue = <<>>
  /\ emissionMutex = None
  /\ batch = <<>>
  /\ written = 0
  /\ metric = AnyMetric
  /\ bgPc = "start"
  /\ pc = [c \in Callers |-> "idle"]
  /\ arg = [c \in Callers |-> AnyMetric]
  /\ refs = Callers
  /\ closed = FALSE
  /\ reports = 0 /\ flushes = 0 /\ spurious = 0
  /\ accepted = <<>> /\ emitted = <<>> /\ delivered = <<>>
  /\ batchBytes = 0
  /\ counted = 0

\* What the code makes a thread do once it is inside a method.
CallerStep(c) ==
  \/ EnqueueLock(c) \/ Enqueue(c)
  \/ CallerFlushLock(c) \/ CallerFlushEmit(c)
  \/ DtorStop(c) \/ DtorNotify(c) \/ DtorJoinAndClose(c)

RunStep ==
  \/ RunLock \/ RunDequeue \/ RunWait \/ RunDrain \/ RunDrained
  \/ Process \/ ProcessFlushLock \/ ProcessFlushEmit \/ ProcessReset
  \/ ProcessPush \/ RunPop
  \/ RunFinalFlushLock \/ RunFinalFlushEmit \/ RunExit

Finished ==
  /\ closed
  /\ UNCHANGED vars

Next ==
  \/ \E c \in Callers :
       \/ \E m \in Metrics : StartReport(c, m)
       \/ StartFlush(c)
       \/ Release(c)
       \/ CallerStep(c)
  \/ RunStep
  \/ SpuriousWakeup
  \/ Finished

Spec == Init /\ [][Next]_vars

\* The scheduler keeps running a thread that can run.  Nothing obliges a
\* caller to report, to flush or to drop its reference.
Fairness ==
  /\ WF_vars(RunStep)
  /\ \A c \in Callers : WF_vars(CallerStep(c))

FairSpec == Spec /\ Fairness

-----------------------------------------------------------------------------
(* Properties.                                                             *)

\* Where each thread holds which mutex.
HoldsRun == {"dequeue", "process", "overflow_flush", "overflow_emit", "reset",
             "push", "drain", "pop", "final_flush", "final_emit", "exit"}
Emits    == {"overflow_emit", "final_emit"}
InProcess == {"process", "overflow_flush", "overflow_emit", "reset", "push"}
BgPcs    == HoldsRun \cup {"start", "waiting", "woken", "done"}
Working  == {"idle", "enqueue", "enqueue_locked", "flush", "flush_emit"}
Dtor     == {"dtor", "dtor_notify", "dtor_join"}

\* Every variable of the reporter has its type.
TypeOK ==
  /\ run \in BOOLEAN
  /\ runMutex \in Callers \cup {Bg, None}
  /\ emissionMutex \in Callers \cup {Bg, None}
  /\ queue \in Seq(Metrics) /\ batch \in Seq(Metrics)
  /\ written \in Nat /\ batchBytes \in Nat /\ counted \in {0, Overhead}
  /\ metric \in Metrics
  /\ bgPc \in BgPcs
  /\ pc \in [Callers -> Working \cup Dtor \cup {"gone"}]
  /\ arg \in [Callers -> Metrics]
  /\ refs \in SUBSET Callers
  /\ closed \in BOOLEAN
  /\ reports \in Nat /\ flushes \in Nat /\ spurious \in Nat
  /\ accepted \in Seq(Metrics) /\ emitted \in Seq(Metrics)
  /\ delivered \in Seq(Metrics)

\* What is on its way from the queue to the batch.  During the closing drain
\* the metric being processed is still at the front of the queue, and for one
\* step it is in the batch as well.
Undelivered ==
  CASE bgPc = "pop" -> Tail(queue)
    [] run /\ bgPc \in InProcess -> <<metric>> \o queue
    [] OTHER -> queue

\* No metric that Enqueue accepted is lost, duplicated or overtaken on its way
\* through queue_, Run, the batch and Flush, whatever the threads interleave
\* and whoever flushes in the middle of Process.
Conservation == accepted = emitted \o batch \o Undelivered

\* Run never sleeps on work: while it is blocked in bg_thread_cv_.wait the
\* queue is empty, and if the reporter has been stopped the destructor's
\* notify_one is still to come.
NoLostWakeup ==
  bgPc = "waiting" =>
    /\ queue = <<>>
    /\ run \/ \E c \in Callers : pc[c] = "dtor_notify"

\* When the destructor closes the transport, everything that was ever accepted
\* has been passed to emitMetricBatch (the drain at the top of Run).
DrainedAtClose == closed => emitted = accepted

\* A batch of two or more metrics fits the packet limit that Process applies,
\* with the common tags once written_ accounts for them: calc_transport may
\* overestimate the batch (Flush from outside does not reset it), never
\* underestimate it.
BatchFits == Len(batch) > 1 => counted + batchBytes <= PacketLimit

\* The backlog never exceeds max_queue_size_, the metric being processed
\* included: its slot is not refilled, because Run keeps run_mutex_ until it
\* has emptied the queue.
BacklogBounded == Len(Undelivered) <= MaxQueueSize

\* queue_ is used by one thread at a time although Enqueue does not lock
\* queue_mutex_: run_mutex_ alone keeps Enqueue and Run apart.
QueueExclusive ==
  \A c \in Callers :
    pc[c] = "enqueue_locked" =>
      /\ bgPc \notin HoldsRun
      /\ \A d \in Callers \ {c} : pc[d] # "enqueue_locked"

\* No Report call meets a stopped reporter: a thread inside Enqueue holds a
\* reference, and only the last one to go stops the reporter, so that a full
\* queue is the one reason to drop a metric ("This should never occur",
\* reporter_impl.cc:425, of the other).
EnqueueWhileRunning ==
  \A c \in Callers : pc[c] \in {"enqueue", "enqueue_locked"} => run

\* The reporter implements the channel: see MetricChannel.
Channel == INSTANCE MetricChannel WITH open <- ~closed
ImplementsChannel == Channel!Spec

\* Once the last reference is dropped the destructor returns: the background
\* thread drains, flushes, exits and is joined.
DestructorReturns == (refs = {}) ~> closed

\* The background thread empties the queue again and again.
QueueDrains == (queue # <<>>) ~> (queue = <<>>)

\* Report and Flush return to their caller.
CallsReturn ==
  \A c \in Callers : (pc[c] \in Working \ {"idle"}) ~> (pc[c] = "idle")

-----------------------------------------------------------------------------
(* The inductive invariant behind the safety properties.                   *)

\* A mutex is owned by the thread that is in a section it protects.
LockInv ==
  /\ runMutex = Bg <=> bgPc \in HoldsRun
  /\ emissionMutex = Bg <=> bgPc \in Emits
  /\ \A c \in Callers :
       /\ runMutex = c <=> pc[c] = "enqueue_locked"
       /\ emissionMutex = c <=> pc[c] = "flush_emit"

\* A caller works only while it holds a reference; the reporter is stopped
\* only when none is left, and closed only after the background thread ended.
LifeInv ==
  /\ \A c \in Callers : c \in refs <=> pc[c] \in Working
  /\ (\E c \in Callers : pc[c] \in Dtor) => refs = {}
  /\ ~run => refs = {}
  /\ closed => bgPc = "done"

\* Where the background thread can be, given run_ and what is left to do.
RunInv ==
  /\ bgPc = "dequeue" => run
  /\ bgPc \in {"drain", "pop", "final_flush", "final_emit", "exit", "done"} => ~run
  /\ bgPc \in InProcess /\ ~run => queue # <<>> /\ metric = Head(queue)
  /\ bgPc = "pop" => queue # <<>>
  /\ bgPc \in {"final_flush", "final_emit", "exit", "done"} => queue = <<>>
  /\ bgPc \in {"exit", "done"} => batch = <<>>

\* What calc_transport has counted covers the batch, and the metric about to
\* be pushed as well.
SizeInv ==
  /\ batch = <<>> => batchBytes = 0
  /\ bgPc # "push" => counted + batchBytes <= written
  /\ bgPc = "push" =>
       /\ counted + batchBytes + Size[metric] <= written
       /\ batch # <<>> => written <= PacketLimit
  /\ bgPc = "reset" => batch = <<>>
  /\ BatchFits

\* The inductive invariant: Init implies it, every step preserves it, and it
\* implies Conservation, NoLostWakeup, DrainedAtClose, BatchFits,
\* BacklogBounded, QueueExclusive and EnqueueWhileRunning.
IInv ==
  /\ TypeOK /\ LockInv /\ LifeInv /\ RunInv /\ SizeInv
  /\ Conservation /\ NoLostWakeup /\ BacklogBounded
=============================================================================
