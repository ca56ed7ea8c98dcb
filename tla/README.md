# A verification project for tally-cpp

tally-cpp is a C++ client library for metrics. A program creates counters,
gauges, timers and histograms from a *scope*; a background thread of the scope
reports their values to a *reporter* once per interval; the M3 reporter queues
them, batches them and sends them to an M3 agent over UDP. The interesting part
of the library is its threads: four kinds of them, six mutexes, four condition
variables (three of the five waits have no predicate) and lock-free counters
and gauges. The TLA+ modules here model those threads from the source, TLC
checks them on small instances, and TLAPS proves their safety properties for all
instances, and that the M3 reporter implements its abstract specification. The
receiving end, which the repository has for its tests, is modelled too, with the
encoding between the two.

## Inventory

| Component | State | Operations | Hard behaviour |
|---|---|---|---|
| `ScopeImpl` (`tally/src/scope_impl.cc`) | four maps of metrics, a registry of sub-scopes, `running_`, `running_mutex_`, `cv_`, a thread | `Counter`, `Gauge`, `Timer`, `Histogram`, `SubScope`, `Tagged`, `Run`, `Report`, destructor | timed wait without a predicate, notification lost between two iterations, final report while users still hold metrics |
| `CounterImpl` (`counter_impl.cc`) | atomic `current_`, plain `previous_` | `Inc`, `Report`, `Value` | lock-free increments during `Value`, single-thread rule for `Report`, wrap-around |
| `GaugeImpl` (`gauge_impl.cc`) | atomics `current_`, `updated_` | `Update`, `Report` | two stores against an exchange and a load |
| `HistogramImpl`, `HistogramBucket`, `Buckets` | sorted bounds, one counter per bucket | `Record`, `Report`, constructors of bounds | boundary values, the largest double, unsorted bounds |
| `TimerImpl`, `Stopwatch` | a reference to the reporter | `Record`, `Start`, `Stop` | calls the reporter directly, so it meets the reporter's locks; can outlive the scope |
| `Reporter::Impl` (`m3/src/reporter_impl.cc`) | `queue_`, `run_`, `emission_batch_`, three mutexes, `bg_thread_cv_`, a thread | `Report*`, `Flush`, `Run`, `Process`, `Enqueue`, destructor | wait without a predicate, flushes from outside in the middle of `Process`, drain at shutdown, size accounting |
| `TCalcTransport` (`calc_transport.cc`) | `written_` | `write_virt`, `flush`, `size` | its count outlives the batch it counts |
| `TUDPTransport::Impl` (`udp_transport_impl.cc`) | `open_`, `in_progress_`, `main_buffer_`, `help_buffer_`, two condition variables, an I/O thread | client: `write_virt`, `flush`, `write_async`; server: `read_virt`, `read_async`; `open`, `close` | flush waits without a predicate for a notification that may belong to another send; failed sends; one byte stream made of datagrams, cut at 1440 bytes; close against everything |
| Thrift types and service (`m3/include/m3/thrift`) | objects with `__isset` flags | `read`, `write`, `operator==`, `operator<`, `send_emitMetricBatch`, `dispatchCall`, `process_emitMetricBatch` | fields and methods of later versions, staying in step with a stream that has no message boundaries |
| `MockServer` (`m3/tests/mock_server.h`) | `stopped_`, `mutex_` | `serve`, `stop` | stop closes and joins with the mutex that the serving thread needs |
| Builders, no-op reporter, tests | - | - | setters, empty methods: not modelled |

How they interact: user threads call metrics (no lock) and the scope (map
mutexes). The scope's `Run` thread holds `running_mutex_` and calls
`Report*`/`Flush` of the reporter. These take `run_mutex_` (`Enqueue`) and
`emission_mutex_` (`Flush`). The reporter's `Run` thread takes `run_mutex_`,
then `emission_mutex_`, then calls the transport, whose `flush` hands the bytes
to the I/O thread under `mutex_` and waits for it. Destruction runs outside in:
the scope joins its thread and reports, then drops the reporter; the reporter
joins its thread and closes the transport; the transport joins the I/O thread.
On the other side a serving thread reads messages from the server transport,
which its own I/O thread fills, and gives the batches to a handler.

`PROJECT.json` lists the hazards line by line, with the properties that address
them, and maps every definition to the lines it models.

## Modules

| Module | Models | Composes / used by |
|---|---|---|
| `M3Reporter` | `Reporter::Impl` and `TCalcTransport`: callers, background thread, destructor | refines `MetricChannel` |
| `MetricChannel` | what a reporter promises: accept, emit in order and once, close empty | abstract specification |
| `UDPClient` | `TUDPTransport::Impl` opened as a client: clients, I/O thread, socket, close | |
| `ScopeLoop` | `ScopeImpl` with `CounterImpl`, `GaugeImpl` and bucket counts: users, `Run`, destructor | |
| `ScopeTree` | `SubScope`, `Tagged`, `ScopeID` and the walk of `Report` over the tree of scopes | |
| `Histogram` | `Buckets`, `HistogramImpl`, `HistogramBucket`: bounds, search, report | its bucket counts are counters of `ScopeLoop` |
| `BucketTags` | the texts and IDs that `Reporter::Impl` gives to buckets | takes what `Histogram` reports |
| `ScopeOverReporter` | a scope (`Run`, destructor) with a counter, and timers, as the callers of the reporter | extends `M3Reporter` |
| `ThriftTypes` | the structs of `m3_types.h`, their `read` and `write`, and the metrics the reporter builds | used by `M3Server` |
| `UDPServer` | `TUDPTransport::Impl` opened as a server: I/O thread, reader, close | used by `M3Server` |
| `M3Server` | `MockServer`'s serve loop and `stop` around `M3Processor`, over the server transport | extends `UDPServer` and `ThriftTypes` |
| `*Proofs` | the theorems of `M3Reporter`, `UDPClient`, `ScopeLoop`, `ScopeTree`, `Histogram`, `BucketTags`, `ScopeOverReporter` and `M3Server` | each extends its module; `ScopeOverReporterProofs` also extends `M3ReporterProofs` |
| `MC*` | small instances for TLC | |

Operators under the heading "Wrong on purpose" are variants of an operation with
a plausible mistake in it. No specification uses them; they exist to confirm
that each property fails when the code is wrong.

### M3Reporter

A step is a critical section, or the part of one that other threads can observe:
`emission_mutex_` is held while the transport is called, so `Flush` is two steps
(`FlushLock`, `FlushEmit`); `run_mutex_` is held by the background thread from
`RunLock` to `RunWait`, across many steps. `bgPc` and `pc` say where threads
are. `queue_mutex_` is locked by the background thread only, so it is left out.
`emitMetricBatch` delivers the batch or throws; both clear it. A metric is a
value with a size (`Size`, what `Metric::write` encodes); `Overhead` is the size
of an empty batch with the common tags, which `Process` counts after a flush but
not in the first batch. A caller that drops the last reference runs the
destructor, so no caller is inside a method by then.

History variables record what was accepted, emitted and delivered, the real size
of the batch (`batchBytes`) and what of the common tags `written_` includes
(`counted`).

### UDPClient

`write_virt` adds a numbered chunk to `main`; `flush` checks, sets `inProgress`,
notifies and waits; the I/O thread waits, moves `main` behind `help`, starts the
send; the socket sends all of `help` or fails; the handler clears `help` on
success, notifies and goes back to `write_async`. `close` clears `open_` under
the mutex and then notifies, stops and joins step by step. A UDP send is all or
nothing, so the handler's branch for a partial send is not reached. Calls that
throw because the transport is closed or a flush is in progress change nothing
and are stuttering steps. The transport is opened once.

### ScopeLoop

`Register` is the first `Counter`, `Gauge` or `Histogram` call for a metric, with
the creation of the sub-scope if it is new. The maps of the root come first in
`Maps` (`OwnMaps` of them) and gain metrics only while the root lives, since a
caller needs the root for that. A sub-scope is a `shared_ptr` that its users can
keep, so the other maps gain metrics at any time, also while the destructor of
the root stops, joins and reports, and after it. Metrics can be incremented and
updated at any time. `Report` walks the maps in order, each under its mutex, for
whichever thread executes it. `CounterImpl::Value` is cut between its reads and
its store, `GaugeImpl::Update` between its stores, `GaugeImpl::Report` between
exchange and load. Counters have `Modulus` values, read as signed. A scope built
with interval 0 has no thread: it never reports and its destructor returns at
once, which is one of the two initial states.

### ScopeTree

A call of `SubScope` or `Tagged` is two steps: `Start` merges the tags, computes
the ID and builds a scope without a lock; `Insert` is the critical section of
`registry_mutex_`, which gets the scope that is registered under the ID or adds
the new one. `path` is the stack of `Report()`'s recursive calls; a frame is
locked from the moment its registry is, and `Insert` waits for that mutex.
Strings are sequences of words and separators, so that `ScopeID`'s joining can
be ambiguous as it is in the code.

### Histogram

A double is an integer number of `DBL_MIN`. `CreateBuckets`, `Calculate` and the
bisection of `std::upper_bound` are operators; `Record` and the steps of
`Report` are actions, so samples can arrive in front of and behind a `Report`.
When the search returns `end()`, the code's behaviour is undefined: `pastEnd`
is set and nothing more is said. For bounds that do not ascend `std::upper_bound`
is undefined as well; there the operator does what the bisection of the usual
libraries does. A double that does not fit `int64_t` becomes
the smallest or the largest number, as on x86 and ARM.

### BucketTags

`DurationBucketString`, `FormatDuration`, `ValueBucketString` and `BucketID` as
operators, applied to the buckets of a histogram one after the other. A text is
the record of its numbers and its unit; a bucket ID is the sequence of its
decimal digits. `Thousand` and `Sixty` are parameters:
TLC's instance has 3 and 2, so that durations of a few hundred units cross all
units up to hours. A number half way between two decimals is rounded up, which
no property depends on.

### ScopeOverReporter

The actions of `M3Reporter`, with the scope as one caller and users of timers as
the others. A metric is the difference that a counter reports; 0, which a counter
never reports, is a timer's value. `ScopeRead` is `CounterImpl::Report`: it moves
`previous` and calls the reporter in one step (`ScopeLoop` has the finer
interleaving). The scope's `Flush` is not counted against a bound, since `Run`
flushes once per round for ever. The destructor of the scope drops its reference
after its last `Report`; whoever drops the last one, the scope or a user of a
timer, runs the reporter's destructor. `refused` records what `Enqueue` dropped.

### ThriftTypes

An object is a function from field numbers to values whose domain is the set of
fields that are set, or that have no flag, so one with all of its first fields is
a tuple; equality of objects is `operator==`. `With` is a `__set_` method: it
assigns the field and raises its flag.
The wire is a sequence of tokens, one for each call of `TProtocol` that moves
bytes. `write` methods are operators to sequences of tokens. `read` methods are
a table per struct (field number to type: the `switch` of the method) and an
explicit call stack that takes one token at a time, because another thread can
act, or the transport close, between any two reads. `skip` is the reading of a
struct without known fields. The order of `std::set<MetricTag>` is `TagLess`,
`operator<` of `operator.cpp`, which does not see whether a value is set;
`InOrder` is the iteration of a set.

### UDPServer and M3Server

The I/O thread clears `help`, receives, appends to `main` under the mutex,
notifies after it and starts again; an error starts it again as well. The
network delivers any of the datagrams sent, in any order, any number of times. A
read takes a token, waits for one, or throws once the transport is closed.
`servePc` follows the serve loop through `dispatchCall`, the `read` methods and
the handler. Nothing in `serve` catches what a handler throws, because
`process_emitMetricBatch` does. When a token does not fit (after a datagram that
was cut), what the code makes of the bytes depends on the encoding; the model
stops the serving thread there (`garbled`) and claims nothing about it. Tokens
are not split: a cut in the middle of one would come out as `garbled` too.

## Runs

| Run | Instance | Question | Result |
|---|---|---|---|
| `reporter` | 2 callers, sizes 1 and 4 against a limit of 4, queue of 2, 4 reports, 1 outside flush, 1 spurious wakeup | safety, refinement and liveness of the reporter | holds, 433 411 states |
| `udp_client` | 2 clients, packet of 2 chunks, 4 writes, 1 failed send, 1 spurious wakeup | conservation, exclusion, wakeups, termination | holds, 151 234 states |
| `udp_client_flush` | 1 client, 3 writes, no failure, no spurious wakeup | has flush handed its bytes over when it returns? | no |
| `udp_client_size` | 1 client, 4 writes, 1 failed send | does every datagram fit? | no |
| `scope` | a counter of the root, a counter and a gauge of sub-scopes, counters of 2 bits, 2 updaters, 2 increments, 2 updates | conservation of counts and gauges, final report, termination of the destructor, progress of reports | holds, 381 403 states |
| `scope_tree` | 2 callers, 4 calls, 3 levels, one name, two tag maps | get-or-create, complete reports, no starvation by `Report`'s locks | holds, 350 375 states |
| `scope_tree_tags` | 1 call, a tag that the root has | do provided tags win? | no |
| `histogram` | 72 shapes of up to 3 bounds that ascend or descend, values around the bounds and from the largest double on, 2 samples | search, reported ranges, conservation of samples | holds, 1 780 024 states |
| `bucket_tags` | 7530 triples of bounds, from under -1 s to over 2 h | are texts readable and tags distinct? | yes, 361 440 states |
| `scope_over_reporter` | a scope and one timer, 3 increments, 1 recorded value, queue of 1, packets of 2 metrics, 1 spurious wakeup | is every increment accounted for from `Inc` to `emitMetricBatch`? | holds, 216 148 states |
| `m3_server` | 10 pairs of datagrams, 2 receives | do the batches arrive as they were emitted; does the server end? | holds, 166 270 states |
| `bucket_tags_unit` | bounds from 0 to 1 s | is the unit the largest possible? | no |

Bounds. Four reports against a queue of two and a limit of four bytes reach a
full queue, an overflow with and without a batch, a metric larger than a packet
and an outside flush between any two steps of `Process`. Four chunks against a
packet of two reach an oversized buffer and a datagram that follows a failed
one. Two increments by 3 wrap a two-bit counter. Two
updates by two threads reach every order of their stores. Four calls by two
threads build each shape of a tree of three levels with a race for one ID at
every level. Two samples put one in front of and one behind a `Report` in
progress, or two into one bucket. A queue of one metric refuses the scope's
metric after the timer's and the other way round, and three increments give a
second report while the first is in the queue or in the batch. Each pair of
datagrams of `m3_server` is a subject and a probe that a reader which is out of
step cannot read; two receives give each alone, each twice, both orders, and an
error before or after. The subjects are counters, gauges, timers and buckets as
the reporter builds them; four messages that together have each of four foreign
fields (unknown string, struct and list, known number of another type) at every
place where a field can stand; an unknown method; two messages in one datagram;
an empty datagram; one that exceeds the buffer. Nothing in the code
depends on the number of callers except through the mutexes. For the safety
properties the proofs remove all these bounds, except for what `m3_server`
asks of the `read` methods.

Fairness. The background, I/O, `Run` and destructor steps are weakly fair: a
thread that can run is scheduled. Steps inside a call are weakly fair; starting
a call never is. The kernel completes a send (`Socket`); it never has to
deliver a datagram, and nobody has to stop the server or destroy a scope. In `ScopeLoop` the stop
in the destructor is strongly fair, because it needs `running_mutex_`, which
`Run` frees for a whole interval (of seconds) in each iteration; weak fairness
would not do, since a mutex may be taken by someone else each time. The timeout
of `wait_for` is part of `Run`'s fairness. `ScopeTree` makes `Insert` strongly
fair for the same reason: a registry is locked only during a `Report`.

### What the violations show

* `FlushedIsTaken`: after a send, the I/O thread may be back in `write_async`
  before the woken `flush` clears `in_progress_`. It then sends an empty
  datagram, and that send's notification ends the *next* flush before its bytes
  are taken. They wait in `main_buffer_` for another flush; if the transport is
  closed first, they are gone.
* `DatagramFits`: `flush` limits `main_buffer_`, but `help_buffer_` is sent, and
  it keeps the bytes of failed sends. (A second writer can exceed the limit as well,
  by adding to the buffer between the check in `flush` and the I/O thread's taking
  it: with `Clients = {c1, c2}` and no failed send TLC finds that. The run has one
  client because the M3 reporter writes under its `emission_mutex_`.)
* `ProvidedTagsWin`: `insert` does not overwrite the parent's tags.
* `LeastGranularUnit`: the test for microseconds is a copy of the one for
  milliseconds.

Three more comments do not say what the code does in every case, and the properties
that hold say how far they go.

* "Release the queue lock so other threads can enqueue metrics while this thread
  processes its current batch of metrics" (`reporter_impl.cc:369-370`):
  `QueueExclusive` holds, and is proved, because `Run` keeps `run_mutex_`, which
  `Enqueue` needs, so nobody enqueues meanwhile.
* "Ensure any buffered metrics are emitted" (`scope_impl.cc:68`): the scope's
  destructor reports and does not flush; `EmittedAtClose` therefore speaks of the end
  of the reporter, which a timer that outlives the scope can delay for any time, and
  `IncrementsEmitted` only of a scope that is not being destroyed.
* "Add a catch-all bucket for anything past the last bucket" (`histogram_impl.cc:59`):
  that bucket ends at the largest double. `FirstBucket` says that exactly the values
  below it find a bucket; infinity does not, and `Record` then uses `end()`. "Find the
  first bucket" (line 69) is so for bounds that ascend; exponential ones from below
  zero, which `ExponentialValues` accepts, descend. The bucket found is then another
  one, but its range still contains the value (`RangeHonest`).

`Accounted` says what a full queue costs. `previous_` has moved when `Enqueue`
refuses the difference, so these increments are never reported again; they are
exactly the sum of what was refused.

Limits of `m3_server`: skipped containers hold structs, not other containers;
the element type a set or list announces is the right one (the code does not
compare it); the handler is called in the serving thread and returns.

Two limits of properties that hold: `SameScope` is checked and proved for prefixes
and tags with distinct IDs, which is so when no name or tag value contains the
separators of `ScopeID` (the tag `a` with the value `1,b=2` has the ID of the two tags
`a=1` and `b=2`, and whoever asks second is given the scope of the other);
`RangeHonest` leaves out the two bounds of a duration histogram that stand for
infinities, which are casts of `DBL_MIN` and `DBL_MAX`.

`FinalReport` deserves a remark. What had been counted when the destructor began
is reported by `Run`'s last iteration already, since `Run` checks `running_`
only after it has reported. The destructor's own `Report` is needed for what
arrives between that and the end of `join`, which is what the property says. Sub-scopes
take metrics all that time: what they count before the join ends is included, and
what they count later is not waited for.

## Proofs

Every invariant that the passing runs check, and the refinement of
`MetricChannel`, is stated by a theorem for all values of the constants (for
`BatchesIntact` and `InStep` under a hypothesis on the traffic, proved for what
reporters and other peers send; see below). Each proof has the same
shape: an inductive invariant `IInv`, one lemma per conjunct or per action, and
one short theorem per property. TLC checked every `IInv` before it was proved.
The assumptions are those that the modules name (`...Assumption`); hypotheses
of single theorems are given below.

**`M3ReporterProofs`**: `TypeOK`, `Conservation`, `NoLostWakeup`,
`DrainedAtClose`, `BatchFits`, `BacklogBounded`, `QueueExclusive`,
`EnqueueWhileRunning`, for every set of callers and metrics, all sizes and
limits. `IInv` adds

* `LockInv`: a mutex is owned by the thread whose program counter is in a
  section it protects (so `Enqueue` and the background thread exclude each
  other, and nothing is pushed while a batch is being emitted);
* `LifeInv`: `run_` is cleared only when no reference is left, and the transport
  is closed only when the background thread has ended (this gives
  `EnqueueWhileRunning`: what the comment at `reporter_impl.cc:425` says should
  never occur does not);
* `RunInv`: the drain has the processed metric at the front of the queue, and
  after it queue and batch are empty (this gives `DrainedAtClose`);
* `SizeInv`: what `written_` counted covers the batch, and at the push also the
  metric to come (this gives `BatchFits`, also after a flush from outside, when
  `written_` is an overestimate).

There is one lemma per conjunct, with one step per action; the two actions that
move a metric across `Conservation` (`Enqueue`, `ProcessPush`) rest on lemmas
about concatenation. `Implementation` proves the refinement of `MetricChannel`
from the same invariant: an `Enqueue` that pushes is `Accept`, the three emitting
steps (`Flush`, a full batch, the end of `Run`) are `Emit` of the batch they
clear, closing the transport is `Close`, for which queue and batch must be empty,
and all other steps stutter.

**`UDPClientProofs`**: `TypeOK`, `BytesConserved`, `OneFlush`, `NoLostSubmit`,
for any number of clients and packet sizes. `SendInv` says that no send is in
progress or unhandled while the I/O thread is outside `io_context_.run`, so the
bytes that `write_async` moves are not those of a send that has succeeded. With
it and the types the other three are inductive together.

**`ScopeLoopProofs`**: `CountsConserved`, `SingleReporter`, `GaugeFresh`,
`GaugesGiven`, `FinalReport`, and type correctness (which no run checks by itself),
for any metrics, threads, scopes and width, and with sub-scopes that survive the
root.

* `PhaseInv` ties the destructor's place to `Run`'s: after the join `Run` is
  done, hence `SingleReporter`. It was not inductive at first: that a scope
  without an interval has no `Run` thread had to be said (`runPc = "done"`).
* `WalkInv` says what a thread inside `Report` holds and has still to visit,
  `DiffInv` that the difference it carries is the one between its load and
  `previous_`; with them `CountsConserved` is inductive modulo the width.
* `GivenInv`: a gauge whose flag is set, or about to be, has a value, and one that a
  `Report` has taken still has it (this gives `GaugesGiven`).
* `UseInv`, `Ahead`, `IsFinal`, `FinalInv`: what the last `Report`, the
  destructor's, has passed is not behind what was `due` at the join, and what
  it has not passed is ahead of it in its walk.

`NoValue` must not be one of the records that stand for an `Update` in progress
(`ScopeAssumption` says so).

**`ScopeTreeProofs`**: `ReportVisitsAll`, `OneScope` and `SameScope`, for trees
of any depth. `TreeInv` says that every scope but the root is in one registry,
that of an older scope. `WalkInv` says how far `Report` has come: nothing below
a scope that it has just entered is visited; below one whose registry it holds,
all that is not left is (`Insert` cannot add to it, because it is locked); below
one that it has left, all that is due is. `VisitInv` says that visited scopes
hang together with the root, so that nothing due can be cut off. `GivenInv` says
that a registry keeps what was given for an ID, from which `OneScope` follows
without a hypothesis. `SameScope` has one: the prefixes `P` and the tags `T`
contain the root's, are closed under what a call builds from a name or tags, and
have distinct IDs (`UniqueIDs`). That is what `scope_impl.h:78` claims of
`ScopeID`; TLC evaluates it for the prefixes and tags that the calls of the
instance can ask for (`MCDistinctIDs` in `MCScopeTree`).

**`HistogramProofs`**: `SamplesReported` for all shapes; `FirstBucket` if the
bounds are numbers up to the largest double (`Bounded`); `RangeHonest` if also
the bounds of durations are whole nanoseconds (`WholeNanoseconds`), which
durations are. TLC evaluates both hypotheses on the instance
(`MCShapesAssumption`). `LinearIsOrdered` proves that linear bounds ascend, which
the second half of `FirstBucket` is about. `UpperBound`'s bisection is recursive:
that it ends at a bucket that the value has not reached, behind one that it has,
whatever the order of the bounds, is proved by taking the least length for which
it would not (`LeastNumber`), as is that the recursive definition has a solution. `ReportInv` says that what has been reported and what
waits in the buckets that `Report` has not reached cover all that was recorded
before it began; a sample that arrives behind its position came later.

**`BucketTagsProofs`**: `DurationReadable` for all bounds and all factors between
the units, `TagsDistinct` for as many buckets as 20 digits count (a `uint64_t`
has no more). Both follow from what a sample is (`IInv`) and arithmetic:
rounding to the nearest number, the loss of `FormatDuration`, and that decimal
digits tell numbers apart. The tags of a scope come from a map, so a name
occurs once (`TagsAssumption`).

**`ScopeOverReporterProofs`**: `Accounted`, `EmittedAtClose`, and that the
reporter inside the system implements `MetricChannel`. The reporter's `IInv` is
proved again for the system's steps, because the scope's `Flush` is not counted
against the bound of outside flushes and `SystemSpec` does not imply `Spec`.
`ScopeInv` and `CallInv` say that only the scope reports differences, one at a
time, and drops its reference after its last report. The sums are cardinalities
of sets of pairs, about which the library has theorems, and not folds.

**`M3ServerProofs`**: `ReaderAwake`, which is inductive by itself, and
`BatchesIntact` and `InStep`, for any number of datagrams, in any order, repeated
or lost, for every size of the buffer and beside a `close` at any time.

* `Decode` is what a reader makes of a sequence of tokens if all of them are there
  and nobody stops it: a function, `Consume` applied token by token. Reading one
  sequence after another is reading their concatenation (`DecodeConcat`), and what
  the handler was given earlier makes no difference (`DecodeAfter`).
* `StreamInv`: the bytes received are some `c`, then `main`, then what the receive
  handler has in hand, and the serving thread is where `Decode` of `c` is. Bytes
  move from hand to `main` to `c`, one action at a time; a read that throws is the
  only way out, and only after `stopped_` (`TypeInv`: what is not open is stopped).
  TLC checked it, with the prefixes of the stream for `c`, before it was proved.
* From it `BatchesAreIntact` and `ReadersStayInStep` follow for traffic of which
  each datagram, read alone and from its start, gives the batches it means
  (`TrafficReadsBack`). That is a statement about `write` and `read`, without
  threads, buffers and order.
* `MessageReadsBack` is the round trip of a batch of any number of metrics made by
  `CreateCounter`, `CreateGauge` or `CreateTimer`, with any tags. A struct is read
  field by field (`UpTo` is the object whose first fields have been read), a field
  that is not set is not written and keeps its default, a container is read element
  by element, and inserting tags in the order of `operator<` gives the set that was
  written. `TagsBuilt` and `TagInserted` show that `ConvertTags` and the insertion
  of bucket tags give sets for which this order is total, which the round trip needs.
* `UnknownFieldsAreSkipped`: a struct at rest between two fields is left as it is by
  a field it does not know (a number of a later version, or a known number with
  another type): a scalar, a struct of unknown fields, of any depth, or a container
  of any number of scalars or such structs. A container directly inside a container
  is left out: the model's `Settle` returns from one loop at a time, and nothing that
  is sent has one.
* `PeerBatchesAreIntact` puts them together for `OfPeers`: a datagram carries any
  number of messages, and each is a reporter's batch, possibly with unknown fields
  wherever a struct waits for its next field (`Extends`; `ReadAlike` is that it gives
  what the plain message gives), or a call of a method that this version does not
  have. For this traffic `BatchesIntact` and `InStep` hold without a hypothesis about
  reading. The messages in `MCM3Server` are of this form: its extra fields stand
  before field and stop tokens, where a struct waits for its next field.

The inductions (over the tokens, the datagrams, the elements and the tags) take
the least number for which the statement would fail (`LeastNumber`), as does the
proof that the recursive functions, `FlattenSeq`'s among them, have solutions.

Only model-checked:

* liveness, which TLAPS does not support: `DestructorReturns`, `QueueDrains`,
  `CallsReturn`, `IncrementsReported`, `AskersServed`, `IncrementsEmitted`,
  `ArrivedHandled`, `ServeReturns`;
* the four properties that the code violates.

## Plan

1. Done: `M3Reporter`, `MetricChannel`, `UDPClient`, `ScopeLoop`, `ScopeTree`,
   `Histogram`, `BucketTags`, the proofs of the reporter's safety.
2. Done: `ThriftTypes`, `UDPServer`, `M3Server`, `ScopeOverReporter`.
3. Done: proofs of all invariants, of the refinement of `MetricChannel` by the
   reporter alone and under a scope, of the round trip of a batch and of the
   skipping of unknown fields and methods.
4. `ReporterOverUDP`: the chunks of messages of several emitters, kept whole by
   `emission_mutex_`, on top of the client transport, through the premature
   return of `flush`.

Not modelled, and why: of the generated Thrift code copies, `swap`, printing, the
concurrent client, the multiplexer and the factories, which nothing in the
repository uses; the bytes of `TCompactProtocol`, a library; builders' setters,
capabilities and the no-op reporter (no behaviour); rounding in the computation
of bucket bounds (TLC has no floating point); a transport that is opened again
after `close` (nothing in the repository does so; `io_context_` would need a
restart).
