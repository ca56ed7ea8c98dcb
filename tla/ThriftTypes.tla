----------------------------- MODULE ThriftTypes -----------------------------
(***************************************************************************)
(* The Thrift types of m3/include/m3/thrift: what their write() methods    *)
(* put on the wire, how their read() methods take it off again, and the    *)
(* metrics that m3/src/reporter_impl.cc builds from them.                  *)
(*                                                                         *)
(* An object is a function from field numbers to values.  Its domain holds *)
(* the fields that are set (__isset) and those that are not optional and   *)
(* so always have a value.  Two objects are equal exactly when operator==  *)
(* says so.  Strings are natural numbers, in the order of the strings, and *)
(* 0 is the empty one.                                                     *)
(*                                                                         *)
(* The wire is a sequence of tokens, one per call of TProtocol that moves  *)
(* bytes.  A struct begins without one: TCompactProtocol writes nothing.   *)
(***************************************************************************)
EXTENDS Integers, Sequences, FiniteSets, TLC, SequencesExt

-----------------------------------------------------------------------------
(* The calls of TProtocol.                                                 *)

Field(id, type)     == [kind |-> "field", id |-> id, type |-> type]
Stop                == [kind |-> "stop"]
Scalar(type, v)     == [kind |-> type, value |-> v]
Begin(type, elem, n) == [kind |-> type, elem |-> elem, size |-> n]
Message(name)       == [kind |-> "message", name |-> name]

Containers == {"set", "list"}

-----------------------------------------------------------------------------
(* Objects: default construction, order of tags.                           *)

EmptyText   == 0
NothingSet  == [id \in {} |-> 0]
CountValue  == NothingSet
GaugeValue  == NothingSet
TimerValue  == NothingSet
MetricValue == NothingSet
MetricTag   == <<EmptyText>>
Metric      == <<EmptyText>>
MetricBatch == <<(<<>>)>>
Args        == <<MetricBatch>>

\* The object with a field set.
With(o, id, v) == [i \in DOMAIN o \cup {id} |-> IF i = id THEN v ELSE o[i]]

\* MetricTag::operator<: an unset tagValue compares as the empty string.
TagValue(t) == IF 2 \in DOMAIN t THEN t[2] ELSE EmptyText
TagLess(a, b) == a[1] < b[1] \/ (a[1] = b[1] /\ TagValue(a) < TagValue(b))

\* std::set<MetricTag>::insert keeps what it has if the new tag is equivalent.
InsertTag(tags, t) ==
  IF \E u \in tags : ~TagLess(u, t) /\ ~TagLess(t, u) THEN tags ELSE tags \cup {t}

-----------------------------------------------------------------------------
(* write(): optional fields are written when they are set.                 *)

WriteScalar(o, id, type) ==
  IF id \in DOMAIN o THEN <<Field(id, type), Scalar(type, o[id])>> ELSE <<>>

WriteStruct(o, id, Write(_)) ==
  IF id \in DOMAIN o THEN <<Field(id, "struct")>> \o Write(o[id]) ELSE <<>>

WriteItems(items, Write(_)) == FlattenSeq([i \in DOMAIN items |-> Write(items[i])])

CountValueWrite(o) == WriteScalar(o, 1, "i64") \o <<Stop>>

GaugeValueWrite(o) ==
  WriteScalar(o, 1, "i64") \o WriteScalar(o, 2, "double") \o <<Stop>>

TimerValueWrite(o) ==
  WriteScalar(o, 1, "i64") \o WriteScalar(o, 2, "double") \o <<Stop>>

MetricValueWrite(o) ==
  WriteStruct(o, 1, CountValueWrite) \o WriteStruct(o, 2, GaugeValueWrite)
    \o WriteStruct(o, 3, TimerValueWrite) \o <<Stop>>

MetricTagWrite(o) ==
  WriteScalar(o, 1, "string") \o WriteScalar(o, 2, "string") \o <<Stop>>

\* The order in which a std::set is iterated.
InOrder(tags) ==
  CHOOSE s \in [1 .. Cardinality(tags) -> tags] :
    \A i, j \in 1 .. Cardinality(tags) : i < j => TagLess(s[i], s[j])

WriteTags(o, id) ==
  IF id \in DOMAIN o
  THEN <<Field(id, "set"), Begin("set", "struct", Cardinality(o[id]))>>
         \o WriteItems(InOrder(o[id]), MetricTagWrite)
  ELSE <<>>

MetricWrite(o) ==
  WriteScalar(o, 1, "string") \o WriteStruct(o, 2, MetricValueWrite)
    \o WriteScalar(o, 3, "i64") \o WriteTags(o, 4) \o <<Stop>>

MetricBatchWrite(o) ==
  <<Field(1, "list"), Begin("list", "struct", Len(o[1]))>>
    \o WriteItems(o[1], MetricWrite) \o WriteTags(o, 2) \o <<Stop>>

PargsWrite(batch) == <<Field(1, "struct")>> \o MetricBatchWrite(batch) \o <<Stop>>

\* M3Client::send_emitMetricBatch up to the flush of the transport.
SendEmitMetricBatch(batch) == <<Message("emitMetricBatch")>> \o PargsWrite(batch)

-----------------------------------------------------------------------------
(* read(): what the switch of each method knows.                           *)

\* Wrong on purpose: the case of dValue expects an integer.
GaugeValueFieldsCopied == <<"i64", "i64">>

CountValueFields  == <<"i64">>
GaugeValueFields  == <<"i64", "double">>
TimerValueFields  == <<"i64", "double">>
MetricValueFields == <<"CountValue", "GaugeValue", "TimerValue">>
MetricTagFields   == <<"string", "string">>
MetricFields      == <<"string", "MetricValue", "i64", "tags">>
MetricBatchFields == <<"metrics", "tags">>
ArgsFields        == <<"MetricBatch">>

\* A struct that skip() reads: none of its fields is known, all are dropped.
SkippedFields == NothingSet

Fields ==
  [CountValue  |-> CountValueFields,  GaugeValue  |-> GaugeValueFields,
   TimerValue  |-> TimerValueFields,  MetricValue |-> MetricValueFields,
   MetricTag   |-> MetricTagFields,   Metric      |-> MetricFields,
   MetricBatch |-> MetricBatchFields, Args        |-> ArgsFields,
   Skipped     |-> SkippedFields]

New ==
  [CountValue  |-> CountValue,  GaugeValue |-> GaugeValue, TimerValue |-> TimerValue,
   MetricValue |-> MetricValue, MetricTag  |-> MetricTag,  Metric     |-> Metric,
   MetricBatch |-> MetricBatch, Args       |-> Args,       Skipped    |-> NothingSet]

Structs == DOMAIN Fields

WireType(type) ==
  CASE type \in Structs -> "struct"
    [] type = "tags"    -> "set"
    [] type = "metrics" -> "list"
    [] OTHER            -> type

-----------------------------------------------------------------------------
(* The call stack of the read() methods.  A frame is one call: `of' is the *)
(* struct or the container it reads, `obj' what it has so far, `fid' the   *)
(* field it is in (0 while it skips one), `next' the kind of token it      *)
(* needs, `left' the elements a container still lacks.                     *)

Frame(type, obj) ==
  [of |-> type, obj |-> obj, fid |-> 0, next |-> "field", left |-> 0]

Loop(type, obj, elem, n) ==
  [of |-> type, obj |-> obj, fid |-> 0, next |-> elem, left |-> n]

\* readFieldBegin and the switch: a known number with the expected type, or 0
\* for skip().
Case(struct, t) ==
  LET known == Fields[struct] IN
  IF t.id \in DOMAIN known /\ WireType(known[t.id]) = t.type THEN t.id ELSE 0

\* A field that is a struct is read into the member as it is: nothing resets it.
ReadField(s, t) ==
  LET f   == Last(s)
      fid == Case(f.of, t)
      g   == [f EXCEPT !.fid = fid, !.next = t.type]
      sub == IF fid = 0 THEN Frame("Skipped", NothingSet)
             ELSE LET type == Fields[f.of][fid] IN
                  Frame(type, IF fid \in DOMAIN f.obj THEN f.obj[fid] ELSE New[type])
  IN Front(s) \o (IF t.type = "struct" THEN <<g, sub>> ELSE <<g>>)

\* readSetBegin, readListBegin: the container is cleared first.
ReadBegin(s, t) ==
  LET f == Last(s) IN
  Append(s, IF f.fid = 0 THEN Loop("items", <<>>, t.elem, t.size)
            ELSE IF t.kind = "set" THEN Loop("tags", {}, t.elem, t.size)
            ELSE Loop("metrics", <<>>, t.elem, t.size))

\* A value has been read; the frame that asked for it takes it.
Assign(f, v) ==
  CASE f.of = "tags"    -> [f EXCEPT !.obj = InsertTag(@, v), !.left = @ - 1]
    [] f.of = "metrics" -> [f EXCEPT !.obj = Append(@, v), !.left = @ - 1]
    [] f.of = "items"   -> [f EXCEPT !.left = @ - 1]
    [] f.of = "call"    -> [f EXCEPT !.obj = v, !.next = "done"]
    [] OTHER -> Frame(f.of, IF f.fid = 0 THEN f.obj ELSE With(f.obj, f.fid, v))

Return(s, v) == Append(Front(s), Assign(Last(s), v))

\* What follows without a token: the next element, or the end of a container.
Settle(s) ==
  LET f == Last(s) IN
  CASE f.of \in {"tags", "metrics", "items"} /\ f.left = 0 ->
         Return(Front(s), f.obj)
    [] f.of = "tags" /\ f.left > 0    -> Append(s, Frame("MetricTag", MetricTag))
    [] f.of = "metrics" /\ f.left > 0 -> Append(s, Frame("Metric", Metric))
    [] f.of = "items" /\ f.left > 0 /\ f.next = "struct" ->
         Append(s, Frame("Skipped", NothingSet))
    [] OTHER -> s

\* The token that the method at the top can go on with.
Fits(s, t) ==
  LET f == Last(s) IN
  IF f.of \in Structs /\ f.next = "field" THEN t.kind \in {"field", "stop"}
  ELSE t.kind = f.next

ReadToken(s, t) ==
  CASE t.kind = "field"       -> ReadField(s, t)
    [] t.kind = "stop"        -> Return(Front(s), Last(s).obj)
    [] t.kind \in Containers  -> ReadBegin(s, t)
    [] OTHER                  -> Return(s, t.value)

-----------------------------------------------------------------------------
(* What the reporter builds.  Every __set_ method sets its member and the  *)
(* __isset flag of it.                                                     *)

CreateCounter(v) == With(MetricValue, 1, With(CountValue, 1, v))
CreateGauge(v)   == With(MetricValue, 2, With(GaugeValue, 2, v))
CreateTimer(v)   == With(MetricValue, 3, With(TimerValue, 1, v))

Tag(name, value) == <<name, value>>

\* The tags come from an unordered_map, a function from names to values.
ConvertTags(tags) == {Tag(n, tags[n]) : n \in DOMAIN tags}

\* The two tags of a histogram's bucket.
BucketTagsOf(tags, bucketName, bucket, idName, id) ==
  InsertTag(InsertTag(ConvertTags(tags), Tag(bucketName, bucket)), Tag(idName, id))

ReportMetric(name, tags, value, now) ==
  <<name, value, now, tags>>

\* emission_batch_ at the time of a Flush.
EmissionBatch(metrics, commonTags) == <<metrics, commonTags>>
=============================================================================
