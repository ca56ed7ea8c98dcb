----------------------------- MODULE MCM3Server -----------------------------
(***************************************************************************)
(* Instances of M3Server.  Each behaviour has two datagrams to receive: a  *)
(* subject and a probe, a small batch that a reader which is out of step   *)
(* cannot read.  The subjects are the kinds of metrics the reporter        *)
(* builds, messages of later versions of the service (an unknown field at  *)
(* every place where one may stand), an unknown method, an empty datagram, *)
(* two messages in one and a datagram that is longer than the buffer.      *)
(***************************************************************************)
EXTENDS M3Server

Common  == ConvertTags(1 :> 1)
Counter == ReportMetric(3, ConvertTags(1 :> 2 @@ 2 :> 1), CreateCounter(7), 100)
Gauge   == ReportMetric(4, {}, CreateGauge(8), 100)
Timer   == ReportMetric(3, {}, CreateTimer(9), 101)
Bucket  == ReportMetric(3, BucketTagsOf(2 :> 1, 5, 6, 6, 5), CreateCounter(7), 100)

Datagram(tokens, batches) == [tokens |-> tokens, batches |-> batches]
Emitted(batch) == Datagram(SendEmitMetricBatch(batch), <<batch>>)

Probe == Emitted(EmissionBatch(<<Timer>>, {}))

OfReporter ==
  {Emitted(EmissionBatch(ms, Common)) : ms \in {<<Counter, Gauge>>, <<Bucket, Timer>>}}

\* Fields that this version does not know, or knows with another type.
Extras ==
  <<<<Field(9, "string"), Scalar("string", 1)>>,
    <<Field(1, "double"), Scalar("double", 1)>>,
    <<Field(9, "struct"), Field(1, "i64"), Scalar("i64", 1), Stop>>,
    <<Field(9, "list"), Begin("list", "struct", 1), Field(2, "string"),
      Scalar("string", 1), Stop>>>>

\* An extra field wherever a field may stand: the four messages together have
\* each of the extras at each of the places.
Evolved ==
  LET batch == EmissionBatch(<<Gauge>>, Common)
      plain == SendEmitMetricBatch(batch)
      Extended(i, k) ==
        (IF plain[i].kind \in {"field", "stop"} THEN Extras[((i + k) % 4) + 1] ELSE <<>>)
          \o <<plain[i]>>
  IN {Datagram(FlattenSeq([i \in DOMAIN plain |-> Extended(i, k)]), <<batch>>) : k \in 0 .. 3}

UnknownMethod ==
  Datagram(<<Message("emitMetricBatchV2")>> \o PargsWrite(EmissionBatch(<<Gauge>>, Common)),
           <<>>)

TwoMessages == Datagram(Probe.tokens \o Probe.tokens, Probe.batches \o Probe.batches)

TooLong == Emitted(EmissionBatch(<<Bucket, Bucket, Bucket>>, Common))

MCBufferSize == Len(TooLong.tokens) - 3

ASSUME OneTooLong == \A d \in Evolved \cup OfReporter : Len(d.tokens) <= MCBufferSize

Subjects ==
  OfReporter \cup Evolved \cup {UnknownMethod, TwoMessages, TooLong, Datagram(<<>>, <<>>)}

MCTraffic == {<<s, Probe>> : s \in Subjects}
=============================================================================
