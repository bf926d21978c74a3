--------------------------- MODULE Intake_proofs ---------------------------
(***************************************************************************)
(* The intake for any input and any replies: what the conversion tool      *)
(* hands over is accepted, the gate is exact, and nothing is done that the *)
(* replies did not say in full.                                            *)
(***************************************************************************)
EXTENDS Intake, SafetyGate_proofs
LOCAL INSTANCE FiniteSetsExt   \* Min
LOCAL INSTANCE Functions       \* Restrict

\* The tool may be given any document, main.py any file, and the AI may answer
\* anything whose plan has numbers where the gate compares them.
Init == \E m \in Modes \cup {None} : \E doc, f : InitWith(m, doc, f)

Comparable(reply) ==
  /\ reply # None
  /\ WholeDecide(reply) => WellFormed(Plan(reply))

Next ==
  \/ Tool
  \/ Accept
  \/ \E reply : Detect(reply)
  \/ \E reply : Comparable(reply) /\ Decide(reply)
  \/ \E status \in {"COMPLETED", "FAILED"} : Execute(status)
  \/ \E reply : Verify(reply)

Spec == Init /\ [][Next]_vars

-----------------------------------------------------------------------------
\* The converters.

\* A point that came out of normalize_point().
Made(p) ==
  /\ p = [ts |-> p.ts, tenant_id |-> p.tenant_id, service |-> p.service,
          signal_name |-> p.signal_name, value |-> p.value, labels |-> p.labels]
  /\ p.ts = [form |-> p.ts.form, instant |-> p.ts.instant]
  /\ p.value.text \notin {"pii", "secret"}
  /\ p.labels = [k \in DOMAIN p.labels |-> p.labels[k]]

\* A stamp whose instant is stated by the document, or that its digits spell, if it
\* can be read at all.
Dated(stamp, raw, converter) ==
  \/ stamp = Unreadable
  \/ \E i \in Stated(raw) \cup {Now, None} : stamp = Canonical(i)
  \/ stamp = Canonical(Spelt) /\ SpellsDate(raw, converter)

LEMMA NormalizedIsMade == ASSUME NEW point, NEW m PROVE Made(NormalizePoint(point, m))
<1> DEFINE p == NormalizePoint(point, m)
<1>1. p.ts = [form |-> p.ts.form, instant |-> p.ts.instant]
  BY DEF NormalizePoint, NormalizeTimestamp, Canonical, Unreadable
<1>2. p.value.text \notin {"pii", "secret"}
  BY DEF NormalizePoint, ScrubValue, Text
<1>3. p.labels = [k \in DOMAIN p.labels |-> p.labels[k]]
  BY DEF NormalizePoint, Completed, ++
<1>4. p = [ts |-> p.ts, tenant_id |-> p.tenant_id, service |-> p.service,
           signal_name |-> p.signal_name, value |-> p.value, labels |-> p.labels]
  BY DEF NormalizePoint
<1> QED
  BY <1>1, <1>2, <1>3, <1>4 DEF Made

\* A point carries the mark of its converter.
LEMMA Marked ==
  ASSUME NEW point, NEW m PROVE NormalizePoint(point, m).labels.cdo_source_mode = m
BY DEF NormalizePoint, Completed, ++

\* a or b or ... is one of them.
LEMMA OneOfAlong ==
  ASSUME NEW d, NEW S, NEW keys \in Seq(S), keys # <<>>, NEW absent, NEW false
  PROVE  \E i \in DOMAIN keys : OrAlong(d, keys, absent, false) = GetOr(d, keys[i], absent)
<1> DEFINE true == {i \in DOMAIN keys : GetOr(d, keys[i], absent) \notin false}
<1>1. CASE true = {}
  <2>1. Len(keys) \in DOMAIN keys
    OBVIOUS
  <2> QED
    BY <1>1, <2>1 DEF OrAlong
<1>2. CASE true # {}
  <2> true \in SUBSET Nat
    OBVIOUS
  <2>1. PICK least \in true : \A i \in true : least =< i
    <3> HIDE DEF true
    <3>1. PICK least \in true : \A i \in true : ~(i < least)
      BY <1>2, LeastNatural
    <3> QED
      BY <3>1
  <2>2. Min(true) \in true
    BY <2>1 DEF Min
  <2> QED
    BY <1>2, <2>2 DEF OrAlong
<1> QED
  BY <1>1, <1>2

\* The stamp of a record, in whatever unit, keeps its instant or is refused.
LEMMA StampKept ==
  ASSUME NEW raw, NEW r \in Records(raw), NEW f \in StampFields, NEW m
  PROVE  /\ m \notin {"real_log_event", "real_otel_span"} =>
              Dated(NormalizeTimestamp(Get(r, f)), raw, m)
         /\ Dated(TimestampFromRaw(Get(r, f)), raw, m)
<1> DEFINE stamp == Get(r, f)
<1>1. stamp # None => stamp.instant \in Stated(raw) /\ stamp \in StampsOf(r)
  <2> SUFFICES ASSUME stamp # None
               PROVE  stamp.instant \in Stated(raw) /\ stamp \in StampsOf(r)
    OBVIOUS
  <2>1. stamp \in StampsOf(r)
    BY DEF StampsOf, Get, GetOr
  <2>2. stamp.instant \in StatedBy(r)
    BY <2>1 DEF StatedBy
  <2> QED
    BY <2>1, <2>2 DEF Stated
<1> HIDE DEF stamp
<1>2. ASSUME stamp # None /\ stamp.form \in DateSpelling => stamp.form \in TakenForDates(m)
      PROVE  Dated(NormalizeTimestamp(stamp), raw, m)
  <2>1. CASE stamp = None
    BY <2>1 DEF NormalizeTimestamp, Dated
  <2>2. CASE stamp # None /\ stamp.form \in {"rfc3339ms", "rfc3339"}
    <3>1. NormalizeTimestamp(stamp) = Canonical(stamp.instant)
      BY <2>2 DEF NormalizeTimestamp, DateSpelling
    <3> QED
      BY <1>1, <2>2, <3>1 DEF Dated
  <2>3. CASE stamp # None /\ stamp.form \in DateSpelling
    <3>1. NormalizeTimestamp(stamp) = Canonical(Spelt)
      BY <2>3 DEF NormalizeTimestamp, DateSpelling
    <3>2. SpellsDate(raw, m)
      BY <1>1, <1>2, <2>3 DEF SpellsDate
    <3> QED
      BY <3>1, <3>2 DEF Dated
  <2>4. CASE stamp # None /\ stamp.form \notin DateSpelling \cup {"rfc3339ms", "rfc3339"}
    BY <2>4 DEF NormalizeTimestamp, Dated
  <2> QED
    BY <2>1, <2>2, <2>3, <2>4
<1>3. ASSUME stamp # None, stamp.form \in DOMAIN Magnitude
      PROVE  Dated(TimestampFromRaw(stamp), raw, m)
  <2>1. stamp.form \in {"s", "ms", "us", "ns", "ms_date", "ns_date"}
    BY <1>3 DEF Magnitude
  <2>2. \/ Magnitude[UnitRead(stamp.form)] = Magnitude[stamp.form]
        \/ Magnitude[UnitRead(stamp.form)] < Magnitude[stamp.form]
    BY <2>1 DEF Magnitude, UnitRead
  <2>3. TimestampFromRaw(stamp) \in {Canonical(stamp.instant), Unreadable}
    BY <1>3, <2>1, <2>2 DEF TimestampFromRaw, Magnitude, UnitRead
  <2> QED
    BY <1>1, <1>3, <2>3 DEF Dated
<1>4. ASSUME stamp = None \/ stamp.form \notin DOMAIN Magnitude
      PROVE  Dated(TimestampFromRaw(stamp), raw, m)
  <2>1. "digits_date" \in TakenForDates(m)
    BY DEF TakenForDates, DateSpelling
  <2>2. DOMAIN Magnitude = {"s", "ms", "us", "ns", "ms_date", "ns_date"}
    BY DEF Magnitude
  <2>3. stamp # None /\ stamp.form \in DateSpelling => stamp.form = "digits_date"
    BY <1>4, <2>2 DEF DateSpelling
  <2>4. Dated(NormalizeTimestamp(stamp), raw, m)
    BY <1>2, <2>1, <2>3
  <2>5. TimestampFromRaw(stamp) = NormalizeTimestamp(stamp)
    BY <1>4 DEF TimestampFromRaw
  <2> QED
    BY <2>4, <2>5
<1>5. m \notin {"real_log_event", "real_otel_span"} => Dated(NormalizeTimestamp(stamp), raw, m)
  <2>1. m \notin {"real_log_event", "real_otel_span"} => TakenForDates(m) = DateSpelling
    BY DEF TakenForDates
  <2> QED
    BY <1>2, <2>1
<1>6. Dated(TimestampFromRaw(stamp), raw, m)
  BY <1>3, <1>4
<1> QED
  BY <1>5, <1>6 DEF stamp

\* Normalized once more, it stays.
LEMMA DatedTwice ==
  ASSUME NEW raw, NEW stamp, NEW m, Dated(stamp, raw, m)
  PROVE  Dated(NormalizeTimestamp(stamp), raw, m)
BY DEF Dated, NormalizeTimestamp, Canonical, Unreadable, DateSpelling

\* The first stamp that a record has of four.
LEMMA FirstStampKept ==
  ASSUME NEW raw, NEW r \in Records(raw), NEW keys \in Seq(StampFields), keys # <<>>, NEW m
  PROVE  LET stamp == OrAlong(r, keys, None, NoStamp) IN
         /\ m \notin {"real_log_event", "real_otel_span"} =>
              Dated(NormalizeTimestamp(stamp), raw, m)
         /\ Dated(TimestampFromRaw(stamp), raw, m)
<1>1. PICK i \in DOMAIN keys : OrAlong(r, keys, None, NoStamp) = Get(r, keys[i])
  BY OneOfAlong DEF Get
<1>2. keys[i] \in StampFields
  OBVIOUS
<1> QED
  BY <1>1, <1>2, StampKept

-----------------------------------------------------------------------------
\* What the converters make of a document: points out of normalize_point(),
\* dated by the document.
From(points, raw) ==
  \A p \in points : p = Empty \/ (Made(p) /\ Dated(p.ts, raw, p.labels.cdo_source_mode))

LEMMA PointFrom ==
  ASSUME NEW raw, NEW point, NEW m, Dated(NormalizeTimestamp(Get(point, "ts")), raw, m)
  PROVE  LET p == NormalizePoint(point, m) IN
         Made(p) /\ Dated(p.ts, raw, p.labels.cdo_source_mode)
<1>1. NormalizePoint(point, m).ts = NormalizeTimestamp(Get(point, "ts"))
  BY DEF NormalizePoint
<1> QED
  BY <1>1, NormalizedIsMade, Marked

LEMMA WindowFrom ==
  ASSUME NEW raw, NEW points \in SUBSET Records(raw),
         NEW m, m \notin {"real_log_event", "real_otel_span"}
  PROVE  From(NormalizeWindow(points, m), raw)
<1> SUFFICES ASSUME NEW point \in points
             PROVE  LET p == NormalizePoint(point, m) IN
                    Made(p) /\ Dated(p.ts, raw, p.labels.cdo_source_mode)
  BY DEF From, NormalizeWindow
<1> QED
  BY StampKept, PointFrom DEF StampFields

LEMMA PrometheusFrom ==
  ASSUME NEW raw, NEW answer, \A item \in Series(answer) : Sample(item).instant \in Stated(raw),
         NEW signal, NEW service, NEW namespace, NEW deployment
  PROVE  From(FromPrometheusResult(answer, signal, service, namespace, deployment), raw)
<1> SUFFICES ASSUME NEW item \in Series(answer), NEW tenant, NEW svc, NEW value, NEW labels
             PROVE  LET p == NormalizePoint(
                               [ts |-> Canonical(Sample(item).instant), tenant_id |-> tenant,
                                service |-> svc, signal_name |-> signal, value |-> value,
                                labels |-> labels],
                               "real_prometheus")
                    IN  Made(p) /\ Dated(p.ts, raw, p.labels.cdo_source_mode)
  BY DEF From, FromPrometheusResult
<1> DEFINE point == [ts |-> Canonical(Sample(item).instant), tenant_id |-> tenant,
                     service |-> svc, signal_name |-> signal, value |-> value,
                     labels |-> labels]
<1>1. Get(point, "ts") = Canonical(Sample(item).instant)
  BY DEF Get, GetOr
<1>2. Dated(Get(point, "ts"), raw, "real_prometheus")
  BY <1>1 DEF Dated
<1> QED
  BY <1>2, DatedTwice, PointFrom

LEMMA EventsFrom == ASSUME NEW raw PROVE From(FromKubernetesEvents(raw), raw)
<1> DEFINE keys == <<"eventTime", "lastTimestamp", "firstTimestamp">>
<1> SUFFICES ASSUME NEW item \in GetOr(raw, "items", {}),
                    NEW tenant, NEW svc, NEW signal, NEW value, NEW labels
             PROVE  LET p == NormalizePoint(
                               [ts |-> OrAlong(item, keys, None, NoStamp), tenant_id |-> tenant,
                                service |-> svc, signal_name |-> signal, value |-> value,
                                labels |-> labels],
                               "real_k8s_event")
                    IN  Made(p) /\ Dated(p.ts, raw, p.labels.cdo_source_mode)
  BY DEF From, FromKubernetesEvents
<1> DEFINE stamp == OrAlong(item, keys, None, NoStamp)
           point == [ts |-> stamp, tenant_id |-> tenant, service |-> svc,
                     signal_name |-> signal, value |-> value, labels |-> labels]
<1>1. item \in Records(raw)
  BY DEF Records
<1>2. keys \in Seq(StampFields) /\ keys # <<>>
  BY DEF StampFields
<1>3. Dated(NormalizeTimestamp(stamp), raw, "real_k8s_event")
  <2> HIDE DEF keys
  <2> QED
    BY <1>1, <1>2, FirstStampKept
<1>4. Get(point, "ts") = stamp
  BY DEF Get, GetOr
<1> QED
  BY <1>3, <1>4, PointFrom

LEMMA LogsFrom ==
  ASSUME NEW raw, NEW events \in SUBSET Records(raw), NEW parent
  PROVE  From(FromLogEvents(events, parent), raw)
<1> DEFINE keys == <<"ts", "timestamp", "@timestamp", "time">>
<1> SUFFICES ASSUME NEW event \in events,
                    NEW tenant, NEW svc, NEW signal, NEW value, NEW labels
             PROVE  LET p == NormalizePoint(
                               [ts |-> TimestampFromRaw(OrAlong(event, keys, None, NoStamp)),
                                tenant_id |-> tenant, service |-> svc, signal_name |-> signal,
                                value |-> value, labels |-> labels],
                               "real_log_event")
                    IN  Made(p) /\ Dated(p.ts, raw, p.labels.cdo_source_mode)
  BY DEF From, FromLogEvents
<1> DEFINE stamp == TimestampFromRaw(OrAlong(event, keys, None, NoStamp))
           point == [ts |-> stamp, tenant_id |-> tenant, service |-> svc,
                     signal_name |-> signal, value |-> value, labels |-> labels]
<1>1. keys \in Seq(StampFields) /\ keys # <<>>
  BY DEF StampFields
<1>2. Dated(stamp, raw, "real_log_event")
  <2> HIDE DEF keys
  <2> QED
    BY <1>1, FirstStampKept
<1>3. Get(point, "ts") = stamp
  BY DEF Get, GetOr
<1> QED
  BY <1>2, <1>3, DatedTwice, PointFrom

LEMMA SpansFrom ==
  ASSUME NEW raw, NEW spans \in SUBSET Records(raw), NEW parent
  PROVE  From(FromOtelSpans(spans, parent), raw)
<1> DEFINE keys == <<"ts", "startTimeUnixNano", "start_time_unix_nano", "startTime">>
<1> SUFFICES ASSUME NEW span \in spans,
                    NEW tenant, NEW svc, NEW signal, NEW value, NEW labels
             PROVE  LET p == NormalizePoint(
                               [ts |-> TimestampFromRaw(OrAlong(span, keys, None, NoStamp)),
                                tenant_id |-> tenant, service |-> svc, signal_name |-> signal,
                                value |-> value, labels |-> labels],
                               "real_otel_span")
                    IN  Made(p) /\ Dated(p.ts, raw, p.labels.cdo_source_mode)
  BY DEF From, FromOtelSpans
<1> DEFINE stamp == TimestampFromRaw(OrAlong(span, keys, None, NoStamp))
           point == [ts |-> stamp, tenant_id |-> tenant, service |-> svc,
                     signal_name |-> signal, value |-> value, labels |-> labels]
<1>1. keys \in Seq(StampFields) /\ keys # <<>>
  BY DEF StampFields
<1>2. Dated(stamp, raw, "real_otel_span")
  <2> HIDE DEF keys
  <2> QED
    BY <1>1, FirstStampKept
<1>3. Get(point, "ts") = stamp
  BY DEF Get, GetOr
<1> QED
  BY <1>2, <1>3, DatedTwice, PointFrom

LEMMA ExportFrom == ASSUME NEW raw PROVE From(FromOtelExport(raw), raw)
<1> SUFFICES ASSUME NEW p \in FromOtelExport(raw)
             PROVE  p = Empty \/ (Made(p) /\ Dated(p.ts, raw, p.labels.cdo_source_mode))
  BY DEF From
<1>1. PICK resource \in GetOr(raw, "resourceSpans", {}) :
        \E spans \in GetOr(resource, "scopeSpans", {}) :
          p \in FromOtelSpans(spans, ResourceParent(resource))
  BY DEF FromOtelExport
<1>2. PICK spans \in GetOr(resource, "scopeSpans", {}) :
        p \in FromOtelSpans(spans, ResourceParent(resource))
  BY <1>1
<1>3. ASSUME NEW span \in spans
      PROVE  span \in Records(raw)
  <2>1. span \in UNION GetOr(resource, "scopeSpans", {})
    OBVIOUS
  <2>2. span \in ExportedSpans(raw)
    BY <2>1 DEF ExportedSpans
  <2> QED
    BY <2>2 DEF Records
<1> QED
  BY <1>2, <1>3, SpansFrom DEF From

LEMMA UnsupportedFrom == ASSUME NEW raw PROVE From(Unsupported, raw)
BY DEF From, Unsupported

LEMMA ListsAreRecords ==
  ASSUME NEW raw, NEW list \in {"telemetry_window", "items", "logEvents", "list"},
         list \in DOMAIN raw
  PROVE  raw[list] \in SUBSET Records(raw)
BY DEF Records, GetOr

LEMMA AutoListFrom ==
  ASSUME NEW raw, NEW list \in SUBSET Records(raw) PROVE From(AutoList(list), raw)
BY LogsFrom, SpansFrom, WindowFrom, UnsupportedFrom DEF AutoList

LEMMA AutoPrometheusFrom == ASSUME NEW raw PROVE From(AutoPrometheus(raw), raw)
<1>1. PICK signal, service, namespace, deployment :
        AutoPrometheus(raw) = FromPrometheusResult(raw, signal, service, namespace, deployment)
  BY DEF AutoPrometheus
<1>2. \A item \in Series(raw) : Sample(item).instant \in Stated(raw)
  BY DEF Stated
<1> QED
  BY <1>1, <1>2, PrometheusFrom

LEMMA AutoFrom == ASSUME NEW raw PROVE From(AutoNormalize(raw), raw)
<1>1. CASE "telemetry_window" \in DOMAIN raw
  BY <1>1, ListsAreRecords, WindowFrom DEF AutoNormalize
<1>2. CASE "telemetry_window" \notin DOMAIN raw
  <2>1. {raw} \in SUBSET Records(raw)
    BY DEF Records
  <2>2. "logEvents" \in DOMAIN raw => From(FromLogEvents(raw.logEvents, raw), raw)
    BY ListsAreRecords, LogsFrom
  <2>3. "list" \in DOMAIN raw => From(AutoList(raw.list), raw)
    BY ListsAreRecords, AutoListFrom
  <2> QED
    BY <1>2, <2>1, <2>2, <2>3, AutoPrometheusFrom, EventsFrom, ExportFrom, LogsFrom,
       UnsupportedFrom DEF AutoNormalize
<1> QED
  BY <1>1, <1>2

\* Every mode of the tool.
LEMMA ConvertedFrom ==
  ASSUME NEW m \in Modes, NEW raw PROVE From(Converted(m, raw), raw)
<1>1. CASE m = "auto"
  BY <1>1, AutoFrom DEF Converted
<1>2. CASE m = "scenario"
  BY <1>2, ListsAreRecords, WindowFrom, UnsupportedFrom DEF Converted
<1>3. CASE m = "prometheus"
  <2>1. CASE ~Has(raw, {"input", "signal_name", "service", "namespace", "deployment"})
    BY <1>3, <2>1, UnsupportedFrom DEF Converted
  <2>2. CASE Has(raw, {"input", "signal_name", "service", "namespace", "deployment"})
    <3>1. \A item \in Series(raw.input) : Sample(item).instant \in Stated(raw)
      BY <2>2 DEF Stated, Has, GetOr
    <3> QED
      BY <1>3, <2>2, <3>1, PrometheusFrom DEF Converted
  <2> QED
    BY <2>1, <2>2
<1>4. CASE m = "k8s-events"
  BY <1>4, EventsFrom DEF Converted
<1>5. CASE m = "logs"
  <2>1. {raw} \in SUBSET Records(raw)
    BY DEF Records
  <2>2. "logEvents" \in DOMAIN raw => From(FromLogEvents(raw.logEvents, raw), raw)
    BY ListsAreRecords, LogsFrom
  <2>3. From(FromLogEvents(GetOr(raw, "list", {raw}), Empty), raw)
    BY <2>1, ListsAreRecords, LogsFrom DEF GetOr
  <2> QED
    BY <1>5, <2>2, <2>3 DEF Converted
<1>6. CASE m = "otel-spans"
  BY <1>6, ListsAreRecords, SpansFrom, UnsupportedFrom DEF Converted
<1>7. CASE m = "otlp-export"
  BY <1>7, ExportFrom DEF Converted
<1> QED
  BY <1>1, <1>2, <1>3, <1>4, <1>5, <1>6, <1>7 DEF Modes

-----------------------------------------------------------------------------
\* A valid point of the executor's tenant, as the executor reads it.
LEMMA ReadAsWritten ==
  ASSUME ConverterAssumption,
         NEW p, ValidPoint(p), p.tenant_id = TenantId
  PROVE  LET read == Contract!NormalizePoint(AsRead(p)) IN
         /\ Contract!ValidPoint(read)
         /\ read.service = p.service /\ read.signal_name = p.signal_name
         /\ read.ts = p.ts.instant
<1> DEFINE raw == AsRead(p)
           read == Contract!NormalizePoint(raw)
<1>1. /\ raw.ts = p.ts.instant /\ raw.tenant_id = TenantId /\ raw.service = p.service
      /\ raw.signal_name = p.signal_name /\ raw.value = p.value
  BY DEF AsRead, ValidPoint, ContractFields, Get, GetValue, GetOr
<1>2. /\ p.service \notin {None, ""} /\ p.signal_name \notin {None, ""}
      /\ p.value.text \notin {None, ""} /\ p.ts.instant \notin {None, ""}
      /\ TenantId \notin {None, ""}
  BY DEF ValidPoint, NoText, ConverterAssumption
<1>3. /\ read.ts = p.ts.instant /\ read.tenant_id = TenantId /\ read.service = p.service
  BY <1>1, <1>2 DEF Contract!NormalizePoint, Contract!Or
<1>4. p.signal_name \in Contract!AllowedSignals /\ read.signal_name = p.signal_name
  <2>1. p.signal_name \in ContractSignals
    BY DEF ValidPoint
  <2> QED
    BY <1>1, <2>1 DEF ContractSignals, Contract!NormalizePoint, Contract!MapSignalName,
                      Contract!AllowedSignals, Contract!SignalAliases
<1>5. ~Contract!MissingValue(read.value)
  BY <1>1, <1>2 DEF Contract!NormalizePoint, Contract!Scrub, Contract!Text,
                    Contract!MissingValue, ConverterAssumption
<1> QED
  BY <1>2, <1>3, <1>4, <1>5 DEF Contract!ValidPoint

\* A window of valid points is one that the executor accepts.
LEMMA WindowHandedOver ==
  ASSUME ConverterAssumption,
         window = None \/ \A p \in window : ValidPoint(p)
  PROVE  HandoffAccepted
<1> SUFFICES ASSUME window \notin {None, {}}, \A p \in window : p.tenant_id = TenantId
             PROVE  /\ ~Contract!Rejects({AsRead(p) : p \in window})
                    /\ \A p \in window :
                         LET read == Contract!NormalizePoint(AsRead(p)) IN
                         /\ read.service = p.service /\ read.signal_name = p.signal_name
                         /\ read.ts = p.ts.instant
  BY DEF HandoffAccepted
<1>1. \A p \in window : LET read == Contract!NormalizePoint(AsRead(p)) IN
        /\ Contract!ValidPoint(read)
        /\ read.service = p.service /\ read.signal_name = p.signal_name
        /\ read.ts = p.ts.instant
  BY ReadAsWritten
<1> QED
  BY <1>1 DEF Contract!Rejects

-----------------------------------------------------------------------------
IsContext(c) ==
  c = [correlation_id |-> c.correlation_id, namespace |-> c.namespace, detect |-> c.detect,
       decide |-> c.decide, result |-> c.result, snapshot |-> c.snapshot]

WindowValid == window = None \/ \A p \in window : ValidPoint(p)

\* How far the context has come with the stage.
Undecided == ctx.decide = None /\ ctx.snapshot = None /\ ctx.result = None

Progress ==
  /\ stage \in {"tool", "main", "detect", "decide"} => Undecided
  /\ stage = "decide" => ctx.detect.anomaly_detected
  /\ stage = "execute" => ctx.decide # None /\ ctx.snapshot # None /\ ctx.result = None
  /\ ctx.result # None => ctx.decide # None /\ ctx.snapshot # None

\* A plan was decided by a whole reply about an anomaly with its context.
DecidedInFull ==
  ctx.decide # None =>
    /\ WholeDecide(ctx.decide) /\ WellFormed(Plan(ctx.decide))
    /\ Context(ctx.detect) # None /\ ctx.detect.anomaly_detected

IInv == IsContext(ctx) /\ WindowValid /\ Progress /\ DecidedInFull /\ GateExact

LEMMA InitEstablishes == Init => IInv
<1> SUFFICES ASSUME NEW m \in Modes \cup {None}, NEW doc, NEW f, InitWith(m, doc, f)
             PROVE  IInv
  BY DEF Init
<1> QED
  BY DEF InitWith, NoContext, IInv, IsContext, WindowValid, Progress, Undecided,
         DecidedInFull, GateExact

\* What the tool writes has gone through the validation.
LEMMA ToolPreserves == ASSUME IInv, Tool PROVE IInv'
<1>1. ctx' = ctx /\ stage = "tool" /\ stage' \in {"main", "over"}
  BY DEF Tool
<1>2. Undecided /\ IsContext(ctx)
  BY <1>1 DEF IInv, Progress
<1>3. WindowValid'
  BY DEF Tool, Convert, Window, WindowValid
<1> QED
  BY <1>1, <1>2, <1>3 DEF IInv, IsContext, Progress, Undecided, DecidedInFull, GateExact

LEMMA ContextChanged ==
  ASSUME NEW c, IsContext(c), NEW v
  PROVE  /\ [c EXCEPT !.correlation_id = v] =
              [correlation_id |-> v, namespace |-> c.namespace, detect |-> c.detect,
               decide |-> c.decide, result |-> c.result, snapshot |-> c.snapshot]
         /\ [c EXCEPT !.namespace = v] =
              [correlation_id |-> c.correlation_id, namespace |-> v, detect |-> c.detect,
               decide |-> c.decide, result |-> c.result, snapshot |-> c.snapshot]
         /\ [c EXCEPT !.detect = v] =
              [correlation_id |-> c.correlation_id, namespace |-> c.namespace, detect |-> v,
               decide |-> c.decide, result |-> c.result, snapshot |-> c.snapshot]
         /\ [c EXCEPT !.snapshot = v] =
              [correlation_id |-> c.correlation_id, namespace |-> c.namespace, detect |-> c.detect,
               decide |-> c.decide, result |-> c.result, snapshot |-> v]
  BY DEF IsContext

\* A step that leaves the window, the file and the plan alone.
LEMMA SamePlan ==
  ASSUME IInv, window' = window, file' = file, IsContext(ctx)', Progress',
         ctx'.decide = ctx.decide, ctx'.snapshot = ctx.snapshot,
         ctx.decide # None => ctx'.detect = ctx.detect
  PROVE  IInv'
<1>1. WindowValid'
  BY DEF IInv, WindowValid
<1>2. DecidedInFull'
  BY DEF IInv, DecidedInFull
<1>3. GateExact'
  BY DEF IInv, GateExact, Namespace
<1> QED
  BY <1>1, <1>2, <1>3 DEF IInv

\* The context that handle_incident starts with.
LEMMA FreshContext ==
  LET c == [NoContext EXCEPT !.correlation_id = file.correlation_id, !.namespace = Namespace]
  IN  IsContext(c) /\ c.decide = None /\ c.snapshot = None /\ c.result = None
<1> DEFINE named == [NoContext EXCEPT !.correlation_id = file.correlation_id]
           c == [NoContext EXCEPT !.correlation_id = file.correlation_id, !.namespace = Namespace]
<1>1. c = [named EXCEPT !.namespace = Namespace]
  OBVIOUS
<1>2. IsContext(NoContext)
  BY DEF NoContext, IsContext
<1>3. IsContext(named) /\ named.decide = None /\ named.snapshot = None /\ named.result = None
  BY <1>2, ContextChanged DEF NoContext, IsContext
<1>4. IsContext(c) /\ c.decide = None /\ c.snapshot = None /\ c.result = None
  <2> HIDE DEF named, c
  <2> QED
    BY <1>1, <1>3, ContextChanged DEF IsContext
<1> QED
  BY <1>4

LEMMA AcceptPreserves == ASSUME IInv, Accept PROVE IInv'
<1> DEFINE c == [NoContext EXCEPT !.correlation_id = file.correlation_id, !.namespace = Namespace]
<1>1. stage = "main" /\ Undecided
  BY DEF Accept, IInv, Progress
<1>2. /\ ctx' = c /\ stage' \in {"detect", "over"}
      /\ window' = window /\ file' = file
  BY DEF Accept, Escalate, Go
<1>3. IsContext(c) /\ c.decide = None /\ c.snapshot = None /\ c.result = None
  BY FreshContext
<1>4. IsContext(ctx)' /\ Progress'
  BY <1>2, <1>3 DEF IsContext, Progress, Undecided
<1> QED
  BY <1>1, <1>2, <1>3, <1>4, SamePlan DEF Undecided

LEMMA DetectPreserves == ASSUME IInv, NEW reply, Detect(reply) PROVE IInv'
<1>1. stage = "detect" /\ Undecided /\ IsContext(ctx)
  BY DEF Detect, IInv, Progress
<1>2. window' = window /\ file' = file
  BY DEF Detect, Raise, End, Escalate, Go
<1>3. CASE ~WholeDetect(reply)
  <2>1. ctx' = ctx /\ stage' = "over"
    BY <1>3 DEF Detect, Raise, End
  <2>2. IsContext(ctx)' /\ Progress'
    BY <1>1, <2>1 DEF IsContext, Progress, Undecided
  <2> QED
    BY <1>1, <1>2, <2>1, <2>2, SamePlan
<1>4. CASE WholeDetect(reply)
  <2> DEFINE c == [ctx EXCEPT !.correlation_id = Or(reply.correlation_id, @), !.detect = reply]
  <2>1. /\ ctx' = c
        /\ \/ stage' = "over"
           \/ stage' = "decide" /\ Decision(reply) = "proceed_to_decide"
    BY <1>4 DEF Detect, End, Escalate, Go
  <2>2. /\ IsContext(c) /\ c.decide = ctx.decide /\ c.snapshot = ctx.snapshot
        /\ c.result = ctx.result /\ c.detect = reply
    <3> DEFINE named == [ctx EXCEPT !.correlation_id = Or(reply.correlation_id, @)]
    <3>1. c = [named EXCEPT !.detect = reply]
      OBVIOUS
    <3>2. /\ IsContext(named) /\ named.decide = ctx.decide /\ named.snapshot = ctx.snapshot
          /\ named.result = ctx.result
      BY <1>1, ContextChanged DEF IsContext
    <3> HIDE DEF named, c
    <3> QED
      BY <3>1, <3>2, ContextChanged DEF IsContext
  <2>3. stage' = "decide" => reply.anomaly_detected
    BY <2>1 DEF Decision, Early, Detection
  <2>4. IsContext(ctx)' /\ Progress'
    BY <1>1, <2>1, <2>2, <2>3 DEF IsContext, Progress, Undecided
  <2> QED
    BY <1>1, <1>2, <2>1, <2>2, <2>4, SamePlan DEF Undecided
<1> QED
  BY <1>3, <1>4

\* The gate is asked about the plan of the reply and the namespace of the file.
LEMMA DecidePreserves ==
  ASSUME GateAssumption, IntakeAssumption, IInv,
         NEW reply, Comparable(reply), Decide(reply)
  PROVE  IInv'
<1>1. stage = "decide" /\ Undecided /\ IsContext(ctx) /\ ctx.detect.anomaly_detected
  BY DEF Decide, IInv, Progress
<1>2. window' = window /\ file' = file /\ Namespace' = Namespace
  BY DEF Decide, Raise, End, Escalate, Go, Namespace
<1>3. CASE Context(ctx.detect) = None \/ ~WholeDecide(reply)
  <2>1. ctx' = ctx /\ stage' = "over"
    BY <1>3 DEF Decide, Raise, End
  <2>2. IsContext(ctx)' /\ Progress'
    BY <1>1, <2>1 DEF IsContext, Progress, Undecided
  <2> QED
    BY <1>1, <1>2, <2>1, <2>2, SamePlan
<1>4. CASE ~(Context(ctx.detect) = None \/ ~WholeDecide(reply))
  <2> DEFINE c == [ctx EXCEPT !.decide = reply]
             passed == [c EXCEPT !.snapshot = reply.pattern_type]
  <2>1. /\ IsContext(c) /\ c.decide = reply /\ c.snapshot = None /\ c.result = None
        /\ c.detect = ctx.detect
    BY <1>1 DEF IsContext, Undecided
  <2>2. /\ IsContext(passed) /\ passed.decide = reply /\ passed.snapshot = reply.pattern_type
        /\ passed.result = None /\ passed.detect = ctx.detect
    <3> HIDE DEF c
    <3> QED
      BY <2>1, ContextChanged DEF IsContext, passed
  <2>3. WellFormed(Plan(reply)) /\ reply # None
    BY <1>4 DEF Comparable
  <2>4. WindowValid'
    BY <1>2 DEF IInv, WindowValid
  <2>5. CASE Allows(Plan(reply), Namespace)
    <3>1. ctx' = passed /\ stage' = "execute"
      BY <1>4, <2>5 DEF Decide, Go
    <3>2. Safe(Plan(reply), Namespace)
      BY <2>3, <2>5, AllowedIsSafe
    <3>3. reply.pattern_type # None
      BY <3>2 DEF Safe, Plan, IntakeAssumption
    <3>4. IsContext(ctx)' /\ Progress'
      BY <2>2, <2>3, <3>1, <3>3 DEF IsContext, Progress, Undecided
    <3>5. DecidedInFull'
      BY <1>1, <1>4, <2>2, <2>3, <3>1 DEF DecidedInFull
    <3>6. GateExact'
      BY <1>2, <2>2, <3>1, <3>2, <3>3 DEF GateExact
    <3> QED
      BY <2>4, <3>4, <3>5, <3>6 DEF IInv
  <2>6. CASE ~Allows(Plan(reply), Namespace)
    <3>1. ctx' = c /\ stage' = "over"
      BY <1>4, <2>6 DEF Decide, Escalate
    <3>2. ~Safe(Plan(reply), Namespace)
      BY <2>3, <2>6, SafeIsAllowed
    <3>3. IsContext(ctx)' /\ Progress'
      BY <2>1, <3>1 DEF IsContext, Progress, Undecided
    <3>4. DecidedInFull'
      BY <1>1, <1>4, <2>1, <2>3, <3>1 DEF DecidedInFull
    <3>5. GateExact'
      BY <1>2, <2>1, <3>1, <3>2 DEF GateExact
    <3> QED
      BY <2>4, <3>3, <3>4, <3>5 DEF IInv
  <2> QED
    BY <2>5, <2>6
<1> QED
  BY <1>3, <1>4

LEMMA ExecutePreserves == ASSUME IInv, NEW status, Execute(status) PROVE IInv'
<1> DEFINE c == [ctx EXCEPT !.result = status]
<1>1. /\ stage = "execute" /\ IsContext(ctx)
      /\ ctx.decide # None /\ ctx.snapshot # None
  BY DEF Execute, IInv, Progress
<1>2. /\ ctx' = c /\ stage' \in {"verify", "over"}
      /\ window' = window /\ file' = file
  BY DEF Execute, Escalate, Go
<1>3. /\ IsContext(c) /\ c.decide = ctx.decide /\ c.snapshot = ctx.snapshot
      /\ c.detect = ctx.detect
  BY <1>1 DEF IsContext
<1>4. IsContext(ctx)' /\ Progress'
  BY <1>1, <1>2, <1>3 DEF IsContext, Progress, Undecided
<1> QED
  BY <1>2, <1>3, <1>4, SamePlan

LEMMA VerifyPreserves == ASSUME IInv, NEW reply, Verify(reply) PROVE IInv'
<1>1. /\ ctx' = ctx /\ stage' = "over" /\ window' = window /\ file' = file
  BY DEF Verify, Raise, End, Escalate
<1>2. IsContext(ctx)' /\ Progress'
  BY <1>1 DEF IInv, IsContext, Progress, Undecided
<1> QED
  BY <1>1, <1>2, SamePlan

-----------------------------------------------------------------------------
\* The inductive invariant: the window is validated, the context grows with the
\* stage, and a plan is decided by whole replies and passed exactly when safe.
THEOREM InductiveInvariant == Spec => []IInv
<1>1. Init => IInv
  BY InitEstablishes
<1>2. IInv /\ [Next]_vars => IInv'
  <2> SUFFICES ASSUME IInv, [Next]_vars
               PROVE  IInv'
    OBVIOUS
  <2>1. CASE Tool
    BY <2>1, ToolPreserves
  <2>2. CASE Accept
    BY <2>2, AcceptPreserves
  <2>3. CASE \E reply : Detect(reply)
    BY <2>3, DetectPreserves
  <2>4. CASE \E reply : Comparable(reply) /\ Decide(reply)
    BY <2>4, DecidePreserves, GateAssumption, IntakeAssumption
  <2>5. CASE \E status \in {"COMPLETED", "FAILED"} : Execute(status)
    BY <2>5, ExecutePreserves
  <2>6. CASE \E reply : Verify(reply)
    BY <2>6, VerifyPreserves
  <2>7. CASE UNCHANGED vars
    BY <2>7 DEF vars, IInv, IsContext, WindowValid, Progress, Undecided, DecidedInFull,
                GateExact, Namespace
  <2> QED
    BY <2>1, <2>2, <2>3, <2>4, <2>5, <2>6, <2>7 DEF Next
<1> QED
  BY <1>1, <1>2, PTL DEF Spec

\* Whatever a collector exported, the executor accepts what the tool made of it
\* for its own tenant (CustomTelemetry and TelemetryContract agree).
THEOREM HandsOverAccepted == Spec => []HandoffAccepted
<1>1. IInv => HandoffAccepted
  BY WindowHandedOver, ConverterAssumption DEF IInv, WindowValid
<1> QED
  BY <1>1, InductiveInvariant, PTL

\* The gate passes a plan of any length exactly when it is safe.
THEOREM GateIsExact == Spec => []GateExact
<1>1. IInv => GateExact
  BY DEF IInv
<1> QED
  BY <1>1, InductiveInvariant, PTL

\* Nothing is done that the replies did not say in full.
THEOREM ActsOnWholeReplies == Spec => []WholeRepliesAct
<1>1. ASSUME IInv
      PROVE  WholeRepliesAct
  <2> SUFFICES ASSUME ctx.result # None
               PROVE  /\ "anomaly_context" \in DOMAIN ctx.detect /\ ctx.detect.anomaly_detected
                      /\ \A i \in DOMAIN ctx.decide.action_plan :
                           Get(ctx.decide.action_plan[i].params, "namespace") = Namespace
                      /\ Namespace \in GetOr(ctx.decide.blast_radius_config,
                                             "allowed_namespaces", {})
                      /\ GetOr(ctx.decide.verify_policy, "window_seconds", 0) > 0
    BY DEF WholeRepliesAct
  <2> DEFINE d == ctx.decide
             plan == Plan(d)
  <2>1. d # None /\ Safe(plan, Namespace) /\ WholeDecide(d) /\ WellFormed(plan)
    BY <1>1 DEF IInv, Progress, DecidedInFull, GateExact
  <2>2. "anomaly_context" \in DOMAIN ctx.detect /\ ctx.detect.anomaly_detected
    BY <1>1, <2>1 DEF IInv, DecidedInFull, Context, Get, GetOr
  <2>3. \A i \in DOMAIN plan.items : plan.items[i].ns = Namespace /\ Namespace \in plan.allowed
    BY <2>1 DEF Safe
  <2>4. ASSUME NEW i \in DOMAIN d.action_plan
        PROVE  Get(d.action_plan[i].params, "namespace") = Namespace
    BY <2>3 DEF Plan, PlanItem
  <2>5. Namespace \in plan.allowed
    <3>1. 1 \in DOMAIN plan.items
      BY <2>1 DEF Safe, WellFormed
    <3> QED
      BY <2>3, <3>1
  <2>6. GetOr(d.blast_radius_config, "allowed_namespaces", {}) = plan.allowed
    BY <2>1 DEF WholeDecide, WholeBlastRadius, Has, GetOr, Plan
  <2>7. GetOr(d.verify_policy, "window_seconds", 0) > 0
    BY <2>1 DEF WholeDecide, WholePolicy, Has, GetOr, Plan, Safe
  <2> QED
    BY <2>2, <2>4, <2>5, <2>6, <2>7
<1> QED
  BY <1>1, InductiveInvariant, PTL

-----------------------------------------------------------------------------
\* What an escalation after a decision gives as its reason.
ReasonGiven ==
  /\ stage # "over" => outcome.how # "escalated"
  /\ stage = "verify" => ctx.snapshot # None
  /\ ctx.decide # None /\ outcome.how = "escalated" =>
       IF ctx.snapshot = None
       THEN /\ ~Allows(Plan(ctx.decide), Namespace)
            /\ outcome.why = Reason(Plan(ctx.decide), Namespace)
       ELSE outcome.why \in {"execute_failed", "verify_escalate"}

LEMMA DecideTells ==
  ASSUME IInv, ReasonGiven, NEW reply, Comparable(reply), Decide(reply)
  PROVE  ReasonGiven'
<1>1. stage = "decide" /\ Undecided /\ IsContext(ctx) /\ outcome.how # "escalated"
  BY DEF Decide, IInv, Progress, ReasonGiven
<1>2. CASE Context(ctx.detect) = None \/ ~WholeDecide(reply)
  BY <1>1, <1>2 DEF Decide, Raise, End, Out, ReasonGiven
<1>3. CASE ~(Context(ctx.detect) = None \/ ~WholeDecide(reply))
  <2> DEFINE c == [ctx EXCEPT !.decide = reply]
             passed == [c EXCEPT !.snapshot = reply.pattern_type]
  <2>1. c.decide = reply /\ c.snapshot = None
    BY <1>1 DEF IsContext, Undecided
  <2>2. CASE Allows(Plan(reply), Namespace)
    <3>1. stage' = "execute" /\ outcome' = outcome
      BY <1>3, <2>2 DEF Decide, Go
    <3> QED
      BY <1>1, <3>1 DEF ReasonGiven
  <2>3. CASE ~Allows(Plan(reply), Namespace)
    <3>1. /\ ctx' = c /\ stage' = "over" /\ Namespace' = Namespace
          /\ outcome' = Out("escalated", Reason(Plan(reply), Namespace))
      BY <1>3, <2>3 DEF Decide, Escalate, Namespace
    <3> QED
      BY <2>1, <2>3, <3>1 DEF ReasonGiven, Out
  <2> QED
    BY <2>2, <2>3
<1> QED
  BY <1>2, <1>3

LEMMA NextTells ==
  ASSUME GateAssumption, IntakeAssumption, IInv, ReasonGiven, [Next]_vars
  PROVE  ReasonGiven'
<1>1. CASE Tool
  BY <1>1 DEF Tool, ReasonGiven, IInv, Progress, Undecided
<1>2. CASE Accept
  <2>1. ctx'.decide = None
    BY <1>2, FreshContext DEF Accept, Escalate, Go
  <2>2. (stage' = "detect" /\ outcome' = outcome) \/ stage' = "over"
    BY <1>2 DEF Accept, Escalate, Go
  <2> QED
    BY <1>2, <2>1, <2>2 DEF ReasonGiven, Accept
<1>3. CASE \E reply : Detect(reply)
  <2>1. PICK reply : Detect(reply)
    BY <1>3
  <2>2. stage = "detect" /\ ctx.decide = None /\ IsContext(ctx)
    BY <2>1 DEF Detect, IInv, Progress, Undecided
  <2>3. ctx'.decide = None
    BY <2>1, <2>2, ContextChanged DEF Detect, Raise, End, Escalate, Go, IsContext
  <2>4. (stage' = "decide" /\ outcome' = outcome) \/ stage' = "over"
    BY <2>1 DEF Detect, Raise, End, Escalate, Go
  <2> QED
    BY <2>2, <2>3, <2>4 DEF ReasonGiven
<1>4. CASE \E reply : Comparable(reply) /\ Decide(reply)
  BY <1>4, DecideTells
<1>5. CASE \E status \in {"COMPLETED", "FAILED"} : Execute(status)
  <2>1. PICK status \in {"COMPLETED", "FAILED"} : Execute(status)
    BY <1>5
  <2>2. /\ stage = "execute" /\ ctx.snapshot # None /\ IsContext(ctx)
        /\ outcome.how # "escalated"
    BY <2>1 DEF Execute, IInv, Progress, ReasonGiven
  <2>3. ctx'.snapshot # None
    BY <2>1, <2>2 DEF Execute, Escalate, Go, IsContext
  <2>4. \/ stage' = "verify" /\ outcome' = outcome
        \/ stage' = "over" /\ outcome' = Out("escalated", "execute_failed")
    BY <2>1 DEF Execute, Escalate, Go
  <2> QED
    BY <2>2, <2>3, <2>4 DEF ReasonGiven, Out
<1>6. CASE \E reply : Verify(reply)
  <2>1. PICK reply : Verify(reply)
    BY <1>6
  <2>2. stage = "verify" /\ ctx.snapshot # None /\ ctx' = ctx /\ stage' = "over"
    BY <2>1 DEF Verify, Raise, End, Escalate, ReasonGiven
  <2>3. outcome'.how # "escalated" \/ outcome'.why = "verify_escalate"
    BY <2>1 DEF Verify, Raise, End, Escalate, Out
  <2> QED
    BY <2>2, <2>3 DEF ReasonGiven
<1>7. CASE UNCHANGED vars
  BY <1>7 DEF vars, ReasonGiven, Namespace
<1> QED
  BY <1>1, <1>2, <1>3, <1>4, <1>5, <1>6, <1>7 DEF Next

\* A denial is recorded under a reason that is true of the plan, however many
\* items it has.
THEOREM ReasonsAreTrue == Spec => []ReasonIsTrue
<1>1. Init => ReasonGiven
  BY DEF Init, InitWith, NoContext, Out, ReasonGiven
<1>2. IInv /\ ReasonGiven /\ [Next]_vars => ReasonGiven'
  BY NextTells, GateAssumption, IntakeAssumption
<1>3. ASSUME IInv, ReasonGiven
      PROVE  ReasonIsTrue
  <2> SUFFICES ASSUME ctx.decide # None, outcome.how = "escalated", Namespace # None
               PROVE  LET d == Plan(ctx.decide) IN
                      /\ outcome.why = "denied_cross_tenant" =>
                           \E i \in DOMAIN d.items :
                             /\ d.items[i].ns # Namespace \/ Namespace \notin d.allowed
                             /\ d.items[i].action \in AllowedActions
                      /\ outcome.why = "scale_to_zero_denied" <=>
                           /\ ctx.snapshot = None
                           /\ d.verifyWindow > 0 /\ d.pattern = "deferred"
                           /\ \E i \in DOMAIN d.items :
                                /\ d.items[i].action = "SCALE_REPLICAS"
                                /\ d.items[i].replicas # None
                                /\ d.items[i].replicas < MinReplicas
                                /\ d.items[i].ns = Namespace /\ Namespace \in d.allowed
                                /\ \A j \in 1..i - 1 : ~ItemDenied(d, Namespace, j)
    BY DEF ReasonIsTrue
  <2> DEFINE d == Plan(ctx.decide)
  <2>1. WellFormed(d)
    BY <1>3 DEF IInv, DecidedInFull
  <2> HIDE DEF d
  <2>2. CASE ctx.snapshot = None
    <3>1. ~Allows(d, Namespace) /\ outcome.why = Reason(d, Namespace)
      BY <1>3, <2>2 DEF ReasonGiven, d
    <3>2. Namespace # Absent
      BY IntakeAssumption
    <3>3. /\ outcome.why = "denied_cross_tenant" =>
               \E i \in DOMAIN d.items :
                 /\ d.items[i].ns # Namespace \/ Namespace \notin d.allowed
                 /\ d.items[i].action \in AllowedActions
          /\ outcome.why = "scale_to_zero_denied" <=>
               /\ d.verifyWindow > 0 /\ d.pattern = "deferred"
               /\ \E i \in DOMAIN d.items : ScaledToZero(d, Namespace, i)
      BY <2>1, <3>1, <3>2, ReasonIsOfAnItem
    <3> QED
      BY <2>2, <3>3, IntakeAssumption DEF ScaledToZero, TooFewReplicas, d
  <2>3. CASE ctx.snapshot # None
    BY <1>3, <2>3 DEF ReasonGiven
  <2> QED
    BY <2>2, <2>3
<1> QED
  BY <1>1, <1>2, <1>3, InductiveInvariant, PTL DEF Spec
-----------------------------------------------------------------------------
\* The window of the tool, which came out of its converters and its validation.
WindowConverted ==
  /\ stage = "tool" => mode \in Modes
  /\ window # None =>
       \A p \in window :
         Made(p) /\ ValidPoint(p) /\ Dated(p.ts, document, p.labels.cdo_source_mode)

LEMMA EmptyIsNotValid == ~ValidPoint(Empty)
BY DEF ValidPoint, Empty, ContractFields

\* Every point of a window that the tool writes came out of its converters and its
\* validation, with an instant that the document states, the time of the conversion,
\* or the date that the digits of one of its stamps spell (auto_normalize()).
THEOREM WindowIsConverted == Spec => []WindowConverted
<1>1. Init => WindowConverted
  BY DEF Init, InitWith, WindowConverted
<1>2. WindowConverted /\ [Next]_vars => WindowConverted'
  <2> SUFFICES ASSUME WindowConverted, [Next]_vars
               PROVE  WindowConverted'
    OBVIOUS
  <2>1. CASE Tool
    <3>1. window' = Window(Converted(mode, document)) /\ document' = document
          /\ mode \in Modes /\ stage' # "tool"
      BY <2>1 DEF Tool, Convert, WindowConverted
    <3>2. From(Converted(mode, document), document)
      BY <3>1, ConvertedFrom
    <3>3. ASSUME window' # None, NEW p \in window'
          PROVE  /\ Made(p) /\ ValidPoint(p)
                 /\ Dated(p.ts, document, p.labels.cdo_source_mode)
      <4>1. p \in Converted(mode, document) /\ ValidPoint(p)
        BY <3>1, <3>3 DEF Window
      <4> QED
        BY <3>2, <4>1, EmptyIsNotValid DEF From
    <3> QED
      BY <3>1, <3>3 DEF WindowConverted
  <2>2. CASE ~Tool
    <3>1. window' = window /\ document' = document /\ mode' = mode
          /\ (stage' = "tool" => stage = "tool")
      BY <2>2 DEF Next, vars, Accept, Detect, Decide, Execute, Verify, Raise, End, Escalate, Go
    <3> QED
      BY <3>1 DEF WindowConverted
  <2> QED
    BY <2>1, <2>2
<1> QED
  BY <1>1, <1>2, PTL DEF Spec

\* No point of the window has moved in time, for any document of any shape, but to
\* the date that the digits of one of its stamps spell.
THEOREM InstantsAreKept == Spec => []InstantKept
<1>1. WindowConverted => InstantKept
  <2> SUFFICES ASSUME WindowConverted, window # None, NEW p \in window
               PROVE  \/ p.ts.instant \in Stated(document) \cup {Now}
                      \/ /\ p.ts.instant = Spelt
                         /\ SpellsDate(document, p.labels.cdo_source_mode)
    BY DEF InstantKept
  <2>1. ValidPoint(p) /\ Dated(p.ts, document, p.labels.cdo_source_mode)
    BY DEF WindowConverted
  <2>2. p.ts.form = "rfc3339ms" /\ p.ts.instant \in Instants
    BY <2>1 DEF ValidPoint
  <2>3. p.ts # Unreadable
    BY <2>2 DEF Unreadable
  <2>4. CASE \E i \in Stated(document) \cup {Now, None} : p.ts = Canonical(i)
    <3>1. PICK i \in Stated(document) \cup {Now, None} : p.ts = Canonical(i)
      BY <2>4
    <3>2. p.ts.instant = i
      BY <3>1 DEF Canonical
    <3> QED
      BY <2>2, <3>1, <3>2, ConverterAssumption
  <2>5. CASE p.ts = Canonical(Spelt) /\ SpellsDate(document, p.labels.cdo_source_mode)
    BY <2>5 DEF Canonical
  <2> QED
    BY <2>1, <2>3, <2>4, <2>5 DEF Dated
<1> QED
  BY <1>1, WindowIsConverted, PTL

-----------------------------------------------------------------------------
\* A point of the window, converted again.

Marks == {"cdo_source_mode", "cdo_original_signal"}

LEMMA LabelsAgain ==
  ASSUME NEW p, Made(p), ValidPoint(p), NEW m
  PROVE  /\ Without(Completed(p, m), Marks) = Without(p.labels, Marks)
         /\ Get(Completed(p, m), "system") \notin NoText
<1> DEFINE marked == [cdo_source_mode |-> m, cdo_original_signal |-> Get(p, "signal_name")]
           default == [system |-> Or(Get(p, "system"), "E-COMMERCE")]
           again == Completed(p, m)
<1>1. GetOr(p, "labels", Empty) = p.labels
  BY DEF ValidPoint, ContractFields, GetOr
<1>2. DOMAIN marked = Marks /\ DOMAIN default = {"system"}
  BY DEF Marks
<1>3. "system" \in DOMAIN p.labels /\ p.labels["system"] \notin NoText
  BY DEF ValidPoint, Get, GetOr, NoText
<1>4. again = marked ++ p.labels ++ default
  BY <1>1 DEF Completed
<1> HIDE DEF marked, default, again
<1>5. DOMAIN again = Marks \cup DOMAIN p.labels
  BY <1>2, <1>3, <1>4 DEF ++
<1>6. \A k \in DOMAIN p.labels \ Marks : again[k] = p.labels[k]
  BY <1>2, <1>4 DEF ++
<1>7. Without(again, Marks) = Without(p.labels, Marks)
  BY <1>5, <1>6 DEF Without, Restrict
<1>8. Get(again, "system") = p.labels["system"]
  BY <1>3, <1>5, <1>6 DEF Get, GetOr, Marks
<1> QED
  BY <1>3, <1>7, <1>8 DEF again

LEMMA Relabelled ==
  ASSUME NEW p, Made(p), NEW labels
  PROVE  [p EXCEPT !.labels = labels] =
           [ts |-> p.ts, tenant_id |-> p.tenant_id, service |-> p.service,
            signal_name |-> p.signal_name, value |-> p.value, labels |-> labels]
BY DEF Made

LEMMA PointAgain ==
  ASSUME ConverterAssumption, NEW p, Made(p), ValidPoint(p), NEW m
  PROVE  LET again == NormalizePoint(p, m) IN
         /\ ValidPoint(again)
         /\ [again EXCEPT !.labels = Without(@, Marks)] = [p EXCEPT !.labels = Without(@, Marks)]
<1> DEFINE again == NormalizePoint(p, m)
<1>1. /\ Get(p, "ts") = p.ts /\ Get(p, "tenant_id") = p.tenant_id /\ Get(p, "service") = p.service
      /\ Get(p, "signal_name") = p.signal_name /\ GetValue(p, "value") = p.value
  BY DEF ValidPoint, ContractFields, Get, GetValue, GetOr
<1>2. again.ts = p.ts
  <2>1. p.ts # None /\ p.ts.form = "rfc3339ms" /\ p.ts = Canonical(p.ts.instant)
    BY DEF ValidPoint, Canonical, Made
  <2>2. NormalizeTimestamp(p.ts) = Canonical(p.ts.instant)
    BY <2>1 DEF NormalizeTimestamp, DateSpelling
  <2> QED
    BY <1>1, <2>1, <2>2 DEF NormalizePoint
<1>3. again.tenant_id = p.tenant_id
  <2>1. p.tenant_id \notin NoText
    BY ConverterAssumption DEF ValidPoint, NoText
  <2> QED
    BY <1>1, <2>1 DEF NormalizePoint, Or
<1>4. again.service = p.service
  BY <1>1 DEF NormalizePoint, Or, ValidPoint
<1>5. again.signal_name = p.signal_name /\ again.value = p.value
  BY <1>1 DEF NormalizePoint, NormalizeSignal, ScrubValue, ValidPoint, Made
<1>6. /\ Without(again.labels, Marks) = Without(p.labels, Marks)
      /\ Get(again.labels, "system") \notin NoText
  BY LabelsAgain DEF NormalizePoint
<1>7. Made(again)
  BY NormalizedIsMade
<1> HIDE DEF again
<1>8. DOMAIN again = ContractFields
  BY <1>7 DEF Made, ContractFields
<1>9. ValidPoint(again)
  BY <1>2, <1>3, <1>4, <1>5, <1>6, <1>8 DEF ValidPoint
<1>10. /\ [again EXCEPT !.labels = Without(@, Marks)] =
            [ts |-> again.ts, tenant_id |-> again.tenant_id, service |-> again.service,
             signal_name |-> again.signal_name, value |-> again.value,
             labels |-> Without(again.labels, Marks)]
       /\ [p EXCEPT !.labels = Without(@, Marks)] =
            [ts |-> p.ts, tenant_id |-> p.tenant_id, service |-> p.service,
             signal_name |-> p.signal_name, value |-> p.value, labels |-> Without(p.labels, Marks)]
  BY <1>7, Relabelled
<1> QED
  BY <1>2, <1>3, <1>4, <1>5, <1>6, <1>9, <1>10 DEF again

LEMMA WindowAgain ==
  ASSUME ConverterAssumption, NEW points, \A p \in points : Made(p) /\ ValidPoint(p), NEW m
  PROVE  LET again == NormalizeWindow(points, m) IN
         (\A p \in again : ValidPoint(p)) /\ Unmarked(again) = Unmarked(points)
<1> DEFINE again == NormalizeWindow(points, m)
           bare(p) == [p EXCEPT !.labels = Without(@, Marks)]
<1>1. \A p \in points : ValidPoint(NormalizePoint(p, m)) /\ bare(NormalizePoint(p, m)) = bare(p)
  BY PointAgain
<1>2. Unmarked(again) = {bare(p) : p \in again} /\ Unmarked(points) = {bare(p) : p \in points}
  BY DEF Unmarked, Marks
<1> HIDE DEF bare
<1>3. {bare(p) : p \in again} = {bare(p) : p \in points}
  BY <1>1 DEF NormalizeWindow
<1>4. \A p \in again : ValidPoint(p)
  BY <1>1 DEF NormalizeWindow
<1> QED
  BY <1>2, <1>3, <1>4

\* Converting a window once more changes nothing but the marks, for any window.
THEOREM ConvertedOnceIsEnough == Spec => []ConvertedOnce
<1>1. WindowConverted => ConvertedOnce
  <2> SUFFICES ASSUME WindowConverted, window # None, window # {},
                      NEW again \in {Converted("auto", [list |-> window]),
                                     Converted("auto", [telemetry_window |-> window]),
                                     Converted("scenario", [telemetry_window |-> window])}
               PROVE  (\A p \in again : ValidPoint(p)) /\ Unmarked(again) = Unmarked(window)
    BY DEF ConvertedOnce
  <2>1. \A p \in window : Made(p) /\ ValidPoint(p)
    BY DEF WindowConverted
  <2>2. Converted("auto", [list |-> window]) =
          NormalizeWindow(window, "contract_or_internal_window")
    <3>1. PICK p \in window : ValidPoint(p)
      BY <2>1
    <3>2. \A q \in window : DOMAIN q = ContractFields
      BY <2>1 DEF ValidPoint
    <3>3. ~LooksLikeLog(p) /\ ~LooksLikeSpan(p)
      BY <3>1, <3>2 DEF LooksLikeLog, LooksLikeSpan, HasAny, ContractFields
    <3>4. AutoList(window) = NormalizeWindow(window, "contract_or_internal_window")
      BY <3>2, <3>3 DEF AutoList, ContractFields
    <3> DEFINE raw == [list |-> window]
    <3>5. DOMAIN raw = {"list"} /\ raw.list = window
      OBVIOUS
    <3> HIDE DEF raw
    <3>6. Get(raw, "status") # "success" /\ ~LooksLikeLog(raw)
      BY <3>5, ConverterAssumption DEF Get, GetOr, LooksLikeLog, HasAny
    <3>7. AutoNormalize(raw) = AutoList(window)
      BY <3>5, <3>6 DEF AutoNormalize
    <3> QED
      BY <3>4, <3>7 DEF Converted, raw
  <2>3. /\ Converted("auto", [telemetry_window |-> window]) = NormalizeWindow(window, "mock_scenario")
        /\ Converted("scenario", [telemetry_window |-> window]) = NormalizeWindow(window, "mock_scenario")
    BY DEF Converted, AutoNormalize
  <2>4. PICK m : again = NormalizeWindow(window, m)
    BY <2>2, <2>3
  <2> QED
    BY <2>1, <2>4, WindowAgain, ConverterAssumption
<1> QED
  BY <1>1, WindowIsConverted, PTL
-----------------------------------------------------------------------------
\* The bundle of an escalation.

\* What was done before is told only in full.
DoneInFull(c) ==
  c.result # None => c.decide # None /\ c.decide.action_plan # <<>> /\ c.snapshot # None

\* The trigger metric does not take the place of a field of the bundle.
LEMMA MetricsTell ==
  ASSUME NEW reason, NEW c,
         c.detect # None /\ Context(c.detect) # None =>
           Get(Context(c.detect), "trigger_metric")
             \notin {"namespace", "correlation_id", "escalation_reason_code"}
  PROVE  LET m == Metrics(reason, c) IN
         /\ {"namespace", "correlation_id", "escalation_reason_code"} \subseteq DOMAIN m
         /\ m["namespace"] = c.namespace /\ m["correlation_id"] = c.correlation_id
         /\ m["escalation_reason_code"] = reason
<1> DEFINE context == IF c.detect = None THEN None ELSE Context(c.detect)
           name == IF context = None THEN None ELSE Get(context, "trigger_metric")
           trigger == IF name \in NoText THEN Empty
                      ELSE [k \in {name} |-> Get(context, "trigger_value")]
           fault == IF context = None THEN Empty
                    ELSE [suspected_fault_type |-> context.suspected_fault_type]
           judged == IF c.detect = None THEN Empty
                     ELSE [confidence |-> c.detect.confidence, severity |-> c.detect.severity]
           own == [correlation_id |-> c.correlation_id, namespace |-> c.namespace,
                   escalation_reason_code |-> reason]
           fields == {"namespace", "correlation_id", "escalation_reason_code"}
<1>1. Metrics(reason, c) = trigger ++ fault ++ judged ++ own
  BY DEF Metrics
<1>2. fields \cap DOMAIN trigger = {}
  <2>1. CASE name \in NoText
    BY <2>1 DEF Empty
  <2>2. CASE name \notin NoText
    <3>1. c.detect # None /\ Context(c.detect) # None /\ name = Get(Context(c.detect), "trigger_metric")
      BY <2>2 DEF NoText
    <3> QED
      BY <2>2, <3>1
  <2> QED
    BY <2>1, <2>2
<1>3. fields \cap DOMAIN fault = {}
  BY DEF Empty
<1>4. fields \cap DOMAIN judged = {}
  BY DEF Empty
<1>5. DOMAIN own = fields /\ own["namespace"] = c.namespace
      /\ own["correlation_id"] = c.correlation_id /\ own["escalation_reason_code"] = reason
  OBVIOUS
<1> HIDE DEF trigger, fault, judged, own, fields
<1>6. \A k \in fields : /\ k \in DOMAIN (trigger ++ fault ++ judged ++ own)
                        /\ (trigger ++ fault ++ judged ++ own)[k] = own[k]
  BY <1>2, <1>3, <1>4, <1>5 DEF ++
<1> QED
  BY <1>1, <1>5, <1>6 DEF fields

\* Who is called learns it all, with or without a bundle of the AI.
LEMMA EscalationTells ==
  ASSUME NEW reason, NEW c, NEW ai, Escalate(reason, c, ai),
         c.namespace = Namespace, DoneInFull(c)
  PROVE  BundleTells'
<1> DEFINE words == IF ai = None THEN Empty ELSE GetOr(ai, "metrics", Empty)
           fields == {"namespace", "correlation_id", "escalation_reason_code"}
<1>1. /\ ctx' = c /\ outcome' = Out("escalated", reason) /\ said' = ai /\ file' = file
      /\ bundle' = AssembleBundle(reason, c, ai)
  BY DEF Escalate
<1>2. /\ DOMAIN Incident' = fields
      /\ Incident'["namespace"] = c.namespace /\ Incident'["correlation_id"] = c.correlation_id
      /\ Incident'["escalation_reason_code"] = reason
  BY <1>1 DEF Incident, Out, Namespace
<1>3. ASSUME TriggerIsMetric', NEW k \in fields
      PROVE  bundle'.metrics[k] = GetOr(words, k, Incident'[k])
  <2>1. /\ k \in DOMAIN Metrics(reason, c) /\ Metrics(reason, c)[k] = Incident'[k]
    BY <1>1, <1>2, <1>3, MetricsTell DEF TriggerIsMetric
  <2>2. CASE ai = None \/ ai = Empty
    <3>1. bundle'.metrics = Metrics(reason, c)
      BY <1>1, <2>2 DEF AssembleBundle
    <3>2. k \notin DOMAIN words
      BY <2>2 DEF Empty, GetOr
    <3> QED
      BY <2>1, <3>1, <3>2 DEF GetOr
  <2>3. CASE ~(ai = None \/ ai = Empty)
    <3>1. bundle'.metrics = words ++ Metrics(reason, c)
      BY <1>1, <2>3 DEF AssembleBundle
    <3> HIDE DEF words
    <3> QED
      BY <2>1, <3>1 DEF GetOr, ++
  <2> QED
    BY <2>2, <2>3
<1>4. Logs(c) \subseteq bundle'.logs
  BY <1>1 DEF AssembleBundle
<1>5. /\ c.detect # None => "detect" \in Logs(c)
      /\ c.result # None =>
           {"action_attempted", "execute_result", "rollback_snapshot"} \subseteq Logs(c)
  <2>1. /\ DOMAIN Told(c) =
             {"detect", "action_attempted", "execute_result", "rollback_snapshot"}
        /\ Told(c)["detect"] = (c.detect # None)
        /\ Told(c)["action_attempted"] = (c.decide # None /\ c.decide.action_plan # <<>>)
        /\ Told(c)["execute_result"] = (c.result # None)
        /\ Told(c)["rollback_snapshot"] = (c.snapshot # None)
    BY DEF Told
  <2> QED
    BY <2>1 DEF Logs, DoneInFull
<1> QED
  BY <1>1, <1>2, <1>3, <1>4, <1>5 DEF BundleTells

\* The incident is known from the start.
Tells ==
  /\ stage \in {"detect", "decide", "execute", "verify"} => ctx.namespace = Namespace
  /\ BundleTells

LEMMA Undone == ASSUME NEW c, c.result = None PROVE DoneInFull(c)
BY DEF DoneInFull

\* An action that was executed is one of a plan that is not empty.
LEMMA PlanIsThere ==
  ASSUME IInv, ctx.decide # None, ctx.snapshot # None PROVE ctx.decide.action_plan # <<>>
<1>1. Safe(Plan(ctx.decide), Namespace)
  BY DEF IInv, GateExact
<1> QED
  BY <1>1 DEF Safe, Plan

LEMMA PlannedInFull == ASSUME IInv PROVE DoneInFull(ctx)
BY PlanIsThere DEF IInv, Progress, DoneInFull

\* The theorem's step, action by action.
LEMMA StepTells ==
  ASSUME IInv, ReasonGiven, Tells, Next
  PROVE  Tells'
<1>1. stage # "over" => outcome.how # "escalated"
  BY DEF ReasonGiven
<1>2. CASE Tool
  <2>1. outcome' = outcome /\ stage = "tool" /\ stage' \notin {"detect", "decide", "execute", "verify"}
    BY <1>2 DEF Tool
  <2> QED
    BY <1>1, <2>1 DEF Tells, BundleTells
<1>3. CASE Accept
  <2> DEFINE c == [NoContext EXCEPT !.correlation_id = file.correlation_id, !.namespace = Namespace]
  <2>1. c.namespace = Namespace /\ c.result = None
    BY DEF NoContext
  <2> HIDE DEF c
  <2>2. CASE Escalate("telemetry_contract", c, None)
    <3>1. BundleTells' /\ stage' = "over"
      BY <2>1, <2>2, Undone, EscalationTells DEF Escalate
    <3> QED
      BY <3>1 DEF Tells
  <2>3. CASE Go("detect", c)
    BY <1>1, <1>3, <2>1, <2>3 DEF Go, Accept, Tells, BundleTells, Namespace
  <2> QED
    BY <1>3, <2>2, <2>3 DEF Accept, c
<1>4. CASE \E reply : Detect(reply)
  <2>1. PICK reply : Detect(reply)
    BY <1>4
  <2> DEFINE c == [ctx EXCEPT !.correlation_id = Or(reply.correlation_id, @), !.detect = reply]
  <2>2. stage = "detect" /\ ctx.namespace = Namespace /\ ctx.result = None /\ IsContext(ctx)
    BY <2>1 DEF Detect, Tells, IInv, Progress, Undecided
  <2>3. c.namespace = Namespace /\ c.result = None
    BY <2>2 DEF IsContext
  <2> HIDE DEF c
  <2>4. \/ \E reason : Escalate(reason, c, None)
        \/ stage' = "over" /\ outcome'.how # "escalated"
        \/ Go("decide", c)
    BY <2>1 DEF Detect, Raise, End, Out, c
  <2>5. CASE \E reason : Escalate(reason, c, None)
    <3>1. PICK reason : Escalate(reason, c, None)
      BY <2>5
    <3>2. BundleTells' /\ stage' = "over"
      BY <2>3, <3>1, Undone, EscalationTells DEF Escalate
    <3> QED
      BY <3>2 DEF Tells
  <2>6. CASE stage' = "over" /\ outcome'.how # "escalated"
    BY <2>6 DEF Tells, BundleTells
  <2>7. CASE Go("decide", c)
    BY <1>1, <2>2, <2>3, <2>7 DEF Go, Tells, BundleTells, Namespace
  <2> QED
    BY <2>4, <2>5, <2>6, <2>7
<1>5. CASE \E reply : Comparable(reply) /\ Decide(reply)
  <2>1. PICK reply : Decide(reply)
    BY <1>5
  <2> DEFINE c == [ctx EXCEPT !.decide = reply]
             passed == [c EXCEPT !.snapshot = reply.pattern_type]
  <2>2. stage = "decide" /\ ctx.namespace = Namespace /\ ctx.result = None /\ IsContext(ctx)
    BY <2>1 DEF Decide, Tells, IInv, Progress, Undecided
  <2>3. IsContext(c) /\ c.namespace = Namespace /\ c.result = None
    BY <2>2 DEF IsContext
  <2>4. passed.namespace = Namespace
    <3> HIDE DEF c
    <3> QED
      BY <2>3 DEF IsContext
  <2> HIDE DEF c, passed
  <2>5. \/ \E reason : Escalate(reason, c, None)
        \/ stage' = "over" /\ outcome'.how # "escalated"
        \/ Go("execute", passed)
    BY <2>1 DEF Decide, Raise, End, Out, c, passed
  <2>6. CASE \E reason : Escalate(reason, c, None)
    <3>1. PICK reason : Escalate(reason, c, None)
      BY <2>6
    <3>2. BundleTells' /\ stage' = "over"
      BY <2>3, <3>1, Undone, EscalationTells DEF Escalate
    <3> QED
      BY <3>2 DEF Tells
  <2>7. CASE stage' = "over" /\ outcome'.how # "escalated"
    BY <2>7 DEF Tells, BundleTells
  <2>8. CASE Go("execute", passed)
    BY <1>1, <2>2, <2>4, <2>8 DEF Go, Tells, BundleTells, Namespace
  <2> QED
    BY <2>5, <2>6, <2>7, <2>8
<1>6. CASE \E status \in {"COMPLETED", "FAILED"} : Execute(status)
  <2>1. PICK status \in {"COMPLETED", "FAILED"} : Execute(status)
    BY <1>6
  <2> DEFINE c == [ctx EXCEPT !.result = status]
  <2>2. stage = "execute" /\ ctx.namespace = Namespace /\ IsContext(ctx)
    BY <2>1 DEF Execute, Tells, IInv
  <2>3. c.namespace = Namespace /\ c.decide = ctx.decide /\ c.snapshot = ctx.snapshot
    BY <2>2 DEF IsContext
  <2> HIDE DEF c
  <2>4. DoneInFull(c)
    BY <2>2, <2>3, PlanIsThere DEF IInv, Progress, DoneInFull
  <2>5. Escalate("execute_failed", c, None) \/ Go("verify", c)
    BY <2>1 DEF Execute, c
  <2>6. CASE Escalate("execute_failed", c, None)
    <3>1. BundleTells' /\ stage' = "over"
      BY <2>3, <2>4, <2>6, EscalationTells DEF Escalate
    <3> QED
      BY <3>1 DEF Tells
  <2>7. CASE Go("verify", c)
    BY <1>1, <2>2, <2>3, <2>7 DEF Go, Tells, BundleTells, Namespace
  <2> QED
    BY <2>5, <2>6, <2>7
<1>7. CASE \E reply : Verify(reply)
  <2>1. PICK reply : Verify(reply)
    BY <1>7
  <2>2. stage = "verify" /\ ctx.namespace = Namespace
    BY <2>1 DEF Verify, Tells
  <2>3. \/ Escalate("verify_escalate", ctx, Get(reply, "escalation_bundle"))
        \/ stage' = "over" /\ outcome'.how # "escalated"
    BY <2>1 DEF Verify, Raise, End, Out
  <2>4. CASE Escalate("verify_escalate", ctx, Get(reply, "escalation_bundle"))
    <3>1. BundleTells' /\ stage' = "over"
      BY <2>2, <2>4, PlannedInFull, EscalationTells DEF Escalate
    <3> QED
      BY <3>1 DEF Tells
  <2>5. CASE stage' = "over" /\ outcome'.how # "escalated"
    BY <2>5 DEF Tells, BundleTells
  <2> QED
    BY <2>3, <2>4, <2>5
<1> QED
  BY <1>2, <1>3, <1>4, <1>5, <1>6, <1>7 DEF Next

\* Every escalation tells which incident it is, why it was given up and what was
\* done, for any replies and any bundle of the AI.
THEOREM EscalationsTell == Spec => []BundleTells
<1>1. Init => ReasonGiven /\ Tells
  BY DEF Init, InitWith, NoContext, Out, ReasonGiven, Tells, BundleTells
<1>2. IInv /\ ReasonGiven /\ Tells /\ [Next]_vars => (ReasonGiven /\ Tells)'
  <2> SUFFICES ASSUME IInv, ReasonGiven, Tells, [Next]_vars
               PROVE  (ReasonGiven /\ Tells)'
    OBVIOUS
  <2>1. ReasonGiven'
    BY NextTells, GateAssumption, IntakeAssumption
  <2>2. Next => Tells'
    BY StepTells
  <2>3. ASSUME UNCHANGED vars PROVE Tells'
    <3>1. Incident' = Incident /\ (TriggerIsMetric' <=> TriggerIsMetric) /\ Namespace' = Namespace
      BY <2>3 DEF vars, TriggerIsMetric, Incident, Namespace
    <3>2. BundleTells'
      BY <2>3, <3>1 DEF vars, Tells, BundleTells
    <3> QED
      BY <2>3, <3>1, <3>2 DEF vars, Tells
  <2> QED
    BY <2>1, <2>2, <2>3
<1>3. Tells => BundleTells
  BY DEF Tells
<1> QED
  BY <1>1, <1>2, <1>3, InductiveInvariant, PTL DEF Spec

-----------------------------------------------------------------------------
\* Refinement: the incident, with its data, takes the course of IncidentCourse.

Ends == {"auto_resolved", "retry", "rolled_back", "closed", "escalated", "raised"}

\* Nothing is returned before the end, and whoever verifies was told that the
\* action was completed.
OnCourse ==
  /\ stage \in {"tool", "main", "over"} \cup Handling
  /\ stage # "over" => outcome.how = "none"
  /\ stage = "verify" => ctx.result = "COMPLETED"

\* The incident in the terms of the course, stage by stage.
LEMMA Unbegun ==
  ASSUME stage \notin Handling, outcome.how = "none"
  PROVE  HowItStands = "new" /\ CallsAhead = 5
BY DEF Handling, HowItStands, CallsAhead

LEMMA Underway ==
  ASSUME stage \in Handling
  PROVE  /\ HowItStands = "handling"
         /\ CallsAhead \in 1..4
         /\ stage = "detect" => CallsAhead = 4
         /\ stage = "decide" => CallsAhead = 3
         /\ stage = "execute" => CallsAhead = 2
         /\ stage = "verify" => CallsAhead = 1
<1>1. HowItStands = "handling"
  BY DEF HowItStands
<1>2. CASE stage = "detect"
  BY <1>1, <1>2 DEF CallsAhead
<1>3. CASE stage = "decide"
  BY <1>1, <1>3 DEF CallsAhead
<1>4. CASE stage = "execute"
  BY <1>1, <1>4 DEF CallsAhead
<1>5. CASE stage = "verify"
  BY <1>1, <1>5 DEF CallsAhead
<1> QED
  BY <1>2, <1>3, <1>4, <1>5 DEF Handling

LEMMA Ended ==
  ASSUME NEW how \in Ends, NEW why, NEW c,
         stage' = "over", outcome' = Out(how, why), ctx' = c
  PROVE  /\ HowItStands' = IF how = "raised" THEN "died" ELSE how
         /\ CallsAhead' = 0
         /\ Sent' = {c.result} \cap {"COMPLETED"}
<1>1. outcome'.how = how /\ stage' \notin Handling /\ how # "none"
  BY DEF Out, Handling, Ends
<1>2. HowItStands' = IF how = "raised" THEN "died" ELSE how
  BY <1>1 DEF HowItStands
<1>3. CallsAhead' = 0
  BY <1>1 DEF CallsAhead, Handling
<1> QED
  BY <1>2, <1>3 DEF Sent

\* What an incident may return before it acted, and what after.
LEMMA EndsInTime ==
  ASSUME stage \in Handling, ctx.result \in {None, "COMPLETED"}, OnCourse,
         NEW how \in Ends, NEW why, NEW c, c.result = ctx.result,
         stage' = "over", outcome' = Out(how, why), ctx' = c,
         ctx.result = None => how \in {"closed", "escalated", "raised"},
         ctx.result = "COMPLETED" => how # "closed"
  PROVE  Course!Next
<1>1. HowItStands = "handling" /\ CallsAhead \in 1..4
  BY Underway
<1>2. /\ HowItStands' = IF how = "raised" THEN "died" ELSE how
      /\ CallsAhead' = 0 /\ Sent' = Sent
  BY Ended DEF Sent
<1>3. HowItStands' \in IF Sent = {} THEN Course!EndsUnacted ELSE Course!EndsActed
  <2>1. CASE ctx.result = None
    <3>1. Sent = {}
      BY <2>1, IntakeAssumption DEF Sent
    <3> QED
      BY <1>2, <2>1, <3>1 DEF Course!EndsUnacted
  <2>2. CASE ctx.result = "COMPLETED"
    <3>1. Sent = {"COMPLETED"}
      BY <2>2 DEF Sent
    <3> QED
      BY <1>2, <2>2, <3>1 DEF Course!EndsActed, Ends
  <2> QED
    BY <2>1, <2>2
<1>4. Course!End
  BY <1>1, <1>2, <1>3 DEF Course!End
<1>5. CallsAhead' \in Nat /\ CallsAhead' < CallsAhead
  BY <1>1, <1>2
<1> QED
  BY <1>4, <1>5 DEF Course!Next

\* From one stage to the next, with nothing sent.
LEMMA GoesOn ==
  ASSUME NEW next, NEW c, Go(next, c), c.result = ctx.result,
         \/ stage = "detect" /\ next = "decide"
         \/ stage = "decide" /\ next = "execute"
  PROVE  Course!Next
<1>1. stage \in Handling /\ stage' \in Handling
  BY DEF Go, Handling
<1>2. HowItStands = "handling" /\ HowItStands' = "handling"
  BY <1>1 DEF HowItStands
<1>3. \/ CallsAhead = 4 /\ CallsAhead' = 3
      \/ CallsAhead = 3 /\ CallsAhead' = 2
  <2>1. /\ stage = "detect" => CallsAhead = 4
        /\ stage = "decide" => CallsAhead = 3
    BY <1>1, Underway
  <2>2. stage' = next
    BY DEF Go
  <2>3. /\ stage' = "decide" => CallsAhead' = 3
        /\ stage' = "execute" => CallsAhead' = 2
    BY DEF CallsAhead, Handling
  <2> QED
    BY <2>1, <2>2, <2>3
<1>4. Sent' = Sent
  BY DEF Go, Sent
<1> QED
  BY <1>2, <1>3, <1>4 DEF Course!Next, Course!Proceed

\* The tool only prepares the incident.
LEMMA ToolOnCourse ==
  ASSUME OnCourse, Tool PROVE OnCourse' /\ UNCHANGED <<HowItStands, CallsAhead, Sent>>
<1>1. /\ stage = "tool" /\ stage' \in {"main", "over"}
      /\ ctx' = ctx /\ outcome' = outcome /\ outcome.how = "none"
  BY DEF Tool, OnCourse
<1>2. stage \notin Handling /\ stage' \notin Handling
  BY <1>1 DEF Handling
<1>3. UNCHANGED <<HowItStands, CallsAhead>>
  BY <1>1, <1>2 DEF HowItStands, CallsAhead, Handling
<1> QED
  BY <1>1, <1>3 DEF OnCourse, Sent

\* A window that breaks the contract ends the incident before it is begun.
LEMMA AcceptOnCourse ==
  ASSUME IInv, OnCourse, Accept PROVE OnCourse' /\ Course!Next
<1> DEFINE c == [NoContext EXCEPT !.correlation_id = file.correlation_id, !.namespace = Namespace]
<1>1. stage = "main" /\ stage \notin Handling /\ outcome.how = "none" /\ ctx.result = None
  BY DEF Accept, OnCourse, Handling, IInv, Progress, Undecided
<1>2. c.result = None
  BY FreshContext
<1>3. Escalate("telemetry_contract", c, None) \/ Go("detect", c)
  BY DEF Accept
<1> HIDE DEF c
<1>4. HowItStands = "new" /\ CallsAhead = 5 /\ Sent = {ctx.result} \cap {"COMPLETED"}
  BY <1>1, Unbegun DEF Sent
<1>5. CASE Escalate("telemetry_contract", c, None)
  <2>1. stage' = "over" /\ outcome' = Out("escalated", "telemetry_contract") /\ ctx' = c
    BY <1>5 DEF Escalate
  <2>2. HowItStands' = "escalated" /\ CallsAhead' = 0 /\ Sent' = Sent
    BY <1>1, <1>2, <1>4, <2>1, Ended DEF Ends
  <2> QED
    BY <1>4, <2>1, <2>2 DEF OnCourse, Course!Next, Course!Begin
<1>6. CASE Go("detect", c)
  <2>1. stage' = "detect" /\ outcome' = outcome /\ ctx' = c
    BY <1>6 DEF Go
  <2>2. HowItStands' = "handling" /\ CallsAhead' = 4 /\ Sent' = Sent
    BY <1>1, <1>2, <2>1 DEF HowItStands, CallsAhead, Sent, Handling
  <2> QED
    BY <1>1, <1>4, <2>1, <2>2 DEF OnCourse, Handling, Course!Next, Course!Begin
<1> QED
  BY <1>3, <1>5, <1>6

LEMMA DetectOnCourse ==
  ASSUME IInv, OnCourse, NEW reply, Detect(reply) PROVE OnCourse' /\ Course!Next
<1> DEFINE c == [ctx EXCEPT !.correlation_id = Or(reply.correlation_id, @), !.detect = reply]
<1>1. /\ stage = "detect" /\ stage \in Handling /\ outcome.how = "none"
      /\ ctx.result = None /\ IsContext(ctx)
  BY DEF Detect, OnCourse, Handling, IInv, Progress, Undecided
<1>2. c.result = None
  BY <1>1 DEF IsContext
<1>3. \/ Raise(ctx)
      \/ Go("decide", c)
      \/ Escalate(Decision(reply), c, None)
      \/ End("closed", Decision(reply), c)
  BY DEF Detect
<1> HIDE DEF c
<1>4. ASSUME NEW how \in {"closed", "escalated", "raised"}, NEW why, NEW d \in {ctx, c},
             stage' = "over", outcome' = Out(how, why), ctx' = d
      PROVE  OnCourse' /\ Course!Next
  <2>1. d.result = ctx.result /\ how \in Ends /\ None # "COMPLETED"
    BY <1>1, <1>2, IntakeAssumption DEF Ends
  <2>2. Course!Next
    BY <1>1, <1>4, <2>1, EndsInTime
  <2> QED
    BY <1>4, <2>2 DEF OnCourse
<1>5. CASE Go("decide", c)
  <2>1. Course!Next
    BY <1>1, <1>2, <1>5, GoesOn
  <2> QED
    BY <1>1, <1>5, <2>1 DEF Go, OnCourse, Handling
<1> QED
  BY <1>3, <1>4, <1>5 DEF Raise, End, Escalate

LEMMA DecideOnCourse ==
  ASSUME IInv, OnCourse, NEW reply, Decide(reply) PROVE OnCourse' /\ Course!Next
<1> DEFINE c == [ctx EXCEPT !.decide = reply]
           passed == [c EXCEPT !.snapshot = reply.pattern_type]
<1>1. /\ stage = "decide" /\ stage \in Handling /\ outcome.how = "none"
      /\ ctx.result = None /\ IsContext(ctx)
  BY DEF Decide, OnCourse, Handling, IInv, Progress, Undecided
<1>2. IsContext(c) /\ c.result = None
  BY <1>1 DEF IsContext
<1>3. passed.result = None
  <2> HIDE DEF c
  <2> QED
    BY <1>2 DEF IsContext
<1>4. \/ Raise(ctx)
      \/ Go("execute", passed)
      \/ Escalate(Reason(Plan(reply), Namespace), c, None)
  BY DEF Decide
<1> HIDE DEF c, passed
<1>5. ASSUME NEW how \in {"escalated", "raised"}, NEW why, NEW d \in {ctx, c},
             stage' = "over", outcome' = Out(how, why), ctx' = d
      PROVE  OnCourse' /\ Course!Next
  <2>1. d.result = ctx.result /\ how \in Ends /\ None # "COMPLETED"
    BY <1>1, <1>2, IntakeAssumption DEF Ends
  <2>2. Course!Next
    BY <1>1, <1>5, <2>1, EndsInTime
  <2> QED
    BY <1>5, <2>2 DEF OnCourse
<1>6. CASE Go("execute", passed)
  <2>1. Course!Next
    BY <1>1, <1>3, <1>6, GoesOn
  <2> QED
    BY <1>1, <1>6, <2>1 DEF Go, OnCourse, Handling
<1> QED
  BY <1>4, <1>5, <1>6 DEF Raise, End, Escalate

\* The one action: only a completed one leads on to the verification.
LEMMA ExecuteOnCourse ==
  ASSUME IInv, OnCourse, NEW status \in {"COMPLETED", "FAILED"}, Execute(status)
  PROVE  OnCourse' /\ Course!Next
<1> DEFINE c == [ctx EXCEPT !.result = status]
<1>1. /\ stage = "execute" /\ stage \in Handling /\ outcome.how = "none"
      /\ ctx.result = None /\ IsContext(ctx)
  BY DEF Execute, OnCourse, Handling, IInv, Progress
<1>2. c.result = status
  BY <1>1 DEF IsContext
<1>3. \/ status = "COMPLETED" /\ Go("verify", c)
      \/ status = "FAILED" /\ Escalate("execute_failed", c, None)
  BY DEF Execute
<1> HIDE DEF c
<1>4. HowItStands = "handling" /\ CallsAhead = 2
  BY <1>1, Underway
<1>5. Sent = {}
  BY <1>1, IntakeAssumption DEF Sent
<1>6. CASE status = "COMPLETED" /\ Go("verify", c)
  <2>1. stage' = "verify" /\ outcome' = outcome /\ ctx' = c
    BY <1>6 DEF Go
  <2>2. HowItStands' = "handling" /\ CallsAhead' = 1
    BY <2>1 DEF HowItStands, CallsAhead, Handling
  <2>3. Sent' = {"COMPLETED"}
    BY <1>2, <1>6, <2>1 DEF Sent
  <2>4. Course!Act
    BY <1>4, <1>5, <2>2, <2>3 DEF Course!Act
  <2> QED
    BY <1>1, <1>2, <1>4, <1>6, <2>1, <2>2, <2>4 DEF OnCourse, Handling, Course!Next
<1>7. CASE status = "FAILED" /\ Escalate("execute_failed", c, None)
  <2>1. stage' = "over" /\ outcome' = Out("escalated", "execute_failed") /\ ctx' = c
    BY <1>7 DEF Escalate
  <2>2. HowItStands' = "escalated" /\ CallsAhead' = 0 /\ Sent' = {}
    BY <1>2, <1>7, <2>1, Ended DEF Ends
  <2>3. Course!End
    BY <1>4, <1>5, <2>2 DEF Course!End, Course!EndsUnacted
  <2> QED
    BY <1>4, <2>1, <2>2, <2>3 DEF OnCourse, Course!Next
<1> QED
  BY <1>3, <1>6, <1>7

LEMMA VerifyOnCourse ==
  ASSUME IInv, OnCourse, NEW reply, Verify(reply) PROVE OnCourse' /\ Course!Next
<1>1. stage = "verify" /\ stage \in Handling /\ ctx.result = "COMPLETED"
  BY DEF Verify, OnCourse, Handling
<1>2. PICK how \in Ends \ {"closed"} :
        \E why : stage' = "over" /\ outcome' = Out(how, why) /\ ctx' = ctx
  BY DEF Verify, Raise, End, Escalate, Ends
<1>3. None # "COMPLETED"
  BY IntakeAssumption
<1>4. Course!Next
  BY <1>1, <1>2, <1>3, EndsInTime
<1> QED
  BY <1>2, <1>4 DEF OnCourse

\* The incident with its data implements IncidentCourse, for any input and any
\* replies: every step of handle_incident is one of the course, and what the tool
\* does before leaves it unbegun.
THEOREM TakesItsCourse == Spec => CourseTaken
<1>1. Init => OnCourse /\ Course!Init
  <2> SUFFICES ASSUME NEW m \in Modes \cup {None}, NEW doc, NEW f, InitWith(m, doc, f)
               PROVE  OnCourse /\ Course!Init
    BY DEF Init
  <2>1. stage \in {"tool", "main"} /\ outcome.how = "none" /\ ctx.result = None
    BY DEF InitWith, Out, NoContext
  <2>2. stage \notin Handling
    BY <2>1 DEF Handling
  <2>3. Sent = {}
    BY <2>1, IntakeAssumption DEF Sent
  <2> QED
    BY <2>1, <2>2, <2>3, Unbegun DEF OnCourse, Course!Init
<1>2. IInv /\ OnCourse /\ [Next]_vars => OnCourse' /\ [Course!Next]_(Course!vars)
  <2> SUFFICES ASSUME IInv, OnCourse, [Next]_vars
               PROVE  OnCourse' /\ (Course!Next \/ UNCHANGED <<HowItStands, CallsAhead, Sent>>)
    BY DEF Course!vars
  <2>1. CASE Next
    BY <2>1, ToolOnCourse, AcceptOnCourse, DetectOnCourse, DecideOnCourse, ExecuteOnCourse,
       VerifyOnCourse DEF Next
  <2>2. CASE UNCHANGED vars
    BY <2>2 DEF vars, OnCourse, HowItStands, CallsAhead, Sent
  <2> QED
    BY <2>1, <2>2
<1> QED
  BY <1>1, <1>2, InductiveInvariant, PTL DEF Spec, CourseTaken, Course!Spec
=============================================================================
