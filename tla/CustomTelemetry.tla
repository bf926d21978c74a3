-------------------------- MODULE CustomTelemetry --------------------------
(***************************************************************************)
(* custom_telemetry: the converters that bring what the collectors export  *)
(* (Prometheus answers, Kubernetes events, logs, spans, scenario files)    *)
(* to the telemetry contract before the executor sees it.                  *)
(*                                                                         *)
(* A list is a set of its members, a sequence where the code looks at a    *)
(* position; a stamp is the form it is written in and the instant it       *)
(* means.  One bad record makes the tool exit without output, whichever    *)
(* exception it dies of: the window is then None.                          *)
(***************************************************************************)
EXTENDS Dicts
LOCAL INSTANCE SequencesExt   \* Last, Min, Max

CONSTANTS
  TenantId,     \* TENANT_ID
  UuidV4,       \* the tenant ids that are a UUID v4
  Instants,     \* the instants the records mean
  Now,          \* the instant of the conversion
  Epoch,        \* an instant of January 1970
  Spelt         \* an instant of the 18th or 19th century

ASSUME ConverterAssumption ==
  /\ TenantId \in UuidV4
  /\ {Now, Epoch, Spelt} \subseteq Instants
  /\ (UuidV4 \cup Instants) \cap {None, ""} = {}
  /\ None \notin {"success", "redacted"}

ContractSignals ==
  {"service_error_rate", "service_latency_p95", "container_resource_usage",
   "application_log_event", "distributed_trace_error_event", "pod_oom_event",
   "service_unhealthy", "queue_backlog", "service_throughput_rps",
   "container_restart_count", "secret_expiry_warning",
   "db_connection_pool_saturation"}

ContractFields == {"ts", "tenant_id", "service", "signal_name", "value", "labels"}

-----------------------------------------------------------------------------
\* Stamps.  "rfc3339ms" is the form of the contract, "rfc3339" any other form
\* that datetime.fromisoformat() reads, "digits" a number written as a text; the
\* other forms are numbers.  From Python 3.11 on, fromisoformat() also reads
\* dates without separators, so one in two hundred numbers of milliseconds and
\* one in three hundred of nanoseconds spell a date: 1750123112359 is, as a
\* text, a minute of the last day of 1750.

DateSpelling == {"ms_date", "ns_date", "digits_date"}

Canonical(instant) == [form |-> "rfc3339ms", instant |-> instant]
Unreadable == [form |-> "unreadable", instant |-> None]

\* _normalize_timestamp(): a number reaches fromisoformat() as its digits.
NormalizeTimestamp(stamp) ==
  CASE stamp = None -> Canonical(Now)
    [] stamp # None /\ stamp.form \in {"rfc3339ms", "rfc3339"} -> Canonical(stamp.instant)
    [] stamp # None /\ stamp.form \in DateSpelling -> Canonical(Spelt)
    [] OTHER -> Unreadable

\* The power of ten of a present-day instant in each unit.
Magnitude == [s |-> 9, ms |-> 12, us |-> 15, ns |-> 18, ms_date |-> 12, ns_date |-> 18]

\* Mutant: the limit of the nanoseconds is a factor of ten too low.
UnitReadEarly(unit) ==
  IF Magnitude[unit] >= 15 THEN "ns" ELSE IF Magnitude[unit] >= 10 THEN "ms" ELSE "s"

\* The unit that the tests of _timestamp_from_raw() take a number to be in.
UnitRead(unit) ==
  IF Magnitude[unit] >= 16 THEN "ns" ELSE IF Magnitude[unit] >= 10 THEN "ms" ELSE "s"

\* _timestamp_from_raw(): a number divided by too little is beyond what a
\* datetime holds, as microseconds are; by too much, it falls into 1970.
TimestampFromRaw(stamp) ==
  IF stamp = None \/ stamp.form \notin DOMAIN Magnitude THEN NormalizeTimestamp(stamp)
  ELSE LET read == Magnitude[UnitRead(stamp.form)] IN
       CASE read = Magnitude[stamp.form] -> Canonical(stamp.instant)
         [] read > Magnitude[stamp.form] -> Canonical(Epoch)
         [] read < Magnitude[stamp.form] -> Unreadable

-----------------------------------------------------------------------------
\* The contract.

\* scrub_value()
ScrubValue(value) == IF value.text \in {"pii", "secret"} THEN Text("redacted") ELSE value

\* A row of _INTERNAL_SIGNAL_MAP: a name with a value, or with any value, and
\* what it becomes; without a text of its own the value stays.
SignalRow(name, value, signal, becomes) ==
  [name |-> name, value |-> value, signal |-> signal, becomes |-> becomes]

Unhealthy(name, value, why) == SignalRow(name, value, "service_unhealthy", Text(why))

InternalSignalMap ==
  { SignalRow("pod_waiting_reason", Text("OOMKilled"), "pod_oom_event", Text("OOMKilled")),
    SignalRow("exit_code_oom", NoValue, "pod_oom_event", Text("exit_code_137")),
    SignalRow("restart_count", NoValue, "container_restart_count", NoValue),
    SignalRow("container_memory_pct", NoValue, "container_resource_usage", NoValue),
    Unhealthy("pod_waiting_reason", Text("Error"), "Container waiting Error"),
    Unhealthy("pod_phase", Text("Running"), "pod_phase_running"),
    Unhealthy("pod_phase", Text("Pending"), "pod_phase_pending"),
    Unhealthy("pod_phase", Text("Failed"), "pod_phase_failed"),
    Unhealthy("container_ready", Number(0), "container_not_ready"),
    Unhealthy("container_ready", Number(1), "container_ready") }
  \cup {Unhealthy("pod_waiting_reason", Text(r), r) :
          r \in {"CrashLoopBackOff", "ImagePullBackOff", "ErrImagePull"}}
  \cup {Unhealthy(name, NoValue, name) :
          name \in {"readiness_fail_after_deploy", "hpa_at_max_replicas", "minor_blip"}}

\* _normalize_signal(): a signal of the contract stays, the row of the value
\* goes before the row of any value; no row, or a value that cannot be looked
\* up, no signal.
NormalizeSignal(name, value) ==
  LET rows(v) == {r \in InternalSignalMap :
                    r.name = name /\ r.value = v /\ value # Text("an object")}
      found == IF rows(value) # {} THEN rows(value) ELSE rows(NoValue)
  IN  CASE name \in ContractSignals -> [signal |-> name, value |-> value]
        [] name \notin ContractSignals /\ found # {} ->
             LET r == CHOOSE r \in found : TRUE
             IN  [signal |-> r.signal, value |-> IF r.becomes = NoValue THEN value ELSE r.becomes]
        [] OTHER -> [signal |-> None, value |-> value]

\* Mutant: the labels of a point do not keep its system.
CompletedOverwriting(point, mode) ==
  [cdo_source_mode |-> mode, cdo_original_signal |-> Get(point, "signal_name"),
   system |-> Or(Get(point, "system"), "E-COMMERCE")]
  ++ GetOr(point, "labels", Empty)

\* The labels of normalize_point(): the system is only a default, the two
\* marks of the conversion overwrite those of an earlier one.
Completed(point, mode) ==
  [cdo_source_mode |-> mode, cdo_original_signal |-> Get(point, "signal_name")]
  ++ GetOr(point, "labels", Empty)
  ++ [system |-> Or(Get(point, "system"), "E-COMMERCE")]

\* normalize_point() before its validation.
NormalizePoint(point, mode) ==
  LET labels == Completed(point, mode)
      signal == NormalizeSignal(Get(point, "signal_name"), GetValue(point, "value"))
  IN  [ts |-> NormalizeTimestamp(Get(point, "ts")),
       tenant_id |-> Or(Get(point, "tenant_id"), TenantId),
       service |-> Or(Get(point, "service"), Or(Get(labels, "service"), Get(labels, "deployment"))),
       signal_name |-> signal.signal,
       value |-> ScrubValue(signal.value),
       labels |-> labels]

\* Mutant: a value may be missing.
ValidPointWithoutValue(point) ==
  /\ DOMAIN point = ContractFields
  /\ {point.service, point.signal_name} \cap NoText = {}
  /\ point.ts # None /\ point.ts.form = "rfc3339ms" /\ point.ts.instant \in Instants
  /\ point.tenant_id \in UuidV4
  /\ point.signal_name \in ContractSignals
  /\ Get(point.labels, "system") \notin NoText
  /\ point.value.text # "an object"

\* validate_point()
ValidPoint(point) ==
  /\ DOMAIN point = ContractFields
  /\ {point.service, point.signal_name} \cap NoText = {}
  /\ point.value.text \notin NoText
  /\ point.ts # None /\ point.ts.form = "rfc3339ms" /\ point.ts.instant \in Instants
  /\ point.tenant_id \in UuidV4
  /\ point.signal_name \in ContractSignals
  /\ Get(point.labels, "system") \notin NoText
  /\ point.value.text # "an object"

\* normalize_window(), before the validation that comes with it.
NormalizeWindow(points, mode) == {NormalizePoint(p, mode) : p \in points}

-----------------------------------------------------------------------------
\* The converters, each a set of points before their validation.

\* from_prometheus_result(): the last of a range, or now and zero; an empty
\* range, whose last raises, is a sample without an instant.
Sample(item) ==
  LET range == GetOr(item, "values", <<[instant |-> Now, value |-> Number(0)]>>) IN
  IF "value" \in DOMAIN item THEN item.value
  ELSE IF range = <<>> THEN [instant |-> None, value |-> NoValue] ELSE Last(range)

\* _number_or_string()
NumberOrString(value) ==
  CASE value.text \in {"a numeral", "a number"} -> Number(value.number)
    [] value = NoValue -> Text("None")
    [] OTHER -> value

\* The series of an answer.
Result(answer) == GetOr(GetOr(answer, "data", Empty), "result", <<>>)
Series(answer) == {Result(answer)[i] : i \in DOMAIN Result(answer)}

FromPrometheusResult(answer, signal, service, namespace, deployment) ==
  {LET metric == GetOr(item, "metric", Empty)
       sample == Sample(item)
   IN  NormalizePoint(
         [ts |-> Canonical(sample.instant), tenant_id |-> TenantId,
          service |-> Or(Get(metric, "service"), Or(Get(metric, "app"), service)),
          signal_name |-> signal,
          value |-> NumberOrString(sample.value),
          labels |-> Kept(
            [system |-> GetOr(metric, "system", "E-COMMERCE"),
             namespace |-> GetOr(metric, "namespace", namespace),
             deployment |-> GetOr(metric, "deployment", deployment),
             pod_name |-> Get(metric, "pod"),
             container |-> Get(metric, "container"),
             endpoint |-> Or(Get(metric, "endpoint"), Get(metric, "path"))])],
         "real_prometheus")
   : item \in Series(answer)}

\* The tests of _infer_signal_from_metric(), in their order.
MetricWords == <<
  [words |-> {"latency", "duration"}, signal |-> "service_latency_p95"],
  [words |-> {"error", "5xx"}, signal |-> "service_error_rate"],
  [words |-> {"restart"}, signal |-> "container_restart_count"],
  [words |-> {"memory", "container"}, signal |-> "container_resource_usage"],
  [words |-> {"queue", "backlog"}, signal |-> "queue_backlog"] >>

\* A metric name is the set of the words in it.
InferSignal(name) ==
  LET hits == {i \in DOMAIN MetricWords : MetricWords[i].words \cap name # {}}
  IN  IF hits = {} THEN "service_unhealthy" ELSE MetricWords[Min(hits)].signal

\* _auto_prometheus(): the first series speaks for all of them.
AutoPrometheus(answer) ==
  LET result == Result(answer)
      metric == IF result = <<>> THEN Empty ELSE GetOr(result[1], "metric", Empty)
      service == Or(Get(answer, "service"),
                    Or(OrAlong(metric, <<"service", "app", "deployment">>, None, NoText),
                       "unknown-service"))
  IN  FromPrometheusResult(
        answer,
        Or(Get(answer, "signal_name"),
           Or(Get(metric, "signal_name"), InferSignal(GetOr(metric, "__name__", {})))),
        service,
        Or(Get(answer, "namespace"), Or(Get(metric, "namespace"), "unknown")),
        Or(Get(answer, "deployment"), Or(Get(metric, "deployment"), service)))

\* _deployment_from_event(): what is left of the name of the object without its
\* last two parts, whatever kind of object it is; its name if it has no stem.
DeploymentFromEvent(object) == Or(Get(object, "stem"), Or(Get(object, "name"), "unknown"))

\* The signal of an event; None for an event that is passed over.
EventSignal(item) ==
  LET reason == Get(item, "reason") IN
  IF reason = "OOMKilling" \/ Or(Get(item, "message"), reason) = "OOMKilled"
  THEN "pod_oom_event"
  ELSE IF reason \in {"Unhealthy", "BackOff", "Failed", "FailedScheduling"}
  THEN "service_unhealthy" ELSE None

\* from_kubernetes_events()
FromKubernetesEvents(events) ==
  {LET object == GetOr(item, "involvedObject", Empty)
       metadata == GetOr(item, "metadata", Empty)
       deployment == DeploymentFromEvent(object)
   IN  NormalizePoint(
         [ts |-> OrAlong(item, <<"eventTime", "lastTimestamp", "firstTimestamp">>, None, NoStamp),
          tenant_id |-> TenantId,
          service |-> Or(Get(GetOr(metadata, "labels", Empty), "app"), deployment),
          signal_name |-> EventSignal(item),
          value |-> Text(Or(Get(item, "message"), Get(item, "reason"))),
          labels |-> [system |-> "K8S_NATIVE",
                      namespace |-> Or(Get(metadata, "namespace"), Get(object, "namespace")),
                      deployment |-> deployment,
                      pod_name |-> Get(object, "name")]],
         "real_k8s_event")
   : item \in {e \in GetOr(events, "items", {}) : EventSignal(e) # None}}

\* _base_labels(): setdefault() keeps the first answer for a label even if it is
\* None, so the second source of the namespace, of the deployment and of the pod
\* is never used, nor is the default of the system.
LabelSources ==
  [system |-> "system", namespace |-> "namespace", deployment |-> "deployment",
   pod_name |-> "pod", container |-> "container", endpoint |-> "endpoint"]

BaseLabels(item, parent) ==
  Kept(GetOr(item, "labels", Empty)
       ++ GetOr(parent, "labels", Empty)
       ++ [label \in DOMAIN LabelSources |->
             Or(Get(item, LabelSources[label]), Get(parent, LabelSources[label]))])

\* _first(): key by key, the record before its parent.
FirstName(item, parent, keys) ==
  LET at(i) == Or(Get(item, keys[i]), Get(parent, keys[i]))
      named == {i \in DOMAIN keys : at(i) \notin NoText}
  IN  IF named = {} THEN None ELSE at(Min(named))

\* What from_log_events() takes for the message of a record.
Message(event) ==
  OrAlong(event, <<"message", "log", "msg", "@message", "value">>, NoValue, FalseValues)

\* from_log_events(): a record without a message is passed over.
FromLogEvents(events, parent) ==
  {LET level == OrAlong(event, <<"level", "severity", "log_level">>, None, NoText)
   IN  NormalizePoint(
         [ts |-> TimestampFromRaw(
                   OrAlong(event, <<"ts", "timestamp", "@timestamp", "time">>, None, NoStamp)),
          tenant_id |-> Or(Get(event, "tenant_id"), Or(Get(parent, "tenant_id"), TenantId)),
          service |-> Or(FirstName(event, parent, <<"service", "service_name", "app", "deployment">>),
                         "unknown-service"),
          signal_name |-> "application_log_event",
          value |-> Message(event),
          labels |-> Kept([level |-> level]) ++ BaseLabels(event, parent)],
         "real_log_event")
   : event \in {e \in events : Message(e) # NoValue}}

\* A span whose status says it failed; a status that is only a code is one
\* without a message.
Failed(span) ==
  "status" \in DOMAIN span /\ Get(span.status, "code") \in {"ERROR", "STATUS_CODE_ERROR", "2"}

\* from_otel_spans(): only failed spans are reported.
FromOtelSpans(spans, parent) ==
  {NormalizePoint(
     [ts |-> TimestampFromRaw(
               OrAlong(span, <<"ts", "startTimeUnixNano", "start_time_unix_nano", "startTime">>,
                       None, NoStamp)),
      tenant_id |-> Or(Get(span, "tenant_id"), Or(Get(parent, "tenant_id"), TenantId)),
      service |-> Or(FirstName(span, parent, <<"service", "serviceName", "service_name", "app">>),
                     "unknown-service"),
      signal_name |-> "distributed_trace_error_event",
      value |-> GetOr(span.status, "message", Text("ERROR")),
      labels |-> Kept([trace_id |-> Or(Get(span, "traceId"), Get(span, "trace_id")),
                       span_id |-> Or(Get(span, "spanId"), Get(span, "span_id")),
                       operation |-> Or(Get(span, "name"), Get(span, "operation"))]
                      ++ BaseLabels(span, parent))],
     "real_otel_span")
   : span \in {s \in spans : Failed(s)}}

\* _attributes_to_dict(): the last attribute of a key that has a value.
AttributesToDict(attributes) ==
  LET set == {i \in DOMAIN attributes :
                Get(attributes[i], "key") \notin NoText /\ "value" \in DOMAIN attributes[i]}
      last(k) == Max({i \in set : attributes[i].key = k})
  IN  [k \in {attributes[i].key : i \in set} |-> attributes[last(k)].value]

\* from_otel_export(): the resource of the spans is their parent.
ResourceParent(resource) ==
  LET attributes == AttributesToDict(GetOr(GetOr(resource, "resource", Empty), "attributes", <<>>))
  IN  [service |-> Get(attributes, "service.name"),
       namespace |-> Get(attributes, "k8s.namespace.name"),
       deployment |-> Get(attributes, "k8s.deployment.name"),
       pod_name |-> Get(attributes, "k8s.pod.name"),
       system |-> Or(Get(attributes, "system"), "E-COMMERCE")]

FromOtelExport(export) ==
  UNION {UNION {FromOtelSpans(spans, ResourceParent(resource)) :
                spans \in GetOr(resource, "scopeSpans", {})} :
         resource \in GetOr(export, "resourceSpans", {})}

-----------------------------------------------------------------------------
\* The tool.

LooksLikeLog(item) ==
  HasAny(item, {"message", "log", "msg", "@message", "log_level", "severity"})

LooksLikeSpan(item) ==
  HasAny(item, {"traceId", "trace_id"}) /\ HasAny(item, {"spanId", "span_id", "name"})

\* What raises for its shape: a window with a point that is not valid.
Unsupported == {Empty}

\* auto_normalize() of a list.
AutoList(list) ==
  IF \A item \in list : LooksLikeLog(item) THEN FromLogEvents(list, Empty)
  ELSE IF \A item \in list : LooksLikeSpan(item) THEN FromOtelSpans(list, Empty)
  ELSE IF \A item \in list : "signal_name" \in DOMAIN item
  THEN NormalizeWindow(list, "contract_or_internal_window") ELSE Unsupported

\* auto_normalize(): the first shape that fits.  A JSON list is [list |-> members].
AutoNormalize(raw) ==
  IF "telemetry_window" \in DOMAIN raw THEN NormalizeWindow(raw.telemetry_window, "mock_scenario")
  ELSE IF Get(raw, "status") = "success" /\ "result" \in DOMAIN GetOr(raw, "data", Empty)
       THEN AutoPrometheus(raw)
  ELSE IF "items" \in DOMAIN raw THEN FromKubernetesEvents(raw)
  ELSE IF "resourceSpans" \in DOMAIN raw THEN FromOtelExport(raw)
  ELSE IF LooksLikeLog(raw) THEN FromLogEvents({raw}, Empty)
  ELSE IF "logEvents" \in DOMAIN raw THEN FromLogEvents(raw.logEvents, raw)
  ELSE IF "list" \in DOMAIN raw THEN AutoList(raw.list) ELSE Unsupported

\* The validation inside normalize_point(): one bad point, no window.
Window(points) == IF \A p \in points : ValidPoint(p) THEN points ELSE None

Modes == {"auto", "scenario", "prometheus", "k8s-events", "logs", "otel-spans", "otlp-export"}

\* The modes of normalize_telemetry.py that write a window, before the
\* validation; its prometheus mode is given the input with the names of its
\* other arguments, which are all required.
Converted(mode, raw) ==
  CASE mode = "auto" -> AutoNormalize(raw)
    [] mode = "scenario" -> IF "telemetry_window" \in DOMAIN raw
                            THEN NormalizeWindow(raw.telemetry_window, "mock_scenario")
                            ELSE Unsupported
    [] mode = "prometheus" ->
         IF Has(raw, {"input", "signal_name", "service", "namespace", "deployment"})
         THEN FromPrometheusResult(raw.input, raw.signal_name, raw.service, raw.namespace,
                                   raw.deployment)
         ELSE Unsupported
    [] mode = "k8s-events" -> FromKubernetesEvents(raw)
    [] mode = "logs" -> IF "logEvents" \in DOMAIN raw THEN FromLogEvents(raw.logEvents, raw)
                        ELSE FromLogEvents(GetOr(raw, "list", {raw}), Empty)
    [] mode = "otel-spans" -> IF "list" \in DOMAIN raw THEN FromOtelSpans(raw.list, Empty)
                              ELSE Unsupported
    [] mode = "otlp-export" -> FromOtelExport(raw)

\* The window that the tool writes.
Convert(mode, raw) == Window(Converted(mode, raw))
=============================================================================
