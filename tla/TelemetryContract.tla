-------------------------- MODULE TelemetryContract --------------------------
(***************************************************************************)
(* telemetry_contract.py: raw telemetry is completed, mapped, scrubbed and *)
(* validated before it may become a window.  A value is a text with a      *)
(* number (the number 0 has its own place in Python's idea of an absent    *)
(* field); a text that holds personal data is the text "pii".  Windows are *)
(* sets of points: nothing depends on their order.                         *)
(***************************************************************************)
EXTENDS Integers

CONSTANTS
  TenantId,     \* the tenant_id of the executor
  None,         \* an absent field
  Now           \* a time stamp

AllowedSignals ==
  {"service_error_rate", "service_latency_p95", "service_throughput_rps",
   "application_log_event", "distributed_trace_error_event",
   "container_resource_usage", "pod_oom_event", "container_restart_count",
   "service_unhealthy", "queue_backlog", "db_connection_pool_saturation",
   "secret_expiry_warning"}

SignalAliases ==
  [error_rate |-> "service_error_rate", latency_p95 |-> "service_latency_p95",
   throughput_rps |-> "service_throughput_rps", log_event |-> "application_log_event",
   trace_error_event |-> "distributed_trace_error_event",
   memory_usage |-> "container_resource_usage", oom_event |-> "pod_oom_event",
   restart_count |-> "container_restart_count", unhealthy |-> "service_unhealthy"]

ASSUME ContractAssumption ==
  /\ {TenantId, Now} \cap {None, ""} = {}
  /\ None \notin AllowedSignals \cup {"", "a number"}

Text(t) == [text |-> t, number |-> 0]
Number(n) == [text |-> "a number", number |-> n]

-----------------------------------------------------------------------------
\* Python's `a or b` for the fields that are texts.
Or(a, b) == IF a \in {None, ""} THEN b ELSE a

\* scrub_pii()
Scrub(value) == IF value.text = "pii" THEN Text("redacted") ELSE value

MapSignalName(raw) == IF raw \in DOMAIN SignalAliases THEN SignalAliases[raw] ELSE raw

\* normalize_point() before its validation.
NormalizePoint(raw) ==
  [ts |-> Or(raw.ts, Now),
   tenant_id |-> Or(raw.tenant_id, TenantId),
   service |-> Or(raw.service, Or(raw.labels.deployment, raw.labels.service)),
   signal_name |-> MapSignalName(raw.signal_name),
   value |-> Scrub(raw.value),
   labels |-> raw.labels]

\* Mutant: a value that is false for Python is missing.
MissingWhenFalse(value) == value.text \in {None, ""} \/ value = Number(0)

\* A value that validate_point() finds missing.
MissingValue(value) == value.text \in {None, ""}

\* Mutant: the tenant is not compared.
ValidPointOfAnyTenant(point) ==
  /\ {None, ""} \cap {point.ts, point.tenant_id, point.service, point.signal_name} = {}
  /\ ~MissingValue(point.value)
  /\ point.signal_name \in AllowedSignals

\* validate_point()
ValidPoint(point) ==
  /\ {None, ""} \cap {point.ts, point.tenant_id, point.service, point.signal_name} = {}
  /\ ~MissingValue(point.value)
  /\ point.tenant_id = TenantId
  /\ point.signal_name \in AllowedSignals

\* What normalize_window() raises TelemetryContractError for.
Rejects(raws) == raws = {} \/ \E raw \in raws : ~ValidPoint(NormalizePoint(raw))

Normalized(raws) == {NormalizePoint(raw) : raw \in raws}
=============================================================================
