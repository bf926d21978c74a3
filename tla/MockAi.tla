------------------------------- MODULE MockAi -------------------------------
(***************************************************************************)
(* mock_ai_server.py: the AI engine of the scenario runs.  It answers by   *)
(* the scenario that the labels of the first point name; a window that     *)
(* names none is answered by its signals.                                  *)
(***************************************************************************)
EXTENDS Dicts

PatchMem == {"oom_kill", "oom_kill_b", "memory_pressure", "oom_persist"}

\* _infer_scenario()
InferScenario(window) ==
  LET names == {p.signal_name : p \in window} IN
  IF "pod_oom_event" \in names THEN "oom_kill"
  ELSE IF "container_restart_count" \in names THEN "crashloop"
  ELSE IF "service_unhealthy" \in names THEN "service_unhealthy"
  ELSE "default"

\* _detect(), for a window that starts with the point first.
MockDetect(window, first, cid) ==
  LET scenario == Or(Get(first.labels, "scenario"), InferScenario(window))
      low == scenario = "low_conf"
  IN  [anomaly_detected |-> TRUE,
       severity |-> IF low THEN 30 ELSE 85,
       confidence |-> IF low THEN 55 ELSE 92,
       reasoning |-> scenario,
       correlation_id |-> cid,
       anomaly_context |->
         [target_service |-> first.service,
          suspected_fault_type |-> scenario,
          system |-> GetOr(first.labels, "system", "K8S_NATIVE"),
          namespace |-> GetOr(first.labels, "namespace", "tenant-a"),
          deployment |-> GetOr(first.labels, "deployment", "cdo-sample-api"),
          trigger_metric |-> first.signal_name,
          trigger_value |-> first.value]]

\* What _decide() does about a scenario: an action and its parameters.
Remedy(action, params) == [action |-> action, params |-> params]

\* Mutant: the scenario that must be stopped by the gate asks for its own tenant.
RemedyOwnTenant(scenario, ns) ==
  CASE scenario \in PatchMem ->
         Remedy("PATCH_MEMORY_LIMIT", [namespace |-> ns, memory_limit_mb |-> 1024])
    [] scenario = "bad_deploy" -> Remedy("ROLLOUT_UNDO", [namespace |-> ns])
    [] scenario = "scale_capacity" -> Remedy("SCALE_REPLICAS", [namespace |-> ns, replicas |-> 4])
    [] scenario = "unsafe_action" -> Remedy("DELETE_NAMESPACE", [namespace |-> ns])
    [] OTHER -> Remedy("RESTART_DEPLOYMENT", [namespace |-> ns])

RemedyOf(scenario, ns) ==
  CASE scenario \in PatchMem ->
         Remedy("PATCH_MEMORY_LIMIT", [namespace |-> ns, memory_limit_mb |-> 1024])
    [] scenario = "bad_deploy" -> Remedy("ROLLOUT_UNDO", [namespace |-> ns])
    [] scenario = "scale_capacity" -> Remedy("SCALE_REPLICAS", [namespace |-> ns, replicas |-> 4])
    [] scenario = "cross_tenant" -> Remedy("RESTART_DEPLOYMENT", [namespace |-> "tenant-b"])
    [] scenario = "unsafe_action" -> Remedy("DELETE_NAMESPACE", [namespace |-> ns])
    [] OTHER -> Remedy("RESTART_DEPLOYMENT", [namespace |-> ns])

\* _decide(), for the anomaly context that the request echoes.
MockDecide(context, cid) ==
  LET scenario == GetOr(context, "suspected_fault_type", "default")
      remedy == RemedyOf(scenario, GetOr(context, "namespace", "tenant-a"))
  IN  [matched_runbook |-> "runbook",
       pattern_type |-> IF scenario = "scale_capacity" THEN "deferred" ELSE "urgent",
       action_plan |-> << [step |-> 1, action |-> remedy.action,
                           target |-> GetOr(context, "deployment", "cdo-sample-api"),
                           params |-> remedy.params] >>,
       blast_radius_config |->
         [max_pod_impact_pct |-> 25, circuit_breaker_error_rate |-> 20,
          allowed_namespaces |-> {remedy.params.namespace}],
       verify_policy |-> [window_seconds |-> 120],
       correlation_id |-> cid, idempotency_key |-> cid, dry_run_mode |-> FALSE]

\* _verify(), for a window that starts with the point first.
MockVerify(first) ==
  LET scenario == GetOr(first.labels, "scenario", "default") IN
  CASE scenario = "oom_persist" ->
         [success |-> FALSE, regression_detected |-> TRUE, next_action |-> "ROLLBACK"]
    [] scenario = "verify_escalate" ->
         [success |-> FALSE, regression_detected |-> FALSE, next_action |-> "ESCALATE",
          escalation_bundle |-> [reason |-> "still above its limit", logs |-> {"ai"},
                                 metrics |-> [error_rate |-> 42]]]
    [] OTHER -> [success |-> TRUE, regression_detected |-> FALSE, next_action |-> "DONE"]
=============================================================================
