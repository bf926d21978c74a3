----------------------------- MODULE AiReplies -----------------------------
(***************************************************************************)
(* models.py: the replies of the AI engine as from_dict() reads them.  A   *)
(* field that from_dict() looks up with d["..."] is required: without it   *)
(* a KeyError leaves handle_incident.  Confidence and severity are in per  *)
(* cent.                                                                   *)
(***************************************************************************)
EXTENDS Dicts

\* AnomalyContext.from_dict()
WholeContext(c) == Has(c, {"target_service", "suspected_fault_type", "system"})

\* AnomalyContext.to_dict(): what /v1/decide is sent of it.
Echo(c) ==
  LET optional == {"namespace", "deployment", "trigger_metric", "trigger_value"} IN
  [k \in {"target_service", "suspected_fault_type", "system"}
         \cup {k \in optional : Get(c, k) # None} |-> c[k]]

\* DetectResponse.from_dict(): the anomaly_context may be missing or empty.
Context(d) ==
  LET c == Get(d, "anomaly_context") IN IF c = Empty THEN None ELSE c

WholeDetect(d) ==
  /\ Has(d, {"anomaly_detected", "severity", "confidence", "reasoning", "correlation_id"})
  /\ Context(d) # None => WholeContext(Context(d))

\* ActionPlanItem, BlastRadiusConfig and VerifyPolicy.from_dict()
WholeItem(item) == Has(item, {"step", "action", "target", "params"})
WholeBlastRadius(b) ==
  Has(b, {"max_pod_impact_pct", "circuit_breaker_error_rate", "allowed_namespaces"})
WholePolicy(p) == Has(p, {"window_seconds"})

\* DecideResponse.from_dict()
WholeDecide(d) ==
  /\ Has(d, {"matched_runbook", "pattern_type", "action_plan", "blast_radius_config",
             "verify_policy", "correlation_id", "idempotency_key", "dry_run_mode"})
  /\ \A i \in DOMAIN d.action_plan : WholeItem(d.action_plan[i])
  /\ WholeBlastRadius(d.blast_radius_config)
  /\ WholePolicy(d.verify_policy)

\* Mutant: an action without a namespace gets a default.
PlanItemDefaulted(item) ==
  [action |-> item.action, ns |-> GetOr(item.params, "namespace", "tenant-a"),
   replicas |-> Get(item.params, "replicas"), memory |-> Get(item.params, "memory_limit_mb")]

\* ActionPlanItem.namespace, and the parameters that the safety gate reads.
PlanItem(item) ==
  [action |-> item.action, ns |-> Get(item.params, "namespace"),
   replicas |-> Get(item.params, "replicas"), memory |-> Get(item.params, "memory_limit_mb")]

\* The plan of a whole reply, as SafetyGate.tla speaks of it.
Plan(d) ==
  [pattern |-> d.pattern_type,
   verifyWindow |-> d.verify_policy.window_seconds,
   items |-> [i \in DOMAIN d.action_plan |-> PlanItem(d.action_plan[i])],
   allowed |-> d.blast_radius_config.allowed_namespaces,
   impactPct |-> d.blast_radius_config.max_pod_impact_pct]

\* VerifyResponse.from_dict()
WholeVerify(d) == Has(d, {"success", "regression_detected", "next_action"})
=============================================================================
