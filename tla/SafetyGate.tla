----------------------------- MODULE SafetyGate -----------------------------
(***************************************************************************)
(* executor/safety_gate.py: check(), the gate between /v1/decide and the   *)
(* first write to the cluster.  It tests the plan and then every item of   *)
(* it in order, and answers with the reason of the first test that fails.  *)
(* A test is a row [when, why] of a table, in the order of the code.       *)
(***************************************************************************)
EXTENDS Integers, Sequences

CONSTANTS
  Absent,                     \* a parameter the AI did not send (None)
  MinReplicas, MaxReplicas,   \* cfg.min_replicas, cfg.max_replicas
  MaxMemory                   \* cfg.max_memory_mb

ASSUME GateAssumption ==
  /\ MinReplicas \in Int
  /\ MaxReplicas \in Int
  /\ MaxMemory \in Int

UrgentActions == {"RESTART_DEPLOYMENT", "PATCH_MEMORY_LIMIT", "ROLLOUT_UNDO"}
DeferredActions == {"SCALE_REPLICAS", "ROTATE_SECRET"}
AllowedActions == UrgentActions \cup DeferredActions

Passed == "safety_passed"

Row(when, why) == [when |-> when, why |-> why]

\* Mutant: a missing verify_policy is not noticed.
PlanRowsNoVerify(d) == <<
  Row(d.pattern \notin {"urgent", "deferred"}, "invalid_pattern_type"),
  Row(d.items = <<>>, "missing_rollback_path") >>

PlanRows(d) == <<
  Row(d.pattern \notin {"urgent", "deferred"}, "invalid_pattern_type"),
  Row(d.verifyWindow <= 0, "missing_verify_policy"),
  Row(d.items = <<>>, "missing_rollback_path") >>

TooFewReplicas(it) == it.replicas # Absent /\ it.replicas < MinReplicas
TooManyReplicas(it) == it.replicas # Absent /\ it.replicas > MaxReplicas

\* Mutant: scaling to zero is reported as an excess of the blast radius.
BlastRadiusRowsMerged(d, it) == <<
  Row(/\ it.action = "SCALE_REPLICAS"
      /\ it.replicas = Absent \/ TooFewReplicas(it) \/ TooManyReplicas(it),
      "blast_radius_exceeded"),
  Row(it.action = "PATCH_MEMORY_LIMIT" /\ (it.memory = Absent \/ it.memory > MaxMemory),
      "blast_radius_exceeded"),
  Row(d.impactPct > 100, "blast_radius_exceeded") >>

\* _check_blast_radius: there is no lower bound on the memory limit.
BlastRadiusRows(d, it) == <<
  Row(it.action = "SCALE_REPLICAS" /\ it.replicas = Absent, "blast_radius_exceeded"),
  Row(it.action = "SCALE_REPLICAS" /\ TooFewReplicas(it), "scale_to_zero_denied"),
  Row(it.action = "SCALE_REPLICAS" /\ TooManyReplicas(it), "blast_radius_exceeded"),
  Row(it.action = "PATCH_MEMORY_LIMIT" /\ (it.memory = Absent \/ it.memory > MaxMemory),
      "blast_radius_exceeded"),
  Row(d.impactPct > 100, "blast_radius_exceeded") >>

\* _check_action_allowed, _check_pattern_routing, _check_tenant_match, then
\* _check_blast_radius, for an incident of namespace ns.
ItemRows(d, ns, it) == <<
  Row(it.action \notin AllowedActions, "denied_action_not_allowed"),
  Row(d.pattern = "urgent" /\ it.action \notin UrgentActions, "invalid_pattern_type"),
  Row(d.pattern = "deferred" /\ it.action \notin DeferredActions, "invalid_pattern_type"),
  Row(it.ns = Absent, "missing_target_namespace"),
  Row(it.ns # ns, "denied_cross_tenant"),
  Row(it.ns \notin d.allowed, "denied_cross_tenant") >> \o BlastRadiusRows(d, it)

Denies(rows) == \E i \in DOMAIN rows : rows[i].when

FirstReason(rows) ==
  rows[CHOOSE i \in DOMAIN rows :
         rows[i].when /\ \A j \in 1..i - 1 : ~rows[j].when].why

ItemDenied(d, ns, i) == Denies(ItemRows(d, ns, d.items[i]))

\* Mutant: only the item that will be executed is tested.
ItemsToTestFirst(d) == {1}

\* Every item of the plan is tested, although only the first is executed.
ItemsToTest(d) == DOMAIN d.items

FirstDenied(d, ns) ==
  CHOOSE i \in ItemsToTest(d) :
    ItemDenied(d, ns, i) /\ \A j \in 1..i - 1 : ~ItemDenied(d, ns, j)

\* check() returns: no test fails.
Allows(d, ns) ==
  /\ ~Denies(PlanRows(d))
  /\ \A i \in ItemsToTest(d) : ~ItemDenied(d, ns, i)

\* The reason of the SafetyDenied that check() raises otherwise.
Reason(d, ns) ==
  FirstReason(IF Denies(PlanRows(d)) THEN PlanRows(d)
              ELSE ItemRows(d, ns, d.items[FirstDenied(d, ns)]))

Check(d, ns) == IF Allows(d, ns) THEN Passed ELSE Reason(d, ns)

-----------------------------------------------------------------------------
\* What a plan that passes is known to be, said without the tables or their
\* order: a plan of known actions of its own kind, inside the namespace of the
\* incident and the namespaces the AI allowed, within the limits on replicas,
\* memory and affected pods, and with time left to verify it.
Safe(d, ns) ==
  /\ d.items # <<>>
  /\ d.verifyWindow > 0
  /\ d.impactPct <= 100
  /\ \/ d.pattern = "urgent" /\ \A i \in DOMAIN d.items : d.items[i].action \in UrgentActions
     \/ d.pattern = "deferred" /\ \A i \in DOMAIN d.items : d.items[i].action \in DeferredActions
  /\ \A i \in DOMAIN d.items :
       LET it == d.items[i] IN
       /\ it.ns = ns /\ ns # Absent /\ ns \in d.allowed
       /\ it.action = "SCALE_REPLICAS" =>
            it.replicas # Absent /\ it.replicas >= MinReplicas /\ it.replicas <= MaxReplicas
       /\ it.action = "PATCH_MEMORY_LIMIT" =>
            it.memory # Absent /\ it.memory <= MaxMemory
=============================================================================
