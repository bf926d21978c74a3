----------------------------- MODULE MCHealLoop -----------------------------
(***************************************************************************)
(* Two executors and three alerts: two of one incident (a retry of it, or  *)
(* the same fault injected into both pods) and one of another incident of  *)
(* another tenant.                                                         *)
(***************************************************************************)
EXTENDS HealLoop, TLC

CONSTANTS e1, e2, a1, a2, a3, c1, c2, tenantA, tenantB

MCExecutors == {e1, e2}
MCAlerts == {a1, a2, a3}
MCCids == {c1, c2}
MCNamespaces == {tenantA, tenantB}

MCCidOf == (a1 :> c1) @@ (a2 :> c1) @@ (a3 :> c2)
MCNsOf == (a1 :> tenantA) @@ (a2 :> tenantA) @@ (a3 :> tenantB)

Item(action, ns) ==
  [action |-> action, ns |-> ns, replicas |-> 1, memory |-> Absent]

Plan(pattern, items) ==
  [pattern |-> pattern, verifyWindow |-> 60, items |-> items,
   allowed |-> MCNamespaces, impactPct |-> 100]

\* An urgent plan for one tenant, a deferred one for the other, and one that
\* strays into the other tenant at its second item.
MCDecisions == {
  Plan("urgent", <<Item("RESTART_DEPLOYMENT", tenantA)>>),
  Plan("deferred", <<Item("SCALE_REPLICAS", tenantB)>>),
  Plan("urgent", <<Item("RESTART_DEPLOYMENT", tenantA), Item("ROLLOUT_UNDO", tenantB)>>) }

\* One urgent plan is enough where the plan does not matter.
OneDecision == {Plan("urgent", <<Item("RESTART_DEPLOYMENT", tenantA)>>)}

\* Two alerts of one incident.
TwoAlerts == {a1, a2}
OneCid == {c1}
SameCid == (a1 :> c1) @@ (a2 :> c1)
SameNs == (a1 :> tenantA) @@ (a2 :> tenantA)

OneExecutor == {e1}

\* Two alerts of two incidents of one tenant.
TwoCidOf == (a1 :> c1) @@ (a2 :> c2)

\* The safety properties do not look at the audit trail, and no guard does.
WithoutAudit == <<pc, alert, buffer, cid, plan, breakerVars, owner, executions, outcome>>

ExecutorSymmetry == Permutations(MCExecutors)
=============================================================================
