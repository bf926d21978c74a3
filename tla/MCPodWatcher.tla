---------------------------- MODULE MCPodWatcher ----------------------------
(* An instance of PodWatcher for TLC. *)
EXTENDS PodWatcher

MCDeploymentOf == [p \in Pods |-> "payment"]

\* Points of scenario files: each field as it may be, absent or empty.
WrittenPoint ==
  [ts |-> Now, tenant_id |-> TenantId, service |-> "payment", signal_name |-> "error_rate",
   value |-> Number(0), labels |-> [deployment |-> "payment", service |-> None]]

MCRawPoints ==
  {WrittenPoint, [WrittenPoint EXCEPT !.ts = None]}
    \cup {[WrittenPoint EXCEPT !.tenant_id = t] : t \in {None, "another"}}
    \cup {[WrittenPoint EXCEPT !.service = "", !.labels.deployment = d] : d \in {None, "payment"}}
    \cup {[WrittenPoint EXCEPT !.signal_name = n] : n \in {None, "queue_backlog", "cpu"}}
    \cup {[WrittenPoint EXCEPT !.value = v] : v \in {Text(None), Text(""), Text("pii")}}
=============================================================================
