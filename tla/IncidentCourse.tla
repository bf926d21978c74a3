--------------------------- MODULE IncidentCourse ---------------------------
(***************************************************************************)
(* The course of one incident, as its caller and the reader of its trail   *)
(* may rely on it: it is begun once, every call it makes leaves fewer to   *)
(* come, it executes at most one action (a rollback undoes one), and it    *)
(* ends once, in a way that fits what was done.  HealLoop.tla (each of its *)
(* alerts, under every fault) and Intake.tla (the incident with its data)  *)
(* are shown to implement this module.                                     *)
(***************************************************************************)
EXTENDS Naturals

VARIABLES
  outcome,  \* "new", "handling", or how it ended
  ahead,    \* the calls that may still come
  sent      \* the actions that went to the cluster

vars == <<outcome, ahead, sent>>

\* Ends that need no action; those of an incident that acted.
EndsUnacted == {"closed", "duplicate_denied", "escalated", "died"}
EndsActed == {"auto_resolved", "retry", "rolled_back", "duplicate_denied", "escalated", "died"}

Init == outcome = "new" /\ ahead \in Nat /\ sent = {}

\* It is taken up, or its telemetry is refused.
Begin ==
  /\ outcome = "new"
  /\ outcome' \in {"handling", "escalated"}
  /\ UNCHANGED sent

Proceed ==
  /\ outcome = "handling"
  /\ UNCHANGED <<outcome, sent>>

\* The one action; one that failed ends the incident.
Act ==
  /\ outcome = "handling"
  /\ sent = {}
  /\ \E action \in sent' : sent' = {action}
  /\ outcome' \in {"handling", "escalated"}

End ==
  /\ outcome = "handling"
  /\ outcome' \in IF sent = {} THEN EndsUnacted ELSE EndsActed
  /\ UNCHANGED sent

Next ==
  /\ Begin \/ Proceed \/ Act \/ End
  /\ ahead' \in Nat /\ ahead' < ahead

Spec == Init /\ [][Next]_vars
=============================================================================
