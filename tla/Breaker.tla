------------------------------ MODULE Breaker ------------------------------
(***************************************************************************)
(* What the circuit breaker promises to the self-heal loop, without a      *)
(* clock.  It is either closed or open and counts the recent failures;     *)
(* time shows only as a choice: a failure may find that some of the        *)
(* failures counted so far have left the window, and a query of an open    *)
(* breaker may find that the cooldown is over.                             *)
(* CircuitBreaker.tla (the clocked component) and HealLoop.tla (every      *)
(* executor's breaker) are shown to implement this module.                 *)
(***************************************************************************)
EXTENDS Naturals

CONSTANT Threshold      \* cfg.circuit_fail_threshold

VARIABLES
  count,      \* failures counted in the window
  opened,     \* TRUE while the breaker is tripped
  admitted    \* an incident passed is_open() and has not ended yet

vars == <<count, opened, admitted>>

TypeOK ==
  /\ count \in Nat
  /\ opened \in BOOLEAN
  /\ admitted \in BOOLEAN

Closed == count = 0 /\ ~opened /\ ~admitted

Init == Closed

\* is_open() answers "no": the breaker is closed, or its cooldown is over and
\* it closes and forgets the failures.
Admit ==
  /\ ~admitted
  /\ admitted' = TRUE
  /\ opened' = FALSE
  /\ count' = IF opened THEN 0 ELSE count

\* record_failure(): some of the earlier failures are still in the window.
Fail ==
  /\ \E recent \in 0..count : count' = recent + 1
  /\ opened' = (opened \/ count' >= Threshold)
  /\ admitted' = FALSE

\* record_success(): only an admitted incident gets this far.
Succeed ==
  /\ admitted
  /\ count' = 0
  /\ admitted' = FALSE
  /\ UNCHANGED opened

\* An admitted incident ends and tells the breaker nothing.
Leave ==
  /\ admitted
  /\ admitted' = FALSE
  /\ UNCHANGED <<count, opened>>

\* The process restarts with a new breaker.
Restart == count' = 0 /\ opened' = FALSE /\ admitted' = FALSE

Next == Admit \/ Fail \/ Succeed \/ Leave \/ Restart

Spec == Init /\ [][Next]_vars
=============================================================================
