--------------------------- MODULE PreDecideGate ---------------------------
(***************************************************************************)
(* executor/pre_decide_gate.py: evaluate() and its FlapTracker.  A reply   *)
(* of /v1/detect is known by whether it reports an anomaly, by its         *)
(* confidence against the two thresholds of the configuration, and by its  *)
(* severity against HIGH.  No caller passes maintenance_active, so the     *)
(* first test of the code never fires.                                     *)
(***************************************************************************)
EXTENDS Integers, Sequences

CONSTANTS
  FlapWindow,       \* cfg.flap_window_seconds
  FlapThreshold     \* cfg.flap_threshold

ASSUME FlapAssumption ==
  /\ FlapWindow \in Nat
  /\ FlapThreshold \in Nat \ {0}

\* confidence < 0.5, < 0.8, or more.
Detections ==
  [anomaly : BOOLEAN, confidence : {"noise", "low", "high"}, severe : BOOLEAN]

\* Mutant: old entries stay in the deque.
PrunesNothing(deque, cutoff, stale) == stale = 0

\* popleft() while the head is older than the cutoff removes the first stale
\* entries of a deque whose last entry is new.
Prunes(deque, cutoff, stale) ==
  /\ \A i \in 1..stale : deque[i].at < cutoff
  /\ deque[stale + 1].at >= cutoff

\* What record_and_count(), and record_failure() of the circuit breaker, may make
\* of a deque: the entry is appended, and what is older than the window goes.
Recorded(old, entry, window) ==
  LET deque == Append(old, entry) IN
  {SubSeq(deque, stale + 1, Len(deque)) :
     stale \in {k \in 0..Len(old) : Prunes(deque, entry.at - window, k)}}

\* The tests before the flap tracker, in their order; a reply that passes them
\* is counted.
Early(d) ==
  CASE ~d.anomaly                              -> "no_anomaly"
    [] d.anomaly /\ d.confidence = "noise"     -> "low_confidence_discard"
    [] d.anomaly /\ d.confidence = "low" /\ d.severe  -> "low_confidence_escalated"
    [] d.anomaly /\ d.confidence = "low" /\ ~d.severe -> "low_confidence_no_action"
    [] OTHER                                   -> "counted"

\* What becomes of a counted reply, with the hits that now stand.
Late(hits) ==
  IF Len(hits) >= FlapThreshold THEN "flapping_escalated" ELSE "proceed_to_decide"
=============================================================================
