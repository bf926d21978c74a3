---------------------------- MODULE HealPromise ----------------------------
(***************************************************************************)
(* What the idempotency lock is for: an incident is acted on at most once  *)
(* under a claim that stands, and only by who claimed it.  A claim is of a *)
(* key; it may lapse, and then the key can be claimed and acted on again.  *)
(* HealLoop.tla is shown to implement this module.                         *)
(***************************************************************************)
EXTENDS Sequences

CONSTANTS Alerts, Keys

VARIABLES
  claims,     \* who claimed which key: a set of <<alert, key>>
  executed    \* what was acted on: a sequence of <<alert, key, its claim stands>>

vars == <<claims, executed>>

Init == claims = {} /\ executed = <<>>

Claim(a, k) ==
  /\ \A b \in Alerts : <<b, k>> \notin claims
  /\ claims' = claims \cup {<<a, k>>}
  /\ UNCHANGED executed

Execute(a, k) ==
  /\ <<a, k>> \in claims
  /\ \A i \in DOMAIN executed : executed[i][3] => executed[i][2] # k
  /\ executed' = Append(executed, <<a, k, TRUE>>)
  /\ UNCHANGED claims

Lapse(gone) ==
  /\ claims' = {claim \in claims : claim[2] \notin gone}
  /\ executed' = [i \in DOMAIN executed |->
       <<executed[i][1], executed[i][2], executed[i][3] /\ executed[i][2] \notin gone>>]

Next ==
  \/ \E a \in Alerts, k \in Keys : Claim(a, k) \/ Execute(a, k)
  \/ \E gone \in SUBSET Keys : Lapse(gone)

Spec == Init /\ [][Next]_vars
=============================================================================
