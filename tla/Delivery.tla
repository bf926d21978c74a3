------------------------------ MODULE Delivery ------------------------------
(***************************************************************************)
(* What the telemetry buffer and its forwarder promise about a message: it *)
(* enters the queue once, is taken by at most one executor and never again,*)
(* and ends in at most one way: it expires in the queue, its call ends, or *)
(* it is lost with the executor that took it.  The queue may hand out one  *)
(* payload as several messages; the executors use none of them twice.      *)
(* TelemetryForwarder.tla is shown to implement this module.               *)
(***************************************************************************)
CONSTANTS Workers, Messages, Fates

VARIABLES
  waiting,    \* messages in the queue and not taken yet
  taken,      \* who took which message: a set of <<worker, message>>
  ended       \* how it ended: a set of <<message, fate>>

vars == <<waiting, taken, ended>>

Init == waiting = {} /\ taken = {} /\ ended = {}

Send(p) ==
  /\ p \notin waiting
  /\ \A w \in Workers : <<w, p>> \notin taken
  /\ \A f \in Fates \cup {"expired"} : <<p, f>> \notin ended
  /\ waiting' = waiting \cup {p}
  /\ UNCHANGED <<taken, ended>>

Expire(p) ==
  /\ p \in waiting
  /\ waiting' = waiting \ {p}
  /\ ended' = ended \cup {<<p, "expired">>}
  /\ UNCHANGED taken

Take(w, p) ==
  /\ p \in waiting
  /\ waiting' = waiting \ {p}
  /\ taken' = taken \cup {<<w, p>>}
  /\ UNCHANGED ended

End(w, p, f) ==
  /\ <<w, p>> \in taken
  /\ taken' = taken \ {<<w, p>>}
  /\ ended' = ended \cup {<<p, f>>}
  /\ UNCHANGED waiting

Next ==
  \E p \in Messages :
    \/ Send(p) \/ Expire(p)
    \/ \E w \in Workers : Take(w, p) \/ \E f \in Fates : End(w, p, f)

Spec == Init /\ [][Next]_vars
=============================================================================
