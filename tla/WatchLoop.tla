----------------------------- MODULE WatchLoop -----------------------------
(***************************************************************************)
(* executor/main.py: watch_loop(), the production mode, with the two       *)
(* components that remember earlier incidents: the FlapTracker of the      *)
(* Pre-Decide Gate and the circuit breaker.  One process polls the pods,   *)
(* handles the faults of a poll one after the other, and sleeps.  What     *)
(* handle_incident does in between is in HealLoop.tla; here it takes time, *)
(* meets the gate and the breaker, and ends.                               *)
(*                                                                         *)
(* One clock stands for time.time() and time.monotonic(): the host does    *)
(* not set its clock back.  A deployment is faulty while its pods show a   *)
(* fault that collect_fault_events reports.                                *)
(***************************************************************************)
EXTENDS PreDecideGate, FiniteSets

CONSTANTS
  Deployments,      \* "namespace/deployment" keys of the watcher
  Services,         \* "namespace/target_service" keys of the flap tracker
  ServiceOf,        \* the target_service /v1/detect names for a deployment
  PollInterval,     \* cfg.poll_interval_s
  HealCooldown,     \* cfg.heal_cooldown_s
  MaxHandling,      \* the longest handle_incident can take
  FailThreshold, FailWindow, OpenCooldown,   \* of the circuit breaker
  MayRestart,       \* whether the process may restart
  MaxTime,          \* bound: the clock stops here
  None

ASSUME WatchAssumption ==
  /\ ServiceOf \in [Deployments -> Services]
  /\ PollInterval \in Nat \ {0}
  /\ HealCooldown \in Nat
  /\ MaxHandling \in Nat \ {0}
  /\ FailThreshold \in Nat \ {0}
  /\ FailWindow \in Nat
  /\ OpenCooldown \in Nat
  /\ MayRestart \in BOOLEAN
  /\ MaxTime \in Nat
  /\ None \notin Deployments
  /\ IsFiniteSet(Deployments)

\* The cooldown is as long as the window of the breaker, and so long that
\* FlapThreshold heals of one deployment take more than the window of the gate: by
\* default 300 s against 300 s, and 2 * 301 - 1 against 600 s (config.py:68-96).
ASSUME SpacingAssumption ==
  /\ FailWindow <= HealCooldown
  /\ FlapWindow < (FlapThreshold - 1) * (HealCooldown + 1) - 1

VARIABLES
  now,
  faulty,       \* the deployments with a pod in a reported state
  asleepUntil,  \* the end of time.sleep(poll_interval_s)
  events,       \* what is left of the events of this poll
  pollNow,      \* the variable now of the loop, read before the poll
  cooldown,     \* the end of the last heal of each deployment, or 0
  handling,     \* the deployment being handled, or None
  started,      \* when it was taken up
  passed,       \* it is past the gate and the breaker
  hits,         \* FlapTracker._hits, with the deployment each hit came from
  failures,     \* CircuitBreaker._failures, with the deployment of each failure
  openedAt,     \* CircuitBreaker._opened_at, or -1
  since,        \* history: since when a deployment waits to be taken up, or -1
  healed        \* history: when this process last ended a heal of each, or -1

loopVars == <<asleepUntil, events, pollNow, cooldown>>
incidentVars == <<handling, started, passed>>
breakerVars == <<failures, openedAt>>
vars == <<now, faulty, loopVars, incidentVars, hits, breakerVars, since, healed>>

Never == -1

Report == [at : Nat, of : Deployments]

TypeOK ==
  /\ now \in Nat
  /\ faulty \subseteq Deployments
  /\ asleepUntil \in Nat
  /\ events \in Seq(Deployments)
  /\ pollNow \in Nat
  /\ cooldown \in [Deployments -> Nat]
  /\ handling \in Deployments \cup {None}
  /\ started \in Nat
  /\ passed \in BOOLEAN
  /\ hits \in [Services -> Seq(Report)]
  /\ failures \in Seq(Report)
  /\ openedAt \in Nat \cup {Never}
  /\ since \in [Deployments -> Nat \cup {Never}]
  /\ healed \in [Deployments -> Nat \cup {Never}]

Init ==
  /\ now = 0
  /\ faulty = {}
  /\ asleepUntil = 0
  /\ events = <<>>
  /\ pollNow = 0
  /\ cooldown = [d \in Deployments |-> 0]
  /\ handling = None
  /\ started = 0
  /\ passed = FALSE
  /\ hits = [s \in Services |-> <<>>]
  /\ failures = <<>>
  /\ openedAt = Never
  /\ since = [d \in Deployments |-> Never]
  /\ healed = [d \in Deployments |-> Never]

Asleep == events = <<>> /\ handling = None /\ now < asleepUntil

\* Time passes only while the loop sleeps or an incident is handled; the rest
\* of the loop is instantaneous on this clock.
Tick ==
  /\ now < MaxTime
  /\ Asleep \/ (handling # None /\ now < started + MaxHandling)
  /\ now' = now + 1
  /\ UNCHANGED <<faulty, loopVars, incidentVars, hits, breakerVars, since, healed>>

\* The cluster: a fault appears, or goes away by itself or thanks to a heal.  The
\* deployment in hand does not wait.
FaultAppears(d) ==
  /\ d \notin faulty
  /\ faulty' = faulty \cup {d}
  /\ since' = IF handling = d THEN since ELSE [since EXCEPT ![d] = now]
  /\ UNCHANGED <<now, loopVars, incidentVars, hits, breakerVars, healed>>

FaultEnds(d) ==
  /\ d \in faulty
  /\ faulty' = faulty \ {d}
  /\ since' = [since EXCEPT ![d] = Never]
  /\ UNCHANGED <<now, loopVars, incidentVars, hits, breakerVars, healed>>

\* collect_fault_events(): an event per faulty pod, so a deployment may come
\* twice, in the order of the API.
Reports ==
  LET n == Cardinality(faulty) IN
  {r \in UNION {[1..k -> faulty] : k \in n..n + 1} : \A d \in faulty : \E i \in DOMAIN r : r[i] = d}

Poll ==
  /\ events = <<>>
  /\ handling = None
  /\ now >= asleepUntil
  /\ pollNow' = now
  /\ IF faulty = {}
       THEN asleepUntil' = now + PollInterval /\ UNCHANGED events
       ELSE events' \in Reports /\ UNCHANGED asleepUntil
  /\ UNCHANGED <<now, faulty, cooldown, incidentVars, hits, breakerVars, since, healed>>

\* The head of the list is dealt with; after the last one the loop sleeps.
NextEvent ==
  /\ events' = Tail(events)
  /\ asleepUntil' = IF Tail(events) = <<>> THEN now + PollInterval ELSE asleepUntil

\* Mutant: the cooldown is rounded up to the next poll.
InCooldownRounded(d) == pollNow + PollInterval - cooldown[d] < HealCooldown

InCooldown(d) == pollNow - cooldown[d] < HealCooldown

\* Mutant: a skipped event renews the cooldown.
SkipEventRenews ==
  /\ handling = None
  /\ events # <<>>
  /\ InCooldown(Head(events))
  /\ cooldown' = [cooldown EXCEPT ![Head(events)] = now]
  /\ NextEvent
  /\ UNCHANGED <<now, faulty, pollNow, incidentVars, hits, breakerVars, since, healed>>

SkipEvent ==
  /\ handling = None
  /\ events # <<>>
  /\ InCooldown(Head(events))
  /\ NextEvent
  /\ UNCHANGED <<now, faulty, pollNow, cooldown, incidentVars, hits, breakerVars, since,
                 healed>>

TakeUp ==
  /\ handling = None
  /\ events # <<>>
  /\ ~InCooldown(Head(events))
  /\ handling' = Head(events)
  /\ started' = now
  /\ passed' = FALSE
  /\ since' = [since EXCEPT ![Head(events)] = Never]
  /\ UNCHANGED <<now, faulty, loopVars, hits, breakerVars, healed>>

\* Mutant: the stamp is the clock the loop read before the poll.
StampPoll == pollNow

\* The value that cooldown[key] gets after handle_incident.
Stamp == now

\* handle_incident returns, not at the instant it was called, and the heal is
\* stamped.
Finish ==
  /\ now > started
  /\ handling' = None
  /\ started' = 0
  /\ passed' = FALSE
  /\ cooldown' = [cooldown EXCEPT ![handling] = Stamp]
  /\ NextEvent
  /\ since' = [since EXCEPT ![handling] = IF handling \in faulty THEN now ELSE Never]
  /\ healed' = [healed EXCEPT ![handling] = now]
  /\ UNCHANGED <<now, faulty, pollNow>>

\* Mutant: the failure is recorded after the incident was forgotten.
ReportUnnamed == [at |-> now, of |-> None]

\* The time that a hit or a failure is recorded with.
ReportNow == [at |-> now, of |-> handling]

\* breaker.record_failure().
Fail ==
  /\ failures' \in Recorded(failures, ReportNow, FailWindow)
  /\ openedAt' = IF openedAt = Never /\ Len(failures') >= FailThreshold THEN now ELSE openedAt

\* /v1/detect fails.
DetectFails ==
  /\ handling # None /\ ~passed
  /\ Fail
  /\ Finish
  /\ UNCHANGED hits

\* The gate discards or escalates the reply before it counts it.
Discard ==
  /\ handling # None /\ ~passed
  /\ \E d \in Detections : Early(d) # "counted"
  /\ Finish
  /\ UNCHANGED <<hits, breakerVars>>

\* The gate counts the reply, and then escalates a flapping service or lets the
\* incident through to the breaker, which may be open.
Gate ==
  /\ handling # None /\ ~passed
  /\ \E kept \in Recorded(hits[ServiceOf[handling]], ReportNow, FlapWindow) :
       hits' = [hits EXCEPT ![ServiceOf[handling]] = kept]
  /\ LET flapping == Late(hits'[ServiceOf[handling]]) = "flapping_escalated" IN
     IF flapping \/ (openedAt # Never /\ now - openedAt < OpenCooldown)
       THEN Finish /\ UNCHANGED breakerVars
       ELSE /\ passed' = TRUE
            /\ openedAt' = Never
            /\ failures' = IF openedAt # Never THEN <<>> ELSE failures
            /\ UNCHANGED <<now, faulty, loopVars, handling, started, since, healed>>

\* The rest of handle_incident: resolved, failed, or neither.
EndHeal ==
  /\ passed
  /\ \/ failures' = <<>> /\ UNCHANGED openedAt
     \/ Fail
     \/ UNCHANGED breakerVars
  /\ Finish
  /\ UNCHANGED hits

\* Nothing of the loop, the gate or the breaker survives the process.
Restart ==
  /\ MayRestart
  /\ asleepUntil' = now
  /\ events' = <<>>
  /\ pollNow' = now
  /\ cooldown' = [d \in Deployments |-> 0]
  /\ handling' = None
  /\ passed' = FALSE
  /\ hits' = [s \in Services |-> <<>>]
  /\ failures' = <<>>
  /\ openedAt' = Never
  /\ started' = 0
  /\ since' = [d \in Deployments |-> IF d \in faulty THEN now ELSE Never]
  /\ healed' = [d \in Deployments |-> Never]
  /\ UNCHANGED <<now, faulty>>

Next ==
  \/ Tick
  \/ \E d \in Deployments : FaultAppears(d) \/ FaultEnds(d)
  \/ Poll \/ SkipEvent \/ TakeUp
  \/ DetectFails \/ Discard \/ Gate \/ EndHeal
  \/ Restart

Spec == Init /\ [][Next]_vars

-----------------------------------------------------------------------------
\* What the idempotency lock cannot do here, since every poll gives a fault a new
\* correlation id, the cooldown does as long as the process lives: the heals of
\* one deployment are spaced, whether it is reported twice by one poll or again
\* by the next, and however long the others took (main.py:248-257).
HealsSpaced ==
  [][\A d \in Deployments : handling # d /\ handling' = d =>
       healed[d] = Never \/ now - healed[d] >= HealCooldown]_vars

\* A flapping service is escalated only if the watcher sees it under several
\* deployments: the cooldown of the loop spaces the hits of one deployment so
\* that FlapThreshold of them never fall into one FlapWindow
\* (main.py:251-257 against pre_decide_gate.py:72-74).
FlapNeedsTwoDeployments ==
  \A s \in Services : Len(hits[s]) >= FlapThreshold =>
    Cardinality({hits[s][i].of : i \in DOMAIN hits[s]}) > 1

\* The breaker trips only on failures of different deployments: one deployment
\* whose heals fail for ever never opens it (circuit_breaker.py:5-7).
FailuresOfDistinctDeployments ==
  \A i, j \in DOMAIN failures : failures[i].of = failures[j].of => i = j

\* A fault that lasts is taken up in bounded time, whatever the other
\* deployments do: it waits for its cooldown, for a poll, and for the others to
\* be handled in this poll and in the next.
PromptBound ==
  HealCooldown + PollInterval + 2 * (Cardinality(Deployments) - 1) * MaxHandling

TakenUpPromptly ==
  \A d \in Deployments : since[d] # Never => now - since[d] <= PromptBound
=============================================================================
