------------------------------ MODULE PodWatcher ------------------------------
(***************************************************************************)
(* watcher.py over pods that start, crash, run out of memory, back off and *)
(* are replaced while it looks: the poll that makes windows for            *)
(* /v1/detect, what handle_incident makes of them, and the scrape that     *)
(* makes the window for /v1/verify (main.py:219-232).  The kubelet and the *)
(* controllers are outside src/.                                           *)
(***************************************************************************)
EXTENDS TelemetryContract, Functions

CONSTANTS
  Pods,
  Containers,     \* the containers of a pod
  DeploymentOf,   \* the deployment of each pod
  RawPoints,      \* points of scenario files
  Threshold,      \* restart_count_threshold
  MaxRestarts     \* bound: restarts are counted up to here

ASSUME WatcherAssumption ==
  /\ None \notin {"OOMKilled", "not ready", "reason"}
  /\ \A p \in Pods : DeploymentOf[p] \notin {None, ""}

ASSUME ScenarioAssumption == \A raw \in RawPoints : raw.value.number \in Nat

ASSUME BoundAssumption ==
  Threshold \in Nat /\ MaxRestarts \in Nat /\ MaxRestarts > Threshold

VARIABLES
  statuses,  \* the container statuses of each pod, <<>> before there are any
  evicted,   \* the pods that were evicted
  events,    \* the windows of collect_fault_events() not handled yet, by pod
  given,     \* the window given to handle_incident, {} between incidents
  post,      \* the window that the last step sent to /v1/verify, {} if it sent none
  pc         \* where the watch loop, or the process of a scenario file, is

podVars == <<statuses, evicted>>
vars == <<podVars, events, given, post, pc>>

\* Reasons of state.waiting (OOMKilled and Error, which the code names too, are
\* reasons of state.terminated); a container that waits for one of NotStarted has
\* never run; ErrImagePull is its back-off here.
NotStarted == {"ContainerCreating", "ImagePullBackOff"}
Reasons == NotStarted \cup {"CrashLoopBackOff"}

\* state.terminated, by exit code.
Ended == {"failed", "killed 137"}

ContainerStatus ==
  [state : Reasons \cup Ended \cup {"running"}, ready : BOOLEAN,
   restart_count : Nat, last_exit : Ended \cup {None}]

Phase(p) ==
  IF p \in evicted THEN "Failed"
  ELSE IF statuses[p] = <<>> \/ \E cs \in Range(statuses[p]) : cs.state \in NotStarted
  THEN "Pending"
  ELSE "Running"

\* The fields of a point that a window may not leave open.
IsPoint(point) ==
  /\ point.signal_name \in AllowedSignals
  /\ point.value.number \in Nat

\* The process was started for a scenario file, and not to watch.
FromFile == pc \in {"file", "over"}

TypeOK ==
  /\ DOMAIN statuses = Pods
  /\ \A p \in Pods :
       /\ DOMAIN statuses[p] \in {{}, Containers}
       /\ \A c \in DOMAIN statuses[p] : statuses[p][c] \in ContainerStatus
  /\ evicted \subseteq Pods
  /\ DOMAIN events \subseteq Pods
  /\ \A w \in Range(events) : \A point \in w : IsPoint(point)
  /\ \A point \in given \cup post : IsPoint(point) \/ (FromFile /\ point \in RawPoints)
  /\ pc \in {"poll", "events", "act", "file", "over"}

\* The process begins to watch, or to handle the incident of a scenario file, which
\* build_window() has accepted.
Init ==
  /\ statuses = [p \in Pods |-> <<>>]
  /\ evicted = {}
  /\ events = <<>>
  /\ post = {}
  /\ \/ given = {} /\ pc = "poll"
     \/ \E raw \in RawPoints : ~Rejects({raw}) /\ given = {raw} /\ pc = "file"

-----------------------------------------------------------------------------
(* The cluster. *)

Status(p, c, state) == [statuses[p][c] EXCEPT !.state = state]

Becomes(p, c, cs) ==
  /\ statuses' = [statuses EXCEPT ![p][c] = cs]
  /\ post' = {}
  /\ UNCHANGED <<evicted, events, given, pc>>

OneMore(n) == IF n < MaxRestarts THEN n + 1 ELSE n

Create(p) ==
  /\ statuses[p] = <<>>
  /\ statuses' = [statuses EXCEPT ![p] = [c \in Containers |->
       [state |-> "ContainerCreating", ready |-> FALSE, restart_count |-> 0,
        last_exit |-> None]]]
  /\ post' = {}
  /\ UNCHANGED <<evicted, events, given, pc>>

PullFails(p, c) ==
  /\ statuses[p][c].state = "ContainerCreating"
  /\ Becomes(p, c, Status(p, c, "ImagePullBackOff"))

Start(p, c) ==
  /\ statuses[p][c].state \in NotStarted
  /\ Becomes(p, c, Status(p, c, "running"))

Probe(p, c) ==
  /\ statuses[p][c].state = "running"
  /\ Becomes(p, c, [statuses[p][c] EXCEPT !.ready = ~@])

End(p, c) ==
  /\ statuses[p][c].state = "running"
  /\ \E code \in Ended : Becomes(p, c, [Status(p, c, code) EXCEPT !.ready = FALSE])

BackOff(p, c) ==
  /\ statuses[p][c].state \in Ended
  /\ Becomes(p, c, [Status(p, c, "CrashLoopBackOff") EXCEPT !.last_exit = statuses[p][c].state])

\* At once, or after the back-off.
StartAgain(p, c) ==
  LET cs == statuses[p][c] IN
  /\ cs.state \in Ended \cup {"CrashLoopBackOff"}
  /\ Becomes(p, c, [Status(p, c, "running") EXCEPT
       !.restart_count = OneMore(@),
       !.last_exit = IF cs.state \in Ended THEN cs.state ELSE @])

Container(p, c) ==
  PullFails(p, c) \/ Start(p, c) \/ Probe(p, c) \/ End(p, c) \/ BackOff(p, c) \/ StartAgain(p, c)

Evict(p) ==
  /\ p \notin evicted
  /\ evicted' = evicted \cup {p}
  /\ post' = {}
  /\ UNCHANGED <<statuses, events, given, pc>>

\* A rollout or a controller replaces the pod.
Replace(p) ==
  /\ statuses' = [statuses EXCEPT ![p] = <<>>]
  /\ evicted' = evicted \ {p}
  /\ post' = {}
  /\ UNCHANGED <<events, given, pc>>

-----------------------------------------------------------------------------
(* watcher.py *)

\* _signal()
Signal(p, name, value) ==
  [ts |-> Now, tenant_id |-> TenantId, service |-> DeploymentOf[p], signal_name |-> name,
   value |-> value, labels |-> [deployment |-> DeploymentOf[p], service |-> None]]

\* Mutant: the reason itself is sent.
WaitingSignalRaw(p, cs) == Signal(p, cs.state, Text("reason"))

\* _waiting_signal(), by _WAITING_REASON_MAP: a reason it does not know, and one
\* of a failed pull, is an unhealthy service.
WaitingSignal(p, cs) ==
  IF cs.state = "CrashLoopBackOff"
  THEN Signal(p, "container_restart_count", Number(cs.restart_count))
  ELSE Signal(p, "service_unhealthy", Text("reason"))

MappedReasons == {"CrashLoopBackOff", "ImagePullBackOff"}

\* Mutant: restarts are not looked at.
RestartedTooOftenNever(cs) == FALSE

RestartedTooOften(cs) == cs.restart_count > Threshold

If(condition, point) == IF condition THEN {point} ELSE {}

\* The three signals of a container in _inspect_pod().
FaultSignals(p, cs) ==
  If(cs.state \in MappedReasons, WaitingSignal(p, cs))
    \cup If(cs.last_exit = "killed 137", Signal(p, "pod_oom_event", Text("OOMKilled")))
    \cup If(RestartedTooOften(cs),
            Signal(p, "container_restart_count", Number(cs.restart_count)))

InspectPod(p) == UNION {FaultSignals(p, cs) : cs \in Range(statuses[p])}

\* Mutant: only the container is looked at.
UnhealthyContainer(p, cs) == ~cs.ready

Unhealthy(p, cs) == ~cs.ready \/ Phase(p) # "Running"

\* The signals of a container in scrape_deployment_telemetry().
StateSignals(p, cs) ==
  {Signal(p, "container_restart_count", Number(cs.restart_count))}
    \cup If(cs.state \in Reasons, WaitingSignal(p, cs))
    \cup If(cs.state \notin Reasons /\ Unhealthy(p, cs),
            Signal(p, "service_unhealthy", Text("not ready")))

PodsOf(d) == {p \in Pods : DeploymentOf[p] = d}

Scrape(d) ==
  UNION {UNION {StateSignals(p, cs) : cs \in Range(statuses[p])} : p \in PodsOf(d)}

-----------------------------------------------------------------------------
(* The watch loop, and what handle_incident does with a window. *)

\* collect_fault_events(): one event for each pod that has signals.
Poll ==
  /\ pc = "poll"
  /\ events' = [p \in {q \in Pods : InspectPod(q) # {}} |-> InspectPod(p)]
  /\ pc' = "events"
  /\ post' = {}
  /\ UNCHANGED <<podVars, given>>

PollOver ==
  /\ pc = "events"
  /\ events = <<>>
  /\ pc' = "poll"
  /\ post' = {}
  /\ UNCHANGED <<podVars, events, given>>

\* The next event is healed, or ends before an action (it is in its cooldown,
\* or rejected, or a gate stops it).
HandleEvent(p) ==
  /\ pc = "events"
  /\ p \in DOMAIN events
  /\ events' = Restrict(events, DOMAIN events \ {p})
  /\ \/ ~Rejects(events[p]) /\ given' = events[p] /\ pc' = "act"
     \/ UNCHANGED <<given, pc>>
  /\ post' = {}
  /\ UNCHANGED podVars

\* _collect_post_telemetry() after an action on deployment d: without a scrape it
\* falls back to what handle_incident was given, not to what build_window() made
\* of it.  The process of a scenario file ends with its incident.
Verify(d) ==
  /\ pc \in {"act", "file"}
  /\ post' = IF Scrape(d) = {} THEN given ELSE Scrape(d)
  /\ given' = {}
  /\ pc' = IF pc = "file" THEN "over" ELSE "events"
  /\ UNCHANGED <<podVars, events>>

Loop ==
  \/ Poll \/ PollOver
  \/ \E p \in Pods : HandleEvent(p)
  \/ \E d \in Range(DeploymentOf) : Verify(d)

Next ==
  \/ \E p \in Pods :
       \/ Create(p) \/ Evict(p) \/ Replace(p)
       \/ \E c \in DOMAIN statuses[p] : Container(p, c)
  \/ Loop

Spec == Init /\ [][Next]_vars

FairSpec == Spec /\ WF_vars(Loop)

-----------------------------------------------------------------------------
\* Whatever the pods went through, a window of the watch loop meets the contract:
\* the adapter accepts it and changes nothing in it.  So does the window for
\* /v1/verify, which nobody validates, a scrape or the event it falls back to
\* (watcher.py:13-15, main.py:146-149,232).  For a scenario file it does not hold:
\* the fallback is then the file's window as it was written.
WatcherMeetsContract ==
  ~FromFile =>
    \A w \in (Range(events) \cup {post}) \ {{}} : ~Rejects(w) /\ Normalized(w) = w

\* What handle_incident makes of the window it was given, once accepted, is
\* complete, of its own tenant, in the vocabulary of the contract and free of
\* personal data (telemetry_contract.py:74-107).
AcceptedIsClean ==
  \A point \in Normalized(given) :
    /\ {None, ""} \cap {point.ts, point.service, point.value.text} = {}
    /\ point.tenant_id = TenantId
    /\ point.signal_name \in AllowedSignals
    /\ point.value.text # "pii"

\* A window that reports no fault.
NoFault(w) == \A point \in w : point.signal_name = "container_restart_count"

Serves(p, cs) == cs.state = "running" /\ cs.ready /\ Phase(p) = "Running"

\* When a scrape with points reports no fault, every container that has a status,
\* in any pod of the deployment, serves or is in its back-off (watcher.py:141-157).
\* Of a pod that has no status yet, as the new pod of a rollout, the scrape sees
\* nothing, and nothing is said.
NoFaultMeansServing ==
  [][\A d \in Range(DeploymentOf) :
       Verify(d) /\ Scrape(d) # {} /\ NoFault(Scrape(d)) =>
         \A p \in PodsOf(d) : \A cs \in Range(statuses[p]) :
           Serves(p, cs) \/ cs.state = "CrashLoopBackOff"]_vars

\* While the loop watches, a pod with a container that was restarted too often is
\* reported, even if every poll finds it running, unless it is replaced first
\* (watcher.py:113-117).
RestartsAreNoticed ==
  \A p \in Pods :
    (~FromFile /\ \E cs \in Range(statuses[p]) : cs.restart_count > Threshold)
      ~> (p \in DOMAIN events \/ statuses[p] = <<>>)

-----------------------------------------------------------------------------
\* What watcher.py:157 says: no sign of a fault means recovered.
NoFaultMeansRecovered ==
  [][\A d \in Range(DeploymentOf) :
       Verify(d) /\ Scrape(d) # {} /\ NoFault(Scrape(d)) =>
         \A p \in PodsOf(d) : \A cs \in Range(statuses[p]) : Serves(p, cs)]_vars
=============================================================================
