-------------------------- MODULE PodWatcher_proofs --------------------------
(***************************************************************************)
(* Every window of the watch loop meets the telemetry contract, for any    *)
(* pods, containers, deployments and threshold; what the windows of        *)
(* scenario files become is clean, although they themselves are sent on.   *)
(***************************************************************************)
EXTENDS PodWatcher, TLAPS

\* A point that the adapter accepts and leaves as it is.
Settled(point) ==
  /\ ValidPoint(point)
  /\ NormalizePoint(point) = point
  /\ point.value.number \in Nat
  /\ point.value.text # "pii"

SettledWindows ==
  /\ \A w \in Range(events) : \A point \in w : Settled(point)
  /\ ~FromFile => \A point \in given \cup post : Settled(point)

\* build_window() has accepted the window of the incident.
GivenAccepted == \A raw \in given : ValidPoint(NormalizePoint(raw))

IInv == TypeOK /\ SettledWindows /\ GivenAccepted

-----------------------------------------------------------------------------
\* No name of the contract is an alias of another.
LEMMA NamesAreNoAliases == AllowedSignals \cap DOMAIN SignalAliases = {}
  BY DEF AllowedSignals, SignalAliases

\* A name of the contract is mapped to itself.
LEMMA MapsToItself ==
  ASSUME NEW name \in AllowedSignals
  PROVE  MapSignalName(name) = name
  BY NamesAreNoAliases DEF MapSignalName

\* What normalize_point() made and validate_point() accepted is settled.
LEMMA NormalizedIsSettled ==
  ASSUME NEW raw, raw.value.number \in Nat, ValidPoint(NormalizePoint(raw))
  PROVE  Settled(NormalizePoint(raw))
<1> DEFINE point == NormalizePoint(raw)
<1>1. point.value = Scrub(raw.value) /\ point.signal_name = MapSignalName(raw.signal_name)
  BY DEF NormalizePoint
<1>2. point.value.text # "pii" /\ point.value.number \in Nat
  BY <1>1 DEF Scrub, Text
<1>3. Or(point.ts, Now) = point.ts /\ Or(point.tenant_id, TenantId) = point.tenant_id
  BY DEF ValidPoint, Or
<1>4. Or(point.service, Or(point.labels.deployment, point.labels.service)) = point.service
  BY DEF ValidPoint, Or
<1>5. MapSignalName(point.signal_name) = point.signal_name
  BY MapsToItself DEF ValidPoint
<1>6. Scrub(point.value) = point.value
  BY <1>2 DEF Scrub
<1>7. NormalizePoint(point) =
        [ts |-> point.ts, tenant_id |-> point.tenant_id, service |-> point.service,
         signal_name |-> point.signal_name, value |-> point.value, labels |-> point.labels]
  BY <1>3, <1>4, <1>5, <1>6, Zenon DEF NormalizePoint
<1>8. point = [ts |-> point.ts, tenant_id |-> point.tenant_id, service |-> point.service,
               signal_name |-> point.signal_name, value |-> point.value, labels |-> point.labels]
  BY DEF NormalizePoint
<1> QED
  BY <1>2, <1>7, <1>8, Zenon DEF Settled

\* A signal of the watcher is settled.
LEMMA SignalIsSettled ==
  ASSUME NEW p \in Pods, NEW name \in AllowedSignals, NEW value,
         value.text \notin {None, "", "pii"}, value.number \in Nat
  PROVE  Settled(Signal(p, name, value))
<1> DEFINE point == Signal(p, name, value)
<1>2. ValidPoint(point)
  <2>1. {None, ""} \cap {TenantId, Now, DeploymentOf[p]} = {}
    BY ContractAssumption, WatcherAssumption
  <2>2. name \notin {None, ""}
    <3>1. "" \notin AllowedSignals
      BY DEF AllowedSignals
    <3> QED
      BY <3>1, ContractAssumption
  <2> QED
    BY <2>1, <2>2 DEF ValidPoint, MissingValue, Signal
<1>3. Or(Now, Now) = Now /\ Or(TenantId, TenantId) = TenantId
  BY DEF Or
<1>4. \A x : Or(DeploymentOf[p], x) = DeploymentOf[p]
  BY WatcherAssumption DEF Or
<1>5. MapSignalName(name) = name /\ Scrub(value) = value
  BY MapsToItself DEF Scrub
<1>6. NormalizePoint(point) = point
  BY <1>3, <1>4, <1>5 DEF NormalizePoint, Signal
<1> QED
  BY <1>2, <1>6 DEF Settled, Signal

-----------------------------------------------------------------------------
\* The windows that inspecting and scraping make are settled.
LEMMA WatchedIsSettled ==
  ASSUME TypeOK, NEW p \in Pods, NEW cs \in Range(statuses[p])
  PROVE  \A point \in FaultSignals(p, cs) \cup StateSignals(p, cs) : Settled(point)
<1>1. cs.restart_count \in Nat
  BY DEF TypeOK, Range, ContainerStatus
<1> DEFINE count == Signal(p, "container_restart_count", Number(cs.restart_count))
<1>2. Settled(count)
  <2>1. "container_restart_count" \in AllowedSignals
    BY DEF AllowedSignals
  <2>2. LET value == Number(cs.restart_count)
        IN  value.text \notin {None, "", "pii"} /\ value.number \in Nat
    BY <1>1, ContractAssumption DEF Number
  <2> QED
    BY <2>1, <2>2, SignalIsSettled
<1>3. /\ Settled(Signal(p, "pod_oom_event", Text("OOMKilled")))
      /\ Settled(Signal(p, "service_unhealthy", Text("not ready")))
      /\ Settled(Signal(p, "service_unhealthy", Text("reason")))
  <2>1. {"pod_oom_event", "service_unhealthy"} \subseteq AllowedSignals
    BY DEF AllowedSignals
  <2>2. \A t \in {"OOMKilled", "not ready", "reason"} :
          Text(t).text \notin {None, "", "pii"} /\ Text(t).number \in Nat
    BY WatcherAssumption DEF Text
  <2> QED
    BY <2>1, <2>2, SignalIsSettled
<1>4. Settled(WaitingSignal(p, cs))
  BY <1>2, <1>3 DEF WaitingSignal
<1> QED
  BY <1>2, <1>3, <1>4, Zenon DEF FaultSignals, StateSignals, If

\* Settled windows are what the properties ask for.
LEMMA SettledMeetsContract ==
  ASSUME IInv
  PROVE  WatcherMeetsContract /\ AcceptedIsClean
<1>1. ASSUME ~FromFile, NEW w \in (Range(events) \cup {post}) \ {{}}
      PROVE  ~Rejects(w) /\ Normalized(w) = w
  <2>1. \A point \in w : ValidPoint(point) /\ NormalizePoint(point) = point
    BY <1>1 DEF IInv, SettledWindows, Settled
  <2>2. Normalized(w) = w
    BY <2>1, Zenon DEF Normalized
  <2> QED
    BY <1>1, <2>1, <2>2 DEF Rejects
<1>2. ASSUME NEW point \in Normalized(given)
      PROVE  /\ {None, ""} \cap {point.ts, point.service, point.value.text} = {}
             /\ point.tenant_id = TenantId
             /\ point.signal_name \in AllowedSignals
             /\ point.value.text # "pii"
  <2>1. PICK raw \in given : point = NormalizePoint(raw)
    BY <1>2 DEF Normalized
  <2>2. raw.value.number \in Nat
    BY ScenarioAssumption DEF IInv, TypeOK, IsPoint
  <2>3. Settled(point)
    BY <2>1, <2>2, NormalizedIsSettled DEF IInv, GivenAccepted
  <2> QED
    BY <2>3 DEF Settled, ValidPoint, MissingValue, Text
<1> QED
  BY <1>1, <1>2 DEF WatcherMeetsContract, AcceptedIsClean

-----------------------------------------------------------------------------
\* A step that leaves the windows alone and the pods well typed.
LEMMA WindowsUntouched ==
  ASSUME IInv, UNCHANGED <<events, given>>, post' \in {{}, post}, FromFile' = FromFile,
         DOMAIN statuses' = Pods,
         \A p \in Pods :
           /\ DOMAIN statuses'[p] \in {{}, Containers}
           /\ \A c \in DOMAIN statuses'[p] : statuses'[p][c] \in ContainerStatus,
         evicted' \subseteq Pods, pc' \in {"poll", "events", "act", "file", "over"}
  PROVE  IInv'
<1>1. Range(events)' = Range(events) /\ post' \subseteq post
  BY DEF Range
<1>2. SettledWindows' /\ GivenAccepted'
  BY <1>1 DEF IInv, SettledWindows, GivenAccepted
<1>3. TypeOK'
  BY <1>1 DEF IInv, TypeOK
<1> QED
  BY <1>2, <1>3 DEF IInv

\* The pods keep their type, whatever the kubelet does to a container.
LEMMA BecomesKeepsIInv ==
  ASSUME IInv, NEW p \in Pods, NEW c \in DOMAIN statuses[p], NEW cs \in ContainerStatus,
         Becomes(p, c, cs)
  PROVE  IInv'
<1>1. DOMAIN statuses' = Pods
  BY DEF IInv, TypeOK, Becomes
<1>2. ASSUME NEW q \in Pods
      PROVE  /\ DOMAIN statuses'[q] = DOMAIN statuses[q]
             /\ \A d \in DOMAIN statuses'[q] : statuses'[q][d] \in ContainerStatus
  BY <1>2 DEF IInv, TypeOK, Becomes
<1>3. UNCHANGED <<evicted, events, given, pc>> /\ post' = {} /\ FromFile' = FromFile
  BY DEF Becomes, FromFile
<1> QED
  BY <1>1, <1>2, <1>3, WindowsUntouched DEF IInv, TypeOK

LEMMA ContainerKeepsIInv ==
  ASSUME IInv, NEW p \in Pods, NEW c \in DOMAIN statuses[p], Container(p, c)
  PROVE  IInv'
<1> DEFINE cs == statuses[p][c]
<1>1. cs \in ContainerStatus
  BY DEF IInv, TypeOK
<1>2. \A state \in Reasons \cup Ended \cup {"running"} : Status(p, c, state) \in ContainerStatus
  BY <1>1 DEF Status, ContainerStatus
<1>3. {"ImagePullBackOff", "CrashLoopBackOff", "running"} \cup Ended
        \subseteq Reasons \cup Ended \cup {"running"}
  BY DEF Reasons, NotStarted
<1>4. CASE PullFails(p, c)
  BY <1>2, <1>3, <1>4, BecomesKeepsIInv DEF PullFails
<1>5. CASE Start(p, c)
  BY <1>2, <1>3, <1>5, BecomesKeepsIInv DEF Start
<1>6. CASE Probe(p, c)
  <2>1. [cs EXCEPT !.ready = ~@] \in ContainerStatus
    BY <1>1 DEF ContainerStatus
  <2> QED
    BY <1>6, <2>1, BecomesKeepsIInv DEF Probe
<1>7. CASE End(p, c)
  <2>1. PICK code \in Ended : Becomes(p, c, [Status(p, c, code) EXCEPT !.ready = FALSE])
    BY <1>7 DEF End
  <2>2. Status(p, c, code) \in ContainerStatus
    BY <1>2
  <2>3. [Status(p, c, code) EXCEPT !.ready = FALSE] \in ContainerStatus
    BY <2>2 DEF ContainerStatus
  <2> QED
    BY <2>1, <2>3, BecomesKeepsIInv
<1>8. CASE BackOff(p, c)
  <2>1. [Status(p, c, "CrashLoopBackOff") EXCEPT !.last_exit = cs.state] \in ContainerStatus
    BY <1>2, <1>3, <1>8 DEF BackOff, ContainerStatus
  <2> QED
    BY <1>8, <2>1, BecomesKeepsIInv DEF BackOff
<1>9. CASE StartAgain(p, c)
  <2> DEFINE old == Status(p, c, "running")
             new == [old EXCEPT !.restart_count = OneMore(@),
                                !.last_exit = IF cs.state \in Ended THEN cs.state ELSE @]
  <2>1. old \in ContainerStatus
    BY <1>2, <1>3
  <2>2. \A n \in Nat : OneMore(n) \in Nat
    BY BoundAssumption DEF OneMore
  <2>3. new \in ContainerStatus
    BY <2>1, <2>2 DEF ContainerStatus
  <2> QED
    BY <1>9, <2>3, BecomesKeepsIInv DEF StartAgain
<1> QED
  BY <1>4, <1>5, <1>6, <1>7, <1>8, <1>9 DEF Container

LEMMA InitIInv == Init => IInv
<1> SUFFICES ASSUME Init PROVE IInv
  OBVIOUS
<1>1. DOMAIN statuses = Pods /\ \A p \in Pods : DOMAIN statuses[p] = {}
  BY DEF Init
<1>2. Range(events) = {} /\ DOMAIN events = {}
  BY DEF Init, Range
<1>3. GivenAccepted
  BY DEF Init, GivenAccepted, Rejects, Normalized
<1>4. SettledWindows
  BY <1>2 DEF Init, SettledWindows, FromFile
<1>5. TypeOK
  BY <1>1, <1>2 DEF Init, TypeOK, FromFile
<1> QED
  BY <1>3, <1>4, <1>5 DEF IInv

LEMMA NextIInv == IInv /\ [Next]_vars => IInv'
<1> SUFFICES ASSUME IInv, [Next]_vars PROVE IInv'
  OBVIOUS
<1>0. ASSUME NEW w, \A point \in w : Settled(point)
      PROVE  \A point \in w : IsPoint(point)
  BY <1>0 DEF Settled, ValidPoint, IsPoint
<1>1. CASE \E p \in Pods : Create(p)
  <2>1. PICK p \in Pods : Create(p)
    BY <1>1
  <2>2. [state |-> "ContainerCreating", ready |-> FALSE, restart_count |-> 0,
         last_exit |-> None] \in ContainerStatus
    BY DEF ContainerStatus, Reasons, NotStarted
  <2>3. \A q \in Pods :
          /\ DOMAIN statuses'[q] \in {{}, Containers}
          /\ \A d \in DOMAIN statuses'[q] : statuses'[q][d] \in ContainerStatus
    BY <2>1, <2>2 DEF Create, IInv, TypeOK
  <2> QED
    BY <2>1, <2>3, WindowsUntouched DEF Create, IInv, TypeOK, FromFile
<1>2. CASE \E p \in Pods : Evict(p)
  BY <1>2, WindowsUntouched DEF Evict, IInv, TypeOK, FromFile
<1>3. CASE \E p \in Pods : Replace(p)
  <2>1. PICK p \in Pods : Replace(p)
    BY <1>3
  <2>2. \A q \in Pods :
          /\ DOMAIN statuses'[q] \in {{}, Containers}
          /\ \A d \in DOMAIN statuses'[q] : statuses'[q][d] \in ContainerStatus
    BY <2>1 DEF Replace, IInv, TypeOK
  <2> QED
    BY <2>1, <2>2, WindowsUntouched DEF Replace, IInv, TypeOK, FromFile
<1>4. CASE \E p \in Pods : \E c \in DOMAIN statuses[p] : Container(p, c)
  BY <1>4, ContainerKeepsIInv
<1>5. CASE Poll
  <2>1. ASSUME NEW w \in Range(events')
        PROVE  \A point \in w : Settled(point)
    <3>1. PICK p \in Pods : w = InspectPod(p)
      BY <1>5, <2>1 DEF Poll, Range
    <3> QED
      BY <3>1, WatchedIsSettled DEF InspectPod, IInv
  <2>2. SettledWindows' /\ GivenAccepted'
    BY <1>5, <2>1 DEF Poll, IInv, SettledWindows, GivenAccepted, FromFile
  <2>3. DOMAIN events' \subseteq Pods
    BY <1>5 DEF Poll
  <2>4. TypeOK'
    BY <1>0, <1>5, <2>1, <2>3 DEF Poll, IInv, TypeOK, FromFile, podVars
  <2> QED
    BY <2>2, <2>4 DEF IInv
<1>6. CASE PollOver
  BY <1>6, WindowsUntouched DEF PollOver, IInv, TypeOK, FromFile, podVars
<1>7. CASE \E p \in Pods : HandleEvent(p)
  <2>1. PICK p \in Pods : HandleEvent(p)
    BY <1>7
  <2>2. /\ Range(events') \subseteq Range(events) /\ DOMAIN events' \subseteq Pods
        /\ events[p] \in Range(events)
    BY <2>1 DEF HandleEvent, Restrict, Range, IInv, TypeOK
  <2>3. ~FromFile /\ ~FromFile' /\ pc' \in {"events", "act"} /\ post' = {}
    BY <2>1 DEF HandleEvent, FromFile
  <2>4. given' \in {given, events[p]} /\ GivenAccepted'
    BY <2>1 DEF HandleEvent, IInv, GivenAccepted, Rejects, Normalized
  <2>5. SettledWindows'
    BY <2>2, <2>3, <2>4 DEF IInv, SettledWindows
  <2>6. TypeOK'
    <3>1. UNCHANGED podVars
      BY <2>1 DEF HandleEvent
    <3>2. \A point \in given' : IsPoint(point)
      BY <2>2, <2>3, <2>4 DEF IInv, TypeOK
    <3> QED
      BY <2>2, <2>3, <3>1, <3>2 DEF IInv, TypeOK, podVars
  <2> QED
    BY <2>4, <2>5, <2>6 DEF IInv
<1>8. CASE \E d \in Range(DeploymentOf) : Verify(d)
  <2>1. PICK d \in Range(DeploymentOf) : Verify(d)
    BY <1>8
  <2>2. \A point \in Scrape(d) : Settled(point)
    BY WatchedIsSettled DEF Scrape, PodsOf, IInv
  <2>3. /\ pc' \in {"events", "over"} /\ FromFile' = FromFile /\ given' = {}
        /\ post' \in {given, Scrape(d)} /\ UNCHANGED <<podVars, events>>
    BY <2>1 DEF Verify, FromFile
  <2>4. SettledWindows' /\ GivenAccepted'
    BY <2>2, <2>3 DEF IInv, SettledWindows, GivenAccepted, Range
  <2>5. TypeOK'
    BY <1>0, <2>2, <2>3 DEF IInv, TypeOK, podVars, Range
  <2> QED
    BY <2>4, <2>5 DEF IInv
<1>9. CASE UNCHANGED vars
  BY <1>9, WindowsUntouched DEF vars, podVars, IInv, TypeOK, FromFile
<1> QED
  BY <1>1, <1>2, <1>3, <1>4, <1>5, <1>6, <1>7, <1>8, <1>9 DEF Next, Loop

-----------------------------------------------------------------------------
\* The watcher is type correct, for all pods and thresholds: only the process of a
\* scenario file holds points that are not those of the contract.
THEOREM TypeCorrect == Spec => []TypeOK
<1>1. IInv => TypeOK
  BY DEF IInv
<1> QED
  BY InitIInv, NextIInv, <1>1, PTL DEF Spec

\* Every window of the watch loop meets the contract, and so does the window it
\* sends to /v1/verify, which nobody validates, by a scrape or by its fallback.
THEOREM MeetsContract == Spec => []WatcherMeetsContract
<1>1. IInv => WatcherMeetsContract
  BY SettledMeetsContract
<1> QED
  BY InitIInv, NextIInv, <1>1, PTL DEF Spec

\* What handle_incident makes of a window it accepts, the one of a scenario file
\* included, is complete, of its tenant and scrubbed.
THEOREM AcceptsOnlyClean == Spec => []AcceptedIsClean
<1>1. IInv => AcceptedIsClean
  BY SettledMeetsContract
<1> QED
  BY InitIInv, NextIInv, <1>1, PTL DEF Spec

-----------------------------------------------------------------------------
\* Only a running container is ready: what ends it takes its readiness away.
ReadyRuns ==
  \A p \in Pods : \A c \in DOMAIN statuses[p] :
    statuses[p][c].ready => statuses[p][c].state = "running"

LEMMA ContainerKeepsReadyRuns ==
  ASSUME IInv, ReadyRuns, NEW p \in Pods, NEW c \in DOMAIN statuses[p], Container(p, c)
  PROVE  ReadyRuns'
<1> DEFINE old == statuses[p][c]
<1>1. old \in ContainerStatus /\ (old.ready => old.state = "running") /\ DOMAIN statuses = Pods
  BY DEF IInv, TypeOK, ReadyRuns
<1>2. ASSUME NEW new, Becomes(p, c, new), new.ready => new.state = "running"
      PROVE  ReadyRuns'
  <2>1. statuses' = [statuses EXCEPT ![p][c] = new]
    BY <1>2 DEF Becomes
  <2>2. ASSUME NEW q \in Pods, NEW d \in DOMAIN statuses'[q]
        PROVE  statuses'[q][d].ready => statuses'[q][d].state = "running"
    <3>1. CASE q = p /\ d = c
      BY <1>1, <1>2, <2>1, <3>1
    <3>2. CASE ~(q = p /\ d = c)
      <4>1. statuses'[q][d] = statuses[q][d] /\ d \in DOMAIN statuses[q]
        BY <1>1, <2>1, <2>2, <3>2
      <4> QED
        BY <4>1 DEF ReadyRuns
    <3> QED
      BY <3>1, <3>2
  <2> QED
    BY <2>2 DEF ReadyRuns
<1>3. \A state : /\ Status(p, c, state).state = state /\ Status(p, c, state).ready = old.ready
                 /\ Status(p, c, state) = [old EXCEPT !.state = state]
  BY <1>1 DEF Status, ContainerStatus
<1>4. CASE PullFails(p, c)
  BY <1>1, <1>2, <1>3, <1>4 DEF PullFails
<1>5. CASE Start(p, c)
  BY <1>2, <1>3, <1>5 DEF Start
<1>6. CASE Probe(p, c)
  <2> DEFINE new == [old EXCEPT !.ready = ~@]
  <2>1. new.state = "running" /\ Becomes(p, c, new)
    BY <1>1, <1>6 DEF Probe, ContainerStatus
  <2> QED
    BY <1>2, <2>1
<1>7. CASE End(p, c)
  <2>1. PICK code \in Ended : Becomes(p, c, [Status(p, c, code) EXCEPT !.ready = FALSE])
    BY <1>7 DEF End
  <2>2. [Status(p, c, code) EXCEPT !.ready = FALSE].ready = FALSE
    BY <1>1, <1>3 DEF ContainerStatus
  <2> QED
    BY <1>2, <2>1, <2>2
<1>8. CASE BackOff(p, c)
  <2> DEFINE new == [Status(p, c, "CrashLoopBackOff") EXCEPT !.last_exit = old.state]
  <2>1. Becomes(p, c, new) /\ ~old.ready
    BY <1>1, <1>8 DEF BackOff, Ended
  <2>2. new.ready = old.ready
    BY <1>1, <1>3 DEF ContainerStatus
  <2> QED
    BY <1>2, <2>1, <2>2
<1>9. CASE StartAgain(p, c)
  <2> DEFINE new == [Status(p, c, "running") EXCEPT
                       !.restart_count = OneMore(@),
                       !.last_exit = IF old.state \in Ended THEN old.state ELSE @]
  <2>1. Becomes(p, c, new)
    BY <1>9 DEF StartAgain
  <2>2. new.state = "running"
    BY <1>1, <1>3 DEF ContainerStatus
  <2> QED
    BY <1>2, <2>1, <2>2
<1> QED
  BY <1>4, <1>5, <1>6, <1>7, <1>8, <1>9 DEF Container

LEMMA NextReadyRuns == IInv /\ ReadyRuns /\ [Next]_vars => ReadyRuns'
<1> SUFFICES ASSUME IInv, ReadyRuns, [Next]_vars PROVE ReadyRuns'
  OBVIOUS
<1>1. CASE \E p \in Pods : Create(p)
  <2>1. PICK p \in Pods : Create(p)
    BY <1>1
  <2>2. ASSUME NEW q \in Pods, NEW c \in DOMAIN statuses'[q], statuses'[q][c].ready
        PROVE  statuses'[q][c].state = "running"
    <3>1. q # p
      BY <2>1, <2>2 DEF Create, IInv, TypeOK
    <3>2. statuses'[q] = statuses[q]
      BY <2>1, <3>1 DEF Create, IInv, TypeOK
    <3> QED
      BY <2>2, <3>2 DEF ReadyRuns
  <2> QED
    BY <2>2 DEF ReadyRuns
<1>2. CASE \E p \in Pods : Replace(p)
  <2>1. PICK p \in Pods : Replace(p)
    BY <1>2
  <2>2. ASSUME NEW q \in Pods, NEW c \in DOMAIN statuses'[q]
        PROVE  statuses'[q] = statuses[q]
    BY <2>1, <2>2 DEF Replace, IInv, TypeOK
  <2> QED
    BY <2>2 DEF ReadyRuns
<1>3. CASE \E p \in Pods : \E c \in DOMAIN statuses[p] : Container(p, c)
  BY <1>3, ContainerKeepsReadyRuns
<1>4. CASE UNCHANGED statuses
  BY <1>4 DEF ReadyRuns
<1>5. (\E p \in Pods : Evict(p)) \/ Loop \/ UNCHANGED vars => UNCHANGED statuses
  BY DEF Evict, Loop, Poll, PollOver, HandleEvent, Verify, vars, podVars
<1> QED
  BY <1>1, <1>2, <1>3, <1>4, <1>5 DEF Next

\* A container whose signals report no fault serves or backs off.
LEMMA SilentServes ==
  ASSUME NEW p \in Pods, NEW cs \in ContainerStatus, cs.ready => cs.state = "running",
         NoFault(StateSignals(p, cs))
  PROVE  Serves(p, cs) \/ cs.state = "CrashLoopBackOff"
<1>1. \A value : Signal(p, "service_unhealthy", value) \notin StateSignals(p, cs)
  BY DEF NoFault, Signal
<1>2. CASE cs.state \in Reasons
  BY <1>1, <1>2 DEF StateSignals, If, WaitingSignal
<1>3. CASE cs.state \notin Reasons
  <2>1. ~Unhealthy(p, cs)
    BY <1>1, <1>3 DEF StateSignals, If
  <2> QED
    BY <2>1 DEF Unhealthy, Serves
<1> QED
  BY <1>2, <1>3

\* For any pods and containers, a scrape with points and no sign of a fault means
\* that every container of the deployment that has a status serves or is in its
\* back-off.
THEOREM SilenceMeansServing == Spec => NoFaultMeansServing
<1>1. Init => ReadyRuns
  <2> SUFFICES ASSUME Init PROVE \A p \in Pods : DOMAIN statuses[p] = {}
    BY DEF ReadyRuns
  <2> QED
    BY DEF Init
<1>2. ASSUME TypeOK, ReadyRuns, NEW d \in Range(DeploymentOf), Verify(d), Scrape(d) # {},
             NoFault(Scrape(d)), NEW p \in PodsOf(d), NEW cs \in Range(statuses[p])
      PROVE  Serves(p, cs) \/ cs.state = "CrashLoopBackOff"
  <2>1. PICK c \in DOMAIN statuses[p] : cs = statuses[p][c]
    BY DEF Range
  <2>2. p \in Pods /\ cs \in ContainerStatus /\ (cs.ready => cs.state = "running")
    BY <1>2, <2>1 DEF PodsOf, TypeOK, ReadyRuns
  <2>3. StateSignals(p, cs) \subseteq Scrape(d)
    BY <1>2 DEF Scrape
  <2> QED
    BY <1>2, <2>2, <2>3, SilentServes DEF NoFault
<1>3. TypeOK /\ ReadyRuns =>
        [\A d \in Range(DeploymentOf) :
           Verify(d) /\ Scrape(d) # {} /\ NoFault(Scrape(d)) =>
             \A p \in PodsOf(d) : \A cs \in Range(statuses[p]) :
               Serves(p, cs) \/ cs.state = "CrashLoopBackOff"]_vars
  BY <1>2
<1>4. IInv => TypeOK
  BY DEF IInv
<1> QED
  BY InitIInv, NextIInv, NextReadyRuns, <1>1, <1>3, <1>4, PTL DEF Spec, NoFaultMeansServing
=============================================================================
