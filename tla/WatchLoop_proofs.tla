-------------------------- MODULE WatchLoop_proofs --------------------------
(***************************************************************************)
(* Proofs about the watch loop, for any deployments, services, thresholds, *)
(* windows and cooldowns that meet SpacingAssumption.  What makes them     *)
(* true is how far the heals of one deployment are apart: each takes time, *)
(* and the next begins a cooldown after its end.                           *)
(***************************************************************************)
EXTENDS WatchLoop, FiniteSetTheorems, SequenceTheorems, TLAPS

\* The time that n heals of one deployment take, with the cooldowns between them.
Gap(n) == n * (HealCooldown + 1)

\* Everything that was stamped lies in the past, and the heal of the first event
\* began after its cooldown.
Clocks ==
  /\ pollNow <= now /\ started <= now
  /\ \A d \in Deployments :
       /\ healed[d] <= now
       /\ cooldown[d] = IF healed[d] = Never THEN 0 ELSE healed[d]
  /\ passed => handling # None
  /\ handling # None => events # <<>>
  /\ handling # None =>
       healed[handling] = Never \/ started - healed[handling] >= HealCooldown

\* From i on, all hits are of d.
RunOf(h, i, d) == \A k \in i..Len(h) : h[k].of = d

\* The hits of a run are spaced: each begins a cooldown after the end of the last.
Spaced(h) ==
  \A j \in 1..Len(h) : \A i \in 1..j :
    (\A k \in i..j : h[k].of = h[j].of) => h[j].at - h[i].at >= Gap(j - i) - 1

\* The hits belong to the service and lie in the past, and cover one window.
HitsSpaced ==
  \A s \in Services :
    /\ \A i \in 1..Len(hits[s]) : hits[s][i].at <= now /\ ServiceOf[hits[s][i].of] = s
    /\ Spaced(hits[s])
    /\ hits[s] # <<>> => hits[s][Len(hits[s])].at - hits[s][1].at <= FlapWindow

\* How long ago the hits of the last run were, seen from the end of the last heal
\* of the deployment, or from the start of the one that just made the last hit.
Healed(h, d) ==
  \A i \in 1..Len(h) : RunOf(h, i, d) =>
    healed[d] # Never /\ healed[d] - h[i].at >= Gap(Len(h) - i)

HealedBefore(h, d) ==
  \A i \in 1..Len(h) : RunOf(h, i, d) /\ i < Len(h) =>
    started - h[i].at >= Gap(Len(h) - i) - 1

RunsHealed ==
  \A s \in Services, d \in Deployments :
    IF handling = d /\ passed THEN HealedBefore(hits[s], d) ELSE Healed(hits[s], d)

\* Failures are recorded at the end of a heal, in the order of time.
FailuresKnown ==
  /\ \A i \in DOMAIN failures :
       healed[failures[i].of] # Never /\ failures[i].at <= healed[failures[i].of]
  /\ \A i, j \in DOMAIN failures : i <= j => failures[i].at <= failures[j].at

Inv ==
  /\ TypeOK
  /\ Clocks
  /\ HitsSpaced
  /\ RunsHealed
  /\ FailuresKnown
  /\ FailuresOfDistinctDeployments

-----------------------------------------------------------------------------
LEMMA Multiples ==
  ASSUME NEW h \in Nat, NEW n \in Nat
  PROVE  /\ n * h \in Nat
         /\ (n + 1) * h = n * h + h
         /\ 0 * h = 0
         /\ \A m \in Nat : m <= n => m * h <= n * h
<1>1. ASSUME NEW m \in Nat, m <= n
      PROVE  m * h <= n * h
  <2>1. n - m \in Nat /\ n = m + (n - m)
    BY <1>1
  <2>2. (m + (n - m)) * h = m * h + (n - m) * h /\ (n - m) * h \in Nat /\ m * h \in Nat
    BY <2>1
  <2> QED
    BY <2>1, <2>2
<1> QED
  BY <1>1

LEMMA GapGrows ==
  ASSUME NEW n \in Nat
  PROVE  /\ Gap(n) \in Nat
         /\ Gap(n + 1) = Gap(n) + HealCooldown + 1
         /\ Gap(0) = 0
         /\ \A m \in Nat : m <= n => Gap(m) <= Gap(n)
<1> DEFINE H == HealCooldown + 1
<1>1. H \in Nat
  BY WatchAssumption
<1> HIDE DEF H
<1>2. n * H \in Nat /\ (n + 1) * H = n * H + H /\ 0 * H = 0 /\ \A m \in Nat : m <= n => m * H <= n * H
  BY <1>1, Multiples
<1>3. H = HealCooldown + 1 /\ H \in Nat
  BY <1>1 DEF H
<1> QED
  BY <1>2, <1>3, WatchAssumption DEF Gap, H

\* What an append and the pruning of the head leave of a deque.
LEMMA RecordedDeque ==
  ASSUME NEW old \in Seq(Report), NEW entry \in Report, NEW window \in Nat,
         NEW new \in Recorded(old, entry, window)
  PROVE  /\ new \in Seq(Report)
         /\ new # <<>>
         /\ new[Len(new)] = entry
         /\ new[1].at >= entry.at - window
         /\ \E stale \in 0..Len(old) :
              /\ Len(new) = Len(old) + 1 - stale
              /\ \A i \in 1..Len(old) - stale : new[i] = old[i + stale]
<1> DEFINE deque == Append(old, entry)
<1>1. PICK stale \in 0..Len(old) :
        /\ deque[stale + 1].at >= entry.at - window
        /\ new = SubSeq(deque, stale + 1, Len(deque))
  BY DEF Recorded, Prunes
<1>2. deque \in Seq(Report) /\ Len(deque) = Len(old) + 1 /\ Len(old) \in Nat
  OBVIOUS
<1>3. deque[Len(old) + 1] = entry /\ \A i \in 1..Len(old) : deque[i] = old[i]
  OBVIOUS
<1> HIDE DEF deque
<1>4. \A i \in (stale + 1)..Len(deque) : deque[i] \in Report
  BY <1>2
<1>5. /\ new \in Seq(Report)
      /\ Len(new) = Len(old) + 1 - stale
      /\ \A i \in 1..Len(old) + 1 - stale : new[i] = deque[i + stale]
  <2>1. stale + 1 \in Int /\ Len(deque) \in Int /\ stale + 1 <= Len(deque)
    BY <1>2
  <2>2. /\ new \in Seq(Report)
        /\ Len(new) = Len(deque) - (stale + 1) + 1
        /\ \A i \in 1..Len(deque) - (stale + 1) + 1 : new[i] = deque[stale + 1 + i - 1]
    BY <1>1, <1>4, <2>1, SubSeqProperties
  <2>3. Len(deque) - (stale + 1) + 1 = Len(old) + 1 - stale
    BY <1>2
  <2>4. ASSUME NEW i \in 1..Len(old) + 1 - stale
        PROVE  new[i] = deque[i + stale]
    <3>1. i \in 1..Len(deque) - (stale + 1) + 1
      BY <2>3
    <3>2. stale + 1 + i - 1 = i + stale
      BY <1>2
    <3>3. new[i] = deque[stale + 1 + i - 1]
      BY <2>2, <3>1
    <3> QED
      BY <3>2, <3>3
  <2> QED
    BY <2>2, <2>3, <2>4
<1>6. new[1] = deque[stale + 1] /\ new[Len(new)] = deque[Len(old) + 1]
  BY <1>2, <1>5
<1>7. \A i \in 1..Len(old) - stale : new[i] = old[i + stale]
  BY <1>2, <1>3, <1>5
<1>8. Len(new) >= 1 /\ new # <<>>
  <2>1. Len(new) >= 1
    BY <1>2, <1>5
  <2> QED
    BY <2>1, <1>5
<1>9. deque[Len(old) + 1] = entry
  BY <1>3
<1> QED
  BY <1>1, <1>5, <1>6, <1>7, <1>8, <1>9

-----------------------------------------------------------------------------
\* What the steps do to the variables that matter here.
Counts ==
  \E kept \in Recorded(hits[ServiceOf[handling]], ReportNow, FlapWindow) :
    hits' = [hits EXCEPT ![ServiceOf[handling]] = kept]

Quiet ==
  /\ now' >= now /\ pollNow' \in {pollNow, now}
  /\ UNCHANGED <<incidentVars, cooldown, healed, hits, failures>>

Passes ==
  /\ handling # None /\ ~passed /\ passed'
  /\ Counts
  /\ failures' \in {<<>>, failures}
  /\ UNCHANGED <<now, pollNow, handling, started, cooldown, healed>>

Ends ==
  /\ handling # None
  /\ Finish
  /\ UNCHANGED hits \/ (~passed /\ Counts)
  /\ failures' \in {<<>>, failures} \cup Recorded(failures, ReportNow, FailWindow)

LEMMA NextCases ==
  ASSUME TypeOK, Clocks, Next
  PROVE  Quiet \/ TakeUp \/ Passes \/ Ends \/ Restart
<1>1. CASE Tick \/ (\E d \in Deployments : FaultAppears(d) \/ FaultEnds(d)) \/ Poll \/ SkipEvent
  BY <1>1 DEF TypeOK, Tick, FaultAppears, FaultEnds, Poll, SkipEvent, Quiet, loopVars,
     incidentVars, breakerVars
<1>2. CASE DetectFails \/ Discard
  BY <1>2 DEF DetectFails, Discard, Fail, Ends, breakerVars
<1>3. CASE Gate
  BY <1>3 DEF Gate, Ends, Passes, Counts, breakerVars, loopVars
<1>4. CASE EndHeal
  BY <1>4 DEF EndHeal, Fail, Ends, Clocks, breakerVars
<1> QED
  BY <1>1, <1>2, <1>3, <1>4 DEF Next

LEMMA InitHolds ==
  ASSUME Init
  PROVE  Inv
<1>1. TypeOK
  <2>1. <<>> \in Seq(Report) /\ <<>> \in Seq(Deployments)
    OBVIOUS
  <2> QED
    BY <2>1 DEF Init, TypeOK
<1>2. Clocks
  BY DEF Init, Clocks, Never
<1>3. HitsSpaced /\ RunsHealed
  BY DEF Init, HitsSpaced, RunsHealed, Spaced, Healed, HealedBefore
<1>4. FailuresKnown /\ FailuresOfDistinctDeployments
  BY DEF Init, FailuresKnown, FailuresOfDistinctDeployments
<1> QED
  BY <1>1, <1>2, <1>3, <1>4 DEF Inv

\* Every step keeps the types.
LEMMA ReportTyped ==
  ASSUME TypeOK, handling # None
  PROVE  ReportNow \in Report /\ ServiceOf[handling] \in Services
  BY WatchAssumption DEF TypeOK, ReportNow, Report

LEMMA CountsTyped ==
  ASSUME TypeOK, handling # None, Counts
  PROVE  hits' \in [Services -> Seq(Report)]
<1>1. PICK kept \in Recorded(hits[ServiceOf[handling]], ReportNow, FlapWindow) :
        hits' = [hits EXCEPT ![ServiceOf[handling]] = kept]
  BY DEF Counts
<1>2. hits[ServiceOf[handling]] \in Seq(Report)
  BY ReportTyped DEF TypeOK
<1>3. kept \in Seq(Report)
  BY <1>1, <1>2, ReportTyped, RecordedDeque, FlapAssumption
<1> QED
  BY <1>1, <1>3 DEF TypeOK

LEMMA FailTyped ==
  ASSUME TypeOK, handling # None, Fail
  PROVE  failures' \in Seq(Report) /\ openedAt' \in Nat \cup {Never}
<1>1. failures' \in Seq(Report)
  BY ReportTyped, RecordedDeque, WatchAssumption DEF Fail, TypeOK
<1> QED
  BY <1>1 DEF Fail, TypeOK

LEMMA FinishTyped ==
  ASSUME TypeOK, handling # None, events # <<>>, Finish
  PROVE  /\ now' \in Nat /\ faulty' \subseteq Deployments /\ pollNow' \in Nat
         /\ handling' \in Deployments \cup {None} /\ started' \in Nat /\ passed' \in BOOLEAN
         /\ cooldown' \in [Deployments -> Nat]
         /\ asleepUntil' \in Nat /\ events' \in Seq(Deployments)
         /\ since' \in [Deployments -> Nat \cup {Never}]
         /\ healed' \in [Deployments -> Nat \cup {Never}]
<1>1. handling \in Deployments /\ now + PollInterval \in Nat
  BY WatchAssumption DEF TypeOK
<1>2. cooldown' \in [Deployments -> Nat]
  BY <1>1 DEF Finish, Stamp, TypeOK
<1>3. asleepUntil' \in Nat
  BY <1>1 DEF Finish, NextEvent, TypeOK
<1>4. events' \in Seq(Deployments)
  BY DEF Finish, NextEvent, TypeOK
<1>5. since' \in [Deployments -> Nat \cup {Never}]
  BY <1>1 DEF Finish, TypeOK
<1>6. healed' \in [Deployments -> Nat \cup {Never}]
  BY <1>1 DEF Finish, TypeOK
<1> QED
  BY <1>2, <1>3, <1>4, <1>5, <1>6 DEF Finish, TypeOK

LEMMA TypesKept ==
  ASSUME TypeOK, Clocks, Next
  PROVE  TypeOK'
<1> USE DEF loopVars, incidentVars, breakerVars
<1>0. passed => handling # None
  BY DEF Clocks
<1>1. CASE Tick
  BY <1>1 DEF Tick, TypeOK
<1>2. ASSUME NEW d \in Deployments, FaultAppears(d) \/ FaultEnds(d)
      PROVE  TypeOK'
  BY <1>2 DEF FaultAppears, FaultEnds, TypeOK
<1>3. CASE Poll
  <2>1. now + PollInterval \in Nat
    BY WatchAssumption DEF TypeOK
  <2>2. events' \in Seq(Deployments)
    <3>1. ASSUME NEW k \in Nat, NEW r \in [1..k -> faulty]
          PROVE  r \in Seq(Deployments)
      <4>1. r \in [1..k -> Deployments]
        BY DEF TypeOK
      <4> QED
        BY <4>1
    <3>2. CASE faulty = {}
      BY <1>3, <3>2 DEF Poll, TypeOK
    <3>3. CASE faulty # {}
      <4>1. Cardinality(faulty) \in Nat
        BY WatchAssumption, FS_Subset, FS_CardinalityType DEF TypeOK
      <4>2. PICK k \in Cardinality(faulty)..Cardinality(faulty) + 1 :
              events' \in [1..k -> faulty]
        BY <1>3, <3>3 DEF Poll, Reports
      <4>3. k \in Nat
        BY <4>1, <4>2
      <4> QED
        BY <3>1, <4>2, <4>3
    <3> QED
      BY <3>2, <3>3
  <2> QED
    BY <1>3, <2>1, <2>2 DEF Poll, TypeOK
<1>4. CASE SkipEvent
  <2>1. now + PollInterval \in Nat
    BY WatchAssumption DEF TypeOK
  <2>2. Tail(events) \in Seq(Deployments)
    BY <1>4 DEF SkipEvent, TypeOK
  <2> QED
    BY <1>4, <2>1, <2>2 DEF SkipEvent, NextEvent, TypeOK
<1>5. CASE TakeUp
  <2>1. Head(events) \in Deployments
    BY <1>5 DEF TakeUp, TypeOK
  <2> QED
    BY <1>5, <2>1 DEF TakeUp, TypeOK
<1>6. CASE DetectFails
  BY <1>6, FinishTyped, FailTyped DEF DetectFails, TypeOK, Clocks
<1>7. CASE Discard
  BY <1>7, FinishTyped DEF Discard, TypeOK, Clocks
<1>8. CASE Gate
  <2>1. hits' \in [Services -> Seq(Report)]
    BY <1>8, CountsTyped DEF Gate, Counts
  <2>2. CASE Finish /\ UNCHANGED <<failures, openedAt>>
    BY <1>8, <2>1, <2>2, FinishTyped DEF Gate, TypeOK, Clocks
  <2>3. CASE /\ passed' = TRUE /\ openedAt' = Never /\ failures' \in {<<>>, failures}
             /\ UNCHANGED <<now, faulty, loopVars, handling, started, since, healed>>
    <3>1. <<>> \in Seq(Report)
      OBVIOUS
    <3> QED
      BY <2>1, <2>3, <3>1 DEF TypeOK
  <2> QED
    BY <1>8, <2>2, <2>3 DEF Gate
<1>9. CASE EndHeal
  <2>1. failures' \in Seq(Report) /\ openedAt' \in Nat \cup {Never}
    <3>1. CASE Fail
      BY <1>0, <1>9, <3>1, FailTyped DEF EndHeal
    <3>2. CASE failures' \in {<<>>, failures} /\ UNCHANGED openedAt
      <4>1. <<>> \in Seq(Report)
        OBVIOUS
      <4> QED
        BY <3>2, <4>1 DEF TypeOK
    <3> QED
      BY <1>9, <3>1, <3>2 DEF EndHeal
  <2> QED
    BY <1>0, <1>9, <2>1, FinishTyped DEF EndHeal, TypeOK, Clocks
<1>10. CASE Restart
  <2>1. <<>> \in Seq(Report) /\ <<>> \in Seq(Deployments)
    OBVIOUS
  <2> QED
    BY <1>10, <2>1 DEF Restart, TypeOK
<1> QED
  BY <1>1, <1>2, <1>3, <1>4, <1>5, <1>6, <1>7, <1>8, <1>9, <1>10 DEF Next

\* While an incident is handled, its event is the first of the list.
LEMMA BusyKept ==
  ASSUME Clocks, Next, handling' # None
  PROVE  events' # <<>>
<1> USE DEF loopVars, incidentVars
<1>1. CASE handling' = handling /\ UNCHANGED events
  BY <1>1 DEF Clocks
<1>2. CASE TakeUp
  BY <1>2 DEF TakeUp
<1>3. ~Poll /\ ~SkipEvent
  BY DEF Poll, SkipEvent
<1>4. ~DetectFails /\ ~Discard /\ ~EndHeal /\ ~Restart
  BY DEF DetectFails, Discard, EndHeal, Finish, Restart
<1>5. Tick \/ Gate => handling' = handling /\ UNCHANGED events
  BY DEF Tick, Gate, Finish
<1>6. (\E d \in Deployments : FaultAppears(d) \/ FaultEnds(d)) => handling' = handling /\ UNCHANGED events
  BY DEF FaultAppears, FaultEnds
<1> QED
  BY <1>1, <1>2, <1>3, <1>4, <1>5, <1>6 DEF Next

LEMMA ClocksKept ==
  ASSUME TypeOK, TypeOK', Clocks, Next
  PROVE  Clocks'
<1>1. CASE Quiet
  BY <1>1, BusyKept DEF Quiet, Clocks, TypeOK, incidentVars, Never
<1>2. CASE TakeUp
  <2>1. Head(events) \in Deployments /\ ~InCooldown(Head(events))
    BY <1>2 DEF TakeUp, TypeOK
  <2>2. \/ healed[Head(events)] = Never
        \/ healed[Head(events)] \in Nat /\ cooldown[Head(events)] = healed[Head(events)]
    BY <2>1 DEF Clocks, TypeOK
  <2>3. healed[Head(events)] = Never \/ now - healed[Head(events)] >= HealCooldown
    BY <2>1, <2>2, WatchAssumption DEF InCooldown, Clocks, TypeOK
  <2> QED
    BY <1>2, <2>1, <2>3, BusyKept DEF TakeUp, Clocks, TypeOK, loopVars
<1>3. CASE Passes
  BY <1>3, BusyKept DEF Passes, Clocks, TypeOK
<1>4. CASE Ends
  <2>1. handling \in Deployments /\ now \in Nat /\ handling' = None /\ passed' = FALSE
        /\ now' = now /\ pollNow' = pollNow /\ started' = 0
    BY <1>4 DEF Ends, Finish, TypeOK
  <2>2. ASSUME NEW d \in Deployments
        PROVE  healed'[d] <= now' /\ cooldown'[d] = IF healed'[d] = Never THEN 0 ELSE healed'[d]
    <3>1. CASE d = handling
      <4>1. healed'[d] = now /\ cooldown'[d] = now
        BY <1>4, <2>1, <3>1 DEF Ends, Finish, Stamp, TypeOK
      <4> QED
        BY <2>1, <4>1 DEF Never
    <3>2. CASE d # handling
      <4>1. healed'[d] = healed[d] /\ cooldown'[d] = cooldown[d]
        BY <1>4, <3>2 DEF Ends, Finish, TypeOK
      <4> QED
        BY <2>1, <4>1 DEF Clocks
    <3> QED
      BY <3>1, <3>2
  <2> QED
    BY <2>1, <2>2 DEF Clocks
<1>5. CASE Restart
  BY <1>5 DEF Restart, Clocks, TypeOK, Never
<1> QED
  BY <1>1, <1>2, <1>3, <1>4, <1>5, NextCases

-----------------------------------------------------------------------------
\* Where a deque comes from that a hit of the deployment in hand was appended to.
LEMMA CountedDeque ==
  ASSUME TypeOK, handling # None, NEW h \in Seq(Report),
         NEW new \in Recorded(h, ReportNow, FlapWindow)
  PROVE  /\ new \in Seq(Report) /\ new # <<>> /\ Len(new) \in Nat \ {0}
         /\ new[Len(new)].at = now /\ new[Len(new)].of = handling
         /\ new[Len(new)].at - new[1].at <= FlapWindow
         /\ \A i \in 1..Len(new) : new[i].at \in Nat /\ new[i].of \in Deployments
         /\ \E stale \in 0..Len(h) :
              /\ Len(new) = Len(h) + 1 - stale
              /\ \A i \in 1..Len(new) - 1 : new[i] = h[i + stale]
<1>1. ReportNow \in Report /\ ReportNow.at = now /\ ReportNow.of = handling /\ now \in Nat
  BY ReportTyped DEF ReportNow, TypeOK
<1>2. /\ new \in Seq(Report) /\ new # <<>> /\ new[Len(new)] = ReportNow
      /\ new[1].at >= now - FlapWindow
      /\ \E stale \in 0..Len(h) :
           /\ Len(new) = Len(h) + 1 - stale
           /\ \A i \in 1..Len(h) - stale : new[i] = h[i + stale]
  <2>1. FlapWindow \in Nat
    BY FlapAssumption
  <2> HIDE DEF ReportNow
  <2> QED
    BY ONLY <1>1, <2>1, RecordedDeque, new \in Recorded(h, ReportNow, FlapWindow),
       h \in Seq(Report)
<1>3. Len(new) \in Nat \ {0}
  BY <1>2
<1>4. \A i \in 1..Len(new) : new[i] \in Report
  BY <1>2
<1>5. \A i \in 1..Len(new) : new[i].at \in Nat /\ new[i].of \in Deployments
  BY <1>4 DEF Report
<1>6. new[Len(new)].at - new[1].at <= FlapWindow
  <2>1. new[1].at \in Nat
    BY <1>3, <1>5
  <2> QED
    BY <1>1, <1>2, <2>1, FlapAssumption
<1>7. \A stale \in 0..Len(h) : Len(new) = Len(h) + 1 - stale => Len(new) - 1 = Len(h) - stale
  OBVIOUS
<1> QED
  BY <1>1, <1>2, <1>3, <1>5, <1>6, <1>7

\* Before the hit is counted, the runs of the deployment in hand end with its last
\* heal; after, they lie as far before the start of this one.
LEMMA CountedHealedBefore ==
  ASSUME TypeOK, Clocks, handling # None, NEW h \in Seq(Report), Healed(h, handling),
         NEW new \in Recorded(h, ReportNow, FlapWindow)
  PROVE  HealedBefore(new, handling)
<1>1. PICK stale \in 0..Len(h) :
        /\ Len(new) = Len(h) + 1 - stale
        /\ \A i \in 1..Len(new) - 1 : new[i] = h[i + stale]
  BY CountedDeque
<1>2. SUFFICES ASSUME NEW i \in 1..Len(new), RunOf(new, i, handling), i < Len(new)
               PROVE  started - new[i].at >= Gap(Len(new) - i) - 1
  BY DEF HealedBefore
<1>3. Len(h) \in Nat /\ Len(new) \in Nat
  BY <1>1
<1>4. PICK j \in 1..Len(h) : j = i + stale
  BY <1>1, <1>2, <1>3
<1>5. new[i] = h[j] /\ new[i].at \in Nat
  BY <1>1, <1>2, <1>3, <1>4, CountedDeque
<1>6. RunOf(h, j, handling)
  <2>1. SUFFICES ASSUME NEW k \in j..Len(h)
                 PROVE  h[k].of = handling
    BY DEF RunOf
  <2>2. PICK m \in i..Len(new) : m = k - stale /\ m \in 1..Len(new) - 1
    BY <1>1, <1>2, <1>3, <1>4, <2>1
  <2>3. new[m] = h[m + stale] /\ m + stale = k
    BY <1>1, <2>2
  <2> QED
    BY <1>2, <2>2, <2>3 DEF RunOf
<1>7. healed[handling] # Never /\ healed[handling] - h[j].at >= Gap(Len(h) - j)
  BY <1>4, <1>6 DEF Healed
<1>8. /\ healed[handling] \in Nat /\ started \in Nat /\ HealCooldown \in Nat
      /\ started - healed[handling] >= HealCooldown
  BY <1>7, WatchAssumption DEF Clocks, TypeOK
<1>9. Len(h) - j \in Nat /\ Len(new) - i = (Len(h) - j) + 1
  BY <1>1, <1>3, <1>4
<1>10. /\ Gap(Len(h) - j) \in Nat
       /\ Gap(Len(new) - i) = Gap(Len(h) - j) + HealCooldown + 1
  BY <1>9, GapGrows
<1>11. new[i].at = h[j].at /\ h[j].at \in Nat
  BY <1>5
<1>12. \A g, b, t, q, x \in Nat :
          b - t >= g /\ q - b >= x => q - t >= g + x + 1 - 1
  OBVIOUS
<1>13. started - h[j].at >= Gap(Len(h) - j) + HealCooldown + 1 - 1
  BY ONLY <1>7, <1>8, <1>10, <1>11, <1>12
<1> QED
  BY <1>8, <1>10, <1>11, <1>13

LEMMA CountedSpaced ==
  ASSUME TypeOK, Clocks, handling # None, NEW h \in Seq(Report), Healed(h, handling),
         Spaced(h), NEW new \in Recorded(h, ReportNow, FlapWindow)
  PROVE  Spaced(new)
<1>1. PICK stale \in 0..Len(h) :
        /\ Len(new) = Len(h) + 1 - stale
        /\ \A i \in 1..Len(new) - 1 : new[i] = h[i + stale]
  BY CountedDeque
<1>2. SUFFICES ASSUME NEW j \in 1..Len(new), NEW i \in 1..j,
                      \A k \in i..j : new[k].of = new[j].of
               PROVE  new[j].at - new[i].at >= Gap(j - i) - 1
  BY DEF Spaced
<1>3. Len(h) \in Nat /\ Len(new) \in Nat
  BY <1>1
<1>4. CASE j < Len(new)
  <2>1. PICK m \in 1..Len(h) : m = j + stale
    BY <1>1, <1>2, <1>3, <1>4
  <2>2. PICK l \in 1..m : l = i + stale
    BY <1>1, <1>2, <1>3, <2>1
  <2>3. new[j] = h[m] /\ new[i] = h[l] /\ m - l = j - i
    BY <1>1, <1>2, <1>3, <1>4, <2>1, <2>2
  <2>4. ASSUME NEW k \in l..m
        PROVE  h[k].of = h[m].of
    <3>1. PICK r \in i..j : r = k - stale /\ r \in 1..Len(new) - 1
      BY <1>1, <1>2, <1>3, <1>4, <2>1, <2>2, <2>4
    <3>2. new[r] = h[r + stale] /\ r + stale = k
      BY <1>1, <3>1
    <3> QED
      BY <1>2, <2>3, <3>1, <3>2
  <2> QED
    BY <2>3, <2>4 DEF Spaced
<1>5. CASE j = Len(new)
  <2>1. new[j].at = now /\ new[j].of = handling
    BY <1>5, CountedDeque
  <2>2. now \in Nat /\ started \in Nat /\ started <= now /\ new[i].at \in Nat
    <3>1. i \in 1..Len(new)
      BY <1>2, <1>3
    <3> QED
      BY <3>1, CountedDeque DEF TypeOK, Clocks
  <2>3. CASE i = j
    <3>1. j - i = 0 /\ Gap(0) = 0
      BY <1>3, <2>3, GapGrows
    <3> QED
      BY <2>1, <2>2, <2>3, <3>1
  <2>4. CASE i # j
    <3>1. RunOf(new, i, handling) /\ i < Len(new) /\ i \in 1..Len(new)
      BY <1>2, <1>3, <1>5, <2>1, <2>4 DEF RunOf
    <3>2. started - new[i].at >= Gap(Len(new) - i) - 1
      BY <3>1, CountedHealedBefore DEF HealedBefore
    <3>3. PICK g \in Nat : g = Len(new) - i
      BY <1>3, <3>1
    <3>4. Gap(g) \in Nat
      BY GapGrows
    <3> QED
      BY <1>5, <2>1, <2>2, <3>2, <3>3, <3>4
  <2> QED
    BY <2>3, <2>4
<1> QED
  BY <1>3, <1>4, <1>5

\* What the deques are after the hit of the deployment in hand: only that of its
\* service differs.
LEMMA CountedHits ==
  ASSUME TypeOK, Clocks, HitsSpaced, RunsHealed, handling # None, ~passed, Counts,
         NEW s \in Services
  PROVE  IF s = ServiceOf[handling]
           THEN /\ hits[s] \in Seq(Report)
                /\ hits'[s] \in Recorded(hits[s], ReportNow, FlapWindow)
                /\ Spaced(hits[s]) /\ Healed(hits[s], handling)
           ELSE hits'[s] = hits[s]
<1>1. hits[s] \in Seq(Report) /\ Spaced(hits[s])
  BY DEF TypeOK, HitsSpaced
<1>2. Healed(hits[s], handling)
  BY DEF RunsHealed, TypeOK
<1>3. CASE s = ServiceOf[handling]
  <2>1. hits'[s] \in Recorded(hits[s], ReportNow, FlapWindow)
    BY <1>3 DEF Counts, TypeOK
  <2> QED
    BY <1>1, <1>2, <1>3, <2>1
<1>4. CASE s # ServiceOf[handling]
  BY <1>4 DEF Counts, TypeOK
<1> QED
  BY <1>3, <1>4

\* A service has no run of a deployment that belongs to another.
LEMMA ForeignRuns ==
  ASSUME TypeOK, HitsSpaced, NEW s \in Services, NEW d \in Deployments, ServiceOf[d] # s,
         NEW i \in 1..Len(hits[s])
  PROVE  ~RunOf(hits[s], i, d)
<1>1. Len(hits[s]) \in i..Len(hits[s]) /\ Len(hits[s]) \in 1..Len(hits[s])
  <2>1. Len(hits[s]) \in Nat
    BY DEF TypeOK
  <2> QED
    BY <2>1
<1> QED
  BY <1>1 DEF RunOf, HitsSpaced

\* Nor has a deque that ends with the hit of another deployment.
LEMMA RunEnds ==
  ASSUME NEW h, Len(h) \in Nat, NEW d, h[Len(h)].of # d, NEW i \in 1..Len(h)
  PROVE  ~RunOf(h, i, d)
  BY DEF RunOf

LEMMA CountsKeepSpacing ==
  ASSUME TypeOK, Clocks, HitsSpaced, RunsHealed, handling # None, ~passed, Counts, now' = now
  PROVE  HitsSpaced'
<1>1. ASSUME NEW s \in Services, s # ServiceOf[handling]
      PROVE  hits'[s] = hits[s]
  BY <1>1, CountedHits
<1>2. ASSUME NEW s \in Services, s = ServiceOf[handling]
      PROVE  /\ \A i \in 1..Len(hits'[s]) :
                  hits'[s][i].at <= now /\ ServiceOf[hits'[s][i].of] = s
             /\ Spaced(hits'[s])
             /\ hits'[s][Len(hits'[s])].at - hits'[s][1].at <= FlapWindow
  <2> DEFINE h == hits[s]
             new == hits'[s]
  <2>1. /\ h \in Seq(Report) /\ new \in Recorded(h, ReportNow, FlapWindow)
        /\ Spaced(h) /\ Healed(h, handling)
    BY <1>2, CountedHits
  <2>2. \A i \in 1..Len(h) : h[i].at <= now /\ ServiceOf[h[i].of] = s
    BY DEF HitsSpaced
  <2> HIDE DEF h, new
  <2>3. Spaced(new)
    BY <2>1, CountedSpaced
  <2>4. new[Len(new)].at - new[1].at <= FlapWindow
    BY <2>1, CountedDeque
  <2>5. PICK stale \in 0..Len(h) :
          /\ Len(new) = Len(h) + 1 - stale
          /\ \A i \in 1..Len(new) - 1 : new[i] = h[i + stale]
    BY <2>1, CountedDeque
  <2>6. ASSUME NEW i \in 1..Len(new)
        PROVE  new[i].at <= now /\ ServiceOf[new[i].of] = s
    <3>1. CASE i = Len(new)
      <4>1. new[i].at = now /\ new[i].of = handling /\ now \in Nat
        BY <2>1, <3>1, CountedDeque DEF TypeOK
      <4> QED
        BY <1>2, <4>1
    <3>2. CASE i # Len(new)
      <4>1. i \in 1..Len(new) - 1 /\ i + stale \in 1..Len(h)
        BY <2>1, <2>5, <3>2
      <4> QED
        BY <2>2, <2>5, <4>1
    <3> QED
      BY <3>1, <3>2
  <2> QED
    BY <2>3, <2>4, <2>6 DEF new
<1>3. ASSUME NEW s \in Services
      PROVE  /\ \A i \in 1..Len(hits'[s]) :
                  hits'[s][i].at <= now /\ ServiceOf[hits'[s][i].of] = s
             /\ Spaced(hits'[s])
             /\ hits'[s] # <<>> => hits'[s][Len(hits'[s])].at - hits'[s][1].at <= FlapWindow
  BY <1>1, <1>2 DEF HitsSpaced
<1> QED
  BY <1>3 DEF HitsSpaced, Spaced, Gap

LEMMA SpacingKept ==
  ASSUME TypeOK, TypeOK', Clocks, HitsSpaced, RunsHealed, Next
  PROVE  HitsSpaced'
<1>1. CASE now' >= now /\ UNCHANGED hits
  <2>1. ASSUME NEW s \in Services, NEW i \in 1..Len(hits[s])
        PROVE  hits[s][i].at <= now'
    <3>1. hits[s][i].at \in Nat
      <4>1. hits[s] \in Seq(Report)
        BY DEF TypeOK
      <4>2. hits[s][i] \in Report
        BY <4>1
      <4> QED
        BY <4>2 DEF Report
    <3>2. hits[s][i].at <= now
      BY DEF HitsSpaced
    <3>3. now \in Nat /\ now' \in Nat /\ now' >= now
      BY <1>1 DEF TypeOK
    <3> QED
      BY <3>1, <3>2, <3>3
  <2> QED
    BY <1>1, <2>1 DEF HitsSpaced, Spaced, Gap
<1>2. CASE Quiet
  BY <1>1, <1>2 DEF Quiet
<1>3. CASE TakeUp
  BY <1>1, <1>3 DEF TakeUp, TypeOK
<1>4. CASE Passes
  BY <1>4, CountsKeepSpacing DEF Passes
<1>5. CASE Ends
  <2>1. handling # None /\ now' = now /\ now \in Nat
    BY <1>5 DEF Ends, Finish, TypeOK
  <2>2. CASE UNCHANGED hits
    BY <1>1, <2>1, <2>2
  <2>3. CASE ~passed /\ Counts
    BY <2>1, <2>3, CountsKeepSpacing
  <2> QED
    BY <1>5, <2>2, <2>3 DEF Ends
<1>6. CASE Restart
  <2>1. \A s \in Services : hits'[s] = <<>>
    BY <1>6 DEF Restart
  <2> QED
    BY <2>1 DEF HitsSpaced, Spaced
<1> QED
  BY <1>2, <1>3, <1>4, <1>5, <1>6, NextCases

\* A hit of the deployment in hand leaves no run of another one in its service, and
\* none of it in another service.
LEMMA CountedRuns ==
  ASSUME TypeOK, Clocks, HitsSpaced, RunsHealed, handling # None, ~passed, Counts,
         NEW s \in Services, NEW d \in Deployments
  PROVE  /\ d # handling => Healed(hits'[s], d)
         /\ HealedBefore(hits'[s], handling)
<1>1. handling \in Deployments
  BY DEF TypeOK
<1>2. CASE s = ServiceOf[handling]
  <2> DEFINE h == hits[s]
             new == hits'[s]
  <2>1. h \in Seq(Report) /\ new \in Recorded(h, ReportNow, FlapWindow) /\ Healed(h, handling)
    BY <1>2, CountedHits
  <2> HIDE DEF h, new
  <2>2. Len(new) \in Nat /\ new[Len(new)].of = handling
    BY <2>1, CountedDeque
  <2>3. HealedBefore(new, handling)
    BY <2>1, CountedHealedBefore
  <2>4. d # handling => Healed(new, d)
    BY <2>2, RunEnds DEF Healed
  <2> QED
    BY <2>3, <2>4 DEF new
<1>3. CASE s # ServiceOf[handling]
  <2>1. hits'[s] = hits[s]
    BY <1>3, CountedHits
  <2>2. \A i \in 1..Len(hits[s]) : ~RunOf(hits[s], i, handling)
    BY <1>1, <1>3, ForeignRuns
  <2>3. d # handling => Healed(hits[s], d)
    BY DEF RunsHealed
  <2> QED
    BY <2>1, <2>2, <2>3 DEF HealedBefore
<1> QED
  BY <1>2, <1>3

\* When the heal ends, its runs end with it, whether it was counted before, or now,
\* or not at all.
LEMMA EndedRuns ==
  ASSUME TypeOK, TypeOK', Clocks, HitsSpaced, HitsSpaced', RunsHealed, Ends,
         NEW s \in Services, NEW i \in 1..Len(hits'[s]), RunOf(hits'[s], i, handling)
  PROVE  now - hits'[s][i].at >= Gap(Len(hits'[s]) - i)
<1>1. /\ handling \in Deployments /\ handling # None /\ now \in Nat /\ started \in Nat
      /\ now > started /\ now' = now
  BY DEF Ends, Finish, TypeOK
<1>2. hits'[s] \in Seq(Report) /\ Len(hits'[s]) \in Nat
  BY DEF TypeOK
<1>3. hits'[s][i].at \in Nat /\ hits'[s][i].at <= now
  <2>1. hits'[s][i] \in Report
    BY <1>2
  <2>2. hits'[s][i].at <= now
    BY <1>1 DEF HitsSpaced
  <2> QED
    BY <2>1, <2>2 DEF Report
<1>4. CASE UNCHANGED hits /\ ~passed
  <2>1. healed[handling] # Never /\ healed[handling] - hits[s][i].at >= Gap(Len(hits[s]) - i)
    BY <1>1, <1>4 DEF RunsHealed, Healed
  <2>2. healed[handling] \in Nat /\ healed[handling] <= now
    BY <1>1, <2>1 DEF TypeOK, Clocks
  <2>3. Gap(Len(hits[s]) - i) \in Nat
    <3>1. Len(hits[s]) - i \in Nat
      BY <1>2, <1>4
    <3> QED
      BY <3>1, GapGrows
  <2>4. hits'[s] = hits[s]
    BY <1>4
  <2> QED
    BY <1>1, <1>3, <2>1, <2>2, <2>3, <2>4
<1>5. CASE HealedBefore(hits'[s], handling)
  <2>1. CASE i = Len(hits'[s])
    <3>1. Len(hits'[s]) - i = 0 /\ Gap(0) = 0
      BY <1>2, <2>1, GapGrows
    <3> QED
      BY <1>1, <1>3, <3>1
  <2>2. CASE i # Len(hits'[s])
    <3>1. i < Len(hits'[s])
      BY <1>2, <2>2
    <3>2. started - hits'[s][i].at >= Gap(Len(hits'[s]) - i) - 1
      BY <1>5, <3>1 DEF HealedBefore
    <3>3. Gap(Len(hits'[s]) - i) \in Nat
      <4>1. Len(hits'[s]) - i \in Nat
        BY <1>2
      <4> QED
        BY <4>1, GapGrows
    <3> QED
      BY <1>1, <1>3, <3>2, <3>3
  <2> QED
    BY <2>1, <2>2
<1>6. CASE UNCHANGED hits /\ passed
  <2>1. hits'[s] = hits[s] /\ HealedBefore(hits[s], handling)
    BY <1>1, <1>6 DEF RunsHealed
  <2> QED
    BY <1>5, <2>1
<1>7. CASE ~passed /\ Counts
  BY <1>1, <1>5, <1>7, CountedRuns
<1> QED
  BY <1>4, <1>6, <1>7 DEF Ends, TypeOK

LEMMA RunsKept ==
  ASSUME TypeOK, TypeOK', Clocks, HitsSpaced, HitsSpaced', RunsHealed, Next
  PROVE  RunsHealed'
<1>1. CASE Quiet
  BY <1>1 DEF Quiet, RunsHealed, Healed, HealedBefore, RunOf, Gap, incidentVars
<1>2. CASE TakeUp
  <2>1. /\ handling = None /\ passed' = FALSE
        /\ UNCHANGED <<hits, healed>>
    BY <1>2 DEF TakeUp
  <2>2. \A s \in Services, d \in Deployments : Healed(hits[s], d)
    BY <2>1, WatchAssumption DEF RunsHealed
  <2> QED
    BY <2>1, <2>2 DEF RunsHealed, Healed, RunOf, Gap
<1>3. CASE Passes
  <2>1. /\ handling' = handling /\ handling \in Deployments /\ passed' /\ UNCHANGED <<healed, started>>
        /\ handling # None /\ ~passed /\ Counts
    BY <1>3 DEF Passes, TypeOK
  <2>2. ASSUME NEW s \in Services, NEW d \in Deployments
        PROVE  IF d = handling THEN HealedBefore(hits'[s], d) ELSE Healed(hits'[s], d)
    BY <2>1, CountedRuns
  <2> QED
    BY <2>1, <2>2 DEF RunsHealed, Healed, HealedBefore, RunOf, Gap
<1>4. CASE Ends
  <2>1. /\ handling \in Deployments /\ handling # None /\ passed' = FALSE /\ now \in Nat
        /\ healed' = [healed EXCEPT ![handling] = now]
    BY <1>4 DEF Ends, Finish, TypeOK
  <2>2. ASSUME NEW s \in Services, NEW d \in Deployments, NEW i \in 1..Len(hits'[s]),
               RunOf(hits'[s], i, d)
        PROVE  healed'[d] # Never /\ healed'[d] - hits'[s][i].at >= Gap(Len(hits'[s]) - i)
    <3>1. CASE d = handling
      <4>1. healed'[d] = now
        BY <2>1, <3>1 DEF TypeOK
      <4> QED
        BY <1>4, <2>1, <2>2, <3>1, <4>1, EndedRuns DEF Never
    <3>2. CASE d # handling
      <4>1. healed'[d] = healed[d]
        BY <2>1, <3>2 DEF TypeOK
      <4>2. Healed(hits'[s], d)
        <5>1. CASE UNCHANGED hits
          BY <3>2, <5>1 DEF RunsHealed
        <5>2. CASE ~passed /\ Counts
          BY <2>1, <3>2, <5>2, CountedRuns
        <5> QED
          BY <1>4, <5>1, <5>2 DEF Ends
      <4> QED
        BY <2>2, <4>1, <4>2 DEF Healed
    <3> QED
      BY <3>1, <3>2
  <2> QED
    BY <2>1, <2>2 DEF RunsHealed, Healed, RunOf, Gap
<1>5. CASE Restart
  <2>1. \A s \in Services : hits'[s] = <<>>
    BY <1>5 DEF Restart
  <2> QED
    BY <2>1 DEF RunsHealed, Healed, HealedBefore
<1> QED
  BY <1>1, <1>2, <1>3, <1>4, <1>5, NextCases

-----------------------------------------------------------------------------
\* A failure that is recorded: the earlier ones of its deployment are older than the
\* cooldown of the heal that failed, and so than the window.
LEMMA FailureRecorded ==
  ASSUME TypeOK, Clocks, FailuresKnown, FailuresOfDistinctDeployments,
         handling # None, now > started,
         NEW new \in Recorded(failures, ReportNow, FailWindow)
  PROVE  /\ \A i \in 1..Len(new) : new[i].at <= now
         /\ \A i \in 1..Len(new) : new[i].of # handling =>
              healed[new[i].of] # Never /\ new[i].at <= healed[new[i].of]
         /\ \A i, j \in 1..Len(new) : i <= j => new[i].at <= new[j].at
         /\ \A i, j \in 1..Len(new) : new[i].of = new[j].of => i = j
<1>1. /\ ReportNow \in Report /\ ReportNow.at = now /\ ReportNow.of = handling
      /\ now \in Nat /\ started \in Nat /\ FailWindow \in Nat /\ HealCooldown \in Nat
      /\ FailWindow <= HealCooldown /\ handling \in Deployments
      /\ failures \in Seq(Report)
  BY ReportTyped, WatchAssumption, SpacingAssumption DEF ReportNow, TypeOK
<1>2. /\ new \in Seq(Report) /\ new # <<>> /\ new[Len(new)] = ReportNow
      /\ new[1].at >= now - FailWindow
      /\ \E stale \in 0..Len(failures) :
           /\ Len(new) = Len(failures) + 1 - stale
           /\ \A i \in 1..Len(failures) - stale : new[i] = failures[i + stale]
  <2>1. new \in Recorded(failures, ReportNow, FailWindow)
    OBVIOUS
  <2> HIDE DEF ReportNow
  <2> QED
    BY ONLY <1>1, <2>1, RecordedDeque
<1>3. PICK stale \in 0..Len(failures) :
        /\ Len(new) = Len(failures) + 1 - stale
        /\ \A i \in 1..Len(failures) - stale : new[i] = failures[i + stale]
  BY <1>2
<1>4. Len(new) \in Nat /\ Len(failures) \in Nat
  BY <1>1, <1>2
<1>5. \A i \in 1..Len(new) : i # Len(new) => i + stale \in 1..Len(failures) /\ new[i] = failures[i + stale]
  BY <1>3, <1>4
<1>6. \A i \in 1..Len(new) : new[i].at \in Nat /\ new[i].of \in Deployments
  <2>1. \A i \in 1..Len(new) : new[i] \in Report
    BY <1>2
  <2> QED
    BY <2>1 DEF Report
<1>7. \A i \in 1..Len(failures) :
        /\ healed[failures[i].of] # Never
        /\ failures[i].at <= healed[failures[i].of]
        /\ \A j \in 1..Len(failures) : i <= j => failures[i].at <= failures[j].at
        /\ \A j \in 1..Len(failures) : failures[i].of = failures[j].of => i = j
  BY <1>1 DEF FailuresKnown, FailuresOfDistinctDeployments
<1>8. \A d \in Deployments : healed[d] # Never => healed[d] \in Nat /\ healed[d] <= now
  BY DEF TypeOK, Clocks
<1>9. ASSUME NEW i \in 1..Len(new), i # Len(new)
      PROVE  /\ healed[new[i].of] # Never /\ new[i].at <= healed[new[i].of]
             /\ new[i].at <= now
  <2>1. new[i] = failures[i + stale] /\ i + stale \in 1..Len(failures)
    BY <1>5, <1>9
  <2>2. healed[new[i].of] # Never /\ new[i].at <= healed[new[i].of]
    BY <1>7, <2>1
  <2>3. healed[new[i].of] \in Nat /\ healed[new[i].of] <= now /\ new[i].at \in Nat
    BY <1>6, <1>8, <2>2
  <2> QED
    BY <1>1, <2>2, <2>3
<1>10. new[Len(new)].at = now /\ new[Len(new)].of = handling
  BY <1>1, <1>2
<1>11. \A i \in 1..Len(new) : new[i].at <= now
  BY <1>1, <1>9, <1>10
<1>12. ASSUME NEW i \in 1..Len(new), NEW j \in 1..Len(new), i <= j
       PROVE  new[i].at <= new[j].at
  <2>1. CASE j = Len(new)
    BY <1>10, <1>11, <2>1
  <2>2. CASE j # Len(new)
    <3>1. i # Len(new)
      BY <1>4, <1>12, <2>2
    <3>2. PICK k \in 1..Len(failures), m \in 1..Len(failures) :
            k = i + stale /\ m = j + stale
      BY <1>5, <2>2, <3>1
    <3>3. new[i] = failures[k] /\ new[j] = failures[m] /\ k <= m
      BY <1>4, <1>5, <1>12, <2>2, <3>1, <3>2
    <3> QED
      BY <1>7, <3>3
  <2> QED
    BY <2>1, <2>2
<1>13. ASSUME NEW i \in 1..Len(new), i # Len(new), new[i].of = handling
       PROVE  FALSE
  <2>1. healed[handling] # Never /\ new[i].at <= healed[handling]
    BY <1>9, <1>13
  <2>2. started - healed[handling] >= HealCooldown
    BY <2>1 DEF Clocks
  <2>3. 1 \in 1..Len(new) /\ 1 <= i
    BY <1>4
  <2>4. new[1].at <= new[i].at /\ new[1].at \in Nat /\ new[i].at \in Nat
    BY <1>6, <1>12, <2>3
  <2>5. healed[handling] \in Nat
    BY <1>1, <1>8, <2>1
  <2>6. started \in Nat /\ now > started
    BY <1>1
  <2>7. new[1].at >= now - FailWindow
    BY <1>2
  <2>8. /\ now \in Nat /\ started \in Nat /\ FailWindow \in Nat /\ HealCooldown \in Nat
        /\ FailWindow <= HealCooldown
    BY <1>1
  <2>9. new[1].at <= healed[handling]
    BY <2>1, <2>4, <2>5
  <2>10. healed[handling] + FailWindow < now
    BY <2>2, <2>5, <2>6, <2>8
  <2> QED
    BY <2>4, <2>5, <2>7, <2>8, <2>9, <2>10
<1>14. ASSUME NEW i \in 1..Len(new), NEW j \in 1..Len(new), new[i].of = new[j].of
       PROVE  i = j
  <2>1. CASE i = Len(new) \/ j = Len(new)
    BY <1>10, <1>13, <1>14, <2>1
  <2>2. CASE i # Len(new) /\ j # Len(new)
    <3>1. i + stale = j + stale
      BY <1>5, <1>7, <1>14, <2>2
    <3> QED
      BY <1>4, <3>1
  <2> QED
    BY <2>1, <2>2
<1> QED
  BY <1>9, <1>10, <1>11, <1>12, <1>14

LEMMA FailuresKept ==
  ASSUME TypeOK, TypeOK', Clocks, FailuresKnown, FailuresOfDistinctDeployments, Next
  PROVE  FailuresKnown' /\ FailuresOfDistinctDeployments'
<1>0. failures \in Seq(Report) /\ failures' \in Seq(Report)
  BY DEF TypeOK
<1>1. CASE failures' = <<>>
  BY <1>1 DEF FailuresKnown, FailuresOfDistinctDeployments
<1>2. CASE UNCHANGED <<failures, healed>>
  BY <1>2 DEF FailuresKnown, FailuresOfDistinctDeployments
<1>3. CASE Ends
  <2>1. /\ handling \in Deployments /\ handling # None /\ now \in Nat /\ now > started
        /\ healed' = [healed EXCEPT ![handling] = now]
        /\ failures' \in {<<>>, failures} \cup Recorded(failures, ReportNow, FailWindow)
    BY <1>3 DEF Ends, Finish, TypeOK
  <2>2. healed'[handling] = now /\ \A d \in Deployments : d # handling => healed'[d] = healed[d]
    BY <2>1 DEF TypeOK
  <2>3. \A i \in 1..Len(failures') : failures'[i].of \in Deployments
    <3>1. \A i \in 1..Len(failures') : failures'[i] \in Report
      BY <1>0
    <3> QED
      BY <3>1 DEF Report
  <2>4. /\ \A i \in 1..Len(failures') : failures'[i].at <= now
        /\ \A i \in 1..Len(failures') : failures'[i].of # handling =>
             healed[failures'[i].of] # Never /\ failures'[i].at <= healed[failures'[i].of]
        /\ \A i, j \in 1..Len(failures') : i <= j => failures'[i].at <= failures'[j].at
        /\ \A i, j \in 1..Len(failures') : failures'[i].of = failures'[j].of => i = j
    <3>1. CASE failures' = <<>>
      BY <3>1
    <3>2. CASE failures' = failures
      <4>1. \A i \in 1..Len(failures) : failures[i] \in Report
        BY <1>0
      <4>2. ASSUME NEW i \in 1..Len(failures)
            PROVE  /\ healed[failures[i].of] # Never /\ failures[i].at <= healed[failures[i].of]
                   /\ failures[i].at <= now
        <5>1. healed[failures[i].of] # Never /\ failures[i].at <= healed[failures[i].of]
          BY <1>0 DEF FailuresKnown
        <5>2. failures[i].of \in Deployments /\ failures[i].at \in Nat
          BY <4>1 DEF Report
        <5>3. healed[failures[i].of] \in Nat /\ healed[failures[i].of] <= now
          BY <5>1, <5>2 DEF Clocks, TypeOK
        <5> QED
          BY <2>1, <5>1, <5>2, <5>3
      <4> QED
        BY <1>0, <3>2, <4>2 DEF FailuresKnown, FailuresOfDistinctDeployments
    <3>3. CASE failures' \in Recorded(failures, ReportNow, FailWindow)
      BY <2>1, <3>3, FailureRecorded
    <3> QED
      BY <2>1, <3>1, <3>2, <3>3
  <2>5. ASSUME NEW i \in 1..Len(failures')
        PROVE  healed'[failures'[i].of] # Never /\ failures'[i].at <= healed'[failures'[i].of]
    <3>1. CASE failures'[i].of = handling
      BY <2>1, <2>2, <2>4, <3>1 DEF Never
    <3>2. CASE failures'[i].of # handling
      BY <2>2, <2>3, <2>4, <3>2
    <3> QED
      BY <3>1, <3>2
  <2> QED
    BY <1>0, <2>4, <2>5 DEF FailuresKnown, FailuresOfDistinctDeployments
<1> QED
  BY <1>1, <1>2, <1>3, NextCases DEF Quiet, TakeUp, Passes, Restart, breakerVars

LEMMA InvKept ==
  ASSUME Inv, [Next]_vars
  PROVE  Inv'
<1>1. CASE Next
  <2>1. TypeOK' /\ Clocks'
    BY <1>1, TypesKept, ClocksKept DEF Inv
  <2>2. HitsSpaced'
    BY <1>1, <2>1, SpacingKept DEF Inv
  <2>3. RunsHealed'
    BY <1>1, <2>1, <2>2, RunsKept DEF Inv
  <2>4. FailuresKnown' /\ FailuresOfDistinctDeployments'
    BY <1>1, <2>1, FailuresKept DEF Inv
  <2> QED
    BY <2>1, <2>2, <2>3, <2>4 DEF Inv
<1>2. CASE UNCHANGED vars
  BY <1>2 DEF Inv, vars, loopVars, incidentVars, breakerVars, TypeOK, Clocks, HitsSpaced,
     Spaced, Gap, RunsHealed, Healed, HealedBefore, RunOf, FailuresKnown,
     FailuresOfDistinctDeployments
<1> QED
  BY <1>1, <1>2

-----------------------------------------------------------------------------
\* In every state the loop, the gate's deques and the breaker's have their types.
THEOREM TypeCorrect == Spec => []TypeOK
<1>1. Init => Inv
  BY InitHolds
<1>2. Inv /\ [Next]_vars => Inv'
  BY InvKept
<1>3. Inv => TypeOK
  BY DEF Inv
<1> QED
  BY <1>1, <1>2, <1>3, PTL DEF Spec

\* One failing deployment never opens the circuit breaker, however often its heals
\* fail: a failure has left the window before the cooldown lets the next heal of
\* the same deployment begin (main.py:251-257, circuit_breaker.py:42-52).
THEOREM FailuresDiffer == Spec => []FailuresOfDistinctDeployments
<1>1. Init => Inv
  BY InitHolds
<1>2. Inv /\ [Next]_vars => Inv'
  BY InvKept
<1>3. Inv => FailuresOfDistinctDeployments
  BY DEF Inv
<1> QED
  BY <1>1, <1>2, <1>3, PTL DEF Spec

\* The heals of one deployment are at least a cooldown apart, for every number of
\* deployments and every length of a heal (main.py:248-257).
THEOREM HealsAreSpaced == Spec => HealsSpaced
<1>1. Init => Inv
  BY InitHolds
<1>2. Inv /\ [Next]_vars => Inv'
  BY InvKept
<1> DEFINE Apart == \A d \in Deployments : handling # d /\ handling' = d =>
                      healed[d] = Never \/ now - healed[d] >= HealCooldown
<1>3. Inv /\ [Next]_vars => [Apart]_vars
  <2> SUFFICES ASSUME Inv, Next, NEW d \in Deployments, handling # d, handling' = d
               PROVE  healed[d] = Never \/ now - healed[d] >= HealCooldown
    OBVIOUS
  <2>1. TypeOK /\ Clocks /\ d # None
    BY WatchAssumption DEF Inv
  <2>2. ~Quiet /\ ~Passes /\ ~Ends /\ ~Restart
    BY <2>1 DEF Quiet, Passes, Ends, Finish, Restart, incidentVars
  <2>3. TakeUp
    BY <2>1, <2>2, NextCases
  <2>4. TypeOK' /\ Clocks'
    BY <2>1, TypesKept, ClocksKept
  <2>5. started' = now /\ healed' = healed
    BY <2>3 DEF TakeUp
  <2> QED
    BY <2>1, <2>4, <2>5 DEF Clocks
<1> QED
  BY <1>1, <1>2, <1>3, PTL DEF Spec, HealsSpaced

\* A set with two of its members has more than one.
LEMMA TwoMembers ==
  ASSUME NEW S, IsFiniteSet(S), NEW a \in S, NEW b \in S, a # b
  PROVE  Cardinality(S) > 1
<1>1. IsFiniteSet({a, b}) /\ Cardinality({a, b}) = 2
  <2>1. IsFiniteSet({a}) /\ Cardinality({a}) = 1
    BY FS_Singleton
  <2>2. IsFiniteSet({a} \cup {b}) /\ Cardinality({a} \cup {b}) = 2
    <3> DEFINE T == {a}
    <3>1. IsFiniteSet(T) /\ Cardinality(T) = 1 /\ b \notin T
      BY <2>1
    <3> HIDE DEF T
    <3>2. /\ IsFiniteSet(T \cup {b})
          /\ Cardinality(T \cup {b}) = IF b \in T THEN Cardinality(T) ELSE Cardinality(T) + 1
      BY ONLY <3>1, FS_AddElement
    <3> QED
      BY <3>1, <3>2 DEF T
  <2>3. {a, b} = {a} \cup {b}
    OBVIOUS
  <2> QED
    BY <2>2, <2>3
<1>2. Cardinality({a, b}) <= Cardinality(S) /\ Cardinality(S) \in Nat
  BY <1>1, FS_Subset, FS_CardinalityType
<1> QED
  BY <1>1, <1>2

LEMMA FlapsDiffer ==
  ASSUME Inv
  PROVE  FlapNeedsTwoDeployments
<1> SUFFICES ASSUME NEW s \in Services, Len(hits[s]) >= FlapThreshold
             PROVE  Cardinality({hits[s][i].of : i \in DOMAIN hits[s]}) > 1
  BY DEF FlapNeedsTwoDeployments
<1> DEFINE h == hits[s]
           n == Len(h)
           S == {h[i].of : i \in DOMAIN h}
<1>1. h \in Seq(Report) /\ n \in Nat /\ n >= FlapThreshold /\ DOMAIN h = 1..n
  BY DEF Inv, TypeOK
<1>2. Spaced(h) /\ (h # <<>> => h[n].at - h[1].at <= FlapWindow)
  BY DEF Inv, HitsSpaced
<1> HIDE DEF h
<1>3. /\ FlapThreshold \in Nat \ {0} /\ FlapWindow \in Nat /\ HealCooldown \in Nat
      /\ n >= 1 /\ n \in 1..n /\ 1 \in 1..n
  BY <1>1, FlapAssumption, WatchAssumption
<1>4. \A i \in 1..n : h[i].of \in Deployments /\ h[i].at \in Nat
  <2>1. \A i \in 1..n : h[i] \in Report
    BY <1>1
  <2> QED
    BY <2>1 DEF Report
<1>5. IsFiniteSet(S)
  <2>1. S \subseteq Deployments
    BY <1>1, <1>4
  <2> QED
    BY <2>1, FS_Subset, WatchAssumption
<1>6. ASSUME \A i \in 1..n : h[i].of = h[n].of
      PROVE  FALSE
  <2>1. h[n].at - h[1].at >= Gap(n - 1) - 1
    BY <1>2, <1>3, <1>6 DEF Spaced
  <2>2. Gap(FlapThreshold - 1) <= Gap(n - 1)
    <3>1. n - 1 \in Nat /\ FlapThreshold - 1 \in Nat /\ FlapThreshold - 1 <= n - 1
      BY <1>1, <1>3
    <3> QED
      BY <3>1, GapGrows
  <2>3. FlapWindow < Gap(FlapThreshold - 1) - 1
    BY SpacingAssumption DEF Gap
  <2>4. Gap(FlapThreshold - 1) \in Nat /\ Gap(n - 1) \in Nat
    <3>1. n - 1 \in Nat /\ FlapThreshold - 1 \in Nat
      BY <1>1, <1>3
    <3> QED
      BY <3>1, GapGrows
  <2>5. h[n].at - h[1].at <= FlapWindow
    BY <1>1, <1>2, <1>3
  <2>6. h[n].at \in Nat /\ h[1].at \in Nat
    BY <1>3, <1>4
  <2> QED
    BY <1>3, <2>1, <2>2, <2>3, <2>4, <2>5, <2>6
<1>7. PICK i \in 1..n : h[i].of # h[n].of
  BY <1>6
<1>8. h[i].of \in S /\ h[n].of \in S
  BY <1>1, <1>3, <1>7
<1> HIDE DEF S
<1>9. Cardinality(S) > 1
  BY <1>5, <1>7, <1>8, TwoMembers
<1> QED
  BY <1>9 DEF S, h

\* However often one deployment is healed, it alone is never escalated as flapping:
\* the cooldown keeps FlapThreshold of its hits out of any one window
\* (pre_decide_gate.py:34-47, main.py:251-257).
THEOREM FlapsAcrossDeployments == Spec => []FlapNeedsTwoDeployments
<1>1. Init => Inv
  BY InitHolds
<1>2. Inv /\ [Next]_vars => Inv'
  BY InvKept
<1>3. Inv => FlapNeedsTwoDeployments
  BY FlapsDiffer
<1> QED
  BY <1>1, <1>2, <1>3, PTL DEF Spec

-----------------------------------------------------------------------------
\* How long a deployment can wait.  The poll in hand still has to deal with the
\* deployments of Todo, and each of them once: what has been healed since the poll
\* was read is in its cooldown.
Listed(list, d) == \E i \in DOMAIN list : list[i] = d

Todo == {d \in Deployments : Listed(events, d) /\ ~InCooldown(d)}

\* The time that n heals may take, and that those of the other deployments may.
Work(n) == n * MaxHandling
Others == Work(Cardinality(Deployments) - 1)

\* The latest end of the poll in hand.
PollEnd == (IF handling = None THEN now ELSE started) + Work(Cardinality(Todo))

\* The loop sleeps no longer than an interval, and what is handled is the first
\* event, taken up after the poll and not longer ago than a heal may take.
Timely ==
  /\ asleepUntil <= now + PollInterval
  /\ events = <<>> => now <= asleepUntil
  /\ handling # None =>
       /\ handling = Head(events) /\ ~InCooldown(handling)
       /\ pollNow <= started /\ now <= started + MaxHandling

\* A deployment that waits sees the next poll in time, by the end of its cooldown
\* if it has to; a poll that is to take it up ends in time.
Due(d) ==
  IF events = <<>> THEN asleepUntil <= since[d] + HealCooldown + PollInterval + Others
  ELSE IF d \in Todo THEN PollEnd - MaxHandling <= since[d] + PromptBound
  ELSE PollEnd <= since[d] + HealCooldown + Others

Waits ==
  \A d \in Deployments : since[d] # Never =>
    /\ d \in faulty /\ d # handling
    /\ cooldown[d] <= since[d] /\ since[d] <= now
    /\ Due(d)

PromptInv == Inv /\ Timely /\ Waits

LEMMA WorkOf ==
  ASSUME NEW T \in SUBSET Deployments, NEW d \in Deployments
  PROVE  /\ Cardinality(T) \in Nat /\ Work(Cardinality(T)) \in Nat
         /\ Others \in Nat /\ PromptBound = HealCooldown + PollInterval + Others + Others
         /\ d \notin T => Work(Cardinality(T)) <= Others
         /\ d \in T =>
              /\ Work(Cardinality(T)) >= MaxHandling
              /\ Work(Cardinality(T)) - MaxHandling <= Others
              /\ Work(Cardinality(T \ {d})) = Work(Cardinality(T)) - MaxHandling
         /\ T = {} => Work(Cardinality(T)) = 0
<1> DEFINE n == Cardinality(Deployments)
           k == Cardinality(T)
           M == MaxHandling
<1>1. IsFiniteSet(Deployments) /\ M \in Nat
  BY WatchAssumption
<1>2. IsFiniteSet(T) /\ k \in Nat /\ n \in Nat /\ k <= n
  BY <1>1, FS_Subset, FS_CardinalityType
<1>3. n - 1 \in Nat
  BY <1>1, <1>2, FS_EmptySet
<1>4. d \notin T => k <= n - 1
  <2>1. IsFiniteSet(Deployments \ {d}) /\ Cardinality(Deployments \ {d}) = n - 1
    BY <1>1, FS_RemoveElement
  <2>2. d \notin T => T \in SUBSET (Deployments \ {d})
    OBVIOUS
  <2>3. d \notin T => k <= Cardinality(Deployments \ {d})
    BY <2>1, <2>2, FS_Subset
  <2> QED
    BY <2>1, <2>3
<1>5. d \in T => k - 1 \in Nat /\ Cardinality(T \ {d}) = k - 1
  <2>1. d \in T => Cardinality(T) # 0 /\ Cardinality(T \ {d}) = Cardinality(T) - 1
    BY <1>2, FS_RemoveElement, FS_EmptySet
  <2> QED
    BY <1>2, <2>1
<1>6. T = {} => k = 0
  BY FS_EmptySet
<1> HIDE DEF n, k
<1>7. /\ k * M \in Nat /\ (n - 1) * M \in Nat
      /\ k <= n - 1 => k * M <= (n - 1) * M
      /\ k = 0 => k * M = 0
  BY <1>1, <1>2, <1>3, Multiples
<1>8. ASSUME d \in T
      PROVE  /\ (k - 1) * M = k * M - M /\ (k - 1) * M \in Nat
             /\ (k - 1) * M <= (n - 1) * M
  <2> DEFINE j == k - 1
  <2>1. j \in Nat /\ k = j + 1 /\ j <= n - 1
    BY <1>2, <1>5, <1>8
  <2> HIDE DEF j
  <2>2. (j + 1) * M = j * M + M /\ j * M \in Nat /\ j * M <= (n - 1) * M
    BY <1>1, <1>3, <2>1, Multiples
  <2> QED
    BY <1>1, <2>1, <2>2 DEF j
<1>9. 2 * (n - 1) * M = (n - 1) * M + (n - 1) * M
  BY <1>1, <1>3
<1> QED
  BY <1>1, <1>2, <1>4, <1>5, <1>6, <1>7, <1>8, <1>9, WatchAssumption
  DEF Work, Others, PromptBound, n, k, M

\* The first event of a list, and the others.
LEMMA ListedTail ==
  ASSUME NEW list \in Seq(Deployments), list # <<>>, NEW d
  PROVE  /\ Listed(list, Head(list))
         /\ Listed(list, d) <=> d = Head(list) \/ Listed(Tail(list), d)
<1>1. Len(list) \in Nat /\ Len(list) >= 1 /\ Head(list) = list[1]
  OBVIOUS
<1>2. /\ DOMAIN Tail(list) = 1..Len(list) - 1
      /\ \A i \in 1..Len(list) - 1 : Tail(list)[i] = list[i + 1]
  OBVIOUS
<1>3. ASSUME NEW i \in DOMAIN list, list[i] = d, i # 1
      PROVE  Listed(Tail(list), d)
  <2>1. i - 1 \in 1..Len(list) - 1 /\ (i - 1) + 1 = i
    BY <1>1, <1>3
  <2> QED
    BY <1>2, <1>3, <2>1 DEF Listed
<1>4. ASSUME NEW i \in DOMAIN Tail(list), Tail(list)[i] = d
      PROVE  Listed(list, d)
  <2>1. i + 1 \in DOMAIN list /\ list[i + 1] = d
    BY <1>1, <1>2, <1>4
  <2> QED
    BY <2>1 DEF Listed
<1>5. 1 \in DOMAIN list
  BY <1>1
<1> QED
  BY <1>1, <1>3, <1>4, <1>5 DEF Listed

\* A step that leaves the poll alone changes nothing for who waits.
LEMMA SameDue ==
  ASSUME UNCHANGED <<events, pollNow, cooldown, handling, started, asleepUntil>>,
         now' = now \/ handling # None \/ events = <<>>,
         NEW d \in Deployments, since'[d] = since[d]
  PROVE  Due(d)' <=> Due(d)
<1>1. Todo' = Todo
  BY DEF Todo, Listed, InCooldown
<1>2. events # <<>> => PollEnd' = PollEnd
  BY <1>1 DEF PollEnd, Work
<1> QED
  BY <1>1, <1>2 DEF Due, Others, Work, PromptBound

\* Who begins to wait now is in time, wherever the poll is.
LEMMA DueFromNow ==
  TypeOK /\ Clocks /\ Timely =>
    \A d \in Deployments : since[d] = now => Due(d)
<1> SUFFICES ASSUME TypeOK, Clocks, Timely, NEW d \in Deployments, since[d] = now
             PROVE  Due(d)
  OBVIOUS
<1> DEFINE base == IF handling = None THEN now ELSE started
           w == Work(Cardinality(Todo))
<1>1. /\ now \in Nat /\ base \in Nat /\ base <= now /\ asleepUntil \in Nat
      /\ asleepUntil <= now + PollInterval
  BY DEF TypeOK, Clocks, Timely
<1>2. /\ HealCooldown \in Nat /\ PollInterval \in Nat /\ MaxHandling \in Nat
  BY WatchAssumption
<1>3. PollEnd = base + w
  BY DEF PollEnd
<1>4. /\ w \in Nat /\ Others \in Nat
      /\ PromptBound = HealCooldown + PollInterval + Others + Others
      /\ d \notin Todo => w <= Others
      /\ d \in Todo => w - MaxHandling <= Others
  BY WorkOf DEF Todo
<1> HIDE DEF base, w
<1> QED
  BY <1>1, <1>2, <1>3, <1>4 DEF Due

LEMMA DueFromThen ==
  (TypeOK /\ Clocks /\ Timely => \A d \in Deployments : since[d] = now => Due(d))'
  BY DueFromNow, PTL

LEMMA InitPrompt ==
  ASSUME Init
  PROVE  Timely /\ Waits
<1>1. now = 0 /\ asleepUntil = 0 /\ handling = None
  BY DEF Init
<1>2. Timely
  BY <1>1, WatchAssumption DEF Timely
<1>3. Waits
  BY DEF Init, Waits
<1> QED
  BY <1>2, <1>3

-----------------------------------------------------------------------------
\* The steps that leave the poll alone.
LEMMA StillWaits ==
  ASSUME TypeOK, Clocks, Timely, Waits,
         UNCHANGED <<events, pollNow, cooldown, handling, started, asleepUntil>>,
         now' \in Nat, now' >= now,
         now' = now \/ handling # None \/ events = <<>>,
         NEW d \in Deployments, since'[d] = since[d], since[d] # Never, d \in faulty'
  PROVE  /\ d \in faulty' /\ d # handling'
         /\ cooldown'[d] <= since'[d] /\ since'[d] <= now'
         /\ Due(d)'
<1>1. Due(d)'
  BY SameDue DEF Waits
<1>2. since[d] \in Nat /\ now \in Nat /\ since[d] <= now
  BY DEF Waits, TypeOK
<1> QED
  BY <1>1, <1>2 DEF Waits

LEMMA TickPrompt ==
  ASSUME TypeOK, TypeOK', Clocks, Timely, Waits, Tick
  PROVE  Timely' /\ Waits'
<1>1. /\ now \in Nat /\ now' = now + 1 /\ asleepUntil \in Nat /\ started \in Nat
      /\ PollInterval \in Nat /\ MaxHandling \in Nat
      /\ UNCHANGED <<events, pollNow, cooldown, handling, started, asleepUntil, since, faulty>>
      /\ \/ events = <<>> /\ handling = None /\ now < asleepUntil
         \/ handling # None /\ now < started + MaxHandling
  BY WatchAssumption DEF Tick, TypeOK, Asleep, loopVars, incidentVars
<1>2. events # <<>> \/ now < asleepUntil
  BY <1>1 DEF Clocks
<1>3. handling # None => now < started + MaxHandling
  BY <1>1
<1>4. Timely'
  BY <1>1, <1>2, <1>3 DEF Timely, InCooldown
<1>5. Waits'
  <2>1. now' \in Nat /\ now' >= now /\ (handling # None \/ events = <<>>)
    BY <1>1
  <2>2. \A d \in Deployments : since[d] # Never => d \in faulty'
    BY <1>1 DEF Waits
  <2> QED
    BY <1>1, <2>1, <2>2, StillWaits DEF Waits
<1> QED
  BY <1>4, <1>5

LEMMA FaultPrompt ==
  ASSUME TypeOK, TypeOK', Clocks, Clocks', Timely, Waits,
         NEW e \in Deployments, FaultAppears(e) \/ FaultEnds(e)
  PROVE  Timely' /\ Waits'
<1>1. UNCHANGED <<now, events, pollNow, cooldown, handling, started, asleepUntil>>
  BY DEF FaultAppears, FaultEnds, loopVars, incidentVars
<1>2. now \in Nat /\ now' = now
  BY <1>1 DEF TypeOK
<1>3. Timely'
  BY <1>1 DEF Timely, InCooldown
<1>4. ASSUME NEW d \in Deployments, since'[d] # Never
      PROVE  /\ d \in faulty' /\ d # handling'
             /\ cooldown'[d] <= since'[d] /\ since'[d] <= now'
             /\ Due(d)'
  <2>1. CASE since'[d] = since[d]
    <3>1. d \in faulty
      BY <1>4, <2>1 DEF Waits
    <3>2. d # e \/ d \in faulty'
      BY <1>4, <3>1 DEF FaultAppears, FaultEnds, TypeOK
    <3>3. d \in faulty'
      BY <3>1, <3>2 DEF FaultAppears, FaultEnds
    <3> QED
      BY <1>1, <1>2, <1>4, <2>1, <3>3, StillWaits
  <2>2. CASE since'[d] # since[d]
    <3>1. d = e /\ FaultAppears(e) /\ handling # e /\ since'[d] = now
      BY <1>4, <2>2 DEF FaultAppears, FaultEnds, TypeOK
    <3>2. Due(d)'
      BY <1>2, <1>3, <3>1, DueFromThen
    <3>3. cooldown[d] <= now
      <4>1. /\ cooldown[d] = (IF healed[d] = Never THEN 0 ELSE healed[d]) /\ healed[d] <= now
        BY DEF Clocks
      <4> QED
        BY <1>2, <4>1
    <3> QED
      BY <1>1, <1>2, <3>1, <3>2, <3>3 DEF FaultAppears
  <2> QED
    BY <2>1, <2>2
<1> QED
  BY <1>3, <1>4 DEF Waits

\* A poll comes at its time, and names who is faulty.
LEMMA PollPrompt ==
  ASSUME TypeOK, TypeOK', Clocks, Timely, Waits, Poll
  PROVE  Timely' /\ Waits'
<1>1. /\ now \in Nat /\ now' = now /\ pollNow' = now /\ handling = None /\ handling' = None
      /\ events = <<>> /\ asleepUntil \in Nat /\ asleepUntil = now
      /\ UNCHANGED <<faulty, cooldown, since, started>>
      /\ PollInterval \in Nat /\ HealCooldown \in Nat /\ MaxHandling \in Nat
  BY WatchAssumption DEF Poll, TypeOK, Timely, incidentVars
<1>2. CASE faulty = {}
  <2>1. asleepUntil' = now + PollInterval
    BY <1>2 DEF Poll
  <2>2. Timely'
    BY <1>1, <2>1 DEF Timely
  <2>3. Waits'
    BY <1>1, <1>2 DEF Waits
  <2> QED
    BY <2>2, <2>3
<1>3. CASE faulty # {}
  <2>1. asleepUntil' = asleepUntil /\ events' \in Reports
    BY <1>3 DEF Poll
  <2>2. \A d \in faulty : Listed(events', d)
    BY <2>1 DEF Reports, Listed
  <2>3. events' # <<>>
    <3>1. PICK d \in faulty : Listed(events', d)
      BY <1>3, <2>2
    <3> QED
      BY <3>1 DEF Listed
  <2>4. Timely'
    BY <1>1, <2>1, <2>3 DEF Timely
  <2>5. ASSUME NEW d \in Deployments, since[d] # Never
        PROVE  Due(d)'
    <3> DEFINE w == Work(Cardinality(Todo'))
    <3>1. /\ since[d] \in Nat /\ cooldown[d] \in Nat /\ d \in faulty
          /\ cooldown[d] <= since[d] /\ since[d] <= now
          /\ now <= since[d] + HealCooldown + PollInterval + Others
      BY <1>1, <2>5 DEF Waits, Due, TypeOK
    <3>2. /\ w \in Nat /\ Others \in Nat
          /\ PromptBound = HealCooldown + PollInterval + Others + Others
          /\ d \notin Todo' => w <= Others
          /\ d \in Todo' => w - MaxHandling <= Others
      BY WorkOf DEF Todo
    <3>3. PollEnd' = now + w
      BY <1>1 DEF PollEnd, Work
    <3>4. d \notin Todo' => now - cooldown[d] < HealCooldown
      BY <1>1, <2>2, <3>1 DEF Todo, InCooldown
    <3> HIDE DEF w
    <3>5. d \in Todo' => PollEnd' - MaxHandling <= since[d] + PromptBound
      BY <1>1, <3>1, <3>2, <3>3
    <3>6. d \notin Todo' => PollEnd' <= since[d] + HealCooldown + Others
      BY <1>1, <3>1, <3>2, <3>3, <3>4
    <3> QED
      BY <1>1, <2>3, <3>5, <3>6 DEF Due, Others, Work, PromptBound
  <2>6. Waits'
    BY <1>1, <2>5, WatchAssumption DEF Waits
  <2> QED
    BY <2>4, <2>6
<1> QED
  BY <1>2, <1>3

-----------------------------------------------------------------------------
\* A skipped event is of a deployment that the poll does not take up.
LEMMA SkipPrompt ==
  ASSUME TypeOK, TypeOK', Clocks, Timely, Waits, SkipEvent
  PROVE  Timely' /\ Waits'
<1>1. /\ now \in Nat /\ now' = now /\ pollNow' = pollNow /\ handling = None /\ handling' = None
      /\ events # <<>> /\ events' = Tail(events) /\ events \in Seq(Deployments)
      /\ InCooldown(Head(events))
      /\ UNCHANGED <<faulty, cooldown, since, started>>
      /\ PollInterval \in Nat /\ HealCooldown \in Nat /\ MaxHandling \in Nat
      /\ asleepUntil \in Nat
      /\ asleepUntil' = IF events' = <<>> THEN now + PollInterval ELSE asleepUntil
  BY WatchAssumption DEF SkipEvent, NextEvent, TypeOK, incidentVars
<1>2. Todo' = Todo
  BY <1>1, ListedTail DEF Todo, InCooldown
<1>3. PollEnd' = PollEnd /\ PollEnd = now + Work(Cardinality(Todo))
  BY <1>1, <1>2 DEF PollEnd, Work
<1>4. Timely'
  BY <1>1 DEF Timely
<1>5. ASSUME NEW d \in Deployments, since[d] # Never
      PROVE  Due(d)'
  <2>1. CASE events' # <<>>
    BY <1>1, <1>2, <1>3, <1>5, <2>1 DEF Waits, Due, Others, Work, PromptBound
  <2>2. CASE events' = <<>>
    <3>1. Todo = {}
      BY <1>2, <2>2 DEF Todo, Listed
    <3>2. PollEnd = now /\ Others \in Nat
      <4>1. Todo \in SUBSET Deployments /\ Work(Cardinality(Todo)) = 0 /\ Others \in Nat
        BY <3>1, WorkOf
      <4> QED
        BY <1>1, <1>3, <4>1
    <3>3. now <= since[d] + HealCooldown + Others
      BY <1>1, <1>5, <3>1, <3>2 DEF Waits, Due
    <3>4. since[d] \in Nat
      BY <1>5 DEF TypeOK
    <3> QED
      BY <1>1, <2>2, <3>2, <3>3, <3>4 DEF Due, Others, Work
  <2> QED
    BY <2>1, <2>2
<1>6. Waits'
  BY <1>1, <1>5, WatchAssumption DEF Waits
<1> QED
  BY <1>4, <1>6

LEMMA TakeUpPrompt ==
  ASSUME TypeOK, TypeOK', Clocks, Timely, Waits, TakeUp
  PROVE  Timely' /\ Waits'
<1>1. /\ now \in Nat /\ now' = now /\ handling = None /\ started' = now
      /\ handling' = Head(events) /\ Head(events) \in Deployments
      /\ events # <<>> /\ ~InCooldown(Head(events)) /\ pollNow <= now
      /\ UNCHANGED <<events, faulty, cooldown, pollNow, asleepUntil>>
      /\ since' = [since EXCEPT ![Head(events)] = Never]
      /\ MaxHandling \in Nat
  BY WatchAssumption DEF TakeUp, TypeOK, Clocks, loopVars
<1>2. Todo' = Todo
  BY <1>1 DEF Todo, Listed, InCooldown
<1>3. PollEnd' = PollEnd
  BY <1>1, <1>2 DEF PollEnd, Work
<1>4. Timely'
  BY <1>1 DEF Timely, InCooldown
<1>5. ASSUME NEW d \in Deployments, since'[d] # Never
      PROVE  /\ d # Head(events) /\ since'[d] = since[d]
             /\ Due(d)'
  <2>1. d # Head(events) /\ since'[d] = since[d]
    BY <1>1, <1>5 DEF TypeOK
  <2>2. Due(d)
    BY <1>5, <2>1 DEF Waits
  <2> QED
    BY <1>1, <1>2, <1>3, <2>1, <2>2 DEF Due, Others, Work, PromptBound
<1>6. Waits'
  BY <1>1, <1>5 DEF Waits
<1> QED
  BY <1>4, <1>6

\* The end of a heal: who was healed is no longer to be taken up, and the time it
\* took was set aside for it.
LEMMA FinishPrompt ==
  ASSUME TypeOK, TypeOK', Clocks, Clocks', Timely, Waits, handling # None, Finish
  PROVE  Timely' /\ Waits'
<1>1. /\ now \in Nat /\ now' = now /\ pollNow' = pollNow /\ pollNow \in Nat
      /\ started \in Nat /\ started < now /\ now <= started + MaxHandling
      /\ pollNow < now /\ handling' = None /\ handling \in Deployments
      /\ events # <<>> /\ events' = Tail(events) /\ events \in Seq(Deployments)
      /\ handling = Head(events) /\ ~InCooldown(handling)
      /\ faulty' = faulty
      /\ cooldown' = [cooldown EXCEPT ![handling] = now]
      /\ since' = [since EXCEPT ![handling] = IF handling \in faulty THEN now ELSE Never]
      /\ PollInterval \in Nat /\ HealCooldown \in Nat /\ MaxHandling \in Nat
      /\ asleepUntil \in Nat
      /\ asleepUntil' = IF events' = <<>> THEN now + PollInterval ELSE asleepUntil
  BY WatchAssumption DEF Finish, NextEvent, Stamp, TypeOK, Timely, Clocks
<1>2. /\ cooldown'[handling] = now
      /\ \A d \in Deployments : d # handling =>
           cooldown'[d] = cooldown[d] /\ since'[d] = since[d]
  BY <1>1 DEF TypeOK
<1>3. Todo' = Todo \ {handling} /\ handling \in Todo
  <2>1. Listed(events, handling) /\ handling \in Todo
    BY <1>1, ListedTail DEF Todo
  <2>2. handling \notin Todo'
    BY <1>1, <1>2 DEF Todo, InCooldown
  <2>3. ASSUME NEW d \in Deployments, d # handling
        PROVE  d \in Todo' <=> d \in Todo
    <3>1. Listed(events, d) <=> Listed(events', d)
      BY <1>1, <2>3, ListedTail
    <3> QED
      BY <1>1, <1>2, <2>3, <3>1 DEF Todo, InCooldown
  <2> QED
    BY <2>1, <2>2, <2>3 DEF Todo
<1>4. /\ Work(Cardinality(Todo')) = Work(Cardinality(Todo)) - MaxHandling
      /\ Work(Cardinality(Todo)) \in Nat /\ Others \in Nat
      /\ Work(Cardinality(Todo)) >= MaxHandling
  <2>1. Todo \in SUBSET Deployments
    BY DEF Todo
  <2> QED
    BY <1>1, <1>3, <2>1, WorkOf
<1>5. /\ PollEnd = started + Work(Cardinality(Todo))
      /\ PollEnd' = now + Work(Cardinality(Todo'))
      /\ PollEnd' <= PollEnd /\ PollEnd \in Nat /\ PollEnd' \in Nat /\ now <= PollEnd
  <2>1. PollEnd = started + Work(Cardinality(Todo))
    BY DEF PollEnd
  <2>2. PollEnd' = now + Work(Cardinality(Todo'))
    BY <1>1 DEF PollEnd, Work
  <2> QED
    BY <1>1, <1>4, <2>1, <2>2
<1>6. Timely'
  BY <1>1 DEF Timely
<1>7. ASSUME NEW d \in Deployments, since'[d] # Never, d # handling
      PROVE  Due(d)'
  <2>1. since[d] # Never /\ since'[d] = since[d] /\ since[d] \in Nat /\ Due(d)
    BY <1>2, <1>7 DEF Waits, TypeOK
  <2>2. PromptBound = HealCooldown + PollInterval + Others + Others
    BY WorkOf
  <2>3. CASE events' # <<>> /\ d \in Todo
    <3>1. d \in Todo' /\ PollEnd - MaxHandling <= since[d] + PromptBound
      BY <1>1, <1>3, <1>7, <2>1, <2>3 DEF Due
    <3>2. PollEnd' - MaxHandling <= since[d] + PromptBound
      BY <1>1, <1>4, <1>5, <2>1, <2>2, <3>1
    <3> QED
      BY <2>1, <2>3, <3>1, <3>2 DEF Due, PromptBound
  <2>4. CASE d \notin Todo
    <3>1. d \notin Todo' /\ PollEnd <= since[d] + HealCooldown + Others
      BY <1>1, <1>3, <2>1, <2>4 DEF Due
    <3>2. PollEnd' <= since[d] + HealCooldown + Others
      BY <1>1, <1>4, <1>5, <2>1, <3>1
    <3>3. now + PollInterval <= since[d] + HealCooldown + PollInterval + Others
      <4>1. now <= since[d] + HealCooldown + Others
        BY <1>1, <1>4, <1>5, <2>1, <3>1
      <4> QED
        BY <1>1, <1>4, <2>1, <4>1
    <3> QED
      BY <1>1, <2>1, <3>1, <3>2, <3>3 DEF Due, Others, Work
  <2>5. CASE events' = <<>> /\ d \in Todo
    <3>1. d \in Todo'
      BY <1>3, <1>7, <2>5
    <3> QED
      BY <2>5, <3>1 DEF Todo, Listed
  <2> QED
    BY <2>3, <2>4, <2>5
<1>8. ASSUME NEW d \in Deployments, since'[d] # Never
      PROVE  /\ d \in faulty' /\ d # handling'
             /\ cooldown'[d] <= since'[d] /\ since'[d] <= now'
             /\ Due(d)'
  <2>1. CASE d = handling
    <3>1. since'[d] = now /\ d \in faulty
      BY <1>1, <1>8, <2>1 DEF TypeOK
    <3>2. Due(d)'
      BY <1>1, <1>6, <3>1, DueFromThen
    <3> QED
      BY <1>1, <1>2, <2>1, <3>1, <3>2, WatchAssumption
  <2>2. CASE d # handling
    BY <1>1, <1>2, <1>7, <1>8, <2>2, WatchAssumption DEF Waits
  <2> QED
    BY <2>1, <2>2
<1> QED
  BY <1>6, <1>8 DEF Waits

LEMMA RestartPrompt ==
  ASSUME TypeOK, TypeOK', Clocks', Restart
  PROVE  Timely' /\ Waits'
<1>1. /\ now \in Nat /\ now' = now /\ handling' = None /\ asleepUntil' = now
      /\ events' = <<>> /\ faulty' = faulty
      /\ since' = [d \in Deployments |-> IF d \in faulty THEN now ELSE Never]
      /\ cooldown' = [d \in Deployments |-> 0]
      /\ PollInterval \in Nat
  BY WatchAssumption DEF Restart, TypeOK
<1>2. Timely'
  BY <1>1 DEF Timely
<1>3. Waits'
  BY <1>1, <1>2, DueFromThen, WatchAssumption DEF Waits, Never
<1> QED
  BY <1>2, <1>3

\* The gate lets the incident through, which goes on.
LEMMA GoesOn ==
  ASSUME TypeOK, Clocks, Timely, Waits,
         UNCHANGED <<now, faulty, loopVars, handling, started, since>>
  PROVE  Timely' /\ Waits'
<1>1. UNCHANGED <<events, pollNow, cooldown, asleepUntil>>
  BY DEF loopVars
<1>2. now \in Nat /\ now' \in Nat /\ now' = now /\ now' >= now
  BY DEF TypeOK
<1>3. Timely'
  BY <1>1, <1>2 DEF Timely, InCooldown
<1>4. ASSUME NEW d \in Deployments, since'[d] # Never
      PROVE  /\ d \in faulty' /\ d # handling'
             /\ cooldown'[d] <= since'[d] /\ since'[d] <= now'
             /\ Due(d)'
  <2>1. d \in faulty' /\ since[d] # Never
    BY <1>4 DEF Waits
  <2> QED
    BY <1>1, <1>2, <2>1, StillWaits
<1> QED
  BY <1>3, <1>4 DEF Waits

LEMMA PromptKept ==
  ASSUME PromptInv, [Next]_vars
  PROVE  PromptInv'
<1>1. Inv' /\ TypeOK /\ TypeOK' /\ Clocks /\ Clocks' /\ Timely /\ Waits
  BY InvKept DEF PromptInv, Inv
<1>2. CASE UNCHANGED vars
  BY <1>1, <1>2, GoesOn DEF PromptInv, vars, incidentVars
<1>3. CASE Next
  <2>1. CASE Tick
    BY <1>1, <2>1, TickPrompt DEF PromptInv
  <2>2. ASSUME NEW d \in Deployments, FaultAppears(d) \/ FaultEnds(d)
        PROVE  PromptInv'
    BY <1>1, <2>2, FaultPrompt DEF PromptInv
  <2>3. CASE Poll
    BY <1>1, <2>3, PollPrompt DEF PromptInv
  <2>4. CASE SkipEvent
    BY <1>1, <2>4, SkipPrompt DEF PromptInv
  <2>5. CASE TakeUp
    BY <1>1, <2>5, TakeUpPrompt DEF PromptInv
  <2>6. CASE handling # None /\ Finish
    BY <1>1, <2>6, FinishPrompt DEF PromptInv
  <2>7. CASE Gate
    BY <1>1, <2>6, <2>7, GoesOn DEF Gate, PromptInv
  <2>8. CASE DetectFails \/ Discard \/ EndHeal
    BY <1>1, <2>6, <2>8 DEF DetectFails, Discard, EndHeal, Clocks
  <2>9. CASE Restart
    BY <1>1, <2>9, RestartPrompt DEF PromptInv
  <2> QED
    BY <1>3, <2>1, <2>2, <2>3, <2>4, <2>5, <2>7, <2>8, <2>9 DEF Next
<1> QED
  BY <1>2, <1>3

LEMMA WaitIsBounded ==
  ASSUME PromptInv
  PROVE  TakenUpPromptly
<1> SUFFICES ASSUME NEW d \in Deployments, since[d] # Never
             PROVE  now - since[d] <= PromptBound
  BY DEF TakenUpPromptly
<1> DEFINE w == Work(Cardinality(Todo))
<1>1. /\ TypeOK /\ Clocks /\ Timely /\ d # handling /\ Due(d)
      /\ since[d] \in Nat /\ now \in Nat /\ started \in Nat /\ asleepUntil \in Nat
      /\ PollInterval \in Nat /\ HealCooldown \in Nat /\ MaxHandling \in Nat
  BY WatchAssumption DEF PromptInv, Inv, Waits, TypeOK
<1>2. /\ w \in Nat /\ Others \in Nat
      /\ PromptBound = HealCooldown + PollInterval + Others + Others
      /\ d \in Todo => w >= MaxHandling
  BY WorkOf DEF Todo
<1>3. CASE events = <<>>
  <2>1. now <= asleepUntil /\ asleepUntil <= since[d] + HealCooldown + PollInterval + Others
    BY <1>1, <1>3 DEF Timely, Due
  <2> QED
    BY <1>1, <1>2, <2>1
<1>4. CASE events # <<>> /\ handling = None
  <2>1. PollEnd = now + w
    BY <1>4 DEF PollEnd
  <2>2. \/ d \in Todo /\ PollEnd - MaxHandling <= since[d] + PromptBound
        \/ PollEnd <= since[d] + HealCooldown + Others
    BY <1>1, <1>4 DEF Due
  <2> HIDE DEF w
  <2> QED
    BY <1>1, <1>2, <2>1, <2>2
<1>5. CASE events # <<>> /\ handling # None
  <2>1. PollEnd = started + w /\ now <= started + MaxHandling
    BY <1>1, <1>5 DEF PollEnd, Timely
  <2>2. \/ d \in Todo /\ PollEnd - MaxHandling <= since[d] + PromptBound
        \/ PollEnd <= since[d] + HealCooldown + Others
    BY <1>1, <1>5 DEF Due
  <2>3. handling \in Todo /\ handling \in Deployments
    BY <1>1, <1>5, ListedTail DEF Todo, Timely, TypeOK
  <2>4. w >= MaxHandling
    BY <2>3, WorkOf DEF Todo
  <2>5. d \in Todo => w >= MaxHandling + MaxHandling
    <3>1. ASSUME d \in Todo
          PROVE  w >= MaxHandling + MaxHandling
      <4> DEFINE T == Todo \ {handling}
      <4>1. T \in SUBSET Deployments /\ d \in T /\ Work(Cardinality(T)) = w - MaxHandling
        BY <1>1, <2>3, <3>1, WorkOf DEF Todo
      <4>2. Work(Cardinality(T)) >= MaxHandling
        BY <4>1, WorkOf
      <4> HIDE DEF T, w
      <4> QED
        BY <1>1, <1>2, <4>1, <4>2
    <3> QED
      BY <3>1
  <2> HIDE DEF w
  <2> QED
    BY <1>1, <1>2, <2>1, <2>2, <2>4, <2>5
<1> QED
  BY <1>3, <1>4, <1>5

\* A fault that lasts is taken up in bounded time, for any number of deployments and
\* whatever they do: the bounded form of the liveness of the watch loop
\* (main.py:247-260).
THEOREM WaitsAreBounded == Spec => []TakenUpPromptly
<1>1. Init => PromptInv
  BY InitHolds, InitPrompt DEF PromptInv
<1>2. PromptInv /\ [Next]_vars => PromptInv'
  BY PromptKept
<1>3. PromptInv => TakenUpPromptly
  BY WaitIsBounded
<1> QED
  BY <1>1, <1>2, <1>3, PTL DEF Spec
=============================================================================
