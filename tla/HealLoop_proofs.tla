--------------------------- MODULE HealLoop_proofs ---------------------------
(***************************************************************************)
(* Proofs about the self-heal loop, for any number of executors, alerts,   *)
(* correlation ids and namespaces, any plans and any set of faults.        *)
(***************************************************************************)
EXTENDS HealLoop, SafetyGate_proofs, SequenceTheorems

\* The steps at which a plan has been received, and has passed the gate.
Planned == {"safety", "snapshot", "dry_run", "patch", "commit", "verify", "rollback"}
Gated == {"snapshot", "dry_run", "patch", "commit"}

\* An executor handles one alert, which no other executor was given.
OneHandler ==
  /\ \A e \in Executors :
       /\ pc[e] = "idle" <=> alert[e] = None
       /\ alert[e] # None => outcome[alert[e]] # "new"
  /\ \A e, f \in Executors : alert[e] = alert[f] /\ alert[e] # None => e = f

\* What the steps find that come after a reply of the AI engine.
Informed ==
  \A e \in Executors :
    /\ pc[e] \in {"gate", "breaker"} \cup Healing => cid[e] \in Cids
    /\ pc[e] \in Planned => plan[e] \in Decisions
    /\ pc[e] \in Gated => Allows(plan[e], NsOf[alert[e]])
    /\ pc[e] = "commit" => plan[e].pattern # "urgent"

\* Whoever holds the key of an incident has not acted under it yet, and while
\* the key stands it is that of whoever acted under it.
LockGuards ==
  /\ \A e \in Executors : pc[e] \in Holding =>
       /\ owner[KeyOf(e)] = alert[e]
       /\ \A i \in DOMAIN executions : executions[i].guarded => executions[i].key # KeyOf(e)
  /\ \A i \in DOMAIN executions :
       executions[i].guarded => owner[executions[i].key] = executions[i].alert

\* What is verified has been done.
ActedOn(a) ==
  \E i \in DOMAIN executions :
    executions[i].alert = a /\ (executions[i].landed \/ executions[i].path = "deferred")

VerifiesItsAction ==
  \A e \in Executors : pc[e] = "verify" => ActedOn(alert[e])

IndInv ==
  /\ TypeOK
  /\ OneHandler
  /\ Informed
  /\ LockGuards
  /\ AtMostOnce
  /\ OwnTenantOnly
  /\ VerifiesItsAction
  /\ ResolvedMeansLanded

-----------------------------------------------------------------------------
LEMMA InitHolds ==
  ASSUME LoopAssumption, Init
  PROVE  IndInv
<1>1. TypeOK
  BY DEF Init, TypeOK, Steps, Outcomes
<1>2. OneHandler
  BY DEF Init, OneHandler
<1>3. Informed
  BY DEF Init, Informed, Healing, Holding, Planned, Gated
<1>4. LockGuards /\ AtMostOnce /\ OwnTenantOnly
  BY DEF Init, LockGuards, AtMostOnce, OwnTenantOnly, Holding
<1>5. VerifiesItsAction /\ ResolvedMeansLanded
  BY DEF Init, VerifiesItsAction, ResolvedMeansLanded
<1> QED
  BY <1>1, <1>2, <1>3, <1>4, <1>5 DEF IndInv

-----------------------------------------------------------------------------
\* The parts that the actions share.
LEMMA ReturnTyped ==
  ASSUME LoopAssumption, TypeOK, NEW e \in Executors, alert[e] \in Alerts,
         NEW out \in Outcomes, Return(e, out)
  PROVE  pc' \in [Executors -> Steps] /\ outcome' \in [Alerts -> Outcomes]
  BY DEF TypeOK, Return, Goto, Steps

LEMMA FailureTyped ==
  ASSUME LoopAssumption, TypeOK, NEW e \in Executors, RecordFailure(e)
  PROVE  fails' \in [Executors -> Nat] /\ open' \in [Executors -> BOOLEAN]
<1>1. PICK recent \in 0..fails[e] :
        /\ fails' = [fails EXCEPT ![e] = recent + 1]
        /\ open' = [open EXCEPT ![e] = @ \/ recent + 1 >= Threshold]
  BY DEF RecordFailure
<1>2. recent \in Nat
  BY <1>1 DEF TypeOK
<1>3. fails' \in [Executors -> Nat]
  BY <1>1, <1>2 DEF TypeOK
<1>4. (open[e] \/ recent + 1 >= Threshold) \in BOOLEAN
  OBVIOUS
<1>5. open' \in [Executors -> BOOLEAN]
  BY <1>1, <1>4, Zenon DEF TypeOK
<1> QED
  BY <1>3, <1>5

LEMMA AiErrorTyped ==
  ASSUME LoopAssumption, TypeOK, NEW e \in Executors, alert[e] \in Alerts,
         AiFailure(e) \/ AiConflict(e)
  PROVE  /\ pc' \in [Executors -> Steps] /\ outcome' \in [Alerts -> Outcomes]
         /\ fails' \in [Executors -> Nat] /\ open' \in [Executors -> BOOLEAN]
<1>1. "escalated" \in Outcomes /\ "duplicate_denied" \in Outcomes
  BY DEF Outcomes
<1>2. CASE AiFailure(e)
  BY <1>1, <1>2, ReturnTyped, FailureTyped DEF AiFailure
<1>3. CASE AiConflict(e)
  BY <1>1, <1>3, ReturnTyped DEF AiConflict, breakerVars, TypeOK
<1> QED
  BY <1>2, <1>3

LEMMA ExecuteFailedTyped ==
  ASSUME LoopAssumption, TypeOK, NEW e \in Executors, alert[e] \in Alerts,
         ExecuteFailed(e)
  PROVE  /\ pc' \in [Executors -> Steps] /\ outcome' \in [Alerts -> Outcomes]
         /\ fails' \in [Executors -> Nat] /\ open' \in [Executors -> BOOLEAN]
<1>1. "escalated" \in Outcomes
  BY DEF Outcomes
<1> QED
  BY <1>1, ReturnTyped, FailureTyped DEF ExecuteFailed

\* The first item of a plan that passed the gate is one to act on.
LEMMA FirstItem ==
  ASSUME LoopAssumption, NEW d \in Decisions, NEW ns, Allows(d, ns)
  PROVE  /\ d.pattern \in {"urgent", "deferred"}
         /\ 1 \in DOMAIN d.items
         /\ d.items[1].ns = ns
<1>1. d.pattern \in {"urgent", "deferred"} /\ d.items # <<>>
  BY PlanRowsSilent DEF Allows
<1>2. 1 \in DOMAIN d.items
  <2> DEFINE S == [action : STRING, ns : Namespaces \cup {Absent},
                   replicas : Int \cup {Absent}, memory : Int \cup {Absent}]
  <2>1. d.items \in Seq(S)
    BY DEF LoopAssumption
  <2> HIDE DEF S
  <2> QED
    BY <1>1, <2>1
<1>3. ~Denies(ItemRows(d, ns, d.items[1]))
  BY <1>2 DEF Allows, ItemsToTest, ItemDenied
<1> QED
  BY <1>1, <1>2, <1>3, ItemRowsSilent

LEMMA KeyTyped ==
  ASSUME NEW e \in Executors, cid[e] \in Cids
  PROVE  KeyOf(e) \in Keys
  BY DEF KeyOf, Keys, Table

LEMMA RecordTyped ==
  ASSUME LoopAssumption, TypeOK, Informed, NEW e \in Executors, pc[e] \in Gated,
         pc[e] \in Holding, alert[e] \in Alerts, NEW landed \in BOOLEAN, Record(e, landed)
  PROVE  executions' \in Seq(Execution)
<1> DEFINE x == [alert |-> alert[e], key |-> KeyOf(e), guarded |-> TRUE,
                 ns |-> plan[e].items[1].ns, path |-> plan[e].pattern, landed |-> landed]
<1>1. cid[e] \in Cids /\ plan[e] \in Decisions /\ Allows(plan[e], NsOf[alert[e]])
  BY DEF Informed, Healing, Gated, Planned
<1>2. NsOf[alert[e]] \in Namespaces
  BY DEF LoopAssumption
<1>3. x \in Execution
  BY <1>1, <1>2, FirstItem, KeyTyped DEF Execution
<1> HIDE DEF x
<1> QED
  BY <1>3 DEF Record, TypeOK, x

\* Of the history, Drop changes only whether the keys of the actions stand.
LEMMA DropHistory ==
  ASSUME TypeOK, NEW gone, Drop(gone)
  PROVE  /\ executions' \in Seq(Execution)
         /\ DOMAIN executions' = DOMAIN executions
         /\ \A i \in DOMAIN executions :
              /\ executions'[i].alert = executions[i].alert
              /\ executions'[i].key = executions[i].key
              /\ executions'[i].ns = executions[i].ns
              /\ executions'[i].path = executions[i].path
              /\ executions'[i].landed = executions[i].landed
              /\ executions'[i].guarded <=>
                   executions[i].guarded /\ executions[i].key \notin gone
<1> DEFINE y(i) == [executions[i] EXCEPT !.guarded = @ /\ executions[i].key \notin gone]
           n == Len(executions)
<1>1. executions \in Seq(Execution) /\ n \in Nat /\ DOMAIN executions = 1..n
  BY DEF TypeOK
<1>2. executions' = [i \in 1..n |-> y(i)]
  BY <1>1 DEF Drop
<1>3. ASSUME NEW i \in 1..n
      PROVE  /\ y(i) \in Execution
             /\ y(i).alert = executions[i].alert /\ y(i).key = executions[i].key
             /\ y(i).ns = executions[i].ns /\ y(i).path = executions[i].path
             /\ y(i).landed = executions[i].landed
             /\ y(i).guarded <=> executions[i].guarded /\ executions[i].key \notin gone
  <2>1. executions[i] \in Execution
    BY <1>1
  <2>2. (executions[i].guarded /\ executions[i].key \notin gone) \in BOOLEAN
    OBVIOUS
  <2> QED
    BY <2>1, <2>2 DEF Execution
<1> HIDE DEF y, n
<1>4. executions' \in [1..n -> Execution]
  BY <1>2, <1>3
<1> QED
  BY <1>1, <1>2, <1>3, <1>4

\* Every step keeps the types.
LEMMA TypesKept ==
  ASSUME LoopAssumption, TypeOK, OneHandler, Informed, Next
  PROVE  TypeOK'
<1> USE LoopAssumption
<1>0. ASSUME NEW e \in Executors, pc[e] # "idle"
      PROVE  alert[e] \in Alerts
  BY <1>0 DEF OneHandler, TypeOK
<1>1. ASSUME NEW e \in Executors, NEW a \in Alerts, ReceiveAlert(e, a)
      PROVE  TypeOK'
  <2>1. Append(buffer[e], a) \in Seq(Alerts)
    BY DEF TypeOK
  <2>2. buffer' \in [Executors -> Seq(Alerts)]
    BY <1>1, <2>1 DEF TypeOK, ReceiveAlert
  <2>3. /\ pc' \in [Executors -> Steps] /\ outcome' \in [Alerts -> Outcomes]
        /\ alert' \in [Executors -> Alerts \cup {None}]
    BY <1>1 DEF TypeOK, ReceiveAlert, Goto, Steps, Outcomes
  <2> QED
    BY <1>1, <2>2, <2>3 DEF TypeOK, ReceiveAlert, breakerVars
<1>2. ASSUME NEW e \in Executors, Detect(e)
      PROVE  TypeOK'
  <2>1. alert[e] \in Alerts
    BY <1>0, <1>2 DEF Detect
  <2>2. buffer[e] \in Seq(Alerts) /\ buffer[e] # <<>>
    BY <1>2 DEF Detect, TypeOK
  <2>3. Head(buffer[e]) \in Alerts /\ Tail(buffer[e]) \in Seq(Alerts)
    BY <2>2
  <2>4. Append(Tail(buffer[e]), Head(buffer[e])) \in Seq(Alerts)
    BY <2>3
  <2>5. buffer' \in [Executors -> Seq(Alerts)] /\ cid' \in [Executors -> Cids \cup {None}]
    <3>1. \/ buffer' = [buffer EXCEPT ![e] = Tail(buffer[e])]
          \/ buffer' = [buffer EXCEPT ![e] = Append(Tail(buffer[e]), Head(buffer[e]))]
      BY <1>2 DEF Detect, TypeOK
    <3>2. buffer' \in [Executors -> Seq(Alerts)]
      BY <2>3, <2>4, <3>1 DEF TypeOK
    <3>3. cid' = cid \/ cid' = [cid EXCEPT ![e] = CidOf[Head(buffer[e])]]
      BY <1>2 DEF Detect
    <3>4. CidOf[Head(buffer[e])] \in Cids
      BY <2>3 DEF LoopAssumption
    <3> QED
      BY <3>2, <3>3, <3>4 DEF TypeOK
  <2>6. /\ pc' \in [Executors -> Steps] /\ outcome' \in [Alerts -> Outcomes]
        /\ fails' \in [Executors -> Nat] /\ open' \in [Executors -> BOOLEAN]
    <3>1. CASE Goto(e, "gate") /\ UNCHANGED <<breakerVars, outcome>>
      BY <3>1 DEF Goto, TypeOK, Steps, breakerVars
    <3>2. CASE AiFailure(e) \/ AiConflict(e)
      BY <2>1, <3>2, AiErrorTyped
    <3> QED
      BY <1>2, <3>1, <3>2 DEF Detect
  <2> QED
    BY <1>2, <2>5, <2>6 DEF Detect, TypeOK
<1>3. ASSUME NEW e \in Executors, PreDecide(e)
      PROVE  TypeOK'
  <2>1. alert[e] \in Alerts /\ {"closed", "escalated"} \subseteq Outcomes
    BY <1>0, <1>3 DEF PreDecide, Outcomes
  <2>2. pc' \in [Executors -> Steps] /\ outcome' \in [Alerts -> Outcomes]
    <3>1. CASE Goto(e, "breaker") /\ UNCHANGED outcome
      BY <3>1 DEF Goto, TypeOK, Steps
    <3>2. CASE \E out \in {"closed", "escalated"} : Return(e, out)
      BY <2>1, <3>2, ReturnTyped
    <3> QED
      BY <1>3, <3>1, <3>2 DEF PreDecide
  <2> QED
    BY <1>3, <2>2 DEF PreDecide, TypeOK, breakerVars
<1>4. ASSUME NEW e \in Executors, CheckBreaker(e)
      PROVE  TypeOK'
  <2>1. alert[e] \in Alerts /\ "escalated" \in Outcomes
    BY <1>0, <1>4 DEF CheckBreaker, Outcomes
  <2>2. /\ pc' \in [Executors -> Steps] /\ outcome' \in [Alerts -> Outcomes]
        /\ fails' \in [Executors -> Nat] /\ open' \in [Executors -> BOOLEAN]
    <3>1. CASE Goto(e, "lock") /\ UNCHANGED <<breakerVars, outcome>>
      BY <3>1 DEF Goto, TypeOK, Steps, breakerVars
    <3>2. CASE /\ Goto(e, "lock") /\ UNCHANGED outcome
               /\ open' = [open EXCEPT ![e] = FALSE]
               /\ fails' = [fails EXCEPT ![e] = 0]
      BY <3>2 DEF Goto, TypeOK, Steps
    <3>3. CASE Return(e, "escalated") /\ UNCHANGED breakerVars
      BY <2>1, <3>3, ReturnTyped DEF breakerVars, TypeOK
    <3> QED
      BY <1>4, <3>1, <3>2, <3>3 DEF CheckBreaker
  <2> QED
    BY <1>4, <2>2 DEF CheckBreaker, TypeOK
<1>5. ASSUME NEW e \in Executors, AcquireLock(e)
      PROVE  TypeOK'
  <2>1. alert[e] \in Alerts /\ "duplicate_denied" \in Outcomes
    BY <1>0, <1>5 DEF AcquireLock, Outcomes
  <2>2. pc' \in [Executors -> Steps] /\ outcome' \in [Alerts -> Outcomes]
    <3>1. CASE Goto(e, "decide") /\ UNCHANGED outcome
      BY <3>1 DEF Goto, TypeOK, Steps
    <3>2. CASE Return(e, "duplicate_denied")
      BY <2>1, <3>2, ReturnTyped
    <3> QED
      BY <1>5, <3>1, <3>2 DEF AcquireLock
  <2>3. owner' \in [Keys -> Alerts \cup {None}]
    BY <1>5, <2>1 DEF AcquireLock, TypeOK
  <2> QED
    BY <1>5, <2>2, <2>3 DEF AcquireLock, TypeOK, breakerVars
<1>6. ASSUME NEW e \in Executors, Decide(e)
      PROVE  TypeOK'
  <2>1. alert[e] \in Alerts
    BY <1>0, <1>6 DEF Decide
  <2>2. /\ pc' \in [Executors -> Steps] /\ outcome' \in [Alerts -> Outcomes]
        /\ fails' \in [Executors -> Nat] /\ open' \in [Executors -> BOOLEAN]
    <3>1. CASE Goto(e, "safety") /\ UNCHANGED <<breakerVars, outcome>>
      BY <3>1 DEF Goto, TypeOK, Steps, breakerVars
    <3>2. CASE AiFailure(e) \/ AiConflict(e)
      BY <2>1, <3>2, AiErrorTyped
    <3> QED
      BY <1>6, <3>1, <3>2 DEF Decide
  <2>3. plan' \in [Executors -> Decisions \cup {None}]
    BY <1>6 DEF Decide, TypeOK
  <2> QED
    BY <1>6, <2>2, <2>3 DEF Decide, TypeOK
<1>7. ASSUME NEW e \in Executors, PassSafety(e)
      PROVE  TypeOK'
  <2>1. alert[e] \in Alerts /\ "escalated" \in Outcomes
    BY <1>0, <1>7 DEF PassSafety, Outcomes
  <2>2. pc' \in [Executors -> Steps] /\ outcome' \in [Alerts -> Outcomes]
    <3>1. CASE Goto(e, "snapshot") /\ UNCHANGED outcome
      BY <3>1 DEF Goto, TypeOK, Steps
    <3>2. CASE Return(e, "escalated")
      BY <2>1, <3>2, ReturnTyped
    <3> QED
      BY <1>7, <3>1, <3>2 DEF PassSafety
  <2> QED
    BY <1>7, <2>2 DEF PassSafety, TypeOK, breakerVars
<1>8. ASSUME NEW e \in Executors, CaptureSnapshot(e)
      PROVE  TypeOK'
  BY <1>8 DEF CaptureSnapshot, TypeOK, Goto, Steps, breakerVars
<1>9. ASSUME NEW e \in Executors, DryRun(e)
      PROVE  TypeOK'
  <2>1. alert[e] \in Alerts
    BY <1>0, <1>9 DEF DryRun
  <2>2. /\ pc' \in [Executors -> Steps] /\ outcome' \in [Alerts -> Outcomes]
        /\ fails' \in [Executors -> Nat] /\ open' \in [Executors -> BOOLEAN]
    <3>1. CASE Goto(e, "patch") /\ UNCHANGED <<breakerVars, outcome>>
      BY <3>1 DEF Goto, TypeOK, Steps, breakerVars
    <3>2. CASE ExecuteFailed(e)
      BY <2>1, <3>2, ExecuteFailedTyped
    <3> QED
      BY <1>9, <3>1, <3>2 DEF DryRun
  <2> QED
    BY <1>9, <2>2 DEF DryRun, TypeOK
<1>10. ASSUME NEW e \in Executors, Patch(e)
       PROVE  TypeOK'
  <2>1. alert[e] \in Alerts
    BY <1>0, <1>10 DEF Patch
  <2>2. /\ pc' \in [Executors -> Steps] /\ outcome' \in [Alerts -> Outcomes]
        /\ fails' \in [Executors -> Nat] /\ open' \in [Executors -> BOOLEAN]
    <3>1. CASE Goto(e, "verify") /\ UNCHANGED <<breakerVars, outcome>>
      BY <3>1 DEF Goto, TypeOK, Steps, breakerVars
    <3>2. CASE ExecuteFailed(e)
      BY <2>1, <3>2, ExecuteFailedTyped
    <3> QED
      BY <1>10, <3>1, <3>2 DEF Patch
  <2>3. PICK landed \in BOOLEAN : Record(e, landed)
    BY <1>10 DEF Patch
  <2>4. executions' \in Seq(Execution)
    BY <1>10, <2>1, <2>3, RecordTyped DEF Patch, Gated, Holding
  <2> QED
    BY <1>10, <2>2, <2>4 DEF Patch, TypeOK
<1>11. ASSUME NEW e \in Executors, Commit(e)
       PROVE  TypeOK'
  <2>1. alert[e] \in Alerts
    BY <1>0, <1>11 DEF Commit
  <2>2. executions' \in Seq(Execution)
    BY <1>11, <2>1, RecordTyped DEF Commit, Gated, Holding
  <2> QED
    BY <1>11, <2>2 DEF Commit, TypeOK, Goto, Steps, breakerVars
<1>12. ASSUME NEW e \in Executors, Verify(e)
       PROVE  TypeOK'
  <2>1. alert[e] \in Alerts /\ {"auto_resolved", "retry", "escalated"} \subseteq Outcomes
    BY <1>0, <1>12 DEF Verify, Outcomes
  <2>2. /\ pc' \in [Executors -> Steps] /\ outcome' \in [Alerts -> Outcomes]
        /\ fails' \in [Executors -> Nat] /\ open' \in [Executors -> BOOLEAN]
    <3>1. CASE /\ Return(e, "auto_resolved")
               /\ fails' = [fails EXCEPT ![e] = 0] /\ UNCHANGED open
      <4>1. fails' \in [Executors -> Nat] /\ open' \in [Executors -> BOOLEAN]
        BY <3>1 DEF TypeOK
      <4> QED
        BY <2>1, <3>1, <4>1, ReturnTyped
    <3>2. CASE Return(e, "retry") /\ UNCHANGED breakerVars
      BY <2>1, <3>2, ReturnTyped DEF breakerVars, TypeOK
    <3>3. CASE Goto(e, "rollback") /\ UNCHANGED <<breakerVars, outcome>>
      BY <3>3 DEF Goto, TypeOK, Steps, breakerVars
    <3>4. CASE AiFailure(e) \/ AiConflict(e)
      BY <2>1, <3>4, AiErrorTyped
    <3> QED
      BY <1>12, <3>1, <3>2, <3>3, <3>4 DEF Verify
  <2> QED
    BY <1>12, <2>2 DEF Verify, TypeOK
<1>13. ASSUME NEW e \in Executors, Rollback(e)
       PROVE  TypeOK'
  <2>1. alert[e] \in Alerts /\ "rolled_back" \in Outcomes
    BY <1>0, <1>13 DEF Rollback, Outcomes
  <2>2. pc' \in [Executors -> Steps] /\ outcome' \in [Alerts -> Outcomes]
    BY <1>13, <2>1, ReturnTyped DEF Rollback
  <2> QED
    BY <1>13, <2>1, <2>2 DEF Rollback, TypeOK, breakerVars
<1>14. ASSUME NEW e \in Executors, Flush(e)
       PROVE  TypeOK'
  <2>1. alert[e] \in Alerts
    BY <1>0, <1>14 DEF Flush
  <2> QED
    BY <1>14, <2>1 DEF Flush, Forget, Goto, TypeOK, Steps, breakerVars
<1>15. ASSUME NEW gone, Drop(gone)
       PROVE  owner' \in [Keys -> Alerts \cup {None}] /\ executions' \in Seq(Execution)
  BY <1>15, DropHistory DEF Drop, TypeOK
<1>16. ASSUME NEW e \in Executors, Restart(e), audited' \subseteq Alerts
       PROVE  TypeOK'
  <2>1. "died" \in Outcomes /\ "idle" \in Steps /\ <<>> \in Seq(Alerts)
    BY DEF Outcomes, Steps
  <2>2. /\ pc' \in [Executors -> Steps] /\ alert' \in [Executors -> Alerts \cup {None}]
        /\ cid' \in [Executors -> Cids \cup {None}]
        /\ plan' \in [Executors -> Decisions \cup {None}]
    BY <1>16, <2>1 DEF Restart, Forget, Goto, TypeOK
  <2>3. outcome' \in [Alerts -> Outcomes] /\ buffer' \in [Executors -> Seq(Alerts)]
    BY <1>16, <2>1 DEF Restart, TypeOK
  <2>4. fails' \in [Executors -> Nat] /\ open' \in [Executors -> BOOLEAN]
    BY <1>16 DEF Restart, TypeOK
  <2>5. owner' \in [Keys -> Alerts \cup {None}] /\ executions' \in Seq(Execution)
    BY <1>16, <1>15 DEF Restart
  <2> QED
    BY <1>16, <2>2, <2>3, <2>4, <2>5 DEF Restart, TypeOK
<1>17. ASSUME NEW e \in Executors, Crash(e) \/ Raise(e)
       PROVE  TypeOK'
  <2>1. pc[e] \in MayRaise => alert[e] \in Alerts
    BY <1>0 DEF MayRaise
  <2>2. Restart(e) /\ audited' \subseteq Alerts
    BY <1>17, <2>1 DEF Crash, Raise, TypeOK
  <2> QED
    BY <1>16, <2>2
<1>18. ASSUME NEW k \in Keys, Expire(k)
       PROVE  TypeOK'
  BY <1>15, <1>18 DEF Expire, TypeOK, breakerVars
<1> QED
  BY <1>1, <1>2, <1>3, <1>4, <1>5, <1>6, <1>7, <1>8, <1>9, <1>10, <1>11, <1>12,
     <1>13, <1>14, <1>17, <1>18 DEF Next, Step

-----------------------------------------------------------------------------
\* A step in the middle of an incident moves one executor on and keeps its alert.
Middle(e) ==
  \/ Detect(e) \/ PreDecide(e) \/ CheckBreaker(e) \/ AcquireLock(e) \/ Decide(e)
  \/ PassSafety(e) \/ CaptureSnapshot(e) \/ DryRun(e) \/ Patch(e) \/ Commit(e)
  \/ Verify(e) \/ Rollback(e)

Moves(e) ==
  /\ pc[e] \notin {"idle", "flush"}
  /\ \E s \in Steps \ {"idle"} : Goto(e, s)
  /\ UNCHANGED alert
  /\ \/ UNCHANGED outcome
     \/ \E out \in Outcomes \ {"new"} : outcome' = [outcome EXCEPT ![alert[e]] = out]

LEMMA MiddleMoves ==
  ASSUME NEW e, Middle(e)
  PROVE  Moves(e)
<1> USE DEF Moves, Return, Goto, Steps, Outcomes, AiFailure, AiConflict, ExecuteFailed
<1>1. CASE Detect(e)
  BY <1>1 DEF Detect
<1>2. CASE PreDecide(e)
  BY <1>2 DEF PreDecide
<1>3. CASE CheckBreaker(e)
  BY <1>3 DEF CheckBreaker
<1>4. CASE AcquireLock(e)
  BY <1>4 DEF AcquireLock
<1>5. CASE Decide(e)
  BY <1>5 DEF Decide
<1>6. CASE PassSafety(e)
  BY <1>6 DEF PassSafety
<1>7. CASE CaptureSnapshot(e)
  BY <1>7 DEF CaptureSnapshot
<1>8. CASE DryRun(e)
  BY <1>8 DEF DryRun
<1>9. CASE Patch(e)
  BY <1>9 DEF Patch
<1>10. CASE Commit(e)
  BY <1>10 DEF Commit
<1>11. CASE Verify(e)
  BY <1>11 DEF Verify
<1>12. CASE Rollback(e)
  BY <1>12 DEF Rollback
<1> QED
  BY <1>1, <1>2, <1>3, <1>4, <1>5, <1>6, <1>7, <1>8, <1>9, <1>10, <1>11, <1>12 DEF Middle

LEMMA NextCases ==
  ASSUME Next
  PROVE  \/ \E e \in Executors :
              \/ \E a \in Alerts : ReceiveAlert(e, a)
              \/ Middle(e)
              \/ Flush(e)
              \/ Restart(e)
         \/ \E k \in Keys : Expire(k)
  BY DEF Next, Step, Middle, Crash, Raise

\* An executor handles one alert and no two handle the same.
LEMMA OneHandlerKept ==
  ASSUME LoopAssumption, TypeOK, OneHandler, Next
  PROVE  OneHandler'
<1>1. ASSUME NEW e \in Executors, NEW a \in Alerts, ReceiveAlert(e, a)
      PROVE  OneHandler'
  BY <1>1 DEF OneHandler, ReceiveAlert, Goto, TypeOK, LoopAssumption
<1>2. ASSUME NEW e \in Executors, Middle(e)
      PROVE  OneHandler'
  <2>1. Moves(e)
    BY <1>2, MiddleMoves
  <2> QED
    BY <2>1 DEF OneHandler, Moves, Goto, TypeOK, LoopAssumption
<1>3. ASSUME NEW e \in Executors, Flush(e)
      PROVE  OneHandler'
  BY <1>3 DEF OneHandler, Flush, Forget, Goto, TypeOK
<1>4. ASSUME NEW e \in Executors, Restart(e)
      PROVE  OneHandler'
  BY <1>4 DEF OneHandler, Restart, Forget, Goto, TypeOK
<1>5. ASSUME NEW k \in Keys, Expire(k)
      PROVE  OneHandler'
  BY <1>5 DEF OneHandler, Expire
<1> QED
  BY <1>1, <1>2, <1>3, <1>4, <1>5, NextCases

-----------------------------------------------------------------------------
\* What an executor knows of its incident changes only by its own steps.
LEMMA OthersStay ==
  ASSUME TypeOK, NEW e \in Executors, NEW f \in Executors, f # e,
         \/ \E a \in Alerts : ReceiveAlert(e, a)
         \/ Middle(e) \/ Flush(e) \/ Restart(e)
  PROVE  pc'[f] = pc[f] /\ alert'[f] = alert[f] /\ cid'[f] = cid[f] /\ plan'[f] = plan[f]
<1>1. ASSUME NEW a \in Alerts, ReceiveAlert(e, a)
      PROVE  pc'[f] = pc[f] /\ alert'[f] = alert[f] /\ cid'[f] = cid[f] /\ plan'[f] = plan[f]
  BY <1>1 DEF ReceiveAlert, Goto, TypeOK
<1>2. CASE Middle(e)
  <2>1. pc'[f] = pc[f] /\ alert'[f] = alert[f]
    BY <1>2, MiddleMoves DEF Moves, Goto, TypeOK
  <2>2. cid'[f] = cid[f]
    <3>1. CASE Detect(e)
      <4>1. \/ cid' = cid
            \/ cid' = [cid EXCEPT ![e] = CidOf[Head(buffer[e])]]
        BY <3>1 DEF Detect
      <4> QED
        BY <4>1 DEF TypeOK
    <3> QED
      BY <1>2, <3>1 DEF Middle, PreDecide, CheckBreaker, AcquireLock, Decide,
         PassSafety, CaptureSnapshot, DryRun, Patch, Commit, Verify, Rollback
  <2>3. plan'[f] = plan[f]
    BY <1>2 DEF TypeOK, Middle, Detect, PreDecide, CheckBreaker, AcquireLock, Decide,
       PassSafety, CaptureSnapshot, DryRun, Patch, Commit, Verify, Rollback
  <2> QED
    BY <2>1, <2>2, <2>3
<1>3. CASE Flush(e)
  BY <1>3 DEF Flush, Forget, Goto, TypeOK
<1>4. CASE Restart(e)
  BY <1>4 DEF Restart, Forget, Goto, TypeOK
<1> QED
  BY <1>1, <1>2, <1>3, <1>4

\* Every step leaves an executor with what the next one needs.
LEMMA InformedKept ==
  ASSUME LoopAssumption, TypeOK, Informed, Next
  PROVE  Informed'
<1> DEFINE Knows(f) ==
      /\ pc[f] \in {"gate", "breaker"} \cup Healing => cid[f] \in Cids
      /\ pc[f] \in Planned => plan[f] \in Decisions
      /\ pc[f] \in Gated => Allows(plan[f], NsOf[alert[f]])
      /\ pc[f] = "commit" => plan[f].pattern # "urgent"
<1>0. ASSUME NEW k \in Keys, Expire(k)
      PROVE  Informed'
  BY <1>0 DEF Informed, Expire
<1>1. SUFFICES ASSUME NEW e \in Executors, NEW f \in Executors,
                      \/ \E a \in Alerts : ReceiveAlert(e, a)
                      \/ Middle(e) \/ Flush(e) \/ Restart(e)
               PROVE  Knows(f)'
  BY <1>0, NextCases DEF Informed
<1>2. Knows(f)
  BY DEF Informed
<1>3. CASE f # e
  BY <1>1, <1>2, <1>3, OthersStay
<1>4. CASE f = e
  <2> USE DEF Goto, Return, TypeOK, Healing, Holding, Planned, Gated
  <2>1. ASSUME NEW a \in Alerts, ReceiveAlert(e, a)
        PROVE  Knows(e)'
    BY <2>1 DEF ReceiveAlert
  <2>2. CASE Flush(e)
    BY <1>4, <2>2 DEF Flush, Forget
  <2>3. CASE Restart(e)
    BY <1>4, <2>3 DEF Restart, Forget
  <2>4. CASE Detect(e)
    <3>1. CASE pc'[e] = "gate"
      <4>1. Head(buffer[e]) \in Alerts
        BY <2>4 DEF Detect
      <4>2. cid' = [cid EXCEPT ![e] = CidOf[Head(buffer[e])]]
        BY <2>4, <3>1 DEF Detect, AiFailure, AiConflict
      <4>3. cid'[e] \in Cids
        BY <4>1, <4>2 DEF LoopAssumption
      <4> QED
        BY <1>4, <3>1, <4>3
    <3>2. CASE pc'[e] = "flush"
      BY <1>4, <3>2
    <3> QED
      BY <2>4, <3>1, <3>2 DEF Detect, AiFailure, AiConflict
  <2>5. CASE PreDecide(e)
    BY <1>2, <1>4, <2>5 DEF PreDecide
  <2>6. CASE CheckBreaker(e)
    BY <1>2, <1>4, <2>6 DEF CheckBreaker
  <2>7. CASE AcquireLock(e)
    BY <1>2, <1>4, <2>7 DEF AcquireLock
  <2>8. CASE Decide(e)
    BY <1>2, <1>4, <2>8 DEF Decide, AiFailure, AiConflict
  <2>9. CASE PassSafety(e)
    BY <1>2, <1>4, <2>9 DEF PassSafety
  <2>10. CASE CaptureSnapshot(e)
    BY <1>2, <1>4, <2>10 DEF CaptureSnapshot
  <2>11. CASE DryRun(e)
    BY <1>2, <1>4, <2>11 DEF DryRun, ExecuteFailed
  <2>12. CASE Patch(e)
    BY <1>2, <1>4, <2>12 DEF Patch, ExecuteFailed
  <2>13. CASE Commit(e)
    BY <1>2, <1>4, <2>13 DEF Commit
  <2>14. CASE Verify(e)
    BY <1>2, <1>4, <2>14 DEF Verify, AiFailure, AiConflict
  <2>15. CASE Rollback(e)
    BY <1>2, <1>4, <2>15 DEF Rollback
  <2> QED
    BY <1>1, <1>4, <2>1, <2>2, <2>3, <2>4, <2>5, <2>6, <2>7, <2>8, <2>9, <2>10,
       <2>11, <2>12, <2>13, <2>14, <2>15 DEF Middle
<1> QED
  BY <1>3, <1>4

-----------------------------------------------------------------------------
\* The four ways in which a step treats the lock table and the executions.
Untouched == UNCHANGED <<owner, executions>>

Locks(e) ==
  /\ pc[e] = "lock" /\ owner[KeyOf(e)] = None
  /\ owner' = [owner EXCEPT ![KeyOf(e)] = alert[e]]
  /\ UNCHANGED executions

Acts(e) ==
  /\ pc[e] \in {"patch", "commit"}
  /\ pc'[e] \notin Holding
  /\ \E landed \in BOOLEAN : Record(e, landed)
  /\ UNCHANGED owner

LEMMA MiddleActs ==
  ASSUME TypeOK, NEW e \in Executors, Middle(e)
  PROVE  \/ Untouched /\ (pc'[e] \in Holding => pc[e] \in Holding)
         \/ Locks(e)
         \/ Acts(e)
<1> USE DEF Untouched, Goto, Return, Holding, TypeOK
<1>1. CASE Detect(e)
  <2>1. Goto(e, "gate") \/ Goto(e, "flush")
    BY <1>1 DEF Detect, AiFailure, AiConflict
  <2>2. Untouched
    BY <1>1 DEF Detect
  <2> QED
    BY <2>1, <2>2
<1>2. CASE PreDecide(e)
  BY <1>2 DEF PreDecide
<1>3. CASE CheckBreaker(e)
  BY <1>3 DEF CheckBreaker
<1>4. CASE AcquireLock(e)
  BY <1>4 DEF AcquireLock, Locks
<1>5. CASE Decide(e)
  BY <1>5 DEF Decide
<1>6. CASE PassSafety(e)
  BY <1>6 DEF PassSafety
<1>7. CASE CaptureSnapshot(e)
  BY <1>7 DEF CaptureSnapshot
<1>8. CASE DryRun(e)
  BY <1>8 DEF DryRun
<1>9. CASE Patch(e)
  BY <1>9 DEF Patch, Acts, ExecuteFailed
<1>10. CASE Commit(e)
  BY <1>10 DEF Commit, Acts
<1>11. CASE Verify(e)
  BY <1>11 DEF Verify, AiFailure, AiConflict
<1>12. CASE Rollback(e)
  BY <1>12 DEF Rollback
<1> QED
  BY <1>1, <1>2, <1>3, <1>4, <1>5, <1>6, <1>7, <1>8, <1>9, <1>10, <1>11, <1>12 DEF Middle

\* A key that leaves its table is not that of an executor about to act.
LEMMA DropKeepsGuards ==
  ASSUME LoopAssumption, TypeOK, Informed, LockGuards, NEW gone, Drop(gone),
         \A f \in Executors : pc'[f] \in Holding =>
           /\ pc[f] \in Holding /\ KeyOf(f) \notin gone
           /\ alert'[f] = alert[f] /\ cid'[f] = cid[f]
  PROVE  LockGuards'
<1>1. ASSUME NEW f \in Executors, pc'[f] \in Holding
      PROVE  /\ owner'[KeyOf(f)'] = alert'[f]
             /\ \A i \in DOMAIN executions' :
                  executions'[i].guarded => executions'[i].key # KeyOf(f)'
  <2>1. KeyOf(f) \in Keys /\ KeyOf(f)' = KeyOf(f) /\ KeyOf(f) \notin gone
    BY <1>1, KeyTyped DEF Informed, Healing, KeyOf
  <2>2. owner'[KeyOf(f)] = owner[KeyOf(f)]
    BY <2>1 DEF Drop
  <2> QED
    BY <1>1, <2>1, <2>2, DropHistory DEF LockGuards
<1>2. ASSUME NEW i \in DOMAIN executions', executions'[i].guarded
      PROVE  owner'[executions'[i].key] = executions'[i].alert
  <2>1. /\ i \in DOMAIN executions /\ executions[i].guarded
        /\ executions'[i].key = executions[i].key /\ executions[i].key \notin gone
        /\ executions'[i].alert = executions[i].alert
    BY <1>2, DropHistory
  <2>2. executions[i].key \in Keys
    <3>1. executions[i] \in Execution
      BY <2>1 DEF TypeOK
    <3> QED
      BY <3>1 DEF Execution
  <2> QED
    BY <2>1, <2>2 DEF Drop, LockGuards
<1> QED
  BY <1>1, <1>2 DEF LockGuards

LEMMA LockGuardsKept ==
  ASSUME LoopAssumption, TypeOK, OneHandler, Informed, LockGuards, Next, TypeOK'
  PROVE  LockGuards'
<1> DEFINE Guarded(f) ==
      /\ owner[KeyOf(f)] = alert[f]
      /\ \A i \in DOMAIN executions : executions[i].guarded => executions[i].key # KeyOf(f)
<1>1. ASSUME NEW k \in Keys, Expire(k)
      PROVE  LockGuards'
  <2>1. \A f \in Executors : pc'[f] \in Holding =>
          /\ pc[f] \in Holding /\ KeyOf(f) \notin {k}
          /\ alert'[f] = alert[f] /\ cid'[f] = cid[f]
    BY <1>1 DEF Expire
  <2> QED
    BY <1>1, <2>1, DropKeepsGuards DEF Expire
<1>2. SUFFICES ASSUME NEW e \in Executors,
                      \/ \E a \in Alerts : ReceiveAlert(e, a)
                      \/ Middle(e) \/ Flush(e) \/ Restart(e)
               PROVE  LockGuards'
  BY <1>1, NextCases
<1>3. \A f \in Executors : f # e =>
        pc'[f] = pc[f] /\ alert'[f] = alert[f] /\ cid'[f] = cid[f] /\ KeyOf(f)' = KeyOf(f)
  BY <1>2, OthersStay DEF KeyOf
<1>4. CASE Untouched /\ pc'[e] \notin Holding
  BY <1>3, <1>4 DEF Untouched, LockGuards
<1>5. CASE Middle(e)
  <2>1. alert' = alert /\ alert[e] \in Alerts
    BY <1>5, MiddleMoves DEF Moves, OneHandler, TypeOK
  <2>2. pc[e] # "detect" => cid' = cid /\ KeyOf(e)' = KeyOf(e)
    BY <1>5 DEF Middle, Detect, PreDecide, CheckBreaker, AcquireLock, Decide,
       PassSafety, CaptureSnapshot, DryRun, Patch, Commit, Verify, Rollback, KeyOf
  <2>3. CASE Untouched /\ pc[e] \in Holding
    BY <1>3, <2>1, <2>2, <2>3 DEF Untouched, LockGuards, Holding
  <2>4. CASE Locks(e)
    <3>1. KeyOf(e) \in Keys /\ KeyOf(e)' = KeyOf(e)
      BY <2>2, <2>4, KeyTyped DEF Locks, Informed, Healing
    <3>2. \A k \in Keys : k # KeyOf(e) => owner'[k] = owner[k]
      BY <2>4 DEF Locks, TypeOK
    <3>3. owner'[KeyOf(e)] = alert[e] /\ executions' = executions
      BY <2>4, <3>1 DEF Locks, TypeOK
    <3>4. \A i \in DOMAIN executions : executions[i].guarded =>
            /\ executions[i].key \in Keys /\ executions[i].alert # None
            /\ owner[executions[i].key] = executions[i].alert
      <4>1. ASSUME NEW i \in DOMAIN executions
            PROVE  executions[i] \in Execution
        BY <4>1 DEF TypeOK
      <4> QED
        BY <4>1 DEF Execution, LockGuards, LoopAssumption
    <3>5. \A i \in DOMAIN executions : executions[i].guarded => executions[i].key # KeyOf(e)
      BY <2>4, <3>4 DEF Locks
    <3>6. ASSUME NEW f \in Executors, pc'[f] \in Holding
          PROVE  Guarded(f)'
      <4>1. CASE f = e
        BY <2>1, <3>1, <3>3, <3>5, <4>1
      <4>2. CASE f # e
        <5>1. pc[f] \in Holding
          BY <1>3, <3>6, <4>2
        <5>2. KeyOf(f) \in Keys /\ alert[f] \in Alerts /\ owner[KeyOf(f)] = alert[f]
          BY <5>1, KeyTyped DEF Informed, Healing, Holding, OneHandler, LockGuards, TypeOK
        <5>3. KeyOf(f) # KeyOf(e)
          BY <2>4, <5>2 DEF Locks, LoopAssumption
        <5> QED
          BY <1>3, <3>1, <3>2, <3>3, <4>2, <5>1, <5>2, <5>3 DEF LockGuards
      <4> QED
        BY <4>1, <4>2
    <3>7. \A i \in DOMAIN executions' :
            executions'[i].guarded => owner'[executions'[i].key] = executions'[i].alert
      BY <3>2, <3>3, <3>4, <3>5
    <3> QED
      BY <3>6, <3>7 DEF LockGuards
  <2>5. CASE Acts(e)
    <3>1. /\ pc[e] \in Holding /\ KeyOf(e)' = KeyOf(e) /\ owner' = owner
          /\ owner[KeyOf(e)] = alert[e]
      BY <2>2, <2>5 DEF Acts, Holding, LockGuards
    <3>2. ASSUME NEW i \in DOMAIN executions'
          PROVE  \/ i \in DOMAIN executions /\ executions'[i] = executions[i]
                 \/ executions'[i].key = KeyOf(e) /\ executions'[i].alert = alert[e]
      <4> DEFINE x(landed) == [alert |-> alert[e], key |-> KeyOf(e), guarded |-> TRUE,
                    ns |-> plan[e].items[1].ns, path |-> plan[e].pattern, landed |-> landed]
      <4>1. PICK landed \in BOOLEAN : executions' = Append(executions, x(landed))
        BY <2>5 DEF Acts, Record
      <4>2. executions \in Seq(Execution)
        BY DEF TypeOK
      <4>3. x(landed).key = KeyOf(e) /\ x(landed).alert = alert[e]
        OBVIOUS
      <4> HIDE DEF x
      <4> QED
        BY <3>2, <4>1, <4>2, <4>3
    <3>3. ASSUME NEW f \in Executors, pc'[f] \in Holding
          PROVE  Guarded(f)'
      <4>1. f # e /\ pc[f] \in Holding
        BY <1>3, <2>5, <3>3 DEF Acts
      <4>2. owner[KeyOf(f)] = alert[f] /\ alert[f] \in Alerts
        BY <4>1 DEF LockGuards, Holding, OneHandler, TypeOK
      <4>3. KeyOf(f) # KeyOf(e)
        BY <3>1, <4>1, <4>2 DEF OneHandler, LoopAssumption
      <4> QED
        BY <1>3, <2>1, <3>1, <3>2, <4>1, <4>2, <4>3 DEF LockGuards
    <3>4. \A i \in DOMAIN executions' :
            executions'[i].guarded => owner'[executions'[i].key] = executions'[i].alert
      BY <3>1, <3>2 DEF LockGuards
    <3> QED
      BY <3>3, <3>4 DEF LockGuards
  <2> QED
    BY <1>4, <1>5, <2>3, <2>4, <2>5, MiddleActs
<1>6. ASSUME NEW a \in Alerts, ReceiveAlert(e, a)
      PROVE  Untouched /\ pc'[e] \notin Holding
  BY <1>6 DEF ReceiveAlert, Goto, Holding, Untouched, TypeOK
<1>7. CASE Flush(e)
  BY <1>4, <1>7 DEF Flush, Forget, Goto, Holding, Untouched, TypeOK
<1>8. CASE Restart(e)
  <2>1. pc'[e] \notin Holding
    BY <1>8 DEF Restart, Forget, Goto, Holding, TypeOK
  <2>2. \A f \in Executors : f # e => KeyOf(f) \notin {e} \X Cids
    BY DEF KeyOf, Table, LoopAssumption
  <2> QED
    BY <1>3, <1>8, <2>1, <2>2, DropKeepsGuards DEF Restart
<1> QED
  BY <1>2, <1>4, <1>5, <1>6, <1>7, <1>8

-----------------------------------------------------------------------------
\* How a step extends the history of executions: by x, in the namespace of its
\* alert, and under a key that guards no other action.
Follows(x) ==
  /\ x.ns = NsOf[x.alert]
  /\ \A i \in DOMAIN executions : executions[i].guarded => executions[i].key # x.key
  /\ executions' = Append(executions, x)

LEMMA HistoryGrows ==
  ASSUME LoopAssumption, TypeOK, Informed, LockGuards, Next
  PROVE  \/ UNCHANGED executions
         \/ \E gone : Drop(gone)
         \/ \E x : Follows(x)
<1>1. SUFFICES ASSUME NEW e \in Executors,
                      \/ \E a \in Alerts : ReceiveAlert(e, a)
                      \/ Middle(e) \/ Flush(e) \/ Restart(e)
               PROVE  \/ UNCHANGED executions
                      \/ \E gone : Drop(gone)
                      \/ \E x : Follows(x)
  BY NextCases DEF Expire
<1>2. CASE Middle(e)
  <2>1. CASE Acts(e)
    <3>1. PICK landed \in BOOLEAN : Record(e, landed)
      BY <2>1 DEF Acts
    <3>2. plan[e] \in Decisions /\ Allows(plan[e], NsOf[alert[e]])
      BY <2>1 DEF Acts, Informed, Planned, Gated
    <3>3. plan[e].items[1].ns = NsOf[alert[e]]
      BY <3>2, FirstItem
    <3>4. \A i \in DOMAIN executions : executions[i].guarded => executions[i].key # KeyOf(e)
      BY <2>1 DEF Acts, LockGuards, Holding
    <3>5. Follows([alert |-> alert[e], key |-> KeyOf(e), guarded |-> TRUE,
                   ns |-> NsOf[alert[e]], path |-> plan[e].pattern, landed |-> landed])
      BY <3>1, <3>3, <3>4 DEF Record, Follows
    <3> QED
      BY <3>5
  <2>2. CASE Untouched \/ Locks(e)
    BY <2>2 DEF Untouched, Locks
  <2> QED
    BY <1>2, <2>1, <2>2, MiddleActs
<1>3. CASE Flush(e) \/ Restart(e) \/ \E a \in Alerts : ReceiveAlert(e, a)
  BY <1>3 DEF Flush, Restart, ReceiveAlert
<1> QED
  BY <1>1, <1>2, <1>3

LEMMA AtMostOnceKept ==
  ASSUME LoopAssumption, TypeOK, Informed, LockGuards, AtMostOnce, Next
  PROVE  AtMostOnce'
<1>1. CASE UNCHANGED executions
  BY <1>1 DEF AtMostOnce
<1>2. ASSUME NEW gone, Drop(gone)
      PROVE  AtMostOnce'
  BY <1>2, DropHistory DEF AtMostOnce
<1>3. ASSUME NEW x, Follows(x)
      PROVE  AtMostOnce'
  <2>1. ASSUME NEW i \in DOMAIN executions'
        PROVE  \/ i \in DOMAIN executions /\ executions'[i] = executions[i]
               \/ i = Len(executions) + 1 /\ executions'[i] = x
    BY <1>3, <2>1 DEF Follows, TypeOK
  <2> QED
    BY <1>3, <2>1 DEF AtMostOnce, Follows
<1> QED
  BY <1>1, <1>2, <1>3, HistoryGrows

LEMMA OwnTenantOnlyKept ==
  ASSUME LoopAssumption, TypeOK, Informed, LockGuards, OwnTenantOnly, Next
  PROVE  OwnTenantOnly'
<1>1. CASE UNCHANGED executions
  BY <1>1 DEF OwnTenantOnly
<1>2. ASSUME NEW gone, Drop(gone)
      PROVE  OwnTenantOnly'
  BY <1>2, DropHistory DEF OwnTenantOnly
<1>3. ASSUME NEW x, Follows(x)
      PROVE  OwnTenantOnly'
  <2>1. ASSUME NEW i \in DOMAIN executions'
        PROVE  \/ i \in DOMAIN executions /\ executions'[i] = executions[i]
               \/ executions'[i] = x
    BY <1>3, <2>1 DEF Follows, TypeOK
  <2> QED
    BY <1>3, <2>1 DEF OwnTenantOnly, Follows
<1> QED
  BY <1>1, <1>2, <1>3, HistoryGrows

\* What has been done for an alert is not forgotten.
LEMMA ActedOnStays ==
  ASSUME LoopAssumption, TypeOK, Informed, LockGuards, Next, NEW a, ActedOn(a)
  PROVE  ActedOn(a)'
<1>1. PICK i \in DOMAIN executions :
        executions[i].alert = a /\ (executions[i].landed \/ executions[i].path = "deferred")
  BY DEF ActedOn
<1>2. /\ i \in DOMAIN executions' /\ executions'[i].alert = executions[i].alert
      /\ executions'[i].landed = executions[i].landed
      /\ executions'[i].path = executions[i].path
  <2>1. CASE UNCHANGED executions
    BY <2>1
  <2>2. CASE \E gone : Drop(gone)
    BY <2>2, DropHistory
  <2>3. ASSUME NEW x, Follows(x)
        PROVE  i \in DOMAIN executions' /\ executions'[i] = executions[i]
    BY <2>3 DEF Follows, TypeOK
  <2> QED
    BY <2>1, <2>2, <2>3, HistoryGrows
<1> QED
  BY <1>1, <1>2 DEF ActedOn

\* Only a write that the cluster took, or the stub, leads to a verification.
LEMMA VerifiesItsActionKept ==
  ASSUME LoopAssumption, TypeOK, OneHandler, Informed, LockGuards, VerifiesItsAction, Next
  PROVE  VerifiesItsAction'
<1>0. ASSUME NEW k \in Keys, Expire(k), NEW f \in Executors, NEW a,
             pc'[f] = "verify", alert'[f] = a
      PROVE  ActedOn(a)'
  <2>1. ActedOn(a)
    BY <1>0 DEF Expire, VerifiesItsAction
  <2> QED
    BY <2>1, ActedOnStays
<1>1. SUFFICES ASSUME NEW e \in Executors,
                      \/ \E a \in Alerts : ReceiveAlert(e, a)
                      \/ Middle(e) \/ Flush(e) \/ Restart(e)
               PROVE  VerifiesItsAction'
  <2>1. ASSUME NEW k \in Keys, Expire(k)
        PROVE  VerifiesItsAction'
    BY <1>0, <2>1 DEF VerifiesItsAction, ActedOn, Expire
  <2> QED
    BY <2>1, NextCases
<1>2. ASSUME NEW f \in Executors, NEW a, f # e, pc'[f] = "verify", alert'[f] = a
      PROVE  ActedOn(a)'
  <2>1. pc[f] = "verify" /\ alert[f] = a
    BY <1>1, <1>2, OthersStay
  <2>2. ActedOn(a)
    BY <2>1 DEF VerifiesItsAction
  <2> QED
    BY <2>2, ActedOnStays
<1>3. ASSUME NEW a, pc'[e] = "verify", alert'[e] = a
      PROVE  ActedOn(a)'
  <2>1. Patch(e) \/ Commit(e)
    <3>1. Middle(e)
      BY <1>1, <1>3 DEF ReceiveAlert, Flush, Restart, Forget, Goto, TypeOK
    <3> USE DEF Goto, Return, TypeOK, AiFailure, AiConflict, ExecuteFailed
    <3>2. ~Detect(e) /\ ~PreDecide(e) /\ ~CheckBreaker(e) /\ ~AcquireLock(e) /\ ~Decide(e)
      BY <1>3 DEF Detect, PreDecide, CheckBreaker, AcquireLock, Decide
    <3>3. ~PassSafety(e) /\ ~CaptureSnapshot(e) /\ ~DryRun(e) /\ ~Verify(e) /\ ~Rollback(e)
      BY <1>3 DEF PassSafety, CaptureSnapshot, DryRun, Verify, Rollback
    <3> QED
      BY <3>1, <3>2, <3>3 DEF Middle
  <2>2. \E landed \in BOOLEAN :
          Record(e, landed) /\ (landed \/ plan[e].pattern = "deferred")
    <3>1. CASE Patch(e)
      BY <1>3, <3>1 DEF Patch, Goto, ExecuteFailed, Return, TypeOK
    <3>2. CASE Commit(e)
      <4>1. /\ plan[e] \in Decisions /\ Allows(plan[e], NsOf[alert[e]])
            /\ plan[e].pattern # "urgent"
        BY <3>2 DEF Commit, Informed, Planned, Gated
      <4>2. plan[e].pattern = "deferred"
        BY <4>1, FirstItem
      <4> QED
        BY <3>2, <4>2 DEF Commit
    <3> QED
      BY <2>1, <3>1, <3>2
  <2>3. alert' = alert
    BY <2>1 DEF Patch, Commit
  <2>4. PICK x : /\ executions' = Append(executions, x)
                 /\ x.alert = alert[e] /\ (x.landed \/ x.path = "deferred")
    <3>1. PICK landed \in BOOLEAN :
            Record(e, landed) /\ (landed \/ plan[e].pattern = "deferred")
      BY <2>2
    <3> WITNESS [alert |-> alert[e], key |-> KeyOf(e), guarded |-> TRUE,
                 ns |-> plan[e].items[1].ns, path |-> plan[e].pattern, landed |-> landed]
    <3> QED
      BY <3>1 DEF Record
  <2>5. /\ Len(executions) + 1 \in DOMAIN executions'
        /\ executions'[Len(executions) + 1] = x
    BY <2>4 DEF TypeOK
  <2> QED
    BY <1>3, <2>3, <2>4, <2>5 DEF ActedOn
<1>4. ASSUME NEW f \in Executors, NEW a, pc'[f] = "verify", alert'[f] = a
      PROVE  ActedOn(a)'
  BY <1>2, <1>3, <1>4
<1> QED
  BY <1>4 DEF VerifiesItsAction, ActedOn

LEMMA ResolvedMeansLandedKept ==
  ASSUME LoopAssumption, TypeOK, OneHandler, Informed, LockGuards, VerifiesItsAction,
         ResolvedMeansLanded, Next
  PROVE  ResolvedMeansLanded'
<1>1. SUFFICES ASSUME NEW a \in Alerts, outcome'[a] = "auto_resolved"
               PROVE  ActedOn(a)'
  BY DEF ResolvedMeansLanded, ActedOn
<1>2. SUFFICES ActedOn(a)
  BY <1>2, ActedOnStays
<1>3. CASE outcome[a] = "auto_resolved"
  BY <1>3 DEF ResolvedMeansLanded, ActedOn
<1>4. CASE outcome[a] # "auto_resolved"
  <2>1. PICK e \in Executors :
          \/ \E b \in Alerts : ReceiveAlert(e, b)
          \/ Middle(e) \/ Flush(e) \/ Restart(e)
    BY <1>1, <1>4, NextCases DEF Expire
  <2>2. ~Flush(e) /\ ~Restart(e) /\ \A b \in Alerts : ~ReceiveAlert(e, b)
    BY <1>1, <1>4 DEF Flush, Restart, ReceiveAlert, TypeOK
  <2> USE DEF Goto, Return, TypeOK, AiFailure, AiConflict, ExecuteFailed
  <2>3. ~Detect(e) /\ ~PreDecide(e) /\ ~CheckBreaker(e) /\ ~AcquireLock(e) /\ ~Decide(e)
    BY <1>1, <1>4 DEF Detect, PreDecide, CheckBreaker, AcquireLock, Decide
  <2>4. ~PassSafety(e) /\ ~CaptureSnapshot(e) /\ ~DryRun(e) /\ ~Patch(e) /\ ~Commit(e)
        /\ ~Rollback(e)
    BY <1>1, <1>4 DEF PassSafety, CaptureSnapshot, DryRun, Patch, Commit, Rollback
  <2>5. Verify(e)
    BY <2>1, <2>2, <2>3, <2>4 DEF Middle
  <2>6. pc[e] = "verify" /\ a = alert[e]
    BY <1>1, <1>4, <2>5 DEF Verify
  <2> QED
    BY <2>6 DEF VerifiesItsAction
<1> QED
  BY <1>3, <1>4

-----------------------------------------------------------------------------
LEMMA NextKeeps ==
  ASSUME LoopAssumption, IndInv, Next
  PROVE  IndInv'
  BY TypesKept, OneHandlerKept, InformedKept, LockGuardsKept, AtMostOnceKept,
     OwnTenantOnlyKept, VerifiesItsActionKept, ResolvedMeansLandedKept DEF IndInv

LEMMA StutterKeeps ==
  ASSUME IndInv, UNCHANGED vars
  PROVE  IndInv'
  BY DEF IndInv, vars, TypeOK, OneHandler, Informed, LockGuards, AtMostOnce,
     OwnTenantOnly, VerifiesItsAction, ResolvedMeansLanded, ActedOn, KeyOf

\* The inductive invariant, for any instance.
THEOREM InductiveInvariant == Spec => []IndInv
<1>1. Init => IndInv
  BY LoopAssumption, InitHolds
<1>2. IndInv /\ [Next]_vars => IndInv'
  BY LoopAssumption, NextKeeps, StutterKeeps
<1> QED
  BY <1>1, <1>2, PTL DEF Spec

\* Every variable of the loop keeps its type.
THEOREM TypeCorrect == Spec => []TypeOK
<1>1. IndInv => TypeOK
  BY DEF IndInv
<1> QED
  BY <1>1, InductiveInvariant, PTL

\* No incident is acted on twice while its key stands (idempotency.py:31-53,
\* main.py:98-103), with any number of executors, with and without the table, of
\* re-injections, crashes, lost replies and keys that expire.
THEOREM ActsAtMostOnce == Spec => []AtMostOnce
<1>1. IndInv => AtMostOnce
  BY DEF IndInv
<1> QED
  BY <1>1, InductiveInvariant, PTL

\* Nothing is done outside the namespace of the alert (safety_gate.py:86-102),
\* whatever plans the AI engine answers with and whichever window they are for.
THEOREM ActsInOwnTenant == Spec => []OwnTenantOnly
<1>1. IndInv => OwnTenantOnly
  BY DEF IndInv
<1> QED
  BY <1>1, InductiveInvariant, PTL

\* "auto_resolved" is said only of what was done (main.py:133-154).
THEOREM ResolvesWhatLanded == Spec => []ResolvedMeansLanded
<1>1. IndInv => ResolvedMeansLanded
  BY DEF IndInv
<1> QED
  BY <1>1, InductiveInvariant, PTL

-----------------------------------------------------------------------------
\* Refinement: the lock and the history implement HealPromise.
claimed == {<<owner[k], k>> : k \in {x \in Keys : owner[x] # None}}
executed == [i \in DOMAIN executions |->
               <<executions[i].alert, executions[i].key, executions[i].guarded>>]

LEMMA ExecutedGrows ==
  ASSUME TypeOK, TypeOK', NEW x, executions' = Append(executions, x)
  PROVE  executed' = Append(executed, <<x.alert, x.key, x.guarded>>)
<1> DEFINE n == Len(executions)
           y == <<x.alert, x.key, x.guarded>>
           S == {y} \cup {executed[i] : i \in DOMAIN executions}
<1>1. n \in Nat /\ DOMAIN executions = 1..n /\ executions \in Seq(Execution)
  BY DEF TypeOK
<1>2. /\ DOMAIN executions' = 1..(n + 1)
      /\ executions'[n + 1] = x
      /\ \A i \in 1..n : executions'[i] = executions[i]
  BY <1>1
<1>3. executed' = [i \in 1..(n + 1) |-> IF i = n + 1 THEN y ELSE executed[i]]
  BY <1>1, <1>2 DEF executed
<1>4. executed = [i \in 1..n |-> executed[i]] /\ executed \in Seq(S) /\ Len(executed) = n
  <2>1. executed = [i \in 1..n |-> executed[i]]
    BY <1>1 DEF executed
  <2>2. \A i \in 1..n : executed[i] \in S
    BY <1>1
  <2> HIDE DEF S
  <2>3. executed \in [1..n -> S]
    BY <2>1, <2>2
  <2>4. executed \in Seq(S)
    BY <1>1, <2>3
  <2>5. DOMAIN executed = 1..n
    BY <2>1
  <2> HIDE DEF n
  <2> QED
    BY <1>1, <2>1, <2>4, <2>5
<1>5. executed' \in Seq(S) /\ Len(executed') = n + 1
  <2> SUFFICES executed' \in [1..(n + 1) -> S] /\ n + 1 \in Nat
    OBVIOUS
  <2> QED
    BY <1>1, <1>3
<1>6. /\ Append(executed, y) \in Seq(S) /\ Len(Append(executed, y)) = n + 1
      /\ \A i \in 1..(n + 1) :
           Append(executed, y)[i] = IF i = n + 1 THEN y ELSE executed[i]
  <2>1. y \in S
    OBVIOUS
  <2> HIDE DEF S, y, n
  <2> QED
    BY <1>1, <1>4, <2>1
<1>7. \A i \in 1..(n + 1) : executed'[i] = Append(executed, y)[i]
  BY <1>3, <1>6
<1>8. executed' = Append(executed, y)
  <2> HIDE DEF S, y, n
  <2>1. Len(executed') = Len(Append(executed, y))
    BY <1>5, <1>6
  <2>2. \A i \in 1..Len(executed') : executed'[i] = Append(executed, y)[i]
    BY <1>5, <1>7
  <2> QED
    BY <1>5, <1>6, <2>1, <2>2, SeqEqual
<1> QED
  BY <1>8

LEMMA PromiseInit ==
  ASSUME LoopAssumption, Init
  PROVE  Promise!Init
<1>1. claimed = {}
  BY DEF Init, claimed
<1>2. executed = <<>>
  BY DEF Init, executed
<1> QED
  BY <1>1, <1>2 DEF Promise!Init, claimed, executed

LEMMA ClaimsGrow ==
  ASSUME LoopAssumption, TypeOK, OneHandler, Informed, NEW e \in Executors, Locks(e)
  PROVE  Promise!Claim(alert[e], KeyOf(e))
<1>1. KeyOf(e) \in Keys /\ alert[e] \in Alerts /\ alert[e] # None
  BY KeyTyped DEF Locks, Informed, Healing, OneHandler, TypeOK
<1>2. \A b \in Alerts : <<b, KeyOf(e)>> \notin claimed
  BY <1>1 DEF Locks, claimed, LoopAssumption
<1>3. \A k \in Keys : owner'[k] = IF k = KeyOf(e) THEN alert[e] ELSE owner[k]
  BY <1>1 DEF Locks, TypeOK
<1>4. claimed' = claimed \cup {<<alert[e], KeyOf(e)>>}
  BY <1>1, <1>3 DEF Locks, claimed
<1>5. executed' = executed
  BY DEF Locks, executed
<1> QED
  BY <1>2, <1>4, <1>5 DEF Promise!Claim, claimed, executed

\* Keys that leave their table lapse, as claims.
LEMMA Lapses ==
  ASSUME LoopAssumption, TypeOK, NEW gone \in SUBSET Keys, Drop(gone)
  PROVE  Promise!Lapse(gone)
<1>1. claimed' = {claim \in claimed : claim[2] \notin gone}
  BY DEF claimed, Drop
<1>2. executed' = [i \in DOMAIN executed |->
        <<executed[i][1], executed[i][2], executed[i][3] /\ executed[i][2] \notin gone>>]
  <2>1. ASSUME NEW i \in DOMAIN executions
        PROVE  executions'[i].guarded = (executions[i].guarded /\ executions[i].key \notin gone)
    <3>1. executions[i] \in Execution
      BY DEF TypeOK
    <3> QED
      BY <3>1 DEF Drop, Execution
  <2> QED
    BY <2>1, DropHistory DEF executed
<1> QED
  BY <1>1, <1>2 DEF Promise!Lapse, claimed, executed

\* Every step of the loop is a step of the promise or leaves it alone.
LEMMA PromiseStep ==
  ASSUME LoopAssumption, IndInv, IndInv', [Next]_vars
  PROVE  [Promise!Next]_(Promise!vars)
<1> USE DEF IndInv
<1>1. CASE UNCHANGED <<owner, executions>>
  <2>1. claimed' = claimed /\ executed' = executed
    BY <1>1 DEF claimed, executed
  <2> QED
    BY <2>1 DEF Promise!vars, claimed, executed
<1>2. ASSUME NEW e \in Executors, Locks(e)
      PROVE  Promise!Next
  <2>1. KeyOf(e) \in Keys /\ alert[e] \in Alerts
    BY <1>2, KeyTyped DEF Locks, Informed, Healing, OneHandler, TypeOK
  <2>2. Promise!Claim(alert[e], KeyOf(e))
    BY <1>2, ClaimsGrow
  <2> QED
    BY <2>1, <2>2, Zenon DEF Promise!Next, Promise!Claim, Promise!Execute
<1>3. ASSUME NEW e \in Executors, Acts(e), Next, executions' # executions
      PROVE  Promise!Next
  <2>1. /\ KeyOf(e) \in Keys /\ alert[e] \in Alerts /\ alert[e] # None
        /\ owner[KeyOf(e)] = alert[e] /\ owner' = owner
        /\ \A i \in DOMAIN executions : executions[i].guarded => executions[i].key # KeyOf(e)
    BY <1>3, KeyTyped DEF Acts, Informed, Healing, Holding, OneHandler, LockGuards, TypeOK
  <2>2. <<alert[e], KeyOf(e)>> \in claimed /\ claimed' = claimed
    BY <2>1 DEF claimed
  <2>3. \A i \in DOMAIN executed : executed[i][3] => executed[i][2] # KeyOf(e)
    BY <2>1 DEF executed
  <2>4. executed' = Append(executed, <<alert[e], KeyOf(e), TRUE>>)
    <3>1. PICK x : /\ executions' = Append(executions, x) /\ x.alert = alert[e]
                   /\ x.key = KeyOf(e) /\ x.guarded = TRUE
      BY <1>3 DEF Acts, Record
    <3> QED
      BY <3>1, ExecutedGrows
  <2>5. Promise!Execute(alert[e], KeyOf(e))
    BY <2>2, <2>3, <2>4 DEF Promise!Execute, claimed, executed
  <2> QED
    BY <2>1, <2>5, Zenon DEF Promise!Next, Promise!Claim, Promise!Execute
<1>4. CASE UNCHANGED vars
  BY <1>1, <1>4 DEF vars
<1>5. ASSUME NEW gone \in SUBSET Keys, Drop(gone)
      PROVE  Promise!Next
  <2>1. Promise!Lapse(gone)
    BY <1>5, Lapses
  <2> QED
    BY <2>1, Zenon DEF Promise!Next
<1>6. ASSUME NEW e \in Executors,
             \/ \E a \in Alerts : ReceiveAlert(e, a)
             \/ Middle(e) \/ Flush(e) \/ Restart(e),
             Next
      PROVE  [Promise!Next]_(Promise!vars)
  <2>1. CASE Middle(e)
    <3>1. CASE Untouched
      BY <1>1, <3>1 DEF Untouched
    <3>2. CASE Locks(e)
      BY <1>2, <3>2
    <3>3. CASE Acts(e)
      BY <1>1, <1>3, <1>6, <3>3 DEF Acts
    <3> QED
      BY <2>1, <3>1, <3>2, <3>3, MiddleActs
  <2>2. CASE Flush(e) \/ \E a \in Alerts : ReceiveAlert(e, a)
    BY <1>1, <2>2 DEF Flush, ReceiveAlert
  <2>3. CASE Restart(e)
    <3>1. {e} \X Cids \in SUBSET Keys
      BY DEF Keys
    <3> QED
      BY <1>5, <2>3, <3>1 DEF Restart
  <2> QED
    BY <1>6, <2>1, <2>2, <2>3
<1>7. ASSUME NEW k \in Keys, Expire(k)
      PROVE  Promise!Next
  BY <1>5, <1>7 DEF Expire
<1> QED
  BY <1>4, <1>6, <1>7, NextCases

\* The loop implements the promise of the idempotency lock (HealPromise.tla): an
\* incident is acted on at most once, by the alert that claimed it, and nothing
\* is acted on that was not claimed.
THEOREM KeepsPromise == Spec => PromiseKept
<1>1. Init => Promise!Init
  BY LoopAssumption, PromiseInit
<1>2. IndInv /\ IndInv' /\ [Next]_vars => [Promise!Next]_(Promise!vars)
  BY LoopAssumption, PromiseStep
<1> QED
  BY <1>1, <1>2, InductiveInvariant, PTL DEF Spec, PromiseKept, Promise!Spec

-----------------------------------------------------------------------------
\* Refinement: each executor's breaker implements Breaker.
LEMMA BreakerInit ==
  ASSUME Init, NEW f \in Executors
  PROVE  BreakerOf(f)!Init
  BY DEF Init, BreakerOf!Init, BreakerOf!Closed, Healing, Holding

\* What a step does to the breaker of its executor: nothing, while the incident
\* stays or leaves; a failure at the end of the incident; the end of a cooldown;
\* or the success of an incident that passed the breaker.
Quiet(e) ==
  /\ UNCHANGED breakerVars
  /\ pc'[e] \in Healing => pc[e] \in Healing \/ ~open[e]

Fails(e) == RecordFailure(e) /\ pc'[e] \notin Healing

Cools(e) ==
  /\ pc[e] \notin Healing /\ pc'[e] \in Healing /\ open[e]
  /\ open' = [open EXCEPT ![e] = FALSE] /\ fails' = [fails EXCEPT ![e] = 0]

Succeeds(e) ==
  /\ pc[e] \in Healing /\ pc'[e] \notin Healing
  /\ fails' = [fails EXCEPT ![e] = 0] /\ UNCHANGED open

LEMMA MiddleBreaker ==
  ASSUME TypeOK, NEW e \in Executors, Middle(e)
  PROVE  Quiet(e) \/ Fails(e) \/ Cools(e) \/ Succeeds(e)
<1> USE DEF Goto, Return, Healing, Holding, TypeOK, AiFailure, AiConflict, ExecuteFailed
<1>1. CASE Detect(e)
  BY <1>1 DEF Detect, Quiet, Fails
<1>2. CASE PreDecide(e)
  BY <1>2 DEF PreDecide, Quiet
<1>3. CASE CheckBreaker(e)
  BY <1>3 DEF CheckBreaker, Quiet, Cools
<1>4. CASE AcquireLock(e)
  BY <1>4 DEF AcquireLock, Quiet
<1>5. CASE Decide(e)
  BY <1>5 DEF Decide, Quiet, Fails
<1>6. CASE PassSafety(e)
  BY <1>6 DEF PassSafety, Quiet
<1>7. CASE CaptureSnapshot(e)
  BY <1>7 DEF CaptureSnapshot, Quiet
<1>8. CASE DryRun(e)
  BY <1>8 DEF DryRun, Quiet, Fails
<1>9. CASE Patch(e)
  BY <1>9 DEF Patch, Quiet, Fails
<1>10. CASE Commit(e)
  BY <1>10 DEF Commit, Quiet
<1>11. CASE Verify(e)
  BY <1>11 DEF Verify, Quiet, Fails, Succeeds
<1>12. CASE Rollback(e)
  BY <1>12 DEF Rollback, Quiet
<1> QED
  BY <1>1, <1>2, <1>3, <1>4, <1>5, <1>6, <1>7, <1>8, <1>9, <1>10, <1>11, <1>12 DEF Middle

LEMMA BreakerStep ==
  ASSUME LoopAssumption, TypeOK, [Next]_vars, NEW f \in Executors
  PROVE  [BreakerOf(f)!Next]_(BreakerOf(f)!vars)
<1> DEFINE kept == /\ fails'[f] = fails[f] /\ open'[f] = open[f]
                   /\ (pc'[f] \in Healing) = (pc[f] \in Healing)
           stepped == [BreakerOf(f)!Next]_(BreakerOf(f)!vars)
<1>1. kept => stepped
  BY DEF BreakerOf!vars
<1>2. CASE UNCHANGED vars
  BY <1>1, <1>2 DEF vars
<1>3. CASE Next
  <2>1. SUFFICES ASSUME NEW e \in Executors,
                        \/ \E a \in Alerts : ReceiveAlert(e, a)
                        \/ Middle(e) \/ Flush(e) \/ Restart(e)
                 PROVE  stepped
    BY <1>1, <1>3, NextCases DEF Expire, breakerVars
  <2>2. CASE \/ \E a \in Alerts : ReceiveAlert(e, a)
             \/ Flush(e)
    <3>1. pc[e] \notin Healing /\ pc'[e] \notin Healing /\ UNCHANGED breakerVars
      BY <2>2 DEF ReceiveAlert, Flush, Forget, Goto, Healing, Holding, TypeOK
    <3>2. f # e => pc'[f] = pc[f]
      BY <2>1, OthersStay
    <3> QED
      BY <1>1, <3>1, <3>2 DEF breakerVars
  <2>3. CASE (Middle(e) \/ Restart(e)) /\ f # e
    <3>1. pc'[f] = pc[f]
      BY <2>3, OthersStay
    <3>2. fails'[f] = fails[f] /\ open'[f] = open[f]
      <4>1. CASE Middle(e)
        <5>1. CASE Quiet(e)
          BY <5>1 DEF Quiet, breakerVars
        <5>2. CASE Fails(e)
          BY <2>3, <5>2 DEF Fails, RecordFailure, TypeOK
        <5>3. CASE Cools(e) \/ Succeeds(e)
          BY <2>3, <5>3 DEF Cools, Succeeds, TypeOK
        <5> QED
          BY <4>1, <5>1, <5>2, <5>3, MiddleBreaker
      <4>2. CASE Restart(e)
        BY <2>3, <4>2 DEF Restart, TypeOK
      <4> QED
        BY <2>3, <4>1, <4>2
    <3> QED
      BY <1>1, <3>1, <3>2
  <2>4. CASE Restart(e) /\ f = e
    <3>1. fails'[f] = 0 /\ open'[f] = FALSE /\ pc'[f] \notin Healing
      BY <2>4 DEF Restart, Forget, Goto, Healing, Holding, TypeOK
    <3> QED
      BY <3>1 DEF BreakerOf!Next, BreakerOf!Restart
  <2>5. CASE Middle(e) /\ f = e
    <3>1. CASE Quiet(e)
      <4>1. fails'[f] = fails[f] /\ open'[f] = open[f]
        BY <3>1, <2>5 DEF Quiet, breakerVars
      <4>2. CASE pc'[f] \in Healing /\ pc[f] \notin Healing
        <5>1. ~open[f]
          BY <2>5, <3>1, <4>2 DEF Quiet
        <5>2. open'[f] = FALSE
          BY <4>1, <5>1 DEF TypeOK
        <5> QED
          BY <4>1, <4>2, <5>1, <5>2 DEF BreakerOf!Next, BreakerOf!Admit
      <4>3. CASE pc'[f] \notin Healing /\ pc[f] \in Healing
        BY <4>1, <4>3 DEF BreakerOf!Next, BreakerOf!Leave
      <4>4. CASE (pc'[f] \in Healing) <=> (pc[f] \in Healing)
        BY <1>1, <4>1, <4>4
      <4> QED
        BY <4>2, <4>3, <4>4
    <3>2. CASE Fails(e)
      <4>1. PICK recent \in 0..fails[f] :
              /\ fails'[f] = recent + 1
              /\ open'[f] = (open[f] \/ recent + 1 >= Threshold)
        BY <2>5, <3>2 DEF Fails, RecordFailure, TypeOK
      <4>2. open'[f] = (open[f] \/ fails'[f] >= Threshold) /\ pc'[f] \notin Healing
        BY <2>5, <3>2, <4>1 DEF Fails
      <4> QED
        BY <4>1, <4>2 DEF BreakerOf!Next, BreakerOf!Fail
    <3>3. CASE Cools(e)
      <4>1. /\ fails'[f] = 0 /\ open'[f] = FALSE /\ open[f]
            /\ pc'[f] \in Healing /\ pc[f] \notin Healing
        BY <2>5, <3>3 DEF Cools, TypeOK
      <4> QED
        BY <4>1 DEF BreakerOf!Next, BreakerOf!Admit
    <3>4. CASE Succeeds(e)
      <4>1. /\ fails'[f] = 0 /\ open'[f] = open[f]
            /\ pc'[f] \notin Healing /\ pc[f] \in Healing
        BY <2>5, <3>4 DEF Succeeds, TypeOK
      <4> QED
        BY <4>1 DEF BreakerOf!Next, BreakerOf!Succeed
    <3> QED
      BY <2>5, <3>1, <3>2, <3>3, <3>4, MiddleBreaker
  <2> QED
    BY <2>1, <2>2, <2>3, <2>4, <2>5
<1> QED
  BY <1>2, <1>3

\* Every executor uses its breaker as Breaker.tla allows: it heals only after
\* being admitted and never behind an open breaker, and gives at most one verdict
\* per admission.
THEOREM UsesBreaker == Spec => BreakerUsed
<1>1. Init => BreakersNew
  BY BreakerInit DEF BreakersNew
<1>2. TypeOK /\ [Next]_vars => [BreakerSteps]_vars
  BY LoopAssumption, BreakerStep DEF BreakerSteps
<1> QED
  BY <1>1, <1>2, TypeCorrect, PTL DEF Spec, BreakerUsed

-----------------------------------------------------------------------------
\* Refinement: each alert takes the course of IncidentCourse.

\* The steps before the one write, and after it.
Before == {"detect", "gate", "breaker", "lock", "decide", "safety", "snapshot",
           "dry_run", "patch", "commit"}
After == {"verify", "rollback"}

\* Who is past "new" and has not ended is in somebody's hands; the write of a call
\* lies between the steps before it and those after it.
InHand ==
  /\ \A e \in Executors :
       /\ pc[e] \in Before \cup After => outcome[alert[e]] = "handling"
       /\ pc[e] = "flush" => outcome[alert[e]] \notin {"new", "handling"}
       /\ pc[e] \in Before => Sent(alert[e]) = {}
       /\ pc[e] \in After => Sent(alert[e]) # {}
  /\ \A a \in Alerts :
       /\ outcome[a] = "handling" => \E e \in Executors : alert[e] = a
       /\ outcome[a] = "new" => Sent(a) = {}

\* The three ways a step in the middle of an incident goes.
Onward(e) ==
  /\ pc[e] \in Before \cup After
  /\ pc'[e] \in Before \cup After
  /\ pc'[e] \in After <=> pc[e] \in After
  /\ CallsAhead(pc'[e]) < CallsAhead(pc[e])
  /\ UNCHANGED <<outcome, executions>>

Ends(e) ==
  /\ pc[e] \in Before \cup After
  /\ pc'[e] = "flush"
  /\ \E out \in IF pc[e] \in Before
                 THEN {"closed", "duplicate_denied", "escalated"}
                 ELSE {"auto_resolved", "retry", "rolled_back", "duplicate_denied", "escalated"} :
       outcome' = [outcome EXCEPT ![alert[e]] = out]
  /\ UNCHANGED executions

Sends(e) ==
  /\ pc[e] \in {"patch", "commit"}
  /\ \/ pc'[e] = "verify" /\ UNCHANGED outcome
     \/ pc'[e] = "flush" /\ outcome' = [outcome EXCEPT ![alert[e]] = "escalated"]
  /\ \E x : x.alert = alert[e] /\ executions' = Append(executions, x)

LEMMA RecordSends ==
  ASSUME NEW e, NEW landed, Record(e, landed)
  PROVE  \E x : x.alert = alert[e] /\ executions' = Append(executions, x)
<1> WITNESS [alert |-> alert[e], key |-> KeyOf(e), guarded |-> TRUE,
             ns |-> plan[e].items[1].ns, path |-> plan[e].pattern, landed |-> landed]
<1> QED
  BY DEF Record

LEMMA GoesOn ==
  ASSUME TypeOK, NEW e \in Executors, pc[e] \in Before \cup After, NEW s \in Before \cup After,
         s \in After <=> pc[e] \in After, CallsAhead(s) < CallsAhead(pc[e]),
         Goto(e, s), UNCHANGED <<outcome, executions>>
  PROVE  Onward(e)
  BY DEF Goto, Onward, TypeOK

LEMMA ReturnEnds ==
  ASSUME TypeOK, NEW e \in Executors, pc[e] \in Before \cup After, UNCHANGED executions,
         \/ Return(e, "escalated") \/ Return(e, "duplicate_denied")
         \/ pc[e] \in Before /\ Return(e, "closed")
         \/ /\ pc[e] \in After
            /\ \/ Return(e, "auto_resolved") \/ Return(e, "retry") \/ Return(e, "rolled_back")
  PROVE  Ends(e)
  BY DEF Goto, Return, Ends, TypeOK, Before, After

\* The order of the calls.
LEMMA CallsInOrder ==
  /\ CallsAhead("gate") < CallsAhead("detect") /\ CallsAhead("breaker") < CallsAhead("gate")
  /\ CallsAhead("lock") < CallsAhead("breaker") /\ CallsAhead("decide") < CallsAhead("lock")
  /\ CallsAhead("safety") < CallsAhead("decide") /\ CallsAhead("snapshot") < CallsAhead("safety")
  /\ CallsAhead("dry_run") < CallsAhead("snapshot") /\ CallsAhead("commit") < CallsAhead("snapshot")
  /\ CallsAhead("patch") < CallsAhead("dry_run") /\ CallsAhead("rollback") < CallsAhead("verify")
  BY DEF CallsAhead

LEMMA MiddleGoes ==
  ASSUME TypeOK, NEW e \in Executors, Middle(e)
  PROVE  Onward(e) \/ Ends(e) \/ Sends(e)
<1> USE CallsInOrder DEF Before, After
<1> DEFINE Walk(s, t) == pc[e] = s /\ Goto(e, t) /\ UNCHANGED <<outcome, executions>>
           Stop(s, out) == pc[e] = s /\ Return(e, out) /\ UNCHANGED executions
<1>0. ASSUME NEW s, NEW out, Stop(s, out), s \in Before \cup After,
             \/ out \in {"escalated", "duplicate_denied"}
             \/ s \in Before /\ out = "closed"
             \/ s \in After /\ out \in {"auto_resolved", "retry", "rolled_back"}
      PROVE  Ends(e)
  BY <1>0, ReturnEnds
<1>1. CASE Detect(e)
  <2>1. Walk("detect", "gate") \/ Stop("detect", "escalated") \/ Stop("detect", "duplicate_denied")
    BY <1>1 DEF Detect, AiFailure, AiConflict
  <2> QED
    BY <2>1, <1>0, GoesOn
<1>2. CASE PreDecide(e)
  <2>1. Walk("gate", "breaker") \/ Stop("gate", "closed") \/ Stop("gate", "escalated")
    BY <1>2 DEF PreDecide
  <2> QED
    BY <2>1, <1>0, GoesOn
<1>3. CASE CheckBreaker(e)
  <2>1. Walk("breaker", "lock") \/ Stop("breaker", "escalated")
    BY <1>3 DEF CheckBreaker
  <2> QED
    BY <2>1, <1>0, GoesOn
<1>4. CASE AcquireLock(e)
  <2>1. Walk("lock", "decide") \/ Stop("lock", "duplicate_denied")
    BY <1>4 DEF AcquireLock
  <2> QED
    BY <2>1, <1>0, GoesOn
<1>5. CASE Decide(e)
  <2>1. Walk("decide", "safety") \/ Stop("decide", "escalated") \/ Stop("decide", "duplicate_denied")
    BY <1>5 DEF Decide, AiFailure, AiConflict
  <2> QED
    BY <2>1, <1>0, GoesOn
<1>6. CASE PassSafety(e)
  <2>1. Walk("safety", "snapshot") \/ Stop("safety", "escalated")
    BY <1>6 DEF PassSafety
  <2> QED
    BY <2>1, <1>0, GoesOn
<1>7. CASE CaptureSnapshot(e)
  <2>1. Walk("snapshot", "dry_run") \/ Walk("snapshot", "commit")
    BY <1>7 DEF CaptureSnapshot
  <2> QED
    BY <2>1, GoesOn
<1>8. CASE DryRun(e)
  <2>1. Walk("dry_run", "patch") \/ Stop("dry_run", "escalated")
    BY <1>8 DEF DryRun, ExecuteFailed
  <2> QED
    BY <2>1, <1>0, GoesOn
<1>9. CASE Patch(e)
  <2>1. \E landed \in BOOLEAN : Record(e, landed)
    BY <1>9 DEF Patch
  <2> QED
    BY <1>9, <2>1, RecordSends DEF Patch, Sends, ExecuteFailed, Goto, Return, TypeOK
<1>10. CASE Commit(e)
  BY <1>10, RecordSends DEF Commit, Sends, Goto, TypeOK
<1>11. CASE Verify(e)
  <2>1. \/ Walk("verify", "rollback")
        \/ Stop("verify", "auto_resolved") \/ Stop("verify", "retry")
        \/ Stop("verify", "escalated") \/ Stop("verify", "duplicate_denied")
    BY <1>11 DEF Verify, AiFailure, AiConflict
  <2> QED
    BY <2>1, <1>0, GoesOn
<1>12. CASE Rollback(e)
  <2>1. Stop("rollback", "rolled_back")
    BY <1>12 DEF Rollback
  <2> QED
    BY <2>1, <1>0
<1> QED
  BY <1>1, <1>2, <1>3, <1>4, <1>5, <1>6, <1>7, <1>8, <1>9, <1>10, <1>11, <1>12 DEF Middle

\* What was sent for an alert changes only by a write for it.
LEMMA SentStays ==
  ASSUME TypeOK, NEW a, (UNCHANGED executions) \/ \E gone : Drop(gone)
  PROVE  Sent(a)' = Sent(a)
  BY DropHistory DEF Sent

LEMMA SentGrows ==
  ASSUME TypeOK, NEW x, executions' = Append(executions, x), NEW a
  PROVE  Sent(a)' = IF x.alert = a THEN Sent(a) \cup {Len(executions) + 1} ELSE Sent(a)
<1>1. /\ DOMAIN executions' = DOMAIN executions \cup {Len(executions) + 1}
      /\ executions'[Len(executions) + 1] = x
      /\ \A i \in DOMAIN executions : executions'[i] = executions[i]
  BY DEF TypeOK
<1> QED
  BY <1>1 DEF Sent

LEMMA HandlerIs ==
  ASSUME LoopAssumption, OneHandler, NEW e \in Executors, alert[e] \in Alerts
  PROVE  HandlerOf(alert[e]) = e
<1>1. \A f \in Executors : alert[f] = alert[e] => f = e
  BY DEF OneHandler, LoopAssumption
<1> QED
  BY <1>1 DEF HandlerOf

\* A step of one executor leaves the alerts of the others as they are.
Aloof(a) ==
  /\ outcome'[a] = outcome[a]
  /\ Sent(a)' = Sent(a)

LEMMA OthersAloof ==
  ASSUME LoopAssumption, TypeOK, NEW e \in Executors, NEW a \in Alerts, a # alert[e],
         Middle(e) \/ Flush(e) \/ Restart(e)
  PROVE  Aloof(a)
<1>1. CASE Flush(e)
  BY <1>1, SentStays DEF Flush, Aloof
<1>2. CASE Restart(e)
  <2>1. outcome'[a] = outcome[a]
    BY <1>2 DEF Restart, TypeOK
  <2>2. Sent(a)' = Sent(a)
    BY <1>2, SentStays DEF Restart
  <2> QED
    BY <2>1, <2>2 DEF Aloof
<1>3. CASE Middle(e)
  <2>1. CASE Onward(e)
    BY <2>1, SentStays DEF Onward, Aloof
  <2>2. CASE Ends(e)
    <3>1. outcome'[a] = outcome[a]
      BY <2>2 DEF Ends, TypeOK
    <3> QED
      BY <2>2, <3>1, SentStays DEF Ends, Aloof
  <2>3. CASE Sends(e)
    <3>1. outcome'[a] = outcome[a]
      BY <2>3 DEF Sends, TypeOK
    <3>2. Sent(a)' = Sent(a)
      BY <2>3, SentGrows DEF Sends
    <3> QED
      BY <3>1, <3>2 DEF Aloof
  <2> QED
    BY <1>3, <2>1, <2>2, <2>3, MiddleGoes
<1> QED
  BY <1>1, <1>2, <1>3

\* What becomes of the alert in the hands of the executor that steps.
LEMMA OwnOnward ==
  ASSUME TypeOK, NEW e \in Executors, Onward(e), NEW a
  PROVE  Aloof(a)
<1>1. Sent(a)' = Sent(a)
  BY SentStays DEF Onward
<1> QED
  BY <1>1 DEF Onward, Aloof

LEMMA OwnEnds ==
  ASSUME TypeOK, NEW e \in Executors, NEW a \in Alerts, alert[e] = a, Ends(e)
  PROVE  /\ outcome'[a] \in IF pc[e] \in Before
              THEN {"closed", "duplicate_denied", "escalated"}
              ELSE {"auto_resolved", "retry", "rolled_back", "duplicate_denied", "escalated"}
         /\ Sent(a)' = Sent(a)
<1>1. Sent(a)' = Sent(a)
  BY SentStays DEF Ends
<1> QED
  BY <1>1 DEF Ends, TypeOK

LEMMA OwnSends ==
  ASSUME TypeOK, NEW e \in Executors, NEW a \in Alerts, alert[e] = a, Sends(e)
  PROVE  /\ \/ pc'[e] = "verify" /\ outcome'[a] = outcome[a]
            \/ pc'[e] = "flush" /\ outcome'[a] = "escalated"
         /\ Sent(a)' = Sent(a) \cup {Len(executions) + 1}
<1>1. PICK x : x.alert = a /\ executions' = Append(executions, x)
  BY DEF Sends
<1>2. Sent(a)' = Sent(a) \cup {Len(executions) + 1}
  BY <1>1, SentGrows
<1> QED
  BY <1>2 DEF Sends, TypeOK

LEMMA InHandInit == ASSUME LoopAssumption, Init PROVE InHand
  BY DEF Init, InHand, Before, After, Sent

\* What InHand says of an executor that handles alert a, and of an alert.
OfHandler(f, a) ==
  /\ pc[f] \in Before \cup After => outcome[a] = "handling"
  /\ pc[f] = "flush" => outcome[a] \notin {"new", "handling"}
  /\ pc[f] \in Before => Sent(a) = {}
  /\ pc[f] \in After => Sent(a) # {}

OfAlert(a) ==
  /\ outcome[a] = "handling" => \E e \in Executors : alert[e] = a
  /\ outcome[a] = "new" => Sent(a) = {}

\* Only who is busy has an alert.
LEMMA InHandParts ==
  ASSUME TypeOK, OneHandler
  PROVE  InHand <=> /\ \A f \in Executors, a \in Alerts : alert[f] = a => OfHandler(f, a)
                    /\ \A a \in Alerts : OfAlert(a)
<1>1. ASSUME NEW f \in Executors, pc[f] \in Before \cup After \cup {"flush"}
      PROVE  alert[f] \in Alerts
  BY <1>1 DEF OneHandler, TypeOK, Before, After
<1>2. (\A f \in Executors :
        /\ pc[f] \in Before \cup After => outcome[alert[f]] = "handling"
        /\ pc[f] = "flush" => outcome[alert[f]] \notin {"new", "handling"}
        /\ pc[f] \in Before => Sent(alert[f]) = {}
        /\ pc[f] \in After => Sent(alert[f]) # {})
      <=> \A f \in Executors, a \in Alerts : alert[f] = a => OfHandler(f, a)
  BY <1>1 DEF OfHandler
<1> QED
  BY <1>2 DEF InHand, OfAlert

LEMMA InHandFromParts ==
  ASSUME TypeOK', OneHandler',
         \A f \in Executors, a \in Alerts : alert'[f] = a => OfHandler(f, a)',
         \A a \in Alerts : OfAlert(a)'
  PROVE  InHand'
<1>1. ASSUME NEW f \in Executors, pc'[f] \in Before \cup After \cup {"flush"}
      PROVE  alert'[f] \in Alerts
  BY <1>1 DEF OneHandler, TypeOK, Before, After
<1> QED
  BY <1>1 DEF InHand, OfAlert, OfHandler

\* An executor that does not step keeps its part.
LEMMA OthersInHand ==
  ASSUME LoopAssumption, TypeOK, OneHandler, NEW e \in Executors, NEW f \in Executors,
         f # e, NEW a \in Alerts, alert[f] = a, OfHandler(f, a),
         Middle(e) \/ Flush(e) \/ Restart(e)
  PROVE  OfHandler(f, a)'
<1>1. pc'[f] = pc[f]
  BY OthersStay
<1>2. a # alert[e]
  BY DEF OneHandler, LoopAssumption
<1>3. Aloof(a)
  BY <1>2, OthersAloof
<1> QED
  BY <1>1, <1>3 DEF OfHandler, Aloof

\* An alert that nobody touches keeps its part.
LEMMA OthersOfAlert ==
  ASSUME LoopAssumption, TypeOK, NEW e \in Executors, NEW a \in Alerts, a # alert[e],
         OfAlert(a), Middle(e) \/ Flush(e) \/ Restart(e)
  PROVE  OfAlert(a)'
<1>1. Aloof(a)
  BY OthersAloof
<1>2. \A f \in Executors : alert[f] = a => alert'[f] = a
  <2> SUFFICES ASSUME NEW f \in Executors, alert[f] = a
               PROVE  alert'[f] = a
    OBVIOUS
  <2>1. f # e
    OBVIOUS
  <2> QED
    BY <2>1, OthersStay
<1> QED
  BY <1>1, <1>2 DEF OfAlert, Aloof, Sent

LEMMA MiddleKeepsInHand ==
  ASSUME LoopAssumption, TypeOK, OneHandler, InHand, TypeOK', OneHandler',
         NEW e \in Executors, NEW a \in Alerts, alert[e] = a, Middle(e)
  PROVE  InHand'
<1>1. alert' = alert /\ pc[e] \notin {"idle", "flush"}
  BY MiddleMoves DEF Moves
<1>2. OfHandler(e, a) /\ OfAlert(a)
  BY InHandParts
<1>3. OfHandler(e, a)' /\ OfAlert(a)'
  <2>1. CASE Onward(e)
    <3>1. outcome'[a] = outcome[a] /\ Sent(a)' = Sent(a)
      BY <2>1, OwnOnward DEF Aloof
    <3> QED
      BY <1>1, <1>2, <2>1, <3>1 DEF Onward, OfHandler, OfAlert, Before, After
  <2>2. CASE Ends(e)
    <3>1. outcome'[a] \notin {"new", "handling"} /\ pc'[e] = "flush"
      BY <2>2, OwnEnds DEF Ends
    <3> QED
      BY <3>1 DEF OfHandler, OfAlert, Before, After
  <2>3. CASE Sends(e)
    <3>1. /\ \/ pc'[e] = "verify" /\ outcome'[a] = outcome[a]
             \/ pc'[e] = "flush" /\ outcome'[a] = "escalated"
          /\ Sent(a)' = Sent(a) \cup {Len(executions) + 1}
      BY <2>3, OwnSends
    <3>2. outcome[a] = "handling"
      BY <1>2, <2>3 DEF Sends, OfHandler, Before
    <3> QED
      BY <1>1, <3>1, <3>2 DEF OfHandler, OfAlert, Before, After
  <2> QED
    BY <2>1, <2>2, <2>3, MiddleGoes
<1>4. ASSUME NEW f \in Executors, NEW b \in Alerts, alert'[f] = b
      PROVE  OfHandler(f, b)'
  <2>1. CASE f = e
    BY <1>1, <1>3, <1>4, <2>1
  <2>2. CASE f # e
    <3>1. alert[f] = b /\ OfHandler(f, b)
      BY <1>1, <1>4, InHandParts
    <3> QED
      BY <2>2, <3>1, OthersInHand
  <2> QED
    BY <2>1, <2>2
<1>5. ASSUME NEW b \in Alerts
      PROVE  OfAlert(b)'
  <2>1. CASE b = a
    BY <1>3, <2>1
  <2>2. CASE b # a
    <3>1. OfAlert(b)
      BY InHandParts
    <3> QED
      BY <2>2, <3>1, OthersOfAlert
  <2> QED
    BY <2>1, <2>2
<1> QED
  BY <1>4, <1>5, InHandFromParts

\* The executor lets its alert go, which has ended.
LEMMA LetGoKeepsInHand ==
  ASSUME LoopAssumption, TypeOK, OneHandler, InHand, TypeOK', OneHandler',
         NEW e \in Executors, Flush(e) \/ Restart(e)
  PROVE  InHand'
<1>1. alert'[e] = None
  BY DEF Flush, Restart, Forget, TypeOK
<1>2. ASSUME NEW f \in Executors, NEW b \in Alerts, alert'[f] = b
      PROVE  OfHandler(f, b)'
  <2>1. f # e
    BY <1>1, <1>2 DEF LoopAssumption
  <2>2. alert[f] = b
    BY <1>2, <2>1, OthersStay
  <2>3. OfHandler(f, b)
    BY <2>2, InHandParts
  <2> QED
    BY <2>1, <2>2, <2>3, OthersInHand
<1>3. ASSUME NEW b \in Alerts
      PROVE  OfAlert(b)'
  <2>1. CASE b # alert[e]
    <3>1. OfAlert(b)
      BY InHandParts
    <3> QED
      BY <2>1, <3>1, OthersOfAlert
  <2>2. CASE b = alert[e]
    <3>1. pc[e] # "idle" /\ outcome[b] # "new"
      BY <2>2 DEF OneHandler, LoopAssumption
    <3>2. CASE Restart(e)
      <4>1. b # None
        BY DEF LoopAssumption
      <4>2. outcome'[b] = IF outcome[b] = "handling" THEN "died" ELSE outcome[b]
        BY <2>2, <3>2, <4>1 DEF Restart, TypeOK
      <4> QED
        BY <3>1, <4>2 DEF OfAlert
    <3>3. CASE Flush(e)
      <4>1. OfHandler(e, b)
        BY <2>2, InHandParts
      <4>2. outcome' = outcome /\ pc[e] = "flush"
        BY <3>3 DEF Flush
      <4> QED
        BY <4>1, <4>2 DEF OfAlert, OfHandler
    <3> QED
      BY <3>2, <3>3
  <2> QED
    BY <2>1, <2>2
<1> QED
  BY <1>2, <1>3, InHandFromParts

LEMMA ReceiveKeepsInHand ==
  ASSUME LoopAssumption, TypeOK, OneHandler, InHand, TypeOK', OneHandler',
         NEW e \in Executors, NEW a \in Alerts, ReceiveAlert(e, a)
  PROVE  InHand'
<1>1. /\ pc[e] = "idle" /\ alert[e] = None /\ alert'[e] = a /\ outcome[a] = "new"
      /\ \/ pc'[e] = "detect" /\ outcome'[a] = "handling"
         \/ pc'[e] = "flush" /\ outcome'[a] = "escalated"
      /\ \A f \in Executors : f # e => pc'[f] = pc[f] /\ alert'[f] = alert[f]
      /\ \A b \in Alerts : b # a => outcome'[b] = outcome[b]
  BY DEF ReceiveAlert, Goto, TypeOK, OneHandler
<1>2. ASSUME NEW b
      PROVE  Sent(b)' = Sent(b)
  BY SentStays DEF ReceiveAlert
<1>3. Sent(a) = {}
  BY <1>1 DEF InHand
<1>4. ASSUME NEW f \in Executors, NEW b \in Alerts, alert'[f] = b
      PROVE  OfHandler(f, b)'
  <2>1. CASE f = e
    BY <1>1, <1>2, <1>3, <1>4, <2>1 DEF OfHandler, Before, After
  <2>2. CASE f # e
    <3>1. alert[f] = b /\ pc'[f] = pc[f]
      BY <1>1, <1>4, <2>2
    <3>2. outcome[b] # "new" /\ OfHandler(f, b)
      BY <3>1, InHandParts DEF OneHandler, LoopAssumption
    <3>3. outcome'[b] = outcome[b]
      BY <1>1, <3>2
    <3> QED
      BY <1>2, <3>1, <3>2, <3>3 DEF OfHandler
  <2> QED
    BY <2>1, <2>2
<1>5. ASSUME NEW b \in Alerts
      PROVE  OfAlert(b)'
  <2>1. CASE b = a
    BY <1>1, <2>1 DEF OfAlert
  <2>2. CASE b # a
    <3>1. OfAlert(b)
      BY InHandParts
    <3>2. alert[e] # b
      BY <1>1 DEF LoopAssumption
    <3> QED
      BY <1>1, <1>2, <2>2, <3>1, <3>2 DEF OfAlert
  <2> QED
    BY <2>1, <2>2
<1> QED
  BY <1>4, <1>5, InHandFromParts

LEMMA InHandKept ==
  ASSUME LoopAssumption, TypeOK, OneHandler, InHand, TypeOK', OneHandler', [Next]_vars
  PROVE  InHand'
<1>1. ASSUME NEW e \in Executors, Middle(e)
      PROVE  InHand'
  <2>1. alert[e] \in Alerts
    BY <1>1, MiddleMoves DEF Moves, OneHandler, TypeOK
  <2> QED
    BY <1>1, <2>1, MiddleKeepsInHand
<1>2. CASE \E e \in Executors : Flush(e) \/ Restart(e)
  BY <1>2, LetGoKeepsInHand
<1>3. CASE \E e \in Executors, a \in Alerts : ReceiveAlert(e, a)
  BY <1>3, ReceiveKeepsInHand
<1>4. CASE UNCHANGED vars \/ \E k \in Keys : Expire(k)
  <2>1. UNCHANGED <<pc, alert, outcome>>
    BY <1>4 DEF vars, Expire
  <2>2. ASSUME NEW b
        PROVE  Sent(b)' = Sent(b)
    BY <1>4, SentStays DEF vars, Expire
  <2>3. \A f \in Executors, a \in Alerts : alert'[f] = a => OfHandler(f, a)'
    BY <2>1, <2>2, InHandParts DEF OfHandler
  <2>4. \A a \in Alerts : OfAlert(a)'
    BY <2>1, <2>2, InHandParts DEF OfAlert
  <2> QED
    BY <2>3, <2>4, InHandFromParts
<1> QED
  BY <1>1, <1>2, <1>3, <1>4, NextCases

\* What is left of an incident is a matter of its outcome and its handler.
Left(o, step) ==
  CASE o = "new" -> 12
    [] o = "handling" -> CallsAhead(step)
    [] OTHER -> 0

LEMMA AheadIs ==
  ASSUME LoopAssumption, OneHandler, NEW e \in Executors, NEW a \in Alerts, alert[e] = a
  PROVE  AheadOf(a) = Left(outcome[a], pc[e])
<1>1. HandlerOf(a) = e
  BY HandlerIs
<1>2. CallsAhead("detect") + 1 = 12
  BY DEF CallsAhead
<1> QED
  BY <1>1, <1>2 DEF AheadOf, Left

LEMMA AheadIsNatural == ASSUME NEW step PROVE CallsAhead(step) \in 0..11
  BY DEF CallsAhead

LEMMA StillAhead == ASSUME NEW step \in Before \cup After PROVE CallsAhead(step) > 0
  BY DEF CallsAhead, Before, After

\* An alert in the hands of another executor, or of none, stays where it is.
LEMMA OthersCourse ==
  ASSUME LoopAssumption, TypeOK, OneHandler, InHand, OneHandler', NEW a \in Alerts, Aloof(a),
         \A f \in Executors : alert[f] = a =>
           \/ outcome[a] # "handling"
           \/ pc'[f] = pc[f] /\ alert'[f] = a
  PROVE  UNCHANGED CourseOf(a)!vars
<1>1. AheadOf(a)' = AheadOf(a)
  <2>1. CASE outcome[a] = "handling"
    <3>1. PICK f \in Executors : alert[f] = a
      BY <2>1 DEF InHand
    <3>2. alert'[f] = a /\ pc'[f] = pc[f]
      BY <2>1, <3>1
    <3>3. HandlerOf(a) = f
      BY <3>1, HandlerIs
    <3>4. HandlerOf(a)' = f
      <4>1. \A g \in Executors : alert'[g] = a => g = f
        BY <3>2 DEF OneHandler, LoopAssumption
      <4> QED
        BY <3>2, <4>1 DEF HandlerOf
    <3> QED
      BY <2>1, <3>2, <3>3, <3>4 DEF AheadOf, Aloof
  <2>2. CASE outcome[a] # "handling"
    BY <2>2 DEF AheadOf, Aloof
  <2> QED
    BY <2>1, <2>2
<1> QED
  BY <1>1 DEF CourseOf!vars, Aloof

\* The step of an executor is a step of the course of its alert.
LEMMA OwnCourse ==
  ASSUME LoopAssumption, TypeOK, OneHandler, InHand, OneHandler',
         NEW e \in Executors, NEW a \in Alerts, alert[e] = a, Middle(e)
  PROVE  CourseOf(a)!Next
<1>1. /\ alert' = alert /\ pc[e] \in Before \cup After
  BY MiddleMoves DEF Moves, TypeOK, Steps, Before, After
<1>2. OfHandler(e, a) /\ outcome[a] = "handling"
  BY <1>1, InHandParts DEF OfHandler
<1>3. AheadOf(a) = CallsAhead(pc[e]) /\ CallsAhead(pc[e]) > 0
  BY <1>1, <1>2, AheadIs, StillAhead DEF Left
<1>4. AheadOf(a)' = Left(outcome'[a], pc'[e])
  <2>1. HandlerOf(a)' = e
    <3>1. \A g \in Executors : alert'[g] = a => g = e
      BY <1>1 DEF OneHandler, LoopAssumption
    <3> QED
      BY <1>1, <3>1 DEF HandlerOf
  <2>2. CallsAhead("detect") + 1 = 12
    BY DEF CallsAhead
  <2> QED
    BY <2>1, <2>2 DEF AheadOf, Left
<1>5. CASE Onward(e)
  <2>1. outcome'[a] = outcome[a] /\ Sent(a)' = Sent(a)
    BY <1>5, OwnOnward DEF Aloof
  <2>2. AheadOf(a)' = CallsAhead(pc'[e])
    BY <1>2, <1>4, <2>1 DEF Left
  <2>3. AheadOf(a)' \in Nat /\ AheadOf(a)' < AheadOf(a)
    BY <1>3, <1>5, <2>2, AheadIsNatural DEF Onward
  <2>4. CourseOf(a)!Proceed
    BY <1>2, <2>1 DEF CourseOf!Proceed
  <2> QED
    BY <2>3, <2>4 DEF CourseOf!Next
<1>6. CASE Ends(e)
  <2>1. /\ outcome'[a] \in IF pc[e] \in Before
              THEN {"closed", "duplicate_denied", "escalated"}
              ELSE {"auto_resolved", "retry", "rolled_back", "duplicate_denied", "escalated"}
        /\ Sent(a)' = Sent(a)
    BY <1>6, OwnEnds
  <2>2. AheadOf(a)' = 0
    BY <1>4, <2>1 DEF Left
  <2>3. Sent(a) = {} <=> pc[e] \in Before
    BY <1>1, <1>2 DEF OfHandler
  <2>4. CourseOf(a)!End
    BY <1>2, <2>1, <2>3 DEF CourseOf!End, CourseOf!EndsUnacted, CourseOf!EndsActed
  <2>5. AheadOf(a)' \in Nat /\ AheadOf(a)' < AheadOf(a)
    BY <1>3, <2>2
  <2> QED
    BY <2>4, <2>5 DEF CourseOf!Next
<1>7. CASE Sends(e)
  <2>1. /\ \/ pc'[e] = "verify" /\ outcome'[a] = outcome[a]
           \/ pc'[e] = "flush" /\ outcome'[a] = "escalated"
        /\ Sent(a)' = Sent(a) \cup {Len(executions) + 1}
    BY <1>7, OwnSends
  <2>2. Sent(a) = {}
    BY <1>2, <1>7 DEF Sends, OfHandler, Before
  <2>3. CallsAhead(pc[e]) = 3
    BY <1>7 DEF Sends, CallsAhead
  <2>4. AheadOf(a)' \in {0, 2}
    BY <1>2, <1>4, <2>1 DEF Left, CallsAhead
  <2>5. CourseOf(a)!Act
    BY <1>2, <2>1, <2>2 DEF CourseOf!Act
  <2>6. AheadOf(a)' \in Nat /\ AheadOf(a)' < AheadOf(a)
    BY <1>3, <2>3, <2>4
  <2> QED
    BY <2>5, <2>6 DEF CourseOf!Next
<1> QED
  BY <1>5, <1>6, <1>7, MiddleGoes

\* A process that ends leaves the incident in its hands dead, or ended as it was.
LEMMA RestartCourse ==
  ASSUME LoopAssumption, TypeOK, OneHandler, InHand, OneHandler',
         NEW e \in Executors, NEW a \in Alerts, alert[e] = a, Restart(e)
  PROVE  CourseOf(a)!Next \/ UNCHANGED CourseOf(a)!vars
<1>1. Sent(a)' = Sent(a) /\ a # None
  BY SentStays DEF Restart, LoopAssumption
<1>2. outcome'[a] = IF outcome[a] = "handling" THEN "died" ELSE outcome[a]
  BY <1>1 DEF Restart, TypeOK
<1>3. CASE outcome[a] = "handling"
  <2>1. pc[e] \in Before \cup After
    <3>1. pc[e] \notin {"idle", "flush"}
      BY <1>1, <1>3 DEF OneHandler, InHand
    <3> QED
      BY <3>1 DEF TypeOK, Steps, Before, After
  <2>2. AheadOf(a) = CallsAhead(pc[e]) /\ CallsAhead(pc[e]) > 0
    BY <1>3, <2>1, AheadIs, StillAhead DEF Left
  <2>3. AheadOf(a)' = 0 /\ AheadOf(a)' \in Nat /\ AheadOf(a)' < AheadOf(a)
    <3>1. AheadOf(a)' = 0
      BY <1>2, <1>3 DEF AheadOf
    <3> QED
      BY <2>2, <3>1, AheadIsNatural
  <2>4. CourseOf(a)!End
    BY <1>1, <1>2, <1>3 DEF CourseOf!End, CourseOf!EndsUnacted, CourseOf!EndsActed
  <2> QED
    BY <2>3, <2>4 DEF CourseOf!Next
<1>4. CASE outcome[a] # "handling"
  BY <1>1, <1>2, <1>4 DEF CourseOf!vars, AheadOf
<1> QED
  BY <1>3, <1>4

LEMMA ReceiveCourse ==
  ASSUME LoopAssumption, TypeOK, OneHandler, InHand, OneHandler',
         NEW e \in Executors, NEW a \in Alerts, ReceiveAlert(e, a)
  PROVE  CourseOf(a)!Next
<1>1. /\ alert'[e] = a /\ outcome[a] = "new"
      /\ \/ pc'[e] = "detect" /\ outcome'[a] = "handling"
         \/ pc'[e] = "flush" /\ outcome'[a] = "escalated"
  BY DEF ReceiveAlert, Goto, TypeOK
<1>2. Sent(a)' = Sent(a)
  BY SentStays DEF ReceiveAlert
<1>3. CallsAhead("detect") = 11
  BY DEF CallsAhead
<1>4. AheadOf(a) = 12
  BY <1>1, <1>3 DEF AheadOf
<1>5. HandlerOf(a)' = e
  <2>1. \A g \in Executors : alert'[g] = a => g = e
    BY <1>1 DEF OneHandler, LoopAssumption
  <2> QED
    BY <1>1, <2>1 DEF HandlerOf
<1>6. AheadOf(a)' \in {0, 11}
  BY <1>1, <1>3, <1>5 DEF AheadOf
<1>7. CourseOf(a)!Begin
  BY <1>1, <1>2 DEF CourseOf!Begin
<1>8. AheadOf(a)' \in Nat /\ AheadOf(a)' < AheadOf(a)
  BY <1>4, <1>6
<1> QED
  BY <1>7, <1>8 DEF CourseOf!Next

LEMMA CourseStep ==
  ASSUME LoopAssumption, TypeOK, OneHandler, InHand, OneHandler', [Next]_vars, NEW a \in Alerts
  PROVE  [CourseOf(a)!Next]_(CourseOf(a)!vars)
<1>1. ASSUME NEW e \in Executors, Middle(e) \/ Flush(e) \/ Restart(e)
      PROVE  [CourseOf(a)!Next]_(CourseOf(a)!vars)
  <2>1. CASE alert[e] # a
    <3>1. \A f \in Executors : alert[f] = a => pc'[f] = pc[f] /\ alert'[f] = a
      BY <1>1, <2>1, OthersStay
    <3>2. Aloof(a)
      BY <1>1, <2>1, OthersAloof
    <3> QED
      BY <3>1, <3>2, OthersCourse
  <2>2. CASE alert[e] = a /\ Middle(e)
    BY <2>2, OwnCourse
  <2>3. CASE alert[e] = a /\ Restart(e)
    BY <2>3, RestartCourse
  <2>4. CASE alert[e] = a /\ Flush(e)
    <3>1. outcome' = outcome /\ outcome[a] \notin {"new", "handling"}
      BY <2>4 DEF Flush, InHand
    <3>2. Aloof(a)
      BY <2>4, <3>1, SentStays DEF Flush, Aloof
    <3>3. \A f \in Executors : alert[f] = a => outcome[a] # "handling"
      BY <3>1
    <3> QED
      BY <3>2, <3>3, OthersCourse
  <2> QED
    BY <1>1, <2>1, <2>2, <2>3, <2>4
<1>2. ASSUME NEW e \in Executors, NEW b \in Alerts, ReceiveAlert(e, b)
      PROVE  [CourseOf(a)!Next]_(CourseOf(a)!vars)
  <2>1. CASE a = b
    BY <1>2, <2>1, ReceiveCourse
  <2>2. CASE a # b
    <3>1. outcome'[a] = outcome[a]
      BY <1>2, <2>2 DEF ReceiveAlert, TypeOK
    <3>2. Aloof(a)
      BY <1>2, <3>1, SentStays DEF ReceiveAlert, Aloof
    <3>3. ASSUME NEW f \in Executors, alert[f] = a
          PROVE  pc'[f] = pc[f] /\ alert'[f] = a
      <4>1. f # e
        BY <1>2, <3>3 DEF ReceiveAlert, OneHandler, LoopAssumption
      <4> QED
        BY <1>2, <3>3, <4>1, OthersStay
    <3> QED
      BY <3>2, <3>3, OthersCourse
  <2> QED
    BY <2>1, <2>2
<1>3. CASE UNCHANGED vars \/ \E k \in Keys : Expire(k)
  <2>1. UNCHANGED <<pc, alert, outcome>>
    BY <1>3 DEF vars, Expire
  <2>2. Aloof(a)
    BY <1>3, <2>1, SentStays DEF vars, Expire, Aloof
  <2> QED
    BY <2>1, <2>2, OthersCourse
<1> QED
  BY <1>1, <1>2, <1>3, NextCases

\* Every alert takes the course of an incident, for any number of executors and
\* alerts and under every fault: no call is made twice, it acts at most once, ends
\* once, and its end fits what was sent to the cluster.
THEOREM TakesItsCourse == Spec => CoursesTaken
<1>1. Init => CoursesBegin /\ InHand
  <2>1. ASSUME Init, NEW a \in Alerts
        PROVE  CourseOf(a)!Init
    <3>1. outcome[a] = "new" /\ Sent(a) = {}
      BY <2>1 DEF Init, Sent
    <3>2. AheadOf(a) \in Nat
      BY <3>1 DEF AheadOf, CallsAhead
    <3> QED
      BY <3>1, <3>2 DEF CourseOf!Init
  <2> QED
    BY <2>1, InHandInit, LoopAssumption DEF CoursesBegin
<1>2. IndInv /\ IndInv' /\ InHand /\ [Next]_vars => InHand'
  BY LoopAssumption, InHandKept DEF IndInv
<1>3. IndInv /\ IndInv' /\ InHand /\ [Next]_vars => [CourseSteps]_vars
  BY LoopAssumption, CourseStep DEF IndInv, CourseSteps
<1> QED
  BY <1>1, <1>2, <1>3, InductiveInvariant, PTL DEF Spec, CoursesTaken
=============================================================================
