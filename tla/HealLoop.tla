------------------------------ MODULE HealLoop ------------------------------
(***************************************************************************)
(* executor/main.py: Executor.handle_incident, run by several executors    *)
(* (a rolling update overlaps two pods; a scenario run is one more) that   *)
(* share the DynamoDB table of idempotency keys and the cluster.  An alert *)
(* is one call of handle_incident; a re-injected incident is another alert *)
(* with the same correlation id.                                           *)
(*                                                                         *)
(* Each executor is one thread; a step of it ends where the code talks to  *)
(* the AI engine, DynamoDB, Kubernetes or S3.  The replies are chosen      *)
(* freely among the classes the code tells apart, after the retries of     *)
(* ai_client.py and telemetry_forwarder.py.  Time is absent: whether a     *)
(* failure is still in the breaker's window, or its cooldown is over, is a *)
(* choice (Breaker.tla; CircuitBreaker.tla has the clock), and so is the   *)
(* answer of the Pre-Decide Gate, and when DynamoDB deletes a key whose    *)
(* time to live is over.                                                   *)
(***************************************************************************)
EXTENDS SafetyGate

CONSTANTS
  Executors,     \* processes that run the loop
  Alerts,        \* calls of handle_incident
  Cids,          \* correlation ids
  Namespaces,    \* namespaces of incidents and of action targets
  CidOf, NsOf,   \* correlation_id and tenant_namespace of each alert
  Decisions,     \* plans /v1/decide may answer with
  Threshold,     \* cfg.circuit_fail_threshold
  LocalLocks,    \* executors whose lock is a set in their memory: no table, or no boto3
  Shared,        \* the DynamoDB table, which the others share
  Faults,        \* what else may happen, see FaultKinds
  None

\* "crash": the process is killed.  "exception": an exception that
\* handle_incident does not catch ends the process, after its finally clause.
\* "lost_reply": DynamoDB stores the key but the reply is lost, and the retry
\* of the AWS library finds the key taken.  "late_error": Kubernetes applies a
\* patch and answers with an error.  "expiry": a key outlives its time to live.
FaultKinds == {"crash", "exception", "lost_reply", "late_error", "expiry"}

ASSUME LoopAssumption ==
  /\ CidOf \in [Alerts -> Cids]
  /\ NsOf \in [Alerts -> Namespaces]
  /\ \A d \in Decisions : d.items \in Seq([action : STRING,
       ns : Namespaces \cup {Absent}, replicas : Int \cup {Absent},
       memory : Int \cup {Absent}])
  /\ None \notin Alerts \cup Cids
  /\ Absent \notin Namespaces
  /\ Threshold \in Nat \ {0}
  /\ LocalLocks \subseteq Executors
  /\ Shared \notin Executors
  /\ Faults \subseteq FaultKinds

VARIABLES
  pc,           \* where each executor is in handle_incident
  alert,        \* the alert it handles, or None
  buffer,       \* InMemoryTelemetryBuffer._items: the alerts whose windows it holds
  cid,          \* correlation_id of the incident, after /v1/detect
  plan,         \* ctx.decide
  fails, open,  \* its circuit breaker, without a clock
  owner,        \* the idempotency keys: who stored each, or None
  executions,   \* history: actions sent to the cluster or to the GitOps stub
  outcome,      \* what handle_incident returned for each alert
  audited       \* alerts whose audit trail is in S3

vars == <<pc, alert, buffer, cid, plan, fails, open, owner, executions,
          outcome, audited>>

Steps == {"idle", "detect", "gate", "breaker", "lock", "decide", "safety",
          "snapshot", "dry_run", "patch", "commit", "verify", "rollback", "flush"}

\* The terminal states of handle_incident, without the reason of an escalation.
Outcomes == {"new", "handling", "auto_resolved", "retry", "rolled_back", "closed",
             "duplicate_denied", "escalated", "died"}

\* A key is the uuid5 of a correlation id, in the table that the executor uses.
Keys == (Executors \cup {Shared}) \X Cids

Table(e) == IF e \in LocalLocks THEN e ELSE Shared

\* An action is guarded while the key it was taken under is in its table.
Execution == [alert : Alerts, key : Keys, guarded : BOOLEAN, ns : Namespaces,
              path : {"urgent", "deferred"}, landed : BOOLEAN]

TypeOK ==
  /\ pc \in [Executors -> Steps]
  /\ alert \in [Executors -> Alerts \cup {None}]
  /\ buffer \in [Executors -> Seq(Alerts)]
  /\ cid \in [Executors -> Cids \cup {None}]
  /\ plan \in [Executors -> Decisions \cup {None}]
  /\ fails \in [Executors -> Nat]
  /\ open \in [Executors -> BOOLEAN]
  /\ owner \in [Keys -> Alerts \cup {None}]
  /\ executions \in Seq(Execution)
  /\ outcome \in [Alerts -> Outcomes]
  /\ audited \subseteq Alerts

Init ==
  /\ pc = [e \in Executors |-> "idle"]
  /\ alert = [e \in Executors |-> None]
  /\ buffer = [e \in Executors |-> <<>>]
  /\ cid = [e \in Executors |-> None]
  /\ plan = [e \in Executors |-> None]
  /\ fails = [e \in Executors |-> 0]
  /\ open = [e \in Executors |-> FALSE]
  /\ owner = [k \in Keys |-> None]
  /\ executions = <<>>
  /\ outcome = [a \in Alerts |-> "new"]
  /\ audited = {}

-----------------------------------------------------------------------------
\* Frames and small steps shared by the actions.

breakerVars == <<fails, open>>

Goto(e, step) == pc' = [pc EXCEPT ![e] = step]

\* handle_incident returns out; the finally clause is still to run.
Return(e, out) ==
  /\ Goto(e, "flush")
  /\ outcome' = [outcome EXCEPT ![alert[e]] = out]

\* breaker.record_failure(): some earlier failures are still in the window.
RecordFailure(e) ==
  \E recent \in 0..fails[e] :
    /\ fails' = [fails EXCEPT ![e] = recent + 1]
    /\ open' = [open EXCEPT ![e] = @ \/ recent + 1 >= Threshold]

\* An AIError other than 409: recorded and escalated.
AiFailure(e) == RecordFailure(e) /\ Return(e, "escalated")

\* Mutant: the audit reason is returned in place of the terminal state.
AiConflictReason(e) == Return(e, "ai_409_conflict") /\ UNCHANGED breakerVars

\* 409, from any of the three endpoints.
AiConflict(e) == Return(e, "duplicate_denied") /\ UNCHANGED breakerVars

-----------------------------------------------------------------------------
\* handle_incident is called with a new alert; its window is normalised and
\* queued, or breaks the telemetry contract.
ReceiveAlert(e, a) ==
  /\ pc[e] = "idle"
  /\ outcome[a] = "new"
  /\ alert' = [alert EXCEPT ![e] = a]
  /\ \/ /\ buffer' = [buffer EXCEPT ![e] = Append(@, a)]
        /\ outcome' = [outcome EXCEPT ![a] = "handling"]
        /\ Goto(e, "detect")
     \/ /\ outcome' = [outcome EXCEPT ![a] = "escalated"]
        /\ Goto(e, "flush")
        /\ UNCHANGED buffer
  /\ UNCHANGED <<cid, plan, breakerVars, owner, executions, audited>>

\* [1] forward_detect_once(): the oldest queued window goes to /v1/detect, and
\* the correlation id of the reply, that of the queued payload, is taken over.
\* A 400 puts the payload into the dead-letter queue, which is the same list.
Detect(e) ==
  /\ pc[e] = "detect"
  /\ buffer[e] # <<>>
  /\ LET payload == Head(buffer[e]) IN
     \/ /\ cid' = [cid EXCEPT ![e] = CidOf[payload]]
        /\ buffer' = [buffer EXCEPT ![e] = Tail(@)]
        /\ Goto(e, "gate")
        /\ UNCHANGED <<breakerVars, outcome>>
     \/ /\ buffer' = [buffer EXCEPT ![e] = Append(Tail(@), payload)]
        /\ AiFailure(e)
        /\ UNCHANGED cid
     \/ /\ buffer' = [buffer EXCEPT ![e] = Tail(@)]
        /\ AiFailure(e) \/ AiConflict(e)
        /\ UNCHANGED cid
  /\ UNCHANGED <<alert, plan, owner, executions, audited>>

\* [1.5] Pre-Decide Gate.
PreDecide(e) ==
  /\ pc[e] = "gate"
  /\ \/ Goto(e, "breaker") /\ UNCHANGED outcome
     \/ \E out \in {"closed", "escalated"} : Return(e, out)
  /\ UNCHANGED <<alert, buffer, cid, plan, breakerVars, owner, executions, audited>>

\* Mutant: an open breaker lets the incident through and stays open.
CheckBreakerIgnored(e) ==
  /\ pc[e] = "breaker"
  /\ Goto(e, "lock")
  /\ UNCHANGED <<breakerVars, outcome, alert, buffer, cid, plan, owner, executions, audited>>

\* [1.6] breaker.is_open(): an open breaker may find its cooldown over.
CheckBreaker(e) ==
  /\ pc[e] = "breaker"
  /\ \/ /\ ~open[e]
        /\ Goto(e, "lock")
        /\ UNCHANGED <<breakerVars, outcome>>
     \/ /\ open[e]
        /\ open' = [open EXCEPT ![e] = FALSE]
        /\ fails' = [fails EXCEPT ![e] = 0]
        /\ Goto(e, "lock")
        /\ UNCHANGED outcome
     \/ /\ open[e]
        /\ Return(e, "escalated")
        /\ UNCHANGED breakerVars
  /\ UNCHANGED <<alert, buffer, cid, plan, owner, executions, audited>>

\* The idempotency key of the incident, deterministic in its correlation id.
KeyOf(e) == <<Table(e), cid[e]>>

\* Mutant: put_item without its condition.
AcquireLockUnconditionally(e) ==
  /\ pc[e] = "lock"
  /\ owner' = [owner EXCEPT ![KeyOf(e)] = alert[e]]
  /\ Goto(e, "decide")
  /\ UNCHANGED <<alert, buffer, cid, plan, breakerVars, executions, outcome, audited>>

\* locks.acquire(): put_item on condition that the key does not exist, which
\* DynamoDB also judges of a key past its time to live that it has not deleted;
\* or the membership test on the set in memory, which has no reply to lose.
AcquireLock(e) ==
  /\ pc[e] = "lock"
  /\ \/ /\ owner[KeyOf(e)] = None
        /\ owner' = [owner EXCEPT ![KeyOf(e)] = alert[e]]
        /\ \/ Goto(e, "decide") /\ UNCHANGED outcome
           \/ /\ "lost_reply" \in Faults
              /\ e \notin LocalLocks
              /\ Return(e, "duplicate_denied")
     \/ /\ owner[KeyOf(e)] # None
        /\ Return(e, "duplicate_denied")
        /\ UNCHANGED owner
  /\ UNCHANGED <<alert, buffer, cid, plan, breakerVars, executions, audited>>

\* [2] /v1/decide.
Decide(e) ==
  /\ pc[e] = "decide"
  /\ \/ /\ \E d \in Decisions : plan' = [plan EXCEPT ![e] = d]
        /\ Goto(e, "safety")
        /\ UNCHANGED <<breakerVars, outcome>>
     \/ /\ AiFailure(e) \/ AiConflict(e)
        /\ UNCHANGED plan
  /\ UNCHANGED <<alert, buffer, cid, owner, executions, audited>>

\* Mutant: the namespace of the plan is taken for that of the incident.
PassSafetyOfPlan(e) ==
  /\ pc[e] = "safety"
  /\ IF plan[e].items # <<>> /\ Allows(plan[e], plan[e].items[1].ns)
       THEN Goto(e, "snapshot") /\ UNCHANGED outcome
       ELSE Return(e, "escalated")
  /\ UNCHANGED <<alert, buffer, cid, plan, breakerVars, owner, executions, audited>>

\* [3] Safety Gate, with the namespace of the alert.
PassSafety(e) ==
  /\ pc[e] = "safety"
  /\ IF Allows(plan[e], NsOf[alert[e]])
       THEN Goto(e, "snapshot") /\ UNCHANGED outcome
       ELSE Return(e, "escalated")
  /\ UNCHANGED <<alert, buffer, cid, plan, breakerVars, owner, executions, audited>>

\* [4] The rollback snapshot, and the executor for the kind of plan.
CaptureSnapshot(e) ==
  /\ pc[e] = "snapshot"
  /\ Goto(e, IF plan[e].pattern = "urgent" THEN "dry_run" ELSE "commit")
  /\ UNCHANGED <<alert, buffer, cid, plan, breakerVars, owner, executions,
                 outcome, audited>>

ExecuteFailed(e) == RecordFailure(e) /\ Return(e, "escalated")

\* Server-side dry run of the first item of the plan.
DryRun(e) ==
  /\ pc[e] = "dry_run"
  /\ \/ Goto(e, "patch") /\ UNCHANGED <<breakerVars, outcome>>
     \/ ExecuteFailed(e)
  /\ UNCHANGED <<alert, buffer, cid, plan, owner, executions, audited>>

Record(e, landed) ==
  executions' = Append(executions,
    [alert |-> alert[e], key |-> KeyOf(e), guarded |-> TRUE, ns |-> plan[e].items[1].ns,
     path |-> plan[e].pattern, landed |-> landed])

\* Mutant: the status of the patch is not looked at.
PatchUnchecked(e) ==
  /\ pc[e] = "patch"
  /\ \E landed \in BOOLEAN : Record(e, landed)
  /\ Goto(e, "verify")
  /\ UNCHANGED <<alert, buffer, cid, plan, breakerVars, owner, outcome, audited>>

\* The patch itself.
Patch(e) ==
  /\ pc[e] = "patch"
  /\ \/ /\ Record(e, TRUE)
        /\ Goto(e, "verify")
        /\ UNCHANGED <<breakerVars, outcome>>
     \/ /\ \/ Record(e, FALSE)
           \/ "late_error" \in Faults /\ Record(e, TRUE)
        /\ ExecuteFailed(e)
  /\ UNCHANGED <<alert, buffer, cid, plan, owner, audited>>

\* The deferred executor is a stub: it reports COMPLETED and changes nothing.
Commit(e) ==
  /\ pc[e] = "commit"
  /\ Record(e, FALSE)
  /\ Goto(e, "verify")
  /\ UNCHANGED <<alert, buffer, cid, plan, breakerVars, owner, outcome, audited>>

\* Mutant: RETRY asks /v1/verify again, for ever.
VerifyLoops(e) ==
  /\ pc[e] = "verify"
  /\ \/ /\ Return(e, "auto_resolved")
        /\ fails' = [fails EXCEPT ![e] = 0]
     \/ Goto(e, "verify") /\ fails' = [fails EXCEPT ![e] = 1 - @] /\ UNCHANGED outcome
  /\ UNCHANGED <<alert, buffer, cid, plan, open, owner, executions, audited>>

\* Mutant: RETRY sends the action again, within the same call.
VerifyResends(e) ==
  /\ pc[e] = "verify"
  /\ \/ /\ Return(e, "auto_resolved")
        /\ fails' = [fails EXCEPT ![e] = 0]
        /\ UNCHANGED open
     \/ Goto(e, "snapshot") /\ UNCHANGED <<breakerVars, outcome>>
  /\ UNCHANGED <<alert, buffer, cid, plan, owner, executions, audited>>

\* [5] and [6] /v1/verify and its next_action; any other value of it is taken
\* for ESCALATE, which is recorded and escalated as an AIError is.
Verify(e) ==
  /\ pc[e] = "verify"
  /\ \/ /\ Return(e, "auto_resolved")
        /\ fails' = [fails EXCEPT ![e] = 0]
        /\ UNCHANGED open
     \/ Return(e, "retry") /\ UNCHANGED breakerVars
     \/ Goto(e, "rollback") /\ UNCHANGED <<breakerVars, outcome>>
     \/ AiFailure(e) \/ AiConflict(e)
  /\ UNCHANGED <<alert, buffer, cid, plan, owner, executions, audited>>

\* executor.rollback() (Rollout.tla): its status is logged and then ignored.
Rollback(e) ==
  /\ pc[e] = "rollback"
  /\ Return(e, "rolled_back")
  /\ UNCHANGED <<alert, buffer, cid, plan, breakerVars, owner, executions, audited>>

\* The executor is free again; what handle_incident kept for the incident is gone.
Forget(e) ==
  /\ Goto(e, "idle")
  /\ alert' = [alert EXCEPT ![e] = None]
  /\ cid' = [cid EXCEPT ![e] = None]
  /\ plan' = [plan EXCEPT ![e] = None]

\* finally: log.flush().
Flush(e) ==
  /\ pc[e] = "flush"
  /\ audited' = audited \cup {alert[e]}
  /\ Forget(e)
  /\ UNCHANGED <<buffer, breakerVars, owner, executions, outcome>>

Step(e) ==
  \/ \E a \in Alerts : ReceiveAlert(e, a)
  \/ Detect(e) \/ PreDecide(e) \/ CheckBreaker(e) \/ AcquireLock(e) \/ Decide(e)
  \/ PassSafety(e) \/ CaptureSnapshot(e) \/ DryRun(e) \/ Patch(e) \/ Commit(e)
  \/ Verify(e) \/ Rollback(e) \/ Flush(e)

\* Keys leave their table: what was done under them is guarded no longer.
Drop(gone) ==
  /\ owner' = [k \in Keys |-> IF k \in gone THEN None ELSE owner[k]]
  /\ executions' = [i \in DOMAIN executions |->
       [executions[i] EXCEPT !.guarded = @ /\ executions[i].key \notin gone]]

\* The process ends and another takes its place with empty memory.
Restart(e) ==
  /\ Forget(e)
  /\ outcome' = IF alert[e] # None /\ outcome[alert[e]] = "handling"
                  THEN [outcome EXCEPT ![alert[e]] = "died"] ELSE outcome
  /\ buffer' = [buffer EXCEPT ![e] = <<>>]
  /\ fails' = [fails EXCEPT ![e] = 0]
  /\ open' = [open EXCEPT ![e] = FALSE]
  /\ Drop({e} \X Cids)

Crash(e) ==
  /\ "crash" \in Faults
  /\ Restart(e)
  /\ UNCHANGED audited

\* Steps that can raise what handle_incident does not catch: a 200 reply that
\* lacks a field (detect, decide, verify), a DynamoDB error other than a failed
\* condition (lock), a Kubernetes error of the snapshot or of the scrape before
\* verify, a transport error of a patch or a rollback.
MayRaise == {"detect", "lock", "decide", "snapshot", "dry_run", "patch", "verify",
             "rollback"}

\* The audit trail is flushed on the way out; the flush itself may fail too.
Raise(e) ==
  /\ "exception" \in Faults
  /\ \/ pc[e] \in MayRaise /\ audited' = audited \cup {alert[e]}
     \/ pc[e] \in MayRaise \cup {"flush"} /\ UNCHANGED audited
  /\ Restart(e)

\* Between the lock and the first write.
Holding == {"decide", "safety", "snapshot", "dry_run", "patch", "commit"}

\* Mutant: a time to live shorter than the incident.
ExpireInUse(k) ==
  /\ "expiry" \in Faults
  /\ owner[k] # None
  /\ k[1] = Shared
  /\ Drop({k})
  /\ UNCHANGED <<pc, alert, buffer, cid, plan, breakerVars, outcome, audited>>

\* DynamoDB deletes a key some time after expires_at, which is 24 hours after the
\* key was stored: an incident comes to its action long before.
Expire(k) ==
  /\ "expiry" \in Faults
  /\ owner[k] # None
  /\ k[1] = Shared
  /\ \A e \in Executors : pc[e] \in Holding => KeyOf(e) # k
  /\ Drop({k})
  /\ UNCHANGED <<pc, alert, buffer, cid, plan, breakerVars, outcome, audited>>

Next ==
  \/ \E e \in Executors : Step(e) \/ Crash(e) \/ Raise(e)
  \/ \E k \in Keys : Expire(k)

Spec == Init /\ [][Next]_vars

\* Every call the loop waits for ends: the AI engine is called with a timeout
\* and a bounded number of retries, the AWS library has timeouts of its own,
\* and the wait before /v1/verify is capped by cfg.verify_max_wait_s.
FairSpec == Spec /\ \A e \in Executors : WF_vars(Step(e))

-----------------------------------------------------------------------------
\* Between the circuit breaker and the end of the incident.
Healing == Holding \cup {"lock", "verify", "rollback"}

\* An incident is acted on at most once while its key stands: by the executors
\* that share the table until the key expires, by one without a table until it
\* restarts; whatever the crashes and re-injections, also when a lost window
\* makes an executor take over the correlation id of another alert
\* (idempotency.py:32-53, main.py:98-103).
AtMostOnce ==
  \A i, j \in DOMAIN executions :
    /\ executions[i].guarded /\ executions[j].guarded
    /\ executions[i].key = executions[j].key
    => i = j

\* What is acted on lies in the namespace of the alert being handled, although
\* the window that was analysed may be that of another (safety_gate.py:86-102).
OwnTenantOnly ==
  \A i \in DOMAIN executions : executions[i].ns = NsOf[executions[i].alert]

\* "auto_resolved" of an urgent plan is said only of a patch that the cluster
\* took: no failed dry run or patch, and no other alert's execution, passes
\* for it (main.py:133-154).
ResolvedMeansLanded ==
  \A a \in Alerts : outcome[a] = "auto_resolved" =>
    \E i \in DOMAIN executions :
      /\ executions[i].alert = a
      /\ executions[i].landed \/ executions[i].path = "deferred"

\* Lock and execution implement the promise of at most one execution by the
\* claimant.
Promise == INSTANCE HealPromise WITH
  claims <- {<<owner[k], k>> : k \in {x \in Keys : owner[x] # None}},
  executed <- [i \in DOMAIN executions |->
                 <<executions[i].alert, executions[i].key, executions[i].guarded>>]

PromiseKept == Promise!Spec

BreakerOf(e) == INSTANCE Breaker WITH
  count <- fails[e], opened <- open[e], admitted <- pc[e] \in Healing

BreakersNew == \A e \in Executors : BreakerOf(e)!Init

BreakerSteps == \A e \in Executors : [BreakerOf(e)!Next]_(BreakerOf(e)!vars)

\* Each executor uses its breaker as the breaker's promise allows: it heals
\* only after being admitted, records at most one verdict per admission, and
\* never heals while the breaker is open.
BreakerUsed == BreakersNew /\ [][BreakerSteps]_vars

\* The calls that an incident may still make when this one is next.
CallsAhead(step) ==
  CASE step = "detect" -> 11
    [] step = "gate" -> 10
    [] step = "breaker" -> 9
    [] step = "lock" -> 8
    [] step = "decide" -> 7
    [] step = "safety" -> 6
    [] step = "snapshot" -> 5
    [] step = "dry_run" -> 4
    [] step \in {"patch", "commit"} -> 3
    [] step = "verify" -> 2
    [] step = "rollback" -> 1
    [] OTHER -> 0

\* The executor that handles alert a.
HandlerOf(a) == CHOOSE e \in Executors : alert[e] = a

\* What was sent to the cluster for alert a.
Sent(a) == {i \in DOMAIN executions : executions[i].alert = a}

AheadOf(a) ==
  CASE outcome[a] = "new" -> CallsAhead("detect") + 1
    [] outcome[a] = "handling" -> CallsAhead(pc[HandlerOf(a)])
    [] OTHER -> 0

CourseOf(a) == INSTANCE IncidentCourse WITH
  outcome <- outcome[a], ahead <- AheadOf(a), sent <- Sent(a)

CoursesBegin == \A a \in Alerts : CourseOf(a)!Init

CourseSteps == \A a \in Alerts : [CourseOf(a)!Next]_(CourseOf(a)!vars)

\* Every alert takes the course of an incident, under every fault and whatever
\* the other executors do: no call is made twice, one call of handle_incident
\* executes at most one action, "resolved", "retry" and "rolled back" are said only of what
\* was sent to the cluster and "closed" only of what was not, and what was said
\* stands (main.py:50-189).
CoursesTaken == CoursesBegin /\ [][CourseSteps]_vars

\* Every alert gets a terminal state, and its trail reaches S3 (no faults).
EveryAlertEnds ==
  \A a \in Alerts :
    (outcome[a] # "new") ~> (outcome[a] # "handling" /\ a \in audited)

-----------------------------------------------------------------------------
\* Statements of the repository's documents that the code does not keep.

\* An incident is detected on its own window; a rejected one is out of the
\* queue, "for analysis" (docs/02_infra_design.md:181 and 189).
OwnWindow ==
  \A e \in Executors : pc[e] \in Healing => cid[e] = CidOf[alert[e]]
=============================================================================
