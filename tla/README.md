# TLA+ models of the self-heal executor

The repository is a self-heal controller ("CDO") for Kubernetes workloads. Its
program is `src/executor`: a Python process that watches pods, sends telemetry
to an AI engine (`/v1/detect`, `/v1/decide`, `/v1/verify`), checks the plan it
gets back, patches the cluster and verifies the result. Beside it stand a mock of
the AI engine with scenario files, and a tool that converts what a customer's
collectors export into the telemetry the executor takes
(`docs/Telemetry_and_Observability/TeamC_Telemetry_customer/custom_telemetry`).
Everything else is documentation, Terraform and manifests.

Line numbers below without a directory are those of `src/executor/<file>`;
`custom_telemetry/` stands for the directory above.

## 1. Inventory

| part | state | operations | what makes it correct |
|---|---|---|---|
| self-heal loop `main.py:50-232` | locals of one call; window, gate, breaker, lock objects of the process | one incident: receive, detect, gate, breaker, lock, decide, safety, snapshot, execute, verify, next action, flush | acted on at most once per correlation id; only in the tenant of the incident; "resolved" only of what the cluster took; every incident ends and leaves its trail |
| circuit breaker `circuit_breaker.py` | deque of failure times, `_opened_at` | `is_open`, `record_failure`, `record_success` | trips exactly on *threshold* failures in one window; blocks for the whole cooldown; closes again |
| safety gate `safety_gate.py` | none | `check` | passes exactly the safe plans; the reason of a denial is true |
| idempotency lock `idempotency.py` | a DynamoDB table shared by all executors, whose keys expire after 24 hours; without a table, or without boto3, a set in memory | conditional `put_item` | one owner per key while the key stands |
| pre-decide gate `pre_decide_gate.py` | a deque of hit times per service | `evaluate` | escalates a flapping service |
| watch loop `main.py:235-258` | cooldown per deployment | poll, skip, heal, sleep | heals are spaced; a lasting fault is taken up |
| telemetry forwarder `telemetry_forwarder.py` | an SQS queue and dead-letter queue, or one list | enqueue, `forward_detect_once` | a delivery of a window is used once; bounded retries |
| AI client `ai_client.py` | retry counters of a call | `_post` | bounded retries per status code |
| action executors, K8s client, snapshot `executors/`, `k8s_client.py`, `snapshot.py` | the cluster | dry run, patch, rollback | no patch after a failed dry run |
| audit `audit.py` | events of an incident; S3 object | `event`, `flush` | a trail for every incident |
| watcher, telemetry contract `watcher.py`, `telemetry_contract.py` | none | pod states to signals; normalisation and validation | what is sent meets the contract |
| escalation `escalation.py` | none | bundle, webhook | every uncertain end is escalated; the bundle tells what was done, whatever the AI adds |
| replies of the AI `models.py` | none | `from_dict` of each reply, `to_dict` of the context | nothing is done that a reply did not say |
| conversion tool `custom_telemetry/` | none | converters of Prometheus answers, Kubernetes events, logs, spans, OTLP exports, scenario files; `auto_normalize` picks one | its window is one the executor accepts, and means what the records meant |
| mock AI `mock_ai_server.py`, `scenarios/`, `run_scenarios.py` | none | detect, decide, verify by scenario; runs the files and counts outcomes | every scenario ends as its file expects |

How they interact: the loop calls the others one after the other in a single
thread. State is shared between *processes* (a rolling update, a scenario run
beside the watcher) through the DynamoDB table, the SQS queue, S3 and the
cluster; and between *incidents* of one process through the buffer, the flap
tracker, the breaker and the cooldown map, all of which a restart forgets.

The hard part is therefore: executors racing for one incident; a process dying
between lock, patch, verify and flush; replies that are lost or late; nested
retries; the in-memory buffer mixing the windows of incidents; and three
sliding windows (flap, breaker, cooldown) on one clock. `PROJECT.json` lists
each hazard at its line, with the properties about it.

## 2. Modules

```
Breaker  <------- implemented by --- CircuitBreaker         (clocked)
   ^------------- implemented by --- HealLoop               (one per executor)
HealPromise <---- implemented by --- HealLoop --- EXTENDS -> SafetyGate
IncidentCourse <- implemented by --- HealLoop               (one per alert)
   ^------------- implemented by --- Intake
Delivery <------- implemented by --- TelemetryForwarder
WatchLoop --- EXTENDS -> PreDecideGate
PodWatcher -- EXTENDS -> TelemetryContract
Rollout
Intake ------ EXTENDS -> CustomTelemetry, AiReplies (both EXTEND Dicts),
                         PreDecideGate, SafetyGate
       ------ INSTANCE -> TelemetryContract
MCIntake ---- EXTENDS -> Intake, INSTANCE -> MockAi
MCHealLoop, MCWatchLoop, MCPodWatcher, MCIntake             (instances for TLC)
CircuitBreaker_proofs, SafetyGate_proofs, HealLoop_proofs, WatchLoop_proofs,
TelemetryForwarder_proofs, Rollout_proofs, PodWatcher_proofs, Intake_proofs
```

The incident appears in two modules that cut it differently. **HealLoop** keeps
the processes, the shared systems and the faults, and knows of the replies only
their class. **Intake** keeps the data, from a collector's export to the bundle
of an escalation, for one incident of one executor. Both implement
**IncidentCourse**, which says what the caller of `handle_incident` and the reader
of its trail may rely on: an incident is begun once, each of its steps leaves fewer
calls ahead of it, it executes at most one action, and its end fits what was sent:
"auto_resolved", "retry" and "rolled_back" are said only of an incident that acted,
"closed" only of one that did not. "duplicate_denied" is said of either, since a 409
of `/v1/verify` ends an incident that has acted under that name (`main.py:156-158`).

**CircuitBreaker** has the deque, `_opened_at` and a clock. `FoundClosed`,
`CooldownEnds` and `FoundOpen` are the three ways through `is_open`;
`RecordFailure` appends, prunes by `Prunes` (the `while` loop, said as the
length of the prefix it removes) and trips. `admitted` is the incident that got
"closed" and has not ended: `main.py` records a success only for it.
`since` is a history of *all* failures since the deque was last cleared, so
that the properties judge the pruned deque against what really happened.

**Breaker** is the same component without a clock: some of the earlier failures
may have left the window, an open breaker may find its cooldown over.

**SafetyGate** writes `check` as tables of `[when, why]` rows, in the order of
the code: the plan first, then each item. `Safe` says what a good plan is
without tables or order, and is the reference the gate is compared with.

**HealLoop** has one action for each call `handle_incident` makes to something
outside the process. `pc` names the call that comes next:

| action | code | action | code |
|---|---|---|---|
| `ReceiveAlert` | 57-67 | `CaptureSnapshot` | 127-134 |
| `Detect` | 69-77, `telemetry_forwarder.py:26-39` | `DryRun`, `Patch` | `executors/urgent.py:20-36` |
| `PreDecide` | 79-86 | `Commit` | `executors/deferred.py:20-39` |
| `CheckBreaker` | 88-92 | `Verify` | 145-154, 171-189 |
| `AcquireLock` | 94-103, `idempotency.py:32-53` | `Rollback` | 180-183 |
| `Decide` | 105-115 | `Flush` | 166-167, `audit.py:84-94` |
| `PassSafety` | 117-125 | `Crash`, `Raise` | faults |

The state of an alert is `outcome`, the string `handle_incident` returns (every
escalation is "escalated": `Intake` has the reasons), with "died" for an incident
whose process ended. `executions` is a history of what was sent to the cluster,
each with the key it was sent under and whether that key still stands
(`guarded`). An alert is a call; a re-injected incident is another alert with the
same correlation id. A key is a correlation id in a `Table`: the DynamoDB table
that the executors share, or the set of an executor in `LocalLocks`, which dies
with its process. The faults are switched on by the constant `Faults`: a crash
anywhere, an exception that `handle_incident` does not catch, a lost DynamoDB
reply, a patch that is applied although its reply is an error, and a key whose
time to live ends (`Expire`). **HealPromise** says what the lock is for: an
incident is acted on at most once under a claim that stands; a claim may lapse.

**WatchLoop** is the production mode: polls, events in turn, the cooldown, with
the flap tracker (`PreDecideGate`) and the breaker in the middle of an
incident. The deployment in each hit and failure is a history annotation. A poll
lists at most one deployment twice, the smallest case of several faulty pods. A
restart forgets cooldowns and begins a new wait, so spacing and waiting are measured
within the life of a process.

**TelemetryForwarder** is the SQS side: several executors send, receive *any*
message or none, delete it and then post it, with the two retry counters of
`_post` inside the retry loop of `forward_detect_once`. The queue is a standard one
with a visibility timeout of 30 s (`infra/modules/audit/main.tf:116-124`), so a
window may be delivered more than once: `Redeliver` puts another delivery of a
window that was sent into the queue at any time, also while the window is being
handled or after it was, and `Expire` takes one out unused. A message of the model
is such a delivery, a window with its number, since SQS too gives each its own
receipt. **Delivery** is what the executors promise: each delivery is taken once, by
one executor, and ends once. It does not say that a *window* is: with two deliveries
it is posted twice, by whichever executors receive them, and what then keeps it from
being healed twice is the lock on the correlation id, in `HealLoop`.

**Rollout** is the urgent path against one Deployment: `Capture` is
`snapshot.py`, `Restart` and `PatchMemory` are the patches, and `rollout_undo`
is three actions (`ReadDeployment`, `ListReplicaSets`, `ApplyPrevious`), because
between its three requests the controller (`Sync`) and others (`Deploy`) work.
It is separate from `HealLoop`, which knows of a patch only whether it landed:
the two meet in the steps snapshot, dry run, patch, verify, rollback.

**PodWatcher** has the container statuses of the pods, changed by the kubelet
one container at a time, and the two readers of `watcher.py`: `Poll`
(`_inspect_pod` as `FaultSignals`) and the scrape in `Verify`
(`scrape_deployment_telemetry` as `StateSignals`). `HandleEvent` passes a window
to the adapter. `given` is the parameter `telemetry_window` of `handle_incident`, as
it came: `Verify` falls back to it when the scrape is empty, and `post` is what the
step sends to `/v1/verify`. The process either watches or handles one scenario file
(`FromFile`). **TelemetryContract** holds the adapter as operators. Windows
are sets of points. WatchLoop keeps its own, coarser idea of a fault: which
deployments a poll reports.

**Intake** follows one input through the stages of its `stage` variable:

| action | stage | code |
|---|---|---|
| `Tool` | tool | `custom_telemetry/normalize_telemetry.py`: the converters of **CustomTelemetry**, then the file of the scenario mode |
| `Accept` | main | `main.py:57-67`, `:261-275`: the file, normalisation and validation (**TelemetryContract**) |
| `Detect` | detect | `main.py:69-86`: the reply field by field (**AiReplies**), the Pre-Decide Gate of a fresh executor |
| `Decide` | decide | `main.py:105-134`: the reply, the safety gate, the snapshot |
| `Execute` | execute | `main.py:133-143` |
| `Verify` | verify | `main.py:145-154`, `:171-189`: the reply, the next action, the AI's own bundle |

Every stage may end the incident with `Escalate`, which assembles the bundle
(`AssembleBundle`, `escalation.py`), and the stages that read a reply with
`Raise`: the `KeyError` of a missing field. **Dicts** has Python's reading of a
dictionary (`get`, `or`, falsy values); a document is a record without its absent
fields, a list is a set of its members where the code does not look at a position,
a stamp is the form it is written in and the instant it means, a metric name the
set of its words. **MockAi** answers as the mock server does.

## 3. Runs

| run | what it shows | bounds |
|---|---|---|
| `breaker` | trips are justified and none is missed; admission only when closed; the cooldown is kept (except by a restart) and ends; `CircuitBreaker => Breaker` | threshold 3, window 2, cooldown 3, clock to 8, 6 failures: the deque is pruned, trips, recovers and is pruned again |
| `intake` | what the tool writes the executor accepts and reads as it was meant; converting twice changes nothing; no record moves in time, but to the date that its digits spell; every scenario ends as its file expects; the gate passes exactly the safe plans and its reasons are true; nothing is made up for an incomplete reply; the bundle tells what was done; `Intake => IncidentCourse` (`CourseTaken`) | every scenario file, as it is and through the tool; odd files; a document of every shape of the converters, with every form of stamp and the falsy values; an AI that answers as the mock, with any one field missing, on both sides of every threshold, or with any plan of 0-2 items over the boundary values of each field (the second item is where a gate that checks only what it executes goes wrong) |
| `heal_safety` | at most one action per incident while its key stands, in the tenant's namespace; resolved means landed; `HealLoop => HealPromise`; breakers used as allowed; each alert takes the course of `IncidentCourse` (`CoursesTaken`) | 2 executors, 3 alerts (2 of one incident, 1 of another tenant), 3 plans, all faults; the view leaves out whether the trail was written, which no guard and no property of this run reads |
| `heal_liveness` | every alert ends and its trail is written | 2 executors with locks in memory, 2 incidents, no crash |
| `watch_loop` | the heals of one deployment are a cooldown apart although every poll gives it a new correlation id; one deployment never looks flapping nor trips the breaker; a lasting fault is taken up in bounded time | 2 deployments that the AI takes for one service, cooldown 2, flap 3 in 4, clock to 9: the ratios of the defaults (300 s, 3 in 600 s) |
| `forwarder` | a delivery is taken and ends at most once, whatever the queue does; nested retries within one limit; calls end; `TelemetryForwarder => Delivery` | 2 executors, 2 windows, 1 retry of each kind, 1 redelivery (`MaxCopies`): a message can be received by one executor, given back by a crash and taken by the other, and a window can be with both executors at once |
| `rollout` | a rollback restores image and memory limit of the snapshot if nobody deployed since, the controller had recorded the template then and a newer one now, and there was a limit | 2 images, 2 limits, 2 restarts, incidents start below revision 3; others deploy at any point, and undos renumber old revisions |
| `watcher` | the windows of the watch loop meet the contract; accepted windows are clean; a scrape without a fault means that the containers with a status serve or back off; frequent restarts are noticed under every timing | 2 pods of one deployment, of 1 container each, so that a new pod without a status stands beside a running old one; threshold 0, restarts to 1 (a restart is already one too many); scenario points with one field absent, empty or strange. `watcher_recovered` has 1 pod of 2 containers, whose phase depends on both, threshold 1 and restarts to 2 |

`watch_loop` deserves a word. `FlapNeedsTwoDeployments` and
`FailuresOfDistinctDeployments` hold because of `SpacingAssumption`:

    FailWindow <= HealCooldown
    FlapWindow <  (FlapThreshold - 1) * (HealCooldown + 1) - 1

which the default configuration satisfies narrowly (300 <= 300, 600 < 601) and
from which they are proved. They say that in production mode the flapping
escalation and the breaker never act on a *single* deployment: a fault that
returns after each apparently successful heal is healed every five minutes for
ever. Whoever changes one of the four numbers changes this. `HealsSpaced` is what
does stop a repeated heal in watch mode: `main.py:255` passes no correlation id,
so the lock sees a new key at every poll and denies nothing there.

Where the code departs from a document or comment, a run finds it (each is a
finding in `PROJECT.json` with the quoted line):

| run | the code | the document |
|---|---|---|
| `breaker_halfopen` | a failed trial does not reopen the breaker | `circuit_breaker.py:9-10` |
| `heal_ownwindow` | a window rejected with 400 is handled as the next incident | `docs/02_infra_design.md:189` |
| `rollout_snapshot` | a rollback never reads the snapshot: after an action that changed nothing it undoes the change before it | `docs/01_requirements_analysis.md:236` |
| `watcher_recovered` | a container in `CrashLoopBackOff` is scraped as a healthy one is | `watcher.py:147`, `watcher.py:157` |

Further departures that the model has as behaviours, without a run of their
own: the re-injection that "retry" asks for is denied by the lock
(`main.py:179`, `docs/01_requirements_analysis.md:235`); the status of a failed
rollback is only logged, and the incident ends as rolled back
(`docs/02_infra_design.md:123`); the reply of the lock is lost, the AWS library
repeats the write, and the owner is denied its own key, so that nobody acts for the
incident; an incident may be resolved on the deferred stub, which reports COMPLETED
with nothing applied; without a shared table, or in watch mode across a restart,
nothing keeps two executors from healing one fault; an action interrupted by a crash is never
settled (`docs/03_security_design.md:289`); the forwarder retries 401, 403 and 503,
which are not to be retried, and calls the client again after its two retries of a
500 (`docs/02_infra_design.md:182-187`, `errors.py:37`), within the joint limit that
`PostsBounded` states; a window that the queue delivers twice is posted twice; after
an action of a scenario file whose scrape is empty, `/v1/verify` is sent the window of
the file as it was written, not normalised (`main.py:146`, `:232`, against
`watcher.py:13-15`); the scrape passes over a pod without container statuses
(`watcher.py:141`), so that a silent scrape says nothing of the new pod of a rollout
(`watcher.py:157`); an exception that is not caught ends the
incident without an escalation
(`main.py:8` promises one); a flush that fails leaves a resolved incident
unaudited (`docs/02_infra_design.md:489`); the comment at `main.py:162` ("no
execute") is also reached from `/v1/verify`, after the execution;
`docs/03_security_design.md:227` has the 24 hours of a key keep a restarted
executor from repeating an incident, which the new correlation id of every poll
undoes (`main.py:60`, `:255`), and a rolling update overlaps two watchers; a reply
without `verify_policy` is no denial (`docs/02_infra_design.md:485`) but a
`KeyError` that leaves `handle_incident`, and the trail has no reason; a detection without
`anomaly_context` passes the gate and raises before `/v1/decide`; the
`correlation_id` of a reply replaces that of the alert; the metrics of the AI's
bundle may overwrite the executor's.

What the converters do that their reader may not expect, all in `CustomTelemetry`:
stamps of microseconds and most digit strings of OTLP nanoseconds are refused; from
Python 3.11 on `fromisoformat` reads dates without separators, so where a number is
read as a text (by the event converter and by the windows that are only
normalised, and wherever the number is written as a text) about one in two hundred stamps of milliseconds and one in three
hundred of nanoseconds is dated in the 18th or 19th century (1750123112359 becomes a
minute of 31 December 1750), and neither contract rejects it;
one bad record rejects the whole window; the second sources of the base labels
(`k8s_namespace`, `k8s_deployment`, `pod_name`) never apply, because `setdefault`
has stored the missing first one, so an OTLP export loses the name of its pod; healthy points
(`pod_phase` Running, `container_ready` true, the metric `up`) become
`service_unhealthy`; `_deployment_from_event` cuts two parts off the name of any
object ("cdo-sample-api" becomes "cdo"); the automatic mode infers the signal of a
whole Prometheus answer from its first series; a quiet log window becomes `[]`,
which the executor refuses as empty. Seen, and outside the model: a Prometheus
`NaN` passes both contracts and is no JSON; with the default idempotency table and
boto3 a second round of the scenario runner is denied as duplicates.

Every property of a passing run has a mutant in `PROJECT.json`: an operator,
marked "Mutant" in its module and used nowhere else, that stands for a
plausible bug and makes the property fail.

## 4. Assumptions

*Fairness.* `HealLoop!FairSpec` and `TelemetryForwarder!FairSpec` assume weak
fairness of the steps of each executor: every request to the AI has a timeout
(`ai_client.py:92`), its retries are counted, the wait before `/v1/verify` is
capped (`main.py:229`) and the AWS library has timeouts. Kubernetes calls are
made without a timeout; the model assumes that they return. `heal_liveness`
excludes crashes and uncaught exceptions, because no code resumes an incident.
`PodWatcher!FairSpec` assumes that the watch loop goes on, which follows from the
above: a poll is one list request per namespace, and every incident ends. The
cluster has no obligation. `CircuitBreaker!FairSpec` assumes that the clock runs,
that incidents keep
arriving and that admitted ones end. `watch_loop` needs no fairness: its bound
on waiting is a safety property, with `MaxHandling` the longest an incident may
take, and time passing only while the loop sleeps or handles.

*Atomicity.* A step ends where the code talks to another system; between two
such points a process touches only its own memory.

*Clocks.* Times never decrease. `WatchLoop` uses one clock for `time.time()`
and `time.monotonic()`.

*Time to live.* `Expire` assumes that an incident gets from its lock to its action
within the 24 hours of its key. The code does not enforce it: the `Retry-After` of
a 429 is slept through as it comes (`ai_client.py:114`).

*The queue.* SQS delivers a window at least once, as a standard queue does, and in any
order. What the model assumes of it is that a receipt is of one delivery: to delete a
message takes away that delivery and no other.

*Constants.* `SpacingAssumption` (above) is about the configuration.
`IntakeAssumption` and `ConverterAssumption` say that one value stands for what is
absent, in plans and in documents, that it is none of the texts it is compared with,
and that stamps mean instants. The dates that digits can spell are one instant,
`Spelt`, and whether they do is a form of stamp (`DateSpelling`). The AI of
`MCIntake` is one of those `Intake_proofs` quantifies over.

*Bounds.* `MaxTime` and `MaxFailures` stop the clock and the failures in TLC's
instances and appear only in the guards of `Tick` and `RecordFailure`. `posts`
counts to one more than the limit it is compared with. `MaxCopies` bounds the
redeliveries of the instance, all windows together; the proofs are for any. In `Rollout`,
`MaxRevision` and `MaxRestarts` keep new deploys, incidents and restarts from
starting; an incident under way always finishes, so the instance comes to rest
there and its deadlock check is off. In `PodWatcher`, `MaxRestarts` stops the
count of restarts, not the restarts: beyond the threshold nothing depends on it.
The deadlock check is also off where all alerts or windows have ended.

*Symmetry* is used in `heal_safety` and `watch_loop`, which check only safety.

## 5. Proofs

The theorems hold for every value of the constants that satisfies the named
assumptions of the modules.

`CircuitBreaker_proofs`: the inductive invariant `IInv` says that the deque is
a suffix of the history of failures, that everything cut off is too old for the
window of any later failure, that times are ordered, and where the trip lies.
From it: `TypeCorrect`, `TripsAreJustified`, `NoTripIsMissed`,
`HealedOnlyWhenClosed`, `OpenForItsCooldown` and the refinement `KeepsPromise`.

`SafetyGate_proofs`: `AllowedIsSafe` and its converse `SafeIsAllowed`, for plans of
any length. The lemmas say that a table is silent exactly when none of its rows
applies, and read the rows off. `ReasonIsOfAnItem`: the reason of a denial is the
first row of the first denied item. That there is a first one is `LeastNatural`,
from the library's well-foundedness of `<`, since its induction theorems take an
operator as a parameter.

`HealLoop_proofs`: the invariant `IndInv` is `TypeOK` with
- `OneHandler`: an alert is handled by one executor, whose `pc` is not idle;
- `Informed`: past `/v1/detect` there is a correlation id, past `/v1/decide` a
  plan, and past the gate a safe one;
- `LockGuards`: an executor between lock and patch owns the key of its
  correlation id and nothing was executed under it while it stood; and while a
  key stands it is that of whoever acted under it;
- `VerifiesItsAction`: an executor at `/v1/verify` has an execution of its own
  that landed or is deferred;

and the safety properties themselves. `LockGuards` is why at-most-once needs
more than the lock: a key that expires takes its executions out of what it guards,
and no key expires under an executor that has yet to act, so whoever owns a key
knows that nothing was done under it. `Informed` uses `AllowedIsSafe`. From it:
`TypeCorrect`, `ActsAtMostOnce`, `ActsInOwnTenant`,
`ResolvesWhatLanded`, `KeepsPromise`, `UsesBreaker`, with every fault enabled.

`TakesItsCourse` (`CoursesTaken`) instantiates `IncidentCourse` for every alert and
maps `ahead` to the number of calls that follow the one its handler makes next
(`CallsAhead`). It needs one more invariant, `InHand`: an alert is "handling" only
while some executor has it, and nothing was sent for it while its handler is still
before the action, something once it is past it. A step of an executor is then a
step of the alert it has in hand, and a stutter of every other (`OthersCourse`):
`OneHandler` is what keeps two of them out of one alert. That every step lowers a
number is the safety half of `EveryAlertEnds`; the other half, that a step is always
possible and is taken, is left to TLC. `PostsBounded` and `EveryCallEnds` divide the
work in the same way for the forwarder.

`WatchLoop_proofs`: the invariant `Inv` is `TypeOK` with
- `Clocks`: what was stamped lies in the past, and the heal in hand began a
  cooldown after the end of the last heal of its deployment;
- `HitsSpaced`, `RunsHealed`: in a run of consecutive hits of one deployment, the
  hits `i` and `j` are at least `(j - i) * (HealCooldown + 1) - 1` apart, and the
  last heal of the deployment ended long enough after them for the next hit to keep
  this; a deque spans at most the window;
- `FailuresKnown`: failures are in order, and none of a deployment is later than
  the end of its last heal.

`HealsAreSpaced` follows, and with `SpacingAssumption` its two consequences:
`FlapsAcrossDeployments`, because a run of `FlapThreshold` hits of one deployment
is longer than the window, and `FailuresDiffer`, because an older failure of the
same deployment has left the window of the next. A restart forgets hits, failures
and cooldowns together.

`WaitsAreBounded` (`TakenUpPromptly`) has an invariant of its own, `PromptInv`:
- `Timely`: the loop sleeps no longer than an interval, and a heal no longer than
  `MaxHandling`;
- `Waits`: for a deployment whose fault lasts, the end of the poll in hand
  (`PollEnd`), or of the sleep, leaves enough of its bound (`Due`).

What makes it inductive is that `PollEnd` never moves later. It counts the
deployments that the poll still has to deal with as a set (`Todo`), however often
they are listed: one that was healed in this poll is in its cooldown until the poll
is over, since a cooldown is counted from the end of a heal. So a poll handles each
deployment at most once, and who waits is in it or sees the next one in time.

`TelemetryForwarder_proofs`: the invariant `IInv` is `TypeOK` with
- `HoldsMessage`, `Exclusive`, `FateOpen`: a worker holds a delivery exactly
  between receive and the end of its call, alone; from the deletion on it is not in
  the queue; what is queued or held was sent and has no fate;
- `CountersReset`, `PostsWeighed`: the requests sent are at most
  `attempt * (Retries500 + Retries429 + 1) + tries500 + tries429`.

The second part is what makes the bound on requests inductive: `posts` alone
says nothing about how many replies may still be retried. From it:
`TypeCorrect`, `PostsStayBounded` and the refinement `KeepsPromise`, which a
redelivery does not disturb, since it is a delivery of its own (`NewMessage`).

`Rollout_proofs`: the invariant `IInv` is `TypeOK` with
- `HoldsIncident`, `NumberedBelow`: an incident in progress has its item and
  snapshot, and no ReplicaSet has a number above the recorded revision;
- `NotYetChanged`, `ChangedOnce`: while nobody interferes, the revision is that
  of the snapshot until the action is applied, and at most one more after it;
- `ReadInForce`, `PreviousMatches`: the revision that `rollout_undo` read is not
  above the recorded one, and if it is above that of the snapshot, the ReplicaSet
  chosen has the image and the limit of the snapshot.

`UndoRestores` follows: the largest number below the new revision is that of the
snapshot, which no renumbering can have taken away.

`PodWatcher_proofs`: every point of every window of the watch loop is `Settled`
(`SettledWindows`): the adapter accepts it and leaves it as it is. Of the window of a
scenario file it is only known that the adapter accepts it (`GivenAccepted`); what
`/v1/verify` is sent for it may be raw. That the adapter's result is settled needs
that no name of the contract is an alias and that scrubbing is idempotent; that
the watcher's signals are settled is read off `_signal`. From it:
`TypeCorrect`, `MeetsContract`, `AcceptsOnlyClean`. `SilenceMeansServing` needs a
second invariant, `ReadyRuns`: only a running container is ready, so that a
container whose scrape says nothing but its restart count is running, unless it
waits in `CrashLoopBackOff`, whose signal is that same count.

`Intake_proofs` states the intake for any document, any file and any replies (a
reply need only be a record, with numbers where the gate compares them). The
invariant `IInv` is `IsContext` (the context of an incident has its fields),
`WindowValid` (a window the tool wrote is valid point by point), `Progress` (what
each stage has behind it), `DecidedInFull` (the reply in hand was whole) and
`GateExact`. From it: `HandsOverAccepted`, `GateIsExact` (from `AllowedIsSafe` and
`SafeIsAllowed`) and `ActsOnWholeReplies`. `ReasonsAreTrue` needs `ReasonGiven` besides:
what an escalation after a decision gives as its reason is what the gate answered,
and `ReasonIsOfAnItem` says which item that answer is about. `HandsOverAccepted` rests on
`ReadAsWritten`: a point valid under the tool's copy of the contract is valid under
the executor's copy and is left as it is, which compares two lists of signals, two
sets of aliases and two scrubbers.

About the tool it has a second invariant, `WindowConverted`: every point of a window
is valid, `Made` (it came out of `normalize_point`: its fields are there, its value
is scrubbed) and `Dated` (its stamp is the canonical form of an instant that the
document states, of the time of the conversion, or of the date that the digits of a
stamp of the document spell). It is proved converter by
converter for documents of any shape (`ConvertedFrom`); the first of several stamps
is one of them (`OneOfAlong`), and each of them keeps its instant, takes the date it
spells or is unreadable (`StampKept`), which is where the guess of the unit is gone through case by case.
From it: `InstantsAreKept`, and `ConvertedOnceIsEnough`, since a point that is valid and
made is a fixed point of the conversion but for the marks (`PointAgain`).

`EscalationsTell` has the invariant `Tells` (the context names the namespace of the
file) and says what each of the six places that escalate puts into the bundle
(`EscalationTells`). It supposes that the AI names a metric as its trigger, and not
one of the fields that identify the incident: `_metrics` writes the trigger under
its own name, last (`TriggerIsMetric`). It supposes nothing of the AI's bundle.

`TakesItsCourse` (`CourseTaken`) is the same refinement as that of `HealLoop`, with the
data. Its invariant `OnCourse` says that nothing is returned before the end, and that
whoever verifies was told "COMPLETED". The rest is one lemma per action: whichever way
a reply makes the action end is one that the course allows there (`EndsInTime`).

`Dicts` defines `d ++ e` for Python's `{**e, **d}` because TLC's `@@` is a definition
that the proof system cannot expand.

Only model-checked: liveness (`ClosesAgain`, `EveryAlertEnds`, `EveryCallEnds`,
`RestartsAreNoticed`), which the proof system cannot express steps of (`ENABLED`);
and `ExpectedOutcome`, which is about fifteen files and the mock: the run goes
through all of them.

## 6. Not modelled

Of the scenario runner: its repetition for a duration, rate and report (it drives
the executor; its files and expectations are in `intake`). Of the tool: the
`validate` mode, which writes nothing. Of the mock: the HTTP handler. Of the audit
logger: the texts of its events. Of the escalation: wording, pod logs and the
webhook, whose failure is swallowed. Terraform, manifests, Kyverno and network
policies are declarations that others enforce, after the executor has decided; CI
is build automation. The AI engine, DynamoDB, SQS, S3 and Kubernetes appear as the
behaviour the executor sees. Message texts and the regular expressions of the PII
scrubbing are left out: a text is a member of a small set with its class.

## 7. Plan

Done: the breaker, the gates, the loop with its expiring and local locks, the course
of an incident in both cuts, the watch loop, the forwarder, the rollout of actions and rollbacks, the watcher and the
contract, the intake from the converters to the bundle.
Next, in this order:

1. A refinement from `TelemetryForwarder` to the single step `Detect` of
   `HealLoop`, and from the urgent path of `HealLoop` to `Rollout`. (`HealLoop` and
   `Intake` meet in `IncidentCourse`.)
2. The runner's rounds: which of its incidents the lock denies, and what that does
   to its resolve rate.
