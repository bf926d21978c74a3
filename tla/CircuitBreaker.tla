--------------------------- MODULE CircuitBreaker ---------------------------
(***************************************************************************)
(* executor/circuit_breaker.py with its clock, driven the way main.py      *)
(* drives it: an incident asks is_open() once, and is then admitted or     *)
(* escalated; a failure is recorded before that question (/v1/detect       *)
(* failed) or by an admitted incident, which it ends; a success is         *)
(* recorded only by an admitted incident.  The breaker lives in the        *)
(* memory of the process and a restart forgets it.                         *)
(***************************************************************************)
EXTENDS Integers, Sequences

CONSTANTS
  Threshold,    \* cfg.circuit_fail_threshold
  Window,       \* cfg.circuit_window_s
  Cooldown,     \* cfg.circuit_cooldown_s
  MayRestart,   \* whether the process may restart
  MaxTime,      \* bound: the clock stops here
  MaxFailures   \* bound: failures recorded since the counter was last cleared

ASSUME ConfigAssumption ==
  /\ Threshold \in Nat \ {0}
  /\ Window \in Nat
  /\ Cooldown \in Nat
  /\ MayRestart \in BOOLEAN
  /\ MaxTime \in Nat
  /\ MaxFailures \in Nat

VARIABLES
  now,        \* time.time()
  failures,   \* self._failures, oldest first
  openedAt,   \* self._opened_at
  admitted,   \* an incident got False from is_open() and has not ended yet
  since,      \* history: every failure since _failures was last cleared, unpruned
  trial       \* history: the admitted incident is the first since a cooldown ended

vars == <<now, failures, openedAt, admitted, since, trial>>

NotOpened == -1     \* self._opened_at is None

TypeOK ==
  /\ now \in Nat
  /\ failures \in Seq(Nat)
  /\ openedAt \in Nat \cup {NotOpened}
  /\ admitted \in BOOLEAN
  /\ since \in Seq(Nat)
  /\ trial \in BOOLEAN

Init ==
  /\ now = 0
  /\ failures = <<>>
  /\ openedAt = NotOpened
  /\ admitted = FALSE
  /\ since = <<>>
  /\ trial = FALSE

Tick ==
  /\ now < MaxTime
  /\ now' = now + 1
  /\ UNCHANGED <<failures, openedAt, admitted, since, trial>>

\* Mutant: the deque is not emptied.
ClearNothing == UNCHANGED failures /\ since' = <<>>

Clear == failures' = <<>> /\ since' = <<>>

\* Mutant: the cooldown is measured from the oldest failure still counted.
CooldownFromFirstFailure == now - failures[1] >= Cooldown

CooldownOver == now - openedAt >= Cooldown

\* is_open() by an incident that reached checkpoint [1.6] of main.py: closed,
FoundClosed ==
  /\ ~admitted
  /\ openedAt = NotOpened
  /\ admitted' = TRUE
  /\ UNCHANGED <<now, failures, openedAt, since, trial>>

\* Mutant: is_open() answers False after the cooldown but keeps _opened_at.
CooldownEndsUnnoticed ==
  /\ ~admitted
  /\ openedAt # NotOpened
  /\ CooldownOver
  /\ admitted' = TRUE
  /\ UNCHANGED <<now, failures, openedAt, since, trial>>

\* open and past its cooldown, which closes it,
CooldownEnds ==
  /\ ~admitted
  /\ openedAt # NotOpened
  /\ CooldownOver
  /\ openedAt' = NotOpened
  /\ Clear
  /\ admitted' = TRUE
  /\ trial' = TRUE
  /\ UNCHANGED now

\* or open, which escalates the incident.
FoundOpen ==
  /\ ~admitted
  /\ openedAt # NotOpened
  /\ ~CooldownOver
  /\ UNCHANGED vars

IsOpen == FoundClosed \/ CooldownEnds \/ FoundOpen

\* Mutant: failures never age out.
PrunesNothing(stale, cutoff) == stale = 0

\* popleft() while the head is older than the cutoff removes the first stale
\* entries of the deque; the entry just appended is never older.
Prunes(stale, cutoff) ==
  /\ \A i \in 1..stale : failures[i] < cutoff
  /\ stale < Len(failures) => failures[stale + 1] >= cutoff

\* Mutant: the trip is stamped with the cutoff.
StampCutoff == now - Window

\* The value a trip gives self._opened_at.
Stamp == now

\* Mutant: the Threshold-th failure is still tolerated.
TripsLate == openedAt = NotOpened /\ Len(failures') > Threshold

\* Mutant: a failure renews a trip.
TripsAgain == Len(failures') >= Threshold

Trips == openedAt = NotOpened /\ Len(failures') >= Threshold

RecordFailure ==
  /\ Len(since) < MaxFailures
  /\ \E stale \in 0..Len(failures) :
       /\ Prunes(stale, now - Window)
       /\ failures' = SubSeq(Append(failures, now), stale + 1, Len(failures) + 1)
  /\ since' = Append(since, now)
  /\ openedAt' = IF Trips THEN Stamp ELSE openedAt
  /\ admitted' = FALSE
  /\ trial' = FALSE
  /\ UNCHANGED now

RecordSuccess ==
  /\ admitted
  /\ Clear
  /\ admitted' = FALSE
  /\ trial' = FALSE
  /\ UNCHANGED <<now, openedAt>>

\* An admitted incident ends without telling the breaker: denied by the lock
\* or the safety gate, "retry", or "rolled_back".
EndSilently ==
  /\ admitted
  /\ admitted' = FALSE
  /\ trial' = FALSE
  /\ UNCHANGED <<now, failures, openedAt, since>>

Restart ==
  /\ MayRestart
  /\ Clear
  /\ openedAt' = NotOpened
  /\ admitted' = FALSE
  /\ trial' = FALSE
  /\ UNCHANGED now

Next == Tick \/ IsOpen \/ RecordFailure \/ RecordSuccess \/ EndSilently \/ Restart

Spec == Init /\ [][Next]_vars

\* The clock runs, incidents keep reaching the breaker, and every admitted one
\* ends: handle_incident() has no unbounded wait, and the loop polls for ever.
FairSpec ==
  /\ Spec
  /\ WF_vars(Tick)
  /\ WF_vars(IsOpen)
  /\ WF_vars(EndSilently)

-----------------------------------------------------------------------------
\* The trip is justified: the failure that opened the breaker was at least the
\* Threshold-th since the counter was cleared, and the Threshold failures up to
\* it lie within Window of each other (record_failure, its prune and its test).
TripJustified ==
  openedAt # NotOpened =>
    \E i \in 1..Len(since) :
      /\ since[i] = openedAt
      /\ i >= Threshold
      /\ since[i - Threshold + 1] >= openedAt - Window

\* No trip is missed: while the breaker is closed, no Threshold consecutive
\* failures since the counter was cleared fall within one window.
NoMissedTrip ==
  openedAt = NotOpened =>
    \A i \in 1..Len(since) :
      i >= Threshold => since[i - Threshold + 1] < since[i] - Window

\* An incident is healed only behind a breaker that is closed, not one that
\* merely answered "closed" and would never trip again.
AdmittedBehindClosed == admitted => openedAt = NotOpened

\* Once tripped the breaker stays open for the whole cooldown: no success,
\* failure or query closes it earlier, only a restart (circuit_breaker.py:5-7).
OpenLastsCooldown ==
  [][openedAt # NotOpened /\ openedAt' = NotOpened /\ ~Restart
       => now - openedAt >= Cooldown]_vars

\* A tripped breaker closes again once its cooldown is over, however often it
\* is queried or told of failures in the meantime.
ClosesAgain ==
  (openedAt # NotOpened /\ openedAt + Cooldown <= MaxTime)
    ~> (openedAt = NotOpened)

\* What the module's docstring says of the end of the cooldown
\* (circuit_breaker.py:9-10): the next incident is a trial, and if it fails the
\* breaker opens again.
TrialFailureReopens ==
  [][trial /\ Len(since') > Len(since) => openedAt' # NotOpened]_vars

\* The clockless promise, with the pruned deque as the count.
Promise == INSTANCE Breaker WITH
  count <- Len(failures), opened <- openedAt # NotOpened

PromiseKept == Promise!Spec
=============================================================================
