------------------------ MODULE CircuitBreaker_proofs ------------------------
(***************************************************************************)
(* Proofs about CircuitBreaker for every threshold, window, cooldown and   *)
(* length of run.  The inductive invariant relates the pruned deque to the *)
(* unpruned history: the deque is the end of the history, the history is   *)
(* in order, and what the deque has dropped is out of the window of the    *)
(* latest failure.                                                         *)
(***************************************************************************)
EXTENDS CircuitBreaker, TLAPS

\* How many failures of the history the deque has dropped.
Dropped == Len(since) - Len(failures)

DequeIsSuffix ==
  /\ Dropped >= 0
  /\ \A i \in 1..Len(failures) : failures[i] = since[Dropped + i]

HistoryInOrder ==
  /\ \A i, j \in 1..Len(since) : i <= j => since[i] <= since[j]
  /\ \A i \in 1..Len(since) : since[i] <= now

DroppedAreStale ==
  \A i \in 1..Dropped : since[i] < since[Len(since)] - Window

IInv ==
  /\ TypeOK
  /\ DequeIsSuffix
  /\ HistoryInOrder
  /\ DroppedAreStale
  /\ AdmittedBehindClosed
  /\ TripJustified
  /\ NoMissedTrip

-----------------------------------------------------------------------------
\* Type correctness.
LEMMA TypeInit == Init => TypeOK
<1> SUFFICES ASSUME Init PROVE TypeOK
  OBVIOUS
<1>1. now \in Nat /\ failures \in Seq(Nat) /\ since \in Seq(Nat)
  BY DEF Init
<1>2. openedAt \in Nat \cup {NotOpened}
  BY DEF Init
<1>3. admitted \in BOOLEAN /\ trial \in BOOLEAN
  BY DEF Init
<1>. QED BY <1>1, <1>2, <1>3 DEF TypeOK

LEMMA TypeNext == TypeOK /\ [Next]_vars => TypeOK'
<1> SUFFICES ASSUME TypeOK, [Next]_vars PROVE TypeOK'
  OBVIOUS
<1> USE ConfigAssumption DEF TypeOK, NotOpened
<1>1. CASE Tick
  BY <1>1 DEF Tick
<1>2. CASE IsOpen
  <2>1. CASE FoundClosed
    BY <2>1 DEF FoundClosed
  <2>2. CASE CooldownEnds
    <3>1. now' \in Nat /\ failures' \in Seq(Nat) /\ since' \in Seq(Nat)
      BY <2>2 DEF CooldownEnds, Clear
    <3>. QED BY <2>2, <3>1 DEF CooldownEnds
  <2>3. CASE FoundOpen
    BY <2>3 DEF FoundOpen, vars
  <2>. QED BY <1>2, <2>1, <2>2, <2>3 DEF IsOpen
<1>3. CASE RecordFailure
  <2>1. PICK stale \in 0..Len(failures) :
          failures' = SubSeq(Append(failures, now), stale + 1, Len(failures) + 1)
    BY <1>3 DEF RecordFailure
  <2>2. failures' \in Seq(Nat)
    BY <2>1
  <2>3. since' \in Seq(Nat) /\ now' \in Nat /\ openedAt' \in Nat \cup {NotOpened}
    BY <1>3 DEF RecordFailure, Stamp
  <2>. QED BY <1>3, <2>2, <2>3 DEF RecordFailure
<1>4. CASE RecordSuccess
  <2>1. now' \in Nat /\ failures' \in Seq(Nat) /\ since' \in Seq(Nat)
    BY <1>4 DEF RecordSuccess, Clear
  <2>2. openedAt' \in Nat \cup {NotOpened}
    BY <1>4 DEF RecordSuccess, Clear
  <2>3. admitted' \in BOOLEAN /\ trial' \in BOOLEAN
    BY <1>4 DEF RecordSuccess, Clear
  <2>. QED BY <2>1, <2>2, <2>3
<1>5. CASE EndSilently
  BY <1>5 DEF EndSilently
<1>6. CASE Restart
  <2>1. now' \in Nat /\ failures' \in Seq(Nat) /\ since' \in Seq(Nat)
    BY <1>6 DEF Restart, Clear
  <2>2. openedAt' \in Nat \cup {NotOpened}
    BY <1>6 DEF Restart, Clear
  <2>3. admitted' \in BOOLEAN /\ trial' \in BOOLEAN
    BY <1>6 DEF Restart, Clear
  <2>. QED BY <2>1, <2>2, <2>3
<1>7. CASE UNCHANGED vars
  BY <1>7 DEF vars
<1>. QED BY <1>1, <1>2, <1>3, <1>4, <1>5, <1>6, <1>7 DEF Next

\* Every reachable state of the breaker is well typed.
THEOREM TypeCorrect == Spec => []TypeOK
  BY TypeInit, TypeNext, PTL DEF Spec

-----------------------------------------------------------------------------
\* The end of a sequence of numbers.
LEMMA TailOfSequence ==
  ASSUME NEW a \in Seq(Nat), NEW m \in 1..Len(a)
  PROVE  /\ Len(SubSeq(a, m, Len(a))) = Len(a) - m + 1
         /\ \A i \in 1..Len(a) - m + 1 : SubSeq(a, m, Len(a))[i] = a[i + m - 1]
  OBVIOUS

\* What an append followed by popleft() leaves of a deque.
LEMMA PrunedDeque ==
  ASSUME NEW q \in Seq(Nat), NEW t \in Nat, NEW stale \in 0..Len(q)
  PROVE  LET r == SubSeq(Append(q, t), stale + 1, Len(q) + 1)
         IN  /\ Len(r) = Len(q) + 1 - stale
             /\ \A i \in 1..Len(q) - stale : r[i] = q[i + stale]
             /\ r[Len(q) + 1 - stale] = t
<1> DEFINE a == Append(q, t)
           r == SubSeq(a, stale + 1, Len(a))
<1>1. a \in Seq(Nat) /\ Len(a) = Len(q) + 1
  OBVIOUS
<1>2. a[Len(q) + 1] = t /\ \A i \in 1..Len(q) : a[i] = q[i]
  OBVIOUS
<1>3. stale + 1 \in 1..Len(a)
  BY <1>1
<1> HIDE DEF a
<1>4. /\ Len(r) = Len(a) - (stale + 1) + 1
      /\ \A i \in 1..Len(a) - (stale + 1) + 1 : r[i] = a[i + (stale + 1) - 1]
  BY <1>1, <1>3, TailOfSequence
<1>5. Len(r) = Len(q) + 1 - stale
  BY <1>1, <1>4
<1>6. \A i \in 1..Len(q) + 1 - stale : r[i] = a[i + stale]
  BY <1>1, <1>4
<1> HIDE DEF r
<1>7. /\ \A i \in 1..Len(q) - stale : r[i] = q[i + stale]
      /\ r[Len(q) + 1 - stale] = t
  <2>1. Len(q) \in Nat
    OBVIOUS
  <2>2. \A i \in 1..Len(q) - stale :
           i \in 1..Len(q) + 1 - stale /\ i + stale \in 1..Len(q)
    BY <2>1
  <2>3. \A i \in 1..Len(q) - stale : r[i] = q[i + stale]
    BY <1>2, <1>6, <2>2
  <2>4. Len(q) + 1 - stale \in 1..Len(q) + 1 - stale
        /\ (Len(q) + 1 - stale) + stale = Len(q) + 1
    BY <2>1
  <2>5. r[Len(q) + 1 - stale] = t
    BY <1>2, <1>6, <2>4
  <2>. QED BY <2>3, <2>5
<1>. QED BY <1>1, <1>5, <1>7 DEF r, a

\* What a failure does to the deque and to the history.
LEMMA FailureRecorded ==
  ASSUME TypeOK, RecordFailure
  PROVE  \E stale \in 0..Len(failures) :
           /\ \A i \in 1..stale : failures[i] < now - Window
           /\ stale < Len(failures) => failures[stale + 1] >= now - Window
           /\ Len(failures') = Len(failures) + 1 - stale
           /\ \A i \in 1..Len(failures) - stale : failures'[i] = failures[i + stale]
           /\ failures'[Len(failures) + 1 - stale] = now
           /\ Len(since') = Len(since) + 1
           /\ \A i \in 1..Len(since) : since'[i] = since[i]
           /\ since'[Len(since) + 1] = now
<1>1. PICK stale \in 0..Len(failures) :
        /\ Prunes(stale, now - Window)
        /\ failures' = SubSeq(Append(failures, now), stale + 1, Len(failures) + 1)
  BY DEF RecordFailure
<1>2. failures \in Seq(Nat) /\ since \in Seq(Nat) /\ now \in Nat
  BY DEF TypeOK
<1>3. /\ Len(failures') = Len(failures) + 1 - stale
      /\ \A i \in 1..Len(failures) - stale : failures'[i] = failures[i + stale]
      /\ failures'[Len(failures) + 1 - stale] = now
  BY <1>1, <1>2, PrunedDeque, Zenon
<1>4. /\ Len(since') = Len(since) + 1
      /\ \A i \in 1..Len(since) : since'[i] = since[i]
      /\ since'[Len(since) + 1] = now
  BY <1>2 DEF RecordFailure
<1>. QED BY <1>1, <1>3, <1>4 DEF Prunes

LEMMA HistoryStep ==
  ASSUME IInv, RecordFailure
  PROVE  DequeIsSuffix' /\ HistoryInOrder' /\ DroppedAreStale'
<1>1. PICK stale \in 0..Len(failures) :
         /\ \A i \in 1..stale : failures[i] < now - Window
         /\ stale < Len(failures) => failures[stale + 1] >= now - Window
         /\ Len(failures') = Len(failures) + 1 - stale
         /\ \A i \in 1..Len(failures) - stale : failures'[i] = failures[i + stale]
         /\ failures'[Len(failures) + 1 - stale] = now
         /\ Len(since') = Len(since) + 1
         /\ \A i \in 1..Len(since) : since'[i] = since[i]
         /\ since'[Len(since) + 1] = now
  BY FailureRecorded DEF IInv
<1>2. /\ Len(failures) \in Nat /\ Len(since) \in Nat /\ now \in Nat /\ now' = now
      /\ Window \in Nat
      /\ \A i \in 1..Len(since) : since[i] \in Nat
      /\ \A i \in 1..Len(failures) : failures[i] \in Nat
  BY ConfigAssumption DEF IInv, TypeOK, RecordFailure
<1>3. Dropped' = Dropped + stale
  BY <1>1, <1>2 DEF Dropped
<1>4. DequeIsSuffix'
  <2>1. Dropped' >= 0
    BY <1>1, <1>2, <1>3 DEF IInv, DequeIsSuffix, Dropped
  <2>2. ASSUME NEW i \in 1..Len(failures')
        PROVE  failures'[i] = since'[Dropped' + i]
    <3>1. CASE i + stale <= Len(failures)
      <4>1. failures'[i] = since[Dropped + (i + stale)]
        BY <1>1, <1>2, <3>1 DEF IInv, DequeIsSuffix
      <4>2. Dropped + (i + stale) \in 1..Len(since)
        BY <1>1, <1>2, <3>1 DEF IInv, DequeIsSuffix, Dropped
      <4>3. since'[Dropped + (i + stale)] = since[Dropped + (i + stale)]
        BY <1>1, <1>2, <4>2
      <4>4. Dropped + (i + stale) = Dropped' + i
        BY <1>1, <1>2, <1>3 DEF Dropped
      <4>. QED BY <4>1, <4>3, <4>4
    <3>2. CASE ~(i + stale <= Len(failures))
      <4>1. i = Len(failures) + 1 - stale
        BY <1>1, <1>2, <3>2
      <4>2. Dropped' + i = Len(since) + 1
        BY <1>1, <1>2, <1>3, <4>1 DEF Dropped
      <4>3. since'[Len(since) + 1] = now
        BY <1>1, <1>2
      <4>. QED BY <1>1, <1>2, <3>2, <4>2, <4>3
    <3>. QED BY <3>1, <3>2
  <2>. QED BY <2>1, <2>2 DEF DequeIsSuffix
<1>5. HistoryInOrder'
  <2>1. ASSUME NEW i \in 1..Len(since')
        PROVE  since'[i] <= now
    <3>1. CASE i \in 1..Len(since)
      BY <1>1, <3>1 DEF IInv, HistoryInOrder
    <3>2. CASE i = Len(since) + 1
      BY <1>1, <1>2, <3>2
    <3>. QED BY <1>1, <1>2, <3>1, <3>2
  <2>2. ASSUME NEW i \in 1..Len(since'), NEW j \in 1..Len(since'), i <= j
        PROVE  since'[i] <= since'[j]
    <3>1. CASE j <= Len(since)
      <4>1. i \in 1..Len(since) /\ j \in 1..Len(since)
        BY <1>2, <2>2, <3>1
      <4>2. since[i] <= since[j]
        BY <2>2, <4>1 DEF IInv, HistoryInOrder
      <4>. QED BY <1>1, <4>1, <4>2
    <3>2. CASE j = Len(since) + 1
      BY <1>1, <2>1, <3>2
    <3>. QED BY <1>1, <1>2, <3>1, <3>2
  <2>. QED BY <1>2, <2>1, <2>2 DEF HistoryInOrder
<1>6. DroppedAreStale'
  <2> SUFFICES ASSUME NEW i \in 1..Dropped'
               PROVE  since'[i] < since'[Len(since')] - Window
    BY DEF DroppedAreStale
  <2>1. since'[Len(since')] = now
    BY <1>1, <1>2
  <2>2. i \in 1..Len(since) /\ since'[i] = since[i]
    BY <1>1, <1>2, <1>3 DEF IInv, DequeIsSuffix, Dropped
  <2>3. CASE i <= Dropped
    <3>1. since[i] < since[Len(since)] - Window /\ since[Len(since)] <= now
      BY <1>2, <2>2, <2>3 DEF IInv, DroppedAreStale, HistoryInOrder
    <3>. QED BY <1>2, <2>1, <2>2, <3>1
  <2>4. CASE i > Dropped
    <3>1. i - Dropped \in 1..stale /\ since[i] = failures[i - Dropped]
      BY <1>1, <1>2, <1>3, <2>4 DEF IInv, DequeIsSuffix, Dropped
    <3>. QED BY <1>1, <1>2, <2>1, <2>2, <3>1
  <2>. QED BY <1>2, <2>3, <2>4 DEF Dropped
<1>. QED BY <1>4, <1>5, <1>6

\* The failure that trips the breaker, and the one that does not.
LEMMA TripStep ==
  ASSUME IInv, RecordFailure
  PROVE  TripJustified' /\ NoMissedTrip' /\ AdmittedBehindClosed'
<1>1. PICK stale \in 0..Len(failures) :
         /\ \A i \in 1..stale : failures[i] < now - Window
         /\ stale < Len(failures) => failures[stale + 1] >= now - Window
         /\ Len(failures') = Len(failures) + 1 - stale
         /\ \A i \in 1..Len(failures) - stale : failures'[i] = failures[i + stale]
         /\ failures'[Len(failures) + 1 - stale] = now
         /\ Len(since') = Len(since) + 1
         /\ \A i \in 1..Len(since) : since'[i] = since[i]
         /\ since'[Len(since) + 1] = now
  BY FailureRecorded DEF IInv
<1>2. /\ Len(failures) \in Nat /\ Len(since) \in Nat /\ now \in Nat /\ now' = now
      /\ Window \in Nat /\ Threshold \in Nat /\ Threshold >= 1
      /\ \A i \in 1..Len(since) : since[i] \in Nat
      /\ openedAt \in Nat \/ openedAt = NotOpened
  BY ConfigAssumption DEF IInv, TypeOK, RecordFailure
<1>3. DequeIsSuffix' /\ HistoryInOrder' /\ DroppedAreStale'
  BY HistoryStep
<1> DEFINE n == Len(since) + 1
\* The deque now holds the failures of the history from first on.
<1> DEFINE first == n - Len(failures') + 1
<1>4. first \in 1..n /\ since'[first] >= now - Window
  <2>1. first \in 1..n
    BY <1>1, <1>2 DEF IInv, DequeIsSuffix, Dropped
  <2>2. CASE stale < Len(failures)
    <3>1. first = Dropped + (stale + 1) /\ stale + 1 \in 1..Len(failures)
      BY <1>1, <1>2, <2>2 DEF Dropped
    <3>2. since[first] = failures[stale + 1] /\ first \in 1..Len(since)
      BY <1>2, <3>1 DEF IInv, DequeIsSuffix, Dropped
    <3>. QED BY <1>1, <2>1, <2>2, <3>2
  <2>3. CASE stale = Len(failures)
    BY <1>1, <1>2, <2>3
  <2>. QED BY <2>1, <2>2, <2>3
<1>5. \A i \in 1..n : i >= first => since'[i] >= now - Window
  <2> SUFFICES ASSUME NEW i \in 1..n, i >= first PROVE since'[i] >= now - Window
    OBVIOUS
  <2>1. since'[first] <= since'[i]
    BY <1>1, <1>3, <1>4 DEF HistoryInOrder
  <2>2. \A k \in 1..n : since'[k] \in Int
    <3> SUFFICES ASSUME NEW k \in 1..n PROVE since'[k] \in Int
      OBVIOUS
    <3>1. CASE k = n
      BY <1>1, <1>2, <3>1
    <3>2. CASE k \in 1..Len(since)
      BY <1>1, <1>2, <3>2
    <3>. QED BY <1>2, <3>1, <3>2
  <2>. QED BY <1>2, <1>4, <2>1, <2>2
<1>6. \A i \in 1..n : i < first => since'[i] < now - Window
  <2> SUFFICES ASSUME NEW i \in 1..n, i < first PROVE since'[i] < now - Window
    OBVIOUS
  <2>1. Dropped' = first - 1 /\ Len(since') = n /\ since'[n] = now
    BY <1>1, <1>2 DEF Dropped
  <2>2. i \in 1..Dropped'
    BY <1>2, <1>4, <2>1
  <2>. QED BY <1>3, <2>1, <2>2 DEF DroppedAreStale
<1>7. CASE Trips
  <2>1. openedAt' = now /\ Len(failures') >= Threshold
    BY <1>7 DEF RecordFailure, Stamp, Trips
  <2>2. n - Threshold + 1 \in 1..n /\ n - Threshold + 1 >= first /\ n >= Threshold
    BY <1>1, <1>2, <1>4, <2>1
  <2>3. TripJustified'
    <3>1. n \in 1..Len(since') /\ since'[n] = now
      BY <1>1, <1>2
    <3>2. since'[n - Threshold + 1] >= now - Window
      BY <1>5, <2>2
    <3>. QED BY <2>1, <2>2, <3>1, <3>2 DEF TripJustified
  <2>4. NoMissedTrip'
    BY <1>2, <2>1 DEF NoMissedTrip, NotOpened
  <2>. QED BY <2>3, <2>4 DEF RecordFailure, AdmittedBehindClosed
<1>8. CASE ~Trips /\ openedAt # NotOpened
  <2>1. openedAt' = openedAt
    BY <1>8 DEF RecordFailure
  <2>2. PICK i \in 1..Len(since) :
          /\ since[i] = openedAt
          /\ i >= Threshold
          /\ since[i - Threshold + 1] >= openedAt - Window
    BY <1>8 DEF IInv, TripJustified
  <2>3. i \in 1..Len(since') /\ i - Threshold + 1 \in 1..Len(since)
    BY <1>1, <1>2, <2>2
  <2>4. since'[i] = openedAt' /\ since'[i - Threshold + 1] >= openedAt' - Window
    BY <1>1, <2>1, <2>2, <2>3
  <2>5. TripJustified'
    BY <2>2, <2>3, <2>4 DEF TripJustified
  <2>. QED BY <1>8, <2>1, <2>5 DEF RecordFailure, AdmittedBehindClosed, NoMissedTrip, NotOpened
<1>9. CASE ~Trips /\ openedAt = NotOpened
  <2>1. openedAt' = NotOpened /\ Len(failures') < Threshold
    BY <1>1, <1>2, <1>9 DEF RecordFailure, Trips
  <2>2. ASSUME NEW i \in 1..Len(since'), i >= Threshold
        PROVE  since'[i - Threshold + 1] < since'[i] - Window
    <3>1. CASE i = n
      <4>1. n - Threshold + 1 \in 1..n /\ n - Threshold + 1 < first
        BY <1>1, <1>2, <2>1, <2>2, <3>1
      <4>. QED BY <1>1, <1>6, <3>1, <4>1
    <3>2. CASE i <= Len(since)
      <4>1. i \in 1..Len(since) /\ i - Threshold + 1 \in 1..Len(since)
        BY <1>1, <1>2, <2>2, <3>2
      <4>2. since[i - Threshold + 1] < since[i] - Window
        BY <1>9, <2>2, <4>1 DEF IInv, NoMissedTrip
      <4>. QED BY <1>1, <4>1, <4>2
    <3>. QED BY <1>1, <1>2, <3>1, <3>2
  <2>3. NoMissedTrip'
    BY <1>2, <2>2 DEF NoMissedTrip
  <2>. QED BY <2>1, <2>3 DEF RecordFailure, AdmittedBehindClosed, TripJustified
<1>. QED BY <1>7, <1>8, <1>9

-----------------------------------------------------------------------------
LEMMA IInvInit == Init => IInv
<1> SUFFICES ASSUME Init PROVE IInv
  OBVIOUS
<1>1. TypeOK
  BY TypeInit
<1>2. Len(since) = 0 /\ Len(failures) = 0
  BY DEF Init
<1>3. DequeIsSuffix /\ HistoryInOrder /\ DroppedAreStale
  BY <1>2 DEF DequeIsSuffix, HistoryInOrder, DroppedAreStale, Dropped
<1>4. AdmittedBehindClosed /\ TripJustified /\ NoMissedTrip
  BY <1>2 DEF Init, AdmittedBehindClosed, TripJustified, NoMissedTrip
<1>. QED BY <1>1, <1>3, <1>4 DEF IInv

\* A step that empties the deque and the history and leaves the breaker closed.
LEMMA ClearedStep ==
  ASSUME IInv, TypeOK', Clear, openedAt' = NotOpened
  PROVE  IInv'
<1>1. Len(since') = 0 /\ Len(failures') = 0
  BY DEF Clear
<1>2. DequeIsSuffix' /\ HistoryInOrder' /\ DroppedAreStale'
  BY <1>1 DEF DequeIsSuffix, HistoryInOrder, DroppedAreStale, Dropped
<1>3. AdmittedBehindClosed' /\ TripJustified' /\ NoMissedTrip'
  BY <1>1 DEF AdmittedBehindClosed, TripJustified, NoMissedTrip, NotOpened
<1>. QED BY <1>2, <1>3 DEF IInv

\* A step that leaves the deque, the history and the trip as they are.
LEMMA QuietStep ==
  ASSUME IInv, TypeOK', UNCHANGED <<failures, since, openedAt>>,
         now' >= now, admitted' => openedAt = NotOpened
  PROVE  IInv'
<1>1. DequeIsSuffix' /\ DroppedAreStale'
  BY DEF IInv, DequeIsSuffix, DroppedAreStale, Dropped
<1>2. HistoryInOrder'
  <2>1. now \in Nat /\ now' \in Nat /\ \A i \in 1..Len(since) : since[i] \in Nat
    BY DEF IInv, TypeOK
  <2>. QED BY <2>1 DEF IInv, HistoryInOrder
<1>3. AdmittedBehindClosed' /\ TripJustified' /\ NoMissedTrip'
  BY DEF IInv, AdmittedBehindClosed, TripJustified, NoMissedTrip, NotOpened
<1>. QED BY <1>1, <1>2, <1>3 DEF IInv

LEMMA IInvNext == IInv /\ [Next]_vars => IInv'
<1> SUFFICES ASSUME IInv, [Next]_vars PROVE IInv'
  OBVIOUS
<1>1. TypeOK'
  BY TypeNext DEF IInv
<1>2. now \in Nat /\ (admitted => openedAt = NotOpened)
  BY DEF IInv, TypeOK, AdmittedBehindClosed
<1>3. CASE Tick
  BY <1>1, <1>2, <1>3, QuietStep DEF Tick
<1>4. CASE IsOpen
  <2>1. CASE FoundClosed
    BY <1>1, <1>2, <2>1, QuietStep DEF FoundClosed
  <2>2. CASE CooldownEnds
    BY <1>1, <2>2, ClearedStep DEF CooldownEnds
  <2>3. CASE FoundOpen
    BY <1>1, <1>2, <2>3, QuietStep DEF FoundOpen, vars
  <2>. QED BY <1>4, <2>1, <2>2, <2>3 DEF IsOpen
<1>5. CASE RecordFailure
  BY <1>1, <1>5, HistoryStep, TripStep DEF IInv
<1>6. CASE RecordSuccess
  BY <1>1, <1>2, <1>6, ClearedStep DEF RecordSuccess
<1>7. CASE EndSilently
  BY <1>1, <1>2, <1>7, QuietStep DEF EndSilently
<1>8. CASE Restart
  BY <1>1, <1>8, ClearedStep DEF Restart
<1>9. CASE UNCHANGED vars
  BY <1>1, <1>2, <1>9, QuietStep DEF vars
<1>. QED BY <1>3, <1>4, <1>5, <1>6, <1>7, <1>8, <1>9 DEF Next

\* The inductive invariant holds throughout.
THEOREM InductiveInvariant == Spec => []IInv
  BY IInvInit, IInvNext, PTL DEF Spec

\* Every trip of record_failure() is justified by Threshold failures in one
\* window.
THEOREM TripsAreJustified == Spec => []TripJustified
<1>1. IInv => TripJustified
  BY DEF IInv
<1>. QED BY <1>1, InductiveInvariant, PTL

\* record_failure() misses no trip, whatever its pruning has dropped.
THEOREM NoTripIsMissed == Spec => []NoMissedTrip
<1>1. IInv => NoMissedTrip
  BY DEF IInv
<1>. QED BY <1>1, InductiveInvariant, PTL

\* No incident is healed behind a tripped breaker.
THEOREM HealedOnlyWhenClosed == Spec => []AdmittedBehindClosed
<1>1. IInv => AdmittedBehindClosed
  BY DEF IInv
<1>. QED BY <1>1, InductiveInvariant, PTL

-----------------------------------------------------------------------------
\* A trip ends only when its cooldown is over, or with the process: a failure
\* recorded while the breaker is open leaves the trip and its time alone.
THEOREM OpenForItsCooldown == Spec => OpenLastsCooldown
<1>1. IInv /\ [Next]_vars =>
        [openedAt # NotOpened /\ openedAt' = NotOpened /\ ~Restart
           => now - openedAt >= Cooldown]_vars
  <2> SUFFICES ASSUME IInv, Next, openedAt # NotOpened, openedAt' = NotOpened, ~Restart
               PROVE  now - openedAt >= Cooldown
    OBVIOUS
  <2>1. CooldownEnds
    <3>1. ~Tick
      BY DEF Tick
    <3>2. ~FoundClosed /\ ~FoundOpen
      BY DEF FoundClosed, FoundOpen, vars
    <3>3. ~RecordFailure
      <4>1. now # NotOpened
        BY DEF IInv, TypeOK, NotOpened
      <4>. QED BY <4>1 DEF RecordFailure, Trips, Stamp
    <3>4. ~RecordSuccess /\ ~EndSilently
      BY DEF RecordSuccess, EndSilently
    <3>. QED BY <3>1, <3>2, <3>3, <3>4 DEF Next, IsOpen
  <2>. QED BY <2>1 DEF CooldownEnds, CooldownOver
<1>. QED BY <1>1, InductiveInvariant, PTL DEF Spec, OpenLastsCooldown

-----------------------------------------------------------------------------
\* Every step of the clocked breaker is a step of the clockless promise.
LEMMA PromiseStep == IInv /\ IInv' /\ [Next]_vars => [Promise!Next]_(Promise!vars)
<1> SUFFICES ASSUME IInv, IInv', [Next]_vars
             PROVE  [Promise!Next]_(Promise!vars)
  OBVIOUS
<1> USE DEF Promise!Next, Promise!vars
<1>1. Len(failures) \in Nat /\ admitted \in BOOLEAN
  BY DEF IInv, TypeOK
<1>2. CASE Tick
  BY <1>2 DEF Tick
<1>3. CASE IsOpen
  <2>1. CASE FoundClosed
    BY <2>1 DEF FoundClosed, Promise!Admit
  <2>2. CASE CooldownEnds
    <3>1. Len(failures') = 0
      BY <2>2 DEF CooldownEnds, Clear
    <3>. QED BY <2>2, <3>1 DEF CooldownEnds, Promise!Admit
  <2>3. CASE FoundOpen
    BY <2>3 DEF FoundOpen, vars
  <2>. QED BY <1>3, <2>1, <2>2, <2>3 DEF IsOpen
<1>4. CASE RecordFailure
  <2>1. PICK stale \in 0..Len(failures) : Len(failures') = Len(failures) + 1 - stale
    BY <1>4, FailureRecorded DEF IInv
  <2>2. Len(failures) - stale \in 0..Len(failures)
        /\ Len(failures') = (Len(failures) - stale) + 1
    BY <1>1, <2>1
  <2>3. (openedAt # NotOpened)'
          = (openedAt # NotOpened \/ Len(failures') >= Threshold)
    <3>1. now # NotOpened
      BY DEF IInv, TypeOK, NotOpened
    <3>. QED BY <1>4, <3>1 DEF RecordFailure, Trips, Stamp
  <2>4. admitted' = FALSE
    BY <1>4 DEF RecordFailure
  <2>5. Promise!Fail
    BY <2>2, <2>3, <2>4 DEF Promise!Fail
  <2>. QED BY <2>5
<1>5. CASE RecordSuccess
  <2>1. Len(failures') = 0
    BY <1>5 DEF RecordSuccess, Clear
  <2>. QED BY <1>5, <2>1 DEF RecordSuccess, Promise!Succeed
<1>6. CASE EndSilently
  BY <1>6 DEF EndSilently, Promise!Leave
<1>7. CASE Restart
  <2>1. Len(failures') = 0
    BY <1>7 DEF Restart, Clear
  <2>. QED BY <1>7, <2>1 DEF Restart, Promise!Restart
<1>8. CASE UNCHANGED vars
  BY <1>8 DEF vars
<1>. QED BY <1>2, <1>3, <1>4, <1>5, <1>6, <1>7, <1>8 DEF Next

\* The clocked breaker implements the clockless promise.
THEOREM KeepsPromise == Spec => PromiseKept
<1>1. Init => Promise!Init
  <2>1. Init => Len(failures) = 0
    BY DEF Init
  <2>. QED BY <2>1 DEF Init, Promise!Init, Promise!Closed
<1>. QED BY <1>1, PromiseStep, InductiveInvariant, PTL DEF Spec, PromiseKept, Promise!Spec
=============================================================================
