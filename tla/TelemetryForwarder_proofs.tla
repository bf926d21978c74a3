---------------------- MODULE TelemetryForwarder_proofs ----------------------
(***************************************************************************)
(* Proofs about TelemetryForwarder, for any number of executors, windows,  *)
(* redeliveries and retries.  IInv says that whoever holds a message holds *)
(* it alone and that its fate is open, and weighs the counters of the two  *)
(* retry loops against the requests sent so far.                           *)
(***************************************************************************)
EXTENDS TelemetryForwarder, TLAPS

\* The requests of one call of _post().
CallLimit == Retries500 + Retries429 + 1

\* A worker has a message exactly between receive() and the end of its call.
HoldsMessage ==
  \A w \in Workers : (message[w] # None) <=> (pc[w] \in {"delete", "post", "dlq"})

\* A received message is in the queue until it is deleted, and nowhere after.
Exclusive ==
  /\ \A w \in Workers : pc[w] = "delete" => message[w] \in queue
  /\ \A w \in Workers : pc[w] \in {"post", "dlq"} => message[w] \notin queue
  /\ \A v, w \in Workers : message[v] = message[w] /\ message[v] # None => v = w

\* What is queued or held was sent and has not ended.
FateOpen ==
  /\ queue \subseteq sent
  /\ \A w \in Workers : message[w] # None => message[w] \in sent
  /\ \A p \in Messages : p \notin sent => fate[p] = None
  /\ \A p \in queue : fate[p] = None
  /\ \A w \in Workers : message[w] # None => fate[message[w]] = None

\* Each finished call has sent at most CallLimit requests, the current one no
\* more than its counters say.
PostsWeighed ==
  \A w \in Workers :
    /\ pc[w] = "post" =>
         posts[w] <= attempt[w] * CallLimit + tries500[w] + tries429[w]
    /\ posts[w] <= PostLimit

\* Between calls the counters are at zero.
CountersReset ==
  \A w \in Workers :
    pc[w] \in {"idle", "receive", "delete"} =>
      attempt[w] = 0 /\ tries500[w] = 0 /\ tries429[w] = 0

IInv ==
  /\ TypeOK
  /\ HoldsMessage
  /\ Exclusive
  /\ FateOpen
  /\ CountersReset
  /\ PostsWeighed

-----------------------------------------------------------------------------
LEMMA TimesMonotone ==
  ASSUME NEW a \in Nat, NEW b \in Nat, NEW k \in Nat, a <= b
  PROVE  a * k <= b * k
<1>1. (b - a) * k \in Nat
  OBVIOUS
<1>2. b * k = a * k + (b - a) * k
  OBVIOUS
<1>. QED BY <1>1, <1>2

LEMMA LimitsAreNat ==
  CallLimit \in Nat /\ CallLimit >= 1 /\ PostLimit = (MaxRetries + 1) * CallLimit
BY ForwarderAssumption DEF CallLimit, PostLimit

\* A request is within the budget of the current call, and so of the loop.
LEMMA OneMoreRequest ==
  ASSUME IInv, NEW w \in Workers, Request(w)
  PROVE  /\ posts' = [posts EXCEPT ![w] = @ + 1]
         /\ posts[w] + 1 <= attempt[w] * CallLimit + tries500[w] + tries429[w] + 1
         /\ posts[w] + 1 <= (attempt[w] + 1) * CallLimit
         /\ posts[w] + 1 <= PostLimit
<1>1. /\ posts[w] \in Nat /\ attempt[w] \in 0..MaxRetries
      /\ tries500[w] \in 0..Retries500 /\ tries429[w] \in 0..Retries429
      /\ MaxRetries \in Nat /\ Retries500 \in Nat /\ Retries429 \in Nat
  BY ForwarderAssumption DEF IInv, TypeOK
<1>2. attempt[w] * CallLimit \in Nat /\ (attempt[w] + 1) * CallLimit \in Nat
  BY <1>1, LimitsAreNat
<1>3. (attempt[w] + 1) * CallLimit = attempt[w] * CallLimit + CallLimit
  BY <1>1, LimitsAreNat
<1>4. posts[w] <= attempt[w] * CallLimit + tries500[w] + tries429[w]
  BY DEF IInv, PostsWeighed, Request
<1>5. tries500[w] + tries429[w] + 1 <= CallLimit
  BY <1>1 DEF CallLimit
<1>6. posts[w] + 1 <= (attempt[w] + 1) * CallLimit
  BY <1>1, <1>2, <1>3, <1>4, <1>5, LimitsAreNat
<1>7. (attempt[w] + 1) * CallLimit <= PostLimit
  <2>1. attempt[w] + 1 \in Nat /\ MaxRetries + 1 \in Nat
        /\ attempt[w] + 1 <= MaxRetries + 1
    BY <1>1
  <2>. QED BY <2>1, LimitsAreNat, TimesMonotone
<1>8. PostLimit \in Nat
  BY <1>1, LimitsAreNat
<1>9. posts[w] + 1 <= PostLimit
  BY <1>1, <1>2, <1>6, <1>7, <1>8
<1>10. posts' = [posts EXCEPT ![w] = @ + 1]
  <2>1. ~(posts[w] > PostLimit)
    BY <1>1, <1>8, <1>9
  <2>. QED BY <2>1, Zenon DEF Request
<1>. QED BY <1>1, <1>2, <1>4, <1>6, <1>9, <1>10

\* A call that ends leaves no trace but the fate of its message.
LEMMA CallEnds ==
  ASSUME IInv, NEW w \in Workers, NEW f \in Fates, Over(w, f),
         pc[w] \in {"post", "dlq"}, UNCHANGED <<queue, sent>>,
         dlq' \subseteq Windows,
         posts' \in [Workers -> Nat], posts'[w] <= PostLimit,
         \A v \in Workers : v # w => posts'[v] = posts[v]
  PROVE  IInv'
<1>1. message[w] \in Messages /\ message[w] \notin queue /\ message[w] \in sent
  BY DEF IInv, TypeOK, HoldsMessage, Exclusive, FateOpen
<1>2. TypeOK'
  <2>1. 0 \in 0..MaxRetries /\ 0 \in 0..Retries500 /\ 0 \in 0..Retries429
    BY ForwarderAssumption
  <2>2. /\ pc' \in [Workers -> {"idle", "receive", "delete", "post", "dlq"}]
        /\ message' \in [Workers -> Messages \cup {None}]
        /\ fate' \in [Messages -> Fates \cup {"expired", None}]
    BY <1>1 DEF IInv, TypeOK, Over, Goto
  <2>3. /\ attempt' \in [Workers -> 0..MaxRetries]
        /\ tries500' \in [Workers -> 0..Retries500]
        /\ tries429' \in [Workers -> 0..Retries429]
    BY <2>1 DEF IInv, TypeOK, Over, NewCall
  <2>. QED BY <2>2, <2>3 DEF IInv, TypeOK
<1>3. /\ \A v \in Workers : v # w => /\ pc'[v] = pc[v] /\ message'[v] = message[v]
                                      /\ attempt'[v] = attempt[v]
                                      /\ tries500'[v] = tries500[v]
                                      /\ tries429'[v] = tries429[v]
      /\ pc'[w] = "idle" /\ message'[w] = None /\ attempt'[w] = 0
      /\ tries500'[w] = 0 /\ tries429'[w] = 0
      /\ \A p \in Messages : p # message[w] => fate'[p] = fate[p]
  BY DEF IInv, TypeOK, Over, Goto, NewCall
<1>4. HoldsMessage' /\ Exclusive' /\ CountersReset'
  BY <1>3 DEF IInv, HoldsMessage, Exclusive, CountersReset
<1>5. FateOpen'
  <2>1. \A v \in Workers : v # w /\ message[v] # None => message[v] # message[w]
    BY <1>1, ForwarderAssumption DEF IInv, Exclusive
  <2>2. \A v \in Workers : message[v] # None => message[v] \in Messages
    BY DEF IInv, TypeOK
  <2>. QED BY <1>1, <1>3, <2>1, <2>2 DEF IInv, TypeOK, FateOpen
<1>6. PostsWeighed'
  BY <1>3 DEF IInv, PostsWeighed, PostLimit
<1>. QED BY <1>2, <1>4, <1>5, <1>6 DEF IInv

\* A request that keeps the call and the window.
LEMMA CallGoesOn ==
  ASSUME IInv, NEW w \in Workers, Request(w), UNCHANGED <<dlq, message, fate>>,
         pc' = pc, TypeOK',
         \A v \in Workers : v # w => /\ attempt'[v] = attempt[v]
                                     /\ tries500'[v] = tries500[v]
                                     /\ tries429'[v] = tries429[v],
         posts[w] + 1 <= attempt'[w] * CallLimit + tries500'[w] + tries429'[w]
  PROVE  IInv'
<1>1. HoldsMessage' /\ Exclusive' /\ FateOpen'
  BY DEF IInv, HoldsMessage, Exclusive, FateOpen, Request
<1>2. CountersReset'
  BY DEF IInv, CountersReset, Request
<1>3. PostsWeighed'
  <2> SUFFICES ASSUME NEW v \in Workers
               PROVE  /\ pc'[v] = "post" =>
                            posts'[v] <= attempt'[v] * CallLimit
                                           + tries500'[v] + tries429'[v]
                      /\ posts'[v] <= PostLimit
    BY DEF PostsWeighed, PostLimit, CallLimit
  <2>1. CASE v = w
    <3>1. posts'[w] = posts[w] + 1
      BY OneMoreRequest DEF IInv, TypeOK
    <3>. QED BY <2>1, <3>1, OneMoreRequest
  <2>2. CASE v # w
    <3>1. posts'[v] = posts[v]
      BY <2>2, OneMoreRequest DEF IInv, TypeOK
    <3>. QED BY <2>2, <3>1 DEF IInv, PostsWeighed
  <2>. QED BY <2>1, <2>2
<1>. QED BY <1>1, <1>2, <1>3 DEF IInv

\* _post() raised: the loop around it calls again, or gives up.
LEMMA CallRaises ==
  ASSUME IInv, NEW w \in Workers, Request(w), Raised(w), UNCHANGED dlq
  PROVE  IInv'
<1>1. pc[w] = "post" /\ queue' = queue /\ sent' = sent
  BY DEF Request
<1>2. /\ posts' \in [Workers -> Nat] /\ posts'[w] = posts[w] + 1
      /\ \A v \in Workers : v # w => posts'[v] = posts[v]
  BY OneMoreRequest DEF IInv, TypeOK
<1>3. CASE attempt[w] >= MaxRetries
  <2>1. Over(w, "failed")
    BY <1>3 DEF Raised
  <2>2. posts'[w] <= PostLimit
    BY <1>2, OneMoreRequest
  <2>3. dlq' \subseteq Windows /\ "failed" \in Fates
    BY DEF IInv, TypeOK, Fates
  <2>. QED BY <1>1, <1>2, <2>1, <2>2, <2>3, CallEnds
<1>4. CASE ~(attempt[w] >= MaxRetries)
  <2>1. /\ attempt' = [attempt EXCEPT ![w] = @ + 1]
        /\ tries500' = [tries500 EXCEPT ![w] = 0]
        /\ tries429' = [tries429 EXCEPT ![w] = 0]
        /\ UNCHANGED <<pc, message, fate>>
    BY <1>4 DEF Raised, NewCall
  <2>2. attempt[w] \in 0..MaxRetries /\ MaxRetries \in Nat
    BY ForwarderAssumption DEF IInv, TypeOK
  <2>3. TypeOK'
    BY <1>1, <1>2, <1>4, <2>1, <2>2, ForwarderAssumption DEF IInv, TypeOK
  <2>4. attempt'[w] = attempt[w] + 1 /\ tries500'[w] = 0 /\ tries429'[w] = 0
    BY <2>1 DEF IInv, TypeOK
  <2>5. posts[w] + 1 <= attempt'[w] * CallLimit + tries500'[w] + tries429'[w]
    <3>1. (attempt[w] + 1) * CallLimit \in Nat
      BY <2>2, LimitsAreNat
    <3>. QED BY <2>4, <3>1, OneMoreRequest
  <2>6. \A v \in Workers : v # w => /\ attempt'[v] = attempt[v]
                                    /\ tries500'[v] = tries500[v]
                                    /\ tries429'[v] = tries429[v]
    BY <2>1 DEF IInv, TypeOK
  <2>. QED BY <2>1, <2>3, <2>5, <2>6, CallGoesOn
<1>. QED BY <1>3, <1>4

-----------------------------------------------------------------------------
\* Type correctness, with the counters weighed against the requests.
THEOREM TypeCorrect == Spec => [](TypeOK /\ IInv)
<1>1. Init => IInv
  <2> SUFFICES ASSUME Init PROVE IInv
    OBVIOUS
  <2>1. TypeOK
    BY ForwarderAssumption DEF Init, TypeOK
  <2>2. HoldsMessage /\ Exclusive /\ FateOpen /\ CountersReset
    BY DEF Init, HoldsMessage, Exclusive, FateOpen, CountersReset
  <2>3. PostsWeighed
    <3>1. PostLimit \in Nat
      BY LimitsAreNat, ForwarderAssumption
    <3>. QED BY <3>1 DEF Init, PostsWeighed
  <2>. QED BY <2>1, <2>2, <2>3 DEF IInv
<1>2. IInv /\ [Next]_vars => IInv'
  <2> SUFFICES ASSUME IInv, [Next]_vars PROVE IInv'
    OBVIOUS
  <2>1. CASE UNCHANGED vars
    BY <2>1 DEF vars, callVars, IInv, TypeOK, HoldsMessage, Exclusive, FateOpen,
                CountersReset, PostsWeighed, PostLimit, CallLimit
  <2>2. ASSUME NEW w \in Workers, NEW p \in Windows, Enqueue(w, p) PROVE IInv'
    <3>1. /\ pc'[w] = "receive" /\ message' = message /\ fate' = fate
          /\ \A v \in Workers : v # w => pc'[v] = pc[v]
          /\ pc[w] = "idle" /\ <<p, 0>> \notin sent /\ <<p, 0>> \in Messages
      BY <2>2, ForwarderAssumption DEF IInv, TypeOK, Enqueue, Goto, Messages
    <3>2. TypeOK'
      BY <2>2, <3>1 DEF IInv, TypeOK, Enqueue, Goto, callVars
    <3>3. HoldsMessage' /\ Exclusive'
      BY <2>2, <3>1 DEF IInv, HoldsMessage, Exclusive, FateOpen, Enqueue
    <3>4. FateOpen'
      BY <2>2, <3>1 DEF IInv, FateOpen, Enqueue
    <3>5. CountersReset' /\ PostsWeighed'
      BY <2>2, <3>1 DEF IInv, CountersReset, PostsWeighed, PostLimit, CallLimit,
                        Enqueue, callVars
    <3>. QED BY <3>2, <3>3, <3>4, <3>5 DEF IInv
  <2>3. ASSUME NEW w \in Workers, Receive(w) PROVE IInv'
    <3>1. /\ pc[w] = "receive" /\ message[w] = None
          /\ queue' = queue /\ sent' = sent /\ fate' = fate /\ posts' = posts
          /\ attempt' = attempt /\ tries500' = tries500 /\ tries429' = tries429
      BY <2>3 DEF IInv, HoldsMessage, Receive, callVars
    <3>2. CASE pc'[w] = "idle" /\ Goto(w, "idle") /\ UNCHANGED message
      <4>1. TypeOK'
        BY <2>3, <3>2 DEF IInv, TypeOK, Receive, Goto, callVars
      <4>2. \A v \in Workers : v # w => pc'[v] = pc[v]
        BY <3>2 DEF IInv, TypeOK, Goto
      <4>3. HoldsMessage' /\ Exclusive' /\ FateOpen'
        BY <3>1, <3>2, <4>2 DEF IInv, HoldsMessage, Exclusive, FateOpen
      <4>4. CountersReset' /\ PostsWeighed'
        BY <3>1, <3>2, <4>2 DEF IInv, CountersReset, PostsWeighed, PostLimit, CallLimit
      <4>. QED BY <4>1, <4>3, <4>4 DEF IInv
    <3>3. ASSUME NEW p \in queue, Visible(p), Goto(w, "delete"),
                 message' = [message EXCEPT ![w] = p]
          PROVE  IInv'
      <4>1. TypeOK'
        BY <2>3, <3>3 DEF IInv, TypeOK, Receive, Goto, callVars
      <4>2. /\ pc'[w] = "delete" /\ message'[w] = p /\ p \in Messages /\ p # None
            /\ \A v \in Workers : v # w => pc'[v] = pc[v] /\ message'[v] = message[v]
        BY <3>3, ForwarderAssumption DEF IInv, TypeOK, Goto
      <4>3. \A v \in Workers : v # w => message[v] # p
        BY <3>3, <4>2 DEF IInv, HoldsMessage, Exclusive, Visible
      <4>4. HoldsMessage'
        BY <3>1, <4>2 DEF IInv, HoldsMessage
      <4>5. Exclusive'
        BY <3>1, <3>3, <4>2, <4>3 DEF IInv, Exclusive
      <4>6. FateOpen'
        BY <3>1, <3>3, <4>2 DEF IInv, FateOpen
      <4>7. CountersReset' /\ PostsWeighed'
        BY <3>1, <4>2 DEF IInv, CountersReset, PostsWeighed, PostLimit, CallLimit
      <4>. QED BY <4>1, <4>4, <4>5, <4>6, <4>7 DEF IInv
    <3>4. \/ Goto(w, "idle") /\ UNCHANGED message
          \/ \E p \in queue : /\ Visible(p) /\ Goto(w, "delete")
                              /\ message' = [message EXCEPT ![w] = p]
      BY <2>3 DEF Receive
    <3>5. Goto(w, "idle") => pc'[w] = "idle"
      BY DEF IInv, TypeOK, Goto
    <3>. QED BY <3>2, <3>3, <3>4, <3>5
  <2>4. ASSUME NEW w \in Workers, Delete(w) PROVE IInv'
    <3>1. /\ pc[w] = "delete" /\ pc'[w] = "post" /\ queue' = queue \ {message[w]}
          /\ posts'[w] = 0 /\ message' = message /\ sent' = sent /\ fate' = fate
          /\ attempt' = attempt /\ tries500' = tries500 /\ tries429' = tries429
          /\ \A v \in Workers : v # w => pc'[v] = pc[v] /\ posts'[v] = posts[v]
      BY <2>4 DEF IInv, TypeOK, Delete, Goto
    <3>2. TypeOK'
      BY <2>4 DEF IInv, TypeOK, Delete, Goto
    <3>3. message[w] # None
      BY <3>1 DEF IInv, HoldsMessage
    <3>4. HoldsMessage' /\ FateOpen' /\ CountersReset'
      BY <3>1 DEF IInv, HoldsMessage, FateOpen, CountersReset
    <3>5. Exclusive'
      <4>1. \A v \in Workers : v # w /\ pc[v] = "delete" => message[v] # message[w]
        BY <3>3 DEF IInv, Exclusive
      <4>. QED BY <3>1, <4>1 DEF IInv, Exclusive
    <3>6. PostsWeighed'
      <4>1. PostLimit \in Nat
        BY LimitsAreNat, ForwarderAssumption
      <4>2. attempt[w] = 0 /\ tries500[w] = 0 /\ tries429[w] = 0
        BY <3>1 DEF IInv, CountersReset
      <4>3. 0 <= 0 * CallLimit + 0 + 0
        BY LimitsAreNat
      <4>. QED BY <3>1, <4>1, <4>2, <4>3 DEF IInv, PostsWeighed, PostLimit, CallLimit
    <3>. QED BY <3>2, <3>4, <3>5, <3>6 DEF IInv
  <2>5. ASSUME NEW w \in Workers, Answer(w) PROVE IInv'
    <3>1. Request(w) /\ pc[w] = "post" /\ queue' = queue /\ sent' = sent
      BY <2>5 DEF Answer, Detected, BadRequest, Unavailable, InternalError,
                  RateLimited, Request
    <3>2. /\ posts' \in [Workers -> Nat] /\ posts'[w] = posts[w] + 1
          /\ posts'[w] <= PostLimit
          /\ \A v \in Workers : v # w => posts'[v] = posts[v]
      BY <3>1, OneMoreRequest DEF IInv, TypeOK
    <3>3. CASE Detected(w)
      <4>1. Over(w, "detected") /\ "detected" \in Fates /\ dlq' \subseteq Windows
        BY <3>3 DEF Detected, Fates, IInv, TypeOK
      <4>. QED BY <3>1, <3>2, <4>1, CallEnds
    <3>4. CASE BadRequest(w)
      <4>1. /\ pc'[w] = "dlq" /\ \A v \in Workers : v # w => pc'[v] = pc[v]
            /\ message' = message /\ fate' = fate /\ attempt' = attempt
            /\ tries500' = tries500 /\ tries429' = tries429
        BY <3>4 DEF IInv, TypeOK, BadRequest, Goto
      <4>2. TypeOK'
        BY <3>1, <3>2, <3>4 DEF IInv, TypeOK, BadRequest, Goto
      <4>3. HoldsMessage' /\ Exclusive' /\ FateOpen' /\ CountersReset'
        BY <3>1, <4>1 DEF IInv, HoldsMessage, Exclusive, FateOpen, CountersReset
      <4>4. PostsWeighed'
        BY <3>2, <4>1 DEF IInv, PostsWeighed, PostLimit, CallLimit
      <4>. QED BY <4>2, <4>3, <4>4 DEF IInv
    <3>6. CASE Raised(w) /\ UNCHANGED dlq
      BY <3>1, <3>6, CallRaises
    <3>7. CASE /\ tries500[w] < Retries500
               /\ tries500' = [tries500 EXCEPT ![w] = @ + 1]
               /\ UNCHANGED <<pc, message, attempt, tries429, fate, dlq>>
      <4>1. tries500[w] \in 0..Retries500 /\ Retries500 \in Nat
        BY ForwarderAssumption DEF IInv, TypeOK
      <4>2. TypeOK'
        BY <3>1, <3>2, <3>7, <4>1 DEF IInv, TypeOK
      <4>3. /\ tries500'[w] = tries500[w] + 1
            /\ \A v \in Workers : v # w => tries500'[v] = tries500[v]
        BY <3>7 DEF IInv, TypeOK
      <4>4. posts[w] + 1 <= attempt'[w] * CallLimit + tries500'[w] + tries429'[w]
        <5>1. /\ attempt[w] * CallLimit \in Int /\ tries429[w] \in Int
          BY LimitsAreNat, ForwarderAssumption DEF IInv, TypeOK
        <5>2. posts[w] + 1 <= attempt[w] * CallLimit + tries500[w] + tries429[w] + 1
          BY <3>1, OneMoreRequest
        <5>. QED BY <3>7, <4>1, <4>3, <5>1, <5>2
      <4>. QED BY <3>1, <3>7, <4>2, <4>3, <4>4, CallGoesOn
    <3>8. CASE /\ tries429[w] < Retries429
               /\ tries429' = [tries429 EXCEPT ![w] = @ + 1]
               /\ UNCHANGED <<pc, message, attempt, tries500, fate, dlq>>
      <4>1. tries429[w] \in 0..Retries429 /\ Retries429 \in Nat
        BY ForwarderAssumption DEF IInv, TypeOK
      <4>2. TypeOK'
        BY <3>1, <3>2, <3>8, <4>1 DEF IInv, TypeOK
      <4>3. /\ tries429'[w] = tries429[w] + 1
            /\ \A v \in Workers : v # w => tries429'[v] = tries429[v]
        BY <3>8 DEF IInv, TypeOK
      <4>4. posts[w] + 1 <= attempt'[w] * CallLimit + tries500'[w] + tries429'[w]
        <5>1. /\ attempt[w] * CallLimit \in Int /\ tries500[w] \in Int
          BY LimitsAreNat, ForwarderAssumption DEF IInv, TypeOK
        <5>2. posts[w] + 1 <= attempt[w] * CallLimit + tries500[w] + tries429[w] + 1
          BY <3>1, OneMoreRequest
        <5>. QED BY <3>8, <4>1, <4>3, <5>1, <5>2
      <4>. QED BY <3>1, <3>8, <4>2, <4>3, <4>4, CallGoesOn
    <3>. QED BY <2>5, <3>3, <3>4, <3>6, <3>7, <3>8
             DEF Answer, Unavailable, InternalError, RateLimited
  <2>6. ASSUME NEW w \in Workers, SendDlq(w) PROVE IInv'
    <3>0. message[w] \in Messages
      BY <2>6 DEF SendDlq, IInv, TypeOK, HoldsMessage
    <3>1. /\ pc[w] = "dlq" /\ Over(w, "rejected") /\ "rejected" \in Fates
          /\ UNCHANGED <<queue, sent>> /\ posts' = posts
          /\ dlq' \subseteq Windows
      BY <2>6, <3>0 DEF SendDlq, Fates, IInv, TypeOK, Messages
    <3>2. posts' \in [Workers -> Nat] /\ posts'[w] <= PostLimit
      BY <3>1 DEF IInv, TypeOK, PostsWeighed
    <3>. QED BY <3>1, <3>2, CallEnds
  <2>7. ASSUME NEW w \in Workers, Crash(w) PROVE IInv'
    <3>1. /\ posts' = posts /\ dlq' = dlq
          /\ queue' = queue /\ sent' = sent /\ "lost" \in Fates
      BY <2>7 DEF Crash, Fates
    <3>2. CASE pc[w] \in {"post", "dlq"}
      <4>1. Over(w, "lost") /\ posts' \in [Workers -> Nat]
            /\ posts'[w] <= PostLimit
            /\ dlq' \subseteq Windows
        BY <2>7, <3>1, <3>2 DEF Crash, IInv, TypeOK, PostsWeighed
      <4>. QED BY <3>1, <3>2, <4>1, CallEnds
    <3>3. CASE pc[w] \notin {"post", "dlq"}
      <4>1. /\ pc'[w] = "idle" /\ message'[w] = None /\ fate' = fate
            /\ attempt' = attempt /\ tries500' = tries500 /\ tries429' = tries429
            /\ \A v \in Workers : v # w => pc'[v] = pc[v] /\ message'[v] = message[v]
            /\ pc[w] \in {"receive", "delete"}
        BY <2>7, <3>3 DEF IInv, TypeOK, Crash, Goto
      <4>2. TypeOK'
        BY <2>7, <3>1, <3>3 DEF IInv, TypeOK, Crash, Goto
      <4>3. HoldsMessage' /\ Exclusive' /\ FateOpen' /\ CountersReset'
        BY <3>1, <4>1 DEF IInv, HoldsMessage, Exclusive, FateOpen, CountersReset
      <4>4. PostsWeighed'
        BY <3>1, <4>1 DEF IInv, PostsWeighed, PostLimit, CallLimit
      <4>. QED BY <4>2, <4>3, <4>4 DEF IInv
    <3>. QED BY <3>2, <3>3
  <2>8. ASSUME NEW p \in Windows, Redeliver(p) PROVE IInv'
    <3>1. PICK n \in 1..MaxCopies :
            /\ <<p, n>> \notin sent
            /\ sent' = sent \cup {<<p, n>>}
            /\ queue' = queue \cup {<<p, n>>}
      BY <2>8 DEF Redeliver
    <3>2. /\ <<p, n>> \in Messages
          /\ UNCHANGED <<dlq, pc, message, attempt, tries500, tries429, posts, fate>>
      BY <2>8, ForwarderAssumption DEF Redeliver, Messages, callVars
    <3>3. TypeOK'
      BY <3>1, <3>2 DEF IInv, TypeOK
    <3>4. HoldsMessage' /\ Exclusive'
      BY <3>1, <3>2 DEF IInv, HoldsMessage, Exclusive, FateOpen
    <3>5. FateOpen'
      BY <3>1, <3>2 DEF IInv, FateOpen
    <3>6. CountersReset' /\ PostsWeighed'
      BY <3>2 DEF IInv, CountersReset, PostsWeighed, PostLimit, CallLimit
    <3>. QED BY <3>3, <3>4, <3>5, <3>6 DEF IInv
  <2>9. ASSUME NEW m \in Messages, Expire(m) PROVE IInv'
    <3>1. /\ m \in queue /\ queue' = queue \ {m}
          /\ fate' = [fate EXCEPT ![m] = "expired"]
          /\ UNCHANGED <<pc, message, attempt, tries500, tries429, posts, sent>>
      BY <2>9 DEF Expire, callVars
    <3>2. dlq' \subseteq Windows
      BY <2>9 DEF Expire, Messages, IInv, TypeOK
    <3>3. TypeOK'
      BY <3>1, <3>2 DEF IInv, TypeOK
    <3>4. \A v \in Workers : message[v] # None => message[v] # m
      BY <2>9, <3>1 DEF IInv, HoldsMessage, Exclusive, Expire, Visible
    <3>5. HoldsMessage' /\ Exclusive'
      BY <3>1, <3>4, ForwarderAssumption DEF IInv, HoldsMessage, Exclusive
    <3>6. FateOpen'
      <4>1. \A q \in Messages : q # m => fate'[q] = fate[q]
        BY <3>1 DEF IInv, TypeOK
      <4>2. /\ \A v \in Workers : message[v] # None => message[v] \in Messages
            /\ queue \subseteq Messages
        BY DEF IInv, TypeOK
      <4>. QED BY <3>1, <3>4, <4>1, <4>2 DEF IInv, FateOpen
    <3>7. CountersReset' /\ PostsWeighed'
      BY <3>1 DEF IInv, CountersReset, PostsWeighed, PostLimit, CallLimit
    <3>. QED BY <3>3, <3>5, <3>6, <3>7 DEF IInv
  <2>. QED BY <2>1, <2>2, <2>3, <2>4, <2>5, <2>6, <2>7, <2>8, <2>9
           DEF Next, Queue, Forward
<1>3. IInv => TypeOK
  BY DEF IInv
<1>. QED BY <1>1, <1>2, <1>3, PTL DEF Spec

\* The retry loop of _post() inside the one of forward_detect_once() sends at most
\* PostLimit requests for one window, whatever the AI engine answers.
THEOREM PostsStayBounded == Spec => []PostsBounded
<1>1. IInv => PostsBounded
  BY DEF IInv, PostsWeighed, PostsBounded
<1>. QED BY <1>1, TypeCorrect, PTL

-----------------------------------------------------------------------------
\* The refinement mapping of TelemetryForwarder, written as sets of pairs.
Taken == {<<w, message[w]>> : w \in {v \in Workers : pc[v] \in {"post", "dlq"}}}
Ended == {<<m, fate[m]>> : m \in {q \in Messages : fate[q] # None}}

\* The end of a call is the end of its message.
LEMMA OverEnds ==
  ASSUME IInv, NEW w \in Workers, NEW f \in Fates, Over(w, f),
         pc[w] \in {"post", "dlq"}, queue' = queue
  PROVE  message[w] \in Messages /\ Promise!End(w, message[w], f)
<1>1. message[w] \in Messages /\ fate[message[w]] = None /\ f # None
  BY ForwarderAssumption DEF IInv, TypeOK, HoldsMessage, FateOpen
<1>2. /\ pc'[w] = "idle"
      /\ \A v \in Workers : v # w => pc'[v] = pc[v] /\ message'[v] = message[v]
  BY DEF IInv, TypeOK, Over, Goto
<1>3. /\ fate'[message[w]] = f
      /\ \A p \in Messages : p # message[w] => fate'[p] = fate[p]
  BY <1>1 DEF IInv, TypeOK, Over
<1>4. Taken' = Taken \ {<<w, message[w]>>}
  BY <1>2 DEF Taken
<1>5. Ended' = Ended \cup {<<message[w], f>>}
  BY <1>1, <1>3 DEF Ended
<1>6. <<w, message[w]>> \in Taken
  BY DEF Taken
<1>. QED BY <1>1, <1>4, <1>5, <1>6 DEF Promise!End, Taken, Ended

\* A step that takes no message and ends none is a stutter.
LEMMA Stutters ==
  ASSUME queue' = queue, fate' = fate,
         \A v \in Workers : /\ pc'[v] \in {"post", "dlq"} <=> pc[v] \in {"post", "dlq"}
                            /\ pc[v] \in {"post", "dlq"} => message'[v] = message[v]
  PROVE  UNCHANGED Promise!vars
<1>1. Taken' = Taken
  BY DEF Taken
<1>. QED BY <1>1 DEF Taken, Promise!vars

\* What comes into the queue and is not held, whoever sent it.
LEMMA NewMessage ==
  ASSUME IInv, NEW p \in Messages, p \notin sent,
         queue' = queue \cup {p}, fate' = fate,
         \A v \in Workers : /\ pc'[v] \in {"post", "dlq"} <=> pc[v] \in {"post", "dlq"}
                            /\ message'[v] = message[v]
  PROVE  Promise!Send(p)
<1>1. p \notin queue /\ fate[p] = None
  BY DEF IInv, FateOpen
<1>2. \A v \in Workers : pc[v] \in {"post", "dlq"} => message[v] # p
  BY ForwarderAssumption DEF IInv, FateOpen, HoldsMessage
<1>3. \A v \in Workers : <<v, p>> \notin Taken
  BY <1>2 DEF Taken
<1>4. \A f \in Fates \cup {"expired"} : <<p, f>> \notin Ended
  BY <1>1 DEF Ended
<1>5. Taken' = Taken /\ Ended' = Ended
  BY DEF Taken, Ended
<1>. QED BY <1>1, <1>3, <1>4, <1>5 DEF Promise!Send, Taken, Ended

\* A message that leaves the queue unused.
LEMMA ExpiredMessage ==
  ASSUME IInv, NEW m \in Messages, Expire(m)
  PROVE  Promise!Expire(m)
<1>1. m \in queue /\ queue' = queue \ {m} /\ fate[m] = None
  BY DEF Expire, IInv, FateOpen
<1>2. /\ fate'[m] = "expired"
      /\ \A q \in Messages : q # m => fate'[q] = fate[q]
  BY DEF Expire, IInv, TypeOK
<1>3. "expired" # None
  BY ForwarderAssumption
<1>4. Ended' = Ended \cup {<<m, "expired">>}
  BY <1>1, <1>2, <1>3 DEF Ended
<1>5. Taken' = Taken
  BY DEF Taken, Expire
<1>. QED BY <1>1, <1>4, <1>5 DEF Promise!Expire, Taken, Ended

\* The forwarder implements the promise made for its messages, for any number of
\* redeliveries: each is taken by one executor, which has had it deleted, and
\* never again, and ends once (receive() and the end of forward_detect_once()).
THEOREM KeepsPromise == Spec => PromiseKept
<1>1. Init => Promise!Init
  BY DEF Init, Promise!Init
<1>2. IInv /\ [Next]_vars => [Promise!Next]_(Promise!vars)
  <2> SUFFICES ASSUME IInv, [Next]_vars PROVE Promise!Next \/ UNCHANGED Promise!vars
    OBVIOUS
  <2>1. CASE UNCHANGED vars
    BY <2>1, Stutters DEF vars
  <2>2. ASSUME NEW w \in Workers, NEW p \in Windows, Enqueue(w, p)
        PROVE  Promise!Next
    <3>1. <<p, 0>> \in Messages
      BY ForwarderAssumption DEF Messages
    <3>2. \A v \in Workers : /\ pc'[v] \in {"post", "dlq"} <=> pc[v] \in {"post", "dlq"}
                             /\ message'[v] = message[v]
      BY <2>2 DEF IInv, TypeOK, Enqueue, Goto
    <3>3. Promise!Send(<<p, 0>>)
      BY <2>2, <3>1, <3>2, NewMessage DEF Enqueue
    <3>. QED BY <3>1, <3>3 DEF Promise!Next
  <2>3. ASSUME NEW w \in Workers, Receive(w) PROVE UNCHANGED Promise!vars
    <3>1. \A v \in Workers : /\ pc'[v] \in {"post", "dlq"} <=> pc[v] \in {"post", "dlq"}
                             /\ pc[v] \in {"post", "dlq"} => message'[v] = message[v]
      BY <2>3 DEF IInv, TypeOK, Receive, Goto
    <3>. QED BY <2>3, <3>1, Stutters DEF Receive
  <2>4. ASSUME NEW w \in Workers, Delete(w)
        PROVE  message[w] \in Messages /\ Promise!Take(w, message[w])
    <3>1. /\ pc[w] = "delete" /\ pc'[w] = "post" /\ message' = message
          /\ \A v \in Workers : v # w => pc'[v] = pc[v]
      BY <2>4 DEF IInv, TypeOK, Delete, Goto
    <3>2. message[w] \in Messages /\ message[w] \in queue
      BY <3>1 DEF IInv, TypeOK, HoldsMessage, Exclusive
    <3>3. Taken' = Taken \cup {<<w, message[w]>>}
      BY <3>1 DEF Taken
    <3>4. Ended' = Ended
      BY <2>4 DEF Ended, Delete
    <3>. QED BY <2>4, <3>2, <3>3, <3>4 DEF Promise!Take, Taken, Ended, Delete
  <2>5. ASSUME NEW w \in Workers, NEW f \in Fates, Over(w, f),
               pc[w] \in {"post", "dlq"}, queue' = queue
        PROVE  Promise!Next
    BY <2>5, OverEnds DEF Promise!Next
  <2>6. ASSUME NEW w \in Workers, pc[w] = "post", queue' = queue, Raised(w)
        PROVE  Promise!Next \/ UNCHANGED Promise!vars
    <3>1. CASE attempt[w] >= MaxRetries
      BY <2>5, <2>6, <3>1 DEF Raised, Fates
    <3>2. CASE ~(attempt[w] >= MaxRetries)
      BY <2>6, <3>2, Stutters DEF Raised
    <3>. QED BY <3>1, <3>2
  <2>7. ASSUME NEW w \in Workers, Answer(w)
        PROVE  Promise!Next \/ UNCHANGED Promise!vars
    <3>1. pc[w] = "post" /\ queue' = queue
      BY <2>7 DEF Answer, Detected, BadRequest, Unavailable, InternalError,
                  RateLimited, Request
    <3>2. CASE Detected(w)
      BY <2>5, <3>1, <3>2 DEF Detected, Fates
    <3>3. CASE BadRequest(w)
      <4>1. \A v \in Workers : pc'[v] \in {"post", "dlq"} <=> pc[v] \in {"post", "dlq"}
        BY <3>1, <3>3 DEF IInv, TypeOK, BadRequest, Goto
      <4>. QED BY <3>1, <3>3, <4>1, Stutters DEF BadRequest
    <3>4. CASE Raised(w)
      BY <2>6, <3>1, <3>4
    <3>5. CASE UNCHANGED <<pc, message, fate>>
      BY <3>1, <3>5, Stutters
    <3>. QED BY <2>7, <3>2, <3>3, <3>4, <3>5
             DEF Answer, Unavailable, InternalError, RateLimited
  <2>8. ASSUME NEW w \in Workers, SendDlq(w) PROVE Promise!Next
    BY <2>5, <2>8 DEF SendDlq, Fates
  <2>9. ASSUME NEW w \in Workers, Crash(w)
        PROVE  Promise!Next \/ UNCHANGED Promise!vars
    <3>1. CASE pc[w] \in {"post", "dlq"}
      BY <2>5, <2>9, <3>1 DEF Crash, Fates
    <3>2. CASE pc[w] \notin {"post", "dlq"}
      <4>1. \A v \in Workers : /\ pc'[v] \in {"post", "dlq"} <=> pc[v] \in {"post", "dlq"}
                               /\ pc[v] \in {"post", "dlq"} => message'[v] = message[v]
        BY <2>9, <3>2 DEF IInv, TypeOK, Crash, Goto
      <4>. QED BY <2>9, <3>2, <4>1, Stutters DEF Crash
    <3>. QED BY <3>1, <3>2
  <2>10. ASSUME NEW p \in Windows, Redeliver(p) PROVE Promise!Next
    <3>1. PICK n \in 1..MaxCopies : <<p, n>> \notin sent /\ queue' = queue \cup {<<p, n>>}
      BY <2>10 DEF Redeliver
    <3>2. <<p, n>> \in Messages
      BY ForwarderAssumption DEF Messages
    <3>3. Promise!Send(<<p, n>>)
      BY <2>10, <3>1, <3>2, NewMessage DEF Redeliver
    <3>. QED BY <3>2, <3>3 DEF Promise!Next
  <2>11. ASSUME NEW m \in Messages, Expire(m) PROVE Promise!Next
    BY <2>11, ExpiredMessage DEF Promise!Next
  <2>12. CASE \E w \in Workers :
                (\E p \in Windows : Enqueue(w, p)) \/ Forward(w) \/ Crash(w)
    <3>1. PICK w \in Workers :
            (\E p \in Windows : Enqueue(w, p)) \/ Forward(w) \/ Crash(w)
      BY <2>12
    <3>3. CASE Delete(w)
      BY <2>4, <3>3 DEF Promise!Next, Promise!Take
    <3>. QED BY <2>2, <2>3, <2>7, <2>8, <2>9, <3>1, <3>3 DEF Forward
  <2>. QED BY <2>1, <2>10, <2>11, <2>12 DEF Next, Queue
<1>. QED BY <1>1, <1>2, TypeCorrect, PTL DEF Spec, PromiseKept, Promise!Spec
=============================================================================
