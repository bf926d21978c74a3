------------------------- MODULE TelemetryForwarder -------------------------
(***************************************************************************)
(* executor/telemetry_forwarder.py with an SQS queue, and the retries of   *)
(* executor/ai_client.py under it.  Several executors share the queue: an  *)
(* incident sends its window, receives some window, deletes it from the    *)
(* queue, and posts it to /v1/detect.  _post() retries 429 and 500 by      *)
(* itself; forward_detect_once() retries whatever _post() raises, except   *)
(* 400.  The queue is a standard one (infra/modules/audit/main.tf): it may *)
(* deliver a window again, because its copy was kept, because the sending  *)
(* was repeated, or because the 30 s of the visibility timeout ran out     *)
(* before delete_message(); each delivery is a message of its own here, as *)
(* it is one of its own in SQS, with its own receipt handle.               *)
(***************************************************************************)
EXTENDS Integers, FiniteSets

CONSTANTS
  Workers,        \* executors
  Windows,        \* telemetry windows, one for each incident
  MaxCopies,      \* how often the queue delivers a window again, in all (bound)
  MaxRetries,     \* cfg.telemetry_max_retries
  Retries500,     \* cfg.http_500_max_retries
  Retries429,     \* cfg.http_429_max_retries
  MayCrash,       \* whether a worker may crash
  None

\* How a call of forward_detect_once can end.
Fates == {"detected", "rejected", "failed", "lost"}

\* A delivery of a window: the first one, or a later one.
Messages == Windows \X (0..MaxCopies)

ASSUME ForwarderAssumption ==
  /\ MaxCopies \in Nat
  /\ MaxRetries \in Nat
  /\ Retries500 \in Nat
  /\ Retries429 \in Nat
  /\ MayCrash \in BOOLEAN
  /\ None \notin Messages \cup Fates \cup {"expired"}

VARIABLES
  queue,      \* messages in the queue, also those received and not deleted
  dlq,        \* windows in the dead-letter queue
  pc,         \* where each worker is
  message,    \* what it received, or None
  attempt,    \* the loop variable of forward_detect_once
  tries500,   \* the variable attempt of _post
  tries429,   \* the variable rl_attempt of _post
  posts,      \* history: requests sent for the payload at hand
  sent,       \* history: messages that were in the queue so far
  fate        \* history: how a message ended, or None

callVars == <<attempt, tries500, tries429, posts>>
vars == <<queue, dlq, pc, message, callVars, sent, fate>>

TypeOK ==
  /\ queue \subseteq Messages
  /\ dlq \subseteq Windows
  /\ pc \in [Workers -> {"idle", "receive", "delete", "post", "dlq"}]
  /\ message \in [Workers -> Messages \cup {None}]
  /\ attempt \in [Workers -> 0..MaxRetries]
  /\ tries500 \in [Workers -> 0..Retries500]
  /\ tries429 \in [Workers -> 0..Retries429]
  /\ posts \in [Workers -> Nat]
  /\ sent \subseteq Messages
  /\ fate \in [Messages -> Fates \cup {"expired", None}]

Init ==
  /\ queue = {}
  /\ dlq = {}
  /\ pc = [w \in Workers |-> "idle"]
  /\ message = [w \in Workers |-> None]
  /\ attempt = [w \in Workers |-> 0]
  /\ tries500 = [w \in Workers |-> 0]
  /\ tries429 = [w \in Workers |-> 0]
  /\ posts = [w \in Workers |-> 0]
  /\ sent = {}
  /\ fate = [m \in Messages |-> None]

Goto(w, step) == pc' = [pc EXCEPT ![w] = step]

\* enqueue_detect_request().
Enqueue(w, p) ==
  /\ pc[w] = "idle"
  /\ <<p, 0>> \notin sent
  /\ sent' = sent \cup {<<p, 0>>}
  /\ queue' = queue \cup {<<p, 0>>}
  /\ Goto(w, "receive")
  /\ UNCHANGED <<dlq, message, callVars, fate>>

\* SQS delivers a window again, whatever has become of its earlier deliveries.
Redeliver(p) ==
  /\ Cardinality({m \in sent : m[2] > 0}) < MaxCopies
  /\ \E n \in 1..MaxCopies :
       /\ <<p, n - 1>> \in sent
       /\ <<p, n>> \notin sent
       /\ sent' = sent \cup {<<p, n>>}
       /\ queue' = queue \cup {<<p, n>>}
  /\ UNCHANGED <<dlq, pc, message, callVars, fate>>

\* A delivery is of one receiver: its receipt is its own.
Visible(m) == \A v \in Workers : ~(pc[v] = "delete" /\ message[v] = m)

\* A message leaves the queue unused, after an hour or, received three times, for
\* the dead-letter queue.
Expire(m) ==
  /\ m \in queue
  /\ Visible(m)
  /\ queue' = queue \ {m}
  /\ dlq' \in {dlq, dlq \cup {m[1]}}
  /\ fate' = [fate EXCEPT ![m] = "expired"]
  /\ UNCHANGED <<pc, message, callVars, sent>>

\* Mutant: the message is deleted after it was forwarded, if at all.
ReceiveKeeps(w) ==
  /\ pc[w] = "receive"
  /\ \E m \in queue :
       Visible(m) /\ Goto(w, "post") /\ message' = [message EXCEPT ![w] = m]
  /\ UNCHANGED <<queue, dlq, callVars, sent, fate>>

\* receive(): any message, or none, although the queue is not empty: the
\* incident is then escalated with telemetry_buffer_empty.
Receive(w) ==
  /\ pc[w] = "receive"
  /\ \/ \E m \in queue :
          Visible(m) /\ Goto(w, "delete") /\ message' = [message EXCEPT ![w] = m]
     \/ Goto(w, "idle") /\ UNCHANGED message
  /\ UNCHANGED <<queue, dlq, callVars, sent, fate>>

\* delete_message(), before the payload is used.
Delete(w) ==
  /\ pc[w] = "delete"
  /\ queue' = queue \ {message[w]}
  /\ Goto(w, "post")
  /\ posts' = [posts EXCEPT ![w] = 0]
  /\ UNCHANGED <<dlq, message, attempt, tries500, tries429, sent, fate>>

\* A call of _post() begins with new counters.
NewCall(w) ==
  /\ tries500' = [tries500 EXCEPT ![w] = 0]
  /\ tries429' = [tries429 EXCEPT ![w] = 0]

\* The call of forward_detect_once is over.
Over(w, f) ==
  /\ Goto(w, "idle")
  /\ fate' = [fate EXCEPT ![message[w]] = f]
  /\ message' = [message EXCEPT ![w] = None]
  /\ attempt' = [attempt EXCEPT ![w] = 0]
  /\ NewCall(w)

\* _post() raised an AIError other than 400: forward_detect_once calls it again.
Raised(w) ==
  IF attempt[w] >= MaxRetries
    THEN Over(w, "failed")
    ELSE /\ attempt' = [attempt EXCEPT ![w] = @ + 1]
         /\ NewCall(w)
         /\ UNCHANGED <<pc, message, fate>>

\* The requests that the two nested retry loops may send for one window.
PostLimit == (MaxRetries + 1) * (Retries500 + Retries429 + 1)

\* A request is sent (counted up to one more than the limit).
Request(w) ==
  /\ pc[w] = "post"
  /\ posts' = [posts EXCEPT ![w] = IF @ > PostLimit THEN @ ELSE @ + 1]
  /\ UNCHANGED <<queue, sent>>

\* 200.
Detected(w) == Request(w) /\ Over(w, "detected") /\ UNCHANGED dlq

\* 400 is raised at once, by way of the dead-letter queue.
BadRequest(w) ==
  /\ Request(w)
  /\ Goto(w, "dlq")
  /\ UNCHANGED <<dlq, message, attempt, tries500, tries429, fate>>

\* Mutant: the rejected payload goes back to the queue and is received again.
SendDlqRequeues(w) ==
  /\ pc[w] = "dlq"
  /\ queue' = queue \cup {message[w]}
  /\ message' = [message EXCEPT ![w] = None]
  /\ Goto(w, "receive")
  /\ UNCHANGED <<dlq, callVars, fate, sent>>

\* send_dlq(), with a dead-letter queue configured.
SendDlq(w) ==
  /\ pc[w] = "dlq"
  /\ dlq' = dlq \cup {message[w][1]}
  /\ Over(w, "rejected")
  /\ UNCHANGED <<queue, posts, sent>>

\* 401, 403, 409, 503, a timeout, a connection error or a strange status.
Unavailable(w) == Request(w) /\ Raised(w) /\ UNCHANGED dlq

\* Mutant: a 500 also forgives the 429s.
InternalErrorForgives(w) ==
  /\ Request(w)
  /\ IF tries500[w] < Retries500
       THEN /\ tries500' = [tries500 EXCEPT ![w] = @ + 1]
            /\ tries429' = [tries429 EXCEPT ![w] = 0]
            /\ UNCHANGED <<pc, message, attempt, fate>>
       ELSE Raised(w)
  /\ UNCHANGED dlq

\* 500.
InternalError(w) ==
  /\ Request(w)
  /\ IF tries500[w] < Retries500
       THEN /\ tries500' = [tries500 EXCEPT ![w] = @ + 1]
            /\ UNCHANGED <<pc, message, attempt, tries429, fate>>
       ELSE Raised(w)
  /\ UNCHANGED dlq

\* Mutant: one 429 too many is tolerated.
RateLimitedLate(w) ==
  /\ Request(w)
  /\ IF tries429[w] <= Retries429
       THEN /\ tries429' = [tries429 EXCEPT ![w] = @ + 1]
            /\ UNCHANGED <<pc, message, attempt, tries500, fate>>
       ELSE Raised(w)
  /\ UNCHANGED dlq

\* 429.
RateLimited(w) ==
  /\ Request(w)
  /\ IF tries429[w] < Retries429
       THEN /\ tries429' = [tries429 EXCEPT ![w] = @ + 1]
            /\ UNCHANGED <<pc, message, attempt, tries500, fate>>
       ELSE Raised(w)
  /\ UNCHANGED dlq

\* The process dies: what it received and did not delete becomes visible again,
\* what it deleted is gone.
Crash(w) ==
  /\ MayCrash
  /\ pc[w] # "idle"
  /\ IF pc[w] \in {"post", "dlq"}
       THEN Over(w, "lost")
       ELSE /\ Goto(w, "idle")
            /\ message' = [message EXCEPT ![w] = None]
            /\ UNCHANGED <<attempt, tries500, tries429, fate>>
  /\ UNCHANGED <<queue, dlq, posts, sent>>

Answer(w) ==
  \/ Detected(w) \/ BadRequest(w) \/ Unavailable(w)
  \/ InternalError(w) \/ RateLimited(w)

Forward(w) == Receive(w) \/ Delete(w) \/ Answer(w) \/ SendDlq(w)

\* External: the queue itself.
Queue ==
  (\E p \in Windows : Redeliver(p)) \/ (\E m \in Messages : Expire(m))

Next ==
  \/ Queue
  \/ \E w \in Workers :
       (\E p \in Windows : Enqueue(w, p)) \/ Forward(w) \/ Crash(w)

Spec == Init /\ [][Next]_vars

\* Every request has a timeout and every wait is a bounded sleep.
FairSpec == Spec /\ \A w \in Workers : WF_vars(Forward(w))

-----------------------------------------------------------------------------
\* The two retry loops are bounded together, in any order of replies: the
\* counters of one call survive its other retries, and a new call starts new
\* ones (ai_client.py:88-124 inside telemetry_forwarder.py:97-111).
PostsBounded == \A w \in Workers : posts[w] <= PostLimit

\* Whatever the AI engine answers, and although a 429 or a 500 is tried again,
\* a call of forward_detect_once ends (ai_client.py:111-118).
EveryCallEnds == \A w \in Workers : pc[w] # "idle" ~> pc[w] = "idle"

\* The executors use no delivery twice: only what is in the queue is taken, by one
\* executor, which has it deleted first, and after that it is never taken again,
\* across crashes, and ends once.  So a window is forwarded at most as often as
\* SQS delivers it, and once if SQS delivers it once (telemetry_forwarder.py:51-65).
Promise == INSTANCE Delivery WITH
  waiting <- queue,
  taken <- {<<w, message[w]>> : w \in {v \in Workers : pc[v] \in {"post", "dlq"}}},
  ended <- {<<m, fate[m]>> : m \in {q \in Messages : fate[q] # None}}

PromiseKept == Promise!Spec

=============================================================================
