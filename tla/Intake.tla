------------------------------- MODULE Intake -------------------------------
(***************************************************************************)
(* What an input meets on its way to an action: the conversion tool        *)
(* (normalize_telemetry.py) that makes the window of a scenario file,      *)
(* main.py that hands the file to a fresh Executor, and handle_incident    *)
(* with the data that HealLoop.tla leaves out: the telemetry contract, the *)
(* replies of the AI field by field, the gates, and the bundle that goes   *)
(* out with an escalation.  There is one incident, the breaker is closed,  *)
(* the lock is free and the AI is reached; it may answer anything.         *)
(***************************************************************************)
EXTENDS CustomTelemetry, AiReplies, PreDecideGate, SafetyGate
LOCAL INSTANCE Functions   \* Restrict

Contract == INSTANCE TelemetryContract

ASSUME IntakeAssumption ==
  Absent = None /\ None \notin {"urgent", "deferred", "COMPLETED"}

VARIABLES
  stage,     \* "tool", "main", "detect", "decide", "execute", "verify" or "over"
  mode,      \* the mode of the tool
  document,  \* its input
  window,    \* its output, or None
  file,      \* the scenario file that main.py is given, or None
  ctx,       \* the IncidentContext
  outcome,   \* what handle_incident returned: [how, why]
  bundle,    \* of the escalation, or None
  said       \* history: the bundle of the AI that was merged into it, or None

vars == <<stage, mode, document, window, file, ctx, outcome, bundle, said>>

NoContext == [correlation_id |-> None, namespace |-> None, detect |-> None, decide |-> None,
              result |-> None, snapshot |-> None]

\* The namespace of the incident.
Namespace == file.tenant_namespace

Out(how, why) == [how |-> how, why |-> why]

\* The tool is given a document, or main.py a file.
InitWith(m, doc, f) ==
  /\ stage = IF m = None THEN "main" ELSE "tool"
  /\ mode = m /\ document = doc /\ file = f
  /\ window = None
  /\ ctx = NoContext
  /\ outcome = Out("none", None)
  /\ bundle = None /\ said = None

-----------------------------------------------------------------------------
\* escalation.py, the logs as a set of what they tell; without a cluster there
\* are no pod logs.

Told(c) ==
  [detect |-> c.detect # None,
   action_attempted |-> c.decide # None /\ c.decide.action_plan # <<>>,
   execute_result |-> c.result # None,
   rollback_snapshot |-> c.snapshot # None]

Logs(c) == {line \in DOMAIN Told(c) : Told(c)[line]}

\* _metrics(): the trigger metric is written last, under its own name.
Metrics(reason, c) ==
  LET context == IF c.detect = None THEN None ELSE Context(c.detect)
      trigger == IF context = None THEN None ELSE Get(context, "trigger_metric")
  IN  (IF trigger \in NoText THEN Empty ELSE [k \in {trigger} |-> Get(context, "trigger_value")])
      ++ (IF context = None THEN Empty
          ELSE [suspected_fault_type |-> context.suspected_fault_type])
      ++ (IF c.detect = None THEN Empty
          ELSE [confidence |-> c.detect.confidence, severity |-> c.detect.severity])
      ++ [correlation_id |-> c.correlation_id, namespace |-> c.namespace,
          escalation_reason_code |-> reason]

\* Mutant: the logs of the AI's bundle take the place of the executor's.
AssembleBundleReplaced(reason, c, ai) ==
  IF ai = None \/ ai = Empty
  THEN [reason |-> reason, logs |-> Logs(c), metrics |-> Metrics(reason, c)]
  ELSE [reason |-> Or(Get(ai, "reason"), reason),
        logs |-> GetOr(ai, "logs", Logs(c)),
        metrics |-> GetOr(ai, "metrics", Empty) ++ Metrics(reason, c)]

\* assemble_bundle(): the AI's bundle is merged in, and goes first.
AssembleBundle(reason, c, ai) ==
  IF ai = None \/ ai = Empty
  THEN [reason |-> reason, logs |-> Logs(c), metrics |-> Metrics(reason, c)]
  ELSE [reason |-> Or(Get(ai, "reason"), reason),
        logs |-> GetOr(ai, "logs", {}) \cup Logs(c),
        metrics |-> GetOr(ai, "metrics", Empty) ++ Metrics(reason, c)]

-----------------------------------------------------------------------------
\* Ends of handle_incident.

End(how, why, c) ==
  /\ stage' = "over" /\ ctx' = c /\ outcome' = Out(how, why)
  /\ UNCHANGED <<mode, document, window, file, bundle, said>>

\* _escalate(), whose delivery cannot fail the loop.
Escalate(reason, c, ai) ==
  /\ stage' = "over" /\ ctx' = c /\ outcome' = Out("escalated", reason)
  /\ bundle' = AssembleBundle(reason, c, ai) /\ said' = ai
  /\ UNCHANGED <<mode, document, window, file>>

Go(next, c) ==
  /\ stage' = next /\ ctx' = c
  /\ UNCHANGED <<mode, document, window, file, outcome, bundle, said>>

\* An exception that handle_incident does not catch: nobody is told.
Raise(c) == End("raised", None, c)

-----------------------------------------------------------------------------
\* main() of normalize_telemetry.py.  Its scenario mode keeps the rest of the
\* file, which main.py can then be given; the other modes write a bare window.
Tool ==
  /\ stage = "tool"
  /\ window' = Convert(mode, document)
  /\ IF mode = "scenario" /\ window' # None /\ "tenant_namespace" \in DOMAIN document
     THEN stage' = "main" /\ file' = [document EXCEPT !.telemetry_window = window']
     ELSE stage' = "over" /\ file' = None
  /\ UNCHANGED <<mode, document, ctx, outcome, bundle, said>>

\* A point as the executor finds it in the file.
AsRead(p) ==
  [ts |-> IF Get(p, "ts") = None THEN None ELSE p.ts.instant,
   tenant_id |-> Get(p, "tenant_id"), service |-> Get(p, "service"),
   signal_name |-> Get(p, "signal_name"), value |-> GetValue(p, "value"),
   labels |-> GetOr(p, "labels", Empty) ++ [deployment |-> None, service |-> None]]

RawWindow == {AsRead(p) : p \in file.telemetry_window}
NormalizedWindow == Contract!Normalized(RawWindow)

\* main() of main.py and the start of handle_incident.
Accept ==
  /\ stage = "main"
  /\ LET c == [NoContext EXCEPT !.correlation_id = file.correlation_id,
                                !.namespace = Namespace]
     IN  IF Contract!Rejects(RawWindow) THEN Escalate("telemetry_contract", c, None)
         ELSE Go("detect", c)

\* A reply as the Pre-Decide Gate sees it.
Detection(reply) ==
  [anomaly |-> reply.anomaly_detected,
   confidence |-> IF reply.confidence < 50 THEN "noise"
                  ELSE IF reply.confidence < 80 THEN "low" ELSE "high",
   severe |-> reply.severity >= 70]

\* evaluate() with the flap tracker of a fresh executor.
Decision(reply) ==
  LET early == Early(Detection(reply))
  IN  IF early = "counted" THEN Late(<<Detection(reply)>>) ELSE early

\* /v1/detect answers reply, then the Pre-Decide Gate.
Detect(reply) ==
  /\ stage = "detect"
  /\ IF ~WholeDetect(reply) THEN Raise(ctx)
     ELSE LET c == [ctx EXCEPT !.correlation_id = Or(reply.correlation_id, @), !.detect = reply]
          IN  CASE Decision(reply) = "proceed_to_decide" -> Go("decide", c)
                [] Decision(reply) \in {"low_confidence_escalated", "flapping_escalated"} ->
                     Escalate(Decision(reply), c, None)
                [] OTHER -> End("closed", Decision(reply), c)

\* /v1/decide answers reply, then the safety gate and the snapshot; without an
\* anomaly_context there is no request to send.
Decide(reply) ==
  /\ stage = "decide"
  /\ IF Context(ctx.detect) = None \/ ~WholeDecide(reply) THEN Raise(ctx)
     ELSE LET c == [ctx EXCEPT !.decide = reply] IN
          IF Allows(Plan(reply), Namespace)
          THEN Go("execute", [c EXCEPT !.snapshot = reply.pattern_type])
          ELSE Escalate(Reason(Plan(reply), Namespace), c, None)

\* Mutant: the status of the execution is not looked at.
ExecuteUnchecked(status) ==
  /\ stage = "execute"
  /\ Go("verify", [ctx EXCEPT !.result = status])

\* executor.execute()
Execute(status) ==
  /\ stage = "execute"
  /\ LET c == [ctx EXCEPT !.result = status]
     IN  IF status = "COMPLETED" THEN Go("verify", c) ELSE Escalate("execute_failed", c, None)

\* /v1/verify answers reply, then _handle_next_action().
Verify(reply) ==
  /\ stage = "verify"
  /\ IF ~WholeVerify(reply) THEN Raise(ctx)
     ELSE CASE reply.next_action = "DONE" -> End("auto_resolved", None, ctx)
            [] reply.next_action = "RETRY" -> End("retry", None, ctx)
            [] reply.next_action = "ROLLBACK" -> End("rolled_back", None, ctx)
            [] OTHER -> Escalate("verify_escalate", ctx, Get(reply, "escalation_bundle"))

-----------------------------------------------------------------------------
Handling == {"detect", "decide", "execute", "verify"}

\* What IncidentCourse tells of this incident.
HowItStands ==
  CASE stage \in Handling -> "handling"
    [] stage \notin Handling /\ outcome.how = "none" -> "new"
    [] stage \notin Handling /\ outcome.how = "raised" -> "died"
    [] OTHER -> outcome.how

CallsAhead ==
  CASE stage = "detect" -> 4
    [] stage = "decide" -> 3
    [] stage = "execute" -> 2
    [] stage = "verify" -> 1
    [] stage \notin Handling /\ outcome.how = "none" -> 5
    [] OTHER -> 0

Sent == {ctx.result} \cap {"COMPLETED"}

Course == INSTANCE IncidentCourse WITH
  outcome <- HowItStands, ahead <- CallsAhead, sent <- Sent

\* With its data, an incident takes the course that HealLoop gives it: whatever a
\* reply says or lacks, each stage is passed once, and an end that speaks of an
\* action ("auto_resolved", "retry", "rolled_back") is that of an incident whose
\* action was completed (main.py:57-189).
CourseTaken == Course!Spec

\* What the tool writes for the executor's own tenant the executor accepts, and
\* takes every point for what the tool took it for: the two copies of the
\* telemetry contract agree, whatever the collector exported.
HandoffAccepted ==
  window \notin {None, {}} /\ (\A p \in window : p.tenant_id = TenantId) =>
    /\ ~Contract!Rejects({AsRead(p) : p \in window})
    /\ \A p \in window :
         LET read == Contract!NormalizePoint(AsRead(p)) IN
         /\ read.service = p.service /\ read.signal_name = p.signal_name
         /\ read.ts = p.ts.instant

Without(d, keys) == Restrict(d, DOMAIN d \ keys)

Unmarked(points) ==
  {[p EXCEPT !.labels = Without(@, {"cdo_source_mode", "cdo_original_signal"})] : p \in points}

\* A window that goes through the tool again, as a bare list or in a scenario
\* file, stays what it is but for the marks of the conversion: running the tool
\* twice, or validating its output by converting it, loses and changes nothing.
ConvertedOnce ==
  window \notin {None, {}} =>
    \A again \in {Converted("auto", [list |-> window]),
                  Converted("auto", [telemetry_window |-> window]),
                  Converted("scenario", [telemetry_window |-> window])} :
      (\A p \in again : ValidPoint(p)) /\ Unmarked(again) = Unmarked(window)

StampFields ==
  {"ts", "timestamp", "@timestamp", "time", "eventTime", "lastTimestamp", "firstTimestamp",
   "startTimeUnixNano", "start_time_unix_nano", "startTime"}

\* The spans of an export.
ExportedSpans(raw) ==
  UNION {UNION GetOr(resource, "scopeSpans", {}) : resource \in GetOr(raw, "resourceSpans", {})}

\* The records of a document, in whatever shape it is.
Records(raw) ==
  {raw} \cup (UNION {GetOr(raw, list, {}) : list \in {"telemetry_window", "items", "logEvents", "list"}})
        \cup ExportedSpans(raw)

StampsOf(record) == {record[f] : f \in {f \in StampFields : Get(record, f) # None}}

\* The instants that a record states, and those of a document: in the records or
\* in the samples of the series.
StatedBy(record) == {s.instant : s \in StampsOf(record)}

Stated(raw) ==
  (UNION {StatedBy(r) : r \in Records(raw)})
  \cup {Sample(item).instant : item \in Series(raw) \cup Series(GetOr(raw, "input", Empty))}

\* The stamps that a converter may take for the date that their digits spell: logs
\* and spans read a number as a number.
TakenForDates(converter) ==
  IF converter \in {"real_log_event", "real_otel_span"} THEN {"digits_date"} ELSE DateSpelling

SpellsDate(raw, converter) ==
  \E r \in Records(raw) : \E s \in StampsOf(r) : s.form \in TakenForDates(converter)

\* No record moves in time but by one reading: a point carries an instant that its
\* document states, in whatever unit, or the time of the conversion, or else the
\* date that the digits of a stamp spell, where the converter reads the stamp as a
\* text.  Any other unit that is misread is refused, never turned into another
\* instant, as one of January 1970.
InstantKept ==
  window \notin {None, {}} =>
    \A p \in window :
      \/ p.ts.instant \in Stated(document) \cup {Now}
      \/ p.ts.instant = Spelt /\ SpellsDate(document, p.labels.cdo_source_mode)

\* The gate passes a plan exactly when it is safe: nothing unsafe slips past
\* the order of the tests, and nothing safe is denied.
GateExact ==
  ctx.decide # None => (ctx.snapshot # None <=> Safe(Plan(ctx.decide), Namespace))

\* A denial is recorded under a reason that is true of the plan: it crosses tenants
\* only if an item with a known action does, and it scales to zero exactly if an
\* item does of a plan that is otherwise in order up to it.
ReasonIsTrue ==
  ctx.decide # None /\ outcome.how = "escalated" /\ Namespace # None =>
    LET d == Plan(ctx.decide) IN
    /\ outcome.why = "denied_cross_tenant" =>
         \E i \in DOMAIN d.items :
           /\ d.items[i].ns # Namespace \/ Namespace \notin d.allowed
           /\ d.items[i].action \in AllowedActions
    /\ outcome.why = "scale_to_zero_denied" <=>
         /\ ctx.snapshot = None
         /\ d.verifyWindow > 0 /\ d.pattern = "deferred"
         /\ \E i \in DOMAIN d.items :
              /\ d.items[i].action = "SCALE_REPLICAS"
              /\ d.items[i].replicas # None /\ d.items[i].replicas < MinReplicas
              /\ d.items[i].ns = Namespace /\ Namespace \in d.allowed
              /\ \A j \in 1..i - 1 : ~ItemDenied(d, Namespace, j)

\* An action follows only replies that said it in full: an anomaly with its
\* context, and for every item the namespace of the incident, with a policy to
\* verify it and the namespaces the AI allows; what a reply leaves out is never
\* made up.
WholeRepliesAct ==
  ctx.result # None =>
    /\ "anomaly_context" \in DOMAIN ctx.detect /\ ctx.detect.anomaly_detected
    /\ \A i \in DOMAIN ctx.decide.action_plan :
         Get(ctx.decide.action_plan[i].params, "namespace") = Namespace
    /\ Namespace \in GetOr(ctx.decide.blast_radius_config, "allowed_namespaces", {})
    /\ GetOr(ctx.decide.verify_policy, "window_seconds", 0) > 0

\* Which incident it is, and why it was given up.
Incident ==
  [namespace |-> Namespace, correlation_id |-> ctx.correlation_id,
   escalation_reason_code |-> outcome.why]

\* The AI names a metric as the trigger, not a field of the bundle.
TriggerIsMetric ==
  ctx.detect # None /\ Context(ctx.detect) # None =>
    Get(Context(ctx.detect), "trigger_metric") \notin DOMAIN Incident

\* Whoever is called by an escalation learns which incident it is and why it was
\* given up, unless the AI put that in words of its own, and what was done to the
\* cluster before, whatever the AI adds: the action that was sent, its result and
\* the snapshot to go back to.
BundleTells ==
  outcome.how = "escalated" =>
    /\ TriggerIsMetric =>
         LET words == IF said = None THEN Empty ELSE GetOr(said, "metrics", Empty) IN
         \A k \in DOMAIN Incident : bundle.metrics[k] = GetOr(words, k, Incident[k])
    /\ ctx.detect # None => "detect" \in bundle.logs
    /\ ctx.result # None =>
         {"action_attempted", "execute_result", "rollback_snapshot"} \subseteq bundle.logs
=============================================================================
