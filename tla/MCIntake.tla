------------------------------ MODULE MCIntake ------------------------------
(***************************************************************************)
(* The inputs of the intake: the scenario files of the repository, odd     *)
(* scenario files, one document of every shape the converters know, and    *)
(* an AI engine that answers as the mock does, with a field missing or     *)
(* another judgement, or with any plan of one or two items.                *)
(***************************************************************************)
EXTENDS Intake
LOCAL INSTANCE TLC   \* @@

VARIABLE honest   \* history: every reply so far was the mock's

Mock == INSTANCE MockAi

-----------------------------------------------------------------------------
\* executor/scenarios/*.json

Point(ns, signal, value, extra) ==
  [ts |-> Canonical("t1"), tenant_id |-> TenantId,
   service |-> IF ns = "tenant-a" THEN "checkout-svc" ELSE "orders-svc",
   signal_name |-> signal, value |-> value,
   labels |-> extra @@ [system |-> "K8S_NATIVE", namespace |-> ns,
                        deployment |-> IF ns = "tenant-a" THEN "cdo-sample-api"
                                       ELSE "cdo-orders-api"]]

Scenario(name, ns, signal, value, how, why) ==
  [tenant_namespace |-> ns, correlation_id |-> name, expected_outcome |-> Out(how, why),
   telemetry_window |-> {Point(ns, signal, value, [scenario |-> name])}]

Healed(name, ns, signal, value) == Scenario(name, ns, signal, value, "auto_resolved", None)

ScenarioFiles ==
  { Healed("oom_kill", "tenant-a", "pod_oom_event", Text("OOMKilled")),
    Healed("crashloop", "tenant-a", "container_restart_count", Number(5)),
    Healed("latency", "tenant-a", "service_latency_p95", Number(1850)),
    Healed("bad_deploy", "tenant-a", "service_unhealthy", Text("probe failed")),
    Healed("memory_pressure", "tenant-a", "container_resource_usage", Number(128849018)),
    Healed("oom_kill_b", "tenant-b", "pod_oom_event", Text("OOMKilled")),
    Healed("crashloop_b", "tenant-b", "container_restart_count", Number(7)),
    Healed("latency_b", "tenant-b", "service_latency_p95", Number(2200)),
    Healed("scale_capacity", "tenant-a", "queue_backlog", Number(15000)),
    Scenario("oom_persist", "tenant-a", "pod_oom_event", Text("OOMKilled"), "rolled_back", None),
    Scenario("cross_tenant", "tenant-a", "container_restart_count", Number(6),
             "escalated", "denied_cross_tenant"),
    Scenario("unsafe_action", "tenant-a", "container_restart_count", Number(6),
             "escalated", "denied_action_not_allowed"),
    Scenario("low_conf", "tenant-a", "service_error_rate", Number(2),
             "closed", "low_confidence_no_action"),
    Scenario("verify_escalate", "tenant-a", "service_error_rate", Number(40),
             "escalated", "verify_escalate"),
    \* tc01: two points, no scenario, no expectation of its own.
    [tenant_namespace |-> "tenant-a", correlation_id |-> "tc01",
     expected_outcome |-> Out("auto_resolved", None),
     telemetry_window |->
       {Point("tenant-a", "service_latency_p95", Number(1850), Empty),
        Point("tenant-a", "service_unhealthy", Text("probe failed"), Empty)}] }

-----------------------------------------------------------------------------
\* Other documents.

Stamps == {None} \cup [form : {"rfc3339ms", "rfc3339", "digits"} \cup DateSpelling
                              \cup {"s", "ms", "us", "ns"},
                       instant : {"t1"}]
Values == {NoValue, Text(""), Number(0), Number(1), Text("OOMKilled"), Text("Running"),
           Text("pii"), Text("secret"), Text("an object")}
Names == {"pod_waiting_reason", "pod_phase", "restart_count", "hpa_at_max_replicas",
          "container_ready", "service_error_rate", "error_rate"}

\* Points of a scenario file as a person may write them.
OddPoints ==
  {p @@ Point("tenant-a", "service_error_rate", Number(1), Empty) :
     p \in [ts : Stamps] \cup [signal_name : Names, value : Values]
           \cup [tenant_id : {None, "another tenant", "not a uuid"}]
           \cup [service : {None}, labels : {[service |-> "svc"], [system |-> ""], Empty}]
           \cup [system : {"BILLING"}, labels : {Empty, [system |-> "K8S_NATIVE"]},
                 value : {Text("pii"), Number(1)}]}

OddFiles ==
  {[tenant_namespace |-> "tenant-a", correlation_id |-> "odd", expected_outcome |-> None,
    telemetry_window |-> {p, Point("tenant-a", "queue_backlog", Number(1), Empty)}] :
     p \in OddPoints}

PrometheusAnswers ==
  [status : {"success"},
   data : {[result |-> <<m @@ [value |-> v]>>] :
             m \in {Empty} \cup
                   [metric : [app : {"checkout"}, pod : {"p1", ""}]
                             \cup [__name__ : {{"http", "latency"}, {"error"}, {"restart"}, {"container"},
                                               {"queue"}, {"up"}}]],
             v \in [instant : {"t1", "t2"}, value : {[text |-> "a numeral", number |-> 1], NoValue,
                                                     Text("")}]}
          \cup {[result |-> <<>>],
                [result |-> << [metric |-> [namespace |-> "tenant-a"]] >>],
                [result |-> << [values |-> << [instant |-> "t1", value |-> Number(1)],
                                              [instant |-> "t2", value |-> Number(2)] >>] >>]}]

EventLists ==
  {[items |-> {e, [reason |-> "Scheduled"]}] :
     e \in {s @@ o @@ [reason |-> r] @@ m :
              s \in {Empty} \cup [eventTime : Stamps] \cup [lastTimestamp : Stamps],
              o \in {Empty, [involvedObject |-> [name |-> "web-7d4-x2", stem |-> "web", namespace |-> "tenant-a"]],
                     [involvedObject |-> [name |-> "web"], metadata |-> [labels |-> [app |-> "shop"]]]},
              r \in {"OOMKilling", "BackOff", "Pulled"},
              m \in {Empty} \cup [message : {"OOMKilled", "", "pii"}]}}

LogRecords ==
  {s @@ m @@ l :
     s \in {Empty} \cup [ts : Stamps] \cup [timestamp : Stamps, time : {Canonical("t2")}],
     m \in {Empty} \cup [message : Values] \cup [log : Values, msg : {Text("x")}]
           \cup [severity : {"error"}, value : {Number(0), Text(""), Text("x")}],
     l \in {Empty, [service |-> "checkout", level |-> "info"],
            [labels |-> [system |-> "", deployment |-> "d"], app |-> ""],
            [pod_name |-> "p1", tenant_id |-> "another tenant"]}}

LogDocuments ==
  LogRecords
  \cup {[list |-> {r, [message |-> Text("x")]}] : r \in LogRecords}
  \cup {[logEvents |-> {r}, deployment |-> "parent", labels |-> [system |-> "CW"]] : r \in LogRecords}

Spans ==
  {s @@ c @@ [traceId |-> "trace", name |-> "get"] :
     s \in {Empty} \cup [ts : Stamps] \cup [startTimeUnixNano : Stamps],
     c \in {Empty} \cup [status : [code : {"OK", "ERROR"}]
                                  \cup [code : {"2"}, message : Values]]}

SpanLists == {[list |-> {s, [traceId |-> "other", spanId |-> "s1"]}] : s \in Spans}

Exports ==
  {[resourceSpans |->
      {[resource |-> [attributes |->
           << [key |-> "service.name", value |-> "checkout"], [key |-> "system"],
              [key |-> "k8s.pod.name", value |-> "p1"], [key |-> "service.name", value |-> n] >>],
        scopeSpans |-> {{s}, {}}]}] : s \in Spans, n \in {"orders", ""}}

MCInit ==
  /\ honest = TRUE
  /\ \/ \E f \in ScenarioFiles : InitWith(None, None, f) \/ InitWith("scenario", f, None)
     \/ \E f \in OddFiles : InitWith("auto", f, None) \/ InitWith("scenario", f, None)
     \/ \E d \in PrometheusAnswers : InitWith("auto", d, None)
     \/ \E d \in PrometheusAnswers, s \in {"service_latency_p95", "up"} :
          InitWith("prometheus", [input |-> d, signal_name |-> s, service |-> "checkout",
                                  namespace |-> "tenant-a", deployment |-> "web"], None)
     \/ \E d \in EventLists : InitWith("auto", d, None) \/ InitWith("k8s-events", d, None)
     \/ \E d \in LogDocuments : InitWith("auto", d, None) \/ InitWith("logs", d, None)
     \/ \E d \in SpanLists : InitWith("auto", d, None) \/ InitWith("otel-spans", d, None)
     \/ \E d \in Exports : InitWith("auto", d, None) \/ InitWith("otlp-export", d, None)

-----------------------------------------------------------------------------
\* The AI engine.

Damaged(reply) == {Without(reply, {k}) : k \in DOMAIN reply}

MockDetections ==
  {Mock!MockDetect(NormalizedWindow, first, ctx.correlation_id) : first \in NormalizedWindow}

OtherDetections(reply) ==
  Damaged(reply)
  \cup {[reply EXCEPT !.anomaly_context = c] : c \in {Empty} \cup Damaged(reply.anomaly_context)}
  \cup {[reply EXCEPT !.confidence = c, !.severity = s] : c \in {49, 50, 79, 80}, s \in {69, 70}}
  \cup {[reply EXCEPT !.anomaly_detected = FALSE], [reply EXCEPT !.correlation_id = ""]}

MockDecision == Mock!MockDecide(Echo(ctx.detect.anomaly_context), ctx.correlation_id)

DamagedDecisions(reply) ==
  LET item == reply.action_plan[1] IN
  Damaged(reply)
  \cup {[reply EXCEPT !.action_plan = <<i>>] : i \in Damaged(item)}
  \cup {[reply EXCEPT !.action_plan = <<[item EXCEPT !.params = p]>>] : p \in Damaged(item.params)}
  \cup {[reply EXCEPT !.blast_radius_config = b] : b \in Damaged(reply.blast_radius_config)}
  \cup {[reply EXCEPT !.verify_policy = p] : p \in Damaged(reply.verify_policy)}

\* Parameters matter only to the actions that read them.
Items ==
  {[step |-> 1, action |-> a, target |-> "d", params |-> p] :
     a \in {"RESTART_DEPLOYMENT", "ROTATE_SECRET", "DELETE_NAMESPACE"},
     p \in [namespace : {"tenant-a", "tenant-b"}] \cup {Empty}}
  \cup
  {[step |-> 1, action |-> "SCALE_REPLICAS", target |-> "d", params |-> [namespace |-> "tenant-a"] @@ p] :
     p \in [replicas : {MinReplicas - 1, MinReplicas, MaxReplicas, MaxReplicas + 1}] \cup {Empty}}
  \cup
  {[step |-> 1, action |-> "PATCH_MEMORY_LIMIT", target |-> "d", params |-> [namespace |-> "tenant-a"] @@ p] :
     p \in [memory_limit_mb : {0, MaxMemory, MaxMemory + 1}] \cup {Empty}}

ItemLists == {<<>>} \cup {<<i>> : i \in Items} \cup {<<i, j>> : i \in Items, j \in Items}

AnyPlan(reply) ==
  {[reply EXCEPT !.pattern_type = t, !.action_plan = items, !.verify_policy.window_seconds = w,
                 !.blast_radius_config.allowed_namespaces = allowed,
                 !.blast_radius_config.max_pod_impact_pct = pct] :
     t \in {"urgent", "deferred", "manual"}, items \in ItemLists, w \in {0, 60},
     allowed \in {{"tenant-a"}, {"tenant-a", "tenant-b"}}, pct \in {100, 101}}

\* Any plan is answered to an incident of each tenant.
AskedAnyPlan == mode = None /\ honest /\ ctx.correlation_id \in {"oom_kill", "oom_kill_b"}

MockVerdicts == {Mock!MockVerify(first) : first \in RawWindow}

\* Bundles that speak of the incident in the AI's words, or say nothing.
OwnBundles == {Empty, [reason |-> "", metrics |-> [namespace |-> "ai", correlation_id |-> "ai"]]}

OtherVerdicts(reply) ==
  Damaged(reply)
  \cup {[reply EXCEPT !.next_action = "RETRY"]}
  \cup {[next_action |-> "ESCALATE", escalation_bundle |-> b] @@ reply : b \in OwnBundles}

MCNext ==
  \/ (Tool \/ Accept) /\ UNCHANGED honest
  \/ stage = "detect" /\ \E mock \in MockDetections :
       \/ Detect(mock) /\ UNCHANGED honest
       \/ \E reply \in OtherDetections(mock) : Detect(reply) /\ honest' = FALSE
  \/ stage = "decide" /\ Context(ctx.detect) = None /\ Decide(Empty) /\ UNCHANGED honest
  \/ stage = "decide" /\ Context(ctx.detect) # None /\
       \/ Decide(MockDecision) /\ UNCHANGED honest
       \/ \E reply \in DamagedDecisions(MockDecision) : Decide(reply) /\ honest' = FALSE
       \/ AskedAnyPlan /\ \E reply \in AnyPlan(MockDecision) : Decide(reply) /\ honest' = FALSE
  \/ Execute("COMPLETED") /\ UNCHANGED honest
  \/ Execute("FAILED") /\ honest' = FALSE
  \/ stage = "verify" /\ \E mock \in MockVerdicts :
       \/ Verify(mock) /\ UNCHANGED honest
       \/ \E reply \in OtherVerdicts(mock) : Verify(reply) /\ honest' = FALSE

MCSpec == MCInit /\ [][MCNext]_<<vars, honest>>

-----------------------------------------------------------------------------
\* Every scenario of the repository ends as its file expects when the mock
\* answers, given to main.py as it is or through the conversion tool.
ExpectedOutcome ==
  /\ mode = "scenario" /\ document \in ScenarioFiles /\ stage = "over" => file # None
  /\ stage = "over" /\ honest /\ file # None /\ file.expected_outcome # None =>
       outcome = file.expected_outcome
=============================================================================
