----------------------------- MODULE ConfigGraph -----------------------------
(***************************************************************************)
(* The wiring of the collector's configuration (internal/generator/vector): *)
(* how conf.Conf turns the inputs, pipelines and outputs of a forwarder     *)
(* into sources, transforms and sinks that refer to each other by           *)
(* generated ids.                                                           *)
(*                                                                          *)
(* Conf goes through pipelines, inputs, pipelines again and outputs, one at *)
(* a time, adds components to one configuration and hands the same options  *)
(* map to each of them; that is the state machine here.  What the finished  *)
(* configuration does is given by the flow of records through it.           *)
(*                                                                          *)
(* Names and ids are sequences of words: a dash in a name and the           *)
(* underscore between the parts of an id both end a word.  The text of a    *)
(* component is abstracted to what it does to a record's type, source and   *)
(* way.                                                                     *)
(***************************************************************************)
EXTENDS Naturals, Sequences, FiniteSets, TLC

CONSTANTS
  ClfSpecs,   \* the specs, after migration and validation
  Alphabet,   \* all names in their alphabetical order
  Numerals    \* the words for 0, 1, 2 and so on

Names == Seq(STRING) \ {<<>>}

AuditSources == {"auditd", "kubeAPI", "openshiftAPI", "ovn"}
InfrastructureSources == {"container", "node"}
AllLogSources == AuditSources \cup InfrastructureSources

InputTypes == {"application", "infrastructure", "audit", "http", "syslog"}

OutputTypes ==
  {"kafka", "loki", "elasticsearch", "cloudwatch", "s3", "googleCloudLogging", "splunk",
   "syslog", "azureLogsIngestion", "azureMonitor", "http", "otlp", "lokiStack"}

ASSUME NumeralsAssumption ==
  /\ Numerals \in Seq(STRING)
  /\ \A j, k \in DOMAIN Numerals : Numerals[j] = Numerals[k] => j = k

\* What the types of the API and the validation say of a spec: pipelines have
\* different names and refer to what is declared, and every output is referred to.
ASSUME SpecsAssumption ==
  \A s \in ClfSpecs :
    /\ DOMAIN s.inputs \cup DOMAIN s.outputs \cup DOMAIN s.filters \subseteq Names
    /\ \A n \in DOMAIN s.inputs :
         /\ s.inputs[n].type \in InputTypes
         /\ s.inputs[n].type = "infrastructure" => s.inputs[n].sources \subseteq InfrastructureSources
         /\ s.inputs[n].type = "audit" => s.inputs[n].sources \subseteq AuditSources
    /\ \A n \in DOMAIN s.outputs :
         /\ s.outputs[n].type \in OutputTypes
         /\ \E k \in DOMAIN s.pipelines : n \in s.pipelines[k].outputs
    /\ \A k \in DOMAIN s.pipelines :
         LET p == s.pipelines[k]
         IN  /\ p.name \in Names /\ p.filters \in Seq(DOMAIN s.filters)
             /\ Len(p.filters) < Len(Numerals)
             /\ p.inputs \subseteq DOMAIN s.inputs /\ p.inputs # {}
             /\ p.outputs \subseteq DOMAIN s.outputs
             /\ \A j \in DOMAIN s.pipelines : s.pipelines[j].name = p.name => j = k

VARIABLES
  spec,       \* the spec Conf was called with
  phase,      \* what Conf adds next
  todo,       \* the names it still has to go through in this phase
  inputIDs,   \* Output.InputIDs of each output
  ids,        \* Input.Ids of each input
  config,     \* the components, by id
  op,         \* the options shared by all generators
  leaving     \* the records that left each component, once Vector runs it

confVars == <<spec, phase, todo, inputIDs, ids, config, op>>
graphVars == <<spec, phase, todo, inputIDs, ids, config, op, leaving>>

-----------------------------------------------------------------------------
(* Components.  A port is what an input of a component refers to: all that   *)
(* another one puts out, or one route of it.                                 *)

Plain(id) == [id |-> id, route |-> ""]
RoutePort(id, route) == [id |-> id, route |-> route]
Ports(IDs) == {Plain(id) : id \in IDs}

Component(kind, does, inputs, arg) ==
  [kind |-> kind, does |-> does, inputs |-> inputs, arg |-> arg]
Source(records)      == Component("source", "emit", {}, records)
Pass(inputs)         == Component("transform", "pass", inputs, {})
Trace(inputs)        == Component("transform", "trace", inputs, {})
Count(inputs)        == Component("transform", "count", inputs, {})
Route(inputs, field, values) ==
  Component("transform", "route", inputs, [field |-> field, values |-> values])
Sink(inputs, out, tenant) ==
  Component("sink", "deliver", inputs, [output |-> out, tenant |-> tenant])

NoComponents == [id \in {} |-> Pass({})]
One(id, component) == [x \in {id} |-> component]

\* Components that are added take the place of those with their ids.
Over(added, components) ==
  [id \in DOMAIN added \cup DOMAIN components |->
     IF id \in DOMAIN added THEN added[id] ELSE components[id]]

MergeAll(maps) ==
  [id \in UNION {DOMAIN m : m \in maps} |->
     (CHOOSE m \in maps : id \in DOMAIN m)[id]]

MakeInputID(n) == <<"input">> \o n
MakeOutputID(n) == <<"output">> \o n

\* Faulty variant: filters are named regardless of the pipeline.
MakeSharedID(p, filter, index) == <<"pipeline">> \o filter \o <<Numerals[index + 1]>>
MakePipelineID(p, filter, index) ==
  <<"pipeline">> \o p \o filter \o <<Numerals[index + 1]>>

-----------------------------------------------------------------------------
(* Inputs *)

Chosen(declared, all) == IF declared = {} THEN all ELSE declared

\* A log source of an input: the word that ends its id, where its records come
\* from, and the type and source that normalization gives them.
LogSource(word, from, type, source) ==
  [word |-> word, from |-> from, type |-> type, source |-> source]

ContainerLogs(from) == LogSource(<<"container">>, from, "byNamespace", "container")

JournalLogs == LogSource(<<"journal">>, {"journal"}, "infrastructure", "node")

AuditWord ==
  [auditd |-> "host", kubeAPI |-> "kube", openshiftAPI |-> "openshift", ovn |-> "ovn"]
AuditLogs(s) == LogSource(<<AuditWord[s]>>, {s}, "audit", s)

ReceivedLogs(type) ==
  IF type = "http" THEN LogSource(<<>>, {"httpBody"}, "audit", "kubeAPI")
                   ELSE LogSource(<<>>, {"syslogLine"}, "receiver", "syslog")

\* The namespaces an application input reads: infrastructure namespaces are
\* excluded unless it includes one.
NamespacesOf(i) == {"appNamespace"} \cup IF i.infra THEN {"infraNamespace"} ELSE {}

LogSources(i) ==
  CASE i.type = "application"    -> {ContainerLogs(NamespacesOf(i))}
    [] i.type = "infrastructure" ->
         {IF s = "container" THEN ContainerLogs({"infraNamespace"}) ELSE JournalLogs
            : s \in Chosen(i.sources, InfrastructureSources)}
    [] i.type = "audit"          -> {AuditLogs(s) : s \in Chosen(i.sources, AuditSources)}
    [] OTHER                     -> {ReceivedLogs(i.type)}

Throttled(i, s) == i.tuning = "limit" /\ s.source = "container"

\* Faulty variant: the throttle is referred to whether it is there or not.
LastAlwaysThrottle(n, i, s) == MakeInputID(n) \o s.word \o <<"throttle">>

\* The last component of a log source, which pipelines refer to.
LastID(n, i, s) ==
  MakeInputID(n) \o s.word \o
    IF Throttled(i, s) THEN <<"throttle">> ELSE <<"meta">>

LogSourceComponents(n, i, s) ==
  LET base == MakeInputID(n) \o s.word
      items == base \o <<"items">>
      meta == base \o <<"meta">>
      isHttp == i.type = "http"
      records == {[input |-> n, from |-> f, type |-> "", source |-> "",
                   way |-> <<>>, traced |-> 0] : f \in s.from}
  IN  MergeAll(
        {One(base, Source(records)),
         One(meta, Component("transform", "normalize",
                             {Plain(IF isHttp THEN items ELSE base)},
                             [type |-> s.type, source |-> s.source])),
         IF isHttp THEN One(items, Pass({Plain(base)})) ELSE NoComponents,
         IF Throttled(i, s) THEN One(base \o <<"throttle">>, Pass({Plain(meta)}))
                            ELSE NoComponents})

\* MaxRecordsPerSecond looks into the container part of the tuning of an
\* infrastructure input, which may be absent.
MissesTuning(i) ==
  /\ i.type = "infrastructure"
  /\ i.tuning = "empty"
  /\ "container" \in Chosen(i.sources, InfrastructureSources)

NewSource(n, i) == MergeAll({LogSourceComponents(n, i, s) : s \in LogSources(i)})
NewInputIDs(n, i) == {LastID(n, i, s) : s \in LogSources(i)}

-----------------------------------------------------------------------------
(* Pipelines *)

Viaq == <<"viaq">>

\* The system filter takes the place of a declared one of its name.
FilterType(f) == IF f = Viaq THEN "viaq" ELSE spec.filters[f]
IsEarlyStage(f) == FilterType(f) \in {"parse", "detectMultilineException"}

\* The k-th of a set of positions.
Nth(positions, k) ==
  CHOOSE i \in positions : Cardinality({j \in positions : j < i}) = k - 1

\* Faulty variant: the system filter comes after all others.
AppendSystemFilter(p) == p.filters \o <<Viaq>>

AddSystemFilters(p) ==
  LET preFilters == {i \in DOMAIN p.filters : IsEarlyStage(p.filters[i])}
      otherFilters == DOMAIN p.filters \ preFilters
      at == Cardinality(preFilters) + 1
  IN  [k \in 1..(Len(p.filters) + 1) |->
         IF k < at THEN p.filters[Nth(preFilters, k)]
         ELSE IF k = at THEN Viaq
         ELSE p.filters[Nth(otherFilters, k - at)]]

FilterID(p, k) == MakePipelineID(p.name, AddSystemFilters(p)[k], k - 1)

LastFilterID(p) == FilterID(p, Len(AddSystemFilters(p)))

\* The first filter takes the inputs of the pipeline, by the ids they have
\* when the transforms are made.
PipelineTransforms(p) ==
  LET refs == AddSystemFilters(p)
  IN  MergeAll({One(FilterID(p, k),
        Component("transform", "filter",
          Ports(IF k = 1 THEN UNION {ids[n] : n \in p.inputs} ELSE {FilterID(p, k - 1)}),
          [pipeline |-> p.name, filter |-> refs[k]])) : k \in DOMAIN refs})

-----------------------------------------------------------------------------
(* Outputs *)

\* The transforms in front of a sink, one after the other, by the words that end
\* their ids.  optional is set by the field of the output that asks for the
\* transform that not all outputs of its type have.
If(optional, stage) == IF optional THEN <<stage>> ELSE <<>>

Kafka == <<<<"topic">>>>
Loki(tenantKey) == <<<<"remap">>, <<"remap", "label">>>> \o If(tenantKey, <<"loki", "tenant">>)
Elasticsearch(addID) == If(addID, <<"add", "id">>) \o <<<<"index">>>>
Cloudwatch == <<<<"normalize", "streams">>, <<"group", "name">>>>
S3 == <<<<"key", "prefix">>>>
GoogleCloudLogging == <<<<"log", "id">>, <<"normalize", "severity">>>>
Splunk(indexed) == <<<<"timestamp">>>> \o If(indexed, <<"splunk", "index">>) \o <<<<"metadata">>>>
Syslog == <<<<"parse", "encoding">>>>
AzureLogsIngestion == <<<<"remap", "reserved", "keywords">>>>
AzureMonitor == <<>>
HTTP == <<>>

Stages(o) ==
  CASE o.type = "kafka"              -> Kafka
    [] o.type = "loki"               -> Loki(o.optional)
    [] o.type = "elasticsearch"      -> Elasticsearch(o.optional)
    [] o.type = "cloudwatch"         -> Cloudwatch
    [] o.type = "s3"                 -> S3
    [] o.type = "googleCloudLogging" -> GoogleCloudLogging
    [] o.type = "splunk"             -> Splunk(o.optional)
    [] o.type = "syslog"             -> Syslog
    [] o.type = "azureLogsIngestion" -> AzureLogsIngestion
    [] o.type = "azureMonitor"       -> AzureMonitor
    [] o.type = "http"               -> HTTP

Linear(base, stages, inputs, out, tenant) ==
  LET At(k) == IF k = 0 THEN inputs ELSE {Plain(base \o stages[k])}
  IN  MergeAll({One(base \o stages[k], Pass(At(k - 1))) : k \in DOMAIN stages}
                 \cup {One(base, Sink(At(Len(stages)), out, tenant))})

Unmatched(id) == id \o <<"unmatched">>
CountUnmatched(id) == One(Unmatched(id), Count({RoutePort(id, "_unmatched")}))

GroupWord(s) ==
  CASE s = "container"          -> "container"
    [] s \in {"node", "auditd"} -> "host"
    [] OTHER                    -> "source"

\* otlp.New.  Log sources it does not know have a route and nothing behind it.
OTLP(base, inputs, sources, migrated, out, tenant) ==
  LET trace == base \o <<"trace", "context">>
      reroute == base \o <<"reroute">>
      known == sources \cap AllLogSources
      Grouped(g) == base \o <<"groupby", g>>
      groups == {GroupWord(s) : s \in known}
      resource == base \o <<"resource", "logs">>
  IN  MergeAll(
        {IF migrated THEN NoComponents ELSE One(trace, Trace(inputs)),
         One(reroute, Route(IF migrated THEN inputs ELSE {Plain(trace)}, "source", sources)),
         CountUnmatched(reroute),
         One(resource, Pass(Ports({Grouped(g) : g \in groups}))),
         One(base, Sink({Plain(resource)}, out, tenant))}
        \cup {One(base \o <<s>>, Pass({RoutePort(reroute, s)})) : s \in known}
        \cup {One(Grouped(g), Pass(Ports({base \o <<s>> : s \in {x \in known : GroupWord(x) = g}})))
                : g \in groups})

Pipelines == {spec.pipelines[k] : k \in DOMAIN spec.pipelines}
InputsTo(out) == UNION {p.inputs : p \in {q \in Pipelines : out \in q.outputs}}

\* Faulty variant: infrastructure namespaces of an application input are
\* forgotten.
TenantOfType(i) == {IF i.type = "http" THEN "audit"
                    ELSE IF i.type = "syslog" THEN "infrastructure" ELSE i.type}

TenantsOf(i) ==
  CASE i.type = "http"        -> {"audit"}
    [] i.type = "syslog"      -> {"infrastructure"}
    [] i.type = "application" -> {"application"} \cup IF i.infra THEN {"infrastructure"} ELSE {}
    [] OTHER                  -> {i.type}

DetermineTenants(out) == UNION {TenantsOf(spec.inputs[n]) : n \in InputsTo(out)}

\* The log sources the OTLP sink of a tenant is generated for.
GetInputSources(out, tenant) ==
  LET Of(i) ==
        CASE i.type = tenant /\ tenant = "application"    -> {"container"}
          [] i.type = tenant /\ tenant = "infrastructure" -> Chosen(i.sources, InfrastructureSources)
          [] i.type = tenant /\ tenant = "audit"          -> Chosen(i.sources, AuditSources)
          [] i.type = "http" /\ tenant = "audit"          -> {"receiver.http"}
          [] i.type = "syslog" /\ tenant = "infrastructure" -> {"receiver.syslog"}
          [] OTHER -> {}
  IN  UNION {Of(spec.inputs[n]) : n \in InputsTo(out)}

\* The last tenant in alphabetical order: its options are left behind.
LastTenant(tenants) ==
  IF "infrastructure" \in tenants THEN "infrastructure"
  ELSE IF "audit" \in tenants THEN "audit" ELSE "application"

LokiStack(base, inputs, o, out) ==
  LET tenants == DetermineTenants(out)
      trace == base \o <<"trace", "context">>
      route == base \o <<"route">>
      PerTenant(t) ==
        IF o.otel
          THEN OTLP(base \o <<t>>, {RoutePort(route, t)}, GetInputSources(out, t), TRUE, out, t)
          ELSE Linear(base \o <<t>>, Loki(FALSE), {RoutePort(route, t)}, out, t)
  IN  MergeAll(
        {IF o.otel THEN One(trace, Trace(inputs)) ELSE NoComponents,
         One(route, Route(IF o.otel THEN {Plain(trace)} ELSE inputs, "type", tenants)),
         CountUnmatched(route)}
        \cup {PerTenant(t) : t \in tenants})

\* The throttle of a limited output, then the components of its type.
NewOutput(n, o) ==
  LET base == MakeOutputID(n)
      throttle == base \o <<"throttle">>
      inputs == IF o.limited THEN {Plain(throttle)} ELSE Ports(inputIDs[n])
      components ==
        CASE o.type = "lokiStack" -> LokiStack(base, inputs, o, n)
          [] o.type = "otlp" -> OTLP(base, inputs, op.sources, op.migrated, n, "")
          [] OTHER -> Linear(base, Stages(o), inputs, n, "")
  IN  MergeAll({components,
                IF o.limited THEN One(throttle, Pass(Ports(inputIDs[n]))) ELSE NoComponents})

\* What an output leaves in the options.
OptionsAfter(n, o, components) ==
  LET tenants == DetermineTenants(n)
      counted == [op EXCEPT !.unmatched =
                    @ \cup {id \in DOMAIN components : components[id].does = "count"}]
  IN  IF o.type = "lokiStack" /\ o.otel
        THEN [counted EXCEPT !.migrated = TRUE,
                             !.sources = GetInputSources(n, LastTenant(tenants))]
        ELSE counted

-----------------------------------------------------------------------------
(* Conf *)

PipelineOrder == [k \in DOMAIN spec.pipelines |-> spec.pipelines[k].name]
PipelineNamed(n) == CHOOSE p \in Pipelines : p.name = n

\* Pipelines are wired as the user lists them; then Conf goes by name.
First(n) ==
  LET order == IF phase = "wire" THEN PipelineOrder ELSE Alphabet
  IN  /\ n \in todo
      /\ \E k \in DOMAIN order : order[k] = n /\ \A j \in 1..(k - 1) : order[j] \notin todo

InternalMetrics == <<"internal", "metrics">>

GraphInit ==
  /\ spec \in ClfSpecs
  /\ phase = "wire"
  /\ todo = {p.name : p \in Pipelines}
  /\ inputIDs = [n \in DOMAIN spec.outputs |-> {}]
  /\ ids = [n \in DOMAIN spec.inputs |-> {}]
  /\ config = One(InternalMetrics, Source({}))
  /\ op = [sources |-> AllLogSources, migrated |-> FALSE, unmatched |-> {}]
  /\ leaving = [id \in {} |-> {}]

\* The loop over names of this phase.
Step(now, n) ==
  /\ phase = now
  /\ First(n)
  /\ todo' = todo \ {n}
  /\ UNCHANGED <<spec, phase>>

\* NewPipeline: the outputs learn the id of the last filter.
WirePipeline(name) ==
  /\ Step("wire", name)
  /\ LET p == PipelineNamed(name)
     IN  inputIDs' = [n \in DOMAIN inputIDs |->
           IF n \in p.outputs THEN inputIDs[n] \cup {LastFilterID(p)} ELSE inputIDs[n]]
  /\ UNCHANGED <<ids, config, op>>

AddInput(n) ==
  /\ Step("inputs", n)
  /\ ~MissesTuning(spec.inputs[n])
  /\ config' = Over(NewSource(n, spec.inputs[n]), config)
  /\ ids' = [ids EXCEPT ![n] = @ \cup NewInputIDs(n, spec.inputs[n])]
  /\ UNCHANGED <<inputIDs, op>>

\* The nil part of the tuning is dereferenced.
PanicOnInput(n) ==
  /\ phase = "inputs"
  /\ First(n)
  /\ MissesTuning(spec.inputs[n])
  /\ phase' = "nilTuning"
  /\ UNCHANGED <<spec, todo, inputIDs, ids, config, op>>

AddPipeline(name) ==
  /\ Step("pipelines", name)
  /\ config' = Over(PipelineTransforms(PipelineNamed(name)), config)
  /\ UNCHANGED <<inputIDs, ids, op>>

\* A tenant without log sources.
MissesSources(n, o) ==
  o.type = "lokiStack" /\ o.otel
    /\ \E t \in DetermineTenants(n) : GetInputSources(n, t) = {}

AddOutput(n) ==
  /\ Step("outputs", n)
  /\ LET o == spec.outputs[n]
         components == NewOutput(n, o)
     IN  /\ ~MissesSources(n, o)
         /\ config' = Over(components, config)
         /\ op' = OptionsAfter(n, o, components)
  /\ UNCHANGED <<inputIDs, ids>>

\* otlp.New panics.
PanicOnOutput(n) ==
  /\ phase = "outputs"
  /\ First(n)
  /\ MissesSources(n, spec.outputs[n])
  /\ phase' = "noSources"
  /\ UNCHANGED <<spec, todo, inputIDs, ids, config, op>>

NextPhase ==
  /\ todo = {}
  /\ \/ phase = "wire" /\ phase' = "inputs" /\ todo' = DOMAIN spec.inputs
     \/ phase = "inputs" /\ phase' = "pipelines" /\ todo' = {p.name : p \in Pipelines}
     \/ phase = "pipelines" /\ phase' = "outputs" /\ todo' = DOMAIN spec.outputs
  /\ UNCHANGED <<spec, inputIDs, ids, config, op>>

\* The collector's own metrics, with the counters of unmatched records.
Metrics ==
  LET nodename == <<"add", "nodename", "to", "metric">>
  IN  MergeAll({One(nodename, Pass({Plain(InternalMetrics)})),
                One(<<"prometheus", "output">>, Sink(Ports({nodename} \cup op.unmatched), <<>>, ""))})

AddMetrics ==
  /\ phase = "outputs"
  /\ todo = {}
  /\ phase' = "done"
  /\ config' = Over(Metrics, config)
  /\ UNCHANGED <<spec, todo, inputIDs, ids, op>>

ConfNext ==
  \/ \E n \in todo :
       \/ WirePipeline(n) \/ AddInput(n) \/ PanicOnInput(n) \/ AddPipeline(n)
       \/ AddOutput(n) \/ PanicOnOutput(n)
  \/ NextPhase \/ AddMetrics

-----------------------------------------------------------------------------
(* What a configuration does.  Vector hands what a port offers to every      *)
(* component that refers to it.                                              *)

Matched(route, r) == r[route.field] \in route.values

Offered(port) ==
  IF port.id \notin DOMAIN leaving THEN {}
  ELSE LET c == config[port.id]
       IN  {r \in leaving[port.id] :
              \/ port.route = ""
              \/ port.route = "_unmatched" /\ ~Matched(c.arg, r)
              \/ Matched(c.arg, r) /\ r[c.arg.field] = port.route}

Received(c) == UNION {Offered(port) : port \in c.inputs}

\* The namespace decides the type of a container's records.
Normalized(r, arg) ==
  [r EXCEPT !.source = arg.source,
            !.type = IF arg.type # "byNamespace" THEN arg.type
                     ELSE IF r.from = "infraNamespace" THEN "infrastructure"
                     ELSE "application"]

\* The system filter also gives the records of a syslog receiver their place.
Filtered(r, arg) ==
  LET through == [r EXCEPT !.way = Append(@, arg)]
  IN  IF arg.filter = Viaq /\ r.type = "receiver"
        THEN [through EXCEPT !.type = "infrastructure", !.source = "node"]
        ELSE through

Effect(c, r) ==
  CASE c.does = "normalize" -> Normalized(r, c.arg)
    [] c.does = "filter"    -> Filtered(r, c.arg)
    [] c.does = "trace"     -> [r EXCEPT !.traced = @ + 1]
    [] OTHER                -> r

Left(c) == IF c.kind = "source" THEN c.arg ELSE {Effect(c, r) : r \in Received(c)}

\* Every component takes in what is offered to it.
Flow ==
  /\ phase = "done"
  /\ leaving' = [id \in DOMAIN config |-> Left(config[id])]
  /\ UNCHANGED confVars

\* Everything has arrived.
Settled == phase = "done" /\ leaving = [id \in DOMAIN config |-> Left(config[id])]

\* The records that arrive at the sinks of an output, each with its sink.
Arrivals(out) ==
  UNION {{[record |-> r, tenant |-> config[id].arg.tenant] : r \in Received(config[id])} :
           id \in {x \in DOMAIN config :
                     config[x].kind = "sink" /\ config[x].arg.output = out}}

GraphNext == (ConfNext /\ UNCHANGED leaving) \/ Flow

GraphSpec == GraphInit /\ [][GraphNext]_graphVars

-----------------------------------------------------------------------------
\* The words that may follow a name in the ids of the components of an input, a
\* pipeline and an output.
InputWords ==
  {"container", "journal", "host", "kube", "openshift", "ovn", "items", "meta", "throttle"}

PipelineWords == {f[1] : f \in DOMAIN spec.filters \cup {Viaq}}

Tenants == {"application", "infrastructure", "audit"}

OutputWords ==
  {"throttle", "topic", "remap", "loki", "add", "index", "normalize", "group", "key", "log",
   "timestamp", "splunk", "metadata", "parse", "trace", "reroute", "groupby", "resource", "route"}
  \cup AllLogSources \cup Tenants

Apart(names, words) ==
  \A n, m \in names :
    Len(n) < Len(m) /\ (\A i \in DOMAIN n : m[i] = n[i]) => m[Len(n) + 1] \notin words

\* No name is another one of its kind followed by a word that ids may have there:
\* an output kafka-topic next to an output kafka has the id of the transform that
\* finds kafka's topic.
NamesApart ==
  /\ Apart(DOMAIN spec.inputs, InputWords)
  /\ Apart({p.name : p \in Pipelines}, PipelineWords)
  /\ Apart(DOMAIN spec.outputs, OutputWords)

\* otlp.New has no transforms for what receivers collect.
OpenTelemetryFromNodes ==
  \A n \in DOMAIN spec.outputs :
    spec.outputs[n].type = "lokiStack" /\ spec.outputs[n].otel =>
      \A i \in InputsTo(n) : spec.inputs[i].type \notin {"http", "syslog"}

Origins(i) == UNION {s.from : s \in LogSources(i)}

\* The type and source of a record, by where it comes from.
KindOf(from) ==
  CASE from = "appNamespace"   -> <<"application", "container">>
    [] from = "infraNamespace" -> <<"infrastructure", "container">>
    [] from \in {"journal", "syslogLine"} -> <<"infrastructure", "node">>
    [] from = "httpBody"       -> <<"audit", "kubeAPI">>
    [] OTHER                   -> <<"audit", from>>

\* The pipelines a record came through.
PipelinesOf(r) == {r.way[k].pipeline : k \in DOMAIN r.way}

\* A finished configuration brings to the sinks of each output exactly the
\* records of the inputs that some pipeline leads there, from every log source
\* of the input, through that pipeline and no other, and each to the tenant of
\* its type: through generated ids, optional throttles and two levels of
\* routing nothing is lost, mixed up or sent astray.
RecordsRouted ==
  Settled /\ NamesApart =>
    \A out \in DOMAIN spec.outputs :
      LET arrived == Arrivals(out)
      IN  /\ {<<a.record.input, a.record.from, PipelinesOf(a.record)>> : a \in arrived}
               = UNION {UNION {{<<n, from, {p.name}>> : from \in Origins(spec.inputs[n])} : n \in p.inputs} :
                          p \in {q \in Pipelines : out \in q.outputs}}
          /\ \A a \in arrived :
               /\ <<a.record.type, a.record.source>> = KindOf(a.record.from)
               /\ spec.outputs[out].type = "lokiStack" => a.tenant = a.record.type

\* Whatever arrives has been through every filter its pipeline names and the
\* system filter, each once per mention; parsing and multiline detection come
\* before the system filter and the others after it, each group in the order
\* the user gave.
FiltersInOrder ==
  NamesApart =>
    \A out \in DOMAIN spec.outputs : \A a \in Arrivals(out) :
      LET way == a.record.way
          p == PipelineNamed(way[1].pipeline)
      IN  /\ Len(way) = Len(p.filters) + 1
          /\ \E viaq \in DOMAIN way, at \in [DOMAIN p.filters -> DOMAIN way] :
               /\ way[viaq].filter = Viaq
               /\ \A i \in DOMAIN p.filters :
                    /\ way[at[i]].filter = p.filters[i]
                    /\ IF IsEarlyStage(p.filters[i]) THEN at[i] < viaq ELSE at[i] > viaq
                    /\ \A j \in DOMAIN p.filters :
                         i < j /\ (IsEarlyStage(p.filters[i]) <=> IsEarlyStage(p.filters[j])) => at[i] < at[j]

\* Vector refuses a configuration in which an input is unknown or missing: every
\* transform and sink has an input, and each one names a component, and a route
\* that the component has.  Excluded are names that join to one id, and receivers
\* that lead to a LokiStack with the OpenTelemetry model.
NoDanglingInput ==
  phase = "done" /\ NamesApart /\ OpenTelemetryFromNodes =>
    \A id \in DOMAIN config :
      /\ config[id].kind # "source" => config[id].inputs # {}
      /\ \A port \in config[id].inputs :
           /\ port.id \in DOMAIN config
           /\ config[port.id].kind # "sink"
           /\ config[port.id].does = "route" <=> port.route # ""
           /\ port.route \in {"", "_unmatched"} \/ port.route \in config[port.id].arg.values

\* Ids are unique unless names join to one: no component that was added is replaced
\* by a later one of another input, pipeline or output.
NothingReplaced ==
  [][NamesApart => \A id \in DOMAIN config : config'[id] = config[id]]_graphVars

\* All that goes to an OTLP endpoint passes the extraction of the trace context
\* once, also what a LokiStack output sends there.
TraceContextExtracted ==
  \A out \in DOMAIN spec.outputs :
    spec.outputs[out].type = "otlp" \/ (spec.outputs[out].type = "lokiStack" /\ spec.outputs[out].otel)
      => \A a \in Arrivals(out) : a.record.traced = 1

=============================================================================
