------------------------------- MODULE MCRecords -------------------------------
(* An instance of Records for TLC. *)
EXTENDS Records

MCInfraNamespaces == {"default", "openshift-logging"}
MCEventRouterPods == {"eventrouter-1"}

(* Audit events *)

Bodies(level) ==
  IF level = "Metadata" THEN << >>
  ELSE <<"requestObject", "spec">> :> "spec"
         @@ <<"requestObject", "metadata", "managedFields">> :> "managers"
         @@ IF level = "Request" THEN << >> ELSE <<"responseObject", "status">> :> "status"

AuditEvent(level, verb, user, at, code) ==
  Bodies(level) @@ <<"auditID">> :> "id" @@ <<"verb">> :> verb @@ <<"level">> :> level
    @@ <<"user", "username">> :> user @@ <<"stage">> :> at
    @@ <<"responseStatus", "code">> :> code @@ <<"stageTimestamp">> :> "new"

On(namespace, resource) ==
  <<"objectRef", "namespace">> :> namespace @@ <<"objectRef", "resource">> :> resource

Done == "ResponseComplete"

Events ==
  "admin-write" :> (AuditEvent("RequestResponse", "create", "admin", Done, "201") @@ On("foo", "pods"))
  @@ "node-read" :> (AuditEvent("Request", "get", "system:node", Done, "200")
                       @@ On("foo", "pods") @@ <<"objectRef", "subresource">> :> "status")
  @@ "own-write" :> (AuditEvent("RequestResponse", "create", "system:serviceaccount:foo:default",
                                Done, "201") @@ On("foo", "pods"))
  @@ "other-write" :> (AuditEvent("RequestResponse", "create",
                                  "system:serviceaccount:foo-bar:default", Done, "201")
                         @@ On("foo", "secrets"))
  @@ "conflict" :> (AuditEvent("RequestResponse", "update", "system:serviceaccount:foo:default",
                               "ResponseStarted", "409") @@ On("foo-bar", "secrets"))
  @@ "probe" :> (AuditEvent("Metadata", "get", "admin", Done, "200")
                   @@ <<"requestURI">> :> "/healthz?verbose" @@ <<"user", "groups", "viewers">> :> "item")

MCSpelling ==
  [n \in {"admin", "pods", "secrets", "status", "viewers", "foo"} |-> <<n>>]
  @@ "/healthz?verbose" :> <<"/healthz", "?", "verbose">>
  @@ "foo-bar" :> <<"foo", "-bar">> @@ "system:node" :> <<"system:", "node">>
  @@ "system:serviceaccount:foo:default" :> <<"system:", "serviceaccount:", "foo", ":default">>
  @@ "system:serviceaccount:foo-bar:default" :>
       <<"system:", "serviceaccount:", "foo", "-bar", ":default">>

(* Texts *)

RouterEvent ==
  <<"event", "message">> :> "scheduled" @@ <<"event", "lastTimestamp">> :> ZeroTime
    @@ <<"event", "firstTimestamp">> :> "old"

Texts == {"plain", "klog", "json", "router", "scheduled", "broken"} \cup DOMAIN Events

MCParsedJSON ==
  [t \in Texts |-> CASE t \in DOMAIN Events -> {Events[t]}
                     [] t = "json" -> {<<"k">> :> "v"}
                     [] t = "router" -> {RouterEvent}
                     [] OTHER -> {}]

MCMessageTime == [t \in Texts |-> IF t = "klog" THEN "old" ELSE Null]

MCLevelAttempts ==
  [t \in Texts |-> IF t = "klog" THEN <<Null, "error", Null, Null, "info">>
                   ELSE [i \in 1..5 |-> Null]]

MCAuditdMessages == {"klog", "scheduled"}

MCSyslogLevels == "3" :> "err" @@ "9" :> Null @@ Null :> "emerg"

MCDedotted ==
  <<"app.io/tier">> :> "app_io_tier" @@ <<"app", "io/tier">> :> "app_io_tier"
    @@ <<"app.io", "tier">> :> "app_io_tier"
    @@ <<"app.tier">> :> "app_tier" @@ <<"app", "tier">> :> "app_tier" @@ <<"tier">> :> "tier"

MCSuccessCodes == {"101", "200", "201"}

MCInstant == "old" :> 1 @@ "new" :> 3

(* What the sources read *)

Read(source, read) == [source |-> source, read |-> read, inputs |-> {source}]

\* The inputs of the pipeline read other sources besides.
Among(sources, r) == [r EXCEPT !.inputs = @ \cup sources]

Line(text) == <<"message">> :> text @@ <<"timestamp">> :> "new"

Container(text, namespace, pod, known) ==
  Read("container",
       Line(text) @@ <<"file", "namespace">> :> namespace @@ <<"file", "pod">> :> pod
         @@ IF known THEN <<"kubernetes", "namespace_name">> :> namespace
                          @@ <<"kubernetes", "pod_name">> :> pod
                          @@ <<"kubernetes", "labels", "app.io/tier">> :> "web"
                          @@ <<"kubernetes", "labels", "app.tier">> :> "web"
                          @@ <<"kubernetes", "labels", "tier">> :> "web"
            ELSE << >>)

MCSourceRecords ==
  {Among({"syslog", "node"}, Container("plain", "foo", "pod-1", TRUE)),
   Container("klog", "openshift-logging", "pod-1", FALSE),
   Container("json", "foo", "pod-1", FALSE), Container("router", "default", "eventrouter-1", TRUE),
   Read("auditd", Line("klog")),
   Among({"auditd"}, Read("ovn", Line("plain"))),
   Read("node", <<"MESSAGE">> :> "plain" @@ <<"PRIORITY">> :> "3" @@ <<"timestamp">> :> "old"
                  @@ <<"_SYSTEMD_UNIT">> :> "crio" @@ <<"host">> :> "node"),
   Read("node", <<"MESSAGE">> :> "plain" @@ <<"PRIORITY">> :> "8" @@ <<"timestamp">> :> "new"
                  @@ <<"SYSLOG_IDENTIFIER">> :> "sudo"),
   Read("node", <<"MESSAGE">> :> "plain" @@ <<"PRIORITY">> :> "9" @@ <<"timestamp">> :> "new"),
   Read("node", <<"MESSAGE">> :> "plain" @@ <<"PRIORITY">> :> "high" @@ <<"timestamp">> :> "old"),
   Read("node", <<"PRIORITY">> :> "3" @@ <<"timestamp">> :> "old"),
   Read("syslog", Line("plain") @@ <<"facility">> :> "auth"),
   Read("syslog", Line("plain") @@ <<"log_type">> :> "sender"),
   Read("syslog", Line("plain")),
   Read("http", Events["admin-write"]), Read("openshiftAPI", Line("other-write")),
   Read("kubeAPI", Line("broken"))}
  \cup {Read("kubeAPI", Line(e)) : e \in DOMAIN Events}

(* Filters *)

Quoted(segments, quoted) == [segments |-> segments, quoted |-> quoted]
Path(segments) == Quoted(segments, {})

Match(field, pattern) == [olderThan |-> 0, field |-> field, pattern |-> pattern, negate |-> FALSE]
NotMatch(field, pattern) == [Match(field, pattern) EXCEPT !.negate = TRUE]
OlderThan(cutoff) == [Match(<<"timestamp">>, {}) EXCEPT !.olderThan = cutoff]

DropOn(tests) == [type |-> "drop", tests |-> tests]
Prune(in, notIn) == [type |-> "prune", in |-> in, notIn |-> notIn]

Word(text) == [text |-> text, lead |-> FALSE, trail |-> FALSE]
Begins(text) == [Word(text) EXCEPT !.trail = TRUE]
Ends(text) == [Word(text) EXCEPT !.lead = TRUE]

AnyEvent ==
  [verbs |-> {}, users |-> {}, userGroups |-> {}, namespaces |-> {}, nonResourceURLs |-> {},
   resources |-> {}, omitStages |-> {}, omitManagedFields |-> FALSE, level |-> "RequestResponse"]

Audit(rules) ==
  [type |-> "kubeAPIAudit", rules |-> rules, omitStages |-> {}, omitResponseCodes |-> {}]

\* Secrets without bodies, the status of anything not at all, what namespaces
\* foo* hold without the managed fields, probes and viewers by their metadata,
\* and all that is left with its request.
Rules ==
  <<[AnyEvent EXCEPT !.resources = {[group |-> "", names |-> {}, resources |-> {Word(<<"secrets">>)}]},
                     !.level = "Metadata"],
    [AnyEvent EXCEPT !.resources = {[group |-> "", names |-> {}, resources |-> {Ends(<<"status">>)}]},
                     !.verbs = {"get"}, !.level = "None"],
    [AnyEvent EXCEPT !.namespaces = {Begins(<<"foo">>)}, !.users = {Word(<<"admin">>)},
                     !.omitManagedFields = TRUE, !.omitStages = {"ResponseStarted"}],
    [AnyEvent EXCEPT !.nonResourceURLs = {Word(<<"/healthz">>)}, !.userGroups = {Ends(<<"viewers">>)},
                     !.level = "Metadata"],
    [AnyEvent EXCEPT !.level = "Request"]>>

MCFilterSpecs ==
  {[type |-> "parse"], [type |-> "detectMultilineException"],
   [type |-> "openshiftLabels", labels |-> <<"site">> :> "here"],
   DropOn({{Match(<<"kubernetes", "namespace_name">>, {"default"})}, {Match(<<"message">>, {"scheduled"}),
                                                                      NotMatch(<<"level">>, {"error"})}}),
   DropOn({{NotMatch(<<"log_type">>, {"application", "audit"})}}),
   DropOn({{OlderThan(2)}}), DropOn({{Match(<<"openshift", "labels", "site">>, {"here"})}}), DropOn({}),
   Prune({Path(<<"timestamp">>), Path(<<"kubernetes", "labels", "app", "tier">>),
          Quoted(<<"kubernetes", "labels", "app", "io/tier">>, {4})}, {}),
   Prune({Quoted(<<"kubernetes", "labels", "app.io/tier">>, {3})},
         {Path(p) : p \in RequiredFields \cup {<<"kubernetes", "labels">>, <<"responseObject">>}}),
   Prune({Quoted(<<"message">>, {1}), Path(Internal(<<"level">>)),
          Quoted(<<"kubernetes", "labels", "app.io", "tier">>, {3})}, {}),
   Prune({Path(<<"message">>)}, {}), Prune({}, {Path(<<"message">>)}),
   Audit(<< >>), Audit(Rules),
   [Audit(<<AnyEvent>>) EXCEPT !.omitStages = {"ResponseStarted"}, !.omitResponseCodes = {{}}]}

===============================================================================
