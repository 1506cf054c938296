---------------------------- MODULE CollectorConfig ----------------------------
(***************************************************************************)
(* What the generated configuration (internal/generator/vector) asks of its *)
(* surroundings: the files it reads and the servers it connects to.  How    *)
(* the components are wired is the subject of ConfigGraph.                  *)
(*                                                                          *)
(* A configuration is what it is generated from: the migrated inputs and    *)
(* outputs, the name of the token Secret if that option was set, and the    *)
(* passphrases that are written into it.  Generation adds nothing else that *)
(* varies here, so two equal records are two equal configurations.          *)
(***************************************************************************)
EXTENDS ForwarderSpecs

-----------------------------------------------------------------------------
(* Paths: a directory of the container, given by its base and, below that, *)
(* the object it shows, and a file in it.                                   *)

Dir(base, name) == [base |-> base, name |-> name]
Path(base, name, key) == [dir |-> Dir(base, name), key |-> key]

SecretPath(r) == Path("secrets", r.name, r.key)
ConfigPath(name, key) == Path("config", name, key)
ServiceAccountPath == Path("serviceaccount", <<>>, "token")

ValuePath(r) == IF r.kind = "secret" THEN SecretPath(r) ELSE ConfigPath(r.name, r.key)

\* SECRET[...] is looked up by the collector in the directory of all Secrets.
SecretFrom(r) == SecretPath(r)

-----------------------------------------------------------------------------
(* Parts of sinks *)

\* Empty if the option with the name of the token Secret is not set.
TokenFile(t, tokenSecret) ==
  IF t.from = "secret" THEN {SecretFrom(r) : r \in t.secret}
  ELSE {SecretFrom(Ref("secret", n, "token")) : n \in tokenSecret}

NoAuth == [strategy |-> "none", files |-> {}]

NewHttpAuth(auth, tokenSecret) ==
  IF auth = {} THEN NoAuth
  ELSE LET a == The(auth)
       IN  IF a.token # {}
           THEN [strategy |-> "bearer", files |-> TokenFile(The(a.token), tokenSecret)]
           ELSE [strategy |-> "basic", files |-> {SecretFrom(r) : r \in a.username \cup a.password}]

elasticsearchAuth(auth, tokenSecret) ==
  IF auth = {} THEN NoAuth
  ELSE LET a == The(auth)
       IN  IF a.token = {} /\ (a.username = {} \/ a.password = {}) THEN NoAuth ELSE NewHttpAuth(auth, tokenSecret)

NewTls(tls) == UNION {{ValuePath(r) : r \in t.ca \cup t.certificate \cup t.key} : t \in tls}

NewTlsEnabled(tls) == NewTls({t \in tls : t.ca # {} \/ (t.certificate # {} /\ t.key # {})})

NewApiBuffer(s) == IF s.deliveryMode = "AtLeastOnce" THEN "disk" ELSE "memory"

IsTLSScheme(u) == u.scheme \in {"https", "tls"}

Sink(s, auth, tls, urls) == [auth |-> auth, tls |-> tls, urls |-> urls, buffer |-> NewApiBuffer(s)]

\* A proxy stands in for the server.
Via(s) == IF s.proxy # {} THEN s.proxy ELSE s.url

-----------------------------------------------------------------------------
(* Sinks, by the type of the output *)

HTTPS == [scheme |-> "https", port |-> 443]

NewHTTP(o, s, token) == Sink(s, NewHttpAuth(s.authentication, token), NewTls(o.tls), Via(s))
NewLoki(o, s, token) == Sink(s, NewHttpAuth(s.authentication, token), NewTls(o.tls), Via(s))
NewElasticsearch(o, s, token) ==
  Sink(s, elasticsearchAuth(s.authentication, token), NewTls(o.tls), s.url \cup s.endpoints)

NewOTLP(o, s, token) ==
  Sink(s, NewHttpAuth(s.authentication, token), IF \A u \in s.url : IsTLSScheme(u) THEN NewTls(o.tls) ELSE {}, s.url)

sasl(auth) ==
  LET full == {x \in UNION {a.sasl : a \in auth} : x.username # {} /\ x.password # {}}
  IN  IF full = {} THEN NoAuth
      ELSE [strategy |-> "sasl", files |-> UNION {{SecretFrom(r) : r \in x.username \cup x.password} : x \in full}]

brokers(s) == s.url \cup s.brokers
NewKafka(o, s) == Sink(s, sasl(s.authentication), NewTlsEnabled(o.tls), brokers(s))

NewSyslog(o, s) == Sink(s, NoAuth, NewTlsEnabled(o.tls), s.url)

NewSplunk(o, s) ==
  Sink(s, [strategy |-> "hec", files |-> UNION {{SecretFrom(r) : r \in a.token} : a \in s.authentication}],
       NewTls(o.tls), s.url)

\* The gateway of the LokiStack; the tenants differ in the path only.
lokiStackURL == [scheme |-> "https", port |-> 8080]

GenerateOutput(o, s) ==
  [o EXCEPT !.type = IF s.dataModel = "Otel" THEN "otlp" ELSE "loki",
            !.spec = {[deliveryMode |-> s.deliveryMode, url |-> {lokiStackURL}, proxy |-> {},
                       authentication |-> {[username |-> {}, password |-> {},
                                            token |-> UNION {a.token : a \in s.authentication}]}]}]

NewLokiStack(o, s, token) ==
  LET out == GenerateOutput(o, s)
  IN  IF out.type = "otlp" THEN NewOTLP(out, The(out.spec), token) ELSE NewLoki(out, The(out.spec), token)

gclAuth(auth) == [strategy |-> "gcl", files |-> UNION {{SecretPath(r) : r \in a.credentials} : a \in auth}]
NewGCL(o, s) == Sink(s, gclAuth(s.authentication), NewTls(o.tls), {HTTPS})

azureSharedKey(a) == [strategy |-> "sharedKey", files |-> {SecretFrom(r) : r \in a.sharedKey}]
NewAzureMonitor(o, s) == Sink(s, azureSharedKey(s.authentication), NewTls(o.tls), {HTTPS})

\* The path of the token, not the token.
azureAuth(a) ==
  IF a.type = "workloadIdentity"
  THEN [strategy |-> "workloadIdentity",
        files |-> UNION {IF t.from = "secret" THEN {SecretPath(r) : r \in t.secret} ELSE {ServiceAccountPath} :
                           t \in a.workloadIdentity}]
  ELSE [strategy |-> "clientSecret", files |-> {SecretFrom(r) : r \in a.clientSecret}]
NewAzureLogsIngestion(o, s) == Sink(s, azureAuth(s.authentication), NewTls(o.tls), s.url)

AwsCredentialsFile(clf) == clf \o <<"-", "aws-creds">>

awsAuth(clf, a) ==
  IF a.type = "awsAccessKey"
  THEN [strategy |-> "accessKey",
        files |-> {SecretFrom(r) : r \in a.assumeRole}
                    \cup UNION {{SecretFrom(k.keyId), SecretFrom(k.keySecret)} : k \in a.awsAccessKey}]
  ELSE [strategy |-> "profile", files |-> {ConfigPath(AwsCredentialsFile(clf), "credentials")}]

NewAws(clf, o, s) == Sink(s, awsAuth(clf, s.authentication), NewTls(o.tls), IF s.url = {} THEN {HTTPS} ELSE s.url)
NewCloudwatch(clf, o, s) == NewAws(clf, o, s)
NewS3(clf, o, s) == NewAws(clf, o, s)

NewOutputSink(clf, o, token) ==
  LET s == The(o.spec)
  IN  CASE o.type = "azureLogsIngestion" -> NewAzureLogsIngestion(o, s)
        [] o.type = "azureMonitor"       -> NewAzureMonitor(o, s)
        [] o.type = "cloudwatch"         -> NewCloudwatch(clf, o, s)
        [] o.type = "elasticsearch"      -> NewElasticsearch(o, s, token)
        [] o.type = "googleCloudLogging" -> NewGCL(o, s)
        [] o.type = "http"               -> NewHTTP(o, s, token)
        [] o.type = "kafka"              -> NewKafka(o, s)
        [] o.type = "loki"               -> NewLoki(o, s, token)
        [] o.type = "lokiStack"          -> NewLokiStack(o, s, token)
        [] o.type = "otlp"               -> NewOTLP(o, s, token)
        [] o.type = "s3"                 -> NewS3(clf, o, s)
        [] o.type = "splunk"             -> NewSplunk(o, s)
        [] o.type = "syslog"             -> NewSyslog(o, s)

-----------------------------------------------------------------------------
(* Sources and the collector's own metrics *)

NewViaqReceiverSource(i) == UNION {NewTlsEnabled(r.tls) : r \in i.receiver}

LogDir(name) == Dir("/var/log", <<name>>)

ContainerSources(i) ==
  IF i.type = "application" \/ (i.type = "infrastructure" /\ "container" \in Chosen(i.sources, InfrastructureSources))
  THEN {LogDir("pods")} ELSE {}
JournalSources(i) ==
  IF i.type = "infrastructure" /\ "node" \in Chosen(i.sources, InfrastructureSources) THEN {LogDir("journal")} ELSE {}

AuditLogs == [auditd       |-> {LogDir("audit")},
              kubeAPI      |-> {LogDir("kube-apiserver")},
              openshiftAPI |-> {LogDir("oauth-apiserver"), LogDir("openshift-apiserver"), LogDir("oauth-server")},
              ovn          |-> {LogDir("ovn")}]
AuditLogSources(i) ==
  IF i.type = "audit" THEN UNION {AuditLogs[a] : a \in Chosen(i.sources, AuditSources)} ELSE {}

PrometheusOutput == {Path("metrics", <<>>, "tls.key"), Path("metrics", <<>>, "tls.crt")}

-----------------------------------------------------------------------------
(* The configuration as a whole *)

DataDir == Dir("data", <<>>)

Sinks(clf, config) == {NewOutputSink(clf, o, config.tokenSecret) : o \in config.outputs}

ConfigFiles(clf, config) ==
  PrometheusOutput
    \cup (UNION {k.auth.files \cup k.tls : k \in Sinks(clf, config)})
    \cup (UNION {NewViaqReceiverSource(i) : i \in config.inputs})

ConfigDirs(clf, config) ==
  (UNION {ContainerSources(i) \cup JournalSources(i) \cup AuditLogSources(i) : i \in config.inputs})
    \cup (IF \E k \in Sinks(clf, config) : k.buffer = "disk" THEN {DataDir} ELSE {})

Endpoints(clf, config) == UNION {k.urls : k \in Sinks(clf, config)}
=============================================================================
