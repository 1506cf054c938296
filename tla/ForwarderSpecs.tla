---------------------------- MODULE ForwarderSpecs ----------------------------
(***************************************************************************)
(* The ClusterLogForwarder API (api/observability/v1): what the API server  *)
(* admits under the validation rules of the types, and what the operator    *)
(* reads out of an admitted spec (internal/api/observability).              *)
(*                                                                          *)
(* An optional part of a spec is a set of at most one element.  A name is a *)
(* sequence of words, with "." and "-" as words of their own; a URL is its  *)
(* scheme and its port.  Fields that decide neither a file, a port nor a    *)
(* panic are left out.                                                      *)
(***************************************************************************)
EXTENDS Integers, Sequences, FiniteSets

The(part) == CHOOSE x \in part : TRUE
Optional(part) == \A x, y \in part : x = y

-----------------------------------------------------------------------------
(* References *)

Ref(kind, name, key) == [kind |-> kind, name |-> name, key |-> key]

IsName(n) == n \in Seq({n[k] : k \in DOMAIN n})

ValueReference(r) == r.kind \in {"secret", "configmap"} /\ IsName(r.name)
SecretReference(r) == r.kind = "secret" /\ IsName(r.name)

BearerToken(t) ==
  /\ t.from \in {"secret", "serviceAccount"}
  /\ t.from = "secret" => t.secret # {}
  /\ \A r \in t.secret : SecretReference(r)

TokenSecret(t) == IF t.from = "secret" THEN t.secret ELSE {}

\* insecure stands for the parameters that make no sense without a secure
\* scheme: insecureSkipVerify and a security profile.
TLSSpec(t) ==
  /\ \A r \in t.ca \cup t.certificate : ValueReference(r)
  /\ \A r \in t.key \cup t.passphrase : SecretReference(r)

OutputTLSSpec(t) == TLSSpec(t) /\ t.insecure \in BOOLEAN

ValueReferences(t) == t.ca \cup t.certificate \cup t.key \cup t.passphrase
SecretsForTLS(t) == {r.name : r \in {x \in ValueReferences(t) : x.kind = "secret"}}
ConfigmapsForTLS(t) == {r.name : r \in {x \in t.ca \cup t.certificate : x.kind = "configmap"}}

-----------------------------------------------------------------------------
(* Outputs *)

MaxPort == 65535
UnprivilegedPorts == 1024..MaxPort

\* A URL without a port; a port of more digits than an int32 holds.
NoPort == -1
Overflow == -2

\* other: any other scheme, or none; unparsable: what url.Parse refuses although
\* the rules of the types admit it (a malformed escape, for one).
Schemes == {"http", "https", "tcp", "tls", "udp", "other", "unparsable"}
URLs == [scheme : Schemes, port : {NoPort, Overflow} \cup Nat]

URLSpec(s) == s.url # {} /\ s.url \subseteq URLs

\* The patterns for sockets ask for the digits of a port, whatever its number.
SocketURLs(schemes) == {u \in URLs : u.scheme \in schemes \cup {"unparsable"} /\ u.port # NoPort}

Tuning(mode) == mode \in {"", "AtLeastOnce", "AtMostOnce"}

HTTPAuthentication(a) ==
  /\ \A r \in a.username \cup a.password : SecretReference(r)
  /\ \A t \in a.token : BearerToken(t)

AzureLogsIngestionAuthentication(a) ==
  /\ a.type \in {"clientSecret", "workloadIdentity"}
  /\ a.type = "clientSecret" => a.clientSecret # {}
  /\ a.type = "workloadIdentity" => a.workloadIdentity # {}
  /\ \A r \in a.clientSecret : SecretReference(r)
  /\ \A t \in a.workloadIdentity : BearerToken(t)

AzureLogsIngestion(s) == URLSpec(s) /\ AzureLogsIngestionAuthentication(s.authentication)

AzureMonitor(s) == \A r \in s.authentication.sharedKey : SecretReference(r)

\* Faulty variant: the type does not ask for its part.
AwsAuthenticationOfAnyParts(a) == a.type \in {"awsAccessKey", "iamRole"}

AwsAuthentication(a) ==
  /\ a.type \in {"awsAccessKey", "iamRole"}
  /\ a.type = "awsAccessKey" => a.awsAccessKey # {}
  /\ a.type = "iamRole" => a.iamRole # {}
  /\ \A k \in a.awsAccessKey : SecretReference(k.keyId) /\ SecretReference(k.keySecret)
  /\ \A role \in a.iamRole : SecretReference(role.roleARN) /\ BearerToken(role.token)
  /\ \A r \in a.assumeRole : SecretReference(r)

Cloudwatch(s) == s.url \subseteq URLs /\ AwsAuthentication(s.authentication)
S3(s) == s.url \subseteq URLs /\ AwsAuthentication(s.authentication)

Elasticsearch(s) ==
  /\ s.url \cup s.endpoints # {}
  /\ s.url \cup s.endpoints \subseteq URLs
  /\ \A a \in s.authentication : HTTPAuthentication(a)

GoogleCloudLogging(s) ==
  \A a \in s.authentication :
    /\ Optional(a.credentials) /\ \A r \in a.credentials : SecretReference(r)
    /\ \A t \in a.token : BearerToken(t)

HTTP(s) == URLSpec(s) /\ s.proxy \subseteq URLs /\ \A a \in s.authentication : HTTPAuthentication(a)

Kafka(s) ==
  /\ s.url \cup s.brokers # {}
  /\ s.url \cup s.brokers \subseteq SocketURLs({"tcp", "tls"})
  /\ \A a \in s.authentication : \A sasl \in a.sasl :
       \A r \in sasl.username \cup sasl.password : SecretReference(r)

LokiStack(s) ==
  /\ s.dataModel \in {"Viaq", "Otel"}
  /\ s.authentication # {}
  /\ \A a \in s.authentication : \A t \in a.token : BearerToken(t)

Loki(s) == URLSpec(s) /\ s.proxy \subseteq URLs /\ \A a \in s.authentication : HTTPAuthentication(a)

Splunk(s) == URLSpec(s) /\ \A a \in s.authentication : \A r \in a.token : SecretReference(r)

Syslog(s) == s.url # {} /\ s.url \subseteq SocketURLs({"tcp", "tls", "udp"})

OTLP(s) ==
  /\ URLSpec(s)
  /\ \A u \in s.url : u.scheme \in {"http", "https", "unparsable"}
  /\ \A a \in s.authentication : HTTPAuthentication(a)

OutputTypes == {"azureLogsIngestion", "azureMonitor", "cloudwatch", "elasticsearch", "googleCloudLogging", "http",
                "kafka", "loki", "lokiStack", "otlp", "s3", "splunk", "syslog"}

OutputSpec(o) ==
  /\ o = [name |-> o.name, type |-> o.type, tls |-> o.tls, spec |-> o.spec]
  /\ o.type \in OutputTypes
  /\ o.spec # {}
  /\ \A t \in o.tls : OutputTLSSpec(t)
  /\ LET s == The(o.spec)
     IN  /\ Tuning(s.deliveryMode)
         /\ CASE o.type = "azureLogsIngestion" -> AzureLogsIngestion(s)
              [] o.type = "azureMonitor"       -> AzureMonitor(s)
              [] o.type = "cloudwatch"         -> Cloudwatch(s)
              [] o.type = "elasticsearch"      -> Elasticsearch(s)
              [] o.type = "googleCloudLogging" -> GoogleCloudLogging(s)
              [] o.type = "http"               -> HTTP(s)
              [] o.type = "kafka"              -> Kafka(s)
              [] o.type = "loki"               -> Loki(s)
              [] o.type = "lokiStack"          -> LokiStack(s)
              [] o.type = "otlp"               -> OTLP(s)
              [] o.type = "s3"                 -> S3(s)
              [] o.type = "splunk"             -> Splunk(s)
              [] o.type = "syslog"             -> Syslog(s)

-----------------------------------------------------------------------------
(* Inputs *)

AuditSources == {"auditd", "kubeAPI", "openshiftAPI", "ovn"}
InfrastructureSources == {"container", "node"}
ReservedInputs == {"application", "infrastructure", "audit"}

ReceiverSpec(r) ==
  /\ r = [type |-> r.type, port |-> r.port, tls |-> r.tls]
  /\ r.type \in {"http", "syslog"} /\ r.port \in UnprivilegedPorts
  /\ \A t \in r.tls : TLSSpec(t)

InputSpec(i) ==
  /\ i = [name |-> i.name, type |-> i.type, sources |-> i.sources, receiver |-> i.receiver]
  /\ i.type \in ReservedInputs \cup {"receiver"}
  /\ i.type = "receiver" => i.receiver # {}
  /\ i.type = "infrastructure" => i.sources \subseteq InfrastructureSources
  /\ i.type = "audit" => i.sources \subseteq AuditSources
  /\ \A r \in i.receiver : ReceiverSpec(r)

CollectorSpec(s) == s.ruleSet \subseteq {"AllowAllIngressEgress", "RestrictIngressEgress"}

\* How generating a configuration may panic for its pipelines and tunings, which
\* are not part of a spec here (PanicOnInput and PanicOnOutput of ConfigGraph).
Breakdowns == {"nilTuning", "noSources"}

\* Inputs and outputs are lists that are keyed by name.
Keyed(list) == \A x, y \in list : x.name = y.name => x = y

ClusterLogForwarderSpec(s) ==
  /\ s = [inputs |-> s.inputs, outputs |-> s.outputs, inputRefs |-> s.inputRefs, ruleSet |-> s.ruleSet,
          asDeployment |-> s.asDeployment, breakdowns |-> s.breakdowns]
  /\ s.breakdowns \subseteq Breakdowns
  /\ s.outputs # {} /\ Keyed(s.outputs) /\ Keyed(s.inputs)
  /\ \A o \in s.outputs : OutputSpec(o)
  /\ \A i \in s.inputs : InputSpec(i)
  /\ CollectorSpec(s)

InputTypes(inputs) == {i.type : i \in inputs}

DeployAsDeployment(s) == s.asDeployment /\ InputTypes(s.inputs) = {"receiver"}

Chosen(declared, all) == IF declared = {} THEN all ELSE declared

HasContainerSource(inputs) ==
  \E i \in inputs : \/ i.type = "application"
                    \/ i.type = "infrastructure" /\ "container" \in Chosen(i.sources, InfrastructureSources)
HasJournalSource(inputs) ==
  \E i \in inputs : i.type = "infrastructure" /\ "node" \in Chosen(i.sources, InfrastructureSources)

\* An HTTP receiver takes audit records of the Kubernetes API.
HasAuditSource(inputs, source) ==
  \E i \in inputs : \/ i.type = "audit" /\ source \in Chosen(i.sources, AuditSources)
                    \/ i.type = "receiver" /\ source = "kubeAPI" /\ The(i.receiver).type = "http"

-----------------------------------------------------------------------------
(* What the operator looks for in the outputs *)

httpAuthKeys(a) == a.username \cup a.password \cup UNION {TokenSecret(t) : t \in a.token}
lokiStackKeys(a) == UNION {TokenSecret(t) : t \in a.token}

appendAssumeRoleKeys(a) == a.assumeRole
awsSecretKeys(a) ==
  appendAssumeRoleKeys(a) \cup
    IF a.type = "awsAccessKey" THEN UNION {{k.keyId, k.keySecret} : k \in a.awsAccessKey}
    ELSE UNION {{role.roleARN} \cup TokenSecret(role.token) : role \in a.iamRole}

gclSecretKeys(a) == a.credentials \cup UNION {TokenSecret(t) : t \in a.token}

azureLogsIngestionKeys(a) == a.clientSecret \cup UNION {TokenSecret(t) : t \in a.workloadIdentity}

SecretReferences(o) ==
  LET s == The(o.spec)
      auth == s.authentication
  IN  IF o.spec = {} THEN {}
      ELSE CASE o.type = "azureLogsIngestion" -> azureLogsIngestionKeys(auth)
             [] o.type = "azureMonitor"       -> auth.sharedKey
             [] o.type \in {"cloudwatch", "s3"} -> awsSecretKeys(auth)
             [] o.type \in {"elasticsearch", "http", "otlp", "loki"} -> UNION {httpAuthKeys(a) : a \in auth}
             [] o.type = "googleCloudLogging" -> UNION {gclSecretKeys(a) : a \in auth}
             [] o.type = "kafka" -> UNION {UNION {x.password \cup x.username : x \in a.sasl} : a \in auth}
             [] o.type = "lokiStack" -> UNION {lokiStackKeys(a) : a \in auth}
             [] o.type = "splunk"    -> UNION {a.token : a \in auth}
             [] o.type = "syslog"    -> {}

\* References that are followed although a part on the way to them is missing:
\* a.SASL of Kafka and the part of an AWS authentication that its type names.
MissesReference(o) ==
  /\ o.spec # {}
  /\ LET auth == The(o.spec).authentication
     IN  \/ o.type = "kafka" /\ \E a \in auth : a.sasl = {}
         \/ /\ o.type \in {"cloudwatch", "s3"}
            /\ \/ auth.type = "awsAccessKey" /\ auth.awsAccessKey = {}
               \/ auth.type = "iamRole" /\ auth.iamRole = {}

\* The tokens getOutputBearerToken finds; it does not look into HTTP outputs.
getOutputBearerToken(o) ==
  LET auth == The(o.spec).authentication
  IN  IF o.spec = {} THEN {}
      ELSE CASE o.type \in {"loki", "lokiStack", "elasticsearch", "otlp", "googleCloudLogging"} ->
                  UNION {a.token : a \in auth}
             [] o.type \in {"cloudwatch", "s3"} ->
                  IF auth.type = "iamRole" THEN {role.token : role \in auth.iamRole} ELSE {}
             [] o.type = "azureLogsIngestion" ->
                  IF auth.type = "workloadIdentity" THEN auth.workloadIdentity ELSE {}
             [] OTHER -> {}

\* Faulty variant: another type is missing in the list.
NeedsTokenButOTLP(o) == o.type # "otlp" /\ \E t \in getOutputBearerToken(o) : t.from = "serviceAccount"

needsServiceAccountToken(o) == \E t \in getOutputBearerToken(o) : t.from = "serviceAccount"
NeedServiceAccountToken(outputs) == \E o \in outputs : needsServiceAccountToken(o)

OutputSecretNames(outputs) ==
  UNION {{r.name : r \in SecretReferences(o)} \cup UNION {SecretsForTLS(t) : t \in o.tls} : o \in outputs}
OutputConfigmapNames(outputs) == UNION {UNION {ConfigmapsForTLS(t) : t \in o.tls} : o \in outputs}

ReceiverTLS(inputs) == UNION {UNION {r.tls : r \in i.receiver} : i \in inputs}
InputSecretNames(inputs) == UNION {SecretsForTLS(t) : t \in ReceiverTLS(inputs)}
InputConfigmapNames(inputs) == UNION {ConfigmapsForTLS(t) : t \in ReceiverTLS(inputs)}

-----------------------------------------------------------------------------
(* Initialization (internal/api/initialize) *)

Input(name, type, sources) == [name |-> name, type |-> type, sources |-> sources, receiver |-> {}]

ReservedInput(name) ==
  Input(name, name, CASE name = "infrastructure" -> InfrastructureSources
                      [] name = "audit"          -> AuditSources
                      [] OTHER                   -> {})

GeneratedSecret(clf, input) == clf \o <<"-", input>>

\* A receiver without TLS gets the certificate that the platform will issue for
\* its service.
migrateInputReceiver(clf, i) ==
  IF i.type # "receiver" \/ \E r \in i.receiver : r.tls # {} THEN i
  ELSE LET name == GeneratedSecret(clf, i.name)
           tls == [ca |-> {}, passphrase |-> {}, key |-> {Ref("secret", name, "tls.key")},
                   certificate |-> {Ref("secret", name, "tls.crt")}]
       IN  [i EXCEPT !.receiver = {[r EXCEPT !.tls = {tls}] : r \in i.receiver}]

GeneratedSecrets(clf, inputs) ==
  {GeneratedSecret(clf, i.name) : i \in {x \in inputs : x.type = "receiver" /\ \A r \in x.receiver : r.tls = {}}}

\* Reserved names that a pipeline refers to replace inputs of that name.
Referenced(s) == s.inputRefs \cap ReservedInputs
Kept(s) == {i \in s.inputs : i.name \notin Referenced(s)}

MigrateInputs(clf, s) ==
  [s EXCEPT !.inputs = {migrateInputReceiver(clf, i) : i \in Kept(s)}
                         \cup {ReservedInput(n) : n \in Referenced(s)}]
=============================================================================
