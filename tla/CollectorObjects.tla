---------------------------- MODULE CollectorObjects ----------------------------
(***************************************************************************)
(* The objects around the collector: the Secrets and ConfigMaps it is given *)
(* by users and by the operator, the configuration that refers to them, the *)
(* workload that mounts them, the services and the NetworkPolicy.  One      *)
(* reconcile reads the objects at one time, writes at later times, and the  *)
(* pod reads when it starts; objects change in between.                     *)
(*                                                                          *)
(* This is ReconcileCollector seen through those objects.  When a reconcile *)
(* runs, permissions and status are in ForwarderController, RBAC is in      *)
(* SharedResources.  Reads see the current objects here.                    *)
(***************************************************************************)
EXTENDS CollectorPod, CollectorNetwork

CONSTANTS Histories,     \* sequences of specs that users submit
          SA,            \* the name of the ServiceAccount
          Contents(_),   \* what users may put into an object; nobody puts back the first content
          MaxFaults      \* edits of objects, failing calls and killed pods

VARIABLES spec, todo,            \* the admitted spec; specs still to be submitted
          secrets, configMaps,   \* the objects that exist, by name
          profiles,              \* the content of the AWS credentials file
          collectorConfig,       \* the ConfigMap with the configuration, if any
          workload,              \* the pod template of the workload, if any
          services, metrics,     \* services of receivers; the metrics service
          policy,                \* the NetworkPolicy, if any
          running,               \* what the pod was started with, if it runs
          pc, cxt,               \* the reconcile: its next step and context
          panics,                \* where and for what a reconcile panicked
          faults

objects == <<secrets, configMaps, profiles>>
deployed == <<collectorConfig, workload, services, metrics, policy>>
users == <<spec, todo>>
vars == <<spec, todo, secrets, configMaps, profiles, collectorConfig, workload, services, metrics,
          policy, running, pc, cxt, panics, faults>>

\* Contents.  v1 and v2: as expected; bare: the object lacks the keys that are
\* asked for; odd: the values are neither a role nor a credentials file; plus: a
\* role with a plus sign in its name.  Written by others: the keys of a generated
\* Secret are there and empty, a token or a CA bundle is unfilled at first.
Certificates == {"cert1", "cert2"}

Put(f, n, c) == [x \in DOMAIN f \cup {n} |-> IF x = n THEN c ELSE f[x]]
Drop(f, n) == [x \in DOMAIN f \ {n} |-> f[x]]
Only(f, names) == [x \in DOMAIN f \cap names |-> f[x]]

ServiceAccountTokenSecret == SA \o <<"-", "token">>

-----------------------------------------------------------------------------
(* The context of a reconcile *)

NoSpec == [inputs |-> {}, outputs |-> {}, inputRefs |-> {}, ruleSet |-> {}, asDeployment |-> FALSE, breakdowns |-> {}]
NoContext == [spec |-> NoSpec, secrets |-> <<>>, configMaps |-> <<>>, tokenSecret |-> {}, bundle |-> {},
              profiles |-> {}]

SecretNames(s) == InputSecretNames(s.inputs) \cup OutputSecretNames(s.outputs)
ConfigmapNames(s) == InputConfigmapNames(s.inputs) \cup OutputConfigmapNames(s.outputs)

\* A Secret that initialization generated stands in for one of that name.
MapSecrets(s) ==
  LET migrated == MigrateInputs(CLF, s)
      found == Only(secrets, SecretNames(migrated))
      generated == GeneratedSecrets(CLF, Kept(s))
  IN  [n \in DOMAIN found \cup generated |-> IF n \in generated THEN "empty" ELSE found[n]]

MapConfigMaps(s) == Only(configMaps, ConfigmapNames(s))

Value(objs, r) ==
  IF r.name \in DOMAIN objs /\ objs[r.name] \notin {"bare", "empty", "unfilled"} THEN objs[r.name] ELSE ""

-----------------------------------------------------------------------------
(* Validation of outputs and receivers *)

ValidateValueReference(refs, c) ==
  \A r \in refs : Value(IF r.kind = "secret" THEN c.secrets ELSE c.configMaps, r) # ""

findSubstring(v) == IF v \in {"v1", "v2", "plus"} THEN v ELSE ""
ParseRoleArn(a, c) == findSubstring(Value(c.secrets, The(a.iamRole).roleARN))
ParseAssumeRoleArn(a, c) == findSubstring(Value(c.secrets, The(a.assumeRole)))

OutputIsAwsRoleAuth(o) == o.type \in {"cloudwatch", "s3"} /\ The(o.spec).authentication.iamRole # {}
OutputIsAssumeRole(o) == o.type \in {"cloudwatch", "s3"} /\ The(o.spec).authentication.assumeRole # {}

ValidateAwsAuth(o, c) ==
  /\ OutputIsAwsRoleAuth(o) => ParseRoleArn(The(o.spec).authentication, c) # ""
  /\ OutputIsAssumeRole(o) => ParseAssumeRoleArn(The(o.spec).authentication, c) # ""

expectedTokenPath(t) ==
  IF t.from = "serviceAccount" THEN {ServiceAccountPath} ELSE {SecretPath(r) : r \in t.secret}

\* v1 is the key of a service account, v2 an external account whose token is
\* in the file of the projected token.
validateGCLExternalAccount(token) == \A t \in token : ServiceAccountPath \in expectedTokenPath(t)

ValidateGCLAuth(s, c) ==
  \A a \in s.authentication :
    /\ a.credentials # {}
    /\ LET credentials == Value(c.secrets, The(a.credentials))
       IN  credentials \in {"v1", "v2"} /\ (credentials = "v2" => validateGCLExternalAccount(a.token))

specURLs(o) ==
  LET s == The(o.spec)
  IN  CASE o.type = "elasticsearch" -> s.url \cup s.endpoints
        [] o.type \in {"cloudwatch", "http", "kafka", "loki", "splunk", "syslog", "otlp"} -> s.url
        [] OTHER -> {}

validateURLAccordingToTLS(o) == \A t \in o.tls : t.insecure => \A u \in specURLs(o) : IsTLSScheme(u)

\* The scheme of a URL that did not parse is looked at.
PanicsOnTLS(o) == o.tls # {} /\ \E u \in specURLs(o) : u.scheme = "unparsable"

ValidateOutput(o, c) ==
  /\ validateURLAccordingToTLS(o)
  /\ ValidateValueReference(SecretReferences(o) \cup UNION {ValueReferences(t) : t \in o.tls}, c)
  /\ o.type \in {"cloudwatch", "s3"} => ValidateAwsAuth(o, c)
  /\ o.type = "googleCloudLogging" => ValidateGCLAuth(The(o.spec), c)

removeGeneratedSecrets(refs, c) == {r \in refs : ~(r.kind = "secret" /\ r.name \in DOMAIN c.secrets /\ c.secrets[r.name] = "empty")}

ValidateReceiver(i, c) ==
  \A t \in ReceiverTLS({i}) : ValidateValueReference(removeGeneratedSecrets(ValueReferences(t), c), c)

Valid(c) == (\A o \in c.spec.outputs : ValidateOutput(o, c)) /\ (\A i \in c.spec.inputs : ValidateReceiver(i, c))

-----------------------------------------------------------------------------
(* What a reconcile writes *)

\* The profile is rendered by html/template, which writes a plus sign as a
\* character reference.
Rendered(v) == IF v = "plus" THEN "escaped" ELSE v

GenerateAwsProfileCreds(c) ==
  {LET a == The(o.spec).authentication
       t == The(a.iamRole).token
   IN  [output     |-> o.name,
        role       |-> Rendered(ParseRoleArn(a, c)),
        assumeRole |-> {Rendered(Value(c.secrets, r)) : r \in a.assumeRole},
        tokenFile  |-> IF t.from = "secret" THEN SecretPath(The(t.secret)) ELSE ServiceAccountPath] :
     o \in {x \in c.spec.outputs : OutputIsAwsRoleAuth(x)}}

RequiresProfilesConfigMap(outputs) ==
  \E o \in outputs : OutputIsAwsRoleAuth(o)

\* Passphrases are written into the configuration itself.
GenerateConfig(c) ==
  [inputs |-> c.spec.inputs, outputs |-> c.spec.outputs, tokenSecret |-> c.tokenSecret,
   keyPass |-> {[ref |-> r, value |-> Value(c.secrets, r)] :
                  r \in (UNION {UNION {t.passphrase : t \in o.tls} : o \in c.spec.outputs})
                          \cup (UNION {t.passphrase : t \in ReceiverTLS(c.spec.inputs)})}]

\* Sinks for sockets take their URL apart without regard to the error, Kafka only
\* to find a topic.
PanicsOnSocket(o) ==
  /\ o.type = "syslog" \/ (o.type = "kafka" /\ The(o.spec).topic = {})
  /\ \E u \in The(o.spec).url : u.scheme = "unparsable"

GenerationPanics(s) == s.breakdowns \cup {o.type : o \in {x \in s.outputs : PanicsOnSocket(x)}}

InputServicesOf(inputs) ==
  UNION {{InputService(GenerateInputServiceName(i.name), r.type, r.port) : r \in i.receiver} : i \in inputs}

\* Every input with a receiver part gets a service, whatever its type; the part is
\* optional, and admitted, for the other types.
InputServices(s) == InputServicesOf(s.inputs)

\* Only inputs of type receiver listen.
ReceiverServices(s) == InputServicesOf({i \in s.inputs : i.type = "receiver"})

-----------------------------------------------------------------------------
(* Reconcile *)

Init ==
  /\ \E h \in Histories :
       /\ todo = Tail(h)
       /\ spec = Head(h)
       /\ secrets = [n \in UNION {SecretNames(h[i]) : i \in DOMAIN h} |-> "v1"]
       /\ configMaps = [n \in UNION {ConfigmapNames(h[i]) : i \in DOMAIN h} |-> "v1"]
  /\ ClusterLogForwarderSpec(spec)
  /\ profiles = {} /\ collectorConfig = {} /\ workload = {} /\ services = {} /\ metrics = FALSE
  /\ policy = {} /\ running = {} /\ pc = "idle" /\ cxt = NoContext /\ panics = {} /\ faults = 0

Step(from, to) == pc = from /\ pc' = to
Return == pc' = "idle" /\ cxt' = NoContext

\* A panic ends the reconcile; controller-runtime recovers it and tries again.
Panic(where, parts) == Return /\ panics' = panics \cup {[where |-> where, part |-> p] : p \in parts}

\* What a reference or an initialization dereferences without a check.
Missing(s) ==
  {"receiver" : i \in {x \in s.inputs : x.type = "receiver" /\ x.receiver = {}}}
    \cup {o.type : o \in {x \in s.outputs : MissesReference(x)}}

FetchSecrets ==
  /\ Missing(spec) = {}
  /\ Step("idle", "configMaps")
  /\ cxt' = [NoContext EXCEPT !.spec = MigrateInputs(CLF, spec), !.secrets = MapSecrets(spec)]
  /\ UNCHANGED <<users, objects, deployed, running, panics, faults>>

PanicOnReferences ==
  /\ pc = "idle" /\ Missing(spec) # {}
  /\ Panic("SecretReferences", Missing(spec))
  /\ UNCHANGED <<users, objects, deployed, running, faults>>

FetchConfigMaps ==
  /\ Step("configMaps", "validate")
  /\ cxt' = [cxt EXCEPT !.configMaps = MapConfigMaps(cxt.spec)]
  /\ UNCHANGED <<users, objects, deployed, running, panics, faults>>

PanicOnValidation ==
  LET parts == {o \in cxt.spec.outputs : PanicsOnTLS(o)}
  IN  /\ pc = "validate" /\ parts # {}
      /\ Panic("validateURLAccordingToTLS", {o.type : o \in parts})
      /\ UNCHANGED <<users, objects, deployed, running, faults>>

\* A refused spec leaves what is deployed as it is.
Validate ==
  /\ pc = "validate" /\ \A o \in cxt.spec.outputs : ~PanicsOnTLS(o)
  /\ IF Valid(cxt) THEN pc' = "token" /\ UNCHANGED cxt ELSE Return
  /\ UNCHANGED <<users, objects, deployed, running, panics, faults>>

\* An existing Secret is returned as it is; a new one is empty until the token
\* controller fills it.
ReconcileServiceAccountTokenSecret ==
  LET name == ServiceAccountTokenSecret
      content == IF name \in DOMAIN secrets THEN secrets[name] ELSE "unfilled"
  IN  /\ Step("token", "bundle")
      /\ IF NeedServiceAccountToken(cxt.spec.outputs)
         THEN /\ secrets' = Put(secrets, name, content)
              /\ cxt' = [cxt EXCEPT !.secrets = Put(cxt.secrets, name, content), !.tokenSecret = {name}]
         ELSE UNCHANGED <<secrets, cxt>>
      /\ UNCHANGED <<users, configMaps, profiles, deployed, running, panics, faults>>

ReconcileTrustedCABundleConfigMap ==
  /\ Step("bundle", "wait")
  /\ configMaps' = IF CaTrustBundle \in DOMAIN configMaps THEN configMaps
                   ELSE Put(configMaps, CaTrustBundle, "unfilled")
  /\ UNCHANGED <<users, secrets, profiles, deployed, running, panics, cxt, faults>>

\* Polls until the bundle is there or the time is up; the step may come at any
\* time after the request, so it stands for both.
WaitForTrustedCAToBePopulated ==
  /\ Step("wait", "creds")
  /\ cxt' = [cxt EXCEPT !.bundle = IF CaTrustBundle \in DOMAIN configMaps /\ configMaps[CaTrustBundle] # "unfilled"
                                   THEN {configMaps[CaTrustBundle]} ELSE {}]
  /\ UNCHANGED <<users, objects, deployed, running, panics, faults>>

ReconcileCredsFile ==
  LET name == AwsCredentialsFile(CLF)
      creds == GenerateAwsProfileCreds(cxt)
  IN  /\ Step("creds", "config")
      /\ IF RequiresProfilesConfigMap(cxt.spec.outputs)
         THEN /\ profiles' = creds
              /\ configMaps' = Put(configMaps, name, "profiles")
              /\ cxt' = [cxt EXCEPT !.configMaps = Put(cxt.configMaps, name, "profiles"), !.profiles = creds]
         ELSE UNCHANGED <<profiles, configMaps, cxt>>
      /\ UNCHANGED <<users, secrets, deployed, running, panics, faults>>

PanicOnGeneration ==
  /\ pc = "config" /\ GenerationPanics(cxt.spec) # {}
  /\ Panic("GenerateConfig", GenerationPanics(cxt.spec))
  /\ UNCHANGED <<users, objects, deployed, running, faults>>

\* The configuration is written before the workload that knows its hash.
ReconcileCollectorConfig ==
  /\ GenerationPanics(cxt.spec) = {}
  /\ Step("config", "workload")
  /\ collectorConfig' = {GenerateConfig(cxt)}
  /\ UNCHANGED <<users, objects, workload, services, metrics, policy, running, panics, cxt, faults>>

ReconcileWorkload ==
  LET t == NewWorkload(cxt, GenerateConfig(cxt))
  IN  /\ pc = "workload"
      /\ IF Admitted(t) THEN workload' = {t} /\ pc' = "orphans" /\ UNCHANGED cxt
                        ELSE Return /\ UNCHANGED workload
      /\ UNCHANGED <<users, objects, collectorConfig, services, metrics, policy, running, panics, faults>>

\* A service is kept for an input of type receiver only: the service of any other
\* input with a receiver part is removed and created again by every reconcile.
Orphans == {x \in services : \A y \in ReceiverServices(cxt.spec) : y.name # x.name \/ y.type # x.type}

\* Faulty variant: no service is removed.
KeepInputServices ==
  /\ Step("orphans", "services")
  /\ UNCHANGED <<users, objects, deployed, running, panics, cxt, faults>>

RemoveOrphanedInputServices ==
  /\ pc = "orphans"
  /\ IF Orphans = {} THEN pc' = "services" /\ UNCHANGED services
     ELSE \E x \in Orphans : services' = services \ {x} /\ UNCHANGED pc
  /\ UNCHANGED <<users, objects, collectorConfig, workload, metrics, policy, running, panics, cxt, faults>>

ReconcileInputServices ==
  /\ pc = "services"
  /\ IF InputServices(cxt.spec) \subseteq services THEN pc' = "policy" /\ UNCHANGED services
     ELSE \E x \in InputServices(cxt.spec) \ services :
            services' = {y \in services : y.name # x.name} \cup {x} /\ UNCHANGED pc
  /\ UNCHANGED <<users, objects, collectorConfig, workload, metrics, policy, running, panics, cxt, faults>>

ReconcileNetworkPolicy ==
  LET p == NewNetworkPolicy(cxt.spec)
  IN  /\ pc = "policy" /\ cxt.spec.ruleSet # {} /\ PortlessURLs(cxt.spec) = {}
      /\ IF AdmittedPolicy(p) THEN policy' = {p} /\ pc' = "metrics" /\ UNCHANGED cxt
                             ELSE Return /\ UNCHANGED policy
      /\ UNCHANGED <<users, objects, collectorConfig, workload, services, metrics, running, panics, faults>>

PanicOnPort ==
  /\ pc = "policy" /\ PortlessURLs(cxt.spec) # {}
  /\ Panic("parsePortProtocolFromURL", {u.scheme : u \in PortlessURLs(cxt.spec)})
  /\ UNCHANGED <<users, objects, deployed, running, faults>>

RemoveNetworkPolicy ==
  /\ cxt.spec.ruleSet = {}
  /\ Step("policy", "metrics")
  /\ policy' = {}
  /\ UNCHANGED <<users, objects, collectorConfig, workload, services, metrics, running, panics, cxt, faults>>

ReconcileMetricsService ==
  /\ pc = "metrics" /\ Return
  /\ metrics' = TRUE
  /\ UNCHANGED <<users, objects, collectorConfig, workload, services, policy, running, panics, faults>>

Reconcile ==
  \/ FetchSecrets \/ PanicOnReferences \/ FetchConfigMaps \/ PanicOnValidation \/ Validate
  \/ ReconcileServiceAccountTokenSecret \/ ReconcileTrustedCABundleConfigMap
  \/ WaitForTrustedCAToBePopulated \/ ReconcileCredsFile
  \/ PanicOnGeneration \/ ReconcileCollectorConfig \/ ReconcileWorkload
  \/ RemoveOrphanedInputServices \/ ReconcileInputServices
  \/ ReconcileNetworkPolicy \/ PanicOnPort \/ RemoveNetworkPolicy \/ ReconcileMetricsService

\* A call fails: the rest of the reconcile is left out.
Fail ==
  /\ faults < MaxFaults /\ pc # "idle"
  /\ faults' = faults + 1
  /\ Return
  /\ UNCHANGED <<users, objects, deployed, running, panics>>

-----------------------------------------------------------------------------
(* The platform and the users *)

CertificateNames == {x.name : x \in services} \cup (IF metrics THEN {SecretMetrics} ELSE {})

IssueCertificate(n) ==
  /\ n \in CertificateNames \ DOMAIN secrets
  /\ secrets' = Put(secrets, n, "cert1")
  /\ UNCHANGED <<users, configMaps, profiles, deployed, running, pc, cxt, panics, faults>>

\* The certificate goes with its service.
CollectCertificate ==
  /\ \E n \in DOMAIN secrets \ CertificateNames :
       secrets[n] \in Certificates /\ secrets' = Drop(secrets, n)
  /\ UNCHANGED <<users, configMaps, profiles, deployed, running, pc, cxt, panics, faults>>

FillToken ==
  /\ ServiceAccountTokenSecret \in DOMAIN secrets /\ secrets[ServiceAccountTokenSecret] = "unfilled"
  /\ secrets' = Put(secrets, ServiceAccountTokenSecret, "v1")
  /\ UNCHANGED <<users, configMaps, profiles, deployed, running, pc, cxt, panics, faults>>

InjectBundle ==
  /\ CaTrustBundle \in DOMAIN configMaps /\ configMaps[CaTrustBundle] = "unfilled"
  /\ configMaps' = Put(configMaps, CaTrustBundle, "v1")
  /\ UNCHANGED <<users, secrets, profiles, deployed, running, pc, cxt, panics, faults>>

\* A pod starts once every object that it mounts exists.
Startable(t) ==
  \A v \in NewPodSpec(t) : /\ v.kind = "secret" => v.object \in DOMAIN secrets
                           /\ v.kind = "configMap" => v.object \in DOMAIN configMaps \cup {ConfigMapName}

StartPod ==
  /\ \E t \in workload :
       /\ Startable(t)
       /\ \A r \in running : r.template # t
       /\ running' = {[template |-> t, config |-> The(collectorConfig), profiles |-> profiles,
                       secrets |-> Only(secrets, t.secrets), configMaps |-> Only(configMaps, t.configMaps)]}
  /\ UNCHANGED <<users, objects, deployed, pc, cxt, panics, faults>>

KillPod ==
  /\ faults < MaxFaults /\ running # {}
  /\ faults' = faults + 1
  /\ running' = {}
  /\ UNCHANGED <<users, objects, deployed, pc, cxt, panics>>

\* The API server keeps out what the rules of the types do not admit.
EditSpec ==
  /\ todo # <<>>
  /\ todo' = Tail(todo)
  /\ spec' = IF ClusterLogForwarderSpec(Head(todo)) THEN Head(todo) ELSE spec
  /\ UNCHANGED <<objects, deployed, running, pc, cxt, panics, faults>>

EditSecret ==
  /\ faults < MaxFaults
  /\ faults' = faults + 1
  /\ \E n \in SecretNames(spec) :
       \/ \E c \in Contents(n) : secrets' = Put(secrets, n, c)
       \/ n \in DOMAIN secrets /\ secrets' = Drop(secrets, n)
  /\ UNCHANGED <<users, configMaps, profiles, deployed, running, pc, cxt, panics>>

EditConfigMap ==
  /\ faults < MaxFaults
  /\ faults' = faults + 1
  /\ \E n \in ConfigmapNames(spec) :
       \/ \E c \in Contents(n) : configMaps' = Put(configMaps, n, c)
       \/ n \in DOMAIN configMaps /\ configMaps' = Drop(configMaps, n)
  /\ UNCHANGED <<users, secrets, profiles, deployed, running, pc, cxt, panics>>

RotateBundle ==
  /\ faults < MaxFaults
  /\ faults' = faults + 1
  /\ CaTrustBundle \in DOMAIN configMaps /\ configMaps[CaTrustBundle] = "v1"
  /\ configMaps' = Put(configMaps, CaTrustBundle, "v2")
  /\ UNCHANGED <<users, secrets, profiles, deployed, running, pc, cxt, panics>>

RotateCertificate ==
  /\ faults < MaxFaults
  /\ faults' = faults + 1
  /\ \E n \in DOMAIN secrets : secrets[n] = "cert1" /\ secrets' = Put(secrets, n, "cert2")
  /\ UNCHANGED <<users, configMaps, profiles, deployed, running, pc, cxt, panics>>

\* The names of the services that the submitted specs call for.
ServiceNames ==
  {SecretMetrics} \cup UNION {UNION {{x.name : x \in InputServices(h[i])} : i \in DOMAIN h} : h \in Histories}

Platform == (\E n \in ServiceNames : IssueCertificate(n)) \/ CollectCertificate \/ FillToken \/ InjectBundle

Next ==
  \/ Reconcile \/ Fail \/ Platform \/ StartPod \/ KillPod
  \/ EditSpec \/ EditSecret \/ EditConfigMap \/ RotateBundle \/ RotateCertificate

\* Reconciles are repeated (resync and periodic requeue), the controllers of the
\* platform, each with a queue of its own, and the kubelet do their work.  Users,
\* failures and reboots owe nothing.
Fairness ==
  /\ WF_vars(Reconcile) /\ WF_vars(StartPod)
  /\ \A n \in ServiceNames : WF_vars(IssueCertificate(n))
  /\ WF_vars(CollectCertificate) /\ WF_vars(FillToken) /\ WF_vars(InjectBundle)

Spec == Init /\ [][Next]_vars /\ Fairness

-----------------------------------------------------------------------------
(* What a reconcile knows at each of its steps *)

Present(r, c) == r.name \in DOMAIN (IF r.kind = "secret" THEN c.secrets ELSE c.configMaps)

TLSReferences(tls) == UNION {ValueReferences(t) : t \in tls}

\* The references of the spec are there, and what they refer to was not bare.
ReferencesPresent(c) ==
  /\ \A o \in c.spec.outputs : \A r \in SecretReferences(o) \cup TLSReferences(o.tls) : Present(r, c)
  /\ \A r \in TLSReferences(ReceiverTLS(c.spec.inputs)) : Present(r, c)
  /\ \A n \in DOMAIN c.secrets \ c.tokenSecret : c.secrets[n] # "bare"
  /\ \A n \in DOMAIN c.configMaps : c.configMaps[n] # "bare"

\* Credentials of an external account come with the token they point to.
ExternalAccounts(c) ==
  \A o \in c.spec.outputs : o.type = "googleCloudLogging" =>
    \A a \in The(o.spec).authentication : \A r \in a.credentials :
      r.name \notin c.tokenSecret /\ Value(c.secrets, r) = "v2" => \A t \in a.token : t.from = "serviceAccount"

ProfileOf(o, p) ==
  LET t == The(The(o.spec).authentication.iamRole).token
  IN  /\ OutputIsAwsRoleAuth(o) /\ p.output = o.name
      /\ p.tokenFile = IF t.from = "secret" THEN SecretPath(The(t.secret)) ELSE ServiceAccountPath

ContextTyped(c) ==
  c = [spec |-> c.spec, secrets |-> c.secrets, configMaps |-> c.configMaps, tokenSecret |-> c.tokenSecret,
       bundle |-> c.bundle, profiles |-> c.profiles]

BeforeValidation == {"configMaps", "validate"}
AfterValidation == {"token", "bundle", "wait", "creds", "config", "workload"}

\* A reconcile works on an admitted spec, on objects this spec refers to and, once
\* they are validated, on objects with the keys it asks for.
ContextBacked ==
  /\ ClusterLogForwarderSpec(spec)
  /\ pc # "idle" => ClusterLogForwarderSpec(cxt.spec)
  /\ ContextTyped(cxt)
  /\ pc \in BeforeValidation =>
       /\ \A n \in DOMAIN cxt.secrets : n \in SecretNames(cxt.spec) \/ cxt.secrets[n] = "empty"
       /\ DOMAIN cxt.configMaps \subseteq ConfigmapNames(cxt.spec)
       /\ cxt.tokenSecret = {} /\ cxt.profiles = {}
  /\ pc \in AfterValidation =>
       /\ ReferencesPresent(cxt) /\ ExternalAccounts(cxt)
       /\ cxt.tokenSecret \subseteq DOMAIN cxt.secrets \cap {ServiceAccountTokenSecret}
       /\ \A p \in cxt.profiles : \E o \in cxt.spec.outputs : ProfileOf(o, p)
  /\ pc \in {"config", "workload"} /\ RequiresProfilesConfigMap(cxt.spec.outputs) =>
       AwsCredentialsFile(CLF) \in DOMAIN cxt.configMaps

-----------------------------------------------------------------------------
(* Properties *)

\* Profiles that the configuration of a template uses.  A token file that is
\* named only inside the credentials of an external account counts if the
\* output declares the token.
ProfilesUsed(t) ==
  {p \in t.profileHash : \E o \in t.confHash.outputs :
     o.name = p.output /\ The(o.spec).authentication.type = "iamRole"}
\* The Secrets of a template as validation saw them: the one with the token of the
\* ServiceAccount is read again after it.
Seen(t) == [n \in DOMAIN t.secretHash \ t.confHash.tokenSecret |-> t.secretHash[n]]

ExternalTokens(t) ==
  UNION {UNION {IF a.token # {} /\ \E r \in a.credentials : Value(Seen(t), r) = "v2"
                THEN {ServiceAccountPath} ELSE {} : a \in The(o.spec).authentication} :
           o \in {x \in t.confHash.outputs : x.type = "googleCloudLogging"}}

\* The object of a volume held the key that is asked for when the reconcile that
\* made the template validated it.
Holds(t, v) ==
  /\ v.kind = "secret" /\ v.object \in DOMAIN Seen(t) => Seen(t)[v.object] # "bare"
  /\ v.kind = "configMap" /\ v.object \in DOMAIN t.configMapHash => t.configMapHash[v.object] # "bare"

FilesNamed(t) == ConfigFiles(CLF, t.confHash) \cup {p.tokenFile : p \in ProfilesUsed(t)} \cup ExternalTokens(t)

TemplateBacked(t) ==
  LET mounted == Mounted(t)
  IN  /\ \A f \in FilesNamed(t) : \E m \in mounted : m.dir = f.dir /\ Holds(t, m.volume)
      /\ ConfigDirs(CLF, t.confHash) \subseteq {m.dir : m \in mounted}

\* Every file that the configuration names, directly, through an AWS profile or
\* through Google credentials, and every directory it reads logs from or buffers
\* in, is under a mount of the template, whose object held the key (generator
\* against NewPodSpec, NewCollectorContainer, MapSecrets and validation).
FilesBacked == \A t \in workload : TemplateBacked(t)

\* The references of an admitted spec are followed without a check, and every
\* part on the way is there but one: only the SASL part of a Kafka authentication
\* may be missing, for no validation rule asks for it (SecretReferences against
\* the rules of the types, in every spec that edits lead to).
ReferencesChecked == \A p \in panics : p.where = "SecretReferences" => p.part = "kafka"

\* The context that a reconcile would have if nothing changed while it runs.
CurrentContext ==
  LET migrated == MigrateInputs(CLF, spec)
      c == [NoContext EXCEPT !.spec = migrated, !.secrets = MapSecrets(spec), !.configMaps = MapConfigMaps(migrated),
                             !.tokenSecret = IF NeedServiceAccountToken(spec.outputs)
                                             THEN {ServiceAccountTokenSecret} ELSE {}]
  IN  [c EXCEPT !.profiles = GenerateAwsProfileCreds(c)]

\* The spec can be deployed: references are there, validation accepts them, nothing
\* panics, no two volumes have one name and every port of the policy is one.
Deployable ==
  /\ Missing(spec) = {} /\ GenerationPanics(spec) = {}
  /\ \A o \in spec.outputs : ~PanicsOnTLS(o)
  /\ LET c == CurrentContext
     IN  /\ Valid(c) /\ Admitted(NewWorkload(c, GenerateConfig(c)))
         /\ PortlessURLs(c.spec) = {} /\ AdmittedPolicy(NewNetworkPolicy(c.spec))

RolledOut ==
  LET c == CurrentContext
  IN  \E r \in running :
        /\ r.config = GenerateConfig(c)
        /\ r.profiles = c.profiles \/ ~RequiresProfilesConfigMap(spec.outputs)
        /\ \A n \in SecretNames(spec) : n \in DOMAIN r.secrets /\ r.secrets[n] = secrets[n]
        /\ \A n \in ConfigmapNames(spec) : n \in DOMAIN r.configMaps /\ r.configMaps[n] = configMaps[n]
        /\ \A n \in c.tokenSecret : r.secrets[n] = secrets[n] /\ secrets[n] # "unfilled"
        /\ CaTrustBundle \in DOMAIN configMaps /\ r.template.bundleHash = {configMaps[CaTrustBundle]}

\* A spec that can be deployed ends up running, with the current content of every
\* object its user named, the filled token and the CA bundle, however objects,
\* specs and pods changed during reconciles and whatever failed (Hash64a,
\* ReconcileServiceAccountTokenSecret, WaitForTrustedCAToBePopulated).
RotationRolledOut == <>[](Deployable => RolledOut)

\* How a sink connects: to the port that is written or to that of the scheme, and
\* not at all if there is none.
Dials(u) ==
  LET ports == IF u.port # NoPort THEN {u.port} ELSE IF u.scheme = "http" THEN {80}
               ELSE IF u.scheme = "https" THEN {443} ELSE {}
  IN  IF u.scheme = "unparsable" THEN {}
      ELSE {Port(IF u.scheme = "udp" THEN "UDP" ELSE "TCP", n) : n \in ports \cap 1..MaxPort}

TrafficServed ==
  LET c == CurrentContext
  IN  /\ \A p \in policy :
           /\ \A u \in Endpoints(CLF, GenerateConfig(c)) \cup ProxyURLs : \A d \in Dials(u) : Admits(p, d)
           /\ \A port \in {x.port : x \in ReceiverServices(c.spec)} \cup {MetricsPort} : AdmitsFrom(p, port)
      /\ ReceiverServices(c.spec) \subseteq services /\ services \subseteq InputServices(c.spec)
      /\ metrics

\* A spec that can be deployed ends up with a policy that admits every connection
\* of its sinks, of the proxies and to its receivers and metrics, with the services
\* of its receivers, which stay, and with no service of a spec before it.  Services
\* of other inputs with a receiver part come and go (InputServices)
\* (ReconcileClusterLogForwarderNetworkPolicy, RemoveOrphanedInputServices).
TrafficAdmitted == <>[](Deployable => TrafficServed)

\* A sink that authenticates with a bearer token is given one: the types whose
\* token getOutputBearerToken finds, by a list of its own, are those for which the
\* generators write a bearer strategy.  HTTP outputs are the exception: they are
\* missing in the list (internal/api/observability/output_types.go:62).
TokenProvided ==
  \A t \in workload : \A o \in t.confHash.outputs :
    LET auth == NewOutputSink(CLF, o, t.confHash.tokenSecret).auth
    IN  auth.strategy = "bearer" /\ o.type # "http" => auth.files # {}
=============================================================================
