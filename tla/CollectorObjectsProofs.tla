------------------------ MODULE CollectorObjectsProofs ------------------------
(***************************************************************************)
(* That the pod of the collector finds every file its configuration names,  *)
(* and that the references of an admitted spec are there where they are     *)
(* followed but for one, for every set of specs, contents of objects and    *)
(* bound.                                                                   *)
(*                                                                          *)
(* The generator and the factory of the pod are two translations of one     *)
(* spec.  The proof follows the references: what a sink reads is among the  *)
(* references that SecretReferences and the TLS of the output list, what    *)
(* they list was found by validation (ContextBacked), what was found is     *)
(* mounted where the generator expects it.                                  *)
(***************************************************************************)
EXTENDS CollectorObjects, TLAPS, SequenceTheorems

-----------------------------------------------------------------------------
(* Optional parts and names *)

LEMMA TheIn ==
  ASSUME NEW S, S # {}
  PROVE  The(S) \in S
BY DEF The

LEMMA AfterTwo ==
  ASSUME NEW S, NEW n \in Seq(S), NEW a, NEW b
  PROVE  SubSeq(<<a, b>> \o n, 3, Len(<<a, b>> \o n)) = n
<1> DEFINE T == S \cup {a, b}
<1>1. n \in Seq(T) /\ Len(n) \in Nat /\ n = [i \in 1..Len(n) |-> n[i]]
  OBVIOUS
<1>2. <<a, b>> \in Seq(T) /\ Len(<<a, b>>) = 2
  OBVIOUS
<1> HIDE DEF T
<1>3. \A p \in Seq(T) : Len(p) = 2 => SubSeq(p \o n, 3, Len(p \o n)) = n
  <2>1. SUFFICES ASSUME NEW p \in Seq(T), Len(p) = 2 PROVE SubSeq(p \o n, 3, Len(p \o n)) = n
    OBVIOUS
  <2>2. /\ Len(p \o n) = Len(n) + 2
        /\ \A i \in 1..Len(n) + 2 : (p \o n)[i] = IF i <= 2 THEN p[i] ELSE n[i - 2]
    <3>1. /\ Len(p \o n) = Len(p) + Len(n)
          /\ \A i \in 1..Len(p) + Len(n) : (p \o n)[i] = IF i <= Len(p) THEN p[i] ELSE n[i - Len(p)]
      BY <1>1, ConcatProperties, Zenon
    <3>2. Len(p) + Len(n) = Len(n) + 2
      BY <1>1, <2>1
    <3> QED
      BY <3>1, <3>2, <2>1, Zenon
  <2>3. \A i \in 1..Len(n) : (p \o n)[i + 2] = n[i]
    <3>1. SUFFICES ASSUME NEW i \in 1..Len(n) PROVE (p \o n)[i + 2] = n[i]
      OBVIOUS
    <3>2. i + 2 \in 1..Len(n) + 2 /\ ~(i + 2 <= 2) /\ i + 2 - 2 = i
      BY <1>1
    <3> QED
      BY <2>2, <3>2
  <2> DEFINE v == p \o n
  <2>4. v \in Seq(T)
    BY <1>1, ConcatProperties
  <2> HIDE DEF v
  <2>5. SubSeq(v, 3, Len(n) + 2) = [i \in 1..Len(n) |-> v[i + 2]]
    BY <1>1, <2>4
  <2> QED
    BY <1>1, <2>2, <2>3, <2>5 DEF v
<1> QED
  BY <1>2, <1>3

LEMMA Suffixed ==
  ASSUME NEW n, IsName(n), NEW a, NEW b
  PROVE  IsName(n \o <<a, b>>)
<1> DEFINE T == {n[k] : k \in DOMAIN n} \cup {a, b}
           m == n \o <<a, b>>
<1>1. n \in Seq(T) /\ <<a, b>> \in Seq(T)
  BY DEF IsName
<1> HIDE DEF T
<1>2. m \in Seq(T)
  BY <1>1, ConcatProperties, Zenon
<1> HIDE DEF m
<1>3. m \in Seq({m[k] : k \in DOMAIN m})
  BY <1>2
<1> QED
  BY <1>3 DEF IsName, m

\* What follows config- in the name of a volume is the name of the ConfigMap.
LEMMA AfterPrefix ==
  ASSUME NEW n, IsName(n)
  PROVE  SubSeq(ConfigVolumeName(n), 3, Len(ConfigVolumeName(n))) = n
BY AfterTwo DEF ConfigVolumeName, IsName

-----------------------------------------------------------------------------
(* Mounts *)

\* A mount and a volume of its name are a mounted directory.
LEMMA MountedBy ==
  ASSUME NEW t, NEW m \in NewCollectorContainer(t), NEW v \in NewPodSpec(t), v.name = m.volume
  PROVE  [dir |-> m.dir, volume |-> v] \in Mounted(t)
BY DEF Mounted

LEMMA SecretMounted ==
  ASSUME NEW t, NEW n \in t.secrets
  PROVE  \E m \in Mounted(t) : m.dir = Dir("secrets", n) /\ m.volume = Volume(sanitizeVolumeName(n), "secret", n)
<1> DEFINE v == Volume(sanitizeVolumeName(n), "secret", n)
           m == Mount(sanitizeVolumeName(n), Dir("secrets", n))
<1>1. v \in NewPodSpec(t)
  BY DEF NewPodSpec, AddSecretVolumes
<1>2. m \in NewCollectorContainer(t)
  BY DEF NewCollectorContainer, AddVolumeMounts, SecretBasePath
<1>3. v.name = m.volume /\ m.dir = Dir("secrets", n)
  BY DEF Volume, Mount
<1> HIDE DEF m, v
<1>4. [dir |-> m.dir, volume |-> v] \in Mounted(t)
  BY <1>1, <1>2, <1>3, MountedBy
<1> QED
  BY <1>3, <1>4 DEF v

LEMMA ConfigMapMounted ==
  ASSUME NEW t, NEW n \in t.configMaps, IsName(n)
  PROVE  \E m \in Mounted(t) :
           /\ m.dir = Dir("config", n)
           /\ m.volume = Volume(sanitizeVolumeName(ConfigVolumeName(n)), "configMap", n)
<1> DEFINE c == ConfigVolumeName(n)
           v == Volume(sanitizeVolumeName(c), "configMap", n)
           m == Mount(sanitizeVolumeName(c), ConfigMapBasePath(c))
<1>1. v \in NewPodSpec(t)
  BY DEF NewPodSpec, AddConfigmapVolumes
<1>2. m \in NewCollectorContainer(t)
  BY DEF NewCollectorContainer, AddVolumeMounts
<1>3. v.name = m.volume /\ m.dir = ConfigMapBasePath(c)
  BY DEF Volume, Mount
<1>4. ConfigMapBasePath(c) = Dir("config", n)
  BY AfterPrefix DEF ConfigMapBasePath
<1> HIDE DEF m, v, c
<1>5. [dir |-> m.dir, volume |-> v] \in Mounted(t)
  BY <1>1, <1>2, <1>3, MountedBy
<1> QED
  BY <1>3, <1>4, <1>5 DEF v, c

LEMMA TokenMounted ==
  ASSUME NEW t, t.token
  PROVE  \E m \in Mounted(t) : m.dir = Dir("serviceaccount", <<>>) /\ m.volume.kind = "projected"
<1> DEFINE v == Volume(<<"sa", "-", "token">>, "projected", <<>>)
           m == Mount(<<"sa", "-", "token">>, Dir("serviceaccount", <<>>))
<1>1. v \in NewPodSpec(t)
  BY DEF NewPodSpec, AddServiceAccountProjectedVolume
<1>2. m \in NewCollectorContainer(t)
  BY DEF NewCollectorContainer
<1>3. v.name = m.volume /\ m.dir = Dir("serviceaccount", <<>>) /\ v.kind = "projected"
  BY DEF Volume, Mount
<1> HIDE DEF m, v
<1>4. [dir |-> m.dir, volume |-> v] \in Mounted(t)
  BY <1>1, <1>2, <1>3, MountedBy
<1> QED
  BY <1>3, <1>4

LEMMA MetricsMounted ==
  ASSUME NEW t
  PROVE  \E m \in Mounted(t) : m.dir = Dir("metrics", <<>>) /\ m.volume = Volume(<<"metrics">>, "secret", SecretMetrics)
<1> DEFINE v == Volume(<<"metrics">>, "secret", SecretMetrics)
           m == Mount(<<"metrics">>, Dir("metrics", <<>>))
<1>1. v \in NewPodSpec(t)
  BY DEF NewPodSpec
<1>2. m \in NewCollectorContainer(t)
  BY DEF NewCollectorContainer
<1>3. v.name = m.volume /\ m.dir = Dir("metrics", <<>>)
  BY DEF Volume, Mount
<1> HIDE DEF m, v
<1>4. [dir |-> m.dir, volume |-> v] \in Mounted(t)
  BY <1>1, <1>2, <1>3, MountedBy
<1> QED
  BY <1>3, <1>4 DEF v

LEMMA DataMounted ==
  ASSUME NEW t
  PROVE  \E m \in Mounted(t) : m.dir = DataDir
<1> DEFINE v == HostPath("datadir")
           m == Mount(<<"datadir">>, DataDir)
<1>1. v \in NewPodSpec(t)
  BY DEF NewPodSpec, CollectorVisitor
<1>2. m \in NewCollectorContainer(t)
  BY DEF NewCollectorContainer
<1>3. v.name = m.volume /\ m.dir = DataDir
  BY DEF HostPath, Volume, Mount
<1> HIDE DEF m, v
<1>4. [dir |-> m.dir, volume |-> v] \in Mounted(t)
  BY <1>1, <1>2, <1>3, MountedBy
<1> QED
  BY <1>3, <1>4

LEMMA LogsMounted ==
  ASSUME NEW t, NEW h \in HostVolumes(t)
  PROVE  \E m \in Mounted(t) : m.dir = LogDir(h)
<1> DEFINE v == HostPath(h)
           m == Mount(<<h>>, LogDir(h))
<1>1. v \in NewPodSpec(t)
  BY DEF NewPodSpec
<1>2. m \in NewCollectorContainer(t)
  BY DEF NewCollectorContainer
<1>3. v.name = m.volume /\ m.dir = LogDir(h)
  BY DEF HostPath, Volume, Mount
<1> HIDE DEF m, v
<1>4. [dir |-> m.dir, volume |-> v] \in Mounted(t)
  BY <1>1, <1>2, <1>3, MountedBy
<1> QED
  BY <1>3, <1>4

-----------------------------------------------------------------------------
(* Files of sinks *)

\* The files that the references of an output stand for, those of the token that
\* the operator provides and those of the AWS profiles.
TokenPaths(token) == {SecretPath(Ref("secret", n, "token")) : n \in token}
Paths(refs) == {SecretPath(r) : r \in refs}
TLSPaths(tls) == {ValuePath(r) : r \in TLSReferences(tls)}
SinkReads(o, token) ==
  Paths(SecretReferences(o)) \cup TLSPaths(o.tls) \cup TokenPaths(token)
    \cup (IF needsServiceAccountToken(o) THEN {ServiceAccountPath} ELSE {})
    \cup (IF OutputIsAwsRoleAuth(o) THEN {ConfigPath(AwsCredentialsFile(CLF), "credentials")} ELSE {})

LEMMA TLSFiles ==
  ASSUME NEW tls
  PROVE  NewTls(tls) \subseteq TLSPaths(tls) /\ NewTlsEnabled(tls) \subseteq TLSPaths(tls)
BY DEF NewTls, NewTlsEnabled, TLSPaths, TLSReferences, ValueReferences

LEMMA HttpAuthFiles ==
  ASSUME NEW auth, NEW token
  PROVE  NewHttpAuth(auth, token).files \subseteq Paths(UNION {httpAuthKeys(a) : a \in auth}) \cup TokenPaths(token)
<1> DEFINE a == The(auth)
           t == The(a.token)
<1>1. CASE auth = {}
  BY <1>1 DEF NewHttpAuth, NoAuth
<1>2. CASE auth # {} /\ a.token = {}
  <2>1. a \in auth
    BY <1>2, TheIn
  <2>2. NewHttpAuth(auth, token).files = Paths(a.username \cup a.password)
    BY <1>2 DEF NewHttpAuth, SecretFrom, Paths
  <2>3. a.username \cup a.password \subseteq httpAuthKeys(a)
    BY DEF httpAuthKeys
  <2> HIDE DEF a
  <2> QED
    BY <2>1, <2>2, <2>3 DEF Paths
<1>3. CASE auth # {} /\ a.token # {}
  <2>1. a \in auth /\ t \in a.token
    BY <1>3, TheIn
  <2>2. NewHttpAuth(auth, token).files = IF t.from = "secret" THEN Paths(t.secret) ELSE TokenPaths(token)
    BY <1>3 DEF NewHttpAuth, TokenFile, SecretFrom, Paths, TokenPaths
  <2>3. t.from = "secret" => t.secret \subseteq httpAuthKeys(a)
    BY <2>1 DEF httpAuthKeys, TokenSecret
  <2> HIDE DEF a, t
  <2> QED
    BY <2>1, <2>2, <2>3 DEF Paths
<1> QED
  BY <1>1, <1>2, <1>3

LEMMA ElasticsearchFiles ==
  ASSUME NEW auth, NEW token
  PROVE  elasticsearchAuth(auth, token).files
           \subseteq Paths(UNION {httpAuthKeys(a) : a \in auth}) \cup TokenPaths(token)
<1>1. \/ elasticsearchAuth(auth, token) = NoAuth
      \/ elasticsearchAuth(auth, token) = NewHttpAuth(auth, token)
  BY DEF elasticsearchAuth
<1>2. NoAuth.files = {}
  BY DEF NoAuth
<1> QED
  BY <1>1, <1>2, HttpAuthFiles

\* The output that a LokiStack is generated as has its TLS and its tokens.
LEMMA LokiStackFiles ==
  ASSUME NEW o, OutputSpec(o), NEW token, NEW s
  PROVE  LET k == NewLokiStack(o, s, token)
         IN  k.auth.files \cup k.tls
               \subseteq Paths(UNION {lokiStackKeys(a) : a \in s.authentication}) \cup TokenPaths(token) \cup TLSPaths(o.tls)
<1> DEFINE out == GenerateOutput(o, s)
           auth == {[username |-> {}, password |-> {}, token |-> UNION {a.token : a \in s.authentication}]}
           k == NewLokiStack(o, s, token)
<1>1. /\ out.tls = o.tls
      /\ out.spec = {[deliveryMode |-> s.deliveryMode, url |-> {lokiStackURL}, proxy |-> {}, authentication |-> auth]}
  BY DEF GenerateOutput, OutputSpec
<1>2. The(out.spec).authentication = auth
  <2> DEFINE x == [deliveryMode |-> s.deliveryMode, url |-> {lokiStackURL}, proxy |-> {}, authentication |-> auth]
  <2>1. x.authentication = auth
    OBVIOUS
  <2> HIDE DEF x
  <2>2. The({x}) \in {x}
    BY TheIn
  <2> QED
    BY <1>1, <2>1, <2>2 DEF x
<1>3. k.auth = NewHttpAuth(auth, token) /\ k.tls \subseteq NewTls(o.tls)
  BY <1>1, <1>2 DEF NewLokiStack, NewOTLP, NewLoki, Sink
<1>4. \A a \in auth : httpAuthKeys(a) \subseteq UNION {lokiStackKeys(b) : b \in s.authentication}
  BY DEF httpAuthKeys, lokiStackKeys
<1> HIDE DEF auth, k, out
<1>5. NewHttpAuth(auth, token).files \subseteq Paths(UNION {httpAuthKeys(a) : a \in auth}) \cup TokenPaths(token)
  BY HttpAuthFiles
<1>6. Paths(UNION {httpAuthKeys(a) : a \in auth}) \subseteq Paths(UNION {lokiStackKeys(b) : b \in s.authentication})
  BY <1>4 DEF Paths
<1> QED
  BY <1>3, <1>5, <1>6, TLSFiles DEF k

\* A sink reads nothing but what the references of its output, the provided token
\* and the profiles stand for.
LEMMA SinkFiles ==
  ASSUME NEW o, OutputSpec(o), NEW token
  PROVE  LET k == NewOutputSink(CLF, o, token) IN k.auth.files \cup k.tls \subseteq SinkReads(o, token)
<1> DEFINE s == The(o.spec)
           auth == s.authentication
           k == NewOutputSink(CLF, o, token)
<1> USE DEF Sink
<1>1. o.spec # {} /\ o.type \in OutputTypes
  BY DEF OutputSpec
<1>2. NewTls(o.tls) \subseteq TLSPaths(o.tls) /\ NewTlsEnabled(o.tls) \subseteq TLSPaths(o.tls)
  BY TLSFiles
<1>3. CASE o.type \in {"http", "loki", "otlp", "elasticsearch"}
  <2>1. k.tls \subseteq NewTls(o.tls)
    BY <1>3 DEF NewOutputSink, NewHTTP, NewLoki, NewOTLP, NewElasticsearch
  <2>2. k.auth = IF o.type = "elasticsearch" THEN elasticsearchAuth(auth, token) ELSE NewHttpAuth(auth, token)
    BY <1>3 DEF NewOutputSink, NewHTTP, NewLoki, NewOTLP, NewElasticsearch
  <2>3. SecretReferences(o) = UNION {httpAuthKeys(a) : a \in auth}
    BY <1>1, <1>3 DEF SecretReferences
  <2> HIDE DEF auth, s, k
  <2>4. k.auth.files \subseteq Paths(UNION {httpAuthKeys(a) : a \in auth}) \cup TokenPaths(token)
    BY <2>2, HttpAuthFiles, ElasticsearchFiles
  <2> QED
    BY <1>2, <2>1, <2>3, <2>4 DEF SinkReads, k
<1>4. CASE o.type = "lokiStack"
  <2>1. k = NewLokiStack(o, s, token)
    BY <1>4 DEF NewOutputSink
  <2>2. SecretReferences(o) = UNION {lokiStackKeys(a) : a \in s.authentication}
    BY <1>1, <1>4 DEF SecretReferences
  <2> HIDE DEF s, k
  <2> QED
    BY <2>1, <2>2, LokiStackFiles DEF SinkReads, k
<1>5. CASE o.type = "kafka"
  <2>1. k.tls = NewTlsEnabled(o.tls) /\ k.auth = sasl(auth)
    BY <1>5 DEF NewOutputSink, NewKafka
  <2>2. SecretReferences(o) = UNION {UNION {x.password \cup x.username : x \in a.sasl} : a \in auth}
    BY <1>1, <1>5 DEF SecretReferences
  <2> HIDE DEF auth, s, k
  <2>3. k.auth.files \subseteq Paths(SecretReferences(o))
    BY <2>1, <2>2 DEF sasl, NoAuth, Paths, SecretFrom
  <2> QED
    BY <1>2, <2>1, <2>3 DEF SinkReads, k
<1>6. CASE o.type = "syslog"
  <2>1. k.tls = NewTlsEnabled(o.tls) /\ k.auth.files = {}
    BY <1>6 DEF NewOutputSink, NewSyslog, NoAuth
  <2> QED
    BY <1>2, <2>1 DEF SinkReads
<1>7. CASE o.type = "splunk"
  <2>1. k.tls = NewTls(o.tls) /\ k.auth.files = UNION {{SecretFrom(r) : r \in a.token} : a \in auth}
    BY <1>7 DEF NewOutputSink, NewSplunk
  <2>2. SecretReferences(o) = UNION {a.token : a \in auth}
    BY <1>1, <1>7 DEF SecretReferences
  <2>3. k.auth.files \subseteq Paths(SecretReferences(o))
    BY <2>1, <2>2 DEF Paths, SecretFrom
  <2> QED
    BY <1>2, <2>1, <2>3 DEF SinkReads
<1>8. CASE o.type = "googleCloudLogging"
  <2>1. k.tls = NewTls(o.tls) /\ k.auth.files = UNION {{SecretPath(r) : r \in a.credentials} : a \in auth}
    BY <1>8 DEF NewOutputSink, NewGCL, gclAuth
  <2>2. SecretReferences(o) = UNION {gclSecretKeys(a) : a \in auth}
    BY <1>1, <1>8 DEF SecretReferences
  <2>3. k.auth.files \subseteq Paths(SecretReferences(o))
    BY <2>1, <2>2 DEF Paths, gclSecretKeys
  <2> QED
    BY <1>2, <2>1, <2>3 DEF SinkReads
<1>9. CASE o.type = "azureMonitor"
  <2>1. k.tls = NewTls(o.tls) /\ k.auth.files = {SecretFrom(r) : r \in auth.sharedKey}
    BY <1>9 DEF NewOutputSink, NewAzureMonitor, azureSharedKey
  <2>2. SecretReferences(o) = auth.sharedKey
    BY <1>1, <1>9 DEF SecretReferences
  <2>3. k.auth.files \subseteq Paths(SecretReferences(o))
    BY <2>1, <2>2 DEF Paths, SecretFrom
  <2> QED
    BY <1>2, <2>1, <2>3 DEF SinkReads
<1>10. CASE o.type = "azureLogsIngestion"
  <2>1. k.tls = NewTls(o.tls) /\ k.auth = azureAuth(auth)
    BY <1>10 DEF NewOutputSink, NewAzureLogsIngestion
  <2>2. SecretReferences(o) = azureLogsIngestionKeys(auth)
    BY <1>1, <1>10 DEF SecretReferences
  <2>3. auth.type = "workloadIdentity" => getOutputBearerToken(o) = auth.workloadIdentity
    BY <1>1, <1>10 DEF getOutputBearerToken
  <2>4. \A t \in auth.workloadIdentity : t.from \in {"secret", "serviceAccount"}
    BY <1>10 DEF OutputSpec, AzureLogsIngestion, AzureLogsIngestionAuthentication, BearerToken
  <2> HIDE DEF auth, s, k
  <2>5. ASSUME NEW f \in azureAuth(auth).files
        PROVE  f \in Paths(SecretReferences(o)) \/ (f = ServiceAccountPath /\ needsServiceAccountToken(o))
    <3>1. CASE auth.type = "workloadIdentity"
      <4>1. PICK t \in auth.workloadIdentity :
              f \in IF t.from = "secret" THEN {SecretPath(r) : r \in t.secret} ELSE {ServiceAccountPath}
        BY <3>1, <2>5 DEF azureAuth
      <4>2. CASE t.from = "secret"
        BY <4>1, <4>2, <2>2 DEF azureLogsIngestionKeys, TokenSecret, Paths
      <4>3. CASE t.from = "serviceAccount"
        BY <4>1, <4>3, <3>1, <2>3 DEF needsServiceAccountToken
      <4> QED
        BY <4>2, <4>3, <2>4
    <3>2. CASE auth.type # "workloadIdentity"
      BY <3>2, <2>5, <2>2 DEF azureAuth, azureLogsIngestionKeys, Paths, SecretFrom
    <3> QED
      BY <3>1, <3>2
  <2> QED
    BY <1>2, <2>1, <2>5 DEF SinkReads, k
<1>11. CASE o.type \in {"cloudwatch", "s3"}
  <2>1. k.tls = NewTls(o.tls) /\ k.auth = awsAuth(CLF, auth)
    BY <1>11 DEF NewOutputSink, NewCloudwatch, NewS3, NewAws
  <2>2. SecretReferences(o) = awsSecretKeys(auth)
    BY <1>1, <1>11 DEF SecretReferences
  <2>3. AwsAuthentication(auth)
    BY <1>11 DEF OutputSpec, Cloudwatch, S3
  <2>4. OutputIsAwsRoleAuth(o) <=> auth.iamRole # {}
    BY <1>11 DEF OutputIsAwsRoleAuth
  <2> HIDE DEF auth, s, k
  <2>5. CASE auth.type = "awsAccessKey"
    <3>1. awsAuth(CLF, auth).files \subseteq Paths(SecretReferences(o))
      BY <2>2, <2>5 DEF awsAuth, awsSecretKeys, appendAssumeRoleKeys, Paths, SecretFrom
    <3> QED
      BY <1>2, <2>1, <3>1 DEF SinkReads, k
  <2>6. CASE auth.type = "iamRole"
    <3>1. /\ awsAuth(CLF, auth).files = {ConfigPath(AwsCredentialsFile(CLF), "credentials")}
          /\ OutputIsAwsRoleAuth(o)
      BY <2>3, <2>4, <2>6 DEF awsAuth, AwsAuthentication
    <3> QED
      BY <1>2, <2>1, <3>1 DEF SinkReads, k
  <2> QED
    BY <2>3, <2>5, <2>6 DEF AwsAuthentication
<1> QED
  BY <1>1, <1>3, <1>4, <1>5, <1>6, <1>7, <1>8, <1>9, <1>10, <1>11 DEF OutputTypes

-----------------------------------------------------------------------------
(* What admission and validation give *)

\* The references of an output that are not for TLS are to Secrets.
LEMMA SecretKinds ==
  ASSUME NEW o, OutputSpec(o), NEW r \in SecretReferences(o)
  PROVE  r.kind = "secret"
<1> DEFINE s == The(o.spec)
           auth == s.authentication
<1>1. o.spec # {} /\ o.type \in OutputTypes
  BY DEF OutputSpec
<1>2. \A t : BearerToken(t) => \A x \in TokenSecret(t) : x.kind = "secret"
  BY DEF BearerToken, TokenSecret, SecretReference
<1>3. CASE o.type \in {"http", "loki", "otlp", "elasticsearch"}
  <2>1. PICK a \in auth : r \in httpAuthKeys(a)
    BY <1>1, <1>3 DEF SecretReferences
  <2>2. HTTPAuthentication(a)
    BY <1>3 DEF OutputSpec, HTTP, Loki, OTLP, Elasticsearch
  <2> QED
    BY <1>2, <2>1, <2>2 DEF HTTPAuthentication, httpAuthKeys, SecretReference
<1>4. CASE o.type = "lokiStack"
  <2>1. PICK a \in auth : r \in lokiStackKeys(a)
    BY <1>1, <1>4 DEF SecretReferences
  <2>2. \A t \in a.token : BearerToken(t)
    BY <1>4 DEF OutputSpec, LokiStack
  <2> QED
    BY <1>2, <2>1, <2>2 DEF lokiStackKeys
<1>5. CASE o.type = "kafka"
  <2>1. PICK a \in auth, x \in UNION {b.sasl : b \in auth} : x \in a.sasl /\ r \in x.password \cup x.username
    BY <1>1, <1>5 DEF SecretReferences
  <2> QED
    BY <1>5, <2>1 DEF OutputSpec, Kafka, SecretReference
<1>6. CASE o.type = "syslog"
  BY <1>1, <1>6 DEF SecretReferences
<1>7. CASE o.type = "splunk"
  BY <1>1, <1>7 DEF SecretReferences, OutputSpec, Splunk, SecretReference
<1>8. CASE o.type = "googleCloudLogging"
  <2>1. PICK a \in auth : r \in gclSecretKeys(a)
    BY <1>1, <1>8 DEF SecretReferences
  <2>2. /\ \A x \in a.credentials : SecretReference(x)
        /\ \A t \in a.token : BearerToken(t)
    BY <1>8 DEF OutputSpec, GoogleCloudLogging
  <2> QED
    BY <1>2, <2>1, <2>2 DEF gclSecretKeys, SecretReference
<1>9. CASE o.type = "azureMonitor"
  BY <1>1, <1>9 DEF SecretReferences, OutputSpec, AzureMonitor, SecretReference
<1>10. CASE o.type = "azureLogsIngestion"
  <2>1. r \in azureLogsIngestionKeys(auth)
    BY <1>1, <1>10 DEF SecretReferences
  <2>2. AzureLogsIngestionAuthentication(auth)
    BY <1>10 DEF OutputSpec, AzureLogsIngestion
  <2> QED
    BY <1>2, <2>1, <2>2 DEF azureLogsIngestionKeys, AzureLogsIngestionAuthentication, SecretReference
<1>11. CASE o.type \in {"cloudwatch", "s3"}
  <2>1. r \in awsSecretKeys(auth)
    BY <1>1, <1>11 DEF SecretReferences
  <2>2. AwsAuthentication(auth)
    BY <1>11 DEF OutputSpec, Cloudwatch, S3
  <2> HIDE DEF auth, s
  <2>3. CASE auth.type = "awsAccessKey"
    BY <2>1, <2>2, <2>3 DEF awsSecretKeys, appendAssumeRoleKeys, AwsAuthentication, SecretReference
  <2>4. CASE auth.type # "awsAccessKey"
    BY <1>2, <2>1, <2>2, <2>4 DEF awsSecretKeys, appendAssumeRoleKeys, AwsAuthentication, SecretReference
  <2> QED
    BY <2>3, <2>4
<1> QED
  BY <1>1, <1>3, <1>4, <1>5, <1>6, <1>7, <1>8, <1>9, <1>10, <1>11 DEF OutputTypes

LEMMA ReceiverGiven ==
  ASSUME NEW r, ReceiverSpec(r), NEW tls, TLSSpec(tls)
  PROVE  ReceiverSpec([r EXCEPT !.tls = {tls}])
<1>1. [r EXCEPT !.tls = {tls}] = [type |-> r.type, port |-> r.port, tls |-> {tls}]
  BY DEF ReceiverSpec
<1> QED
  BY <1>1 DEF ReceiverSpec

\* Migration takes an admitted spec to one that would be admitted.
LEMMA MigrationAdmitted ==
  ASSUME NEW s, ClusterLogForwarderSpec(s)
  PROVE  ClusterLogForwarderSpec(MigrateInputs(CLF, s))
<1> DEFINE m == MigrateInputs(CLF, s)
<1>1. m = [inputs |-> {migrateInputReceiver(CLF, i) : i \in Kept(s)} \cup {ReservedInput(n) : n \in Referenced(s)},
           outputs |-> s.outputs, inputRefs |-> s.inputRefs, ruleSet |-> s.ruleSet, asDeployment |-> s.asDeployment,
           breakdowns |-> s.breakdowns]
  BY DEF MigrateInputs, ClusterLogForwarderSpec
<1>2. ASSUME NEW i, InputSpec(i)
      PROVE  InputSpec(migrateInputReceiver(CLF, i)) /\ migrateInputReceiver(CLF, i).name = i.name
  <2>1. CASE i.type # "receiver" \/ \E r \in i.receiver : r.tls # {}
    BY <1>2, <2>1 DEF migrateInputReceiver
  <2>2. CASE i.type = "receiver" /\ ~\E r \in i.receiver : r.tls # {}
    <3> DEFINE name == GeneratedSecret(CLF, i.name)
               tls == [ca |-> {}, passphrase |-> {}, key |-> {Ref("secret", name, "tls.key")},
                       certificate |-> {Ref("secret", name, "tls.crt")}]
               receivers == {[r EXCEPT !.tls = {tls}] : r \in i.receiver}
               j == migrateInputReceiver(CLF, i)
    <3>1. j = [name |-> i.name, type |-> i.type, sources |-> i.sources, receiver |-> receivers]
      BY <1>2, <2>2 DEF migrateInputReceiver, InputSpec
    <3>2. IsName(name)
      BY NameAssumption, Suffixed DEF GeneratedSecret
    <3> HIDE DEF name
    <3>3. TLSSpec(tls)
      BY <3>2 DEF TLSSpec, ValueReference, SecretReference, Ref
    <3> HIDE DEF tls
    <3>4. \A r \in receivers : ReceiverSpec(r)
      <4>1. \A r \in i.receiver : ReceiverSpec(r)
        BY <1>2 DEF InputSpec
      <4> QED
        BY <3>3, <4>1, ReceiverGiven
    <3>5. receivers # {}
      BY <1>2, <2>2 DEF InputSpec
    <3> HIDE DEF receivers, j
    <3>6. InputSpec(j)
      BY <1>2, <2>2, <3>1, <3>4, <3>5 DEF InputSpec
    <3> QED
      BY <3>1, <3>6 DEF j
  <2> QED
    BY <2>1, <2>2
<1>3. ASSUME NEW n \in ReservedInputs
      PROVE  InputSpec(ReservedInput(n)) /\ ReservedInput(n).name = n
  <2>1. PICK sources : ReservedInput(n) = [name |-> n, type |-> n, sources |-> sources, receiver |-> {}]
    BY DEF ReservedInput, Input
  <2>2. /\ n = "infrastructure" => ReservedInput(n).sources = InfrastructureSources
        /\ n = "audit" => ReservedInput(n).sources = AuditSources
    BY DEF ReservedInput, Input
  <2> QED
    BY <2>1, <2>2 DEF InputSpec, ReservedInputs
<1>4. Referenced(s) \subseteq ReservedInputs /\ \A i \in Kept(s) : i \in s.inputs /\ i.name \notin Referenced(s)
  BY DEF Referenced, Kept
<1>5. \A i \in m.inputs : InputSpec(i)
  BY <1>1, <1>2, <1>3, <1>4 DEF ClusterLogForwarderSpec
<1>6. Keyed(m.inputs)
  <2>1. SUFFICES ASSUME NEW x \in m.inputs, NEW y \in m.inputs, x.name = y.name PROVE x = y
    BY DEF Keyed
  <2>2. \/ \E i \in Kept(s) : x = migrateInputReceiver(CLF, i) /\ x.name = i.name
        \/ x.name \in Referenced(s) /\ x = ReservedInput(x.name)
    BY <1>1, <1>2, <1>3, <1>4 DEF ClusterLogForwarderSpec
  <2>3. \/ \E i \in Kept(s) : y = migrateInputReceiver(CLF, i) /\ y.name = i.name
        \/ y.name \in Referenced(s) /\ y = ReservedInput(y.name)
    BY <1>1, <1>2, <1>3, <1>4 DEF ClusterLogForwarderSpec
  <2> QED
    BY <1>4, <2>1, <2>2, <2>3 DEF ClusterLogForwarderSpec, Keyed
<1> HIDE DEF m
<1> QED
  BY <1>1, <1>5, <1>6 DEF ClusterLogForwarderSpec, CollectorSpec, m

-----------------------------------------------------------------------------
(* The template *)

\* What the steps before the workload hand over to it.
Prepared(c) ==
  /\ ClusterLogForwarderSpec(c.spec)
  /\ ReferencesPresent(c) /\ ExternalAccounts(c)
  /\ c.tokenSecret \subseteq DOMAIN c.secrets
  /\ \A p \in c.profiles : \E o \in c.spec.outputs : ProfileOf(o, p)
  /\ RequiresProfilesConfigMap(c.spec.outputs) => AwsCredentialsFile(CLF) \in DOMAIN c.configMaps

LEMMA TemplateParts ==
  ASSUME NEW c
  PROVE  LET t == NewWorkload(c, GenerateConfig(c))
         IN  /\ t.secrets = DOMAIN c.secrets /\ t.configMaps = DOMAIN c.configMaps
             /\ t.secretHash = c.secrets /\ t.configMapHash = c.configMaps /\ t.profileHash = c.profiles
             /\ t.confHash.inputs = c.spec.inputs /\ t.confHash.outputs = c.spec.outputs
             /\ t.confHash.tokenSecret = c.tokenSecret
             /\ t.kind = IF DeployAsDeployment(c.spec) THEN "Deployment" ELSE "DaemonSet"
BY DEF NewWorkload, GenerateConfig, Hash64a

LEMMA TemplateToken ==
  ASSUME NEW c, NeedServiceAccountToken(c.spec.outputs)
  PROVE  NewWorkload(c, GenerateConfig(c)).token
BY DEF NewWorkload

\* No object that validation saw was bare.
LEMMA AllHold ==
  ASSUME NEW c, ReferencesPresent(c), NEW v
  PROVE  Holds(NewWorkload(c, GenerateConfig(c)), v)
<1> DEFINE t == NewWorkload(c, GenerateConfig(c))
<1>1. t.secretHash = c.secrets /\ t.configMapHash = c.configMaps /\ t.confHash.tokenSecret = c.tokenSecret
  BY TemplateParts
<1> HIDE DEF t
<1>2. Holds(t, v)
  BY <1>1 DEF Holds, Seen, ReferencesPresent
<1> QED
  BY <1>2 DEF t

\* A reference that is present is under a mount where the generator expects it.
LEMMA PresentMounted ==
  ASSUME NEW c, NEW r, Present(r, c), r.kind # "secret" => IsName(r.name)
  PROVE  \E m \in Mounted(NewWorkload(c, GenerateConfig(c))) : m.dir = ValuePath(r).dir
<1> DEFINE t == NewWorkload(c, GenerateConfig(c))
<1>1. t.secrets = DOMAIN c.secrets /\ t.configMaps = DOMAIN c.configMaps
  BY TemplateParts
<1> HIDE DEF t
<1>2. CASE r.kind = "secret"
  <2>1. r.name \in t.secrets /\ ValuePath(r).dir = Dir("secrets", r.name)
    BY <1>1, <1>2 DEF Present, ValuePath, SecretPath, Path
  <2> QED
    BY <2>1, SecretMounted DEF t
<1>3. CASE r.kind # "secret"
  <2>1. r.name \in t.configMaps /\ IsName(r.name) /\ ValuePath(r).dir = Dir("config", r.name)
    BY <1>1, <1>3 DEF Present, ValuePath, ConfigPath, Path
  <2> QED
    BY <2>1, ConfigMapMounted DEF t
<1> QED
  BY <1>2, <1>3

LEMMA ServiceAccountMounted ==
  ASSUME NEW c, NeedServiceAccountToken(c.spec.outputs)
  PROVE  \E m \in Mounted(NewWorkload(c, GenerateConfig(c))) : m.dir = ServiceAccountPath.dir
<1>1. ServiceAccountPath.dir = Dir("serviceaccount", <<>>)
  BY DEF ServiceAccountPath, Path
<1> QED
  BY <1>1, TemplateToken, TokenMounted

\* References of TLS name ConfigMaps by a name.
LEMMA TLSNamed ==
  ASSUME NEW tls, \A t \in tls : TLSSpec(t), NEW r \in TLSReferences(tls)
  PROVE  r.kind # "secret" => IsName(r.name)
BY DEF TLSReferences, ValueReferences, TLSSpec, ValueReference, SecretReference

LEMMA SinkBacked ==
  ASSUME NEW c, Prepared(c), NEW o \in c.spec.outputs, NEW f \in SinkReads(o, c.tokenSecret)
  PROVE  \E m \in Mounted(NewWorkload(c, GenerateConfig(c))) : m.dir = f.dir
<1>1. OutputSpec(o)
  BY DEF Prepared, ClusterLogForwarderSpec
<1>2. CASE f \in Paths(SecretReferences(o))
  <2>1. PICK r \in SecretReferences(o) : f = SecretPath(r)
    BY <1>2 DEF Paths
  <2>2. r.kind = "secret" /\ Present(r, c)
    BY <1>1, SecretKinds DEF Prepared, ReferencesPresent
  <2>3. f = ValuePath(r)
    BY <2>1, <2>2 DEF ValuePath
  <2> QED
    BY <2>2, <2>3, PresentMounted
<1>3. CASE f \in TLSPaths(o.tls)
  <2>1. PICK r \in TLSReferences(o.tls) : f = ValuePath(r)
    BY <1>3 DEF TLSPaths
  <2>2. Present(r, c)
    BY DEF Prepared, ReferencesPresent
  <2>3. \A t \in o.tls : TLSSpec(t)
    BY <1>1 DEF OutputSpec, OutputTLSSpec
  <2>4. r.kind # "secret" => IsName(r.name)
    BY <2>3, TLSNamed
  <2> QED
    BY <2>1, <2>2, <2>4, PresentMounted
<1>4. CASE f \in TokenPaths(c.tokenSecret)
  <2>1. PICK n \in c.tokenSecret : f = SecretPath(Ref("secret", n, "token"))
    BY <1>4 DEF TokenPaths
  <2> DEFINE r == Ref("secret", n, "token")
  <2>2. r.kind = "secret" /\ r.name = n
    BY DEF Ref
  <2>3. f = ValuePath(r) /\ Present(r, c)
    BY <2>1, <2>2 DEF ValuePath, Present, Prepared
  <2> HIDE DEF r
  <2> QED
    BY <2>2, <2>3, PresentMounted
<1>5. CASE needsServiceAccountToken(o) /\ f = ServiceAccountPath
  BY <1>5, ServiceAccountMounted DEF NeedServiceAccountToken
<1>6. CASE OutputIsAwsRoleAuth(o) /\ f = ConfigPath(AwsCredentialsFile(CLF), "credentials")
  <2> DEFINE n == AwsCredentialsFile(CLF)
             r == Ref("configmap", n, "credentials")
  <2>1. IsName(n)
    BY NameAssumption, Suffixed DEF AwsCredentialsFile
  <2>2. n \in DOMAIN c.configMaps
    BY <1>6 DEF Prepared, RequiresProfilesConfigMap
  <2> HIDE DEF n
  <2>3. r.kind = "configmap" /\ r.name = n /\ r.key = "credentials"
    BY DEF Ref
  <2>4. f = ValuePath(r) /\ Present(r, c)
    BY <1>6, <2>2, <2>3 DEF ValuePath, Present, n
  <2> HIDE DEF r
  <2> QED
    BY <2>1, <2>3, <2>4, PresentMounted
<1> QED
  BY <1>2, <1>3, <1>4, <1>5, <1>6 DEF SinkReads

\* Every file that the configuration itself names.
LEMMA ConfigBacked ==
  ASSUME NEW c, Prepared(c), NEW f \in ConfigFiles(CLF, GenerateConfig(c))
  PROVE  \E m \in Mounted(NewWorkload(c, GenerateConfig(c))) : m.dir = f.dir
<1> DEFINE g == GenerateConfig(c)
           t == NewWorkload(c, g)
<1>1. g.inputs = c.spec.inputs /\ g.outputs = c.spec.outputs /\ g.tokenSecret = c.tokenSecret
  BY DEF GenerateConfig
<1> HIDE DEF g
<1>2. CASE f \in PrometheusOutput
  <2>1. f.dir = Dir("metrics", <<>>)
    BY <1>2 DEF PrometheusOutput, Path
  <2>2. \E m \in Mounted(t) : m.dir = Dir("metrics", <<>>)
    BY MetricsMounted
  <2> QED
    BY <2>1, <2>2 DEF g
<1>3. CASE \E o \in c.spec.outputs : LET k == NewOutputSink(CLF, o, c.tokenSecret) IN f \in k.auth.files \cup k.tls
  <2>1. PICK o \in c.spec.outputs : LET k == NewOutputSink(CLF, o, c.tokenSecret) IN f \in k.auth.files \cup k.tls
    BY <1>3
  <2>2. OutputSpec(o)
    BY DEF Prepared, ClusterLogForwarderSpec
  <2>3. f \in SinkReads(o, c.tokenSecret)
    BY <2>1, <2>2, SinkFiles
  <2> QED
    BY <2>3, SinkBacked
<1>4. CASE \E i \in c.spec.inputs : f \in NewViaqReceiverSource(i)
  <2>1. PICK i \in c.spec.inputs, x \in UNION {j.receiver : j \in c.spec.inputs} :
          x \in i.receiver /\ f \in NewTlsEnabled(x.tls)
    BY <1>4 DEF NewViaqReceiverSource
  <2>2. PICK r \in TLSReferences(x.tls) : f = ValuePath(r)
    BY <2>1, TLSFiles DEF TLSPaths
  <2>3. \A y \in x.tls : TLSSpec(y) /\ y \in ReceiverTLS(c.spec.inputs)
    BY <2>1 DEF Prepared, ClusterLogForwarderSpec, InputSpec, ReceiverSpec, ReceiverTLS
  <2>4. r.kind # "secret" => IsName(r.name)
    BY <2>3, TLSNamed
  <2>5. Present(r, c)
    <3>1. r \in TLSReferences(ReceiverTLS(c.spec.inputs))
      BY <2>3 DEF TLSReferences
    <3> QED
      BY <3>1 DEF Prepared, ReferencesPresent
  <2> QED
    BY <2>2, <2>4, <2>5, PresentMounted
<1> QED
  BY <1>1, <1>2, <1>3, <1>4 DEF ConfigFiles, Sinks, g

\* The token file of a profile that the configuration uses.
LEMMA ProfileBacked ==
  ASSUME NEW c, Prepared(c), NEW p \in ProfilesUsed(NewWorkload(c, GenerateConfig(c)))
  PROVE  \E m \in Mounted(NewWorkload(c, GenerateConfig(c))) : m.dir = p.tokenFile.dir
<1> DEFINE t == NewWorkload(c, GenerateConfig(c))
<1>1. t.profileHash = c.profiles /\ t.confHash.outputs = c.spec.outputs
  BY TemplateParts
<1>2. p \in c.profiles /\ \E o \in c.spec.outputs : o.name = p.output /\ The(o.spec).authentication.type = "iamRole"
  BY <1>1 DEF ProfilesUsed
<1>3. PICK o \in c.spec.outputs : ProfileOf(o, p)
  BY <1>2 DEF Prepared
<1> DEFINE auth == The(o.spec).authentication
           tok == The(auth.iamRole).token
<1>4. auth.type = "iamRole" /\ o.type \in {"cloudwatch", "s3"} /\ auth.iamRole # {}
  BY <1>2, <1>3 DEF ProfileOf, OutputIsAwsRoleAuth, Prepared, ClusterLogForwarderSpec, Keyed
<1>5. p.tokenFile = IF tok.from = "secret" THEN SecretPath(The(tok.secret)) ELSE ServiceAccountPath
  BY <1>3 DEF ProfileOf
<1>6. OutputSpec(o)
  BY DEF Prepared, ClusterLogForwarderSpec
<1>7. AwsAuthentication(auth) /\ SecretReferences(o) = awsSecretKeys(auth)
  BY <1>4, <1>6 DEF OutputSpec, Cloudwatch, S3, SecretReferences
<1>8. getOutputBearerToken(o) = {role.token : role \in auth.iamRole}
  BY <1>4, <1>6 DEF OutputSpec, getOutputBearerToken
<1> HIDE DEF auth
<1>9. The(auth.iamRole) \in auth.iamRole
  BY <1>4, TheIn
<1>10. BearerToken(tok)
  BY <1>7, <1>9 DEF AwsAuthentication
<1>11. p.tokenFile \in SinkReads(o, c.tokenSecret)
  <2>1. CASE tok.from = "secret"
    <3>1. The(tok.secret) \in tok.secret
      BY <2>1, <1>10, TheIn DEF BearerToken
    <3>2. tok.secret \subseteq awsSecretKeys(auth)
      BY <2>1, <1>4, <1>9 DEF awsSecretKeys, TokenSecret
    <3> HIDE DEF tok
    <3> QED
      BY <2>1, <3>1, <3>2, <1>5, <1>7 DEF SinkReads, Paths
  <2>2. CASE tok.from = "serviceAccount"
    <3>1. needsServiceAccountToken(o)
      BY <2>2, <1>8, <1>9 DEF needsServiceAccountToken
    <3> QED
      BY <2>2, <3>1, <1>5 DEF SinkReads
  <2> QED
    BY <2>1, <2>2, <1>10 DEF BearerToken
<1> QED
  BY <1>11, SinkBacked

\* The token that the credentials of an external account point to.
LEMMA ExternalBacked ==
  ASSUME NEW c, Prepared(c), NEW f \in ExternalTokens(NewWorkload(c, GenerateConfig(c)))
  PROVE  \E m \in Mounted(NewWorkload(c, GenerateConfig(c))) : m.dir = f.dir
<1> DEFINE t == NewWorkload(c, GenerateConfig(c))
<1>1. t.secretHash = c.secrets /\ t.confHash.outputs = c.spec.outputs /\ t.confHash.tokenSecret = c.tokenSecret
  BY TemplateParts
<1> HIDE DEF t
<1>2. PICK o \in c.spec.outputs :
        /\ o.type = "googleCloudLogging"
        /\ f \in UNION {IF a.token # {} /\ \E r \in a.credentials : Value(Seen(t), r) = "v2"
                        THEN {ServiceAccountPath} ELSE {} : a \in The(o.spec).authentication}
  BY <1>1 DEF ExternalTokens, t
<1>3. PICK a \in The(o.spec).authentication :
        f = ServiceAccountPath /\ a.token # {} /\ \E r \in a.credentials : Value(Seen(t), r) = "v2"
  BY <1>2
<1>4. PICK r \in a.credentials : Value(Seen(t), r) = "v2"
  BY <1>3
<1>5. r.name \notin c.tokenSecret /\ Value(c.secrets, r) = "v2"
  BY <1>1, <1>4 DEF Value, Seen
<1>6. PICK x \in a.token : x.from = "serviceAccount"
  BY <1>2, <1>3, <1>5 DEF Prepared, ExternalAccounts
<1>7. OutputSpec(o)
  BY DEF Prepared, ClusterLogForwarderSpec
<1>8. getOutputBearerToken(o) = UNION {b.token : b \in The(o.spec).authentication}
  BY <1>2, <1>7 DEF OutputSpec, getOutputBearerToken
<1>9. NeedServiceAccountToken(c.spec.outputs)
  BY <1>2, <1>6, <1>8 DEF NeedServiceAccountToken, needsServiceAccountToken
<1> QED
  BY <1>3, <1>9, ServiceAccountMounted

\* Every directory that logs are read from or buffered in.
LEMMA DirsBacked ==
  ASSUME NEW c, Prepared(c), NEW d \in ConfigDirs(CLF, GenerateConfig(c))
  PROVE  \E m \in Mounted(NewWorkload(c, GenerateConfig(c))) : m.dir = d
<1> DEFINE g == GenerateConfig(c)
           t == NewWorkload(c, g)
<1>1. g.inputs = c.spec.inputs
  BY DEF GenerateConfig
<1>2. t.confHash.inputs = c.spec.inputs /\ t.kind = IF DeployAsDeployment(c.spec) THEN "Deployment" ELSE "DaemonSet"
  BY TemplateParts
<1> HIDE DEF g, t
<1>3. CASE d = DataDir
  BY <1>3, DataMounted DEF g
<1>4. CASE \E i \in c.spec.inputs : d \in ContainerSources(i) \cup JournalSources(i) \cup AuditLogSources(i)
  <2>1. PICK i \in c.spec.inputs : d \in ContainerSources(i) \cup JournalSources(i) \cup AuditLogSources(i)
    BY <1>4
  <2>2. i.type \in {"application", "infrastructure", "audit"}
    BY <2>1 DEF ContainerSources, JournalSources, AuditLogSources
  <2>3. HostVolumes(t) = SourceVolumes(c.spec.inputs)
    <3>1. ~DeployAsDeployment(c.spec)
      BY <2>2 DEF DeployAsDeployment, InputTypes
    <3> QED
      BY <1>2, <3>1 DEF HostVolumes
  <2>4. \E h \in SourceVolumes(c.spec.inputs) : d = LogDir(h)
    <3>1. CASE d \in ContainerSources(i)
      <4>1. d = LogDir("pods") /\ HasContainerSource(c.spec.inputs)
        BY <3>1 DEF ContainerSources, HasContainerSource
      <4> QED
        BY <4>1 DEF SourceVolumes
    <3>2. CASE d \in JournalSources(i)
      <4>1. d = LogDir("journal") /\ HasJournalSource(c.spec.inputs)
        BY <3>2 DEF JournalSources, HasJournalSource
      <4> QED
        BY <4>1 DEF SourceVolumes
    <3>3. CASE d \in AuditLogSources(i)
      <4>1. i.type = "audit" /\ \E a \in Chosen(i.sources, AuditSources) : d \in AuditLogs[a]
        BY <3>3 DEF AuditLogSources
      <4>2. PICK a \in Chosen(i.sources, AuditSources) : d \in AuditLogs[a]
        BY <4>1
      <4>3. i.type = "audit" => i.sources \subseteq AuditSources
        BY DEF Prepared, ClusterLogForwarderSpec, InputSpec
      <4>4. a \in AuditSources /\ HasAuditSource(c.spec.inputs, a)
        BY <4>1, <4>2, <4>3 DEF HasAuditSource, Chosen
      <4> QED
        BY <4>2, <4>4 DEF AuditSources, AuditLogs, SourceVolumes
    <3> QED
      BY <2>1, <3>1, <3>2, <3>3
  <2> QED
    BY <2>3, <2>4, LogsMounted DEF t, g
<1> QED
  BY <1>1, <1>3, <1>4 DEF ConfigDirs, g

LEMMA TemplateMade ==
  ASSUME NEW c, Prepared(c)
  PROVE  TemplateBacked(NewWorkload(c, GenerateConfig(c)))
<1> DEFINE t == NewWorkload(c, GenerateConfig(c))
<1>1. t.confHash = GenerateConfig(c)
  BY DEF NewWorkload
<1>2. ASSUME NEW f \in FilesNamed(t) PROVE \E m \in Mounted(t) : m.dir = f.dir /\ Holds(t, m.volume)
  <2>1. \E m \in Mounted(t) : m.dir = f.dir
    <3>1. CASE f \in ConfigFiles(CLF, GenerateConfig(c))
      BY <3>1, ConfigBacked
    <3>2. CASE f \in {p.tokenFile : p \in ProfilesUsed(t)}
      BY <3>2, ProfileBacked
    <3>3. CASE f \in ExternalTokens(t)
      BY <3>3, ExternalBacked
    <3> HIDE DEF t
    <3> QED
      BY <1>1, <1>2, <3>1, <3>2, <3>3 DEF FilesNamed
  <2>2. \A v : Holds(t, v)
    BY AllHold DEF Prepared
  <2> HIDE DEF t
  <2> QED
    BY <2>1, <2>2
<1>3. ConfigDirs(CLF, t.confHash) \subseteq {m.dir : m \in Mounted(t)}
  BY <1>1, DirsBacked
<1> HIDE DEF t
<1>4. TemplateBacked(t)
  BY <1>2, <1>3 DEF TemplateBacked
<1> QED
  BY <1>4 DEF t

-----------------------------------------------------------------------------
(* Validation *)

\* A value that is not empty is that of an object that is there and not bare.
LEMMA ValueHeld ==
  ASSUME NEW objs, NEW r, Value(objs, r) # ""
  PROVE  r.name \in DOMAIN objs /\ objs[r.name] \notin {"bare", "empty", "unfilled"}
BY DEF Value

LEMMA ReferencesHeld ==
  ASSUME NEW c, NEW refs, ValidateValueReference(refs, c), NEW r \in refs
  PROVE  /\ Present(r, c)
         /\ r.kind = "secret" => c.secrets[r.name] # "bare"
         /\ r.kind # "secret" => c.configMaps[r.name] # "bare"
BY ValueHeld DEF ValidateValueReference, Present

LEMMA OutputHeld ==
  ASSUME NEW c, Valid(c), NEW o \in c.spec.outputs, NEW r \in SecretReferences(o) \cup TLSReferences(o.tls)
  PROVE  /\ Present(r, c)
         /\ r.kind = "secret" => c.secrets[r.name] # "bare"
         /\ r.kind # "secret" => c.configMaps[r.name] # "bare"
<1> DEFINE refs == SecretReferences(o) \cup UNION {ValueReferences(t) : t \in o.tls}
<1>1. ValidateValueReference(refs, c)
  BY DEF Valid, ValidateOutput
<1>2. r \in refs
  BY DEF TLSReferences
<1> HIDE DEF refs
<1> QED
  BY <1>1, <1>2, ReferencesHeld

LEMMA ReceiverHeld ==
  ASSUME NEW c, Valid(c), NEW r \in TLSReferences(ReceiverTLS(c.spec.inputs))
  PROVE  /\ Present(r, c)
         /\ r.kind = "secret" => c.secrets[r.name] # "bare"
         /\ r.kind # "secret" => c.configMaps[r.name] # "bare"
<1>1. PICK i \in c.spec.inputs : \E t \in ReceiverTLS({i}) : r \in ValueReferences(t)
  BY DEF TLSReferences, ReceiverTLS
<1>2. PICK t \in ReceiverTLS({i}) : r \in ValueReferences(t)
  BY <1>1
<1> DEFINE refs == removeGeneratedSecrets(ValueReferences(t), c)
<1>3. ValidateValueReference(refs, c)
  BY DEF Valid, ValidateReceiver
<1>4. CASE r \in refs
  <2> HIDE DEF refs
  <2> QED
    BY <1>3, <1>4, ReferencesHeld
<1>5. CASE r \notin refs
  <2>1. r.kind = "secret" /\ r.name \in DOMAIN c.secrets /\ c.secrets[r.name] = "empty"
    BY <1>2, <1>5 DEF removeGeneratedSecrets
  <2> QED
    BY <2>1 DEF Present
<1> QED
  BY <1>4, <1>5

\* What validation accepts is what the invariant asks for after it.
LEMMA ValidationGives ==
  ASSUME NEW c, ClusterLogForwarderSpec(c.spec), Valid(c), c.tokenSecret = {},
         \A n \in DOMAIN c.secrets : n \in SecretNames(c.spec) \/ c.secrets[n] = "empty",
         DOMAIN c.configMaps \subseteq ConfigmapNames(c.spec)
  PROVE  ReferencesPresent(c) /\ ExternalAccounts(c)
<1>1. \A o \in c.spec.outputs : \A r \in SecretReferences(o) : r.kind = "secret"
  BY SecretKinds DEF ClusterLogForwarderSpec
<1>2. ASSUME NEW n \in SecretNames(c.spec)
      PROVE  c.secrets[n] # "bare"
  <2>1. CASE n \in InputSecretNames(c.spec.inputs)
    <3>1. PICK r \in TLSReferences(ReceiverTLS(c.spec.inputs)) : r.kind = "secret" /\ r.name = n
      BY <2>1 DEF InputSecretNames, SecretsForTLS, TLSReferences
    <3> QED
      BY <3>1, ReceiverHeld
  <2>2. CASE n \in OutputSecretNames(c.spec.outputs)
    <3>1. PICK o \in c.spec.outputs : n \in {r.name : r \in SecretReferences(o)} \cup UNION {SecretsForTLS(t) : t \in o.tls}
      BY <2>2 DEF OutputSecretNames
    <3>2. PICK r \in SecretReferences(o) \cup TLSReferences(o.tls) : r.kind = "secret" /\ r.name = n
      BY <3>1, <1>1 DEF SecretsForTLS, TLSReferences
    <3> QED
      BY <3>2, OutputHeld
  <2> QED
    BY <2>1, <2>2 DEF SecretNames
<1>3. ASSUME NEW n \in ConfigmapNames(c.spec)
      PROVE  c.configMaps[n] # "bare"
  <2>1. CASE n \in InputConfigmapNames(c.spec.inputs)
    <3>1. PICK r \in TLSReferences(ReceiverTLS(c.spec.inputs)) : r.kind = "configmap" /\ r.name = n
      BY <2>1 DEF InputConfigmapNames, ConfigmapsForTLS, TLSReferences, ValueReferences
    <3> QED
      BY <3>1, ReceiverHeld
  <2>2. CASE n \in OutputConfigmapNames(c.spec.outputs)
    <3>1. PICK o \in c.spec.outputs : n \in UNION {ConfigmapsForTLS(t) : t \in o.tls}
      BY <2>2 DEF OutputConfigmapNames
    <3>2. PICK r \in TLSReferences(o.tls) : r.kind = "configmap" /\ r.name = n
      BY <3>1 DEF ConfigmapsForTLS, TLSReferences, ValueReferences
    <3> QED
      BY <3>2, OutputHeld
  <2> QED
    BY <2>1, <2>2 DEF ConfigmapNames
<1>4. ReferencesPresent(c)
  <2>1. \A o \in c.spec.outputs : \A r \in SecretReferences(o) \cup TLSReferences(o.tls) : Present(r, c)
    BY OutputHeld
  <2>2. \A r \in TLSReferences(ReceiverTLS(c.spec.inputs)) : Present(r, c)
    BY ReceiverHeld
  <2> QED
    BY <1>2, <1>3, <2>1, <2>2 DEF ReferencesPresent
<1>5. ExternalAccounts(c)
  <2>1. SUFFICES ASSUME NEW o \in c.spec.outputs, o.type = "googleCloudLogging",
                        NEW a \in The(o.spec).authentication, NEW r \in a.credentials,
                        Value(c.secrets, r) = "v2", NEW t \in a.token
                 PROVE  t.from = "serviceAccount"
    BY DEF ExternalAccounts
  <2>2. ValidateGCLAuth(The(o.spec), c)
    BY <2>1 DEF Valid, ValidateOutput
  <2>3. Optional(a.credentials)
    BY <2>1 DEF ClusterLogForwarderSpec, OutputSpec, GoogleCloudLogging
  <2>4. The(a.credentials) = r
    BY <2>3, TheIn DEF Optional
  <2>5. ServiceAccountPath \in expectedTokenPath(t)
    BY <2>1, <2>2, <2>4 DEF ValidateGCLAuth, validateGCLExternalAccount
  <2>6. \A x : SecretPath(x) # ServiceAccountPath
    <3>1. \A x : SecretPath(x).dir.base = "secrets"
      BY DEF SecretPath, Path, Dir
    <3>2. ServiceAccountPath.dir.base = "serviceaccount"
      BY DEF ServiceAccountPath, Path, Dir
    <3> QED
      BY <3>1, <3>2
  <2> QED
    BY <2>5, <2>6 DEF expectedTokenPath
<1> QED
  BY <1>4, <1>5

-----------------------------------------------------------------------------
(* The invariant *)

ObjectsInv == ContextBacked /\ FilesBacked /\ ReferencesChecked

LEMMA NoContextTyped == ContextTyped(NoContext)
BY DEF ContextTyped, NoContext

LEMMA ReturnKeeps ==
  ASSUME ContextBacked, Return, spec' = spec
  PROVE  ContextBacked'
BY NoContextTyped DEF ContextBacked, Return, BeforeValidation, AfterValidation

LEMMA FetchSecretsKeeps ==
  ASSUME ContextBacked, FetchSecrets
  PROVE  ContextBacked'
<1> DEFINE m == MigrateInputs(CLF, spec)
<1>1. ClusterLogForwarderSpec(spec) /\ ClusterLogForwarderSpec(m)
  BY MigrationAdmitted DEF ContextBacked
<1>2. cxt' = [spec |-> m, secrets |-> MapSecrets(spec), configMaps |-> <<>>, tokenSecret |-> {}, bundle |-> {},
              profiles |-> {}]
  BY DEF FetchSecrets, NoContext
<1>3. \A n \in DOMAIN MapSecrets(spec) : n \in SecretNames(m) \/ MapSecrets(spec)[n] = "empty"
  BY DEF MapSecrets, Only
<1> HIDE DEF m
<1>4. pc' = "configMaps" /\ spec' = spec
  BY DEF FetchSecrets, Step, users
<1>5. /\ cxt'.spec = m /\ cxt'.secrets = MapSecrets(spec) /\ DOMAIN cxt'.configMaps = {}
      /\ cxt'.tokenSecret = {} /\ cxt'.profiles = {}
      /\ ContextTyped(cxt')
  BY <1>2 DEF ContextTyped
<1>6. \A n \in DOMAIN cxt'.secrets : n \in SecretNames(cxt'.spec) \/ cxt'.secrets[n] = "empty"
  BY <1>3, <1>5
<1> QED
  BY <1>1, <1>4, <1>5, <1>6 DEF ContextBacked, BeforeValidation, AfterValidation

LEMMA FetchConfigMapsKeeps ==
  ASSUME ContextBacked, FetchConfigMaps
  PROVE  ContextBacked'
<1>1. pc = "configMaps" /\ pc' = "validate" /\ spec' = spec
  BY DEF FetchConfigMaps, Step, users
<1>2. /\ cxt'.spec = cxt.spec /\ cxt'.secrets = cxt.secrets /\ cxt'.configMaps = MapConfigMaps(cxt.spec)
      /\ cxt'.tokenSecret = cxt.tokenSecret /\ cxt'.profiles = cxt.profiles
      /\ ContextTyped(cxt')
  BY DEF FetchConfigMaps, ContextBacked, ContextTyped
<1>3. DOMAIN MapConfigMaps(cxt.spec) \subseteq ConfigmapNames(cxt.spec)
  BY DEF MapConfigMaps, Only
<1> QED
  BY <1>1, <1>2, <1>3 DEF ContextBacked, BeforeValidation, AfterValidation

LEMMA ValidateKeeps ==
  ASSUME ContextBacked, Validate
  PROVE  ContextBacked'
<1>1. spec' = spec /\ pc = "validate"
  BY DEF Validate, users
<1>2. CASE Valid(cxt)
  <2>1. cxt' = cxt /\ pc' = "token"
    BY <1>2 DEF Validate
  <2>2. /\ ClusterLogForwarderSpec(cxt.spec) /\ cxt.tokenSecret = {} /\ cxt.profiles = {}
        /\ \A n \in DOMAIN cxt.secrets : n \in SecretNames(cxt.spec) \/ cxt.secrets[n] = "empty"
        /\ DOMAIN cxt.configMaps \subseteq ConfigmapNames(cxt.spec)
    BY <1>1 DEF ContextBacked, BeforeValidation
  <2>3. ReferencesPresent(cxt) /\ ExternalAccounts(cxt)
    BY <1>2, <2>2, ValidationGives
  <2> QED
    BY <1>1, <2>1, <2>2, <2>3 DEF ContextBacked, BeforeValidation
<1>3. CASE ~Valid(cxt)
  BY <1>1, <1>3, ReturnKeeps DEF Validate
<1> QED
  BY <1>2, <1>3

\* Giving a context another object takes nothing from it.
LEMMA MoreSecrets ==
  ASSUME NEW c, NEW d, NEW n, NEW x, ReferencesPresent(c), ExternalAccounts(c),
         d.spec = c.spec, d.configMaps = c.configMaps, d.secrets = Put(c.secrets, n, x),
         n \in d.tokenSecret, c.tokenSecret \subseteq d.tokenSecret
  PROVE  ReferencesPresent(d) /\ ExternalAccounts(d)
<1>1. /\ DOMAIN d.secrets = DOMAIN c.secrets \cup {n}
      /\ \A k \in DOMAIN c.secrets : k # n => d.secrets[k] = c.secrets[k]
  BY DEF Put
<1>2. \A r : Present(r, c) => Present(r, d)
  BY <1>1 DEF Present
<1>3. \A r : r.name \notin d.tokenSecret => Value(d.secrets, r) = Value(c.secrets, r)
  BY <1>1 DEF Value
<1>4. ReferencesPresent(d)
  BY <1>1, <1>2 DEF ReferencesPresent
<1>5. ExternalAccounts(d)
  BY <1>3 DEF ExternalAccounts
<1> QED
  BY <1>4, <1>5

LEMMA MoreConfigMaps ==
  ASSUME NEW c, NEW d, NEW n, NEW x, x # "bare", ReferencesPresent(c), ExternalAccounts(c),
         d.spec = c.spec, d.secrets = c.secrets, d.configMaps = Put(c.configMaps, n, x), d.tokenSecret = c.tokenSecret
  PROVE  ReferencesPresent(d) /\ ExternalAccounts(d)
<1>1. /\ DOMAIN d.configMaps = DOMAIN c.configMaps \cup {n}
      /\ \A k \in DOMAIN d.configMaps : d.configMaps[k] = IF k = n THEN x ELSE c.configMaps[k]
  BY DEF Put
<1>2. \A r : Present(r, c) => Present(r, d)
  BY <1>1 DEF Present
<1>3. ReferencesPresent(d)
  BY <1>1, <1>2 DEF ReferencesPresent
<1>4. ExternalAccounts(d)
  BY DEF ExternalAccounts
<1> QED
  BY <1>3, <1>4

LEMMA TokenKeeps ==
  ASSUME ContextBacked, ReconcileServiceAccountTokenSecret
  PROVE  ContextBacked'
<1>1. pc = "token" /\ pc' = "bundle" /\ spec' = spec
  BY DEF ReconcileServiceAccountTokenSecret, Step, users
<1>2. CASE cxt' = cxt
  BY <1>1, <1>2 DEF ContextBacked, BeforeValidation, AfterValidation
<1>3. CASE cxt' # cxt
  <2> DEFINE n == ServiceAccountTokenSecret
  <2>1. PICK x : cxt' = [cxt EXCEPT !.secrets = Put(cxt.secrets, n, x), !.tokenSecret = {n}]
    BY <1>3 DEF ReconcileServiceAccountTokenSecret
  <2> HIDE DEF n
  <2>2. /\ cxt'.spec = cxt.spec /\ cxt'.secrets = Put(cxt.secrets, n, x) /\ cxt'.configMaps = cxt.configMaps
        /\ cxt'.tokenSecret = {n} /\ cxt'.profiles = cxt.profiles
        /\ ContextTyped(cxt')
    BY <2>1 DEF ContextBacked, ContextTyped
  <2>3. /\ ReferencesPresent(cxt) /\ ExternalAccounts(cxt) /\ cxt.tokenSecret \subseteq {n}
        /\ \A p \in cxt.profiles : \E o \in cxt.spec.outputs : ProfileOf(o, p)
    BY <1>1 DEF ContextBacked, AfterValidation, n
  <2>4. ReferencesPresent(cxt') /\ ExternalAccounts(cxt')
    BY <2>2, <2>3, MoreSecrets
  <2>5. n \in DOMAIN cxt'.secrets
    BY <2>2 DEF Put
  <2> QED
    BY <1>1, <2>2, <2>3, <2>4, <2>5 DEF ContextBacked, BeforeValidation, n
<1> QED
  BY <1>2, <1>3


LEMMA BundleKeeps ==
  ASSUME ContextBacked, ReconcileTrustedCABundleConfigMap \/ WaitForTrustedCAToBePopulated
  PROVE  ContextBacked'
<1>1. pc \in {"bundle", "wait"} /\ pc' \in {"wait", "creds"} /\ spec' = spec
  BY DEF ReconcileTrustedCABundleConfigMap, WaitForTrustedCAToBePopulated, Step, users
<1>2. /\ cxt'.spec = cxt.spec /\ cxt'.secrets = cxt.secrets /\ cxt'.configMaps = cxt.configMaps
      /\ cxt'.tokenSecret = cxt.tokenSecret /\ cxt'.profiles = cxt.profiles
      /\ ContextTyped(cxt')
  BY DEF ReconcileTrustedCABundleConfigMap, WaitForTrustedCAToBePopulated, ContextBacked, ContextTyped
<1>3. ReferencesPresent(cxt) => ReferencesPresent(cxt')
  BY <1>2 DEF ReferencesPresent, Present
<1>4. ExternalAccounts(cxt) => ExternalAccounts(cxt')
  BY <1>2 DEF ExternalAccounts
<1> QED
  BY <1>1, <1>2, <1>3, <1>4 DEF ContextBacked, BeforeValidation, AfterValidation

LEMMA CredsKeeps ==
  ASSUME ContextBacked, ReconcileCredsFile
  PROVE  ContextBacked'
<1> DEFINE n == AwsCredentialsFile(CLF)
<1>1. pc = "creds" /\ pc' = "config" /\ spec' = spec
  BY DEF ReconcileCredsFile, Step, users
<1>2. CASE ~RequiresProfilesConfigMap(cxt.spec.outputs)
  <2>1. cxt' = cxt
    BY <1>2 DEF ReconcileCredsFile
  <2> QED
    BY <1>1, <1>2, <2>1 DEF ContextBacked, BeforeValidation, AfterValidation
<1>3. CASE RequiresProfilesConfigMap(cxt.spec.outputs)
  <2>1. cxt' = [cxt EXCEPT !.configMaps = Put(cxt.configMaps, n, "profiles"), !.profiles = GenerateAwsProfileCreds(cxt)]
    BY <1>3 DEF ReconcileCredsFile
  <2>2. /\ cxt'.spec = cxt.spec /\ cxt'.secrets = cxt.secrets /\ cxt'.configMaps = Put(cxt.configMaps, n, "profiles")
        /\ cxt'.tokenSecret = cxt.tokenSecret /\ cxt'.profiles = GenerateAwsProfileCreds(cxt)
        /\ ContextTyped(cxt')
    BY <2>1 DEF ContextBacked, ContextTyped
  <2>3. /\ ReferencesPresent(cxt) /\ ExternalAccounts(cxt)
        /\ cxt.tokenSecret \subseteq DOMAIN cxt.secrets \cap {ServiceAccountTokenSecret}
    BY <1>1 DEF ContextBacked, AfterValidation
  <2> HIDE DEF n
  <2>4. ReferencesPresent(cxt') /\ ExternalAccounts(cxt')
    BY <2>2, <2>3, MoreConfigMaps
  <2>5. n \in DOMAIN cxt'.configMaps
    BY <2>2 DEF Put
  <2>6. \A p \in GenerateAwsProfileCreds(cxt) : \E o \in cxt.spec.outputs : ProfileOf(o, p)
    BY DEF GenerateAwsProfileCreds, ProfileOf
  <2> QED
    BY <1>1, <2>2, <2>3, <2>4, <2>5, <2>6 DEF ContextBacked, BeforeValidation, n
<1> QED
  BY <1>2, <1>3

LEMMA DeployKeeps ==
  ASSUME ContextBacked,
         \/ ReconcileCollectorConfig \/ ReconcileWorkload \/ RemoveOrphanedInputServices \/ ReconcileInputServices
         \/ ReconcileNetworkPolicy \/ RemoveNetworkPolicy
  PROVE  ContextBacked'
<1>1. CASE ReconcileCollectorConfig
  <2>1. pc = "config" /\ pc' = "workload" /\ cxt' = cxt /\ spec' = spec
    BY <1>1 DEF ReconcileCollectorConfig, Step, users
  <2> QED
    BY <2>1 DEF ContextBacked, BeforeValidation, AfterValidation
<1>2. CASE ReconcileWorkload
  <2>1. spec' = spec /\ (Return \/ (pc = "workload" /\ pc' = "orphans" /\ cxt' = cxt))
    BY <1>2 DEF ReconcileWorkload, users
  <2>2. CASE Return
    BY <2>1, <2>2, ReturnKeeps
  <2>3. CASE pc = "workload" /\ pc' = "orphans" /\ cxt' = cxt
    BY <2>1, <2>3 DEF ContextBacked, BeforeValidation, AfterValidation
  <2> QED
    BY <2>1, <2>2, <2>3
<1>3. CASE RemoveOrphanedInputServices \/ ReconcileInputServices \/ ReconcileNetworkPolicy \/ RemoveNetworkPolicy
  <2>1. \/ /\ pc \in {"orphans", "services", "policy"} /\ pc' \in {"orphans", "services", "policy", "metrics"}
           /\ cxt' = cxt /\ spec' = spec
        \/ Return /\ spec' = spec
    BY <1>3 DEF RemoveOrphanedInputServices, ReconcileInputServices, ReconcileNetworkPolicy, RemoveNetworkPolicy,
                Step, users
  <2>2. CASE Return /\ spec' = spec
    BY <2>2, ReturnKeeps
  <2>3. CASE pc' \in {"orphans", "services", "policy", "metrics"} /\ cxt' = cxt /\ spec' = spec
             /\ pc \in {"orphans", "services", "policy"}
    BY <2>3 DEF ContextBacked, BeforeValidation, AfterValidation
  <2> QED
    BY <2>1, <2>2, <2>3
<1> QED
  BY <1>1, <1>2, <1>3

\* Steps that end the reconcile.
LEMMA EndKeeps ==
  ASSUME ContextBacked,
         PanicOnReferences \/ PanicOnValidation \/ PanicOnGeneration \/ PanicOnPort \/ ReconcileMetricsService \/ Fail
  PROVE  ContextBacked'
<1>1. Return /\ spec' = spec
  BY DEF PanicOnReferences, PanicOnValidation, PanicOnGeneration, PanicOnPort, ReconcileMetricsService, Fail, Panic,
         users
<1> QED
  BY <1>1, ReturnKeeps

\* Steps of the platform and of users.
LEMMA OthersKeep ==
  ASSUME ContextBacked,
         \/ Platform \/ StartPod \/ KillPod \/ EditSpec \/ EditSecret \/ EditConfigMap \/ RotateBundle
         \/ RotateCertificate \/ UNCHANGED vars
  PROVE  ContextBacked'
<1>1. cxt' = cxt /\ pc' = pc
  BY DEF Platform, IssueCertificate, CollectCertificate, FillToken, InjectBundle, StartPod, KillPod, EditSpec,
         EditSecret, EditConfigMap, RotateBundle, RotateCertificate, vars
<1>2. spec' = spec \/ ClusterLogForwarderSpec(spec')
  BY DEF Platform, IssueCertificate, CollectCertificate, FillToken, InjectBundle, StartPod, KillPod, EditSpec,
         EditSecret, EditConfigMap, RotateBundle, RotateCertificate, users, vars
<1> QED
  BY <1>1, <1>2 DEF ContextBacked

LEMMA ContextStep ==
  ASSUME ContextBacked, [Next]_vars
  PROVE  ContextBacked'
BY FetchSecretsKeeps, FetchConfigMapsKeeps, ValidateKeeps, TokenKeeps, BundleKeeps, CredsKeeps, DeployKeeps, EndKeeps,
   OthersKeep DEF Next, Reconcile

-----------------------------------------------------------------------------
(* Files *)

\* Only one step writes a template, and what it writes is backed.
LEMMA FilesStep ==
  ASSUME ContextBacked, FilesBacked, [Next]_vars
  PROVE  FilesBacked'
<1>1. CASE workload' = workload
  BY <1>1 DEF FilesBacked
<1>2. CASE workload' # workload
  <2>1. ReconcileWorkload
    BY <1>2 DEF Next, Reconcile, FetchSecrets, PanicOnReferences, FetchConfigMaps, PanicOnValidation, Validate,
         PanicOnGeneration, ReconcileServiceAccountTokenSecret, ReconcileTrustedCABundleConfigMap, WaitForTrustedCAToBePopulated,
         ReconcileCredsFile, ReconcileCollectorConfig, RemoveOrphanedInputServices, ReconcileInputServices,
         ReconcileNetworkPolicy, PanicOnPort, RemoveNetworkPolicy, ReconcileMetricsService, Fail, Platform,
         IssueCertificate, CollectCertificate, FillToken, InjectBundle, StartPod, KillPod, EditSpec, EditSecret,
         EditConfigMap, RotateBundle, RotateCertificate, deployed, vars
  <2>2. pc = "workload" /\ workload' = {NewWorkload(cxt, GenerateConfig(cxt))}
    BY <1>2, <2>1 DEF ReconcileWorkload
  <2>3. Prepared(cxt)
    BY <2>2 DEF ContextBacked, AfterValidation, Prepared
  <2>4. TemplateBacked(NewWorkload(cxt, GenerateConfig(cxt)))
    BY <2>3, TemplateMade
  <2> QED
    BY <2>2, <2>4 DEF FilesBacked
<1> QED
  BY <1>1, <1>2

-----------------------------------------------------------------------------
(* Panics *)

\* Admission leaves only Kafka to lack what a reference goes through.
LEMMA MissingKafka ==
  ASSUME NEW s, ClusterLogForwarderSpec(s), NEW p \in Missing(s)
  PROVE  p = "kafka"
<1>1. \A i \in s.inputs : ~(i.type = "receiver" /\ i.receiver = {})
  BY DEF ClusterLogForwarderSpec, InputSpec
<1>2. PICK o \in s.outputs : p = o.type /\ MissesReference(o)
  BY <1>1 DEF Missing
<1>3. OutputSpec(o)
  BY DEF ClusterLogForwarderSpec
<1>4. o.type \in {"cloudwatch", "s3"} => AwsAuthentication(The(o.spec).authentication)
  BY <1>3 DEF OutputSpec, Cloudwatch, S3
<1> QED
  BY <1>2, <1>4 DEF MissesReference, AwsAuthentication

LEMMA PanicStep ==
  ASSUME ContextBacked, ReferencesChecked, [Next]_vars
  PROVE  ReferencesChecked'
<1>1. CASE panics' = panics
  BY <1>1 DEF ReferencesChecked
<1>2. CASE panics' # panics
  <2>1. PanicOnReferences \/ PanicOnValidation \/ PanicOnGeneration \/ PanicOnPort
    BY <1>2 DEF Next, Reconcile, FetchSecrets, FetchConfigMaps, Validate,
         ReconcileServiceAccountTokenSecret, ReconcileTrustedCABundleConfigMap, WaitForTrustedCAToBePopulated,
         ReconcileCredsFile, ReconcileCollectorConfig, ReconcileWorkload, RemoveOrphanedInputServices,
         ReconcileInputServices, ReconcileNetworkPolicy, RemoveNetworkPolicy, ReconcileMetricsService, Fail, Platform,
         IssueCertificate, CollectCertificate, FillToken, InjectBundle, StartPod, KillPod, EditSpec, EditSecret,
         EditConfigMap, RotateBundle, RotateCertificate, vars
  <2>2. CASE PanicOnReferences
    <3>1. ClusterLogForwarderSpec(spec)
      BY DEF ContextBacked
    <3>2. \A p \in Missing(spec) : p = "kafka"
      BY <3>1, MissingKafka
    <3>3. panics' = panics \cup {[where |-> "SecretReferences", part |-> p] : p \in Missing(spec)}
      BY <2>2 DEF PanicOnReferences, Panic
    <3> QED
      BY <3>2, <3>3 DEF ReferencesChecked
  <2>3. ASSUME NEW where, NEW parts, where # "SecretReferences", Panic(where, parts)
        PROVE  ReferencesChecked'
    <3>1. \A p \in panics' : p \in panics \/ p.where = where
      BY <2>3 DEF Panic
    <3> QED
      BY <2>3, <3>1 DEF ReferencesChecked
  <2>4. CASE PanicOnValidation
    BY <2>3, <2>4 DEF PanicOnValidation
  <2>5. CASE PanicOnGeneration
    BY <2>3, <2>5 DEF PanicOnGeneration
  <2>6. CASE PanicOnPort
    BY <2>3, <2>6 DEF PanicOnPort
  <2> QED
    BY <2>1, <2>2, <2>4, <2>5, <2>6
<1> QED
  BY <1>1, <1>2

-----------------------------------------------------------------------------
LEMMA ObjectsInitially == Init => ObjectsInv
<1> SUFFICES ASSUME Init PROVE ObjectsInv
  OBVIOUS
<1>1. ContextBacked
  BY NoContextTyped DEF Init, ContextBacked, BeforeValidation, AfterValidation
<1>2. FilesBacked /\ ReferencesChecked
  BY DEF Init, FilesBacked, ReferencesChecked
<1> QED
  BY <1>1, <1>2 DEF ObjectsInv

LEMMA ObjectsInvariant == Spec => []ObjectsInv
<1>1. Init => ObjectsInv
  BY ObjectsInitially
<1>2. ObjectsInv /\ [Next]_vars => ObjectsInv'
  BY ContextStep, FilesStep, PanicStep DEF ObjectsInv
<1> QED
  BY <1>1, <1>2, PTL DEF Spec

\* Every file and directory that a generated configuration names is under a mount
\* of the pod template it is deployed with, whose object was there and held the
\* key when the reconcile validated it, for every spec that the API server admits
\* and however objects change while the reconcile runs (the generator against
\* NewPodSpec and NewCollectorContainer, MapSecrets, validation).
THEOREM FilesAreBacked == Spec => []FilesBacked
<1>1. ObjectsInv => FilesBacked
  BY DEF ObjectsInv
<1> QED
  BY <1>1, ObjectsInvariant, PTL

\* Following the references of an admitted spec panics for a Kafka authentication
\* without SASL and for nothing else, whatever specs it replaces (SecretReferences
\* and the initialization of receivers against the rules of the types).
THEOREM ReferencesAreChecked == Spec => []ReferencesChecked
<1>1. ObjectsInv => ReferencesChecked
  BY DEF ObjectsInv
<1> QED
  BY <1>1, ObjectsInvariant, PTL

=============================================================================
