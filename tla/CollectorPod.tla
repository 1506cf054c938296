------------------------------ MODULE CollectorPod ------------------------------
(***************************************************************************)
(* The pod template of the collector (internal/collector): volumes, mounts  *)
(* and what makes a template differ from the one before.  A template is     *)
(* what it is built from; its volumes and mounts are operators on it.       *)
(*                                                                          *)
(* Left out: scheduling, resources, security context, environment variables *)
(* without effect on files (log level, node name).                          *)
(***************************************************************************)
EXTENDS CollectorConfig

CONSTANT CLF             \* the name of the forwarder

ASSUME NameAssumption == IsName(CLF)

SecretMetrics == CLF \o <<"-", "metrics">>
ConfigMapName == CLF \o <<"-", "config">>
CaTrustBundle == CLF \o <<"-", "trustbundle">>
GenerateInputServiceName(input) == CLF \o <<"-", input>>

\* The names are written, one after the other, with their contents: equal if
\* and only if both are equal, collisions aside.
Hash64a(objects) == objects

\* Faulty variant: the annotations with the hashes are missing.
NewWorkloadWithoutHashes(cxt, config) ==
  [kind       |-> IF DeployAsDeployment(cxt.spec) THEN "Deployment" ELSE "DaemonSet",
   confHash   |-> config,
   secrets    |-> DOMAIN cxt.secrets,
   configMaps |-> DOMAIN cxt.configMaps,
   token      |-> NeedServiceAccountToken(cxt.spec.outputs),
   secretHash |-> [n \in DOMAIN cxt.secrets |-> "v1"], configMapHash |-> [n \in DOMAIN cxt.configMaps |-> "v1"],
   profileHash |-> {}, bundleHash |-> cxt.bundle]

\* configMapHash covers the AWS credentials file, whose content is profileHash.
\* bundle is empty if the ConfigMap with the trusted CAs has not been filled.
NewWorkload(cxt, config) ==
  [kind       |-> IF DeployAsDeployment(cxt.spec) THEN "Deployment" ELSE "DaemonSet",
   confHash   |-> config,
   secrets    |-> DOMAIN cxt.secrets,
   configMaps |-> DOMAIN cxt.configMaps,
   token      |-> NeedServiceAccountToken(cxt.spec.outputs),
   secretHash |-> Hash64a(cxt.secrets), configMapHash |-> Hash64a(cxt.configMaps),
   profileHash |-> Hash64a(cxt.profiles), bundleHash |-> cxt.bundle]

-----------------------------------------------------------------------------
(* Volumes *)

Volume(name, kind, object) == [name |-> name, kind |-> kind, object |-> object]
HostPath(name) == Volume(<<name>>, "hostPath", <<name>>)

sanitizeVolumeName(name) == SelectSeq(name, LAMBDA w : w # ".")

AddSecretVolumes(names) == {Volume(sanitizeVolumeName(n), "secret", n) : n \in names}

ConfigVolumeName(name) == <<"config", "-">> \o name
AddConfigmapVolumes(names) == {Volume(sanitizeVolumeName(ConfigVolumeName(n)), "configMap", n) : n \in names}

AddServiceAccountProjectedVolume(needed) ==
  IF needed THEN {Volume(<<"sa", "-", "token">>, "projected", <<>>)} ELSE {}

SourceVolumes(inputs) ==
  (IF HasContainerSource(inputs) THEN {"pods"} ELSE {})
    \cup (IF HasJournalSource(inputs) THEN {"journal"} ELSE {})
    \cup (IF HasAuditSource(inputs, "auditd") THEN {"audit"} ELSE {})
    \cup (IF HasAuditSource(inputs, "kubeAPI") THEN {"kube-apiserver"} ELSE {})
    \cup (IF HasAuditSource(inputs, "openshiftAPI")
          THEN {"openshift-apiserver", "oauth-server", "oauth-apiserver"} ELSE {})
    \cup (IF HasAuditSource(inputs, "ovn") THEN {"ovn"} ELSE {})

HostVolumes(t) == IF t.kind = "DaemonSet" THEN SourceVolumes(t.confHash.inputs) ELSE {}

trustedCABundle(t) ==
  IF t.bundleHash = {} THEN {} ELSE {Volume(<<"trusted", "-", "ca">>, "configMap", CaTrustBundle)}

CollectorVisitor == {Volume(<<"config">>, "configMap", ConfigMapName), HostPath("datadir"),
                     Volume(<<"entrypoint">>, "configMap", ConfigMapName)}

NewPodSpec(t) ==
  {Volume(<<"metrics">>, "secret", SecretMetrics), Volume(<<"tmp">>, "emptyDir", <<>>)}
    \cup {HostPath(v) : v \in HostVolumes(t)}
    \cup AddSecretVolumes(t.secrets)
    \cup AddConfigmapVolumes(t.configMaps)
    \cup AddServiceAccountProjectedVolume(t.token)
    \cup trustedCABundle(t)
    \cup CollectorVisitor

\* The API server refuses a template with two volumes of one name.
Admitted(t) == \A v, w \in NewPodSpec(t) : v.name = w.name => v = w

-----------------------------------------------------------------------------
(* Mounts *)

Mount(volume, dir) == [volume |-> volume, dir |-> dir]

\* Faulty variant: mounts refer to the name of the object, not of the volume.
AddVolumeMountsAsNamed(path) == {Mount(n, path[n]) : n \in DOMAIN path}

AddVolumeMounts(path) == {Mount(sanitizeVolumeName(n), path[n]) : n \in DOMAIN path}

SecretBasePath(name) == Dir("secrets", name)

\* The directory is named after what follows config- in the name of the volume.
ConfigMapBasePath(volume) == Dir("config", SubSeq(volume, 3, Len(volume)))

NewCollectorContainer(t) ==
  {Mount(<<"metrics">>, Dir("metrics", <<>>)), Mount(<<"tmp">>, Dir("tmp", <<>>))}
    \cup {Mount(<<v>>, LogDir(v)) : v \in HostVolumes(t)}
    \cup AddVolumeMounts([n \in t.secrets |-> SecretBasePath(n)])
    \cup AddVolumeMounts([n \in {ConfigVolumeName(x) : x \in t.configMaps} |-> ConfigMapBasePath(n)])
    \cup (IF t.token THEN {Mount(<<"sa", "-", "token">>, Dir("serviceaccount", <<>>))} ELSE {})
    \cup {Mount(v.name, Dir("trustedCA", <<>>)) : v \in trustedCABundle(t)}
    \cup {Mount(<<"datadir">>, DataDir)}

\* The directories of the pod and the volume that each one shows.
Mounted(t) ==
  LET volumes == NewPodSpec(t)
  IN  UNION {{[dir |-> m.dir, volume |-> v] : v \in {x \in volumes : x.name = m.volume}} : m \in NewCollectorContainer(t)}
=============================================================================
