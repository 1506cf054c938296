---------------------------- MODULE SharedResources ----------------------------
(***************************************************************************)
(* Objects that several forwarders and the log file metric exporter share:  *)
(* the SecurityContextConstraints, the token Secret of a ServiceAccount,    *)
(* roles and bindings (internal/auth, internal/reconcile), and the          *)
(* exporter's own objects and status (internal/controller/                  *)
(* logfilemetricsexporter, internal/metrics/logfilemetricexporter).         *)
(*                                                                          *)
(* There are two controllers in the process.  Each works on one object at a *)
(* time, both on the same cluster.  A step is one call to the API server.   *)
(* All forwarders are in the namespace of the exporter, are valid and       *)
(* permitted.  Reads are of the current objects, except that the exporter's *)
(* instance and the RoleBindings come from caches that may lag behind.      *)
(***************************************************************************)
EXTENDS Naturals, Sequences, FiniteSets

CONSTANTS Forwarders,    \* names, as sequences of words
          Accounts,      \* names of ServiceAccounts of forwarders
          Exporter,      \* the name of the exporter's objects and of its ServiceAccount
          Scenarios,     \* what there is at the start: [sa, token, upgraded, exporter, creations, faults]
          MaxUid,        \* bound on the creation of forwarders
          MaxFaults      \* edits by users and failing calls

\* Names are sequences of words.  A forwarder that had the exporter's name would
\* share its bindings, which no validation rules out; there is none here.
ASSUME NamesAssumption ==
  /\ Exporter \notin Forwarders
  /\ \A n \in Forwarders \cup Accounts \cup {Exporter} : n \in Seq({n[k] : k \in DOMAIN n})
ASSUME ScenariosAssumption ==
  /\ MaxUid \in Nat
  /\ \A c \in Scenarios :
       /\ c.creations \in 0..MaxUid
       /\ \A f \in DOMAIN c.sa : f \in Forwarders /\ c.sa[f] \in Accounts

VARIABLES clf,           \* forwarders: [uid, sa, token, deleting] by name, if there
          lfme, cached,  \* the exporter's instance, if there, and the cache of it
          scc,           \* the SecurityContextConstraints, if there
          tokens,        \* owner of the token Secret, by ServiceAccount
          roles,         \* owner of a Role, by name
          bindings,      \* [role, sa, owner] of a RoleBinding, by name
          bound,         \* the cache of the RoleBindings
          crbs,          \* [role, sa] of a ClusterRoleBinding, by name
          workloads,     \* [owner, sa, token] of a collector, by forwarder
          exported,      \* [owner, spec] of the exporter's objects, by kind
          work,          \* what each controller is doing
          uids, faults

access == <<scc, tokens, roles, bindings, bound, crbs>>
vars == <<clf, lfme, cached, scc, tokens, roles, bindings, bound, crbs, workloads, exported, work, uids, faults>>

Controllers == {"clf", "lfme"}
The(part) == CHOOSE x \in part : TRUE
Put(f, n, c) == [x \in DOMAIN f \cup {n} |-> IF x = n THEN c ELSE f[x]]
Drop(f, n) == [x \in DOMAIN f \ {n} |-> f[x]]

-----------------------------------------------------------------------------
(* Names and desired objects *)

oldRoleName(sa) == sa \o <<"-", "scc">>
SCCRoleName(name, sa) == name \o <<"-">> \o sa \o <<"-", "scc">>
NewServiceAccountSCCRoleBinding(name, sa, owner) ==
  [name |-> name \o <<"-", "scc">>, object |-> [role |-> SCCRoleName(name, sa), sa |-> sa, owner |-> owner]]
NewMetaDataReaderClusterRoleBinding(sa) ==
  [name |-> <<"metadata-reader", "-">> \o sa, object |-> [role |-> "metadata-reader", sa |-> sa]]
NewMetricsAuthClusterRoleBinding(name, sa) ==
  [name |-> <<"cluster-logging", "-">> \o name \o <<"-", "metrics-auth">>,
   object |-> [role |-> "system:auth-delegator", sa |-> sa]]

\* Constraints are seen as two parts: fields that AreSame looks at and others.
NewSCC == [compared |-> "desired", other |-> "desired"]
AreSame(current) == current.compared = "desired"

\* The exporter's objects: its ServiceAccount, the service and the three monitors
\* (full, minimal and telemetry) are the same for every instance.
ExporterKinds == {"ServiceAccount", "Service", "ServiceMonitor", "NetworkPolicy", "DaemonSet"}
NewServiceAccount(i) == [owner |-> i.uid, spec |-> {Exporter}]
NewService(i) == [owner |-> i.uid, spec |-> {"metrics"}]
newServiceMonitor(i) == [owner |-> i.uid, spec |-> {"full", "minimal", "telemetry"}]
NewNetworkPolicy(i) == [owner |-> i.uid, spec |-> i.policy]
NewDaemonSet(i) == [owner |-> i.uid, spec |-> {i.pod}]
NewExporterObject(k, i) ==
  CASE k = "ServiceAccount" -> NewServiceAccount(i)
    [] k = "Service" -> NewService(i)
    [] k = "ServiceMonitor" -> newServiceMonitor(i)
    [] k = "NetworkPolicy" -> NewNetworkPolicy(i)
    [] k = "DaemonSet" -> NewDaemonSet(i)
NewExporterObjects(i) ==
  [k \in {x \in ExporterKinds : x = "NetworkPolicy" => i.policy # {}} |-> NewExporterObject(k, i)]

-----------------------------------------------------------------------------
(* The steps of a reconcile *)

Idle == [pc |-> "idle", name |-> <<>>, sa |-> <<>>, uid |-> 0, token |-> FALSE, tokenOf |-> 0, seen |-> {},
         instance |-> {}, error |-> FALSE]

To(r, pc) == work' = [work EXCEPT ![r].pc = pc]
At(r, pc) == work[r].pc = pc

\* The exporter's controller reports an error in the status of the instance.
Failed(r) ==
  IF r = "clf" THEN work' = [work EXCEPT ![r] = Idle]
  ELSE work' = [work EXCEPT ![r].pc = "status", ![r].error = TRUE]

Begin(r, name, sa, uid, token, instance) ==
  work' = [work EXCEPT ![r] = [Idle EXCEPT !.pc = "sccRead", !.name = name, !.sa = sa, !.uid = uid, !.token = token,
                                           !.instance = instance]]

FetchClusterLogForwarder ==
  /\ At("clf", "idle")
  /\ \E f \in Forwarders : \E o \in clf[f] :
       IF o.deleting THEN work' = [work EXCEPT !["clf"] = [Idle EXCEPT !.pc = "cleanup", !.name = f]]
       ELSE Begin("clf", f, o.sa, o.uid, o.token, {})
  /\ UNCHANGED <<clf, lfme, cached, access, workloads, exported, uids, faults>>

cleanupClusterScopedResources ==
  /\ At("clf", "cleanup")
  /\ crbs' = Drop(crbs, NewMetricsAuthClusterRoleBinding(work["clf"].name, <<>>).name)
  /\ work' = [work EXCEPT !["clf"] = Idle]
  /\ UNCHANGED <<clf, lfme, cached, scc, tokens, roles, bindings, bound, workloads, exported, uids, faults>>

\* Faulty variant: an instance that is ready is done with.
FetchUntilReady ==
  /\ At("lfme", "idle")
  /\ \E i \in cached :
       IF i.valid THEN i.ready # "True" /\ Begin("lfme", Exporter, Exporter, i.uid, TRUE, {i})
       ELSE work' = [work EXCEPT !["lfme"] = [Idle EXCEPT !.pc = "status", !.error = TRUE, !.instance = {i}]]
  /\ UNCHANGED <<clf, lfme, cached, access, workloads, exported, uids, faults>>

\* An instance of another name or namespace is refused.
FetchLogFileMetricExporter ==
  /\ At("lfme", "idle")
  /\ \E i \in cached :
       IF i.valid THEN Begin("lfme", Exporter, Exporter, i.uid, TRUE, {i})
       ELSE work' = [work EXCEPT !["lfme"] = [Idle EXCEPT !.pc = "status", !.error = TRUE, !.instance = {i}]]
  /\ UNCHANGED <<clf, lfme, cached, access, workloads, exported, uids, faults>>

SecurityContextConstraintsRead(r) ==
  /\ At(r, "sccRead")
  /\ work' = IF \E c \in scc : AreSame(c) THEN [work EXCEPT ![r].pc = "account"]
             ELSE [work EXCEPT ![r].pc = "sccWrite", ![r].seen = scc]
  /\ UNCHANGED <<clf, lfme, cached, access, workloads, exported, uids, faults>>

\* Created if it was not there, which fails if it is by now; updated if nobody
\* else has, or read again.
SecurityContextConstraints(r) ==
  /\ At(r, "sccWrite")
  /\ IF scc = work[r].seen THEN scc' = {NewSCC} /\ To(r, "account")
     ELSE /\ UNCHANGED scc
          /\ IF work[r].seen = {} THEN Failed(r) ELSE To(r, "sccRead")
  /\ UNCHANGED <<clf, lfme, cached, tokens, roles, bindings, bound, crbs, workloads, exported, uids, faults>>

\* Only the exporter's own ServiceAccount is the operator's.
ReconcileServiceAccount(r) ==
  /\ At(r, "account")
  /\ exported' = IF r = "lfme" THEN Put(exported, "ServiceAccount", NewServiceAccount(The(work[r].instance)))
                 ELSE exported
  /\ To(r, "token")
  /\ UNCHANGED <<clf, lfme, cached, access, workloads, uids, faults>>

\* An existing Secret is left as it is, its owner included.
ReconcileServiceAccountTokenSecret(r) ==
  LET sa == work[r].sa
  IN  /\ At(r, "token")
      /\ tokens' = IF work[r].token /\ sa \notin DOMAIN tokens THEN Put(tokens, sa, work[r].uid) ELSE tokens
      /\ work' = [work EXCEPT ![r].pc = "metadata", ![r].tokenOf = IF work[r].token THEN tokens'[sa] ELSE 0]
      /\ UNCHANGED <<clf, lfme, cached, scc, roles, bindings, bound, crbs, workloads, exported, uids, faults>>

\* Faulty variant: the subjects of an existing binding are kept.
CreateClusterRoleBinding(desired) ==
  IF desired.name \in DOMAIN crbs THEN UNCHANGED crbs ELSE crbs' = Put(crbs, desired.name, desired.object)

\* A role that differs takes a deletion before the creation.
ClusterRoleBinding(desired) ==
  IF desired.name \in DOMAIN crbs /\ crbs[desired.name].role # desired.object.role
  THEN crbs' = Drop(crbs, desired.name)
  ELSE crbs' = Put(crbs, desired.name, desired.object)

ReconcileMetaDataReader(r) ==
  LET desired == NewMetaDataReaderClusterRoleBinding(work[r].sa)
  IN  /\ At(r, "metadata")
      /\ ClusterRoleBinding(desired)
      /\ To(r, IF desired.name \in DOMAIN crbs' THEN "role" ELSE "metadata")
      /\ UNCHANGED <<clf, lfme, cached, scc, tokens, roles, bindings, bound, workloads, exported, uids, faults>>

Role(r) ==
  /\ At(r, "role")
  /\ roles' = Put(roles, SCCRoleName(work[r].name, work[r].sa), work[r].uid)
  /\ To(r, "binding")
  /\ UNCHANGED <<clf, lfme, cached, scc, tokens, bindings, bound, crbs, workloads, exported, uids, faults>>

DesiredBinding(r) == NewServiceAccountSCCRoleBinding(work[r].name, work[r].sa, work[r].uid)

\* By what the cache holds: deleted by name, to be created again, if its role
\* differs; otherwise created or updated, which fails if the cache lags behind.
RoleBinding(r) ==
  LET desired == DesiredBinding(r)
      n == desired.name
      differs == n \in DOMAIN bound /\ bound[n].role # desired.object.role
      current == IF n \in DOMAIN bound THEN n \in DOMAIN bindings /\ bindings[n] = bound[n]
                                       ELSE n \notin DOMAIN bindings
      works == IF differs THEN n \in DOMAIN bindings ELSE current
  IN  /\ At(r, "binding")
      /\ \/ works /\ differs /\ bindings' = Drop(bindings, n) /\ To(r, "recreate")
         \/ works /\ ~differs /\ bindings' = Put(bindings, n, desired.object) /\ To(r, "list")
         \/ ~works /\ UNCHANGED bindings /\ Failed(r)
      /\ UNCHANGED <<clf, lfme, cached, scc, tokens, roles, bound, crbs, workloads, exported, uids, faults>>

RecreateRoleBinding(r) ==
  LET desired == DesiredBinding(r)
      free == desired.name \notin DOMAIN bindings
  IN  /\ At(r, "recreate")
      /\ \/ free /\ bindings' = Put(bindings, desired.name, desired.object) /\ To(r, "list")
         \/ ~free /\ UNCHANGED bindings /\ Failed(r)
      /\ UNCHANGED <<clf, lfme, cached, scc, tokens, roles, bound, crbs, workloads, exported, uids, faults>>

\* Faulty variant: the role of the previous naming scheme goes in any case.
NoReferences(r) ==
  /\ At(r, "list")
  /\ work' = [work EXCEPT ![r].pc = "oldRole", ![r].seen = bound]
  /\ UNCHANGED <<clf, lfme, cached, access, workloads, exported, uids, faults>>

\* What is listed is the cache.
ListRoleBindings(r) ==
  LET hasReferences == \E n \in DOMAIN bound : bound[n].role = oldRoleName(work[r].sa)
  IN  /\ At(r, "list")
      /\ \/ hasReferences /\ To(r, "metrics")
         \/ ~hasReferences /\ work' = [work EXCEPT ![r].pc = "oldRole", ![r].seen = bound]
      /\ UNCHANGED <<clf, lfme, cached, access, workloads, exported, uids, faults>>

DeleteRole(r) ==
  /\ At(r, "oldRole")
  /\ roles' = Drop(roles, oldRoleName(work[r].sa))
  /\ work' = [work EXCEPT ![r].pc = "metrics", ![r].seen = {}]
  /\ UNCHANGED <<clf, lfme, cached, scc, tokens, bindings, bound, crbs, workloads, exported, uids, faults>>

ReconcileMetricsAuthRBAC(r) ==
  LET desired == NewMetricsAuthClusterRoleBinding(work[r].name, work[r].sa)
  IN  /\ At(r, "metrics")
      /\ ClusterRoleBinding(desired)
      /\ To(r, IF desired.name \in DOMAIN crbs' THEN "objects" ELSE "metrics")
      /\ UNCHANGED <<clf, lfme, cached, scc, tokens, roles, bindings, bound, workloads, exported, uids, faults>>

\* The rest of a forwarder's reconcile.  The pods start over if the token does.
ReconcileWorkload ==
  /\ At("clf", "objects")
  /\ workloads' = [workloads EXCEPT ![work["clf"].name] =
                     {[owner |-> work["clf"].uid, sa |-> work["clf"].sa, token |-> work["clf"].tokenOf]}]
  /\ work' = [work EXCEPT !["clf"] = Idle]
  /\ UNCHANGED <<clf, lfme, cached, access, exported, uids, faults>>

-----------------------------------------------------------------------------
(* The exporter's own objects and status *)

Apply(k, i) == exported' = Put(exported, k, NewExporterObject(k, i))

ExporterStep(k, from, to) ==
  /\ At("lfme", from)
  /\ Apply(k, The(work["lfme"].instance))
  /\ To("lfme", to)
  /\ UNCHANGED <<clf, lfme, cached, access, workloads, uids, faults>>

ReconcileService == ExporterStep("Service", "objects", "policy")

ReconcileNetworkPolicy ==
  /\ At("lfme", "policy")
  /\ LET i == The(work["lfme"].instance)
     IN  IF i.policy # {} THEN Apply("NetworkPolicy", i) ELSE exported' = Drop(exported, "NetworkPolicy")
  /\ To("lfme", "monitors")
  /\ UNCHANGED <<clf, lfme, cached, access, workloads, uids, faults>>

ReconcileServiceMonitors == ExporterStep("ServiceMonitor", "monitors", "daemonset")
ReconcileDaemonset == ExporterStep("DaemonSet", "daemonset", "status")

\* Faulty variant: without the version of what was read.
ForceStatus ==
  /\ At("lfme", "status")
  /\ lfme' = {[i EXCEPT !.ready = IF work["lfme"].error THEN "False" ELSE "True"] : i \in lfme}
  /\ work' = [work EXCEPT !["lfme"] = Idle]
  /\ UNCHANGED <<clf, cached, access, workloads, exported, uids, faults>>

\* The update fails if the instance is not the one that was read.  A conflict
\* asks for a retry that Reconcile passes on only for a refused instance.
updateStatus ==
  /\ At("lfme", "status")
  /\ lfme' = IF lfme = work["lfme"].instance
             THEN {[i EXCEPT !.ready = IF work["lfme"].error THEN "False" ELSE "True"] : i \in lfme}
             ELSE lfme
  /\ work' = [work EXCEPT !["lfme"] = Idle]
  /\ UNCHANGED <<clf, cached, access, workloads, exported, uids, faults>>

-----------------------------------------------------------------------------
(* Users, caches and the garbage collector *)

Fault == faults < MaxFaults /\ faults' = faults + 1

CreateForwarder ==
  /\ uids < MaxUid /\ uids' = uids + 1
  /\ \E f \in Forwarders : \E sa \in Accounts :
       clf[f] = {} /\ clf' = [clf EXCEPT ![f] = {[uid |-> uids', sa |-> sa, token |-> TRUE, deleting |-> FALSE]}]
  /\ UNCHANGED <<lfme, cached, access, workloads, exported, work, faults>>

EditForwarder ==
  /\ Fault
  /\ \E f \in Forwarders : \E sa \in Accounts :
       /\ \E o \in clf[f] : o.sa # sa
       /\ clf' = [clf EXCEPT ![f] = {[o EXCEPT !.sa = sa] : o \in clf[f]}]
  /\ UNCHANGED <<lfme, cached, access, workloads, exported, work, uids>>

\* In the foreground, the forwarder stays while its dependents are collected.
DeleteForwarder ==
  /\ Fault
  /\ \E f \in Forwarders :
       /\ clf[f] # {}
       /\ \/ clf' = [clf EXCEPT ![f] = {}]
          \/ clf' = [clf EXCEPT ![f] = {[o EXCEPT !.deleting = TRUE] : o \in clf[f]}]
  /\ UNCHANGED <<lfme, cached, access, workloads, exported, work, uids>>

FinishDeletion ==
  /\ \E f \in Forwarders : (\E o \in clf[f] : o.deleting) /\ clf' = [clf EXCEPT ![f] = {}]
  /\ UNCHANGED <<lfme, cached, access, workloads, exported, work, uids, faults>>

EditExporter ==
  /\ Fault
  /\ \E i \in lfme : \/ lfme' = {[i EXCEPT !.policy = {"AllowIngressMetrics"} \ @, !.version = i.version + 1]}
                    \/ lfme' = {[i EXCEPT !.pod = IF @ = "small" THEN "large" ELSE "small", !.version = i.version + 1]}
  /\ UNCHANGED <<clf, cached, access, workloads, exported, work, uids>>

ReplaceExporter ==
  /\ Fault
  /\ lfme # {} /\ uids' = uids + 1
  /\ \E valid \in BOOLEAN :
       lfme' = {[uid |-> uids', policy |-> {}, pod |-> "small", version |-> 0, valid |-> valid, ready |-> "Unknown"]}
  /\ UNCHANGED <<clf, cached, access, workloads, exported, work>>

\* Somebody changes the constraints.
EditSCC ==
  /\ Fault
  /\ \E c \in scc : scc' = {[c EXCEPT !.compared = "edited"]} \/ scc' = {[c EXCEPT !.other = "edited"]}
  /\ UNCHANGED <<clf, lfme, cached, tokens, roles, bindings, bound, crbs, workloads, exported, work, uids>>

\* A call fails.
Fail ==
  /\ Fault
  /\ \E r \in Controllers : work[r].pc \notin {"idle", "status"} /\ Failed(r)
  /\ UNCHANGED <<clf, lfme, cached, access, workloads, exported, uids>>

UpdateBindings ==
  /\ bound # bindings /\ bound' = bindings
  /\ UNCHANGED <<clf, lfme, cached, scc, tokens, roles, bindings, crbs, workloads, exported, work, uids, faults>>

UpdateCache ==
  /\ cached # lfme /\ cached' = lfme
  /\ UNCHANGED <<clf, lfme, access, workloads, exported, work, uids, faults>>

Live == {o.uid : o \in {x \in UNION {clf[f] : f \in Forwarders} : ~x.deleting}} \cup {i.uid : i \in lfme}

GarbageCollect ==
  /\ \/ \E n \in DOMAIN tokens : tokens[n] \notin Live /\ tokens' = Drop(tokens, n) /\ UNCHANGED <<roles, bindings, workloads, exported>>
     \/ \E n \in DOMAIN roles : roles[n] \notin Live /\ roles' = Drop(roles, n) /\ UNCHANGED <<tokens, bindings, workloads, exported>>
     \/ \E n \in DOMAIN bindings : bindings[n].owner \notin Live /\ bindings' = Drop(bindings, n) /\ UNCHANGED <<tokens, roles, workloads, exported>>
     \/ \E f \in Forwarders : (\E w \in workloads[f] : w.owner \notin Live) /\ workloads' = [workloads EXCEPT ![f] = {}]
          /\ UNCHANGED <<tokens, roles, bindings, exported>>
     \/ \E k \in DOMAIN exported : exported[k].owner \notin Live /\ exported' = Drop(exported, k) /\ UNCHANGED <<tokens, roles, bindings, workloads>>
  /\ UNCHANGED <<clf, lfme, cached, scc, bound, crbs, work, uids, faults>>

-----------------------------------------------------------------------------
Common(r) ==
  \/ SecurityContextConstraintsRead(r) \/ SecurityContextConstraints(r) \/ ReconcileServiceAccount(r)
  \/ ReconcileServiceAccountTokenSecret(r)
  \/ ReconcileMetaDataReader(r) \/ Role(r) \/ RoleBinding(r) \/ RecreateRoleBinding(r) \/ ListRoleBindings(r) \/ DeleteRole(r)
  \/ ReconcileMetricsAuthRBAC(r)

ReconcileForwarder ==
  FetchClusterLogForwarder \/ cleanupClusterScopedResources \/ Common("clf") \/ ReconcileWorkload
ReconcileExporter ==
  \/ FetchLogFileMetricExporter \/ Common("lfme") \/ ReconcileService \/ ReconcileNetworkPolicy
  \/ ReconcileServiceMonitors \/ ReconcileDaemonset \/ updateStatus

Users == CreateForwarder \/ EditForwarder \/ DeleteForwarder \/ EditExporter \/ ReplaceExporter \/ EditSCC

Next == ReconcileForwarder \/ ReconcileExporter \/ Users \/ Fail \/ FinishDeletion \/ UpdateCache \/ UpdateBindings \/ GarbageCollect

\* The start of the process: nothing yet, or objects of the previous release, whose
\* role was named after the ServiceAccount only and whose metrics binding is of
\* another role.
Init ==
  \E c \in Scenarios :
    LET there == DOMAIN c.sa
        id == CHOOSE id \in [there -> 1..Cardinality(there)] : \A f, g \in there : id[f] = id[g] => f = g
        old == IF c.upgraded THEN there ELSE {}
        Object(f) == [uid |-> id[f], sa |-> c.sa[f], token |-> c.token, deleting |-> FALSE]
    IN  /\ clf = [f \in Forwarders |-> IF f \in there THEN {Object(f)} ELSE {}]
        /\ scc = IF c.upgraded THEN {[NewSCC EXCEPT !.compared = "edited"]} ELSE {}
        /\ roles = [n \in {oldRoleName(c.sa[f]) : f \in old} |-> id[CHOOSE f \in old : oldRoleName(c.sa[f]) = n]]
        /\ bindings = [n \in {f \o <<"-", "scc">> : f \in old} |->
                         LET f == CHOOSE x \in old : x \o <<"-", "scc">> = n
                         IN  [role |-> oldRoleName(c.sa[f]), sa |-> c.sa[f], owner |-> id[f]]]
        /\ crbs = [n \in {NewMetricsAuthClusterRoleBinding(f, <<>>).name : f \in old} |-> [role |-> "old", sa |-> <<>>]]
        /\ uids = MaxUid - c.creations
        /\ lfme = {[uid |-> uids, policy |-> {}, pod |-> "small", version |-> 0, valid |-> TRUE, ready |-> "Unknown"] : x \in 1..c.exporter}
        /\ cached = {} /\ bound = bindings /\ tokens = <<>>
        /\ workloads = [f \in Forwarders |-> {}] /\ exported = <<>>
        /\ work = [r \in Controllers |-> Idle] /\ faults = MaxFaults - c.faults

\* A forwarder is reconciled again and again (periodic requeue, resync every three
\* minutes), and so is the exporter (resync).  The work queue passes over no
\* forwarder for ever.
Fairness ==
  /\ \A f \in Forwarders : SF_vars(FetchClusterLogForwarder /\ work'["clf"].name = f)
  /\ WF_vars(ReconcileForwarder) /\ WF_vars(ReconcileExporter)
  /\ WF_vars(UpdateCache) /\ WF_vars(UpdateBindings) /\ WF_vars(GarbageCollect) /\ WF_vars(FinishDeletion)

Spec == Init /\ [][Next]_vars /\ Fairness

-----------------------------------------------------------------------------
(* Properties *)

Forwarding(f) == {o \in clf[f] : ~o.deleting}

BindingOf(f) == f \o <<"-", "scc">>

\* The access that a forwarder's collector needs in order to run and to have its
\* metrics read: its ServiceAccount may use the constraints, read metadata and
\* review tokens.
MayUseConstraints(f, sa) ==
  LET n == BindingOf(f)
  IN  n \in DOMAIN bindings /\ bindings[n].sa = sa /\ bindings[n].role \in DOMAIN roles
MayReadMetadata(sa) ==
  LET d == NewMetaDataReaderClusterRoleBinding(sa) IN d.name \in DOMAIN crbs /\ crbs[d.name] = d.object
MayReviewTokens(f, sa) ==
  LET d == NewMetricsAuthClusterRoleBinding(f, sa) IN d.name \in DOMAIN crbs /\ crbs[d.name] = d.object

Served(f) ==
  \A o \in Forwarding(f) :
    /\ \E c \in scc : c.compared = "desired"
    /\ MayUseConstraints(f, o.sa) /\ MayReadMetadata(o.sa) /\ MayReviewTokens(f, o.sa)
    /\ \E w \in workloads[f] :
         /\ w.owner = o.uid /\ w.sa = o.sa
         /\ o.token => o.sa \in DOMAIN tokens /\ w.token = tokens[o.sa]

\* However users edit, delete and recreate forwarders that share a ServiceAccount
\* or whose role names coincide, whatever the garbage collector takes of the one
\* that was deleted, and whatever call of a deletion and creation fails, every
\* forwarder in the end has its access, and its collector runs with the token that
\* exists (ReconcileRBAC, ReconcileServiceAccountTokenSecret).
AccessSettles == <>[](\A f \in Forwarders : Served(f))

\* Whether the list of bindings that a reconcile decides by has f's as it is now.
Listed(f, list) == BindingOf(f) \in DOMAIN list /\ list[BindingOf(f)] = bindings[BindingOf(f)]

\* The reconcile of one forwarder takes no access from another, with one exception:
\* the role of the previous naming scheme, if the other forwarder's binding to it
\* was not, as it is now, in the list of the bindings that the reconcile took, which
\* comes from the cache (auth/rbac.go:31-55).  Nothing else that it deletes or
\* writes is in use by others, although forwarders share ServiceAccounts and role
\* names coincide.
OthersUndisturbed ==
  [][ReconcileForwarder =>
       \A f \in Forwarders : \A o \in Forwarding(f) :
         work["clf"].name # f /\ work'["clf"].name # f =>
           /\ MayUseConstraints(f, o.sa) =>
                MayUseConstraints(f, o.sa)' \/ (At("clf", "oldRole") /\ ~Listed(f, work["clf"].seen))
           /\ MayReviewTokens(f, o.sa) => MayReviewTokens(f, o.sa)']_vars

\* "Only delete the old role if no RoleBindings reference it" (auth/rbac.go:51).
UnreferencedDeleted ==
  [][\A r \in Controllers : DeleteRole(r) =>
       \A n \in DOMAIN bindings : bindings[n].role # oldRoleName(work[r].sa)]_vars

\* Ready turns true only at a moment when the exporter's objects are those that the
\* current instance asks for, though the instance was read from a cache and may have
\* been edited or replaced since (updateStatus, the version check of the API server).
ReadyIsCurrent ==
  [][\A i \in lfme : \A j \in lfme' :
       i.ready # "True" /\ j.ready = "True" => exported = NewExporterObjects(j)]_vars

\* What the exporter's reconcile has applied when it is at a step.
Applied(pc) ==
  (IF pc \in {"idle", "sccRead", "sccWrite", "account"} THEN {} ELSE {"ServiceAccount"})
  \cup (IF pc \in {"policy", "monitors", "daemonset", "status"} THEN {"Service"} ELSE {})
  \cup (IF pc \in {"monitors", "daemonset", "status"} THEN {"NetworkPolicy"} ELSE {})
  \cup (IF pc \in {"daemonset", "status"} THEN {"ServiceMonitor"} ELSE {})
  \cup (IF pc = "status" THEN {"DaemonSet"} ELSE {})

\* What the exporter's reconcile has applied of the instance it read stays there
\* while that instance is not replaced: the garbage collector takes it only then,
\* and an instance that was replaced never comes back, in the cache either.
AppliedStays ==
  LET w == work["lfme"] IN
  /\ \A i \in cached \cup w.instance : i.uid <= uids /\ \A j \in lfme : i.uid <= j.uid
  /\ \A i \in lfme : i.uid <= uids
  /\ \A i \in w.instance : \A j \in lfme : i.uid = j.uid /\ ~w.error =>
       \A k \in Applied(w.pc) :
         IF k = "NetworkPolicy" /\ i.policy = {} THEN k \notin DOMAIN exported
         ELSE k \in DOMAIN exported /\ exported[k] = NewExporterObject(k, i)

\* Between the listing of the bindings and the deletion of the role of the previous
\* naming scheme: none that was listed refers to it.
RoleUnreferenced ==
  LET w == work["clf"]
  IN  w.pc = "oldRole" => \A n \in DOMAIN w.seen : w.seen[n].role # oldRoleName(w.sa)

\* The exporter's objects and its status end up as the instance asks, though the
\* retry of a conflicting status update is dropped (controller:93) and a policy may
\* come and go.
ExporterSettles ==
  <>[](\A i \in lfme : IF i.valid THEN exported = NewExporterObjects(i) /\ i.ready = "True"
                       ELSE i.ready = "False")
=============================================================================
