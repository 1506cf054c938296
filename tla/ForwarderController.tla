------------------------- MODULE ForwarderController -------------------------
(***************************************************************************)
(* The reconcile loop of one ClusterLogForwarder                            *)
(* (internal/controller/observability/clusterlogforwarder_controller.go     *)
(* and collector.go), together with what it runs against: the API server's  *)
(* objects, the informer caches that lag behind them, the work queue, the   *)
(* garbage collector, and the users and failures that disturb all of it.    *)
(*                                                                          *)
(* A reconcile is split at its API calls: between two of them anything else *)
(* may happen.  The controller has one worker and the queue holds a key at  *)
(* most once, so one forwarder has at most one reconcile in flight.         *)
(*                                                                          *)
(* A write of the forwarder's spec is numbered: revision r is writes[r].    *)
(* Objects the controller derives from the forwarder remember the revision  *)
(* they were generated from and the uid of their owner; a uid is the        *)
(* revision that created the forwarder.                                     *)
(***************************************************************************)
EXTENDS Naturals, Sequences

CONSTANTS
  Specs,            \* the forwarder specs users write
  Grants,           \* the sets of log types administrators grant
  MaxDisturbances   \* bound on user actions, API failures and restarts

LogTypes == {"application", "infrastructure", "audit"}

\* Inputs a pipeline may refer to.  infraApp is an application input that
\* includes an infrastructure namespace; http and syslog are receivers.
Receivers  == {"http", "syslog"}
InputKinds == LogTypes \cup {"infraApp"} \cup Receivers

ForwarderSpec ==
  [managed : BOOLEAN, annotated : BOOLEAN, inputs : SUBSET InputKinds,
   wellFormed : BOOLEAN, usesSecret : BOOLEAN]

ASSUME SpecsAssumption == Specs \subseteq ForwarderSpec
ASSUME GrantsAssumption == Grants \subseteq SUBSET LogTypes
ASSUME BoundAssumption == MaxDisturbances \in Nat

VARIABLES
  \* objects on the API server
  clf,        \* the forwarder: revision, uid, deletionTimestamp set?, status
  workload,   \* the collector workload of each kind
  config,     \* the ConfigMap holding the collector's configuration
  crb,        \* does the metrics-auth ClusterRoleBinding exist?
  granted,    \* the log types the ServiceAccount may collect
  sa,         \* does the operator's cache hold the ServiceAccount?
  secret,     \* does it hold the Secret that the outputs refer to?
  \* the operator's informer caches
  cclf, cworkload,
  \* the controller
  queued,     \* is the forwarder's key in the work queue?
  timer,      \* is a periodic requeue pending?
  pc,         \* the next step of the reconcile in flight
  cxt,        \* its ForwarderContext
  \* history and bound
  writes,     \* the specs written so far
  approved,   \* the revisions that passed while permitted and acceptable
  budget

apiVars    == <<clf, workload, config, crb>>
envVars    == <<granted, sa, secret>>
cacheVars  == <<cclf, cworkload>>
queueVars  == <<queued, timer>>
vars == <<clf, workload, config, crb, granted, sa, secret, cclf, cworkload,
          queued, timer, pc, cxt, writes, approved, budget>>

-----------------------------------------------------------------------------
(* Objects *)

Kinds == {"DaemonSet", "Deployment"}
Other(k) == IF k = "DaemonSet" THEN "Deployment" ELSE "DaemonSet"

Object == [rev : Nat, uid : Nat]
Absent == [rev |-> 0, uid |-> 0]
Exists(o) == o.rev # 0

Truth == {"None", "Unknown", "False", "True"}
Reasons == {"None", "ManagementStateUnmanaged", "InitializationFailed",
            "ValidationFailure", "FailureToRemoveStaleWorkload",
            "DeploymentError", "ReconciliationComplete"}
Status == [ready : Truth, reason : Reasons, authorized : Truth, valid : Truth]
NoStatus == [ready |-> "None", reason |-> "None",
             authorized |-> "None", valid |-> "None"]

Forwarder == [rev : Nat, uid : Nat, deleting : BOOLEAN, status : Status]
NoForwarder == [rev |-> 0, uid |-> 0, deleting |-> FALSE, status |-> NoStatus]

\* What Reconcile returns: nothing more to do, an error (the key goes back to
\* the queue) or periodicRequeue.
Results == {"none", "error", "periodic"}
Context == [rev : Nat, uid : Nat, status : Status, result : Results]
NoContext == [rev |-> 0, uid |-> 0, status |-> NoStatus, result |-> "none"]

Steps == {"idle", "cleanup", "initialize", "validate", "undeploy",
          "removeStale", "access", "config", "workload", "exposure", "status"}

TypeOK ==
  /\ clf \in Forwarder
  /\ workload \in [Kinds -> Object]
  /\ config \in Object
  /\ crb \in BOOLEAN
  /\ granted \in Grants
  /\ sa \in BOOLEAN
  /\ secret \in BOOLEAN
  /\ cclf \in Forwarder
  /\ cworkload \in [Kinds -> Object]
  /\ queued \in BOOLEAN
  /\ timer \in BOOLEAN
  /\ pc \in Steps
  /\ cxt \in Context
  /\ writes \in Seq(Specs)
  /\ approved \in SUBSET Nat
  /\ budget \in 0..MaxDisturbances

Init ==
  /\ clf = NoForwarder
  /\ workload = [k \in Kinds |-> Absent]
  /\ config = Absent
  /\ crb = FALSE
  /\ granted \in Grants
  /\ sa = TRUE
  /\ secret = TRUE
  /\ cclf = NoForwarder
  /\ cworkload = [k \in Kinds |-> Absent]
  /\ queued = FALSE
  /\ timer = FALSE
  /\ pc = "idle"
  /\ cxt = NoContext
  /\ writes = <<>>
  /\ approved = {}
  /\ budget = MaxDisturbances

-----------------------------------------------------------------------------
(* What the controller decides from a spec *)

\* The input types of a spec; both receivers are of type receiver.
InputTypes(s) ==
  {IF i \in Receivers THEN "receiver"
   ELSE IF i = "infraApp" THEN "application" ELSE i : i \in s.inputs}

\* Only a forwarder whose sole input type is receiver is deployed as a
\* Deployment, and only when annotated so.
DeployAsDeployment(s) == s.annotated /\ InputTypes(s) = {"receiver"}

DesiredKind(s) == IF DeployAsDeployment(s) THEN "Deployment" ELSE "DaemonSet"

\* The log types a ServiceAccount needs permission for to serve an input.
LogTypesOf(i) ==
  CASE i \in LogTypes  -> {i}
    [] i = "infraApp"  -> {"application", "infrastructure"}
    [] i = "syslog"    -> {"infrastructure"}
    [] OTHER           -> {}

RequiredLogTypes(s) == UNION {LogTypesOf(i) : i \in s.inputs}

\* The verdict of ValidatePermissions when every API call succeeds.
Permitted(s) ==
  /\ sa
  /\ IF RequiredLogTypes(s) = {} THEN s.inputs \cap Receivers # {}
                                 ELSE RequiredLogTypes(s) \subseteq granted

\* The validators other than ValidatePermissions.
SpecAccepted(s) == s.wellFormed /\ (s.usesSecret => secret)

\* Faulty variant: the verdict on permissions does not count.
IsValidSpecIgnoringPermissions(authorized, accepted) == accepted

\* The spec is valid when it is authorized and all its parts are accepted.
IsValidSpec(authorized, accepted) == authorized /\ accepted

-----------------------------------------------------------------------------
(* Users and the rest of the cluster.  Every action of this section uses up  *)
(* one disturbance.                                                          *)

Disturb == budget > 0 /\ budget' = budget - 1

NextRevision == Len(writes) + 1

CreateForwarder(s) ==
  /\ Disturb
  /\ ~Exists(clf)
  /\ clf' = [rev |-> NextRevision, uid |-> NextRevision,
             deleting |-> FALSE, status |-> NoStatus]
  /\ writes' = Append(writes, s)
  /\ UNCHANGED <<workload, config, crb, envVars, cacheVars, queueVars,
                 pc, cxt, approved>>

EditForwarder(s) ==
  /\ Disturb
  /\ Exists(clf)
  /\ s # writes[clf.rev]
  /\ clf' = [clf EXCEPT !.rev = NextRevision]
  /\ writes' = Append(writes, s)
  /\ UNCHANGED <<workload, config, crb, envVars, cacheVars, queueVars,
                 pc, cxt, approved>>

\* Background deletion removes the object at once: nothing in the operator
\* puts a finalizer on a ClusterLogForwarder.
DeleteInBackground ==
  /\ Disturb
  /\ Exists(clf)
  /\ clf' = NoForwarder
  /\ UNCHANGED <<workload, config, crb, envVars, cacheVars, queueVars,
                 pc, cxt, writes, approved>>

\* Foreground deletion sets the deletionTimestamp first.
DeleteInForeground ==
  /\ Disturb
  /\ Exists(clf)
  /\ ~clf.deleting
  /\ clf' = [clf EXCEPT !.deleting = TRUE]
  /\ UNCHANGED <<workload, config, crb, envVars, cacheVars, queueVars,
                 pc, cxt, writes, approved>>

\* Administrators change roles, the ServiceAccount or the Secret; no change
\* enqueues the forwarder.  Access reviews are answered by the API server, the
\* other two are read from the cache, so that sa and secret change when the
\* cache learns of it.
ChangeGrants(g) ==
  /\ Disturb
  /\ g # granted
  /\ granted' = g
  /\ UNCHANGED <<apiVars, sa, secret, cacheVars, queueVars, pc, cxt, writes,
                 approved>>

ToggleServiceAccount ==
  /\ Disturb
  /\ sa' = ~sa
  /\ UNCHANGED <<apiVars, granted, secret, cacheVars, queueVars, pc, cxt,
                 writes, approved>>

\* A Secret matters only where a spec refers to it.
ToggleSecret ==
  /\ Disturb
  /\ \E s \in Specs : s.usesSecret
  /\ secret' = ~secret
  /\ UNCHANGED <<apiVars, granted, sa, cacheVars, queueVars, pc, cxt,
                 writes, approved>>

\* Somebody other than the operator deletes a collector workload.
DeleteWorkload(k) ==
  /\ Disturb
  /\ Exists(workload[k])
  /\ workload' = [workload EXCEPT ![k] = Absent]
  /\ UNCHANGED <<clf, config, crb, envVars, cacheVars, queueVars,
                 pc, cxt, writes, approved>>

\* Faulty variant: the first list after a restart is served from an older
\* state than the one the caches had reached.
RestartFromOlderList ==
  /\ Disturb
  /\ Exists(clf)
  /\ \E r \in 1..clf.rev : cclf' = [clf EXCEPT !.rev = r]
  /\ cworkload' = workload
  /\ queued' = TRUE
  /\ timer' = FALSE
  /\ pc' = "idle"
  /\ cxt' = NoContext
  /\ UNCHANGED <<apiVars, envVars, writes, approved>>

\* The operator process dies and is started again: queue, timers and the
\* reconcile in flight are lost; the caches are filled by a new list, which
\* enqueues the forwarder and the owner of every workload.  The list is taken
\* to be no older than what the caches held before.
Restart ==
  /\ Disturb
  /\ cclf' = clf
  /\ cworkload' = workload
  /\ queued' = (Exists(clf) \/ \E k \in Kinds : Exists(workload[k]))
  /\ timer' = FALSE
  /\ pc' = "idle"
  /\ cxt' = NoContext
  /\ UNCHANGED <<apiVars, envVars, writes, approved>>

-----------------------------------------------------------------------------
(* Garbage collector (Kubernetes) *)

\* The owner of an object is gone, or is being deleted in the foreground.
Orphaned(o) == Exists(o) /\ (o.uid # clf.uid \/ clf.deleting)

CollectWorkload(k) ==
  /\ Orphaned(workload[k])
  /\ workload' = [workload EXCEPT ![k] = Absent]
  /\ UNCHANGED <<clf, config, crb, envVars, cacheVars, queueVars,
                 pc, cxt, writes, approved, budget>>

CollectConfig ==
  /\ Orphaned(config)
  /\ config' = Absent
  /\ UNCHANGED <<clf, workload, crb, envVars, cacheVars, queueVars,
                 pc, cxt, writes, approved, budget>>

\* The owner references carry no blockOwnerDeletion, so the end of a
\* foreground deletion does not wait for the dependents.
FinishDeletion ==
  /\ clf.deleting
  /\ clf' = NoForwarder
  /\ UNCHANGED <<workload, config, crb, envVars, cacheVars, queueVars,
                 pc, cxt, writes, approved, budget>>

-----------------------------------------------------------------------------
(* Caches and queue.  A cache takes over what the API server holds now; as   *)
(* it may do so at any time, every older value may be seen, and none after a *)
(* newer one.  The change is an event that enqueues the forwarder.           *)

SyncForwarder ==
  /\ cclf # clf
  /\ cclf' = clf
  /\ queued' = TRUE
  /\ UNCHANGED <<apiVars, envVars, cworkload, timer, pc, cxt, writes,
                 approved, budget>>

SyncWorkload(k) ==
  /\ cworkload[k] # workload[k]
  /\ cworkload' = [cworkload EXCEPT ![k] = workload[k]]
  /\ queued' = TRUE
  /\ UNCHANGED <<apiVars, envVars, cclf, timer, pc, cxt, writes,
                 approved, budget>>

\* The informers' resync (SyncPeriod, 3 minutes) replays the cached forwarder.
Resync ==
  /\ Exists(cclf)
  /\ ~queued
  /\ queued' = TRUE
  /\ UNCHANGED <<apiVars, envVars, cacheVars, timer, pc, cxt, writes,
                 approved, budget>>

\* periodicRequeue (5 minutes) after a successful reconcile.
PeriodicRequeue ==
  /\ timer
  /\ timer' = FALSE
  /\ queued' = TRUE
  /\ UNCHANGED <<apiVars, envVars, cacheVars, pc, cxt, writes,
                 approved, budget>>

-----------------------------------------------------------------------------
(* Reconcile *)

\* An API call of this step fails, or does not.
Fails   == Disturb
Succeeds == UNCHANGED budget

Goto(step) == pc' = step

\* Faulty variant: the condition's status and reason are swapped.
FinishSwapped(ready, reason, result) ==
  /\ cxt' = [cxt EXCEPT !.status.ready = reason, !.status.reason = ready,
                        !.result = result]
  /\ Goto("status")

\* The end of a reconcile with this Ready condition and result; updateStatus
\* is deferred and still has to run.
Finish(ready, reason, result) ==
  /\ cxt' = [cxt EXCEPT !.status.ready = ready, !.status.reason = reason,
                        !.result = result]
  /\ Goto("status")

\* FetchClusterLogForwarder reads the cache.
FetchFails ==
  /\ pc = "idle" /\ queued
  /\ Fails
  /\ UNCHANGED <<apiVars, envVars, cacheVars, queueVars, pc, cxt, writes,
                 approved>>

FetchNotFound ==
  /\ pc = "idle" /\ queued
  /\ ~Exists(cclf)
  /\ queued' = FALSE
  /\ UNCHANGED <<apiVars, envVars, cacheVars, timer, pc, cxt, writes,
                 approved, budget>>

\* Faulty variant: Ready keeps the value it had before the reconcile.
NewContextKeepsReady(ready, reason) ==
  [rev |-> cclf.rev, uid |-> cclf.uid, result |-> "none",
   status |-> [cclf.status EXCEPT !.reason = reason]]

\* The context of a reconcile starts from the cached forwarder.
NewContext(ready, reason) ==
  [rev |-> cclf.rev, uid |-> cclf.uid, result |-> "none",
   status |-> [cclf.status EXCEPT !.ready = ready, !.reason = reason]]

Fetch ==
  /\ pc = "idle" /\ queued
  /\ Exists(cclf)
  /\ queued' = FALSE
  /\ \/ /\ cclf.deleting
        /\ cxt' = NewContext(cclf.status.ready, cclf.status.reason)
        /\ Goto("cleanup")
     \/ /\ ~cclf.deleting /\ ~writes[cclf.rev].managed
        /\ cxt' = NewContext("Unknown", "ManagementStateUnmanaged")
        /\ Goto("status")
     \/ /\ ~cclf.deleting /\ writes[cclf.rev].managed
        /\ cxt' = NewContext("False", "None")
        /\ Goto("initialize")
  /\ UNCHANGED <<apiVars, envVars, cacheVars, timer, writes, approved, budget>>

\* cleanupClusterScopedResources deletes by name; updateStatus is not yet
\* deferred on this path.
Cleanup ==
  /\ pc = "cleanup"
  /\ \/ Succeeds /\ crb' = FALSE /\ UNCHANGED queued
     \/ Fails /\ queued' = TRUE /\ UNCHANGED crb
  /\ Goto("idle")
  /\ cxt' = NoContext
  /\ UNCHANGED <<clf, workload, config, envVars, cacheVars, timer, writes,
                 approved>>

\* Faulty variant: the configuration is generated before the validation.
InitializeConfigured ==
  /\ pc = "initialize"
  /\ \/ Succeeds /\ Goto("validate") /\ UNCHANGED cxt
        /\ config' = [rev |-> cxt.rev, uid |-> cxt.uid]
     \/ Fails /\ Finish("False", "InitializationFailed", "none")
        /\ UNCHANGED config
  /\ UNCHANGED <<clf, workload, crb, envVars, cacheVars, queueVars, writes,
                 approved>>

\* Reading the referenced Secrets and ConfigMaps; a failure is reported in
\* the status only, Reconcile returns no error.
Initialize ==
  /\ pc = "initialize"
  /\ \/ Succeeds /\ Goto("validate") /\ UNCHANGED cxt
     \/ Fails /\ Finish("False", "InitializationFailed", "none")
  /\ UNCHANGED <<apiVars, envVars, cacheVars, queueVars, writes, approved>>

Verdict(b) == IF b THEN "True" ELSE "False"

\* validateForwarder: a failing access review counts as a missing role.
Validate ==
  /\ pc = "validate"
  /\ \E authorized \in BOOLEAN :
       LET s == writes[cxt.rev]
           valid == IsValidSpec(authorized, SpecAccepted(s))
           verdict == [cxt.status EXCEPT !.authorized = Verdict(authorized),
                                         !.valid = Verdict(valid)]
       IN  /\ \/ Succeeds /\ authorized = Permitted(s)
              \/ Fails /\ ~authorized
           /\ \/ /\ valid
                 /\ cxt' = [cxt EXCEPT !.status = verdict]
                 /\ approved' = IF Permitted(s) /\ SpecAccepted(s)
                                  THEN approved \cup {cxt.rev} ELSE approved
                 /\ Goto("removeStale")
              \/ /\ ~valid
                 /\ cxt' = [cxt EXCEPT !.status =
                              [verdict EXCEPT !.reason = "ValidationFailure"]]
                 /\ Goto(IF authorized THEN "status" ELSE "undeploy")
                 /\ UNCHANGED approved
  /\ UNCHANGED <<apiVars, envVars, cacheVars, queueVars, writes>>

\* The kind the reconcile in flight deploys.
WorkloadKind == DesiredKind(writes[cxt.rev])

\* Faulty variant: the workload is always taken for absent.
RemoveNothing(k) == UNCHANGED workload

\* RemoveDaemonset / RemoveDeployment: nothing is done for a workload the
\* cache does not hold; otherwise it is deleted by name.
Remove(k) ==
  workload' = IF Exists(cworkload[k]) THEN [workload EXCEPT ![k] = Absent]
                                      ELSE workload

\* The collector of an unauthorized forwarder is removed; a failure is logged.
Undeploy ==
  /\ pc = "undeploy"
  /\ \/ Succeeds /\ Remove(WorkloadKind)
     \/ Fails /\ UNCHANGED workload
  /\ Goto("status")
  /\ UNCHANGED <<clf, config, crb, envVars, cacheVars, queueVars, cxt,
                 writes, approved>>

\* Faulty variant: the two kinds are swapped.
RemoveCurrentWorkload ==
  /\ pc = "removeStale"
  /\ \/ /\ Succeeds
        /\ Remove(WorkloadKind)
        /\ Goto("access")
        /\ UNCHANGED cxt
     \/ /\ Fails
        /\ Finish("False", "FailureToRemoveStaleWorkload", "error")
        /\ UNCHANGED workload
  /\ UNCHANGED <<clf, config, crb, envVars, cacheVars, queueVars, writes,
                 approved>>

RemoveStaleWorkload ==
  /\ pc = "removeStale"
  /\ \/ /\ Succeeds
        /\ Remove(Other(WorkloadKind))
        /\ Goto("access")
        /\ UNCHANGED cxt
     \/ /\ Fails
        /\ Finish("False", "FailureToRemoveStaleWorkload", "error")
        /\ UNCHANGED workload
  /\ UNCHANGED <<clf, config, crb, envVars, cacheVars, queueVars, writes,
                 approved>>

\* ReconcileCollector returned an error.
DeploymentError == Finish("False", "DeploymentError", "error")

\* SCC, token Secret, RBAC, the metrics-auth ClusterRoleBinding, then the
\* trusted CA bundle and the AWS credentials; a failure may come before or
\* after the binding is written.
ReconcileAccess ==
  /\ pc = "access"
  /\ \/ Succeeds /\ crb' = TRUE /\ Goto("config") /\ UNCHANGED cxt
     \/ Fails /\ (UNCHANGED crb \/ crb' = TRUE) /\ DeploymentError
  /\ UNCHANGED <<clf, workload, config, envVars, cacheVars, queueVars,
                 writes, approved>>

Generated == [rev |-> cxt.rev, uid |-> cxt.uid]

\* Faulty variant: the configuration is written after the workload.
ReconcileConfigTooLate ==
  /\ pc = "config"
  /\ \/ Succeeds /\ Goto("workload") /\ UNCHANGED <<cxt, config>>
     \/ Fails /\ DeploymentError /\ UNCHANGED config
  /\ UNCHANGED <<clf, workload, crb, envVars, cacheVars, queueVars, writes,
                 approved>>

\* GenerateConfig, then reconcile.Configmap through the uncached reader.
ReconcileConfig ==
  /\ pc = "config"
  /\ \/ Succeeds /\ config' = Generated /\ Goto("workload") /\ UNCHANGED cxt
     \/ Fails /\ DeploymentError /\ UNCHANGED config
  /\ UNCHANGED <<clf, workload, crb, envVars, cacheVars, queueVars, writes,
                 approved>>

\* controllerutil.CreateOrUpdate on the cached workload: create when the
\* cache holds none, nothing when it holds what is desired, else an update
\* that carries the cached resourceVersion.  Create and update fail when the
\* cache is stale.
ReconcileWorkload ==
  /\ pc = "workload"
  /\ LET k == WorkloadKind
         current == cworkload[k]
     IN  \/ /\ Succeeds
            /\ current = Generated
            /\ Goto("exposure")
            /\ UNCHANGED <<workload, cxt>>
         \/ /\ Succeeds
            /\ current # Generated
            /\ workload[k] = current
            /\ workload' = [workload EXCEPT ![k] = Generated]
            /\ Goto("exposure")
            /\ UNCHANGED cxt
         \/ /\ Succeeds
            /\ current # Generated
            /\ workload[k] # current
            /\ DeploymentError
            /\ UNCHANGED workload
         \/ /\ Fails
            /\ DeploymentError
            /\ UNCHANGED workload
  /\ UNCHANGED <<clf, config, crb, envVars, cacheVars, queueVars, writes,
                 approved>>

\* Input services, NetworkPolicy, metrics Service and ServiceMonitors.
ReconcileExposure ==
  /\ pc = "exposure"
  /\ \/ Succeeds /\ Finish("True", "ReconciliationComplete", "periodic")
     \/ Fails /\ DeploymentError
  /\ UNCHANGED <<apiVars, envVars, cacheVars, queueVars, writes, approved>>

\* updateStatus merges the status into whatever forwarder has the name now;
\* an error is logged.  Then Reconcile returns its result.
UpdateStatus ==
  /\ pc = "status"
  /\ \/ /\ Succeeds
        /\ clf' = IF Exists(clf) THEN [clf EXCEPT !.status = cxt.status]
                                 ELSE clf
     \/ Fails /\ UNCHANGED clf
  /\ queued' = (queued \/ cxt.result = "error")
  /\ timer' = (timer \/ cxt.result = "periodic")
  /\ Goto("idle")
  /\ cxt' = NoContext
  /\ UNCHANGED <<workload, config, crb, envVars, cacheVars, writes, approved>>

-----------------------------------------------------------------------------
Reconcile ==
  \/ FetchNotFound
  \/ Fetch
  \/ Cleanup
  \/ Initialize
  \/ Validate
  \/ Undeploy
  \/ RemoveStaleWorkload
  \/ ReconcileAccess
  \/ ReconcileConfig
  \/ ReconcileWorkload
  \/ ReconcileExposure
  \/ UpdateStatus

Informers ==
  \/ SyncForwarder
  \/ \E k \in Kinds : SyncWorkload(k)

GarbageCollector ==
  \/ \E k \in Kinds : CollectWorkload(k)
  \/ CollectConfig
  \/ FinishDeletion

Disturbance ==
  \/ \E s \in Specs : CreateForwarder(s) \/ EditForwarder(s)
  \/ DeleteInBackground
  \/ DeleteInForeground
  \/ \E g \in Grants : ChangeGrants(g)
  \/ ToggleServiceAccount
  \/ ToggleSecret
  \/ \E k \in Kinds : DeleteWorkload(k)
  \/ Restart
  \/ FetchFails

Next ==
  \/ Reconcile
  \/ Informers
  \/ GarbageCollector
  \/ Resync
  \/ PeriodicRequeue
  \/ Disturbance

\* The worker, the informers, the garbage collector and the timers keep
\* running; users and failures owe nothing.
Fairness ==
  /\ WF_vars(Reconcile)
  /\ WF_vars(SyncForwarder)
  /\ \A k \in Kinds : WF_vars(SyncWorkload(k))
  /\ \A k \in Kinds : WF_vars(CollectWorkload(k))
  /\ WF_vars(CollectConfig)
  /\ WF_vars(FinishDeletion)
  /\ WF_vars(Resync)
  /\ WF_vars(PeriodicRequeue)

Spec == Init /\ [][Next]_vars /\ Fairness

-----------------------------------------------------------------------------
(* Safety *)

\* No collector without permission: a workload is only ever generated from a
\* revision that was valid and whose ServiceAccount had the permissions when
\* a reconcile looked, whatever was edited, revoked or restarted in between.
DeployedWasApproved ==
  \A k \in Kinds : Exists(workload[k]) => workload[k].rev \in approved

\* The configuration a workload mounts is there and is not older than the
\* workload, for as long as the workload's owner lives: ReconcileCollector
\* writes the ConfigMap before the workload, and no later reconcile takes it
\* back to an earlier revision.
ConfigNotOlder ==
  \A k \in Kinds :
    /\ Exists(workload[k])
    /\ workload[k].uid = clf.uid
    /\ ~clf.deleting
    => config.uid = clf.uid /\ config.rev >= workload[k].rev

\* A forwarder that reports Ready=True reports Authorized=True and Valid=True
\* with it, also when the status comes from a reconcile of an older revision
\* or of a forwarder that was deleted and created again.
ReadyIsBacked ==
  clf.status.ready = "True" =>
    clf.status.authorized = "True" /\ clf.status.valid = "True"

\* No step replaces a collector workload or its configuration by one of an
\* older revision: reconciles of a key are serial, and the cached forwarder
\* they start from never goes back.
NeverOlder(o, new) == Exists(o) /\ Exists(new) => o.rev <= new.rev

NoRollback ==
  [][/\ \A k \in Kinds : NeverOlder(workload[k], workload'[k])
     /\ NeverOlder(config, config')]_vars

\* A reconcile takes away no collector that is not behind it, although the kind
\* may have changed back and forth, the reconcile may be of an outdated revision
\* and removal goes by name: what RemoveStaleWorkload removes is of an earlier
\* revision than the one it deploys, and what is undeployed is of no later one.
OnlyStaleRemoved ==
  [][\A k \in Kinds :
       Exists(workload[k]) /\ ~Exists(workload'[k]) =>
         /\ RemoveStaleWorkload => workload[k].rev < cxt.rev
         /\ Undeploy => workload[k].rev <= cxt.rev]_vars

-----------------------------------------------------------------------------
(* Refinement *)

Rollout ==
  INSTANCE CollectorRollout
    WITH requested  <- Len(writes),
         approvals  <- approved,
         configured <- config.rev,
         running    <- [k \in Kinds |-> workload[k].rev]

\* The reconcile loop, its caches, restarts and failures included, implements
\* the rollout that its users are promised: each step of it requests, approves,
\* configures, runs or stops a revision in the promised order, or none of it.
RolloutRefined == Rollout!RolloutSpec

-----------------------------------------------------------------------------
(* Liveness *)

CurrentSpec == writes[clf.rev]

\* A forwarder the operator has to look after.
Live == Exists(clf) /\ ~clf.deleting /\ CurrentSpec.managed

Deployable == Live /\ Permitted(CurrentSpec) /\ SpecAccepted(CurrentSpec)

Deployed ==
  LET k == DesiredKind(CurrentSpec)
      current == [rev |-> clf.rev, uid |-> clf.uid]
  IN  /\ workload[k] = current
      /\ ~Exists(workload[Other(k)])
      /\ config = current
      /\ crb

\* Once the disturbances end, the collector of a managed, valid and
\* authorized forwarder is deployed for good from its current revision, as
\* the kind it asks for and no other, with its configuration and binding.
CollectorConverges == <>[](Deployable => Deployed)

\* Once the disturbances end, the Ready condition settles on the truth: True
\* if the collector is deployed, Unknown if unmanaged, False otherwise;
\* although a failing status update is only logged, failing initialization
\* and validation return no error, and a status may land on a successor.
ReadyConverges ==
  <>[](Exists(clf) /\ ~clf.deleting =>
         clf.status.ready = IF ~CurrentSpec.managed THEN "Unknown"
                            ELSE Verdict(Deployable))

\* A managed forwarder whose ServiceAccount lacks a permission it needs.
Revoked == Live /\ ~Permitted(CurrentSpec)

\* Once the disturbances end, a revoked forwarder has no collector of the kind
\* its spec asks for, although undeploying goes by a cache that may not hold
\* the workload yet and a failure of it is only logged.
RevokedKindRemoved ==
  <>[](Revoked => ~Exists(workload[DesiredKind(CurrentSpec)]))

=============================================================================
