---------------------- MODULE ForwarderControllerProofs ----------------------
(* Proofs for ForwarderController, for any specs and any bound: invariance,  *)
(* and the refinement of CollectorRollout.                                   *)
EXTENDS ForwarderController, TLAPS

-----------------------------------------------------------------------------
(* The records the actions build *)

\* The records that stand for nothing are of their types.
LEMMA NothingTyped ==
  /\ NoStatus \in Status
  /\ NoForwarder \in Forwarder
  /\ NoContext \in Context
  /\ Absent \in Object
<1>1. NoStatus \in Status
  BY DEF NoStatus, Status, Truth, Reasons
<1> QED
  BY <1>1 DEF NoForwarder, Forwarder, NoContext, Context, Results, Absent,
              Object

\* A forwarder and a context are made of typed parts.
LEMMA PartsTyped ==
  /\ \A f \in Forwarder :
       f.rev \in Nat /\ f.uid \in Nat /\ f.deleting \in BOOLEAN
         /\ f.status \in Status
  /\ \A c \in Context :
       c.rev \in Nat /\ c.uid \in Nat /\ c.status \in Status
         /\ c.result \in Results
BY DEF Forwarder, Context

\* Setting the Ready condition, or the conditions of a validation, keeps a
\* status a status.
LEMMA StatusTyped ==
  ASSUME NEW st \in Status, NEW a \in Truth, NEW v \in Truth,
         NEW ready \in Truth, NEW reason \in Reasons
  PROVE  /\ [st EXCEPT !.ready = ready, !.reason = reason] \in Status
         /\ [st EXCEPT !.authorized = a, !.valid = v] \in Status
         /\ [st EXCEPT !.reason = reason] \in Status
BY DEF Status

\* What a reconcile generates is an object.
LEMMA GeneratedTyped == cxt \in Context => Generated \in Object
BY DEF Context, Generated, Object

\* Finish leaves a context and a step of the reconcile.
LEMMA FinishTyped ==
  ASSUME cxt \in Context, NEW ready \in Truth, NEW reason \in Reasons,
         NEW result \in Results, Finish(ready, reason, result)
  PROVE  cxt' \in Context /\ pc' \in Steps
<1>1. cxt' = [cxt EXCEPT !.status = [cxt.status EXCEPT !.ready = ready,
                                                      !.reason = reason],
                         !.result = result]
  BY DEF Finish, Context, Status
<1>2. [cxt.status EXCEPT !.ready = ready, !.reason = reason] \in Status
  BY PartsTyped, StatusTyped
<1> QED
  BY <1>1, <1>2 DEF Context, Finish, Goto, Steps

-----------------------------------------------------------------------------
\* Every action leaves each variable in its type: the type invariant of the
\* reconcile loop.
THEOREM TypeCorrect == Spec => []TypeOK
<1>1. Init => TypeOK
  <2> SUFFICES ASSUME Init PROVE TypeOK
    OBVIOUS
  <2>1. writes \in Seq(Specs) /\ budget \in 0..MaxDisturbances
    BY BoundAssumption DEF Init
  <2>2. workload \in [Kinds -> Object] /\ cworkload \in [Kinds -> Object]
    BY NothingTyped DEF Init
  <2> QED
    BY <2>1, <2>2, NothingTyped DEF Init, TypeOK, Steps
<1>2. TypeOK /\ [Next]_vars => TypeOK'
  <2> SUFFICES ASSUME TypeOK, [Next]_vars PROVE TypeOK'
    OBVIOUS
  <2> USE NothingTyped, PartsTyped, BoundAssumption
      DEF TypeOK, apiVars, envVars, cacheVars, queueVars, Disturb, Fails,
          Succeeds, Goto
  <2>1. ASSUME NEW s \in Specs, CreateForwarder(s) PROVE TypeOK'
    <3>1. clf' \in Forwarder
      BY <2>1 DEF CreateForwarder, NextRevision, Forwarder
    <3>2. writes' \in Seq(Specs)
      BY <2>1 DEF CreateForwarder
    <3> QED
      BY <2>1, <3>1, <3>2 DEF CreateForwarder
  <2>2. ASSUME NEW s \in Specs, EditForwarder(s) PROVE TypeOK'
    <3>1. clf' \in Forwarder
      BY <2>2 DEF EditForwarder, NextRevision, Forwarder
    <3>2. writes' \in Seq(Specs)
      BY <2>2 DEF EditForwarder
    <3> QED
      BY <2>2, <3>1, <3>2 DEF EditForwarder
  <2>3. CASE DeleteInBackground
    BY <2>3 DEF DeleteInBackground
  <2>4. CASE DeleteInForeground
    <3>1. clf' \in Forwarder
      BY <2>4 DEF DeleteInForeground, Forwarder
    <3> QED
      BY <2>4, <3>1 DEF DeleteInForeground
  <2>5. ASSUME NEW g \in Grants, ChangeGrants(g) PROVE TypeOK'
    BY <2>5 DEF ChangeGrants
  <2>6. CASE ToggleServiceAccount
    BY <2>6 DEF ToggleServiceAccount
  <2>7. CASE ToggleSecret
    BY <2>7 DEF ToggleSecret
  <2>8. ASSUME NEW k \in Kinds, DeleteWorkload(k) PROVE TypeOK'
    BY <2>8 DEF DeleteWorkload
  <2>9. CASE Restart
    <3>1. queued' \in BOOLEAN
      BY <2>9, Zenon DEF Restart
    <3>2. budget' \in 0..MaxDisturbances
      BY <2>9 DEF Restart
    <3> QED
      BY <2>9, <3>1, <3>2, Zenon DEF Restart, Steps
  <2>10. CASE FetchFails
    BY <2>10 DEF FetchFails
  <2>11. ASSUME NEW k \in Kinds, CollectWorkload(k) PROVE TypeOK'
    BY <2>11 DEF CollectWorkload
  <2>12. CASE CollectConfig
    BY <2>12 DEF CollectConfig
  <2>13. CASE FinishDeletion
    BY <2>13 DEF FinishDeletion
  <2>14. CASE SyncForwarder
    BY <2>14 DEF SyncForwarder
  <2>15. ASSUME NEW k \in Kinds, SyncWorkload(k) PROVE TypeOK'
    BY <2>15 DEF SyncWorkload
  <2>16. CASE Resync
    BY <2>16 DEF Resync
  <2>17. CASE PeriodicRequeue
    BY <2>17 DEF PeriodicRequeue
  <2>18. CASE FetchNotFound
    BY <2>18 DEF FetchNotFound
  <2>19. CASE Fetch
    <3>1. \A ready \in Truth, reason \in Reasons :
            NewContext(ready, reason) \in Context
      BY StatusTyped DEF NewContext, Context, Results
    <3>2. cclf.status.ready \in Truth /\ cclf.status.reason \in Reasons
      BY DEF Status
    <3>3. cxt' \in Context
      BY <2>19, <3>1, <3>2 DEF Fetch, Truth, Reasons
    <3> QED
      BY <2>19, <3>3 DEF Fetch, Steps
  <2>20. CASE Cleanup
    <3>1. crb' \in BOOLEAN /\ queued' \in BOOLEAN
      BY <2>20, Zenon DEF Cleanup
    <3>2. budget' \in 0..MaxDisturbances
      BY <2>20 DEF Cleanup
    <3> QED
      BY <2>20, <3>1, <3>2 DEF Cleanup, Steps
  <2>21. CASE Initialize
    <3>1. cxt' \in Context /\ pc' \in Steps
      BY <2>21, FinishTyped DEF Initialize, Truth, Reasons, Results, Steps
    <3> QED
      BY <2>21, <3>1 DEF Initialize
  <2>22. CASE Validate
    <3>1. \A b \in BOOLEAN : Verdict(b) \in Truth
      BY DEF Verdict, Truth
    <3>2. PICK st \in Status : cxt' = [cxt EXCEPT !.status = st]
      BY <2>22, <3>1, StatusTyped DEF Validate, Reasons, IsValidSpec
    <3>3. cxt' \in Context
      BY <3>2 DEF Context
    <3>4. approved' \in SUBSET Nat /\ pc' \in Steps
      BY <2>22 DEF Validate, Steps
    <3> QED
      BY <2>22, <3>3, <3>4 DEF Validate
  <2>23. CASE Undeploy
    BY <2>23 DEF Undeploy, Remove, Steps
  <2>24. CASE RemoveStaleWorkload
    <3>1. cxt' \in Context /\ pc' \in Steps
      BY <2>24, FinishTyped
         DEF RemoveStaleWorkload, Truth, Reasons, Results, Steps
    <3>2. workload' \in [Kinds -> Object]
      BY <2>24, Zenon DEF RemoveStaleWorkload, Remove, Kinds, Other
    <3> QED
      BY <2>24, <3>1, <3>2 DEF RemoveStaleWorkload
  <2>25. CASE ReconcileAccess
    <3>1. cxt' \in Context /\ pc' \in Steps
      BY <2>25, FinishTyped
         DEF ReconcileAccess, DeploymentError, Truth, Reasons, Results, Steps
    <3>2. crb' \in BOOLEAN
      BY <2>25, Zenon DEF ReconcileAccess
    <3>3. budget' \in 0..MaxDisturbances
      BY <2>25 DEF ReconcileAccess
    <3>4. UNCHANGED <<clf, workload, config, envVars, cacheVars, queueVars,
                      writes, approved>>
      BY <2>25 DEF ReconcileAccess
    <3> QED
      BY <3>1, <3>2, <3>3, <3>4
  <2>26. CASE ReconcileConfig
    <3>1. cxt' \in Context /\ pc' \in Steps
      BY <2>26, FinishTyped
         DEF ReconcileConfig, DeploymentError, Truth, Reasons, Results, Steps
    <3> QED
      BY <2>26, <3>1, GeneratedTyped DEF ReconcileConfig
  <2>27. CASE ReconcileWorkload
    <3>1. cxt' \in Context /\ pc' \in Steps
      BY <2>27, FinishTyped
         DEF ReconcileWorkload, DeploymentError, Truth, Reasons, Results, Steps
    <3> QED
      BY <2>27, <3>1, GeneratedTyped DEF ReconcileWorkload
  <2>28. CASE ReconcileExposure
    <3>1. cxt' \in Context /\ pc' \in Steps
      BY <2>28, FinishTyped
         DEF ReconcileExposure, DeploymentError, Truth, Reasons, Results, Steps
    <3> QED
      BY <2>28, <3>1 DEF ReconcileExposure
  <2>29. CASE UpdateStatus
    <3>1. clf' \in Forwarder
      BY <2>29 DEF UpdateStatus, Forwarder
    <3> QED
      BY <2>29, <3>1 DEF UpdateStatus, Steps
  <2>30. CASE UNCHANGED vars
    BY <2>30 DEF vars
  <2> QED
    BY <2>1, <2>2, <2>3, <2>4, <2>5, <2>6, <2>7, <2>8, <2>9, <2>10, <2>11,
       <2>12, <2>13, <2>14, <2>15, <2>16, <2>17, <2>18, <2>19, <2>20, <2>21,
       <2>22, <2>23, <2>24, <2>25, <2>26, <2>27, <2>28, <2>29, <2>30
       DEF Next, Reconcile, Informers, GarbageCollector, Disturbance
<1> QED
  BY <1>1, <1>2, PTL DEF Spec

-----------------------------------------------------------------------------
(* The inductive invariant *)

\* hi stems from no older a revision, and no older a forwarder, than lo.
Covers(hi, lo) == lo.rev <= hi.rev /\ lo.uid <= hi.uid

\* An object stems from a written revision, and from no later a forwarder than
\* the present one.
Sound(o) ==
  /\ o.rev <= Len(writes)
  /\ o.uid <= o.rev
  /\ Exists(o) => o.uid # 0
  /\ Exists(clf) => o.uid <= clf.uid

\* The forwarder on the API server is the last write, or there is none.
RevisionInv ==
  /\ IF Exists(clf) THEN clf.rev = Len(writes) ELSE clf = NoForwarder
  /\ Sound(clf) /\ Sound(cclf) /\ Sound(cxt) /\ Sound(config)
  /\ \A k \in Kinds : Sound(workload[k])

\* Nothing that was generated is ahead of the cached forwarder or of the
\* reconcile in flight.
OrderInv ==
  /\ Exists(cclf) => /\ Covers(cclf, cxt) /\ Covers(cclf, config)
                     /\ \A k \in Kinds : Covers(cclf, workload[k])
  /\ pc # "idle" => /\ Exists(cxt) /\ Covers(cxt, config)
                    /\ \A k \in Kinds : Covers(cxt, workload[k])

\* The steps of a reconcile after a successful validation.
Deploying == {"removeStale", "access", "config", "workload", "exposure"}

ApprovalInv ==
  /\ pc \in Deploying => cxt.rev \in approved
  /\ DeployedWasApproved

\* A reconcile about to write the workload of the present forwarder has
\* written its configuration, and nobody has removed it.
ConfigInv ==
  /\ pc = "workload" /\ cxt.uid = clf.uid /\ ~clf.deleting =>
       config = Generated
  /\ ConfigNotOlder

Passed(st) == st.authorized = "True" /\ st.valid = "True"
Backed(st) == st.ready = "True" => Passed(st)

BackedInv ==
  /\ Backed(clf.status) /\ Backed(cclf.status) /\ Backed(cxt.status)
  /\ pc \in Deploying => Passed(cxt.status)
  /\ pc \notin {"idle", "cleanup", "status"} => cxt.status.ready # "True"

-----------------------------------------------------------------------------
(* What a step may do to each part of the state *)

\* A workload stays, goes, or is generated by the reconcile in flight.
LEMMA WorkloadStep ==
  ASSUME TypeOK, [Next]_vars, NEW k \in Kinds
  PROVE  \/ workload'[k] = workload[k]
         \/ workload'[k] = Absent
         \/ /\ pc = "workload"
            /\ k = DesiredKind(writes[cxt.rev])
            /\ workload'[k] = Generated
            /\ UNCHANGED <<clf, config, cclf, writes, approved>>
<1> USE DEF TypeOK, apiVars, cacheVars
<1>1. CASE ReconcileWorkload
  BY <1>1 DEF ReconcileWorkload, WorkloadKind
<1>2. CASE Undeploy \/ RemoveStaleWorkload
  BY <1>2 DEF Undeploy, RemoveStaleWorkload, Remove
<1>3. ASSUME NEW j \in Kinds, DeleteWorkload(j) \/ CollectWorkload(j)
      PROVE  workload'[k] \in {workload[k], Absent}
  BY <1>3 DEF DeleteWorkload, CollectWorkload
<1>4. ASSUME NEW s \in Specs, CreateForwarder(s) \/ EditForwarder(s)
      PROVE  UNCHANGED workload
  BY <1>4 DEF CreateForwarder, EditForwarder
<1>5. ASSUME NEW j \in Kinds, SyncWorkload(j) PROVE UNCHANGED workload
  BY <1>5 DEF SyncWorkload
<1>6. ASSUME NEW g \in Grants, ChangeGrants(g) PROVE UNCHANGED workload
  BY <1>6 DEF ChangeGrants
<1>7. CASE \/ DeleteInBackground \/ DeleteInForeground \/ FinishDeletion
           \/ ToggleServiceAccount \/ ToggleSecret \/ Restart \/ FetchFails
           \/ CollectConfig \/ SyncForwarder \/ Resync \/ PeriodicRequeue
  BY <1>7 DEF DeleteInBackground, DeleteInForeground, FinishDeletion,
              ToggleServiceAccount, ToggleSecret, Restart, FetchFails,
              CollectConfig, SyncForwarder, Resync, PeriodicRequeue
<1>8. CASE \/ FetchNotFound \/ Fetch \/ Cleanup \/ Initialize \/ Validate
           \/ ReconcileAccess \/ ReconcileConfig \/ ReconcileExposure
           \/ UpdateStatus
  BY <1>8 DEF FetchNotFound, Fetch, Cleanup, Initialize, Validate,
              ReconcileAccess, ReconcileConfig, ReconcileExposure, UpdateStatus
<1>9. CASE UNCHANGED vars
  BY <1>9 DEF vars
<1> QED
  BY <1>1, <1>2, <1>3, <1>4, <1>5, <1>6, <1>7, <1>8, <1>9
     DEF Next, Reconcile, Informers, GarbageCollector, Disturbance

\* The configuration stays, is collected with its owner, or is generated by
\* the reconcile in flight.
LEMMA ConfigStep ==
  ASSUME TypeOK, [Next]_vars
  PROVE  \/ config' = config
         \/ /\ config' = Absent
            /\ Orphaned(config)
            /\ UNCHANGED <<clf, cclf, writes, workload, pc, cxt>>
         \/ /\ pc = "config" /\ pc' = "workload"
            /\ config' = Generated
            /\ UNCHANGED <<clf, cclf, writes, workload, cxt>>
         \/ /\ pc = "config" /\ pc' = "status"
            /\ UNCHANGED config
<1> USE DEF apiVars, cacheVars
<1>1. CASE ReconcileConfig
  BY <1>1 DEF ReconcileConfig, DeploymentError, Finish, Goto
<1>2. CASE CollectConfig
  BY <1>2 DEF CollectConfig
<1>3. ASSUME NEW j \in Kinds,
             DeleteWorkload(j) \/ CollectWorkload(j) \/ SyncWorkload(j)
      PROVE  UNCHANGED config
  BY <1>3 DEF DeleteWorkload, CollectWorkload, SyncWorkload
<1>4. ASSUME NEW s \in Specs, CreateForwarder(s) \/ EditForwarder(s)
      PROVE  UNCHANGED config
  BY <1>4 DEF CreateForwarder, EditForwarder
<1>5. ASSUME NEW g \in Grants, ChangeGrants(g) PROVE UNCHANGED config
  BY <1>5 DEF ChangeGrants
<1>6. CASE \/ DeleteInBackground \/ DeleteInForeground \/ FinishDeletion
           \/ ToggleServiceAccount \/ ToggleSecret \/ Restart \/ FetchFails
           \/ SyncForwarder \/ Resync \/ PeriodicRequeue
  BY <1>6 DEF DeleteInBackground, DeleteInForeground, FinishDeletion,
              ToggleServiceAccount, ToggleSecret, Restart, FetchFails,
              SyncForwarder, Resync, PeriodicRequeue
<1>7. CASE \/ FetchNotFound \/ Fetch \/ Cleanup \/ Initialize \/ Validate
           \/ Undeploy \/ RemoveStaleWorkload \/ ReconcileAccess
           \/ ReconcileWorkload \/ ReconcileExposure \/ UpdateStatus
  BY <1>7 DEF FetchNotFound, Fetch, Cleanup, Initialize, Validate, Undeploy,
              RemoveStaleWorkload, ReconcileAccess, ReconcileWorkload,
              ReconcileExposure, UpdateStatus
<1>8. CASE UNCHANGED vars
  BY <1>8 DEF vars
<1> QED
  BY <1>1, <1>2, <1>3, <1>4, <1>5, <1>6, <1>7, <1>8
     DEF Next, Reconcile, Informers, GarbageCollector, Disturbance

\* The forwarder keeps its spec and identity, goes, is written again, or is
\* created; the cache keeps its copy or takes over the forwarder.
LEMMA ForwarderStep ==
  ASSUME TypeOK, [Next]_vars
  PROVE  /\ \/ cclf' = cclf
            \/ cclf' = clf /\ UNCHANGED <<clf, writes, workload, config>>
         /\ \/ UNCHANGED <<writes, clf>>
            \/ /\ UNCHANGED writes
               /\ Exists(clf)
               /\ clf'.rev = clf.rev /\ clf'.uid = clf.uid
               /\ clf.deleting => clf'.deleting
               /\ clf'.status \in {clf.status, cxt.status}
            \/ UNCHANGED writes /\ clf' = NoForwarder
            \/ \E s \in Specs :
                 /\ Exists(clf)
                 /\ writes' = Append(writes, s)
                 /\ clf' = [clf EXCEPT !.rev = Len(writes) + 1]
            \/ \E s \in Specs :
                 /\ ~Exists(clf)
                 /\ writes' = Append(writes, s)
                 /\ clf' = [rev |-> Len(writes) + 1, uid |-> Len(writes) + 1,
                            deleting |-> FALSE, status |-> NoStatus]
<1> USE DEF TypeOK, apiVars, cacheVars
<1>1. ASSUME NEW s \in Specs, CreateForwarder(s)
      PROVE  /\ cclf' = cclf /\ ~Exists(clf)
             /\ writes' = Append(writes, s)
             /\ clf' = [rev |-> Len(writes) + 1, uid |-> Len(writes) + 1,
                        deleting |-> FALSE, status |-> NoStatus]
  BY <1>1 DEF CreateForwarder, NextRevision
<1>2. ASSUME NEW s \in Specs, EditForwarder(s)
      PROVE  /\ cclf' = cclf /\ Exists(clf)
             /\ writes' = Append(writes, s)
             /\ clf' = [clf EXCEPT !.rev = Len(writes) + 1]
  BY <1>2 DEF EditForwarder, NextRevision
<1>3. CASE DeleteInBackground \/ FinishDeletion
  BY <1>3 DEF DeleteInBackground, FinishDeletion
<1>4. CASE DeleteInForeground
  BY <1>4 DEF DeleteInForeground, Forwarder
<1>5. CASE UpdateStatus
  BY <1>5 DEF UpdateStatus, Forwarder
<1>6. CASE SyncForwarder \/ Restart
  BY <1>6 DEF SyncForwarder, Restart
<1>7. ASSUME \/ \E j \in Kinds : \/ DeleteWorkload(j) \/ CollectWorkload(j)
                               \/ SyncWorkload(j)
             \/ \E g \in Grants : ChangeGrants(g)
      PROVE  UNCHANGED <<clf, cclf, writes>>
  BY <1>7 DEF DeleteWorkload, CollectWorkload, SyncWorkload, ChangeGrants
<1>8. CASE \/ ToggleServiceAccount \/ ToggleSecret \/ FetchFails
           \/ CollectConfig \/ Resync \/ PeriodicRequeue
  BY <1>8 DEF ToggleServiceAccount, ToggleSecret, FetchFails, CollectConfig,
              Resync, PeriodicRequeue
<1>9. CASE \/ FetchNotFound \/ Fetch \/ Cleanup \/ Initialize \/ Validate
           \/ Undeploy \/ RemoveStaleWorkload \/ ReconcileAccess
           \/ ReconcileConfig \/ ReconcileWorkload \/ ReconcileExposure
  BY <1>9 DEF FetchNotFound, Fetch, Cleanup, Initialize, Validate, Undeploy,
              RemoveStaleWorkload, ReconcileAccess, ReconcileConfig,
              ReconcileWorkload, ReconcileExposure
<1>10. CASE UNCHANGED vars
  BY <1>10 DEF vars
<1> QED
  BY <1>1, <1>2, <1>3, <1>4, <1>5, <1>6, <1>7, <1>8, <1>9, <1>10
     DEF Next, Reconcile, Informers, GarbageCollector, Disturbance

\* The reconcile in flight stays where it is, ends, starts from the cached
\* forwarder, or moves on with the same revision; only a validation that
\* passed leads to the steps that deploy.
LEMMA ContextStep ==
  ASSUME TypeOK, [Next]_vars
  PROVE  /\ approved \subseteq approved'
         /\ \/ UNCHANGED <<pc, cxt>>
            \/ pc' = "idle" /\ cxt' = NoContext
            \/ /\ pc = "idle" /\ pc' \in {"cleanup", "status", "initialize"}
               /\ Exists(cclf)
               /\ cxt'.rev = cclf.rev /\ cxt'.uid = cclf.uid
               /\ cxt'.status.authorized = cclf.status.authorized
               /\ cxt'.status.valid = cclf.status.valid
               /\ cxt'.status.ready = cclf.status.ready \/ cxt'.status.ready # "True"
               /\ pc' = "initialize" => cxt'.status.ready # "True"
               /\ UNCHANGED <<clf, cclf, writes, workload, config>>
            \/ /\ pc # "idle" /\ pc' # "idle"
               /\ cxt'.rev = cxt.rev /\ cxt'.uid = cxt.uid
               /\ UNCHANGED <<clf, cclf, writes>>
               /\ \/ pc = "initialize" /\ pc' = "validate" /\ cxt' = cxt
                  \/ /\ pc = "validate" /\ pc' = "removeStale"
                     /\ cxt.rev \in approved' /\ Passed(cxt'.status)
                     /\ cxt'.status.ready = cxt.status.ready
                  \/ /\ pc = "validate" /\ pc' \in {"status", "undeploy"}
                     /\ cxt'.status.ready = cxt.status.ready
                  \/ pc \in Deploying /\ pc' \in Deploying /\ cxt' = cxt
                  \/ pc = "undeploy" /\ pc' = "status" /\ cxt' = cxt
                  \/ /\ pc \in Deploying \cup {"initialize"} /\ pc' = "status"
                     /\ cxt'.status.authorized = cxt.status.authorized
                     /\ cxt'.status.valid = cxt.status.valid
                     /\ pc \notin Deploying => cxt'.status.ready # "True"
<1> USE DEF TypeOK, apiVars, cacheVars, Goto
<1>0. cxt.status \in Status /\ cclf.status \in Status
  BY PartsTyped
<1>1. ASSUME NEW ready, NEW reason, NEW result, Finish(ready, reason, result)
      PROVE  /\ pc' = "status"
             /\ cxt'.rev = cxt.rev /\ cxt'.uid = cxt.uid
             /\ cxt'.status.authorized = cxt.status.authorized
             /\ cxt'.status.valid = cxt.status.valid
             /\ cxt'.status.ready = ready
  BY <1>0, <1>1 DEF Finish, Context, Status
<1>2. CASE Fetch
  <2>1. \A ready, reason :
          LET c == NewContext(ready, reason)
          IN  /\ c.rev = cclf.rev /\ c.uid = cclf.uid
              /\ c.status.authorized = cclf.status.authorized
              /\ c.status.valid = cclf.status.valid
              /\ c.status.ready = ready
    BY <1>0 DEF NewContext, Status
  <2> QED
    BY <1>2, <2>1 DEF Fetch
<1>3. CASE Initialize
  BY <1>1, <1>3 DEF Initialize
<1>4. CASE Validate
  <2>0. ASSUME NEW authorized \in BOOLEAN, NEW s,
               authorized = Permitted(s) \/ ~authorized,
               IsValidSpec(authorized, SpecAccepted(s))
        PROVE  Permitted(s) /\ SpecAccepted(s)
    BY <2>0 DEF IsValidSpec
  <2>a. PICK authorized \in BOOLEAN :
          LET verdict == [cxt.status EXCEPT
                            !.authorized = Verdict(authorized),
                            !.valid = Verdict(IsValidSpec(authorized,
                                                 SpecAccepted(writes[cxt.rev])))]
          IN  \/ /\ IsValidSpec(authorized, SpecAccepted(writes[cxt.rev]))
                 /\ cxt' = [cxt EXCEPT !.status = verdict]
                 /\ approved' = approved \cup {cxt.rev}
                 /\ pc' = "removeStale"
              \/ /\ cxt' = [cxt EXCEPT !.status =
                              [verdict EXCEPT !.reason = "ValidationFailure"]]
                 /\ pc' \in {"status", "undeploy"}
                 /\ UNCHANGED approved
    BY <1>4, <2>0 DEF Validate
  <2>1. PICK st :
          /\ st = [cxt.status EXCEPT
                     !.authorized = Verdict(authorized),
                     !.valid = Verdict(IsValidSpec(authorized,
                                          SpecAccepted(writes[cxt.rev])))]
          /\ \/ /\ IsValidSpec(authorized, SpecAccepted(writes[cxt.rev]))
                /\ cxt' = [cxt EXCEPT !.status = st]
                /\ approved' = approved \cup {cxt.rev}
                /\ pc' = "removeStale"
             \/ /\ cxt' = [cxt EXCEPT !.status =
                              [st EXCEPT !.reason = "ValidationFailure"]]
                /\ pc' \in {"status", "undeploy"}
                /\ UNCHANGED approved
    BY <2>a
  <2>2. cxt'.rev = cxt.rev /\ cxt'.uid = cxt.uid
    BY <2>1 DEF Context
  <2>3. /\ st.ready = cxt.status.ready
        /\ st.authorized = Verdict(authorized)
        /\ st.valid = Verdict(IsValidSpec(authorized,
                                          SpecAccepted(writes[cxt.rev])))
    BY <1>0, <2>1 DEF Status
  <2>4. [st EXCEPT !.reason = "ValidationFailure"].ready = cxt.status.ready
    BY <1>0, <2>1 DEF Status
  <2>5. cxt'.status \in {st, [st EXCEPT !.reason = "ValidationFailure"]}
    BY <2>1 DEF Context
  <2>6. cxt'.status.ready = cxt.status.ready
    BY <2>3, <2>4, <2>5
  <2>7. ASSUME pc' = "removeStale"
        PROVE  Passed(cxt'.status) /\ cxt.rev \in approved'
    <3>1. IsValidSpec(authorized, SpecAccepted(writes[cxt.rev])) /\ authorized
      BY <2>1, <2>7 DEF IsValidSpec
    <3>2. st.authorized = "True" /\ st.valid = "True"
      BY <2>3, <3>1 DEF Verdict
    <3>3. cxt'.status = st /\ cxt.rev \in approved'
      BY <2>1, <2>7 DEF Context
    <3> QED
      BY <3>2, <3>3 DEF Passed
  <2> QED
    BY <1>4, <2>1, <2>2, <2>6, <2>7 DEF Validate
<1>5. CASE Undeploy
  BY <1>5 DEF Undeploy
<1>6. CASE RemoveStaleWorkload
  BY <1>1, <1>6 DEF RemoveStaleWorkload, Deploying
<1>7. CASE ReconcileAccess
  BY <1>1, <1>7 DEF ReconcileAccess, DeploymentError, Deploying
<1>8. CASE ReconcileConfig
  BY <1>1, <1>8 DEF ReconcileConfig, DeploymentError, Deploying
<1>9. CASE ReconcileWorkload
  BY <1>1, <1>9 DEF ReconcileWorkload, DeploymentError, Deploying
<1>10. CASE ReconcileExposure
  BY <1>1, <1>10 DEF ReconcileExposure, DeploymentError, Deploying
<1>11. CASE Cleanup \/ UpdateStatus \/ Restart
  BY <1>11 DEF Cleanup, UpdateStatus, Restart
<1>12. ASSUME \/ \E j \in Kinds : \/ DeleteWorkload(j) \/ CollectWorkload(j)
                                \/ SyncWorkload(j)
              \/ \E s \in Specs : CreateForwarder(s) \/ EditForwarder(s)
              \/ \E g \in Grants : ChangeGrants(g)
       PROVE  UNCHANGED <<pc, cxt, approved>>
  BY <1>12 DEF DeleteWorkload, CollectWorkload, SyncWorkload, CreateForwarder,
               EditForwarder, ChangeGrants
<1>13. CASE \/ DeleteInBackground \/ DeleteInForeground \/ FinishDeletion
            \/ ToggleServiceAccount \/ ToggleSecret \/ FetchFails
            \/ CollectConfig \/ SyncForwarder \/ Resync \/ PeriodicRequeue
            \/ FetchNotFound
  BY <1>13 DEF DeleteInBackground, DeleteInForeground, FinishDeletion,
               ToggleServiceAccount, ToggleSecret, FetchFails, CollectConfig,
               SyncForwarder, Resync, PeriodicRequeue, FetchNotFound
<1>14. CASE UNCHANGED vars
  BY <1>14 DEF vars
<1> QED
  BY <1>2, <1>3, <1>4, <1>5, <1>6, <1>7, <1>8, <1>9, <1>10, <1>11, <1>12,
     <1>13, <1>14
     DEF Next, Reconcile, Informers, GarbageCollector, Disturbance

-----------------------------------------------------------------------------
(* Revisions only move forward *)

\* The revision and the uid of every object are numbers.
LEMMA NumbersTyped ==
  ASSUME TypeOK
  PROVE  /\ clf.rev \in Nat /\ clf.uid \in Nat
         /\ cclf.rev \in Nat /\ cclf.uid \in Nat
         /\ cxt.rev \in Nat /\ cxt.uid \in Nat
         /\ config.rev \in Nat /\ config.uid \in Nat
         /\ \A k \in Kinds : workload[k].rev \in Nat /\ workload[k].uid \in Nat
         /\ Len(writes) \in Nat
BY PartsTyped DEF TypeOK, Object

\* Nothing is the same in every state.
LEMMA NothingNumbers ==
  /\ Absent.rev = 0 /\ Absent.uid = 0
  /\ NoForwarder.rev = 0 /\ NoForwarder.uid = 0
  /\ NoContext.rev = 0 /\ NoContext.uid = 0
  /\ Generated.rev = cxt.rev /\ Generated.uid = cxt.uid
BY DEF Absent, NoForwarder, NoContext, Generated

\* How a step changes the last write and the identity of the forwarder.
LastWriteMoves ==
  /\ Len(writes) <= Len(writes') /\ Len(writes') \in Nat
  /\ IF Exists(clf') THEN clf'.rev = Len(writes') ELSE clf' = NoForwarder
  /\ clf'.uid <= clf'.rev /\ clf'.uid \in Nat
  /\ Exists(clf') => clf'.uid # 0
  /\ Exists(clf') /\ Exists(clf) => clf'.uid = clf.uid
  /\ Exists(clf') /\ ~Exists(clf) => clf'.uid = Len(writes) + 1

\* Every step moves the last write that way: a forwarder that stays keeps its
\* uid, one that is created takes a new one.
LEMMA WriteStep ==
  ASSUME TypeOK, [Next]_vars, RevisionInv
  PROVE  LastWriteMoves
<1> USE NumbersTyped, NothingNumbers DEF Exists
<1>1. CASE UNCHANGED <<writes, clf>>
  BY <1>1 DEF RevisionInv, Sound, LastWriteMoves
<1>2. CASE /\ UNCHANGED writes
           /\ Exists(clf) /\ clf'.rev = clf.rev /\ clf'.uid = clf.uid
  BY <1>2 DEF RevisionInv, Sound, LastWriteMoves
<1>3. CASE UNCHANGED writes /\ clf' = NoForwarder
  BY <1>3 DEF LastWriteMoves
<1>4. ASSUME NEW s \in Specs, writes' = Append(writes, s)
      PROVE  Len(writes') = Len(writes) + 1
  BY <1>4 DEF TypeOK
<1>5. ASSUME NEW s \in Specs, Exists(clf), writes' = Append(writes, s),
             clf' = [clf EXCEPT !.rev = Len(writes) + 1]
      PROVE  clf'.rev = Len(writes) + 1 /\ clf'.uid = clf.uid
  BY <1>5 DEF TypeOK, Forwarder
<1>6. ASSUME NEW s \in Specs, Exists(clf), writes' = Append(writes, s),
             clf' = [clf EXCEPT !.rev = Len(writes) + 1]
      PROVE  LastWriteMoves
  BY <1>4, <1>5, <1>6 DEF RevisionInv, Sound, LastWriteMoves
<1>7. ASSUME NEW s \in Specs, ~Exists(clf), writes' = Append(writes, s),
             clf' = [rev |-> Len(writes) + 1, uid |-> Len(writes) + 1,
                     deleting |-> FALSE, status |-> NoStatus]
      PROVE  LastWriteMoves
  BY <1>4, <1>7 DEF LastWriteMoves
<1> QED
  <2>1. \/ UNCHANGED <<writes, clf>>
        \/ /\ UNCHANGED writes
           /\ Exists(clf) /\ clf'.rev = clf.rev /\ clf'.uid = clf.uid
        \/ UNCHANGED writes /\ clf' = NoForwarder
        \/ \E s \in Specs :
             /\ Exists(clf) /\ writes' = Append(writes, s)
             /\ clf' = [clf EXCEPT !.rev = Len(writes) + 1]
        \/ \E s \in Specs :
             /\ ~Exists(clf) /\ writes' = Append(writes, s)
             /\ clf' = [rev |-> Len(writes) + 1, uid |-> Len(writes) + 1,
                        deleting |-> FALSE, status |-> NoStatus]
    BY ForwarderStep
  <2> HIDE DEF Exists
  <2> QED
    BY ONLY <2>1, <1>1, <1>2, <1>3, <1>6, <1>7, Zenon

\* A step preserves that the forwarder is the last write and that every object
\* stems from a write.
LEMMA RevisionStep ==
  ASSUME TypeOK, TypeOK', [Next]_vars, RevisionInv
  PROVE  RevisionInv'
<1> USE NumbersTyped, NothingNumbers
<1> DEFINE SoundNext(rev, uid) ==
             /\ rev <= Len(writes')
             /\ uid <= rev
             /\ rev # 0 => uid # 0
             /\ clf'.rev # 0 => uid <= clf'.uid
<1>1. /\ SoundNext(clf'.rev, clf'.uid) /\ SoundNext(0, 0)
      /\ clf.rev # 0 \/ (clf.rev = 0 /\ clf.uid = 0)
  BY WriteStep DEF Exists, RevisionInv, LastWriteMoves
<1>2. ASSUME NEW o, o.rev \in Nat, o.uid \in Nat, Sound(o)
      PROVE  SoundNext(o.rev, o.uid)
  BY <1>2, WriteStep DEF Sound, Exists, RevisionInv, LastWriteMoves
<1>3. /\ SoundNext(cclf.rev, cclf.uid) /\ SoundNext(cxt.rev, cxt.uid)
      /\ SoundNext(config.rev, config.uid) /\ SoundNext(clf.rev, clf.uid)
      /\ \A k \in Kinds : SoundNext(workload[k].rev, workload[k].uid)
  BY <1>2 DEF RevisionInv
<1> HIDE DEF SoundNext
<1>4. SoundNext(cclf'.rev, cclf'.uid)
  BY <1>3, ForwarderStep
<1>5. SoundNext(cxt'.rev, cxt'.uid)
  BY <1>1, <1>3, ContextStep
<1>6. SoundNext(config'.rev, config'.uid)
  BY <1>1, <1>3, ConfigStep
<1>7. ASSUME NEW k \in Kinds
      PROVE  SoundNext(workload'[k].rev, workload'[k].uid)
  BY <1>1, <1>3, WorkloadStep
<1> QED
  BY <1>1, <1>4, <1>5, <1>6, <1>7, WriteStep
     DEF RevisionInv, Sound, SoundNext, Exists, LastWriteMoves

\* A step preserves that nothing is ahead of the cached forwarder or of the
\* reconcile in flight.
LEMMA OrderStep ==
  ASSUME TypeOK, TypeOK', [Next]_vars, RevisionInv, RevisionInv', OrderInv
  PROVE  OrderInv'
<1> USE NumbersTyped, NothingNumbers
<1> DEFINE Below(o, hi) == o.rev <= hi.rev /\ o.uid <= hi.uid
<1>1. ASSUME NEW hi, hi.rev \in Nat, hi.uid \in Nat,
             Below(config, hi), \A k \in Kinds : Below(workload[k], hi),
             config' # Generated \/ Below(Generated, hi),
             \A k \in Kinds : workload'[k] # Generated \/ Below(Generated, hi)
      PROVE  Below(config', hi) /\ \A k \in Kinds : Below(workload'[k], hi)
  <2>1. Below(Absent, hi)
    BY <1>1
  <2>2. Below(config', hi)
    BY <1>1, <2>1, ConfigStep
  <2>3. ASSUME NEW k \in Kinds PROVE Below(workload'[k], hi)
    <3>1. \/ workload'[k] = workload[k] \/ workload'[k] = Absent
          \/ workload'[k] = Generated
      BY WorkloadStep
    <3> QED
      BY <1>1, <2>1, <3>1
  <2> QED
    BY <2>2, <2>3
<1>2. ASSUME Exists(cclf')
      PROVE  /\ Below(cxt', cclf') /\ Below(config', cclf')
             /\ \A k \in Kinds : Below(workload'[k], cclf')
  <2>1. CASE cclf' = clf /\ clf' = clf
    BY <1>2, <2>1 DEF RevisionInv, Sound, Exists
  <2>2. CASE cclf' = cclf
    <3>1. Below(Generated, cclf)
      BY <1>2, <2>2 DEF OrderInv, Covers
    <3>2. Below(config', cclf) /\ \A k \in Kinds : Below(workload'[k], cclf)
      BY <1>1, <1>2, <2>2, <3>1 DEF OrderInv, Covers
    <3>3. Below(cxt', cclf)
      BY <1>2, <2>2, ContextStep DEF OrderInv, Covers
    <3> QED
      BY <2>2, <3>2, <3>3
  <2> QED
    BY <2>1, <2>2, ForwarderStep
<1>3. ASSUME pc' # "idle"
      PROVE  /\ Exists(cxt') /\ Below(config', cxt')
             /\ \A k \in Kinds : Below(workload'[k], cxt')
  <2>1. CASE /\ pc = "idle" /\ Exists(cclf)
             /\ cxt'.rev = cclf.rev /\ cxt'.uid = cclf.uid
             /\ UNCHANGED <<workload, config>>
    BY <2>1 DEF OrderInv, Covers, Exists
  <2>2. CASE pc # "idle" /\ cxt'.rev = cxt.rev /\ cxt'.uid = cxt.uid
    <3>1. Below(config', cxt) /\ \A k \in Kinds : Below(workload'[k], cxt)
      BY <1>1, <2>2 DEF OrderInv, Covers
    <3> QED
      BY <2>2, <3>1 DEF OrderInv, Exists
  <2>3. CASE UNCHANGED <<pc, cxt>>
    BY <1>3, <2>2, <2>3
  <2> QED
    BY <1>3, <2>1, <2>2, <2>3, ContextStep
<1> QED
  BY <1>2, <1>3 DEF OrderInv, Covers

\* Everything the controller derives from a forwarder stems from a revision
\* that was written, and from none newer than the one it works on.
THEOREM RevisionsOrdered == Spec => [](TypeOK /\ RevisionInv /\ OrderInv)
<1>1. Init => RevisionInv /\ OrderInv
  BY NothingNumbers DEF Init, RevisionInv, OrderInv, Sound, Exists, Covers
<1>2. TypeOK /\ TypeOK' /\ RevisionInv /\ OrderInv /\ [Next]_vars
        => RevisionInv' /\ OrderInv'
  BY RevisionStep, OrderStep
<1> QED
  BY <1>1, <1>2, TypeCorrect, PTL DEF Spec

\* No step replaces a workload or a configuration by one of an older revision.
THEOREM NeverRollsBack == Spec => NoRollback
<1>1. TypeOK /\ OrderInv /\ [Next]_vars
        => [/\ \A k \in Kinds : NeverOlder(workload[k], workload'[k])
            /\ NeverOlder(config, config')]_vars
  <2> SUFFICES ASSUME TypeOK, OrderInv, [Next]_vars
               PROVE  /\ \A k \in Kinds : NeverOlder(workload[k], workload'[k])
                      /\ NeverOlder(config, config')
    OBVIOUS
  <2> USE NumbersTyped, NothingNumbers DEF NeverOlder, Exists
  <2>1. ASSUME NEW k \in Kinds PROVE NeverOlder(workload[k], workload'[k])
    BY WorkloadStep DEF OrderInv, Covers
  <2>2. NeverOlder(config, config')
    BY ConfigStep DEF OrderInv, Covers
  <2> QED
    BY <2>1, <2>2
<1> QED
  BY <1>1, RevisionsOrdered, PTL DEF Spec, NoRollback

-----------------------------------------------------------------------------
(* Only what was approved is deployed *)

\* A reconcile that deploys works on a revision whose validation passed, and
\* so does every workload on the cluster stem from one.
LEMMA ApprovalKept == Spec => []ApprovalInv
<1>1. Init => ApprovalInv
  BY NothingNumbers
     DEF Init, ApprovalInv, DeployedWasApproved, Deploying, Exists
<1>2. TypeOK /\ ApprovalInv /\ [Next]_vars => ApprovalInv'
  <2> SUFFICES ASSUME TypeOK, ApprovalInv, [Next]_vars PROVE ApprovalInv'
    OBVIOUS
  <2>1. pc' \in Deploying => cxt'.rev \in approved'
    BY ContextStep DEF ApprovalInv, Deploying
  <2>2. ASSUME NEW k \in Kinds, Exists(workload'[k])
        PROVE  workload'[k].rev \in approved'
    <3>1. approved \subseteq approved'
      BY ContextStep
    <3> QED
      BY <2>2, <3>1, WorkloadStep, NothingNumbers
         DEF ApprovalInv, DeployedWasApproved, Deploying, Exists
  <2> QED
    BY <2>1, <2>2 DEF ApprovalInv, DeployedWasApproved
<1> QED
  BY <1>1, <1>2, TypeCorrect, PTL DEF Spec

\* However edits, revocations, failures and restarts interleave with the
\* reconciles, a workload stems from a revision whose validation passed.
THEOREM DeployedApproved == Spec => []DeployedWasApproved
<1>1. ApprovalInv => DeployedWasApproved
  BY DEF ApprovalInv
<1> QED
  BY <1>1, ApprovalKept, PTL

\* A revision keeps the spec it was written with.
LEMMA RevisionsStay ==
  ASSUME TypeOK, [Next]_vars, NEW r \in 1..Len(writes)
  PROVE  writes'[r] = writes[r]
<1>1. \/ UNCHANGED writes
      \/ \E s \in Specs : writes' = Append(writes, s)
  BY ForwarderStep
<1> QED
  BY <1>1 DEF TypeOK

\* A workload has the kind its own revision asks for, although the forwarder may
\* have moved on to the other kind.
KindMatchesRevision ==
  \A k \in Kinds :
    Exists(workload[k]) => DesiredKind(writes[workload[k].rev]) = k

LEMMA KindsMatch == Spec => []KindMatchesRevision
<1>1. Init => KindMatchesRevision
  BY NothingNumbers DEF Init, KindMatchesRevision, Exists
<1>2. TypeOK /\ RevisionInv /\ KindMatchesRevision /\ [Next]_vars
        => KindMatchesRevision'
  <2> SUFFICES ASSUME TypeOK, RevisionInv, KindMatchesRevision, [Next]_vars,
                      NEW k \in Kinds, Exists(workload'[k])
               PROVE  DesiredKind(writes'[workload'[k].rev]) = k
    BY DEF KindMatchesRevision, DesiredKind, DeployAsDeployment, InputTypes
  <2>1. CASE workload'[k] = workload[k]
    <3>1. workload[k].rev \in 1..Len(writes)
      BY <2>1, NumbersTyped DEF RevisionInv, Sound, Exists
    <3>2. writes'[workload[k].rev] = writes[workload[k].rev]
      BY <3>1, RevisionsStay
    <3>3. DesiredKind(writes[workload[k].rev]) = k
      BY <2>1 DEF KindMatchesRevision
    <3> QED
      BY <2>1, <3>2, <3>3
  <2>2. CASE /\ k = DesiredKind(writes[cxt.rev]) /\ workload'[k] = Generated
             /\ UNCHANGED writes
    BY <2>2, NothingNumbers
  <2> QED
    BY <2>1, <2>2, WorkloadStep, NothingNumbers DEF Exists
<1> QED
  BY <1>1, <1>2, RevisionsOrdered, PTL DEF Spec

\* A step that removes a workload leaves the others alone, the later ones included:
\* of the stale kind there are only workloads of earlier revisions, and none is
\* ahead of the reconcile.
THEOREM OnlyStaleIsRemoved == Spec => OnlyStaleRemoved
<1>1. ASSUME TypeOK, OrderInv, KindMatchesRevision, NEW k \in Kinds,
             Exists(workload[k]), ~Exists(workload'[k])
      PROVE  /\ RemoveStaleWorkload => workload[k].rev < cxt.rev
             /\ Undeploy => workload[k].rev <= cxt.rev
  <2> USE NumbersTyped, NothingNumbers
  <2>1. pc # "idle" /\ pc # "status" => workload[k].rev <= cxt.rev
    BY <1>1 DEF OrderInv, Covers
  <2>2. ASSUME RemoveStaleWorkload PROVE k = Other(WorkloadKind)
    <3>1. workload' = workload \/ workload' = [workload EXCEPT ![Other(WorkloadKind)] = Absent]
      BY <2>2, Zenon DEF RemoveStaleWorkload, Remove
    <3>2. workload'[k] # workload[k]
      BY <1>1
    <3> QED
      BY <1>1, <3>1, <3>2 DEF TypeOK
  <2>3. Other(WorkloadKind) # WorkloadKind
    BY DEF Other
  <2>4. workload[k].rev = cxt.rev => k = WorkloadKind
    BY <1>1 DEF KindMatchesRevision, WorkloadKind
  <2>5. /\ RemoveStaleWorkload => pc = "removeStale"
        /\ Undeploy => pc = "undeploy"
    BY Zenon DEF RemoveStaleWorkload, Undeploy
  <2> QED
    BY <1>1, <2>1, <2>2, <2>3, <2>4, <2>5
<1>2. TypeOK /\ OrderInv /\ KindMatchesRevision
        => [\A k \in Kinds :
              Exists(workload[k]) /\ ~Exists(workload'[k]) =>
                /\ RemoveStaleWorkload => workload[k].rev < cxt.rev
                /\ Undeploy => workload[k].rev <= cxt.rev]_vars
  BY <1>1
<1> QED
  BY <1>2, RevisionsOrdered, KindsMatch, PTL DEF OnlyStaleRemoved

-----------------------------------------------------------------------------
(* A workload finds its configuration *)

\* A forwarder that is alive after a step, and is not a new one, was alive
\* before it.
LEMMA OwnerStep ==
  ASSUME TypeOK, [Next]_vars, RevisionInv, NEW u \in Nat,
         u # 0, u <= Len(writes), clf'.uid = u, ~clf'.deleting
  PROVE  clf.uid = u /\ ~clf.deleting
<1> USE NumbersTyped, NothingNumbers
<1>1. CASE UNCHANGED clf
  BY <1>1
<1>2. CASE clf'.uid = clf.uid /\ (clf.deleting => clf'.deleting)
  BY <1>2
<1>3. CASE clf' = [clf EXCEPT !.rev = Len(writes) + 1]
  BY <1>3 DEF TypeOK, Forwarder
<1>4. CASE clf' = [rev |-> Len(writes) + 1, uid |-> Len(writes) + 1,
                   deleting |-> FALSE, status |-> NoStatus]
  BY <1>4
<1> QED
  BY <1>1, <1>2, <1>3, <1>4, ForwarderStep

\* The step that writes the workload is entered by writing the configuration.
LEMMA ConfigFirst ==
  ASSUME TypeOK, [Next]_vars, pc' = "workload"
  PROVE  /\ cxt' = cxt
         /\ pc = "workload" \/ (config' = Generated /\ UNCHANGED clf)
<1> USE DEF TypeOK, apiVars, cacheVars, Goto, DeploymentError, Finish
<1>1. CASE ReconcileConfig
  BY <1>1 DEF ReconcileConfig
<1>2. CASE \/ Fetch \/ Initialize \/ Validate \/ Undeploy \/ RemoveStaleWorkload
           \/ ReconcileAccess \/ ReconcileWorkload \/ ReconcileExposure
           \/ UpdateStatus \/ Cleanup \/ Restart
  BY <1>2 DEF Fetch, Initialize, Validate, Undeploy, RemoveStaleWorkload,
              ReconcileAccess, ReconcileWorkload, ReconcileExposure,
              UpdateStatus, Cleanup, Restart
<1>3. ASSUME \/ \E j \in Kinds : \/ DeleteWorkload(j) \/ CollectWorkload(j)
                               \/ SyncWorkload(j)
             \/ \E s \in Specs : CreateForwarder(s) \/ EditForwarder(s)
             \/ \E g \in Grants : ChangeGrants(g)
      PROVE  UNCHANGED <<pc, cxt>>
  BY <1>3 DEF DeleteWorkload, CollectWorkload, SyncWorkload, CreateForwarder,
              EditForwarder, ChangeGrants
<1>4. CASE \/ DeleteInBackground \/ DeleteInForeground \/ FinishDeletion
           \/ ToggleServiceAccount \/ ToggleSecret \/ FetchFails
           \/ CollectConfig \/ SyncForwarder \/ Resync \/ PeriodicRequeue
           \/ FetchNotFound
  BY <1>4 DEF DeleteInBackground, DeleteInForeground, FinishDeletion,
              ToggleServiceAccount, ToggleSecret, FetchFails, CollectConfig,
              SyncForwarder, Resync, PeriodicRequeue, FetchNotFound
<1>5. CASE UNCHANGED vars
  BY <1>5 DEF vars
<1> QED
  BY <1>1, <1>2, <1>3, <1>4, <1>5
     DEF Next, Reconcile, Informers, GarbageCollector, Disturbance

\* As long as its owner lives, a workload has a configuration that is not
\* older than itself.
THEOREM ConfigComesFirst == Spec => []ConfigNotOlder
<1>1. Init => ConfigInv
  BY NothingNumbers DEF Init, ConfigInv, ConfigNotOlder, Exists
<1>2. TypeOK /\ RevisionInv /\ OrderInv /\ ConfigInv /\ [Next]_vars
        => ConfigInv'
  <2> SUFFICES ASSUME TypeOK, RevisionInv, OrderInv, ConfigInv, [Next]_vars
               PROVE  ConfigInv'
    OBVIOUS
  <2> USE NumbersTyped, NothingNumbers
  <2>1. ASSUME pc' = "workload", cxt'.uid = clf'.uid, ~clf'.deleting
        PROVE  config' = Generated'
    <3>1. cxt' = cxt /\ Generated' = Generated
      BY <2>1, ConfigFirst DEF Generated
    <3>2. CASE config' = Generated
      BY <3>1, <3>2
    <3>3. CASE pc = "workload"
      <4>1. cxt.uid # 0 /\ cxt.uid <= Len(writes)
        BY <3>3 DEF OrderInv, RevisionInv, Sound, Exists
      <4>2. clf.uid = cxt.uid /\ ~clf.deleting
        BY <2>1, <3>1, <4>1, OwnerStep
      <4>3. config = Generated
        BY <3>3, <4>2 DEF ConfigInv
      <4> QED
        BY <3>1, <3>3, <4>2, <4>3, ConfigStep DEF Orphaned
    <3> QED
      BY <2>1, <3>2, <3>3, ConfigFirst
  <2>2. ASSUME NEW k \in Kinds, Exists(workload'[k]),
               workload'[k].uid = clf'.uid, ~clf'.deleting
        PROVE  config'.uid = clf'.uid /\ config'.rev >= workload'[k].rev
    <3>1. CASE workload'[k] = workload[k]
      <4>1. workload[k].uid # 0 /\ workload[k].uid <= Len(writes)
        BY <2>2, <3>1 DEF RevisionInv, Sound, Exists
      <4>2. clf.uid = workload[k].uid /\ ~clf.deleting
        BY <2>2, <3>1, <4>1, OwnerStep
      <4>3. config.uid = clf.uid /\ config.rev >= workload[k].rev
        BY <2>2, <3>1, <4>2 DEF ConfigInv, ConfigNotOlder
      <4>4. CASE config' = config
        BY <2>2, <3>1, <4>2, <4>3, <4>4
      <4>5. CASE pc = "config" /\ config' = Generated
        <5>1. Covers(cxt, workload[k])
          BY <4>5 DEF OrderInv
        <5>2. Exists(clf)
          BY <4>1, <4>2 DEF RevisionInv
        <5>3. cxt.uid <= clf.uid
          BY <5>2 DEF RevisionInv, Sound
        <5>4. cxt.uid = clf.uid /\ cxt.rev >= workload[k].rev
          BY <4>2, <5>1, <5>3 DEF Covers
        <5> QED
          BY <2>2, <3>1, <4>2, <4>5, <5>4
      <4> QED
        BY <4>2, <4>3, <4>4, <4>5, ConfigStep DEF Orphaned
    <3>2. CASE /\ pc = "workload" /\ workload'[k] = Generated
               /\ UNCHANGED <<clf, config>>
      BY <2>2, <3>2 DEF ConfigInv
    <3> QED
      BY <2>2, <3>1, <3>2, WorkloadStep DEF Exists
  <2> QED
    BY <2>1, <2>2 DEF ConfigInv, ConfigNotOlder
<1>3. ConfigInv => ConfigNotOlder
  BY DEF ConfigInv
<1> QED
  BY <1>1, <1>2, <1>3, RevisionsOrdered, PTL DEF Spec

-----------------------------------------------------------------------------
(* Ready is backed *)

\* A forwarder that reports Ready=True was found authorized and valid by the
\* reconcile that reports it.
THEOREM ReadyBacked == Spec => []ReadyIsBacked
<1>1. Init => BackedInv
  BY DEF Init, BackedInv, Backed, NoForwarder, NoContext, NoStatus, Deploying
<1>2. TypeOK /\ BackedInv /\ [Next]_vars => BackedInv'
  <2> SUFFICES ASSUME TypeOK, BackedInv, [Next]_vars PROVE BackedInv'
    OBVIOUS
  <2>1. Backed(NoStatus) /\ NoForwarder.status = NoStatus
          /\ NoContext.status = NoStatus
    BY DEF Backed, NoStatus, NoForwarder, NoContext
  <2>2. Backed(clf'.status)
    <3>1. \/ clf' = clf
          \/ clf'.status \in {clf.status, cxt.status, NoStatus}
          \/ clf' = [clf EXCEPT !.rev = Len(writes) + 1]
      BY ForwarderStep, <2>1
    <3>2. clf'.status \in {clf.status, cxt.status, NoStatus}
      BY <3>1 DEF TypeOK, Forwarder
    <3> QED
      BY <2>1, <3>2 DEF BackedInv
  <2>3. Backed(cclf'.status)
    BY ForwarderStep DEF BackedInv
  <2>4. pc' \in Deploying => Passed(cxt'.status)
    BY ContextStep DEF BackedInv, Deploying
  <2>5. pc' \notin {"idle", "cleanup", "status"} => cxt'.status.ready # "True"
    BY ContextStep DEF BackedInv, Deploying
  <2>6. Backed(cxt'.status)
    BY <2>1, ContextStep DEF BackedInv, Backed, Passed, Deploying
  <2> QED
    BY <2>2, <2>3, <2>4, <2>5, <2>6 DEF BackedInv
<1>3. BackedInv => ReadyIsBacked
  BY DEF BackedInv, Backed, Passed, ReadyIsBacked
<1> QED
  BY <1>1, <1>2, <1>3, TypeCorrect, PTL DEF Spec

-----------------------------------------------------------------------------
(* The reconcile loop implements the rollout its users are promised.         *)

\* A reconcile about to write a workload finds the configuration it has
\* written, or none if that was collected with a forwarder that went away.
MountInv == pc = "workload" => config \in {Generated, Absent}

\* Nobody else writes the configuration between the two steps.
LEMMA MountKept == Spec => []MountInv
<1>1. Init => MountInv
  BY DEF Init, MountInv
<1>2. TypeOK /\ MountInv /\ [Next]_vars => MountInv'
  <2> SUFFICES ASSUME TypeOK, MountInv, [Next]_vars, pc' = "workload"
               PROVE  config' \in {Generated', Absent}
    BY DEF MountInv, Absent
  <2>1. Generated' = Generated
    BY ConfigFirst DEF Generated
  <2> QED
    BY <2>1, ConfigFirst, ConfigStep DEF MountInv
<1> QED
  BY <1>1, <1>2, TypeCorrect, PTL DEF Spec

RolloutInv ==
  TypeOK /\ RevisionInv /\ OrderInv /\ ApprovalInv /\ MountInv

-----------------------------------------------------------------------------
(* What the steps of the loop are to its users *)

Running == [k \in Kinds |-> workload[k].rev]

\* Removing the workload of one kind stops that kind of collector.
LEMMA RemovalStops ==
  ASSUME TypeOK, NEW k \in Kinds,
         workload' = [workload EXCEPT ![k] = Absent],
         UNCHANGED <<writes, approved, config>>
  PROVE  Rollout!Stop(k)
<1>1. Running' = [Running EXCEPT ![k] = 0]
  BY NothingNumbers DEF TypeOK, Running
<1> QED
  BY <1>1 DEF Rollout!Stop, Running

\* Writing the forwarder requests a revision.
LEMMA WriteRequests ==
  ASSUME TypeOK, NEW s \in Specs, CreateForwarder(s) \/ EditForwarder(s)
  PROVE  Rollout!Request
<1>1. writes' = Append(writes, s) /\ UNCHANGED <<workload, config, approved>>
  BY DEF CreateForwarder, EditForwarder
<1>2. Len(writes') = Len(writes) + 1
  BY <1>1 DEF TypeOK
<1> QED
  BY <1>1, <1>2 DEF Rollout!Request

\* A validation approves the revision in flight, or nothing.
LEMMA ValidationApproves ==
  ASSUME RolloutInv, Validate
  PROVE  \/ Rollout!Approve(cxt.rev) /\ cxt.rev \in 1..Len(writes)
         \/ UNCHANGED <<writes, approved, config, workload>>
<1>1. cxt.rev \in 1..Len(writes)
  BY NumbersTyped
     DEF RolloutInv, OrderInv, RevisionInv, Sound, Exists, Validate
<1>2. UNCHANGED <<writes, config, workload>>
  BY DEF Validate, apiVars
<1>3. approved' = approved \cup {cxt.rev} \/ UNCHANGED approved
  BY DEF Validate
<1> QED
  BY <1>1, <1>2, <1>3 DEF Rollout!Approve

\* Writing the ConfigMap configures the revision in flight.
LEMMA ConfigConfigures ==
  ASSUME RolloutInv, ReconcileConfig
  PROVE  \/ Rollout!Configure(cxt.rev) /\ cxt.rev \in approved
         \/ UNCHANGED <<writes, approved, config, workload>>
<1>1. UNCHANGED <<writes, approved, workload>>
  BY DEF ReconcileConfig
<1>2. CASE config' = Generated
  <2>1. cxt.rev \in approved
    BY DEF RolloutInv, ApprovalInv, Deploying, ReconcileConfig
  <2>2. config.rev <= cxt.rev /\ \A k \in Kinds : Running[k] <= cxt.rev
    BY DEF RolloutInv, OrderInv, Covers, ReconcileConfig, Running
  <2>3. config'.rev = cxt.rev
    BY <1>2, NothingNumbers
  <2> QED
    BY <1>1, <2>1, <2>2, <2>3 DEF Rollout!Configure, Running
<1> QED
  BY <1>1, <1>2 DEF ReconcileConfig

\* Creating or updating the workload runs the revision in flight.
LEMMA WorkloadRuns ==
  ASSUME RolloutInv, ReconcileWorkload
  PROVE  \/ Rollout!Run(WorkloadKind, cxt.rev) /\ cxt.rev \in approved
         \/ UNCHANGED <<writes, approved, config, workload>>
<1>1. UNCHANGED <<writes, approved, config>>
  BY DEF ReconcileWorkload
<1>2. CASE workload' = [workload EXCEPT ![WorkloadKind] = Generated]
  <2>0. WorkloadKind \in Kinds
    BY DEF WorkloadKind, DesiredKind, Kinds
  <2>1. cxt.rev \in approved
    BY DEF RolloutInv, ApprovalInv, Deploying, ReconcileWorkload
  <2>2. config.rev \in {0, cxt.rev}
    BY NothingNumbers DEF RolloutInv, MountInv, ReconcileWorkload
  <2>3. Running[WorkloadKind] <= cxt.rev
    BY <2>0 DEF RolloutInv, OrderInv, Covers, ReconcileWorkload, Running
  <2>4. Running' = [Running EXCEPT ![WorkloadKind] = cxt.rev]
    BY <1>2, <2>0, NothingNumbers DEF RolloutInv, TypeOK, Running
  <2> QED
    BY <1>1, <2>1, <2>2, <2>3, <2>4 DEF Rollout!Run, Running
<1> QED
  BY <1>1, <1>2 DEF ReconcileWorkload

\* Every step of the loop is a step of the rollout, or none.
LEMMA StepRefines ==
  ASSUME RolloutInv, [Next]_vars
  PROVE  [Rollout!RolloutNext]_(Rollout!rolloutVars)
<1> DEFINE Same == UNCHANGED <<writes, approved, config, workload>>
<1>1. Same => UNCHANGED Rollout!rolloutVars
  BY DEF Rollout!rolloutVars
<1>2. ASSUME NEW s \in Specs, CreateForwarder(s) \/ EditForwarder(s)
      PROVE  Rollout!Request
  BY <1>2, WriteRequests DEF RolloutInv
<1>3. CASE Validate
  BY <1>1, <1>3, ValidationApproves DEF Rollout!RolloutNext
<1>4. CASE ReconcileConfig
  BY <1>1, <1>4, ConfigConfigures DEF Rollout!RolloutNext
<1>5. CASE ReconcileWorkload
  <2>1. WorkloadKind \in Kinds
    BY DEF WorkloadKind, DesiredKind, Kinds
  <2>2. CASE Rollout!Run(WorkloadKind, cxt.rev) /\ cxt.rev \in approved
    <3>1. \E k \in Kinds, r \in approved : Rollout!Run(k, r)
      BY <2>1, <2>2 DEF Rollout!Run
    <3> QED
      BY <3>1 DEF Rollout!RolloutNext
  <2> QED
    BY <1>1, <1>5, <2>2, WorkloadRuns
<1>6. ASSUME NEW k \in Kinds, DeleteWorkload(k) \/ CollectWorkload(k)
      PROVE  Rollout!Stop(k)
  BY <1>6, RemovalStops DEF RolloutInv, DeleteWorkload, CollectWorkload
<1>7. CASE Undeploy \/ RemoveStaleWorkload
  <2>1. UNCHANGED <<writes, approved, config>>
    BY <1>7 DEF Undeploy, RemoveStaleWorkload
  <2>2. \/ UNCHANGED workload
        \/ \E k \in Kinds : workload' = [workload EXCEPT ![k] = Absent]
    <3>1. WorkloadKind \in Kinds /\ Other(WorkloadKind) \in Kinds
      BY DEF WorkloadKind, DesiredKind, Kinds, Other
    <3> QED
      BY <1>7, <3>1 DEF Undeploy, RemoveStaleWorkload, Remove
  <2> QED
    BY <1>1, <2>1, <2>2, RemovalStops DEF RolloutInv, Rollout!RolloutNext
<1>8. CASE CollectConfig
  BY <1>8, NothingNumbers DEF CollectConfig, Rollout!Unconfigure,
                              Rollout!RolloutNext
<1>9. ASSUME \/ \E j \in Kinds : SyncWorkload(j)
             \/ \E g \in Grants : ChangeGrants(g)
      PROVE  Same
  BY <1>9 DEF SyncWorkload, ChangeGrants, apiVars
<1>10. ASSUME \/ DeleteInBackground \/ DeleteInForeground \/ FinishDeletion
              \/ ToggleServiceAccount \/ ToggleSecret \/ Restart \/ FetchFails
              \/ SyncForwarder \/ Resync \/ PeriodicRequeue
       PROVE  Same
  BY <1>10 DEF DeleteInBackground, DeleteInForeground, FinishDeletion,
               ToggleServiceAccount, ToggleSecret, Restart, FetchFails,
               SyncForwarder, Resync, PeriodicRequeue, apiVars
<1>11. ASSUME \/ FetchNotFound \/ Fetch \/ Cleanup \/ Initialize
              \/ ReconcileAccess \/ ReconcileExposure \/ UpdateStatus
       PROVE  Same
  BY <1>11 DEF FetchNotFound, Fetch, Cleanup, Initialize, ReconcileAccess,
               ReconcileExposure, UpdateStatus, apiVars
<1>12. ASSUME UNCHANGED vars PROVE Same
  BY <1>12 DEF vars
<1> HIDE DEF Same
<1>13. CASE Same
  BY <1>1, <1>13
<1>14. CASE Rollout!Request \/ \E k \in Kinds : Rollout!Stop(k)
  BY <1>14 DEF Rollout!RolloutNext
<1> QED
  BY <1>2, <1>3, <1>4, <1>5, <1>6, <1>7, <1>8, <1>9, <1>10, <1>11, <1>12,
     <1>13, <1>14
     DEF Next, Reconcile, Informers, GarbageCollector, Disturbance

\* The reconcile loop implements the promised rollout, for any specs and any
\* number of edits, revocations, failures, restarts and deletions.
THEOREM ImplementsRollout == Spec => RolloutRefined
<1>1. Init => Rollout!RolloutInit
  BY NothingNumbers DEF Init, Rollout!RolloutInit
<1>2. Spec => []RolloutInv
  BY RevisionsOrdered, ApprovalKept, MountKept, PTL DEF RolloutInv
<1> QED
  BY <1>1, <1>2, StepRefines, PTL DEF Spec, RolloutRefined, Rollout!RolloutSpec

=============================================================================
