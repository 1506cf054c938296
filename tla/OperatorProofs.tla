---------------------------- MODULE OperatorProofs ----------------------------
(***************************************************************************)
(* Safety of the operator's processes: of those that share the console      *)
(* dashboard, for any number of processes and versions, and of the one that *)
(* follows the TLS profile, for every set of profiles and any number of     *)
(* changes, failures and crashes.  That the dashboard comes back, the queue *)
(* is eventually empty and the cache eventually current is left to TLC.     *)
(***************************************************************************)
EXTENDS Dashboard, TLSProfile, TLAPS

-----------------------------------------------------------------------------
(* The dashboard.  The inductive invariant is ReadsHold; every step either   *)
(* changes the ConfigMap, which outdates what every process has read, or is  *)
(* one process's own.                                                        *)

Places == Watching \cup Seeding \cup {"down", "seeded", "exit", "delete", "gone"}

\* What the invariant says about one process.
Holds(p) ==
  /\ event[p] => pc[p] \in Watching
  /\ pc[p] \in {"seedWrite", "write"} /\ ~stale[p] => seen[p] = dash
  /\ pc[p] = "delete" /\ ~stale[p] => \E d \in dash : d.managed /\ d.version = version[p]

LEMMA OwnIsConfigMap ==
  ASSUME DashboardTypeOK, NEW p \in Processes
  PROVE  newDashboardConfigMap(p) \in ConfigMaps
BY DEF DashboardTypeOK, newDashboardConfigMap, ConfigMaps

LEMMA InitReadsHold == Init => ReadsHold
<1> SUFFICES ASSUME Init
             PROVE  ReadsHold
  OBVIOUS
<1>1. dash \subseteq ConfigMaps /\ \A d, e \in dash : d = e
  <2>1. \A p \in Leaving : newDashboardConfigMap(p) \in ConfigMaps
    BY LeavingAssumption DEF Init, newDashboardConfigMap, ConfigMaps
  <2>2. dash = {} \/ \E p \in Leaving : dash = {newDashboardConfigMap(p)}
    BY DEF Init
  <2> QED
    BY <2>1, <2>2
<1>2. pc \in [Processes -> Places] /\ \A p \in Processes : pc[p] \in {"idle", "down"}
  BY DEF Init, Places, Watching
<1>3. DashboardTypeOK
  BY <1>1, <1>2, BoundsAssumption DEF Init, DashboardTypeOK, Places
<1> QED
  BY <1>2, <1>3 DEF Init, ReadsHold

-----------------------------------------------------------------------------
(* Steps *)

\* The ConfigMap is changed; no process loses its watch by that.
LEMMA PutKeeps ==
  ASSUME ReadsHold, NEW d \in SUBSET ConfigMaps, \A x, y \in d : x = y, Put(d),
         UNCHANGED <<version, seen>>, pc' \in [Processes -> Places],
         \A q \in Processes : pc[q] \in Watching => pc'[q] \in Watching,
         crashes' \in 0..MaxCrashes, edits' \in 0..MaxEdits
  PROVE  ReadsHold'
<1>1. dash' = d /\ \A q \in Processes : stale'[q] = TRUE
  BY DEF Put
<1>2. stale' \in [Processes -> BOOLEAN] /\ event' \in [Processes -> BOOLEAN]
  BY DEF Put, ReadsHold, DashboardTypeOK
<1>3. \A q \in Processes : event'[q] => pc'[q] \in Watching
  BY DEF Put, ReadsHold
<1>4. DashboardTypeOK'
  BY <1>1, <1>2 DEF ReadsHold, DashboardTypeOK, Places
<1> QED
  BY <1>1, <1>3, <1>4 DEF ReadsHold

\* A step of one process that leaves the ConfigMap as it is.
OwnStep(p) ==
  /\ \A q \in Processes \ {p} :
       pc'[q] = pc[q] /\ seen'[q] = seen[q] /\ stale'[q] = stale[q] /\ event'[q] = event[q]
  /\ UNCHANGED <<dash, version, edits>>

LEMMA OwnStepKeeps ==
  ASSUME ReadsHold, NEW p \in Processes, OwnStep(p), DashboardTypeOK', Holds(p)'
  PROVE  ReadsHold'
BY DEF ReadsHold, Holds, OwnStep

-----------------------------------------------------------------------------
(* Actions of a process *)

LEMMA StepKeeps ==
  ASSUME ReadsHold, NEW p \in Processes, Step(p) \/ Crash(p) \/ CallFails(p)
  PROVE  ReadsHold'
<1>0. DashboardTypeOK /\ crashes' \in 0..MaxCrashes /\ Holds(p)
  BY BoundsAssumption DEF ReadsHold, Holds, DashboardTypeOK, Step, Start, Reconcile, ReconcileForDashboards,
       Configmap, SetupWithManager, Terminate, ReadForRemoval, RemoveDashboardConfigMap, Crash, CallFails
<1>1. pc \in [Processes -> Places] /\ pc[p] \in Places
  BY <1>0 DEF DashboardTypeOK, Places
<1>2. {newDashboardConfigMap(p)} \in SUBSET ConfigMaps
  BY <1>0, OwnIsConfigMap
<1> USE DEF Watching, Seeding
<1>3. CASE Start(p)
  <2>1. OwnStep(p) /\ DashboardTypeOK' /\ Holds(p)'
    BY <1>0, <1>3 DEF DashboardTypeOK, Start, OwnStep, Holds
  <2> QED
    BY <2>1, OwnStepKeeps
<1>4. CASE Reconcile(p)
  <2>1. OwnStep(p) /\ DashboardTypeOK' /\ Holds(p)'
    BY <1>0, <1>4 DEF DashboardTypeOK, Reconcile, OwnStep, Holds
  <2> QED
    BY <2>1, OwnStepKeeps
<1>5. CASE ReconcileForDashboards(p)
  <2>1. OwnStep(p) /\ DashboardTypeOK'
    BY <1>0, <1>5 DEF DashboardTypeOK, ReconcileForDashboards, Done, OwnStep
  <2>2. Holds(p)'
    BY <1>0, <1>5 DEF DashboardTypeOK, ReconcileForDashboards, Done, Holds
  <2> QED
    BY <2>1, <2>2, OwnStepKeeps
<1>6. ASSUME Failed(p), UNCHANGED <<dash, version, seen, stale, edits>>,
             pc[p] \in {"seedRead", "seedWrite", "read", "write"}
      PROVE  ReadsHold'
  <2>1. OwnStep(p) /\ DashboardTypeOK'
    BY <1>0, <1>6 DEF DashboardTypeOK, Failed, OwnStep
  <2>2. Holds(p)'
    BY <1>0, <1>6 DEF DashboardTypeOK, Failed, Holds
  <2> QED
    BY <2>1, <2>2, OwnStepKeeps
<1>7. CASE Configmap(p)
  <2>1. CASE Put({newDashboardConfigMap(p)}) /\ Done(p)
    <3>1. pc' \in [Processes -> Places] /\ \A q \in Processes : pc[q] \in Watching => pc'[q] \in Watching
      BY <1>1, <1>7, <2>1 DEF Configmap, Done, Places
    <3>2. UNCHANGED <<version, seen>> /\ edits' \in 0..MaxEdits
      BY <1>0, <1>7 DEF Configmap, DashboardTypeOK
    <3> QED
      BY <1>0, <1>2, <2>1, <3>1, <3>2, PutKeeps
  <2>2. CASE Failed(p) /\ UNCHANGED <<dash, stale>>
    BY <1>6, <1>7, <2>2 DEF Configmap
  <2>3. CASE /\ pc' = [pc EXCEPT ![p] = IF @ = "write" THEN "read" ELSE "seedRead"]
             /\ UNCHANGED <<dash, stale, event>>
    <3>1. OwnStep(p) /\ DashboardTypeOK' /\ Holds(p)'
      BY <1>0, <1>7, <2>3 DEF DashboardTypeOK, Configmap, OwnStep, Holds
    <3> QED
      BY <3>1, OwnStepKeeps
  <2> QED
    BY <1>7, <2>1, <2>2, <2>3 DEF Configmap
<1>8. CASE SetupWithManager(p)
  <2>1. OwnStep(p) /\ DashboardTypeOK' /\ Holds(p)'
    BY <1>0, <1>8 DEF DashboardTypeOK, SetupWithManager, OwnStep, Holds
  <2> QED
    BY <2>1, OwnStepKeeps
<1>9. CASE Terminate(p)
  <2>1. OwnStep(p) /\ DashboardTypeOK' /\ Holds(p)'
    BY <1>0, <1>9 DEF DashboardTypeOK, Terminate, OwnStep, Holds
  <2> QED
    BY <2>1, OwnStepKeeps
<1>10. CASE ReadForRemoval(p)
  <2>1. OwnStep(p) /\ DashboardTypeOK'
    BY <1>0, <1>10 DEF DashboardTypeOK, ReadForRemoval, OwnStep
  <2>2. Holds(p)'
    BY <1>0, <1>10 DEF DashboardTypeOK, ReadForRemoval, Holds
  <2> QED
    BY <2>1, <2>2, OwnStepKeeps
<1>11. CASE RemoveDashboardConfigMap(p)
  <2>1. pc' \in [Processes -> Places] /\ \A q \in Processes : pc[q] \in Watching => pc'[q] \in Watching
    BY <1>1, <1>11 DEF RemoveDashboardConfigMap, Places
  <2>2. Put({}) /\ UNCHANGED <<version, seen>> /\ edits' \in 0..MaxEdits
    BY <1>0, <1>11 DEF RemoveDashboardConfigMap, DashboardTypeOK
  <2> QED
    BY <1>0, <2>1, <2>2, PutKeeps
<1>12. CASE Crash(p)
  <2>1. OwnStep(p) /\ DashboardTypeOK' /\ Holds(p)'
    BY <1>0, <1>12 DEF DashboardTypeOK, Crash, OwnStep, Holds
  <2> QED
    BY <2>1, OwnStepKeeps
<1>13. CASE CallFails(p)
  BY <1>6, <1>13 DEF CallFails
<1> QED
  BY <1>3, <1>4, <1>5, <1>7, <1>8, <1>9, <1>10, <1>11, <1>12, <1>13 DEF Step

LEMMA EditKeeps ==
  ASSUME ReadsHold, Edit
  PROVE  ReadsHold'
<1>1. /\ DashboardTypeOK /\ crashes' \in 0..MaxCrashes /\ edits' \in 0..MaxEdits
      /\ pc' \in [Processes -> Places] /\ UNCHANGED <<version, pc, seen>>
  BY BoundsAssumption DEF ReadsHold, DashboardTypeOK, Edit, Places
<1>2. PICK d \in SUBSET ConfigMaps : Put(d) /\ \A x, y \in d : x = y
  <2>1. CASE Put({})
    BY <2>1
  <2>2. ASSUME NEW d \in dash,
               Put({[d EXCEPT !.data = "edited"]}) \/ Put({[d EXCEPT !.managed = FALSE]})
        PROVE  \E x \in ConfigMaps : Put({x})
    <3>1. d \in ConfigMaps
      BY <1>1 DEF DashboardTypeOK
    <3>2. [d EXCEPT !.data = "edited"] \in ConfigMaps /\ [d EXCEPT !.managed = FALSE] \in ConfigMaps
      BY <3>1 DEF ConfigMaps
    <3> QED
      BY <2>2, <3>2
  <2>3. \A x \in ConfigMaps : {x} \in SUBSET ConfigMaps /\ \A y, z \in {x} : y = z
    OBVIOUS
  <2> QED
    BY <2>1, <2>2, <2>3 DEF Edit
<1> QED
  BY <1>1, <1>2, PutKeeps

LEMMA NextKeeps == ReadsHold /\ [Next]_vars => ReadsHold'
<1> SUFFICES ASSUME ReadsHold, [Next]_vars
             PROVE  ReadsHold'
  OBVIOUS
<1>1. CASE UNCHANGED vars
  BY <1>1 DEF vars, ReadsHold, DashboardTypeOK
<1> QED
  BY <1>1, StepKeeps, EditKeeps DEF Next

-----------------------------------------------------------------------------
(* Theorems *)

\* What a process read stays true until the ConfigMap changes, in every
\* interleaving of any number of processes, crashes and edits
\* (dashboards.go:69-107).
THEOREM ReadsAlwaysHold == Spec => []ReadsHold
BY InitReadsHold, NextKeeps, PTL DEF Spec

-----------------------------------------------------------------------------
(* The TLS profile. *)

\* Resolving a profile, or its absence, gives settings.
LEMMA SettingsType ==
  ASSUME NEW p
  PROVE  GetClusterTLSProfileSpec(p) \in Settings
BY DEF GetClusterTLSProfileSpec, Settings

LEMMA FailuresType ==
  ASSUME TLSTypeOK, Fails \/ Succeeds
  PROVE  failures' \in 0..MaxFailures
BY ChangesAssumption DEF TLSTypeOK, Fails, Succeeds

\* What a read of the profile may come back with.
LEMMA FetchedType ==
  ASSUME TLSTypeOK, NEW p, NEW q, Fetched(p, q)
  PROVE  failures' \in 0..MaxFailures
BY FailuresType DEF Fetched

LEMMA InitQueued == TLSInit => StaleIsQueued
<1> SUFFICES ASSUME TLSInit
             PROVE  StaleIsQueued
  OBVIOUS
<1>1. changes \in 0..MaxChanges /\ failures \in 0..MaxFailures
  BY ChangesAssumption DEF TLSInit
<1>2. TLSTypeOK
  BY <1>1 DEF TLSInit, TLSTypeOK, Settings
<1> QED
  BY <1>2 DEF TLSInit, StaleIsQueued

-----------------------------------------------------------------------------
LEMMA StartUpQueued ==
  ASSUME StaleIsQueued, StartUp
  PROVE  StaleIsQueued'
<1>0. TLSTypeOK
  BY DEF StaleIsQueued
<1>1. CASE GetTLSConfigOptions
  <2>1. PICK q \in Profiles \cup {Nil} : Fetched(profile, q) /\ served' = GetClusterTLSProfileSpec(q)
    BY <1>1 DEF GetTLSConfigOptions
  <2>2. served' \in Settings /\ failures' \in 0..MaxFailures
    BY <1>0, <2>1, SettingsType, FetchedType
  <2> QED
    BY <1>0, <1>1, <2>2 DEF GetTLSConfigOptions, StaleIsQueued, TLSTypeOK, collector
<1>2. CASE FetchInitialProfile
  <2>1. PICK q \in Profiles \cup {Nil} : Fetched(profile, q) /\ initial' = q
    BY <1>2 DEF FetchInitialProfile
  <2>2. failures' \in 0..MaxFailures
    BY <1>0, <2>1, FetchedType
  <2> QED
    BY <1>0, <1>2, <2>1, <2>2 DEF FetchInitialProfile, StaleIsQueued, TLSTypeOK, collector
<1>3. CASE StartManager
  BY <1>0, <1>3 DEF StartManager, StaleIsQueued, TLSTypeOK, collector
<1> QED
  BY <1>1, <1>2, <1>3 DEF StartUp

\* The process forgets all of it.
LEMMA ExitsQueued ==
  ASSUME TLSTypeOK, Exits, failures' \in 0..MaxFailures
  PROVE  StaleIsQueued'
BY DEF Exits, StaleIsQueued, TLSTypeOK, Settings, collector

\* The update that makes the cache differ is the one that enqueues; the request
\* is taken off the queue only by a comparison that finds no difference.
LEMMA WatchQueued ==
  ASSUME StaleIsQueued, APIServerUpdated \/ ReconcileProfile
  PROVE  StaleIsQueued'
<1>0. TLSTypeOK
  BY DEF StaleIsQueued
<1>1. failures' \in 0..MaxFailures
  BY <1>0, FailuresType DEF APIServerUpdated, ReconcileProfile
<1>2. CASE APIServerUpdated
  BY <1>0, <1>1, <1>2 DEF APIServerUpdated, ProfileChanged, StaleIsQueued, TLSTypeOK, collector
<1>3. CASE ReconcileProfile
  <2>1. CASE Exits
    BY <1>0, <1>1, <2>1, ExitsQueued
  <2>2. CASE /\ cached = initial /\ tlsQueued' = FALSE
             /\ UNCHANGED <<profile, phase, served, initial, listed, cached, clfQueued, clfStep, collector, changes>>
    BY <1>0, <1>1, <2>2 DEF StaleIsQueued, TLSTypeOK, collector
  <2>3. CASE UNCHANGED <<profile, phase, process, collector, changes>>
    BY <1>0, <1>1, <2>3 DEF StaleIsQueued, TLSTypeOK, collector, process
  <2> QED
    BY <1>3, <2>1, <2>2, <2>3 DEF ReconcileProfile
<1> QED
  BY <1>2, <1>3

LEMMA ForwarderQueued ==
  ASSUME StaleIsQueued, ForwarderReconcile \/ RequeueForwarder
  PROVE  StaleIsQueued'
<1>0. TLSTypeOK
  BY DEF StaleIsQueued
<1>1. CASE StartReconcile \/ RequeueForwarder
  BY <1>0, <1>1 DEF StartReconcile, RequeueForwarder, StaleIsQueued, TLSTypeOK, collector
<1>2. CASE GenerateConfig
  <2>1. PICK q \in Profiles \cup {Nil} : Fetched(cached, q) /\ config' = GetClusterTLSProfileSpec(q)
    BY <1>2 DEF GenerateConfig
  <2>2. config' \in Settings /\ failures' \in 0..MaxFailures
    BY <1>0, <2>1, SettingsType, FetchedType
  <2> QED
    BY <1>0, <1>2, <2>2 DEF GenerateConfig, StaleIsQueued, TLSTypeOK
<1>3. CASE ReconcileWorkload
  <2>1. PICK q \in Profiles \cup {Nil} : Fetched(cached, q) /\ workload' = GetClusterTLSProfileSpec(q)
    BY <1>3 DEF ReconcileWorkload
  <2>2. workload' \in Settings /\ failures' \in 0..MaxFailures
    BY <1>0, <2>1, SettingsType, FetchedType
  <2> QED
    BY <1>0, <1>3, <2>2 DEF ReconcileWorkload, StaleIsQueued, TLSTypeOK
<1> QED
  BY <1>1, <1>2, <1>3 DEF ForwarderReconcile

LEMMA StepQueued == StaleIsQueued /\ [TLSNext]_tlsVars => StaleIsQueued'
<1> SUFFICES ASSUME StaleIsQueued, [TLSNext]_tlsVars
             PROVE  StaleIsQueued'
  OBVIOUS
<1>0. TLSTypeOK
  BY DEF StaleIsQueued
<1>1. ASSUME NEW p \in Profiles, ChangeProfile(p)
      PROVE  StaleIsQueued'
  BY <1>0, <1>1, ChangesAssumption DEF ChangeProfile, StaleIsQueued, TLSTypeOK, process, collector
<1>2. CASE Killed
  BY <1>0, <1>2, FailuresType, ExitsQueued DEF Killed
<1>3. CASE UNCHANGED tlsVars
  BY <1>0, <1>3 DEF tlsVars, StaleIsQueued, TLSTypeOK
<1> QED
  BY <1>1, <1>2, <1>3, StartUpQueued, WatchQueued, ForwarderQueued DEF TLSNext

-----------------------------------------------------------------------------
(* Theorems *)

\* A cached profile that differs from the initial one is queued for the watcher
\* whenever the first list agreed with the initial one, in every reachable state
\* (APIServerTLSProfileChangedPredicate, TLSProfileReconciler).
THEOREM StaleIsAlwaysQueued == TLSSpec => []StaleIsQueued
BY InitQueued, StepQueued, PTL DEF TLSSpec

\* An operator that started undisturbed serves the current profile in every
\* state in which neither an event nor a request is under way: what
\* WatchedProfileServed promises can fail only for lack of progress.
THEOREM QuietServesCurrent == TLSSpec => [](Quiet /\ CleanStart => served = Current)
<1>1. StaleIsQueued => (Quiet /\ CleanStart => served = Current)
  BY DEF StaleIsQueued, Quiet, CleanStart, Current
<1>2. QED
  BY <1>1, StaleIsAlwaysQueued, PTL

=============================================================================
