--------------------- MODULE ProtectedServiceAccountsProofs ---------------------
(***************************************************************************)
(* Safety of the two writers of the protected ServiceAccounts, for any      *)
(* number of forwarders, accounts and disturbances.  The inductive          *)
(* invariant is VersionsIdentify: NoLostUpdate follows from it, as a write  *)
(* is accepted on the strength of a version alone.                          *)
(***************************************************************************)
EXTENDS ProtectedServiceAccounts, TLAPS

\* PolicyOrder lists what is missing, if anything is.
LEMMA MissingObject ==
  ASSUME policies \subseteq PolicyObjects, policies # PolicyObjects
  PROVE  PolicyOrder[Missing] \in PolicyObjects
<1> DEFINE First(i) == /\ PolicyOrder[i] \notin policies
                       /\ \A j \in 1..(i - 1) : PolicyOrder[j] \in policies
<1>1. \E i \in 1..4 : PolicyOrder[i] \notin policies
  BY DEF PolicyObjects
<1>2. \E i \in 1..4 : First(i)
  <2>1. CASE PolicyOrder[1] \notin policies
    BY <2>1
  <2>2. CASE PolicyOrder[1] \in policies /\ PolicyOrder[2] \notin policies
    BY <2>2
  <2>3. CASE {PolicyOrder[1], PolicyOrder[2]} \subseteq policies /\ PolicyOrder[3] \notin policies
    BY <2>3
  <2>4. CASE {PolicyOrder[1], PolicyOrder[2], PolicyOrder[3]} \subseteq policies
    BY <2>4, <1>1
  <2> QED
    BY <2>1, <2>2, <2>3, <2>4
<1>3. Missing \in 1..4
  BY <1>2 DEF Missing
<1> QED
  BY <1>3 DEF PolicyObjects

LEMMA InitIdentifies == PSAInit => VersionsIdentify
<1> SUFFICES ASSUME PSAInit
             PROVE  VersionsIdentify
  OBVIOUS
<1>1. NoConfigMap \in ConfigMap
  BY DEF NoConfigMap, ConfigMap
<1>2. writer \in [Writers -> Writer] /\ \A w \in Writers : writer[w].seen = NoConfigMap
  BY <1>1 DEF PSAInit, Writer, Idle, WriterSteps
<1>3. PSATypeOK
  BY <1>1, <1>2, LimitAssumption DEF PSAInit, PSATypeOK
<1> QED
  BY <1>2, <1>3 DEF PSAInit, VersionsIdentify, CopyOf, NoConfigMap

-----------------------------------------------------------------------------
(* Steps that change the ConfigMap *)

\* Whoever changes the ConfigMap takes a new version, or deletes it.
Succeeds(old, new) ==
  \/ new.ver > old.ver
  \/ new.ver = old.ver /\ ~new.present

LEMMA CopiesStay ==
  ASSUME cm \in ConfigMap, cm' \in ConfigMap, Succeeds(cm, cm') \/ cm' = cm,
         NEW x \in ConfigMap, CopyOf(x)
  PROVE  CopyOf(x)'
BY DEF ConfigMap, Succeeds, CopyOf

\* Whatever is read is a copy.
LEMMA ReadIsCopy ==
  ASSUME VersionsIdentify
  PROVE  CopyOf(cm) /\ CopyOf(ccm)
BY DEF VersionsIdentify, PSATypeOK, ConfigMap, CopyOf

\* A step that leaves the ConfigMap alone and hands on only copies of it.
LEMMA ReadersKeep ==
  ASSUME VersionsIdentify, PSATypeOK', cm' = cm, CopyOf(ccm'),
         \A w \in Writers : CopyOf(writer'[w].seen)
  PROVE  VersionsIdentify'
BY DEF VersionsIdentify, CopyOf

LEMMA WritersKeep ==
  ASSUME VersionsIdentify, PSATypeOK', Succeeds(cm, cm'), cm'.present \/ cm'.data = {}, ccm' = ccm,
         \A w \in Writers : writer'[w].seen \in {writer[w].seen, NoConfigMap}
  PROVE  VersionsIdentify'
<1>1. NoConfigMap \in ConfigMap /\ CopyOf(NoConfigMap)
  BY DEF VersionsIdentify, PSATypeOK, NoConfigMap, ConfigMap, CopyOf
<1>2. CopyOf(ccm)'
  BY CopiesStay DEF VersionsIdentify, PSATypeOK, CopyOf
<1>3. ASSUME NEW w \in Writers
      PROVE  CopyOf(writer[w].seen)'
  <2>1. writer[w].seen \in ConfigMap /\ CopyOf(writer[w].seen)
    BY DEF VersionsIdentify, PSATypeOK, Writer
  <2> DEFINE y == writer'[w].seen
  <2>2. y \in ConfigMap /\ CopyOf(y)
    BY <1>1, <2>1
  <2>3. y.ver <= cm'.ver /\ (y.ver = cm'.ver /\ y.present /\ cm'.present => y.data = cm'.data)
           /\ (~y.present => y.data = {})
    BY <2>2 DEF VersionsIdentify, PSATypeOK, ConfigMap, Succeeds, CopyOf
  <2> QED
    BY <2>3 DEF CopyOf
<1> QED
  BY <1>2, <1>3 DEF VersionsIdentify

-----------------------------------------------------------------------------
(* Types *)

LEMMA AdvanceType ==
  ASSUME PSATypeOK, NEW w \in Writers, NEW step \in WriterSteps, Advance(w, step)
  PROVE  writer' \in [Writers -> Writer] /\ \A v \in Writers : writer'[v].seen = writer[v].seen
BY DEF PSATypeOK, Advance, Writer

\* The end of a synchronization forgets what was read.
LEMMA ReturnType ==
  ASSUME PSATypeOK, NEW w \in Writers, NEW failed \in BOOLEAN, SyncReturns(w, failed)
  PROVE  /\ writer' \in [Writers -> Writer]
         /\ queued' \in BOOLEAN
         /\ writer'[w].seen = NoConfigMap /\ writer'[w].step # "write"
         /\ \A v \in Writers \ {w} : writer'[v] = writer[v]
<1> DEFINE end == [Idle EXCEPT !.step = IF w = "runnable" THEN "policies" ELSE "idle"]
<1>1. NoConfigMap \in ConfigMap
  BY DEF NoConfigMap, ConfigMap
<1>2. end \in Writer /\ end.seen = NoConfigMap /\ end.step # "write"
  BY <1>1 DEF Idle, Writer, WriterSteps
<1>3. writer' = [writer EXCEPT ![w] = end]
  BY DEF SyncReturns
<1> HIDE DEF end
<1>4. writer'[w] = end /\ \A v \in Writers \ {w} : writer'[v] = writer[v]
  BY <1>3 DEF PSATypeOK
<1>5. queued' \in BOOLEAN
  BY DEF SyncReturns, PSATypeOK
<1> QED
  BY <1>2, <1>3, <1>4, <1>5 DEF PSATypeOK

LEMMA BudgetType ==
  ASSUME PSATypeOK, Undisturbed \/ DisturbPSA
  PROVE  budget' \in 0..MaxDisturbances
BY LimitAssumption DEF PSATypeOK, Undisturbed, DisturbPSA

\* A list is a set of accounts, never the blank one.
LEMMA ListType ==
  ASSUME NEW view \in [Forwarders -> Accounts \cup {Blank, None}]
  PROVE  ListServiceAccounts(view) \in SUBSET Accounts
BY DEF ListServiceAccounts

-----------------------------------------------------------------------------
(* One lemma per action, or group of actions *)

LEMMA UsersIdentify ==
  VersionsIdentify /\ PSADisturbance => VersionsIdentify'
<1> SUFFICES ASSUME VersionsIdentify, PSADisturbance
             PROVE  VersionsIdentify'
  OBVIOUS
<1> USE DEF VersionsIdentify
<1>1. budget' \in 0..MaxDisturbances
  BY BudgetType DEF PSADisturbance, WriteForwarder, DeleteConfigMap, EmptyConfigMap, RestartOperator
<1>2. CASE \E f \in Forwarders, a \in Accounts \cup {Blank, None} : WriteForwarder(f, a)
  <2>1. PSATypeOK'
    BY <1>1, <1>2 DEF WriteForwarder, PSATypeOK
  <2> QED
    BY <1>2, <2>1 DEF WriteForwarder, CopyOf
<1>3. CASE DeleteConfigMap
  <2>1. cm' \in ConfigMap /\ Succeeds(cm, cm') /\ cm'.data = {}
    BY <1>3 DEF DeleteConfigMap, PSATypeOK, ConfigMap, Succeeds
  <2>2. PSATypeOK'
    BY <1>1, <1>3, <2>1 DEF DeleteConfigMap, PSATypeOK
  <2> QED
    BY <1>3, <2>1, <2>2, WritersKeep DEF DeleteConfigMap
<1>4. CASE EmptyConfigMap
  <2>0. cm' = [present |-> cm.present, data |-> {}, ver |-> cm.ver + 1]
    BY <1>4 DEF EmptyConfigMap, PSATypeOK, ConfigMap
  <2>1. cm' \in ConfigMap /\ Succeeds(cm, cm') /\ cm'.data = {}
    BY <2>0 DEF PSATypeOK, ConfigMap, Succeeds
  <2>2. PSATypeOK'
    BY <1>1, <1>4, <2>1 DEF EmptyConfigMap, PSATypeOK
  <2> QED
    BY <1>4, <2>1, <2>2, WritersKeep DEF EmptyConfigMap
<1>5. CASE RestartOperator
  <2>1. NoConfigMap \in ConfigMap /\ CopyOf(NoConfigMap)
    BY DEF PSATypeOK, NoConfigMap, ConfigMap, CopyOf
  <2> DEFINE start(w) == [Idle EXCEPT !.step = IF w = "runnable" THEN "list" ELSE "idle"]
  <2>2. \A w \in Writers : start(w) \in Writer /\ start(w).seen = NoConfigMap
    BY <2>1 DEF Idle, Writer, WriterSteps
  <2>3. writer' = [w \in Writers |-> start(w)]
    BY <1>5 DEF RestartOperator
  <2> HIDE DEF start
  <2>4. writer' \in [Writers -> Writer] /\ \A w \in Writers : writer'[w].seen = NoConfigMap
    BY <2>2, <2>3
  <2>5. PSATypeOK'
    BY <1>1, <1>5, <2>4 DEF RestartOperator, PSATypeOK
  <2> QED
    BY <1>5, <2>1, <2>4, <2>5, ReadIsCopy, ReadersKeep DEF RestartOperator
<1> QED
  BY <1>2, <1>3, <1>4, <1>5 DEF PSADisturbance

LEMMA WatchesIdentify ==
  VersionsIdentify /\ (SyncForwarders \/ SyncConfigMap \/ ResyncAll) => VersionsIdentify'
<1> SUFFICES ASSUME VersionsIdentify, SyncForwarders \/ SyncConfigMap \/ ResyncAll
             PROVE  VersionsIdentify'
  OBVIOUS
<1>1. PSATypeOK'
  BY DEF VersionsIdentify, PSATypeOK, SyncForwarders, SyncConfigMap, ResyncAll, WatchesConfigMap
<1>2. cm' = cm /\ CopyOf(ccm')
  BY ReadIsCopy DEF SyncForwarders, SyncConfigMap, ResyncAll
<1>3. \A w \in Writers : CopyOf(writer'[w].seen)
  BY DEF VersionsIdentify, SyncForwarders, SyncConfigMap, ResyncAll
<1> QED
  BY <1>1, <1>2, <1>3, ReadersKeep

LEMMA SyncIdentifies ==
  ASSUME VersionsIdentify, NEW w \in Writers, Sync(w)
  PROVE  VersionsIdentify'
<1>0. PSATypeOK /\ \A v \in Writers : writer[v] \in Writer /\ CopyOf(writer[v].seen)
  BY DEF VersionsIdentify, PSATypeOK
<1>1. budget' \in 0..MaxDisturbances
  BY <1>0, BudgetType DEF Sync, ListRefs, GetConfigMap, WriteConfigMap
<1>2. CopyOf(NoConfigMap)
  BY <1>0 DEF PSATypeOK, NoConfigMap, ConfigMap, CopyOf
<1>3. ASSUME NEW failed \in BOOLEAN, SyncReturns(w, failed), UNCHANGED <<clfs, cclfs, cm, ccm, policies>>
      PROVE  VersionsIdentify'
  <2>1. PSATypeOK'
    BY <1>0, <1>1, <1>3, ReturnType DEF PSATypeOK
  <2>2. \A v \in Writers : CopyOf(writer'[v].seen)
    BY <1>0, <1>2, <1>3, ReturnType
  <2>3. CopyOf(ccm')
    BY <1>3 DEF VersionsIdentify
  <2> QED
    BY <1>3, <2>1, <2>2, <2>3, ReadersKeep
<1>4. CASE ListRefs(w)
  <2>1. CASE UNCHANGED queued /\ Undisturbed /\
             writer' = [writer EXCEPT ![w].step = "get", ![w].refs =
               ListServiceAccounts(IF w = "controller" THEN cclfs ELSE clfs)]
    <3> DEFINE refs == ListServiceAccounts(IF w = "controller" THEN cclfs ELSE clfs)
    <3>1. refs \in SUBSET Accounts
      BY <1>0, ListType DEF PSATypeOK
    <3>2. writer' = [writer EXCEPT ![w].step = "get", ![w].refs = refs]
      BY <2>1
    <3> HIDE DEF refs
    <3>3. writer' \in [Writers -> Writer] /\ \A v \in Writers : writer'[v].seen = writer[v].seen
      BY <1>0, <3>1, <3>2 DEF PSATypeOK, Writer, WriterSteps
    <3>4. PSATypeOK'
      BY <1>0, <1>1, <1>4, <2>1, <3>3 DEF ListRefs, PSATypeOK
    <3> QED
      BY <1>0, <1>4, <3>3, <3>4, ReadersKeep DEF ListRefs, VersionsIdentify
  <2> QED
    BY <1>3, <1>4, <2>1 DEF ListRefs
<1>5. CASE GetConfigMap(w)
  <2> DEFINE current == IF w = "controller" THEN ccm ELSE cm
  <2>1. CASE UNCHANGED queued /\ writer' = [writer EXCEPT ![w].step = "write", ![w].seen = current]
    <3>1. current \in ConfigMap /\ CopyOf(current)
      BY <1>0, ReadIsCopy DEF PSATypeOK
    <3> HIDE DEF current
    <3>2. writer' \in [Writers -> Writer] /\ \A v \in Writers : CopyOf(writer'[v].seen)
      BY <1>0, <2>1, <3>1 DEF PSATypeOK, Writer, WriterSteps
    <3>3. PSATypeOK'
      BY <1>0, <1>1, <1>5, <2>1, <3>2 DEF GetConfigMap, PSATypeOK
    <3> QED
      BY <1>5, <3>2, <3>3, ReadersKeep DEF GetConfigMap, VersionsIdentify
  <2> QED
    BY <1>3, <1>5, <2>1 DEF GetConfigMap
<1>6. CASE WriteConfigMap(w)
  <2>1. CASE SyncReturns(w, FALSE) /\ cm' = [present |-> TRUE, data |-> writer[w].refs, ver |-> cm.ver + 1]
    <3>1. cm' \in ConfigMap /\ Succeeds(cm, cm') /\ cm'.present
      BY <1>0, <2>1 DEF PSATypeOK, Writer, ConfigMap, Succeeds
    <3>2. /\ writer' \in [Writers -> Writer] /\ queued' \in BOOLEAN
          /\ \A v \in Writers : writer'[v].seen \in {writer[v].seen, NoConfigMap}
      BY <1>0, <2>1, ReturnType
    <3>3. PSATypeOK'
      BY <1>0, <1>1, <1>6, <3>1, <3>2 DEF WriteConfigMap, PSATypeOK
    <3> QED
      BY <1>6, <3>1, <3>2, <3>3, WritersKeep DEF WriteConfigMap
  <2>2. CASE Advance(w, "get") /\ UNCHANGED <<cm, queued>>
    <3>1. writer' \in [Writers -> Writer] /\ \A v \in Writers : writer'[v].seen = writer[v].seen
      BY <1>0, <2>2, AdvanceType DEF WriterSteps
    <3>2. PSATypeOK'
      BY <1>0, <1>1, <1>6, <2>2, <3>1 DEF WriteConfigMap, PSATypeOK
    <3> QED
      BY <1>0, <1>6, <2>2, <3>1, <3>2, ReadersKeep DEF WriteConfigMap, VersionsIdentify
  <2> QED
    BY <1>3, <1>6, <2>1, <2>2 DEF WriteConfigMap
<1> QED
  BY <1>4, <1>5, <1>6 DEF Sync

LEMMA StartIdentifies ==
  ASSUME VersionsIdentify, StartSync \/ ReconcilePolicies
  PROVE  VersionsIdentify'
<1>0. PSATypeOK
  BY DEF VersionsIdentify
<1>1. /\ writer' \in [Writers -> Writer]
      /\ \A v \in Writers : writer'[v].seen = writer[v].seen
  BY <1>0, AdvanceType DEF StartSync, ReconcilePolicies, Writers, WriterSteps, PSATypeOK
<1>2. policies' \in SUBSET PolicyObjects
  <2>1. CASE ReconcilePolicies /\ policies # PolicyObjects
    BY <1>0, <2>1, MissingObject DEF ReconcilePolicies, PSATypeOK
  <2> QED
    BY <1>0, <2>1 DEF StartSync, ReconcilePolicies, PSATypeOK
<1>3. PSATypeOK'
  BY <1>0, <1>1, <1>2, BudgetType DEF StartSync, ReconcilePolicies, PSATypeOK
<1> QED
  BY <1>1, <1>3, ReadersKeep DEF StartSync, ReconcilePolicies, VersionsIdentify

LEMMA StepIdentifies == VersionsIdentify /\ [PSANext]_psaVars => VersionsIdentify'
<1> SUFFICES ASSUME VersionsIdentify, [PSANext]_psaVars
             PROVE  VersionsIdentify'
  OBVIOUS
<1>1. CASE UNCHANGED psaVars
  BY <1>1 DEF psaVars, VersionsIdentify, PSATypeOK, CopyOf
<1>2. CASE Controller \/ Runnable
  BY <1>2, SyncIdentifies, StartIdentifies DEF Controller, Runnable, Writers
<1> QED
  BY <1>1, <1>2, WatchesIdentify, UsersIdentify DEF PSANext

-----------------------------------------------------------------------------
(* Theorems *)

\* In every reachable state every variable has its type and a version of the
\* ConfigMap stands for one content (reconcile.Configmap, retry on conflict).
THEOREM VersionsIdentifyHolds == PSASpec => []VersionsIdentify
BY InitIdentifies, StepIdentifies, PTL DEF PSASpec

\* A write of either writer replaces only what that writer compared with: the
\* version that an update carries, or the absence that a create needs, is
\* enough, as versions stand for contents.
THEOREM NoUpdateIsLost == PSASpec => NoLostUpdate
<1> DEFINE Kept == \A w \in Writers :
                     writer[w].step = "write" /\ cm'.ver # cm.ver /\ budget' = budget
                       /\ writer'[w].step # "write"
                     => writer[w].seen.data = cm.data
<1>1. VersionsIdentify /\ [PSANext]_psaVars => [Kept]_psaVars
  <2> SUFFICES ASSUME VersionsIdentify, PSANext,
                      NEW w \in Writers,
                      writer[w].step = "write", cm'.ver # cm.ver, budget' = budget,
                      writer'[w].step # "write"
               PROVE  writer[w].seen.data = cm.data
    OBVIOUS
  <2>0. budget \in Nat /\ cm \in ConfigMap
    BY LimitAssumption DEF VersionsIdentify, PSATypeOK
  <2>1. PICK v \in Writers : WriteConfigMap(v) /\ WriteAccepted(v) /\ SyncReturns(v, FALSE)
    <3>1. \E v \in Writers : WriteConfigMap(v)
      BY <2>0 DEF PSANext, Controller, Runnable, Sync, StartSync, ListRefs, GetConfigMap, ReconcilePolicies,
                  SyncForwarders, SyncConfigMap, ResyncAll, PSADisturbance, WriteForwarder, DeleteConfigMap,
                  EmptyConfigMap, RestartOperator, DisturbPSA, Writers
    <3> QED
      BY <3>1, <2>0 DEF WriteConfigMap, DisturbPSA
  <2>2. w = v
    BY <2>1, ReturnType DEF VersionsIdentify
  <2> QED
    BY <2>1, <2>2 DEF WriteAccepted, VersionsIdentify, CopyOf
<1>2. QED
  BY <1>1, VersionsIdentifyHolds, PTL DEF PSASpec, NoLostUpdate
=============================================================================
