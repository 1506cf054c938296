----------------------- MODULE ProtectedServiceAccounts -----------------------
(***************************************************************************)
(* The list of collector ServiceAccounts that the operator publishes in the *)
(* ConfigMap clo-protected-serviceaccounts, and the two admission policies  *)
(* that take it as their parameter (internal/admission,                     *)
(* internal/controller/protected_sa_*.go, internal/reconcile).              *)
(*                                                                          *)
(* Two writers keep the ConfigMap: a controller that reads the manager's    *)
(* caches, and a start-up runnable that reads the API server.  Each lists   *)
(* the forwarders first and reads the ConfigMap it compares with later, so  *)
(* either may put back an older list over a newer one.                      *)
(***************************************************************************)
EXTENDS Naturals

CONSTANTS
  Forwarders,       \* the names of the forwarders
  Accounts,         \* the ServiceAccounts they may name
  MaxDisturbances   \* bound on user actions, API failures and restarts

\* The name in a spec may be blank; the key of a forwarder is then skipped.
Blank == "Blank"

ASSUME AccountsAssumption == Blank \notin Accounts
ASSUME LimitAssumption == MaxDisturbances \in Nat

VARIABLES
  clfs,     \* the account each forwarder names, or "None"
  cclfs,    \* the same in the manager's cache
  cm,       \* the ConfigMap
  ccm,      \* the ConfigMap in the manager's cache
  queued,   \* is a request queued for the controller?
  writer,   \* the two writers
  policies, \* the policies and bindings that exist
  budget

psaVars == <<clfs, cclfs, cm, ccm, queued, writer, policies, budget>>

None == "None"
Writers == {"controller", "runnable"}

\* ver is the resourceVersion; a ConfigMap that was deleted keeps its number,
\* as versions are never used again.
ConfigMap == [present : BOOLEAN, data : SUBSET Accounts, ver : Nat]
NoConfigMap == [present |-> FALSE, data |-> {}, ver |-> 0]

\* The policy and the binding for Pods, then those for workloads.
PolicyOrder == <<"podPolicy", "podBinding", "workloadPolicy",
                 "workloadBinding">>
PolicyObjects == {PolicyOrder[i] : i \in 1..4}

WriterSteps == {"idle", "list", "get", "write", "policies", "done"}
Writer == [step : WriterSteps, refs : SUBSET Accounts, seen : ConfigMap]
Idle == [step |-> "idle", refs |-> {}, seen |-> NoConfigMap]

PSATypeOK ==
  /\ clfs \in [Forwarders -> Accounts \cup {Blank, None}]
  /\ cclfs \in [Forwarders -> Accounts \cup {Blank, None}]
  /\ cm \in ConfigMap
  /\ ccm \in ConfigMap
  /\ queued \in BOOLEAN
  /\ writer \in [Writers -> Writer]
  /\ policies \subseteq PolicyObjects
  /\ budget \in 0..MaxDisturbances

\* The operator starts in a cluster where users already created forwarders.
PSAInit ==
  /\ clfs \in [Forwarders -> Accounts \cup {None}]
  /\ cclfs = clfs
  /\ cm = NoConfigMap
  /\ ccm = NoConfigMap
  /\ queued = (\E f \in Forwarders : clfs[f] # None)
  /\ writer = [w \in Writers |->
                 [Idle EXCEPT !.step = IF w = "runnable" THEN "list" ELSE "idle"]]
  /\ policies = {}
  /\ budget = MaxDisturbances

\* Faulty variant: a forwarder without an account is listed as well.
ListAll(view) == {view[f] : f \in Forwarders} \ {None}

\* The distinct accounts the listed forwarders declare.
ListServiceAccounts(view) == {view[f] : f \in Forwarders} \ {None, Blank}

-----------------------------------------------------------------------------
(* Users, failures and restarts *)

DisturbPSA == budget > 0 /\ budget' = budget - 1
Undisturbed == UNCHANGED budget

\* A forwarder is created, edited or deleted.
WriteForwarder(f, a) ==
  /\ DisturbPSA
  /\ a # clfs[f]
  /\ clfs' = [clfs EXCEPT ![f] = a]
  /\ UNCHANGED <<cclfs, cm, ccm, queued, writer, policies>>

\* Somebody deletes or empties the ConfigMap.
DeleteConfigMap ==
  /\ DisturbPSA
  /\ cm.present
  /\ cm' = [present |-> FALSE, data |-> {}, ver |-> cm.ver]
  /\ UNCHANGED <<clfs, cclfs, ccm, queued, writer, policies>>

EmptyConfigMap ==
  /\ DisturbPSA
  /\ cm.present
  /\ cm' = [cm EXCEPT !.data = {}, !.ver = @ + 1]
  /\ UNCHANGED <<clfs, cclfs, ccm, queued, writer, policies>>

RestartOperator ==
  /\ DisturbPSA
  /\ cclfs' = clfs
  /\ ccm' = cm
  /\ queued' = (cm.present \/ \E f \in Forwarders : clfs[f] # None)
  /\ writer' = [w \in Writers |->
                  [Idle EXCEPT !.step = IF w = "runnable" THEN "list"
                                                          ELSE "idle"]]
  /\ UNCHANGED <<clfs, cm, policies>>

-----------------------------------------------------------------------------
(* Watches *)

SyncForwarders ==
  /\ cclfs # clfs
  /\ cclfs' = clfs
  /\ queued' = TRUE
  /\ UNCHANGED <<clfs, cm, ccm, writer, policies, budget>>

\* Faulty variant: the controller does not watch the ConfigMap.
IgnoresConfigMap == FALSE

\* Beside the forwarders the controller watches this one ConfigMap.
WatchesConfigMap == TRUE

SyncConfigMap ==
  /\ ccm # cm
  /\ ccm' = cm
  /\ queued' = (queued \/ WatchesConfigMap)
  /\ UNCHANGED <<clfs, cclfs, cm, writer, policies, budget>>

\* Resync replays what is watched.
ResyncAll ==
  /\ ~queued
  /\ \/ \E f \in Forwarders : cclfs[f] # None
     \/ WatchesConfigMap /\ ccm.present
  /\ queued' = TRUE
  /\ UNCHANGED <<clfs, cclfs, cm, ccm, writer, policies, budget>>

-----------------------------------------------------------------------------
(* SyncProtectedServiceAccounts, run by either writer *)

Advance(w, step) == writer' = [writer EXCEPT ![w].step = step]

\* An error puts the controller's request back.  The runnable logs it and goes
\* on: the sync is left to later events.
SyncReturns(w, failed) ==
  /\ writer' = [writer EXCEPT ![w] =
                  [Idle EXCEPT !.step = IF w = "runnable" THEN "policies"
                                                          ELSE "idle"]]
  /\ queued' = (queued \/ (failed /\ w = "controller"))

StartSync ==
  /\ queued
  /\ writer["controller"].step = "idle"
  /\ queued' = FALSE
  /\ Advance("controller", "list")
  /\ UNCHANGED <<clfs, cclfs, cm, ccm, policies, budget>>

ListRefs(w) ==
  /\ writer[w].step = "list"
  /\ \/ /\ Undisturbed
        /\ writer' = [writer EXCEPT ![w].step = "get", ![w].refs =
             ListServiceAccounts(IF w = "controller" THEN cclfs ELSE clfs)]
        /\ UNCHANGED queued
     \/ DisturbPSA /\ SyncReturns(w, TRUE)
  /\ UNCHANGED <<clfs, cclfs, cm, ccm, policies>>

\* reconcile.Configmap: the current ConfigMap is read; nothing is written when
\* it is as desired.
GetConfigMap(w) ==
  LET current == IF w = "controller" THEN ccm ELSE cm
  IN  /\ writer[w].step = "get"
      /\ \/ /\ Undisturbed
            /\ current.present /\ current.data = writer[w].refs
            /\ SyncReturns(w, FALSE)
         \/ /\ Undisturbed
            /\ ~(current.present /\ current.data = writer[w].refs)
            /\ writer' = [writer EXCEPT ![w].step = "write",
                                        ![w].seen = current]
            /\ UNCHANGED queued
         \/ DisturbPSA /\ SyncReturns(w, TRUE)
      /\ UNCHANGED <<clfs, cclfs, cm, ccm, policies>>

\* Faulty variant: the update does not carry the version that was read.
UnseenVersion(w) == writer[w].seen.present = cm.present

\* Create needs that there is none, update the version that was read.
WriteAccepted(w) ==
  /\ writer[w].seen.present = cm.present
  /\ cm.present => writer[w].seen.ver = cm.ver

\* A conflict of an update is retried from the read, a few times; any other
\* error ends the sync.
WriteConfigMap(w) ==
  /\ writer[w].step = "write"
  /\ \/ /\ Undisturbed
        /\ WriteAccepted(w)
        /\ cm' = [present |-> TRUE, data |-> writer[w].refs, ver |-> cm.ver + 1]
        /\ SyncReturns(w, FALSE)
     \/ /\ Undisturbed
        /\ ~WriteAccepted(w)
        /\ writer[w].seen.present /\ cm.present
        /\ Advance(w, "get")
        /\ UNCHANGED <<cm, queued>>
     \/ /\ Undisturbed
        /\ ~WriteAccepted(w)
        /\ SyncReturns(w, TRUE)
        /\ UNCHANGED cm
     \/ DisturbPSA /\ SyncReturns(w, TRUE) /\ UNCHANGED cm
  /\ UNCHANGED <<clfs, cclfs, ccm, policies>>

-----------------------------------------------------------------------------
(* ReconcileProtectedSAPolicies goes on with the policies and bindings, one  *)
(* API call each.                                                            *)

\* The first of the four objects that is not there.  Writing one that exists
\* changes nothing.
Missing == CHOOSE i \in 1..4 :
             /\ PolicyOrder[i] \notin policies
             /\ \A j \in 1..(i - 1) : PolicyOrder[j] \in policies

\* Faulty variant: a failure ends the runnable.
ReconcilePoliciesOnce ==
  /\ writer["runnable"].step = "policies"
  /\ \/ /\ Undisturbed
        /\ policies # PolicyObjects
        /\ policies' = policies \cup {PolicyOrder[Missing]}
        /\ UNCHANGED writer
     \/ /\ Undisturbed
        /\ policies = PolicyObjects
        /\ Advance("runnable", "done")
        /\ UNCHANGED policies
     \/ DisturbPSA /\ Advance("runnable", "done") /\ UNCHANGED policies
  /\ UNCHANGED <<clfs, cclfs, cm, ccm, queued>>

\* After a failure the runnable waits and starts over with the sync.
ReconcilePolicies ==
  /\ writer["runnable"].step = "policies"
  /\ \/ /\ Undisturbed
        /\ policies # PolicyObjects
        /\ policies' = policies \cup {PolicyOrder[Missing]}
        /\ UNCHANGED writer
     \/ /\ Undisturbed
        /\ policies = PolicyObjects
        /\ Advance("runnable", "done")
        /\ UNCHANGED policies
     \/ DisturbPSA /\ Advance("runnable", "list") /\ UNCHANGED policies
  /\ UNCHANGED <<clfs, cclfs, cm, ccm, queued>>

-----------------------------------------------------------------------------
Sync(w) == ListRefs(w) \/ GetConfigMap(w) \/ WriteConfigMap(w)

Controller == StartSync \/ Sync("controller")
Runnable == Sync("runnable") \/ ReconcilePolicies

PSADisturbance ==
  \/ \E f \in Forwarders, a \in Accounts \cup {Blank, None} :
       WriteForwarder(f, a)
  \/ DeleteConfigMap
  \/ EmptyConfigMap
  \/ RestartOperator

PSANext ==
  \/ Controller
  \/ Runnable
  \/ SyncForwarders
  \/ SyncConfigMap
  \/ ResyncAll
  \/ PSADisturbance

PSAFairness ==
  /\ WF_psaVars(Controller)
  /\ WF_psaVars(Runnable)
  /\ WF_psaVars(SyncForwarders)
  /\ WF_psaVars(SyncConfigMap)
  /\ WF_psaVars(ResyncAll)

PSASpec == PSAInit /\ [][PSANext]_psaVars /\ PSAFairness

-----------------------------------------------------------------------------
\* A copy of the ConfigMap, in the cache or in a writer's hands, is not ahead of
\* it, and has its data if it has its version and neither was deleted.
CopyOf(x) ==
  /\ x.ver <= cm.ver
  /\ x.ver = cm.ver /\ x.present /\ cm.present => x.data = cm.data
  /\ ~x.present => x.data = {}

\* Types, and what the optimistic lock of reconcile.Configmap relies on: however
\* the two writers, the cache, restarts and other users interleave, a version
\* stands for one content, so that no version is used for two.
VersionsIdentify ==
  /\ PSATypeOK
  /\ ~cm.present => cm.data = {}
  /\ CopyOf(ccm)
  /\ \A w \in Writers : CopyOf(writer[w].seen)

Published == IF cm.present THEN cm.data ELSE {}

\* Once the disturbances end, the published accounts are exactly those the
\* forwarders declare: neither a stale cache nor the runnable writing an older
\* list over a newer one nor a tampered ConfigMap has the last word.
AccountsConverge == <>[](Published = ListServiceAccounts(clfs))

\* Once the disturbances end, both policies and their bindings exist, although
\* the runnable is not run again after it succeeded once.
PoliciesInstalled == <>[](policies = PolicyObjects)

\* A ConfigMap write never changes anything behind the writer's back: what it
\* replaces is what the writer compared with.
NoLostUpdate ==
  [][\A w \in Writers :
       writer[w].step = "write" /\ cm'.ver # cm.ver /\ budget' = budget
         /\ writer'[w].step # "write"
       => writer[w].seen.data = cm.data]_psaVars
===============================================================================
