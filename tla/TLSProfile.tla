------------------------------ MODULE TLSProfile ------------------------------
(***************************************************************************)
(* How the TLS security profile of the cluster's APIServer resource reaches *)
(* the operator's own metrics server and the collectors (internal/tls,      *)
(* internal/controller/tlsprofile, cmd/main.go, GenerateConfig and          *)
(* ReconcileDaemonset).                                                     *)
(*                                                                          *)
(* The metrics server is configured once, at start-up; a watcher ends the   *)
(* process when the profile is no longer the initial one, and Kubernetes    *)
(* starts it again.  Collectors are regenerated by reconciles of their      *)
(* forwarders, which read the profile once for the configuration and once   *)
(* for the workload.                                                        *)
(***************************************************************************)
EXTENDS Naturals

CONSTANTS
  Profiles,        \* values of spec.tlsSecurityProfile
  MaxChanges,      \* bound on profile changes
  MaxFailures      \* bound on API failures and crashes

\* Nil is an absent profile; a Custom profile may lack its settings.
Nil == "Nil"
AllProfiles == {Nil, "Empty", "Old", "Intermediate", "Modern", "CustomNil",
                "Custom"}

ASSUME ProfilesAssumption == Profiles \subseteq AllProfiles
ASSUME ChangesAssumption == MaxChanges \in Nat /\ MaxFailures \in Nat

VARIABLES
  profile,    \* the profile of the APIServer resource
  phase,      \* where the operator process is
  served,     \* the settings of the metrics server
  initial,    \* InitialProfile of the watcher
  listed,     \* the profile in the first list of the manager's cache
  cached,     \* the profile in the manager's cache
  tlsQueued,  \* is the APIServer queued for the watcher?
  clfQueued,  \* is the forwarder queued?
  clfStep,    \* the step of the forwarder's reconcile
  config,     \* the settings in the collector's configuration
  workload,   \* the settings in the collector's workload
  changes, failures  \* what the bounds leave

tlsVars == <<profile, phase, served, initial, listed, cached, tlsQueued,
             clfQueued, clfStep, config, workload, changes, failures>>
process == <<served, initial, listed, cached, tlsQueued, clfQueued, clfStep>>
collector == <<config, workload>>

Settings == {"None", "Old", "Intermediate", "Modern", "Custom"}

TLSTypeOK ==
  /\ profile \in Profiles
  /\ phase \in {"down", "options", "starting", "running"}
  /\ served \in Settings
  /\ initial \in Profiles \cup {Nil}
  /\ listed \in Profiles \cup {Nil}
  /\ cached \in Profiles \cup {Nil}
  /\ tlsQueued \in BOOLEAN
  /\ clfQueued \in BOOLEAN
  /\ clfStep \in {"idle", "config", "workload"}
  /\ config \in Settings
  /\ workload \in Settings
  /\ changes \in 0..MaxChanges
  /\ failures \in 0..MaxFailures

\* The operator is not yet up and the forwarder has no collector.
TLSInit ==
  /\ profile \in Profiles
  /\ phase = "down"
  /\ served = "None"
  /\ initial = Nil
  /\ listed = Nil
  /\ cached = Nil
  /\ tlsQueued = FALSE
  /\ clfQueued = FALSE
  /\ clfStep = "idle"
  /\ config = "None"
  /\ workload = "None"
  /\ changes = MaxChanges
  /\ failures = MaxFailures

\* Everything but a named profile or a Custom one with settings is the default.
GetClusterTLSProfileSpec(p) ==
  IF p \in {"Old", "Modern", "Custom"} THEN p ELSE "Intermediate"

-----------------------------------------------------------------------------
Fails == failures > 0 /\ failures' = failures - 1
Succeeds == UNCHANGED failures

ChangeProfile(p) ==
  /\ changes > 0
  /\ changes' = changes - 1
  /\ p # profile
  /\ profile' = p
  /\ UNCHANGED <<phase, process, collector, failures>>

\* The end of the process, wanted or not: all its memory is gone.
Exits ==
  /\ phase' = "down"
  /\ served' = "None"
  /\ initial' = Nil /\ listed' = Nil /\ cached' = Nil
  /\ tlsQueued' = FALSE /\ clfQueued' = FALSE /\ clfStep' = "idle"
  /\ UNCHANGED <<profile, collector, changes>>

Killed == phase # "down" /\ Fails /\ Exits

-----------------------------------------------------------------------------
(* Start-up *)

\* FetchAPIServerTlsProfile: the profile, or nothing when the API call fails
\* (both callers go on without one).
Fetched(p, q) == (Succeeds /\ q = p) \/ (Fails /\ q = Nil)

GetTLSConfigOptions ==
  /\ phase = "down"
  /\ \E q \in Profiles \cup {Nil} :
       Fetched(profile, q) /\ served' = GetClusterTLSProfileSpec(q)
  /\ phase' = "options"
  /\ UNCHANGED <<profile, initial, listed, cached, tlsQueued, clfQueued,
                 clfStep, collector, changes>>

FetchInitialProfile ==
  /\ phase = "options"
  /\ \E q \in Profiles \cup {Nil} : Fetched(profile, q) /\ initial' = q
  /\ phase' = "starting"
  /\ UNCHANGED <<profile, served, listed, cached, tlsQueued, clfQueued,
                 clfStep, collector, changes>>

\* The manager's caches list: create events, which the watcher filters out,
\* and which enqueue the forwarder.
StartManager ==
  /\ phase = "starting"
  /\ phase' = "running"
  /\ listed' = profile
  /\ cached' = profile
  /\ clfQueued' = TRUE
  /\ UNCHANGED <<profile, served, initial, tlsQueued, clfStep, collector,
                 failures, changes>>

-----------------------------------------------------------------------------
(* Watches *)

\* APIServerTLSProfileChangedPredicate on an update event.
ProfileChanged(old, new) == old # new

\* An update event of the APIServer.  Enqueueing the forwarders means listing
\* them, and nothing is enqueued when that fails.
APIServerUpdated ==
  /\ phase = "running"
  /\ cached # profile
  /\ cached' = profile
  /\ tlsQueued' = (tlsQueued \/ ProfileChanged(cached, profile))
  /\ \/ Succeeds /\ clfQueued' = (clfQueued \/ ProfileChanged(cached, profile))
     \/ Fails /\ UNCHANGED clfQueued
  /\ UNCHANGED <<profile, phase, served, initial, listed, clfStep, collector,
                 changes>>

\* Faulty variant: nothing brings a forwarder back to the queue.
NeverRequeued == FALSE /\ UNCHANGED tlsVars

\* The forwarder is replayed by resync or periodicRequeue.
RequeueForwarder ==
  /\ phase = "running"
  /\ ~clfQueued
  /\ clfQueued' = TRUE
  /\ UNCHANGED <<profile, phase, served, initial, listed, cached, tlsQueued,
                 clfStep, collector, failures, changes>>

-----------------------------------------------------------------------------
(* TLSProfileReconciler *)

\* Faulty variant: the profile is compared with itself.
ReconcileProfileKept ==
  /\ phase = "running" /\ tlsQueued
  /\ tlsQueued' = FALSE
  /\ UNCHANGED <<profile, phase, served, initial, listed, cached, clfQueued,
                 clfStep, collector, failures, changes>>

\* A profile that is not the initial one ends the process; an API failure
\* puts the request back.
ReconcileProfile ==
  /\ phase = "running" /\ tlsQueued
  /\ \/ cached # initial /\ Succeeds /\ Exits
     \/ /\ cached = initial /\ Succeeds
        /\ tlsQueued' = FALSE
        /\ UNCHANGED <<profile, phase, served, initial, listed, cached,
                       clfQueued, clfStep, collector, changes>>
     \/ Fails /\ UNCHANGED <<profile, phase, process, collector, changes>>

-----------------------------------------------------------------------------
(* The forwarder's reconcile, as far as the profile is concerned *)

StartReconcile ==
  /\ phase = "running" /\ clfQueued /\ clfStep = "idle"
  /\ clfQueued' = FALSE
  /\ clfStep' = "config"
  /\ UNCHANGED <<profile, phase, served, initial, listed, cached, tlsQueued,
                 collector, failures, changes>>

\* Both reads ignore an error and go on with the default.
GenerateConfig ==
  /\ phase = "running" /\ clfStep = "config"
  /\ \E q \in Profiles \cup {Nil} :
       Fetched(cached, q) /\ config' = GetClusterTLSProfileSpec(q)
  /\ clfStep' = "workload"
  /\ UNCHANGED <<profile, phase, served, initial, listed, cached, tlsQueued,
                 clfQueued, workload, changes>>

ReconcileWorkload ==
  /\ phase = "running" /\ clfStep = "workload"
  /\ \E q \in Profiles \cup {Nil} :
       Fetched(cached, q) /\ workload' = GetClusterTLSProfileSpec(q)
  /\ clfStep' = "idle"
  /\ UNCHANGED <<profile, phase, served, initial, listed, cached, tlsQueued,
                 clfQueued, config, changes>>

-----------------------------------------------------------------------------
StartUp == GetTLSConfigOptions \/ FetchInitialProfile \/ StartManager

ForwarderReconcile == StartReconcile \/ GenerateConfig \/ ReconcileWorkload

TLSNext ==
  \/ \E p \in Profiles : ChangeProfile(p)
  \/ Killed
  \/ StartUp
  \/ APIServerUpdated
  \/ RequeueForwarder
  \/ ReconcileProfile
  \/ ForwarderReconcile

\* Kubernetes restarts the process, the watch delivers, the timers fire and
\* both controllers have a worker.
TLSFairness ==
  /\ WF_tlsVars(StartUp)
  /\ WF_tlsVars(APIServerUpdated)
  /\ WF_tlsVars(RequeueForwarder)
  /\ WF_tlsVars(ReconcileProfile)
  /\ WF_tlsVars(ForwarderReconcile)

TLSSpec == TLSInit /\ [][TLSNext]_tlsVars /\ TLSFairness

-----------------------------------------------------------------------------
Current == GetClusterTLSProfileSpec(profile)

\* Types, and what the watcher relies on although it filters out the first list
\* and the queue is lost with the process: if the list agreed with the initial
\* profile, a cached profile that differs from it is queued, whatever changed,
\* failed or restarted since.
StaleIsQueued ==
  /\ TLSTypeOK
  /\ phase = "running" /\ listed = initial /\ cached # initial => tlsQueued

\* Nothing is under way between the APIServer and the watcher.
Quiet == phase = "running" /\ cached = profile /\ ~tlsQueued

\* The start-up read the profile undisturbed.
CleanStart == listed = initial /\ served = GetClusterTLSProfileSpec(initial)

\* Once the disturbances end, configuration and workload of the collector
\* both carry the settings of the current profile: a default that a failing
\* read left behind, a profile that changed between the two reads, and an
\* event that was lost with a failing list are all made good.
CollectorFollowsProfile ==
  <>[](phase = "running" /\ config = Current /\ workload = Current)

\* Once the disturbances end, an operator whose start-up read the profile
\* undisturbed - both reads and the first list of the cache agree - serves
\* the current profile.
WatchedProfileServed ==
  <>[](phase = "running" /\
       (CleanStart => served = Current))
===============================================================================
