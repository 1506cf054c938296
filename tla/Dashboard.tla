------------------------------ MODULE Dashboard ------------------------------
(***************************************************************************)
(* The console dashboard: a ConfigMap that every process of the operator    *)
(* seeds when it starts, keeps while it runs and removes when it exits      *)
(* (internal/metrics/dashboard, cmd/main.go).                               *)
(*                                                                          *)
(* Leader election is off, so that during a rollout an old and a new        *)
(* process, of the same or of different versions, work on it at the same    *)
(* time.  A step is one call to the API server.                             *)
(***************************************************************************)
EXTENDS Naturals

CONSTANTS Processes,
          Leaving,       \* the processes that the rollout terminates
          Versions,      \* versions of the operator
          MaxCrashes,    \* processes that are killed, and calls that fail
          MaxEdits       \* changes that somebody else makes to the ConfigMap

ASSUME LeavingAssumption == Leaving \subseteq Processes
ASSUME BoundsAssumption == MaxCrashes \in Nat /\ MaxEdits \in Nat

VARIABLES dash,      \* the ConfigMap, if there: [managed, version, data]
          version,   \* of each process
          pc,        \* where each process is
          seen,      \* what it read
          stale,     \* whether the ConfigMap has changed since
          event,     \* whether a request waits in its queue
          crashes, edits

vars == <<dash, version, pc, seen, stale, event, crashes, edits>>

Watching == {"idle", "read", "write"}
Seeding == {"seedRead", "seedWrite"}

newDashboardConfigMap(p) == [managed |-> TRUE, version |-> version[p], data |-> version[p]]
AreSame(p) == dash = {newDashboardConfigMap(p)}

\* Faulty variant: a deletion is not an event.
PutQuietly(d) ==
  /\ dash' = d
  /\ stale' = [p \in Processes |-> TRUE]
  /\ event' = [p \in Processes |-> event[p] \/ (pc[p] \in Watching /\ d # {})]

\* A change is an event for every process whose watch has started.
Put(d) ==
  /\ dash' = d
  /\ stale' = [p \in Processes |-> TRUE]
  /\ event' = [p \in Processes |-> event[p] \/ pc[p] \in Watching]

\* The process gives up seeding and exits, without cleaning up; a reconcile is
\* queued again.
Failed(p) ==
  /\ pc' = [pc EXCEPT ![p] = IF @ \in Seeding THEN "down" ELSE "idle"]
  /\ event' = [event EXCEPT ![p] = pc[p] \in Watching]

Done(p) == pc' = [pc EXCEPT ![p] = IF @ \in Seeding THEN "seeded" ELSE "idle"]

-----------------------------------------------------------------------------
Start(p) ==
  /\ pc[p] = "down"
  /\ pc' = [pc EXCEPT ![p] = "seedRead"]
  /\ UNCHANGED <<dash, version, seen, stale, event, crashes, edits>>

Reconcile(p) ==
  /\ pc[p] = "idle" /\ event[p]
  /\ pc' = [pc EXCEPT ![p] = "read"] /\ event' = [event EXCEPT ![p] = FALSE]
  /\ UNCHANGED <<dash, version, seen, stale, crashes, edits>>

ReconcileForDashboards(p) ==
  /\ pc[p] \in {"seedRead", "read"}
  /\ \/ AreSame(p) /\ Done(p) /\ UNCHANGED <<seen, stale>>
     \/ /\ ~AreSame(p)
        /\ pc' = [pc EXCEPT ![p] = IF @ = "read" THEN "write" ELSE "seedWrite"]
        /\ seen' = [seen EXCEPT ![p] = dash] /\ stale' = [stale EXCEPT ![p] = FALSE]
  /\ UNCHANGED <<dash, version, event, crashes, edits>>

\* Created if it was not there, otherwise updated unless somebody else has changed
\* it: then it is read again.
Configmap(p) ==
  /\ pc[p] \in {"seedWrite", "write"}
  /\ \/ seen[p] = {} /\ dash = {} /\ Put({newDashboardConfigMap(p)}) /\ Done(p)
     \/ seen[p] # {} /\ ~stale[p] /\ Put({newDashboardConfigMap(p)}) /\ Done(p)
     \/ (seen[p] = {}) # (dash = {}) /\ Failed(p) /\ UNCHANGED <<dash, stale>>
     \/ /\ seen[p] # {} /\ dash # {} /\ stale[p]
        /\ pc' = [pc EXCEPT ![p] = IF @ = "write" THEN "read" ELSE "seedRead"]
        /\ UNCHANGED <<dash, stale, event>>
  /\ UNCHANGED <<version, seen, crashes, edits>>

\* The watch lists what there is.
SetupWithManager(p) ==
  /\ pc[p] = "seeded"
  /\ pc' = [pc EXCEPT ![p] = "idle"]
  /\ event' = [event EXCEPT ![p] = dash # {}]
  /\ UNCHANGED <<dash, version, seen, stale, crashes, edits>>

\* The manager stops when no reconcile is under way.
Terminate(p) ==
  /\ p \in Leaving /\ pc[p] = "idle"
  /\ pc' = [pc EXCEPT ![p] = "exit"] /\ event' = [event EXCEPT ![p] = FALSE]
  /\ UNCHANGED <<dash, version, seen, stale, crashes, edits>>

\* Faulty variant: whatever the version.
ReadAnyVersion(p) ==
  /\ pc[p] = "exit"
  /\ pc' = [pc EXCEPT ![p] = IF \E d \in dash : d.managed THEN "delete" ELSE "gone"]
  /\ stale' = [stale EXCEPT ![p] = FALSE]
  /\ UNCHANGED <<dash, version, seen, event, crashes, edits>>

ReadForRemoval(p) ==
  /\ pc[p] = "exit"
  /\ pc' = [pc EXCEPT ![p] = IF \E d \in dash : d.managed /\ d.version = version[p] THEN "delete" ELSE "gone"]
  /\ stale' = [stale EXCEPT ![p] = FALSE]
  /\ UNCHANGED <<dash, version, seen, event, crashes, edits>>

\* By name, whatever is there by now.
RemoveDashboardConfigMap(p) ==
  /\ pc[p] = "delete"
  /\ Put({})
  /\ pc' = [pc EXCEPT ![p] = "gone"]
  /\ UNCHANGED <<version, seen, crashes, edits>>

\* A process that leaves is not started again.
Crash(p) ==
  /\ crashes < MaxCrashes /\ crashes' = crashes + 1
  /\ pc[p] \notin {"down", "gone"}
  /\ pc' = [pc EXCEPT ![p] = IF p \in Leaving THEN "gone" ELSE "down"]
  /\ event' = [event EXCEPT ![p] = FALSE]
  /\ UNCHANGED <<dash, version, seen, stale, edits>>

CallFails(p) ==
  /\ crashes < MaxCrashes /\ crashes' = crashes + 1
  /\ pc[p] \in Seeding \cup {"read", "write"} /\ Failed(p)
  /\ UNCHANGED <<dash, version, seen, stale, edits>>

Edit ==
  /\ edits < MaxEdits /\ edits' = edits + 1
  /\ \/ dash # {} /\ Put({})
     \/ \E d \in dash : Put({[d EXCEPT !.data = "edited"]}) \/ Put({[d EXCEPT !.managed = FALSE]})
  /\ UNCHANGED <<version, pc, seen, crashes>>

-----------------------------------------------------------------------------
Step(p) ==
  \/ Start(p) \/ Reconcile(p) \/ ReconcileForDashboards(p) \/ Configmap(p) \/ SetupWithManager(p) \/ Terminate(p)
  \/ ReadForRemoval(p) \/ RemoveDashboardConfigMap(p)

Next == Edit \/ \E p \in Processes : Step(p) \/ Crash(p) \/ CallFails(p)

Init ==
  /\ version \in [Processes -> Versions]
  /\ pc = [p \in Processes |-> IF p \in Leaving THEN "idle" ELSE "down"]
  /\ dash \in {{newDashboardConfigMap(p)} : p \in Leaving} \cup {{}}
  /\ seen = [p \in Processes |-> {}] /\ stale = [p \in Processes |-> TRUE]
  /\ event = [p \in Processes |-> FALSE] /\ crashes = 0 /\ edits = 0

\* A process runs on and the kubelet starts it again.  The rollout ends the old one
\* even if two versions keep undoing each other's changes, so that it is never idle
\* for long.
Fairness == \A p \in Processes : WF_vars(Step(p)) /\ SF_vars(Terminate(p))

Spec == Init /\ [][Next]_vars /\ Fairness

-----------------------------------------------------------------------------
(* Properties *)

ConfigMaps == [managed : BOOLEAN, version : Versions, data : Versions \cup {"edited"}]

DashboardTypeOK ==
  /\ dash \subseteq ConfigMaps /\ \A d, e \in dash : d = e
  /\ version \in [Processes -> Versions]
  /\ pc \in [Processes -> Watching \cup Seeding \cup {"down", "seeded", "exit", "delete", "gone"}]
  /\ seen \in [Processes -> SUBSET ConfigMaps]
  /\ stale \in [Processes -> BOOLEAN] /\ event \in [Processes -> BOOLEAN]
  /\ crashes \in 0..MaxCrashes /\ edits \in 0..MaxEdits

\* Types, and what a process may rely on before it writes or deletes, however the
\* others interleave, crash and edit: unless the ConfigMap has changed since, it
\* still is what the process read, and about to delete it is the process's own
\* (dashboards.go:69-107).  A request waits only where a watch has started: a
\* seeding that fails ends the process instead.
ReadsHold ==
  /\ DashboardTypeOK
  /\ \A p \in Processes :
       /\ event[p] => pc[p] \in Watching
       /\ pc[p] \in {"seedWrite", "write"} /\ ~stale[p] => seen[p] = dash
       /\ pc[p] = "delete" /\ ~stale[p] => \E d \in dash : d.managed /\ d.version = version[p]

\* Once a process has its watch, a dashboard that is there ends up as the one of
\* that process, and stays so for as long as the process runs: it comes back though
\* an old process undoes it, removes it at exit after having checked another one, or
\* somebody deletes or edits it (dashboards.go:69-127).
DashboardRestored ==
  \A p \in Processes :
    (pc[p] \in Watching /\ dash # {}) ~> ([](dash = {newDashboardConfigMap(p)}) \/ pc[p] \notin Watching)
=============================================================================
