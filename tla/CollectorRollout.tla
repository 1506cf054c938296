--------------------------- MODULE CollectorRollout ---------------------------
(***************************************************************************)
(* What the operator promises about the collector of one forwarder, without *)
(* caches, queues, reconciles, owners or conditions: revisions of the spec  *)
(* are requested, some are approved, and only approved ones reach the       *)
(* cluster, the configuration before the collector that reads it, and none  *)
(* after a newer one.                                                       *)
(***************************************************************************)
EXTENDS Naturals

CONSTANT Kinds   \* the kinds of workload a collector may run as

VARIABLES
  requested,   \* the number of revisions written so far
  approvals,   \* the revisions found permitted and acceptable
  configured,  \* the revision the configuration stems from, 0 if there is none
  running      \* the revision each kind of collector stems from, 0 if none

rolloutVars == <<requested, approvals, configured, running>>

RolloutInit ==
  /\ requested = 0
  /\ approvals = {}
  /\ configured = 0
  /\ running = [k \in Kinds |-> 0]

\* A user writes the forwarder.
Request ==
  /\ requested' = requested + 1
  /\ UNCHANGED <<approvals, configured, running>>

\* A validation passes; it may be that of an outdated revision.
Approve(r) ==
  /\ r \in 1..requested
  /\ approvals' = approvals \cup {r}
  /\ UNCHANGED <<requested, configured, running>>

\* The configuration moves on before any collector does.
Configure(r) ==
  /\ r \in approvals
  /\ configured <= r
  /\ \A k \in Kinds : running[k] <= r
  /\ configured' = r
  /\ UNCHANGED <<requested, approvals, running>>

\* A collector is started, or moved on, to the revision it is configured for.
\* The configuration is missing only if it was removed with its owner.
Run(k, r) ==
  /\ r \in approvals
  /\ configured \in {0, r}
  /\ running[k] <= r
  /\ running' = [running EXCEPT ![k] = r]
  /\ UNCHANGED <<requested, approvals, configured>>

\* One kind of collector is removed, by the operator or by somebody else.
Stop(k) ==
  /\ running' = [running EXCEPT ![k] = 0]
  /\ UNCHANGED <<requested, approvals, configured>>

Unconfigure ==
  /\ configured' = 0
  /\ UNCHANGED <<requested, approvals, running>>

RolloutNext ==
  \/ Request
  \/ \E r \in 1..requested : Approve(r)
  \/ \E r \in approvals : Configure(r)
  \/ \E k \in Kinds, r \in approvals : Run(k, r)
  \/ \E k \in Kinds : Stop(k)
  \/ Unconfigure

RolloutSpec == RolloutInit /\ [][RolloutNext]_rolloutVars
=============================================================================
