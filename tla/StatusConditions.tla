--------------------------- MODULE StatusConditions ---------------------------
(***************************************************************************)
(* The conditions a ClusterLogForwarder reports about each of its inputs,   *)
(* outputs, filters and pipelines (internal/api/observability/conditions.go *)
(* and forwarder.go, internal/api/initialize, internal/validations and the  *)
(* status part of clusterlogforwarder_controller.go).                       *)
(*                                                                          *)
(* A reconcile takes the conditions of the cached forwarder, prunes those   *)
(* of elements the spec no longer has, migrates the spec, lets the          *)
(* validators set a condition for every element, counts them for the        *)
(* overall verdict, and sends the result as a merge patch.                  *)
(***************************************************************************)
EXTENDS Naturals, Sequences, FiniteSets

CONSTANTS
  Forms,       \* the specs users write
  MaxEdits,    \* bound on the writes of a spec
  MaxFaults,   \* bound on API failures and restarts
  MaxClock     \* the last second of the clock

\* Specs as the API server admits them: the lists are keyed by name, so that no
\* two pipelines share one.
Form(s) ==
  /\ s = [managed |-> s.managed, inputs |-> s.inputs, outputs |-> s.outputs,
          filters |-> s.filters, pipelines |-> s.pipelines]
  /\ s.managed \in BOOLEAN
  /\ \A n \in DOMAIN s.inputs : s.inputs[n].sound \in BOOLEAN
  /\ \A n \in DOMAIN s.outputs : s.outputs[n].sound \in BOOLEAN
  /\ \A n \in DOMAIN s.filters : s.filters[n].sound \in BOOLEAN
  /\ Len(s.pipelines) \in Nat /\ DOMAIN s.pipelines = 1..Len(s.pipelines)
  /\ \A i, j \in DOMAIN s.pipelines :
       s.pipelines[i].name = s.pipelines[j].name => i = j

ASSUME FormsAssumption == Forms # {} /\ \A s \in Forms : Form(s)
ASSUME BoundsAssumption == MaxEdits \in Nat /\ MaxFaults \in Nat /\ MaxClock \in Nat

\* Input names that a pipeline may use without declaring them.
Reserved == {"application", "infrastructure", "audit"}

VARIABLES
  object,     \* the forwarder on the API server: spec, conditions, Valid
  cached,     \* the same in the informer cache
  queued, pc, \* work queue and step of the reconcile
  cxt,        \* the forwarder the reconcile works on
  now,        \* seconds
  edits, faults

statusVars == <<object, cached, queued, pc, cxt, now, edits, faults>>

-----------------------------------------------------------------------------
(* Specs.  inputs, outputs and filters are functions from names to what the  *)
(* validators look at; sound is what the validator of the element's own      *)
(* fields finds.                                                             *)

\* f, and g where f is not defined.
Over(f, g) ==
  [x \in DOMAIN f \cup DOMAIN g |-> IF x \in DOMAIN f THEN f[x] ELSE g[x]]

Refs(s, i, kind) == s.pipelines[i][kind]
PipelineNames(s) == {s.pipelines[i].name : i \in DOMAIN s.pipelines}

\* Reserved inputs that some pipeline refers to are put in the spec, in place
\* of any declared input of that name.
MigrateInputs(s) ==
  LET implied == Reserved \cap UNION {Refs(s, i, "inputs") : i \in DOMAIN s.pipelines}
  IN  [s EXCEPT !.inputs = Over([n \in implied |-> [sound |-> TRUE]], @)]

Sections == {"inputs", "outputs", "filters", "pipelines"}

Names(s, section) ==
  IF section = "pipelines" THEN PipelineNames(s) ELSE DOMAIN s[section]

-----------------------------------------------------------------------------
(* Conditions of one section: a function from names to status and time.      *)

NoConditions == [n \in {} |-> [ok |-> FALSE, time |-> 0]]

\* Faulty variant: nothing is pruned.
KeepConditions(conditions, names) == conditions

PruneConditions(conditions, names) ==
  [n \in DOMAIN conditions \cap names |-> conditions[n]]

\* The new condition; the transition time is kept when the status is.
SetCondition(conditions, n, ok) ==
  LET kept == n \in DOMAIN conditions /\ conditions[n].ok = ok
  IN  [ok |-> ok, time |-> IF kept THEN conditions[n].time ELSE now]

\* One SetCondition for each verdict.
SetConditions(conditions, verdicts) ==
  Over([n \in DOMAIN verdicts |-> SetCondition(conditions, n, verdicts[n])],
       conditions)

\* As many conditions as elements, and all of them met.
isValid(conditions, expected) ==
  /\ Cardinality(DOMAIN conditions) = expected
  /\ \A n \in DOMAIN conditions : conditions[n].ok

\* Faulty variant: conditions are merged one by one.
MergeEach(published, new) == [c \in Sections |-> Over(new[c], published[c])]

\* An empty list is left out of the patch (omitempty), and what a merge patch
\* leaves out stays; a list that is there replaces the old one.
MergePatch(published, new) ==
  [c \in Sections |-> IF DOMAIN new[c] = {} THEN published[c] ELSE new[c]]

-----------------------------------------------------------------------------
(* Validators, on a migrated spec *)

InputVerdicts(s)  == [n \in DOMAIN s.inputs |-> s.inputs[n].sound]
FilterVerdicts(s) == [n \in DOMAIN s.filters |-> s.filters[n].sound]

Referenced(s, out) ==
  \E i \in DOMAIN s.pipelines : out \in Refs(s, i, "outputs")

OutputVerdicts(s) ==
  [n \in DOMAIN s.outputs |-> s.outputs[n].sound /\ Referenced(s, n)]

validateRef(s, i) ==
  \A kind \in {"inputs", "outputs", "filters"} :
    Refs(s, i, kind) \subseteq DOMAIN s[kind]

\* An output to Google Cloud Logging needs .hostname: no filter of the
\* pipeline may prune it.
HostNameKept(s, i) ==
  ~\E out \in Refs(s, i, "outputs") \cap DOMAIN s.outputs,
      f \in Refs(s, i, "filters") \cap DOMAIN s.filters :
     s.outputs[out].gcl /\ s.filters[f].prunesHostName

PipelineSound(s, i) == validateRef(s, i) /\ HostNameKept(s, i)

\* The messages of a pipeline are added to those of the pipelines before it.
PipelineVerdicts(s) ==
  [n \in PipelineNames(s) |->
     LET i == CHOOSE i \in DOMAIN s.pipelines : s.pipelines[i].name = n
     IN  \A j \in 1..i : PipelineSound(s, j)]

Verdicts(s) ==
  [inputs |-> InputVerdicts(s), outputs |-> OutputVerdicts(s),
   filters |-> FilterVerdicts(s), pipelines |-> PipelineVerdicts(s)]

Validated(s, conditions) ==
  [c \in Sections |-> SetConditions(conditions[c], Verdicts(s)[c])]

\* The part of IsValidSpec that looks at the sections.
AllValid(s, conditions) ==
  \A c \in Sections : isValid(conditions[c], Cardinality(Names(s, c)))

-----------------------------------------------------------------------------
Unwritten == [spec |-> CHOOSE s \in Forms : TRUE, written |-> FALSE,
              conditions |-> [c \in Sections |-> NoConditions],
              valid |-> "None"]

AllNames == Reserved \cup UNION {Names(s, c) : s \in Forms, c \in Sections}
Conditions ==
  UNION {[D -> [ok : BOOLEAN, time : 0..MaxClock]] : D \in SUBSET AllNames}
StoredForwarder ==
  [spec : Forms \cup {MigrateInputs(s) : s \in Forms}, written : BOOLEAN,
   conditions : [Sections -> Conditions], valid : {"None", "False", "True"}]

StatusTypeOK ==
  /\ {object, cached, cxt} \subseteq StoredForwarder
  /\ queued \in BOOLEAN
  /\ pc \in {"idle", "initialize", "validate", "status"}
  /\ now \in 0..MaxClock
  /\ edits \in 0..MaxEdits
  /\ faults \in 0..MaxFaults

StatusInit ==
  /\ object = Unwritten /\ cached = Unwritten /\ cxt = Unwritten
  /\ queued = FALSE
  /\ pc = "idle"
  /\ now = 0
  /\ edits = MaxEdits
  /\ faults = MaxFaults

Fault == faults > 0 /\ faults' = faults - 1
NoFault == UNCHANGED faults

Tick ==
  /\ now < MaxClock
  /\ now' = now + 1
  /\ UNCHANGED <<object, cached, queued, pc, cxt, edits, faults>>

WriteSpec(s) ==
  /\ edits > 0
  /\ edits' = edits - 1
  /\ ~object.written \/ s # object.spec
  /\ object' = [object EXCEPT !.spec = s, !.written = TRUE]
  /\ UNCHANGED <<cached, queued, pc, cxt, now, faults>>

\* The watch; an update of the status is an event like any other.
SyncCache ==
  /\ cached # object
  /\ cached' = object
  /\ queued' = TRUE
  /\ UNCHANGED <<object, pc, cxt, now, edits, faults>>

\* Resync, or an event of an owned object.
Requeue ==
  /\ ~queued
  /\ cached.written
  /\ queued' = TRUE
  /\ UNCHANGED <<object, cached, pc, cxt, now, edits, faults>>

RestartProcess ==
  /\ Fault
  /\ cached' = object
  /\ queued' = object.written
  /\ pc' = "idle"
  /\ cxt' = Unwritten
  /\ UNCHANGED <<object, now, edits>>

\* removeStaleStatuses comes before everything else, and before migration.
FetchAndPrune ==
  /\ pc = "idle" /\ queued
  /\ queued' = FALSE
  /\ cxt' = [cached EXCEPT !.conditions =
       [c \in Sections |-> PruneConditions(@[c], Names(cached.spec, c))]]
  /\ pc' = IF cached.spec.managed THEN "initialize" ELSE "status"
  /\ UNCHANGED <<object, cached, now, edits, faults>>

\* initialize migrates first; a failure to read Secrets or ConfigMaps ends the
\* reconcile.
InitializeSpec ==
  /\ pc = "initialize"
  /\ cxt' = [cxt EXCEPT !.spec = MigrateInputs(@)]
  /\ \/ NoFault /\ pc' = "validate"
     \/ Fault /\ pc' = "status"
  /\ UNCHANGED <<object, cached, queued, now, edits>>

ValidateForwarder ==
  /\ pc = "validate"
  /\ LET conditions == Validated(cxt.spec, cxt.conditions)
         valid == AllValid(cxt.spec, conditions)
     IN  cxt' = [cxt EXCEPT !.conditions = conditions,
                            !.valid = IF valid THEN "True" ELSE "False"]
  /\ pc' = "status"
  /\ UNCHANGED <<object, cached, queued, now, edits, faults>>

\* The patch carries the status only; an error is logged.
PatchStatus ==
  /\ pc = "status"
  /\ \/ /\ NoFault
        /\ object' = [object EXCEPT
             !.conditions = MergePatch(@, cxt.conditions), !.valid = cxt.valid]
     \/ Fault /\ UNCHANGED object
  /\ pc' = "idle"
  /\ cxt' = Unwritten
  /\ UNCHANGED <<cached, queued, now, edits>>

ReconcileStatus ==
  FetchAndPrune \/ InitializeSpec \/ ValidateForwarder \/ PatchStatus

StatusNext ==
  \/ Tick
  \/ \E s \in Forms : WriteSpec(s)
  \/ SyncCache
  \/ Requeue
  \/ RestartProcess
  \/ ReconcileStatus

StatusFairness ==
  WF_statusVars(SyncCache) /\ WF_statusVars(Requeue)
    /\ WF_statusVars(ReconcileStatus)

StatusSpec == StatusInit /\ [][StatusNext]_statusVars /\ StatusFairness

-----------------------------------------------------------------------------
\* What the verdict stands for: every element of the spec is in order.
Sound(s) ==
  /\ \A n \in DOMAIN s.inputs : s.inputs[n].sound
  /\ \A n \in DOMAIN s.filters : s.filters[n].sound
  /\ \A n \in DOMAIN s.outputs : s.outputs[n].sound /\ Referenced(s, n)
  /\ \A i \in DOMAIN s.pipelines : PipelineSound(s, i)

\* Types, and what the count of conditions relies on: from the moment a reconcile
\* has pruned, through migration and whatever the status of the cached forwarder
\* held, it carries conditions of elements of the spec it works on only
\* (removeStaleStatuses, IsValidSpec).
NothingStale ==
  /\ StatusTypeOK
  /\ {object.spec, cached.spec} \subseteq Forms
  /\ pc = "initialize" => cxt.spec \in Forms
  /\ pc = "validate" => \E s \in Forms : cxt.spec = MigrateInputs(s)
  /\ pc \in {"initialize", "validate"} =>
       \A c \in Sections : DOMAIN cxt.conditions[c] \subseteq Names(cxt.spec, c)

\* The overall verdict, which counts conditions, says exactly whether the spec
\* it was formed for is in order: no condition left over from an earlier spec,
\* or patched over by an older reconcile, makes the count right or wrong.
VerdictExact ==
  [][pc = "validate" /\ pc' = "status" =>
       (cxt'.valid = "True") = Sound(cxt.spec)]_statusVars

Settled == MigrateInputs(object.spec)

\* Once the disturbances end, a managed forwarder reports on exactly its
\* elements, reserved inputs included, in every section that is not empty;
\* inputs, outputs and filters by their own verdict, and pipelines up to and
\* including the first one that is not in order.
ConditionsConverge ==
  <>[](object.written /\ object.spec.managed =>
         \A c \in Sections : Names(Settled, c) # {} =>
           /\ DOMAIN object.conditions[c] = Names(Settled, c)
           /\ \A n \in Names(Settled, c) :
                object.conditions[c][n].ok = Verdicts(Settled)[c][n])

===============================================================================
