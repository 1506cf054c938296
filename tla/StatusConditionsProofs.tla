------------------------ MODULE StatusConditionsProofs ------------------------
(***************************************************************************)
(* That the overall verdict of a forwarder is exact, for every set of specs *)
(* and every bound.  The validator counts conditions, so that the proof has *)
(* to know what a reconcile carries: conditions of elements of the spec it  *)
(* works on, and of nothing else, through pruning, migration and the merge  *)
(* of an older patch into the object the next reconcile starts from         *)
(* (NothingStale).                                                          *)
(***************************************************************************)
EXTENDS StatusConditions, TLAPS

-----------------------------------------------------------------------------
(* Facts about the operators *)

\* Migration leaves everything but the inputs, to which it adds sound ones.
LEMMA MigrationFacts ==
  ASSUME NEW s, Form(s)
  PROVE  /\ Form(MigrateInputs(s))
         /\ MigrateInputs(s).managed = s.managed
         /\ MigrateInputs(s).outputs = s.outputs
         /\ MigrateInputs(s).filters = s.filters
         /\ MigrateInputs(s).pipelines = s.pipelines
         /\ DOMAIN s.inputs \subseteq DOMAIN MigrateInputs(s).inputs
         /\ DOMAIN MigrateInputs(s).inputs \subseteq DOMAIN s.inputs \cup Reserved
<1> DEFINE implied == Reserved \cap UNION {Refs(s, i, "inputs") : i \in DOMAIN s.pipelines}
           added == [n \in implied |-> [sound |-> TRUE]]
           m == MigrateInputs(s)
<1>1. m = [managed |-> s.managed, inputs |-> Over(added, s.inputs), outputs |-> s.outputs,
           filters |-> s.filters, pipelines |-> s.pipelines]
  BY DEF MigrateInputs, Form
<1>2. DOMAIN added = implied /\ \A n \in implied : added[n].sound = TRUE
  OBVIOUS
<1> HIDE DEF added
<1>3. DOMAIN m.inputs = implied \cup DOMAIN s.inputs
  BY <1>1, <1>2 DEF Over
<1>4. \A n \in DOMAIN m.inputs : m.inputs[n].sound \in BOOLEAN
  <2>1. SUFFICES ASSUME NEW n \in DOMAIN m.inputs PROVE m.inputs[n].sound \in BOOLEAN
    OBVIOUS
  <2>2. \/ m.inputs[n] = added[n] /\ n \in implied
        \/ m.inputs[n] = s.inputs[n] /\ n \in DOMAIN s.inputs
    BY <1>1, <1>2, <1>3 DEF Over
  <2> QED
    BY <2>2, <1>2 DEF Form
<1>5. implied \subseteq Reserved
  OBVIOUS
<1> HIDE DEF m, implied
<1>6. Form(m)
  BY <1>1, <1>4 DEF Form
<1> QED
  BY <1>1, <1>3, <1>5, <1>6 DEF m

\* Names that occur, before and after migration.
LEMMA NamesFacts ==
  ASSUME NEW s \in Forms, NEW c \in Sections
  PROVE  /\ Names(s, c) \subseteq Names(MigrateInputs(s), c)
         /\ Names(MigrateInputs(s), c) \subseteq AllNames
         /\ Names(s, c) \subseteq AllNames
<1>1. Form(s)
  BY FormsAssumption
<1>2. Names(s, c) \subseteq AllNames
  BY DEF AllNames
<1>3. Names(s, c) \subseteq Names(MigrateInputs(s), c)
  BY <1>1, MigrationFacts DEF Names, PipelineNames, Sections
<1>4. Names(MigrateInputs(s), c) \subseteq Names(s, c) \cup Reserved
  BY <1>1, MigrationFacts DEF Names, PipelineNames, Sections
<1> QED
  BY <1>2, <1>3, <1>4 DEF AllNames

\* The validators have a verdict for every element, and for nothing else.
LEMMA VerdictsNamed ==
  ASSUME NEW s, Form(s), NEW c \in Sections
  PROVE  /\ DOMAIN Verdicts(s)[c] = Names(s, c)
         /\ \A n \in Names(s, c) : Verdicts(s)[c][n] \in BOOLEAN
<1>1. CASE c = "inputs"
  BY <1>1 DEF Verdicts, InputVerdicts, Names, Form
<1>2. CASE c = "outputs"
  BY <1>2 DEF Verdicts, OutputVerdicts, Names, Form
<1>3. CASE c = "filters"
  BY <1>3 DEF Verdicts, FilterVerdicts, Names, Form
<1>4. CASE c = "pipelines"
  BY <1>4 DEF Verdicts, PipelineVerdicts, Names
<1> QED
  BY <1>1, <1>2, <1>3, <1>4 DEF Sections

\* All pipelines are in order exactly if all of their verdicts say so, although
\* a verdict also stands for the pipelines before: names are unique.
LEMMA PipelinesSound ==
  ASSUME NEW s, Form(s)
  PROVE  (\A n \in PipelineNames(s) : PipelineVerdicts(s)[n])
           <=> \A i \in DOMAIN s.pipelines : PipelineSound(s, i)
<1> DEFINE at(n) == CHOOSE i \in DOMAIN s.pipelines : s.pipelines[i].name = n
<1>1. \A n \in PipelineNames(s) : PipelineVerdicts(s)[n] <=> \A j \in 1..at(n) : PipelineSound(s, j)
  BY DEF PipelineVerdicts
<1>2. \A i \in DOMAIN s.pipelines :
        /\ s.pipelines[i].name \in PipelineNames(s)
        /\ at(s.pipelines[i].name) = i
  BY DEF PipelineNames, Form
<1>3. \A n \in PipelineNames(s) : at(n) \in DOMAIN s.pipelines
  BY DEF PipelineNames
<1>4. DOMAIN s.pipelines = 1..Len(s.pipelines) /\ Len(s.pipelines) \in Nat
  BY DEF Form
<1> HIDE DEF at
<1>5. ASSUME \A n \in PipelineNames(s) : PipelineVerdicts(s)[n], NEW i \in DOMAIN s.pipelines
      PROVE  PipelineSound(s, i)
  <2>1. \A j \in 1..i : PipelineSound(s, j)
    BY <1>1, <1>2, <1>5
  <2> QED
    BY <2>1, <1>4
<1>6. ASSUME \A i \in DOMAIN s.pipelines : PipelineSound(s, i), NEW n \in PipelineNames(s)
      PROVE  PipelineVerdicts(s)[n]
  <2>1. \A j \in 1..at(n) : j \in DOMAIN s.pipelines
    BY <1>3, <1>4
  <2> QED
    BY <2>1, <1>1, <1>6
<1> QED
  BY <1>5, <1>6

\* Verdicts that all hold are what a sound spec is.
LEMMA VerdictsSound ==
  ASSUME NEW s, Form(s)
  PROVE  (\A c \in Sections : \A n \in Names(s, c) : Verdicts(s)[c][n]) <=> Sound(s)
<1>1. (\A n \in Names(s, "inputs") : Verdicts(s)["inputs"][n]) <=> \A n \in DOMAIN s.inputs : s.inputs[n].sound
  BY DEF Names, Verdicts, InputVerdicts
<1>2. (\A n \in Names(s, "filters") : Verdicts(s)["filters"][n]) <=> \A n \in DOMAIN s.filters : s.filters[n].sound
  BY DEF Names, Verdicts, FilterVerdicts
<1>3. (\A n \in Names(s, "outputs") : Verdicts(s)["outputs"][n])
        <=> \A n \in DOMAIN s.outputs : s.outputs[n].sound /\ Referenced(s, n)
  BY DEF Names, Verdicts, OutputVerdicts
<1>4. (\A n \in Names(s, "pipelines") : Verdicts(s)["pipelines"][n])
        <=> \A i \in DOMAIN s.pipelines : PipelineSound(s, i)
  BY PipelinesSound DEF Names, Verdicts
<1> QED
  BY <1>1, <1>2, <1>3, <1>4 DEF Sections, Sound

\* Membership in the type of the conditions of a section.
LEMMA ConditionsMember ==
  ASSUME NEW f, f = [n \in DOMAIN f |-> f[n]], DOMAIN f \subseteq AllNames,
         \A n \in DOMAIN f : f[n] \in [ok : BOOLEAN, time : 0..MaxClock]
  PROVE  f \in Conditions
<1>1. f \in [DOMAIN f -> [ok : BOOLEAN, time : 0..MaxClock]]
  OBVIOUS
<1> QED
  BY <1>1 DEF Conditions

\* And what it gives.
LEMMA ConditionsTyped ==
  ASSUME NEW f \in Conditions
  PROVE  /\ f = [n \in DOMAIN f |-> f[n]]
         /\ DOMAIN f \subseteq AllNames
         /\ \A n \in DOMAIN f : f[n] \in [ok : BOOLEAN, time : 0..MaxClock]
<1>1. PICK D \in SUBSET AllNames : f \in [D -> [ok : BOOLEAN, time : 0..MaxClock]]
  BY DEF Conditions
<1> QED
  BY <1>1

\* Setting conditions gives every verdict its condition and drops none.
LEMMA SetConditionsFacts ==
  ASSUME NEW f \in Conditions, NEW v, DOMAIN v \subseteq AllNames,
         \A n \in DOMAIN v : v[n] \in BOOLEAN, now \in 0..MaxClock
  PROVE  /\ SetConditions(f, v) \in Conditions
         /\ DOMAIN SetConditions(f, v) = DOMAIN v \cup DOMAIN f
         /\ \A n \in DOMAIN v : SetConditions(f, v)[n].ok = v[n]
<1> DEFINE new == [n \in DOMAIN v |-> SetCondition(f, n, v[n])]
<1>1. DOMAIN new = DOMAIN v
  OBVIOUS
<1>2. \A n \in DOMAIN v : new[n] \in [ok : BOOLEAN, time : 0..MaxClock] /\ new[n].ok = v[n]
  BY ConditionsTyped DEF SetCondition
<1>3. SetConditions(f, v) = Over(new, f)
  BY DEF SetConditions
<1> HIDE DEF new
<1>4. /\ DOMAIN Over(new, f) = DOMAIN v \cup DOMAIN f
      /\ Over(new, f) = [x \in DOMAIN Over(new, f) |-> Over(new, f)[x]]
      /\ \A x \in DOMAIN Over(new, f) : Over(new, f)[x] = IF x \in DOMAIN v THEN new[x] ELSE f[x]
  BY <1>1 DEF Over
<1>5. \A n \in DOMAIN Over(new, f) : Over(new, f)[n] \in [ok : BOOLEAN, time : 0..MaxClock]
  BY <1>1, <1>2, <1>4, ConditionsTyped
<1>6. DOMAIN Over(new, f) \subseteq AllNames
  BY <1>4, ConditionsTyped
<1>7. Over(new, f) \in Conditions
  BY <1>4, <1>5, <1>6, ConditionsMember
<1> QED
  BY <1>2, <1>3, <1>4, <1>7

LEMMA PruneFacts ==
  ASSUME NEW f \in Conditions, NEW names
  PROVE  /\ PruneConditions(f, names) \in Conditions
         /\ DOMAIN PruneConditions(f, names) \subseteq names
<1> DEFINE p == PruneConditions(f, names)
<1>1. DOMAIN p = DOMAIN f \cap names /\ p = [n \in DOMAIN p |-> p[n]] /\ \A n \in DOMAIN p : p[n] = f[n]
  BY DEF PruneConditions
<1> HIDE DEF p
<1>2. p \in Conditions
  BY <1>1, ConditionsTyped, ConditionsMember
<1> QED
  BY <1>1, <1>2 DEF p

-----------------------------------------------------------------------------
(* The invariant *)

\* What the invariant says of a forwarder that is stored or cached.
LEMMA UnwrittenStored == Unwritten \in StoredForwarder /\ Unwritten.spec \in Forms
<1>1. (CHOOSE s \in Forms : TRUE) \in Forms
  BY FormsAssumption
<1>2. NoConditions \in Conditions
  <2>1. /\ DOMAIN NoConditions = {}
        /\ NoConditions = [n \in DOMAIN NoConditions |-> NoConditions[n]]
    BY DEF NoConditions
  <2> QED
    BY <2>1, ConditionsMember
<1> QED
  BY <1>1, <1>2 DEF Unwritten, StoredForwarder

LEMMA StatusInitially == StatusInit => NothingStale
<1> SUFFICES ASSUME StatusInit PROVE NothingStale
  OBVIOUS
<1>1. 0 \in 0..MaxClock /\ MaxEdits \in 0..MaxEdits /\ MaxFaults \in 0..MaxFaults
  BY BoundsAssumption
<1>2. StatusTypeOK
  BY <1>1, UnwrittenStored DEF StatusInit, StatusTypeOK
<1> QED
  BY <1>2, UnwrittenStored DEF StatusInit, NothingStale

LEMMA FetchKeeps == NothingStale /\ FetchAndPrune => NothingStale'
<1> SUFFICES ASSUME NothingStale, FetchAndPrune PROVE NothingStale'
  OBVIOUS
<1> USE DEF NothingStale, StatusTypeOK
<1> DEFINE pruned == [c \in Sections |-> PruneConditions(cached.conditions[c], Names(cached.spec, c))]
<1>1. cached \in StoredForwarder /\ cached.spec \in Forms
  OBVIOUS
<1>2. \A c \in Sections : pruned[c] \in Conditions /\ DOMAIN pruned[c] \subseteq Names(cached.spec, c)
  BY <1>1, PruneFacts DEF StoredForwarder
<1>3. pruned \in [Sections -> Conditions]
  BY <1>2
<1>4. cxt' = [cached EXCEPT !.conditions = pruned]
  BY DEF FetchAndPrune
<1> HIDE DEF pruned
<1>5. cxt' \in StoredForwarder /\ cxt'.spec = cached.spec /\ cxt'.conditions = pruned
  BY <1>1, <1>3, <1>4 DEF StoredForwarder
<1>6. StatusTypeOK'
  BY <1>5 DEF FetchAndPrune, StoredForwarder
<1>7. pc' \in {"initialize", "status"}
  BY DEF FetchAndPrune
<1> QED
  BY <1>1, <1>2, <1>5, <1>6, <1>7 DEF FetchAndPrune

LEMMA InitializeKeeps == NothingStale /\ InitializeSpec => NothingStale'
<1> SUFFICES ASSUME NothingStale, InitializeSpec PROVE NothingStale'
  OBVIOUS
<1> USE DEF NothingStale, StatusTypeOK
<1>1. cxt \in StoredForwarder /\ cxt.spec \in Forms
  BY DEF InitializeSpec
<1>2. /\ cxt' = [cxt EXCEPT !.spec = MigrateInputs(cxt.spec)]
      /\ cxt'.spec = MigrateInputs(cxt.spec) /\ cxt'.conditions = cxt.conditions
      /\ cxt' \in StoredForwarder
  BY <1>1 DEF InitializeSpec, StoredForwarder
<1>3. faults' \in 0..MaxFaults /\ pc' \in {"validate", "status"}
  BY BoundsAssumption DEF InitializeSpec, Fault, NoFault
<1>4. StatusTypeOK'
  BY <1>2, <1>3 DEF InitializeSpec, StoredForwarder
<1>5. \A c \in Sections : DOMAIN cxt'.conditions[c] \subseteq Names(cxt'.spec, c)
  BY <1>1, <1>2, NamesFacts DEF InitializeSpec
<1> QED
  BY <1>1, <1>2, <1>3, <1>4, <1>5 DEF InitializeSpec

\* Validation leaves one condition for each element, which says its verdict.
LEMMA ValidatedFacts ==
  ASSUME NothingStale, pc = "validate"
  PROVE  /\ Form(cxt.spec)
         /\ Validated(cxt.spec, cxt.conditions) \in [Sections -> Conditions]
         /\ \A c \in Sections :
              /\ DOMAIN Validated(cxt.spec, cxt.conditions)[c] = Names(cxt.spec, c)
              /\ \A n \in Names(cxt.spec, c) :
                   Validated(cxt.spec, cxt.conditions)[c][n].ok = Verdicts(cxt.spec)[c][n]
<1> DEFINE s == cxt.spec
           set(c) == SetConditions(cxt.conditions[c], Verdicts(s)[c])
<1>1. PICK f \in Forms : s = MigrateInputs(f)
  BY DEF NothingStale
<1>2. Form(s)
  BY <1>1, FormsAssumption, MigrationFacts
<1>3. ASSUME NEW c \in Sections
      PROVE  /\ set(c) \in Conditions
             /\ DOMAIN set(c) = Names(s, c)
             /\ \A n \in Names(s, c) : set(c)[n].ok = Verdicts(s)[c][n]
  <2>1. cxt.conditions[c] \in Conditions /\ DOMAIN cxt.conditions[c] \subseteq Names(s, c)
    BY DEF NothingStale, StatusTypeOK, StoredForwarder
  <2>2. Names(s, c) \subseteq AllNames
    BY <1>1, NamesFacts
  <2>3. now \in 0..MaxClock
    BY DEF NothingStale, StatusTypeOK
  <2>4. DOMAIN Verdicts(s)[c] = Names(s, c) /\ \A n \in Names(s, c) : Verdicts(s)[c][n] \in BOOLEAN
    BY <1>2, VerdictsNamed
  <2> DEFINE g == cxt.conditions[c]
             v == Verdicts(s)[c]
  <2>5. /\ g \in Conditions
        /\ DOMAIN v \subseteq AllNames
        /\ \A n \in DOMAIN v : v[n] \in BOOLEAN
    BY <2>1, <2>2, <2>4
  <2> HIDE DEF g, v
  <2>6. /\ SetConditions(g, v) \in Conditions
        /\ DOMAIN SetConditions(g, v) = DOMAIN v \cup DOMAIN g
        /\ \A n \in DOMAIN v : SetConditions(g, v)[n].ok = v[n]
    BY <2>3, <2>5, SetConditionsFacts
  <2> QED
    BY <2>1, <2>4, <2>6 DEF g, v
<1>4. Validated(s, cxt.conditions) = [c \in Sections |-> set(c)]
  BY DEF Validated
<1> HIDE DEF set
<1>5. Validated(s, cxt.conditions) \in [Sections -> Conditions]
  BY <1>3, <1>4
<1> QED
  BY <1>2, <1>3, <1>4, <1>5

LEMMA ValidateKeeps == NothingStale /\ ValidateForwarder => NothingStale'
<1> SUFFICES ASSUME NothingStale, ValidateForwarder PROVE NothingStale'
  OBVIOUS
<1>1. Validated(cxt.spec, cxt.conditions) \in [Sections -> Conditions]
  BY ValidatedFacts DEF ValidateForwarder
<1>2. PICK v \in {"True", "False"} :
        cxt' = [cxt EXCEPT !.conditions = Validated(cxt.spec, cxt.conditions), !.valid = v]
  BY DEF ValidateForwarder
<1>3. cxt' \in StoredForwarder
  BY <1>1, <1>2 DEF NothingStale, StatusTypeOK, StoredForwarder
<1> QED
  BY <1>3 DEF ValidateForwarder, NothingStale, StatusTypeOK, StoredForwarder

LEMMA PatchKeeps == NothingStale /\ PatchStatus => NothingStale'
<1> SUFFICES ASSUME NothingStale, PatchStatus PROVE NothingStale'
  OBVIOUS
<1> USE DEF NothingStale, StatusTypeOK
<1>1. MergePatch(object.conditions, cxt.conditions) \in [Sections -> Conditions]
  BY DEF MergePatch, StoredForwarder
<1>2. object' \in StoredForwarder /\ object'.spec = object.spec
  <2>1. CASE object' = object
    BY <2>1
  <2>2. CASE object' = [object EXCEPT !.conditions = MergePatch(object.conditions, cxt.conditions),
                                      !.valid = cxt.valid]
    BY <1>1, <2>2 DEF StoredForwarder
  <2> QED
    BY <2>1, <2>2 DEF PatchStatus
<1>3. faults' \in 0..MaxFaults
  BY BoundsAssumption DEF PatchStatus, Fault, NoFault
<1> QED
  BY <1>2, <1>3, UnwrittenStored DEF PatchStatus, StoredForwarder, Unwritten

LEMMA StatusStep == NothingStale /\ [StatusNext]_statusVars => NothingStale'
<1> SUFFICES ASSUME NothingStale, [StatusNext]_statusVars PROVE NothingStale'
  OBVIOUS
<1>1. CASE Tick
  <2>1. now' \in 0..MaxClock
    BY <1>1, BoundsAssumption DEF Tick, NothingStale, StatusTypeOK
  <2> QED
    BY <1>1, <2>1 DEF Tick, NothingStale, StatusTypeOK, StoredForwarder
<1>2. ASSUME NEW s \in Forms, WriteSpec(s) PROVE NothingStale'
  <2>1. edits' \in 0..MaxEdits
    BY <1>2, BoundsAssumption DEF WriteSpec, NothingStale, StatusTypeOK
  <2>2. object' \in StoredForwarder /\ object'.spec = s
    BY <1>2 DEF WriteSpec, NothingStale, StatusTypeOK, StoredForwarder
  <2> QED
    BY <1>2, <2>1, <2>2 DEF WriteSpec, NothingStale, StatusTypeOK, StoredForwarder
<1>3. CASE SyncCache
  BY <1>3 DEF SyncCache, NothingStale, StatusTypeOK, StoredForwarder
<1>4. CASE Requeue
  BY <1>4 DEF Requeue, NothingStale, StatusTypeOK, StoredForwarder
<1>5. CASE RestartProcess
  <2>1. faults' \in 0..MaxFaults
    BY <1>5, BoundsAssumption DEF RestartProcess, Fault, NothingStale, StatusTypeOK
  <2>2. queued' \in BOOLEAN
    BY <1>5 DEF RestartProcess, NothingStale, StatusTypeOK, StoredForwarder
  <2> QED
    BY <1>5, <2>1, <2>2, UnwrittenStored DEF RestartProcess, NothingStale, StatusTypeOK, StoredForwarder
<1>6. CASE ReconcileStatus
  BY <1>6, FetchKeeps, InitializeKeeps, ValidateKeeps, PatchKeeps DEF ReconcileStatus
<1>7. CASE UNCHANGED statusVars
  BY <1>7 DEF statusVars, NothingStale, StatusTypeOK, StoredForwarder
<1> QED
  BY <1>1, <1>2, <1>3, <1>4, <1>5, <1>6, <1>7 DEF StatusNext

\* From pruning to validation a reconcile carries conditions of elements of the
\* spec it works on only, whatever the stored status held (removeStaleStatuses,
\* migration, and the merge patch that keeps what it does not mention).
THEOREM NothingStaleHolds == StatusSpec => []NothingStale
<1>1. StatusInit => NothingStale
  BY StatusInitially
<1>2. NothingStale /\ [StatusNext]_statusVars => NothingStale'
  BY StatusStep
<1> QED
  BY <1>1, <1>2, PTL DEF StatusSpec

-----------------------------------------------------------------------------
(* The verdict *)

LEMMA VerdictStep ==
  NothingStale /\ [StatusNext]_statusVars =>
    [pc = "validate" /\ pc' = "status" => (cxt'.valid = "True") = Sound(cxt.spec)]_statusVars
<1> SUFFICES ASSUME NothingStale, StatusNext, pc = "validate", pc' = "status"
             PROVE  (cxt'.valid = "True") = Sound(cxt.spec)
  OBVIOUS
<1> DEFINE s == cxt.spec
           conditions == Validated(s, cxt.conditions)
<1>1. ValidateForwarder
  BY DEF StatusNext, Tick, WriteSpec, SyncCache, Requeue, RestartProcess, ReconcileStatus, FetchAndPrune,
         InitializeSpec, PatchStatus
<1>2. cxt'.valid = IF AllValid(s, conditions) THEN "True" ELSE "False"
  BY <1>1 DEF ValidateForwarder, NothingStale, StatusTypeOK, StoredForwarder
<1>3. \A c \in Sections : isValid(conditions[c], Cardinality(Names(s, c)))
                            <=> \A n \in Names(s, c) : Verdicts(s)[c][n]
  BY ValidatedFacts DEF isValid
<1>4. AllValid(s, conditions) <=> Sound(s)
  BY <1>3, ValidatedFacts, VerdictsSound DEF AllValid
<1>5. Sound(s) \in BOOLEAN
  BY DEF Sound
<1> HIDE DEF s, conditions
<1> QED
  BY <1>2, <1>4, <1>5 DEF s

\* The overall verdict, which counts conditions, says exactly whether the spec it
\* was formed for is in order (IsValidSpec, conditions.go).
THEOREM VerdictIsExact == StatusSpec => VerdictExact
<1>1. NothingStale /\ [StatusNext]_statusVars =>
        [pc = "validate" /\ pc' = "status" => (cxt'.valid = "True") = Sound(cxt.spec)]_statusVars
  BY VerdictStep
<1> QED
  BY <1>1, NothingStaleHolds, PTL DEF StatusSpec, VerdictExact

=============================================================================
