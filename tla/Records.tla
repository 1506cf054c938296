-------------------------------- MODULE Records --------------------------------
(*****************************************************************************)
(* A record on its way through one pipeline of the collector: what a source  *)
(* read is normalized, goes through the filters of the pipeline in the order *)
(* AddSystemFilters gives them (parse and multiline detection, then viaq,    *)
(* then the others) and is delivered, or dropped on the way.                 *)
(*****************************************************************************)
EXTENDS RecordFilters

CONSTANTS
  Records,       \* what is read, with the sources of the pipeline's inputs: [source, read, inputs]
  FilterSpecs,   \* the filters a user may write
  MaxFilters     \* how many of them a pipeline names

Sources == {"container", "auditd", "ovn", "kubeAPI", "openshiftAPI", "node", "syslog", "http"}

FilterTypes == {"parse", "detectMultilineException", "openshiftLabels", "drop", "prune", "kubeAPIAudit"}

\* The names of labels and the fields that drop and prune filters name are paths.
\* Left out is a label in several segments of which the first and the last are in
\* quotes: Vector does not accept the program that is generated for it.
ASSUME FiltersAssumption ==
  /\ MaxFilters \in Nat
  /\ \A f \in FilterSpecs :
       /\ f.type \in FilterTypes
       /\ f.type = "openshiftLabels" => \A s \in DOMAIN f.labels : IsPath(s)
       /\ f.type = "drop" => \A test \in f.tests : \A cond \in test : IsPath(cond.field)
       /\ f.type = "prune" => \A p \in f.in \cup f.notIn :
            /\ IsPath(p.segments) /\ p.segments # << >> /\ p.quoted \subseteq DOMAIN p.segments
            /\ NamesLabel(p) /\ ~SpelledOut(p) => ~({3, Len(p.segments)} \subseteq p.quoted)

\* What Vector's sources emit: every record but a journal entry and what an HTTP
\* receiver was sent has its line or message; the files of auditd and OVN give
\* nothing of their own besides.  The file of a container names its namespace and
\* its pod; what Vector knows of the pod, if anything, is of that one.
ASSUME RecordsAssumption ==
  \A r \in Records :
    /\ r.source \in r.inputs /\ r.inputs \subseteq Sources
    /\ \A q \in DOMAIN r.read : IsPath(q)
    /\ r.source \notin {"node", "http"} => Value(r.read, <<"message">>) # Null
    /\ r.source \in {"auditd", "ovn"} => ~Has(r.read, <<"structured">>)
    /\ r.source = "container" =>
         /\ <<"file", "namespace">> \in DOMAIN r.read
         /\ Has(r.read, <<"kubernetes", "namespace_name">>) =>
              Value(r.read, <<"kubernetes", "namespace_name">>) = r.read[<<"file", "namespace">>]

VARIABLES
  record,   \* what was read
  filters,  \* the user's filters, in the order of the pipeline
  pass,     \* at the input, among the filters before viaq, or among those after it
  last,     \* the last filter of the pass that was done
  event,    \* the record now
  alive     \* not dropped

vars == <<record, filters, pass, last, event, alive>>

IsEarlyStage(f) == f.type \in {"parse", "detectMultilineException"}

\* The filters that AddSystemFilters puts before viaq, and those it puts after it.
InPass(i) == IsEarlyStage(filters[i]) <=> pass = "early"

Remaining == {i \in DOMAIN filters : i > last /\ InPass(i)}

\* A pass keeps the order of the pipeline.
AtFilter(i, type) ==
  /\ alive /\ pass # "input"
  /\ i \in Remaining /\ \A j \in Remaining : i <= j
  /\ filters[i].type = type

Pass(ev) == event' = ev /\ alive' = TRUE

Drop == event' = event /\ alive' = FALSE

Advance(i) == last' = i /\ UNCHANGED <<record, filters, pass>>

-----------------------------------------------------------------------------

Init ==
  /\ record \in Records
  /\ filters \in UNION {[1..n -> {f \in FilterSpecs : ValidateFilter(f)}] : n \in 0..MaxFilters}
  /\ pass = "input" /\ last = 0
  /\ event = record.read
  /\ alive = TRUE

NormalizeRecord ==
  /\ pass = "input"
  /\ Pass(Normalize(record.source, event))
  /\ pass' = "early"
  /\ UNCHANGED <<record, filters, last>>

RunParse == \E i \in DOMAIN filters : AtFilter(i, "parse") /\ Pass(ParseFilter(event)) /\ Advance(i)

\* A record that is no part of an exception passes as it is.
RunDetectExceptions ==
  \E i \in DOMAIN filters : AtFilter(i, "detectMultilineException") /\ Pass(event) /\ Advance(i)

RunViaq ==
  /\ pass = "early" /\ Remaining = {}
  /\ Pass(Viaq(record.inputs, event))
  /\ pass' = "late" /\ last' = 0
  /\ UNCHANGED <<record, filters>>

RunLabels ==
  \E i \in DOMAIN filters :
    AtFilter(i, "openshiftLabels") /\ Pass(LabelsFilter(filters[i], event)) /\ Advance(i)

RunDrop ==
  \E i \in DOMAIN filters :
    /\ AtFilter(i, "drop")
    /\ IF Drops(filters[i], event) THEN Drop ELSE Pass(event)
    /\ Advance(i)

RunPrune ==
  \E i \in DOMAIN filters : AtFilter(i, "prune") /\ Pass(PruneFilter(filters[i], event)) /\ Advance(i)

RunAudit ==
  \E i \in DOMAIN filters :
    /\ AtFilter(i, "kubeAPIAudit")
    /\ IF Aborts(filters[i], event) THEN Drop
       ELSE Pass(IF IsAuditEvent(event) THEN AuditFilter(filters[i], event) ELSE event)
    /\ Advance(i)

Next ==
  \/ NormalizeRecord \/ RunParse \/ RunDetectExceptions \/ RunViaq
  \/ RunLabels \/ RunDrop \/ RunPrune \/ RunAudit

Spec == Init /\ [][Next]_vars

-----------------------------------------------------------------------------
(* Properties *)

Delivered == alive /\ pass = "late" /\ Remaining = {}

Finished == ~alive \/ Delivered

\* Fields that the collector sets, and that an object merged over them replaces.
CollectorFields == {"_internal", "structured", "log_type", "log_source"}

Foreign(object) ==
  DOMAIN object # {} /\ \A s \in DOMAIN object : s # << >> /\ s[1] \notin CollectorFields

\* The line of an API server is an audit event, what a receiver was sent brings no
\* field of the collector, an event of the event router and a journal entry say
\* something, and the priority of a journal entry, if it has one, is an integer.
WellFormed ==
  LET text == Value(record.read, <<"message">>)
  IN  /\ record.source \in {"kubeAPI", "openshiftAPI"} =>
           Parsed(text) # {} /\ \A o \in Parsed(text) : Foreign(o)
      /\ record.source \in {"syslog", "http"} => Foreign(record.read)
      /\ record.source = "container" =>
           \A o \in Parsed(text) : Has(o, <<"event">>) => Value(o, <<"event", "message">>) # Null
      /\ record.source = "node" =>
           /\ Value(record.read, <<"MESSAGE">>) # Null
           /\ Value(record.read, <<"PRIORITY">>) \in Priorities

\* The record as it leaves viaq.
Prepared ==
  LET normalized == Normalize(record.source, record.read)
  IN  Viaq(record.inputs,
           IF \E i \in DOMAIN filters : filters[i].type = "parse"
           THEN ParseFilter(normalized) ELSE normalized)

PrunedBefore(i) == \E j \in 1..(i - 1) : filters[j].type = "prune"

\* The filters that read what prune filters change.
ReadsRoot(f) ==
  \/ f.type = "kubeAPIAudit"
  \/ f.type = "drop" /\ \E test \in f.tests : \E cond \in test : cond.olderThan # 0

\* The filters that read what openshiftLabels filters change.
ReadsLabels(f) ==
  f.type = "drop" /\ \E test \in f.tests : \E cond \in test : IsPrefix(<<"openshift", "labels">>, cond.field)

\* A prune filter that names fields under ._internal, which nothing forbids.
PrunesInternal(f) == f.type = "prune" /\ \E p \in f.in : p.segments[1] = "_internal"

\* A prune filter that spells a required field in quotes, which passes validation.
PrunesRequired(f) == f.type = "prune" /\ \E p \in f.in : p.quoted # {} /\ p.segments \in RequiredFields

Discards(f, ev) ==
  \/ f.type = "drop" /\ Drops(f, ev)
  \/ f.type = "kubeAPIAudit" /\ Aborts(f, ev)

\* The API server writes no event of level None, and no body above the level.
AsWritten(ev) ==
  LET level == Value(ev, <<"level">>)
  IN  IsAuditEvent(ev) => level # "None" /\ \A body \in Removed(level) : ~Has(ev, body)

\* A record is dropped exactly if some filter discards it as it left viaq: no
\* label, prune or audit filter before a drop filter hides a field from it or
\* shows it one, in whatever order the pipeline names them (drop reads
\* ._internal, which prune keeps).  Only the filters that read the root, for a
\* timestamp or an audit event, must come before the prune filters; and no drop
\* filter reads the labels that openshiftLabels filters set.
FilteredAsRead ==
  (/\ Finished /\ AsWritten(Prepared)
   /\ \A i \in DOMAIN filters :
        /\ ReadsRoot(filters[i]) => ~PrunedBefore(i)
        /\ ~ReadsLabels(filters[i]) /\ ~PrunesInternal(filters[i])) =>
    (alive <=> \A i \in DOMAIN filters : ~Discards(filters[i], Prepared))

\* The levels of an audit policy.  The API admits any other text for one.
Levels == {"None", "Metadata", "Request", "RequestResponse"}

KnownLevels(f) == f.type = "kubeAPIAudit" => \A k \in 1..Len(f.rules) : f.rules[k].level \in Levels

\* A delivered audit event holds no body that the policy of any audit filter of
\* the pipeline removes, with other audit filters before and after it, of which
\* one may raise the level again, and prune filters after it.
AuditPolicyEnforced ==
  (/\ Delivered /\ IsAuditEvent(Prepared) /\ AsWritten(Prepared)
   /\ \A i \in DOMAIN filters : KnownLevels(filters[i])) =>
    \A i \in DOMAIN filters :
      (filters[i].type = "kubeAPIAudit" /\ ~PrunedBefore(i)) =>
        \A body \in Removed(PolicyLevel(filters[i], Prepared)) : ~Has(event, body)

\* A delivered record says where it is from and still has the message that viaq
\* gave it, whatever valid prune filters it went through, if none of them spells
\* a required field in quotes or names internal fields, and the record is what its
\* source should write.
RequiredFieldsKept ==
  (/\ Delivered /\ WellFormed
   /\ \A i \in DOMAIN filters : ~PrunesRequired(filters[i]) /\ ~PrunesInternal(filters[i])) =>
    /\ Value(event, <<"log_type">>) \in {"application", "infrastructure", "audit"}
    /\ Value(event, <<"log_source">>) # Null
    /\ ~Has(event, Internal(<<"structured">>)) =>
         Value(event, <<"message">>) \in {Value(event, Internal(<<"message">>))} \ {Null}

\* A container's record has the type of the namespace its file is of, whether
\* or not Vector knew the pod: outputs and tenants are chosen by it.
TypedByNamespace ==
  (/\ Delivered /\ record.source = "container"
   /\ \A i \in DOMAIN filters : ~PrunesRequired(filters[i])) =>
    Value(event, <<"log_type">>) =
      IF record.read[<<"file", "namespace">>] \in InfraNamespaces
      THEN "infrastructure" ELSE "application"

\* A label that a prune filter names is not delivered under the name it has in
\* the cluster, nor under the one that viaq gave it, if the filter spells it in
\* one segment, in quotes or not, or in several without a quote.
PrunedLabelsGone ==
  Delivered =>
    \A i \in DOMAIN filters : filters[i].type = "prune" =>
      \A p \in filters[i].in :
        NamesLabel(p) /\ SpelledOut(p) => ~Has(event, p.segments) /\ ~Has(event, ForwardedLabel(p))

===============================================================================
