----------------------------- MODULE RecordFilters -----------------------------
(*****************************************************************************)
(* The filters a pipeline may name: what their validation admits             *)
(* (internal/validations/observability/filters) and what the scripts         *)
(* generated for them do to a record (internal/generator/vector/filter).     *)
(*                                                                           *)
(* A regular expression is the set of the texts it matches.  A field path of *)
(* a spec is its segments and which of them it puts in quotes: the code      *)
(* compares and splits the text of paths.  A wildcard of an audit rule is its*)
(* text, in the pieces that Spelling gives names, and the stars before and   *)
(* after it.                                                                 *)
(*****************************************************************************)
EXTENDS Normalization, FiniteSets

CONSTANTS
  Instant,       \* timestamp -> the instant it stands for
  Spelling,      \* name -> the pieces of text it is made of
  SuccessCodes   \* the response codes below 300

-----------------------------------------------------------------------------
(* Validation *)

RequiredFields == {<<"log_type">>, <<"log_source">>, <<"message">>}

\* The required fields that a list of paths names as the check spells them.
RequiredIn(paths) == {p.segments : p \in {q \in paths : q.quoted = {}}} \cap RequiredFields

validateDropFilter(f) == f.tests # {} /\ {} \notin f.tests

\* Faulty variant: notIn is not looked at.
ValidateInOnly(f) == (f.in # {} \/ f.notIn # {}) /\ RequiredIn(f.in) = {}

\* At least one of the two lists; in names no required field, notIn all of them.
validatePruneFilter(f) ==
  /\ f.in # {} \/ f.notIn # {}
  /\ RequiredIn(f.in) = {}
  /\ f.notIn # {} => RequiredIn(f.notIn) = RequiredFields

\* Of the other types only text that the configuration file cannot hold is
\* rejected.
ValidateFilter(f) ==
  CASE f.type = "drop" -> validateDropFilter(f)
    [] f.type = "prune" -> validatePruneFilter(f)
    [] OTHER -> TRUE

-----------------------------------------------------------------------------
(* parse, openshiftLabels, drop, prune *)

ParseFilter(ev) ==
  LET json == Parsed(Value(ev, Internal(<<"message">>)))
  IN  IF Value(ev, Internal(<<"log_source">>)) = "container" /\ json # {}
      THEN Put(ev, Internal(<<"structured">>), CHOOSE o \in json : TRUE)
      ELSE ev

LabelsFilter(f, ev) ==
  Put(Put(ev, <<"openshift", "labels">>, f.labels), Internal(<<"openshift", "labels">>), f.labels)

\* to_string(field) ?? ""
Text(ev, path) == IF Value(ev, path) = Null THEN "" ELSE ev[path]

\* Faulty variant: the field is looked up in the record that is forwarded.
MatchForwardedField(cond, ev) == (Text(ev, cond.field) \in cond.pattern) # cond.negate

buildMatchCondition(cond, ev) ==
  (Text(ev, Internal(cond.field)) \in cond.pattern) # cond.negate

buildOlderThanCondition(cond, ev) ==
  LET timestamp == Text(ev, <<"timestamp">>)
  IN  timestamp \in DOMAIN Instant /\ Instant[timestamp] < cond.olderThan

DropCondition(cond, ev) ==
  IF cond.olderThan # 0 THEN buildOlderThanCondition(cond, ev) ELSE buildMatchCondition(cond, ev)

\* The filter drops the record if all conditions of one of its tests hold.
Drops(f, ev) == \E test \in f.tests : \A cond \in test : DropCondition(cond, ev)

\* Faulty variant: labels are looked for under the names they have in the cluster.
PathsAsNamed(paths) == {p.segments : p \in paths}

\* A path to a label: its text begins with that of one of the maps of labels.
NamesLabel(p) ==
  Len(p.segments) > 2 /\ SubSeq(p.segments, 1, 2) \in LabelMaps /\ p.quoted \cap {1, 2} = {}

\* The label is one segment, or several without a quote.
SpelledOut(p) == Len(p.segments) = 3 \/ p.quoted = {}

\* The label's path in a record that viaq built.
ForwardedLabel(p) ==
  SubSeq(p.segments, 1, 2) \o <<Dedotted[SubSeq(p.segments, 3, Len(p.segments))]>>

\* The paths that a list names, and of a label the one it is forwarded under: with
\* "_" for "." and "/" the text of the label is one part.  If only its beginning
\* is in quotes, splitPath drops it, and the map of labels is left; if another
\* part is, the quotes stay in the name, and no label has it.
PathSegments(paths) ==
  LET labels == {p \in paths : NamesLabel(p)}
  IN  {p.segments : p \in paths}
      \cup {ForwardedLabel(p) : p \in {q \in labels : SpelledOut(q)}}
      \cup {SubSeq(p.segments, 1, 2) : p \in {q \in labels : ~SpelledOut(q) /\ 3 \in q.quoted}}

KeepPaths(ev, paths) ==
  Restrict(ev, {q \in DOMAIN ev : \E p \in paths : IsPrefix(p, q)})

RemovePaths(ev, paths) ==
  Restrict(ev, {q \in DOMAIN ev : \A p \in paths : ~IsPrefix(p, q)})

\* notIn is applied first, and never to ._internal.
PruneFilter(f, ev) ==
  LET kept == IF f.notIn = {} THEN ev
              ELSE KeepPaths(ev, PathSegments(f.notIn) \cup {<<"_internal">>})
  IN  RemovePaths(kept, PathSegments(f.in))

-----------------------------------------------------------------------------
(* kubeAPIAudit *)

DefaultOmitResponseCodes == {"404", "409", "422", "429"}

ReadOnlyVerbs == {"get", "list", "watch", "head", "options"}

\* A name, "" if there is none, in pieces.
Pieces(name) == IF name \in {"", Null} THEN << >> ELSE Spelling[name]

wildcardRegexp(w, pieces) ==
  \/ w.lead /\ w.trail /\ \E i \in 1..(Len(pieces) + 1) :
                             IsPrefix(w.text, SubSeq(pieces, i, Len(pieces)))
  \/ w.lead /\ ~w.trail /\ IsSuffix(w.text, pieces)
  \/ ~w.lead /\ w.trail /\ IsPrefix(w.text, pieces)
  \/ ~w.lead /\ ~w.trail /\ w.text = pieces

matchAny(wildcards, name) == \E w \in wildcards : wildcardRegexp(w, Pieces(name))

\* A path may be followed by a query.
matchAnyPath(wildcards, uri) ==
  LET pieces == Pieces(uri)
  IN  \E w \in wildcards, k \in 0..Len(pieces) :
        /\ wildcardRegexp(w, SubSeq(pieces, 1, k))
        /\ k = Len(pieces) \/ pieces[k + 1] = "?"

\* The resource, with its subresource.
Resource(ev) ==
  LET sub == Text(ev, <<"objectRef", "subresource">>)
  IN  Pieces(Text(ev, <<"objectRef", "resource">>))
        \o (IF sub = "" THEN << >> ELSE <<"/">> \o Pieces(sub))

groupResource(gr, ev) ==
  /\ Text(ev, <<"objectRef", "apiGroup">>) = gr.group
  /\ gr.names # {} => matchAny(gr.names, Text(ev, <<"objectRef", "name">>))
  /\ gr.resources # {} => \E w \in gr.resources : wildcardRegexp(w, Resource(ev))

\* A part that a rule leaves empty asks for nothing.
RuleMatches(rule, ev) ==
  LET username == Text(ev, <<"user", "username">>)
      namespace == Text(ev, <<"objectRef", "namespace">>)
  IN  /\ rule.verbs # {} => Value(ev, <<"verb">>) \in rule.verbs
      /\ rule.users # {} => username # "" /\ matchAny(rule.users, username)
      /\ rule.userGroups # {} =>
           \E g \in Elements(ev, <<"user", "groups">>) : matchAny(rule.userGroups, g)
      /\ rule.namespaces # {} => namespace # "" /\ matchAny(rule.namespaces, namespace)
      /\ rule.nonResourceURLs # {} =>
           /\ ~Has(ev, <<"objectRef">>) /\ Has(ev, <<"requestURI">>)
           /\ matchAnyPath(rule.nonResourceURLs, Value(ev, <<"requestURI">>))
      /\ rule.resources # {} => \E gr \in rule.resources : groupResource(gr, ev)

\* The user of a write begins with the ServiceAccounts of the namespace written
\* in; without a namespace, with any ServiceAccount.
OwnNamespace(ev) ==
  IsPrefix(<<"system:", "serviceaccount:">> \o Pieces(Text(ev, <<"objectRef", "namespace">>)),
           Pieces(Text(ev, <<"user", "username">>)))

Succeeded(ev) ==
  Value(ev, <<"responseStatus", "code">>) \in SuccessCodes \cup {Null}

\* No rule matched: only system events are touched.
DefaultRules(ev) ==
  LET username == Text(ev, <<"user", "username">>)
      system == username = "" \/ IsPrefix(<<"system:">>, Pieces(username))
      level == Value(ev, <<"level">>)
  IN  CASE system /\ Value(ev, <<"verb">>) \in ReadOnlyVerbs -> "None"
        [] system /\ Value(ev, <<"verb">>) \notin ReadOnlyVerbs
             /\ Succeeded(ev) /\ OwnNamespace(ev) -> "None"
        [] OTHER -> IF system /\ level = "RequestResponse" THEN "Request" ELSE level

OmitResponseCodes(f) ==
  IF f.omitResponseCodes = {} THEN DefaultOmitResponseCodes
  ELSE CHOOSE codes \in f.omitResponseCodes : TRUE

\* The rules in their order, then the default.
FirstMatch(f, ev) == SelectInSeq(f.rules, LAMBDA rule : RuleMatches(rule, ev))

PolicyLevel(f, ev) ==
  LET first == FirstMatch(f, ev)
      stage == Value(ev, <<"stage">>)
  IN  CASE \/ stage \in f.omitStages
           \/ Value(ev, <<"responseStatus", "code">>) \in OmitResponseCodes(f) -> "None"
        [] first = 0 -> DefaultRules(ev)
        [] OTHER -> IF stage \in f.rules[first].omitStages THEN "None" ELSE f.rules[first].level

OmitManaged(f, ev) ==
  LET first == FirstMatch(f, ev)
  IN  IF first = 0 THEN FALSE ELSE f.rules[first].omitManagedFields

ManagedFields ==
  {<<"metadata", "managedFields">>, <<"requestObject", "metadata", "managedFields">>,
   <<"responseObject", "metadata", "managedFields">>}

\* What a level takes from an event.
Removed(level) ==
  CASE level = "Metadata" -> {<<"requestObject">>, <<"responseObject">>}
    [] level = "Request" -> {<<"responseObject">>}
    [] OTHER -> {}

IsAuditEvent(ev) == Has(ev, <<"auditID">>) /\ Has(ev, <<"verb">>)

\* Faulty variant: the bodies are removed by the level the event came with.
FilterByOldLevel(f, ev) == RemovePaths(ev, Removed(Value(ev, <<"level">>)))

\* The event as the policy leaves it.
AuditFilter(f, ev) ==
  LET level == PolicyLevel(f, ev)
  IN  RemovePaths(IF level = Null THEN ev ELSE Assign(ev, <<"level">>, level),
                  Removed(level) \cup IF OmitManaged(f, ev) THEN ManagedFields ELSE {})

\* abort drops the event.
Aborts(f, ev) == IsAuditEvent(ev) /\ PolicyLevel(f, ev) = "None"

===============================================================================
