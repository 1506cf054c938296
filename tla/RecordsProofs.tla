----------------------------- MODULE RecordsProofs -----------------------------
(***************************************************************************)
(* What the filters of a pipeline do to a record, for every record, every   *)
(* set of filters and pipelines of any length: the inductive invariant says *)
(* which parts of the record are still as they left viaq.                   *)
(***************************************************************************)
EXTENDS Records, SequenceTheorems, WellFoundedInduction, TLAPS

\* The parts of the root that filters read.
ReadRoots == {"timestamp", "auditID", "verb", "stage", "responseStatus", "user", "objectRef", "requestURI"}

BodyRoots == {"requestObject", "responseObject"}

Same(ev, other, q) == q \in DOMAIN ev /\ q \in DOMAIN other /\ ev[q] = other[q]

SameRoots(ev, other) == \A q \in DOMAIN ev \cup DOMAIN other : q[1] \in ReadRoots => Same(ev, other, q)

LabelsPath == Internal(<<"openshift", "labels">>)

\* The same under ._internal, the labels of openshiftLabels filters aside.
SameInternal(ev, other) ==
  \A q \in DOMAIN ev \cup DOMAIN other :
    IsPrefix(<<"_internal">>, q) /\ ~IsPrefix(LabelsPath, q) => Same(ev, other, q)

-----------------------------------------------------------------------------
(* Events *)

LEMMA WordsArePaths ==
  ASSUME NEW a, NEW b, NEW c
  PROVE  /\ IsPath(<<a>>) /\ <<a>> # << >> /\ <<a>>[1] = a
         /\ IsPath(<<a, b>>) /\ <<a, b>> # << >> /\ <<a, b>>[1] = a
         /\ IsPath(<<a, b, c>>) /\ <<a, b, c>> # << >> /\ <<a, b, c>>[1] = a
BY DEF IsPath

LEMMA WordsJoin ==
  ASSUME NEW a, NEW b, NEW c
  PROVE  <<a>> \o <<b>> = <<a, b>> /\ <<a, b>> \o <<c>> = <<a, b, c>>
<1> DEFINE S == {a, b, c}
           two == <<a>> \o <<b>>
           three == <<a, b>> \o <<c>>
<1>1. <<a>> \in Seq(S) /\ <<b>> \in Seq(S) /\ <<c>> \in Seq(S) /\ <<a, b>> \in Seq(S) /\ <<a, b, c>> \in Seq(S)
  OBVIOUS
<1>2. Len(<<a>>) = 1 /\ Len(<<b>>) = 1 /\ Len(<<c>>) = 1 /\ Len(<<a, b>>) = 2 /\ Len(<<a, b, c>>) = 3
  OBVIOUS
<1> HIDE DEF S
<1>3. two \in Seq(S) /\ Len(two) = 2 /\ two[1] = a /\ two[2] = b
  BY <1>1, <1>2
<1>4. three \in Seq(S) /\ Len(three) = 3 /\ three[1] = a /\ three[2] = b /\ three[3] = c
  BY <1>1, <1>2
<1> HIDE DEF two, three
<1>5. two = <<a, b>> /\ three = <<a, b, c>>
  BY <1>1, <1>2, <1>3, <1>4
<1> QED
  BY <1>5 DEF two, three

LEMMA WordsPrepend ==
  ASSUME NEW a, NEW b, NEW c
  PROVE  <<a>> \o <<b, c>> = <<a, b, c>>
<1> DEFINE S == {a, b, c}
           three == <<a>> \o <<b, c>>
<1>1. <<a>> \in Seq(S) /\ <<b, c>> \in Seq(S) /\ <<a, b, c>> \in Seq(S)
  OBVIOUS
<1>2. Len(<<a>>) = 1 /\ Len(<<b, c>>) = 2 /\ Len(<<a, b, c>>) = 3
  OBVIOUS
<1> HIDE DEF S
<1>3. three \in Seq(S) /\ Len(three) = 3 /\ three[1] = a /\ three[2] = b /\ three[3] = c
  BY <1>1, <1>2
<1> HIDE DEF three
<1>4. three = <<a, b, c>>
  BY <1>1, <1>2, <1>3
<1> QED
  BY <1>4 DEF three

LEMMA PrefixRoot ==
  ASSUME NEW path, IsPath(path), path # << >>, NEW q, IsPrefix(path, q)
  PROVE  q[1] = path[1]
BY DEF IsPrefix, IsPath

LEMMA PrefixOfConcat ==
  ASSUME NEW path, IsPath(path), NEW s, IsPath(s)
  PROVE  IsPrefix(path, path \o s)
<1> DEFINE S == {path[i] : i \in DOMAIN path} \cup {s[i] : i \in DOMAIN s}
<1>1. path \in Seq(S) /\ s \in Seq(S)
  BY DEF IsPath
<1> HIDE DEF S
<1> QED
  BY <1>1 DEF IsPrefix

\* An assignment leaves what is not at or under its path.
LEMMA PutLeaves ==
  ASSUME NEW ev, NEW path, IsPath(path), NEW object, \A s \in DOMAIN object : IsPath(s),
         NEW q, ~IsPrefix(path, q)
  PROVE  /\ q \in DOMAIN Put(ev, path, object) <=> q \in DOMAIN ev
         /\ q \in DOMAIN ev => Put(ev, path, object)[q] = ev[q]
<1>1. q \notin {path \o s : s \in DOMAIN object}
  BY PrefixOfConcat
<1> QED
  BY <1>1 DEF Put, Over, Del, Restrict

LEMMA LeafIsPath ==
  ASSUME NEW value
  PROVE  \A s \in DOMAIN Leaf(value) : IsPath(s)
BY DEF Leaf, IsPath

LEMMA AssignedValue ==
  ASSUME NEW ev, NEW name, NEW value
  PROVE  Value(Assign(ev, <<name>>, value), <<name>>) = value
<1>1. <<name>> \o << >> = <<name>> /\ SubSeq(<<name>>, Len(<<name>>) + 1, Len(<<name>>)) = << >>
  OBVIOUS
<1> QED
  BY <1>1 DEF Value, Assign, Put, Over, Leaf

LEMMA RemovedLeaves ==
  ASSUME NEW ev, NEW paths, NEW q
  PROVE  /\ q \in DOMAIN RemovePaths(ev, paths) => q \in DOMAIN ev /\ RemovePaths(ev, paths)[q] = ev[q]
         /\ q \in DOMAIN ev /\ (\A p \in paths : ~IsPrefix(p, q)) => q \in DOMAIN RemovePaths(ev, paths)
BY DEF RemovePaths, Restrict

LEMMA RemovedAreGone ==
  ASSUME NEW ev, NEW paths, NEW p \in paths
  PROVE  ~Has(RemovePaths(ev, paths), p)
BY DEF RemovePaths, Restrict, Has

-----------------------------------------------------------------------------
(* What is read at a part that is the same *)

LEMMA SameReads ==
  ASSUME NEW ev, NEW other, SameRoots(ev, other), NEW path, IsPath(path), path # << >>, path[1] \in ReadRoots
  PROVE  /\ Value(ev, path) = Value(other, path) /\ Text(ev, path) = Text(other, path)
         /\ Has(ev, path) <=> Has(other, path)
         /\ Elements(ev, path) = Elements(other, path)
<1>1. \A q : IsPrefix(path, q) => (q \in DOMAIN ev <=> q \in DOMAIN other)
  BY PrefixRoot DEF SameRoots, Same
<1>2. Value(ev, path) = Value(other, path)
  BY DEF SameRoots, Same, Value
<1>3. Text(ev, path) = Text(other, path)
  BY <1>2 DEF SameRoots, Same, Text, Value
<1>4. Has(ev, path) <=> Has(other, path)
  BY <1>1 DEF Has
<1>5. Elements(ev, path) = Elements(other, path)
  BY <1>1 DEF Elements, IsStrictPrefix
<1> QED
  BY <1>2, <1>3, <1>4, <1>5

\* The paths that an audit policy reads.
PolicyPaths ==
  {<<"auditID">>, <<"verb">>, <<"stage">>, <<"responseStatus", "code">>, <<"user", "username">>,
   <<"user", "groups">>, <<"objectRef">>, <<"objectRef", "namespace">>, <<"objectRef", "resource">>,
   <<"objectRef", "subresource">>, <<"objectRef", "apiGroup">>, <<"objectRef", "name">>, <<"requestURI">>}

LEMMA PolicyReads ==
  ASSUME NEW ev, NEW other, SameRoots(ev, other), NEW path \in PolicyPaths
  PROVE  /\ Value(ev, path) = Value(other, path) /\ Text(ev, path) = Text(other, path)
         /\ Has(ev, path) <=> Has(other, path)
         /\ Elements(ev, path) = Elements(other, path)
<1>1. IsPath(path) /\ path # << >> /\ path[1] \in ReadRoots
  BY DEF PolicyPaths, IsPath, ReadRoots
<1> QED
  BY <1>1, SameReads

LEMMA SameRuleMatches ==
  ASSUME NEW ev, NEW other, SameRoots(ev, other), NEW rule
  PROVE  RuleMatches(rule, ev) <=> RuleMatches(rule, other)
<1>1. \A path \in PolicyPaths :
        /\ Value(ev, path) = Value(other, path) /\ Text(ev, path) = Text(other, path)
        /\ Has(ev, path) <=> Has(other, path)
        /\ Elements(ev, path) = Elements(other, path)
  BY PolicyReads
<1>2. /\ Value(ev, <<"verb">>) = Value(other, <<"verb">>)
      /\ Value(ev, <<"requestURI">>) = Value(other, <<"requestURI">>)
      /\ Text(ev, <<"user", "username">>) = Text(other, <<"user", "username">>)
      /\ Text(ev, <<"objectRef", "namespace">>) = Text(other, <<"objectRef", "namespace">>)
      /\ Text(ev, <<"objectRef", "resource">>) = Text(other, <<"objectRef", "resource">>)
      /\ Text(ev, <<"objectRef", "subresource">>) = Text(other, <<"objectRef", "subresource">>)
      /\ Text(ev, <<"objectRef", "apiGroup">>) = Text(other, <<"objectRef", "apiGroup">>)
      /\ Text(ev, <<"objectRef", "name">>) = Text(other, <<"objectRef", "name">>)
      /\ Elements(ev, <<"user", "groups">>) = Elements(other, <<"user", "groups">>)
      /\ Has(ev, <<"objectRef">>) <=> Has(other, <<"objectRef">>)
      /\ Has(ev, <<"requestURI">>) <=> Has(other, <<"requestURI">>)
  BY <1>1 DEF PolicyPaths
<1>3. Resource(ev) = Resource(other)
  BY <1>2 DEF Resource
<1>4. \A gr : groupResource(gr, ev) <=> groupResource(gr, other)
  BY <1>2, <1>3 DEF groupResource
<1> QED
  BY <1>2, <1>4 DEF RuleMatches

LEMMA SameFirstMatch ==
  ASSUME NEW ev, NEW other, SameRoots(ev, other), NEW f
  PROVE  FirstMatch(f, ev) = FirstMatch(f, other)
<1>1. {i \in 1..Len(f.rules) : RuleMatches(f.rules[i], ev)} = {i \in 1..Len(f.rules) : RuleMatches(f.rules[i], other)}
  BY SameRuleMatches
<1> QED
  BY <1>1 DEF FirstMatch, SelectInSeq

\* The level of a system event, and of another, that no rule matches.
Downgraded(level) == IF level = "RequestResponse" THEN "Request" ELSE level

\* Two events that are the same for the rules get the same level from a policy,
\* unless it is the one they came with.
LEMMA SamePolicy ==
  ASSUME NEW ev, NEW other, SameRoots(ev, other), NEW f
  PROVE  \/ PolicyLevel(f, ev) = PolicyLevel(f, other)
         \/ /\ PolicyLevel(f, ev) = Value(ev, <<"level">>)
            /\ PolicyLevel(f, other) = Value(other, <<"level">>)
         \/ /\ PolicyLevel(f, ev) = Downgraded(Value(ev, <<"level">>))
            /\ PolicyLevel(f, other) = Downgraded(Value(other, <<"level">>))
<1>1. \A path \in PolicyPaths : Value(ev, path) = Value(other, path) /\ Text(ev, path) = Text(other, path)
  BY PolicyReads
<1>2. /\ Value(ev, <<"verb">>) = Value(other, <<"verb">>)
      /\ Value(ev, <<"stage">>) = Value(other, <<"stage">>)
      /\ Value(ev, <<"responseStatus", "code">>) = Value(other, <<"responseStatus", "code">>)
      /\ Text(ev, <<"user", "username">>) = Text(other, <<"user", "username">>)
      /\ Text(ev, <<"objectRef", "namespace">>) = Text(other, <<"objectRef", "namespace">>)
  BY <1>1 DEF PolicyPaths
<1>3. (OwnNamespace(ev) <=> OwnNamespace(other)) /\ (Succeeded(ev) <=> Succeeded(other))
  BY <1>2 DEF OwnNamespace, Succeeded
<1>4. \/ DefaultRules(ev) = DefaultRules(other)
      \/ DefaultRules(ev) = Value(ev, <<"level">>) /\ DefaultRules(other) = Value(other, <<"level">>)
      \/ /\ DefaultRules(ev) = Downgraded(Value(ev, <<"level">>))
         /\ DefaultRules(other) = Downgraded(Value(other, <<"level">>))
  BY <1>2, <1>3 DEF DefaultRules, Downgraded
<1>5. FirstMatch(f, ev) = FirstMatch(f, other)
  BY SameFirstMatch
<1> QED
  BY <1>2, <1>4, <1>5 DEF PolicyLevel

-----------------------------------------------------------------------------
(* What a filter leaves *)

\* At q the one is as the other.
Leaves(ev, other, q) == (q \in DOMAIN ev <=> q \in DOMAIN other) /\ (q \in DOMAIN other => ev[q] = other[q])

LEMMA LabelsLeave ==
  ASSUME NEW f \in FilterSpecs, f.type = "openshiftLabels", NEW ev, NEW q,
         q[1] # "openshift", ~IsPrefix(LabelsPath, q)
  PROVE  Leaves(LabelsFilter(f, ev), ev, q)
<1> DEFINE path == <<"openshift", "labels">>
           one == Put(ev, path, f.labels)
<1>1. \A s \in DOMAIN f.labels : IsPath(s)
  BY FiltersAssumption
<1>2. IsPath(path) /\ IsPath(LabelsPath) /\ path # << >> /\ path[1] = "openshift"
  BY DEF IsPath, LabelsPath, Internal
<1>3. ~IsPrefix(path, q)
  BY <1>2, PrefixRoot
<1>4. LabelsFilter(f, ev) = Put(one, LabelsPath, f.labels)
  BY DEF LabelsFilter, LabelsPath
<1> HIDE DEF path
<1>5. Leaves(one, ev, q)
  BY <1>1, <1>2, <1>3, PutLeaves DEF Leaves
<1> HIDE DEF one
<1>6. Leaves(Put(one, LabelsPath, f.labels), one, q)
  BY <1>1, <1>2, PutLeaves DEF Leaves
<1> QED
  BY <1>4, <1>5, <1>6 DEF Leaves

LEMMA PruneTakes ==
  ASSUME NEW f, NEW ev, NEW q \in DOMAIN PruneFilter(f, ev)
  PROVE  q \in DOMAIN ev /\ PruneFilter(f, ev)[q] = ev[q]
BY DEF PruneFilter, KeepPaths, RemovePaths, Restrict

\* What a path to a label stands for is under kubernetes.
LEMMA LabelRoot ==
  ASSUME NEW x, NamesLabel(x), NEW p \in {ForwardedLabel(x), SubSeq(x.segments, 1, 2)}
  PROVE  IsPath(p) /\ p # << >> /\ p[1] = "kubernetes"
<1> DEFINE map == SubSeq(x.segments, 1, 2)
           label == Dedotted[SubSeq(x.segments, 3, Len(x.segments))]
<1>1. PICK second : map = <<"kubernetes", second>>
  BY DEF NamesLabel, LabelMaps
<1>2. ForwardedLabel(x) = map \o <<label>>
  BY DEF ForwardedLabel
<1>3. p = map \/ p = map \o <<label>>
  BY <1>2
<1> HIDE DEF map, label
<1>4. <<"kubernetes", second>> \o <<label>> = <<"kubernetes", second, label>>
  BY WordsJoin, Zenon
<1>5. /\ IsPath(<<"kubernetes", second>>) /\ <<"kubernetes", second>> # << >>
      /\ <<"kubernetes", second>>[1] = "kubernetes"
      /\ IsPath(<<"kubernetes", second, label>>) /\ <<"kubernetes", second, label>> # << >>
      /\ <<"kubernetes", second, label>>[1] = "kubernetes"
  BY WordsArePaths, Zenon
<1>6. p = <<"kubernetes", second>> \/ p = <<"kubernetes", second, label>>
  BY <1>1, <1>3, <1>4
<1> QED
  BY <1>5, <1>6

LEMMA PruneLeavesInternal ==
  ASSUME NEW f \in FilterSpecs, f.type = "prune", ~PrunesInternal(f), NEW ev, NEW q, IsPrefix(<<"_internal">>, q)
  PROVE  Leaves(PruneFilter(f, ev), ev, q)
<1>0. q[1] = "_internal"
  BY WordsArePaths, PrefixRoot
<1>1. \A p \in PathSegments(f.in) : ~IsPrefix(p, q)
  <2>1. SUFFICES ASSUME NEW p \in PathSegments(f.in), IsPrefix(p, q)
                 PROVE  FALSE
    OBVIOUS
  <2>2. CASE \E x \in f.in : p = x.segments
    BY <1>0, <2>1, <2>2, PrefixRoot, FiltersAssumption DEF PrunesInternal
  <2>3. CASE \E x \in f.in : NamesLabel(x) /\ p \in {ForwardedLabel(x), SubSeq(x.segments, 1, 2)}
    <3>1. IsPath(p) /\ p # << >> /\ p[1] = "kubernetes"
      BY <2>3, LabelRoot
    <3> QED
      BY <1>0, <2>1, <3>1, PrefixRoot
  <2> QED
    BY <2>1, <2>2, <2>3 DEF PathSegments
<1> QED
  BY <1>1 DEF Leaves, PruneFilter, KeepPaths, RemovePaths, Restrict

AuditRemoves(f, ev) == Removed(PolicyLevel(f, ev)) \cup IF OmitManaged(f, ev) THEN ManagedFields ELSE {}

LEMMA AuditRemovesBodies ==
  ASSUME NEW f, NEW ev, NEW p \in AuditRemoves(f, ev)
  PROVE  IsPath(p) /\ p # << >> /\ p[1] \in BodyRoots \cup {"metadata"}
<1>1. PICK root, second, third :
        /\ root \in BodyRoots \cup {"metadata"}
        /\ p = <<root>> \/ p = <<root, second>> \/ p = <<root, second, third>>
  BY DEF AuditRemoves, Removed, ManagedFields, BodyRoots
<1>2. /\ IsPath(<<root>>) /\ <<root>> # << >> /\ <<root>>[1] = root
      /\ IsPath(<<root, second>>) /\ <<root, second>> # << >> /\ <<root, second>>[1] = root
      /\ IsPath(<<root, second, third>>) /\ <<root, second, third>> # << >> /\ <<root, second, third>>[1] = root
  BY WordsArePaths, Zenon
<1>3. IsPath(p) /\ p # << >> /\ p[1] = root
  BY <1>1, <1>2
<1> QED
  BY <1>1, <1>3

LEMMA AuditLeaves ==
  ASSUME NEW f, NEW ev, NEW q, q[1] # "level"
  PROVE  /\ q[1] \notin BodyRoots \cup {"metadata"} => Leaves(AuditFilter(f, ev), ev, q)
         /\ q \in DOMAIN AuditFilter(f, ev) => q \in DOMAIN ev
<1> DEFINE level == PolicyLevel(f, ev)
           levelled == IF level = Null THEN ev ELSE Assign(ev, <<"level">>, level)
<1>1. AuditFilter(f, ev) = RemovePaths(levelled, AuditRemoves(f, ev))
  BY DEF AuditFilter, AuditRemoves
<1>2. ~IsPrefix(<<"level">>, q) /\ IsPath(<<"level">>)
  <2>1. IsPath(<<"level">>) /\ <<"level">> # << >> /\ <<"level">>[1] = "level"
    BY WordsArePaths
  <2> QED
    BY <2>1, PrefixRoot
<1>3. Leaves(levelled, ev, q)
  BY <1>2, LeafIsPath, PutLeaves DEF Leaves, Assign
<1> HIDE DEF levelled
<1>4. q[1] \notin BodyRoots \cup {"metadata"} => \A p \in AuditRemoves(f, ev) : ~IsPrefix(p, q)
  BY AuditRemovesBodies, PrefixRoot
<1> QED
  BY <1>1, <1>3, <1>4, RemovedLeaves DEF Leaves

LEMMA AuditLevel ==
  ASSUME NEW f, NEW ev
  PROVE  Value(AuditFilter(f, ev), <<"level">>) = IF PolicyLevel(f, ev) = Null THEN Value(ev, <<"level">>)
                                                  ELSE PolicyLevel(f, ev)
<1> DEFINE level == PolicyLevel(f, ev)
           levelled == IF level = Null THEN ev ELSE Assign(ev, <<"level">>, level)
<1>1. AuditFilter(f, ev) = RemovePaths(levelled, AuditRemoves(f, ev))
  BY DEF AuditFilter, AuditRemoves
<1>2. Value(levelled, <<"level">>) = IF level = Null THEN Value(ev, <<"level">>) ELSE level
  BY AssignedValue
<1> HIDE DEF levelled
<1>3. \A p \in AuditRemoves(f, ev) : ~IsPrefix(p, <<"level">>)
  BY AuditRemovesBodies, PrefixRoot DEF BodyRoots
<1>4. Value(RemovePaths(levelled, AuditRemoves(f, ev)), <<"level">>) = Value(levelled, <<"level">>)
  BY <1>3, RemovedLeaves DEF Value
<1> QED
  BY <1>1, <1>2, <1>4

\* What every filter after viaq has in common: it keeps what is internal, unless
\* it prunes that, and what filters read at the root, unless it prunes; it adds no
\* body and no label of Kubernetes; and only audit filters set the level.
Effect(f, new, old) ==
  /\ \A q : IsPrefix(<<"_internal">>, q) /\ ~IsPrefix(LabelsPath, q) /\ ~PrunesInternal(f) => Leaves(new, old, q)
  /\ f.type # "prune" => \A q : q[1] \in ReadRoots => Leaves(new, old, q)
  /\ \A q \in DOMAIN new : q[1] \in BodyRoots \cup {"kubernetes"} => q \in DOMAIN old
  /\ f.type \notin {"prune", "kubeAPIAudit"} => Value(new, <<"level">>) = Value(old, <<"level">>)

LEMMA InternalRoot ==
  ASSUME NEW q, IsPrefix(<<"_internal">>, q)
  PROVE  q[1] = "_internal"
<1>1. IsPath(<<"_internal">>) /\ <<"_internal">> # << >> /\ <<"_internal">>[1] = "_internal"
  BY WordsArePaths
<1> QED
  BY <1>1, PrefixRoot

LEMMA LabelsRoot ==
  ASSUME NEW q, IsPrefix(LabelsPath, q)
  PROVE  q[1] = "_internal"
<1>1. IsPath(LabelsPath) /\ LabelsPath # << >> /\ LabelsPath[1] = "_internal"
  BY DEF LabelsPath, Internal, IsPath
<1> QED
  BY <1>1, PrefixRoot

LEMMA LabelsEffect ==
  ASSUME NEW f \in FilterSpecs, f.type = "openshiftLabels", NEW ev
  PROVE  Effect(f, LabelsFilter(f, ev), ev)
<1>1. \A q : q[1] # "openshift" /\ ~IsPrefix(LabelsPath, q) => Leaves(LabelsFilter(f, ev), ev, q)
  BY LabelsLeave
<1>2. \A q : IsPrefix(<<"_internal">>, q) => q[1] = "_internal"
  BY InternalRoot
<1>3. \A q : IsPrefix(LabelsPath, q) => q[1] = "_internal"
  BY LabelsRoot
<1>4. Leaves(LabelsFilter(f, ev), ev, <<"level">>)
  BY <1>1, <1>3
<1>5. \A q : q[1] \in ReadRoots \cup BodyRoots \cup {"kubernetes"} => Leaves(LabelsFilter(f, ev), ev, q)
  BY <1>1, <1>3 DEF ReadRoots, BodyRoots
<1> QED
  BY <1>1, <1>2, <1>4, <1>5 DEF Effect, Leaves, Value

LEMMA PruneEffect ==
  ASSUME NEW f \in FilterSpecs, f.type = "prune", NEW ev
  PROVE  Effect(f, PruneFilter(f, ev), ev)
BY PruneTakes, PruneLeavesInternal DEF Effect

LEMMA AuditEffect ==
  ASSUME NEW f \in FilterSpecs, f.type = "kubeAPIAudit", NEW ev
  PROVE  Effect(f, AuditFilter(f, ev), ev)
<1>1. \A q : q[1] \notin BodyRoots \cup {"metadata", "level"} => Leaves(AuditFilter(f, ev), ev, q)
  BY AuditLeaves
<1>2. \A q \in DOMAIN AuditFilter(f, ev) : q[1] # "level" => q \in DOMAIN ev
  BY AuditLeaves
<1>3. \A q : IsPrefix(<<"_internal">>, q) => q[1] = "_internal"
  BY InternalRoot
<1>4. \A q : q[1] \in ReadRoots \cup {"_internal"} => Leaves(AuditFilter(f, ev), ev, q)
  BY <1>1 DEF ReadRoots, BodyRoots
<1>5. \A q \in DOMAIN AuditFilter(f, ev) : q[1] \in BodyRoots \cup {"kubernetes"} => q \in DOMAIN ev
  BY <1>2 DEF BodyRoots
<1> QED
  BY <1>3, <1>4, <1>5 DEF Effect

LEMMA NoEffect ==
  ASSUME NEW f, NEW ev
  PROVE  Effect(f, ev, ev)
BY DEF Effect, Leaves

-----------------------------------------------------------------------------
(* The invariant *)

Types ==
  /\ \E n \in 0..MaxFilters : DOMAIN filters = 1..n
  /\ \A i \in DOMAIN filters : filters[i] \in FilterSpecs
  /\ pass \in {"input", "early", "late"} /\ last \in Nat /\ alive \in BOOLEAN

Passed(type) == \E j \in DOMAIN filters : j <= last /\ filters[j].type = type

\* The record before viaq.
EarlyPart ==
  /\ pass = "input" => event = record.read /\ last = 0
  /\ pass # "late" => alive
  /\ pass = "early" =>
       LET normalized == Normalize(record.source, record.read)
       IN  event = IF Passed("parse") THEN ParseFilter(normalized) ELSE normalized

InternalKept ==
  (\A j \in DOMAIN filters : j <= last => ~PrunesInternal(filters[j])) => SameInternal(event, Prepared)

AllKnown == \A i \in DOMAIN filters : KnownLevels(filters[i])

LevelKept ==
  LET level == Value(event, <<"level">>)
  IN  level = Value(Prepared, <<"level">>) \/ (level # "None" /\ (AllKnown => level \in Levels))

RootKept == ~Passed("prune") => SameRoots(event, Prepared) /\ LevelKept

BodiesKept == \A q \in DOMAIN event : q[1] \in BodyRoots => q \in DOMAIN Prepared

Audited ==
  alive /\ IsAuditEvent(Prepared) /\ AsWritten(Prepared) /\ AllKnown =>
    \A i \in DOMAIN filters :
      (i <= last /\ filters[i].type = "kubeAPIAudit" /\ ~PrunedBefore(i)) =>
        \A body \in Removed(PolicyLevel(filters[i], Prepared)) : ~Has(event, body)

\* The pipelines that FilteredAsRead is about.
Readable ==
  /\ AsWritten(Prepared)
  /\ \A i \in DOMAIN filters :
       /\ ReadsRoot(filters[i]) => ~PrunedBefore(i)
       /\ ~ReadsLabels(filters[i]) /\ ~PrunesInternal(filters[i])

Judged ==
  Readable => IF alive THEN \A i \in DOMAIN filters : i <= last => ~Discards(filters[i], Prepared)
              ELSE \E i \in DOMAIN filters : Discards(filters[i], Prepared)

LabelsGone ==
  \A i \in DOMAIN filters : i <= last /\ filters[i].type = "prune" =>
    \A p \in filters[i].in :
      NamesLabel(p) /\ SpelledOut(p) => ~Has(event, p.segments) /\ ~Has(event, ForwardedLabel(p))

LatePart == pass = "late" => InternalKept /\ RootKept /\ BodiesKept /\ Audited /\ Judged /\ LabelsGone

IInv == Types /\ EarlyPart /\ LatePart

-----------------------------------------------------------------------------
(* A filter after viaq keeps the invariant *)

\* A step of filter i, whatever it does to the record.
At(i) ==
  /\ i \in DOMAIN filters /\ alive /\ pass = "late" /\ UNCHANGED <<record, filters, pass>>
  /\ last < i /\ last' = i
  /\ \A j \in DOMAIN filters : j <= i => j <= last \/ j = i \/ IsEarlyStage(filters[j])

LEMMA AtLate ==
  ASSUME Types, NEW i \in DOMAIN filters, NEW type \in FilterTypes \ {"parse", "detectMultilineException"},
         AtFilter(i, type), Advance(i)
  PROVE  At(i) /\ Types /\ filters[i].type = type
BY DEF Types, AtFilter, Advance, Remaining, InPass, IsEarlyStage, At

LEMMA PreparedStays ==
  ASSUME UNCHANGED <<record, filters>>
  PROVE  Prepared' = Prepared
BY DEF Prepared

LEMMA InternalKeeps ==
  ASSUME Types, NEW i, At(i), InternalKept, Effect(filters[i], event', event)
  PROVE  InternalKept'
<1>1. Prepared' = Prepared /\ filters' = filters
  BY PreparedStays DEF At
<1>2. SUFFICES ASSUME \A j \in DOMAIN filters : j <= i => ~PrunesInternal(filters[j])
               PROVE  SameInternal(event', Prepared)
  BY <1>1 DEF InternalKept, At
<1>3. SameInternal(event, Prepared) /\ ~PrunesInternal(filters[i])
  BY <1>2 DEF InternalKept, At, Types
<1> QED
  BY <1>3 DEF SameInternal, Same, Effect, Leaves

\* A rule sets a level of the policy, the default leaves or lowers the one there is.
LEMMA PolicyKinds ==
  ASSUME NEW f, f.type = "kubeAPIAudit", NEW ev, PolicyLevel(f, ev) # "None"
  PROVE  \/ PolicyLevel(f, ev) = Value(ev, <<"level">>)
         \/ KnownLevels(f) => PolicyLevel(f, ev) \in Levels
<1> DEFINE first == FirstMatch(f, ev)
<1>1. first = 0 \/ first \in 1..Len(f.rules)
  <2> DEFINE I == {k \in 1..Len(f.rules) : RuleMatches(f.rules[k], ev)}
  <2>1. first = IF I # {} THEN Min(I) ELSE 0
    BY DEF FirstMatch, SelectInSeq
  <2>2. ASSUME I # {} PROVE Min(I) \in I
    <3>1. I \subseteq Nat
      OBVIOUS
    <3> HIDE DEF I
    <3>2. \E x \in I : \A y \in I : x =< y
      <4> DEFINE R == OpToRel(<, Nat)
      <4>1. R = {ss \in Nat \X Nat : ss[1] < ss[2]}
        BY DEF OpToRel
      <4>2. IsWellFoundedOn(R, Nat)
        BY NatLessThanWellFounded
      <4> HIDE DEF R
      <4>3. \E x \in I : \A y \in I : ~(<<y, x>> \in R)
        BY <2>2, <3>1, <4>2, WFMin
      <4>4. \A x, y \in Nat : ~(<<y, x>> \in R) => x =< y
        BY <4>1
      <4> QED
        BY <3>1, <4>3, <4>4
    <3> QED
      BY <3>2 DEF Min
  <2> QED
    BY <2>1, <2>2
<1>2. DefaultRules(ev) = Value(ev, <<"level">>) \/ DefaultRules(ev) \in Levels
  BY DEF DefaultRules, Levels
<1> QED
  BY <1>1, <1>2 DEF PolicyLevel, KnownLevels

\* An audit filter that passes a record sets a level other than None.
LevelSet(f, new, old) ==
  LET level == Value(new, <<"level">>)
  IN  f.type = "kubeAPIAudit" =>
        level = Value(old, <<"level">>) \/ (level = PolicyLevel(f, old) /\ level # "None")

LEMMA RootKeeps ==
  ASSUME Types, NEW i, At(i), RootKept, Effect(filters[i], event', event), LevelSet(filters[i], event', event)
  PROVE  RootKept'
<1>1. Prepared' = Prepared /\ filters' = filters
  BY PreparedStays DEF At
<1>2. SUFFICES ASSUME ~Passed("prune")'
               PROVE  SameRoots(event', Prepared) /\ LevelKept'
  BY <1>1 DEF RootKept
<1>3. ~Passed("prune") /\ filters[i].type # "prune"
  BY <1>1, <1>2 DEF Passed, At, Types
<1>4. SameRoots(event, Prepared) /\ LevelKept
  BY <1>3 DEF RootKept
<1>5. SameRoots(event', Prepared)
  BY <1>3, <1>4 DEF SameRoots, Same, Effect, Leaves
<1>6. CASE Value(event', <<"level">>) = Value(event, <<"level">>)
  <2>1. LevelKept'
    BY <1>1, <1>4, <1>6 DEF LevelKept, AllKnown
  <2> QED
    BY <1>5, <2>1
<1>7. CASE Value(event', <<"level">>) # Value(event, <<"level">>)
  <2> DEFINE level == PolicyLevel(filters[i], event)
  <2>1. filters[i].type = "kubeAPIAudit" /\ Value(event', <<"level">>) = level /\ level # "None"
    BY <1>3, <1>7 DEF Effect, LevelSet
  <2>2. level = Value(event, <<"level">>) \/ (KnownLevels(filters[i]) => level \in Levels)
    BY <2>1, PolicyKinds
  <2>3. AllKnown => KnownLevels(filters[i])
    BY DEF AllKnown, At
  <2>4. AllKnown' <=> AllKnown
    BY <1>1 DEF AllKnown
  <2> HIDE DEF level
  <2>5. LevelKept'
    BY <1>1, <1>7, <2>1, <2>2, <2>3, <2>4 DEF LevelKept
  <2> QED
    BY <1>5, <2>5
<1> QED
  BY <1>6, <1>7

LEMMA BodiesKeep ==
  ASSUME NEW i, At(i), BodiesKept, Effect(filters[i], event', event)
  PROVE  BodiesKept'
BY PreparedStays DEF At, BodiesKept, Effect

\* What a filter adds to a record has no path under one of these.
LEMMA NothingAdded ==
  ASSUME NEW f, NEW new, NEW old, Effect(f, new, old), NEW path, IsPath(path), path # << >>,
         path[1] \in BodyRoots \cup {"kubernetes"}, Has(new, path)
  PROVE  Has(old, path)
<1>1. PICK q \in DOMAIN new : IsPrefix(path, q)
  BY DEF Has
<1>2. q[1] = path[1]
  BY <1>1, PrefixRoot
<1>3. q \in DOMAIN old
  BY <1>2 DEF Effect
<1> QED
  BY <1>1, <1>3 DEF Has

LEMMA BodiesAreRoots ==
  ASSUME NEW level, NEW body \in Removed(level)
  PROVE  IsPath(body) /\ body # << >> /\ body[1] \in BodyRoots
<1>1. PICK root : root \in BodyRoots /\ body = <<root>>
  BY DEF Removed, BodyRoots
<1>2. IsPath(<<root>>) /\ <<root>> # << >> /\ <<root>>[1] = root
  BY WordsArePaths, Zenon
<1> QED
  BY <1>1, <1>2

LEMMA NotYetPruned ==
  ASSUME Types, NEW i, At(i), ~PrunedBefore(i)
  PROVE  ~Passed("prune")
BY FiltersAssumption DEF Types, At, PrunedBefore, Passed

LEMMA StillAuditEvent ==
  ASSUME NEW ev, NEW other, SameRoots(ev, other)
  PROVE  IsAuditEvent(ev) <=> IsAuditEvent(other)
<1>1. <<"auditID">> \in PolicyPaths /\ <<"verb">> \in PolicyPaths
  BY DEF PolicyPaths
<1> QED
  BY <1>1, PolicyReads DEF IsAuditEvent

\* A passed audit event was filtered.
Filtered(f, new, old) == f.type = "kubeAPIAudit" /\ IsAuditEvent(old) => new = AuditFilter(f, old)

LEMMA AuditKeeps ==
  ASSUME Types, NEW i, At(i), RootKept, BodiesKept, Audited, Effect(filters[i], event', event),
         alive' => Filtered(filters[i], event', event)
  PROVE  Audited'
<1> DEFINE f == filters[i]
<1>1. Prepared' = Prepared /\ filters' = filters /\ f.type \in FilterTypes
  BY PreparedStays, FiltersAssumption DEF At, Types
<1>2. SUFFICES ASSUME alive', IsAuditEvent(Prepared), AsWritten(Prepared), AllKnown,
                      NEW k \in DOMAIN filters, k <= i, filters[k].type = "kubeAPIAudit", ~PrunedBefore(k),
                      NEW body \in Removed(PolicyLevel(filters[k], Prepared)), Has(event', body)
               PROVE  FALSE
  BY <1>1 DEF Audited, At, AllKnown, PrunedBefore
<1>3. Has(event, body) /\ IsPath(body) /\ body # << >> /\ body[1] \in BodyRoots
  BY <1>2, BodiesAreRoots, NothingAdded
<1>4. CASE k <= last
  BY <1>2, <1>3, <1>4 DEF Audited, At
<1>5. CASE k = i
  <2> DEFINE old == PolicyLevel(f, event)
             policy == PolicyLevel(f, Prepared)
  <2>1. SameRoots(event, Prepared) /\ LevelKept
    BY <1>2, <1>5, NotYetPruned DEF RootKept
  <2>2. event' = AuditFilter(f, event)
    BY <1>2, <1>5, <2>1, StillAuditEvent DEF Filtered
  <2>3. body \notin Removed(old)
    <3>1. \A p \in AuditRemoves(f, event) : ~Has(event', p)
      BY <2>2, RemovedAreGone DEF AuditFilter, AuditRemoves
    <3> QED
      BY <1>2, <3>1 DEF AuditRemoves
  <2>4. Has(Prepared, body)
    <3>1. PICK q \in DOMAIN event : IsPrefix(body, q)
      BY <1>3 DEF Has
    <3>2. q \in DOMAIN Prepared
      BY <1>3, <3>1, PrefixRoot DEF BodiesKept
    <3> QED
      BY <3>1, <3>2 DEF Has
  <2>5. body \notin Removed(Value(Prepared, <<"level">>))
    BY <1>2, <2>4 DEF AsWritten
  <2>6. body \in Removed(policy)
    BY <1>2, <1>5
  <2>7. /\ old = Downgraded(Value(event, <<"level">>))
        /\ policy = Downgraded(Value(Prepared, <<"level">>))
    BY <2>1, <2>3, <2>5, <2>6, SamePolicy
  <2> HIDE DEF old, policy
  <2>8. Value(Prepared, <<"level">>) = "RequestResponse" /\ policy = "Request"
    BY <2>5, <2>6, <2>7 DEF Downgraded
  <2>9. Value(event, <<"level">>) \in {"Metadata", "Request", "RequestResponse"}
    BY <1>2, <2>1, <2>8 DEF LevelKept, Levels
  <2> QED
    BY <2>3, <2>6, <2>7, <2>8, <2>9 DEF Downgraded, Removed
<1>6. k <= last \/ k = i
  BY <1>2 DEF At, IsEarlyStage
<1> QED
  BY <1>4, <1>5, <1>6

LEMMA SameText ==
  ASSUME NEW ev, NEW other, SameInternal(ev, other), NEW field, IsPath(field),
         ~IsPrefix(<<"openshift", "labels">>, field)
  PROVE  Text(ev, Internal(field)) = Text(other, Internal(field))
<1>1. IsPrefix(<<"_internal">>, Internal(field))
  <2>1. IsPath(<<"_internal">>)
    BY WordsArePaths, Zenon
  <2> QED
    BY <2>1, PrefixOfConcat DEF Internal
<1>2. ~IsPrefix(LabelsPath, Internal(field))
  BY DEF IsPrefix, LabelsPath, Internal, IsPath
<1>3. Internal(field) \in DOMAIN ev \cup DOMAIN other => Same(ev, other, Internal(field))
  BY <1>1, <1>2 DEF SameInternal
<1> QED
  BY <1>3 DEF Text, Value, Same

\* A filter of such a pipeline judges a record as it would have after viaq.
LEMMA SameJudgement ==
  ASSUME Types, NEW i, At(i), InternalKept, RootKept, Readable
  PROVE  Discards(filters[i], event) <=> Discards(filters[i], Prepared)
<1> DEFINE f == filters[i]
<1>0. f \in FilterSpecs /\ i \in DOMAIN filters
  BY DEF At, Types
<1>1. SameInternal(event, Prepared)
  BY DEF InternalKept, Readable
<1>2. ReadsRoot(f) => SameRoots(event, Prepared) /\ LevelKept
  BY <1>0, NotYetPruned DEF Readable, RootKept
<1>3. CASE f.type = "drop"
  <2>1. \A test \in f.tests : \A cond \in test : DropCondition(cond, event) <=> DropCondition(cond, Prepared)
    <3>1. SUFFICES ASSUME NEW test \in f.tests, NEW cond \in test
                   PROVE  DropCondition(cond, event) <=> DropCondition(cond, Prepared)
      OBVIOUS
    <3>2. CASE cond.olderThan = 0
      <4>1. IsPath(cond.field) /\ ~IsPrefix(<<"openshift", "labels">>, cond.field)
        BY <1>0, <1>3, FiltersAssumption DEF Readable, ReadsLabels
      <4>2. Text(event, Internal(cond.field)) = Text(Prepared, Internal(cond.field))
        BY <1>1, <4>1, SameText
      <4> QED
        BY <3>2, <4>2 DEF DropCondition, buildMatchCondition
    <3>3. CASE cond.olderThan # 0
      <4>1. SameRoots(event, Prepared)
        BY <1>2, <1>3, <3>3 DEF ReadsRoot
      <4>2. IsPath(<<"timestamp">>) /\ <<"timestamp">> # << >> /\ <<"timestamp">>[1] = "timestamp"
        BY WordsArePaths, Zenon
      <4>3. Text(event, <<"timestamp">>) = Text(Prepared, <<"timestamp">>)
        BY <4>1, <4>2, SameReads DEF ReadRoots
      <4> QED
        BY <3>3, <4>3 DEF DropCondition, buildOlderThanCondition
    <3> QED
      BY <3>2, <3>3
  <2> QED
    BY <1>3, <2>1 DEF Discards, Drops
<1>4. CASE f.type = "kubeAPIAudit"
  <2>1. SameRoots(event, Prepared) /\ LevelKept
    BY <1>2, <1>4 DEF ReadsRoot
  <2>2. IsAuditEvent(event) <=> IsAuditEvent(Prepared)
    BY <2>1, StillAuditEvent
  <2>3. ASSUME IsAuditEvent(Prepared)
        PROVE  PolicyLevel(f, event) = "None" <=> PolicyLevel(f, Prepared) = "None"
    <3>1. Value(Prepared, <<"level">>) # "None"
      BY <2>3 DEF Readable, AsWritten
    <3>2. Value(event, <<"level">>) # "None"
      BY <2>1, <3>1 DEF LevelKept
    <3> QED
      BY <2>1, <3>1, <3>2, SamePolicy DEF Downgraded
  <2> QED
    BY <1>4, <2>2, <2>3 DEF Discards, Aborts
<1> QED
  BY <1>3, <1>4 DEF Discards

LEMMA JudgeKeeps ==
  ASSUME Types, NEW i, At(i), InternalKept, RootKept, Judged, alive' \in BOOLEAN,
         alive' <=> ~Discards(filters[i], event)
  PROVE  Judged'
<1>1. Prepared' = Prepared /\ filters' = filters
  BY PreparedStays DEF At
<1>2. Readable' <=> Readable
  BY <1>1 DEF Readable, PrunedBefore
<1>3. SUFFICES ASSUME Readable
               PROVE  IF alive' THEN \A j \in DOMAIN filters : j <= i => ~Discards(filters[j], Prepared)
                      ELSE \E j \in DOMAIN filters : Discards(filters[j], Prepared)
  BY <1>1, <1>2 DEF Judged, At
<1>4. Discards(filters[i], event) <=> Discards(filters[i], Prepared)
  BY <1>3, SameJudgement
<1>5. CASE alive'
  <2>1. \A j \in DOMAIN filters : j <= last => ~Discards(filters[j], Prepared)
    BY <1>3 DEF Judged, At
  <2>2. \A j \in DOMAIN filters : IsEarlyStage(filters[j]) => ~Discards(filters[j], Prepared)
    BY DEF IsEarlyStage, Discards
  <2> QED
    BY <1>4, <1>5, <2>1, <2>2 DEF At
<1>6. CASE ~alive'
  BY <1>4, <1>6 DEF At
<1> QED
  BY <1>5, <1>6

LEMMA LabelsKeep ==
  ASSUME Types, NEW i, At(i), LabelsGone, Effect(filters[i], event', event),
         filters[i].type = "prune" => event' = PruneFilter(filters[i], event)
  PROVE  LabelsGone'
<1>1. SUFFICES ASSUME NEW k \in DOMAIN filters, k <= i, filters[k].type = "prune", NEW p \in filters[k].in,
                      NamesLabel(p), SpelledOut(p)
               PROVE  ~Has(event', p.segments) /\ ~Has(event', ForwardedLabel(p))
  BY DEF LabelsGone, At
<1>2. IsPath(p.segments) /\ p.segments # << >>
  BY <1>1, FiltersAssumption DEF Types
<1>3. p.segments[1] = "kubernetes"
  <2> DEFINE s == p.segments
  <2>1. IsPath(s) /\ Len(s) > 2
    BY <1>1, <1>2 DEF NamesLabel
  <2>2. SubSeq(s, 1, 2)[1] = "kubernetes"
    BY <1>1, LabelRoot
  <2> HIDE DEF s
  <2>3. SubSeq(s, 1, 2)[1] = s[1]
    BY <2>1 DEF IsPath
  <2>4. s[1] = "kubernetes"
    BY <2>2, <2>3
  <2> QED
    BY <2>4 DEF s
<1>4. IsPath(ForwardedLabel(p)) /\ ForwardedLabel(p) # << >> /\ ForwardedLabel(p)[1] = "kubernetes"
  BY <1>1, LabelRoot
<1>5. CASE k <= last
  <2>1. ~Has(event, p.segments) /\ ~Has(event, ForwardedLabel(p))
    BY <1>1, <1>5 DEF LabelsGone
  <2> QED
    BY <1>2, <1>3, <1>4, <2>1, NothingAdded
<1>6. CASE k = i
  <2>1. \A x \in PathSegments(filters[i].in) : ~Has(event', x)
    BY <1>1, <1>6, RemovedAreGone DEF PruneFilter
  <2>2. p.segments \in PathSegments(filters[i].in) /\ ForwardedLabel(p) \in PathSegments(filters[i].in)
    BY <1>1, <1>6 DEF PathSegments
  <2> QED
    BY <2>1, <2>2
<1>7. k <= last \/ k = i
  BY <1>1 DEF At, IsEarlyStage
<1> QED
  BY <1>5, <1>6, <1>7

-----------------------------------------------------------------------------
(* The filters after viaq *)

LEMMA LateStep ==
  ASSUME IInv, NEW i, At(i), alive' \in BOOLEAN, Effect(filters[i], event', event),
         LevelSet(filters[i], event', event), alive' => Filtered(filters[i], event', event),
         alive' <=> ~Discards(filters[i], event),
         filters[i].type = "prune" => event' = PruneFilter(filters[i], event)
  PROVE  IInv'
<1>1. Types /\ InternalKept /\ RootKept /\ BodiesKept /\ Audited /\ Judged /\ LabelsGone
  BY DEF IInv, LatePart, At
<1>2. Types'
  BY <1>1 DEF Types, At
<1>3. EarlyPart'
  BY DEF EarlyPart, At
<1>4. InternalKept' /\ RootKept' /\ BodiesKept'
  BY <1>1, InternalKeeps, RootKeeps, BodiesKeep
<1>5. Audited' /\ Judged' /\ LabelsGone'
  BY <1>1, AuditKeeps, JudgeKeeps, LabelsKeep
<1> QED
  BY <1>2, <1>3, <1>4, <1>5 DEF IInv, LatePart

LEMMA LabelsStep ==
  ASSUME IInv, RunLabels
  PROVE  IInv'
<1>1. PICK i \in DOMAIN filters :
        AtFilter(i, "openshiftLabels") /\ Pass(LabelsFilter(filters[i], event)) /\ Advance(i)
  BY DEF RunLabels
<1>2. At(i) /\ filters[i].type = "openshiftLabels" /\ filters[i] \in FilterSpecs
  BY <1>1, AtLate DEF IInv, FilterTypes, Types
<1>3. Effect(filters[i], event', event)
  BY <1>1, <1>2, LabelsEffect DEF Pass
<1>4. alive' \in BOOLEAN /\ (alive' <=> ~Discards(filters[i], event))
  BY <1>1, <1>2 DEF Pass, Discards
<1>5. LevelSet(filters[i], event', event) /\ Filtered(filters[i], event', event)
  BY <1>2 DEF LevelSet, Filtered
<1> QED
  BY <1>2, <1>3, <1>4, <1>5, LateStep

LEMMA DropStep ==
  ASSUME IInv, RunDrop
  PROVE  IInv'
<1>1. PICK i \in DOMAIN filters :
        /\ AtFilter(i, "drop")
        /\ IF Drops(filters[i], event) THEN Drop ELSE Pass(event)
        /\ Advance(i)
  BY DEF RunDrop
<1>2. At(i) /\ filters[i].type = "drop"
  BY <1>1, AtLate DEF IInv, FilterTypes
<1>3. event' = event /\ alive' \in BOOLEAN /\ (alive' <=> ~Discards(filters[i], event))
  BY <1>1, <1>2 DEF Pass, Drop, Discards
<1>4. Effect(filters[i], event', event)
  BY <1>3, NoEffect
<1>5. LevelSet(filters[i], event', event) /\ Filtered(filters[i], event', event)
  BY <1>2 DEF LevelSet, Filtered
<1> QED
  BY <1>2, <1>3, <1>4, <1>5, LateStep

LEMMA PruneStep ==
  ASSUME IInv, RunPrune
  PROVE  IInv'
<1>1. PICK i \in DOMAIN filters :
        AtFilter(i, "prune") /\ Pass(PruneFilter(filters[i], event)) /\ Advance(i)
  BY DEF RunPrune
<1>2. At(i) /\ filters[i].type = "prune" /\ filters[i] \in FilterSpecs
  BY <1>1, AtLate DEF IInv, FilterTypes, Types
<1>3. event' = PruneFilter(filters[i], event)
  BY <1>1 DEF Pass
<1>4. Effect(filters[i], event', event)
  BY <1>2, <1>3, PruneEffect
<1>5. alive' \in BOOLEAN /\ (alive' <=> ~Discards(filters[i], event))
  BY <1>1, <1>2 DEF Pass, Discards
<1>6. LevelSet(filters[i], event', event) /\ Filtered(filters[i], event', event)
  BY <1>2 DEF LevelSet, Filtered
<1> QED
  BY <1>2, <1>3, <1>4, <1>5, <1>6, LateStep

LEMMA AuditStep ==
  ASSUME IInv, RunAudit
  PROVE  IInv'
<1>1. PICK i \in DOMAIN filters :
        /\ AtFilter(i, "kubeAPIAudit")
        /\ IF Aborts(filters[i], event) THEN Drop
           ELSE Pass(IF IsAuditEvent(event) THEN AuditFilter(filters[i], event) ELSE event)
        /\ Advance(i)
  BY DEF RunAudit
<1> DEFINE f == filters[i]
<1>2. At(i) /\ f.type = "kubeAPIAudit" /\ f \in FilterSpecs
  BY <1>1, AtLate DEF IInv, FilterTypes, Types
<1>3. alive' \in BOOLEAN /\ (alive' <=> ~Discards(f, event))
  BY <1>1, <1>2 DEF Pass, Drop, Discards
<1>4. CASE event' = event /\ (alive' => ~IsAuditEvent(event))
  <2>1. Effect(f, event', event)
    BY <1>4, NoEffect
  <2>2. LevelSet(f, event', event) /\ (alive' => Filtered(f, event', event))
    BY <1>4 DEF LevelSet, Filtered
  <2> QED
    BY <1>2, <1>3, <2>1, <2>2, LateStep
<1>5. CASE event' = AuditFilter(f, event) /\ IsAuditEvent(event) /\ ~Aborts(f, event)
  <2>1. Effect(f, event', event)
    BY <1>2, <1>5, AuditEffect
  <2>2. PolicyLevel(f, event) # "None"
    BY <1>5 DEF Aborts
  <2>3. LevelSet(f, event', event)
    BY <1>5, <2>2, AuditLevel DEF LevelSet
  <2>4. Filtered(f, event', event)
    BY <1>5 DEF Filtered
  <2> QED
    BY <1>2, <1>3, <2>1, <2>3, <2>4, LateStep
<1> QED
  BY <1>1, <1>4, <1>5 DEF Pass, Drop

-----------------------------------------------------------------------------
(* The filters before viaq *)

\* An assignment that is repeated changes nothing.
LEMMA PutAgain ==
  ASSUME NEW ev, NEW path, IsPath(path), NEW object, \A s \in DOMAIN object : IsPath(s)
  PROVE  Put(Put(ev, path, object), path, object) = Put(ev, path, object)
<1> DEFINE one == Put(ev, path, object)
<1>1. \A q : ~IsPrefix(path, q) => Leaves(one, ev, q)
  BY PutLeaves DEF Leaves
<1> HIDE DEF one
<1>2. {q \in DOMAIN one : ~IsPrefix(path, q)} = {q \in DOMAIN ev : ~IsPrefix(path, q)}
  BY <1>1 DEF Leaves
<1>3. \A q \in {r \in DOMAIN ev : ~IsPrefix(path, r)} : one[q] = ev[q]
  BY <1>1 DEF Leaves
<1>4. Del(one, path) = Del(ev, path)
  BY <1>2, <1>3 DEF Del, Restrict
<1>5. Put(one, path, object) = Put(ev, path, object)
  BY <1>4 DEF Put
<1> QED
  BY <1>5 DEF one

\* A second parse filter does what the first did.
LEMMA ParseAgain ==
  ASSUME NEW ev
  PROVE  ParseFilter(ParseFilter(ev)) = ParseFilter(ev)
<1> DEFINE path == Internal(<<"structured">>)
           json == Parsed(Value(ev, Internal(<<"message">>)))
           object == CHOOSE o \in json : TRUE
<1>1. CASE Value(ev, Internal(<<"log_source">>)) = "container" /\ json # {}
  <2>1. object \in json
    BY <1>1
  <2>2. \A s \in DOMAIN object : IsPath(s)
    BY <2>1, ParsedAssumption DEF Parsed
  <2>3. /\ path = <<"_internal", "structured">> /\ Internal(<<"message">>) = <<"_internal", "message">>
        /\ Internal(<<"log_source">>) = <<"_internal", "log_source">>
    BY WordsJoin, Zenon DEF Internal
  <2>4. IsPath(path)
    <3>1. IsPath(<<"_internal", "structured">>)
      BY WordsArePaths, Zenon
    <3> QED
      BY <2>3, <3>1
  <2>5. ~IsPrefix(path, Internal(<<"message">>)) /\ ~IsPrefix(path, Internal(<<"log_source">>))
    BY <2>3 DEF IsPrefix
  <2>6. ParseFilter(ev) = Put(ev, path, object)
    BY <1>1 DEF ParseFilter
  <2> HIDE DEF path, object
  <2>7. /\ Value(Put(ev, path, object), Internal(<<"message">>)) = Value(ev, Internal(<<"message">>))
        /\ Value(Put(ev, path, object), Internal(<<"log_source">>)) = Value(ev, Internal(<<"log_source">>))
    BY <2>2, <2>4, <2>5, PutLeaves DEF Value
  <2>8. ParseFilter(Put(ev, path, object)) = Put(Put(ev, path, object), path, object)
    BY <1>1, <2>7 DEF ParseFilter, path, object
  <2> QED
    BY <2>2, <2>4, <2>6, <2>8, PutAgain
<1>2. CASE ~(Value(ev, Internal(<<"log_source">>)) = "container" /\ json # {})
  BY <1>2 DEF ParseFilter
<1> QED
  BY <1>1, <1>2

LEMMA EarlyStep ==
  ASSUME IInv, NEW i \in DOMAIN filters, NEW type \in {"parse", "detectMultilineException"},
         AtFilter(i, type), Pass(IF type = "parse" THEN ParseFilter(event) ELSE event), Advance(i)
  PROVE  IInv'
<1>1. Types /\ pass = "early" /\ pass' = "early" /\ filters' = filters /\ record' = record /\ last' = i /\ alive'
  BY DEF IInv, Types, AtFilter, Remaining, InPass, IsEarlyStage, Advance, Pass
<1>2. Types'
  BY <1>1 DEF Types, Pass
<1>3. LatePart'
  BY <1>1 DEF LatePart
<1>4. Passed("parse")' <=> Passed("parse") \/ type = "parse"
  BY <1>1 DEF Types, Passed, AtFilter, Remaining, InPass, IsEarlyStage
<1>5. EarlyPart'
  <2> DEFINE normalized == Normalize(record.source, record.read)
  <2>1. event = IF Passed("parse") THEN ParseFilter(normalized) ELSE normalized
    BY <1>1 DEF IInv, EarlyPart
  <2>2. event' = IF type = "parse" THEN ParseFilter(event) ELSE event
    BY DEF Pass
  <2>3. ParseFilter(ParseFilter(normalized)) = ParseFilter(normalized)
    BY ParseAgain
  <2>4. normalized' = normalized
    BY <1>1
  <2> HIDE DEF normalized
  <2>5. event' = IF Passed("parse")' THEN ParseFilter(normalized) ELSE normalized
    BY <1>4, <2>1, <2>2, <2>3
  <2> QED
    BY <1>1, <2>4, <2>5 DEF EarlyPart, normalized
<1> QED
  BY <1>2, <1>3, <1>5 DEF IInv

LEMMA NormalizeStep ==
  ASSUME IInv, NormalizeRecord
  PROVE  IInv'
<1>1. /\ pass' = "early" /\ last' = 0 /\ filters' = filters /\ record' = record /\ alive' = TRUE
      /\ event' = Normalize(record.source, record.read)
  BY DEF IInv, EarlyPart, NormalizeRecord, Pass
<1>2. Types'
  BY <1>1 DEF IInv, Types
<1>3. ~Passed("parse")'
  BY <1>1 DEF IInv, Types, Passed
<1>4. EarlyPart' /\ LatePart'
  BY <1>1, <1>3 DEF EarlyPart, LatePart
<1> QED
  BY <1>2, <1>4 DEF IInv

\* The late pass begins with the record as viaq leaves it.
LEMMA ViaqPrepares ==
  ASSUME IInv, RunViaq
  PROVE  event' = Prepared'
<1>1. \A i \in DOMAIN filters : filters[i].type = "parse" => i <= last
  BY DEF IInv, Types, RunViaq, Remaining, InPass, IsEarlyStage
<1>2. Passed("parse") <=> \E i \in DOMAIN filters : filters[i].type = "parse"
  BY <1>1 DEF Passed
<1>3. event' = Prepared
  BY <1>2 DEF IInv, EarlyPart, RunViaq, Pass, Prepared
<1> QED
  BY <1>3, PreparedStays DEF RunViaq

LEMMA ViaqStep ==
  ASSUME IInv, RunViaq
  PROVE  IInv'
<1>1. pass' = "late" /\ last' = 0 /\ filters' = filters /\ record' = record /\ alive' = TRUE
  BY DEF RunViaq, Pass
<1>2. Types' /\ EarlyPart'
  BY <1>1 DEF IInv, Types, EarlyPart
<1>3. event' = Prepared'
  BY ViaqPrepares
<1>4. \A i \in DOMAIN filters' : ~(i <= last')
  BY <1>1, <1>2 DEF Types
<1>5. InternalKept' /\ RootKept' /\ BodiesKept'
  BY <1>3 DEF InternalKept, SameInternal, RootKept, SameRoots, Same, LevelKept, BodiesKept
<1>6. Audited' /\ Judged' /\ LabelsGone'
  BY <1>1, <1>4 DEF Audited, Judged, LabelsGone
<1> QED
  BY <1>2, <1>5, <1>6 DEF IInv, LatePart

-----------------------------------------------------------------------------
(* The theorems *)

LEMMA InitHolds ==
  Init => IInv
<1>1. SUFFICES ASSUME Init
               PROVE  IInv
  OBVIOUS
<1>2. PICK n \in 0..MaxFilters : filters \in [1..n -> {f \in FilterSpecs : ValidateFilter(f)}]
  BY <1>1 DEF Init
<1>3. Types
  BY <1>1, <1>2 DEF Init, Types
<1> QED
  BY <1>1, <1>3 DEF Init, IInv, EarlyPart, LatePart

LEMMA StepHolds ==
  IInv /\ [Next]_vars => IInv'
<1>1. SUFFICES ASSUME IInv, [Next]_vars
               PROVE  IInv'
  OBVIOUS
<1>2. CASE NormalizeRecord
  BY <1>1, <1>2, NormalizeStep
<1>3. CASE RunParse
  <2>1. PICK i \in DOMAIN filters : AtFilter(i, "parse") /\ Pass(ParseFilter(event)) /\ Advance(i)
    BY <1>3 DEF RunParse
  <2> QED
    BY <1>1, <2>1, EarlyStep
<1>4. CASE RunDetectExceptions
  <2>1. PICK i \in DOMAIN filters : AtFilter(i, "detectMultilineException") /\ Pass(event) /\ Advance(i)
    BY <1>4 DEF RunDetectExceptions
  <2> QED
    BY <1>1, <2>1, EarlyStep
<1>5. CASE RunViaq
  BY <1>1, <1>5, ViaqStep
<1>6. CASE RunLabels
  BY <1>1, <1>6, LabelsStep
<1>7. CASE RunDrop
  BY <1>1, <1>7, DropStep
<1>8. CASE RunPrune
  BY <1>1, <1>8, PruneStep
<1>9. CASE RunAudit
  BY <1>1, <1>9, AuditStep
<1>10. CASE UNCHANGED vars
  <2>1. UNCHANGED <<record, filters, pass, last, event, alive>>
    BY <1>10 DEF vars
  <2>2. Types' /\ EarlyPart'
    BY <1>1, <2>1 DEF IInv, Types, EarlyPart, Passed
  <2>3. Prepared' = Prepared
    BY <2>1, PreparedStays
  <2>4. (InternalKept' <=> InternalKept) /\ (RootKept' <=> RootKept) /\ (BodiesKept' <=> BodiesKept)
    BY <2>1, <2>3 DEF InternalKept, RootKept, Passed, LevelKept, AllKnown, BodiesKept
  <2>5. (Audited' <=> Audited) /\ (Judged' <=> Judged) /\ (LabelsGone' <=> LabelsGone)
    BY <2>1, <2>3 DEF Audited, AllKnown, PrunedBefore, Judged, Readable, LabelsGone
  <2> QED
    BY <1>1, <2>1, <2>2, <2>4, <2>5 DEF IInv, LatePart
<1> QED
  BY <1>1, <1>2, <1>3, <1>4, <1>5, <1>6, <1>7, <1>8, <1>9, <1>10 DEF Next

LEMMA Invariant ==
  Spec => []IInv
BY InitHolds, StepHolds, PTL DEF Spec

\* A delivered record went through every filter of the late pass.
LEMMA AllDone ==
  ASSUME Types, Delivered, NEW i \in DOMAIN filters, ~IsEarlyStage(filters[i])
  PROVE  i <= last
BY DEF Types, Delivered, Remaining, InPass

\* Whatever filters a pipeline names and in whatever order, a record is dropped
\* exactly if one of them discards it as it left viaq (the scripts of
\* internal/generator/vector/filter/drop and apiaudit, in the order of
\* AddSystemFilters), for the pipelines that FilteredAsRead is about.
THEOREM DroppedAsRead ==
  Spec => []FilteredAsRead
<1>1. ASSUME IInv
      PROVE  FilteredAsRead
  <2>1. SUFFICES ASSUME Finished, Readable
                 PROVE  alive <=> \A i \in DOMAIN filters : ~Discards(filters[i], Prepared)
    BY DEF FilteredAsRead, Readable
  <2>2. pass = "late" /\ Types
    BY <1>1, <2>1 DEF IInv, EarlyPart, Finished, Delivered
  <2>3. IF alive THEN \A i \in DOMAIN filters : i <= last => ~Discards(filters[i], Prepared)
        ELSE \E i \in DOMAIN filters : Discards(filters[i], Prepared)
    BY <1>1, <2>1, <2>2 DEF IInv, LatePart, Judged
  <2>4. CASE ~alive
    BY <2>3, <2>4
  <2>5. CASE alive
    <3>1. Delivered
      BY <2>1, <2>5 DEF Finished
    <3>2. \A i \in DOMAIN filters : IsEarlyStage(filters[i]) => ~Discards(filters[i], Prepared)
      BY DEF IsEarlyStage, Discards
    <3> QED
      BY <2>2, <2>3, <2>5, <3>1, <3>2, AllDone
  <2> QED
    BY <2>4, <2>5
<1> QED
  BY <1>1, Invariant, PTL

\* A delivered audit event holds no body that the policy of one of its audit
\* filters takes from it (the script of internal/generator/vector/filter/apiaudit),
\* for any number of policies, rules and other filters.
THEOREM PolicyHolds ==
  Spec => []AuditPolicyEnforced
<1>1. ASSUME IInv
      PROVE  AuditPolicyEnforced
  <2>1. SUFFICES ASSUME Delivered, IsAuditEvent(Prepared), AsWritten(Prepared), AllKnown,
                        NEW i \in DOMAIN filters, filters[i].type = "kubeAPIAudit", ~PrunedBefore(i),
                        NEW body \in Removed(PolicyLevel(filters[i], Prepared))
                 PROVE  ~Has(event, body)
    BY DEF AuditPolicyEnforced, AllKnown
  <2>2. i <= last
    BY <1>1, <2>1, AllDone DEF IInv, IsEarlyStage
  <2>3. Audited /\ alive
    BY <1>1, <2>1 DEF IInv, LatePart, Delivered
  <2> QED
    BY <2>1, <2>2, <2>3 DEF Audited
<1> QED
  BY <1>1, Invariant, PTL

\* A label that a prune filter spells in one segment, or without a quote, is
\* delivered under neither of its names (the paths that
\* internal/generator/vector/filter/prune generates), and no filter after it
\* brings it back.
THEOREM PrunedStaysPruned ==
  Spec => []PrunedLabelsGone
<1>1. ASSUME IInv
      PROVE  PrunedLabelsGone
  <2>1. Delivered => LabelsGone
    BY <1>1 DEF IInv, LatePart, Delivered
  <2>2. Delivered => \A i \in DOMAIN filters : filters[i].type = "prune" => i <= last
    BY <1>1, AllDone DEF IInv, IsEarlyStage
  <2> QED
    BY <2>1, <2>2 DEF LabelsGone, PrunedLabelsGone
<1> QED
  BY <1>1, Invariant, PTL

-----------------------------------------------------------------------------
(* Paths *)

Paths(ev) == \A q \in DOMAIN ev : IsPath(q)

LEMMA SequencesArePaths ==
  ASSUME NEW S, NEW p \in Seq(S)
  PROVE  IsPath(p)
BY DEF IsPath

LEMMA JoinedPaths ==
  ASSUME NEW p, IsPath(p), NEW s, IsPath(s)
  PROVE  /\ IsPath(p \o s) /\ Len(p \o s) = Len(p) + Len(s) /\ Len(p) \in Nat /\ Len(s) \in Nat
         /\ \A i \in 1..Len(p) : (p \o s)[i] = p[i]
         /\ \A i \in 1..Len(s) : (p \o s)[Len(p) + i] = s[i]
         /\ SubSeq(p \o s, Len(p) + 1, Len(p \o s)) = s
<1> DEFINE S == {p[i] : i \in DOMAIN p} \cup {s[i] : i \in DOMAIN s}
<1>1. p \in Seq(S) /\ s \in Seq(S)
  BY DEF IsPath
<1> HIDE DEF S
<1>2. p \o s \in Seq(S) /\ Len(p \o s) = Len(p) + Len(s)
  BY <1>1
<1>3. IsPath(p \o s)
  BY <1>2, SequencesArePaths
<1>4. /\ \A i \in 1..Len(p) : (p \o s)[i] = p[i]
      /\ \A i \in 1..Len(s) : (p \o s)[Len(p) + i] = s[i]
  BY <1>1
<1>5. SubSeq(p \o s, Len(p) + 1, Len(p \o s)) = s
  BY <1>1, <1>2, <1>4
<1> QED
  BY <1>1, <1>2, <1>3, <1>4, <1>5

LEMMA RestIsPath ==
  ASSUME NEW p, IsPath(p), NEW q, IsPath(q), IsPrefix(p, q)
  PROVE  IsPath(SubSeq(q, Len(p) + 1, Len(q)))
<1> DEFINE S == {q[i] : i \in DOMAIN q}
<1>1. q \in Seq(S) /\ Len(p) \in Nat /\ Len(q) \in Nat
  BY DEF IsPath
<1> HIDE DEF S
<1>2. \A i \in (Len(p) + 1)..Len(q) : q[i] \in S
  BY <1>1
<1>3. SubSeq(q, Len(p) + 1, Len(q)) \in Seq(S)
  BY <1>1, <1>2, SubSeqProperties
<1> QED
  BY <1>3, SequencesArePaths

\* What an assignment writes.
LEMMA PutWrites ==
  ASSUME NEW ev, NEW path, IsPath(path), NEW object, \A s \in DOMAIN object : IsPath(s)
  PROVE  /\ \A s \in DOMAIN object : path \o s \in DOMAIN Put(ev, path, object)
                                     /\ Put(ev, path, object)[path \o s] = object[s]
         /\ \A q \in DOMAIN Put(ev, path, object) : IsPrefix(path, q) => \E s \in DOMAIN object : q = path \o s
         /\ Paths(ev) => Paths(Put(ev, path, object))
<1>1. \A s \in DOMAIN object : SubSeq(path \o s, Len(path) + 1, Len(path \o s)) = s
  BY JoinedPaths
<1>2. DOMAIN Put(ev, path, object) = {path \o s : s \in DOMAIN object} \cup {q \in DOMAIN ev : ~IsPrefix(path, q)}
  BY DEF Put, Over, Del, Restrict
<1>3. \A s \in DOMAIN object : Put(ev, path, object)[path \o s] = object[s]
  BY <1>1 DEF Put, Over
<1>4. \A s \in DOMAIN object : IsPath(path \o s)
  BY JoinedPaths
<1>5. Paths(ev) => Paths(Put(ev, path, object))
  BY <1>2, <1>4 DEF Paths
<1> QED
  BY <1>2, <1>3, <1>5

LEMMA DelLeaves ==
  ASSUME NEW ev, NEW path, NEW q, ~IsPrefix(path, q)
  PROVE  Leaves(Del(ev, path), ev, q) /\ (Paths(ev) => Paths(Del(ev, path)))
BY DEF Leaves, Del, Restrict, Paths

LEMMA ObjectReads ==
  ASSUME NEW ev, Paths(ev), NEW path, IsPath(path)
  PROVE  /\ Paths(Object(ev, path))
         /\ path \in DOMAIN ev => << >> \in DOMAIN Object(ev, path) /\ Object(ev, path)[<< >>] = ev[path]
<1>1. Paths(Object(ev, path))
  BY RestIsPath DEF Object, Paths
<1>2. ASSUME path \in DOMAIN ev
      PROVE  << >> \in DOMAIN Object(ev, path) /\ Object(ev, path)[<< >>] = ev[path]
  <2>1. path \o << >> = path /\ SubSeq(path, Len(path) + 1, Len(path)) = << >> /\ IsPrefix(path, path)
    BY DEF IsPath, IsPrefix
  <2> QED
    BY <1>2, <2>1 DEF Object
<1> QED
  BY <1>1, <1>2

LEMMA InternalParts ==
  ASSUME NEW p, IsPath(p)
  PROVE  /\ IsPath(Internal(p)) /\ Len(Internal(p)) = Len(p) + 1 /\ Len(p) \in Nat
         /\ \A i \in 1..Len(p) : Internal(p)[i + 1] = p[i]
         /\ SubSeq(Internal(p), 2, Len(Internal(p))) = p
<1> DEFINE root == <<"_internal">>
<1>1. IsPath(root) /\ Len(root) = 1
  BY DEF IsPath
<1>2. Internal(p) = root \o p
  BY DEF Internal
<1> HIDE DEF root
<1>3. /\ IsPath(root \o p) /\ Len(root \o p) = Len(root) + Len(p) /\ Len(p) \in Nat
      /\ \A i \in 1..Len(p) : (root \o p)[Len(root) + i] = p[i]
      /\ SubSeq(root \o p, Len(root) + 1, Len(root \o p)) = p
  BY <1>1, JoinedPaths
<1>4. SubSeq(Internal(p), 2, Len(Internal(p))) = p
  BY <1>1, <1>2, <1>3
<1>5. ASSUME NEW i \in 1..Len(p)
      PROVE  Internal(p)[i + 1] = p[i]
  <2>1. 1 + i = i + 1
    BY <1>3
  <2>2. (root \o p)[Len(root) + i] = p[i]
    BY <1>3
  <2> QED
    BY <1>1, <1>2, <2>1, <2>2
<1> QED
  BY <1>1, <1>2, <1>3, <1>4, <1>5

LEMMA PrefixElements ==
  ASSUME NEW p, IsPath(p), NEW q, IsPath(q)
  PROVE  IsPrefix(p, q) <=> Len(p) <= Len(q) /\ \A i \in 1..Len(p) : p[i] = q[i]
<1> DEFINE S == {p[i] : i \in DOMAIN p} \cup {q[i] : i \in DOMAIN q}
<1>1. p \in Seq(S) /\ q \in Seq(S) /\ Len(p) \in Nat /\ Len(q) \in Nat
  BY DEF IsPath
<1> HIDE DEF S
<1>2. ASSUME Len(p) <= Len(q)
      PROVE  SubSeq(p, 1, Len(p)) = SubSeq(q, 1, Len(p)) <=> \A i \in 1..Len(p) : p[i] = q[i]
  <2>1. /\ SubSeq(p, 1, Len(p)) \in Seq(S) /\ Len(SubSeq(p, 1, Len(p))) = Len(p)
        /\ \A i \in 1..Len(p) : SubSeq(p, 1, Len(p))[i] = p[i]
    BY <1>1
  <2>2. /\ SubSeq(q, 1, Len(p)) \in Seq(S) /\ Len(SubSeq(q, 1, Len(p))) = Len(p)
        /\ \A i \in 1..Len(p) : SubSeq(q, 1, Len(p))[i] = q[i]
    BY <1>1, <1>2
  <2> QED
    BY <1>1, <2>1, <2>2
<1> QED
  BY <1>2 DEF IsPrefix

LEMMA InternalPrefix ==
  ASSUME NEW p, IsPath(p), NEW q, IsPath(q)
  PROVE  IsPrefix(Internal(p), Internal(q)) => IsPrefix(p, q)
<1>1. SUFFICES ASSUME IsPrefix(Internal(p), Internal(q))
               PROVE  Len(p) <= Len(q) /\ \A i \in 1..Len(p) : p[i] = q[i]
  BY PrefixElements
<1>2. Len(Internal(p)) <= Len(Internal(q)) /\ \A i \in 1..Len(Internal(p)) : Internal(p)[i] = Internal(q)[i]
  BY <1>1, InternalParts, PrefixElements
<1>3. Len(p) <= Len(q)
  BY <1>2, InternalParts
<1>4. ASSUME NEW i \in 1..Len(p)
      PROVE  p[i] = q[i]
  <2>0. Len(Internal(p)) = Len(p) + 1 /\ Len(p) \in Nat /\ Len(q) \in Nat
    BY InternalParts, Zenon
  <2>1. i + 1 \in 1..Len(Internal(p)) /\ i \in 1..Len(q)
    BY <1>3, <1>4, <2>0
  <2>2. Internal(p)[i + 1] = p[i] /\ Internal(q)[i + 1] = q[i]
    BY <1>4, <2>1, InternalParts, Zenon
  <2> QED
    BY <1>2, <2>1, <2>2
<1> QED
  BY <1>3, <1>4

LEMMA InternalInjective ==
  ASSUME NEW p, IsPath(p), NEW q, IsPath(q), Internal(p) = Internal(q)
  PROVE  p = q
<1>1. /\ SubSeq(Internal(p), 2, Len(Internal(p))) = p
      /\ SubSeq(Internal(q), 2, Len(Internal(q))) = q
  BY InternalParts, Zenon
<1> QED
  BY <1>1, Zenon

\* The envelope holds what was read.
LEMMA Enveloped ==
  ASSUME NEW ev, Paths(ev)
  PROVE  /\ Paths(setEnvelope(ev))
         /\ \A q \in DOMAIN ev : Internal(q) \in DOMAIN setEnvelope(ev) /\ setEnvelope(ev)[Internal(q)] = ev[q]
         /\ \A q \in DOMAIN setEnvelope(ev) : \E s \in DOMAIN ev : q = Internal(s)
<1>1. IsPath(<<"_internal">>) /\ Paths(<< >>) /\ DOMAIN << >> = {}
  BY DEF IsPath, Paths
<1> DEFINE root == <<"_internal">>
           none == << >>
<1>2. IsPath(root) /\ Paths(none) /\ DOMAIN none = {}
  BY <1>1
<1>3. setEnvelope(ev) = Put(none, root, ev) /\ \A q : Internal(q) = root \o q
  BY DEF setEnvelope, Internal
<1>4. \A q \in DOMAIN ev : IsPath(q)
  BY DEF Paths
<1> HIDE DEF root, none
<1>5. /\ \A s \in DOMAIN ev : root \o s \in DOMAIN Put(none, root, ev) /\ Put(none, root, ev)[root \o s] = ev[s]
      /\ \A q \in DOMAIN Put(none, root, ev) : IsPrefix(root, q) => \E s \in DOMAIN ev : q = root \o s
      /\ Paths(Put(none, root, ev))
  <2>1. \A s \in DOMAIN ev : root \o s \in DOMAIN Put(none, root, ev) /\ Put(none, root, ev)[root \o s] = ev[s]
    BY <1>2, <1>4, PutWrites
  <2>2. \A q \in DOMAIN Put(none, root, ev) : IsPrefix(root, q) => \E s \in DOMAIN ev : q = root \o s
    BY <1>2, <1>4, PutWrites
  <2>3. Paths(Put(none, root, ev))
    BY <1>2, <1>4, PutWrites
  <2> QED
    BY <2>1, <2>2, <2>3
<1>6. \A q : ~IsPrefix(root, q) => q \notin DOMAIN Put(none, root, ev)
  BY <1>2, <1>4, PutLeaves
<1> QED
  BY <1>3, <1>5, <1>6

TypeOf(namespace) == IF namespace \in InfraNamespaces THEN "infrastructure" ELSE "application"

\* An assignment of an object that has a value of its own.
LEMMA PutAt ==
  ASSUME NEW ev, Paths(ev), NEW path, IsPath(path), NEW object, Paths(object), << >> \in DOMAIN object
  PROVE  /\ Paths(Put(ev, path, object))
         /\ path \in DOMAIN Put(ev, path, object) /\ Put(ev, path, object)[path] = object[<< >>]
         /\ \A q : ~IsPrefix(path, q) => Leaves(Put(ev, path, object), ev, q)
<1>1. path \o << >> = path
  BY DEF IsPath
<1>2. \A s \in DOMAIN object : IsPath(s)
  BY DEF Paths
<1>3. Paths(Put(ev, path, object))
  BY <1>2, PutWrites
<1>4. \A s \in DOMAIN object : path \o s \in DOMAIN Put(ev, path, object) /\ Put(ev, path, object)[path \o s] = object[s]
  BY <1>2, PutWrites
<1>5. \A q : ~IsPrefix(path, q) => Leaves(Put(ev, path, object), ev, q)
  BY <1>2, PutLeaves DEF Leaves
<1> QED
  BY <1>1, <1>3, <1>4, <1>5

LEMMA AssignedAt ==
  ASSUME NEW ev, Paths(ev), NEW path, IsPath(path), NEW value
  PROVE  /\ Paths(Assign(ev, path, value))
         /\ path \in DOMAIN Assign(ev, path, value) /\ Assign(ev, path, value)[path] = value
         /\ \A q : ~IsPrefix(path, q) => Leaves(Assign(ev, path, value), ev, q)
<1>1. Paths(Leaf(value)) /\ << >> \in DOMAIN Leaf(value) /\ Leaf(value)[<< >>] = value
  BY LeafIsPath DEF Leaf, Paths
<1> QED
  BY <1>1, PutAt DEF Assign

NamespaceName == <<"kubernetes", "namespace_name">>

\* The program finds the namespace that the file is of, in what Vector knows of
\* the pod or in the path of the file.
LEMMA NamespaceRecovered ==
  ASSUME NEW ev, Paths(ev), <<"file", "namespace">> \in DOMAIN ev,
         Has(ev, NamespaceName) => Value(ev, NamespaceName) = ev[<<"file", "namespace">>]
  PROVE  LET recovered == recoverMetadataFromFilePath(setEnvelope(ev))
         IN  Paths(recovered) /\ Value(recovered, Internal(NamespaceName)) = ev[<<"file", "namespace">>]
<1> DEFINE old == setEnvelope(ev)
           new == recoverMetadataFromFilePath(old)
           file == <<"file", "namespace">>
<1>1. /\ Paths(old) /\ Internal(file) \in DOMAIN old /\ old[Internal(file)] = ev[file]
      /\ \A q \in DOMAIN ev : Internal(q) \in DOMAIN old /\ old[Internal(q)] = ev[q]
      /\ \A q \in DOMAIN old : \E s \in DOMAIN ev : q = Internal(s)
  BY Enveloped
<1>2. /\ IsPath(NamespaceName) /\ IsPath(file) /\ IsPath(<<"file">>) /\ IsPath(<<"kubernetes", "pod_name">>)
  BY DEF NamespaceName, IsPath
<1>3. IsPath(Internal(NamespaceName)) /\ IsPath(Internal(<<"kubernetes", "pod_name">>))
  BY <1>2, InternalParts
<1>4. Has(old, Internal(<<"file">>))
  <2>1. IsPrefix(Internal(<<"file">>), Internal(file))
    <3>1. Internal(<<"file">>) = <<"_internal", "file">>
      BY WordsJoin, Zenon DEF Internal
    <3>2. Internal(file) = <<"_internal", "file", "namespace">>
      BY WordsPrepend, Zenon DEF Internal
    <3> QED
      BY <3>1, <3>2 DEF IsPrefix
  <2> QED
    BY <1>1, <2>1 DEF Has
<1>5. ~IsPrefix(Internal(<<"kubernetes", "pod_name">>), Internal(NamespaceName))
  <2>1. ~IsPrefix(<<"kubernetes", "pod_name">>, NamespaceName)
    BY DEF IsPrefix, NamespaceName
  <2> QED
    BY <1>2, <2>1, InternalPrefix
<1>6. CASE Has(old, Internal(NamespaceName))
  <2>1. new = old
    BY <1>6 DEF recoverMetadataFromFilePath, NamespaceName
  <2>2. PICK q \in DOMAIN old : IsPrefix(Internal(NamespaceName), q)
    BY <1>6 DEF Has
  <2>3. PICK s \in DOMAIN ev : q = Internal(s)
    BY <1>1, <2>2
  <2>4. Has(ev, NamespaceName)
    BY <1>2, <2>2, <2>3, InternalPrefix DEF Has, Paths
  <2>5. Value(old, Internal(NamespaceName)) = Value(ev, NamespaceName)
    <3>1. CASE NamespaceName \in DOMAIN ev
      BY <1>1, <3>1 DEF Value
    <3>2. CASE NamespaceName \notin DOMAIN ev
      <4>1. Internal(NamespaceName) \notin DOMAIN old
        BY <1>1, <1>2, <3>2, InternalInjective DEF Paths
      <4> QED
        BY <3>2, <4>1 DEF Value
    <3> QED
      BY <3>1, <3>2
  <2> QED
    BY <1>1, <2>1, <2>4, <2>5
<1>7. CASE ~Has(old, Internal(NamespaceName))
  <2> DEFINE one == Assign(old, Internal(NamespaceName), old[Internal(file)])
  <2>1. new = Assign(one, Internal(<<"kubernetes", "pod_name">>), old[Internal(<<"file", "pod">>)])
    BY <1>4, <1>7 DEF recoverMetadataFromFilePath, NamespaceName
  <2>2. Paths(one) /\ Internal(NamespaceName) \in DOMAIN one /\ one[Internal(NamespaceName)] = ev[file]
    BY <1>1, <1>3, AssignedAt
  <2> HIDE DEF one, new
  <2>3. Paths(new) /\ Leaves(new, one, Internal(NamespaceName))
    BY <1>3, <1>5, <2>1, <2>2, AssignedAt
  <2>4. Value(new, Internal(NamespaceName)) = ev[file]
    BY <2>2, <2>3 DEF Leaves, Value
  <2> QED
    BY <2>3, <2>4 DEF new
<1> QED
  BY <1>6, <1>7

-----------------------------------------------------------------------------
(* What a program writes *)

\* A path that begins with one of the roots, or under ._internal with one of the
\* parts.
Under(q, roots, parts) ==
  q[1] \in roots \/ (q[1] = "_internal" /\ Len(q) >= 2 /\ q[2] \in parts)

LEMMA BelowUnder ==
  ASSUME NEW roots, NEW parts, NEW p, IsPath(p), p # << >>, Under(p, roots, parts),
         NEW q, IsPath(q), IsPrefix(p, q)
  PROVE  Under(q, roots, parts)
<1>1. Len(p) \in Nat /\ Len(q) \in Nat /\ Len(p) >= 1
  BY DEF IsPath
<1>2. Len(p) <= Len(q) /\ \A i \in 1..Len(p) : p[i] = q[i]
  BY PrefixElements
<1>3. q[1] = p[1] /\ (Len(p) >= 2 => Len(q) >= 2 /\ q[2] = p[2])
  BY <1>1, <1>2
<1> QED
  BY <1>3 DEF Under

\* A step of a program that writes nothing but such paths.
Writes(new, old, roots, parts) ==
  Paths(old) => /\ Paths(new)
                /\ \A q : IsPath(q) /\ ~Under(q, roots, parts) => Leaves(new, old, q)

LEMMA WritesNothing ==
  ASSUME NEW ev, NEW roots, NEW parts
  PROVE  Writes(ev, ev, roots, parts)
BY DEF Writes, Leaves

LEMMA WritesThen ==
  ASSUME NEW roots, NEW parts, NEW a, NEW b, NEW c, Writes(c, b, roots, parts), Writes(b, a, roots, parts)
  PROVE  Writes(c, a, roots, parts)
BY DEF Writes, Leaves

LEMMA WritesMore ==
  ASSUME NEW roots, NEW parts, NEW r, NEW s, r \subseteq roots, s \subseteq parts,
         NEW a, NEW b, Writes(b, a, r, s)
  PROVE  Writes(b, a, roots, parts)
BY DEF Writes, Under

LEMMA PutWritesUnder ==
  ASSUME NEW roots, NEW parts, NEW ev, NEW path, IsPath(path), path # << >>, Under(path, roots, parts),
         NEW object, Paths(object)
  PROVE  Writes(Put(ev, path, object), ev, roots, parts)
<1>1. \A s \in DOMAIN object : IsPath(s)
  BY DEF Paths
<1>2. SUFFICES ASSUME Paths(ev)
               PROVE  /\ Paths(Put(ev, path, object))
                      /\ \A q : IsPath(q) /\ ~Under(q, roots, parts) => Leaves(Put(ev, path, object), ev, q)
  BY DEF Writes
<1>3. Paths(Put(ev, path, object))
  BY <1>1, <1>2, PutWrites
<1>4. ASSUME NEW q, IsPath(q), ~Under(q, roots, parts)
      PROVE  Leaves(Put(ev, path, object), ev, q)
  <2>1. ~IsPrefix(path, q)
    BY <1>4, BelowUnder
  <2> QED
    BY <1>1, <2>1, PutLeaves DEF Leaves
<1> QED
  BY <1>3, <1>4

LEMMA AssignWritesUnder ==
  ASSUME NEW roots, NEW parts, NEW ev, NEW path, IsPath(path), path # << >>, Under(path, roots, parts), NEW value
  PROVE  Writes(Assign(ev, path, value), ev, roots, parts)
BY LeafIsPath, PutWritesUnder DEF Assign, Paths

LEMMA DelWritesUnder ==
  ASSUME NEW roots, NEW parts, NEW ev, NEW path, IsPath(path), path # << >>, Under(path, roots, parts)
  PROVE  Writes(Del(ev, path), ev, roots, parts)
<1>1. ASSUME NEW q, IsPath(q), ~Under(q, roots, parts)
      PROVE  Leaves(Del(ev, path), ev, q)
  <2>1. ~IsPrefix(path, q)
    BY <1>1, BelowUnder
  <2> QED
    BY <2>1, DelLeaves
<1>2. Paths(ev) => Paths(Del(ev, path))
  BY DEF Paths, Del, Restrict
<1> QED
  BY <1>1, <1>2 DEF Writes

LEMMA CopyWritesUnder ==
  ASSUME NEW roots, NEW parts, NEW ev, NEW to, IsPath(to), to # << >>, Under(to, roots, parts),
         NEW from, IsPath(from)
  PROVE  Writes(Copy(ev, to, from), ev, roots, parts) /\ Writes(CopyIfExists(ev, to, from), ev, roots, parts)
<1>1. ASSUME Paths(ev)
      PROVE  Writes(Copy(ev, to, from), ev, roots, parts)
  <2> DEFINE object == IF Has(ev, from) THEN Object(ev, from) ELSE Leaf(Null)
  <2>1. Paths(object)
    BY <1>1, ObjectReads, LeafIsPath DEF Paths
  <2>2. Copy(ev, to, from) = Put(ev, to, object)
    BY DEF Copy
  <2> HIDE DEF object
  <2> QED
    BY <2>1, <2>2, PutWritesUnder
<1>2. Writes(Copy(ev, to, from), ev, roots, parts)
  BY <1>1 DEF Writes
<1> QED
  BY <1>2, WritesNothing DEF CopyIfExists

LEMMA MoveWritesUnder ==
  ASSUME NEW roots, NEW parts, NEW ev, NEW to, IsPath(to), to # << >>, Under(to, roots, parts),
         NEW from, IsPath(from), from # << >>, Under(from, roots, parts)
  PROVE  Writes(Move(ev, to, from), ev, roots, parts) /\ Writes(MoveIfExists(ev, to, from), ev, roots, parts)
<1>1. Writes(Copy(ev, to, from), ev, roots, parts)
  BY CopyWritesUnder
<1>2. Writes(Del(Copy(ev, to, from), from), Copy(ev, to, from), roots, parts)
  BY DelWritesUnder
<1>3. Writes(Move(ev, to, from), ev, roots, parts)
  BY <1>1, <1>2, WritesThen DEF Move
<1> QED
  BY <1>3, WritesNothing DEF MoveIfExists

\* A copied value.
LEMMA CopiedAt ==
  ASSUME NEW ev, Paths(ev), NEW to, IsPath(to), NEW from, IsPath(from), from \in DOMAIN ev
  PROVE  to \in DOMAIN Copy(ev, to, from) /\ Copy(ev, to, from)[to] = ev[from]
<1> DEFINE object == Object(ev, from)
<1>1. Paths(object) /\ << >> \in DOMAIN object /\ object[<< >>] = ev[from]
  BY ObjectReads
<1>2. Has(ev, from)
  <2>1. IsPrefix(from, from)
    BY DEF IsPrefix
  <2> QED
    BY <2>1 DEF Has
<1>3. Copy(ev, to, from) = Put(ev, to, object)
  BY <1>2 DEF Copy
<1> HIDE DEF object
<1> QED
  BY <1>1, <1>3, PutAt

LEMMA MovedAt ==
  ASSUME NEW ev, Paths(ev), NEW to, IsPath(to), NEW from, IsPath(from), from \in DOMAIN ev, ~IsPrefix(from, to)
  PROVE  to \in DOMAIN Move(ev, to, from) /\ Move(ev, to, from)[to] = ev[from]
BY CopiedAt, DelLeaves DEF Move, Leaves

LEMMA RootUnder ==
  ASSUME NEW roots, NEW parts, NEW a \in roots, NEW b
  PROVE  /\ IsPath(<<a>>) /\ <<a>> # << >> /\ Under(<<a>>, roots, parts)
         /\ IsPath(<<a, b>>) /\ <<a, b>> # << >> /\ Under(<<a, b>>, roots, parts)
<1>1. /\ IsPath(<<a>>) /\ <<a>> # << >> /\ <<a>>[1] = a
      /\ IsPath(<<a, b>>) /\ <<a, b>> # << >> /\ <<a, b>>[1] = a
  BY WordsArePaths, Zenon
<1> QED
  BY <1>1 DEF Under

LEMMA InternalHeads ==
  ASSUME NEW p, IsPath(p), p # << >>
  PROVE  /\ IsPath(Internal(p)) /\ Internal(p) # << >> /\ Len(Internal(p)) >= 2
         /\ Internal(p)[1] = "_internal" /\ Internal(p)[2] = p[1]
<1> DEFINE root == <<"_internal">>
<1>1. IsPath(root) /\ Len(root) = 1 /\ root[1] = "_internal"
  BY DEF IsPath
<1>2. Internal(p) = root \o p
  BY DEF Internal
<1>3. Len(p) \in Nat /\ Len(p) >= 1
  BY DEF IsPath
<1> HIDE DEF root
<1>4. Internal(p)[1] = "_internal"
  <2>1. \A i \in 1..Len(root) : (root \o p)[i] = root[i]
    BY <1>1, JoinedPaths
  <2> QED
    BY <1>1, <1>2, <2>1
<1>5. IsPath(Internal(p)) /\ Len(Internal(p)) = Len(p) + 1 /\ Internal(p)[1 + 1] = p[1]
  BY <1>3, InternalParts
<1> QED
  BY <1>3, <1>4, <1>5

LEMMA InternalUnder ==
  ASSUME NEW roots, NEW parts, NEW p, IsPath(p), p # << >>
  PROVE  /\ p[1] \in parts => Under(Internal(p), roots, parts)
         /\ "_internal" \notin roots /\ p[1] \notin parts => ~Under(Internal(p), roots, parts)
BY InternalHeads DEF Under

LEMMA PartUnder ==
  ASSUME NEW roots, NEW parts, NEW a \in parts, NEW b, NEW c
  PROVE  /\ IsPath(Internal(<<a>>)) /\ Internal(<<a>>) # << >> /\ Under(Internal(<<a>>), roots, parts)
         /\ IsPath(Internal(<<a, b>>)) /\ Internal(<<a, b>>) # << >> /\ Under(Internal(<<a, b>>), roots, parts)
         /\ IsPath(Internal(<<a, b, c>>)) /\ Internal(<<a, b, c>>) # << >>
         /\ Under(Internal(<<a, b, c>>), roots, parts)
<1>1. /\ IsPath(<<a>>) /\ <<a>> # << >> /\ <<a>>[1] = a
      /\ IsPath(<<a, b>>) /\ <<a, b>> # << >> /\ <<a, b>>[1] = a
      /\ IsPath(<<a, b, c>>) /\ <<a, b, c>> # << >> /\ <<a, b, c>>[1] = a
  BY WordsArePaths, Zenon
<1> DEFINE one == <<a>>
           two == <<a, b>>
           three == <<a, b, c>>
<1>2. \A p \in {one, two, three} : IsPath(p) /\ p # << >> /\ p[1] = a
  BY <1>1
<1> HIDE DEF one, two, three
<1>3. \A p \in {one, two, three} : IsPath(Internal(p)) /\ Internal(p) # << >> /\ Under(Internal(p), roots, parts)
  BY <1>2, InternalHeads, InternalUnder
<1>4. /\ IsPath(Internal(one)) /\ Internal(one) # << >> /\ Under(Internal(one), roots, parts)
      /\ IsPath(Internal(two)) /\ Internal(two) # << >> /\ Under(Internal(two), roots, parts)
      /\ IsPath(Internal(three)) /\ Internal(three) # << >> /\ Under(Internal(three), roots, parts)
  BY <1>3
<1> QED
  BY <1>4 DEF one, two, three

\* What a step leaves at a field of the root and at one under ._internal.
LEMMA FieldsLeft ==
  ASSUME NEW roots, NEW parts, NEW new, NEW old, Paths(old), Writes(new, old, roots, parts), NEW a
  PROVE  /\ a \notin roots \cup {"_internal"} => Leaves(new, old, <<a>>)
         /\ "_internal" \notin roots /\ a \notin parts => Leaves(new, old, Internal(<<a>>))
<1> DEFINE p == <<a>>
<1>1. IsPath(p) /\ p # << >> /\ p[1] = a
  BY WordsArePaths
<1> HIDE DEF p
<1>2. a \notin roots \cup {"_internal"} => ~Under(p, roots, parts)
  BY <1>1 DEF Under
<1>3. "_internal" \notin roots /\ a \notin parts => ~Under(Internal(p), roots, parts)
  BY <1>1, InternalUnder
<1>4. IsPath(Internal(p))
  BY <1>1, InternalHeads
<1>5. /\ a \notin roots \cup {"_internal"} => Leaves(new, old, p)
      /\ "_internal" \notin roots /\ a \notin parts => Leaves(new, old, Internal(p))
  BY <1>1, <1>2, <1>3, <1>4 DEF Writes
<1> QED
  BY <1>5 DEF p

\* The parsed form of a message.
Structured == Internal(<<"structured">>)

LEMMA StructuredHeads ==
  /\ IsPath(Structured) /\ Structured # << >> /\ Len(Structured) = 2
  /\ Structured[1] = "_internal" /\ Structured[2] = "structured"
<1> DEFINE p == <<"structured">>
<1>1. IsPath(p) /\ p # << >> /\ p[1] = "structured" /\ Len(p) = 1
  BY DEF IsPath
<1> HIDE DEF p
<1>2. /\ IsPath(Internal(p)) /\ Internal(p) # << >> /\ Len(Internal(p)) = 2
      /\ Internal(p)[1] = "_internal" /\ Internal(p)[2] = "structured"
  <2>1. IsPath(Internal(p)) /\ Internal(p) # << >> /\ Internal(p)[1] = "_internal" /\ Internal(p)[2] = p[1]
    BY <1>1, InternalHeads, Zenon
  <2>2. Len(Internal(p)) = Len(p) + 1
    BY <1>1, InternalParts, Zenon
  <2> QED
    BY <1>1, <2>1, <2>2
<1> QED
  BY <1>2 DEF p, Structured

LEMMA StructuredBelow ==
  ASSUME NEW q, IsPath(q), IsPrefix(Structured, q)
  PROVE  q[1] = "_internal" /\ Len(q) \in Nat /\ Len(q) >= 2 /\ q[2] = "structured"
<1>1. Len(Structured) <= Len(q) /\ \A i \in 1..Len(Structured) : Structured[i] = q[i]
  BY StructuredHeads, PrefixElements
<1>2. Len(q) \in Nat
  BY DEF IsPath
<1> QED
  BY <1>1, <1>2, StructuredHeads

\* It holds none of the collector's fields.
PlainBelow(ev) ==
  \A q \in DOMAIN ev : IsPrefix(Structured, q) => Len(q) >= 3 /\ q[3] \notin CollectorFields

LEMMA StructuredLeft ==
  ASSUME NEW roots, NEW parts, NEW new, NEW old, Paths(old), Writes(new, old, roots, parts),
         "_internal" \notin roots, "structured" \notin parts
  PROVE  /\ Has(new, Structured) <=> Has(old, Structured)
         /\ PlainBelow(old) => PlainBelow(new)
<1>1. \A q : IsPath(q) /\ IsPrefix(Structured, q) => ~Under(q, roots, parts)
  BY StructuredBelow DEF Under
<1>2. Paths(new) /\ \A q : IsPath(q) /\ IsPrefix(Structured, q) => Leaves(new, old, q)
  BY <1>1 DEF Writes
<1>3. \A q : IsPrefix(Structured, q) => (q \in DOMAIN new <=> q \in DOMAIN old)
  BY <1>2 DEF Leaves, Paths
<1> QED
  BY <1>3 DEF Has, PlainBelow

\* Its source and type, as the programs know them.
Named(ev, type, source) ==
  /\ Paths(ev)
  /\ Internal(<<"log_type">>) \in DOMAIN ev /\ ev[Internal(<<"log_type">>)] = type
  /\ Internal(<<"log_source">>) \in DOMAIN ev /\ ev[Internal(<<"log_source">>)] = source

\* ... and as they are forwarded.
NamedOnRoot(ev, type, source) ==
  /\ <<"log_type">> \in DOMAIN ev /\ ev[<<"log_type">>] = type
  /\ <<"log_source">> \in DOMAIN ev /\ ev[<<"log_source">>] = source

HasMessage(ev) == Internal(<<"message">>) \in DOMAIN ev /\ ev[Internal(<<"message">>)] # Null

\* The message is forwarded, unless its parsed form is.
Told(ev) ==
  Has(ev, Structured) \/ (HasMessage(ev) /\ <<"message">> \in DOMAIN ev
                            /\ ev[<<"message">>] = ev[Internal(<<"message">>)])

LEMMA NamesLeft ==
  ASSUME NEW roots, NEW parts, NEW new, NEW old, Paths(old), Writes(new, old, roots, parts), "_internal" \notin roots,
         NEW type, NEW source
  PROVE  /\ Paths(new)
         /\ {"log_type", "log_source"} \cap parts = {} /\ Named(old, type, source) => Named(new, type, source)
         /\ {"log_type", "log_source"} \cap roots = {} /\ NamedOnRoot(old, type, source) => NamedOnRoot(new, type, source)
         /\ "message" \notin parts /\ HasMessage(old) => HasMessage(new)
         /\ "message" \notin parts \cup roots /\ "structured" \notin parts /\ Told(old) => Told(new)
<1>1. Paths(new)
  BY DEF Writes
<1>2. \A a : /\ a \notin roots \cup {"_internal"} => Leaves(new, old, <<a>>)
             /\ a \notin parts => Leaves(new, old, Internal(<<a>>))
  BY FieldsLeft
<1>3. /\ "log_type" \notin roots => Leaves(new, old, <<"log_type">>)
      /\ "log_source" \notin roots => Leaves(new, old, <<"log_source">>)
      /\ "message" \notin roots => Leaves(new, old, <<"message">>)
      /\ "log_type" \notin parts => Leaves(new, old, Internal(<<"log_type">>))
      /\ "log_source" \notin parts => Leaves(new, old, Internal(<<"log_source">>))
      /\ "message" \notin parts => Leaves(new, old, Internal(<<"message">>))
  BY <1>2
<1>4. "structured" \notin parts /\ Has(old, Structured) => Has(new, Structured)
  BY StructuredLeft
<1>5. "message" \notin parts /\ HasMessage(old) => HasMessage(new)
  BY <1>3 DEF Leaves, HasMessage
<1>6. "message" \notin parts \cup roots /\ "structured" \notin parts /\ Told(old) => Told(new)
  BY <1>3, <1>4, <1>5 DEF Leaves, Told, HasMessage
<1>7. {"log_type", "log_source"} \cap parts = {} /\ Named(old, type, source) => Named(new, type, source)
  BY <1>1, <1>3 DEF Leaves, Named
<1>8. {"log_type", "log_source"} \cap roots = {} /\ NamedOnRoot(old, type, source) => NamedOnRoot(new, type, source)
  BY <1>3 DEF Leaves, NamedOnRoot
<1> QED
  BY <1>1, <1>5, <1>6, <1>7, <1>8

-----------------------------------------------------------------------------
(* What viaq starts from *)

\* The source and the type of a record go together.
Origin(type, source) ==
  \/ source = "container" /\ type \in {"application", "infrastructure"}
  \/ source \in {"auditd", "ovn", "kubeAPI", "openshiftAPI"} /\ type = "audit"
  \/ source = "node" /\ type = "infrastructure"
  \/ source = "syslog" /\ type = "receiver"

\* An event of the event router says something.
RouterTells(ev) ==
  \A o \in Parsed(ev[Internal(<<"message">>)]) : Has(o, <<"event">>) => Value(o, <<"event", "message">>) # Null

\* A record as its input, and a parse filter, pass it on.
Ready(ev, type, source) ==
  /\ Origin(type, source) /\ Named(ev, type, source)
  /\ source \in {"kubeAPI", "openshiftAPI"} => Has(ev, Structured)
  /\ source \notin {"kubeAPI", "openshiftAPI"} => HasMessage(ev)
  /\ source = "container" => RouterTells(ev)
  /\ type = "audit" \/ source = "syslog" => PlainBelow(ev)

-----------------------------------------------------------------------------
(* The programs that viaq consists of *)

LEMMA InternalPaths ==
  ASSUME NEW a, NEW b
  PROVE  IsPath(Internal(<<a>>)) /\ IsPath(Internal(<<a, b>>))
<1>1. Under(Internal(<<a>>), {}, {a}) /\ IsPath(Internal(<<a>>)) /\ IsPath(Internal(<<a, b>>))
  BY PartUnder
<1> QED
  BY <1>1

\* A copy to a field of the root.
LEMMA RootCopy ==
  ASSUME NEW ev, NEW a, NEW from, IsPath(from)
  PROVE  Writes(Copy(ev, <<a>>, from), ev, {a}, {}) /\ Writes(CopyIfExists(ev, <<a>>, from), ev, {a}, {})
<1> DEFINE to == <<a>>
<1>1. IsPath(to) /\ to # << >> /\ Under(to, {a}, {})
  BY RootUnder
<1> HIDE DEF to
<1>2. Writes(Copy(ev, to, from), ev, {a}, {}) /\ Writes(CopyIfExists(ev, to, from), ev, {a}, {})
  BY <1>1, CopyWritesUnder
<1> QED
  BY <1>2 DEF to

LEMMA RootAssign ==
  ASSUME NEW ev, NEW a, NEW value
  PROVE  Writes(Assign(ev, <<a>>, value), ev, {a}, {})
<1> DEFINE to == <<a>>
<1>1. IsPath(to) /\ to # << >> /\ Under(to, {a}, {})
  BY RootUnder
<1> HIDE DEF to
<1>2. Writes(Assign(ev, to, value), ev, {a}, {})
  BY <1>1, AssignWritesUnder
<1> QED
  BY <1>2 DEF to

\* An assignment under ._internal.
LEMMA PartAssign ==
  ASSUME NEW ev, NEW a, NEW value
  PROVE  Writes(Assign(ev, Internal(<<a>>), value), ev, {}, {a})
<1> DEFINE to == Internal(<<a>>)
<1>1. IsPath(to) /\ to # << >> /\ Under(to, {}, {a})
  BY PartUnder
<1> HIDE DEF to
<1>2. Writes(Assign(ev, to, value), ev, {}, {a})
  BY <1>1, AssignWritesUnder
<1> QED
  BY <1>2 DEF to

LEMMA WordsBelow ==
  \A a, b, c : Internal(<<a, b, c>>) = Internal(<<a, b>>) \o <<c>>
<1> TAKE a, b, c
<1> DEFINE S == {"_internal", a, b, c}
           two == <<a, b>>
           three == <<a, b, c>>
           final == <<c>>
           root == <<"_internal">>
<1>1. root \in Seq(S) /\ two \in Seq(S) /\ final \in Seq(S)
  OBVIOUS
<1>2. two \o final = three
  BY WordsJoin, Zenon
<1>3. \A p : Internal(p) = root \o p
  BY DEF Internal
<1> HIDE DEF S, two, three, final, root
<1>4. root \o (two \o final) = (root \o two) \o final
  BY <1>1, ConcatAssociative
<1>5. Internal(three) = Internal(two) \o final
  BY <1>2, <1>3, <1>4
<1> QED
  BY <1>5 DEF two, three, final

LEMMA WordLengths ==
  ASSUME NEW a, NEW b, NEW c
  PROVE  Len(Internal(<<a>>)) = 2 /\ Len(Internal(<<a, b, c>>)) = 4
<1> DEFINE one == <<a>>
           three == <<a, b, c>>
<1>1. IsPath(one) /\ IsPath(three) /\ Len(one) = 1 /\ Len(three) = 3
  BY DEF IsPath
<1> HIDE DEF one, three
<1>2. Len(Internal(one)) = Len(one) + 1 /\ Len(Internal(three)) = Len(three) + 1
  BY <1>1, InternalParts, Zenon
<1>3. Len(Internal(one)) = 2 /\ Len(Internal(three)) = 4
  BY <1>1, <1>2
<1> QED
  BY <1>3 DEF one, three

LEMMA MessageWrites ==
  ASSUME NEW ev
  PROVE  Writes(SetMessageOnRoot(ev), ev, {"message"}, {})
<1>1. IsPath(Internal(<<"message">>))
  BY InternalPaths
<1>2. Writes(Copy(ev, <<"message">>, Internal(<<"message">>)), ev, {"message"}, {})
  BY <1>1, RootCopy
<1>3. Writes(ev, ev, {"message"}, {})
  BY WritesNothing
<1> QED
  BY <1>2, <1>3 DEF SetMessageOnRoot

\* The message, copied to the root.
LEMMA MessageCopied ==
  ASSUME NEW ev, Paths(ev), HasMessage(ev)
  PROVE  Told(Copy(ev, <<"message">>, Internal(<<"message">>)))
<1> DEFINE to == <<"message">>
           from == Internal(to)
           copied == Copy(ev, to, from)
<1>1. IsPath(to) /\ IsPath(from)
  BY InternalPaths, WordsArePaths
<1>2. Writes(copied, ev, {"message"}, {})
  BY <1>1, RootCopy
<1>3. from \in DOMAIN ev /\ ev[from] # Null
  BY DEF HasMessage
<1> HIDE DEF to, from
<1>4. to \in DOMAIN copied /\ copied[to] = ev[from]
  BY <1>1, <1>3, CopiedAt
<1> HIDE DEF copied
<1> USE DEF to, from
<1>5. Leaves(copied, ev, Internal(<<"message">>))
  BY <1>2, FieldsLeft
<1>6. Told(copied)
  BY <1>3, <1>4, <1>5 DEF Told, HasMessage, Leaves
<1> QED
  BY <1>6 DEF copied

LEMMA MessageTold ==
  ASSUME NEW ev, Paths(ev), HasMessage(ev)
  PROVE  Told(SetMessageOnRoot(ev))
BY MessageCopied DEF SetMessageOnRoot, Structured, Told

LEMMA KubernetesWrites ==
  ASSUME NEW ev, Paths(ev)
  PROVE  Writes(SetKubernetesOnRoot(ev), ev, {"kubernetes"}, {})
<1> DEFINE dedot(e, path) == IF Has(ev, Internal(path)) THEN Put(e, path, VRLDedotLabels(ev, Internal(path))) ELSE e
           copied == Copy(ev, <<"kubernetes">>, Internal(<<"kubernetes">>))
           one == dedot(copied, <<"kubernetes", "labels">>)
           two == dedot(one, <<"kubernetes", "namespace_labels">>)
           Written(new, old) == Writes(new, old, {"kubernetes"}, {})
<1>1. Written(copied, ev)
  BY InternalPaths, RootCopy
<1>2. ASSUME NEW path
      PROVE  Paths(VRLDedotLabels(ev, path))
  <2>1. \A label : IsPath(<<label>>)
    BY WordsArePaths, Zenon
  <2> QED
    BY <2>1 DEF VRLDedotLabels, Paths
<1>3. \A path \in LabelMaps : IsPath(path) /\ path # << >> /\ Under(path, {"kubernetes"}, {})
  BY RootUnder DEF LabelMaps
<1>4. ASSUME NEW e, NEW path \in LabelMaps
      PROVE  Written(dedot(e, path), e)
  BY <1>2, <1>3, PutWritesUnder, WritesNothing
<1>5. <<"kubernetes", "labels">> \in LabelMaps /\ <<"kubernetes", "namespace_labels">> \in LabelMaps
  BY DEF LabelMaps
<1>6. SetKubernetesOnRoot(ev) = two
  BY DEF SetKubernetesOnRoot
<1> HIDE DEF copied, dedot
<1>7. Written(one, copied) /\ Written(two, one)
  BY <1>4, <1>5
<1> HIDE DEF one, two
<1> QED
  BY <1>1, <1>6, <1>7, WritesThen

\* What a record of the event router becomes keeps its message, or has that of the
\* event.
LEMMA RouterTold ==
  ASSUME NEW ev, Paths(ev)
  PROVE  /\ Writes(HandleEventRouterLog(ev), ev, {}, {"kubernetes", "message", "timestamp"})
         /\ HasMessage(ev) /\ RouterTells(ev) => HasMessage(HandleEventRouterLog(ev))
<1> DEFINE parsed == Parsed(Value(ev, Internal(<<"message">>)))
           line == CHOOSE o \in parsed : TRUE
           object == Object(line, <<"event">>)
           at == Internal(<<"kubernetes", "event">>)
           to == Internal(<<"message">>)
           from == Internal(<<"kubernetes", "event", "message">>)
           written == Put(ev, at, object)
           told == Move(written, to, from)
           timed == Assign(told, Internal(<<"timestamp">>), EventTime(told))
           parts == {"kubernetes", "message", "timestamp"}
<1>1. CASE HandleEventRouterLog(ev) = ev
  BY <1>1, WritesNothing
<1>2. CASE parsed # {} /\ (\E o \in parsed : Has(o, <<"event">>)) /\ HandleEventRouterLog(ev) = timed
  <2>1. line \in parsed /\ Paths(line)
    <3>1. line \in parsed
      BY <1>2
    <3> QED
      BY <3>1, ParsedAssumption DEF Parsed, Paths
  <2>2. IsPath(<<"event">>) /\ IsPath(<<"event", "message">>)
    BY DEF IsPath
  <2>3. Paths(object)
    BY <2>1, <2>2, ObjectReads
  <2>4. /\ IsPath(at) /\ at # << >> /\ Under(at, {}, parts)
        /\ IsPath(from) /\ from # << >> /\ Under(from, {}, parts)
        /\ IsPath(to) /\ to # << >> /\ Under(to, {}, parts)
    BY PartUnder
  <2>5. IsPath(Internal(<<"timestamp">>)) /\ Internal(<<"timestamp">>) # << >> /\ Under(Internal(<<"timestamp">>), {}, parts)
    BY PartUnder
  <2> HIDE DEF object, at, from, to, parts
  <2>6. Writes(written, ev, {}, parts) /\ Paths(written)
    BY <2>3, <2>4, PutWritesUnder DEF Writes
  <2> HIDE DEF written
  <2>7. Writes(told, written, {}, parts) /\ Paths(told)
    BY <2>4, <2>6, MoveWritesUnder DEF Writes
  <2> HIDE DEF told
  <2>8. Writes(timed, told, {}, parts)
    BY <2>5, AssignWritesUnder
  <2>9. Writes(timed, ev, {}, parts)
    BY <2>6, <2>7, <2>8, WritesThen
  <2>10. ASSUME HasMessage(ev), RouterTells(ev)
         PROVE  HasMessage(timed)
    <3>1. Has(line, <<"event">>) /\ parsed = Parsed(ev[Internal(<<"message">>)])
      BY <1>2, <2>1, <2>10, ParsedAssumption DEF Parsed, HasMessage, Value
    <3>2. <<"event", "message">> \in DOMAIN line /\ line[<<"event", "message">>] # Null
      BY <2>1, <2>10, <3>1 DEF RouterTells, Value
    <3>3. <<"message">> \in DOMAIN object /\ object[<<"message">>] # Null
      <4>1. <<"event">> \o <<"message">> = <<"event", "message">>
        BY WordsJoin, Zenon
      <4> DEFINE p == <<"event">>
                 s == <<"message">>
      <4>2. IsPath(p) /\ IsPath(s)
        BY DEF IsPath
      <4> HIDE DEF p, s
      <4>3. IsPrefix(p, p \o s) /\ SubSeq(p \o s, Len(p) + 1, Len(p \o s)) = s
        BY <4>2, JoinedPaths, PrefixOfConcat
      <4>4. p \o s \in DOMAIN line => s \in DOMAIN Object(line, p) /\ Object(line, p)[s] = line[p \o s]
        BY <4>3 DEF Object
      <4> QED
        BY <3>2, <4>1, <4>4 DEF object, p, s
    <3>4. from \in DOMAIN written /\ written[from] # Null
      <4>1. from = at \o <<"message">>
        <5>1. Internal(<<"kubernetes", "event", "message">>) = Internal(<<"kubernetes", "event">>) \o <<"message">>
          BY WordsBelow, Zenon
        <5> QED
          BY <5>1 DEF from, at
      <4>2. \A s \in DOMAIN object : IsPath(s)
        BY <2>3 DEF Paths
      <4> QED
        BY <2>4, <3>3, <4>1, <4>2, PutWrites DEF written
    <3>5. ~IsPrefix(from, to)
      <4>1. Len(from) = 4 /\ Len(to) = 2
        BY WordLengths, Zenon DEF from, to
      <4> QED
        BY <4>1 DEF IsPrefix
    <3>6. to \in DOMAIN told /\ told[to] # Null
      BY <2>4, <2>6, <3>4, <3>5, MovedAt DEF told
    <3>7. Leaves(timed, told, Internal(<<"message">>))
      <4>1. Writes(timed, told, {}, {"timestamp"})
        BY PartAssign
      <4> HIDE DEF timed
      <4> QED
        BY <2>7, <4>1, FieldsLeft
    <3> HIDE DEF timed
    <3> QED
      BY <3>6, <3>7 DEF to, HasMessage, Leaves
  <2> QED
    BY <1>2, <2>9, <2>10 DEF parts
<1> QED
  BY <1>1, <1>2 DEF HandleEventRouterLog

\* The beginning of viaq: the names are copied to the root.
LEMMA RootNamed ==
  ASSUME NEW ev, NEW type, NEW source, Named(ev, type, source)
  PROVE  LET named == Copy(Copy(CopyIfExists(ev, <<"hostname">>, Internal(<<"hostname">>)),
                                <<"log_type">>, Internal(<<"log_type">>)),
                           <<"log_source">>, Internal(<<"log_source">>))
             owned == CopyIfExists(named, <<"openshift">>, Internal(<<"openshift">>))
         IN  /\ Writes(owned, ev, {"hostname", "log_type", "log_source", "openshift"}, {})
             /\ Named(owned, type, source) /\ NamedOnRoot(owned, type, source)
<1> DEFINE hosted == CopyIfExists(ev, <<"hostname">>, Internal(<<"hostname">>))
           typed == Copy(hosted, <<"log_type">>, Internal(<<"log_type">>))
           named == Copy(typed, <<"log_source">>, Internal(<<"log_source">>))
           owned == CopyIfExists(named, <<"openshift">>, Internal(<<"openshift">>))
           roots == {"hostname", "log_type", "log_source", "openshift"}
<1>1. \A a : IsPath(<<a>>) /\ IsPath(Internal(<<a>>))
  BY InternalPaths, WordsArePaths, Zenon
<1>2. /\ Writes(hosted, ev, {"hostname"}, {}) /\ Writes(typed, hosted, {"log_type"}, {})
      /\ Writes(named, typed, {"log_source"}, {}) /\ Writes(owned, named, {"openshift"}, {})
  BY <1>1, RootCopy
<1>3. Paths(ev)
  BY DEF Named
<1> HIDE DEF hosted
<1>4. Named(hosted, type, source) /\ Paths(hosted)
  BY <1>2, <1>3, NamesLeft
<1>5. <<"log_type">> \in DOMAIN typed /\ typed[<<"log_type">>] = type
  <2> DEFINE to == <<"log_type">>
             from == Internal(<<"log_type">>)
  <2>1. from \in DOMAIN hosted /\ hosted[from] = type /\ IsPath(to) /\ IsPath(from)
    BY <1>1, <1>4 DEF Named
  <2> HIDE DEF to, from
  <2>2. to \in DOMAIN Copy(hosted, to, from) /\ Copy(hosted, to, from)[to] = type
    BY <1>4, <2>1, CopiedAt
  <2> QED
    BY <2>2 DEF to, from
<1> HIDE DEF typed
<1>6. Named(typed, type, source) /\ Paths(typed)
  BY <1>2, <1>4, NamesLeft
<1>7. <<"log_source">> \in DOMAIN named /\ named[<<"log_source">>] = source
  <2> DEFINE to == <<"log_source">>
             from == Internal(<<"log_source">>)
  <2>1. from \in DOMAIN typed /\ typed[from] = source /\ IsPath(to) /\ IsPath(from)
    BY <1>1, <1>6 DEF Named
  <2> HIDE DEF to, from
  <2>2. to \in DOMAIN Copy(typed, to, from) /\ Copy(typed, to, from)[to] = source
    BY <1>6, <2>1, CopiedAt
  <2> QED
    BY <2>2 DEF to, from
<1> HIDE DEF named
<1>8. Named(named, type, source) /\ Paths(named)
  BY <1>2, <1>6, NamesLeft
<1>9. Leaves(named, typed, <<"log_type">>)
  BY <1>2, <1>6, FieldsLeft
<1>10. NamedOnRoot(named, type, source)
  BY <1>5, <1>7, <1>9 DEF NamedOnRoot, Leaves
<1> HIDE DEF owned
<1>11. Named(owned, type, source) /\ NamedOnRoot(owned, type, source)
  BY <1>2, <1>8, <1>10, NamesLeft
<1>12. /\ Writes(hosted, ev, roots, {}) /\ Writes(typed, hosted, roots, {})
       /\ Writes(named, typed, roots, {}) /\ Writes(owned, named, roots, {})
  BY <1>2, WritesMore
<1> HIDE DEF roots
<1>13. Writes(owned, ev, roots, {})
  BY <1>12, WritesThen
<1> QED
  BY <1>11, <1>13 DEF hosted, typed, named, owned, roots

\* The part of viaq for a source keeps the names, those on the root but of a
\* receiver's, and what was parsed; it forwards the message.
Sourced(ev, type, source) ==
  /\ Named(ev, type, source)
  /\ NamedOnRoot(ev, IF source = "syslog" THEN "infrastructure" ELSE type, IF source = "syslog" THEN "node" ELSE source)
  /\ Told(ev) /\ (type = "audit" \/ source = "syslog" => PlainBelow(ev))

SourceRoots ==
  {"message", "kubernetes", "audit.linux", "level", "k8s_audit_level", "openshift_audit_level", "tag", "hostname",
   "systemd"}

SourceParts == {"kubernetes", "message", "timestamp", "host"}

\* A source other than syslog, whose part of viaq forwards the message.
LEMMA SourcedBy ==
  ASSUME NEW ev, NEW new, NEW type, NEW source, Ready(ev, type, source), NamedOnRoot(ev, type, source),
         source # "syslog", Writes(new, ev, SourceRoots, SourceParts), Told(new)
  PROVE  Sourced(new, type, source)
<1>1. Paths(ev) /\ Named(ev, type, source)
  BY DEF Ready, Named
<1>2. "_internal" \notin SourceRoots /\ "structured" \notin SourceParts
  BY DEF SourceRoots, SourceParts
<1>3. {"log_type", "log_source"} \cap SourceRoots = {} /\ {"log_type", "log_source"} \cap SourceParts = {}
  BY DEF SourceRoots, SourceParts
<1>4. Named(new, type, source) /\ NamedOnRoot(new, type, source)
  BY <1>1, <1>2, <1>3, NamesLeft
<1>5. PlainBelow(ev) => PlainBelow(new)
  BY <1>1, <1>2, StructuredLeft
<1> QED
  BY <1>4, <1>5 DEF Sourced, Ready

LEMMA SourceWrites ==
  ASSUME NEW new, NEW old, NEW roots, NEW parts, Writes(new, old, roots, parts),
         roots \subseteq SourceRoots, parts \subseteq SourceParts
  PROVE  Writes(new, old, SourceRoots, SourceParts)
BY WritesMore

LEMMA ContainerSourced ==
  ASSUME NEW ev, NEW type, Ready(ev, type, "container"), NamedOnRoot(ev, type, "container")
  PROVE  Sourced(containerLogs(ev), type, "container")
<1> DEFINE routed == HandleEventRouterLog(ev)
           placed == SetKubernetesOnRoot(routed)
           told == SetMessageOnRoot(placed)
<1>1. Paths(ev) /\ HasMessage(ev) /\ RouterTells(ev)
  BY DEF Ready, Named
<1>2. Writes(routed, ev, {}, {"kubernetes", "message", "timestamp"}) /\ HasMessage(routed)
  BY <1>1, RouterTold
<1>3. Paths(routed)
  BY <1>1, <1>2 DEF Writes
<1> HIDE DEF routed
<1>4. Writes(placed, routed, {"kubernetes"}, {})
  BY <1>3, KubernetesWrites
<1> HIDE DEF placed
<1>5. Paths(placed) /\ HasMessage(placed)
  BY <1>2, <1>3, <1>4, NamesLeft
<1>6. Writes(told, placed, {"message"}, {}) /\ Told(told)
  BY <1>5, MessageWrites, MessageTold
<1> HIDE DEF told
<1>7. /\ Writes(routed, ev, SourceRoots, SourceParts) /\ Writes(placed, routed, SourceRoots, SourceParts)
      /\ Writes(told, placed, SourceRoots, SourceParts)
  BY <1>2, <1>4, <1>6, SourceWrites DEF SourceRoots, SourceParts
<1>8. Writes(told, ev, SourceRoots, SourceParts)
  BY <1>7, WritesThen
<1>9. Sourced(told, type, "container")
  BY <1>6, <1>8, SourcedBy
<1> QED
  BY <1>9 DEF containerLogs, told, placed, routed

LEMMA HostSourced ==
  ASSUME NEW ev, NEW type, Ready(ev, type, "auditd"), NamedOnRoot(ev, type, "auditd")
  PROVE  Sourced(auditHostLogs(ev), type, "auditd")
<1> DEFINE told == SetMessageOnRoot(ev)
           copied == Copy(told, <<"audit.linux">>, Internal(<<"audit.linux">>))
           levelled == Assign(copied, <<"level">>, "default")
<1>1. Paths(ev) /\ HasMessage(ev)
  BY DEF Ready, Named
<1>2. Writes(told, ev, {"message"}, {}) /\ Told(told)
  BY <1>1, MessageWrites, MessageTold
<1>3. Writes(copied, told, {"audit.linux"}, {})
  BY InternalPaths, RootCopy
<1>4. Writes(levelled, copied, {"level"}, {})
  BY RootAssign
<1> HIDE DEF told, copied, levelled
<1>5. Paths(told) /\ Paths(copied)
  BY <1>1, <1>2, <1>3 DEF Writes
<1>6. Told(copied)
  BY <1>2, <1>3, <1>5, NamesLeft
<1>7. Told(levelled)
  BY <1>4, <1>5, <1>6, NamesLeft
<1>8. /\ Writes(told, ev, SourceRoots, SourceParts) /\ Writes(copied, told, SourceRoots, SourceParts)
      /\ Writes(levelled, copied, SourceRoots, SourceParts)
  BY <1>2, <1>3, <1>4, SourceWrites DEF SourceRoots, SourceParts
<1>9. Writes(levelled, ev, SourceRoots, SourceParts)
  BY <1>8, WritesThen
<1>10. Sourced(levelled, type, "auditd")
  BY <1>7, <1>9, SourcedBy
<1> QED
  BY <1>10 DEF auditHostLogs, told, copied, levelled

LEMMA OVNSourced ==
  ASSUME NEW ev, NEW type, Ready(ev, type, "ovn"), NamedOnRoot(ev, type, "ovn")
  PROVE  Sourced(auditOVNLogs(ev), type, "ovn")
<1> DEFINE told == SetMessageOnRoot(ev)
           levelled == Copy(told, <<"level">>, Internal(<<"level">>))
<1>1. Paths(ev) /\ HasMessage(ev)
  BY DEF Ready, Named
<1>2. Writes(told, ev, {"message"}, {}) /\ Told(told)
  BY <1>1, MessageWrites, MessageTold
<1>3. Writes(levelled, told, {"level"}, {})
  BY InternalPaths, RootCopy
<1> HIDE DEF told, levelled
<1>4. Paths(told)
  BY <1>1, <1>2 DEF Writes
<1>5. Told(levelled)
  BY <1>2, <1>3, <1>4, NamesLeft
<1>6. Writes(told, ev, SourceRoots, SourceParts) /\ Writes(levelled, told, SourceRoots, SourceParts)
  BY <1>2, <1>3, SourceWrites DEF SourceRoots, SourceParts
<1>7. Writes(levelled, ev, SourceRoots, SourceParts)
  BY <1>6, WritesThen
<1>8. Sourced(levelled, type, "ovn")
  BY <1>5, <1>7, SourcedBy
<1> QED
  BY <1>8 DEF auditOVNLogs, told, levelled

\* The lines of API servers are forwarded parsed.
LEMMA APISourced ==
  ASSUME NEW ev, NEW type, NEW source \in {"kubeAPI", "openshiftAPI"}, Ready(ev, type, source),
         NamedOnRoot(ev, type, source), NEW a \in {"k8s_audit_level", "openshift_audit_level"}
  PROVE  Sourced(Copy(ev, <<a>>, Internal(<<"structured", "level">>)), type, source)
<1> DEFINE new == Copy(ev, <<a>>, Internal(<<"structured", "level">>))
<1>1. Paths(ev) /\ Has(ev, Structured)
  BY DEF Ready, Named
<1>2. Writes(new, ev, {a}, {})
  BY InternalPaths, RootCopy
<1> HIDE DEF new
<1>3. Writes(new, ev, SourceRoots, SourceParts)
  BY <1>2, SourceWrites DEF SourceRoots
<1>4. Told(ev)
  BY <1>1 DEF Told
<1>5. Told(new)
  BY <1>1, <1>2, <1>4, NamesLeft
<1>6. Sourced(new, type, source)
  BY <1>3, <1>5, SourcedBy
<1> QED
  BY <1>6 DEF new

LEMMA JournalSourced ==
  ASSUME NEW ev, NEW type, Ready(ev, type, "node"), NamedOnRoot(ev, type, "node")
  PROVE  Sourced(journalLogs(ev), type, "node")
<1> DEFINE tagged == Assign(ev, <<"tag">>, ".journal.system")
           hosted == MoveIfExists(tagged, <<"hostname">>, Internal(<<"host">>))
           placed == Copy(hosted, <<"systemd">>, Internal(<<"systemd">>))
           told == SetMessageOnRoot(placed)
<1>1. Paths(ev) /\ HasMessage(ev)
  BY DEF Ready, Named
<1>2. Writes(tagged, ev, {"tag"}, {})
  BY RootAssign
<1>3. Writes(hosted, tagged, {"hostname"}, {"host"})
  <2> DEFINE to == <<"hostname">>
             from == Internal(<<"host">>)
             roots == {"hostname"}
             parts == {"host"}
  <2>1. IsPath(to) /\ to # << >> /\ Under(to, roots, parts)
    BY RootUnder
  <2>2. IsPath(from) /\ from # << >> /\ Under(from, roots, parts)
    BY PartUnder
  <2> HIDE DEF to, from, roots, parts, tagged
  <2>3. Writes(MoveIfExists(tagged, to, from), tagged, roots, parts)
    BY <2>1, <2>2, MoveWritesUnder
  <2> QED
    BY <2>3 DEF to, from, roots, parts
<1>4. Writes(placed, hosted, {"systemd"}, {})
  BY InternalPaths, RootCopy
<1> HIDE DEF tagged, hosted, placed
<1>5. Paths(tagged) /\ HasMessage(tagged)
  BY <1>1, <1>2, NamesLeft
<1>6. Paths(hosted) /\ HasMessage(hosted)
  BY <1>3, <1>5, NamesLeft
<1>7. Paths(placed) /\ HasMessage(placed)
  BY <1>4, <1>6, NamesLeft
<1>8. Writes(told, placed, {"message"}, {}) /\ Told(told)
  BY <1>7, MessageWrites, MessageTold
<1> HIDE DEF told
<1>9. /\ Writes(tagged, ev, SourceRoots, SourceParts) /\ Writes(hosted, tagged, SourceRoots, SourceParts)
      /\ Writes(placed, hosted, SourceRoots, SourceParts) /\ Writes(told, placed, SourceRoots, SourceParts)
  BY <1>2, <1>3, <1>4, <1>8, SourceWrites DEF SourceRoots, SourceParts
<1>10. Writes(told, ev, SourceRoots, SourceParts)
  BY <1>9, WritesThen
<1>11. Sourced(told, type, "node")
  BY <1>8, <1>10, SourcedBy
<1> QED
  BY <1>11 DEF journalLogs, told, placed, hosted, tagged

LEMMA RootAssigned ==
  ASSUME NEW ev, Paths(ev), NEW a, NEW value
  PROVE  <<a>> \in DOMAIN Assign(ev, <<a>>, value) /\ Assign(ev, <<a>>, value)[<<a>>] = value
<1> DEFINE to == <<a>>
<1>1. IsPath(to)
  BY WordsArePaths
<1> HIDE DEF to
<1>2. to \in DOMAIN Assign(ev, to, value) /\ Assign(ev, to, value)[to] = value
  BY <1>1, AssignedAt
<1> QED
  BY <1>2 DEF to

\* What a syslog receiver was sent is forwarded as the node's own.
LEMMA ReceiverSourced ==
  ASSUME NEW ev, NEW type, Ready(ev, type, "syslog")
  PROVE  Sourced(receiverLogs(ev), type, "syslog")
<1> DEFINE told == Copy(ev, <<"message">>, Internal(<<"message">>))
           typed == Assign(told, <<"log_type">>, "infrastructure")
           named == Assign(typed, <<"log_source">>, "node")
<1>1. Paths(ev) /\ HasMessage(ev) /\ Named(ev, type, "syslog") /\ PlainBelow(ev)
  BY DEF Ready, Named
<1>2. Writes(told, ev, {"message"}, {}) /\ Told(told)
  BY <1>1, InternalPaths, RootCopy, MessageCopied
<1>3. Writes(typed, told, {"log_type"}, {}) /\ Writes(named, typed, {"log_source"}, {})
  BY RootAssign
<1> HIDE DEF told
<1>4. Paths(told) /\ Named(told, type, "syslog") /\ PlainBelow(told)
  BY <1>1, <1>2, NamesLeft, StructuredLeft
<1>5. <<"log_type">> \in DOMAIN typed /\ typed[<<"log_type">>] = "infrastructure"
  BY <1>4, RootAssigned
<1> HIDE DEF typed
<1>6. Paths(typed) /\ Named(typed, type, "syslog") /\ PlainBelow(typed) /\ Told(typed)
  BY <1>2, <1>3, <1>4, NamesLeft, StructuredLeft
<1>7. <<"log_source">> \in DOMAIN named /\ named[<<"log_source">>] = "node"
  BY <1>6, RootAssigned
<1> HIDE DEF named
<1>8. Named(named, type, "syslog") /\ PlainBelow(named) /\ Told(named)
  BY <1>3, <1>6, NamesLeft, StructuredLeft
<1>9. Leaves(named, typed, <<"log_type">>)
  BY <1>3, <1>6, FieldsLeft
<1>10. Sourced(named, type, "syslog")
  BY <1>5, <1>7, <1>8, <1>9 DEF Sourced, NamedOnRoot, Leaves
<1> QED
  BY <1>10 DEF receiverLogs, told, typed, named

LEMMA SourceLogsSourced ==
  ASSUME NEW sources, NEW ev, NEW type, NEW source \in Scripted(sources), Ready(ev, type, source),
         NamedOnRoot(ev, type, source)
  PROVE  Sourced(SourceLogs(sources, ev), type, source)
<1>1. Value(ev, Internal(<<"log_source">>)) = source
  BY DEF Ready, Named, Value
<1>2. source \in {"container", "auditd", "ovn", "kubeAPI", "openshiftAPI", "node", "syslog"}
  BY DEF Ready, Origin
<1>3. CASE source = "container"
  BY <1>1, <1>3, ContainerSourced DEF SourceLogs
<1>4. CASE source = "auditd"
  BY <1>1, <1>4, HostSourced DEF SourceLogs
<1>5. CASE source = "ovn"
  BY <1>1, <1>5, OVNSourced DEF SourceLogs
<1>6. CASE source = "kubeAPI"
  BY <1>1, <1>6, APISourced DEF SourceLogs, auditK8sLogs
<1>7. CASE source = "openshiftAPI"
  BY <1>1, <1>7, APISourced DEF SourceLogs, auditOpenshiftLogs
<1>8. CASE source = "node"
  BY <1>1, <1>8, JournalSourced DEF SourceLogs
<1>9. CASE source = "syslog"
  BY <1>1, <1>9, ReceiverSourced DEF SourceLogs
<1> QED
  BY <1>2, <1>3, <1>4, <1>5, <1>6, <1>7, <1>8, <1>9

\* A merged object that has none of the collector's fields leaves them.
LEMMA MergeLeaves ==
  ASSUME NEW ev, Paths(ev), PlainBelow(ev)
  PROVE  LET merged == Merge(ev, Object(ev, Structured))
         IN  /\ Paths(merged)
             /\ \A q : q[1] \in CollectorFields => Leaves(merged, ev, q)
             /\ ~Has(ev, Structured) => \A q : Leaves(merged, ev, q)
<1> DEFINE object == Object(ev, Structured)
           merged == Merge(ev, object)
<1>1. Paths(object)
  BY StructuredHeads, ObjectReads
<1>2. \A s \in DOMAIN object : s[1] \notin CollectorFields
  <2>1. SUFFICES ASSUME NEW s \in DOMAIN object
                 PROVE  s[1] \notin CollectorFields
    OBVIOUS
  <2>2. PICK q \in DOMAIN ev : IsPrefix(Structured, q) /\ s = SubSeq(q, Len(Structured) + 1, Len(q))
    BY DEF Object
  <2>3. IsPath(q) /\ Len(q) >= 3 /\ Len(q) \in Nat /\ q[3] \notin CollectorFields
    BY <2>2, StructuredBelow DEF PlainBelow, Paths
  <2>4. s = SubSeq(q, 3, Len(q))
    BY <2>2, StructuredHeads
  <2>5. s[1] = q[3]
    BY <2>3, <2>4 DEF IsPath
  <2> QED
    BY <2>3, <2>5
<1>3. ~Has(ev, Structured) => DOMAIN object = {}
  BY DEF Object, Has
<1> HIDE DEF object
<1>4. DOMAIN merged = DOMAIN object \cup {q \in DOMAIN ev : \A s \in DOMAIN object : s[1] # q[1]}
  BY DEF Merge, Over, Restrict
<1>5. \A q \in DOMAIN ev : (\A s \in DOMAIN object : s[1] # q[1]) => merged[q] = ev[q]
  BY DEF Merge, Over, Restrict
<1> HIDE DEF merged
<1>6. Paths(merged)
  BY <1>1, <1>4 DEF Paths
<1>7. \A q : q[1] \in CollectorFields => Leaves(merged, ev, q)
  BY <1>2, <1>4, <1>5 DEF Leaves
<1>8. ~Has(ev, Structured) => \A q : Leaves(merged, ev, q)
  BY <1>3, <1>4, <1>5 DEF Leaves
<1> QED
  BY <1>6, <1>7, <1>8 DEF merged, object

LEMMA StructuredMerged ==
  ASSUME NEW ev, NEW type, NEW source, Origin(type, source), Sourced(ev, type, source)
  PROVE  Sourced(MergeStructuredIntoRoot(ev), type, source)
<1> DEFINE new == MergeStructuredIntoRoot(ev)
<1>1. /\ Paths(ev) /\ Told(ev) /\ Value(ev, Internal(<<"log_type">>)) = type
      /\ Value(ev, Internal(<<"log_source">>)) = source
  BY DEF Sourced, Named, Value
<1>2. CASE type = "audit" \/ source = "syslog"
  <2>1. new = Merge(ev, Object(ev, Structured)) /\ PlainBelow(ev)
    <3>1. new = Merge(ev, Object(ev, Structured))
      BY <1>1, <1>2 DEF MergeStructuredIntoRoot, Structured, Origin
    <3>2. PlainBelow(ev)
      BY <1>2 DEF Sourced
    <3> QED
      BY <3>1, <3>2
  <2>2. /\ Paths(new) /\ \A q : q[1] \in CollectorFields => Leaves(new, ev, q)
        /\ ~Has(ev, Structured) => \A q : Leaves(new, ev, q)
    BY <1>1, <2>1, MergeLeaves
  <2> HIDE DEF new
  <2>3. /\ Leaves(new, ev, <<"log_type">>) /\ Leaves(new, ev, <<"log_source">>)
        /\ Leaves(new, ev, Internal(<<"log_type">>)) /\ Leaves(new, ev, Internal(<<"log_source">>))
        /\ Leaves(new, ev, Internal(<<"message">>))
    <3>1. \A a : <<a>>[1] = a /\ Internal(<<a>>)[1] = "_internal"
      <4>1. \A a : IsPath(<<a>>) /\ <<a>> # << >> /\ <<a>>[1] = a
        BY WordsArePaths, Zenon
      <4>2. \A p : IsPath(p) /\ p # << >> => Internal(p)[1] = "_internal"
        BY InternalHeads
      <4> QED
        BY <4>1, <4>2, Zenon
    <3>2. "_internal" \in CollectorFields /\ "log_type" \in CollectorFields /\ "log_source" \in CollectorFields
      BY DEF CollectorFields
    <3>3. \A a : Leaves(new, ev, Internal(<<a>>))
      BY <2>2, <3>1, <3>2, Zenon
    <3>4. \A a \in CollectorFields : Leaves(new, ev, <<a>>)
      BY <2>2, <3>1, Zenon
    <3> QED
      BY <3>2, <3>3, <3>4, Zenon
  <2>4. \A q : IsPath(q) /\ IsPrefix(Structured, q) => Leaves(new, ev, q)
    BY <2>2, StructuredBelow DEF CollectorFields
  <2>5. (Has(new, Structured) <=> Has(ev, Structured)) /\ PlainBelow(new)
    <3>1. \A q : IsPrefix(Structured, q) => (q \in DOMAIN new <=> q \in DOMAIN ev)
      BY <1>1, <2>2, <2>4 DEF Leaves, Paths
    <3> QED
      BY <2>1, <3>1 DEF Has, PlainBelow
  <2>6. Told(new)
    <3>1. CASE Has(ev, Structured)
      BY <2>5, <3>1 DEF Told
    <3>2. CASE ~Has(ev, Structured)
      <4>1. Leaves(new, ev, <<"message">>) /\ Leaves(new, ev, Internal(<<"message">>))
        BY <2>2, <3>2
      <4> QED
        BY <1>1, <3>2, <4>1 DEF Told, HasMessage, Leaves
    <3> QED
      BY <3>1, <3>2
  <2>7. Sourced(new, type, source)
    BY <2>2, <2>3, <2>5, <2>6 DEF Sourced, Named, NamedOnRoot, Leaves
  <2> QED
    BY <2>7 DEF new
<1>3. CASE ~(type = "audit" \/ source = "syslog")
  <2>1. Writes(new, ev, {"structured"}, {})
    <3>1. Writes(CopyIfExists(ev, <<"structured">>, Internal(<<"structured">>)), ev, {"structured"}, {})
      BY InternalPaths, RootCopy
    <3>2. Writes(ev, ev, {"structured"}, {})
      BY WritesNothing
    <3> QED
      BY <1>1, <1>3, <3>1, <3>2 DEF MergeStructuredIntoRoot
  <2> HIDE DEF new
  <2>2. /\ Named(new, type, source) /\ Told(new)
        /\ \A t, s : NamedOnRoot(ev, t, s) => NamedOnRoot(new, t, s)
    BY <1>1, <2>1, NamesLeft DEF Sourced
  <2>3. Sourced(new, type, source)
    BY <1>3, <2>2 DEF Sourced
  <2> QED
    BY <2>3 DEF new
<1> QED
  BY <1>2, <1>3

\* The rest of viaq.
LEMMA SourcedLeft ==
  ASSUME NEW ev, NEW new, NEW type, NEW source, NEW roots, Sourced(ev, type, source), Writes(new, ev, roots, {}),
         {"log_type", "log_source", "message", "_internal"} \cap roots = {}
  PROVE  Sourced(new, type, source)
<1>1. Paths(ev) /\ "_internal" \notin roots /\ "message" \notin roots /\ {"log_type", "log_source"} \cap roots = {}
  BY DEF Sourced, Named
<1>2. /\ Named(new, type, source) /\ Told(new) /\ (PlainBelow(ev) => PlainBelow(new))
      /\ \A t, s : NamedOnRoot(ev, t, s) => NamedOnRoot(new, t, s)
  BY <1>1, NamesLeft, StructuredLeft DEF Sourced
<1> QED
  BY <1>2 DEF Sourced

LEMMA ViaqSourced ==
  ASSUME NEW sources, NEW ev, NEW type, NEW source \in Scripted(sources), Ready(ev, type, source)
  PROVE  Sourced(Viaq(sources, ev), type, source)
<1> DEFINE named == Copy(Copy(CopyIfExists(ev, <<"hostname">>, Internal(<<"hostname">>)),
                              <<"log_type">>, Internal(<<"log_type">>)),
                         <<"log_source">>, Internal(<<"log_source">>))
           owned == CopyIfExists(named, <<"openshift">>, Internal(<<"openshift">>))
           sourced == SourceLogs(sources, owned)
           cleaned == RemoveKubernetesForNonContainerLogs(sourced)
           merged == MergeStructuredIntoRoot(cleaned)
           timed == Copy(merged, <<"timestamp">>, Internal(<<"timestamp">>))
           levelled == SetLogLevelOnRoot(timed)
           roots == {"hostname", "log_type", "log_source", "openshift"}
<1>1. Named(ev, type, source) /\ Paths(ev) /\ Origin(type, source)
  BY DEF Ready, Named
<1>2. Writes(owned, ev, roots, {}) /\ Named(owned, type, source) /\ NamedOnRoot(owned, type, source)
  BY <1>1, RootNamed
<1>3. Viaq(sources, ev) = levelled
  BY DEF Viaq
<1> HIDE DEF owned
<1>4. Ready(owned, type, source)
  <2>1. "_internal" \notin roots
    OBVIOUS
  <2> HIDE DEF roots
  <2>2. /\ HasMessage(ev) => HasMessage(owned)
        /\ (Has(owned, Structured) <=> Has(ev, Structured)) /\ (PlainBelow(ev) => PlainBelow(owned))
        /\ Leaves(owned, ev, Internal(<<"message">>))
    BY <1>1, <1>2, <2>1, NamesLeft, StructuredLeft, FieldsLeft
  <2>3. HasMessage(ev) /\ RouterTells(ev) => RouterTells(owned)
    BY <2>2 DEF RouterTells, HasMessage, Leaves
  <2> QED
    BY <1>2, <2>2, <2>3, Zenon DEF Ready, Origin
<1>5. Sourced(sourced, type, source)
  BY <1>2, <1>4, SourceLogsSourced
<1> HIDE DEF sourced
<1>6. Sourced(cleaned, type, source)
  <2>1. Writes(cleaned, sourced, {"kubernetes"}, {})
    <3> DEFINE path == <<"kubernetes">>
    <3>1. IsPath(path) /\ path # << >> /\ Under(path, {"kubernetes"}, {})
      BY RootUnder
    <3> HIDE DEF path
    <3>2. Writes(Del(sourced, path), sourced, {"kubernetes"}, {}) /\ Writes(sourced, sourced, {"kubernetes"}, {})
      BY <3>1, DelWritesUnder, WritesNothing
    <3> QED
      BY <3>2 DEF RemoveKubernetesForNonContainerLogs, path
  <2> HIDE DEF cleaned
  <2> QED
    BY <1>5, <2>1, SourcedLeft
<1> HIDE DEF cleaned
<1>7. Sourced(merged, type, source)
  BY <1>1, <1>6, StructuredMerged
<1> HIDE DEF merged
<1>8. Sourced(timed, type, source)
  <2>1. Writes(timed, merged, {"timestamp"}, {})
    BY InternalPaths, RootCopy
  <2> HIDE DEF timed
  <2> QED
    BY <1>7, <2>1, SourcedLeft
<1> HIDE DEF timed
<1>9. Sourced(levelled, type, source)
  <2>1. Writes(levelled, timed, {"level"}, {})
    BY InternalPaths, RootCopy, WritesNothing DEF SetLogLevelOnRoot
  <2> HIDE DEF levelled
  <2> QED
    BY <1>8, <2>1, SourcedLeft
<1> QED
  BY <1>3, <1>9

\* viaq forwards a container's record with the type that its input gave it,
\* whether or not it has a message.
LEMMA ViaqTyped ==
  ASSUME NEW sources, "container" \in sources, NEW ev, NEW type, type # "audit", Named(ev, type, "container")
  PROVE  NamedOnRoot(Viaq(sources, ev), type, "container")
<1> DEFINE Labelled(e) == Named(e, type, "container") /\ NamedOnRoot(e, type, "container")
           named == Copy(Copy(CopyIfExists(ev, <<"hostname">>, Internal(<<"hostname">>)),
                              <<"log_type">>, Internal(<<"log_type">>)),
                         <<"log_source">>, Internal(<<"log_source">>))
           owned == CopyIfExists(named, <<"openshift">>, Internal(<<"openshift">>))
           routed == HandleEventRouterLog(owned)
           placed == SetKubernetesOnRoot(routed)
           told == SetMessageOnRoot(placed)
           merged == CopyIfExists(told, <<"structured">>, Internal(<<"structured">>))
           timed == Copy(merged, <<"timestamp">>, Internal(<<"timestamp">>))
           levelled == SetLogLevelOnRoot(timed)
<1>1. Labelled(owned)
  BY RootNamed
<1>2. ASSUME NEW new, NEW old, NEW roots, NEW parts, Labelled(old), Writes(new, old, roots, parts),
             {"log_type", "log_source", "_internal"} \cap roots = {}, {"log_type", "log_source"} \cap parts = {}
      PROVE  Labelled(new)
  BY <1>2, NamesLeft DEF Named
<1>3. \A e : Labelled(e) => /\ Paths(e) /\ Value(e, <<"log_source">>) = "container"
                         /\ Value(e, Internal(<<"log_source">>)) = "container"
                         /\ Value(e, Internal(<<"log_type">>)) = type
  BY DEF Named, NamedOnRoot, Value
<1>4. Viaq(sources, ev) =
        SetLogLevelOnRoot(Copy(MergeStructuredIntoRoot(RemoveKubernetesForNonContainerLogs(SourceLogs(sources, owned))),
                               <<"timestamp">>, Internal(<<"timestamp">>)))
  BY DEF Viaq
<1>5. SourceLogs(sources, owned) = told
  BY <1>1, <1>3 DEF SourceLogs, containerLogs, Scripted
<1> HIDE DEF owned, Labelled
<1>6. Labelled(routed)
  BY <1>1, <1>2, <1>3, RouterTold
<1> HIDE DEF routed
<1>7. Labelled(placed)
  BY <1>2, <1>3, <1>6, KubernetesWrites
<1> HIDE DEF placed
<1>8. Labelled(told)
  BY <1>2, <1>7, MessageWrites
<1> HIDE DEF told
<1>9. MergeStructuredIntoRoot(RemoveKubernetesForNonContainerLogs(told)) = merged
  BY <1>3, <1>8 DEF MergeStructuredIntoRoot, RemoveKubernetesForNonContainerLogs
<1>10. Labelled(merged)
  <2>1. Writes(merged, told, {"structured"}, {})
    BY InternalPaths, RootCopy
  <2> HIDE DEF merged
  <2> QED
    BY <1>2, <1>8, <2>1
<1> HIDE DEF merged
<1>11. Labelled(timed)
  <2>1. Writes(timed, merged, {"timestamp"}, {})
    BY InternalPaths, RootCopy
  <2> HIDE DEF timed
  <2> QED
    BY <1>2, <1>10, <2>1
<1> HIDE DEF timed
<1>12. Writes(levelled, timed, {"level"}, {})
  BY InternalPaths, RootCopy, WritesNothing DEF SetLogLevelOnRoot
<1> HIDE DEF levelled
<1>13. Labelled(levelled)
  BY <1>2, <1>11, <1>12
<1> QED
  BY <1>4, <1>5, <1>9, <1>13 DEF Labelled, levelled, timed

-----------------------------------------------------------------------------
(* Input normalization *)

\* Where the log source and the log type are named.
LEMMA NamingNames ==
  ASSUME NEW ev, Paths(ev), NEW type, NEW source
  PROVE  LET sourced == Assign(ev, Internal(<<"log_source">>), source)
             typed == Assign(sourced, Internal(<<"log_type">>), type)
         IN  /\ Writes(sourced, ev, {}, {"log_source"}) /\ Paths(sourced)
             /\ Named(typed, type, source) /\ Writes(typed, ev, {}, {"log_type", "log_source"})
<1> DEFINE at == Internal(<<"log_source">>)
           to == Internal(<<"log_type">>)
           sourced == Assign(ev, at, source)
           typed == Assign(sourced, to, type)
           parts == {"log_type", "log_source"}
<1>1. Writes(sourced, ev, {}, {"log_source"}) /\ Writes(typed, sourced, {}, {"log_type"})
  BY PartAssign
<1>2. IsPath(at) /\ IsPath(to)
  BY InternalPaths
<1> HIDE DEF at, to
<1>3. at \in DOMAIN sourced /\ sourced[at] = source /\ Paths(sourced)
  BY <1>2, AssignedAt
<1> HIDE DEF sourced
<1>4. to \in DOMAIN typed /\ typed[to] = type /\ Paths(typed)
  BY <1>2, <1>3, AssignedAt
<1> HIDE DEF typed
<1>5. Leaves(typed, sourced, at)
  BY <1>1, <1>3, FieldsLeft DEF at
<1>6. Named(typed, type, source)
  BY <1>3, <1>4, <1>5 DEF at, to, Named, Leaves
<1>7. Writes(sourced, ev, {}, parts) /\ Writes(typed, sourced, {}, parts)
  BY <1>1, WritesMore
<1>8. Writes(typed, ev, {}, parts)
  BY <1>7, WritesThen
<1> QED
  BY <1>1, <1>3, <1>6, <1>8 DEF at, to, sourced, typed

LEMMA HostWrites ==
  ASSUME NEW ev
  PROVE  Writes(setHostName(ev), ev, {}, {"hostname"})
BY PartAssign DEF setHostName

LEMMA ClusterWrites ==
  ASSUME NEW ev
  PROVE  Writes(setClusterID(ev), ev, {}, {"openshift"})
<1> DEFINE object == [s \in {<<"cluster_id">>} |-> "cluster"]
           to == Internal(<<"openshift">>)
<1>1. Paths(object)
  <2>1. IsPath(<<"cluster_id">>)
    BY WordsArePaths, Zenon
  <2> QED
    BY <2>1 DEF Paths
<1>2. setClusterID(ev) = Put(ev, to, object)
  BY DEF setClusterID
<1>3. IsPath(to) /\ to # << >> /\ Under(to, {}, {"openshift"})
  BY PartUnder
<1> HIDE DEF object, to
<1> QED
  BY <1>1, <1>2, <1>3, PutWritesUnder

LEMMA LevelWrites ==
  ASSUME NEW ev
  PROVE  Writes(SetLogLevel(ev), ev, {}, {"level"})
<1>1. \A value : Writes(Assign(ev, Internal(<<"level">>), value), ev, {}, {"level"})
  BY PartAssign
<1>2. Writes(ev, ev, {}, {"level"})
  BY WritesNothing
<1> QED
  BY <1>1, <1>2, Zenon DEF SetLogLevel

LEMMA MetadataWrites ==
  ASSUME NEW ev
  PROVE  Writes(recoverMetadataFromFilePath(ev), ev, {}, {"kubernetes"})
<1> DEFINE space == Internal(<<"kubernetes", "namespace_name">>)
           pod == Internal(<<"kubernetes", "pod_name">>)
           parts == {"kubernetes"}
<1>1. /\ IsPath(space) /\ space # << >> /\ Under(space, {}, parts)
      /\ IsPath(pod) /\ pod # << >> /\ Under(pod, {}, parts)
  BY PartUnder
<1>2. \/ recoverMetadataFromFilePath(ev) = ev
      \/ \E v, w : recoverMetadataFromFilePath(ev) = Assign(Assign(ev, space, v), pod, w)
  BY DEF recoverMetadataFromFilePath
<1> HIDE DEF space, pod, parts
<1>3. \A v, w : Writes(Assign(ev, space, v), ev, {}, parts)
                /\ Writes(Assign(Assign(ev, space, v), pod, w), Assign(ev, space, v), {}, parts)
  BY <1>1, AssignWritesUnder
<1>4. \A v, w : Writes(Assign(Assign(ev, space, v), pod, w), ev, {}, parts)
  BY <1>3, WritesThen
<1>5. Writes(recoverMetadataFromFilePath(ev), ev, {}, parts)
  BY <1>2, <1>4, WritesNothing
<1> QED
  BY <1>5 DEF parts

\* What the envelope holds.
LEMMA EnvelopeReads ==
  ASSUME NEW ev, Paths(ev), NEW a
  PROVE  /\ Value(ev, <<a>>) # Null => Internal(<<a>>) \in DOMAIN setEnvelope(ev)
                                       /\ setEnvelope(ev)[Internal(<<a>>)] = ev[<<a>>]
         /\ Has(setEnvelope(ev), Internal(<<a>>)) => Has(ev, <<a>>)
<1> DEFINE p == <<a>>
<1>1. IsPath(p)
  BY WordsArePaths
<1> HIDE DEF p
<1>2. /\ \A q \in DOMAIN ev : Internal(q) \in DOMAIN setEnvelope(ev) /\ setEnvelope(ev)[Internal(q)] = ev[q]
      /\ \A q \in DOMAIN setEnvelope(ev) : \E s \in DOMAIN ev : q = Internal(s)
  BY Enveloped
<1>3. Value(ev, p) # Null => Internal(p) \in DOMAIN setEnvelope(ev) /\ setEnvelope(ev)[Internal(p)] = ev[p]
  BY <1>2 DEF Value
<1>4. Has(setEnvelope(ev), Internal(p)) => Has(ev, p)
  BY <1>1, <1>2, InternalPrefix DEF Has, Paths
<1> QED
  BY <1>3, <1>4 DEF p

\* A record under ._internal.structured, which has none of the collector's fields.
LEMMA StructuredEnvelope ==
  ASSUME NEW ev, Paths(ev), NEW object, Paths(object), Foreign(object)
  PROVE  LET new == Put(ev, Structured, object)
         IN  /\ Paths(new) /\ Has(new, Structured) /\ PlainBelow(new)
             /\ \A s \in DOMAIN object : Structured \o s \in DOMAIN new /\ new[Structured \o s] = object[s]
<1> DEFINE new == Put(ev, Structured, object)
<1>1. \A s \in DOMAIN object : IsPath(s)
  BY DEF Paths
<1>2. /\ \A s \in DOMAIN object : Structured \o s \in DOMAIN new /\ new[Structured \o s] = object[s]
      /\ \A q \in DOMAIN new : IsPrefix(Structured, q) => \E s \in DOMAIN object : q = Structured \o s
      /\ Paths(new)
  BY <1>1, StructuredHeads, PutWrites
<1> HIDE DEF new
<1>3. ASSUME NEW s \in DOMAIN object
      PROVE  /\ IsPrefix(Structured, Structured \o s) /\ Len(Structured \o s) >= 3
             /\ (Structured \o s)[3] \notin CollectorFields
  <2>1. IsPath(s) /\ s # << >> /\ s[1] \notin CollectorFields
    BY <1>1, <1>3 DEF Foreign
  <2>2. Len(s) \in Nat /\ Len(s) >= 1
    BY <2>1 DEF IsPath
  <2>3. /\ IsPrefix(Structured, Structured \o s) /\ Len(Structured \o s) = Len(Structured) + Len(s)
        /\ (\A i \in 1..Len(s) : (Structured \o s)[Len(Structured) + i] = s[i])
    <3>1. IsPath(Structured)
      BY StructuredHeads
    <3>2. IsPrefix(Structured, Structured \o s)
      BY <2>1, <3>1, PrefixOfConcat
    <3> QED
      BY <2>1, <3>1, <3>2, JoinedPaths, Zenon
  <2>4. (Structured \o s)[2 + 1] = s[1]
    BY <2>2, <2>3, StructuredHeads
  <2> QED
    BY <2>1, <2>2, <2>3, <2>4, StructuredHeads
<1>4. PlainBelow(new)
  BY <1>2, <1>3 DEF PlainBelow
<1>5. Has(new, Structured)
  BY <1>2, <1>3 DEF Has, Foreign
<1> QED
  BY <1>2, <1>4, <1>5 DEF new

\* The message and the parsed form of an enveloped record, as the programs of an
\* input leave them.
InputParts == {"log_type", "log_source", "hostname", "openshift", "level", "kubernetes", "timestamp", "audit.linux"}

Input(new, old) ==
  /\ Leaves(new, old, Internal(<<"message">>))
  /\ Has(new, Structured) <=> Has(old, Structured)
  /\ PlainBelow(old) => PlainBelow(new)

LEMMA InputLeaves ==
  ASSUME NEW new, NEW old, Paths(old), Writes(new, old, {}, InputParts)
  PROVE  Input(new, old)
BY FieldsLeft, StructuredLeft DEF Input, InputParts

LEMMA InputWrites ==
  ASSUME NEW new, NEW old, NEW parts, Writes(new, old, {}, parts), parts \subseteq InputParts
  PROVE  Writes(new, old, {}, InputParts)
BY WritesMore

\* The records of containers, auditd and OVN.
LEMMA InternalNormalized ==
  ASSUME NEW ev, Paths(ev), NEW type, NEW source,
         source = "container" => TypeOf(Value(recoverMetadataFromFilePath(setEnvelope(ev)),
                                              Internal(<<"kubernetes", "namespace_name">>))) = type
  PROVE  /\ Named(NewInternalNormalization(source, type, ev), type, source)
         /\ Input(NewInternalNormalization(source, type, ev), setEnvelope(ev))
         /\ Paths(NewInternalNormalization(source, type, ev))
<1> DEFINE base == setEnvelope(ev)
           enveloped == IF source = "container" THEN recoverMetadataFromFilePath(base) ELSE base
           named == Assign(enveloped, Internal(<<"log_source">>), source)
           typed == Assign(named, Internal(<<"log_type">>), type)
           hosted == setHostName(typed)
           owned == setClusterID(hosted)
           levelled == SetLogLevel(owned)
<1>1. Paths(base)
  BY Enveloped
<1>2. Writes(enveloped, base, {}, {"kubernetes"})
  BY MetadataWrites, WritesNothing
<1>3. NewInternalNormalization(source, type, ev) = levelled
  <2>1. CASE source = "container"
    <3>1. Value(named, Internal(<<"kubernetes", "namespace_name">>)) =
            Value(enveloped, Internal(<<"kubernetes", "namespace_name">>))
      <4> DEFINE space == Internal(<<"kubernetes", "namespace_name">>)
      <4>1. Writes(named, enveloped, {}, {"log_source"}) /\ Paths(enveloped)
        BY <1>1, <1>2, PartAssign DEF Writes
      <4>2. IsPath(space) /\ ~Under(space, {}, {"log_source"})
        <5> DEFINE p == <<"kubernetes", "namespace_name">>
        <5>1. IsPath(p) /\ p # << >> /\ p[1] = "kubernetes"
          BY WordsArePaths
        <5> HIDE DEF p
        <5>2. IsPath(Internal(p)) /\ ~Under(Internal(p), {}, {"log_source"})
          BY <5>1, InternalHeads, InternalUnder
        <5> QED
          BY <5>2 DEF p
      <4> HIDE DEF space, named, enveloped
      <4>3. Leaves(named, enveloped, space)
        BY <4>1, <4>2 DEF Writes
      <4> QED
        BY <4>3 DEF Leaves, Value, space
    <3>2. logTypeContainer(named) = typed
      BY <2>1, <3>1 DEF logTypeContainer, TypeOf
    <3> QED
      BY <2>1, <3>2 DEF NewInternalNormalization
  <2>2. CASE source # "container"
    BY <2>2 DEF NewInternalNormalization
  <2> QED
    BY <2>1, <2>2
<1> HIDE DEF base, enveloped
<1>4. Paths(enveloped)
  BY <1>1, <1>2 DEF Writes
<1>5. Named(typed, type, source) /\ Writes(typed, enveloped, {}, {"log_type", "log_source"})
  BY <1>4, NamingNames
<1> HIDE DEF named, typed
<1>6. /\ Writes(hosted, typed, {}, {"hostname"}) /\ Writes(owned, hosted, {}, {"openshift"})
      /\ Writes(levelled, owned, {}, {"level"})
  BY HostWrites, ClusterWrites, LevelWrites
<1> HIDE DEF hosted, owned, levelled
<1>7. Paths(typed) /\ Paths(hosted) /\ Paths(owned) /\ Paths(levelled)
  BY <1>5, <1>6 DEF Named, Writes
<1>8. Named(hosted, type, source)
  BY <1>5, <1>6, <1>7, NamesLeft
<1>9. Named(owned, type, source)
  BY <1>6, <1>7, <1>8, NamesLeft
<1>10. Named(levelled, type, source)
  BY <1>6, <1>7, <1>9, NamesLeft
<1>11. /\ Writes(enveloped, base, {}, InputParts) /\ Writes(typed, enveloped, {}, InputParts)
       /\ Writes(hosted, typed, {}, InputParts) /\ Writes(owned, hosted, {}, InputParts)
       /\ Writes(levelled, owned, {}, InputParts)
  BY <1>2, <1>5, <1>6, InputWrites DEF InputParts
<1>12. Writes(levelled, base, {}, InputParts)
  BY <1>11, WritesThen
<1>13. Input(levelled, base)
  BY <1>1, <1>12, InputLeaves
<1> QED
  BY <1>3, <1>7, <1>10, <1>13 DEF base

\* A time that is written to a record, or not.
LEMMA TimedReady ==
  ASSUME NEW ev, NEW new, NEW type, NEW source, source # "container", Ready(ev, type, source),
         Writes(new, ev, {}, {"timestamp", "audit.linux"})
  PROVE  Ready(new, type, source)
<1>1. Paths(ev) /\ Named(ev, type, source)
  BY DEF Ready, Named
<1>2. /\ Named(new, type, source) /\ (HasMessage(ev) => HasMessage(new))
      /\ (Has(new, Structured) <=> Has(ev, Structured)) /\ (PlainBelow(ev) => PlainBelow(new))
  BY <1>1, NamesLeft, StructuredLeft
<1> QED
  BY <1>2 DEF Ready

LEMMA OVNTimed ==
  ASSUME NEW ev
  PROVE  /\ Writes(ParseOVNAuditLogTimestamp(ev), ev, {}, {"timestamp", "audit.linux"})
         /\ Writes(ParseHostAuditLogs(ev), ev, {}, {"timestamp", "audit.linux"})
<1> DEFINE parts == {"timestamp", "audit.linux"}
           to == Internal(<<"timestamp">>)
           at == Internal(<<"audit.linux">>)
<1>1. /\ IsPath(to) /\ to # << >> /\ Under(to, {}, parts)
      /\ IsPath(at) /\ at # << >> /\ Under(at, {}, parts)
  BY PartUnder
<1>2. /\ ParseOVNAuditLogTimestamp(ev) = ev \/ \E v : ParseOVNAuditLogTimestamp(ev) = Assign(ev, to, v)
      /\ ParseHostAuditLogs(ev) = ev \/ \E v, w : ParseHostAuditLogs(ev) \in {Assign(ev, at, w), Assign(Assign(ev, to, v), at, w)}
  BY DEF ParseOVNAuditLogTimestamp, ParseHostAuditLogs
<1> HIDE DEF to, at, parts
<1>3. \A v, w : Writes(Assign(ev, to, v), ev, {}, parts) /\ Writes(Assign(ev, at, w), ev, {}, parts)
                /\ Writes(Assign(Assign(ev, to, v), at, w), Assign(ev, to, v), {}, parts)
  BY <1>1, AssignWritesUnder
<1>4. \A v, w : Writes(Assign(Assign(ev, to, v), at, w), ev, {}, parts)
  BY <1>3, WritesThen
<1>5. Writes(ParseOVNAuditLogTimestamp(ev), ev, {}, parts) /\ Writes(ParseHostAuditLogs(ev), ev, {}, parts)
  BY <1>2, <1>3, <1>4, WritesNothing
<1> QED
  BY <1>5 DEF parts

\* The records of the sources that have a line and no parsed form.
LEMMA LineReady ==
  ASSUME NEW r \in Records, r.source \in {"auditd", "ovn"}
  PROVE  Ready(Normalize(r.source, r.read), "audit", r.source)
<1> DEFINE base == setEnvelope(r.read)
           plain == NewInternalNormalization(r.source, "audit", r.read)
<1>1. Paths(r.read) /\ Value(r.read, <<"message">>) # Null /\ ~Has(r.read, <<"structured">>)
  BY RecordsAssumption DEF Paths
<1>2. HasMessage(base) /\ ~Has(base, Structured)
  <2>1. Internal(<<"message">>) \in DOMAIN base /\ base[Internal(<<"message">>)] = r.read[<<"message">>]
    BY <1>1, EnvelopeReads
  <2>2. ~Has(base, Structured)
    BY <1>1, EnvelopeReads DEF Structured
  <2> QED
    BY <1>1, <2>1, <2>2 DEF HasMessage, Value
<1>3. Named(plain, "audit", r.source) /\ Input(plain, base)
  BY <1>1, InternalNormalized
<1> HIDE DEF base, plain
<1>4. HasMessage(plain) /\ ~Has(plain, Structured) /\ PlainBelow(plain)
  BY <1>2, <1>3 DEF Input, HasMessage, Leaves, Has, PlainBelow
<1>5. Ready(plain, "audit", r.source)
  BY <1>3, <1>4 DEF Ready, Origin
<1>6. \/ Normalize(r.source, r.read) = ParseHostAuditLogs(plain)
      \/ Normalize(r.source, r.read) = ParseOVNAuditLogTimestamp(plain)
  BY DEF Normalize, plain
<1> QED
  BY <1>5, <1>6, OVNTimed, TimedReady

\* A container's record.
LEMMA ContainerNamed ==
  ASSUME NEW r \in Records, r.source = "container"
  PROVE  /\ Named(Normalize(r.source, r.read), TypeOf(r.read[<<"file", "namespace">>]), "container")
         /\ Input(Normalize(r.source, r.read), setEnvelope(r.read))
<1> DEFINE type == TypeOf(r.read[<<"file", "namespace">>])
           new == NewInternalNormalization("container", "application", r.read)
<1>1. /\ Paths(r.read) /\ <<"file", "namespace">> \in DOMAIN r.read
      /\ Has(r.read, NamespaceName) => Value(r.read, NamespaceName) = r.read[<<"file", "namespace">>]
  BY RecordsAssumption DEF Paths, NamespaceName
<1>2. new = NewInternalNormalization("container", type, r.read)
  BY DEF NewInternalNormalization
<1>3. TypeOf(Value(recoverMetadataFromFilePath(setEnvelope(r.read)),
                   Internal(<<"kubernetes", "namespace_name">>))) = type
  BY <1>1, NamespaceRecovered DEF NamespaceName
<1>4. Named(new, type, "container") /\ Input(new, setEnvelope(r.read))
  BY <1>1, <1>2, <1>3, InternalNormalized
<1> QED
  BY <1>4 DEF Normalize

LEMMA ContainerReady ==
  ASSUME NEW r \in Records, r.source = "container",
         \A o \in Parsed(Value(r.read, <<"message">>)) : Has(o, <<"event">>) => Value(o, <<"event", "message">>) # Null
  PROVE  Ready(Normalize(r.source, r.read), TypeOf(r.read[<<"file", "namespace">>]), "container")
<1> DEFINE base == setEnvelope(r.read)
           type == TypeOf(r.read[<<"file", "namespace">>])
           new == Normalize(r.source, r.read)
<1>1. Paths(r.read) /\ Value(r.read, <<"message">>) # Null
  BY RecordsAssumption DEF Paths
<1>2. Internal(<<"message">>) \in DOMAIN base /\ base[Internal(<<"message">>)] = Value(r.read, <<"message">>)
  BY <1>1, EnvelopeReads DEF Value
<1>3. Named(new, type, "container") /\ Input(new, base)
  BY ContainerNamed
<1>4. Origin(type, "container")
  BY DEF Origin, TypeOf
<1> HIDE DEF base, new, type
<1>5. Internal(<<"message">>) \in DOMAIN new /\ new[Internal(<<"message">>)] = Value(r.read, <<"message">>)
  BY <1>2, <1>3 DEF Input, Leaves
<1>6. HasMessage(new) /\ RouterTells(new)
  BY <1>1, <1>5 DEF HasMessage, RouterTells
<1>7. Ready(new, type, "container")
  BY <1>3, <1>4, <1>6 DEF Ready, Origin
<1> QED
  BY <1>7 DEF type, new

\* The name and the parsed form of an audit event.
LEMMA AuditNames ==
  ASSUME NEW ev, Paths(ev), Has(ev, Structured), PlainBelow(ev), NEW source \in {"kubeAPI", "openshiftAPI"}
  PROVE  Ready(AuditNamed(source, ev), "audit", source)
<1> DEFINE typed == Assign(Assign(ev, Internal(<<"log_source">>), source), Internal(<<"log_type">>), "audit")
           hosted == setHostName(typed)
           owned == setClusterID(hosted)
<1>1. Named(typed, "audit", source) /\ Writes(typed, ev, {}, {"log_type", "log_source"})
  BY NamingNames
<1>2. AuditNamed(source, ev) = owned
  BY DEF AuditNamed
<1> HIDE DEF typed
<1>3. Writes(hosted, typed, {}, {"hostname"}) /\ Writes(owned, hosted, {}, {"openshift"})
  BY HostWrites, ClusterWrites
<1> HIDE DEF hosted, owned
<1>4. Paths(typed) /\ Paths(hosted)
  BY <1>1, <1>3 DEF Named, Writes
<1>5. Named(hosted, "audit", source)
  BY <1>1, <1>3, <1>4, NamesLeft
<1>6. Named(owned, "audit", source)
  BY <1>3, <1>4, <1>5, NamesLeft
<1>7. /\ Writes(typed, ev, {}, InputParts) /\ Writes(hosted, typed, {}, InputParts)
      /\ Writes(owned, hosted, {}, InputParts)
  BY <1>1, <1>3, InputWrites DEF InputParts
<1>8. Writes(owned, ev, {}, InputParts)
  BY <1>7, WritesThen
<1>9. Has(owned, Structured) /\ PlainBelow(owned)
  BY <1>8, InputLeaves DEF Input
<1> QED
  BY <1>2, <1>6, <1>9 DEF Ready, Origin

LEMMA AuditTimed ==
  ASSUME NEW ev, NEW stage, IsPath(stage), NEW received, IsPath(received)
  PROVE  Writes(AuditTimestamp(ev, stage, received), ev, {}, {"timestamp", "audit.linux"})
<1> DEFINE to == Internal(<<"timestamp">>)
           parts == {"timestamp", "audit.linux"}
<1>1. IsPath(to) /\ to # << >> /\ Under(to, {}, parts)
  BY PartUnder
<1>2. AuditTimestamp(ev, stage, received) = Copy(ev, to, stage)
      \/ AuditTimestamp(ev, stage, received) = CopyIfExists(ev, to, received)
  BY DEF AuditTimestamp
<1> HIDE DEF to, parts
<1>3. Writes(AuditTimestamp(ev, stage, received), ev, {}, parts)
  BY <1>1, <1>2, CopyWritesUnder
<1> QED
  BY <1>3 DEF parts

\* What an HTTP receiver was sent.
LEMMA HttpReady ==
  ASSUME NEW r \in Records, r.source = "http", Foreign(r.read)
  PROVE  Ready(Normalize(r.source, r.read), "audit", "kubeAPI")
<1> DEFINE none == << >>
           enveloped == Put(none, Structured, r.read)
           named == AuditNamed("kubeAPI", enveloped)
<1>1. Paths(r.read)
  BY RecordsAssumption DEF Paths
<1>2. Paths(none)
  BY DEF Paths
<1>3. setEnvelopeToStructured(r.read) = enveloped
  <2>1. Structured = <<"_internal", "structured">>
    BY WordsJoin, Zenon DEF Structured, Internal
  <2> QED
    BY <2>1 DEF setEnvelopeToStructured
<1> HIDE DEF none
<1>4. Paths(enveloped) /\ Has(enveloped, Structured) /\ PlainBelow(enveloped)
  BY <1>1, <1>2, StructuredEnvelope
<1> HIDE DEF enveloped
<1>5. Ready(named, "audit", "kubeAPI")
  BY <1>4, AuditNames
<1>6. Normalize(r.source, r.read) = parseReceiverStructuredAuditTimestamp(named)
  BY <1>3 DEF Normalize, NewHttpNormalization
<1> HIDE DEF named
<1>7. Writes(parseReceiverStructuredAuditTimestamp(named), named, {}, {"timestamp", "audit.linux"})
  BY InternalPaths, AuditTimed DEF parseReceiverStructuredAuditTimestamp
<1> QED
  BY <1>5, <1>6, <1>7, TimedReady

\* A path below another.
LEMMA PathBelow ==
  ASSUME NEW p, IsPath(p), NEW q, IsPath(q), IsPrefix(p, q)
  PROVE  q = p \o SubSeq(q, Len(p) + 1, Len(q))
<1> DEFINE s == SubSeq(q, Len(p) + 1, Len(q))
           m == Len(p)
           n == Len(q)
<1>1. m \in Nat /\ n \in Nat
  BY DEF IsPath
<1>2. m <= n /\ \A i \in 1..m : p[i] = q[i]
  BY PrefixElements
<1>3. IsPath(s)
  BY RestIsPath
<1>4. Len(s) = n - m /\ \A i \in 1..(n - m) : s[i] = q[m + i]
  BY <1>1, <1>2 DEF IsPath
<1> HIDE DEF s
<1>5. /\ Len(p \o s) = m + Len(s) /\ \A i \in 1..m : (p \o s)[i] = p[i]
      /\ \A i \in 1..Len(s) : (p \o s)[m + i] = s[i]
  BY <1>3, JoinedPaths
<1>6. IsPath(p \o s)
  BY <1>3, JoinedPaths
<1>7. Len(p \o s) = n
  BY <1>1, <1>2, <1>4, <1>5
<1>8. ASSUME NEW i \in 1..n
      PROVE  (p \o s)[i] = q[i]
  <2>1. CASE i <= m
    BY <1>1, <1>2, <1>5, <1>8, <2>1
  <2>2. CASE i > m
    <3> DEFINE j == i - m
    <3>1. j \in 1..Len(s) /\ m + j = i
      BY <1>1, <1>2, <1>4, <1>8, <2>2
    <3> HIDE DEF j
    <3>2. (p \o s)[m + j] = s[j]
      BY <1>5, <3>1
    <3>3. s[j] = q[m + j]
      BY <1>4, <3>1
    <3> QED
      BY <3>1, <3>2, <3>3
  <2>3. i <= m \/ i > m
    BY <1>1, <1>8
  <2> QED
    BY <2>1, <2>2, <2>3
<1>9. q = p \o s
  <2> DEFINE S == {q[i] : i \in DOMAIN q} \cup {(p \o s)[i] : i \in DOMAIN (p \o s)}
             w == p \o s
  <2>1. q \in Seq(S) /\ w \in Seq(S)
    BY <1>6 DEF IsPath
  <2>2. Len(w) = Len(q) /\ \A i \in 1..Len(q) : w[i] = q[i]
    BY <1>7, <1>8
  <2> HIDE DEF S, w
  <2>3. q = w
    BY <2>1, <2>2
  <2> QED
    BY <2>3 DEF w
<1> QED
  BY <1>9 DEF s

\* The paths of an object.
LEMMA ObjectPaths ==
  ASSUME NEW ev, Paths(ev), NEW path, IsPath(path)
  PROVE  /\ \A q \in DOMAIN ev : IsPrefix(path, q) => \E s \in DOMAIN Object(ev, path) : q = path \o s
         /\ \A s \in DOMAIN Object(ev, path) : path \o s \in DOMAIN ev
<1>1. \A q \in DOMAIN ev : IsPrefix(path, q) => q = path \o SubSeq(q, Len(path) + 1, Len(q))
  BY PathBelow DEF Paths
<1>2. DOMAIN Object(ev, path) = {SubSeq(q, Len(path) + 1, Len(q)) : q \in {r \in DOMAIN ev : IsPrefix(path, r)}}
  BY DEF Object
<1>3. ASSUME NEW s \in DOMAIN Object(ev, path)
      PROVE  path \o s \in DOMAIN ev
  <2>1. PICK q \in DOMAIN ev : IsPrefix(path, q) /\ s = SubSeq(q, Len(path) + 1, Len(q))
    BY <1>2, <1>3
  <2> QED
    BY <1>1, <2>1
<1> QED
  BY <1>1, <1>2, <1>3

\* The parsed line of an API server, beside its parts.
LEMMA ParsedPlain ==
  ASSUME NEW ev, Paths(ev), NEW o, Paths(o), Foreign(o)
  PROVE  LET new == parseStructured(ev, o) IN Paths(new) /\ Has(new, Structured) /\ PlainBelow(new)
<1> DEFINE root == <<"_internal">>
           whole == Put(ev, Structured, o)
           object == Object(whole, root)
           merged == Merge(object, o)
           new == Put(ev, root, merged)
<1>1. parseStructured(ev, o) = new
  BY DEF parseStructured, Structured
<1>2. /\ Paths(whole) /\ PlainBelow(whole)
      /\ \A s \in DOMAIN o : Structured \o s \in DOMAIN whole
  BY StructuredEnvelope
<1>3. IsPath(root) /\ Len(root) = 1 /\ root[1] = "_internal"
  BY DEF IsPath
<1> HIDE DEF root, whole
<1>4. /\ Paths(object)
      /\ \A q \in DOMAIN whole : IsPrefix(root, q) => \E s \in DOMAIN object : q = root \o s
      /\ \A s \in DOMAIN object : root \o s \in DOMAIN whole
  BY <1>2, <1>3, ObjectReads, ObjectPaths
<1> HIDE DEF object
<1>5. DOMAIN merged = DOMAIN o \cup {q \in DOMAIN object : \A s \in DOMAIN o : s[1] # q[1]}
  BY DEF Merge, Over, Restrict
<1> HIDE DEF merged
<1>6. Paths(merged)
  BY <1>4, <1>5 DEF Paths
<1>7. /\ Paths(new) /\ \A s \in DOMAIN merged : root \o s \in DOMAIN new
      /\ \A q \in DOMAIN new : IsPrefix(root, q) => \E s \in DOMAIN merged : q = root \o s
  <2>1. \A s \in DOMAIN merged : IsPath(s)
    BY <1>6 DEF Paths
  <2>2. Paths(Put(ev, root, merged))
    BY <1>3, <2>1, PutWrites
  <2>3. \A s \in DOMAIN merged : root \o s \in DOMAIN Put(ev, root, merged)
    BY <1>3, <2>1, PutWrites
  <2>4. \A q \in DOMAIN Put(ev, root, merged) : IsPrefix(root, q) => \E s \in DOMAIN merged : q = root \o s
    BY <1>3, <2>1, PutWrites
  <2> QED
    BY <2>2, <2>3, <2>4
<1> HIDE DEF new
\* Below ._internal.structured a path goes on from the root with structured.
<1>8. ASSUME NEW q, IsPath(q), IsPrefix(Structured, q)
      PROVE  IsPrefix(root, q) /\ \A s : IsPath(s) /\ q = root \o s => s[1] = "structured"
  <2>1. q[1] = "_internal" /\ Len(q) \in Nat /\ Len(q) >= 2 /\ q[2] = "structured"
    BY <1>8, StructuredBelow
  <2>2. IsPrefix(root, q)
    BY <1>3, <1>8, <2>1, PrefixElements
  <2>3. ASSUME NEW s, IsPath(s), q = root \o s
        PROVE  s[1] = "structured"
    <3>1. Len(q) = Len(root) + Len(s) /\ Len(s) \in Nat /\ \A i \in 1..Len(s) : q[Len(root) + i] = s[i]
      BY <1>3, <2>3, JoinedPaths
    <3>2. 1 \in 1..Len(s)
      BY <1>3, <2>1, <3>1
    <3>3. q[Len(root) + 1] = s[1]
      BY <3>1, <3>2
    <3> QED
      BY <1>3, <2>1, <3>3
  <2> QED
    BY <2>2, <2>3
<1>9. \A s \in DOMAIN o : IsPath(s) /\ s[1] # "structured"
  BY DEF Foreign, CollectorFields, Paths
<1>10. Has(new, Structured)
  <2>1. PICK s \in DOMAIN o : TRUE
    BY DEF Foreign
  <2> DEFINE q == Structured \o s
  <2>2. q \in DOMAIN whole /\ IsPath(q) /\ IsPrefix(Structured, q)
    BY <1>2, <1>9, <2>1, StructuredHeads, PrefixOfConcat, JoinedPaths
  <2> HIDE DEF q
  <2>3. PICK r \in DOMAIN object : q = root \o r
    BY <1>4, <1>8, <2>2
  <2>4. r[1] = "structured"
    BY <1>4, <1>8, <2>2, <2>3 DEF Paths
  <2>5. r \in DOMAIN merged
    BY <1>5, <1>9, <2>4
  <2> QED
    BY <1>7, <2>2, <2>3, <2>5 DEF Has
<1>11. PlainBelow(new)
  <2>1. SUFFICES ASSUME NEW q \in DOMAIN new, IsPrefix(Structured, q)
                 PROVE  q \in DOMAIN whole
    BY <1>2 DEF PlainBelow
  <2>2. IsPath(q)
    BY <1>7 DEF Paths
  <2>3. PICK s \in DOMAIN merged : q = root \o s
    BY <1>7, <1>8, <2>1, <2>2
  <2>4. s[1] = "structured"
    BY <1>6, <1>8, <2>1, <2>2, <2>3 DEF Paths
  <2>5. s \in DOMAIN object
    BY <1>5, <1>9, <2>4
  <2> QED
    BY <1>4, <2>3, <2>5
<1> QED
  BY <1>1, <1>7, <1>10, <1>11

\* The lines of the API servers.
LEMMA APIReady ==
  ASSUME NEW r \in Records, r.source \in {"kubeAPI", "openshiftAPI"},
         Parsed(Value(r.read, <<"message">>)) # {},
         \A o \in Parsed(Value(r.read, <<"message">>)) : Foreign(o)
  PROVE  Ready(Normalize(r.source, r.read), "audit", r.source)
<1> DEFINE json == Parsed(Value(r.read, <<"message">>))
           o == CHOOSE o \in json : TRUE
           base == setEnvelope(r.read)
           plain == parseStructured(base, o)
           timed == parseStructuredAuditTimestamp(plain)
<1>1. o \in json
  OBVIOUS
<1>2. Paths(o) /\ Foreign(o)
  BY <1>1, ParsedAssumption DEF Parsed, Paths
<1>3. Paths(base)
  BY RecordsAssumption, Enveloped DEF Paths
<1>4. Normalize(r.source, r.read) = AuditNamed(r.source, timed)
  BY DEF Normalize, NewAuditInternalNormalization
<1> HIDE DEF o, base
<1>5. Paths(plain) /\ Has(plain, Structured) /\ PlainBelow(plain)
  BY <1>2, <1>3, ParsedPlain
<1> HIDE DEF plain
<1>6. Writes(timed, plain, {}, {"timestamp", "audit.linux"})
  BY InternalPaths, AuditTimed DEF parseStructuredAuditTimestamp
<1> HIDE DEF timed
<1>7. Paths(timed) /\ Has(timed, Structured) /\ PlainBelow(timed)
  BY <1>5, <1>6, StructuredLeft DEF Writes
<1> QED
  BY <1>4, <1>7, AuditNames

\* Paths under ._internal that are not below one another.
LEMMA PartsApart ==
  /\ \A a, b : a # b => ~IsPrefix(Internal(<<a>>), Internal(<<b>>))
  /\ \A a, b, c : b # c => ~IsPrefix(Internal(<<a, b>>), Internal(<<a, c>>))
  /\ \A a, b, c : ~IsPrefix(Internal(<<a, b>>), Internal(<<c>>))
<1>1. ASSUME NEW p, IsPath(p), NEW q, IsPath(q), IsPrefix(Internal(p), Internal(q))
      PROVE  Len(p) <= Len(q) /\ \A i \in 1..Len(p) : p[i] = q[i]
  BY <1>1, InternalPrefix, PrefixElements
<1>2. ASSUME NEW a, NEW b, a # b
      PROVE  ~IsPrefix(Internal(<<a>>), Internal(<<b>>))
  <2> DEFINE p == <<a>>
             q == <<b>>
  <2>1. IsPath(p) /\ IsPath(q) /\ Len(p) = 1 /\ p[1] # q[1]
    BY <1>2 DEF IsPath
  <2> HIDE DEF p, q
  <2>2. ~IsPrefix(Internal(p), Internal(q))
    BY <1>1, <2>1
  <2> QED
    BY <2>2 DEF p, q
<1>3. ASSUME NEW a, NEW b, NEW c, b # c
      PROVE  ~IsPrefix(Internal(<<a, b>>), Internal(<<a, c>>))
  <2> DEFINE p == <<a, b>>
             q == <<a, c>>
  <2>1. IsPath(p) /\ IsPath(q) /\ 2 \in 1..Len(p) /\ p[2] # q[2]
    BY <1>3 DEF IsPath
  <2> HIDE DEF p, q
  <2>2. ~IsPrefix(Internal(p), Internal(q))
    BY <1>1, <2>1
  <2> QED
    BY <2>2 DEF p, q
<1>4. ASSUME NEW a, NEW b, NEW c
      PROVE  ~IsPrefix(Internal(<<a, b>>), Internal(<<c>>))
  <2> DEFINE p == <<a, b>>
             q == <<c>>
  <2>1. IsPath(p) /\ IsPath(q) /\ Len(p) = 2 /\ Len(q) = 1
    BY DEF IsPath
  <2> HIDE DEF p, q
  <2>2. ~IsPrefix(Internal(p), Internal(q))
    BY <1>1, <2>1
  <2> QED
    BY <2>2 DEF p, q
<1> QED
  BY <1>2, <1>3, <1>4

LEMMA JournalLevelWrites ==
  ASSUME NEW ev
  PROVE  Writes(FixJournalLogLevel(ev), ev, {}, {"level", "PRIORITY"})
<1> DEFINE parts == {"level", "PRIORITY"}
           level == Internal(<<"level">>)
           priority == Internal(<<"PRIORITY">>)
<1>1. /\ IsPath(level) /\ level # << >> /\ Under(level, {}, parts)
      /\ IsPath(priority) /\ priority # << >> /\ Under(priority, {}, parts)
  BY PartUnder
<1>2. \/ \E name : FixJournalLogLevel(ev) = Assign(ev, level, name)
      \/ \E name : FixJournalLogLevel(ev) = Del(Assign(ev, level, name), priority)
  BY DEF FixJournalLogLevel
<1> HIDE DEF level, priority, parts
<1>3. \A name : /\ Writes(Assign(ev, level, name), ev, {}, parts)
                /\ Writes(Del(Assign(ev, level, name), priority), Assign(ev, level, name), {}, parts)
  BY <1>1, AssignWritesUnder, DelWritesUnder
<1>4. \A name : Writes(Del(Assign(ev, level, name), priority), ev, {}, parts)
  BY <1>3, WritesThen
<1>5. Writes(FixJournalLogLevel(ev), ev, {}, parts)
  BY <1>2, <1>3, <1>4
<1> QED
  BY <1>5 DEF parts

LEMMA SystemWrites ==
  ASSUME NEW ev
  PROVE  Writes(SystemU(SystemT(ev)), ev, {}, {"systemd", "_SYSTEMD_UNIT", "SYSLOG_IDENTIFIER"})
<1> DEFINE parts == {"systemd", "_SYSTEMD_UNIT", "SYSLOG_IDENTIFIER"}
           t == Internal(<<"systemd", "t", "SYSTEMD_UNIT">>)
           u == Internal(<<"systemd", "u", "SYSLOG_IDENTIFIER">>)
           unit == Internal(<<"_SYSTEMD_UNIT">>)
           name == Internal(<<"SYSLOG_IDENTIFIER">>)
<1>1. \A p \in {t, u, unit, name} : IsPath(p) /\ p # << >> /\ Under(p, {}, parts)
  BY PartUnder
<1>2. SystemT(ev) = MoveIfExists(ev, t, unit) /\ SystemU(SystemT(ev)) = MoveIfExists(SystemT(ev), u, name)
  BY DEF SystemT, SystemU
<1> HIDE DEF parts, t, u, unit, name
<1>3. Writes(SystemT(ev), ev, {}, parts)
  BY <1>1, <1>2, MoveWritesUnder
<1>4. Writes(SystemU(SystemT(ev)), SystemT(ev), {}, parts)
  BY <1>1, <1>2, MoveWritesUnder
<1>5. Writes(SystemU(SystemT(ev)), ev, {}, parts)
  BY <1>3, <1>4, WritesThen
<1> QED
  BY <1>5 DEF parts

\* The message of a journal entry.
LEMMA JournalTold ==
  ASSUME NEW ev, Paths(ev), Internal(<<"MESSAGE">>) \in DOMAIN ev, ev[Internal(<<"MESSAGE">>)] # Null
  PROVE  HasMessage(SetJournalMessage(ev)) /\ Writes(SetJournalMessage(ev), ev, {}, {"message", "MESSAGE"})
<1> DEFINE to == Internal(<<"message">>)
           from == Internal(<<"MESSAGE">>)
           parts == {"message", "MESSAGE"}
<1>1. /\ IsPath(to) /\ to # << >> /\ Under(to, {}, parts)
      /\ IsPath(from) /\ from # << >> /\ Under(from, {}, parts)
  BY PartUnder
<1>2. ~IsPrefix(from, to)
  BY PartsApart
<1>3. SetJournalMessage(ev) = MoveIfExists(ev, to, from)
  BY DEF SetJournalMessage
<1>4. from \in DOMAIN ev /\ ev[from] # Null
  OBVIOUS
<1>5. HasMessage(SetJournalMessage(ev)) <=> to \in DOMAIN SetJournalMessage(ev) /\ SetJournalMessage(ev)[to] # Null
  BY DEF HasMessage
<1> HIDE DEF to, from, parts
<1>6. Has(ev, from)
  <2>1. IsPrefix(from, from)
    BY DEF IsPrefix
  <2> QED
    BY <1>4, <2>1 DEF Has
<1>7. to \in DOMAIN Move(ev, to, from) /\ Move(ev, to, from)[to] = ev[from]
  BY <1>1, <1>2, <1>4, MovedAt
<1>8. HasMessage(SetJournalMessage(ev))
  BY <1>3, <1>4, <1>5, <1>6, <1>7 DEF MoveIfExists
<1>9. Writes(SetJournalMessage(ev), ev, {}, parts)
  BY <1>1, <1>3, MoveWritesUnder
<1> QED
  BY <1>8, <1>9 DEF parts

\* The entries of the journal.
LEMMA NodeReady ==
  ASSUME NEW r \in Records, r.source = "node", Value(r.read, <<"MESSAGE">>) # Null,
         Value(r.read, <<"PRIORITY">>) \in Priorities
  PROVE  Ready(Normalize(r.source, r.read), "infrastructure", "node")
<1> DEFINE base == setEnvelope(r.read)
           typed == Assign(Assign(base, Internal(<<"log_source">>), "node"), Internal(<<"log_type">>), "infrastructure")
           owned == setClusterID(typed)
           levelled == FixJournalLogLevel(owned)
           told == SetJournalMessage(levelled)
           new == SystemU(SystemT(told))
           at == Internal(<<"MESSAGE">>)
<1>1. Paths(r.read)
  BY RecordsAssumption DEF Paths
<1>2. Paths(base) /\ at \in DOMAIN base /\ base[at] # Null
  BY <1>1, Enveloped, EnvelopeReads DEF Value
<1>3. Normalize(r.source, r.read) = new
  BY DEF Normalize, NewJournalInternalNormalization
<1> HIDE DEF base
<1>4. Named(typed, "infrastructure", "node") /\ Writes(typed, base, {}, {"log_type", "log_source"})
  BY <1>2, NamingNames
<1> HIDE DEF typed
<1>5. Writes(owned, typed, {}, {"openshift"}) /\ Writes(levelled, owned, {}, {"level", "PRIORITY"})
  BY ClusterWrites, JournalLevelWrites
<1> HIDE DEF owned, levelled
<1>6. Paths(typed) /\ Paths(owned) /\ Paths(levelled)
  BY <1>4, <1>5 DEF Named, Writes
<1>7. Leaves(typed, base, at) /\ Leaves(owned, typed, at) /\ Leaves(levelled, owned, at)
  BY <1>2, <1>4, <1>5, <1>6, FieldsLeft
<1>8. at \in DOMAIN levelled /\ levelled[at] # Null
  BY <1>2, <1>7 DEF Leaves
<1>9. HasMessage(told) /\ Writes(told, levelled, {}, {"message", "MESSAGE"})
  BY <1>6, <1>8, JournalTold
<1> HIDE DEF told
<1>10. Writes(new, told, {}, {"systemd", "_SYSTEMD_UNIT", "SYSLOG_IDENTIFIER"})
  BY SystemWrites
<1> HIDE DEF new
<1>11. Named(owned, "infrastructure", "node")
  BY <1>4, <1>5, <1>6, NamesLeft
<1>12. Named(levelled, "infrastructure", "node")
  BY <1>5, <1>6, <1>11, NamesLeft
<1>13. Named(told, "infrastructure", "node")
  BY <1>6, <1>9, <1>12, NamesLeft
<1>14. Named(new, "infrastructure", "node") /\ HasMessage(new)
  BY <1>9, <1>10, <1>13, NamesLeft DEF Named
<1> QED
  BY <1>3, <1>14 DEF Ready, Origin

\* A part of the parsed form that is moved to a place of its own.
LEMMA PartMoved ==
  ASSUME NEW ev, Paths(ev), PlainBelow(ev), NEW a, a # "structured", NEW b
  PROVE  LET new == Move(ev, Internal(<<a>>), Internal(<<"structured", b>>))
         IN  /\ PlainBelow(new) /\ Writes(new, ev, {}, {a, "structured"})
             /\ \A c : c # b => Leaves(new, ev, Internal(<<"structured", c>>))
<1> DEFINE to == Internal(<<a>>)
           from == Internal(<<"structured", b>>)
           copied == Copy(ev, to, from)
           new == Move(ev, to, from)
           parts == {a, "structured"}
<1>1. /\ IsPath(to) /\ to # << >> /\ Under(to, {}, parts) /\ Under(to, {}, {a})
      /\ IsPath(from) /\ from # << >> /\ Under(from, {}, parts)
  BY PartUnder
<1>2. \A c : c # b => ~IsPrefix(from, Internal(<<"structured", c>>))
  BY PartsApart
<1> HIDE DEF to, from, parts
<1>3. Writes(copied, ev, {}, {a}) /\ Writes(new, ev, {}, parts)
  BY <1>1, CopyWritesUnder, MoveWritesUnder
<1>4. new = Del(copied, from)
  BY DEF Move
<1> HIDE DEF copied, new
<1>5. PlainBelow(copied)
  BY <1>3, StructuredLeft
<1>6. PlainBelow(new)
  BY <1>4, <1>5 DEF PlainBelow, Del, Restrict
<1>7. ASSUME NEW c, c # b
      PROVE  Leaves(new, ev, Internal(<<"structured", c>>))
  <2> DEFINE p == <<"structured", c>>
  <2>1. IsPath(p) /\ p # << >> /\ p[1] = "structured"
    BY WordsArePaths
  <2>2. ~IsPrefix(from, Internal(p))
    BY <1>2, <1>7
  <2> HIDE DEF p
  <2>3. IsPath(Internal(p)) /\ ~Under(Internal(p), {}, {a})
    BY <2>1, InternalHeads, InternalUnder
  <2>4. Leaves(copied, ev, Internal(p))
    BY <1>3, <2>3 DEF Writes
  <2>5. Leaves(new, copied, Internal(p))
    BY <1>4, <2>2, DelLeaves
  <2>6. Leaves(new, ev, Internal(p))
    BY <2>4, <2>5 DEF Leaves
  <2> QED
    BY <2>6 DEF p
<1> QED
  BY <1>3, <1>6, <1>7 DEF new, parts, to, from

\* What a syslog receiver was sent.
LEMMA SyslogReady ==
  ASSUME NEW r \in Records, r.source = "syslog", Foreign(r.read)
  PROVE  Ready(Normalize(r.source, r.read), "receiver", "syslog")
<1> DEFINE none == << >>
           enveloped == Put(none, Structured, r.read)
           typed == Assign(Assign(enveloped, Internal(<<"log_source">>), "syslog"), Internal(<<"log_type">>), "receiver")
           time == Internal(<<"structured", "timestamp">>)
           text == Internal(<<"structured", "message">>)
           timed == Move(typed, Internal(<<"timestamp">>), time)
           to == Internal(<<"message">>)
           told == Move(timed, to, text)
           key == <<"message">>
<1>1. Paths(r.read) /\ key \in DOMAIN r.read /\ r.read[key] # Null
  BY RecordsAssumption DEF Paths, Value
<1>2. Paths(none)
  BY DEF Paths
<1>3. Normalize(r.source, r.read) = told
  <2>1. Structured = <<"_internal", "structured">>
    BY WordsJoin, Zenon DEF Structured, Internal
  <2>2. setEnvelopeToStructured(r.read) = enveloped
    BY <2>1 DEF setEnvelopeToStructured
  <2> QED
    BY <2>2 DEF Normalize, NewReceiverInternalNormalization
<1>4. text = Structured \o key
  <2> DEFINE a == <<"structured">>
             ab == <<"structured", "message">>
             root == <<"_internal">>
             S == {"_internal", "structured", "message"}
  <2>1. ab = a \o key
    BY WordsJoin, Zenon
  <2>2. root \in Seq(S) /\ a \in Seq(S) /\ key \in Seq(S)
    OBVIOUS
  <2>3. Internal(ab) = root \o ab /\ Internal(a) = root \o a
    BY DEF Internal
  <2>4. text = Internal(ab) /\ Structured = Internal(a)
    BY DEF Structured
  <2> HIDE DEF a, ab, root, S, key, text
  <2>5. root \o (a \o key) = (root \o a) \o key
    BY <2>2, ConcatAssociative
  <2> QED
    BY <2>1, <2>3, <2>4, <2>5
<1>5. IsPath(to) /\ IsPath(text) /\ ~IsPrefix(text, to)
  BY InternalPaths, PartsApart
<1> HIDE DEF none, key
<1>6. Paths(enveloped) /\ PlainBelow(enveloped) /\ text \in DOMAIN enveloped /\ enveloped[text] # Null
  <2>1. /\ Paths(enveloped) /\ PlainBelow(enveloped)
        /\ \A s \in DOMAIN r.read : Structured \o s \in DOMAIN enveloped /\ enveloped[Structured \o s] = r.read[s]
    BY <1>1, <1>2, StructuredEnvelope
  <2> HIDE DEF enveloped, text
  <2> QED
    BY <1>1, <1>4, <2>1
<1> HIDE DEF enveloped
<1>7. Named(typed, "receiver", "syslog") /\ Writes(typed, enveloped, {}, {"log_type", "log_source"})
  BY <1>6, NamingNames
<1> HIDE DEF typed
<1>8. Paths(typed) /\ PlainBelow(typed)
  BY <1>6, <1>7, StructuredLeft DEF Writes
<1>9. text \in DOMAIN typed /\ typed[text] # Null
  <2>1. IsPath(text) /\ Under(text, {}, {"structured"}) /\ ~Under(text, {}, {"log_type", "log_source"})
    <3> DEFINE p == <<"structured", "message">>
    <3>1. IsPath(p) /\ p # << >> /\ p[1] = "structured"
      BY WordsArePaths
    <3>2. text = Internal(p)
      OBVIOUS
    <3> HIDE DEF p, text
    <3> QED
      BY <3>1, <3>2, InternalHeads, InternalUnder
  <2>2. Leaves(typed, enveloped, text)
    BY <1>6, <1>7, <2>1 DEF Writes
  <2> QED
    BY <1>6, <2>2 DEF Leaves
<1>10. PlainBelow(timed) /\ Writes(timed, typed, {}, {"timestamp", "structured"}) /\ Leaves(timed, typed, text)
  BY <1>8, PartMoved
<1> HIDE DEF timed
<1>11. Paths(timed) /\ Named(timed, "receiver", "syslog") /\ text \in DOMAIN timed /\ timed[text] # Null
  BY <1>7, <1>8, <1>9, <1>10, NamesLeft DEF Leaves
<1>12. PlainBelow(told) /\ Writes(told, timed, {}, {"message", "structured"})
  BY <1>10, <1>11, PartMoved
<1>13. to \in DOMAIN told /\ told[to] = timed[text]
  <2> HIDE DEF to, text
  <2> QED
    BY <1>5, <1>11, MovedAt
<1> HIDE DEF told
<1>14. Named(told, "receiver", "syslog")
  BY <1>11, <1>12, NamesLeft
<1>15. HasMessage(told)
  BY <1>11, <1>13 DEF HasMessage
<1> QED
  BY <1>3, <1>12, <1>14, <1>15 DEF Ready, Origin

\* A parse filter changes the parsed form of a container's message.
LEMMA ParseWrites ==
  ASSUME NEW ev
  PROVE  Writes(ParseFilter(ev), ev, {}, {"structured"})
<1> DEFINE json == Parsed(Value(ev, Internal(<<"message">>)))
           object == CHOOSE o \in json : TRUE
           new == ParseFilter(ev)
           to == Internal(<<"structured">>)
<1>1. ASSUME json # {}
      PROVE  Paths(object)
  <2>1. object \in json
    BY <1>1
  <2> QED
    BY <2>1, ParsedAssumption DEF Parsed, Paths
<1>2. new = ev \/ (json # {} /\ new = Put(ev, to, object))
  BY DEF ParseFilter
<1>3. IsPath(to) /\ to # << >> /\ Under(to, {}, {"structured"})
  BY PartUnder
<1> HIDE DEF object, json, to, new
<1>4. Writes(new, ev, {}, {"structured"})
  BY <1>1, <1>2, <1>3, PutWritesUnder, WritesNothing
<1> QED
  BY <1>4 DEF new

LEMMA ParseReady ==
  ASSUME NEW ev, NEW type, NEW source, Ready(ev, type, source)
  PROVE  Ready(ParseFilter(ev), type, source)
<1> DEFINE new == ParseFilter(ev)
<1>1. Paths(ev) /\ Named(ev, type, source) /\ Value(ev, Internal(<<"log_source">>)) = source
  BY DEF Ready, Named, Value
<1>2. CASE source # "container"
  BY <1>1, <1>2 DEF ParseFilter
<1>3. CASE source = "container"
  <2>1. Writes(new, ev, {}, {"structured"})
    BY ParseWrites
  <2> HIDE DEF new
  <2>2. Named(new, type, source) /\ (HasMessage(ev) => HasMessage(new)) /\ Leaves(new, ev, Internal(<<"message">>))
    BY <1>1, <2>1, NamesLeft, FieldsLeft
  <2>3. HasMessage(new) /\ RouterTells(new)
    BY <1>3, <2>2 DEF Ready, RouterTells, HasMessage, Leaves
  <2>4. Ready(new, type, source)
    BY <1>3, <2>2, <2>3 DEF Ready, Origin
  <2> QED
    BY <2>4 DEF new
<1> QED
  BY <1>2, <1>3

\* What every source writes, if it is what the source should write.
LEMMA NormalizedReady ==
  ASSUME record \in Records, WellFormed
  PROVE  \E type, source : /\ source \in Scripted(record.inputs)
                           /\ Ready(Normalize(record.source, record.read), type, source)
<1>1. /\ record.source \in Sources /\ record.source \in Scripted(record.inputs)
      /\ record.source = "http" => "kubeAPI" \in Scripted(record.inputs)
  BY RecordsAssumption DEF Scripted
<1>2. CASE record.source \in {"auditd", "ovn"}
  BY <1>2, <1>1, LineReady
<1>3. CASE record.source = "container"
  BY <1>3, <1>1, ContainerReady DEF WellFormed
<1>4. CASE record.source \in {"kubeAPI", "openshiftAPI"}
  BY <1>4, <1>1, APIReady DEF WellFormed
<1>5. CASE record.source = "node"
  BY <1>5, <1>1, NodeReady DEF WellFormed
<1>6. CASE record.source = "syslog"
  BY <1>6, <1>1, SyslogReady DEF WellFormed
<1>7. CASE record.source = "http"
  BY <1>7, <1>1, HttpReady DEF WellFormed
<1> QED
  BY <1>1, <1>2, <1>3, <1>4, <1>5, <1>6, <1>7 DEF Sources

-----------------------------------------------------------------------------
(* Required fields *)

LEMMA RequiredRoots ==
  ASSUME NEW q \in RequiredFields
  PROVE  /\ IsPath(q) /\ q # << >> /\ q[1] \in {"log_type", "log_source", "message"} /\ IsPrefix(q, q)
         /\ \A p : IsPath(p) /\ p # << >> /\ IsPrefix(p, q) => p = q
<1>1. PICK name \in {"log_type", "log_source", "message"} : q = <<name>>
  BY DEF RequiredFields
<1>2. IsPath(q) /\ q # << >> /\ q[1] = name /\ Len(q) = 1 /\ IsPrefix(q, q)
  BY <1>1 DEF IsPath, IsPrefix
<1>3. ASSUME NEW p, IsPath(p), p # << >>, IsPrefix(p, q)
      PROVE  p = q
  <2>1. Len(p) = 1 /\ p[1] = name
    BY <1>2, <1>3, PrefixRoot DEF IsPath, IsPrefix
  <2> QED
    BY <1>1, <1>3, <2>1 DEF IsPath
<1> QED
  BY <1>1, <1>2, <1>3

\* Validation and the program of prune together keep the required fields.
LEMMA PruneLeavesRequired ==
  ASSUME NEW f \in FilterSpecs, f.type = "prune", ValidateFilter(f), ~PrunesRequired(f), NEW ev,
         NEW q \in RequiredFields
  PROVE  Leaves(PruneFilter(f, ev), ev, q)
<1>0. /\ RequiredIn(f.in) = {}
      /\ f.notIn # {} => RequiredIn(f.notIn) = RequiredFields
  BY DEF ValidateFilter, validatePruneFilter
<1>1. \A p \in PathSegments(f.in) : ~IsPrefix(p, q)
  <2>1. SUFFICES ASSUME NEW p \in PathSegments(f.in), IsPrefix(p, q)
                 PROVE  FALSE
    OBVIOUS
  <2>2. CASE \E x \in f.in : p = x.segments
    <3>1. PICK x \in f.in : p = x.segments
      BY <2>2
    <3>2. IsPath(p) /\ p # << >>
      BY <3>1, FiltersAssumption
    <3>3. x.segments = q
      BY <2>1, <3>1, <3>2, RequiredRoots
    <3>4. x.quoted = {}
      BY <3>3 DEF PrunesRequired
    <3> QED
      BY <1>0, <3>3, <3>4 DEF RequiredIn
  <2>3. CASE \E x \in f.in : NamesLabel(x) /\ p \in {ForwardedLabel(x), SubSeq(x.segments, 1, 2)}
    <3>1. IsPath(p) /\ p # << >> /\ p[1] = "kubernetes"
      BY <2>3, LabelRoot
    <3> QED
      BY <2>1, <3>1, PrefixRoot, RequiredRoots
  <2> QED
    BY <2>1, <2>2, <2>3 DEF PathSegments
<1>2. f.notIn # {} => \E p \in PathSegments(f.notIn) : IsPrefix(p, q)
  <2>1. SUFFICES ASSUME f.notIn # {}
                 PROVE  \E p \in PathSegments(f.notIn) : IsPrefix(p, q)
    OBVIOUS
  <2>2. q \in RequiredIn(f.notIn)
    BY <1>0, <2>1
  <2>3. q \in PathSegments(f.notIn)
    BY <2>2 DEF RequiredIn, PathSegments
  <2> QED
    BY <2>3, RequiredRoots
<1> QED
  BY <1>1, <1>2 DEF Leaves, PruneFilter, KeepPaths, RemovePaths, Restrict

\* The required fields are as viaq left them.
RequiredLeft ==
  (\A i \in DOMAIN filters : ~PrunesRequired(filters[i])) => \A q \in RequiredFields : Leaves(event, Prepared, q)

RequiredInv ==
  /\ record \in Records
  /\ \A i \in DOMAIN filters : filters[i] \in FilterSpecs /\ ValidateFilter(filters[i])
  /\ pass = "late" => RequiredLeft

LEMMA RequiredStep ==
  ASSUME RequiredInv, NEW i \in DOMAIN filters, Advance(i),
         ~PrunesRequired(filters[i]) => \A q \in RequiredFields : Leaves(event', event, q)
  PROVE  RequiredInv'
<1>1. record' = record /\ filters' = filters /\ pass' = pass
  BY DEF Advance
<1>2. Prepared' = Prepared
  BY <1>1, PreparedStays
<1>3. pass = "late" => RequiredLeft'
  BY <1>1, <1>2 DEF RequiredInv, RequiredLeft, Leaves
<1> QED
  BY <1>1, <1>3 DEF RequiredInv

LEMMA RequiredKept ==
  Spec => []RequiredInv
<1>1. Init => RequiredInv
  <2>1. SUFFICES ASSUME Init
                 PROVE  RequiredInv
    OBVIOUS
  <2>2. PICK n \in 0..MaxFilters : filters \in [1..n -> {f \in FilterSpecs : ValidateFilter(f)}]
    BY <2>1 DEF Init
  <2> QED
    BY <2>1, <2>2 DEF Init, RequiredInv
<1>2. IInv /\ RequiredInv /\ [Next]_vars => RequiredInv'
  <2>1. SUFFICES ASSUME IInv, RequiredInv, [Next]_vars
                 PROVE  RequiredInv'
    OBVIOUS
  <2>2. CASE NormalizeRecord
    BY <2>1, <2>2 DEF RequiredInv, NormalizeRecord
  <2>3. CASE RunParse
    BY <2>1, <2>3 DEF RunParse, AtFilter, Remaining, InPass, IsEarlyStage, Advance, RequiredInv
  <2>4. CASE RunDetectExceptions
    BY <2>1, <2>4 DEF RunDetectExceptions, AtFilter, Remaining, InPass, IsEarlyStage, Advance, RequiredInv
  <2>5. CASE RunViaq
    <3>1. event' = Prepared'
      BY <2>1, <2>5, ViaqPrepares
    <3>2. RequiredLeft'
      BY <3>1 DEF RequiredLeft, Leaves
    <3> QED
      BY <2>1, <2>5, <3>2 DEF RunViaq, RequiredInv
  <2>6. CASE RunLabels
    <3>1. PICK i \in DOMAIN filters :
            AtFilter(i, "openshiftLabels") /\ Pass(LabelsFilter(filters[i], event)) /\ Advance(i)
      BY <2>6 DEF RunLabels
    <3>2. filters[i] \in FilterSpecs /\ filters[i].type = "openshiftLabels"
      BY <2>1, <3>1 DEF RequiredInv, AtFilter
    <3>3. \A q \in RequiredFields : q[1] # "openshift" /\ ~IsPrefix(LabelsPath, q)
      BY RequiredRoots, LabelsRoot
    <3>4. \A q \in RequiredFields : Leaves(event', event, q)
      BY <3>1, <3>2, <3>3, LabelsLeave DEF Pass
    <3> QED
      BY <2>1, <3>1, <3>4, RequiredStep
  <2>7. CASE RunDrop
    <3>1. PICK i \in DOMAIN filters : event' = event /\ Advance(i)
      BY <2>7 DEF RunDrop, Drop, Pass
    <3> QED
      BY <2>1, <3>1, RequiredStep DEF Leaves
  <2>8. CASE RunPrune
    <3>1. PICK i \in DOMAIN filters :
            AtFilter(i, "prune") /\ Pass(PruneFilter(filters[i], event)) /\ Advance(i)
      BY <2>8 DEF RunPrune
    <3>2. filters[i] \in FilterSpecs /\ filters[i].type = "prune" /\ ValidateFilter(filters[i])
      BY <2>1, <3>1 DEF RequiredInv, AtFilter
    <3>3. ~PrunesRequired(filters[i]) => \A q \in RequiredFields : Leaves(event', event, q)
      BY <3>1, <3>2, PruneLeavesRequired DEF Pass
    <3> QED
      BY <2>1, <3>1, <3>3, RequiredStep
  <2>9. CASE RunAudit
    <3>1. PICK i \in DOMAIN filters :
            Advance(i) /\ (event' = event \/ event' = AuditFilter(filters[i], event))
      BY <2>9 DEF RunAudit, Drop, Pass
    <3>2. \A q \in RequiredFields : q[1] # "level" /\ q[1] \notin BodyRoots \cup {"metadata"}
      BY RequiredRoots DEF BodyRoots
    <3>3. \A q \in RequiredFields : Leaves(AuditFilter(filters[i], event), event, q) /\ Leaves(event, event, q)
      BY <3>2, AuditLeaves DEF Leaves
    <3>4. \A q \in RequiredFields : Leaves(event', event, q)
      BY <3>1, <3>3
    <3> QED
      BY <2>1, <3>1, <3>4, RequiredStep
  <2>10. CASE UNCHANGED vars
    BY <2>1, <2>10, PreparedStays DEF vars, RequiredInv, RequiredLeft
  <2> QED
    BY <2>1, <2>2, <2>3, <2>4, <2>5, <2>6, <2>7, <2>8, <2>9, <2>10 DEF Next
<1> QED
  BY <1>1, <1>2, Invariant, PTL DEF Spec

\* A delivered record has the required fields that viaq gave it.
RequiredAsPrepared ==
  Delivered /\ (\A i \in DOMAIN filters : ~PrunesRequired(filters[i])) =>
    \A q \in RequiredFields : Value(event, q) = Value(Prepared, q)

\* The validation of prune filters (validatePruneFilter of
\* internal/validations/observability/filters) is enough to deliver the type, the
\* source and the message as viaq left them, through any other filters, unless a
\* filter spells one of them in quotes.
THEOREM RequiredDelivered ==
  Spec => []RequiredAsPrepared
<1>1. RequiredInv => RequiredAsPrepared
  BY DEF RequiredInv, RequiredLeft, RequiredAsPrepared, Delivered, Leaves, Value
<1> QED
  BY <1>1, RequiredKept, PTL

\* Whatever filters a container's record goes through, parsed or not, written by
\* the event router or not, known to Vector or not, it is delivered with the type
\* of its namespace (logTypeContainer and recoverMetadataFromFilePath of
\* internal/generator/vector/input/internal.go).
THEOREM TypeFollowsNamespace ==
  Spec => []TypedByNamespace
<1>1. RequiredInv => TypedByNamespace
  <2> DEFINE type == TypeOf(record.read[<<"file", "namespace">>])
             normalized == Normalize(record.source, record.read)
             parsed == IF \E i \in DOMAIN filters : filters[i].type = "parse"
                       THEN ParseFilter(normalized) ELSE normalized
  <2>1. SUFFICES ASSUME RequiredInv, Delivered, record.source = "container",
                        \A i \in DOMAIN filters : ~PrunesRequired(filters[i])
                 PROVE  Value(event, <<"log_type">>) = type
    BY DEF TypedByNamespace, TypeOf
  <2>2. Named(normalized, type, "container")
    BY <2>1, ContainerNamed DEF RequiredInv
  <2>3. Prepared = Viaq(record.inputs, parsed) /\ "container" \in record.inputs
    BY <2>1, RecordsAssumption DEF Prepared, RequiredInv
  <2>4. type # "audit"
    BY DEF TypeOf
  <2> HIDE DEF normalized, type
  <2>5. Named(parsed, type, "container")
    BY <2>2, ParseWrites, NamesLeft DEF Named
  <2> HIDE DEF parsed
  <2>6. NamedOnRoot(Prepared, type, "container")
    BY <2>3, <2>4, <2>5, ViaqTyped
  <2>7. Leaves(event, Prepared, <<"log_type">>)
    BY <2>1 DEF RequiredInv, RequiredLeft, RequiredFields, Delivered
  <2> QED
    BY <2>6, <2>7 DEF NamedOnRoot, Leaves, Value
<1> QED
  BY <1>1, RequiredKept, PTL

\* What leaves viaq says where it is from and what it tells.
LEMMA PreparedSourced ==
  ASSUME record \in Records, WellFormed
  PROVE  \E type, source : Origin(type, source) /\ Sourced(Prepared, type, source)
<1> DEFINE normalized == Normalize(record.source, record.read)
           parsed == IF \E i \in DOMAIN filters : filters[i].type = "parse"
                     THEN ParseFilter(normalized) ELSE normalized
<1>1. PICK type, source : source \in Scripted(record.inputs) /\ Ready(normalized, type, source)
  BY NormalizedReady
<1>2. Prepared = Viaq(record.inputs, parsed)
  BY DEF Prepared
<1> HIDE DEF normalized
<1>3. Ready(parsed, type, source)
  BY <1>1, ParseReady
<1> HIDE DEF parsed
<1>4. Sourced(Prepared, type, source)
  BY <1>1, <1>2, <1>3, ViaqSourced
<1> QED
  BY <1>3, <1>4 DEF Ready

\* The filters after viaq leave ._internal but for the labels.
LEMMA InternalAsPrepared ==
  ASSUME IInv, Delivered, \A i \in DOMAIN filters : ~PrunesInternal(filters[i]),
         NEW q, IsPath(q), Len(q) >= 2, q[1] = "_internal", q[2] # "openshift"
  PROVE  Leaves(event, Prepared, q)
<1>1. SameInternal(event, Prepared)
  BY DEF IInv, LatePart, InternalKept, Delivered
<1>2. ~IsPrefix(LabelsPath, q)
  <2> DEFINE p == <<"openshift", "labels">>
  <2>1. IsPath(p) /\ p # << >> /\ p[1] = "openshift"
    BY WordsArePaths
  <2>2. LabelsPath = Internal(p)
    BY DEF LabelsPath
  <2> HIDE DEF p
  <2>3. IsPath(LabelsPath) /\ Len(LabelsPath) >= 2 /\ LabelsPath[2] = "openshift"
    BY <2>1, <2>2, InternalHeads
  <2>4. Len(LabelsPath) \in Nat
    BY <2>3 DEF IsPath
  <2> QED
    BY <2>3, <2>4, PrefixElements
<1>3. IsPrefix(<<"_internal">>, q)
  <2> DEFINE root == <<"_internal">>
  <2>1. IsPath(root) /\ Len(root) = 1 /\ root[1] = "_internal" /\ Len(q) \in Nat
    BY DEF IsPath
  <2> HIDE DEF root
  <2>2. IsPrefix(root, q)
    BY <2>1, PrefixElements
  <2> QED
    BY <2>2 DEF root
<1> QED
  BY <1>1, <1>2, <1>3 DEF SameInternal, Same, Leaves

\* A delivered record says where it is from and tells its message, as viaq
\* (internal/generator/vector/filter/openshift/viaq/v1) and the normalization of
\* its input (internal/generator/vector/input/internal.go) gave them to it: for
\* every source, any texts and objects it writes that are well-formed, and any
\* valid filters, of which none spells a required field in quotes or names
\* internal fields.
THEOREM RequiredFieldsDelivered ==
  Spec => []RequiredFieldsKept
<1>1. IInv /\ RequiredInv => RequiredFieldsKept
  <2>1. SUFFICES ASSUME IInv, RequiredInv, Delivered, WellFormed,
                        \A i \in DOMAIN filters : ~PrunesRequired(filters[i]) /\ ~PrunesInternal(filters[i])
                 PROVE  /\ Value(event, <<"log_type">>) \in {"application", "infrastructure", "audit"}
                        /\ Value(event, <<"log_source">>) # Null
                        /\ ~Has(event, Structured) =>
                             Value(event, <<"message">>) \in {Value(event, Internal(<<"message">>))} \ {Null}
    BY DEF RequiredFieldsKept, Structured
  <2>2. PICK type, source : Origin(type, source) /\ Sourced(Prepared, type, source)
    BY <2>1, PreparedSourced DEF RequiredInv
  <2>3. /\ Leaves(event, Prepared, <<"log_type">>) /\ Leaves(event, Prepared, <<"log_source">>)
        /\ Leaves(event, Prepared, <<"message">>)
    BY <2>1 DEF RequiredInv, RequiredLeft, RequiredFields, Delivered
  <2>4. Leaves(event, Prepared, Internal(<<"message">>))
    <3> DEFINE p == <<"message">>
    <3>1. IsPath(p) /\ p # << >> /\ p[1] = "message"
      BY WordsArePaths
    <3> HIDE DEF p
    <3>2. Leaves(event, Prepared, Internal(p))
      BY <2>1, <3>1, InternalHeads, InternalAsPrepared
    <3> QED
      BY <3>2 DEF p
  <2>5. Has(Prepared, Structured) => Has(event, Structured)
    <3>1. SUFFICES ASSUME NEW q \in DOMAIN Prepared, IsPrefix(Structured, q)
                   PROVE  q \in DOMAIN event
      BY DEF Has
    <3>2. IsPath(q)
      BY <2>2 DEF Sourced, Named, Paths
    <3>3. Leaves(event, Prepared, q)
      BY <2>1, <3>1, <3>2, StructuredBelow, InternalAsPrepared
    <3> QED
      BY <3>3 DEF Leaves
  <2>6. NamedOnRoot(Prepared, IF source = "syslog" THEN "infrastructure" ELSE type,
                    IF source = "syslog" THEN "node" ELSE source)
        /\ Told(Prepared)
    BY <2>2 DEF Sourced
  <2>7. Value(event, <<"log_type">>) \in {"application", "infrastructure", "audit"}
    BY <2>2, <2>3, <2>6 DEF Origin, NamedOnRoot, Leaves, Value
  <2>8. Value(event, <<"log_source">>) # Null
    BY <2>2, <2>3, <2>6 DEF Origin, NamedOnRoot, Leaves, Value, Null
  <2>9. ~Has(event, Structured) => Value(event, <<"message">>) \in {Value(event, Internal(<<"message">>))} \ {Null}
    BY <2>3, <2>4, <2>5, <2>6 DEF Told, HasMessage, Leaves, Value
  <2> QED
    BY <2>7, <2>8, <2>9
<1> QED
  BY <1>1, Invariant, RequiredKept, PTL

===============================================================================
