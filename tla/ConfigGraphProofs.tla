-------------------------- MODULE ConfigGraphProofs --------------------------
(***************************************************************************)
(* That the generated configuration holds together, for every forwarder:    *)
(* nothing that was added is replaced, whatever a component refers to is    *)
(* there, and no record goes astray or past a filter.                       *)
(***************************************************************************)
EXTENDS ConfigGraph, SequenceTheorems, FiniteSetTheorems, WellFoundedInduction, TLAPS

-----------------------------------------------------------------------------
(* Ids.  An id is below another one if that one, a word and possibly more    *)
(* make it up.                                                               *)

\* The words that the generator itself uses.
OwnWords ==
  {"input", "pipeline", "output", "viaq", "label", "tenant", "id", "streams", "name", "prefix", "severity",
   "encoding", "reserved", "keywords", "context", "unmatched", "logs", "source"}
  \cup InputWords \cup OutputWords

Word == STRING \cup OwnWords

Below(id, base, word) ==
  /\ id \in Seq(Word) /\ base \in Seq(Word)
  /\ Len(base) < Len(id)
  /\ \A i \in 1..Len(base) : id[i] = base[i]
  /\ id[Len(base) + 1] = word

Belongs(id, base, words) == id = base \/ \E word \in words : Below(id, base, word)

LEMMA Prefixed ==
  ASSUME NEW words, NEW kind \in words, NEW n \in Seq(words)
  PROVE  /\ <<kind>> \o n \in Seq(words) /\ Len(<<kind>> \o n) = Len(n) + 1
         /\ (<<kind>> \o n)[1] = kind
         /\ \A i \in 1..Len(n) : (<<kind>> \o n)[i + 1] = n[i]
<1>1. <<kind>> \in Seq(words) /\ Len(<<kind>>) = 1 /\ <<kind>>[1] = kind
  OBVIOUS
<1>2. /\ <<kind>> \o n \in Seq(words) /\ Len(<<kind>> \o n) = 1 + Len(n)
      /\ \A i \in 1..(1 + Len(n)) : (<<kind>> \o n)[i] = IF i <= 1 THEN <<kind>>[i] ELSE n[i - 1]
  BY <1>1, ConcatProperties
<1>3. Len(n) \in Nat
  OBVIOUS
<1> QED
  BY <1>1, <1>2, <1>3

LEMMA WordsAre ==
  /\ OwnWords \subseteq Word /\ InputWords \subseteq Word /\ OutputWords \subseteq Word
  /\ "input" \in Word /\ "pipeline" \in Word /\ "output" \in Word
  /\ \A n \in Names : n \in Seq(Word) /\ n # <<>>
<1>1. STRING \subseteq Word /\ OwnWords \subseteq Word
  BY Zenon DEF Word
<1>2. Names \subseteq Seq(STRING)
  BY Zenon DEF Names
<1>3. Seq(STRING) \subseteq Seq(Word)
  BY <1>1, SeqMonotonic
<1>4. \A n \in Names : n # <<>>
  BY Zenon DEF Names
<1>5. InputWords \subseteq OwnWords /\ OutputWords \subseteq OwnWords /\ {"input", "pipeline", "output"} \subseteq OwnWords
  BY DEF OwnWords
<1> HIDE DEF OwnWords
<1> QED
  BY <1>1, <1>2, <1>3, <1>4, <1>5, Zenon

\* What the ids of inputs, pipelines and outputs begin with.
LEMMA IDsAre ==
  ASSUME NEW n \in Names
  PROVE  MakeInputID(n) \in Seq(Word) /\ <<"pipeline">> \o n \in Seq(Word) /\ MakeOutputID(n) \in Seq(Word)
<1>1. n \in Seq(Word)
  BY WordsAre, Zenon
<1>2. \A kind \in Word : <<kind>> \o n \in Seq(Word)
  BY <1>1, Prefixed
<1>3. "input" \in Word /\ "pipeline" \in Word /\ "output" \in Word
  BY WordsAre
<1> QED
  BY <1>2, <1>3, Zenon DEF MakeInputID, MakeOutputID

LEMMA BelowConcat ==
  ASSUME NEW base \in Seq(Word), NEW end \in Seq(Word), end # <<>>
  PROVE  /\ base \o end \in Seq(Word)
         /\ Below(base \o end, base, end[1])
         /\ Len(base \o end) = Len(base) + Len(end)
BY ConcatProperties DEF Below

LEMMA WordBelow ==
  ASSUME NEW base \in Seq(Word), NEW word \in Word
  PROVE  Below(base \o <<word>>, base, word)
<1>1. <<word>> \in Seq(Word) /\ <<word>> # <<>> /\ <<word>>[1] = word
  OBVIOUS
<1> QED
  BY <1>1, BelowConcat

LEMMA TwoWordsBelow ==
  ASSUME NEW base \in Seq(Word), NEW first \in Word, NEW second \in Word
  PROVE  Below(base \o <<first, second>>, base, first)
<1>1. <<first, second>> \in Seq(Word) /\ <<first, second>> # <<>> /\ <<first, second>>[1] = first
  OBVIOUS
<1> QED
  BY <1>1, BelowConcat

LEMMA BelowBelow ==
  ASSUME NEW base, NEW id, NEW next, NEW word, NEW other, Below(id, base, word), Below(next, id, other)
  PROVE  Below(next, base, word)
BY DEF Below

LEMMA BelowDiffers ==
  ASSUME NEW base, NEW id, NEW word, Below(id, base, word)
  PROVE  /\ id \in Seq(Word) /\ id # base
         /\ \A other : Below(id, base, other) => other = word
         /\ Len(base) > 0 => id[1] = base[1]
BY DEF Below

\* The ids of things with different names are different.
LEMMA ApartBelongs ==
  ASSUME NEW names, names \subseteq Names, NEW words, Apart(names, words), NEW kind \in Word,
         NEW n \in names, NEW m \in names, NEW id,
         Belongs(id, <<kind>> \o n, words), Belongs(id, <<kind>> \o m, words)
  PROVE  n = m
<1> DEFINE a == <<kind>> \o n
           b == <<kind>> \o m
<1>1. n \in Seq(Word) /\ m \in Seq(Word)
  BY WordsAre
<1>2. /\ a \in Seq(Word) /\ Len(a) = Len(n) + 1 /\ \A i \in 1..Len(n) : a[i + 1] = n[i]
      /\ b \in Seq(Word) /\ Len(b) = Len(m) + 1 /\ \A i \in 1..Len(m) : b[i + 1] = m[i]
  BY <1>1, Prefixed
<1>3. Belongs(id, a, words) /\ Belongs(id, b, words)
  OBVIOUS
<1> HIDE DEF a, b
<1>4. /\ Len(id) \in Nat /\ Len(a) <= Len(id) /\ \A i \in 1..Len(a) : id[i] = a[i]
      /\ Len(b) <= Len(id) /\ \A i \in 1..Len(b) : id[i] = b[i]
      /\ Len(a) < Len(id) => id[Len(a) + 1] \in words
      /\ Len(b) < Len(id) => id[Len(b) + 1] \in words
  BY <1>2, <1>3 DEF Belongs, Below
<1>5. \A i \in 1..Len(n) : i <= Len(m) => n[i] = m[i]
  <2> SUFFICES ASSUME NEW i \in 1..Len(n), i <= Len(m)
               PROVE  n[i] = m[i]
    OBVIOUS
  <2>1. id[i + 1] = a[i + 1] /\ id[i + 1] = b[i + 1]
    BY <1>1, <1>2, <1>4
  <2>2. a[i + 1] = n[i] /\ i \in 1..Len(m)
    BY <1>1, <1>2
  <2>3. b[i + 1] = m[i]
    BY <1>2, <2>2
  <2> QED
    BY <2>1, <2>2, <2>3
<1>6. CASE Len(n) = Len(m)
  BY <1>1, <1>5, <1>6, SeqEqual
<1>7. CASE Len(n) < Len(m)
  <2>0. Len(n) + 1 \in 1..Len(m) /\ Len(a) + 1 = (Len(n) + 1) + 1 /\ Len(a) + 1 \in 1..Len(b)
    BY <1>1, <1>2, <1>7
  <2>1. id[Len(a) + 1] = b[Len(a) + 1] /\ b[Len(a) + 1] = m[Len(n) + 1]
    BY <1>2, <1>4, <2>0
  <2>2. m[Len(n) + 1] \in words
    BY <1>1, <1>2, <1>4, <1>7, <2>1
  <2>3. \A i \in DOMAIN n : m[i] = n[i]
    BY <1>1, <1>5, <1>7
  <2> QED
    BY <1>7, <2>2, <2>3 DEF Apart
<1>8. CASE Len(m) < Len(n)
  <2>0. Len(m) + 1 \in 1..Len(n) /\ Len(b) + 1 = (Len(m) + 1) + 1 /\ Len(b) + 1 \in 1..Len(a)
    BY <1>1, <1>2, <1>8
  <2>1. id[Len(b) + 1] = a[Len(b) + 1] /\ a[Len(b) + 1] = n[Len(m) + 1]
    BY <1>2, <1>4, <2>0
  <2>2. n[Len(m) + 1] \in words
    BY <1>1, <1>2, <1>4, <1>8, <2>1
  <2>3. \A i \in DOMAIN m : n[i] = m[i]
    BY <1>1, <1>5, <1>8
  <2> QED
    BY <1>8, <2>2, <2>3 DEF Apart
<1> QED
  BY <1>1, <1>6, <1>7, <1>8

\* The kind of a thing is the first word of its ids.
LEMMA KindFirst ==
  ASSUME NEW kind \in Word, NEW n \in Names, NEW words, NEW id, Belongs(id, <<kind>> \o n, words)
  PROVE  id \in Seq(Word) /\ id[1] = kind
<1>1. n \in Seq(Word)
  BY WordsAre
<1> DEFINE base == <<kind>> \o n
<1>2. base \in Seq(Word) /\ base[1] = kind /\ Len(base) = Len(n) + 1
  BY <1>1, Prefixed
<1>3. Belongs(id, base, words)
  OBVIOUS
<1>4. 1 \in 1..Len(base)
  BY <1>1, <1>2
<1> HIDE DEF base
<1> QED
  BY <1>2, <1>3, <1>4 DEF Belongs, Below

-----------------------------------------------------------------------------
(* Configurations *)

\* The components are among these.
Holds(components, all) ==
  /\ DOMAIN components \subseteq DOMAIN all
  /\ \A id \in DOMAIN components : all[id] = components[id]

Fits(component, port) ==
  /\ component.kind # "sink"
  /\ component.does = "route" <=> port.route # ""
  /\ port.route \in {"", "_unmatched"} \/ port.route \in component.arg.values

Resolves(port, all) == port.id \in DOMAIN all /\ Fits(all[port.id], port)

\* What Vector accepts; and the metrics refer to counters.
Wired(component, all) ==
  /\ component.kind # "source" => component.inputs # {}
  /\ \A port \in component.inputs : Resolves(port, all)
  /\ component.does = "count" => component.kind # "sink"

AllWired(components, all) == \A id \in DOMAIN components : Wired(components[id], all)

LEMMA Merged ==
  ASSUME NEW maps
  PROVE  /\ \A id : id \in DOMAIN MergeAll(maps) <=> \E m \in maps : id \in DOMAIN m
         /\ \A id \in DOMAIN MergeAll(maps) : \E m \in maps : id \in DOMAIN m /\ MergeAll(maps)[id] = m[id]
         /\ \A m \in maps : \A id \in DOMAIN m :
              (\A k \in maps : id \in DOMAIN k => k = m) =>
                id \in DOMAIN MergeAll(maps) /\ MergeAll(maps)[id] = m[id]
<1>1. DOMAIN MergeAll(maps) = UNION {DOMAIN m : m \in maps}
  BY DEF MergeAll
<1>2. ASSUME NEW id \in DOMAIN MergeAll(maps)
      PROVE  \E m \in maps : id \in DOMAIN m /\ MergeAll(maps)[id] = m[id]
  <2>1. \E m \in maps : id \in DOMAIN m
    BY <1>1
  <2> DEFINE m == CHOOSE k \in maps : id \in DOMAIN k
  <2>2. m \in maps /\ id \in DOMAIN m
    BY <2>1
  <2>3. MergeAll(maps)[id] = m[id]
    BY <1>1 DEF MergeAll
  <2> QED
    BY <2>2, <2>3
<1> QED
  BY <1>1, <1>2

LEMMA OneIs ==
  ASSUME NEW id, NEW component
  PROVE  DOMAIN One(id, component) = {id} /\ \A x \in DOMAIN One(id, component) : One(id, component)[x] = component
BY DEF One

LEMMA NoneIs == DOMAIN NoComponents = {}
BY DEF NoComponents

LEMMA ComponentIs ==
  ASSUME NEW kind, NEW does, NEW inputs, NEW arg
  PROVE  LET c == Component(kind, does, inputs, arg)
         IN  c.kind = kind /\ c.does = does /\ c.inputs = inputs /\ c.arg = arg
BY DEF Component

\* What holds of all components of all maps holds when they are merged.
LEMMA MergedWired ==
  ASSUME NEW maps, NEW all, \A m \in maps : AllWired(m, all)
  PROVE  AllWired(MergeAll(maps), all)
BY Merged DEF AllWired

LEMMA OneWired ==
  ASSUME NEW id, NEW component, NEW all, Wired(component, all)
  PROVE  AllWired(One(id, component), all)
BY OneIs DEF AllWired

LEMMA NoneWired == \A all : AllWired(NoComponents, all)
BY NoneIs DEF AllWired

LEMMA OverHolds ==
  ASSUME NEW added, NEW old, \A id \in DOMAIN added : id \notin DOMAIN old
  PROVE  /\ Holds(added, Over(added, old)) /\ Holds(old, Over(added, old))
         /\ DOMAIN Over(added, old) = DOMAIN added \cup DOMAIN old
BY DEF Over, Holds

LEMMA StaysWired ==
  ASSUME NEW some, NEW all, Holds(some, all)
  PROVE  /\ \A port : Resolves(port, some) => Resolves(port, all)
         /\ \A component : Wired(component, some) => Wired(component, all)
         /\ \A components : AllWired(components, some) => AllWired(components, all)
<1>1. \A port : Resolves(port, some) => Resolves(port, all)
  BY DEF Resolves, Holds
<1>2. \A component : Wired(component, some) => Wired(component, all)
  BY <1>1 DEF Wired
<1> QED
  BY <1>1, <1>2 DEF AllWired

-----------------------------------------------------------------------------
(* Inputs *)

\* A component that is neither a sink nor a route can be referred to by its id.
Plainly(components) ==
  \A id \in DOMAIN components : components[id].kind # "sink" /\ components[id].does # "route"

LEMMA PlainResolves ==
  ASSUME NEW components, Plainly(components), NEW id \in DOMAIN components
  PROVE  Resolves(Plain(id), components)
BY DEF Plainly, Resolves, Fits, Plain

LEMMA MergedPlainly ==
  ASSUME NEW maps, \A m \in maps : Plainly(m)
  PROVE  Plainly(MergeAll(maps))
BY Merged DEF Plainly

LEMMA OnePlainly ==
  ASSUME NEW id, NEW component, component.kind # "sink", component.does # "route"
  PROVE  Plainly(One(id, component))
BY OneIs DEF Plainly

LEMMA LogSourcesOf ==
  ASSUME NEW i, i.type \in InputTypes,
         i.type = "infrastructure" => i.sources \subseteq InfrastructureSources,
         i.type = "audit" => i.sources \subseteq AuditSources
  PROVE  /\ LogSources(i) # {}
         /\ \A s \in LogSources(i) : s.word = <<>> \/ \E w \in InputWords : s.word = <<w>>
<1>0. \A word, from, type, source : LogSource(word, from, type, source).word = word
  BY DEF LogSource
<1>1. CASE i.type = "application"
  <2>1. LogSources(i) = {ContainerLogs(NamespacesOf(i))}
    BY <1>1 DEF LogSources
  <2> QED
    BY <1>0, <2>1 DEF ContainerLogs, InputWords
<1>2. CASE i.type = "infrastructure"
  <2>1. LogSources(i) = {IF s = "container" THEN ContainerLogs({"infraNamespace"}) ELSE JournalLogs
                           : s \in Chosen(i.sources, InfrastructureSources)}
    BY <1>2 DEF LogSources
  <2>2. Chosen(i.sources, InfrastructureSources) # {}
    BY DEF Chosen, InfrastructureSources
  <2> QED
    BY <1>0, <2>1, <2>2 DEF ContainerLogs, JournalLogs, InputWords
<1>3. CASE i.type = "audit"
  <2>1. LogSources(i) = {AuditLogs(s) : s \in Chosen(i.sources, AuditSources)}
    BY <1>3 DEF LogSources
  <2>2. Chosen(i.sources, AuditSources) # {} /\ Chosen(i.sources, AuditSources) \subseteq AuditSources
    BY <1>3 DEF Chosen, AuditSources
  <2>3. \A s \in AuditSources : AuditWord[s] \in InputWords
    BY DEF AuditSources, AuditWord, InputWords
  <2>4. \A s : AuditLogs(s).word = <<AuditWord[s]>>
    BY <1>0 DEF AuditLogs
  <2>5. ASSUME NEW s \in LogSources(i)
        PROVE  \E w \in InputWords : s.word = <<w>>
    <3>1. PICK a \in AuditSources : s = AuditLogs(a)
      BY <2>1, <2>2
    <3> QED
      BY <2>3, <2>4, <3>1
  <2> QED
    BY <2>1, <2>2, <2>5
<1>4. CASE i.type \notin {"application", "infrastructure", "audit"}
  <2>1. LogSources(i) = {ReceivedLogs(i.type)}
    BY <1>4 DEF LogSources
  <2> QED
    BY <1>0, <2>1 DEF ReceivedLogs
<1> QED
  BY <1>1, <1>2, <1>3, <1>4

\* The components of a log source refer to each other, and the last one is there.
LEMMA LogSourceWired ==
  ASSUME NEW n, NEW i, NEW s
  PROVE  LET added == LogSourceComponents(n, i, s)
             base == MakeInputID(n) \o s.word
         IN  /\ DOMAIN added \subseteq {base, base \o <<"items">>, base \o <<"meta">>, base \o <<"throttle">>}
             /\ LastID(n, i, s) \in DOMAIN added
             /\ Plainly(added) /\ AllWired(added, added)
<1> DEFINE base == MakeInputID(n) \o s.word
           items == base \o <<"items">>
           meta == base \o <<"meta">>
           throttle == base \o <<"throttle">>
           isHttp == i.type = "http"
           records == {[input |-> n, from |-> f, type |-> "", source |-> "", way |-> <<>>, traced |-> 0] : f \in s.from}
           normalize == Component("transform", "normalize", {Plain(IF isHttp THEN items ELSE base)},
                                  [type |-> s.type, source |-> s.source])
           first == One(base, Source(records))
           second == One(meta, normalize)
           third == IF isHttp THEN One(items, Pass({Plain(base)})) ELSE NoComponents
           fourth == IF Throttled(i, s) THEN One(throttle, Pass({Plain(meta)})) ELSE NoComponents
           maps == {first, second, third, fourth}
           added == MergeAll(maps)
<1>1. LogSourceComponents(n, i, s) = added
  BY DEF LogSourceComponents
<1>2. LastID(n, i, s) = IF Throttled(i, s) THEN throttle ELSE meta
  BY DEF LastID
<1> HIDE DEF base, items, meta, throttle, records
<1>3. /\ DOMAIN first = {base} /\ DOMAIN second = {meta}
      /\ DOMAIN third = IF isHttp THEN {items} ELSE {}
      /\ DOMAIN fourth = IF Throttled(i, s) THEN {throttle} ELSE {}
  BY OneIs, NoneIs
<1>4. /\ Source(records).kind = "source" /\ Source(records).does = "emit" /\ Source(records).inputs = {}
      /\ normalize.kind = "transform" /\ normalize.does = "normalize"
      /\ normalize.inputs = {Plain(IF isHttp THEN items ELSE base)}
      /\ \A inputs : Pass(inputs).kind = "transform" /\ Pass(inputs).does = "pass" /\ Pass(inputs).inputs = inputs
  BY ComponentIs DEF Source, Pass
<1> HIDE DEF normalize
<1>5. Plainly(first) /\ Plainly(second) /\ Plainly(third) /\ Plainly(fourth)
  BY <1>4, OnePlainly, NoneIs DEF Plainly
<1> HIDE DEF first, second, third, fourth
<1>6. Plainly(added)
  BY <1>5, MergedPlainly
<1>7. \A id : id \in DOMAIN added <=> id \in DOMAIN first \cup DOMAIN second \cup DOMAIN third \cup DOMAIN fourth
  BY Merged
<1> HIDE DEF added
<1>8. \A id \in DOMAIN added : Resolves(Plain(id), added)
  BY <1>6, PlainResolves
<1>9. AllWired(first, added)
  <2>1. Wired(Source(records), added)
    BY <1>4 DEF Wired
  <2> QED
    BY <2>1, OneWired DEF first
<1>10. AllWired(second, added)
  <2>1. Wired(normalize, added)
    BY <1>3, <1>4, <1>7, <1>8 DEF Wired
  <2> QED
    BY <2>1, OneWired DEF second
<1>11. AllWired(third, added)
  <2>1. Wired(Pass({Plain(base)}), added)
    BY <1>3, <1>4, <1>7, <1>8 DEF Wired
  <2> QED
    BY <2>1, OneWired, NoneWired DEF third
<1>12. AllWired(fourth, added)
  <2>1. Wired(Pass({Plain(meta)}), added)
    BY <1>3, <1>4, <1>7, <1>8 DEF Wired
  <2> QED
    BY <2>1, OneWired, NoneWired DEF fourth
<1>13. AllWired(added, added)
  BY <1>9, <1>10, <1>11, <1>12, MergedWired DEF added
<1>14. /\ DOMAIN added \subseteq {base, items, meta, throttle}
       /\ LastID(n, i, s) \in DOMAIN added
  BY <1>2, <1>3, <1>7
<1> QED
  BY <1>1, <1>6, <1>13, <1>14 DEF base, items, meta, throttle

\* NewSource: components with ids of the input only, that refer to each other.
LEMMA NewSourceWired ==
  ASSUME NEW n \in Names, NEW i, i.type \in InputTypes,
         i.type = "infrastructure" => i.sources \subseteq InfrastructureSources,
         i.type = "audit" => i.sources \subseteq AuditSources
  PROVE  LET added == NewSource(n, i)
         IN  /\ \A id \in DOMAIN added : Belongs(id, MakeInputID(n), InputWords)
             /\ AllWired(added, added)
             /\ NewInputIDs(n, i) # {}
             /\ \A id \in NewInputIDs(n, i) : Resolves(Plain(id), added)
<1> DEFINE maps == {LogSourceComponents(n, i, s) : s \in LogSources(i)}
           added == MergeAll(maps)
           input == MakeInputID(n)
<1>1. LogSources(i) # {} /\ \A s \in LogSources(i) : s.word = <<>> \/ \E w \in InputWords : s.word = <<w>>
  BY LogSourcesOf
<1>2. Plainly(added)
  BY LogSourceWired, MergedPlainly
<1>3. \A s \in LogSources(i) : \A id \in DOMAIN LogSourceComponents(n, i, s) : id \in DOMAIN added
  BY Merged
<1>4. ASSUME NEW s \in LogSources(i)
      PROVE  AllWired(LogSourceComponents(n, i, s), added)
  <2> DEFINE some == LogSourceComponents(n, i, s)
  <2>1. AllWired(some, some) /\ Plainly(some)
    BY LogSourceWired
  <2> QED
    BY <1>2, <1>3, <2>1 DEF AllWired, Wired, Resolves, Plainly, Fits
<1>5. AllWired(added, added)
  BY <1>4, MergedWired
<1>6. NewInputIDs(n, i) # {}
  BY <1>1 DEF NewInputIDs
<1>7. ASSUME NEW id \in NewInputIDs(n, i)
      PROVE  Resolves(Plain(id), added)
  <2>1. PICK s \in LogSources(i) : id = LastID(n, i, s)
    BY DEF NewInputIDs
  <2>2. id \in DOMAIN LogSourceComponents(n, i, s)
    BY <2>1, LogSourceWired
  <2> QED
    BY <1>2, <1>3, <2>2, PlainResolves
<1>8. ASSUME NEW id \in DOMAIN added
      PROVE  Belongs(id, input, InputWords)
  <2>1. PICK s \in LogSources(i) : id \in DOMAIN LogSourceComponents(n, i, s)
    BY Merged
  <2> DEFINE base == input \o s.word
  <2>2. id \in {base, base \o <<"items">>, base \o <<"meta">>, base \o <<"throttle">>}
    BY <2>1, LogSourceWired
  <2>3. input \in Seq(Word)
    BY IDsAre
  <2>4. base = input \/ \E w \in InputWords : Below(base, input, w)
    <3> HIDE DEF input
    <3>1. CASE s.word = <<>>
      BY <2>3, <3>1, ConcatEmptySeq
    <3>2. CASE s.word # <<>>
      <4>1. PICK w \in InputWords : s.word = <<w>>
        BY <1>1, <3>2
      <4> QED
        BY <2>3, <4>1, WordBelow, WordsAre
    <3> QED
      BY <3>1, <3>2
  <2>5. base \in Seq(Word)
    BY <2>3, <2>4 DEF Below
  <2> HIDE DEF base
  <2>6. {"items", "meta", "throttle"} \subseteq InputWords
    BY DEF InputWords
  <2>7. id = base \/ \E w \in InputWords : Below(id, base, w)
    BY <2>2, <2>5, <2>6, WordBelow, WordsAre
  <2> HIDE DEF input
  <2> QED
    BY <2>4, <2>7, BelowBelow DEF Belongs
<1> QED
  BY <1>5, <1>6, <1>7, <1>8 DEF NewSource

-----------------------------------------------------------------------------
(* Pipelines *)

\* Positions have a first and a last one.
LEMMA FirstAndLast ==
  ASSUME NEW n \in Nat, NEW positions, positions \subseteq 1..n, positions # {}
  PROVE  /\ \E x \in positions : \A y \in positions : x <= y
         /\ \E x \in positions : \A y \in positions : y <= x
<1> DEFINE R == OpToRel(<, Nat)
<1>0. \A x \in positions : x \in Nat /\ x <= n /\ n - x \in Nat
  OBVIOUS
<1>1. R = {pair \in Nat \X Nat : pair[1] < pair[2]}
  BY DEF OpToRel
<1>2. IsWellFoundedOn(R, Nat)
  BY NatLessThanWellFounded
<1> HIDE DEF R
<1>3. \A x, y \in Nat : ~(<<y, x>> \in R) => x <= y
  BY <1>1
<1>4. \E x \in positions : \A y \in positions : ~(<<y, x>> \in R)
  <2>1. positions \subseteq Nat
    BY <1>0
  <2> QED
    BY <1>2, <2>1, WFMin
<1>5. \E x \in positions : \A y \in positions : x <= y
  BY <1>0, <1>3, <1>4
<1> DEFINE T == {n - x : x \in positions}
<1>6. T \subseteq Nat /\ T # {}
  BY <1>0
<1>7. \E d \in T : \A e \in T : ~(<<e, d>> \in R)
  <2> HIDE DEF T
  <2> QED
    BY <1>2, <1>6, WFMin
<1>8. PICK d \in T : \A e \in T : d <= e
  BY <1>3, <1>6, <1>7
<1>9. PICK x \in positions : d = n - x
  BY <1>8
<1>10. \A y \in positions : y <= x
  BY <1>0, <1>8, <1>9
<1> QED
  BY <1>5, <1>10

LEMMA NthIsOne ==
  ASSUME NEW n \in Nat, NEW positions, positions \subseteq 1..n, NEW k \in 1..Cardinality(positions)
  PROVE  Nth(positions, k) \in positions
<1> DEFINE UpTo(i) == {j \in positions : j <= i}
           Before(i) == {j \in positions : j < i}
           reached == {i \in positions : Cardinality(UpTo(i)) >= k}
<1>0. \A i \in positions : i \in Int
  OBVIOUS
<1>1. IsFiniteSet(1..n)
  BY FS_Interval
<1>2. \A some \in SUBSET positions : IsFiniteSet(some) /\ Cardinality(some) \in Nat
  BY <1>1, FS_Subset, FS_CardinalityType
<1>3. Cardinality(positions) \in Nat /\ positions # {}
  BY <1>2, FS_EmptySet
<1>4. \A i \in positions : UpTo(i) = Before(i) \cup {i} /\ i \notin Before(i)
  <2> SUFFICES ASSUME NEW i \in positions
               PROVE  UpTo(i) = Before(i) \cup {i} /\ i \notin Before(i)
    OBVIOUS
  <2>1. \A j \in positions : j <= i <=> (j < i \/ j = i)
    BY <1>0
  <2>2. ~(i < i)
    BY <1>0
  <2> QED
    BY <2>1, <2>2
<1>5. \A i : UpTo(i) \in SUBSET positions /\ Before(i) \in SUBSET positions
  OBVIOUS
<1>6. reached \subseteq 1..n /\ reached # {}
  <2>1. PICK i \in positions : \A j \in positions : j <= i
    BY <1>3, FirstAndLast
  <2>2. UpTo(i) = positions
    BY <2>1
  <2>3. Cardinality(UpTo(i)) >= k
    BY <1>3, <2>2
  <2> QED
    BY <2>1, <2>3
<1>7. PICK i \in reached : \A j \in reached : i <= j
  BY <1>6, FirstAndLast
<1>8. i \in positions /\ Cardinality(UpTo(i)) >= k
  BY <1>7
<1>9. Cardinality(UpTo(i)) = Cardinality(Before(i)) + 1
  <2>1. IsFiniteSet(Before(i))
    BY <1>2, <1>5
  <2>2. Cardinality(Before(i) \cup {i}) = Cardinality(Before(i)) + 1
    BY <1>4, <1>8, <2>1, FS_AddElement
  <2> QED
    BY <1>4, <1>8, <2>2
<1>10. ASSUME Cardinality(Before(i)) >= k
       PROVE  FALSE
  <2>1. Before(i) # {}
    BY <1>10, FS_EmptySet
  <2>2. Before(i) \subseteq 1..n
    OBVIOUS
  <2>3. PICK last \in Before(i) : \A j \in Before(i) : j <= last
    <3> HIDE DEF Before
    <3> QED
      BY <2>1, <2>2, FirstAndLast
  <2>4. UpTo(last) = Before(i)
    <3>1. last \in positions /\ last < i
      BY <2>3
    <3>2. \A j \in positions : j <= last <=> j < i
      BY <1>0, <1>8, <2>3, <3>1
    <3> QED
      BY <3>2
  <2>5. last \in reached
    BY <1>10, <2>3, <2>4
  <2> QED
    BY <1>7, <1>8, <2>3, <2>5
<1>11. Cardinality(Before(i)) \in Nat
  BY <1>2, <1>5
<1>12. Cardinality(Before(i)) = k - 1
  <2> HIDE DEF UpTo, Before
  <2> QED
    BY <1>3, <1>8, <1>9, <1>10, <1>11
<1> QED
  BY <1>8, <1>12 DEF Nth

\* The filters of a pipeline are those that it names and the system filter.
LEMMA FiltersOf ==
  ASSUME NEW p, NEW names, p.filters \in Seq(names)
  PROVE  /\ Len(p.filters) \in Nat
         /\ DOMAIN AddSystemFilters(p) = 1..(Len(p.filters) + 1)
         /\ \A k \in DOMAIN AddSystemFilters(p) : AddSystemFilters(p)[k] \in names \cup {Viaq}
<1> DEFINE n == Len(p.filters)
           pre == {i \in DOMAIN p.filters : IsEarlyStage(p.filters[i])}
           other == DOMAIN p.filters \ pre
           at == Cardinality(pre) + 1
<1>1. n \in Nat /\ DOMAIN p.filters = 1..n /\ \A i \in 1..n : p.filters[i] \in names
  OBVIOUS
<1>2. DOMAIN AddSystemFilters(p) = 1..(n + 1)
  BY DEF AddSystemFilters
<1>3. \A k \in 1..(n + 1) : AddSystemFilters(p)[k] =
         IF k < at THEN p.filters[Nth(pre, k)]
         ELSE IF k = at THEN Viaq ELSE p.filters[Nth(other, k - at)]
  BY DEF AddSystemFilters
<1>4. pre \subseteq 1..n /\ other = (1..n) \ pre /\ (1..n) \cap pre = pre
  BY <1>1
<1> HIDE DEF pre, other
<1>5. Cardinality(pre) \in Nat /\ Cardinality(other) = n - Cardinality(pre)
  <2>1. IsFiniteSet(1..n) /\ Cardinality(1..n) = n
    BY <1>1, FS_Interval
  <2>2. IsFiniteSet(pre)
    BY <1>4, <2>1, FS_Subset
  <2>3. Cardinality((1..n) \ pre) = Cardinality(1..n) - Cardinality((1..n) \cap pre)
    BY <2>1, FS_Difference
  <2> QED
    BY <1>4, <2>1, <2>2, <2>3, FS_CardinalityType
<1>6. ASSUME NEW k \in 1..(n + 1)
      PROVE  AddSystemFilters(p)[k] \in names \cup {Viaq}
  <2>1. CASE k < at
    <3>1. k \in 1..Cardinality(pre)
      BY <1>1, <1>5, <2>1
    <3>2. Nth(pre, k) \in 1..n
      BY <1>1, <1>4, <3>1, NthIsOne
    <3> QED
      BY <1>1, <1>3, <2>1, <3>2
  <2>2. CASE k = at
    BY <1>3, <2>2
  <2>3. CASE k > at
    <3>1. k - at \in 1..Cardinality(other)
      <4>1. \A x, m \in Nat : \A j \in 1..(m + 1) : j > x + 1 => j - (x + 1) \in 1..(m - x)
        OBVIOUS
      <4>2. Cardinality(pre) \in Nat /\ n \in Nat /\ k > Cardinality(pre) + 1
        BY <1>1, <1>5, <2>3
      <4> HIDE DEF n
      <4>3. k - (Cardinality(pre) + 1) \in 1..(n - Cardinality(pre))
        BY <4>1, <4>2
      <4> QED
        BY <1>5, <4>3
    <3>2. Nth(other, k - at) \in 1..n
      BY <1>1, <1>4, <3>1, NthIsOne
    <3>3. AddSystemFilters(p)[k] = p.filters[Nth(other, k - at)]
      BY <1>3, <1>5, <2>3
    <3> QED
      BY <1>1, <3>2, <3>3
  <2> QED
    BY <1>5, <2>1, <2>2, <2>3
<1> QED
  BY <1>1, <1>2, <1>6

LEMMA FilterIDs ==
  ASSUME NEW p, p.name \in Names, p.filters \in Seq(DOMAIN spec.filters), DOMAIN spec.filters \subseteq Names,
         Len(p.filters) < Len(Numerals), NEW k \in DOMAIN AddSystemFilters(p)
  PROVE  Belongs(FilterID(p, k), <<"pipeline">> \o p.name, PipelineWords)
<1> DEFINE f == AddSystemFilters(p)[k]
           base == <<"pipeline">> \o p.name
           index == Numerals[(k - 1) + 1]
<1>1. FilterID(p, k) = (base \o f) \o <<index>>
  BY DEF FilterID, MakePipelineID
<1>2. f \in DOMAIN spec.filters \cup {Viaq} /\ k \in 1..(Len(p.filters) + 1) /\ Len(p.filters) \in Nat
  BY FiltersOf
<1>3. Viaq \in Seq(Word) /\ Viaq # <<>>
  <2>1. "viaq" \in Word
    BY WordsAre DEF OwnWords
  <2> QED
    BY <2>1 DEF Viaq
<1>4. f[1] \in PipelineWords
  BY <1>2 DEF PipelineWords
<1>5. base \in Seq(Word)
  BY IDsAre
<1>6. index \in Word
  <2>1. (k - 1) + 1 = k /\ k \in 1..Len(Numerals)
    BY <1>2, NumeralsAssumption
  <2>2. index \in STRING
    BY <2>1, NumeralsAssumption
  <2> QED
    BY <2>2, Zenon DEF Word
<1> HIDE DEF f, base, index
<1>7. f \in Seq(Word) /\ f # <<>>
  BY <1>2, <1>3, WordsAre
<1>8. Below(base \o f, base, f[1]) /\ base \o f \in Seq(Word)
  BY <1>5, <1>7, BelowConcat
<1>9. Below(FilterID(p, k), base \o f, index)
  BY <1>1, <1>6, <1>8, WordBelow
<1>10. Below(FilterID(p, k), base, f[1])
  BY <1>8, <1>9, BelowBelow
<1> QED
  BY <1>4, <1>10 DEF Belongs, base

\* The filters of a pipeline refer to the inputs and to each other.
LEMMA PipelineWired ==
  ASSUME NEW p, p.name \in Names, p.filters \in Seq(DOMAIN spec.filters), DOMAIN spec.filters \subseteq Names,
         Len(p.filters) < Len(Numerals)
  PROVE  LET added == PipelineTransforms(p)
         IN  /\ \A id \in DOMAIN added : Belongs(id, <<"pipeline">> \o p.name, PipelineWords)
             /\ Resolves(Plain(LastFilterID(p)), added)
             /\ \A all : /\ Holds(added, all)
                         /\ UNION {ids[n] : n \in p.inputs} # {}
                         /\ \A n \in p.inputs : \A id \in ids[n] : Resolves(Plain(id), all)
                         => AllWired(added, all)
<1> DEFINE refs == AddSystemFilters(p)
           From(k) == Ports(IF k = 1 THEN UNION {ids[n] : n \in p.inputs} ELSE {FilterID(p, k - 1)})
           Filter(k) == Component("transform", "filter", From(k), [pipeline |-> p.name, filter |-> refs[k]])
           maps == {One(FilterID(p, k), Filter(k)) : k \in DOMAIN refs}
           added == MergeAll(maps)
<1>1. PipelineTransforms(p) = added
  BY DEF PipelineTransforms
<1>2. Len(p.filters) \in Nat /\ DOMAIN refs = 1..(Len(p.filters) + 1)
  BY FiltersOf
<1>3. Len(refs) \in DOMAIN refs
  <2>1. Len(refs) = Len(p.filters) + 1
    <3>1. refs = [k \in 1..(Len(p.filters) + 1) |-> refs[k]]
      BY DEF AddSystemFilters
    <3> HIDE DEF refs
    <3> QED
      BY <1>2, <3>1, LenProperties
  <2> QED
    BY <1>2, <2>1
<1>4. ASSUME NEW k
      PROVE  Filter(k).kind = "transform" /\ Filter(k).does = "filter" /\ Filter(k).inputs = From(k)
  BY ComponentIs
<1> HIDE DEF refs, From, Filter
<1>5. Plainly(added)
  <2>1. \A k \in DOMAIN refs : Plainly(One(FilterID(p, k), Filter(k)))
    BY <1>4, OnePlainly
  <2> QED
    BY <2>1, MergedPlainly
<1>6. /\ \A k \in DOMAIN refs : FilterID(p, k) \in DOMAIN added
      /\ \A id \in DOMAIN added : \E k \in DOMAIN refs : id = FilterID(p, k)
  <2>1. \A id : id \in DOMAIN added <=> \E m \in maps : id \in DOMAIN m
    BY Merged
  <2>2. \A k : DOMAIN One(FilterID(p, k), Filter(k)) = {FilterID(p, k)}
    BY OneIs
  <2> HIDE DEF added
  <2>3. ASSUME NEW k \in DOMAIN refs
        PROVE  FilterID(p, k) \in DOMAIN added
    <3>1. One(FilterID(p, k), Filter(k)) \in maps
      OBVIOUS
    <3> QED
      BY <2>1, <2>2, <3>1
  <2>4. ASSUME NEW id \in DOMAIN added
        PROVE  \E k \in DOMAIN refs : id = FilterID(p, k)
    <3>1. PICK m \in maps : id \in DOMAIN m
      BY <2>1
    <3>2. PICK k \in DOMAIN refs : m = One(FilterID(p, k), Filter(k))
      BY <3>1
    <3> QED
      BY <2>2, <3>1, <3>2
  <2> QED
    BY <2>3, <2>4
<1>7. \A id \in DOMAIN added : Belongs(id, <<"pipeline">> \o p.name, PipelineWords)
  BY <1>6, FilterIDs DEF refs
<1>8. Resolves(Plain(LastFilterID(p)), added)
  BY <1>3, <1>5, <1>6, PlainResolves DEF LastFilterID, refs
<1>9. ASSUME NEW all, Holds(added, all), UNION {ids[n] : n \in p.inputs} # {},
             \A n \in p.inputs : \A id \in ids[n] : Resolves(Plain(id), all)
      PROVE  AllWired(added, all)
  <2>1. ASSUME NEW k \in DOMAIN refs
        PROVE  Wired(Filter(k), all)
    <3>1. From(k) # {} /\ \A port \in From(k) : Resolves(port, all)
      <4>1. CASE k = 1
        BY <1>9, <4>1 DEF From, Ports
      <4>2. CASE k # 1
        <5>1. k - 1 \in DOMAIN refs
          BY <1>2, <4>2
        <5>2. Resolves(Plain(FilterID(p, k - 1)), added)
          BY <1>5, <1>6, <5>1, PlainResolves
        <5>3. Resolves(Plain(FilterID(p, k - 1)), all)
          BY <1>9, <5>2, StaysWired
        <5>4. From(k) = {Plain(FilterID(p, k - 1))}
          BY <4>2 DEF From, Ports
        <5> QED
          BY <5>3, <5>4
      <4> QED
        BY <4>1, <4>2
    <3> QED
      BY <1>4, <3>1 DEF Wired
  <2>2. \A m \in maps : AllWired(m, all)
    BY <2>1, OneWired
  <2> QED
    BY <2>2, MergedWired
<1> HIDE DEF added
<1> QED
  BY <1>1, <1>7, <1>8, <1>9

-----------------------------------------------------------------------------
(* Outputs *)

LEMMA ComponentsAre ==
  /\ \A inputs : Pass(inputs).kind = "transform" /\ Pass(inputs).does = "pass" /\ Pass(inputs).inputs = inputs
  /\ \A inputs : Trace(inputs).kind = "transform" /\ Trace(inputs).does = "trace" /\ Trace(inputs).inputs = inputs
  /\ \A inputs : Count(inputs).kind = "transform" /\ Count(inputs).does = "count" /\ Count(inputs).inputs = inputs
  /\ \A inputs, out, tenant :
       LET c == Sink(inputs, out, tenant) IN c.kind = "sink" /\ c.does = "deliver" /\ c.inputs = inputs
  /\ \A inputs, field, values :
       LET c == Route(inputs, field, values)
       IN  c.kind = "transform" /\ c.does = "route" /\ c.inputs = inputs /\ c.arg.values = values
<1>1. \A field, values : [field |-> field, values |-> values].values = values
  OBVIOUS
<1>2. \A inputs, field, values : Route(inputs, field, values).arg = [field |-> field, values |-> values]
  BY ComponentIs DEF Route
<1> QED
  BY <1>1, <1>2, ComponentIs DEF Pass, Trace, Count, Sink, Route

\* The inputs of a component are there.
Given(inputs, all) == inputs # {} /\ \A port \in inputs : Resolves(port, all)

LEMMA GivenWired ==
  ASSUME NEW inputs, NEW all, Given(inputs, all)
  PROVE  /\ Wired(Pass(inputs), all) /\ Wired(Trace(inputs), all) /\ Wired(Count(inputs), all)
         /\ \A field, values : Wired(Route(inputs, field, values), all)
         /\ \A out, tenant : Wired(Sink(inputs, out, tenant), all)
BY ComponentsAre DEF Wired, Given

LEMMA GivenOne ==
  ASSUME NEW port, NEW all, Resolves(port, all)
  PROVE  Given({port}, all)
BY DEF Given

\* The words that follow the name in the components of an output, the throttle
\* aside, and those of the transforms in front of a sink.
TypeWords == OutputWords \ {"throttle"}

StageWords == {words \in Seq(Word) : words # <<>> /\ words[1] \in TypeWords}

\* Transforms in front of a sink, one after the other.
LEMMA LinearWired ==
  ASSUME NEW base \in Seq(Word), NEW stages \in Seq(StageWords), NEW inputs, NEW out, NEW tenant
  PROVE  LET added == Linear(base, stages, inputs, out, tenant)
         IN  /\ \A id \in DOMAIN added : Belongs(id, base, TypeWords)
             /\ \A all : Holds(added, all) /\ Given(inputs, all) => AllWired(added, all)
<1> DEFINE n == Len(stages)
           At(k) == IF k = 0 THEN inputs ELSE {Plain(base \o stages[k])}
           Pre(k) == One(base \o stages[k], Pass(At(k - 1)))
           sink == One(base, Sink(At(n), out, tenant))
           maps == {Pre(k) : k \in DOMAIN stages} \cup {sink}
           added == MergeAll(maps)
<1>1. Linear(base, stages, inputs, out, tenant) = added
  BY DEF Linear
<1>0. n \in Nat /\ DOMAIN stages = 1..n
  OBVIOUS
<1>2. \A k \in 1..n : Below(base \o stages[k], base, stages[k][1]) /\ stages[k][1] \in TypeWords
  <2>1. \A k \in 1..n : stages[k] \in StageWords
    OBVIOUS
  <2> QED
    BY <2>1, BelowConcat DEF StageWords
<1> HIDE DEF n
<1>3. \A k \in 1..n : base \o stages[k] # base
  BY <1>2, BelowDiffers
<1>4. /\ \A id : id \in DOMAIN added <=> \E m \in maps : id \in DOMAIN m
      /\ \A id \in DOMAIN added : \E m \in maps : id \in DOMAIN m /\ added[id] = m[id]
  <2> HIDE DEF maps
  <2> QED
    BY Merged
<1> HIDE DEF added
<1>5. /\ \A k \in 1..n : DOMAIN Pre(k) = {base \o stages[k]} /\ \A id \in DOMAIN Pre(k) : Pre(k)[id] = Pass(At(k - 1))
      /\ DOMAIN sink = {base} /\ \A id \in DOMAIN sink : sink[id] = Sink(At(n), out, tenant)
  <2> HIDE DEF At
  <2> QED
    BY OneIs
<1> HIDE DEF Pre, sink
<1>6. \A id \in DOMAIN added : Belongs(id, base, TypeWords)
  <2> SUFFICES ASSUME NEW id \in DOMAIN added
               PROVE  Belongs(id, base, TypeWords)
    OBVIOUS
  <2>1. PICK m \in maps : id \in DOMAIN m
    BY <1>4
  <2>2. CASE m = sink
    BY <1>5, <2>1, <2>2 DEF Belongs
  <2>3. ASSUME NEW k \in 1..n, m = Pre(k)
        PROVE  Belongs(id, base, TypeWords)
    BY <1>2, <1>5, <2>1, <2>3 DEF Belongs
  <2> QED
    BY <1>0, <2>1, <2>2, <2>3
<1>7. ASSUME NEW all, Holds(added, all), Given(inputs, all)
      PROVE  AllWired(added, all)
  <2>1. ASSUME NEW k \in 1..n
        PROVE  Resolves(Plain(base \o stages[k]), all)
    <3> DEFINE id == base \o stages[k]
    <3>1. id \in DOMAIN added
      <4>1. Pre(k) \in maps /\ id \in DOMAIN Pre(k)
        BY <1>0, <1>5
      <4> QED
        BY <1>4, <4>1
    <3>2. PICK m \in maps : id \in DOMAIN m /\ added[id] = m[id]
      BY <1>4, <3>1
    <3>3. m # sink
      BY <1>3, <1>5, <3>2
    <3>4. PICK j \in 1..n : m = Pre(j)
      BY <1>0, <3>2, <3>3
    <3>5. added[id] = Pass(At(j - 1))
      BY <1>5, <3>2, <3>4
    <3> HIDE DEF id, At
    <3>6. added[id].kind = "transform" /\ added[id].does = "pass"
      BY <3>5, ComponentsAre
    <3>7. Resolves(Plain(id), added)
      BY <3>1, <3>6 DEF Resolves, Fits, Plain
    <3> QED
      BY <1>7, <3>7, StaysWired DEF id
  <2>2. ASSUME NEW k \in 0..n
        PROVE  Given(At(k), all)
    BY <1>7, <2>1, GivenOne
  <2> HIDE DEF At
  <2>3. ASSUME NEW k \in 1..n
        PROVE  AllWired(Pre(k), all)
    <3>1. k - 1 \in 0..n
      BY <1>0
    <3> QED
      BY <2>2, <3>1, GivenWired, OneWired DEF Pre
  <2>4. AllWired(sink, all)
    <3>1. n \in 0..n
      BY <1>0
    <3> QED
      BY <2>2, <3>1, GivenWired, OneWired DEF sink
  <2>5. \A m \in maps : AllWired(m, all)
    BY <1>0, <2>3, <2>4
  <2> QED
    BY <2>5, MergedWired DEF added
<1> QED
  BY <1>1, <1>6, <1>7

\* otlp.New: the log sources are told apart, translated and put together again.
LEMMA OTLPWired ==
  ASSUME NEW base \in Seq(Word), NEW inputs, NEW sources, NEW migrated, NEW out, NEW tenant
  PROVE  LET added == OTLP(base, inputs, sources, migrated, out, tenant)
         IN  /\ \A id \in DOMAIN added : Belongs(id, base, TypeWords)
             /\ \A all : Holds(added, all) /\ Given(inputs, all) /\ sources \cap AllLogSources # {}
                           => AllWired(added, all)
<1> DEFINE trace == base \o <<"trace", "context">>
           reroute == base \o <<"reroute">>
           unmatched == Unmatched(reroute)
           resource == base \o <<"resource", "logs">>
           known == sources \cap AllLogSources
           Of(s) == base \o <<s>>
           Grouped(g) == base \o <<"groupby", g>>
           groups == {GroupWord(s) : s \in known}
           ofTrace == IF migrated THEN NoComponents ELSE One(trace, Trace(inputs))
           ofReroute == One(reroute, Route(IF migrated THEN inputs ELSE {Plain(trace)}, "source", sources))
           ofUnmatched == One(unmatched, Count({RoutePort(reroute, "_unmatched")}))
           ofResource == One(resource, Pass(Ports({Grouped(g) : g \in groups})))
           ofSink == One(base, Sink({Plain(resource)}, out, tenant))
           OfSource(s) == One(Of(s), Pass({RoutePort(reroute, s)}))
           OfGroup(g) == One(Grouped(g), Pass(Ports({Of(s) : s \in {x \in known : GroupWord(x) = g}})))
           maps == {ofTrace, ofReroute, ofUnmatched, ofResource, ofSink}
                     \cup {OfSource(s) : s \in known} \cup {OfGroup(g) : g \in groups}
           added == MergeAll(maps)
<1>1. OTLP(base, inputs, sources, migrated, out, tenant) = added
  BY DEF OTLP, CountUnmatched
<1>2. /\ known \subseteq Word /\ known \subseteq TypeWords /\ groups \subseteq Word
      /\ {"trace", "context", "reroute", "resource", "logs", "groupby", "unmatched"} \subseteq Word
      /\ {"trace", "reroute", "resource", "groupby"} \subseteq TypeWords
  <2>1. known \subseteq TypeWords /\ {"trace", "reroute", "resource", "groupby"} \subseteq TypeWords
    BY DEF OutputWords, TypeWords, AllLogSources, AuditSources, InfrastructureSources
  <2>2. {"context", "logs", "unmatched", "container", "host", "source"} \subseteq OwnWords
    BY DEF OwnWords, InputWords
  <2>3. groups \subseteq {"container", "host", "source"}
    BY DEF GroupWord
  <2>4. TypeWords \subseteq OutputWords
    BY DEF TypeWords
  <2> HIDE DEF known, groups
  <2> QED
    BY <2>1, <2>2, <2>3, <2>4, WordsAre
<1>3. /\ Below(trace, base, "trace") /\ Below(resource, base, "resource")
      /\ Below(reroute, base, "reroute") /\ Below(unmatched, base, "reroute") /\ unmatched # reroute
  <2>1. Below(trace, base, "trace")
    BY <1>2, TwoWordsBelow
  <2>2. Below(resource, base, "resource")
    BY <1>2, TwoWordsBelow
  <2>3. Below(reroute, base, "reroute")
    BY <1>2, WordBelow
  <2> HIDE DEF reroute
  <2>4. Below(unmatched, reroute, "unmatched")
    <3>1. reroute \in Seq(Word)
      BY <2>3, BelowDiffers
    <3> QED
      BY <1>2, <3>1, WordBelow DEF Unmatched
  <2> QED
    BY <2>1, <2>2, <2>3, <2>4, BelowBelow, BelowDiffers
<1>4. \A s \in known : Below(Of(s), base, s)
  <2> HIDE DEF known
  <2> QED
    BY <1>2, WordBelow
<1>5. \A g \in groups : Below(Grouped(g), base, "groupby")
  <2> HIDE DEF groups
  <2> QED
    BY <1>2, TwoWordsBelow
<1>6. "reroute" \notin known
  BY DEF AllLogSources, AuditSources, InfrastructureSources
<1> HIDE DEF trace, reroute, unmatched, resource, Of, Grouped
<1>7. /\ reroute \notin {trace, unmatched, resource, base}
      /\ \A s \in known : Of(s) \notin {reroute, base}
      /\ \A g \in groups : Grouped(g) \notin {reroute, base}
      /\ trace # base /\ unmatched # base /\ resource # base
  <2> HIDE DEF known, groups
  <2> QED
    BY <1>3, <1>4, <1>5, <1>6, BelowDiffers
<1>8. /\ \A id : id \in DOMAIN added <=> \E m \in maps : id \in DOMAIN m
      /\ \A id \in DOMAIN added : \E m \in maps : id \in DOMAIN m /\ added[id] = m[id]
  <2> HIDE DEF maps
  <2> QED
    BY Merged
<1> HIDE DEF added
<1>9. /\ DOMAIN ofTrace = (IF migrated THEN {} ELSE {trace}) /\ DOMAIN ofReroute = {reroute}
      /\ DOMAIN ofUnmatched = {unmatched} /\ DOMAIN ofResource = {resource} /\ DOMAIN ofSink = {base}
      /\ \A s : DOMAIN OfSource(s) = {Of(s)}
      /\ \A g : DOMAIN OfGroup(g) = {Grouped(g)}
  BY OneIs, NoneIs, Zenon
<1>10. /\ \A id \in DOMAIN ofTrace : ofTrace[id] = Trace(inputs)
       /\ \A id \in DOMAIN ofUnmatched : ofUnmatched[id].kind = "transform" /\ ofUnmatched[id].does = "count"
       /\ \A id \in DOMAIN ofResource : ofResource[id].kind = "transform" /\ ofResource[id].does = "pass"
       /\ \A s : \A id \in DOMAIN OfSource(s) : OfSource(s)[id].kind = "transform" /\ OfSource(s)[id].does = "pass"
       /\ \A g : \A id \in DOMAIN OfGroup(g) : OfGroup(g)[id].kind = "transform" /\ OfGroup(g)[id].does = "pass"
       /\ \A id \in DOMAIN ofReroute : /\ ofReroute[id].kind = "transform" /\ ofReroute[id].does = "route"
                                       /\ ofReroute[id].arg.values = sources
  <2>1. \A id \in DOMAIN ofTrace : ofTrace[id] = Trace(inputs)
    BY OneIs, NoneIs
  <2> HIDE DEF ofTrace
  <2>2. /\ \A id \in DOMAIN ofUnmatched : \E from : ofUnmatched[id] = Count(from)
        /\ \A id \in DOMAIN ofResource : \E from : ofResource[id] = Pass(from)
        /\ \A id \in DOMAIN ofReroute : \E from : ofReroute[id] = Route(from, "source", sources)
    <3>1. \A x, c : \A id \in DOMAIN One(x, c) : One(x, c)[id] = c
      BY OneIs
    <3> QED
      BY <3>1, Zenon
  <2>3. \A s : \A id \in DOMAIN OfSource(s) : \E from : OfSource(s)[id] = Pass(from)
    BY OneIs, Zenon
  <2>4. \A g : \A id \in DOMAIN OfGroup(g) : \E from : OfGroup(g)[id] = Pass(from)
    BY OneIs, Zenon
  <2> HIDE DEF ofReroute, ofUnmatched, ofResource, OfSource, OfGroup
  <2>5. /\ \A id \in DOMAIN ofUnmatched : ofUnmatched[id].kind = "transform" /\ ofUnmatched[id].does = "count"
        /\ \A id \in DOMAIN ofResource : ofResource[id].kind = "transform" /\ ofResource[id].does = "pass"
        /\ \A id \in DOMAIN ofReroute : /\ ofReroute[id].kind = "transform" /\ ofReroute[id].does = "route"
                                        /\ ofReroute[id].arg.values = sources
    BY <2>2, ComponentsAre
  <2>6. /\ \A s : \A id \in DOMAIN OfSource(s) : OfSource(s)[id].kind = "transform" /\ OfSource(s)[id].does = "pass"
        /\ \A g : \A id \in DOMAIN OfGroup(g) : OfGroup(g)[id].kind = "transform" /\ OfGroup(g)[id].does = "pass"
    BY <2>3, <2>4, ComponentsAre
  <2> QED
    BY <2>1, <2>5, <2>6
<1> HIDE DEF ofTrace, ofReroute, ofUnmatched, ofResource, ofSink, OfSource, OfGroup
<1>11. \A id \in DOMAIN added : Belongs(id, base, TypeWords)
  <2> SUFFICES ASSUME NEW id \in DOMAIN added
               PROVE  Belongs(id, base, TypeWords)
    OBVIOUS
  <2>1. PICK m \in maps : id \in DOMAIN m
    BY <1>8
  <2> HIDE DEF known, groups
  <2>2. CASE m \in {ofTrace, ofReroute, ofUnmatched, ofResource, ofSink}
    BY <1>2, <1>3, <1>9, <2>1, <2>2 DEF Belongs
  <2>3. ASSUME NEW s \in known, m = OfSource(s)
        PROVE  Belongs(id, base, TypeWords)
    <3>1. id = Of(s)
      BY <1>9, <2>1, <2>3, Zenon
    <3> QED
      BY <1>2, <1>4, <3>1 DEF Belongs
  <2>4. ASSUME NEW g \in groups, m = OfGroup(g)
        PROVE  Belongs(id, base, TypeWords)
    <3>1. id = Grouped(g)
      BY <1>9, <2>1, <2>4, Zenon
    <3> QED
      BY <1>2, <1>5, <2>4, <3>1 DEF Belongs
  <2> QED
    BY <2>1, <2>2, <2>3, <2>4
<1>12. ASSUME NEW id \in DOMAIN added, id \notin {base, reroute}
       PROVE  Resolves(Plain(id), added)
  <2>1. PICK m \in maps : id \in DOMAIN m /\ added[id] = m[id]
    BY <1>8
  <2> HIDE DEF known, groups
  <2>2. m \notin {ofReroute, ofSink}
    BY <1>9, <1>12, <2>1
  <2>3. m[id].kind = "transform" /\ m[id].does # "route"
    <3>1. CASE m \in {ofTrace, ofUnmatched, ofResource}
      BY <1>10, <2>1, <3>1, ComponentsAre
    <3>2. CASE m \in {OfSource(s) : s \in known} \cup {OfGroup(g) : g \in groups}
      BY <1>10, <2>1, <3>2
    <3> QED
      BY <2>1, <2>2, <3>1, <3>2
  <2> QED
    BY <2>1, <2>3 DEF Resolves, Fits, Plain
<1>13. ASSUME NEW route \in known \cup {"_unmatched"}
       PROVE  Resolves(RoutePort(reroute, route), added)
  <2>1. ofReroute \in maps /\ reroute \in DOMAIN ofReroute
    BY <1>9
  <2>2. reroute \in DOMAIN added
    BY <1>8, <2>1
  <2>3. PICK m \in maps : reroute \in DOMAIN m /\ added[reroute] = m[reroute]
    BY <1>8, <2>2
  <2>4. route # "" /\ (route = "_unmatched" \/ route \in sources)
    BY <1>13 DEF AllLogSources, AuditSources, InfrastructureSources
  <2> HIDE DEF known, groups
  <2>5. m = ofReroute
    <3>1. m \notin {ofTrace, ofUnmatched, ofResource, ofSink}
      BY <1>7, <1>9, <2>3
    <3>0. reroute \in DOMAIN m
      BY <2>3
    <3>2. ASSUME NEW s \in known, m = OfSource(s)
          PROVE  FALSE
      <4>1. reroute = Of(s)
        <5>1. DOMAIN OfSource(s) = {Of(s)}
          BY <1>9, Zenon
        <5> QED
          BY <3>0, <3>2, <5>1
      <4> QED
        BY <1>7, <4>1
    <3>3. ASSUME NEW g \in groups, m = OfGroup(g)
          PROVE  FALSE
      <4>1. reroute = Grouped(g)
        <5>1. DOMAIN OfGroup(g) = {Grouped(g)}
          BY <1>9, Zenon
        <5> QED
          BY <3>0, <3>3, <5>1
      <4> QED
        BY <1>7, <3>3, <4>1
    <3> QED
      BY <2>3, <3>1, <3>2, <3>3
  <2> HIDE DEF maps
  <2>6. added[reroute].kind = "transform" /\ added[reroute].does = "route" /\ added[reroute].arg.values = sources
    BY <1>10, <2>3, <2>5
  <2>7. RoutePort(reroute, route).id = reroute /\ RoutePort(reroute, route).route = route
    BY DEF RoutePort
  <2> QED
    BY <2>2, <2>4, <2>6, <2>7 DEF Resolves, Fits
<1>14. ASSUME NEW all, Holds(added, all), Given(inputs, all), known # {}
       PROVE  AllWired(added, all)
  <2>1. ASSUME NEW id \in DOMAIN added, id \notin {base, reroute}
        PROVE  Resolves(Plain(id), all)
    BY <1>12, <1>14, <2>1, StaysWired
  <2>2. ASSUME NEW route \in known \cup {"_unmatched"}
        PROVE  Resolves(RoutePort(reroute, route), all)
    BY <1>13, <1>14, <2>2, StaysWired
  <2>3. /\ ~migrated => trace \in DOMAIN added
        /\ resource \in DOMAIN added
        /\ \A s \in known : Of(s) \in DOMAIN added
        /\ \A g \in groups : Grouped(g) \in DOMAIN added
    <3> HIDE DEF known, groups
    <3>1. ~migrated => trace \in DOMAIN added
      BY <1>8, <1>9
    <3>2. resource \in DOMAIN added
      BY <1>8, <1>9
    <3>3. \A s \in known : OfSource(s) \in maps /\ Of(s) \in DOMAIN OfSource(s)
      BY <1>9, Zenon
    <3>4. \A g \in groups : OfGroup(g) \in maps /\ Grouped(g) \in DOMAIN OfGroup(g)
      BY <1>9, Zenon
    <3> HIDE DEF maps
    <3> QED
      BY <1>8, <3>1, <3>2, <3>3, <3>4, Zenon
  <2>4. AllWired(ofTrace, all)
    BY <1>14, GivenWired, OneWired, NoneWired DEF ofTrace
  <2>5. AllWired(ofReroute, all)
    <3>1. Given(IF migrated THEN inputs ELSE {Plain(trace)}, all)
      BY <1>7, <1>14, <2>1, <2>3, GivenOne
    <3> QED
      BY <3>1, GivenWired, OneWired DEF ofReroute
  <2>6. AllWired(ofUnmatched, all)
    BY <2>2, GivenOne, GivenWired, OneWired DEF ofUnmatched
  <2>7. AllWired(ofResource, all)
    <3>1. groups # {}
      BY <1>14
    <3> HIDE DEF known, groups
    <3>2. Given(Ports({Grouped(g) : g \in groups}), all)
      BY <1>7, <2>1, <2>3, <3>1 DEF Given, Ports
    <3> QED
      BY <3>2, GivenWired, OneWired DEF ofResource
  <2>8. AllWired(ofSink, all)
    BY <1>7, <2>1, <2>3, GivenOne, GivenWired, OneWired DEF ofSink
  <2>9. ASSUME NEW s \in known
        PROVE  AllWired(OfSource(s), all)
    BY <2>2, GivenOne, GivenWired, OneWired DEF OfSource
  <2>10. ASSUME NEW g \in groups
         PROVE  AllWired(OfGroup(g), all)
    <3> DEFINE some == {x \in known : GroupWord(x) = g}
    <3>1. some # {} /\ some \subseteq known
      BY <2>10
    <3> HIDE DEF known, groups, some
    <3>2. Given(Ports({Of(s) : s \in some}), all)
      BY <1>7, <2>1, <2>3, <3>1 DEF Given, Ports
    <3> QED
      BY <3>2, GivenWired, OneWired DEF OfGroup, some
  <2>11. \A m \in maps : AllWired(m, all)
    <3> HIDE DEF known, groups
    <3> QED
      BY <2>4, <2>5, <2>6, <2>7, <2>8, <2>9, <2>10
  <2> QED
    BY <2>11, MergedWired DEF added
<1> QED
  BY <1>1, <1>11, <1>14

LEMMA StageIs ==
  ASSUME NEW a \in TypeWords, NEW b \in Word, NEW c \in Word
  PROVE  <<a>> \in StageWords /\ <<a, b>> \in StageWords /\ <<a, b, c>> \in StageWords
<1>1. a \in Word
  BY WordsAre DEF TypeWords
<1>2. <<a>> \in Seq(Word) /\ <<a, b>> \in Seq(Word) /\ <<a, b, c>> \in Seq(Word)
  BY <1>1
<1> QED
  BY <1>2 DEF StageWords

LEMMA StagesAre ==
  /\ \A key : Loki(key) \in Seq(StageWords)
  /\ \A o : o.type \in OutputTypes \ {"otlp", "lokiStack"} => Stages(o) \in Seq(StageWords)
<1>1. {"topic", "remap", "loki", "add", "index", "normalize", "group", "key", "log", "timestamp", "splunk",
       "metadata", "parse"} \subseteq TypeWords
  BY DEF TypeWords, OutputWords
<1>2. {"label", "tenant", "id", "index", "streams", "name", "prefix", "severity", "encoding", "reserved",
       "keywords"} \subseteq Word
  BY WordsAre DEF OwnWords, OutputWords
<1>3. \A a \in TypeWords, b, c \in Word :
         <<a>> \in StageWords /\ <<a, b>> \in StageWords /\ <<a, b, c>> \in StageWords
  BY StageIs
<1>4. /\ \A w \in StageWords : <<w>> \in Seq(StageWords)
      /\ \A v, w \in StageWords : <<v, w>> \in Seq(StageWords)
      /\ <<>> \in Seq(StageWords)
      /\ \A v, w \in Seq(StageWords) : v \o w \in Seq(StageWords)
  BY ConcatProperties
<1>5. \A optional : \A w \in StageWords : If(optional, w) \in Seq(StageWords)
  BY <1>4 DEF If
<1>6. /\ <<"topic">> \in StageWords /\ <<"remap">> \in StageWords /\ <<"remap", "label">> \in StageWords
      /\ <<"loki", "tenant">> \in StageWords /\ <<"add", "id">> \in StageWords /\ <<"index">> \in StageWords
      /\ <<"normalize", "streams">> \in StageWords /\ <<"group", "name">> \in StageWords
      /\ <<"key", "prefix">> \in StageWords /\ <<"log", "id">> \in StageWords
      /\ <<"normalize", "severity">> \in StageWords /\ <<"timestamp">> \in StageWords
      /\ <<"splunk", "index">> \in StageWords /\ <<"metadata">> \in StageWords
      /\ <<"parse", "encoding">> \in StageWords /\ <<"remap", "reserved", "keywords">> \in StageWords
  BY <1>1, <1>2, <1>3
<1>7. \A key : Loki(key) \in Seq(StageWords)
  BY <1>4, <1>5, <1>6 DEF Loki
<1>8. ASSUME NEW optional
      PROVE  /\ Elasticsearch(optional) \in Seq(StageWords) /\ Splunk(optional) \in Seq(StageWords)
             /\ Kafka \in Seq(StageWords) /\ Cloudwatch \in Seq(StageWords) /\ S3 \in Seq(StageWords)
             /\ GoogleCloudLogging \in Seq(StageWords) /\ Syslog \in Seq(StageWords)
             /\ AzureLogsIngestion \in Seq(StageWords) /\ AzureMonitor \in Seq(StageWords)
             /\ HTTP \in Seq(StageWords)
  BY <1>4, <1>5, <1>6
     DEF Elasticsearch, Splunk, Kafka, Cloudwatch, S3, GoogleCloudLogging, Syslog, AzureLogsIngestion,
         AzureMonitor, HTTP
<1>9. ASSUME NEW o, o.type \in OutputTypes \ {"otlp", "lokiStack"}
      PROVE  Stages(o) \in Seq(StageWords)
  BY <1>7, <1>8, <1>9 DEF Stages, OutputTypes
<1> QED
  BY <1>7, <1>9

\* NewOutput for a LokiStack: records are told apart by tenant, each of which has a
\* sink of its own.
LEMMA LokiStackWired ==
  ASSUME NEW base \in Seq(Word), NEW inputs, NEW o, NEW out, DetermineTenants(out) \subseteq Tenants
  PROVE  LET added == LokiStack(base, inputs, o, out)
         IN  /\ \A id \in DOMAIN added : Belongs(id, base, TypeWords)
             /\ \A all : /\ Holds(added, all) /\ Given(inputs, all)
                         /\ o.otel => \A t \in DetermineTenants(out) :
                                        GetInputSources(out, t) \cap AllLogSources # {}
                         => AllWired(added, all)
<1> DEFINE tenants == DetermineTenants(out)
           trace == base \o <<"trace", "context">>
           route == base \o <<"route">>
           unmatched == Unmatched(route)
           Of(t) == base \o <<t>>
           PerTenant(t) ==
             IF o.otel
               THEN OTLP(Of(t), {RoutePort(route, t)}, GetInputSources(out, t), TRUE, out, t)
               ELSE Linear(Of(t), Loki(FALSE), {RoutePort(route, t)}, out, t)
           ofTrace == IF o.otel THEN One(trace, Trace(inputs)) ELSE NoComponents
           from == IF o.otel THEN {Plain(trace)} ELSE inputs
           ofRoute == One(route, Route(from, "type", tenants))
           ofUnmatched == One(unmatched, Count({RoutePort(route, "_unmatched")}))
           maps == {ofTrace, ofRoute, ofUnmatched} \cup {PerTenant(t) : t \in tenants}
           added == MergeAll(maps)
<1>1. LokiStack(base, inputs, o, out) = added
  BY DEF LokiStack, CountUnmatched
<1>2. /\ tenants \subseteq Word /\ tenants \subseteq TypeWords
      /\ {"trace", "context", "route", "unmatched"} \subseteq Word
      /\ {"trace", "route"} \subseteq TypeWords /\ "trace" \notin tenants /\ "route" \notin tenants
  <2>1. {"trace", "route"} \subseteq TypeWords /\ Tenants \subseteq TypeWords
    BY DEF OutputWords, TypeWords, Tenants
  <2>2. {"context", "unmatched"} \subseteq OwnWords
    BY DEF OwnWords
  <2>3. TypeWords \subseteq OutputWords
    BY DEF TypeWords
  <2>4. "trace" \notin Tenants /\ "route" \notin Tenants
    BY DEF Tenants
  <2> QED
    BY <2>1, <2>2, <2>3, <2>4, WordsAre
<1>3. /\ Below(trace, base, "trace")
      /\ Below(route, base, "route") /\ Below(unmatched, base, "route") /\ unmatched # route
  <2>1. Below(trace, base, "trace")
    BY <1>2, TwoWordsBelow
  <2>2. Below(route, base, "route")
    BY <1>2, WordBelow
  <2> HIDE DEF route
  <2>3. Below(unmatched, route, "unmatched")
    <3>1. route \in Seq(Word)
      BY <2>2, BelowDiffers
    <3> QED
      BY <1>2, <3>1, WordBelow DEF Unmatched
  <2> QED
    BY <2>1, <2>2, <2>3, BelowBelow, BelowDiffers
<1>4. \A t \in tenants : Below(Of(t), base, t) /\ Of(t) \in Seq(Word)
  <2> HIDE DEF tenants
  <2> QED
    BY <1>2, WordBelow, BelowDiffers
<1> HIDE DEF trace, route, unmatched, Of
<1>5. ASSUME NEW t \in tenants
      PROVE  /\ \A id \in DOMAIN PerTenant(t) : Below(id, base, t)
             /\ \A all : /\ Holds(PerTenant(t), all) /\ Resolves(RoutePort(route, t), all)
                         /\ o.otel => GetInputSources(out, t) \cap AllLogSources # {}
                         => AllWired(PerTenant(t), all)
  <2>1. \A id \in DOMAIN PerTenant(t) : Belongs(id, Of(t), TypeWords)
    BY <1>4, OTLPWired, LinearWired, StagesAre
  <2>2. ASSUME NEW id \in DOMAIN PerTenant(t)
        PROVE  Below(id, base, t)
    <3>1. Belongs(id, Of(t), TypeWords)
      BY <2>1
    <3> QED
      BY <1>4, <3>1, BelowBelow DEF Belongs
  <2>3. ASSUME NEW all, Holds(PerTenant(t), all), Resolves(RoutePort(route, t), all),
               o.otel => GetInputSources(out, t) \cap AllLogSources # {}
        PROVE  AllWired(PerTenant(t), all)
    <3>1. Given({RoutePort(route, t)}, all)
      BY <2>3, GivenOne
    <3>2. CASE o.otel
      BY <1>4, <2>3, <3>1, <3>2, OTLPWired
    <3>3. CASE ~o.otel
      BY <1>4, <2>3, <3>1, <3>3, LinearWired, StagesAre
    <3> QED
      BY <3>2, <3>3
  <2> HIDE DEF PerTenant
  <2> QED
    BY <2>2, <2>3
<1>6. /\ \A id : id \in DOMAIN added <=> \E m \in maps : id \in DOMAIN m
      /\ \A id \in DOMAIN added : \E m \in maps : id \in DOMAIN m /\ added[id] = m[id]
      /\ \A m \in maps : \A id \in DOMAIN m :
           (\A k \in maps : id \in DOMAIN k => k = m) => id \in DOMAIN added /\ added[id] = m[id]
  <2> HIDE DEF maps
  <2> QED
    BY Merged
<1> HIDE DEF added, PerTenant
<1>7. /\ DOMAIN ofTrace = (IF o.otel THEN {trace} ELSE {}) /\ DOMAIN ofRoute = {route}
      /\ DOMAIN ofUnmatched = {unmatched}
  BY OneIs, NoneIs, Zenon
<1>8. /\ ofRoute[route].kind = "transform" /\ ofRoute[route].does = "route" /\ ofRoute[route].arg.values = tenants
      /\ o.otel => ofTrace[trace].kind = "transform" /\ ofTrace[trace].does = "trace"
  <2>0. \A x, c : One(x, c)[x] = c
    BY DEF One
  <2> HIDE DEF from, tenants
  <2>1. ofRoute[route] = Route(from, "type", tenants)
    BY <2>0, Zenon
  <2>2. o.otel => ofTrace[trace] = Trace(inputs)
    BY <2>0, Zenon
  <2> HIDE DEF ofRoute, ofTrace
  <2> QED
    BY <2>1, <2>2, ComponentsAre
<1> HIDE DEF ofTrace, ofRoute, ofUnmatched
<1>9. trace # route /\ trace # unmatched
  BY <1>3, BelowDiffers
\* No two of the maps have an id in common.
<1>10. ASSUME NEW m \in maps, NEW k \in maps, NEW id, id \in DOMAIN m, id \in DOMAIN k
       PROVE  k = m
  <2> DEFINE few == {ofTrace, ofRoute, ofUnmatched}
  <2> HIDE DEF tenants
  <2>1. \A x \in few : id \in DOMAIN x => Below(id, base, "trace") \/ Below(id, base, "route")
    BY <1>3, <1>7
  <2>2. \A t \in tenants : id \in DOMAIN PerTenant(t) => Below(id, base, t)
    BY <1>5
  <2>3. \A x, y \in few : id \in DOMAIN x /\ id \in DOMAIN y => x = y
    BY <1>3, <1>7, <1>9
  <2>4. \A x \in few : \A t \in tenants : ~(id \in DOMAIN x /\ id \in DOMAIN PerTenant(t))
    <3> HIDE DEF few
    <3> QED
      BY <1>2, <2>1, <2>2, BelowDiffers
  <2>5. \A t, u \in tenants : id \in DOMAIN PerTenant(t) /\ id \in DOMAIN PerTenant(u) => t = u
    BY <2>2, BelowDiffers
  <2>6. maps = few \cup {PerTenant(t) : t \in tenants}
    OBVIOUS
  <2> HIDE DEF few, maps
  <2> QED
    BY <1>10, <2>3, <2>4, <2>5, <2>6
<1>11. ASSUME NEW m \in maps
       PROVE  Holds(m, added)
  <2> HIDE DEF maps
  <2> QED
    BY <1>6, <1>10 DEF Holds
<1>12. ofRoute \in maps /\ ofTrace \in maps /\ ofUnmatched \in maps /\ \A t \in tenants : PerTenant(t) \in maps
  OBVIOUS
<1>13. \A id \in DOMAIN added : Belongs(id, base, TypeWords)
  <2> SUFFICES ASSUME NEW id \in DOMAIN added
               PROVE  Belongs(id, base, TypeWords)
    OBVIOUS
  <2>1. PICK m \in maps : id \in DOMAIN m
    BY <1>6
  <2> HIDE DEF tenants
  <2>2. CASE m \in {ofTrace, ofRoute, ofUnmatched}
    BY <1>2, <1>3, <1>7, <2>1, <2>2 DEF Belongs
  <2>3. ASSUME NEW t \in tenants, m = PerTenant(t)
        PROVE  Belongs(id, base, TypeWords)
    BY <1>2, <1>5, <2>1, <2>3 DEF Belongs
  <2> QED
    BY <2>1, <2>2, <2>3
<1>14. ASSUME NEW all, Holds(added, all), Given(inputs, all),
              o.otel => \A t \in tenants : GetInputSources(out, t) \cap AllLogSources # {}
       PROVE  AllWired(added, all)
  <2>1. \A m \in maps : Holds(m, all)
    <3> HIDE DEF maps
    <3> QED
      BY <1>11, <1>14 DEF Holds
  <2>2. ASSUME NEW t \in tenants \cup {"_unmatched"}
        PROVE  Resolves(RoutePort(route, t), all)
    <3>1. route \in DOMAIN all /\ all[route] = ofRoute[route]
      BY <1>7, <1>12, <2>1 DEF Holds
    <3>2. t # "" /\ (t = "_unmatched" \/ t \in tenants)
      BY <2>2 DEF Tenants
    <3>3. RoutePort(route, t).id = route /\ RoutePort(route, t).route = t
      BY DEF RoutePort
    <3> HIDE DEF tenants
    <3> QED
      BY <1>8, <3>1, <3>2, <3>3 DEF Resolves, Fits
  <2>3. Given(from, all)
    <3>1. CASE o.otel
      <4>1. trace \in DOMAIN all /\ all[trace] = ofTrace[trace]
        BY <1>7, <1>12, <2>1, <3>1 DEF Holds
      <4>2. Resolves(Plain(trace), all)
        BY <1>8, <3>1, <4>1 DEF Resolves, Fits, Plain
      <4> QED
        BY <3>1, <4>2, GivenOne
    <3>2. CASE ~o.otel
      BY <1>14, <3>2
    <3> QED
      BY <3>1, <3>2
  <2> HIDE DEF from, tenants
  <2>4. AllWired(ofTrace, all)
    BY <1>14, GivenWired, OneWired, NoneWired DEF ofTrace
  <2>5. AllWired(ofRoute, all)
    BY <2>3, GivenWired, OneWired DEF ofRoute
  <2>6. AllWired(ofUnmatched, all)
    BY <2>2, GivenOne, GivenWired, OneWired DEF ofUnmatched
  <2>7. ASSUME NEW t \in tenants
        PROVE  AllWired(PerTenant(t), all)
    BY <1>5, <1>12, <1>14, <2>1, <2>2, <2>7
  <2>8. \A m \in maps : AllWired(m, all)
    BY <2>4, <2>5, <2>6, <2>7
  <2> QED
    BY <2>8, MergedWired DEF added
<1> QED
  BY <1>1, <1>13, <1>14

\* output.New: a throttle, if there is one, and the components of the type.
LEMMA NewOutputWired ==
  ASSUME NEW n \in Names, NEW o, o.type \in OutputTypes, DetermineTenants(n) \subseteq Tenants
  PROVE  LET added == NewOutput(n, o)
         IN  /\ \A id \in DOMAIN added : Belongs(id, MakeOutputID(n), OutputWords)
             /\ \A all : /\ Holds(added, all) /\ Given(Ports(inputIDs[n]), all)
                         /\ op.sources \cap AllLogSources # {}
                         /\ o.type = "lokiStack" /\ o.otel =>
                              \A t \in DetermineTenants(n) : GetInputSources(n, t) \cap AllLogSources # {}
                         => AllWired(added, all)
<1> DEFINE base == MakeOutputID(n)
           throttle == base \o <<"throttle">>
           inputs == IF o.limited THEN {Plain(throttle)} ELSE Ports(inputIDs[n])
           components ==
             CASE o.type = "lokiStack" -> LokiStack(base, inputs, o, n)
               [] o.type = "otlp" -> OTLP(base, inputs, op.sources, op.migrated, n, "")
               [] OTHER -> Linear(base, Stages(o), inputs, n, "")
           ofThrottle == IF o.limited THEN One(throttle, Pass(Ports(inputIDs[n]))) ELSE NoComponents
           maps == {components, ofThrottle}
           added == MergeAll(maps)
<1>1. NewOutput(n, o) = added
  BY DEF NewOutput
<1>2. base \in Seq(Word)
  BY IDsAre
<1> HIDE DEF base, inputs
<1>3. "throttle" \in OutputWords /\ "throttle" \notin TypeWords /\ TypeWords \subseteq OutputWords
  BY DEF OutputWords, TypeWords
<1>4. Below(throttle, base, "throttle")
  BY <1>2, <1>3, WordBelow, WordsAre
<1> HIDE DEF throttle
<1>5. \A id \in DOMAIN components : Belongs(id, base, TypeWords)
  <2>1. CASE o.type = "lokiStack"
    BY <1>2, <2>1, LokiStackWired
  <2>2. CASE o.type = "otlp"
    BY <1>2, <2>2, OTLPWired
  <2>3. CASE o.type \notin {"lokiStack", "otlp"}
    <3>1. Stages(o) \in Seq(StageWords)
      BY <2>3, StagesAre
    <3> QED
      BY <1>2, <2>3, <3>1, LinearWired
  <2> QED
    BY <2>1, <2>2, <2>3
<1>6. ASSUME NEW all, Holds(components, all), Given(inputs, all), op.sources \cap AllLogSources # {},
             o.type = "lokiStack" /\ o.otel =>
               \A t \in DetermineTenants(n) : GetInputSources(n, t) \cap AllLogSources # {}
      PROVE  AllWired(components, all)
  <2>1. CASE o.type = "lokiStack"
    BY <1>2, <1>6, <2>1, LokiStackWired
  <2>2. CASE o.type = "otlp"
    BY <1>2, <1>6, <2>2, OTLPWired
  <2>3. CASE o.type \notin {"lokiStack", "otlp"}
    <3>1. Stages(o) \in Seq(StageWords)
      BY <2>3, StagesAre
    <3> QED
      BY <1>2, <1>6, <2>3, <3>1, LinearWired
  <2> QED
    BY <2>1, <2>2, <2>3
<1> HIDE DEF components
<1>7. DOMAIN ofThrottle = IF o.limited THEN {throttle} ELSE {}
  BY OneIs, NoneIs
<1>8. \A id \in DOMAIN ofThrottle : ofThrottle[id] = Pass(Ports(inputIDs[n]))
  BY OneIs, NoneIs
<1> HIDE DEF ofThrottle
<1>9. throttle \notin DOMAIN components
  BY <1>3, <1>4, <1>5, BelowDiffers DEF Belongs
<1>10. /\ \A id : id \in DOMAIN added <=> id \in DOMAIN components \cup DOMAIN ofThrottle
       /\ Holds(components, added) /\ Holds(ofThrottle, added)
  <2>1. /\ \A id : id \in DOMAIN added <=> \E m \in maps : id \in DOMAIN m
        /\ \A m \in maps : \A id \in DOMAIN m :
             (\A k \in maps : id \in DOMAIN k => k = m) => id \in DOMAIN added /\ added[id] = m[id]
    <3> HIDE DEF maps
    <3> QED
      BY Merged
  <2> HIDE DEF added
  <2> QED
    BY <1>7, <1>9, <2>1 DEF Holds
<1>11. \A id \in DOMAIN added : Belongs(id, base, OutputWords)
  BY <1>3, <1>4, <1>5, <1>7, <1>10 DEF Belongs
<1>12. ASSUME NEW all, Holds(added, all), Given(Ports(inputIDs[n]), all), op.sources \cap AllLogSources # {},
              o.type = "lokiStack" /\ o.otel =>
                \A t \in DetermineTenants(n) : GetInputSources(n, t) \cap AllLogSources # {}
       PROVE  AllWired(added, all)
  <2> HIDE DEF added
  <2>1. Holds(components, all) /\ Holds(ofThrottle, all)
    BY <1>10, <1>12 DEF Holds
  <2>2. Given(inputs, all)
    <3>1. CASE o.limited
      <4>1. throttle \in DOMAIN all /\ all[throttle] = Pass(Ports(inputIDs[n]))
        BY <1>7, <1>8, <2>1, <3>1 DEF Holds
      <4>2. Resolves(Plain(throttle), all)
        BY <4>1, ComponentsAre DEF Resolves, Fits, Plain
      <4> QED
        BY <3>1, <4>2, GivenOne DEF inputs
    <3>2. CASE ~o.limited
      BY <1>12, <3>2 DEF inputs
    <3> QED
      BY <3>1, <3>2
  <2>3. AllWired(components, all)
    BY <1>6, <1>12, <2>1, <2>2
  <2>4. AllWired(ofThrottle, all)
    BY <1>12, GivenWired, OneWired, NoneWired DEF ofThrottle
  <2> QED
    BY <2>3, <2>4, MergedWired DEF added
<1> QED
  BY <1>1, <1>11, <1>12 DEF base

-----------------------------------------------------------------------------
(* The spec *)

PipelineNames == {p.name : p \in Pipelines}

LEMMA InputsAre ==
  ASSUME spec \in ClfSpecs, NEW n \in DOMAIN spec.inputs
  PROVE  /\ n \in Names /\ spec.inputs[n].type \in InputTypes
         /\ spec.inputs[n].type = "infrastructure" => spec.inputs[n].sources \subseteq InfrastructureSources
         /\ spec.inputs[n].type = "audit" => spec.inputs[n].sources \subseteq AuditSources
BY SpecsAssumption, Zenon

LEMMA OutputsAre ==
  ASSUME spec \in ClfSpecs, NEW n \in DOMAIN spec.outputs
  PROVE  /\ n \in Names /\ spec.outputs[n].type \in OutputTypes
         /\ \E p \in Pipelines : n \in p.outputs
<1>1. n \in Names /\ spec.outputs[n].type \in OutputTypes
  BY SpecsAssumption, Zenon
<1>2. \E k \in DOMAIN spec.pipelines : n \in spec.pipelines[k].outputs
  BY SpecsAssumption, Zenon
<1> QED
  BY <1>1, <1>2 DEF Pipelines

LEMMA PipelinesAre ==
  ASSUME spec \in ClfSpecs
  PROVE  /\ DOMAIN spec.filters \subseteq Names
         /\ \A p \in Pipelines :
              /\ p.name \in Names /\ p.filters \in Seq(DOMAIN spec.filters) /\ Len(p.filters) < Len(Numerals)
              /\ p.inputs \subseteq DOMAIN spec.inputs /\ p.inputs # {}
              /\ p.outputs \subseteq DOMAIN spec.outputs
              /\ PipelineNamed(p.name) = p
<1>1. DOMAIN spec.filters \subseteq Names
  BY SpecsAssumption, Zenon
<1>2. ASSUME NEW p \in Pipelines
      PROVE  /\ p.name \in Names /\ p.filters \in Seq(DOMAIN spec.filters) /\ Len(p.filters) < Len(Numerals)
             /\ p.inputs \subseteq DOMAIN spec.inputs /\ p.inputs # {}
             /\ p.outputs \subseteq DOMAIN spec.outputs
             /\ \A q \in Pipelines : q.name = p.name => q = p
  <2>1. PICK k \in DOMAIN spec.pipelines : p = spec.pipelines[k]
    BY DEF Pipelines
  <2>2. /\ p.name \in Names /\ p.filters \in Seq(DOMAIN spec.filters) /\ Len(p.filters) < Len(Numerals)
        /\ p.inputs \subseteq DOMAIN spec.inputs /\ p.inputs # {}
        /\ p.outputs \subseteq DOMAIN spec.outputs
        /\ \A j \in DOMAIN spec.pipelines : spec.pipelines[j].name = p.name => j = k
    BY <2>1, SpecsAssumption, Zenon
  <2>3. \A q \in Pipelines : q.name = p.name => q = p
    BY <2>1, <2>2 DEF Pipelines
  <2> QED
    BY <2>2, <2>3
<1>3. \A p \in Pipelines : PipelineNamed(p.name) = p
  BY <1>2 DEF PipelineNamed
<1> QED
  BY <1>1, <1>2, <1>3

LEMMA InputsToAre ==
  ASSUME spec \in ClfSpecs, NEW n \in DOMAIN spec.outputs
  PROVE  InputsTo(n) # {} /\ InputsTo(n) \subseteq DOMAIN spec.inputs
<1>1. PICK p \in Pipelines : n \in p.outputs
  BY OutputsAre
<1>2. \A q \in Pipelines : q.inputs \subseteq DOMAIN spec.inputs /\ q.inputs # {}
  BY PipelinesAre
<1> QED
  BY <1>1, <1>2 DEF InputsTo

\* An output has a tenant, and the last one is one of its tenants.
LEMMA TenantsAre ==
  ASSUME spec \in ClfSpecs, NEW n \in DOMAIN spec.outputs
  PROVE  DetermineTenants(n) \subseteq Tenants /\ LastTenant(DetermineTenants(n)) \in DetermineTenants(n)
<1>1. \A i : i.type \in InputTypes => TenantsOf(i) \subseteq Tenants /\ TenantsOf(i) # {}
  BY DEF TenantsOf, InputTypes, Tenants
<1>2. InputsTo(n) # {} /\ \A i \in InputsTo(n) : spec.inputs[i].type \in InputTypes
  BY InputsToAre, InputsAre
<1>3. DetermineTenants(n) \subseteq Tenants /\ DetermineTenants(n) # {}
  BY <1>1, <1>2 DEF DetermineTenants
<1> HIDE DEF DetermineTenants
<1> QED
  BY <1>3 DEF LastTenant, Tenants

\* Without receivers, the log sources of a tenant are those of the nodes.
LEMMA SourcesAre ==
  ASSUME spec \in ClfSpecs, NEW n \in DOMAIN spec.outputs, NEW t,
         \A i \in InputsTo(n) : spec.inputs[i].type \notin {"http", "syslog"}
  PROVE  GetInputSources(n, t) \subseteq AllLogSources
<1> DEFINE Of(i) ==
             CASE i.type = t /\ t = "application"    -> {"container"}
               [] i.type = t /\ t = "infrastructure" -> Chosen(i.sources, InfrastructureSources)
               [] i.type = t /\ t = "audit"          -> Chosen(i.sources, AuditSources)
               [] i.type = "http" /\ t = "audit"     -> {"receiver.http"}
               [] i.type = "syslog" /\ t = "infrastructure" -> {"receiver.syslog"}
               [] OTHER -> {}
<1>1. GetInputSources(n, t) = UNION {Of(spec.inputs[i]) : i \in InputsTo(n)}
  BY DEF GetInputSources
<1>2. ASSUME NEW i \in InputsTo(n)
      PROVE  Of(spec.inputs[i]) \subseteq AllLogSources
  <2> DEFINE input == spec.inputs[i]
  <2>1. /\ input.type = "infrastructure" => Chosen(input.sources, InfrastructureSources) \subseteq AllLogSources
        /\ input.type = "audit" => Chosen(input.sources, AuditSources) \subseteq AllLogSources
        /\ {"container"} \subseteq AllLogSources
    <3>1. i \in DOMAIN spec.inputs
      BY <1>2, InputsToAre
    <3> QED
      BY <3>1, InputsAre DEF Chosen, AllLogSources, InfrastructureSources
  <2>2. input.type \notin {"http", "syslog"}
    BY <1>2
  <2> HIDE DEF input
  <2>3. Of(input) \subseteq AllLogSources
    BY <2>1, <2>2
  <2> QED
    BY <2>3 DEF input
<1> HIDE DEF Of
<1> QED
  BY <1>1, <1>2

-----------------------------------------------------------------------------
(* The invariant: what Conf has gone through, whose ids the components have, *)
(* and that all that was handed on is there.                                 *)

Running == phase \in {"wire", "inputs", "pipelines", "outputs", "done"}

WiredPipelines == IF phase = "wire" THEN PipelineNames \ todo ELSE PipelineNames

AddedInputs ==
  IF phase = "wire" THEN {}
  ELSE IF phase = "inputs" THEN DOMAIN spec.inputs \ todo
  ELSE DOMAIN spec.inputs

AddedPipelines ==
  IF phase \in {"wire", "inputs"} THEN {}
  ELSE IF phase = "pipelines" THEN PipelineNames \ todo
  ELSE PipelineNames

AddedOutputs ==
  IF phase = "outputs" THEN DOMAIN spec.outputs \ todo
  ELSE IF phase = "done" THEN DOMAIN spec.outputs
  ELSE {}

PhaseInv ==
  /\ spec \in ClfSpecs
  /\ phase \in {"wire", "inputs", "pipelines", "outputs", "done", "nilTuning", "noSources"}
  /\ phase \in {"wire", "pipelines"} => todo \subseteq PipelineNames
  /\ phase = "inputs" => todo \subseteq DOMAIN spec.inputs
  /\ phase = "outputs" => todo \subseteq DOMAIN spec.outputs
  /\ DOMAIN inputIDs = DOMAIN spec.outputs /\ DOMAIN ids = DOMAIN spec.inputs
  /\ DOMAIN op = {"sources", "migrated", "unmatched"}

OfA(id, kind, names, words) == \E n \in names : Belongs(id, <<kind>> \o n, words)

MetricsIDs == {<<"add", "nodename", "to", "metric">>, <<"prometheus", "output">>}

\* Every id is that of something Conf has gone through.
IDsOwned ==
  \A id \in DOMAIN config :
    \/ id = InternalMetrics
    \/ OfA(id, "input", AddedInputs, InputWords)
    \/ OfA(id, "pipeline", AddedPipelines, PipelineWords)
    \/ OfA(id, "output", AddedOutputs, OutputWords)
    \/ phase = "done" /\ id \in MetricsIDs

\* What the outputs learned from pipelines, and pipelines from inputs.
HandedOn ==
  /\ \A out \in DOMAIN spec.outputs :
       inputIDs[out] = {LastFilterID(p) : p \in {q \in Pipelines : out \in q.outputs /\ q.name \in WiredPipelines}}
  /\ \A n \in DOMAIN spec.inputs \ AddedInputs : ids[n] = {}
  /\ \A n \in AddedInputs : ids[n] # {}

\* All that is referred to now or later is there.
Linked ==
  /\ \A n \in AddedInputs : \A id \in ids[n] : Resolves(Plain(id), config)
  /\ \A p \in Pipelines : p.name \in AddedPipelines => Resolves(Plain(LastFilterID(p)), config)
  /\ \A id \in op.unmatched : Resolves(Plain(id), config)
  /\ Resolves(Plain(InternalMetrics), config)
  /\ op.sources \cap AllLogSources # {}
  /\ AllWired(config, config)

GraphInv ==
  /\ PhaseInv
  /\ Running => IDsOwned /\ HandedOn /\ (NamesApart /\ OpenTelemetryFromNodes => Linked)

LEMMA SpecStays ==
  ASSUME spec' = spec
  PROVE  /\ Pipelines' = Pipelines /\ PipelineNames' = PipelineNames /\ PipelineWords' = PipelineWords
         /\ NamesApart' = NamesApart /\ OpenTelemetryFromNodes' = OpenTelemetryFromNodes
         /\ \A p : LastFilterID(p)' = LastFilterID(p)
<1>1. Pipelines' = Pipelines
  BY DEF Pipelines
<1>2. PipelineNames' = PipelineNames /\ PipelineWords' = PipelineWords
  BY <1>1 DEF PipelineNames, PipelineWords
<1>3. NamesApart' = NamesApart
  BY <1>1, <1>2 DEF NamesApart
<1>4. OpenTelemetryFromNodes' = OpenTelemetryFromNodes
  BY <1>1 DEF OpenTelemetryFromNodes, InputsTo
<1>5. ASSUME NEW p
      PROVE  LastFilterID(p)' = LastFilterID(p)
  BY DEF LastFilterID, FilterID, AddSystemFilters, IsEarlyStage, FilterType
<1> QED
  BY <1>1, <1>2, <1>3, <1>4, <1>5

LEMMA AddedAre ==
  ASSUME PhaseInv
  PROVE  /\ DOMAIN spec.inputs \subseteq Names /\ PipelineNames \subseteq Names /\ DOMAIN spec.outputs \subseteq Names
         /\ AddedInputs \subseteq DOMAIN spec.inputs /\ AddedPipelines \subseteq PipelineNames
         /\ AddedOutputs \subseteq DOMAIN spec.outputs
<1>1. spec \in ClfSpecs
  BY DEF PhaseInv
<1> QED
  BY <1>1, InputsAre, OutputsAre, PipelinesAre DEF PipelineNames, AddedInputs, AddedPipelines, AddedOutputs

LEMMA OfAKind ==
  ASSUME NEW id, NEW kind \in Word, NEW names, names \subseteq Names, NEW words, OfA(id, kind, names, words)
  PROVE  id[1] = kind
BY KindFirst DEF OfA

\* What Conf has not gone through has none of its ids in the configuration.
LEMMA StillFree ==
  ASSUME PhaseInv, IDsOwned, NamesApart, phase # "done"
  PROVE  /\ \A n \in DOMAIN spec.inputs \ AddedInputs : \A id \in DOMAIN config :
              ~Belongs(id, MakeInputID(n), InputWords)
         /\ \A n \in PipelineNames \ AddedPipelines : \A id \in DOMAIN config :
              ~Belongs(id, <<"pipeline">> \o n, PipelineWords)
         /\ \A n \in DOMAIN spec.outputs \ AddedOutputs : \A id \in DOMAIN config :
              ~Belongs(id, MakeOutputID(n), OutputWords)
         /\ \A id \in DOMAIN config : id \notin MetricsIDs
<1>1. /\ DOMAIN spec.inputs \subseteq Names /\ PipelineNames \subseteq Names /\ DOMAIN spec.outputs \subseteq Names
      /\ AddedInputs \subseteq DOMAIN spec.inputs /\ AddedPipelines \subseteq PipelineNames
      /\ AddedOutputs \subseteq DOMAIN spec.outputs
  BY AddedAre
<1>2. /\ Apart(DOMAIN spec.inputs, InputWords) /\ Apart(PipelineNames, PipelineWords)
      /\ Apart(DOMAIN spec.outputs, OutputWords)
  BY DEF NamesApart, PipelineNames
<1>3. "input" \in Word /\ "pipeline" \in Word /\ "output" \in Word
  BY WordsAre
<1>4. /\ InternalMetrics[1] = "internal"
      /\ \A id \in MetricsIDs : id[1] = "add" \/ id[1] = "prometheus"
  BY DEF InternalMetrics, MetricsIDs
<1>5. ASSUME NEW id \in DOMAIN config
      PROVE  /\ \/ id[1] = "internal"
                \/ id[1] = "input" /\ OfA(id, "input", AddedInputs, InputWords)
                \/ id[1] = "pipeline" /\ OfA(id, "pipeline", AddedPipelines, PipelineWords)
                \/ id[1] = "output" /\ OfA(id, "output", AddedOutputs, OutputWords)
             /\ id \notin MetricsIDs
  <2>1. \/ id = InternalMetrics
        \/ OfA(id, "input", AddedInputs, InputWords)
        \/ OfA(id, "pipeline", AddedPipelines, PipelineWords)
        \/ OfA(id, "output", AddedOutputs, OutputWords)
    BY DEF IDsOwned
  <2>2. AddedInputs \subseteq Names /\ AddedPipelines \subseteq Names /\ AddedOutputs \subseteq Names
    BY <1>1
  <2>3. \/ id[1] = "internal"
        \/ id[1] = "input" /\ OfA(id, "input", AddedInputs, InputWords)
        \/ id[1] = "pipeline" /\ OfA(id, "pipeline", AddedPipelines, PipelineWords)
        \/ id[1] = "output" /\ OfA(id, "output", AddedOutputs, OutputWords)
    BY <1>3, <1>4, <2>1, <2>2, OfAKind
  <2> QED
    BY <1>4, <2>3
<1>6. ASSUME NEW kind \in Word, NEW names, names \subseteq Names, NEW words, Apart(names, words),
             NEW added, added \subseteq names, NEW n \in names \ added, NEW id,
             Belongs(id, <<kind>> \o n, words)
      PROVE  id[1] = kind /\ ~OfA(id, kind, added, words)
  <2>1. id[1] = kind
    BY <1>6, KindFirst
  <2>2. ASSUME NEW m \in added, Belongs(id, <<kind>> \o m, words)
        PROVE  FALSE
    <3>1. n = m
      BY <1>6, <2>2, ApartBelongs
    <3> QED
      BY <3>1
  <2> QED
    BY <2>1, <2>2 DEF OfA
<1>7. ASSUME NEW n \in DOMAIN spec.inputs \ AddedInputs, NEW id \in DOMAIN config,
             Belongs(id, MakeInputID(n), InputWords)
      PROVE  FALSE
  <2>1. id[1] = "input" /\ ~OfA(id, "input", AddedInputs, InputWords)
    BY <1>1, <1>2, <1>3, <1>6, <1>7 DEF MakeInputID
  <2> QED
    BY <1>5, <2>1
<1>8. ASSUME NEW n \in PipelineNames \ AddedPipelines, NEW id \in DOMAIN config,
             Belongs(id, <<"pipeline">> \o n, PipelineWords)
      PROVE  FALSE
  <2>1. id[1] = "pipeline" /\ ~OfA(id, "pipeline", AddedPipelines, PipelineWords)
    BY <1>1, <1>2, <1>3, <1>6, <1>8
  <2> QED
    BY <1>5, <2>1
<1>9. ASSUME NEW n \in DOMAIN spec.outputs \ AddedOutputs, NEW id \in DOMAIN config,
             Belongs(id, MakeOutputID(n), OutputWords)
      PROVE  FALSE
  <2>1. id[1] = "output" /\ ~OfA(id, "output", AddedOutputs, OutputWords)
    BY <1>1, <1>2, <1>3, <1>6, <1>9 DEF MakeOutputID
  <2> QED
    BY <1>5, <2>1
<1> QED
  BY <1>5, <1>7, <1>8, <1>9

\* What each action adds, by ids.
LEMMA IDsOfInput ==
  ASSUME PhaseInv, NEW n, AddInput(n)
  PROVE  /\ n \in DOMAIN spec.inputs \ AddedInputs
         /\ \A id \in DOMAIN NewSource(n, spec.inputs[n]) : Belongs(id, MakeInputID(n), InputWords)
<1>1. n \in todo /\ phase = "inputs"
  BY DEF AddInput, Step, First
<1>2. spec \in ClfSpecs /\ n \in DOMAIN spec.inputs
  BY <1>1 DEF PhaseInv
<1>3. n \notin AddedInputs
  BY <1>1 DEF AddedInputs
<1> QED
  BY <1>2, <1>3, InputsAre, NewSourceWired

LEMMA IDsOfPipeline ==
  ASSUME PhaseInv, NEW n, AddPipeline(n)
  PROVE  /\ n \in PipelineNames \ AddedPipelines
         /\ PipelineNamed(n) \in Pipelines /\ PipelineNamed(n).name = n
         /\ \A id \in DOMAIN PipelineTransforms(PipelineNamed(n)) : Belongs(id, <<"pipeline">> \o n, PipelineWords)
<1>1. n \in todo /\ phase = "pipelines"
  BY DEF AddPipeline, Step, First
<1>2. spec \in ClfSpecs /\ n \in PipelineNames
  BY <1>1 DEF PhaseInv
<1>3. n \notin AddedPipelines
  BY <1>1 DEF AddedPipelines
<1>4. PICK p \in Pipelines : p.name = n
  BY <1>2 DEF PipelineNames
<1>5. PipelineNamed(n) = p
  BY <1>2, <1>4, PipelinesAre
<1>6. /\ p.name \in Names /\ p.filters \in Seq(DOMAIN spec.filters) /\ Len(p.filters) < Len(Numerals)
      /\ DOMAIN spec.filters \subseteq Names
  BY <1>2, <1>4, PipelinesAre
<1> QED
  BY <1>2, <1>3, <1>4, <1>5, <1>6, PipelineWired

LEMMA IDsOfOutput ==
  ASSUME PhaseInv, NEW n, AddOutput(n)
  PROVE  /\ n \in DOMAIN spec.outputs \ AddedOutputs
         /\ \A id \in DOMAIN NewOutput(n, spec.outputs[n]) : Belongs(id, MakeOutputID(n), OutputWords)
<1>1. n \in todo /\ phase = "outputs"
  BY DEF AddOutput, Step, First
<1>2. spec \in ClfSpecs /\ n \in DOMAIN spec.outputs
  BY <1>1 DEF PhaseInv
<1>3. n \notin AddedOutputs
  BY <1>1 DEF AddedOutputs
<1> QED
  BY <1>2, <1>3, OutputsAre, TenantsAre, NewOutputWired

LEMMA IDsOfMetrics == \A id : id \in DOMAIN Metrics <=> id \in MetricsIDs
<1> DEFINE nodename == <<"add", "nodename", "to", "metric">>
           endpoint == <<"prometheus", "output">>
           ofNode == One(nodename, Pass({Plain(InternalMetrics)}))
           ofEndpoint == One(endpoint, Sink(Ports({nodename} \cup op.unmatched), <<>>, ""))
<1>1. Metrics = MergeAll({ofNode, ofEndpoint})
  BY DEF Metrics
<1>2. MetricsIDs = {nodename, endpoint}
  BY DEF MetricsIDs
<1> HIDE DEF nodename, endpoint
<1>3. DOMAIN ofNode = {nodename} /\ DOMAIN ofEndpoint = {endpoint}
  BY OneIs, Zenon
<1> HIDE DEF ofNode, ofEndpoint
<1> QED
  BY <1>1, <1>2, <1>3, Merged

\* Every step leaves the components as they are, and adds some or none.
LEMMA StepKeeps ==
  ASSUME GraphInv, NamesApart, [ConfNext]_confVars
  PROVE  Holds(config, config')
<1>0. PhaseInv /\ (Running => IDsOwned)
  BY DEF GraphInv
<1>1. ASSUME NEW added, config' = Over(added, config), \A id \in DOMAIN added : id \notin DOMAIN config
      PROVE  Holds(config, config')
  BY <1>1, OverHolds
<1>2. ASSUME config' = config
      PROVE  Holds(config, config')
  BY <1>2 DEF Holds
<1>3. ASSUME NEW n, AddInput(n)
      PROVE  Holds(config, config')
  <2>1. phase = "inputs" /\ config' = Over(NewSource(n, spec.inputs[n]), config)
    BY <1>3 DEF AddInput, Step
  <2>2. Running /\ phase # "done"
    BY <2>1 DEF Running
  <2> QED
    BY <1>0, <1>1, <1>3, <2>1, <2>2, IDsOfInput, StillFree
<1>4. ASSUME NEW n, AddPipeline(n)
      PROVE  Holds(config, config')
  <2>1. phase = "pipelines" /\ config' = Over(PipelineTransforms(PipelineNamed(n)), config)
    BY <1>4 DEF AddPipeline, Step
  <2>2. Running /\ phase # "done"
    BY <2>1 DEF Running
  <2> QED
    BY <1>0, <1>1, <1>4, <2>1, <2>2, IDsOfPipeline, StillFree
<1>5. ASSUME NEW n, AddOutput(n)
      PROVE  Holds(config, config')
  <2>1. phase = "outputs" /\ config' = Over(NewOutput(n, spec.outputs[n]), config)
    BY <1>5 DEF AddOutput, Step
  <2>2. Running /\ phase # "done"
    BY <2>1 DEF Running
  <2> QED
    BY <1>0, <1>1, <1>5, <2>1, <2>2, IDsOfOutput, StillFree
<1>6. CASE AddMetrics
  <2>1. phase = "outputs" /\ config' = Over(Metrics, config)
    BY <1>6 DEF AddMetrics
  <2>2. Running /\ phase # "done"
    BY <2>1 DEF Running
  <2> QED
    BY <1>0, <1>1, <2>1, <2>2, IDsOfMetrics, StillFree
<1>7. CASE UNCHANGED confVars
  BY <1>2, <1>7 DEF confVars
<1>8. CASE NextPhase
  BY <1>2, <1>8 DEF NextPhase
<1>9. ASSUME NEW n, WirePipeline(n) \/ PanicOnInput(n) \/ PanicOnOutput(n)
      PROVE  Holds(config, config')
  BY <1>2, <1>9 DEF WirePipeline, PanicOnInput, PanicOnOutput
<1> QED
  BY <1>3, <1>4, <1>5, <1>6, <1>7, <1>8, <1>9 DEF ConfNext

LEMMA InitInv ==
  ASSUME GraphInit
  PROVE  GraphInv
<1>1. /\ spec \in ClfSpecs /\ phase = "wire" /\ todo = PipelineNames
      /\ inputIDs = [n \in DOMAIN spec.outputs |-> {}] /\ ids = [n \in DOMAIN spec.inputs |-> {}]
      /\ config = One(InternalMetrics, Source({}))
      /\ op = [sources |-> AllLogSources, migrated |-> FALSE, unmatched |-> {}]
  BY DEF GraphInit, PipelineNames
<1>2. PhaseInv
  BY <1>1 DEF PhaseInv
<1>3. DOMAIN config = {InternalMetrics} /\ config[InternalMetrics] = Source({})
  BY <1>1, OneIs
<1>4. IDsOwned
  BY <1>3 DEF IDsOwned
<1>5. AddedInputs = {} /\ AddedPipelines = {} /\ WiredPipelines = {}
  BY <1>1 DEF AddedInputs, AddedPipelines, WiredPipelines
<1>6. HandedOn
  BY <1>1, <1>5 DEF HandedOn
<1>7. Source({}).kind = "source" /\ Source({}).does = "emit" /\ Source({}).inputs = {}
  BY ComponentIs DEF Source
<1>8. Resolves(Plain(InternalMetrics), config) /\ Wired(Source({}), config)
  BY <1>3, <1>7 DEF Resolves, Fits, Plain, Wired
<1>9. op.sources \cap AllLogSources # {} /\ op.unmatched = {}
  BY <1>1 DEF AllLogSources, AuditSources
<1>10. Linked
  BY <1>3, <1>5, <1>8, <1>9 DEF Linked, AllWired
<1> QED
  BY <1>2, <1>4, <1>6, <1>10 DEF GraphInv

LEMMA WireInv ==
  ASSUME GraphInv, NEW n, WirePipeline(n)
  PROVE  GraphInv'
<1> DEFINE p == PipelineNamed(n)
<1>0. PhaseInv /\ (Running => IDsOwned /\ HandedOn /\ (NamesApart /\ OpenTelemetryFromNodes => Linked))
  BY DEF GraphInv
<1>1. /\ phase = "wire" /\ phase' = "wire" /\ n \in todo /\ todo' = todo \ {n} /\ spec' = spec
      /\ ids' = ids /\ config' = config /\ op' = op
      /\ inputIDs' = [out \in DOMAIN inputIDs |->
                        IF out \in p.outputs THEN inputIDs[out] \cup {LastFilterID(p)} ELSE inputIDs[out]]
  BY DEF WirePipeline, Step, First
<1>2. /\ spec \in ClfSpecs /\ todo \subseteq PipelineNames /\ DOMAIN inputIDs = DOMAIN spec.outputs
      /\ DOMAIN ids = DOMAIN spec.inputs
  BY <1>0, <1>1 DEF PhaseInv
<1>3. p \in Pipelines /\ p.name = n /\ \A q \in Pipelines : q.name = n => q = p
  <2>1. PICK q \in Pipelines : q.name = n
    BY <1>1, <1>2 DEF PipelineNames
  <2> QED
    BY <1>2, <2>1, PipelinesAre
<1> HIDE DEF p
<1>4. /\ Pipelines' = Pipelines /\ PipelineNames' = PipelineNames /\ PipelineWords' = PipelineWords
      /\ NamesApart' = NamesApart /\ OpenTelemetryFromNodes' = OpenTelemetryFromNodes
      /\ \A q : LastFilterID(q)' = LastFilterID(q)
  BY <1>1, SpecStays
<1>5. PhaseInv'
  BY <1>0, <1>1, <1>2, <1>4 DEF PhaseInv
<1>6. /\ AddedInputs = {} /\ AddedPipelines = {} /\ AddedOutputs = {}
      /\ AddedInputs' = {} /\ AddedPipelines' = {} /\ AddedOutputs' = {}
  BY <1>1 DEF AddedInputs, AddedPipelines, AddedOutputs
<1>7. /\ WiredPipelines = PipelineNames \ todo /\ WiredPipelines' = PipelineNames \ todo'
  BY <1>1, <1>4 DEF WiredPipelines
<1>8. IDsOwned /\ HandedOn /\ (NamesApart /\ OpenTelemetryFromNodes => Linked)
  BY <1>0, <1>1 DEF Running
<1>9. IDsOwned'
  BY <1>1, <1>4, <1>6, <1>8 DEF IDsOwned
<1>10. ASSUME NEW out \in DOMAIN spec.outputs
       PROVE  inputIDs'[out] = {LastFilterID(q) : q \in {q \in Pipelines : out \in q.outputs /\ q.name \in WiredPipelines'}}
  <2> DEFINE Wires(names) == {q \in Pipelines : out \in q.outputs /\ q.name \in names}
  <2>1. inputIDs[out] = {LastFilterID(q) : q \in Wires(WiredPipelines)}
    BY <1>8 DEF HandedOn
  <2>2. CASE out \in p.outputs
    <3>1. Wires(WiredPipelines') = Wires(WiredPipelines) \cup {p}
      BY <1>1, <1>2, <1>3, <1>7, <2>2 DEF PipelineNames
    <3>2. inputIDs'[out] = inputIDs[out] \cup {LastFilterID(p)}
      BY <1>1, <1>2, <2>2
    <3> HIDE DEF Wires
    <3>3. inputIDs'[out] = {LastFilterID(q) : q \in Wires(WiredPipelines')}
      BY <2>1, <3>1, <3>2
    <3> QED
      BY <3>3 DEF Wires
  <2>3. CASE out \notin p.outputs
    <3>1. Wires(WiredPipelines') = Wires(WiredPipelines)
      BY <1>1, <1>2, <1>3, <1>7, <2>3 DEF PipelineNames
    <3>2. inputIDs'[out] = inputIDs[out]
      BY <1>1, <1>2, <2>3
    <3> QED
      BY <2>1, <3>1, <3>2
  <2> QED
    BY <2>2, <2>3
<1>11. HandedOn'
  <2>1. /\ \A out \in DOMAIN spec'.outputs : inputIDs'[out] =
             {LastFilterID(q)' : q \in {q \in Pipelines' : out \in q.outputs /\ q.name \in WiredPipelines'}}
    BY <1>1, <1>4, <1>10
  <2>2. /\ \A x \in DOMAIN spec'.inputs \ AddedInputs' : ids'[x] = {}
        /\ \A x \in AddedInputs' : ids'[x] # {}
    BY <1>1, <1>6, <1>8 DEF HandedOn
  <2> QED
    BY <2>1, <2>2 DEF HandedOn
<1>12. Linked => Linked'
  BY <1>1, <1>4, <1>6 DEF Linked
<1> QED
  BY <1>4, <1>5, <1>8, <1>9, <1>11, <1>12 DEF GraphInv

LEMMA InputInv ==
  ASSUME GraphInv, NEW n, AddInput(n)
  PROVE  GraphInv'
<1> DEFINE i == spec.inputs[n]
           added == NewSource(n, i)
<1>0. PhaseInv /\ (Running => IDsOwned /\ HandedOn /\ (NamesApart /\ OpenTelemetryFromNodes => Linked))
  BY DEF GraphInv
<1>1. /\ phase = "inputs" /\ phase' = "inputs" /\ n \in todo /\ todo' = todo \ {n} /\ spec' = spec
      /\ ids' = [ids EXCEPT ![n] = ids[n] \cup NewInputIDs(n, i)] /\ config' = Over(added, config)
      /\ inputIDs' = inputIDs /\ op' = op
  BY DEF AddInput, Step, First
<1>2. /\ spec \in ClfSpecs /\ todo \subseteq DOMAIN spec.inputs /\ DOMAIN ids = DOMAIN spec.inputs
  BY <1>0, <1>1 DEF PhaseInv
<1>3. n \in DOMAIN spec.inputs \ AddedInputs /\ \A id \in DOMAIN added : Belongs(id, MakeInputID(n), InputWords)
  BY <1>0, IDsOfInput
<1>4. /\ Pipelines' = Pipelines /\ PipelineNames' = PipelineNames /\ PipelineWords' = PipelineWords
      /\ NamesApart' = NamesApart /\ OpenTelemetryFromNodes' = OpenTelemetryFromNodes
      /\ \A q : LastFilterID(q)' = LastFilterID(q)
  BY <1>1, SpecStays
<1>5. AllWired(added, added) /\ NewInputIDs(n, i) # {} /\ \A id \in NewInputIDs(n, i) : Resolves(Plain(id), added)
  BY <1>2, <1>3, InputsAre, NewSourceWired
<1> HIDE DEF i, added
<1>6. PhaseInv'
  BY <1>0, <1>1, <1>2, <1>4 DEF PhaseInv
<1>7. /\ AddedInputs' = AddedInputs \cup {n} /\ AddedPipelines = {} /\ AddedOutputs = {}
      /\ AddedPipelines' = {} /\ AddedOutputs' = {} /\ WiredPipelines = PipelineNames
      /\ WiredPipelines' = PipelineNames
  BY <1>1, <1>2, <1>4 DEF AddedInputs, AddedPipelines, AddedOutputs, WiredPipelines
<1>8. IDsOwned /\ HandedOn /\ (NamesApart /\ OpenTelemetryFromNodes => Linked)
  BY <1>0, <1>1 DEF Running
<1>9. IDsOwned'
  <2>1. \A id \in DOMAIN config' : id \in DOMAIN added \/ id \in DOMAIN config
    BY <1>1 DEF Over
  <2>2. ASSUME NEW id \in DOMAIN added
        PROVE  OfA(id, "input", AddedInputs', InputWords)
    BY <1>3, <1>7 DEF OfA, MakeInputID
  <2>3. ASSUME NEW id, OfA(id, "input", AddedInputs, InputWords)
        PROVE  OfA(id, "input", AddedInputs', InputWords)
    BY <1>7, <2>3 DEF OfA
  <2>4. ASSUME NEW id, OfA(id, "pipeline", AddedPipelines, PipelineWords) \/ OfA(id, "output", AddedOutputs, OutputWords)
        PROVE  FALSE
    BY <1>7, <2>4 DEF OfA
  <2>5. ASSUME NEW id \in DOMAIN config
        PROVE  id = InternalMetrics \/ OfA(id, "input", AddedInputs, InputWords)
    BY <1>1, <1>8, <2>4 DEF IDsOwned
  <2> QED
    BY <2>1, <2>2, <2>3, <2>5 DEF IDsOwned
<1>10. \A x \in DOMAIN spec.inputs : ids'[x] = IF x = n THEN NewInputIDs(n, i) ELSE ids[x]
  <2>1. ids[n] = {}
    BY <1>3, <1>8 DEF HandedOn
  <2> QED
    BY <1>1, <1>2, <2>1
<1>11. HandedOn'
  <2>1. \A out \in DOMAIN spec'.outputs : inputIDs'[out] =
          {LastFilterID(q)' : q \in {q \in Pipelines' : out \in q.outputs /\ q.name \in WiredPipelines'}}
    BY <1>1, <1>4, <1>7, <1>8 DEF HandedOn
  <2>2. /\ \A x \in DOMAIN spec'.inputs \ AddedInputs' : ids'[x] = {}
        /\ \A x \in AddedInputs' : ids'[x] # {}
    <3>1. AddedInputs \subseteq DOMAIN spec.inputs
      BY <1>0, AddedAre
    <3> QED
      BY <1>1, <1>3, <1>5, <1>7, <1>8, <1>10, <3>1 DEF HandedOn
  <2> QED
    BY <2>1, <2>2 DEF HandedOn
<1>12. ASSUME NamesApart, OpenTelemetryFromNodes
       PROVE  Linked'
  <2>1. Linked
    BY <1>8, <1>12
  <2>2. Holds(config, config') /\ Holds(added, config')
    <3>1. phase # "done"
      BY <1>1
    <3>2. \A id \in DOMAIN added : id \notin DOMAIN config
      BY <1>0, <1>3, <1>8, <1>12, <3>1, StillFree
    <3> QED
      BY <1>1, <3>2, OverHolds
  <2>3. \A port : Resolves(port, config) \/ Resolves(port, added) => Resolves(port, config')
    BY <2>2, StaysWired
  <2>4. AllWired(config', config')
    <3>1. AllWired(config, config') /\ AllWired(added, config')
      BY <1>5, <2>1, <2>2, StaysWired DEF Linked
    <3> QED
      BY <1>1, <3>1 DEF AllWired, Over
  <2>5. \A x \in AddedInputs' : \A id \in ids'[x] : Resolves(Plain(id), config')
    <3>1. AddedInputs \subseteq DOMAIN spec.inputs
      BY <1>0, AddedAre
    <3> QED
      BY <1>3, <1>5, <1>7, <1>10, <2>1, <2>3, <3>1 DEF Linked
  <2> QED
    BY <1>1, <1>4, <1>7, <2>1, <2>3, <2>4, <2>5 DEF Linked
<1> QED
  BY <1>4, <1>6, <1>9, <1>11, <1>12 DEF GraphInv

LEMMA PipelineInv ==
  ASSUME GraphInv, NEW n, AddPipeline(n)
  PROVE  GraphInv'
<1> DEFINE p == PipelineNamed(n)
           added == PipelineTransforms(p)
<1>0. PhaseInv /\ (Running => IDsOwned /\ HandedOn /\ (NamesApart /\ OpenTelemetryFromNodes => Linked))
  BY DEF GraphInv
<1>1. /\ phase = "pipelines" /\ phase' = "pipelines" /\ n \in todo /\ todo' = todo \ {n} /\ spec' = spec
      /\ config' = Over(added, config) /\ ids' = ids /\ inputIDs' = inputIDs /\ op' = op
  BY DEF AddPipeline, Step, First
<1>2. spec \in ClfSpecs /\ todo \subseteq PipelineNames
  BY <1>0, <1>1 DEF PhaseInv
<1>3. /\ n \in PipelineNames \ AddedPipelines /\ p \in Pipelines /\ p.name = n
      /\ \A id \in DOMAIN added : Belongs(id, <<"pipeline">> \o n, PipelineWords)
  BY <1>0, IDsOfPipeline
<1>4. /\ Pipelines' = Pipelines /\ PipelineNames' = PipelineNames /\ PipelineWords' = PipelineWords
      /\ NamesApart' = NamesApart /\ OpenTelemetryFromNodes' = OpenTelemetryFromNodes
      /\ \A q : LastFilterID(q)' = LastFilterID(q)
  BY <1>1, SpecStays
<1>5. /\ Resolves(Plain(LastFilterID(p)), added)
      /\ \A all : /\ Holds(added, all)
                  /\ UNION {ids[x] : x \in p.inputs} # {}
                  /\ \A x \in p.inputs : \A id \in ids[x] : Resolves(Plain(id), all)
                  => AllWired(added, all)
  BY <1>2, <1>3, PipelinesAre, PipelineWired
<1>6. p.inputs \subseteq DOMAIN spec.inputs /\ p.inputs # {} /\ \A q \in Pipelines : q.name = n => q = p
  BY <1>2, <1>3, PipelinesAre
<1> HIDE DEF p, added
<1>7. PhaseInv'
  BY <1>0, <1>1, <1>2, <1>4 DEF PhaseInv
<1>8. /\ AddedPipelines' = AddedPipelines \cup {n} /\ AddedOutputs = {} /\ AddedOutputs' = {}
      /\ AddedInputs = DOMAIN spec.inputs /\ AddedInputs' = AddedInputs
      /\ WiredPipelines = PipelineNames /\ WiredPipelines' = PipelineNames
  BY <1>1, <1>2, <1>4 DEF AddedInputs, AddedPipelines, AddedOutputs, WiredPipelines
<1>9. IDsOwned /\ HandedOn /\ (NamesApart /\ OpenTelemetryFromNodes => Linked)
  BY <1>0, <1>1 DEF Running
<1>10. IDsOwned'
  <2>1. \A id \in DOMAIN config' : id \in DOMAIN added \/ id \in DOMAIN config
    BY <1>1 DEF Over
  <2>2. ASSUME NEW id \in DOMAIN added
        PROVE  OfA(id, "pipeline", AddedPipelines', PipelineWords)
    BY <1>3, <1>8 DEF OfA
  <2>3. ASSUME NEW id, OfA(id, "pipeline", AddedPipelines, PipelineWords)
        PROVE  OfA(id, "pipeline", AddedPipelines', PipelineWords)
    BY <1>8, <2>3 DEF OfA
  <2>4. ASSUME NEW id, OfA(id, "output", AddedOutputs, OutputWords)
        PROVE  FALSE
    BY <1>8, <2>4 DEF OfA
  <2>5. ASSUME NEW id \in DOMAIN config
        PROVE  \/ id = InternalMetrics \/ OfA(id, "input", AddedInputs, InputWords)
               \/ OfA(id, "pipeline", AddedPipelines, PipelineWords)
    BY <1>1, <1>9, <2>4 DEF IDsOwned
  <2> QED
    BY <1>4, <1>8, <2>1, <2>2, <2>3, <2>5 DEF IDsOwned
<1>11. HandedOn'
  BY <1>1, <1>4, <1>8, <1>9 DEF HandedOn
<1>12. ASSUME NamesApart, OpenTelemetryFromNodes
       PROVE  Linked'
  <2>1. Linked
    BY <1>9, <1>12
  <2>2. Holds(config, config') /\ Holds(added, config')
    <3>1. phase # "done"
      BY <1>1
    <3>2. \A id \in DOMAIN added : id \notin DOMAIN config
      BY <1>0, <1>3, <1>9, <1>12, <3>1, StillFree
    <3> QED
      BY <1>1, <3>2, OverHolds
  <2>3. \A port : Resolves(port, config) \/ Resolves(port, added) => Resolves(port, config')
    BY <2>2, StaysWired
  <2>4. AllWired(config', config')
    <3>1. AllWired(config, config')
      BY <2>1, <2>2, StaysWired DEF Linked
    <3>2. UNION {ids[x] : x \in p.inputs} # {}
      BY <1>6, <1>8, <1>9 DEF HandedOn
    <3>3. \A x \in p.inputs : \A id \in ids[x] : Resolves(Plain(id), config')
      BY <1>6, <1>8, <2>1, <2>3 DEF Linked
    <3>4. AllWired(added, config')
      BY <1>5, <2>2, <3>2, <3>3
    <3> QED
      BY <1>1, <3>1, <3>4 DEF AllWired, Over
  <2>5. \A q \in Pipelines : q.name \in AddedPipelines' => Resolves(Plain(LastFilterID(q)), config')
    BY <1>5, <1>6, <1>8, <2>1, <2>3 DEF Linked
  <2> QED
    BY <1>1, <1>4, <1>8, <2>1, <2>3, <2>4, <2>5 DEF Linked
<1> QED
  BY <1>4, <1>7, <1>10, <1>11, <1>12 DEF GraphInv

LEMMA OutputInv ==
  ASSUME GraphInv, NEW n, AddOutput(n)
  PROVE  GraphInv'
<1> DEFINE o == spec.outputs[n]
           added == NewOutput(n, o)
           counters == {id \in DOMAIN added : added[id].does = "count"}
           lastSources == GetInputSources(n, LastTenant(DetermineTenants(n)))
<1>0. PhaseInv /\ (Running => IDsOwned /\ HandedOn /\ (NamesApart /\ OpenTelemetryFromNodes => Linked))
  BY DEF GraphInv
<1>1. /\ phase = "outputs" /\ phase' = "outputs" /\ n \in todo /\ todo' = todo \ {n} /\ spec' = spec
      /\ ~MissesSources(n, o) /\ config' = Over(added, config) /\ op' = OptionsAfter(n, o, added)
      /\ ids' = ids /\ inputIDs' = inputIDs
  BY DEF AddOutput, Step, First
<1>2. /\ spec \in ClfSpecs /\ todo \subseteq DOMAIN spec.outputs
      /\ DOMAIN op = {"sources", "migrated", "unmatched"}
  BY <1>0, <1>1 DEF PhaseInv
<1>3. /\ n \in DOMAIN spec.outputs \ AddedOutputs
      /\ \A id \in DOMAIN added : Belongs(id, MakeOutputID(n), OutputWords)
  BY <1>0, IDsOfOutput
<1>4. /\ Pipelines' = Pipelines /\ PipelineNames' = PipelineNames /\ PipelineWords' = PipelineWords
      /\ NamesApart' = NamesApart /\ OpenTelemetryFromNodes' = OpenTelemetryFromNodes
      /\ \A q : LastFilterID(q)' = LastFilterID(q)
  BY <1>1, SpecStays
<1>5. \A all : /\ Holds(added, all) /\ Given(Ports(inputIDs[n]), all)
               /\ op.sources \cap AllLogSources # {}
               /\ o.type = "lokiStack" /\ o.otel =>
                    \A t \in DetermineTenants(n) : GetInputSources(n, t) \cap AllLogSources # {}
               => AllWired(added, all)
  BY <1>2, <1>3, OutputsAre, TenantsAre, NewOutputWired
<1>6. ASSUME OpenTelemetryFromNodes, o.type = "lokiStack", o.otel
      PROVE  /\ \A t \in DetermineTenants(n) : GetInputSources(n, t) \cap AllLogSources # {}
             /\ lastSources \cap AllLogSources # {}
  <2>1. \A i \in InputsTo(n) : spec.inputs[i].type \notin {"http", "syslog"}
    BY <1>3, <1>6 DEF OpenTelemetryFromNodes
  <2>2. \A t : GetInputSources(n, t) \subseteq AllLogSources
    BY <1>2, <1>3, <2>1, SourcesAre
  <2>3. \A t \in DetermineTenants(n) : GetInputSources(n, t) # {}
    BY <1>1, <1>6 DEF MissesSources
  <2>4. LastTenant(DetermineTenants(n)) \in DetermineTenants(n)
    BY <1>2, <1>3, TenantsAre
  <2> QED
    BY <2>2, <2>3, <2>4
<1>7. /\ DOMAIN op' = {"sources", "migrated", "unmatched"}
      /\ op'.unmatched = op.unmatched \cup counters
      /\ op'.sources = IF o.type = "lokiStack" /\ o.otel THEN lastSources ELSE op.sources
  <2> HIDE DEF o, added
  <2> DEFINE unmatched == op.unmatched \cup counters
             counted == [op EXCEPT !.unmatched = unmatched]
             stack == o.type = "lokiStack" /\ o.otel
  <2>1. op' = IF stack THEN [counted EXCEPT !.migrated = TRUE, !.sources = lastSources] ELSE counted
    BY <1>1 DEF OptionsAfter
  <2> HIDE DEF stack, unmatched, lastSources
  <2>2. DOMAIN op' = DOMAIN op /\ op'.unmatched = unmatched /\ op'.sources = IF stack THEN lastSources ELSE op.sources
    BY <1>2, <2>1
  <2> QED
    BY <1>2, <2>2 DEF stack, unmatched
<1> HIDE DEF o, added, lastSources
<1>8. PhaseInv'
  BY <1>0, <1>1, <1>2, <1>4, <1>7 DEF PhaseInv
<1>9. /\ AddedOutputs' = AddedOutputs \cup {n}
      /\ AddedInputs' = AddedInputs /\ AddedPipelines = PipelineNames /\ AddedPipelines' = AddedPipelines
      /\ WiredPipelines = PipelineNames /\ WiredPipelines' = PipelineNames
  BY <1>1, <1>2, <1>4 DEF AddedInputs, AddedPipelines, AddedOutputs, WiredPipelines
<1>10. IDsOwned /\ HandedOn /\ (NamesApart /\ OpenTelemetryFromNodes => Linked)
  BY <1>0, <1>1 DEF Running
<1>11. IDsOwned'
  <2>1. \A id \in DOMAIN config' : id \in DOMAIN added \/ id \in DOMAIN config
    BY <1>1 DEF Over
  <2>2. ASSUME NEW id \in DOMAIN added
        PROVE  OfA(id, "output", AddedOutputs', OutputWords)
    BY <1>3, <1>9 DEF OfA, MakeOutputID
  <2>3. ASSUME NEW id, OfA(id, "output", AddedOutputs, OutputWords)
        PROVE  OfA(id, "output", AddedOutputs', OutputWords)
    BY <1>9, <2>3 DEF OfA
  <2>4. ASSUME NEW id \in DOMAIN config
        PROVE  \/ id = InternalMetrics \/ OfA(id, "input", AddedInputs, InputWords)
               \/ OfA(id, "pipeline", AddedPipelines, PipelineWords)
               \/ OfA(id, "output", AddedOutputs, OutputWords)
    BY <1>1, <1>10 DEF IDsOwned
  <2> QED
    BY <1>4, <1>9, <2>1, <2>2, <2>3, <2>4 DEF IDsOwned
<1>12. HandedOn'
  BY <1>1, <1>4, <1>9, <1>10 DEF HandedOn
<1>13. ASSUME NamesApart, OpenTelemetryFromNodes
       PROVE  Linked'
  <2>1. Linked
    BY <1>10, <1>13
  <2>2. Holds(config, config') /\ Holds(added, config')
    <3>1. phase # "done"
      BY <1>1
    <3>2. \A id \in DOMAIN added : id \notin DOMAIN config
      BY <1>0, <1>3, <1>10, <1>13, <3>1, StillFree
    <3> QED
      BY <1>1, <3>2, OverHolds
  <2>3. \A port : Resolves(port, config) => Resolves(port, config')
    BY <2>2, StaysWired
  <2>4. Given(Ports(inputIDs[n]), config')
    <3>1. inputIDs[n] = {LastFilterID(p) : p \in {q \in Pipelines : n \in q.outputs /\ q.name \in PipelineNames}}
      BY <1>3, <1>9, <1>10 DEF HandedOn
    <3>2. \A p \in Pipelines : Resolves(Plain(LastFilterID(p)), config')
      BY <1>9, <2>1, <2>3 DEF Linked, PipelineNames
    <3>3. \E p \in Pipelines : n \in p.outputs
      BY <1>2, <1>3, OutputsAre
    <3> QED
      BY <3>1, <3>2, <3>3 DEF Given, Ports, PipelineNames
  <2>5. AllWired(added, config')
    BY <1>5, <1>6, <1>13, <2>1, <2>2, <2>4 DEF Linked
  <2>6. AllWired(config', config')
    <3>1. AllWired(config, config')
      BY <2>1, <2>2, StaysWired DEF Linked
    <3> QED
      BY <1>1, <2>5, <3>1 DEF AllWired, Over
  <2>7. \A id \in op'.unmatched : Resolves(Plain(id), config')
    <3>1. ASSUME NEW id \in counters
          PROVE  Resolves(Plain(id), config')
      <4>1. id \in DOMAIN added /\ added[id].does = "count"
        OBVIOUS
      <4>2. added[id].kind # "sink" /\ id \in DOMAIN config' /\ config'[id] = added[id]
        BY <2>2, <2>5, <4>1 DEF AllWired, Wired, Holds
      <4> QED
        BY <4>1, <4>2 DEF Resolves, Fits, Plain
    <3> QED
      BY <1>7, <2>1, <2>3, <3>1 DEF Linked
  <2>8. op'.sources \cap AllLogSources # {}
    BY <1>6, <1>7, <1>13, <2>1 DEF Linked
  <2> QED
    BY <1>1, <1>4, <1>9, <2>1, <2>3, <2>6, <2>7, <2>8 DEF Linked
<1> QED
  BY <1>4, <1>8, <1>11, <1>12, <1>13 DEF GraphInv

LEMMA PhaseStepInv ==
  ASSUME GraphInv, NextPhase
  PROVE  GraphInv'
<1>0. PhaseInv /\ (Running => IDsOwned /\ HandedOn /\ (NamesApart /\ OpenTelemetryFromNodes => Linked))
  BY DEF GraphInv
<1>1. /\ todo = {} /\ spec' = spec /\ inputIDs' = inputIDs /\ ids' = ids /\ config' = config /\ op' = op
      /\ \/ phase = "wire" /\ phase' = "inputs" /\ todo' = DOMAIN spec.inputs
         \/ phase = "inputs" /\ phase' = "pipelines" /\ todo' = PipelineNames
         \/ phase = "pipelines" /\ phase' = "outputs" /\ todo' = DOMAIN spec.outputs
  BY DEF NextPhase, PipelineNames
<1>2. /\ Pipelines' = Pipelines /\ PipelineNames' = PipelineNames /\ PipelineWords' = PipelineWords
      /\ NamesApart' = NamesApart /\ OpenTelemetryFromNodes' = OpenTelemetryFromNodes
      /\ \A q : LastFilterID(q)' = LastFilterID(q)
  BY <1>1, SpecStays
<1>3. PhaseInv'
  BY <1>0, <1>1, <1>2 DEF PhaseInv
<1>4. /\ AddedInputs' = AddedInputs /\ AddedPipelines' = AddedPipelines /\ AddedOutputs' = AddedOutputs
      /\ WiredPipelines' = WiredPipelines
  <2>1. CASE phase = "wire"
    BY <1>1, <1>2, <2>1 DEF AddedInputs, AddedPipelines, AddedOutputs, WiredPipelines
  <2>2. CASE phase = "inputs"
    BY <1>1, <1>2, <2>2 DEF AddedInputs, AddedPipelines, AddedOutputs, WiredPipelines
  <2>3. CASE phase = "pipelines"
    BY <1>1, <1>2, <2>3 DEF AddedInputs, AddedPipelines, AddedOutputs, WiredPipelines
  <2> QED
    BY <1>1, <2>1, <2>2, <2>3
<1>5. IDsOwned /\ HandedOn /\ (NamesApart /\ OpenTelemetryFromNodes => Linked) /\ phase # "done"
  BY <1>0, <1>1 DEF Running
<1>6. IDsOwned'
  BY <1>1, <1>2, <1>4, <1>5 DEF IDsOwned
<1>7. HandedOn'
  BY <1>1, <1>2, <1>4, <1>5 DEF HandedOn
<1>8. Linked => Linked'
  BY <1>1, <1>2, <1>4 DEF Linked
<1> QED
  BY <1>2, <1>3, <1>5, <1>6, <1>7, <1>8 DEF GraphInv

LEMMA MetricsWired ==
  ASSUME NEW all, Holds(Metrics, all), Resolves(Plain(InternalMetrics), all),
         \A id \in op.unmatched : Resolves(Plain(id), all)
  PROVE  AllWired(Metrics, all)
<1> DEFINE nodename == <<"add", "nodename", "to", "metric">>
           endpoint == <<"prometheus", "output">>
           Node == Pass({Plain(InternalMetrics)})
           Endpoint == Sink(Ports({nodename} \cup op.unmatched), <<>>, "")
           ofNode == One(nodename, Node)
           ofEndpoint == One(endpoint, Endpoint)
           maps == {ofNode, ofEndpoint}
<1>1. Metrics = MergeAll(maps)
  BY DEF Metrics
<1>2. nodename # endpoint
  <2>1. nodename[1] = "add" /\ endpoint[1] = "prometheus"
    OBVIOUS
  <2> QED
    BY <2>1
<1> HIDE DEF nodename, endpoint, Node
<1>3. DOMAIN ofNode = {nodename} /\ DOMAIN ofEndpoint = {endpoint} /\ ofNode[nodename] = Node
  <2>1. \A x, c : DOMAIN One(x, c) = {x} /\ One(x, c)[x] = c
    BY DEF One
  <2> QED
    BY <2>1, Zenon
<1> HIDE DEF ofNode, ofEndpoint
<1>4. nodename \in DOMAIN Metrics /\ Metrics[nodename] = Node
  <2>1. \A k \in maps : nodename \in DOMAIN k => k = ofNode
    BY <1>2, <1>3
  <2>2. ofNode \in maps /\ nodename \in DOMAIN ofNode
    BY <1>3
  <2> HIDE DEF maps
  <2> QED
    BY <1>1, <1>3, <2>1, <2>2, Merged
<1>5. nodename \in DOMAIN all /\ all[nodename] = Node
  BY <1>4 DEF Holds
<1>6. Node.kind = "transform" /\ Node.does = "pass"
  BY ComponentsAre DEF Node
<1>7. Resolves(Plain(nodename), all)
  BY <1>5, <1>6 DEF Resolves, Fits, Plain
<1>8. Given(Ports({nodename} \cup op.unmatched), all)
  BY <1>7 DEF Given, Ports
<1>9. Wired(Endpoint, all)
  <2> DEFINE inputs == Ports({nodename} \cup op.unmatched)
  <2> HIDE DEF inputs
  <2>1. Given(inputs, all)
    BY <1>8 DEF inputs
  <2>2. Wired(Sink(inputs, <<>>, ""), all)
    BY <2>1, GivenWired
  <2> QED
    BY <2>2 DEF inputs
<1>10. Wired(Node, all)
  BY GivenOne, GivenWired DEF Node
<1> HIDE DEF Endpoint
<1>11. AllWired(ofNode, all) /\ AllWired(ofEndpoint, all)
  BY <1>9, <1>10, OneWired DEF ofNode, ofEndpoint
<1> QED
  BY <1>1, <1>11, MergedWired

LEMMA MetricsInv ==
  ASSUME GraphInv, AddMetrics
  PROVE  GraphInv'
<1>0. PhaseInv /\ (Running => IDsOwned /\ HandedOn /\ (NamesApart /\ OpenTelemetryFromNodes => Linked))
  BY DEF GraphInv
<1>1. /\ phase = "outputs" /\ phase' = "done" /\ todo = {} /\ spec' = spec /\ inputIDs' = inputIDs /\ ids' = ids
      /\ config' = Over(Metrics, config) /\ op' = op
  BY DEF AddMetrics
<1>2. /\ Pipelines' = Pipelines /\ PipelineNames' = PipelineNames /\ PipelineWords' = PipelineWords
      /\ NamesApart' = NamesApart /\ OpenTelemetryFromNodes' = OpenTelemetryFromNodes
      /\ \A q : LastFilterID(q)' = LastFilterID(q)
  BY <1>1, SpecStays
<1>3. PhaseInv'
  BY <1>0, <1>1, <1>2 DEF PhaseInv
<1>4. /\ AddedInputs' = AddedInputs /\ AddedPipelines' = AddedPipelines /\ AddedOutputs' = AddedOutputs
      /\ WiredPipelines' = WiredPipelines
  BY <1>1, <1>2 DEF AddedInputs, AddedPipelines, AddedOutputs, WiredPipelines
<1>5. IDsOwned /\ HandedOn /\ (NamesApart /\ OpenTelemetryFromNodes => Linked)
  BY <1>0, <1>1 DEF Running
<1>6. IDsOwned'
  <2>1. \A id \in DOMAIN config' : id \in MetricsIDs \/ id \in DOMAIN config
    BY <1>1, IDsOfMetrics DEF Over
  <2>2. ASSUME NEW id \in DOMAIN config
        PROVE  \/ id = InternalMetrics \/ OfA(id, "input", AddedInputs, InputWords)
               \/ OfA(id, "pipeline", AddedPipelines, PipelineWords)
               \/ OfA(id, "output", AddedOutputs, OutputWords)
    BY <1>1, <1>5 DEF IDsOwned
  <2> QED
    BY <1>1, <1>2, <1>4, <2>1, <2>2 DEF IDsOwned
<1>7. HandedOn'
  BY <1>1, <1>2, <1>4, <1>5 DEF HandedOn
<1>8. ASSUME NamesApart, OpenTelemetryFromNodes
      PROVE  Linked'
  <2>1. Linked
    BY <1>5, <1>8
  <2>2. Holds(config, config') /\ Holds(Metrics, config')
    <3>1. phase # "done"
      BY <1>1
    <3>2. \A id \in DOMAIN Metrics : id \notin DOMAIN config
      BY <1>0, <1>5, <1>8, <3>1, IDsOfMetrics, StillFree
    <3> QED
      BY <1>1, <3>2, OverHolds
  <2>3. \A port : Resolves(port, config) => Resolves(port, config')
    BY <2>2, StaysWired
  <2>4. AllWired(config', config')
    <3>1. AllWired(config, config')
      BY <2>1, <2>2, StaysWired DEF Linked
    <3>2. AllWired(Metrics, config')
      BY <2>1, <2>2, <2>3, MetricsWired DEF Linked
    <3> QED
      BY <1>1, <3>1, <3>2 DEF AllWired, Over
  <2> QED
    BY <1>1, <1>2, <1>4, <2>1, <2>3, <2>4 DEF Linked
<1> QED
  BY <1>2, <1>3, <1>6, <1>7, <1>8 DEF GraphInv

LEMMA PanicInv ==
  ASSUME GraphInv, NEW n, PanicOnInput(n) \/ PanicOnOutput(n)
  PROVE  GraphInv'
<1>1. PhaseInv /\ spec' = spec /\ inputIDs' = inputIDs /\ ids' = ids /\ op' = op
      /\ phase' \in {"nilTuning", "noSources"}
  BY DEF PanicOnInput, PanicOnOutput, GraphInv
<1>2. PipelineNames' = PipelineNames
  BY <1>1, SpecStays
<1> QED
  BY <1>1, <1>2 DEF GraphInv, PhaseInv, Running

LEMMA NothingInv ==
  ASSUME GraphInv, UNCHANGED confVars
  PROVE  GraphInv'
<1>1. /\ spec' = spec /\ phase' = phase /\ todo' = todo /\ inputIDs' = inputIDs /\ ids' = ids
      /\ config' = config /\ op' = op
  BY DEF confVars
<1>2. /\ Pipelines' = Pipelines /\ PipelineNames' = PipelineNames /\ PipelineWords' = PipelineWords
      /\ NamesApart' = NamesApart /\ OpenTelemetryFromNodes' = OpenTelemetryFromNodes
      /\ \A q : LastFilterID(q)' = LastFilterID(q)
  BY <1>1, SpecStays
<1>3. /\ AddedInputs' = AddedInputs /\ AddedPipelines' = AddedPipelines /\ AddedOutputs' = AddedOutputs
      /\ WiredPipelines' = WiredPipelines /\ Running' = Running
  BY <1>1, <1>2 DEF AddedInputs, AddedPipelines, AddedOutputs, WiredPipelines, Running
<1>4. PhaseInv' = PhaseInv
  BY <1>1, <1>2 DEF PhaseInv
<1>5. (IDsOwned => IDsOwned') /\ (HandedOn => HandedOn') /\ (Linked => Linked')
  BY <1>1, <1>2, <1>3 DEF IDsOwned, HandedOn, Linked
<1> QED
  BY <1>2, <1>3, <1>4, <1>5 DEF GraphInv

\* Vector leaves the configuration as it is.
LEMMA NextConf == [GraphNext]_graphVars => [ConfNext]_confVars
BY DEF GraphNext, Flow, confVars, graphVars

LEMMA GraphInvariant == GraphSpec => []GraphInv
<1>1. GraphInit => GraphInv
  BY InitInv
<1>2. GraphInv /\ [ConfNext]_confVars => GraphInv'
  BY WireInv, InputInv, PipelineInv, OutputInv, PhaseStepInv, MetricsInv, PanicInv, NothingInv DEF ConfNext
<1> QED
  BY <1>1, <1>2, NextConf, PTL DEF GraphSpec

\* For every forwarder without names that join to one id and without receivers that
\* lead to an OpenTelemetry LokiStack, however many inputs, pipelines, filters and
\* outputs it has, the configuration that Conf ends with has no dangling input.
THEOREM NothingDangling == GraphSpec => []NoDanglingInput
<1>1. GraphInv => NoDanglingInput
  <2> SUFFICES ASSUME GraphInv, phase = "done", NamesApart, OpenTelemetryFromNodes
               PROVE  \A id \in DOMAIN config :
                        /\ config[id].kind # "source" => config[id].inputs # {}
                        /\ \A port \in config[id].inputs :
                             /\ port.id \in DOMAIN config
                             /\ config[port.id].kind # "sink"
                             /\ config[port.id].does = "route" <=> port.route # ""
                             /\ port.route \in {"", "_unmatched"} \/ port.route \in config[port.id].arg.values
    BY DEF NoDanglingInput
  <2>1. AllWired(config, config)
    BY DEF GraphInv, Running, Linked
  <2> QED
    BY <2>1 DEF AllWired, Wired, Resolves, Fits
<1> QED
  BY <1>1, GraphInvariant, PTL

\* For every forwarder without names that join to one id, no step of Conf replaces
\* a component: the ids it makes up are unique.
THEOREM NothingIsReplaced == GraphSpec => NothingReplaced
<1>1. GraphInv /\ [GraphNext]_graphVars => [NamesApart => \A id \in DOMAIN config : config'[id] = config[id]]_graphVars
  BY StepKeeps, NextConf DEF Holds
<1> QED
  BY <1>1, GraphInvariant, PTL DEF GraphSpec, NothingReplaced

-----------------------------------------------------------------------------
(* Records.  What has left a component with an id of an input comes from that *)
(* input and went through nothing yet; with the id of the k-th filter of a    *)
(* pipeline, it comes from an input of the pipeline and went through its      *)
(* first k filters; with an id of an output, it went through all filters of a *)
(* pipeline that leads there.                                                 *)

Way(p, k) == [j \in 1..k |-> [pipeline |-> p.name, filter |-> AddSystemFilters(p)[j]]]

FromInput(r, n) == r.input = n /\ r.from \in Origins(spec.inputs[n])

Through(r, p, k) == (\E n \in p.inputs : FromInput(r, n)) /\ r.way = Way(p, k)

WayIn(r, n) == FromInput(r, n) /\ r.way = <<>>

WayOut(r, out) == \E p \in Pipelines : out \in p.outputs /\ Through(r, p, Len(p.filters) + 1)

IsRecord(r) == {"input", "from", "way"} \subseteq DOMAIN r

Carried(id, r) ==
  /\ IsRecord(r)
  /\ \/ id \in MetricsIDs
     \/ \E n \in DOMAIN spec.inputs : Belongs(id, <<"input">> \o n, InputWords) /\ WayIn(r, n)
     \/ \E p \in Pipelines : \E k \in 1..(Len(p.filters) + 1) : id = FilterID(p, k) /\ Through(r, p, k)
     \/ \E out \in DOMAIN spec.outputs : Belongs(id, <<"output">> \o out, OutputWords) /\ WayOut(r, out)

\* A component lets nothing else pass if nothing else is offered to it.
Sound(id, c) ==
  /\ c.kind = "source" => \A r \in c.arg : Carried(id, r)
  /\ c.kind # "source" => \A port \in c.inputs : \A r : Carried(port.id, r) => Carried(id, Effect(c, r))
  /\ c.kind = "sink" => c.does = "deliver" /\ (c.arg.output = <<>> \/ Belongs(id, <<"output">> \o c.arg.output, OutputWords))

AllSound(components) == \A id \in DOMAIN components : Sound(id, components[id])

FlowInv ==
  /\ \A n \in DOMAIN spec.inputs : \A id \in ids[n] : Belongs(id, <<"input">> \o n, InputWords)
  /\ NamesApart =>
       /\ AllSound(config)
       /\ \A id \in DOMAIN leaving : \A r \in leaving[id] : Carried(id, r)

LEMMA EffectIs ==
  ASSUME NEW c, NEW r, IsRecord(r)
  PROVE  LET after == Effect(c, r)
         IN  /\ IsRecord(after) /\ after.input = r.input /\ after.from = r.from
             /\ after.way = IF c.does = "filter" THEN Append(r.way, c.arg) ELSE r.way
<1>1. CASE c.does = "normalize"
  BY <1>1 DEF IsRecord, Effect, Normalized
<1>2. CASE c.does = "filter"
  <2> DEFINE through == [r EXCEPT !.way = Append(@, c.arg)]
  <2>1. /\ IsRecord(through) /\ through.input = r.input /\ through.from = r.from
        /\ through.way = Append(r.way, c.arg)
    BY DEF IsRecord
  <2>2. Effect(c, r) = IF c.arg.filter = Viaq /\ r.type = "receiver"
                         THEN [through EXCEPT !.type = "infrastructure", !.source = "node"] ELSE through
    BY <1>2 DEF Effect, Filtered
  <2> HIDE DEF through
  <2> QED
    BY <1>2, <2>1, <2>2 DEF IsRecord
<1>3. CASE c.does = "trace"
  BY <1>3 DEF IsRecord, Effect
<1>4. CASE c.does \notin {"normalize", "filter", "trace"}
  <2>1. Effect(c, r) = r
    BY <1>4 DEF Effect
  <2> QED
    BY <1>4, <2>1
<1> QED
  BY <1>1, <1>2, <1>3, <1>4

LEMMA WayGrows ==
  ASSUME NEW p, NEW k \in Nat
  PROVE  /\ Way(p, 0) = <<>>
         /\ Append(Way(p, k), [pipeline |-> p.name, filter |-> AddSystemFilters(p)[k + 1]]) = Way(p, k + 1)
<1> DEFINE Item(j) == [pipeline |-> p.name, filter |-> AddSystemFilters(p)[j]]
           all == {Item(j) : j \in Nat}
<1>1. \A i \in Nat : Way(p, i) = [j \in 1..i |-> Item(j)]
  BY DEF Way
<1> HIDE DEF Item
<1>2. \A i \in Nat : Way(p, i) \in Seq(all) /\ Len(Way(p, i)) = i /\ \A j \in 1..i : Way(p, i)[j] = Item(j)
  BY <1>1
<1>3. Way(p, 0) = <<>>
  BY <1>2, EmptySeq
<1>4. Append(Way(p, k), Item(k + 1)) = Way(p, k + 1)
  <2>1. k + 1 \in Nat /\ Item(k + 1) \in all
    OBVIOUS
  <2> HIDE DEF all
  <2> DEFINE longer == Append(Way(p, k), Item(k + 1))
  <2>2. longer \in Seq(all) /\ Len(longer) = k + 1 /\ longer[k + 1] = Item(k + 1)
        /\ \A j \in 1..k : longer[j] = Way(p, k)[j]
    BY <1>2, <2>1, AppendProperties
  <2> HIDE DEF longer
  <2>3. \A j \in 1..(k + 1) : longer[j] = Way(p, k + 1)[j]
    BY <1>2, <2>1, <2>2
  <2>4. longer = Way(p, k + 1)
    BY <1>2, <2>1, <2>2, <2>3, SeqEqual
  <2> QED
    BY <2>4 DEF longer
<1> QED
  BY <1>3, <1>4 DEF Item

\* Ids of filters tell the pipeline and the position.
LEMMA FilterIDsDiffer ==
  ASSUME spec \in ClfSpecs, NamesApart, NEW p \in Pipelines, NEW q \in Pipelines,
         NEW j \in 1..(Len(p.filters) + 1), NEW k \in 1..(Len(q.filters) + 1), FilterID(p, j) = FilterID(q, k)
  PROVE  p = q /\ j = k
<1>1. DOMAIN spec.filters \subseteq Names
  BY PipelinesAre
<1>2. ASSUME NEW x \in Pipelines, NEW i \in 1..(Len(x.filters) + 1)
      PROVE  /\ Belongs(FilterID(x, i), <<"pipeline">> \o x.name, PipelineWords)
             /\ i \in DOMAIN Numerals
             /\ FilterID(x, i)[Len(FilterID(x, i))] = Numerals[i]
  <2>1. /\ x.name \in Names /\ x.filters \in Seq(DOMAIN spec.filters) /\ Len(x.filters) < Len(Numerals)
    BY PipelinesAre
  <2>2. i \in DOMAIN AddSystemFilters(x) /\ Len(x.filters) \in Nat
        /\ AddSystemFilters(x)[i] \in DOMAIN spec.filters \cup {Viaq}
    BY <2>1, FiltersOf
  <2>3. Belongs(FilterID(x, i), <<"pipeline">> \o x.name, PipelineWords)
    BY <1>1, <2>1, <2>2, FilterIDs
  <2>4. i \in 1..Len(Numerals) /\ (i - 1) + 1 = i /\ Numerals \in Seq(STRING)
    BY <2>1, <2>2, NumeralsAssumption
  <2>5. Numerals[i] \in Word /\ i \in DOMAIN Numerals
    <3>1. Numerals[i] \in STRING /\ i \in DOMAIN Numerals
      BY <2>4
    <3> QED
      BY <3>1, Zenon DEF Word
  <2> DEFINE f == AddSystemFilters(x)[i]
             front == (<<"pipeline">> \o x.name) \o f
  <2>6. FilterID(x, i) = front \o <<Numerals[i]>>
    BY <2>4 DEF FilterID, MakePipelineID
  <2>7. front \in Seq(Word)
    <3>1. f \in Seq(Word)
      <4>1. "viaq" \in Word
        BY WordsAre DEF OwnWords
      <4>2. Viaq \in Seq(Word)
        BY <4>1 DEF Viaq
      <4> QED
        BY <1>1, <2>2, <4>2, WordsAre
    <3>2. <<"pipeline">> \o x.name \in Seq(Word)
      BY <2>1, IDsAre
    <3> HIDE DEF f
    <3> QED
      BY <3>1, <3>2, ConcatProperties
  <2> HIDE DEF front
  <2>8. FilterID(x, i)[Len(FilterID(x, i))] = Numerals[i]
    <3> DEFINE last == <<Numerals[i]>>
    <3>1. last \in Seq(Word) /\ Len(last) = 1 /\ last[1] = Numerals[i]
      BY <2>5
    <3> HIDE DEF last
    <3>2. Len(front \o last) = Len(front) + 1 /\ (front \o last)[Len(front) + 1] = last[1]
      <4> DEFINE m == Len(front)
      <4>1. /\ Len(front \o last) = m + Len(last)
            /\ \A y \in 1..(m + Len(last)) : (front \o last)[y] = IF y <= m THEN front[y] ELSE last[y - m]
        BY <2>7, <3>1, ConcatProperties
      <4>2. m \in Nat
        BY <2>7, LenProperties
      <4> HIDE DEF m
      <4>3. m + 1 \in 1..(m + 1) /\ ~(m + 1 <= m) /\ (m + 1) - m = 1
        BY <4>2
      <4>4. Len(front \o last) = m + 1 /\ (front \o last)[m + 1] = last[1]
        BY <3>1, <4>1, <4>3
      <4> QED
        BY <4>4 DEF m
    <3> QED
      BY <2>6, <3>1, <3>2 DEF last
  <2> QED
    BY <2>3, <2>5, <2>8
<1>3. p.name = q.name
  <2> DEFINE names == {x.name : x \in Pipelines}
  <2>1. names \subseteq Names /\ p.name \in names /\ q.name \in names
    BY PipelinesAre
  <2>2. Apart(names, PipelineWords)
    BY DEF NamesApart
  <2>3. Belongs(FilterID(p, j), <<"pipeline">> \o p.name, PipelineWords)
        /\ Belongs(FilterID(p, j), <<"pipeline">> \o q.name, PipelineWords)
    BY <1>2
  <2> HIDE DEF names
  <2> QED
    BY <2>1, <2>2, <2>3, WordsAre, ApartBelongs
<1>4. p = q
  BY <1>3, PipelinesAre
<1> QED
  BY <1>2, <1>4, NumeralsAssumption

\* What was carried tells where it came from, by the id it was carried at.
LEMMA CarriedIs ==
  ASSUME spec \in ClfSpecs, NamesApart, NEW id, NEW r, Carried(id, r)
  PROVE  /\ \A n \in DOMAIN spec.inputs : Belongs(id, <<"input">> \o n, InputWords) => WayIn(r, n)
         /\ \A p \in Pipelines : \A k \in 1..(Len(p.filters) + 1) : id = FilterID(p, k) => Through(r, p, k)
         /\ \A out \in DOMAIN spec.outputs : Belongs(id, <<"output">> \o out, OutputWords) => WayOut(r, out)
<1>1. /\ DOMAIN spec.inputs \subseteq Names /\ DOMAIN spec.outputs \subseteq Names
      /\ \A p \in Pipelines : p.name \in Names
  BY InputsAre, OutputsAre, PipelinesAre
<1>2. "input" \in Word /\ "pipeline" \in Word /\ "output" \in Word
  BY WordsAre
<1>3. \A n \in DOMAIN spec.inputs : Belongs(id, <<"input">> \o n, InputWords) => id[1] = "input"
  BY <1>1, <1>2, KindFirst
<1>4. \A out \in DOMAIN spec.outputs : Belongs(id, <<"output">> \o out, OutputWords) => id[1] = "output"
  BY <1>1, <1>2, KindFirst
<1>5. \A p \in Pipelines : \A k \in 1..(Len(p.filters) + 1) : id = FilterID(p, k) => id[1] = "pipeline"
  <2> SUFFICES ASSUME NEW p \in Pipelines, NEW k \in 1..(Len(p.filters) + 1), id = FilterID(p, k)
               PROVE  id[1] = "pipeline"
    OBVIOUS
  <2>1. /\ p.name \in Names /\ p.filters \in Seq(DOMAIN spec.filters) /\ Len(p.filters) < Len(Numerals)
        /\ DOMAIN spec.filters \subseteq Names
    BY PipelinesAre
  <2>2. k \in DOMAIN AddSystemFilters(p)
    BY <2>1, FiltersOf
  <2>3. Belongs(id, <<"pipeline">> \o p.name, PipelineWords)
    BY <2>1, <2>2, FilterIDs
  <2> QED
    BY <1>2, <2>1, <2>3, KindFirst
<1>6. id \in MetricsIDs => id[1] \in {"add", "prometheus"}
  BY DEF MetricsIDs
<1>7. \A n, m \in DOMAIN spec.inputs :
        Belongs(id, <<"input">> \o n, InputWords) /\ Belongs(id, <<"input">> \o m, InputWords) => n = m
  BY <1>1, <1>2, ApartBelongs DEF NamesApart
<1>8. \A n, m \in DOMAIN spec.outputs :
        Belongs(id, <<"output">> \o n, OutputWords) /\ Belongs(id, <<"output">> \o m, OutputWords) => n = m
  BY <1>1, <1>2, ApartBelongs DEF NamesApart
<1>9. \A p, q \in Pipelines : \A j \in 1..(Len(p.filters) + 1), k \in 1..(Len(q.filters) + 1) :
        id = FilterID(p, j) /\ id = FilterID(q, k) => p = q /\ j = k
  <2> SUFFICES ASSUME NEW p \in Pipelines, NEW q \in Pipelines, NEW j \in 1..(Len(p.filters) + 1),
                      NEW k \in 1..(Len(q.filters) + 1), id = FilterID(p, j), id = FilterID(q, k)
               PROVE  p = q /\ j = k
    OBVIOUS
  <2>1. FilterID(p, j) = FilterID(q, k)
    OBVIOUS
  <2> QED
    BY <2>1, FilterIDsDiffer
<1>10. /\ (\E n \in DOMAIN spec.inputs : Belongs(id, <<"input">> \o n, InputWords)) =>
            \E n \in DOMAIN spec.inputs : Belongs(id, <<"input">> \o n, InputWords) /\ WayIn(r, n)
       /\ (\E p \in Pipelines : \E k \in 1..(Len(p.filters) + 1) : id = FilterID(p, k)) =>
            \E p \in Pipelines : \E k \in 1..(Len(p.filters) + 1) : id = FilterID(p, k) /\ Through(r, p, k)
       /\ (\E out \in DOMAIN spec.outputs : Belongs(id, <<"output">> \o out, OutputWords)) =>
            \E out \in DOMAIN spec.outputs : Belongs(id, <<"output">> \o out, OutputWords) /\ WayOut(r, out)
  BY <1>3, <1>4, <1>5, <1>6 DEF Carried
<1> QED
  BY <1>7, <1>8, <1>9, <1>10

\* A transform of an input that takes in what the input's components put out.
LEMMA InputSound ==
  ASSUME spec \in ClfSpecs, NamesApart, NEW n \in DOMAIN spec.inputs, NEW id, NEW c,
         Belongs(id, <<"input">> \o n, InputWords), c.kind = "transform", c.does # "filter",
         \A port \in c.inputs : Belongs(port.id, <<"input">> \o n, InputWords)
  PROVE  Sound(id, c)
<1> SUFFICES ASSUME NEW port \in c.inputs, NEW r, Carried(port.id, r)
             PROVE  Carried(id, Effect(c, r))
  BY DEF Sound
<1>1. IsRecord(r) /\ WayIn(r, n)
  BY CarriedIs DEF Carried
<1>2. IsRecord(Effect(c, r)) /\ WayIn(Effect(c, r), n)
  BY <1>1, EffectIs DEF WayIn, FromInput
<1> QED
  BY <1>2 DEF Carried

LEMMA LastFilterIs ==
  ASSUME spec \in ClfSpecs, NEW p \in Pipelines
  PROVE  Len(p.filters) \in Nat /\ Len(p.filters) + 1 \in 1..(Len(p.filters) + 1)
         /\ LastFilterID(p) = FilterID(p, Len(p.filters) + 1)
<1> DEFINE refs == AddSystemFilters(p)
<1>1. p.filters \in Seq(DOMAIN spec.filters)
  BY PipelinesAre
<1>2. Len(p.filters) \in Nat
  BY <1>1
<1>3. refs = [k \in 1..(Len(p.filters) + 1) |-> refs[k]]
  BY DEF AddSystemFilters
<1> HIDE DEF refs
<1>4. Len(refs) = Len(p.filters) + 1
  BY <1>2, <1>3, LenProperties
<1> QED
  BY <1>2, <1>4 DEF LastFilterID, refs

\* A component of an output that takes in what the output's components put out and
\* what comes from the pipelines that lead to the output.
LEMMA OutputSound ==
  ASSUME spec \in ClfSpecs, NamesApart, NEW out \in DOMAIN spec.outputs, NEW id, NEW c,
         Belongs(id, <<"output">> \o out, OutputWords), c.kind # "source", c.does # "filter",
         c.kind = "sink" => c.does = "deliver" /\ c.arg.output = out,
         \A port \in c.inputs :
           \/ Belongs(port.id, <<"output">> \o out, OutputWords)
           \/ \E p \in Pipelines : out \in p.outputs /\ port.id = LastFilterID(p)
  PROVE  Sound(id, c)
<1> SUFFICES ASSUME NEW port \in c.inputs, NEW r, Carried(port.id, r)
             PROVE  Carried(id, Effect(c, r))
  BY DEF Sound
<1>1. IsRecord(r) /\ WayOut(r, out)
  <2>1. CASE Belongs(port.id, <<"output">> \o out, OutputWords)
    BY <2>1, CarriedIs DEF Carried
  <2>2. ASSUME NEW p \in Pipelines, out \in p.outputs, port.id = LastFilterID(p)
        PROVE  IsRecord(r) /\ WayOut(r, out)
    <3>1. Len(p.filters) + 1 \in 1..(Len(p.filters) + 1) /\ LastFilterID(p) = FilterID(p, Len(p.filters) + 1)
      BY LastFilterIs
    <3>2. Through(r, p, Len(p.filters) + 1)
      BY <2>2, <3>1, CarriedIs
    <3> QED
      BY <2>2, <3>2 DEF Carried, WayOut
  <2> QED
    BY <2>1, <2>2
<1>2. IsRecord(Effect(c, r)) /\ WayOut(Effect(c, r), out)
  BY <1>1, EffectIs DEF WayOut, Through, FromInput
<1> QED
  BY <1>2 DEF Carried

LEMMA MergedSound ==
  ASSUME NEW maps, \A m \in maps : AllSound(m)
  PROVE  AllSound(MergeAll(maps))
BY Merged DEF AllSound

LEMMA OneSound ==
  ASSUME NEW id, NEW c, Sound(id, c)
  PROVE  AllSound(One(id, c))
<1>1. DOMAIN One(id, c) = {id} /\ \A x \in DOMAIN One(id, c) : One(id, c)[x] = c
  BY OneIs, Zenon
<1> QED
  BY <1>1, Zenon DEF AllSound

\* The components of a log source.
LEMMA LogSourceIs ==
  ASSUME NEW n, NEW i, NEW s
  PROVE  LET added == LogSourceComponents(n, i, s)
         IN  \A id \in DOMAIN added :
               \/ added[id].kind = "source" /\ \A r \in added[id].arg :
                    IsRecord(r) /\ r.input = n /\ r.from \in s.from /\ r.way = <<>>
               \/ added[id].kind = "transform" /\ added[id].does # "filter"
<1> DEFINE base == MakeInputID(n) \o s.word
           items == base \o <<"items">>
           meta == base \o <<"meta">>
           throttle == base \o <<"throttle">>
           isHttp == i.type = "http"
           records == {[input |-> n, from |-> f, type |-> "", source |-> "", way |-> <<>>, traced |-> 0] : f \in s.from}
           normalize == Component("transform", "normalize", {Plain(IF isHttp THEN items ELSE base)},
                                  [type |-> s.type, source |-> s.source])
           first == One(base, Source(records))
           second == One(meta, normalize)
           third == IF isHttp THEN One(items, Pass({Plain(base)})) ELSE NoComponents
           fourth == IF Throttled(i, s) THEN One(throttle, Pass({Plain(meta)})) ELSE NoComponents
           maps == {first, second, third, fourth}
           Is(c) == \/ c.kind = "source" /\ \A r \in c.arg : IsRecord(r) /\ r.input = n /\ r.from \in s.from /\ r.way = <<>>
                    \/ c.kind = "transform" /\ c.does # "filter"
<1>1. LogSourceComponents(n, i, s) = MergeAll(maps)
  BY DEF LogSourceComponents
<1>2. \A r \in records : IsRecord(r) /\ r.input = n /\ r.from \in s.from /\ r.way = <<>>
  <2> SUFFICES ASSUME NEW r \in records
               PROVE  IsRecord(r) /\ r.input = n /\ r.from \in s.from /\ r.way = <<>>
    OBVIOUS
  <2>1. PICK f \in s.from : r = [input |-> n, from |-> f, type |-> "", source |-> "", way |-> <<>>, traced |-> 0]
    OBVIOUS
  <2>2. DOMAIN r = {"input", "from", "type", "source", "way", "traced"}
    BY <2>1
  <2>3. r.input = n /\ r.from = f /\ r.way = <<>>
    BY <2>1
  <2> QED
    BY <2>2, <2>3 DEF IsRecord
<1> HIDE DEF base, items, meta, throttle, records
<1>3. Is(Source(records))
  <2>1. Source(records).kind = "source" /\ Source(records).arg = records
    BY ComponentIs DEF Source
  <2> QED
    BY <1>2, <2>1
<1>4. Is(normalize)
  BY ComponentIs
<1>5. \A inputs : Is(Pass(inputs))
  BY ComponentsAre
<1> HIDE DEF Is, normalize
<1>6. \A m \in maps : \A id \in DOMAIN m : Is(m[id])
  <2>1. \A id \in DOMAIN first : Is(first[id])
    BY <1>3, OneIs
  <2>2. \A id \in DOMAIN second : Is(second[id])
    BY <1>4, OneIs
  <2>0. \A x, inputs : \A id \in DOMAIN One(x, Pass(inputs)) : Is(One(x, Pass(inputs))[id])
    <3> SUFFICES ASSUME NEW x, NEW inputs, NEW id \in DOMAIN One(x, Pass(inputs))
                 PROVE  Is(One(x, Pass(inputs))[id])
      OBVIOUS
    <3> DEFINE c == Pass(inputs)
    <3>1. Is(c)
      BY <1>5
    <3> HIDE DEF c
    <3>2. One(x, c)[id] = c
      BY OneIs DEF c
    <3> QED
      BY <3>1, <3>2 DEF c
  <2>3. \A id \in DOMAIN third : Is(third[id])
    BY <2>0, NoneIs
  <2>4. \A id \in DOMAIN fourth : Is(fourth[id])
    BY <2>0, NoneIs
  <2> HIDE DEF first, second, third, fourth
  <2> QED
    BY <2>1, <2>2, <2>3, <2>4
<1> HIDE DEF maps
<1>7. \A id \in DOMAIN MergeAll(maps) : Is(MergeAll(maps)[id])
  BY <1>6, Merged
<1> QED
  BY <1>1, <1>7 DEF Is

LEMMA NewSourceSound ==
  ASSUME spec \in ClfSpecs, NamesApart, NEW n \in DOMAIN spec.inputs
  PROVE  AllSound(NewSource(n, spec.inputs[n]))
<1> DEFINE i == spec.inputs[n]
           added == NewSource(n, i)
<1> SUFFICES ASSUME NEW id \in DOMAIN added
             PROVE  Sound(id, added[id])
  BY DEF AllSound
<1>1. /\ \A x \in DOMAIN added : Belongs(x, <<"input">> \o n, InputWords)
      /\ AllWired(added, added)
  BY InputsAre, NewSourceWired DEF MakeInputID
<1>2. PICK s \in LogSources(i) : id \in DOMAIN LogSourceComponents(n, i, s)
                                 /\ added[id] = LogSourceComponents(n, i, s)[id]
  <2> DEFINE maps == {LogSourceComponents(n, i, s) : s \in LogSources(i)}
  <2>1. added = MergeAll(maps)
    BY DEF NewSource
  <2> HIDE DEF maps, added
  <2>2. \E m \in maps : id \in DOMAIN m /\ added[id] = m[id]
    BY <2>1, Merged
  <2> QED
    BY <2>2 DEF maps
<1> HIDE DEF i, added
<1>3. CASE /\ added[id].kind = "source"
           /\ \A r \in added[id].arg : IsRecord(r) /\ r.input = n /\ r.from \in s.from /\ r.way = <<>>
  <2>1. s.from \subseteq Origins(i)
    BY <1>2 DEF Origins
  <2>2. \A r \in added[id].arg : IsRecord(r) /\ WayIn(r, n)
    BY <1>3, <2>1 DEF WayIn, FromInput, i
  <2>3. \A r \in added[id].arg : Carried(id, r)
    BY <1>1, <2>2 DEF Carried
  <2> QED
    BY <1>3, <2>3 DEF Sound
<1>4. CASE added[id].kind = "transform" /\ added[id].does # "filter"
  <2>1. \A port \in added[id].inputs : Belongs(port.id, <<"input">> \o n, InputWords)
    BY <1>1 DEF AllWired, Wired, Resolves
  <2> QED
    BY <1>1, <1>4, <2>1, InputSound
<1> QED
  BY <1>2, <1>3, <1>4, LogSourceIs

\* The filters of a pipeline, each behind the one before it.
LEMMA PipelineSound ==
  ASSUME spec \in ClfSpecs, NamesApart, NEW p \in Pipelines,
         \A n \in DOMAIN spec.inputs : \A id \in ids[n] : Belongs(id, <<"input">> \o n, InputWords)
  PROVE  AllSound(PipelineTransforms(p))
<1> DEFINE refs == AddSystemFilters(p)
           From(k) == Ports(IF k = 1 THEN UNION {ids[n] : n \in p.inputs} ELSE {FilterID(p, k - 1)})
           Arg(k) == [pipeline |-> p.name, filter |-> refs[k]]
           Filter(k) == Component("transform", "filter", From(k), Arg(k))
           maps == {One(FilterID(p, k), Filter(k)) : k \in DOMAIN refs}
<1>1. PipelineTransforms(p) = MergeAll(maps)
  BY DEF PipelineTransforms
<1>2. /\ p.inputs \subseteq DOMAIN spec.inputs /\ p.filters \in Seq(DOMAIN spec.filters)
  BY PipelinesAre
<1>3. Len(p.filters) \in Nat /\ DOMAIN refs = 1..(Len(p.filters) + 1)
  BY <1>2, FiltersOf
<1>4. ASSUME NEW k \in DOMAIN refs
      PROVE  Sound(FilterID(p, k), Filter(k))
  <2>1. Filter(k).kind = "transform" /\ Filter(k).does = "filter" /\ Filter(k).inputs = From(k) /\ Filter(k).arg = Arg(k)
    BY ComponentIs
  <2>2. k \in Nat /\ k - 1 \in Nat /\ (k - 1) + 1 = k /\ k \in 1..(Len(p.filters) + 1)
    BY <1>3
  <2> HIDE DEF Filter
  <2> SUFFICES ASSUME NEW port \in From(k), NEW r, Carried(port.id, r)
               PROVE  Carried(FilterID(p, k), Effect(Filter(k), r))
    BY <2>1 DEF Sound
  <2>3. IsRecord(r) /\ Through(r, p, k - 1)
    <3>1. CASE k = 1
      <4>0. PICK x \in UNION {ids[n] : n \in p.inputs} : port = Plain(x)
        BY <3>1 DEF Ports
      <4>1. PICK n \in p.inputs : port.id \in ids[n]
        BY <4>0 DEF Plain
      <4>2. WayIn(r, n)
        BY <1>2, <4>1, CarriedIs
      <4> QED
        <5>0. Way(p, 0) = <<>>
          BY <2>2, WayGrows
        <5>1. k - 1 = 0
          BY <3>1
        <5>2. IsRecord(r)
          BY DEF Carried
        <5> QED
          BY <4>2, <5>0, <5>1, <5>2 DEF WayIn, Through
    <3>2. CASE k # 1
      <4>0. port = Plain(FilterID(p, k - 1))
        BY <3>2 DEF Ports
      <4>1. port.id = FilterID(p, k - 1) /\ k - 1 \in 1..(Len(p.filters) + 1)
        <5>1. port.id = FilterID(p, k - 1)
          BY <4>0 DEF Plain
        <5>2. \A m \in Nat : \A j \in 1..(m + 1) : j # 1 => j - 1 \in 1..(m + 1)
          OBVIOUS
        <5> QED
          BY <1>3, <2>2, <3>2, <5>1, <5>2
      <4> QED
        BY <4>1, CarriedIs DEF Carried
    <3> QED
      BY <3>1, <3>2
  <2>4. Append(Way(p, k - 1), Arg(k)) = Way(p, k)
    BY <2>2, WayGrows
  <2>5. IsRecord(Effect(Filter(k), r)) /\ Through(Effect(Filter(k), r), p, k)
    <3> HIDE DEF Arg
    <3> QED
      BY <2>1, <2>3, <2>4, EffectIs DEF Through, FromInput
  <2> QED
    BY <2>2, <2>5 DEF Carried
<1> HIDE DEF refs, Filter
<1>5. \A m \in maps : AllSound(m)
  BY <1>4, OneSound
<1> QED
  BY <1>1, <1>5, MergedSound

\* The components of an output refer to each other and to what the output takes in.
Within(ports, base, inputs) == \A port \in ports : port \in inputs \/ Belongs(port.id, base, OutputWords)

Inner(c, base, inputs, out) ==
  /\ c.kind # "source" /\ c.does # "filter"
  /\ c.kind = "sink" => c.does = "deliver" /\ c.arg.output = out
  /\ Within(c.inputs, base, inputs)

AllInner(components, base, inputs, out) == \A id \in DOMAIN components : Inner(components[id], base, inputs, out)

LEMMA MergedInner ==
  ASSUME NEW maps, NEW base, NEW inputs, NEW out, \A m \in maps : AllInner(m, base, inputs, out)
  PROVE  AllInner(MergeAll(maps), base, inputs, out)
BY Merged DEF AllInner

LEMMA NoneInner == \A base, inputs, out : AllInner(NoComponents, base, inputs, out)
BY NoneIs DEF AllInner

LEMMA SinkIs ==
  ASSUME NEW inputs, NEW out, NEW tenant
  PROVE  Sink(inputs, out, tenant).arg.output = out
<1> DEFINE arg == [output |-> out, tenant |-> tenant]
<1>1. arg.output = out
  OBVIOUS
<1> HIDE DEF arg
<1>2. Component("sink", "deliver", inputs, arg).arg = arg
  BY ComponentIs
<1>3. Sink(inputs, out, tenant) = Component("sink", "deliver", inputs, arg)
  BY DEF Sink, arg
<1> QED
  BY <1>1, <1>2, <1>3

LEMMA OneInner ==
  ASSUME NEW ports, NEW base, NEW inputs, NEW out, Within(ports, base, inputs)
  PROVE  /\ \A id : /\ AllInner(One(id, Pass(ports)), base, inputs, out)
                    /\ AllInner(One(id, Trace(ports)), base, inputs, out)
                    /\ AllInner(One(id, Count(ports)), base, inputs, out)
         /\ \A id, field, values : AllInner(One(id, Route(ports, field, values)), base, inputs, out)
         /\ \A id, tenant : AllInner(One(id, Sink(ports, out, tenant)), base, inputs, out)
<1>1. \A id, c : Inner(c, base, inputs, out) => AllInner(One(id, c), base, inputs, out)
  BY OneIs DEF AllInner
<1>2. Inner(Pass(ports), base, inputs, out) /\ Inner(Trace(ports), base, inputs, out) /\ Inner(Count(ports), base, inputs, out)
  BY ComponentsAre DEF Inner
<1>3. \A field, values : Inner(Route(ports, field, values), base, inputs, out)
  BY ComponentsAre DEF Inner
<1>4. \A tenant : Inner(Sink(ports, out, tenant), base, inputs, out)
  BY ComponentsAre, SinkIs DEF Inner
<1> QED
  BY <1>1, <1>2, <1>3, <1>4

LEMMA WithinOne ==
  ASSUME NEW id, NEW base, NEW inputs, Belongs(id, base, OutputWords)
  PROVE  Within({Plain(id)}, base, inputs) /\ \A route : Within({RoutePort(id, route)}, base, inputs)
BY DEF Within, Plain, RoutePort

LEMMA WithinPorts ==
  ASSUME NEW IDs, NEW base, NEW inputs, \A id \in IDs : Belongs(id, base, OutputWords)
  PROVE  Within(Ports(IDs), base, inputs)
<1> SUFFICES ASSUME NEW port \in Ports(IDs)
             PROVE  Belongs(port.id, base, OutputWords)
  BY DEF Within
<1>1. PICK id \in IDs : port = Plain(id)
  BY DEF Ports
<1> QED
  BY <1>1 DEF Plain

LEMMA LinearInner ==
  ASSUME NEW base \in Seq(Word), NEW stages \in Seq(StageWords), NEW inputs, NEW out, NEW tenant
  PROVE  AllInner(Linear(base, stages, inputs, out, tenant), base, inputs, out)
<1> DEFINE n == Len(stages)
           From(k) == IF k = 0 THEN inputs ELSE {Plain(base \o stages[k])}
           Pre(k) == One(base \o stages[k], Pass(From(k - 1)))
           sink == One(base, Sink(From(n), out, tenant))
           maps == {Pre(k) : k \in DOMAIN stages} \cup {sink}
<1>1. Linear(base, stages, inputs, out, tenant) = MergeAll(maps)
  BY DEF Linear
<1>2. n \in Nat /\ DOMAIN stages = 1..n
  OBVIOUS
<1>3. \A k \in 1..n : Belongs(base \o stages[k], base, OutputWords)
  <2>1. \A k \in 1..n : stages[k] \in StageWords
    OBVIOUS
  <2> QED
    BY <2>1, BelowConcat DEF StageWords, TypeWords, Belongs
<1> HIDE DEF n
<1>4. ASSUME NEW k \in 0..n
      PROVE  Within(From(k), base, inputs)
  <2>1. CASE k = 0
    BY <2>1 DEF Within
  <2>2. CASE k # 0
    <3>1. k \in 1..n /\ From(k) = {Plain(base \o stages[k])}
      BY <1>2, <2>2
    <3> HIDE DEF From
    <3> QED
      BY <1>3, <3>1, WithinOne
  <2> QED
    BY <2>1, <2>2
<1> HIDE DEF From
<1>5. \A k \in 1..n : AllInner(Pre(k), base, inputs, out)
  <2>1. \A k \in 1..n : k - 1 \in 0..n
    BY <1>2
  <2> QED
    BY <1>4, <2>1, OneInner
<1>6. AllInner(sink, base, inputs, out)
  <2>1. n \in 0..n
    BY <1>2
  <2> QED
    BY <1>4, <2>1, OneInner
<1> HIDE DEF Pre, sink
<1>7. \A m \in maps : AllInner(m, base, inputs, out)
  BY <1>2, <1>5, <1>6
<1> HIDE DEF maps
<1> QED
  BY <1>1, <1>7, MergedInner

LEMMA OTLPInner ==
  ASSUME NEW base \in Seq(Word), NEW inputs, NEW sources, NEW migrated, NEW out, NEW tenant
  PROVE  AllInner(OTLP(base, inputs, sources, migrated, out, tenant), base, inputs, out)
<1> DEFINE trace == base \o <<"trace", "context">>
           reroute == base \o <<"reroute">>
           unmatched == Unmatched(reroute)
           resource == base \o <<"resource", "logs">>
           known == sources \cap AllLogSources
           Of(s) == base \o <<s>>
           Grouped(g) == base \o <<"groupby", g>>
           groups == {GroupWord(s) : s \in known}
           from == IF migrated THEN inputs ELSE {Plain(trace)}
           toGroups == Ports({Grouped(g) : g \in groups})
           ToSources(g) == Ports({Of(s) : s \in {x \in known : GroupWord(x) = g}})
           ofTrace == IF migrated THEN NoComponents ELSE One(trace, Trace(inputs))
           ofReroute == One(reroute, Route(from, "source", sources))
           ofUnmatched == One(unmatched, Count({RoutePort(reroute, "_unmatched")}))
           ofResource == One(resource, Pass(toGroups))
           ofSink == One(base, Sink({Plain(resource)}, out, tenant))
           OfSource(s) == One(Of(s), Pass({RoutePort(reroute, s)}))
           OfGroup(g) == One(Grouped(g), Pass(ToSources(g)))
           maps == {ofTrace, ofReroute, ofUnmatched, ofResource, ofSink}
                     \cup {OfSource(s) : s \in known} \cup {OfGroup(g) : g \in groups}
<1>1. OTLP(base, inputs, sources, migrated, out, tenant) = MergeAll(maps)
  BY DEF OTLP, CountUnmatched
<1>2. /\ known \subseteq Word /\ known \subseteq OutputWords /\ groups \subseteq Word
      /\ {"trace", "context", "reroute", "resource", "logs", "groupby"} \subseteq Word
      /\ {"trace", "reroute", "resource", "groupby"} \subseteq OutputWords
  <2>1. known \subseteq OutputWords /\ {"trace", "reroute", "resource", "groupby"} \subseteq OutputWords
    BY DEF OutputWords, AllLogSources, AuditSources, InfrastructureSources
  <2>2. {"context", "logs", "container", "host", "source"} \subseteq OwnWords
    BY DEF OwnWords, InputWords
  <2>3. groups \subseteq {"container", "host", "source"}
    BY DEF GroupWord
  <2> HIDE DEF known, groups
  <2> QED
    BY <2>1, <2>2, <2>3, WordsAre
<1> HIDE DEF known, groups
<1>3. Belongs(trace, base, OutputWords) /\ Belongs(resource, base, OutputWords) /\ Belongs(reroute, base, OutputWords)
  <2>1. Below(trace, base, "trace")
    BY <1>2, TwoWordsBelow
  <2>2. Below(resource, base, "resource")
    BY <1>2, TwoWordsBelow
  <2>3. Below(reroute, base, "reroute")
    BY <1>2, WordBelow
  <2> QED
    BY <1>2, <2>1, <2>2, <2>3 DEF Belongs
<1>4. \A s \in known : Belongs(Of(s), base, OutputWords)
  BY <1>2, WordBelow DEF Belongs
<1>5. \A g \in groups : Belongs(Grouped(g), base, OutputWords)
  BY <1>2, TwoWordsBelow DEF Belongs
<1> HIDE DEF trace, reroute, resource, Of, Grouped
<1>6. Within(inputs, base, inputs)
  BY DEF Within
<1>7. Within(from, base, inputs)
  BY <1>3, <1>6, WithinOne
<1>8. Within(toGroups, base, inputs)
  BY <1>5, WithinPorts
<1>9. \A g \in groups : Within(ToSources(g), base, inputs)
  <2> TAKE g \in groups
  <2> DEFINE some == {Of(s) : s \in {x \in known : GroupWord(x) = g}}
  <2>1. \A id \in some : Belongs(id, base, OutputWords)
    BY <1>4
  <2> HIDE DEF some
  <2>2. Within(Ports(some), base, inputs)
    BY <2>1, WithinPorts
  <2> QED
    BY <2>2 DEF some
<1> HIDE DEF from, toGroups, ToSources
<1>10. AllInner(ofTrace, base, inputs, out) /\ AllInner(ofReroute, base, inputs, out)
  BY <1>6, <1>7, OneInner, NoneInner
<1>11. AllInner(ofUnmatched, base, inputs, out) /\ AllInner(ofSink, base, inputs, out)
       /\ \A s \in known : AllInner(OfSource(s), base, inputs, out)
  <2>1. Within({Plain(resource)}, base, inputs) /\ \A x : Within({RoutePort(reroute, x)}, base, inputs)
    BY <1>3, WithinOne
  <2> DEFINE of == {Plain(resource)}
             By(x) == {RoutePort(reroute, x)}
  <2> HIDE DEF of, By
  <2>2. Within(of, base, inputs) /\ \A x : Within(By(x), base, inputs)
    BY <2>1 DEF of, By
  <2>3. /\ AllInner(One(unmatched, Count(By("_unmatched"))), base, inputs, out)
        /\ AllInner(One(base, Sink(of, out, tenant)), base, inputs, out)
        /\ \A s : AllInner(One(Of(s), Pass(By(s))), base, inputs, out)
    BY <2>2, OneInner
  <2> QED
    BY <2>3 DEF of, By
<1>12. AllInner(ofResource, base, inputs, out) /\ \A g \in groups : AllInner(OfGroup(g), base, inputs, out)
  BY <1>8, <1>9, OneInner
<1> HIDE DEF ofTrace, ofReroute, ofUnmatched, ofResource, ofSink, OfSource, OfGroup
<1>13. \A m \in maps : AllInner(m, base, inputs, out)
  BY <1>10, <1>11, <1>12
<1> HIDE DEF maps
<1> QED
  BY <1>1, <1>13, MergedInner

LEMMA LokiStackInner ==
  ASSUME NEW base \in Seq(Word), NEW inputs, NEW o, NEW out, DetermineTenants(out) \subseteq Tenants
  PROVE  AllInner(LokiStack(base, inputs, o, out), base, inputs, out)
<1> DEFINE tenants == DetermineTenants(out)
           trace == base \o <<"trace", "context">>
           route == base \o <<"route">>
           unmatched == Unmatched(route)
           Of(t) == base \o <<t>>
           By(t) == {RoutePort(route, t)}
           PerTenant(t) ==
             IF o.otel
               THEN OTLP(Of(t), By(t), GetInputSources(out, t), TRUE, out, t)
               ELSE Linear(Of(t), Loki(FALSE), By(t), out, t)
           from == IF o.otel THEN {Plain(trace)} ELSE inputs
           ofTrace == IF o.otel THEN One(trace, Trace(inputs)) ELSE NoComponents
           ofRoute == One(route, Route(from, "type", tenants))
           ofUnmatched == One(unmatched, Count(By("_unmatched")))
           maps == {ofTrace, ofRoute, ofUnmatched} \cup {PerTenant(t) : t \in tenants}
<1>1. LokiStack(base, inputs, o, out) = MergeAll(maps)
  BY DEF LokiStack, CountUnmatched
<1>2. /\ tenants \subseteq Word /\ tenants \subseteq OutputWords
      /\ {"trace", "context", "route"} \subseteq Word /\ {"trace", "route"} \subseteq OutputWords
  <2>1. {"trace", "route"} \subseteq OutputWords /\ Tenants \subseteq OutputWords
    BY DEF OutputWords, Tenants
  <2>2. {"context"} \subseteq OwnWords
    BY DEF OwnWords
  <2> QED
    BY <2>1, <2>2, WordsAre
<1> HIDE DEF tenants
<1>3. Belongs(trace, base, OutputWords) /\ Belongs(route, base, OutputWords)
  <2>1. Below(trace, base, "trace")
    BY <1>2, TwoWordsBelow
  <2>2. Below(route, base, "route")
    BY <1>2, WordBelow
  <2> QED
    BY <1>2, <2>1, <2>2 DEF Belongs
<1>4. \A t \in tenants : Below(Of(t), base, t) /\ Of(t) \in Seq(Word)
  BY <1>2, WordBelow, BelowDiffers
<1> HIDE DEF trace, route, Of
<1>5. Within(inputs, base, inputs) /\ Within(from, base, inputs) /\ \A t : Within(By(t), base, inputs)
  <2>1. Within(inputs, base, inputs)
    BY DEF Within
  <2> QED
    BY <1>3, <2>1, WithinOne
<1> HIDE DEF from, By
<1>6. AllInner(ofTrace, base, inputs, out) /\ AllInner(ofRoute, base, inputs, out)
      /\ AllInner(ofUnmatched, base, inputs, out)
  BY <1>5, OneInner, NoneInner
\* What is below an id of the output is below the output's id.
<1>7. ASSUME NEW t \in tenants
      PROVE  AllInner(PerTenant(t), base, inputs, out)
  <2>1. AllInner(PerTenant(t), Of(t), By(t), out)
    BY <1>4, StagesAre, LinearInner, OTLPInner
  <2>2. \A id : Belongs(id, Of(t), OutputWords) => Belongs(id, base, OutputWords)
    BY <1>2, <1>4, BelowBelow DEF Belongs
  <2>3. \A ports : Within(ports, Of(t), By(t)) => Within(ports, base, inputs)
    BY <1>5, <2>2 DEF Within
  <2> HIDE DEF PerTenant
  <2> QED
    BY <2>1, <2>3 DEF AllInner, Inner
<1> HIDE DEF ofTrace, ofRoute, ofUnmatched, PerTenant
<1>8. \A m \in maps : AllInner(m, base, inputs, out)
  BY <1>6, <1>7
<1> HIDE DEF maps
<1> QED
  BY <1>1, <1>8, MergedInner

LEMMA NewOutputInner ==
  ASSUME NEW n \in Names, NEW o, o.type \in OutputTypes, DetermineTenants(n) \subseteq Tenants
  PROVE  AllInner(NewOutput(n, o), MakeOutputID(n), Ports(inputIDs[n]), n)
<1> DEFINE base == MakeOutputID(n)
           throttle == base \o <<"throttle">>
           given == Ports(inputIDs[n])
           inputs == IF o.limited THEN {Plain(throttle)} ELSE given
           components ==
             CASE o.type = "lokiStack" -> LokiStack(base, inputs, o, n)
               [] o.type = "otlp" -> OTLP(base, inputs, op.sources, op.migrated, n, "")
               [] OTHER -> Linear(base, Stages(o), inputs, n, "")
           ofThrottle == IF o.limited THEN One(throttle, Pass(given)) ELSE NoComponents
           maps == {components, ofThrottle}
<1>1. NewOutput(n, o) = MergeAll(maps)
  BY DEF NewOutput
<1>2. base \in Seq(Word)
  BY IDsAre
<1> HIDE DEF base, given
<1>3. Belongs(throttle, base, OutputWords)
  <2>1. "throttle" \in OutputWords
    BY DEF OutputWords
  <2> QED
    BY <1>2, <2>1, WordBelow, WordsAre DEF Belongs
<1>4. Within(given, base, given) /\ Within(inputs, base, given)
  <2>1. Within(given, base, given)
    BY DEF Within
  <2> QED
    BY <1>3, <2>1, WithinOne
<1> HIDE DEF inputs
<1>5. AllInner(components, base, inputs, n)
  <2>1. CASE o.type = "lokiStack"
    BY <1>2, <2>1, LokiStackInner
  <2>2. CASE o.type = "otlp"
    BY <1>2, <2>2, OTLPInner
  <2>3. CASE o.type \notin {"lokiStack", "otlp"}
    <3>1. Stages(o) \in Seq(StageWords)
      BY <2>3, StagesAre
    <3> QED
      BY <1>2, <2>3, <3>1, LinearInner
  <2> QED
    BY <2>1, <2>2, <2>3
<1> HIDE DEF components
<1>6. AllInner(components, base, given, n)
  <2>1. \A ports : Within(ports, base, inputs) => Within(ports, base, given)
    BY <1>4 DEF Within
  <2> QED
    BY <1>5, <2>1 DEF AllInner, Inner
<1>7. AllInner(ofThrottle, base, given, n)
  BY <1>4, OneInner, NoneInner
<1> HIDE DEF ofThrottle
<1>8. \A m \in maps : AllInner(m, base, given, n)
  BY <1>6, <1>7
<1> HIDE DEF maps
<1>9. AllInner(NewOutput(n, o), base, given, n)
  BY <1>1, <1>8, MergedInner
<1> QED
  BY <1>9 DEF base, given

\* output.New, behind the pipelines that lead to the output.
LEMMA NewOutputSound ==
  ASSUME spec \in ClfSpecs, NamesApart, NEW n \in DOMAIN spec.outputs,
         \A id \in inputIDs[n] : \E p \in Pipelines : n \in p.outputs /\ id = LastFilterID(p)
  PROVE  AllSound(NewOutput(n, spec.outputs[n]))
<1> DEFINE added == NewOutput(n, spec.outputs[n])
<1>1. n \in Names /\ spec.outputs[n].type \in OutputTypes /\ DetermineTenants(n) \subseteq Tenants
  BY OutputsAre, TenantsAre
<1>2. \A id \in DOMAIN added : Belongs(id, <<"output">> \o n, OutputWords)
  BY <1>1, NewOutputWired DEF MakeOutputID
<1>3. AllInner(added, <<"output">> \o n, Ports(inputIDs[n]), n)
  BY <1>1, NewOutputInner DEF MakeOutputID
<1> HIDE DEF added
<1>4. \A port \in Ports(inputIDs[n]) : \E p \in Pipelines : n \in p.outputs /\ port.id = LastFilterID(p)
  <2> TAKE port \in Ports(inputIDs[n])
  <2>1. PICK id \in inputIDs[n] : port = Plain(id)
    BY DEF Ports
  <2>2. port.id = id
    BY <2>1 DEF Plain
  <2> QED
    BY <2>1, <2>2
<1>5. ASSUME NEW id \in DOMAIN added
      PROVE  Sound(id, added[id])
  <2> DEFINE c == added[id]
  <2>1. /\ c.kind # "source" /\ c.does # "filter" /\ (c.kind = "sink" => c.does = "deliver" /\ c.arg.output = n)
        /\ Within(c.inputs, <<"output">> \o n, Ports(inputIDs[n]))
    BY <1>3 DEF AllInner, Inner
  <2> HIDE DEF c
  <2>2. \A port \in c.inputs :
          \/ Belongs(port.id, <<"output">> \o n, OutputWords)
          \/ \E p \in Pipelines : n \in p.outputs /\ port.id = LastFilterID(p)
    BY <1>4, <2>1 DEF Within
  <2>3. Sound(id, c)
    BY <1>2, <2>1, <2>2, OutputSound
  <2> QED
    BY <2>3 DEF c
<1> QED
  BY <1>5 DEF AllSound, added

\* The collector's own metrics.
LEMMA MetricsSound == AllSound(Metrics)
<1> DEFINE nodename == <<"add", "nodename", "to", "metric">>
           endpoint == <<"prometheus", "output">>
           unmatched == Ports({nodename} \cup op.unmatched)
           Node == Pass({Plain(InternalMetrics)})
           Endpoint == Sink(unmatched, <<>>, "")
           maps == {One(nodename, Node), One(endpoint, Endpoint)}
<1>1. Metrics = MergeAll(maps)
  BY DEF Metrics
<1>2. nodename \in MetricsIDs /\ endpoint \in MetricsIDs
  BY DEF MetricsIDs
<1> HIDE DEF nodename, endpoint, unmatched
<1>3. /\ Node.kind = "transform" /\ Node.does = "pass"
      /\ Endpoint.kind = "sink" /\ Endpoint.does = "deliver" /\ Endpoint.arg.output = <<>>
  <2> DEFINE nowhere == <<>>
             nobody == ""
  <2> HIDE DEF nowhere, nobody
  <2>1. LET c == Sink(unmatched, nowhere, nobody)
        IN  c.kind = "sink" /\ c.does = "deliver" /\ c.arg.output = nowhere
    BY ComponentsAre, SinkIs
  <2>2. Node.kind = "transform" /\ Node.does = "pass"
    BY ComponentsAre
  <2> QED
    BY <2>1, <2>2 DEF nowhere, nobody
<1> HIDE DEF Node, Endpoint
<1>4. ASSUME NEW c, NEW id \in MetricsIDs, NEW x, NEW r, Carried(x, r)
      PROVE  Carried(id, Effect(c, r))
  <2>1. IsRecord(r)
    BY <1>4 DEF Carried
  <2>2. IsRecord(Effect(c, r))
    BY <2>1, EffectIs
  <2> QED
    BY <2>2 DEF Carried
<1>5. Sound(nodename, Node) /\ Sound(endpoint, Endpoint)
  <2>1. Sound(nodename, Node)
    BY <1>2, <1>3, <1>4 DEF Sound
  <2>2. Sound(endpoint, Endpoint)
    BY <1>2, <1>3, <1>4 DEF Sound
  <2> QED
    BY <2>1, <2>2
<1>6. \A m \in maps : AllSound(m)
  BY <1>5, OneSound
<1> HIDE DEF maps
<1> QED
  BY <1>1, <1>6, MergedSound

LEMMA OverSound ==
  ASSUME NEW added, NEW old, AllSound(added), AllSound(old)
  PROVE  AllSound(Over(added, old))
BY DEF AllSound, Over

LEMMA SoundStays ==
  ASSUME spec' = spec
  PROVE  /\ \A id, r : Carried(id, r)' <=> Carried(id, r)
         /\ \A id, c : Sound(id, c)' <=> Sound(id, c)
         /\ \A components : AllSound(components)' <=> AllSound(components)
<1>1. Pipelines' = Pipelines
  BY SpecStays
<1>2. \A p, k : FilterID(p, k)' = FilterID(p, k) /\ Way(p, k)' = Way(p, k)
  BY DEF FilterID, Way, AddSystemFilters, IsEarlyStage, FilterType
<1>3. \A r, n : FromInput(r, n)' <=> FromInput(r, n)
  BY DEF FromInput
<1>4. \A r, p, k : Through(r, p, k)' <=> Through(r, p, k)
  BY <1>2, <1>3 DEF Through
<1>5. \A r, n : WayIn(r, n)' <=> WayIn(r, n)
  BY <1>3 DEF WayIn
<1>6. \A r, out : WayOut(r, out)' <=> WayOut(r, out)
  BY <1>1, <1>4 DEF WayOut
<1>7. \A id, r : Carried(id, r)' <=> Carried(id, r)
  BY <1>1, <1>2, <1>4, <1>5, <1>6 DEF Carried
<1>8. \A id, c : Sound(id, c)' <=> Sound(id, c)
  BY <1>7 DEF Sound
<1> QED
  BY <1>7, <1>8 DEF AllSound

LEMMA FlowInit ==
  ASSUME GraphInit
  PROVE  FlowInv
<1>1. /\ config = One(InternalMetrics, Source({})) /\ leaving = [id \in {} |-> {}]
      /\ \A n \in DOMAIN spec.inputs : ids[n] = {}
  BY DEF GraphInit
<1>2. Source({}).kind = "source" /\ Source({}).arg = {}
  BY ComponentIs DEF Source
<1>3. Sound(InternalMetrics, Source({}))
  BY <1>2 DEF Sound
<1>4. AllSound(config)
  BY <1>1, <1>3, OneSound
<1>5. DOMAIN leaving = {}
  BY <1>1
<1> QED
  BY <1>1, <1>4, <1>5 DEF FlowInv

\* Conf adds sound components only.
LEMMA ConfKeepsSound ==
  ASSUME GraphInv, FlowInv, ConfNext
  PROVE  /\ spec' = spec
         /\ \A n \in DOMAIN spec.inputs : \A id \in ids'[n] : Belongs(id, <<"input">> \o n, InputWords)
         /\ NamesApart => AllSound(config')
<1> DEFINE FromIDs == \A n \in DOMAIN spec.inputs : \A id \in ids[n] : Belongs(id, <<"input">> \o n, InputWords)
<1>1. PhaseInv /\ spec \in ClfSpecs /\ FromIDs /\ (NamesApart => AllSound(config))
  BY DEF GraphInv, PhaseInv, FlowInv
<1>2. ASSUME NEW n, AddInput(n)
      PROVE  /\ spec' = spec
             /\ \A m \in DOMAIN spec.inputs : \A id \in ids'[m] : Belongs(id, <<"input">> \o m, InputWords)
             /\ NamesApart => AllSound(config')
  <2> DEFINE new == NewInputIDs(n, spec.inputs[n])
             added == NewSource(n, spec.inputs[n])
  <2>1. n \in DOMAIN spec.inputs /\ DOMAIN ids = DOMAIN spec.inputs
    BY <1>1, <1>2, IDsOfInput DEF PhaseInv
  <2>2. spec' = spec /\ config' = Over(added, config) /\ ids' = [ids EXCEPT ![n] = @ \cup new]
    BY <1>2 DEF AddInput, Step
  <2>3. \A id \in new : Belongs(id, <<"input">> \o n, InputWords)
    <3>1. /\ \A id \in DOMAIN added : Belongs(id, MakeInputID(n), InputWords)
          /\ \A id \in new : Resolves(Plain(id), added)
      BY <1>1, <2>1, InputsAre, NewSourceWired
    <3>2. \A id : Plain(id).id = id
      BY DEF Plain
    <3> QED
      BY <3>1, <3>2 DEF Resolves, MakeInputID
  <2> HIDE DEF new
  <2>4. \A m \in DOMAIN spec.inputs : \A id \in ids'[m] : Belongs(id, <<"input">> \o m, InputWords)
    BY <1>1, <2>1, <2>2, <2>3
  <2> QED
    BY <1>1, <2>1, <2>2, <2>4, NewSourceSound, OverSound
<1>3. ASSUME NEW n, AddPipeline(n)
      PROVE  spec' = spec /\ ids' = ids /\ (NamesApart => AllSound(config'))
  <2>1. spec' = spec /\ ids' = ids /\ config' = Over(PipelineTransforms(PipelineNamed(n)), config)
    BY <1>3 DEF AddPipeline, Step
  <2>2. PipelineNamed(n) \in Pipelines
    BY <1>1, <1>3, IDsOfPipeline
  <2> QED
    BY <1>1, <2>1, <2>2, PipelineSound, OverSound
<1>4. ASSUME NEW n, AddOutput(n)
      PROVE  spec' = spec /\ ids' = ids /\ (NamesApart => AllSound(config'))
  <2>1. spec' = spec /\ ids' = ids /\ config' = Over(NewOutput(n, spec.outputs[n]), config) /\ phase = "outputs"
    BY <1>4 DEF AddOutput, Step
  <2>2. n \in DOMAIN spec.outputs
    BY <1>1, <1>4, IDsOfOutput
  <2>3. \A id \in inputIDs[n] : \E p \in Pipelines : n \in p.outputs /\ id = LastFilterID(p)
    <3>1. HandedOn
      BY <2>1 DEF GraphInv, Running
    <3> QED
      BY <2>2, <3>1 DEF HandedOn
  <2> QED
    BY <1>1, <2>1, <2>2, <2>3, NewOutputSound, OverSound
<1>5. ASSUME AddMetrics
      PROVE  spec' = spec /\ ids' = ids /\ (NamesApart => AllSound(config'))
  BY <1>1, <1>5, MetricsSound, OverSound DEF AddMetrics
<1>6. ASSUME NEW n, WirePipeline(n) \/ PanicOnInput(n) \/ PanicOnOutput(n)
      PROVE  spec' = spec /\ ids' = ids /\ (NamesApart => AllSound(config'))
  BY <1>1, <1>6 DEF WirePipeline, PanicOnInput, PanicOnOutput, Step
<1>7. ASSUME NextPhase
      PROVE  spec' = spec /\ ids' = ids /\ (NamesApart => AllSound(config'))
  BY <1>1, <1>7 DEF NextPhase
<1> QED
  BY <1>1, <1>2, <1>3, <1>4, <1>5, <1>6, <1>7 DEF ConfNext

\* What a component puts out, when it has been offered what was carried.
LEMMA LeftIsCarried ==
  ASSUME AllSound(config), \A id \in DOMAIN leaving : \A r \in leaving[id] : Carried(id, r), NEW id \in DOMAIN config
  PROVE  /\ \A port \in config[id].inputs : \A r \in Offered(port) : Carried(port.id, r)
         /\ \A r \in Left(config[id]) : Carried(id, r)
<1> DEFINE c == config[id]
<1>1. Sound(id, c)
  BY DEF AllSound
<1>2. \A port \in c.inputs : \A r \in Offered(port) : Carried(port.id, r)
  BY DEF Offered
<1> HIDE DEF c
<1>3. CASE c.kind = "source"
  <2>1. \A r \in Left(c) : Carried(id, r)
    BY <1>1, <1>3 DEF Left, Sound
  <2> QED
    BY <1>2, <2>1 DEF c
<1>4. CASE c.kind # "source"
  <2> SUFFICES ASSUME NEW x \in Left(c)
               PROVE  Carried(id, x)
    BY <1>2 DEF c
  <2>1. PICK r \in Received(c) : x = Effect(c, r)
    BY <1>4 DEF Left
  <2>2. PICK port \in c.inputs : r \in Offered(port)
    BY DEF Received
  <2> QED
    BY <1>1, <1>2, <1>4, <2>1, <2>2 DEF Sound
<1> QED
  BY <1>2, <1>3, <1>4 DEF c

LEMMA FlowNext ==
  ASSUME GraphInv, FlowInv, [GraphNext]_graphVars
  PROVE  FlowInv'
<1>1. CASE ConfNext /\ UNCHANGED leaving
  <2>1. /\ spec' = spec /\ leaving' = leaving
        /\ \A n \in DOMAIN spec.inputs : \A id \in ids'[n] : Belongs(id, <<"input">> \o n, InputWords)
        /\ NamesApart => AllSound(config')
    BY <1>1, ConfKeepsSound
  <2>2. NamesApart' = NamesApart /\ \A id, r : Carried(id, r)' <=> Carried(id, r)
    BY <2>1, SpecStays, SoundStays
  <2>3. AllSound(config') => AllSound(config)'
    BY <2>1, SoundStays DEF AllSound
  <2> QED
    BY <2>1, <2>2, <2>3 DEF FlowInv
<1>2. CASE Flow
  <2>1. /\ leaving' = [id \in DOMAIN config |-> Left(config[id])]
        /\ spec' = spec /\ config' = config /\ ids' = ids
    BY <1>2 DEF Flow, confVars
  <2>2. NamesApart' = NamesApart /\ \A id, r : Carried(id, r)' <=> Carried(id, r)
    BY <2>1, SpecStays, SoundStays
  <2>3. AllSound(config) => AllSound(config)'
    BY <2>1, SoundStays DEF AllSound
  <2>4. NamesApart => \A id \in DOMAIN leaving' : \A r \in leaving'[id] : Carried(id, r)
    BY <2>1, LeftIsCarried DEF FlowInv
  <2> QED
    BY <2>1, <2>2, <2>3, <2>4 DEF FlowInv
<1>3. CASE UNCHANGED graphVars
  <2>1. leaving' = leaving /\ spec' = spec /\ config' = config /\ ids' = ids
    BY <1>3 DEF graphVars
  <2>2. NamesApart' = NamesApart /\ \A id, r : Carried(id, r)' <=> Carried(id, r)
    BY <2>1, SpecStays, SoundStays
  <2>3. AllSound(config) => AllSound(config)'
    BY <2>1, SoundStays DEF AllSound
  <2> QED
    BY <2>1, <2>2, <2>3 DEF FlowInv
<1> QED
  BY <1>1, <1>2, <1>3 DEF GraphNext

LEMMA FlowInvariant == GraphSpec => [](GraphInv /\ FlowInv)
<1>1. GraphInit => FlowInv
  BY FlowInit
<1>2. GraphInv /\ FlowInv /\ [GraphNext]_graphVars => FlowInv'
  BY FlowNext
<1> QED
  BY <1>1, <1>2, GraphInvariant, PTL DEF GraphSpec

\* A position has a rank, and the rank leads back to it.
LEMMA NthOfRank ==
  ASSUME NEW n \in Nat, NEW positions, positions \subseteq 1..n
  PROVE  LET Rank(i) == Cardinality({j \in positions : j < i}) + 1
         IN  \A i \in positions :
               /\ Rank(i) \in 1..Cardinality(positions) /\ Nth(positions, Rank(i)) = i
               /\ \A k \in positions : i < k => Rank(i) < Rank(k)
<1> DEFINE Before(i) == {j \in positions : j < i}
           Rank(i) == Cardinality(Before(i)) + 1
<1>1. IsFiniteSet(1..n)
  BY FS_Interval
<1>2. \A some \in SUBSET positions : IsFiniteSet(some) /\ Cardinality(some) \in Nat
  BY <1>1, FS_Subset, FS_CardinalityType
<1>3. IsFiniteSet(positions) /\ Cardinality(positions) \in Nat
  BY <1>2
<1>4. \A i : Before(i) \in SUBSET positions
  OBVIOUS
<1>5. \A i : IsFiniteSet(Before(i)) /\ Cardinality(Before(i)) \in Nat
  BY <1>2, <1>4
<1>6. ASSUME NEW i \in positions
      PROVE  Cardinality(Before(i)) < Cardinality(positions)
  <2>1. i \notin Before(i)
    <3>1. i \in Int
      OBVIOUS
    <3> QED
      BY <3>1
  <2>2. Before(i) # positions /\ Before(i) \subseteq positions
    BY <2>1
  <2> HIDE DEF Before
  <2>3. Cardinality(Before(i)) <= Cardinality(positions) /\ Cardinality(Before(i)) # Cardinality(positions)
    BY <1>3, <2>2, FS_Subset
  <2> QED
    BY <1>3, <1>5, <2>3
<1>7. ASSUME NEW i \in positions, NEW k \in positions, i < k
      PROVE  Cardinality(Before(i)) < Cardinality(Before(k))
  <2>1. i \in Int /\ k \in Int /\ \A j \in positions : j \in Int
    OBVIOUS
  <2>2. Before(i) \subseteq Before(k) /\ i \in Before(k) /\ i \notin Before(i)
    <3>1. \A j \in positions : j < i => j < k
      BY <1>7, <2>1
    <3>2. ~(i < i)
      BY <2>1
    <3> QED
      BY <1>7, <3>1, <3>2
  <2>3. Before(i) # Before(k)
    BY <2>2
  <2> HIDE DEF Before
  <2>4. Cardinality(Before(i)) <= Cardinality(Before(k)) /\ Cardinality(Before(i)) # Cardinality(Before(k))
    BY <1>5, <2>2, <2>3, FS_Subset
  <2> QED
    BY <1>5, <2>4
<1>8. ASSUME NEW i \in positions
      PROVE  Nth(positions, Rank(i)) = i
  <2> DEFINE x == Nth(positions, Rank(i))
  <2>1. Rank(i) - 1 = Cardinality(Before(i))
    <3> HIDE DEF Before
    <3> QED
      BY <1>5
  <2>2. x = CHOOSE k \in positions : Cardinality(Before(k)) = Rank(i) - 1
    BY DEF Nth
  <2>3. x \in positions /\ Cardinality(Before(x)) = Cardinality(Before(i))
    <3> HIDE DEF Before, Rank, x
    <3> QED
      BY <2>1, <2>2
  <2> HIDE DEF x
  <2>4. ~(x < i) /\ ~(i < x)
    <3>1. \A m \in Nat : ~(m < m)
      OBVIOUS
    <3> HIDE DEF Before
    <3> QED
      BY <1>5, <1>7, <2>3, <3>1
  <2>5. x \in Int /\ i \in Int
    BY <2>3
  <2>6. x = i
    BY <2>4, <2>5
  <2> QED
    BY <2>6 DEF x
<1>9. ASSUME NEW i \in positions
      PROVE  Rank(i) \in 1..Cardinality(positions)
  <2> HIDE DEF Before
  <2> QED
    BY <1>3, <1>5, <1>6
<1>10. ASSUME NEW i \in positions, NEW k \in positions, i < k
       PROVE  Rank(i) < Rank(k)
  <2>1. Cardinality(Before(i)) < Cardinality(Before(k))
    BY <1>7, <1>10
  <2> HIDE DEF Before
  <2> QED
    BY <1>5, <2>1
<1> QED
  BY <1>8, <1>9, <1>10

\* addSystemFilters: where the filters of a pipeline end up.
Placed(p, viaq, at) ==
  /\ viaq \in 1..(Len(p.filters) + 1) /\ at \in [DOMAIN p.filters -> 1..(Len(p.filters) + 1)]
  /\ AddSystemFilters(p)[viaq] = Viaq
  /\ \A i \in DOMAIN p.filters :
       /\ AddSystemFilters(p)[at[i]] = p.filters[i]
       /\ IF IsEarlyStage(p.filters[i]) THEN at[i] < viaq ELSE at[i] > viaq
       /\ \A j \in DOMAIN p.filters :
            i < j /\ (IsEarlyStage(p.filters[i]) <=> IsEarlyStage(p.filters[j])) => at[i] < at[j]

LEMMA FiltersPlaced ==
  ASSUME NEW p, NEW names, p.filters \in Seq(names)
  PROVE  \E viaq, at : Placed(p, viaq, at)
<1> DEFINE n == Len(p.filters)
           pre == {i \in DOMAIN p.filters : IsEarlyStage(p.filters[i])}
           other == DOMAIN p.filters \ pre
           c == Cardinality(pre)
           PreRank(i) == Cardinality({j \in pre : j < i}) + 1
           OtherRank(i) == Cardinality({j \in other : j < i}) + 1
           at == [i \in DOMAIN p.filters |-> IF i \in pre THEN PreRank(i) ELSE c + 1 + OtherRank(i)]
<1>1. n \in Nat /\ DOMAIN p.filters = 1..n
  OBVIOUS
<1>2. \A k \in 1..(n + 1) : AddSystemFilters(p)[k] =
         IF k < c + 1 THEN p.filters[Nth(pre, k)]
         ELSE IF k = c + 1 THEN Viaq ELSE p.filters[Nth(other, k - (c + 1))]
  BY DEF AddSystemFilters
<1>3. /\ pre \subseteq 1..n /\ other \subseteq 1..n /\ other = (1..n) \ pre /\ (1..n) \cap pre = pre
      /\ \A i \in 1..n : (i \in pre <=> IsEarlyStage(p.filters[i])) /\ (i \in other <=> i \notin pre)
  BY <1>1
<1> HIDE DEF n, pre, other
<1>4. c \in Nat /\ Cardinality(other) = n - c /\ c <= n
  <2>1. IsFiniteSet(1..n) /\ Cardinality(1..n) = n
    BY <1>1, FS_Interval
  <2>2. IsFiniteSet(pre) /\ Cardinality(pre) <= n
    BY <1>3, <2>1, FS_Subset
  <2>3. Cardinality((1..n) \ pre) = Cardinality(1..n) - Cardinality((1..n) \cap pre)
    BY <2>1, FS_Difference
  <2> QED
    BY <1>3, <2>1, <2>2, <2>3, FS_CardinalityType
<1>5. \A i \in pre : /\ PreRank(i) \in 1..c /\ Nth(pre, PreRank(i)) = i
                     /\ \A k \in pre : i < k => PreRank(i) < PreRank(k)
  <2>1. n \in Nat /\ pre \subseteq 1..n
    BY <1>1, <1>3
  <2> QED
    BY <2>1, NthOfRank
<1>6. \A i \in other : /\ OtherRank(i) \in 1..(n - c) /\ Nth(other, OtherRank(i)) = i
                       /\ \A k \in other : i < k => OtherRank(i) < OtherRank(k)
  <2>1. \A i \in other : /\ OtherRank(i) \in 1..Cardinality(other) /\ Nth(other, OtherRank(i)) = i
                         /\ \A k \in other : i < k => OtherRank(i) < OtherRank(k)
    <3>1. n \in Nat /\ other \subseteq 1..n
      BY <1>1, <1>3
    <3> QED
      BY <3>1, NthOfRank
  <2> HIDE DEF OtherRank, c
  <2> QED
    BY <1>4, <2>1
<1> HIDE DEF c, PreRank, OtherRank
<1>7. \A i \in 1..n : at[i] = IF i \in pre THEN PreRank(i) ELSE c + 1 + OtherRank(i)
  BY <1>1
<1>8. ASSUME NEW i \in 1..n
      PROVE  /\ at[i] \in 1..(n + 1) /\ AddSystemFilters(p)[at[i]] = p.filters[i]
             /\ IF i \in pre THEN at[i] < c + 1 ELSE at[i] > c + 1
  <2>1. CASE i \in pre
    <3>1. at[i] = PreRank(i) /\ at[i] \in 1..(n + 1) /\ at[i] < c + 1
      BY <1>1, <1>4, <1>5, <1>7, <2>1
    <3>2. AddSystemFilters(p)[at[i]] = p.filters[Nth(pre, PreRank(i))]
      BY <1>2, <3>1
    <3> QED
      BY <1>5, <2>1, <3>1, <3>2
  <2>2. CASE i \notin pre
    <3>0. i \in other
      BY <1>3, <2>2
    <3>1. OtherRank(i) \in 1..(n - c)
      BY <1>6, <3>0
    <3>2. /\ at[i] = c + 1 + OtherRank(i) /\ at[i] \in 1..(n + 1) /\ at[i] > c + 1
          /\ at[i] - (c + 1) = OtherRank(i) /\ ~(at[i] < c + 1) /\ at[i] # c + 1
      BY <1>1, <1>4, <1>7, <2>2, <3>1
    <3>3. AddSystemFilters(p)[at[i]] = p.filters[Nth(other, OtherRank(i))]
      BY <1>2, <3>2
    <3> QED
      BY <1>6, <2>2, <3>0, <3>2, <3>3
  <2> QED
    BY <2>1, <2>2
<1>9. ASSUME NEW i \in 1..n, NEW j \in 1..n, i < j, i \in pre <=> j \in pre
      PROVE  at[i] < at[j]
  <2>1. CASE i \in pre
    BY <1>5, <1>7, <1>9, <2>1
  <2>2. CASE i \notin pre
    <3>1. i \in other /\ j \in other
      BY <1>3, <1>9, <2>2
    <3>2. OtherRank(i) < OtherRank(j) /\ OtherRank(i) \in Int /\ OtherRank(j) \in Int
      BY <1>6, <1>9, <3>1
    <3>3. at[i] = c + 1 + OtherRank(i) /\ at[j] = c + 1 + OtherRank(j)
      BY <1>7, <1>9, <2>2
    <3> QED
      BY <1>4, <3>2, <3>3
  <2> QED
    BY <2>1, <2>2
<1>10. c + 1 \in 1..(n + 1) /\ AddSystemFilters(p)[c + 1] = Viaq
  <2>1. c + 1 \in 1..(n + 1) /\ ~(c + 1 < c + 1)
    BY <1>1, <1>4
  <2> QED
    BY <1>2, <2>1
<1>11. at \in [DOMAIN p.filters -> 1..(n + 1)]
  BY <1>1, <1>8
<1> HIDE DEF at
<1>12. Placed(p, c + 1, at)
  BY <1>1, <1>3, <1>8, <1>9, <1>10, <1>11 DEF Placed, n
<1> QED
  BY <1>12

\* What arrives at the sinks of an output went all the way of a pipeline that leads
\* there.
LEMMA ArrivedIs ==
  ASSUME GraphInv, FlowInv, NamesApart, NEW out \in DOMAIN spec.outputs, NEW a \in Arrivals(out)
  PROVE  WayOut(a.record, out)
<1>1. /\ spec \in ClfSpecs /\ AllSound(config)
      /\ \A id \in DOMAIN leaving : \A r \in leaving[id] : Carried(id, r)
  BY DEF GraphInv, PhaseInv, FlowInv
<1>2. out \in Names /\ out # <<>>
  BY <1>1, OutputsAre, WordsAre
<1>3. PICK id \in DOMAIN config : /\ config[id].kind = "sink" /\ config[id].arg.output = out
                                  /\ \E r \in Received(config[id]) : a = [record |-> r, tenant |-> config[id].arg.tenant]
  BY DEF Arrivals
<1>4. a.record \in Received(config[id])
  BY <1>3
<1>5. PICK port \in config[id].inputs : a.record \in Offered(port)
  BY <1>4 DEF Received
<1> DEFINE c == config[id]
           r == a.record
<1>6. Carried(port.id, r) /\ Sound(id, c) /\ c.kind = "sink" /\ c.arg.output = out
  BY <1>1, <1>3, <1>5, LeftIsCarried DEF AllSound
<1> HIDE DEF c, r
<1>7. Carried(id, Effect(c, r)) /\ c.does = "deliver" /\ Belongs(id, <<"output">> \o out, OutputWords)
  <2>1. port \in c.inputs
    BY <1>5 DEF c
  <2> QED
    BY <1>2, <1>6, <2>1 DEF Sound
<1>8. Effect(c, r) = r
  BY <1>7 DEF Effect
<1>9. WayOut(r, out)
  BY <1>1, <1>7, <1>8, CarriedIs
<1> QED
  BY <1>9 DEF r

\* For every forwarder without names that join to one id, whatever arrives at an
\* output, at any time, has been through all filters of its pipeline in the order
\* that the pipeline asks for, and through the system filter in between.
THEOREM FiltersAreInOrder == GraphSpec => []FiltersInOrder
<1>1. ASSUME GraphInv, FlowInv, NamesApart, NEW out \in DOMAIN spec.outputs, NEW a \in Arrivals(out)
      PROVE  LET way == a.record.way
                 p == PipelineNamed(way[1].pipeline)
             IN  /\ Len(way) = Len(p.filters) + 1
                 /\ \E viaq \in DOMAIN way, at \in [DOMAIN p.filters -> DOMAIN way] :
                      /\ way[viaq].filter = Viaq
                      /\ \A i \in DOMAIN p.filters :
                           /\ way[at[i]].filter = p.filters[i]
                           /\ IF IsEarlyStage(p.filters[i]) THEN at[i] < viaq ELSE at[i] > viaq
                           /\ \A j \in DOMAIN p.filters :
                                i < j /\ (IsEarlyStage(p.filters[i]) <=> IsEarlyStage(p.filters[j])) => at[i] < at[j]
  <2> DEFINE way == a.record.way
  <2>1. PICK p \in Pipelines : out \in p.outputs /\ way = Way(p, Len(p.filters) + 1)
    BY <1>1, ArrivedIs DEF WayOut, Through
  <2>2. spec \in ClfSpecs
    BY <1>1 DEF GraphInv, PhaseInv
  <2>3. p.filters \in Seq(DOMAIN spec.filters) /\ PipelineNamed(p.name) = p
    BY <2>2, PipelinesAre
  <2> DEFINE n == Len(p.filters)
  <2>4. n \in Nat
    BY <2>3
  <2> HIDE DEF way, n
  <2>5. way = [j \in 1..(n + 1) |-> [pipeline |-> p.name, filter |-> AddSystemFilters(p)[j]]]
    BY <2>1 DEF Way, n
  <2>6. DOMAIN way = 1..(n + 1) /\ Len(way) = n + 1
    BY <2>4, <2>5, LenProperties
  <2>7. \A k \in 1..(n + 1) : way[k].pipeline = p.name /\ way[k].filter = AddSystemFilters(p)[k]
    BY <2>5
  <2>8. PipelineNamed(way[1].pipeline) = p
    BY <2>3, <2>4, <2>7
  <2>9. PICK viaq, at : Placed(p, viaq, at)
    BY <2>3, FiltersPlaced
  <2>10. viaq \in DOMAIN way /\ at \in [DOMAIN p.filters -> DOMAIN way] /\ way[viaq].filter = Viaq
    BY <2>6, <2>7, <2>9 DEF Placed, n
  <2>11. \A i \in DOMAIN p.filters : at[i] \in 1..(n + 1)
    BY <2>9 DEF Placed, n
  <2>12. \A i \in DOMAIN p.filters :
           /\ way[at[i]].filter = p.filters[i]
           /\ IF IsEarlyStage(p.filters[i]) THEN at[i] < viaq ELSE at[i] > viaq
           /\ \A j \in DOMAIN p.filters :
                i < j /\ (IsEarlyStage(p.filters[i]) <=> IsEarlyStage(p.filters[j])) => at[i] < at[j]
    BY <2>7, <2>9, <2>11 DEF Placed
  <2>13. Len(way) = Len(p.filters) + 1
    BY <2>6 DEF n
  <2> QED
    BY <2>8, <2>10, <2>12, <2>13 DEF way
<1>2. GraphInv /\ FlowInv => FiltersInOrder
  BY <1>1 DEF FiltersInOrder
<1> QED
  BY <1>2, FlowInvariant, PTL

\* Whatever has arrived comes from a log source of an input, through one pipeline
\* that takes this input in and leads to this output, and through no other.
NothingAstray ==
  NamesApart =>
    \A out \in DOMAIN spec.outputs : \A a \in Arrivals(out) :
      \E p \in Pipelines :
        /\ out \in p.outputs /\ a.record.input \in p.inputs
        /\ a.record.from \in Origins(spec.inputs[a.record.input])
        /\ PipelinesOf(a.record) = {p.name}

\* For every forwarder without names that join to one id, Conf sends no record to an
\* output that no pipeline leads to from the record's input, nor by way of filters
\* of another pipeline.
THEOREM NothingGoesAstray == GraphSpec => []NothingAstray
<1>1. ASSUME GraphInv, FlowInv, NamesApart, NEW out \in DOMAIN spec.outputs, NEW a \in Arrivals(out)
      PROVE  \E p \in Pipelines :
               /\ out \in p.outputs /\ a.record.input \in p.inputs
               /\ a.record.from \in Origins(spec.inputs[a.record.input])
               /\ PipelinesOf(a.record) = {p.name}
  <2> DEFINE r == a.record
  <2>1. PICK p \in Pipelines : out \in p.outputs /\ Through(r, p, Len(p.filters) + 1)
    BY <1>1, ArrivedIs DEF WayOut
  <2>2. spec \in ClfSpecs
    BY <1>1 DEF GraphInv, PhaseInv
  <2>3. p.filters \in Seq(DOMAIN spec.filters)
    BY <2>2, PipelinesAre
  <2> DEFINE n == Len(p.filters)
  <2>4. n \in Nat
    BY <2>3
  <2> HIDE DEF r, n
  <2>5. r.way = [j \in 1..(n + 1) |-> [pipeline |-> p.name, filter |-> AddSystemFilters(p)[j]]]
    BY <2>1 DEF Through, Way, n
  <2>6. DOMAIN r.way = 1..(n + 1) /\ \A k \in 1..(n + 1) : r.way[k].pipeline = p.name
    BY <2>5
  <2>7. 1 \in DOMAIN r.way
    BY <2>4, <2>6
  <2>8. PipelinesOf(r) = {p.name}
    BY <2>6, <2>7 DEF PipelinesOf
  <2>9. r.input \in p.inputs /\ r.from \in Origins(spec.inputs[r.input])
    BY <2>1 DEF Through, FromInput
  <2> QED
    BY <2>1, <2>8, <2>9 DEF r
<1>2. GraphInv /\ FlowInv => NothingAstray
  BY <1>1 DEF NothingAstray
<1> QED
  BY <1>2, FlowInvariant, PTL

=============================================================================
