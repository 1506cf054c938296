------------------------------- MODULE LogEvent -------------------------------
(*****************************************************************************)
(* A log record as a transform of the collector sees it.  The scripts that   *)
(* the operator generates are written in VRL and run by Vector; this module  *)
(* holds the operations of that language they use.                           *)
(*                                                                           *)
(* An event maps the paths of its leaves to values: the path ._internal.level*)
(* is <<"_internal", "level">>.  An object is the set of the leaves under    *)
(* its path, an array of names the leaves whose last segments are the names. *)
(*****************************************************************************)
EXTENDS Sequences, SequencesExt, Functions

\* Paths are sequences of segments.
IsPath(p) == p \in Seq({p[i] : i \in DOMAIN p})

\* The one with the other beneath it.
Over(ev, other) == [q \in DOMAIN ev \cup DOMAIN other |-> IF q \in DOMAIN ev THEN ev[q] ELSE other[q]]

\* The value read at a path that holds nothing.
Null == "null"

\* A path under ._internal.
Internal(path) == <<"_internal">> \o path

\* exists(path)
Has(ev, path) == \E q \in DOMAIN ev : IsPrefix(path, q)

\* The value at a path.
Value(ev, path) == IF path \in DOMAIN ev THEN ev[path] ELSE Null

\* The object at a path, which is an event itself.
Object(ev, path) ==
  [s \in {SubSeq(q, Len(path) + 1, Len(q)) : q \in {r \in DOMAIN ev : IsPrefix(path, r)}}
     |-> ev[path \o s]]

\* The names an array holds.
Elements(ev, path) == {Last(q) : q \in {r \in DOMAIN ev : IsStrictPrefix(path, r)}}

\* del(path)
Del(ev, path) == Restrict(ev, {q \in DOMAIN ev : ~IsPrefix(path, q)})

\* path = object
Put(ev, path, object) ==
  Over([q \in {path \o s : s \in DOMAIN object} |-> object[SubSeq(q, Len(path) + 1, Len(q))]],
       Del(ev, path))

\* An object that is one value.
Leaf(value) == [s \in {<< >>} |-> value]

\* path = value
Assign(ev, path, value) == Put(ev, path, Leaf(value))

\* to = from
Copy(ev, to, from) ==
  Put(ev, to, IF Has(ev, from) THEN Object(ev, from) ELSE Leaf(Null))

\* to = del(from)
Move(ev, to, from) == Del(Copy(ev, to, from), from)

\* if exists(from) { to = from }
CopyIfExists(ev, to, from) == IF Has(ev, from) THEN Copy(ev, to, from) ELSE ev

\* if exists(from) { to = del(from) }
MoveIfExists(ev, to, from) == IF Has(ev, from) THEN Move(ev, to, from) ELSE ev

\* merge!(ev, object): a key of the object replaces the key of the event.
Merge(ev, object) ==
  Over(object, Restrict(ev, {q \in DOMAIN ev : \A s \in DOMAIN object : s[1] # q[1]}))

\* A script that fails leaves the event as it was, and Vector passes it on.
OnError(ev) == ev

===============================================================================
