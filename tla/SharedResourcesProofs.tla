------------------------- MODULE SharedResourcesProofs -------------------------
(***************************************************************************)
(* Safety of the two controllers that work on shared objects, for any       *)
(* forwarders, accounts, scenarios and number of disturbances: the exporter *)
(* is reported ready only for what is deployed, from AppliedStays, and the  *)
(* reconcile of a forwarder takes no access from another one, from          *)
(* RoleUnreferenced.                                                        *)
(***************************************************************************)
EXTENDS SharedResources, SequenceTheorems, TLAPS

Steps == {"idle", "cleanup", "sccRead", "sccWrite", "account", "token", "metadata", "role", "binding", "recreate",
          "list", "oldRole", "metrics", "objects", "policy", "monitors", "daemonset", "status"}

Fields == {"pc", "name", "sa", "uid", "token", "tokenOf", "seen", "instance", "error"}

Task(w) == w = [x \in Fields |-> w[x]] /\ w.pc \in Steps

Tasks == work = [r \in Controllers |-> work[r]] /\ \A r \in Controllers : Task(work[r])

InstanceFields == {"uid", "policy", "pod", "version", "valid", "ready"}

Instance(i) == i = [x \in InstanceFields |-> i[x]] /\ i.uid \in Nat

\* At most one instance.
One(instances) == (\A i \in instances : Instance(i)) /\ \A i, j \in instances : i = j

\* The exporter's task, from the reading of the instance on.
Knows(w) ==
  /\ w.error \in BOOLEAN
  /\ One(w.instance)
  /\ w.pc # "idle" => w.instance # {}
  /\ w.pc \notin {"idle", "status"} => w.name = Exporter

\* What the exporter's controller depends on.
ExporterState == <<lfme, cached, exported, uids, work["lfme"]>>

ExporterPart ==
  /\ uids \in Nat
  /\ One(lfme) /\ One(cached) /\ Knows(work["lfme"])
  /\ exported = [k \in DOMAIN exported |-> exported[k]] /\ DOMAIN exported \subseteq ExporterKinds
  /\ AppliedStays

ForwarderFields == {"uid", "sa", "token", "deleting"}

Forwarder(o) == o = [x \in ForwarderFields |-> o[x]] /\ o.sa \in Accounts

\* A forwarder's task.
Serves(w) ==
  /\ w.pc # "idle" => w.name \in Forwarders
  /\ w.pc \notin {"idle", "cleanup"} => w.sa \in Accounts

ForwarderPart ==
  /\ clf = [f \in Forwarders |-> clf[f]] /\ \A f \in Forwarders : \A o \in clf[f] : Forwarder(o)
  /\ Serves(work["clf"])
  /\ RoleUnreferenced

IInv == Tasks /\ ExporterPart /\ ForwarderPart

-----------------------------------------------------------------------------
(* Names *)

\* Names that end alike differ in what is before.
LEMMA SuffixCancels ==
  ASSUME NEW f \in Forwarders \cup {Exporter}, NEW g \in Forwarders \cup {Exporter},
         NEW a, NEW b, f \o <<a, b>> = g \o <<a, b>>
  PROVE  f = g
<1> DEFINE S == {f[k] : k \in DOMAIN f} \cup {g[k] : k \in DOMAIN g} \cup {a, b}
<1>1. f \in Seq(S) /\ g \in Seq(S)
  <2>1. f \in Seq({f[k] : k \in DOMAIN f}) /\ g \in Seq({g[k] : k \in DOMAIN g})
    BY NamesAssumption
  <2>2. {f[k] : k \in DOMAIN f} \subseteq S /\ {g[k] : k \in DOMAIN g} \subseteq S
    OBVIOUS
  <2> QED
    BY <2>1, <2>2, SeqMonotonic
<1>2. <<a, b>> \in Seq(S)
  OBVIOUS
<1> QED
  BY <1>1, <1>2, ConcatSimplifications

LEMMA MetricsNamesDiffer ==
  ASSUME NEW f \in Forwarders \cup {Exporter}, NEW g \in Forwarders \cup {Exporter}, f # g, NEW sa, NEW other
  PROVE  NewMetricsAuthClusterRoleBinding(f, sa).name # NewMetricsAuthClusterRoleBinding(g, other).name
<1> DEFINE S == {f[k] : k \in DOMAIN f} \cup {g[k] : k \in DOMAIN g}
                  \cup {"cluster-logging", "-", "metrics-auth"}
           head == <<"cluster-logging", "-">>
           tail == <<"-", "metrics-auth">>
<1>1. f \in Seq(S) /\ g \in Seq(S)
  <2>1. f \in Seq({f[k] : k \in DOMAIN f}) /\ g \in Seq({g[k] : k \in DOMAIN g})
    BY NamesAssumption
  <2>2. {f[k] : k \in DOMAIN f} \subseteq S /\ {g[k] : k \in DOMAIN g} \subseteq S
    OBVIOUS
  <2> QED
    BY <2>1, <2>2, SeqMonotonic
<1>2. head \in Seq(S) /\ tail \in Seq(S)
  OBVIOUS
<1>3. head \o f \in Seq(S) /\ head \o g \in Seq(S)
  BY <1>1, <1>2, ConcatProperties
<1>4. SUFFICES ASSUME (head \o f) \o tail = (head \o g) \o tail
               PROVE  FALSE
  BY DEF NewMetricsAuthClusterRoleBinding
<1> HIDE DEF S, head, tail
<1>5. head \o f = head \o g
  BY <1>2, <1>3, <1>4, ConcatSimplifications
<1> QED
  BY <1>1, <1>2, <1>5, ConcatSimplifications

\* The two kinds of ClusterRoleBindings have different names.
LEMMA MetadataNamesDiffer ==
  ASSUME NEW f \in Forwarders, NEW sa, NEW other \in Accounts \cup {Exporter}
  PROVE  NewMetricsAuthClusterRoleBinding(f, sa).name # NewMetaDataReaderClusterRoleBinding(other).name
<1> DEFINE S == {f[k] : k \in DOMAIN f} \cup {other[k] : k \in DOMAIN other}
                  \cup {"cluster-logging", "metadata-reader", "-", "metrics-auth"}
           cluster == <<"cluster-logging", "-">>
           tail == <<"-", "metrics-auth">>
           reader == <<"metadata-reader", "-">>
<1>1. f \in Seq(S) /\ other \in Seq(S)
  <2>1. f \in Seq({f[k] : k \in DOMAIN f}) /\ other \in Seq({other[k] : k \in DOMAIN other})
    BY NamesAssumption
  <2>2. {f[k] : k \in DOMAIN f} \subseteq S /\ {other[k] : k \in DOMAIN other} \subseteq S
    OBVIOUS
  <2> QED
    BY <2>1, <2>2, SeqMonotonic
<1>2. cluster \in Seq(S) /\ tail \in Seq(S) /\ reader \in Seq(S)
  OBVIOUS
<1>3. Len(cluster) = 2 /\ Len(reader) = 2 /\ cluster[1] = "cluster-logging" /\ reader[1] = "metadata-reader"
  OBVIOUS
<1> HIDE DEF S, cluster, tail, reader
<1>0. Len(f) \in Nat /\ Len(other) \in Nat /\ Len(tail) \in Nat
  BY <1>1, <1>2, LenProperties
<1>4. (cluster \o f)[1] = cluster[1] /\ Len(cluster \o f) = 2 + Len(f) /\ cluster \o f \in Seq(S)
  <2>0. Len(cluster \o f) = Len(cluster) + Len(f) /\ cluster \o f \in Seq(S)
    BY <1>1, <1>2, ConcatProperties
  <2>1. Len(cluster \o f) = 2 + Len(f) /\ cluster \o f \in Seq(S)
    BY <1>3, <2>0
  <2>2. 1 \in 1..Len(cluster) + Len(f)
    BY <1>0, <1>3
  <2>3. (cluster \o f)[1] = cluster[1]
    BY <1>1, <1>2, <1>3, <2>2, ConcatProperties
  <2> QED
    BY <2>1, <2>3
<1>5. ((cluster \o f) \o tail)[1] = cluster[1]
  BY <1>0, <1>2, <1>4, ConcatProperties
<1>6. (reader \o other)[1] = reader[1]
  BY <1>0, <1>1, <1>2, <1>3, ConcatProperties
<1>7. (cluster \o f) \o tail # reader \o other
  BY <1>3, <1>5, <1>6
<1> QED
  BY <1>7 DEF NewMetricsAuthClusterRoleBinding, NewMetaDataReaderClusterRoleBinding, cluster, tail, reader

-----------------------------------------------------------------------------
(* The parts of the invariant *)

LEMMA TaskReplaced ==
  ASSUME Tasks, NEW r \in Controllers, NEW t, Task(t), work' = [work EXCEPT ![r] = t]
  PROVE  /\ Tasks' /\ work'[r] = t
         /\ \A c \in Controllers \ {r} : work'[c] = work[c]
BY DEF Tasks, Controllers, Task

\* A controller goes on with its task at another step.
Moved(r, q) ==
  /\ Tasks' /\ work'[r].pc = q
  /\ work'[r].name = work[r].name /\ work'[r].sa = work[r].sa
  /\ work'[r].instance = work[r].instance /\ work'[r].error = work[r].error
  /\ \A c \in Controllers \ {r} : work'[c] = work[c]

LEMMA TaskMoved ==
  ASSUME Tasks, NEW r \in Controllers, NEW q \in Steps, To(r, q)
  PROVE  Moved(r, q)
<1> DEFINE t == [work[r] EXCEPT !.pc = q]
<1>1. work' = [work EXCEPT ![r] = t]
  BY DEF To, Tasks
<1>2. Task(work[r])
  BY DEF Tasks
<1>3. Task(t) /\ t.pc = q /\ t.name = work[r].name /\ t.sa = work[r].sa
      /\ t.instance = work[r].instance /\ t.error = work[r].error
  BY <1>2 DEF Task, Fields
<1> HIDE DEF t
<1>4. Tasks' /\ work'[r] = t /\ \A c \in Controllers \ {r} : work'[c] = work[c]
  BY <1>1, <1>3, TaskReplaced
<1> QED
  BY <1>3, <1>4 DEF Moved

\* It goes on with what it has just read.
LEMMA SeenMoved ==
  ASSUME Tasks, NEW r \in Controllers, NEW q \in Steps, NEW v, work' = [work EXCEPT ![r].pc = q, ![r].seen = v]
  PROVE  Moved(r, q) /\ work'[r].seen = v
<1> DEFINE t == [work[r] EXCEPT !.pc = q, !.seen = v]
<1>1. work' = [work EXCEPT ![r] = t]
  BY DEF Tasks
<1>2. Task(work[r])
  BY DEF Tasks
<1>3. Task(t) /\ t.pc = q /\ t.name = work[r].name /\ t.sa = work[r].sa
      /\ t.instance = work[r].instance /\ t.error = work[r].error /\ t.seen = v
  BY <1>2 DEF Task, Fields
<1> HIDE DEF t
<1>4. Tasks' /\ work'[r] = t /\ \A c \in Controllers \ {r} : work'[c] = work[c]
  BY <1>1, <1>3, TaskReplaced
<1> QED
  BY <1>3, <1>4 DEF Moved

LEMMA ConstraintsMoved ==
  ASSUME Tasks, NEW r \in Controllers, SecurityContextConstraintsRead(r)
  PROVE  Moved(r, "account") \/ Moved(r, "sccWrite")
<1>1. CASE To(r, "account")
  BY <1>1, TaskMoved DEF Steps
<1>2. CASE work' = [work EXCEPT ![r].pc = "sccWrite", ![r].seen = scc]
  BY <1>2, SeenMoved DEF Steps
<1> QED
  BY <1>1, <1>2 DEF SecurityContextConstraintsRead, To

\* The role of the previous naming scheme is about to be deleted only if no binding
\* in the cache refers to it.
LEMMA ListMoved ==
  ASSUME Tasks, NEW r \in Controllers, ListRoleBindings(r)
  PROVE  \/ Moved(r, "metrics")
         \/ /\ Moved(r, "oldRole") /\ work'[r].seen = bound
            /\ \A n \in DOMAIN bound : bound[n].role # oldRoleName(work[r].sa)
<1> DEFINE unreferenced == \A n \in DOMAIN bound : bound[n].role # oldRoleName(work[r].sa)
<1>1. CASE To(r, "metrics")
  BY <1>1, TaskMoved DEF Steps
<1>2. CASE work' = [work EXCEPT ![r].pc = "oldRole", ![r].seen = bound] /\ unreferenced
  <2> HIDE DEF unreferenced
  <2>1. Moved(r, "oldRole") /\ work'[r].seen = bound
    BY <1>2, SeenMoved DEF Steps
  <2> QED
    BY <1>2, <2>1 DEF unreferenced
<1>3. To(r, "metrics") \/ (work' = [work EXCEPT ![r].pc = "oldRole", ![r].seen = bound] /\ unreferenced)
  BY Zenon DEF ListRoleBindings
<1> QED
  BY <1>1, <1>2, <1>3

LEMMA DeletionMoved ==
  ASSUME Tasks, NEW r \in Controllers, DeleteRole(r)
  PROVE  Moved(r, "metrics")
BY SeenMoved DEF DeleteRole, Steps

\* The binding is there, about to be created again, or the reconcile fails.
LEMMA BindingMoved ==
  ASSUME Tasks, NEW r \in Controllers, RoleBinding(r) \/ RecreateRoleBinding(r)
  PROVE  Moved(r, "list") \/ Moved(r, "recreate") \/ Failed(r)
BY TaskMoved DEF RoleBinding, RecreateRoleBinding, Steps

LEMMA TokenMoved ==
  ASSUME Tasks, NEW r \in Controllers, ReconcileServiceAccountTokenSecret(r)
  PROVE  Moved(r, "metadata")
<1>1. PICK v : work' = [work EXCEPT ![r].pc = "metadata", ![r].tokenOf = v]
  BY DEF ReconcileServiceAccountTokenSecret
<1> DEFINE t == [work[r] EXCEPT !.pc = "metadata", !.tokenOf = v]
<1>2. work' = [work EXCEPT ![r] = t]
  BY <1>1 DEF Tasks
<1>3. Task(work[r])
  BY DEF Tasks
<1>4. Task(t) /\ t.pc = "metadata" /\ t.name = work[r].name /\ t.sa = work[r].sa
      /\ t.instance = work[r].instance /\ t.error = work[r].error
  BY <1>3 DEF Task, Fields, Steps
<1> HIDE DEF t
<1>5. Tasks' /\ work'[r] = t /\ \A c \in Controllers \ {r} : work'[c] = work[c]
  BY <1>2, <1>4, TaskReplaced
<1> QED
  BY <1>4, <1>5 DEF Moved

LEMMA IdleIsTask == Task(Idle) /\ Serves(Idle) /\ Knows(Idle)
BY DEF Task, Idle, Serves, Knows, Steps, One, Fields

LEMMA ExporterUntouched ==
  ASSUME ExporterPart, UNCHANGED ExporterState
  PROVE  ExporterPart'
BY DEF ExporterPart, ExporterState, AppliedStays, Live

LEMMA ForwardersUntouched ==
  ASSUME ForwarderPart, UNCHANGED <<clf, work["clf"]>>
  PROVE  ForwarderPart'
<1>1. RoleUnreferenced'
  BY DEF ForwarderPart, RoleUnreferenced, oldRoleName
<1> QED
  BY <1>1 DEF ForwarderPart

\* The exporter's task goes on, with nothing applied that was not.
LEMMA ExporterAdvances ==
  ASSUME ExporterPart, UNCHANGED <<lfme, cached, exported, uids>>,
         NEW q \in Steps \ {"idle"}, work["lfme"].pc \notin {"idle", "status"}, work'["lfme"].pc = q,
         work'["lfme"].name = work["lfme"].name, work'["lfme"].instance = work["lfme"].instance,
         work'["lfme"].error = work["lfme"].error, Applied(q) \subseteq Applied(work["lfme"].pc)
  PROVE  ExporterPart'
<1>1. Knows(work["lfme"])'
  BY DEF ExporterPart, Knows
<1>2. AppliedStays'
  BY DEF ExporterPart, AppliedStays
<1> QED
  BY <1>1, <1>2 DEF ExporterPart

\* It ends, or reports an error, after which nothing is claimed.
LEMMA ExporterEnds ==
  ASSUME ExporterPart, UNCHANGED <<cached, exported, uids>>, One(lfme)',
         \A j \in lfme' : \E i \in lfme : j.uid = i.uid, work'["lfme"] = Idle
  PROVE  ExporterPart'
<1>1. AppliedStays'
  BY DEF ExporterPart, AppliedStays, Idle
<1> QED
  BY <1>1, IdleIsTask DEF ExporterPart

LEMMA ExporterFails ==
  ASSUME ExporterPart, UNCHANGED <<lfme, cached, exported, uids>>, work["lfme"].pc # "idle",
         work'["lfme"].pc = "status", work'["lfme"].error = TRUE,
         work'["lfme"].instance = work["lfme"].instance
  PROVE  ExporterPart'
<1>1. Knows(work["lfme"])'
  BY DEF ExporterPart, Knows
<1>2. AppliedStays'
  BY DEF ExporterPart, AppliedStays
<1> QED
  BY <1>1, <1>2 DEF ExporterPart

LEMMA TheOne ==
  ASSUME NEW S, One(S), NEW i \in S
  PROVE  The(S) = i
BY DEF One, The

\* One more object is applied.
LEMMA ExporterApplies ==
  ASSUME ExporterPart, UNCHANGED <<lfme, cached, uids>>,
         NEW q \in Steps \ {"idle"}, work["lfme"].pc \notin {"idle", "status"}, work'["lfme"].pc = q,
         work'["lfme"].name = work["lfme"].name, work'["lfme"].instance = work["lfme"].instance,
         work'["lfme"].error = work["lfme"].error,
         NEW k \in ExporterKinds, Applied(q) \subseteq Applied(work["lfme"].pc) \cup {k},
         LET i == The(work["lfme"].instance)
         IN  IF k = "NetworkPolicy" /\ i.policy = {} THEN exported' = Drop(exported, k)
             ELSE exported' = Put(exported, k, NewExporterObject(k, i))
  PROVE  ExporterPart'
<1>1. Knows(work["lfme"])'
  BY DEF ExporterPart, Knows
<1>2. exported' = [x \in DOMAIN exported' |-> exported'[x]] /\ DOMAIN exported' \subseteq ExporterKinds
  BY DEF ExporterPart, Put, Drop
<1>3. AppliedStays'
  <2>1. SUFFICES ASSUME NEW i \in work["lfme"].instance, NEW j \in lfme, i.uid = j.uid, ~work["lfme"].error,
                        NEW x \in Applied(q)
                 PROVE  IF x = "NetworkPolicy" /\ i.policy = {} THEN x \notin DOMAIN exported'
                        ELSE x \in DOMAIN exported' /\ exported'[x] = NewExporterObject(x, i)
    BY DEF ExporterPart, AppliedStays, NewExporterObject
  <2>2. The(work["lfme"].instance) = i
    BY TheOne DEF ExporterPart, Knows
  <2>3. CASE x = k
    BY <2>2, <2>3 DEF Put, Drop
  <2>4. CASE x # k
    <3>1. x \in Applied(work["lfme"].pc)
      BY <2>4
    <3>2. IF x = "NetworkPolicy" /\ i.policy = {} THEN x \notin DOMAIN exported
          ELSE x \in DOMAIN exported /\ exported[x] = NewExporterObject(x, i)
      BY <2>1, <3>1 DEF ExporterPart, AppliedStays
    <3>3. (x \in DOMAIN exported' <=> x \in DOMAIN exported) /\ (x \in DOMAIN exported => exported'[x] = exported[x])
      BY <2>4 DEF Put, Drop
    <3> QED
      BY <3>2, <3>3
  <2> QED
    BY <2>3, <2>4
<1> QED
  BY <1>1, <1>2, <1>3 DEF ExporterPart

\* The garbage collector takes no object of the instance that is there.
LEMMA ExporterCollected ==
  ASSUME ExporterPart, UNCHANGED <<lfme, cached, uids, work>>, NEW k \in DOMAIN exported,
         exported[k].owner \notin Live, exported' = Drop(exported, k)
  PROVE  ExporterPart'
<1>1. exported' = [x \in DOMAIN exported' |-> exported'[x]] /\ DOMAIN exported' \subseteq ExporterKinds
  BY DEF ExporterPart, Drop
<1>2. AppliedStays'
  <2>1. SUFFICES ASSUME NEW i \in work["lfme"].instance, NEW j \in lfme, i.uid = j.uid, ~work["lfme"].error,
                        NEW x \in Applied(work["lfme"].pc)
                 PROVE  IF x = "NetworkPolicy" /\ i.policy = {} THEN x \notin DOMAIN exported'
                        ELSE x \in DOMAIN exported' /\ exported'[x] = NewExporterObject(x, i)
    BY DEF ExporterPart, AppliedStays, NewExporterObject
  <2>2. IF x = "NetworkPolicy" /\ i.policy = {} THEN x \notin DOMAIN exported
        ELSE x \in DOMAIN exported /\ exported[x] = NewExporterObject(x, i)
    BY <2>1 DEF ExporterPart, AppliedStays
  <2>3. x \in ExporterKinds
    BY DEF Applied, ExporterKinds
  <2>4. NewExporterObject(x, i).owner = i.uid
    BY <2>3 DEF NewExporterObject, ExporterKinds, NewServiceAccount, NewService, newServiceMonitor,
                NewNetworkPolicy, NewDaemonSet
  <2>5. i.uid \in Live
    BY <2>1 DEF Live
  <2> QED
    BY <2>2, <2>4, <2>5 DEF Drop
<1> QED
  BY <1>1, <1>2 DEF ExporterPart

-----------------------------------------------------------------------------
(* Steps of the exporter's controller *)

\* A step of the exporter's that moves its task and touches no forwarder's binding.
LEMMA ExporterMoves ==
  ASSUME IInv, UNCHANGED <<clf, lfme, cached, exported, uids>>,
         NEW q \in Steps \ {"idle"}, work["lfme"].pc \notin {"idle", "status"}, Moved("lfme", q),
         Applied(q) \subseteq Applied(work["lfme"].pc)
  PROVE  IInv'
<1>1. /\ Tasks' /\ work'["lfme"].pc = q /\ work'["lfme"].name = work["lfme"].name
      /\ work'["lfme"].instance = work["lfme"].instance /\ work'["lfme"].error = work["lfme"].error
      /\ work'["clf"] = work["clf"]
  BY DEF Moved, Controllers
<1>2. ExporterPart'
  BY <1>1, ExporterAdvances DEF IInv
<1>3. ForwarderPart'
  BY <1>1, ForwardersUntouched DEF IInv
<1> QED
  BY <1>1, <1>2, <1>3 DEF IInv

LEMMA ExporterFailing ==
  ASSUME IInv, UNCHANGED <<clf, lfme, cached, exported, uids>>,
         work["lfme"].pc # "idle", Failed("lfme")
  PROVE  IInv'
<1> DEFINE t == [work["lfme"] EXCEPT !.pc = "status", !.error = TRUE]
<1>1. Task(work["lfme"]) /\ work' = [work EXCEPT !["lfme"] = t]
  BY DEF Failed, IInv, Tasks, Controllers
<1>2. Task(t) /\ t.pc = "status" /\ t.error = TRUE /\ t.instance = work["lfme"].instance
  BY <1>1 DEF Task, Steps, Fields
<1> HIDE DEF t
<1>3. Tasks' /\ work'["lfme"] = t /\ work'["clf"] = work["clf"]
  BY <1>1, <1>2, TaskReplaced DEF IInv, Controllers
<1>4. ExporterPart'
  BY <1>2, <1>3, ExporterFails DEF IInv
<1>5. ForwarderPart'
  BY <1>3, ForwardersUntouched DEF IInv
<1> QED
  BY <1>3, <1>4, <1>5 DEF IInv

\* A step that applies one object.
LEMMA ExporterApplying ==
  ASSUME IInv, UNCHANGED <<clf, lfme, cached, uids>>,
         NEW q \in Steps \ {"idle"}, work["lfme"].pc \notin {"idle", "status"}, Moved("lfme", q),
         NEW k \in ExporterKinds, Applied(q) \subseteq Applied(work["lfme"].pc) \cup {k},
         LET i == The(work["lfme"].instance)
         IN  IF k = "NetworkPolicy" /\ i.policy = {} THEN exported' = Drop(exported, k)
             ELSE exported' = Put(exported, k, NewExporterObject(k, i))
  PROVE  IInv'
<1>1. /\ Tasks' /\ work'["lfme"].pc = q /\ work'["lfme"].name = work["lfme"].name
      /\ work'["lfme"].instance = work["lfme"].instance /\ work'["lfme"].error = work["lfme"].error
      /\ work'["clf"] = work["clf"]
  BY DEF Moved, Controllers
<1>2. ExporterPart'
  BY <1>1, ExporterApplies DEF IInv
<1>3. ForwarderPart'
  BY <1>1, ForwardersUntouched DEF IInv
<1> QED
  BY <1>1, <1>2, <1>3 DEF IInv

LEMMA FetchExporterKeeps ==
  ASSUME IInv, FetchLogFileMetricExporter
  PROVE  IInv'
<1>1. PICK i \in cached :
        IF i.valid THEN Begin("lfme", Exporter, Exporter, i.uid, TRUE, {i})
        ELSE work' = [work EXCEPT !["lfme"] = [Idle EXCEPT !.pc = "status", !.error = TRUE, !.instance = {i}]]
  BY DEF FetchLogFileMetricExporter
<1>2. UNCHANGED <<clf, lfme, cached, bindings, exported, uids>>
  BY DEF FetchLogFileMetricExporter, access
<1>3. One({i})
  BY DEF IInv, ExporterPart, One
<1>4. \E t : /\ work' = [work EXCEPT !["lfme"] = t] /\ Task(t) /\ Knows(t) /\ t.instance = {i}
             /\ t.error \/ Applied(t.pc) = {}
  <2> DEFINE b == [Idle EXCEPT !.pc = "sccRead", !.name = Exporter, !.sa = Exporter, !.uid = i.uid, !.token = TRUE,
                               !.instance = {i}]
             e == [Idle EXCEPT !.pc = "status", !.error = TRUE, !.instance = {i}]
  <2>1. Task(b) /\ b.instance = {i} /\ b.pc = "sccRead" /\ b.name = Exporter /\ b.error = FALSE
    <3>1. Task(Idle) /\ Idle.error = FALSE
      BY IdleIsTask DEF Idle
    <3> QED
      BY <3>1 DEF Task, Fields, Steps
  <2>2. Task(e) /\ e.instance = {i} /\ e.pc = "status" /\ e.error = TRUE
    BY IdleIsTask DEF Task, Fields, Steps
  <2>3. Applied("sccRead") = {}
    BY DEF Applied
  <2>4. work' = [work EXCEPT !["lfme"] = b] \/ work' = [work EXCEPT !["lfme"] = e]
    BY <1>1 DEF Begin
  <2> HIDE DEF b, e
  <2>5. Knows(b) /\ Knows(e)
    BY <1>3, <2>1, <2>2 DEF Knows
  <2> QED
    BY <2>1, <2>2, <2>3, <2>4, <2>5
<1>5. PICK t : /\ work' = [work EXCEPT !["lfme"] = t] /\ Task(t) /\ Knows(t) /\ t.instance = {i}
               /\ t.error \/ Applied(t.pc) = {}
  BY <1>4
<1>6. Tasks' /\ work'["lfme"] = t /\ work'["clf"] = work["clf"]
  BY <1>5, TaskReplaced DEF IInv, Controllers
<1>7. AppliedStays'
  BY <1>2, <1>5, <1>6 DEF IInv, ExporterPart, AppliedStays
<1>8. ExporterPart'
  BY <1>2, <1>5, <1>6, <1>7 DEF IInv, ExporterPart
<1>9. ForwarderPart'
  BY <1>2, <1>6, ForwardersUntouched DEF IInv
<1> QED
  BY <1>6, <1>8, <1>9 DEF IInv

LEMMA UpdateStatusKeeps ==
  ASSUME IInv, updateStatus
  PROVE  IInv'
<1>1. UNCHANGED <<clf, cached, bindings, exported, uids>> /\ work' = [work EXCEPT !["lfme"] = Idle]
  BY DEF updateStatus, access
<1>2. Tasks' /\ work'["lfme"] = Idle /\ work'["clf"] = work["clf"]
  BY <1>1, IdleIsTask, TaskReplaced DEF IInv, Controllers
<1>3. One(lfme)' /\ \A j \in lfme' : \E i \in lfme : j.uid = i.uid
  <2>1. One(lfme)
    BY DEF IInv, ExporterPart
  <2>2. CASE lfme' = lfme
    BY <2>1, <2>2 DEF One
  <2>3. CASE lfme' = {[i EXCEPT !.ready = IF work["lfme"].error THEN "False" ELSE "True"] : i \in lfme}
    <3>1. \A i \in lfme : LET j == [i EXCEPT !.ready = IF work["lfme"].error THEN "False" ELSE "True"]
                           IN  Instance(j) /\ j.uid = i.uid
      BY <2>1 DEF One, Instance, InstanceFields
    <3>2. \A j \in lfme' : Instance(j) /\ \E i \in lfme : j.uid = i.uid
      BY <2>3, <3>1
    <3>3. \A j, k \in lfme' : j = k
      BY <2>1, <2>3 DEF One
    <3> QED
      BY <3>2, <3>3 DEF One
  <2> QED
    BY <2>2, <2>3 DEF updateStatus
<1>4. ExporterPart'
  BY <1>1, <1>2, <1>3, ExporterEnds DEF IInv
<1>5. ForwarderPart'
  BY <1>1, <1>2, ForwardersUntouched DEF IInv
<1> QED
  BY <1>2, <1>4, <1>5 DEF IInv

LEMMA CommonExporterKeeps ==
  ASSUME IInv, Common("lfme")
  PROVE  IInv'
<1> DEFINE w == work["lfme"]
<1>0. Tasks /\ "lfme" \in Controllers
  BY DEF IInv, Controllers
<1>1. CASE SecurityContextConstraintsRead("lfme")
  <2>1. UNCHANGED <<clf, lfme, cached, exported, uids, bindings>> /\ w.pc = "sccRead"
    BY <1>1 DEF SecurityContextConstraintsRead, At, access
  <2>2. Applied("account") \subseteq Applied(w.pc) /\ Applied("sccWrite") \subseteq Applied(w.pc)
    BY <2>1 DEF Applied
  <2>3. Moved("lfme", "account") \/ Moved("lfme", "sccWrite")
    BY <1>0, <1>1, ConstraintsMoved
  <2> QED
    BY <2>1, <2>2, <2>3, ExporterMoves DEF Steps
<1>2. CASE SecurityContextConstraints("lfme")
  <2>1. UNCHANGED <<clf, lfme, cached, exported, uids, bindings>> /\ w.pc = "sccWrite"
    BY <1>2 DEF SecurityContextConstraints, At
  <2>2. CASE Failed("lfme")
    BY <2>1, <2>2, ExporterFailing
  <2>3. ASSUME NEW q \in {"account", "sccRead"}, To("lfme", q)
        PROVE  IInv'
    <3>1. Moved("lfme", q)
      BY <1>0, <2>3, TaskMoved DEF Steps
    <3>2. Applied(q) \subseteq Applied(w.pc)
      BY <2>1 DEF Applied
    <3> QED
      BY <2>1, <3>1, <3>2, ExporterMoves DEF Steps
  <2> QED
    BY <1>2, <2>2, <2>3 DEF SecurityContextConstraints
<1>3. CASE ReconcileServiceAccount("lfme")
  <2>1. UNCHANGED <<clf, lfme, cached, uids, bindings>> /\ w.pc = "account"
        /\ exported' = Put(exported, "ServiceAccount", NewExporterObject("ServiceAccount", The(w.instance)))
    BY <1>3 DEF ReconcileServiceAccount, At, access, NewExporterObject
  <2>2. Applied("token") \subseteq Applied(w.pc) \cup {"ServiceAccount"}
    BY DEF Applied
  <2>3. Moved("lfme", "token")
    BY <1>0, <1>3, TaskMoved DEF ReconcileServiceAccount, Steps
  <2> QED
    BY <2>1, <2>2, <2>3, ExporterApplying DEF Steps, ExporterKinds
<1>4. CASE ReconcileServiceAccountTokenSecret("lfme")
  <2>1. UNCHANGED <<clf, lfme, cached, exported, uids, bindings>> /\ w.pc = "token"
    BY <1>4 DEF ReconcileServiceAccountTokenSecret, At
  <2>2. Applied("metadata") \subseteq Applied(w.pc)
    BY <2>1 DEF Applied
  <2>3. Moved("lfme", "metadata")
    BY <1>0, <1>4, TokenMoved
  <2> QED
    BY <2>1, <2>2, <2>3, ExporterMoves DEF Steps
<1>5. CASE ReconcileMetaDataReader("lfme") \/ Role("lfme") \/ ReconcileMetricsAuthRBAC("lfme")
  <2>1. UNCHANGED <<clf, lfme, cached, exported, uids>>
        /\ w.pc \in {"metadata", "role", "metrics"}
        /\ \E q \in {"metadata", "role", "binding", "metrics", "objects"} : To("lfme", q)
    BY <1>5 DEF ReconcileMetaDataReader, Role, ReconcileMetricsAuthRBAC, At
  <2>2. PICK q \in {"metadata", "role", "binding", "metrics", "objects"} : To("lfme", q)
    BY <2>1
  <2>3. Moved("lfme", q)
    BY <1>0, <2>2, TaskMoved DEF Steps
  <2>4. Applied(q) \subseteq Applied(w.pc)
    BY <2>1 DEF Applied
  <2> QED
    BY <2>1, <2>3, <2>4, ExporterMoves DEF Steps
<1>6. CASE \/ RoleBinding("lfme") \/ RecreateRoleBinding("lfme") \/ ListRoleBindings("lfme") \/ DeleteRole("lfme")
  <2>1. UNCHANGED <<clf, lfme, cached, exported, uids>> /\ w.pc \in {"binding", "recreate", "list", "oldRole"}
    BY <1>6 DEF RoleBinding, RecreateRoleBinding, ListRoleBindings, DeleteRole, At
  <2>2. Failed("lfme") \/ \E q \in {"list", "recreate", "oldRole", "metrics"} : Moved("lfme", q)
    BY <1>0, <1>6, BindingMoved, ListMoved, DeletionMoved
  <2>3. \A q \in {"list", "recreate", "oldRole", "metrics"} : Applied(q) \subseteq Applied(w.pc)
    BY <2>1 DEF Applied
  <2> QED
    BY <2>1, <2>2, <2>3, ExporterMoves, ExporterFailing DEF Steps
<1> QED
  BY <1>1, <1>2, <1>3, <1>4, <1>5, <1>6 DEF Common

\* The objects that are the same for every instance, and the workload.
LEMMA ExporterStepKeeps ==
  ASSUME IInv, NEW k \in ExporterKinds \ {"NetworkPolicy"}, NEW from \in Steps \ {"idle", "status"},
         NEW to \in Steps \ {"idle"}, ExporterStep(k, from, to), Applied(to) \subseteq Applied(from) \cup {k}
  PROVE  IInv'
<1>1. UNCHANGED <<clf, lfme, cached, uids, bindings>> /\ work["lfme"].pc = from
      /\ exported' = Put(exported, k, NewExporterObject(k, The(work["lfme"].instance)))
  BY DEF ExporterStep, Apply, At, access
<1>2. Moved("lfme", to)
  BY TaskMoved DEF ExporterStep, IInv, Controllers
<1> QED
  BY <1>1, <1>2, ExporterApplying

LEMMA ExporterKeeps ==
  ASSUME IInv, ReconcileExporter
  PROVE  IInv'
<1>1. CASE ReconcileService
  BY <1>1, ExporterStepKeeps DEF ReconcileService, ExporterKinds, Steps, Applied
<1>2. CASE ReconcileServiceMonitors
  BY <1>2, ExporterStepKeeps DEF ReconcileServiceMonitors, ExporterKinds, Steps, Applied
<1>3. CASE ReconcileDaemonset
  BY <1>3, ExporterStepKeeps DEF ReconcileDaemonset, ExporterKinds, Steps, Applied
<1>4. CASE ReconcileNetworkPolicy
  <2> DEFINE i == The(work["lfme"].instance)
  <2>1. UNCHANGED <<clf, lfme, cached, uids, bindings>> /\ work["lfme"].pc = "policy"
        /\ IF i.policy = {} THEN exported' = Drop(exported, "NetworkPolicy")
           ELSE exported' = Put(exported, "NetworkPolicy", NewExporterObject("NetworkPolicy", i))
    BY <1>4 DEF ReconcileNetworkPolicy, Apply, At, access
  <2>2. Moved("lfme", "monitors")
    BY <1>4, TaskMoved DEF ReconcileNetworkPolicy, IInv, Controllers, Steps
  <2>3. Applied("monitors") \subseteq Applied("policy") \cup {"NetworkPolicy"}
    BY DEF Applied
  <2> QED
    BY <2>1, <2>2, <2>3, ExporterApplying DEF Steps, ExporterKinds
<1> QED
  BY <1>1, <1>2, <1>3, <1>4, FetchExporterKeeps, CommonExporterKeeps, UpdateStatusKeeps DEF ReconcileExporter

-----------------------------------------------------------------------------
(* Steps of the forwarders' controller *)

\* What a step of the forwarders' leaves alone.
LEMMA ForwarderFrame ==
  ASSUME ReconcileForwarder
  PROVE  UNCHANGED <<clf, lfme, cached, exported, uids>>
<1>1. CASE FetchClusterLogForwarder \/ cleanupClusterScopedResources \/ ReconcileWorkload
  BY <1>1 DEF FetchClusterLogForwarder, cleanupClusterScopedResources, ReconcileWorkload
<1>2. CASE Common("clf")
  BY <1>2 DEF Common, SecurityContextConstraintsRead, SecurityContextConstraints, ReconcileServiceAccount,
              ReconcileServiceAccountTokenSecret, ReconcileMetaDataReader, Role, RoleBinding, RecreateRoleBinding,
              ListRoleBindings, DeleteRole, ReconcileMetricsAuthRBAC
<1> QED
  BY <1>1, <1>2 DEF ReconcileForwarder

\* A forwarder's task is replaced or moved.
LEMMA ForwarderTaskKeeps ==
  ASSUME IInv, UNCHANGED <<clf, lfme, cached, exported, uids>>, Tasks', work'["lfme"] = work["lfme"],
         Serves(work["clf"])', RoleUnreferenced'
  PROVE  IInv'
<1>1. ExporterPart'
  BY ExporterUntouched DEF IInv, ExporterState
<1> QED
  BY <1>1 DEF IInv, ForwarderPart

LEMMA ForwarderMoves ==
  ASSUME IInv, UNCHANGED <<clf, lfme, cached, exported, uids>>, NEW q \in Steps \ {"idle", "cleanup", "oldRole"},
         work["clf"].pc \notin {"idle", "cleanup"}, Moved("clf", q)
  PROVE  IInv'
<1>1. Tasks' /\ work'["lfme"] = work["lfme"] /\ work'["clf"].pc = q /\ work'["clf"].name = work["clf"].name
      /\ work'["clf"].sa = work["clf"].sa
  BY DEF Moved, Controllers
<1>2. Serves(work["clf"])'
  BY <1>1 DEF IInv, ForwarderPart, Serves
<1>3. RoleUnreferenced'
  BY <1>1 DEF RoleUnreferenced, At
<1> QED
  BY <1>1, <1>2, <1>3, ForwarderTaskKeeps

LEMMA ForwarderIdles ==
  ASSUME IInv, UNCHANGED <<clf, lfme, cached, exported, uids>>, work' = [work EXCEPT !["clf"] = Idle]
  PROVE  IInv'
<1>1. Tasks' /\ work'["lfme"] = work["lfme"] /\ work'["clf"] = Idle
  BY IdleIsTask, TaskReplaced DEF IInv, Controllers
<1>2. Serves(work["clf"])' /\ RoleUnreferenced'
  BY <1>1, IdleIsTask DEF RoleUnreferenced, At, Idle
<1> QED
  BY <1>1, <1>2, ForwarderTaskKeeps

LEMMA FetchForwarderKeeps ==
  ASSUME IInv, FetchClusterLogForwarder
  PROVE  IInv'
<1>0. PICK f \in Forwarders : \E o \in clf[f] :
        IF o.deleting THEN work' = [work EXCEPT !["clf"] = [Idle EXCEPT !.pc = "cleanup", !.name = f]]
        ELSE Begin("clf", f, o.sa, o.uid, o.token, {})
  BY DEF FetchClusterLogForwarder
<1>1. PICK o \in clf[f] :
        IF o.deleting THEN work' = [work EXCEPT !["clf"] = [Idle EXCEPT !.pc = "cleanup", !.name = f]]
        ELSE Begin("clf", f, o.sa, o.uid, o.token, {})
  BY <1>0
<1>2. o.sa \in Accounts
  BY DEF IInv, ForwarderPart, Forwarder
<1> DEFINE c == [Idle EXCEPT !.pc = "cleanup", !.name = f]
           b == [Idle EXCEPT !.pc = "sccRead", !.name = f, !.sa = o.sa, !.uid = o.uid, !.token = o.token,
                             !.instance = {}]
<1>3. Task(c) /\ c.pc = "cleanup" /\ c.name = f
  BY IdleIsTask DEF Task, Fields, Steps
<1>4. Task(b) /\ b.pc = "sccRead" /\ b.name = f /\ b.sa = o.sa
  BY IdleIsTask DEF Task, Fields, Steps
<1>5. work' = [work EXCEPT !["clf"] = c] \/ work' = [work EXCEPT !["clf"] = b]
  BY <1>1 DEF Begin
<1> HIDE DEF c, b
<1>6. Tasks' /\ work'["lfme"] = work["lfme"] /\ (work'["clf"] = c \/ work'["clf"] = b)
  BY <1>3, <1>4, <1>5, TaskReplaced DEF IInv, Controllers
<1>7. Serves(work["clf"])' /\ RoleUnreferenced'
  BY <1>2, <1>3, <1>4, <1>6 DEF Serves, RoleUnreferenced, At
<1> QED
  BY <1>6, <1>7, ForwarderTaskKeeps, ForwarderFrame DEF ReconcileForwarder

LEMMA CommonForwarderKeeps ==
  ASSUME IInv, Common("clf")
  PROVE  IInv'
<1> DEFINE w == work["clf"]
<1>0. Tasks /\ "clf" \in Controllers /\ UNCHANGED <<clf, lfme, cached, exported, uids>>
  BY ForwarderFrame DEF IInv, Controllers, ReconcileForwarder
<1>1. CASE SecurityContextConstraintsRead("clf")
  <2>1. Moved("clf", "account") \/ Moved("clf", "sccWrite")
    BY <1>0, <1>1, ConstraintsMoved
  <2>2. w.pc = "sccRead"
    BY <1>1 DEF SecurityContextConstraintsRead, At
  <2> QED
    BY <1>0, <2>1, <2>2, ForwarderMoves DEF Steps
<1>2. CASE SecurityContextConstraints("clf")
  <2>1. w.pc = "sccWrite"
    BY <1>2 DEF SecurityContextConstraints, At
  <2>2. CASE Failed("clf")
    BY <1>0, <2>2, ForwarderIdles DEF Failed
  <2>3. ASSUME NEW q \in {"account", "sccRead"}, To("clf", q)
        PROVE  IInv'
    <3>1. Moved("clf", q)
      BY <1>0, <2>3, TaskMoved DEF Steps
    <3> QED
      BY <1>0, <2>1, <3>1, ForwarderMoves DEF Steps
  <2> QED
    BY <1>2, <2>2, <2>3 DEF SecurityContextConstraints
<1>3. CASE ReconcileServiceAccountTokenSecret("clf")
  <2>1. w.pc = "token"
    BY <1>3 DEF ReconcileServiceAccountTokenSecret, At
  <2>2. Moved("clf", "metadata")
    BY <1>0, <1>3, TokenMoved
  <2> QED
    BY <1>0, <2>1, <2>2, ForwarderMoves DEF Steps
<1>4. CASE \/ ReconcileServiceAccount("clf") \/ ReconcileMetaDataReader("clf") \/ Role("clf")
           \/ ReconcileMetricsAuthRBAC("clf")
  <2>1. w.pc \in {"account", "metadata", "role", "metrics"}
        /\ \E q \in {"token", "metadata", "role", "binding", "metrics", "objects"} : To("clf", q)
    BY <1>4 DEF ReconcileServiceAccount, ReconcileMetaDataReader, Role, ReconcileMetricsAuthRBAC, At
  <2>2. PICK q \in {"token", "metadata", "role", "binding", "metrics", "objects"} : To("clf", q)
    BY <2>1
  <2>3. Moved("clf", q)
    BY <1>0, <2>2, TaskMoved DEF Steps
  <2> QED
    BY <1>0, <2>1, <2>3, ForwarderMoves DEF Steps
<1>5. CASE RoleBinding("clf") \/ RecreateRoleBinding("clf") \/ DeleteRole("clf")
  <2>1. w.pc \in {"binding", "recreate", "oldRole"}
    BY <1>5 DEF RoleBinding, RecreateRoleBinding, DeleteRole, At
  <2>2. Failed("clf") \/ \E q \in {"list", "recreate", "metrics"} : Moved("clf", q)
    BY <1>0, <1>5, BindingMoved, DeletionMoved
  <2>3. CASE Failed("clf")
    BY <1>0, <2>3, ForwarderIdles DEF Failed
  <2> QED
    BY <1>0, <2>1, <2>2, <2>3, ForwarderMoves DEF Steps
<1>6. CASE ListRoleBindings("clf")
  <2>1. w.pc = "list"
    BY <1>6 DEF ListRoleBindings, At
  <2>2. CASE Moved("clf", "metrics")
    BY <1>0, <2>1, <2>2, ForwarderMoves DEF Steps
  <2>3. CASE /\ Moved("clf", "oldRole") /\ work'["clf"].seen = bound
             /\ \A n \in DOMAIN bound : bound[n].role # oldRoleName(w.sa)
    <3>1. Tasks' /\ work'["lfme"] = work["lfme"] /\ work'["clf"].pc = "oldRole" /\ work'["clf"].name = w.name
          /\ work'["clf"].sa = w.sa
      BY <2>3 DEF Moved, Controllers
    <3>2. Serves(work["clf"])'
      BY <2>1, <3>1 DEF IInv, ForwarderPart, Serves
    <3>3. RoleUnreferenced'
      BY <2>3, <3>1 DEF RoleUnreferenced, oldRoleName
    <3> QED
      BY <1>0, <3>1, <3>2, <3>3, ForwarderTaskKeeps
  <2> QED
    BY <1>0, <1>6, <2>2, <2>3, ListMoved
<1> QED
  BY <1>1, <1>2, <1>3, <1>4, <1>5, <1>6 DEF Common

LEMMA ForwarderKeeps ==
  ASSUME IInv, ReconcileForwarder
  PROVE  IInv'
<1>1. CASE cleanupClusterScopedResources \/ ReconcileWorkload
  <2>1. work' = [work EXCEPT !["clf"] = Idle]
    BY <1>1 DEF cleanupClusterScopedResources, ReconcileWorkload
  <2> QED
    BY <2>1, ForwarderFrame, ForwarderIdles
<1> QED
  BY <1>1, FetchForwarderKeeps, CommonForwarderKeeps DEF ReconcileForwarder

-----------------------------------------------------------------------------
(* Users, caches and the garbage collector *)

\* Forwarders change, the tasks and bindings do not.
LEMMA ForwardersWritten ==
  ASSUME IInv, UNCHANGED <<lfme, cached, exported, work, bindings>>, uids' \in Nat, uids <= uids',
         NEW f \in Forwarders, NEW S, \A o \in S : Forwarder(o), clf' = [clf EXCEPT ![f] = S]
  PROVE  IInv'
<1>1. clf' = [g \in Forwarders |-> clf'[g]] /\ \A g \in Forwarders : \A o \in clf'[g] : Forwarder(o)
  BY DEF IInv, ForwarderPart
<1>2. AppliedStays'
  <2>1. \A n \in Nat : n <= uids => n <= uids'
    BY DEF IInv, ExporterPart
  <2>2. \A i \in cached \cup work["lfme"].instance \cup lfme : i.uid \in Nat
    BY DEF IInv, ExporterPart, Knows, One, Instance
  <2> QED
    BY <2>1, <2>2 DEF IInv, ExporterPart, AppliedStays
<1>3. ExporterPart'
  BY <1>2 DEF IInv, ExporterPart
<1>4. ForwarderPart'
  BY <1>1 DEF IInv, ForwarderPart, RoleUnreferenced, At, oldRoleName
<1> QED
  BY <1>3, <1>4 DEF IInv, Tasks

LEMMA UsersOfForwardersKeep ==
  ASSUME IInv, CreateForwarder \/ EditForwarder \/ DeleteForwarder \/ FinishDeletion
  PROVE  IInv'
<1>0. uids \in Nat /\ \A f \in Forwarders : \A o \in clf[f] : Forwarder(o)
  BY DEF IInv, ExporterPart, ForwarderPart
<1>1. CASE CreateForwarder
  <2>1. UNCHANGED <<lfme, cached, exported, work, bindings>> /\ uids' = uids + 1
    BY <1>1 DEF CreateForwarder, access
  <2>2. PICK f \in Forwarders, sa \in Accounts :
          clf' = [clf EXCEPT ![f] = {[uid |-> uids', sa |-> sa, token |-> TRUE, deleting |-> FALSE]}]
    BY <1>1 DEF CreateForwarder
  <2>3. Forwarder([uid |-> uids', sa |-> sa, token |-> TRUE, deleting |-> FALSE])
    BY DEF Forwarder, ForwarderFields
  <2>4. uids' \in Nat /\ uids <= uids'
    BY <1>0, <2>1
  <2> DEFINE S == {[uid |-> uids', sa |-> sa, token |-> TRUE, deleting |-> FALSE]}
  <2>5. clf' = [clf EXCEPT ![f] = S] /\ \A o \in S : Forwarder(o)
    BY <2>2, <2>3
  <2> HIDE DEF S
  <2> QED
    BY <2>1, <2>4, <2>5, ForwardersWritten
<1>2. CASE EditForwarder
  <2>1. UNCHANGED <<lfme, cached, exported, work, bindings, uids>>
    BY <1>2 DEF EditForwarder, access
  <2>2. PICK f \in Forwarders, sa \in Accounts : clf' = [clf EXCEPT ![f] = {[o EXCEPT !.sa = sa] : o \in clf[f]}]
    BY <1>2 DEF EditForwarder
  <2>3. \A o \in {[o EXCEPT !.sa = sa] : o \in clf[f]} : Forwarder(o)
    BY <1>0 DEF Forwarder, ForwarderFields
  <2> QED
    BY <1>0, <2>1, <2>2, <2>3, ForwardersWritten
<1>3. CASE DeleteForwarder
  <2>1. UNCHANGED <<lfme, cached, exported, work, bindings, uids>>
    BY <1>3 DEF DeleteForwarder, access
  <2>2. PICK f \in Forwarders : \/ clf' = [clf EXCEPT ![f] = {}]
                                \/ clf' = [clf EXCEPT ![f] = {[o EXCEPT !.deleting = TRUE] : o \in clf[f]}]
    BY <1>3 DEF DeleteForwarder
  <2>3. \A o \in {[o EXCEPT !.deleting = TRUE] : o \in clf[f]} : Forwarder(o)
    BY <1>0 DEF Forwarder, ForwarderFields
  <2> QED
    BY <1>0, <2>1, <2>2, <2>3, ForwardersWritten
<1>4. CASE FinishDeletion
  <2>1. UNCHANGED <<lfme, cached, exported, work, bindings, uids>>
    BY <1>4 DEF FinishDeletion, access
  <2>2. PICK f \in Forwarders : clf' = [clf EXCEPT ![f] = {}]
    BY <1>4 DEF FinishDeletion
  <2> DEFINE S == {}
  <2>3. clf' = [clf EXCEPT ![f] = S] /\ \A o \in S : Forwarder(o)
    BY <2>2
  <2>4. uids' \in Nat /\ uids <= uids'
    BY <1>0, <2>1
  <2> HIDE DEF S
  <2> QED
    BY <2>1, <2>3, <2>4, ForwardersWritten
<1> QED
  BY <1>1, <1>2, <1>3, <1>4

LEMMA UsersOfExporterKeep ==
  ASSUME IInv, EditExporter \/ ReplaceExporter
  PROVE  IInv'
<1>0. UNCHANGED <<clf, cached, exported, work, bindings>>
  BY DEF EditExporter, ReplaceExporter, access
<1>1. Tasks' /\ ForwarderPart'
  BY <1>0, ForwardersUntouched DEF IInv, Tasks
<1>2. CASE EditExporter
  <2>1. PICK i \in lfme : \/ lfme' = {[i EXCEPT !.policy = {"AllowIngressMetrics"} \ @, !.version = i.version + 1]}
                          \/ lfme' = {[i EXCEPT !.pod = IF @ = "small" THEN "large" ELSE "small",
                                                !.version = i.version + 1]}
    BY <1>2 DEF EditExporter
  <2>2. Instance(i) /\ UNCHANGED uids
    BY <1>2 DEF IInv, ExporterPart, One, EditExporter
  <2>3. PICK j : lfme' = {j} /\ Instance(j) /\ j.uid = i.uid
    <3>1. Instance([i EXCEPT !.policy = {"AllowIngressMetrics"} \ @, !.version = i.version + 1])
          /\ [i EXCEPT !.policy = {"AllowIngressMetrics"} \ @, !.version = i.version + 1].uid = i.uid
      BY <2>2 DEF Instance, InstanceFields
    <3>2. Instance([i EXCEPT !.pod = IF @ = "small" THEN "large" ELSE "small", !.version = i.version + 1])
          /\ [i EXCEPT !.pod = IF @ = "small" THEN "large" ELSE "small", !.version = i.version + 1].uid = i.uid
      BY <2>2 DEF Instance, InstanceFields
    <3> QED
      BY <2>1, <3>1, <3>2
  <2>4. AppliedStays'
    BY <1>0, <2>2, <2>3 DEF IInv, ExporterPart, AppliedStays
  <2>5. ExporterPart'
    BY <1>0, <2>2, <2>3, <2>4 DEF IInv, ExporterPart, One
  <2> QED
    BY <1>1, <2>5 DEF IInv
<1>3. CASE ReplaceExporter
  <2>1. uids \in Nat /\ uids' = uids + 1
    BY <1>3 DEF IInv, ExporterPart, ReplaceExporter
  <2>2. PICK j : lfme' = {j} /\ Instance(j) /\ j.uid = uids + 1
    <3>1. PICK valid \in BOOLEAN : lfme' = {[uid |-> uids', policy |-> {}, pod |-> "small", version |-> 0,
                                            valid |-> valid, ready |-> "Unknown"]}
      BY <1>3 DEF ReplaceExporter
    <3> DEFINE j == [uid |-> uids', policy |-> {}, pod |-> "small", version |-> 0, valid |-> valid,
                     ready |-> "Unknown"]
    <3>2. Instance(j) /\ j.uid = uids + 1
      BY <2>1 DEF Instance, InstanceFields
    <3> QED
      BY <3>1, <3>2
  <2>3. \A i \in cached \cup work["lfme"].instance : i.uid \in Nat /\ i.uid <= uids
    BY DEF IInv, ExporterPart, Knows, One, Instance, AppliedStays
  <2>4. AppliedStays'
    BY <1>0, <2>1, <2>2, <2>3 DEF AppliedStays
  <2>5. ExporterPart'
    BY <1>0, <2>1, <2>2, <2>4 DEF IInv, ExporterPart, One
  <2> QED
    BY <1>1, <2>5 DEF IInv
<1> QED
  BY <1>2, <1>3

LEMMA RestKeeps ==
  ASSUME IInv, EditSCC \/ Fail \/ UpdateCache \/ UpdateBindings \/ GarbageCollect \/ UNCHANGED vars
  PROVE  IInv'
<1>1. CASE EditSCC \/ UpdateBindings \/ UNCHANGED vars
  <2>1. UNCHANGED <<clf, lfme, cached, exported, uids, work>>
    BY <1>1 DEF EditSCC, UpdateBindings, vars
  <2> QED
    BY <2>1, ExporterUntouched, ForwardersUntouched DEF IInv, ExporterState, Tasks
<1>2. CASE Fail
  <2>1. UNCHANGED <<clf, lfme, cached, exported, uids, bindings>>
    BY <1>2 DEF Fail, access
  <2>2. PICK r \in Controllers : work[r].pc \notin {"idle", "status"} /\ Failed(r)
    BY <1>2 DEF Fail
  <2>3. CASE r = "clf"
    BY <2>1, <2>2, <2>3, ForwarderIdles DEF Failed
  <2>4. CASE r = "lfme"
    BY <2>1, <2>2, <2>4, ExporterFailing
  <2> QED
    BY <2>3, <2>4 DEF Controllers
<1>3. CASE UpdateCache
  <2>1. UNCHANGED <<clf, lfme, exported, uids, bindings, work>> /\ cached' = lfme
    BY <1>3 DEF UpdateCache, access
  <2>2. \A i, j \in lfme : i.uid \in Nat /\ i.uid <= j.uid
    BY DEF IInv, ExporterPart, One, Instance
  <2>3. AppliedStays'
    BY <2>1, <2>2 DEF IInv, ExporterPart, AppliedStays
  <2> QED
    BY <2>1, <2>3, ForwardersUntouched DEF IInv, ExporterPart, Tasks
<1>4. CASE GarbageCollect
  <2>1. UNCHANGED <<clf, lfme, cached, uids, work>>
    BY <1>4 DEF GarbageCollect
  <2>2. UNCHANGED exported
        \/ \E k \in DOMAIN exported : exported[k].owner \notin Live /\ exported' = Drop(exported, k)
    BY <1>4 DEF GarbageCollect
  <2>4. ExporterPart'
    BY <2>1, <2>2, ExporterUntouched, ExporterCollected DEF IInv, ExporterState
  <2>5. ForwarderPart'
    BY <2>1, ForwardersUntouched DEF IInv
  <2> QED
    BY <2>1, <2>4, <2>5 DEF IInv, Tasks
<1> QED
  BY <1>1, <1>2, <1>3, <1>4

LEMMA NextKeeps == IInv /\ [Next]_vars => IInv'
BY ForwarderKeeps, ExporterKeeps, UsersOfForwardersKeep, UsersOfExporterKeep, RestKeeps DEF Next, Users

-----------------------------------------------------------------------------
(* The start *)

LEMMA InitHolds == Init => IInv
<1> SUFFICES ASSUME Init
             PROVE  IInv
  OBVIOUS
<1>1. PICK c \in Scenarios :
        LET there == DOMAIN c.sa
            id == CHOOSE id \in [there -> 1..Cardinality(there)] : \A f, g \in there : id[f] = id[g] => f = g
        IN  /\ clf = [f \in Forwarders |-> IF f \in there THEN {[uid |-> id[f], sa |-> c.sa[f], token |-> c.token, deleting |-> FALSE]} ELSE {}]
            /\ uids = MaxUid - c.creations
            /\ lfme = {[uid |-> uids, policy |-> {}, pod |-> "small", version |-> 0, valid |-> TRUE, ready |-> "Unknown"] : x \in 1..c.exporter}
            /\ cached = {} /\ exported = <<>>
            /\ work = [r \in Controllers |-> Idle]
  BY DEF Init
<1>2. uids \in Nat
  BY <1>1, ScenariosAssumption
<1>3. Tasks /\ work["clf"] = Idle /\ work["lfme"] = Idle
  <2>1. work = [r \in Controllers |-> Idle]
    BY <1>1
  <2> QED
    BY <2>1, IdleIsTask DEF Tasks, Controllers
<1>4. One(lfme) /\ \A i \in lfme : i.uid <= uids
  <2> DEFINE i == [uid |-> uids, policy |-> {}, pod |-> "small", version |-> 0, valid |-> TRUE, ready |-> "Unknown"]
  <2>1. Instance(i) /\ i.uid = uids
    BY <1>2 DEF Instance, InstanceFields
  <2>2. lfme = {i : x \in 1..c.exporter}
    BY <1>1
  <2> HIDE DEF i
  <2> QED
    BY <1>2, <2>1, <2>2 DEF One
<1>5. cached = {} /\ exported = <<>> /\ One(cached)
  BY <1>1 DEF One
<1>6. exported = [k \in DOMAIN exported |-> exported[k]] /\ DOMAIN exported \subseteq ExporterKinds
  BY <1>5
<1>7. AppliedStays
  BY <1>3, <1>4, <1>5 DEF AppliedStays, Idle
<1>8. ExporterPart
  BY <1>2, <1>3, <1>4, <1>5, <1>6, <1>7, IdleIsTask DEF ExporterPart
<1>9. clf = [f \in Forwarders |-> clf[f]] /\ \A f \in Forwarders : \A o \in clf[f] : Forwarder(o)
  <2> DEFINE there == DOMAIN c.sa
             id == CHOOSE id \in [there -> 1..Cardinality(there)] : \A f, g \in there : id[f] = id[g] => f = g
             Object(f) == [uid |-> id[f], sa |-> c.sa[f], token |-> c.token, deleting |-> FALSE]
  <2>1. clf = [f \in Forwarders |-> IF f \in there THEN {Object(f)} ELSE {}]
    BY <1>1
  <2>2. \A f \in there : Forwarder(Object(f))
    BY ScenariosAssumption DEF Forwarder, ForwarderFields
  <2> HIDE DEF there, id, Object
  <2> QED
    BY <2>1, <2>2
<1>10. ForwarderPart
  BY <1>3, <1>9, IdleIsTask DEF ForwarderPart, RoleUnreferenced, At, Idle
<1> QED
  BY <1>3, <1>8, <1>10 DEF IInv

LEMMA Invariant == Spec => []IInv
BY InitHolds, NextKeeps, PTL DEF Spec

-----------------------------------------------------------------------------
(* Theorems *)

\* The moment at which Ready turns true.
LEMMA ReadyStep ==
  ASSUME IInv, [Next]_vars, NEW i \in lfme, NEW j \in lfme', i.ready # "True", j.ready = "True"
  PROVE  exported = NewExporterObjects(j)
<1>0. One(lfme) /\ Instance(i)
  BY DEF IInv, ExporterPart, One
<1>1. CASE updateStatus
  <2> DEFINE w == work["lfme"]
  <2>1. w.pc = "status" /\ lfme = w.instance /\ ~w.error /\ j.policy = i.policy /\ j.pod = i.pod /\ j.uid = i.uid
    <3>1. w.pc = "status"
      BY <1>1 DEF updateStatus, At
    <3>2. lfme' # lfme
      BY <1>0 DEF One
    <3>3. lfme = w.instance
          /\ lfme' = {[x EXCEPT !.ready = IF w.error THEN "False" ELSE "True"] : x \in lfme}
      BY <1>1, <3>2 DEF updateStatus
    <3>4. j = [i EXCEPT !.ready = IF w.error THEN "False" ELSE "True"]
      BY <1>0, <3>3 DEF One
    <3>5. ~w.error
      BY <1>0, <3>4 DEF Instance, InstanceFields
    <3>6. j.policy = i.policy /\ j.pod = i.pod /\ j.uid = i.uid
      BY <1>0, <3>4 DEF Instance, InstanceFields
    <3> QED
      BY <3>1, <3>3, <3>5, <3>6
  <2>2. \A k \in ExporterKinds :
          IF k = "NetworkPolicy" /\ i.policy = {} THEN k \notin DOMAIN exported
          ELSE k \in DOMAIN exported /\ exported[k] = NewExporterObject(k, i)
    <3>1. Applied("status") = ExporterKinds
      BY DEF Applied, ExporterKinds
    <3> QED
      BY <2>1, <3>1 DEF IInv, ExporterPart, AppliedStays
  <2>3. \A k \in ExporterKinds : NewExporterObject(k, i) = NewExporterObject(k, j)
    BY <2>1 DEF NewExporterObject, ExporterKinds, NewServiceAccount, NewService, newServiceMonitor,
                NewNetworkPolicy, NewDaemonSet
  <2>4. DOMAIN exported = {x \in ExporterKinds : x = "NetworkPolicy" => j.policy # {}}
    BY <2>1, <2>2 DEF IInv, ExporterPart
  <2>5. \A k \in DOMAIN exported : exported[k] = NewExporterObject(k, j)
    BY <2>2, <2>3, <2>4
  <2>6. exported = [k \in DOMAIN exported |-> exported[k]]
    BY DEF IInv, ExporterPart
  <2> QED
    BY <2>4, <2>5, <2>6 DEF NewExporterObjects
<1>2. CASE EditExporter
  <2> DEFINE policyEdited == [i EXCEPT !.policy = {"AllowIngressMetrics"} \ @, !.version = i.version + 1]
             podEdited == [i EXCEPT !.pod = IF @ = "small" THEN "large" ELSE "small", !.version = i.version + 1]
  <2>1. policyEdited.ready = i.ready /\ podEdited.ready = i.ready
    BY <1>0 DEF Instance, InstanceFields
  <2>2. PICK x \in lfme : \/ lfme' = {[x EXCEPT !.policy = {"AllowIngressMetrics"} \ @, !.version = x.version + 1]}
                          \/ lfme' = {[x EXCEPT !.pod = IF @ = "small" THEN "large" ELSE "small",
                                                !.version = x.version + 1]}
    BY <1>2 DEF EditExporter
  <2>3. x = i
    BY <1>0 DEF One
  <2>4. j = policyEdited \/ j = podEdited
    BY <2>2, <2>3
  <2> QED
    BY <2>1, <2>4
<1>3. CASE ReplaceExporter
  <2>1. j.ready = "Unknown"
    BY <1>3 DEF ReplaceExporter
  <2> QED
    BY <2>1
<1>4. CASE UNCHANGED lfme
  BY <1>0, <1>4 DEF One
<1>5. updateStatus \/ EditExporter \/ ReplaceExporter \/ UNCHANGED lfme
  <2>1. CASE ReconcileForwarder
    BY <2>1, ForwarderFrame
  <2>2. CASE Common("lfme")
    BY <2>2 DEF Common, SecurityContextConstraintsRead, SecurityContextConstraints, ReconcileServiceAccount,
                ReconcileServiceAccountTokenSecret, ReconcileMetaDataReader, Role, RoleBinding, RecreateRoleBinding,
                ListRoleBindings, DeleteRole, ReconcileMetricsAuthRBAC
  <2>3. CASE ReconcileExporter /\ ~Common("lfme")
    BY <2>3 DEF ReconcileExporter, FetchLogFileMetricExporter, ReconcileService, ReconcileNetworkPolicy,
                ReconcileServiceMonitors, ReconcileDaemonset, ExporterStep
  <2>4. CASE Users
    BY <2>4 DEF Users, CreateForwarder, EditForwarder, DeleteForwarder, EditSCC
  <2>5. CASE Fail \/ FinishDeletion \/ UpdateCache \/ UpdateBindings \/ GarbageCollect \/ UNCHANGED vars
    BY <2>5 DEF Fail, FinishDeletion, UpdateCache, UpdateBindings, GarbageCollect, vars
  <2> QED
    BY <2>1, <2>2, <2>3, <2>4, <2>5 DEF Next
<1> QED
  BY <1>1, <1>2, <1>3, <1>4, <1>5

\* The exporter is reported ready only at a moment when its objects are those that
\* the current instance asks for (updateStatus), however the instance was edited or
\* replaced and its objects collected since it was read from the cache.
THEOREM ReadyOnlyIfCurrent == Spec => ReadyIsCurrent
<1>1. IInv /\ [Next]_vars =>
        [\A i \in lfme : \A j \in lfme' :
           i.ready # "True" /\ j.ready = "True" => exported = NewExporterObjects(j)]_vars
  BY ReadyStep
<1> QED
  BY <1>1, Invariant, PTL DEF Spec, ReadyIsCurrent

\* The access of one forwarder in a step of another one's reconcile.
LEMMA OthersStep ==
  ASSUME IInv, ReconcileForwarder, NEW f \in Forwarders, NEW sa,
         work["clf"].name # f, work'["clf"].name # f
  PROVE  /\ MayUseConstraints(f, sa) =>
              MayUseConstraints(f, sa)' \/ (At("clf", "oldRole") /\ ~Listed(f, work["clf"].seen))
         /\ MayReviewTokens(f, sa) => MayReviewTokens(f, sa)'
<1> DEFINE w == work["clf"]
           n == BindingOf(f)
           d == NewMetricsAuthClusterRoleBinding(f, sa)
           Bound == n \in DOMAIN bindings /\ bindings[n].sa = sa /\ bindings[n].role \in DOMAIN roles
           Excepted == At("clf", "oldRole") /\ ~Listed(f, w.seen)
<1>0. Serves(w) /\ RoleUnreferenced
  BY DEF IInv, ForwarderPart
<1> SUFFICES /\ Bound => \/ n \in DOMAIN bindings' /\ bindings'[n] = bindings[n] /\ bindings[n].role \in DOMAIN roles'
                         \/ Excepted
             /\ d.name \in DOMAIN crbs => d.name \in DOMAIN crbs' /\ crbs'[d.name] = crbs[d.name]
  BY DEF MayUseConstraints, MayReviewTokens, BindingOf
<1>1. CASE UNCHANGED <<roles, bindings, crbs>>
  BY <1>0, <1>1
<1>2. CASE cleanupClusterScopedResources
  <2>1. d.name # NewMetricsAuthClusterRoleBinding(w.name, <<>>).name
    BY <1>0, <1>2, MetricsNamesDiffer DEF cleanupClusterScopedResources, At, Serves
  <2> HIDE DEF d
  <2> QED
    BY <1>0, <1>2, <2>1 DEF cleanupClusterScopedResources, Drop
<1>3. CASE ReconcileMetaDataReader("clf")
  <2> DEFINE desired == NewMetaDataReaderClusterRoleBinding(w.sa)
  <2>1. d.name # desired.name
    BY <1>0, <1>3, MetadataNamesDiffer DEF ReconcileMetaDataReader, At, Serves
  <2>2. ClusterRoleBinding(desired) /\ UNCHANGED <<roles, bindings>>
    BY <1>3 DEF ReconcileMetaDataReader
  <2> HIDE DEF d, desired
  <2> QED
    BY <1>0, <2>1, <2>2 DEF ClusterRoleBinding, Put, Drop
<1>4. CASE Role("clf")
  BY <1>0, <1>4 DEF Role, Put
<1>5. CASE RoleBinding("clf") \/ RecreateRoleBinding("clf")
  <2> DEFINE desired == NewServiceAccountSCCRoleBinding(w.name, w.sa, w.uid)
  <2>1. n # desired.name
    <3>1. w.name \in Forwarders
      BY <1>0, <1>5 DEF RoleBinding, RecreateRoleBinding, At, Serves
    <3>2. n # w.name \o <<"-", "scc">>
      BY <3>1, SuffixCancels DEF BindingOf
    <3> QED
      BY <3>2 DEF NewServiceAccountSCCRoleBinding
  <2>2. /\ \/ bindings' = Drop(bindings, desired.name) \/ bindings' = Put(bindings, desired.name, desired.object)
           \/ UNCHANGED bindings
        /\ UNCHANGED <<roles, crbs>>
    BY <1>5 DEF RoleBinding, RecreateRoleBinding, DesiredBinding
  <2> HIDE DEF n, desired
  <2> QED
    BY <1>0, <2>1, <2>2 DEF Put, Drop
<1>6. CASE DeleteRole("clf")
  <2>1. At("clf", "oldRole") /\ UNCHANGED <<bindings, crbs>> /\ roles' = Drop(roles, oldRoleName(w.sa))
    BY <1>6 DEF DeleteRole
  <2>2. CASE Listed(f, w.seen)
    <3>1. bindings[n].role # oldRoleName(w.sa)
      BY <1>0, <2>1, <2>2 DEF RoleUnreferenced, Listed, At
    <3> QED
      BY <2>1, <3>1 DEF Drop
  <2> QED
    BY <2>1, <2>2
<1>7. CASE ReconcileMetricsAuthRBAC("clf")
  <2> DEFINE desired == NewMetricsAuthClusterRoleBinding(w.name, w.sa)
  <2>1. d.name # desired.name
    BY <1>0, <1>7, MetricsNamesDiffer DEF ReconcileMetricsAuthRBAC, At, Serves
  <2>2. ClusterRoleBinding(desired) /\ UNCHANGED <<roles, bindings>>
    BY <1>7 DEF ReconcileMetricsAuthRBAC
  <2> HIDE DEF d, desired
  <2> QED
    BY <1>0, <2>1, <2>2 DEF ClusterRoleBinding, Put, Drop
<1>8. \/ UNCHANGED <<roles, bindings, crbs>> \/ cleanupClusterScopedResources \/ ReconcileMetaDataReader("clf")
      \/ Role("clf") \/ RoleBinding("clf") \/ RecreateRoleBinding("clf") \/ DeleteRole("clf") \/ ReconcileMetricsAuthRBAC("clf")
  BY DEF ReconcileForwarder, Common, FetchClusterLogForwarder, ReconcileWorkload, SecurityContextConstraintsRead,
         SecurityContextConstraints, ReconcileServiceAccount, ReconcileServiceAccountTokenSecret,
         ListRoleBindings, access
<1> QED
  BY <1>1, <1>2, <1>3, <1>4, <1>5, <1>6, <1>7, <1>8

\* The reconcile of one forwarder takes no access from another (ReconcileRBAC), but
\* through a binding that the informer had not delivered when the bindings were
\* listed: of those listed none refers to the role of the previous naming scheme,
\* and the names of the bindings tell the forwarders apart.
THEOREM OthersKeepAccess == Spec => OthersUndisturbed
<1>1. IInv /\ [Next]_vars =>
        [ReconcileForwarder =>
           \A f \in Forwarders : \A o \in Forwarding(f) :
             work["clf"].name # f /\ work'["clf"].name # f =>
               /\ MayUseConstraints(f, o.sa) =>
                    MayUseConstraints(f, o.sa)' \/ (At("clf", "oldRole") /\ ~Listed(f, work["clf"].seen))
               /\ MayReviewTokens(f, o.sa) => MayReviewTokens(f, o.sa)']_vars
  BY OthersStep
<1> QED
  BY <1>1, Invariant, PTL DEF Spec, OthersUndisturbed

===============================================================================
