# Verification of the Cluster Logging Operator

TLA+ models of the operator that turns a `ClusterLogForwarder` into a running
Vector collector, the TLC runs that check them on small instances, and TLAPS
proofs of safety properties of eight of them. `PROJECT.json` is the index: components, runs,
mutants, the map from definitions to source lines, findings, hazards, theorems.

## 1. Inventory

The operator is one process (`cmd/main.go`) built on controller-runtime. Each
controller has one worker; reads go to informer caches unless said otherwise,
writes go to the API server.

| Component | State it keeps | Operations | Hard behaviour | What makes it correct |
|---|---|---|---|---|
| ClusterLogForwarder controller (`internal/controller/observability`) | none between reconciles; the CR's status | `Reconcile`: fetch, prune, initialize, validate, undeploy or deploy, `updateStatus` | every read may be stale, every write may fail, many failures return no error, the process may die anywhere, the CR may be deleted and created again | nothing runs without permission; the collector and the Ready condition settle on the current spec; nothing is rolled back |
| Collector deployment (`internal/collector`, `internal/reconcile`) | ConfigMap, DaemonSet or Deployment, bindings, Secret, Service, NetworkPolicy | `ReconcileCollector`, `RemoveStaleWorkload`, `RemoveDaemonset`, `RemoveDeployment` | a sequence of writes any of which may fail; optimistic locking; garbage collection; objects of users that change between read, write and the start of a pod | a workload never mounts an older configuration; one kind of workload; every file the configuration names is mounted; rotated content reaches the pod |
| Validation and conditions (`internal/validations`, `internal/api/observability`) | conditions in the CR's status | prune, set, count, patch | conditions come from a stale copy; verdict by counting; merge patch | the verdict is exact; conditions are those of the spec |
| Permission validation | none | ServiceAccount lookup, one SubjectAccessReview per log type | a failing review looks like a missing role | no false grant; a false denial heals |
| Spec initialization (`internal/api/initialize`) | none | migration of reserved inputs, receivers, LokiStack outputs | a name may be declared and reserved | idempotent |
| Configuration generator (`internal/generator/vector`) | none | inputs, pipelines and outputs to a graph of Vector components | wiring by generated names | every declared route exists, no other does |
| Record normalization and filters (`input`, `filter` of the generator) | none | VRL programs that make a common model of the records of each source, and the filters of a pipeline | programs that read what others wrote or removed; lines that cannot be parsed; pods Vector does not know any more | what is dropped and what remains is what each filter says, in any order of filters |
| TLS profile (`internal/tls`, `internal/controller/tlsprofile`) | the profile the process started with; a requeue channel | read at start-up, watch, cancel the process; requeue of all forwarders | three reads at different moments; filtered events; errors replaced by defaults | operator and collectors end up on the cluster's profile |
| Protected ServiceAccounts (`internal/admission`, its controller and runnable) | ConfigMap of accounts, two admission policies with bindings | list and publish; install | two writers; list before write; start-up failures only logged | the ConfigMap holds the declared accounts; the policies get installed |
| RBAC (`internal/auth`) | SecurityContextConstraints, Roles, bindings, token Secret | reconcile by name | names shared between forwarders; delete and create for a changed roleRef; cleanup of an older naming scheme | each forwarder gets and keeps its access |
| Network, services, monitors | NetworkPolicy, Services, ServiceMonitors | reconcile, removal of orphaned services | ports derived from URLs, proxies and receivers | every connection the collector needs is admitted |
| Log file metric exporter | a DaemonSet and what goes with it; the instance's status | reconcile | instance from a cache, status with optimistic locking whose retry is dropped, constraints shared with the forwarders | objects and status settle; Ready is not claimed for another instance |
| Dashboard controller | one ConfigMap | seed at start, reconcile, remove at exit | two processes during a rollout, no leader election; read, check, delete | the dashboard of the process that stays comes back |
| Telemetry | gauges | read and count | - | not modelled |
| must-gather, benchmarker | - | command line tools | pure I/O | not modelled |

Interactions: the controllers share nothing in memory except the channel on
which the TLS watcher requeues forwarders. They meet in the objects of the API
server: the protected-accounts controller reads the forwarders the main
controller reconciles; garbage collection removes what a forwarder owns; the
status patch of a reconcile is itself an event that queues the next.

The hazards in `PROJECT.json` list, by source line, what of this is hard to test.

## 2. Plan

1. `ForwarderController` - the reconcile loop and the collector it deploys. *Done.*
2. `ForwarderControllerProofs` - its safety for every set of specs. *Done.*
3. `TLSProfile`, `ProtectedServiceAccounts`, `StatusConditions`, `ConfigGraph`. *Done.*
4. `CollectorObjects` on `ForwarderSpecs`, `CollectorConfig`, `CollectorPod` and
   `CollectorNetwork` - the objects, files and ports of a collector. *Done.*
5. `SharedResources` - two forwarders and the metric exporter on shared objects. *Done.*
6. `Dashboard` - the ConfigMap of two processes during a rollout. *Done.*
7. `Records` on `LogEvent`, `Normalization` and `RecordFilters` - what happens to a
   record between source and output. *Done.*
8. `CollectorRollout` - the abstract specification that `ForwarderController`
   implements, with the proof in `ForwarderControllerProofs`. *Done.*
9. Proofs of the other components: `ProtectedServiceAccountsProofs`, `OperatorProofs`
   (dashboard and TLS profile), `StatusConditionsProofs`, `CollectorObjectsProofs`,
   `SharedResourcesProofs`. *Done.*
10. `RecordsProofs` - all five invariants of `Records`, for every source, record and
    pipeline. *Done.*
11. `ConfigGraphProofs` - that the generated configuration holds together and sends no
    record astray or past a filter, for every forwarder. *Done.*
12. Theorems still worth proving: safety parts of `AccessSettles` and `TrafficAdmitted`
    (what holds at rest), and the type and tenant of what arrives (`RecordsRouted`).

## 3. Modules and their correspondence to the code

### ForwarderController

`Reconcile` is split at its API calls (`pc` names the next step); between two steps
anything else may happen. One worker and a deduplicating queue mean one reconcile
in flight per forwarder.

| Model | Code |
|---|---|
| `clf`, `workload`, `config`, `crb` | the CR, the DaemonSet and Deployment, the `<name>-config` ConfigMap and the metrics-auth ClusterRoleBinding on the API server |
| `cclf`, `cworkload` | the informer caches the client reads |
| `queued`, `timer` | the work queue, `periodicRequeue` |
| `cxt` | `ForwarderContext` and the values `Reconcile` returns |
| `Fetch`, `FetchNotFound`, `FetchFails` | lines 66-98 of the controller: deletion, unmanaged, managed |
| `Cleanup` | `cleanupClusterScopedResources` |
| `Initialize`, `Validate` | `initialize`, `validateForwarder` with `ValidatePermissions` |
| `Undeploy`, `RemoveStaleWorkload` | `RemoveDaemonset` or `RemoveDeployment` of the kind asked for; of the other kind |
| `ReconcileAccess`, `ReconcileConfig`, `ReconcileWorkload`, `ReconcileExposure` | `ReconcileCollector` in its order |
| `UpdateStatus` | the deferred `updateStatus`, then the return to the queue |
| `SyncForwarder`, `SyncWorkload`, `Resync`, `PeriodicRequeue` | the watches of `SetupWithManager`, `SyncPeriod`, `RequeueAfter` |
| the rest | users, administrators, garbage collector, restart of the process |

A spec is five facts the controller branches on: managed, annotated for a
Deployment, the kinds of its inputs, accepted by the validators other than the one
for permissions, refers to a Secret. Content is a revision number: two writes of
the same spec are two revisions.

Assumptions. The list after a restart is not older than what the caches held
(with an older one `NoRollback` fails; that is its mutant). `sa` and `secret` are
the cached view, so they change when the cache learns; access reviews are live.
A write that fails because the cached RBAC objects or the token Secret are stale
is one of the counted failures. Every input of a spec is referred to by a pipeline.

### CollectorRollout and the refinement

What users are promised about one collector, without caches, queue, reconciles or
owners: revisions are requested (`Request`), some are approved (`Approve`), the
configuration moves on before any collector does (`Configure`), a collector runs the
revision it is configured for (`Run`), and either may go (`Stop`, `Unconfigure`).
`ForwarderController` instantiates it as `Rollout` with `requested <- Len(writes)`,
`approvals <- approved`, and the revisions of the ConfigMap and of the workloads;
`RolloutRefined` says that each of its steps is a step of the abstract machine or
changes nothing that users see.

### CollectorObjects

`ReconcileCollector` once more, seen through the objects a collector lives from. One
reconcile reads Secrets and ConfigMaps (`MapSecrets`), validates them, reconciles the
token Secret, the CA bundle and the AWS credentials file, generates the
configuration, writes the workload with the hashes of what it read, services, policy
and metrics; a step is an API call. Users edit specs and objects, the platform fills
tokens and bundles, issues, rotates and collects certificates, the kubelet starts
pods, which read the objects as they are then.

| Module | Code |
|---|---|
| `ForwarderSpecs` | `api/observability/v1` with its validation rules (what the API server admits), and `internal/api/observability`: Secrets, ConfigMaps and tokens that a spec refers to, migration of inputs |
| `CollectorConfig` | the generators of sinks and sources, by the files, directories, URLs and authentication that they write into the configuration |
| `CollectorPod` | `NewPodSpec`, `NewCollectorContainer`: volumes, mounts, hashes |
| `CollectorNetwork` | `internal/network`: ports of URLs, proxies and receivers, rules of the policy |
| `CollectorObjects` | the reconcile, users, platform and pods |

Names are sequences of words with "." and "-" as words, since volume names drop dots
and generated names join words. A content is one of a few values: first, second,
lacking the key, not what was expected. Nobody puts the first content back: a pod
that started in between would be the same by its hash. Reads see the current objects;
stale caches are `ForwarderController`'s subject.

A panic ends a reconcile (controller-runtime recovers it) and is recorded with where it
happened. There are four ways: `PanicOnReferences` (a Kafka authentication without SASL),
`PanicOnValidation` and `PanicOnGeneration` (the scheme, host or path of a URL that
`url.Parse` refused is looked at, by `validateURLAccordingToTLS`, the Syslog sink and
Kafka's topic), and `PanicOnPort` (a URL of an output or of a proxy without a usable port,
or unparsable). The patterns of the CRD ask a socket's URL for digits, so its port may be
0 or larger than an int32 (`Overflow`), and `isURL` is not `url.Parse`. `breakdowns` of a
spec are the panics of the generator that depend on pipelines and tunings, which this
module leaves to `ConfigGraph`. A policy with a port above 65535 is refused by the API
server (`AdmittedPolicy`).

An input of any type may have a receiver part. `ReconcileInputServices` creates a service
for each, `RemoveOrphanedInputServices` keeps those of inputs of type receiver only.

### SharedResources

Two controllers of one process on one cluster, a step being one API call: the
forwarders' (`ReconcileRBAC`, `ReconcileServiceAccountTokenSecret`,
`ReconcileMetricsAuthRBAC`, the constraints, cleanup on deletion) and the metric
exporter's (`logmetricexporter.Reconcile`, `updateStatus`). Forwarders share
ServiceAccounts, token Secrets, the metadata-reader binding and, by the way their
names are joined, roles. Objects have owners, which the garbage collector looks at;
an upgraded cluster starts with roles of the former naming scheme. Everything is in
one namespace, which therefore is left out of the names.

The exporter's instance and the RoleBindings are read from caches (`cached`, `bound`)
that may lag by any number of steps: `RoleBinding` decides by its cached copy whether to
create, update or delete and `RecreateRoleBinding`, each of which fails if the cluster
disagrees, and `ListRoleBindings` lists the cache before `DeleteRole`. The other objects
are read as they are; a write that fails because the cached copy was stale is one of the
counted failures.

### Dashboard

Processes of the operator, each with its version, around one ConfigMap: seeding
(`ReconcileForDashboards` from `main`), first list of the watch
(`SetupWithManager`), reconcile, and `RemoveDashboardConfigMap` in its two calls. A
rollout ends the old process; processes crash and are started again; somebody else
edits or deletes the ConfigMap.

### Records

A record is a function from paths to texts. `LogEvent` has the operations of VRL and
is external. `Normalization` has the programs of each source (`internal/generator/
vector/input`) and of viaq, `RecordFilters` the filters' programs and their
validation. `Records` runs a record of any source through a pipeline: normalization,
then two passes over the filters in the order named (`pass`, `last`), as
`AddSystemFilters` splits them: the parse and detectMultiline filters, viaq, and the
others. What texts parse to, which times they name, which of them auditd numbered, the
levels of priorities, the response codes below 300 and how names are
dedotted are constants that the instance gives as tables.

A record is read by one source and goes through a pipeline whose inputs have others too
(`inputs`): viaq's script has a part for every source among them, and for no other
(`Scripted`). A path of a prune filter is its segments and the positions of those in
quotes, as `splitPath` works on the text. A label that is spelled in one segment, or in
several without quotes, is translated to its flattened name (`SpelledOut`). With quotes
in some of several segments only, the text falls apart differently: if the first has
them, the path of the whole map of labels is left; if a later one, the quotes stay in
the name and no label has it; if first and last have them, the generated program is no
VRL, Vector does not start with it, and `FiltersAssumption` leaves it out.

### TLSProfile

The profile of the APIServer resource against its three readers at start-up
(`main`: two reads and the first list of the cache), the watcher
(`internal/tls`, `tlsprofile_controller.go`) that cancels the process when the
profile differs from the one it started with, the requeue channel, and the two
reads of a reconcile (configuration and workload), each of which falls back to the
default when it fails.

### ProtectedServiceAccounts

Two writers of the ConfigMap, the controller and the start-up runnable, each
listing the forwarders and later writing through `reconcile.Configmap`; the API
server accepts a write that carries the current version. The runnable also
installs the policies and bindings and starts over when one fails. Users create
and delete forwarders and tamper with the ConfigMap; the process restarts.

### StatusConditions

The same reconcile as in `ForwarderController`, seen through the conditions of the
inputs, outputs, filters and pipelines: `FetchAndPrune` (`removeStaleStatuses`),
`InitializeSpec` (`MigrateInputs`), `ValidateForwarder` (every validator sets one
condition per element, `isValid` counts them), `PatchStatus` (merge patch with
`omitempty`). What a validator finds in an element's own fields is one Boolean; the
references between elements and the `.hostname` rule are modelled. The conditions
set by one validation share one clock value.

### ConfigGraph

`conf.Conf` as the state machine it is: `WirePipeline` (`NewPipeline`, which tells
the outputs the id of the last filter), `AddInput` (`input.NewSource`), `AddPipeline`
(`Pipeline.Transforms`, which asks the inputs for their ids), `AddOutput`
(`output.New`), `AddMetrics`. `todo` is what a loop still has to go through, and `First`
the order: the pipelines as listed when they are wired, names in the order of
`sortAdapters` afterwards. `config` is the
configuration (components by id), `inputIDs` and `ids` are the fields of the output
and input adapters, `op` the options map that one generator leaves to the next. The
two panics that a spec can cause are `PanicOnInput` (a nil part of an infrastructure
tuning) and `PanicOnOutput` (`otlp.New` without log sources).

Ids are sequences of words, as `MakeID` joins parts with `_` and turns `-` into it.
A component is its inputs and what it does to a record: emit, normalize, filter,
route, count, pass, deliver. Once the configuration is finished, Vector runs it:
`leaving` holds the records that left each component, and in a step of `Flow` every
component takes in what is offered to it, until nothing new arrives (`Settled`). This is
Vector's part and marked external; the properties compare what reaches the sinks with
the declared pipelines.

`AddSystemFilters` is given by position: early filters, viaq, the others, each group
in the user's order (`Nth`). The position is also the last word of a filter's id;
`Numerals` are the words for 0, 1, 2 and so on, as many as the longest pipeline needs.

`SpecsAssumption` says what the API server and the validation guarantee when `Conf`
runs: pipelines have different names and at least one input
(`clusterlogforwarder_types.go`, `+listMapKey`, `MinItems`), references are to declared
elements (`pipelines/validate.go`), and every output is referred to
(`outputs/validate.go:103`). Two conditions are not guaranteed and are hypotheses of the
properties that need them. `NamesApart`: no name is another one of its kind followed by
a word that the generator may add there; an output `kafka-topic` next to an output
`kafka` has the id of the transform that finds kafka's topic, and one replaces the
other. `OpenTelemetryFromNodes`: no receiver leads to a LokiStack with the OpenTelemetry
model; there the route is for `receiver.http` or `receiver.syslog`, values no record
has, and the sink's transform has no input.

That nothing is lost (one half of `RecordsRouted`) has a third condition, which the specs
of its run meet: an OTLP output comes before a LokiStack with the OpenTelemetry model.
Behind one, it finds the options the LokiStack left, which have no trace context to
extract (`config_trace`) and routes for the log sources of one tenant only.

## 4. Runs

Passing runs:

* `forwarder_safety` - both kinds of workload, four disturbances (edits, deletions,
  revocations, failures, restarts in any mix). `DeployedWasApproved`,
  `OnlyStaleRemoved` (no reconcile takes away a collector that is not behind
  it), `ConfigNotOlder`, `ReadyIsBacked`, `NoRollback`, and the
  refinement of `CollectorRollout` (`RolloutRefined`). Four are
  enough for create, edit, delete, create again, and for create, edit, failure,
  restart.
* `forwarder_convergence` - a DaemonSet that depends on the Secret, a Deployment, an
  unmanaged forwarder and one the validators reject, three disturbances. After the last one `CollectorConverges`,
  `ReadyConverges` and `RevokedKindRemoved`.
* `tls_follow` - two profile changes, two failures or crashes: the collector ends up
  with the current profile; so does an operator whose start-up was undisturbed, since
  for such an operator a profile that is no longer the initial one is queued
  (`StaleIsQueued`).
* `protected_accounts` - two forwarders, two accounts, two disturbances: the
  published accounts converge, a version stands for one content (`VersionsIdentify`),
  so no write is based on one it did not see (`NoLostUpdate`), the policies get installed.
* `conditions_converge` - six specs, three edits, one fault, two seconds: the verdict
  is exact whatever conditions the cache held (`VerdictExact`), as after the pruning
  none is of an element the spec does not have (`NothingStale`), and the published
  conditions settle.
* `config_wiring` - 55 specs: every type of output, with and without throttle and
  optional transform, behind two pipelines that together have inputs of every type;
  OTLP next to LokiStack; two specs that panic. `RecordsRouted`, `FiltersInOrder`,
  `NoDanglingInput`, `NothingReplaced`. Conf is sequential, so each spec is one
  behaviour; two pipelines that share an output, and an output named like an input,
  are what ids could confuse. Each behaviour ends with the rounds of `Flow` that it takes
  until the longest way, from a source through three filters, two routes and their
  transforms to a sink, has been gone. `RecordsRouted` is about what arrived when all
  settled; `FiltersInOrder` about all that arrives on the way there.

* `collector_objects` - specs of every type of output with its kinds of
  authentication, of URLs with port 0, with ports too large or unparsable, of a generator
  that panics, and edits: receivers that change type, port, certificate or
  are removed, an input that keeps its receiver part under another type, outputs that may
  not be admitted, Secrets whose volumes clash. One edit
  of an object, failing call or killed pod at any point; one is enough, as a
  reconcile is several steps and each history already has the platform's own changes.
  `FilesBacked`, `ReferencesChecked`, `TokenProvided` (a sink that sends a bearer token is
  given one), `RotationRolledOut`, `TrafficAdmitted`. The last two
  are about specs that can be deployed at all (`Deployable`), that is, without a panic.
* `shared_resources` - forwarders `a` and `a-a` with accounts `c` and `a-c`. The role of
  `a` with `a-c` and that of `a-a` with `c` have one name, and the role of `a` with `c` is
  called as the former role of account `a-c`. Fresh, with one recreation and one fault;
  upgraded from a shared account, with one fault; the exporter next to a forwarder; the
  exporter alone with one edit and one fault. Caches lag anywhere. `AccessSettles`,
  `OthersUndisturbed`, `ReadyIsCurrent`, `ExporterSettles`.
* `dashboard` - an old and a new process of one or two versions, two crashes or
  failing calls, two edits by others. `ReadsHold`, `DashboardRestored`.
* `records` - records of every source, among them audit events of users, nodes and
  ServiceAccounts, event router records, lines that do not parse and pods Vector does
  not know; every sequence of at most three of 16 filters (those that validation refuses
  are left out), so that one filter stands before and one after any other.
  `FilteredAsRead`, `AuditPolicyEnforced`,
  `RequiredFieldsKept`, `TypedByNamespace`, `PrunedLabelsGone`. `RequiredFieldsKept`
  is about records that are `WellFormed`: the line of an API server is an audit event, no
  received object has a field of the collector, event router events and journal entries
  say something, and the priority of a journal entry is an integer. The run has records
  that are not, too.

Runs that show a disagreement between the code and what the repository says of it
(each is a finding, with the quoted line):

* `config_trace` - an OTLP output generated after a LokiStack with the OpenTelemetry
  model extracts no trace context, by the options left behind.
* `role_deletion` - the check that no binding refers to the former role lists the
  manager's cache. Forwarder `a` with account `c` has just bound role `a-c-scc`; the
  reconcile of a forwarder with account `a-c`, whose former role has that name, does not
  see the binding and deletes the role under it, until the next reconcile of `a`. No
  failure is needed (`UnreferencedDeleted`). `OthersUndisturbed` says that nothing else is
  ever taken from another forwarder, and `AccessSettles` that it comes back.

Known gaps that the models show and no run asserts:

* forwarder: an edit that changes the kind of workload together with a lost permission
  leaves the collector of the old kind running (controller line 112; the design of the
  protected accounts says a failure "tears the collector down"); the metrics-auth
  binding outlives a forwarder deleted in the background, as there is no finalizer;
  Ready=False may be reported while the collector of an earlier revision serves;
* accounts: a failing initial sync without forwarders leaves no ConfigMap, which the
  comment at `protected_sa_policy.go:109` says exists;
* conditions: an empty list is omitted from the merge patch, so the condition of the
  last removed filter stays published; `pipelines/validate.go:15` collects messages
  outside the loop, so that a pipeline is failed by those of an earlier one;
* configuration: an application input that includes infrastructure namespaces, sent to
  a LokiStack with the OpenTelemetry model, ends in the panic of `otlp.go:59`; names
  that join to one id (`kafka` and `kafka-topic`), and a receiver that leads to such a
  LokiStack, give a configuration that Vector refuses or that lacks a component;
* TLS: a profile that changes between the start-up reads and the first list of the
  cache is not served by the operator until it changes again;
* objects: an HTTP output that uses the token of the ServiceAccount gets a bearer strategy
  without a token, as `getOutputBearerToken` has no case for HTTP and no token Secret is
  reconciled, although `output_types.go:46` says that the function tells whether an output
  needs one (`TokenProvided` leaves HTTP out);
  a Kafka authentication without SASL panics, as do a URL or proxy without
  usable port under a restricting policy, a URL that does not parse and the generator in
  the cases of `ConfigGraph` (section 3); the first reconcile of a forwarder whose policy
  panics has written the workload but not the metrics service, for whose certificate its
  pods then wait; two Secrets whose names differ in dots only are one volume, which the
  API server refuses; the service of an input that has a receiver part but another type
  is removed and created by every reconcile (`input_service.go:26` and `:49`);
* shared objects: bindings of the metadata reader are never removed; fields of the
  constraints that `AreSame` does not compare are not restored; names of ClusterRoleBindings
  join namespace and name with a dash (`resource_names.go:42`, `rbac.go:91`), so that
  forwarder `c` of namespace `a-b` and forwarder `b-c` of namespace `a` have one between
  them, and a forwarder named like the exporter shares its bindings;
* dashboard: deleted between seeding and the first list of the watch, it stays away
  until the process restarts;
* not in the reach of these abstractions: `AreSame` sorts a package-level slice in place
  while the other controller reads it (`comparator.go:24`); the hash of Secrets has no
  delimiters; the AWS credentials file is made with an HTML template, which escapes a
  plus sign; a filter that the user calls viaq is replaced by the system filter;
* records: an olderThan test or an audit filter after a prune filter reads a root that
  lacks what was pruned, so that pruning `.timestamp` disables the one and pruning
  `.auditID` the other; `notMatches` holds for a missing field, where the comment at
  `drop/filter.go:88` says false; a drop filter on `.openshift.labels` sees the labels that
  an earlier openshiftLabels filter sets, and no others; `in` may name fields of
  `._internal`, which the comment at `prune/filter.go:51` says are always kept; the level
  of an audit rule may be any text, and an unknown one removes no body; `."message"` in a prune list passes the check for required
  fields; an audit line that is not JSON, and a journal entry whose priority is no integer
  (`journal.go:20`), are passed on without type and source; a label pruned under
  `.kubernetes.labels.app."io/tier"` stays under its flattened name, and pruning
  `.kubernetes.labels."app.io".tier` removes every label of the pod, as `splitPath`
  (`prune/filter.go:102`) drops the part with the lost quote; a key `log_type` or
  `log_source` of an audited or received object replaces what viaq set; the
  default audit rule drops writes of an account whose namespace only begins with that
  of the resource.

Every property of a passing run has a mutant: an operator of the module (marked
"Faulty variant") that replaces the definition it is named in `PROJECT.json` with,
and under which TLC finds the property violated.

Deadlock is not checked where the system may rest: no forwarder, empty queue, no
disturbance left; and in `ConfigGraph`, which ends.

## 5. Fairness

`SharedResources` adds strong fairness of fetching each forwarder, as the work queue
passes over no key for ever, and `Dashboard` strong fairness of the end of the old
process: the kubelet terminates it although it is rarely idle. In `CollectorObjects` each
controller of the platform (tokens, bundles, garbage, and certificates service by
service) has weak fairness of its own, as each has a queue of its own: a service that
comes and goes with every reconcile must not starve the others. Elsewhere it is
weak fairness of the reconcile worker, of the watches, of the garbage collector, of
the resync (`SyncPeriod`, three minutes) and of `periodicRequeue` (five minutes):
controller-runtime serves a queued key, informers deliver, Kubernetes collects and
restarts the process. Users, failures and crashes owe nothing and are bounded, so
"eventually" means after the last of them.

## 6. Proofs

`ForwarderControllerProofs` proves, for every set of specs and grants and any number
of disturbances (assumptions `SpecsAssumption`, `GrantsAssumption`,
`BoundAssumption`), `TypeCorrect`, `RevisionsOrdered`, `NeverRollsBack`,
`DeployedApproved`, `OnlyStaleIsRemoved`, `ConfigComesFirst` and `ReadyBacked`. `OnlyStaleIsRemoved`
needs that a workload has the kind its own revision asks for (`KindsMatch`): a
workload of the other kind is then of another revision than the one being deployed, and
by `OrderInv` of no later one.
It also proves `ImplementsRollout`: `Spec => RolloutRefined`.

None of the invariants is inductive alone. A workload is written from the context,
the context from the cached forwarder, that from the forwarder, and another step
may come between any two of these. The strengthening follows that chain:
`RevisionInv` (every object refers to a revision that was written) and `OrderInv`
(workload and configuration are not ahead of the context or the cache, those not
ahead of the forwarder; within one uid) carry `NoRollback`; `ApprovalInv` adds that a
reconcile past validation works on an approved revision; `ConfigInv` that a
reconcile past its configuration step has written it, or its owner is gone;
`BackedInv` that cached and pending statuses are backed as well as the published
one. The step lemmas (`WorkloadStep`, `ConfigStep`, `ForwarderStep`, `ContextStep`,
`WriteStep`) say what each action does to one group of variables, so that the proofs
of the invariants do not expand every action again.

The refinement needs these invariants, since `Configure` and `Run` are guarded by what
is approved and by what runs, and one more, `MountInv`: a reconcile about to write the
workload finds the configuration it has written, or none if that was collected with
its owner. There is one lemma for each abstract action (`WriteRequests`,
`ValidationApproves`, `ConfigConfigures`, `WorkloadRuns`, `RemovalStops`), and
`StepRefines` goes through the actions of the loop.

The other components' theorems, each for every value of its module's constants:

* `ProtectedServiceAccountsProofs`: `VersionsIdentifyHolds`, `NoUpdateIsLost`. That the
  API server compares versions saves nothing unless a version stands for one content,
  in the cache and in the hands of either writer too: `VersionsIdentify` says so and is
  nearly inductive; the types of the writers' tasks complete it.
* `OperatorProofs`, on the dashboard: `ReadsAlwaysHold`. What a
  process has read is still there, or the process is marked as having been overtaken, for
  any number of processes and versions. On the TLS
  profile: `StaleIsAlwaysQueued`, and from it `QuietServesCurrent`: with
  nothing under way between the APIServer and the watcher, an operator whose first list
  agreed with its initial profile serves the current one. That it becomes quiet is
  liveness and stays with TLC.
* `StatusConditionsProofs`: `NothingStaleHolds`, `VerdictIsExact`. `isValid` compares
  numbers of conditions with numbers of elements. The count is right since the conditions
  are in bijection with the elements: none is left of another spec (`NothingStale`), and
  one validation sets one per element. For all specs of the form that the API's list maps
  give (`FormsAssumption`: names are unique in a list).
* `CollectorObjectsProofs`: `FilesAreBacked`, `ReferencesAreChecked`. The argument follows a file
  of the configuration: the files of every sink and source are at references of the spec,
  references have passed validation of the content read by the same reconcile, and
  `NewPodSpec` mounts every object that is referred to; the strengthening `ContextBacked`
  says this of a reconcile between reading and writing. The cases are the types of
  outputs with their kinds of authentication. Proved for every spec that the API admits,
  not only for those of the run; `NameAssumption`: the forwarder has a name.
* `SharedResourcesProofs`: `ReadyOnlyIfCurrent`, `OthersKeepAccess`. For the first,
  `AppliedStays`: what the exporter's reconcile has applied of the instance it read stays
  while that instance is not replaced, since the garbage collector takes objects of other
  owners only, and uids grow, so that a replaced instance never returns, not even from the
  cache. For the second, `RoleUnreferenced`: between listing the bindings and deleting the
  role of the former naming scheme, no binding in the list that was taken refers to it. The
  list is from the cache, so the theorem exempts exactly the forwarders whose binding it
  lacks (`Listed`), and `role_deletion` shows that the exemption is needed. And lemmas on names (`SuffixCancels`, `MetricsNamesDiffer`,
  `MetadataNamesDiffer`): bindings of different forwarders have different names, although
  their roles may have one. `NamesAssumption` says that names are sequences and that no
  forwarder has the exporter's name (with one that has, see the gaps);
  `ScenariosAssumption` that the objects at the start belong to declared forwarders.
* `RecordsProofs`: `DroppedAsRead`, `PolicyHolds`, `PrunedStaysPruned`,
  `RequiredDelivered`, `RequiredFieldsDelivered`, `TypeFollowsNamespace`. The invariant
  compares the record with the one that left viaq (`Prepared`): what is under `._internal`,
  the openshift labels aside, is the same until a filter prunes it (`InternalKept`); what
  audit rules and olderThan tests read at the root is the same until a prune filter ran
  (`RootKept`); bodies only go (`BodiesKept`); and what the filters done so far have
  removed or let pass stays so (`Audited`, `Judged`, `LabelsGone`). The level is the
  exception: audit filters set it, and a later policy reads it (`SamePolicy`), so
  `LevelKept` says how far it can have moved. `Effect` is what all filters have in common;
  each filter is shown to have it once, and each part of the invariant to survive it once.
  Before viaq, a second parse filter changes nothing (`ParseAgain`). The properties
  exclude what the code does not promise: journal entries whose priority is no integer
  (`WellFormed`), labels that are quoted in part (`SpelledOut`), pipelines with a filter that reads what an
  earlier one changes (`ReadsRoot`, `ReadsLabels`, `PrunesInternal`), audit events that no
  API server writes (`AsWritten`) and policies with unknown levels (`KnownLevels`).
  `ParsedAssumption` and `FiltersAssumption` say that a text is at most one object, and that
  what is parsed or written by users are objects, paths and filters of the six types.
  `RequiredInv` says the same of the three required fields, which a valid prune filter
  leaves (`PruneLeavesRequired`).
  What viaq put there is the other half of `RequiredFieldsDelivered`, and for it the
  programs are followed assignment by assignment. `Writes` says that a program changes
  only what is under given roots and given parts of `._internal`; `PutWritesUnder` and its
  like for `Del`, `Copy` and `Move` say it of one assignment, `WritesThen` composes it. `Ready` is what an input has to pass on -
  a type, a source and something that tells the message - and `ContainerReady`,
  `LineReady`, `APIReady`, `NodeReady`, `SyslogReady` and `HttpReady` show that the program
  of each input does (`NormalizedReady`); `ParseReady` that the parse filter leaves it so.
  `ViaqSourced` shows that viaq turns that into the three fields of the root, and
  `PreparedSourced` joins them. The type of a container's record is followed through the
  same programs (`ContainerNamed`, `ParseWrites`, `ViaqTyped`).
  `RecordsAssumption`: the source of a record is among those of the pipeline's inputs,
  records of every source but the journal and HTTP receivers have a
  message, those of auditd and OVN have no `structured` of their own, the file of a
  container names its namespace, and the metadata that Vector adds are of the same pod.
* `ConfigGraphProofs`: `NothingDangling`, `NothingIsReplaced`, `FiltersAreInOrder`,
  `NothingGoesAstray`, for every spec that satisfies `SpecsAssumption`, however many inputs, pipelines, filters and outputs of
  whatever types it has. The invariant `GraphInv` has three parts. `IDsOwned`: every id
  belongs to something Conf has gone through (`Belongs`: it is the id of that thing, or
  continues it with one of the words the generator uses there). Two things of one kind
  have no id in common if their names are apart (`ApartBelongs`), those of different
  kinds differ in the first word (`KindFirst`), so what is added is new (`StillFree`) and
  nothing is replaced (`StepKeeps`). `HandedOn`: an output knows the last filters of
  exactly the pipelines wired so far that lead to it, and inputs have ids once they were
  added. `Linked`: those ids resolve, as do the counters that the metrics will refer to;
  the log sources left in the options for the next OTLP sink include one it knows; and
  every component added so far is wired. What one input, pipeline or output adds is
  wired by itself, given what it was handed: `NewSourceWired`, `PipelineWired`, and
  `NewOutputWired` from `LinearWired`, `OTLPWired` and `LokiStackWired`. These go through
  the parts, show that their ids differ and follow each reference and route. `NthIsOne`
  is the fact behind the reordering of filters: there are as many positions as
  `Cardinality` says.
  What arrives is the subject of the other two. Their invariant `FlowInv` says of every
  record in `leaving` what its place implies (`Carried`): at an id of an input it comes from
  that input and has passed no filter; at the k-th filter of a pipeline it comes from an
  input of the pipeline and has passed its first k filters (`Way`); at an id of an output
  it has passed all filters of a pipeline that leads there. Places are told apart by their
  ids (`CarriedIs`, from `ApartBelongs` and `FilterIDsDiffer`). A component is `Sound` if it
  lets nothing else out when nothing else is offered to it; every component that Conf adds
  is (`NewSourceSound`, `PipelineSound`, and `NewOutputSound`, for which it is enough that
  an output's components refer to each other and to what the output was handed), so a
  round of `Flow` keeps `FlowInv`, and no induction over the graph is needed.
  `FiltersPlaced` shows where `AddSystemFilters` puts each filter, from the fact that a
  position's rank leads back to it (`NthOfRank`).

Only model-checked:

* liveness and everything that depends on fairness; `ENABLED`;
* `RotationRolledOut` and `TrafficAdmitted`, which are temporal under fairness;
* `RecordsRouted` of `ConfigGraph` beyond `NothingGoesAstray`: that a settled
  configuration has brought everything to its output needs induction over the paths of
  the graph, and that a record has the type of its origin and reaches the sink of its
  tenant needs each log source and route to be followed;
* the findings, which are counterexamples.

## 7. Not modelled

The VRL programs of single outputs (they shape the record for one receiver), the text
of the admission policies, fields of pod templates and sinks that decide no file, port,
hash or authentication (resources, tolerations, tuning), resource defaults,
ServiceMonitors beyond their existence, telemetry, must-gather and the benchmarker (I/O
without decisions of interest), vendored and generated code. The validation rules of
the API types are modelled where they decide one of the above; the API server enforces
them.
