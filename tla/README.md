# Verification of the Runtime Component Operator

TLA+ specifications of the controllers in this repository, the TLC
configurations that check them on small instances, and proofs that TLAPS checks
for every value of the constants. Paths below are relative to the repository.

    tlasany M.tla                               parse a module
    tlc -config MCM_run.cfg MCM.tla             one run of the table below
    tlapm MProofs.tla                           the proofs of a module (one to three minutes)

## 1. The system

The operator watches two custom resources and keeps the objects they ask for.
It talks to the API server only: it reads through informer caches, which lag
behind, and writes with optimistic concurrency, so a write with an outdated
resource version is refused with a conflict.

| Part | Code | State it keeps | Operations |
|---|---|---|---|
| RuntimeComponent reconcile loop | `internal/controller/runtimecomponent_controller.go`, `utils/reconciler.go` | status of the resource; the owned Deployment, StatefulSet, Service, Knative Service, HPA, Route or Ingress, NetworkPolicy, ServiceMonitor, ServiceAccount, secrets; work queue | read, check capabilities, validate, default and write back, apply or delete each object, report |
| RuntimeOperation controller | `internal/controller/runtimeoperation_controller.go` | conditions Started and Completed; delayed requeue | find the pod, report Started, execute, report Completed, retry |
| Status conditions and intervals | `utils/status.go`, `utils/reconciler.go`, `api/v1/runtimecomponent_types.go` | list of conditions with transition times; `status.reconcileInterval` | set, unset, sort; readiness; wait for the next reconcile |
| Operator configuration | `common/config.go`, `common/common.go` | process-wide map of settings | load from the ConfigMap, check, default |
| Service accounts and pull secrets | `utils/utils.go` | list of pull secrets in the ServiceAccount, status reference | add, replace, remove; hold up the workload until the secret exists |
| Certificates and Route TLS | `utils/reconciler.go`, `utils/utils.go` | issuer, CA and service certificate; their secrets | create, wait, refresh |
| Service binding | `utils/service_binding_reconciler.go` | the secret that exposes the application | create, override, delete |
| Image stream watch | `internal/controller/enqueue_with_matcher.go` | an index in the cache | map an ImageStream to the applications that use it |
| Name conflicts | `utils/utils.go` | none | refuse to manage an object of another owner |
| Customization of owned objects | `utils/utils.go` | none | pure functions from a specification to fields |

How they interact: users edit resources; watches turn changes into keys of a
work queue; a worker takes a key and runs Reconcile to its end, whose result may
ask for a delayed requeue. Reconciles of one resource never overlap; those of
different resources do when MAX_CONCURRENT_RECONCILES (1 unless set) is more than
1, except that operations have one worker. Every part of
the RuntimeComponent loop runs inside Reconcile, and shares the in-memory copy
of the resource; ManageError and ManageSuccess end a reconcile, store the
status, and compute the wait.

What is hard, and was the reason to choose what to model:

* *Caches that lag.* Every decision is taken on a copy that may be behind.
* *Status writes that fail.* Conflicts are the normal outcome of an edit, and
  `Status().Update` of the operation controller ignores them.
* *Events that are filtered.* Creations of owned objects and status changes do
  not trigger reconciles; what is missed must be caught by a retry.
* *A long program of calls, any of which fails*, some aborting the reconcile,
  some reported and ignored, some ignored.
* *Time.* Retry intervals are computed from the age of conditions, by rounding
  arithmetic on values read by two parsers that disagree.
* *Lists updated in place*, with comparisons through pointers to elements, or by
  position.
* *Objects customized in place*: what an earlier specification, the API server or
  another controller has put into an object is where the next one starts from.
* *References in the status* that stand for what was written earlier, and are lost
  with the status write that should have stored them.
* *Shared configuration*, one map that every reconcile resets and fills.
* *Other controllers in between*: cert-manager makes secrets in its own time.

What makes each part correct: operations run once, and their report only moves
forward; applications end in the state their specification declares, never with a
Deployment and a StatefulSet at once, never for an outdated generation, and the status
tells the truth about that; conditions are complete and consistent; waits stay within what the
administrator configured; pull secrets, certificates and bindings follow the
specification, and leave nothing behind.

## 2. Modules

| Module | Role |
|---|---|
| `OperationLifecycle` | abstract: what the status of a RuntimeOperation promises |
| `RuntimeOperation` | the operation controller with queue, watch, edits, lost writes, restarts, time |
| `GenerationTracking` | abstract: what `status.observedGeneration` promises |
| `RuntimeComponent` | the reconcile loop of one RuntimeComponent against cluster, users, caches: which objects, in which order |
| `ObjectContent`, `ExposureContent`, `WorkloadContent` | pure: the Customize functions of every kind, from the object found, the specification and the references to the object written |
| `OwnedObjects` | those contents in reconciles that follow one another, with API server, other controllers, lost status writes, a second operator |
| `Certificates` | issuer, CA and service certificate between the reconcile, cert-manager and the cache |
| `OperatorConfig` | the map of configuration shared by concurrent reconciles, and the migration of version 1.4.1 |
| `StatusConditions` | pure: the functions on the list of conditions |
| `ReconcileStatus` | how a reconcile ends: conditions and the wait for the next |
| `RuntimeOperationProofs`, `RuntimeComponentProofs`, `OperatorConfigProofs`, `OwnedObjectsProofs`, `CertificatesProofs`, `StatusConditionsProofs` | TLAPS proofs about the module of that name |
| `ReconcileStatusProofs` | about ReconcileStatus, from the lemmas of StatusConditionsProofs |
| `SettledProofs` | SettledAsDeclared of RuntimeComponent, from RuntimeComponentProofs |
| `MC*` | constants for TLC; each run is a `.cfg` named `MC<module>_<run>.cfg` |

Operators introduced by a comment "Fault:" are versions of the definition after
them with a plausible bug. No specification uses them. Substituted for their
neighbour they make a property fail, which shows that the property can.

The modules look at one reconcile from different sides, each abstracting what
another keeps. RuntimeComponent has the order of calls, caches and failures and
keeps of an object only the specification it was made from. OwnedObjects has the
contents, and lets a call fail or a status be lost without saying how. Certificates
takes the one step "Certificate" of RuntimeComponent apart; ReconcileStatus its
ManageError and ManageSuccess; OperatorConfig what comes before the validation.

### RuntimeOperation

One action per stretch of `Reconcile` between two points where another actor can
interfere. `Begin` and `SkipDone` are the cached read and the early returns
(56-90); `FailToStart` the three branches that find no usable container (92-121)
with `handleStartErrorAndRequeue` (203-228); `RecordStart` the write of Started
(123-129), whose error is dropped; `Execute` the start of the command (131);
`Complete` its end and the write of Completed (133-159). `StatusUpdate` is the
write: it succeeds only with the latest resource version, or is dropped, and the
caller cannot tell. `Deliver` is the watch with its predicate (183-191):
status writes trigger nothing, edits do. Time advances in `Tick`, outside
handlers but during a command; ages saturate at `Cap`, which stands for the six
hours of the code, so nothing is lost by saturation: only comparisons with the
cap see it. `execs`, `recorded` and `retry` are history variables.

### RuntimeComponent

A specification is the *set of features* it asks for; an owned object is the
specification it was last customized from, with the image if it is a workload, or
`Absent`. `Reconcile` is a
straight line of about thirty steps with conditions, so it is the constant
sequence `Program`, made of four sections of the code: each step applies, deletes or checks, for a set of
specifications, with one of three treatments of an error (return it, report it
and go on, ignore it) and possibly a lookup of an API before it. The actions
interpret that program: `ApplyObject` is CreateOrUpdate against the cached
object, with a conflict or AlreadyExists when the cache is behind; `DeleteObject`
goes to the server; `CheckFails` covers `ServiceAccountPullSecretExists`, which
reads the cache, and the certificate. Before the program come `DiscoverKnative`,
`Reject` (validation), `Fence` (the defaulting `Update(instance)` whose conflict
keeps out stale copies) and the image steps; after it `ManageSuccess`,
`FinishWithoutKnative`, `ManageError`. The latter has three kinds of caller,
told apart by `at`: "error" returns its result, "reject" drops the requeue,
"report" drops the result and continues.

The new image (`"newImage"`) is, on OpenShift, the name of an ImageStream, which
does not exist at first. `Image` is what Reconcile makes of the name at that moment
(202-220): what the tag stands for, read from the API server and not from a cache,
or the name itself. `FindImage` takes it; in `MissTag` the discovery behind
`IsOpenShift` fails, which counts as another platform (`reconciler.go:511-518`), or the
tag may not be read, and the bare name is taken; `ImageFails` is the error that is
returned. `KeepImage` and `StoreImage` compare the result with the image in the status
and store it before anything is done with it (226-234). `ImageStreamChanges` pushes or deletes, `DeliverImageStream` is
the watch (`enqueue_with_matcher.go`): it queues the resources that `Match` finds in
the index of the cache, which may lag behind an edit, and loses the event when the
lookup fails.

`missed` is a history variable: what the reconcile under way, or the last one, did
not get done because the code swallowed an error (`Swallow`): the discovery of Knative
(157), a deletion whose error is dropped or only reported (282, 318), the lookup of an API,
the platform while an image is looked up (`MissTag`) or a Service or NetworkPolicy is
customized (`ApplyElsewhere`: it becomes what another platform needs), the lookup of
those that name an ImageStream, and the one status write that reports a rejection
(176). Each adds the kind of object, "image" or "rejection"; the next `Begin` clears it.

`Kinds` restricts the owned objects that are tracked, so that each run can look
at a few; steps on other kinds are skipped. The steps themselves do not interact
except through the kinds they share, so the runs choose kinds that belong
together.

### The contents of owned objects

An object is a record with one field per thing its Customize function sets, a map
is a function with a finite domain, and a name or an address is a value of which
only equality matters. `CustomizeX(old, s, ...)` is the object that the Go function
leaves when it is called on `old`; the order of its assignments is kept where one
reads what another wrote. Where the code keeps what it finds (annotations are
merged, ports are matched by position, pull secrets are removed only if the status
names them) the operator does too.

`OwnedObjects` follows a *track*: a sequence of kinds in the order they are
reconciled. `Begin` checks names, validates and writes the defaults back; `Apply`
computes the object of the step, has the API server default, allocate and judge it
(`Stored`, `Accepted`: external, as far as the code relies on them), and keeps the
references for the status; `ApplyFails` is a failed call, before or after the
customization of a Route or ServiceAccount has noted its reference in memory (`Noted`);
`CannotApply` is content that cannot be computed or is refused;
`WriteStatus` stores the references and `LoseStatus` does not. For an application on
Knative the kinds of other workloads are deleted and two are left alone (`LeaveAlone`).
The version of the ServiceAccount goes into the references for a user's own account, too,
which has no pull secrets here and does not change. Around it users
edit, secrets change, others add annotations, secrets and replicas, and another
operator owns a workload of the name.

### Certificates

One action per step of `GenerateSvcCertSecret` and `GenerateCMIssuer`; an early
return ends the reconcile, which is repeated. A resource version or a content is a
number nobody remembers, so that old ones can be told from new ones and the state
space stays finite. `StoreCertificate` records the version of the issuer and
`RefreshSecret` deletes the secret, with a failure or a restart in between; `lost`
remembers that. cert-manager signs when the issuer is ready and the secret is
missing or signed by another issuer; the cache catches up in its own time. A read of
the custom CA that fails counts as one that found nothing (`reconciler.go:687-691`): the
issuer is then given the operator's own CA. A version is compared only with the one the
certificate records, so two of them are enough.

### OperatorConfig

Workers run reconciles of different resources over one map. Every store into the
map is an action, the loop over the keys takes any order (a Go map), and a check, the
store of a default, the two halves of the migration and the final use are actions of
their own. The map starts empty, and stays so until the first reconcile when the
operator finds a ConfigMap at its start. `CreateConfigMap` *replaces* the map,
unsynchronised: a store that was about to go to the old one is lost (`Replaced`).
`WriteDefaults` then writes the map, as others have filled it by that time. `overlapped` remembers that
somebody else has changed the map or the ConfigMap since a reconcile began; what
the code promises under concurrency is exactly what holds without it.

### ReconcileStatus and StatusConditions

`ManageError` and `ManageSuccess` as functions on the status in memory
(`Failed`, `Succeeded`), composed of the code's own functions, and two actions
that store the result or fail to. In ManageError the old condition is compared
through a pointer into the list that `SetCondition` has overwritten by then
(`reconciler.go:359`, 364, 395), so the comparison is always equal and is left out.
Configured values are in tenths of a second, so that the two parsers
(`ParseFloat`, `Atoi`) can be told apart. Transition times are ages.

## 3. Runs

| Run | Checks | Bounds, and why they are enough |
|---|---|---|
| `lifecycle` | TypeOK, RecordedStartOnce, RepetitionsExplained, ImplementsLifecycle, EventuallyStarted | one operation; one each of edit, lost write, restart; two pod changes; stale reads. Each hazard can meet each other one; that two meet twice is covered by the proofs |
| `backoff` | BackoffDoubles, EventuallyReported | two operations on one worker, one pod change, a cap of 3 s that a second retry reaches, no failures: the guarantee of the guide holds only without these. BackoffDoubles is also proved |
| `workloads` | TypeOK, OneWorkload, NoRollback, KnativeAfterCleanup, ImplementsTracking | three specifications, two edits, one failure (returned or swallowed), one restart: a switch can be interrupted and turned back while its copy is stale. OneWorkload is about Deployment and StatefulSet: a Deployment can stand beside a Knative Service whose deletion failed (`controller.go:313-319`). All five are also proved |
| `settled` | SettledAsDeclared | two specifications, one of which is on Knative, names an ImageStream and an account of its own; a watched Service and Knative Service and an unwatched ServiceAccount; two edits, one failure of any kind, and one push or deletion by others: a push can come before, during and after an edit and the reconcile of it. What the last reconcile `missed` is excepted, each for itself; no restart here. Also proved, for any specifications, failures and restarts |
| `openshift` | Converges | Route, binding secret and Knative Service; the binding secret is not watched, so that only the periodic reconcile repairs it; an edit, a push or a deletion by others, and a failure of an apply, a deletion, a check, a swallowed call or the lookup of the watch. HPA and NetworkPolicy are applied and deleted like the binding secret; failing reads, fences and status writes are those of `kubernetes` |
| `kubernetes` | Converges, RefusalReported | no Route, no Knative; an invalid specification and one that needs Knative; one edit and one failure, of the read, the fence, a status write, an apply, a check or a swallowed call. Converges meets the ServiceAccount that reaches the cache late, RefusalReported the status write of a rejection, which it excepts when it is lost |
| `status` | TypeOK, ConditionsKept, WarningUpToDate, ReadyReplicasCount, PeriodicallyReconciled, ReadyMeansReconciled, DelayWithinBounds, DelayGrows, FailureReachesMaximum | with the interval shown: minimum 2 s, maxima 8 s and 12 s, increases of 0, 50 and 100 %, ages to 13 s, past both maxima and three roundings at 50 %. With it hidden: all counts up to 3 replicas for 1 or 1-2 wanted, failing lookups and writes. All nine are also proved |
| `content` | TypeOK, RecordedUnlessLost, RejectionsExplained, NothingLeftBehind, OthersKept, OwnersRespected, Idempotent | every kind alone, and the binding secret with its Route; four to ten specifications for each that vary every field its content depends on, visited in any order; two clusters where it matters; one failed or lost write. All but NothingLeftBehind and Idempotent are also proved |
| `instep` | EventuallyInStep | the kinds that copy from each other: ports through Service, NetworkPolicy, Deployment, Ingress and ServiceMonitor; Route and binding secret; ServiceAccount and pods |
| `certificates` | TypeOK, PodsGetRenewedSecret, EventuallyCurrent | two changes (mode, custom issuer, own CA, CA, renewal) and one failure or restart: a change can come during the refresh that another caused. The safety properties are also proved |
| `config` | TypeOK, UsesWhatItRead, MigrationFaithful, EventuallyMigrated | two reconciles at a time, five ConfigMaps (valid, an invalid value for each key, 100 %, no data), one edit or deletion, one failed call. The safety properties are also proved for any number |
| `recreated` | RouteRecreatedOnce, violated | finding 1 |

Deadlock is checked everywhere but in `kubernetes`, where the system really may
stop: a refused specification that nobody edits has nothing to wait for.

**Fairness.** Controller-runtime workers serve their queue in order, informers
deliver, timers fire, and commands end, so those actions are fair: weakly where
nothing but the action itself disables it, strongly for taking an operation from
the queue (another operation may hold the worker for a while, again and again)
and for the clock (it stands still inside handlers). In OwnedObjects, Certificates
and OperatorConfig the steps of a reconcile are weakly fair, which stands for the
periodic reconcile that ends every one of them (`status`: PeriodicallyReconciled);
so are cert-manager and the cache. Users, administrators, pods, other controllers,
failing calls and restarts are never fair, and are bounded; liveness is about what
happens after the last of them.

**A disagreement TLC exhibits**

1. A `spec.route` with a host is removed while the application stays exposed.
   `CustomizeRoute` then leaves the status reference `routeHost` as it was, so
   `ShouldDeleteRoute` answers true for ever, and every reconcile deletes the Route
   and creates another with a generated host. The comment says "If the host is now
   empty, delete the old route" (`utils/utils.go:1961-1965`). EventuallyInStep
   excepts this case by name (`Recreating`).

**Disagreements the properties allow for**, by an explicit exception or hypothesis:

Images:

* An ImageStream is looked up by the namespace and the name in `applicationImage`,
  whatever registry or digest stand beside them (`controller.go:207-213`). The guide
  says the full reference, as in `docker.io/my-company/my-app`, tells an image from an
  ImageStream of that name (`user-guide-v1.adoc:236`). How a reference is taken apart is
  up to a library outside this repository, and not modelled.
* A failed discovery of OpenShift is swallowed (`controller.go:203`): the bare name
  takes the place of the tag, is rolled out, and Reconciled becomes True; so does a tag
  that may not be read (222). The next reconcile repairs it, and SettledAsDeclared excepts
  it (`missed`). Any other failed read of the tag puts the bare name into the status with
  an error (`ImageFails`), until the next reconcile. An event whose lookup fails is lost (`Converges` waits for the
  periodic reconcile).

Operations and status:

* The status write of Started may conflict; the command runs all the same, and
  once more after the edit that caused the conflict (RepetitionsExplained counts
  it). The guide says a resource cannot be reused (`user-guide-v1.adoc:438`).
* An edit during the command makes the write of Completed conflict, and the outcome
  is never reported; an edit between two attempts shortens the retry interval.
* A failed discovery of Knative is reported, and overwritten by the success of the
  same reconcile: Reconciled is True while a Knative Service that should be gone is
  left, until the periodic reconcile (`controller.go:157`, `troubleshooting.adoc:61`).
  SettledAsDeclared excepts the Knative Service then (`missed`), and likewise each
  object whose API lookup or deletion failed without ending the reconcile.
* A rejected specification is not requeued, whatever ManageError asks for
  (`controller.go:174-176`): when the one write of Reconciled = False is lost, the status
  keeps what it said before, True for instance, until somebody edits. RefusalReported
  excepts that write. When it was a conflict, the edit behind it reconciles again.
* `ManageError` means to start the interval over when the error is another one, but the
  comparison finds no difference (`reconciler.go:359`, 364, 395), and the wait of the
  last error goes on growing.
* A failed lookup of the Route API sets Reconciled to False in the middle of
  `CheckApplicationStatus`, which then sets Ready to True (`reconciler.go:878`).
* `reconcileIntervalMinimum: 0.5` passes the check and turns the periodic
  reconcile off, since `Atoi` makes it 0 (`reconciler.go:280`); the configurations of
  `status` are whole seconds (`WholeSeconds` in the theorems).
* `ManageError` starts over from the minimum whenever `status.reconcileInterval` is
  empty (`utils/reconciler.go:395`), and with `showReconcileInterval` off, which is
  its default (`common/config.go:199`), the interval is always removed from the
  status: a failure that repeats is retried at the minimum for ever, though the
  guide says that the increase "is enabled by default" (`user-guide-v1.adoc:344`).
  FailureReachesMaximum is about configurations that show the interval.

Owned objects:

* The Knative branch returns before it deletes ServiceMonitors and binding secrets
  (`Leftovers`), and before the cleanup of the Certificate (`Current`).
* A node port of an additional port reaches the headless Service, where the API
  server refuses it; a port, the primary one included, inherits the node port of the
  one that had its position, which another may ask for; a claim added to an existing
  StatefulSet, or mounted under another name than it was made with, is refused.
  RejectionsExplained says that these are all: whatever else is refused would be
  refused of a new object, too.
* Taken out of the specification but kept in the object: annotations, the insecure
  policy of a Route, settings of a ServiceMonitor, the port name of a Knative Service
  (`Settings`).
* A target port of a Service that is a name becomes 0 (`utils.go:256`), for which the
  API server takes the port itself, whereas the NetworkPolicy admits the name
  (`utils.go:467`). PortsAgree is checked for target ports that are numbers.
* A status write that is lost leaves a pull secret or a Route host behind that
  nothing removes later (RecordedUnlessLost, NothingLeftBehind).
* `MergeTopologySpreadConstraints` remembers the index of a topology key in its own
  list and uses it in the merged one: with repeated keys it replaces the wrong entry,
  or panics (`utils.go:1336`). The specifications of `content` repeat no key where the
  defaults are on. Where they do, `CannotApply` would store the status, while
  the recovered panic skips ManageError.

Certificates and configuration:

* The version of the issuer is recorded before the secret is deleted, and errors of
  the deletion are dropped: lost once, the deletion is not repeated (`lost`). A read
  that fails records an empty version, and costs two needless refreshes.
* With two workers a reconcile may compute its interval from a minimum another one
  has stored and not checked yet, for which the loop need not end; the default of one
  may be written over the administrator's percentage by the migration of another.
  Both need `overlapped`.
* The migration panics when the ConfigMap could not be read or has no data; the
  panic is recovered and the reconcile repeated, without data for ever
  (EventuallyMigrated assumes data). A percentage of 100 set on purpose is
  halved by it.

## 4. Proofs

For every value of the constants, from the assumptions the modules state
(`OperationAssumption`, `ComponentAssumption`, `ConfigAssumption`, `ModesAssumption`:
that sets are sets of what they should hold, and bounds are numbers;
`StatusAssumption`: configured values are positive numbers and the increase is none
or more; `WorkloadAssumption`: counts are among the replicas there are;
`OwnedAssumption`: specifications have the fields the API gives them, lists are lists).
Hypotheses beyond them are named in the theorem (`Quiet`, `WholeSeconds`,
`SecretOfOthers`) and explained here.

`RuntimeOperationProofs`, for any set of operations and any cap of at least two:

* `TypeCorrect`: `Spec => []TypeOK`.
* `RecordedOnce`: at most one execution of an operation belongs to a reconcile
  that stored Started. `recorded <= 1` is not inductive: a reconcile about to
  record must be kept from doing so when one has. `RecordInv` adds that the
  latest copy agrees with the stored status (`CopiesAgree`: a stale copy may say
  anything, but cannot be written), that Completed implies Started, and that a
  recorded execution has left Started = True behind (`RecordKept`).
* `Repetitions`: a command runs at most once more than there were edits and
  restarts. `ChanceInv` counts what may still lead to an execution: a queued key,
  an undelivered edit, a pending timer, a reconcile on its way. Executions plus
  chances never exceed one plus edits plus restarts; lost writes and stale reads
  add none.
* `Implements`: RuntimeOperation implements OperationLifecycle under the mapping
  of the stored Started and Completed. `RecordInv` is what makes a write of the
  failure to start, or of an outcome, a step of the abstract specification.
* `Doubles`: BackoffDoubles under `Quiet` (no edits, lost writes, restarts or stale
  reads; without it the guarantee does not hold). The retry interval is computed from
  the age of the condition, so the invariant `WaitsInv` relates them: the last
  interval is at most that age plus what is left on the timer, and a reconcile
  finds the timer run out.

`RuntimeComponentProofs`, for any specifications, kinds, watches, cluster and
failing calls:

* `TypeCorrect`. The step after a step is a CHOOSE; that there is one
  (`NextStep`) needs that a set of numbers has a least element (`LeastElement`,
  from the well-foundedness of <). `Position` says where the reconcile stands:
  the step it is at is one that its copy of the specification asks for, and it
  reports only on steps whose failure is reported.
* `NeverBack`: NoRollback. `Generations`: a copy that is still current has the
  generation of the resource, and past `Fence` a copy is not older than the report.
* `Implements`: RuntimeComponent implements GenerationTracking, since a report is
  stored only with a current copy.
* `Apart` and `CleanedUp`: OneWorkload and KnativeAfterCleanup. Neither is
  inductive: what matters is not the objects but that the reconcile *has been past*
  a deletion. `Past(i, k, specs)` says that a reconcile of one of `specs` beyond
  step `i` finds no `k`. `PastStep` proves it of every step that deletes `k` and whose
  specifications no step creates `k` for: to come past step `i` the reconcile must take it
  (`Moves`, `NextStep`), its error aborts, and what is created meanwhile is for
  other specifications (`Creation`). `Switched` and `Cleared` are its instances for
  the eight deletions in question. A faulty order of steps in Program breaks
  `Deletions`, `Creations` or the conclusion, an error that does not abort breaks `Moves`.

`SettledProofs`, for the same:

* `SettledCorrect`: SettledAsDeclared. What must hold at the end has to be known at
  every point before it. `Copies` says that a copy of the current generation is
  worth something and a reconcile of an older one is not the last (`Pending`);
  `Caches` that the cache differs from the cluster only where an event is on its
  way, or where an object was created, which sends none; `Worked` that every step
  behind the reconcile has left its object as the copy has it, or an event will
  bring it back; `ImageKnown` the same of the tag; `Rested` carries this from
  the report to the rest. `Covered` shows from the tables of Program that for each
  kind and each specification a step takes care of it. Each of these leaves out what
  is in `missed`, which only grows within a reconcile, and is emptied when the next one
  begins, for which everything is to be done again.

`StatusConditionsProofs` and `ReconcileStatusProofs`, for any configurations, counts
and ages:

* `SetConditionElements`: on a list in order, with one condition of a type,
  SetCondition changes that condition or adds it, keeps the others, and leaves the
  list in order. `AfterUnset`: then Warning is last, so that UnsetCondition, which
  cuts the list there, drops nothing else. Both rest on `SortedList`.
* `ConditionsAreKept`, `WarningsUpToDate`, `ReplicasCounted`, `ReadyIsReconciled`: from the
  invariant `ConditionsOK` (the list is in order) and one lemma per function of
  the code on what it leaves in the status (`AfterWarnings` to `AfterSucceeded`).
* `TypesCorrect`, `FailuresReachMaximum`: with `WaitsOK`, that waits are numbers and
  that the interval is in the status exactly where it is to be shown.
* `AlwaysReconciled`, `DelaysWithinBounds`, `DelaysGrow`, for configurations of whole
  seconds, which `updateReconcileInterval` states as its precondition
  (`reconciler.go:295`) and nobody enforces. The loop of that function is a recursive
  function on numbers; that it exists (`CountDown`, `ExponentStep`), grows with the
  time (`ExponentGrows`) and never takes the minimum past it (`ExponentBound`) is
  proved from sets that hold the next of each number (`AllNumbers`). DelayGrows needs
  `Grown`: the last wait is at most what the next reconcile would compute from the
  conditions there are, which only get older.

`OwnedObjectsProofs`, for any tracks, specifications, clusters and faults:

* `TypeCorrect`, `OwnersAreRespected` (`OwnersKnown`: the reconcile has seen the
  owners there were when it began).
* `RecordedCorrect`: RecordedUnlessLost. In the middle of a reconcile the
  status in memory, not the stored one, is in step (`InStepUnlessLost`). The lists of
  pull secrets are lists of names (`Listed`); removing one from another is a recursive
  function (`SetDiffElements`).
* `OthersAreKept`, for specifications that do not name the secret of others
  themselves (`SecretOfOthers`): the secret is then in no status either (`Unnamed`).
* `RejectionsAreExplained`: RejectionsExplained compares what is written with a new
  object, which is never computed. `Complete` says that a reconcile works on a
  specification with its defaults, `AllFormed` which form objects have whatever
  was written before (a pod template has one port at most, ports and claims are
  lists with their fields). `ServiceComputed`, `PodComputed` and
  `PersistenceComputed` say which part of what is written depends on what was there;
  where nothing does, the two are judged alike (`PodsAlike`), and where the node
  port of a position does, that port is the one the exception names (`ServiceFits`).
  That the API server always finds a free port for those without one is a matter of
  counting (`PortsSuffice`, `PortsDiffer`).

`CertificatesProofs`, for any modes and changes:

* `TypeCorrect`. A version is new if nobody remembers it; that there is one needs
  that fewer are remembered than there are (`VersionIsNew`, `ContentIsNew`).
* `RenewedSecrets`: PodsGetRenewedSecret. A form of an issuer that the certificate
  records does not come back once it has gone (`FormStays`), so where the recorded
  form is the present one the secret in the cluster is signed in it (`Renewed`), or its
  deletion was lost.

`OperatorConfigProofs`, for any number of workers and any ConfigMaps:

* `TypeCorrect`, `UsesOwn` (UsesWhatItRead) and `Faithful` (MigrationFaithful).
  The invariant `Undisturbed` says what a reconcile knows of the two maps at each
  of its places while nobody has come in between: the keys already stored have
  their values, the ones already checked are valid, after the checks the map is
  the effective one. `Others` shows that every step of one worker either leaves the
  maps alone or tells all the others, `Own` that its own steps keep what it knows.

Only model-checked: liveness (EventuallyStarted, EventuallyReported, Converges,
RefusalReported, EventuallyInStep, EventuallyCurrent, EventuallyMigrated), which is
out of the prover's reach; NothingLeftBehind and Idempotent, which compare whole
objects of every kind, field by field. EventuallyStarted and its likes are checked for
the bounds of the runs only.

## 5. Not modelled

* Deletion of a custom resource: its reconciles end, and Kubernetes collects what
  it owns. Other errors of reading it.
* Taking an image reference apart, which a library does; and the list of
  namespaces the lookup of an ImageStream goes through, which lags behind for a new one.
* Of the configuration, the log level and the defaults that other operators built
  on this library add; the two maxima are checked like the minimum.
* The list of endpoints in the status, and the wording of messages.
* Discovery that fails while an annotation is computed (`controller.go:179`), and the
  discovery errors that SetupWithManager ignores (651-667): the latter leave a kind
  unwatched, which the constant `WatchedKinds` covers.
* That the version of a ServiceAccount is read from the cache: OwnedObjects reads what
  was just written (the cache is in RuntimeComponent, without versions).
* API v1beta2, the generated deep copies and the accessors of the types: no state,
  or no controller. Start-up of the manager: flags and registration.
* That the migration reads the ConfigMap through the cache, which fails for ever if
  the operator's own namespace is not watched: a matter of set-up.
* Several RuntimeComponents at once: they share only the configuration, modelled in
  OperatorConfig, and names, modelled in OwnedObjects.

## 6. Plan

1. NothingLeftBehind and Idempotent as theorems, kind by kind, from `Complete`,
   `AllFormed` and the `...Computed` lemmas of OwnedObjectsProofs.
2. `LeastElement`, needed in four proof modules, in one place.
3. EventuallyInStep with the caches of RuntimeComponent between the objects.
4. ImageStreams and the contents in OwnedObjects together: the image in the pods
   through lost status writes.

Runs are few and each asks a question of its own; where a new module composes
with an old one, the new run replaces the old.
