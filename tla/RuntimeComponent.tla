-------------------------- MODULE RuntimeComponent --------------------------
(***************************************************************************)
(* The reconcile loop of one RuntimeComponent custom resource              *)
(* (internal/controller/runtimecomponent_controller.go and the methods of  *)
(* utils/reconciler.go it calls), against an API server it shares with     *)
(* users, and informer caches that lag behind that server.                 *)
(*                                                                         *)
(* A specification of the resource is the set of the features it asks for. *)
(* An owned object is the specification it was last customized from, with  *)
(* the image if it is a workload, or Absent.  Reconcile is a straight-line *)
(* program over the kinds of object, every step of which applies to some   *)
(* specifications only (Program).  The image may be a tag of an            *)
(* ImageStream, which is read from the API server, and whose changes are   *)
(* watched.  Reconciles of one resource never overlap, so there is one.    *)
(***************************************************************************)
EXTENDS Integers, Sequences, FiniteSets

CONSTANTS
  Specs,               \* specifications the users of the resource choose from
  Absent,              \* an object that does not exist
  Kinds,               \* the kinds of owned object that are tracked; a cluster
                       \* without the ServiceMonitor API is one that lacks it
  WatchedKinds,        \* those SetupWithManager watches: no ServiceAccount, no
                       \* NetworkPolicy, and none whose API it did not find
  OpenShift,           \* the cluster has Routes, and so no Ingress is used, and
                       \* has ImageStreams
  KnativeInstalled,    \* the cluster has the Knative Serving CRDs
  Periodic,            \* a successful reconcile asks for another one later
  FaultyCalls,         \* the calls to the API server that may fail
  MaxEdits,            \* bound on the edits users make
  MaxFaults,           \* bound on the failures of calls
  MaxDrift,            \* bound on what others do: owned objects they delete,
                       \* images they push to the ImageStream
  MaxCrashes           \* bound on the restarts of the operator

Features == {"knative", "statefulSet", "expose", "autoscaling", "monitoring",
             "networkPolicy", "bindable", "serviceAccount", "sameAccount", "newImage",
             "badStorage"}

ObjectKinds ==
  {"ServiceAccount", "Service", "HeadlessService", "NetworkPolicy", "BindingSecret",
   "Deployment", "StatefulSet", "HPA", "Route", "Ingress", "ServiceMonitor",
   "KnativeService"}

Workloads == {"Deployment", "StatefulSet", "KnativeService"}

\* The images the resource may have in its status: the names it may ask for, and
\* what is pushed to the ImageStream.
Images == {"none", "old", "new", "pushed"}

\* What an owned object is customized from; "elsewhere" marks one customized for
\* another platform than the cluster's.
Contents == [spec : Specs, image : Images \cup {"elsewhere"}]

Missable == ObjectKinds \cup {"image", "rejection"}

\* "swallowed" stands for the calls whose error is reported or dropped, but not
\* returned, "match" for the lookup of those that name an ImageStream.
Calls == {"read", "fence", "status", "apply", "delete", "check", "swallowed", "match"}

ASSUME ComponentAssumption ==
  /\ Specs \subseteq SUBSET Features
  /\ Absent \notin Contents
  /\ Kinds \subseteq ObjectKinds
  /\ WatchedKinds \subseteq Kinds
  /\ {OpenShift, KnativeInstalled, Periodic} \subseteq BOOLEAN
  /\ FaultyCalls \subseteq Calls
  /\ {MaxEdits, MaxFaults, MaxDrift, MaxCrashes} \subseteq Nat

VARIABLES
  spec,      \* the specification stored by the API server
  gen,       \* its generation
  defaulted, \* whether the stored specification has the defaults filled in
  status,    \* stored status: observed generation, Reconciled condition
  objs,      \* the owned objects stored by the API server
  stream,    \* the ImageStream of the new image: what its tag stands for, and
             \* whether its last change is on its way to the controller
  seen,      \* the cached copy of the resource: specification and generation
  fresh,     \* whether that copy is the stored version
  cache,     \* the cached copies of the owned objects
  news,      \* whether an update or deletion of a watched object is on its
             \* way to the cache
  queued,    \* whether the work queue holds the resource
  timer,     \* the delayed requeue that is pending, if any
  at,        \* how far the reconcile has come
  step,      \* the step of Program it is about to take
  held,      \* the copy of the resource it works on
  spent,     \* how much of each bound is used up
  missed     \* what was missed because an error was swallowed since the last
             \* reconcile began: kinds of object, the image, or the report of a
             \* rejection

resource == <<spec, gen, defaulted, status>>
cached   == <<seen, fresh, cache, news>>
queue    == <<queued, timer>>
control  == <<at, step, held>>
history  == <<spent, missed>>          \* read by no step of the controller
vars     == <<resource, objs, stream, cached, queue, control, history>>
-----------------------------------------------------------------------------
(***************************************************************************)
(* The program of Reconcile.  A step applies (CreateOrUpdate), deletes     *)
(* (DeleteResource) or checks something for the specifications in "when";  *)
(* its failure aborts the reconcile, is reported and ignored, or is just   *)
(* ignored.  Before a step whose API is looked up, the controller asks     *)
(* whether the cluster has that API; when there is no answer it skips the  *)
(* step, and reports that or not, or takes the step as on another          *)
(* platform.                                                               *)
(***************************************************************************)
With(f)    == {s \in Specs : f \in s}
Without(f) == {s \in Specs : f \notin s}
Knative    == With("knative")
Plain      == Without("knative")

\* Fault: the test of the platform is inverted.
IfNot(condition, specs) == IF condition THEN {} ELSE specs

If(condition, specs) == IF condition THEN specs ELSE {}

Step(op, kind, when) ==
  [op |-> op, kind |-> kind, when |-> when, onError |-> "abort", lookup |-> "none"]
Apply(kind, when)      == Step("apply", kind, when)

\* Fault: a deletion that fails is reported, and the reconcile goes on.
TryDelete(kind, when)  == [Step("delete", kind, when) EXCEPT !.onError = "report"]

Delete(kind, when)     == Step("delete", kind, when)
Check(what, when)      == Step("check", what, when)
OnError(how, st)       == [st EXCEPT !.onError = how]
LookedUp(how, st)      == [st EXCEPT !.lookup = how]

\* An account that has the name of the application is left alone.
AccountSteps == <<
  Apply("ServiceAccount", Without("serviceAccount") \cap Without("sameAccount")),
  Delete("ServiceAccount", With("serviceAccount")),
  Check("PullSecret", Specs)
>>

\* Clean up what a Knative Service replaces, then apply it.
KnativeSteps == <<
  Delete("Service", Knative),
  Delete("HeadlessService", Knative),
  Delete("Deployment", Knative),
  Delete("StatefulSet", Knative),
  Delete("HPA", Knative),
  Delete("NetworkPolicy", Knative),
  LookedUp("ignore", OnError("ignore", Delete("Ingress", Knative))),
  LookedUp("ignore", Delete("Route", If(OpenShift, Knative))),
  Apply("KnativeService", Knative)
>>

WorkloadSteps == <<
  OnError("report", Delete("KnativeService", Plain)),
  Check("Certificate", Plain),
  LookedUp("guess", Apply("Service", Plain)),
  LookedUp("guess", Apply("NetworkPolicy", Plain \cap With("networkPolicy"))),
  Delete("NetworkPolicy", Plain \cap Without("networkPolicy")),
  Apply("BindingSecret", Plain \cap With("bindable")),
  Delete("BindingSecret", Plain \cap Without("bindable")),
  Delete("Deployment", Plain \cap With("statefulSet")),
  Apply("HeadlessService", Plain \cap With("statefulSet")),
  Apply("StatefulSet", Plain \cap With("statefulSet")),
  Delete("StatefulSet", Plain \cap Without("statefulSet")),
  Delete("HeadlessService", Plain \cap Without("statefulSet")),
  Apply("Deployment", Plain \cap Without("statefulSet")),
  Apply("HPA", Plain \cap With("autoscaling")),
  Delete("HPA", Plain \cap Without("autoscaling"))
>>

\* An Ingress is used where there are no Routes.
ExposureSteps == <<
  LookedUp("report", Apply("Route", If(OpenShift, Plain \cap With("expose")))),
  LookedUp("report", Delete("Route", If(OpenShift, Plain \cap Without("expose")))),
  LookedUp("report", Apply("Ingress", If(~OpenShift, Plain \cap With("expose")))),
  LookedUp("report", Delete("Ingress", If(~OpenShift, Plain \cap Without("expose")))),
  LookedUp("report", Apply("ServiceMonitor", Plain \cap With("monitoring"))),
  LookedUp("report", Delete("ServiceMonitor", Plain \cap Without("monitoring")))
>>

Program == AccountSteps \o KnativeSteps \o WorkloadSteps \o ExposureSteps

Done == Len(Program) + 1

\* Whether a reconcile of the copy h takes step i.
Runs(i, h) ==
  /\ h.spec \in Program[i].when
  /\ Program[i].op # "check" => Program[i].kind \in Kinds
  /\ Program[i].kind = "KnativeService" => h.knative

\* The step taken after step i, or Done.
After(i, h) ==
  CHOOSE j \in i + 1 .. Done :
    /\ j # Done => Runs(j, h)
    /\ \A m \in i + 1 .. j - 1 : ~Runs(m, h)
-----------------------------------------------------------------------------
Bounds  == {"edits", "faults", "drift", "crashes"}
Tags    == {"none", "pushed"}
Status  == [observed : Nat, reconciled : {"None", "False", "True"}, image : Images]
Copy    == [spec : Specs, gen : Nat, current : BOOLEAN, knative : BOOLEAN, image : Images]
NoCopy  == [spec |-> CHOOSE s \in Specs : TRUE, gen |-> 0, current |-> FALSE,
            knative |-> FALSE, image |-> "none"]
Objects == [Kinds -> Contents \cup {Absent}]

\* The name of the image in a specification, and whether an ImageStream is
\* indexed under that name.
ApplicationImage(s) == IF "newImage" \in s THEN "new" ELSE "old"
NamesStream(s)      == OpenShift /\ "newImage" \in s

\* The image a specification asks for: what the tag of that name stands for, or
\* the image of that name if there is no such tag.
Image(s) == IF NamesStream(s) /\ stream.tag # "none" THEN stream.tag ELSE ApplicationImage(s)

\* An object of kind k customized from a specification and its image.
Content(k, s, image) == [spec |-> s, image |-> IF k \in Workloads THEN image ELSE "none"]

\* Where the reconcile stands: reading the cluster's capabilities, about to
\* write the resource back, looking the image up, storing it, running Program,
\* or in ManageError, from which it returns with a requeue ("error"), returns
\* without one ("reject"), or goes on as if nothing had happened ("report").
Positions == {"idle", "discover", "fence", "image", "store", "run", "error", "reject",
              "report"}

\* A requeue after a success, or the earlier one after a failure.
Timers == {"none", "periodic", "retry"}

TypeOK ==
  /\ spec \in Specs
  /\ gen \in Nat
  /\ defaulted \in BOOLEAN
  /\ status \in Status
  /\ objs \in Objects
  /\ stream \in [tag : Tags, news : BOOLEAN]
  /\ seen \in [spec : Specs, gen : Nat]
  /\ fresh \in BOOLEAN
  /\ cache \in Objects
  /\ news \in [Kinds -> BOOLEAN]
  /\ queued \in BOOLEAN
  /\ timer \in Timers
  /\ at \in Positions
  /\ step \in 0 .. Done
  /\ held \in Copy
  /\ spent \in [Bounds -> Nat]
  /\ missed \subseteq Missable

Init ==
  /\ spec \in Specs
  /\ gen = 1
  /\ defaulted = FALSE
  /\ status = [observed |-> 0, reconciled |-> "None", image |-> "none"]
  /\ objs = [k \in Kinds |-> Absent]
  /\ stream = [tag |-> "none", news |-> FALSE]
  /\ seen = [spec |-> spec, gen |-> gen]
  /\ fresh = TRUE
  /\ cache = objs
  /\ news = [k \in Kinds |-> FALSE]
  /\ queued = TRUE                  \* the Create event
  /\ timer = "none"
  /\ at = "idle"
  /\ step = 0
  /\ held = NoCopy
  /\ spent = [b \in Bounds |-> 0]
  /\ missed = {}

Spend(what) == spent' = [spent EXCEPT ![what] = @ + 1] /\ UNCHANGED missed

Fault(call) ==
  /\ call \in FaultyCalls
  /\ spent["faults"] < MaxFaults
  /\ Spend("faults")

\* A call fails, and the controller goes on without what it asked for.
Swallow(call, what) ==
  /\ call \in FaultyCalls
  /\ spent["faults"] < MaxFaults
  /\ spent' = [spent EXCEPT !["faults"] = @ + 1]
  /\ missed' = missed \cup {what}

EndReconcile ==
  /\ at' = "idle"
  /\ step' = 0
  /\ held' = NoCopy

Fail == at' = "error" /\ UNCHANGED <<step, held>>

Advance == at' = "run" /\ step' = After(step, held) /\ UNCHANGED held
-----------------------------------------------------------------------------
(***************************************************************************)
(* Reconcile up to the write that fences off stale copies.                 *)
(***************************************************************************)

\* Get(instance), from the cache.  (Nothing will be done with the status of
\* a copy that is not the latest, so it is not told apart from the stored one.)
Begin ==
  /\ at = "idle"
  /\ queued
  /\ queued' = FALSE
  /\ held' = [spec |-> seen.spec, gen |-> seen.gen, current |-> fresh, knative |-> FALSE,
              image |-> status.image]
  /\ at' = "discover"
  /\ missed' = {}
  /\ UNCHANGED <<resource, objs, stream, cached, timer, step, spent>>

\* Get fails: the error is returned, and the work queue tries again.
BeginFails ==
  /\ at = "idle"
  /\ queued
  /\ Fault("read")
  /\ UNCHANGED <<resource, objs, stream, cached, queue, control>>

\* IsGroupVersionSupported for Knative.  An error is reported, and then taken
\* for a cluster without Knative.
DiscoverKnative ==
  /\ at = "discover"
  /\ \/ /\ held' = [held EXCEPT !.knative = KnativeInstalled]
        /\ at' = "fence"
        /\ UNCHANGED history
     \/ /\ Swallow("swallowed", "KnativeService")
        /\ at' = "report"
        /\ UNCHANGED held
  /\ UNCHANGED <<resource, objs, stream, cached, queue, step>>

\* Validate refuses the specification.
Reject ==
  /\ at = "fence"
  /\ "badStorage" \in held.spec
  /\ at' = "reject"
  /\ UNCHANGED <<resource, objs, stream, cached, queue, step, held, history>>

\* Initialize and Update(instance): the defaults are stored with the resource,
\* which changes its generation when they were not there.
Fence ==
  /\ at = "fence"
  /\ "badStorage" \notin held.spec
  /\ held.current
  /\ gen' = IF defaulted THEN gen ELSE gen + 1
  /\ defaulted' = TRUE
  /\ fresh' = (fresh /\ defaulted)
  /\ held' = [held EXCEPT !.gen = gen']
  /\ at' = "image"
  /\ UNCHANGED <<spec, status, objs, stream, seen, cache, news, queue, step, history>>

\* Fault: a conflict is logged, and the reconcile goes on with its copy.
FenceIgnored ==
  /\ at = "fence"
  /\ "badStorage" \notin held.spec
  /\ ~held.current
  /\ at' = "image"
  /\ UNCHANGED <<resource, objs, stream, cached, queue, step, held, history>>

\* Update(instance) fails: on a conflict when the copy is not the latest.  An
\* error of the checks before it (configuration, name conflicts) ends alike.
FenceFails ==
  /\ at = "fence"
  /\ \/ "badStorage" \notin held.spec /\ ~held.current /\ UNCHANGED history
     \/ Fault("fence")
  /\ Fail
  /\ UNCHANGED <<resource, objs, stream, cached, queue>>

\* Fault: the status is patched, whatever the version of the copy.
PatchStatus(new) ==
  /\ status' = new
  /\ fresh' = FALSE
  /\ UNCHANGED history

\* Fault: a failure is stored as the third value a condition may have.
UpdateStatusUnknown(new) ==
  /\ held.current
  /\ status' = [new EXCEPT !.reconciled = IF @ = "False" THEN "Unknown" ELSE @]
  /\ fresh' = FALSE
  /\ UNCHANGED history

\* UpdateStatus stores the status held in memory unless the resource changed.
UpdateStatus(new) ==
  /\ held.current
  /\ status' = new
  /\ fresh' = FALSE
  /\ UNCHANGED history

\* The failure is lost where ManageError's requeue is dropped.
UpdateStatusFails ==
  /\ \/ ~held.current /\ UNCHANGED history
     \/ held.current /\ at # "reject" /\ Fault("status")
     \/ held.current /\ at = "reject" /\ Swallow("status", "rejection")
  /\ UNCHANGED <<status, fresh>>

TakeImage(image) ==
  /\ at' = "store"
  /\ held' = [held EXCEPT !.image = image]
  /\ UNCHANGED <<resource, objs, stream, cached, queue, step>>

FindImage ==
  /\ at = "image"
  /\ TakeImage(Image(held.spec))
  /\ UNCHANGED history

\* IsOpenShift takes a failed discovery for another platform, and a tag that may
\* not be read counts as one that does not exist.
MissTag ==
  /\ at = "image"
  /\ NamesStream(held.spec)
  /\ Swallow("swallowed", "image")
  /\ TakeImage(ApplicationImage(held.spec))

\* OpenShift does not say what the tag of the image stands for: the status gets
\* the name of the image with the error.
ImageFails ==
  /\ at = "image"
  /\ OpenShift
  /\ Fault("check")
  /\ held' = [held EXCEPT !.image = ApplicationImage(held.spec)]
  /\ at' = "error"
  /\ UNCHANGED <<resource, objs, stream, cached, queue, step>>

KeepImage ==
  /\ at = "store"
  /\ held.image = status.image
  /\ Advance
  /\ UNCHANGED <<resource, objs, stream, cached, queue, history>>

\* A new image is stored in the status before anything is done with it.
StoreImage ==
  /\ at = "store"
  /\ held.image # status.image
  /\ \/ UpdateStatus([status EXCEPT !.image = held.image]) /\ Advance
     \/ UpdateStatusFails /\ Fail
  /\ UNCHANGED <<spec, gen, defaulted, objs, stream, seen, cache, news, queue>>
-----------------------------------------------------------------------------
(***************************************************************************)
(* The steps of Program.                                                   *)
(***************************************************************************)
Current  == Program[step]
AtStep(op) == at = "run" /\ step # Done /\ Current.op = op

\* What CreateOrUpdate customizes the cached object to.
Customized(k) == Content(k, held.spec, held.image)

\* Fault: the watches drop deletions as well.
StoreUnnoticed(k, v) ==
  /\ objs' = [objs EXCEPT ![k] = v]
  /\ news' = [news EXCEPT ![k] = @ \/ (k \in WatchedKinds /\ objs[k] # Absent /\ v # Absent)]

\* The object k becomes v.  The watches pass updates and deletions, and drop
\* creations (predSubResource).
Store(k, v) ==
  /\ objs' = [objs EXCEPT ![k] = v]
  /\ news' = [news EXCEPT ![k] = @ \/ (k \in WatchedKinds /\ objs[k] # Absent)]

\* CreateOrUpdate writes nothing when customizing the cached object to v changes
\* nothing; otherwise the cached object must be the stored one.
Write(k, v) ==
  \/ cache[k] = v /\ UNCHANGED <<objs, news>>
  \/ cache[k] # v /\ cache[k] = objs[k] /\ Store(k, v)

ApplyObject ==
  /\ AtStep("apply")
  /\ Write(Current.kind, Customized(Current.kind))
  /\ Advance
  /\ UNCHANGED <<resource, stream, seen, fresh, cache, queue, history>>

\* OpenShift is not recognized while an object is customized, and it becomes what
\* another platform needs (the annotation of a Service, the rules of a policy).
ApplyElsewhere ==
  /\ AtStep("apply")
  /\ Current.lookup = "guess"
  /\ OpenShift
  /\ Swallow("swallowed", Current.kind)
  /\ Write(Current.kind, [spec |-> held.spec, image |-> "elsewhere"])
  /\ Advance
  /\ UNCHANGED <<resource, stream, seen, fresh, cache, queue>>

\* The object exists after all, does not exist any more, or was changed since
\* it was cached; or the call fails for a reason of its own, or what the
\* object is customized with is missing (secrets of certificates, endpoints).
ApplyFails ==
  /\ AtStep("apply")
  /\ LET k == Current.kind
     IN  \/ cache[k] \notin {Customized(k), objs[k]} /\ UNCHANGED history
         \/ Fault("apply")
  /\ Fail
  /\ UNCHANGED <<resource, objs, stream, cached, queue>>

\* DeleteResource goes to the API server; NotFound is no error.
DeleteObject ==
  /\ AtStep("delete")
  /\ Store(Current.kind, Absent)
  /\ Advance
  /\ UNCHANGED <<resource, stream, seen, fresh, cache, queue, history>>

DeleteFails ==
  /\ AtStep("delete")
  /\ \/ Current.onError = "abort" /\ Fault("delete") /\ Fail
     \/ /\ Current.onError = "ignore"
        /\ Swallow("swallowed", Current.kind)
        /\ Advance
     \/ /\ Current.onError = "report"
        /\ Swallow("swallowed", Current.kind)
        /\ at' = "report"
        /\ UNCHANGED <<step, held>>
  /\ UNCHANGED <<resource, objs, stream, cached, queue>>

\* The cluster does not say whether it has the API of this step.
LookupFails ==
  /\ at = "run" /\ step # Done
  /\ Swallow("swallowed", Current.kind)
  /\ \/ Current.lookup = "ignore" /\ Advance
     \/ Current.lookup = "report" /\ at' = "report" /\ UNCHANGED <<step, held>>
  /\ UNCHANGED <<resource, objs, stream, cached, queue>>

\* ServiceAccountPullSecretExists reads the service account from the cache;
\* the operator's own may not have arrived there yet.
ServiceAccountMissing ==
  /\ Current.kind = "PullSecret"
  /\ "ServiceAccount" \in Kinds
  /\ "serviceAccount" \notin held.spec
  /\ cache["ServiceAccount"] = Absent

PassCheck ==
  /\ AtStep("check")
  /\ ~ServiceAccountMissing
  /\ Advance
  /\ UNCHANGED <<resource, objs, stream, cached, queue, history>>

CheckFails ==
  /\ AtStep("check")
  /\ \/ ServiceAccountMissing /\ UNCHANGED history
     \/ Fault("check")
  /\ Fail
  /\ UNCHANGED <<resource, objs, stream, cached, queue>>
-----------------------------------------------------------------------------
(***************************************************************************)
(* The end of a reconcile.                                                 *)
(***************************************************************************)

\* Fault: the result of ManageError is dropped by all of its callers.
ManageErrorDropped ==
  /\ at \in {"error", "reject", "report"}
  /\ \/ UpdateStatus([status EXCEPT !.reconciled = "False", !.image = held.image])
     \/ UpdateStatusFails
  /\ IF at # "report" THEN EndReconcile
     ELSE IF step = 0 THEN at' = "fence" /\ UNCHANGED <<step, held>>
     ELSE Advance
  /\ UNCHANGED <<spec, gen, defaulted, objs, stream, seen, cache, news, queue>>

\* ManageError stores Reconciled = False.  Its callers return its result,
\* which always requeues; drop it; or drop it and go on.
ManageError ==
  /\ at \in {"error", "reject", "report"}
  /\ \/ UpdateStatus([status EXCEPT !.reconciled = "False", !.image = held.image])
     \/ UpdateStatusFails
  /\ CASE at = "error"  -> EndReconcile /\ timer' = "retry"
       [] at = "reject" -> EndReconcile /\ UNCHANGED timer
       [] at = "report" -> /\ IF step = 0 THEN at' = "fence" /\ UNCHANGED <<step, held>>
                                          ELSE Advance
                           /\ UNCHANGED timer
  /\ UNCHANGED <<spec, gen, defaulted, objs, stream, seen, cache, news, queued>>

\* Fault: a cluster without Knative counts as one that needs nothing.
NothingMissing == FALSE

KnativeMissing == "knative" \in held.spec /\ ~held.knative

\* Program has run, but there is no Knative to serve the application.
FinishWithoutKnative ==
  /\ at = "run" /\ step = Done
  /\ KnativeMissing
  /\ Fail
  /\ UNCHANGED <<resource, objs, stream, cached, queue, history>>

\* ManageSuccess stores the generation that was reconciled.  It asks for a
\* later reconcile; when the status cannot be stored, for an early one.
ManageSuccess ==
  /\ at = "run" /\ step = Done
  /\ ~KnativeMissing
  /\ \/ /\ UpdateStatus([observed |-> held.gen, reconciled |-> "True", image |-> held.image])
        /\ timer' = IF Periodic /\ timer = "none" THEN "periodic" ELSE timer
     \/ UpdateStatusFails /\ timer' = "retry"
  /\ EndReconcile
  /\ UNCHANGED <<spec, gen, defaulted, objs, stream, seen, cache, news, queued>>
-----------------------------------------------------------------------------
(***************************************************************************)
(* Around the controller: users, the watches, the delayed requeues, and    *)
(* restarts of the operator.                                               *)
(***************************************************************************)

\* A user changes the specification; a replacement loses the defaults that
\* the operator filled in, a patch keeps them.
Edit ==
  /\ spent["edits"] < MaxEdits
  /\ Spend("edits")
  /\ spec' \in Specs \ {spec}
  /\ gen' = gen + 1
  /\ defaulted' \in {defaulted, FALSE}
  /\ fresh' = FALSE
  /\ held' = [held EXCEPT !.current = FALSE]
  /\ UNCHANGED <<status, objs, stream, seen, cache, news, queue, at, step>>

\* Somebody deletes an owned object.
Drift(k) ==
  /\ spent["drift"] < MaxDrift
  /\ Spend("drift")
  /\ objs[k] # Absent
  /\ Store(k, Absent)
  /\ UNCHANGED <<resource, stream, seen, fresh, cache, queue, control>>

\* The watch of the resource: pred passes changes of the generation only.
DeliverResource ==
  /\ ~fresh
  /\ fresh' = TRUE
  /\ seen' = [spec |-> spec, gen |-> gen]
  /\ queued' = (queued \/ gen # seen.gen)
  /\ UNCHANGED <<resource, objs, stream, cache, news, timer, control, history>>

\* The watches of owned objects.  Events of one object arrive in order; those
\* that arrive together count as one.
DeliverObject(k) ==
  /\ cache[k] # objs[k] \/ news[k]
  /\ cache' = [cache EXCEPT ![k] = objs[k]]
  /\ news' = [news EXCEPT ![k] = FALSE]
  /\ queued' = (queued \/ news[k])
  /\ UNCHANGED <<resource, objs, stream, seen, fresh, timer, control, history>>

\* Somebody pushes an image to the ImageStream, or deletes it.
ImageStreamChanges ==
  /\ OpenShift
  /\ spent["drift"] < MaxDrift
  /\ Spend("drift")
  /\ stream' \in [tag : Tags \ {stream.tag}, news : {TRUE}]
  /\ UNCHANGED <<resource, objs, cached, queue, control>>

\* The resources that name an ImageStream, by the index of the cache.
Match == NamesStream(seen.spec)

\* The watch of ImageStreams.  An event for which they cannot be looked up is
\* lost.
DeliverImageStream ==
  /\ stream.news
  /\ stream' = [stream EXCEPT !.news = FALSE]
  /\ \/ queued' = (queued \/ Match) /\ UNCHANGED history
     \/ Swallow("match", "image") /\ UNCHANGED queued
  /\ UNCHANGED <<resource, objs, cached, timer, control>>

TimerFires ==
  /\ timer # "none"
  /\ timer' = "none"
  /\ queued' = TRUE
  /\ UNCHANGED <<resource, objs, stream, cached, control, history>>

\* A restarted operator lists everything, and reconciles every resource.
Crash ==
  /\ spent["crashes"] < MaxCrashes
  /\ Spend("crashes")
  /\ seen' = [spec |-> spec, gen |-> gen]
  /\ fresh' = TRUE
  /\ cache' = objs
  /\ news' = [k \in Kinds |-> FALSE]
  /\ queued' = TRUE
  /\ timer' = "none"
  /\ at' = "idle"
  /\ step' = 0
  /\ held' = NoCopy
  /\ stream' = [stream EXCEPT !.news = FALSE]
  /\ UNCHANGED <<resource, objs>>

Reconcile ==
  \/ Begin \/ BeginFails \/ DiscoverKnative \/ Reject \/ Fence \/ FenceFails
  \/ FindImage \/ MissTag \/ ImageFails \/ KeepImage \/ StoreImage
  \/ ApplyObject \/ ApplyElsewhere \/ ApplyFails \/ DeleteObject \/ DeleteFails \/ LookupFails
  \/ PassCheck \/ CheckFails
  \/ ManageError \/ FinishWithoutKnative \/ ManageSuccess

Next ==
  \/ Reconcile
  \/ Edit
  \/ \E k \in Kinds : Drift(k) \/ DeliverObject(k)
  \/ DeliverResource
  \/ ImageStreamChanges \/ DeliverImageStream
  \/ TimerFires
  \/ Crash

Spec == Init /\ [][Next]_vars

\* A worker takes what is queued and goes on with what it started, watches
\* deliver, and delayed requeues come.  Users and failures owe nothing.
Fairness ==
  /\ WF_vars(Reconcile)
  /\ WF_vars(DeliverResource)
  /\ WF_vars(DeliverImageStream)
  /\ \A k \in Kinds : WF_vars(DeliverObject(k))
  /\ WF_vars(TimerFires)

FairSpec == Spec /\ Fairness
-----------------------------------------------------------------------------
(***************************************************************************)
(* What the specification of a resource declares, read off the user's      *)
(* guide rather than the program.                                          *)
(***************************************************************************)
Declared(s) ==
  (IF s \cap {"serviceAccount", "sameAccount"} = {} THEN {"ServiceAccount"} ELSE {})
  \cup IF "knative" \in s THEN {"KnativeService"}
       ELSE {"Service"}
            \cup (IF "statefulSet" \in s THEN {"StatefulSet", "HeadlessService"}
                                         ELSE {"Deployment"})
            \cup {k \in {"NetworkPolicy", "BindingSecret", "HPA", "Route",
                         "Ingress", "ServiceMonitor"} :
                    CASE k = "NetworkPolicy"  -> "networkPolicy" \in s
                      [] k = "BindingSecret"  -> "bindable" \in s
                      [] k = "HPA"            -> "autoscaling" \in s
                      [] k = "Route"          -> "expose" \in s /\ OpenShift
                      [] k = "Ingress"        -> "expose" \in s /\ ~OpenShift
                      [] k = "ServiceMonitor" -> "monitoring" \in s}

\* The Knative branch of Reconcile returns before it reaches these: an
\* application that moves to Knative keeps them.  So does one whose own account
\* gets the name of the application.
Leftovers(s) == (IF "knative" \in s THEN {"BindingSecret", "ServiceMonitor"} ELSE {})
                \cup (IF "sameAccount" \in s THEN {"ServiceAccount"} ELSE {})

AsDeclared(k) ==
  objs[k] = IF k \in Declared(spec) THEN Content(k, spec, status.image) ELSE Absent

Supported(s) == "badStorage" \notin s /\ ("knative" \in s => KnativeInstalled)

ReportsReconciled == status.observed = gen /\ status.reconciled = "True"

\* Nothing is going on, and nothing is on its way but the periodic requeue.
Settled ==
  /\ at = "idle" /\ ~queued /\ timer # "retry"
  /\ fresh /\ cache = objs /\ ~stream.news
  /\ \A k \in Kinds : ~news[k]
-----------------------------------------------------------------------------
(***************************************************************************)
(* Correctness.                                                            *)
(***************************************************************************)

\* An application never runs as a Deployment and as a StatefulSet at once,
\* whatever fails, restarts or is edited in the middle of a switch: Reconcile
\* deletes the one before it creates the other, and gives up if it cannot.
OneWorkload ==
  ~ \E k, l \in Kinds : /\ k = "Deployment" /\ objs[k] # Absent
                        /\ l = "StatefulSet" /\ objs[l] # Absent

\* A Knative Service is created only once what it replaces is gone, except
\* for an Ingress whose deletion, and a Route whose lookup, failed unnoticed (the
\* clean-up in Reconcile).
KnativeAfterCleanup ==
  [][\A k \in Kinds : k = "KnativeService" /\ objs[k] = Absent /\ objs'[k] # Absent
       => \A l \in Kinds \cap {"Service", "HeadlessService", "Deployment",
                               "StatefulSet", "HPA", "NetworkPolicy"} :
            objs[l] = Absent]_vars

\* The reconcile that changes the cluster never works for a generation older
\* than the one reported: a copy read from a cache that lags behind is stopped
\* by the conflict of Update(instance) before it undoes newer work.
NoRollback == at = "run" => held.gen >= status.observed

\* When all is quiet and the status reports the current generation as
\* reconciled, every watched object is what the specification declares, with the
\* image in the status, and that image is what the tag of an ImageStream stands
\* for now.  Only what the last reconcile missed through an error that the code
\* swallows is excepted, each for itself (IsOpenShift, the discovery of an API, a
\* deletion, the lookup of those that name an ImageStream): no stale read,
\* conflict, restart, push or deletion behind the controller's back, and no error
\* that is returned, leaves a difference that no event will bring up again.
SettledAsDeclared ==
  Settled /\ ReportsReconciled =>
    /\ \A k \in WatchedKinds \ (Leftovers(spec) \cup missed) : AsDeclared(k)
    /\ status.image = Image(spec) \/ "image" \in missed

\* observedGeneration implements GenerationTracking.
Tracking == INSTANCE GenerationTracking
              WITH generation <- gen, observed <- status.observed
ImplementsTracking == Tracking!Spec

\* Once users leave the resource alone, the cluster gets to the declared state
\* and stays there, and the status says so.  The periodic reconcile repairs
\* even what is not watched and what failed without the status showing it.
Converged ==
  /\ ReportsReconciled
  /\ status.image = Image(spec)
  /\ \A k \in Kinds \ Leftovers(spec) : AsDeclared(k)

Converges == <>[]Supported(spec) => <>[]Converged

\* A specification that is refused, or that needs a Knative the cluster does
\* not have, ends up with Reconciled = False, unless the one write that says that
\* it is refused was lost: Reconcile drops the requeue that ManageError asks for.
RefusalReported ==
  <>[]~Supported(spec) => <>[](status.reconciled = "False" \/ "rejection" \in missed)
=============================================================================
