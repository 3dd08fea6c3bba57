---------------------------- MODULE OwnedObjects ----------------------------
(***************************************************************************)
(* What the reconcile writes into the objects of one RuntimeComponent.     *)
(*                                                                         *)
(* RuntimeComponent says which objects a reconcile creates and deletes;    *)
(* here the contents matter, which are computed from the object found in   *)
(* the cluster, the specification and the references kept in the status.   *)
(* A behaviour follows the objects of the sequence tracked through edits   *)
(* of the specification, lost status updates, changes by others and other  *)
(* operators with an object of the same name.                              *)
(***************************************************************************)
EXTENDS ExposureContent, WorkloadContent

CONSTANTS
  Tracks,        \* the sequences of kinds a behaviour may follow
  Specs(_),      \* the specifications users write, by track
  Clusters(_),   \* what else the contents depend on, by track
  MaxFaults      \* how many writes may fail or be lost

ManagedKinds ==
  {"ServiceAccount", "KnativeService", "BindingSecret", "Service", "Headless", "NetworkPolicy",
   "StatefulSet", "Deployment", "HPA", "Route", "Ingress", "ServiceMonitor"}

\* What others add to the objects: a pull secret and an annotation.
SecretNames   == STRING
ForeignSecret == "dockercfg"
ForeignKey    == "others"

IsList(list) == list \in Seq(ToSet(list))

ASSUME OwnedAssumption ==
  /\ MaxFaults \in Nat
  /\ \A t \in Tracks : t \in Seq(ManagedKinds) /\ t # <<>>
  /\ \A t \in Tracks : \A s \in Specs(t) :
       /\ DOMAIN s = DOMAIN EmptySpec
       /\ s.pullSecrets \in Seq(SecretNames) /\ IsList(s.mounts)
       /\ s.service # Nil => DOMAIN s.service = DOMAIN NoService /\ IsList(s.service.ports)
  /\ ForeignSecret \in SecretNames
  /\ Nil \notin {"none", "IfNotPresent"}

VARIABLES
  tracked,   \* the kinds followed, in the order they are reconciled
  spec,      \* the specification stored in the cluster
  objects,   \* the contents of the objects, Nil for an object that is not there
  others,    \* the kinds whose object belongs to another operator
  refs,      \* the references stored in the status
  cluster,   \* configuration, secrets and platform
  pc,        \* 0, or the step the reconcile is at
  held,      \* what the reconcile has in memory
  faults

vars == <<tracked, spec, objects, others, refs, cluster, pc, held, faults>>

Kinds     == {tracked[i] : i \in DOMAIN tracked}
Workloads == {"Deployment", "StatefulSet", "KnativeService"}
AtStatus  == Len(tracked) + 1

NoReferences == [certSecret |-> "", pullSecrets |-> <<>>, saVersion |-> Nil,
                 routeHost |-> "", image |-> ""]

Init ==
  /\ tracked \in Tracks
  /\ spec \in Specs(tracked)
  /\ cluster \in Clusters(tracked)
  /\ objects = [k \in Kinds |-> Nil]
  /\ others = {}
  /\ refs = NoReferences
  /\ pc = 0
  /\ held = Nil
  /\ faults = 0

-----------------------------------------------------------------------------
\* Which objects a specification asks for; a Knative Service replaces the others.
Wanted(kind, s) ==
  /\ s.knative => kind \in {"ServiceAccount", "KnativeService"}
  /\ CASE kind = "ServiceAccount" -> GetServiceAccountName(s) = ""
       [] kind = "KnativeService" -> s.knative
       [] kind = "BindingSecret"  -> s.service.bindable
       [] kind = "NetworkPolicy"  -> s.networkPolicy # Nil => ~s.networkPolicy.disable
       [] kind \in {"StatefulSet", "Headless"} -> s.statefulSet # Nil
       [] kind = "Deployment"     -> s.statefulSet = Nil
       [] kind = "HPA"            -> s.autoscaling # Nil
       [] kind \in {"Route", "Ingress"} -> s.expose
       [] kind = "ServiceMonitor" -> s.monitoring # Nil
       [] OTHER -> TRUE

\* ... and leaves two of them where they are.
LeftAlone(kind, s) == s.knative /\ kind \in {"BindingSecret", "ServiceMonitor"}

\* The object a customization starts from when there is none.
Empty(kind) ==
  CASE kind = "ServiceAccount" -> NewAccount
    [] kind = "KnativeService" -> NewKnative
    [] kind = "BindingSecret"  -> NewBinding
    [] kind = "NetworkPolicy"  -> NewPolicy
    [] kind = "StatefulSet"    -> NewStatefulSet
    [] kind = "Deployment"     -> NewDeployment
    [] kind = "HPA"            -> NewHPA
    [] kind = "Route"          -> NewRoute
    [] kind = "Ingress"        -> NewIngress
    [] kind = "ServiceMonitor" -> NewMonitor
    [] kind \in {"Service", "Headless"} -> NewService

TheRoute == IF "Route" \in Kinds THEN objects["Route"] ELSE Nil

Customize(kind, old, s, r) ==
  CASE kind = "ServiceAccount" -> CustomizeServiceAccount(old, s, r)
    [] kind = "KnativeService" -> CustomizeKnativeService(old, s, r)
    [] kind = "BindingSecret"  -> CustomizeBinding(old, s, r, cluster, TheRoute)
    [] kind = "Service"        -> ReconciledService(old, s, cluster)
    [] kind = "Headless"       -> HeadlessService(old, s)
    [] kind = "NetworkPolicy"  -> CustomizeNetworkPolicy(old, s, cluster.openshift)
    [] kind = "StatefulSet"    -> CustomizeStatefulSet(old, s, r, cluster)
    [] kind = "Deployment"     -> CustomizeDeployment(old, s, r, cluster)
    [] kind = "HPA"            -> CustomizeHPA(old, s)
    [] kind = "Route"          -> CustomizeRoute(old, s, r, cluster)
    [] kind = "Ingress"        -> CustomizeIngress(old, s, cluster)
    [] kind = "ServiceMonitor" -> CustomizeServiceMonitor(old, s, r)

\* What has to be there before the content can be computed.
Possible(kind, s, r) ==
  CASE kind = "ServiceAccount" -> MissingPullSecrets(s, cluster) = {}
    [] kind \in {"Deployment", "StatefulSet"} ->
         CertificateUsable(s, r, cluster) /\ TopologySpread(s) # Nil
    [] kind = "Route"          -> RouteSecretsUsable(s, r, cluster)
    [] kind = "ServiceMonitor" -> ValidatePrometheusMonitoringEndpoints(s, cluster)
    [] OTHER -> TRUE

-----------------------------------------------------------------------------
(* The API server.                                                         *)

\* It gives out node ports where the type has them, the first that are free, and a
\* host name to a Route that comes without one; a Route keeps the host it has.
Allocatable(ports) == {30999 + i : i \in DOMAIN ports}

Allocated(ports) ==
  LET free == Allocatable(ports) \ {p.nodePort : p \in ToSet(ports)}
      before(i) == {j \in 1 .. i - 1 : ports[j].nodePort = 0}
      next(i) == CHOOSE n \in free : Cardinality({m \in free : m < n}) = Cardinality(before(i))
  IN [i \in DOMAIN ports |-> IF ports[i].nodePort # 0 THEN ports[i]
                             ELSE [ports[i] EXCEPT !.nodePort = next(i)]]

GeneratedHost == "generated"

Stored(kind, old, new) ==
  CASE kind \in {"Service", "Headless"} /\ new.type # "ClusterIP" ->
         [new EXCEPT !.ports = Allocated(@)]
    [] kind = "Route" /\ new.host = "" ->
         [new EXCEPT !.host = IF old = Nil THEN GeneratedHost ELSE old.host]
    [] OTHER -> new

\* It refuses two ports of one name or node port, a node port of a Service that
\* is for the cluster only, a pod that mounts what it does not have, and a change
\* of the claims of a StatefulSet.
ServiceAccepted(svc) ==
  LET ports == svc.ports
  IN \A i \in DOMAIN ports :
       /\ svc.type = "ClusterIP" => ports[i].nodePort = 0
       /\ \A j \in 1 .. i - 1 :
            /\ ports[i].name # ports[j].name
            /\ ports[i].nodePort # 0 => ports[i].nodePort # ports[j].nodePort

PodAccepted(pod, claims) ==
  LET names(list) == {list[i].name : i \in DOMAIN list}
      distinct(list, f(_)) == \A i, j \in DOMAIN list : f(list[i]) = f(list[j]) => i = j
  IN /\ names(pod.mounts) \subseteq names(pod.volumes) \cup names(claims)
     /\ distinct(pod.mounts, LAMBDA m : m.path)
     /\ distinct(pod.volumes, LAMBDA v : v.name)

Accepted(kind, old, new) ==
  CASE kind \in {"Service", "Headless"} -> ServiceAccepted(new)
    [] kind = "Deployment"  -> PodAccepted(new.pod, <<>>)
    [] kind = "StatefulSet" -> PodAccepted(new.pod, new.claims)
                               /\ (old # Nil => old.claims = new.claims)
    [] kind = "HPA" -> new.min # Nil => new.min <= new.max
    [] OTHER -> TRUE

-----------------------------------------------------------------------------
(* The reconcile.                                                          *)

\* Fault: every object of the name is taken for one of ours.
NoConflicts == TRUE

\* Names taken by another operator; only the workloads are looked up.
CheckForNameConflicts == others \cap Workloads = {}

\* The specification with its defaults, as it is written back.
Prepared(s) ==
  LET initialized == Initialize(s)
  IN IF cluster.openshift
     THEN [initialized EXCEPT
             !.annotations = MergeMaps(@, GetOpenShiftAnnotations(initialized))]
     ELSE initialized

\* The secret of the service certificate: given, made by cert-manager or made by
\* OpenShift.
CertReference(s) ==
  CASE s.service.certificateSecretRef # Nil -> s.service.certificateSecretRef
    [] s.service.certificateSecretRef = Nil /\ s.manageTLS ->
         IF CertName \in DOMAIN s.service.annotations THEN s.service.annotations[CertName]
         ELSE IF cluster.certManager THEN "app-svc-tls-cm"
         ELSE IF cluster.openshift THEN OCPSecretName ELSE ""
    [] OTHER -> ""

Begin ==
  /\ pc = 0
  /\ CheckForNameConflicts
  /\ LET s == Prepared(spec)
     IN /\ Validate(s)
        /\ spec' = s
        /\ held' = [spec |-> s, edited |-> FALSE, appeared |-> {},
                    refs |-> [refs EXCEPT !.certSecret = IF s.knative THEN @ ELSE CertReference(s),
                                      !.image = s.image]]
  /\ pc' = 1
  /\ UNCHANGED <<tracked, objects, others, refs, cluster, faults>>

\* The object at the step the reconcile has come to.
AtObject == pc \in DOMAIN tracked
Kind     == tracked[pc]
Old      == objects[Kind]
Starting == IF Old = Nil THEN Empty(Kind) ELSE Old
Computed == Customize(Kind, Starting, held.spec, held.refs)
Result   == Stored(Kind, Old, Computed)

DeletesRoute == Kind = "Route" /\ Old # Nil /\ ShouldDeleteRoute(held.spec, held.refs, cluster)

Doable ==
  Wanted(Kind, held.spec) =>
    Possible(Kind, held.spec, held.refs) /\ Accepted(Kind, Old, Result)

\* The references a customization leaves in the status it has in memory.
Noted(kind, s, r) ==
  CASE kind = "ServiceAccount" -> [r EXCEPT !.pullSecrets = s.pullSecrets]
    [] kind = "Route" -> [r EXCEPT !.routeHost = RouteReference(s, r, cluster)]
    [] OTHER -> r

\* Bound: the account a user brings has no pull secrets and never changes.
OwnAccount == <<>>

\* Those after the object was written or deleted: the version of the account is
\* that of the user's own where there is one.
Referring(kind, s, r, object) ==
  LET noted == IF object = Nil THEN r ELSE Noted(kind, s, r)
  IN CASE kind = "ServiceAccount" ->
            [noted EXCEPT !.saVersion = IF object = Nil THEN OwnAccount ELSE object.pullSecrets]
       [] kind = "Service" /\ object # Nil
          /\ cluster.openshift /\ ~cluster.certManager /\ CertReference(s) # "" ->
            [noted EXCEPT !.certSecret = IF s.service.certificateSecretRef # Nil THEN @
                                         ELSE OCPReference(object.annotations)]
       [] OTHER -> noted

\* The object is created, updated or deleted.  An account that does not pass the
\* check of its pull secret ends the reconcile after it was written.
Apply ==
  /\ AtObject
  /\ ~LeftAlone(Kind, held.spec)
  /\ Wanted(Kind, held.spec) => ~DeletesRoute
  /\ Doable
  /\ LET object == IF Wanted(Kind, held.spec) THEN Result ELSE Nil
     IN /\ objects' = [objects EXCEPT ![Kind] = object]
        /\ held' = [held EXCEPT !.refs = Referring(Kind, held.spec, @, object)]
        /\ pc' = IF Kind = "ServiceAccount" /\ object # Nil
                    /\ ~ServiceAccountPullSecretExists(object, held.spec, cluster)
                 THEN AtStatus ELSE pc + 1
  /\ others' = IF Wanted(Kind, held.spec) THEN others ELSE others \ {Kind}
  /\ UNCHANGED <<tracked, spec, refs, cluster, faults>>

LeaveAlone ==
  /\ AtObject
  /\ LeftAlone(Kind, held.spec)
  /\ pc' = pc + 1
  /\ UNCHANGED <<tracked, spec, objects, others, refs, cluster, held, faults>>

\* A Route whose host is no longer asked for is deleted first.
DeleteOldRoute ==
  /\ AtObject
  /\ Wanted(Kind, held.spec) /\ DeletesRoute
  /\ objects' = [objects EXCEPT ![Kind] = Nil]
  /\ others' = others \ {Kind}
  /\ UNCHANGED <<tracked, spec, refs, cluster, pc, held, faults>>

\* The content cannot be computed or is refused: the reconcile ends in an error,
\* which is what stands for a panic in the merge of the spread constraints too.
CannotApply ==
  /\ AtObject
  /\ ~Doable
  /\ pc' = AtStatus
  /\ UNCHANGED <<tracked, spec, objects, others, refs, cluster, held, faults>>

\* A call fails, before the references are noted in memory or after that, when the
\* object is written.
ApplyFails ==
  /\ AtObject
  /\ ~LeftAlone(Kind, held.spec)
  /\ faults < MaxFaults
  /\ faults' = faults + 1
  /\ pc' = AtStatus
  /\ \/ UNCHANGED held
     \/ /\ Wanted(Kind, held.spec) /\ ~DeletesRoute
        /\ Possible(Kind, held.spec, held.refs)
        /\ held' = [held EXCEPT !.refs = Noted(Kind, held.spec, @)]
  /\ UNCHANGED <<tracked, spec, objects, others, refs, cluster>>

\* Fault: the reconcile goes on with what it had in memory.
MemoryKept ==
  /\ pc = AtStatus
  /\ refs' = IF held.edited THEN refs ELSE held.refs
  /\ pc' = 0
  /\ UNCHANGED <<tracked, spec, objects, others, cluster, held, faults>>

\* Success and error both write the status, with the references in memory, unless
\* somebody has written the resource since it was read.
WriteStatus ==
  /\ pc = AtStatus
  /\ refs' = IF held.edited THEN refs ELSE held.refs
  /\ pc' = 0
  /\ held' = Nil
  /\ UNCHANGED <<tracked, spec, objects, others, cluster, faults>>

\* The status is not written, or the operator restarts.
LoseStatus ==
  /\ pc > 0
  /\ faults < MaxFaults
  /\ faults' = faults + 1
  /\ pc' = 0
  /\ held' = Nil
  /\ UNCHANGED <<tracked, spec, objects, others, refs, cluster>>

-----------------------------------------------------------------------------
(* The surroundings.                                                       *)

\* An edit during a reconcile costs the status update at its end.
Edit ==
  /\ spec' \in Specs(tracked) \ {spec}
  /\ IF pc = 0 THEN UNCHANGED <<held, faults>>
     ELSE /\ faults < MaxFaults
          /\ faults' = faults + 1
          /\ held' = [held EXCEPT !.edited = TRUE]
  /\ UNCHANGED <<tracked, objects, others, refs, cluster, pc>>

ClusterChanges ==
  /\ cluster' \in Clusters(tracked) \ {cluster}
  /\ UNCHANGED <<tracked, spec, objects, others, refs, pc, held, faults>>

\* Others add an annotation or a pull secret, and the Autoscaler scales.
ChangedByOthers(kind, o) ==
  {[o EXCEPT !.annotations = With(@, ForeignKey, "1")]}
  \cup (IF kind = "ServiceAccount" /\ ForeignSecret \notin ToSet(o.pullSecrets)
        THEN {[o EXCEPT !.pullSecrets = Append(@, ForeignSecret)]} ELSE {})
  \cup (IF kind \in {"Deployment", "StatefulSet"} /\ spec.autoscaling # Nil
        THEN {[o EXCEPT !.replicas = n] : n \in 2 .. spec.autoscaling.max} ELSE {})

\* Bound: they change the first of the objects a behaviour follows.
OthersChange ==
  LET kind == tracked[1]
  IN /\ objects[kind] # Nil
     /\ \E o \in ChangedByOthers(kind, objects[kind]) \ {objects[kind]} :
          objects' = [objects EXCEPT ![kind] = o]
     /\ UNCHANGED <<tracked, spec, others, refs, cluster, pc, held, faults>>

\* Another operator creates or removes an object of the same name.
OthersCreate ==
  \E kind \in Kinds \cap Workloads :
    /\ objects[kind] = Nil
    /\ objects' = [objects EXCEPT ![kind] = Empty(kind)]
    /\ others' = others \cup {kind}
    /\ held' = IF pc = 0 THEN held ELSE [held EXCEPT !.appeared = @ \cup {kind}]
    /\ UNCHANGED <<tracked, spec, refs, cluster, pc, faults>>

OthersDelete ==
  \E kind \in others :
    /\ objects' = [objects EXCEPT ![kind] = Nil]
    /\ others' = others \ {kind}
    /\ UNCHANGED <<tracked, spec, refs, cluster, pc, held, faults>>

Reconcile    == Begin \/ DeleteOldRoute \/ Apply \/ LeaveAlone \/ CannotApply \/ WriteStatus
Surroundings == Edit \/ ClusterChanges \/ OthersChange \/ OthersCreate \/ OthersDelete

Next == Reconcile \/ ApplyFails \/ LoseStatus \/ Surroundings

\* Every reconcile asks for another one after an interval.
Spec == Init /\ [][Next]_vars /\ WF_vars(Reconcile)

-----------------------------------------------------------------------------
(* Properties.                                                             *)

\* The status refers to the host and the pull secrets the objects have, the
\* generated host and the secrets of others apart.
Recorded(kind, object, r) ==
  CASE kind = "Route" /\ object # Nil -> object.host \in {GeneratedHost, r.routeHost}
    [] kind = "ServiceAccount" /\ object # Nil ->
         ToSet(object.pullSecrets) \subseteq ToSet(r.pullSecrets) \cup {ForeignSecret}
    [] OTHER -> TRUE

\* Every kind is one of those a reconcile writes, and the reconcile is at a step
\* exactly when it has something in memory.
TypeOK ==
  /\ DOMAIN objects = Kinds
  /\ others \subseteq Kinds
  /\ \A kind \in Kinds : objects[kind] # Nil => DOMAIN objects[kind] = DOMAIN Empty(kind)
  /\ DOMAIN refs = DOMAIN NoReferences
  /\ pc \in 0 .. AtStatus
  /\ pc = 0 => held = Nil
  /\ pc # 0 => DOMAIN held = {"spec", "edited", "appeared", "refs"}
               /\ DOMAIN held.refs = DOMAIN NoReferences
  /\ faults \in 0 .. MaxFaults

\* What the content of an object does not remember.  Annotations are only ever
\* added to; node ports nobody asks for, the replicas under autoscaling and the
\* claims of a StatefulSet are kept on purpose; the rest are the settings that
\* stay when they are taken out of the specification.
Settings(kind, o, s) ==
  LET bare == [o EXCEPT !.annotations = EmptyMap]
      asked(i) == IF i = 1 THEN s.service.nodePort ELSE s.service.ports[i - 1].nodePort
      pod(p) == [p EXCEPT !.annotations = EmptyMap]
      scaled == IF s.autoscaling = Nil THEN bare ELSE [bare EXCEPT !.replicas = 0]
  IN CASE kind = "ServiceAccount" -> [bare EXCEPT !.pullSecrets = ToSet(@) \ {ForeignSecret}]
       [] kind = "Service" ->
            [bare EXCEPT !.ports = [i \in DOMAIN @ |->
               IF o.type = "ClusterIP" \/ (o.type = "NodePort" /\ asked(i) # 0) THEN @[i]
               ELSE [@[i] EXCEPT !.nodePort = 0]]]
       [] kind = "Deployment" -> [scaled EXCEPT !.pod = pod(@)]
       [] kind = "StatefulSet" ->
            [scaled EXCEPT !.claims = <<>>,
                           !.pod = [pod(@) EXCEPT !.mounts =
                                      SubSeq(@, 1, Len(s.mounts \o CertificateMount(s)))]]
       [] kind = "Route" /\ o.tls # Nil -> [bare EXCEPT !.tls = [@ EXCEPT !.insecure = ""]]
       [] kind = "ServiceMonitor" -> [bare EXCEPT !.kept = EmptyMap, !.always = EmptyMap]
       [] kind = "KnativeService" -> [bare EXCEPT !.podAnnotations = EmptyMap, !.portName = ""]
       [] OTHER -> bare

Applies(kind) == Apply /\ Kind = kind /\ Wanted(kind, held.spec)

\* An object that is written has the settings of a new object of the same
\* specification: nothing of an earlier one is left behind in it but what
\* Settings leaves out, provided the status refers to what the object has
\* (utils.go:50-1555).
NothingLeftBehind ==
  [][\A kind \in Kinds :
       Applies(kind) /\ Recorded(kind, objects[kind], held.refs) =>
         Settings(kind, objects'[kind], held.spec)
           = Settings(kind, Stored(kind, Nil, Customize(kind, Empty(kind), held.spec, held.refs)),
                      held.spec)]_vars

\* As long as no write is lost and nobody edits the resource during a reconcile,
\* the references in the status are in step with the Route and the ServiceAccount
\* they stand for (utils.go:136, 891, 899, 1961).
RecordedUnlessLost ==
  pc = 0 /\ faults = 0 => \A kind \in Kinds : Recorded(kind, objects[kind], refs)

\* A reconcile that finds what it has written has nothing to change: no content
\* alternates or grows, which would update the object, and so reconcile the
\* resource, for ever (utils.go:50-1555, reconciler.go:154-173).
Idempotent ==
  [][\A kind \in Kinds :
       Applies(kind) =>
         LET written == objects'[kind]
         IN Stored(kind, written, Customize(kind, written, held.spec, held'.refs)) = written]_vars

\* An update keeps what others have put into the object: their annotations, their
\* pull secrets and the number of replicas the Autoscaler has chosen
\* (utils.go:56, 870, 929-946, 1349).
OthersKept ==
  [][\A kind \in Kinds :
       Applies(kind) /\ objects[kind] # Nil =>
         LET old == objects[kind]  new == objects'[kind]
         IN /\ ForeignKey \in DOMAIN old.annotations => ForeignKey \in DOMAIN new.annotations
            /\ kind = "ServiceAccount" /\ ForeignSecret \in ToSet(old.pullSecrets) =>
                 ForeignSecret \in ToSet(new.pullSecrets)
            /\ kind \in {"Deployment", "StatefulSet"} /\ held.spec.autoscaling # Nil =>
                 new.replicas = old.replicas]_vars

\* The node ports a specification asks for.
AskedNodePorts(s) == {s.service.nodePort} \cup {p.nodePort : p \in ToSet(s.service.ports)}

\* The API server would accept a new object of the specification, at least a
\* Service with a cluster IP of its own.
Acceptable(kind, s, r) ==
  LET whole == IF kind = "Headless" THEN "Service" ELSE kind
  IN Accepted(whole, Nil, Customize(whole, Empty(whole), s, r))

\* The API server refuses what is written only when it would refuse a new object
\* of the same specification, but for three exceptions: a node port asked of an
\* additional port reaches the headless Service, which cannot have one; a port
\* inherits the node port of the port that had its position, and another asks for
\* it; and a claim cannot be added to a StatefulSet, nor mounted under a name
\* other than the one it was made with (utils.go:199-282, 811-864).
RejectionsExplained ==
  AtObject /\ Wanted(Kind, held.spec) /\ Possible(Kind, held.spec, held.refs)
           /\ Acceptable(Kind, held.spec, held.refs) /\ ~Accepted(Kind, Old, Result) =>
    \/ Kind = "Headless" /\ held.spec.service.type = "NodePort"
       /\ \E p \in ToSet(held.spec.service.ports) : p.nodePort # 0
    \/ Kind = "Service" /\ Old # Nil /\ held.spec.service.type = "NodePort"
       /\ \E p \in ToSet(Old.ports) : p.nodePort # 0 /\ p.nodePort \in AskedNodePorts(held.spec)
    \/ Kind = "StatefulSet" /\ Old # Nil /\ held.spec.statefulSet.storage # Nil
       /\ (Old.claims = <<>> \/ Old.claims[1].name # ClaimTemplate(held.spec).name)

\* A workload of another operator is written over only when it appeared after the
\* names were checked (utils.go:1893).
OwnersRespected ==
  [][\A kind \in others \cap Workloads :
       objects'[kind] # objects[kind] /\ (Apply \/ DeleteOldRoute) => kind \in held.appeared]_vars

\* Something keeps the reconcile from completing.
Blocked ==
  \/ pc = 0 /\ ~(CheckForNameConflicts /\ Validate(Prepared(spec)))
  \/ AtObject /\ ~Doable

\* The Route is replaced at every reconcile (run recreated).
Recreating ==
  /\ "Route" \in Kinds /\ refs.routeHost # ""
  /\ spec.expose /\ spec.route = Nil

Both(kind1, kind2) ==
  /\ {kind1, kind2} \subseteq Kinds
  /\ objects[kind1] # Nil /\ objects[kind2] # Nil

\* What the Route, the Ingress and the ServiceMonitor name is a port of the
\* Service, the Service forwards to the port of the container, and the
\* NetworkPolicy admits every port the Service forwards to.
PortsAgree ==
  /\ \A kind \in {"Route", "Ingress", "ServiceMonitor"} :
       Both("Service", kind) /\ objects[kind].port # <<>> =>
         \E p \in ToSet(objects["Service"].ports) : p.name = objects[kind].port
  /\ Both("Service", "Deployment") =>
       {p.port : p \in ToSet(objects["Deployment"].pod.ports)}
         = {objects["Service"].ports[1].targetPort}
  /\ Both("Service", "NetworkPolicy") =>
       {p.targetPort : p \in ToSet(objects["Service"].ports)}
         = ToSet(objects["NetworkPolicy"].ports)

\* The binding Secret has the address of the Route, and the pods the version of
\* the ServiceAccount.
InStep ==
  /\ PortsAgree
  /\ ("Route" \in Kinds /\ Both("BindingSecret", "BindingSecret") /\ spec.expose) =>
       LET data == objects["BindingSecret"].data
       IN /\ "ingress-uri" \in DOMAIN data
          /\ data["ingress-uri"] = GetIngressInfo(TheRoute) \o <<"/">>
  /\ Both("ServiceAccount", "Deployment") =>
       [name |-> "SA_RESOURCE_VERSION", value |-> objects["ServiceAccount"].pullSecrets]
         \in ToSet(objects["Deployment"].pod.env)

\* The reconciles that follow change no object.
Quiet == [][objects' = objects]_vars

\* Once the surroundings leave it alone and nothing blocks the reconcile, it
\* reaches objects it no longer changes, in which what one object has from
\* another is up to date (service_binding_reconciler.go:36, utils.go:186, 444-473, 661, 729, 1240, 1499).
EventuallyInStep ==
  []<><<Surroundings>>_vars \/ []<>Blocked \/ <>[]Recreating \/ (<>[]InStep /\ <>Quiet)

\* "If the host is now empty, delete the old route" (utils.go:1965): the host goes
\* with the old Route, and the new one stays.
RouteRecreatedOnce ==
  []<><<Surroundings>>_vars \/ []<>Blocked \/ <>Quiet
==============================================================================
