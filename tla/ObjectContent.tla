---------------------------- MODULE ObjectContent ----------------------------
(***************************************************************************)
(* What the objects of one RuntimeComponent have in common: the defaults   *)
(* put into the specification, the labels and annotations of every object, *)
(* and the names of ports and of the service account.                      *)
(*                                                                         *)
(* A specification is a record with the fields of RuntimeComponentSpec     *)
(* that the objects depend on.  Nil is a pointer that is not set, "" an    *)
(* empty string and 0 a number left out, as in the Go types.  Maps are     *)
(* functions and lists are sequences.                                      *)
(***************************************************************************)
EXTENDS Naturals, Sequences, SequencesExt

CONSTANT Nil

\* The name of the RuntimeComponent, and the one operator of this project.
Name == "app"

EmptyMap == [k \in {} |-> ""]

Without(map, keys) == Restrict(map, DOMAIN map \ keys)

Get(map, key) == IF key \in DOMAIN map THEN map[key] ELSE ""

\* The second map is the more important.
MergeMaps(map1, map2) ==
  [k \in DOMAIN map1 \cup DOMAIN map2 |-> IF k \in DOMAIN map2 THEN map2[k] ELSE map1[k]]

With(map, key, value) == [k \in DOMAIN map \cup {key} |-> IF k = key THEN value ELSE map[k]]

filterMerge(filtered, map1, map2) == Without(MergeMaps(map1, map2), filtered)

\* A name of a port that is given, or made from its number.
PortName(name, port) == IF name = "" THEN <<port, "tcp">> ELSE <<name>>

OrElse(value, default) == IF value = Nil THEN default ELSE value

-----------------------------------------------------------------------------
\* The sections of a specification, with nothing given in them.  A boolean left
\* out has its default; a quantity is a name.
NoService ==
  [port |-> 0, portName |-> "", type |-> Nil, nodePort |-> 0, targetPort |-> Nil,
   ports |-> <<>>, sessionAffinity |-> Nil, annotations |-> EmptyMap,
   certificateSecretRef |-> Nil, bindable |-> FALSE]

EmptyAccount     == [name |-> "", mountToken |-> TRUE, skipValidation |-> FALSE]
EmptyProbes      == [startup |-> Nil, readiness |-> Nil, liveness |-> Nil]
EmptyAffinity    == [node |-> Nil, pod |-> Nil, antiPod |-> Nil, labels |-> Nil, architecture |-> <<>>]
EmptyAutoscaling == [min |-> Nil, max |-> 0, behavior |-> Nil, cpu |-> Nil, memory |-> Nil, metrics |-> <<>>]
EmptyPolicy      == [disable |-> FALSE, namespaceLabels |-> Nil, fromLabels |-> Nil]
EmptyDeployment  == [updateStrategy |-> Nil, annotations |-> EmptyMap]
EmptyStatefulSet == [updateStrategy |-> Nil, annotations |-> EmptyMap, storage |-> Nil]
EmptyStorage     == [size |-> "", className |-> "", mountPath |-> "", template |-> Nil]
EmptyMonitoring  == [labels |-> EmptyMap, endpoints |-> <<>>]
EmptySpread      == [disableDefaults |-> FALSE, constraints |-> Nil]

EmptyRoute ==
  [annotations |-> EmptyMap, host |-> "", path |-> "", pathType |-> "",
   termination |-> Nil, insecure |-> Nil, certificateSecretRef |-> Nil]

EmptySpec ==
  [labels |-> EmptyMap, annotations |-> EmptyMap, applicationName |-> "",
   applicationVersion |-> "", image |-> "v1", pullPolicy |-> Nil, resources |-> Nil,
   manageTLS |-> TRUE, expose |-> FALSE, knative |-> FALSE, disableTopologyRouting |-> FALSE,
   service |-> Nil, route |-> Nil, networkPolicy |-> Nil, monitoring |-> Nil,
   replicas |-> Nil, autoscaling |-> Nil, deployment |-> Nil, statefulSet |-> Nil,
   probes |-> Nil, env |-> <<>>, verbatim |-> "none", volumes |-> <<>>, mounts |-> <<>>,
   securityContext |-> Nil, affinity |-> Nil, topologySpread |-> Nil,
   disableServiceLinks |-> FALSE, priorityClassName |-> Nil, serviceAccount |-> Nil,
   serviceAccountName |-> "", pullSecrets |-> <<>>]

-----------------------------------------------------------------------------
GetManagedPort(s) ==
  IF s.service # Nil /\ s.service.port # 0 THEN s.service.port ELSE 8080

GetManagedScheme(s) == IF s.manageTLS THEN "HTTPS" ELSE "HTTP"

\* The part-of label is a default of the application name, and then follows it.
Initialize(s) ==
  LET application ==
        IF s.applicationName # "" THEN s.applicationName
        ELSE IF Get(s.labels, "part-of") # "" THEN s.labels["part-of"] ELSE Name
      service == OrElse(s.service, NoService)
      withTarget(p) == IF p.targetPort = 0 THEN [p EXCEPT !.targetPort = p.port] ELSE p
  IN [s EXCEPT
        !.pullPolicy = OrElse(@, "IfNotPresent"),
        !.resources = OrElse(@, "none"),
        !.applicationName = application,
        !.labels = IF @ = EmptyMap THEN @ ELSE With(@, "part-of", application),
        !.service = [service EXCEPT
                       !.type = OrElse(@, "ClusterIP"),
                       !.port = GetManagedPort(s),
                       !.ports = [i \in DOMAIN @ |-> withTarget(@[i])]]]

\* Two image annotations have OpenShift equivalents.
GetOpenShiftAnnotations(s) ==
  LET convert(from, to) ==
        IF from \in DOMAIN s.annotations THEN to :> s.annotations[from] ELSE EmptyMap
  IN MergeMaps(convert("image/source", "vcs-uri"), convert("image/revision", "vcs-ref"))

-----------------------------------------------------------------------------
GetLabels(s) ==
  LET defaults == ("instance" :> Name) @@ ("name" :> Name) @@ ("rc/name" :> Name)
                  @@ ("managed-by" :> "runtime-component-operator")
                  @@ ("component" :> "backend") @@ ("part-of" :> s.applicationName)
      version == IF s.applicationVersion = "" THEN EmptyMap
                 ELSE "version" :> s.applicationVersion
  IN MergeMaps(MergeMaps(defaults, version), Without(s.labels, {"instance"}))

GetAnnotations(s) == Without(s.annotations, {"last-applied"})

\* The deprecated field counts only when there is no serviceAccount section.
GetServiceAccountName(s) ==
  IF s.serviceAccount # Nil THEN s.serviceAccount.name ELSE s.serviceAccountName

\* An object with the labels and annotations every object gets.
Labelled(old, s) ==
  [old EXCEPT !.labels = GetLabels(s), !.annotations = MergeMaps(@, GetAnnotations(s))]
==============================================================================
