--------------------------- MODULE WorkloadContent ---------------------------
(***************************************************************************)
(* The objects that run the application, as functions of the object found  *)
(* in the cluster and the specification: the ServiceAccount, the pod       *)
(* template, Deployment, StatefulSet, Knative Service and Autoscaler.      *)
(***************************************************************************)
EXTENDS ObjectContent, Integers, FiniteSets

\* The ServiceAccount and its pull secrets; sets of names, in the order of the
\* object.  The secrets of the specification have to exist.
NewAccount == [labels |-> EmptyMap, annotations |-> EmptyMap, pullSecrets |-> <<>>]

\* What the loop over a has put into its result after n turns.
SetDiff(a, b) ==
  LET out[n \in 0 .. Len(a)] ==
        IF n = 0 THEN <<>>
        ELSE IF a[n] \in ToSet(b) THEN out[n - 1] ELSE Append(out[n - 1], a[n])
  IN out[Len(a)]

MissingPullSecrets(s, cluster) == ToSet(s.pullSecrets) \ DOMAIN cluster.secrets

\* Fault: names that are there already are added again.
NamesRepeated(old, s, refs) ==
  [Labelled(old, s) EXCEPT
     !.pullSecrets = SetDiff(@, SetDiff(refs.pullSecrets, s.pullSecrets)) \o s.pullSecrets]

\* The secrets the status refers to and the specification no longer names are
\* taken out, then the named ones that are not there are added.
CustomizeServiceAccount(old, s, refs) ==
  LET kept == SetDiff(old.pullSecrets, SetDiff(refs.pullSecrets, s.pullSecrets))
  IN [Labelled(old, s) EXCEPT !.pullSecrets = kept \o SetDiff(s.pullSecrets, kept)]

\* Only the first pull secret is looked up, and not at all for an own account
\* that asks for it.
ServiceAccountPullSecretExists(account, s, cluster) ==
  /\ account # Nil
  /\ \/ s.serviceAccount # Nil /\ s.serviceAccount.name # "" /\ s.serviceAccount.skipValidation
     \/ account.pullSecrets = <<>>
     \/ Head(account.pullSecrets) \in DOMAIN cluster.secrets

-----------------------------------------------------------------------------
\* Probes: an endpoint for each, whose settings win over the defaults.
Probes == {"startup", "readiness", "liveness"}

DefaultProbe(probe, s) ==
  [handler |-> [type |-> "httpGet", path |-> probe,
                port |-> GetManagedPort(s), scheme |-> GetManagedScheme(s)],
   timing |-> [period |-> 10, timeout |-> 2,
               delay |-> CASE probe = "startup" -> 0 [] probe = "readiness" -> 10
                           [] probe = "liveness" -> 60,
               failures |-> CASE probe = "startup" -> 20 [] probe = "readiness" -> 10
                              [] probe = "liveness" -> 3]]

CustomizeProbeDefaults(config, default) ==
  [handler |-> IF config.handler = Nil THEN default.handler
               ELSE IF config.handler.type = "httpGet"
               THEN MergeMaps(default.handler, config.handler) ELSE config.handler,
   timing |-> MergeMaps(default.timing, config.timing)]

customizeProbe(config, probe, s) ==
  IF config = Nil THEN Nil ELSE CustomizeProbeDefaults(config, DefaultProbe(probe, s))

CustomizeProbes(s) ==
  [probe \in Probes |-> IF s.probes = Nil THEN Nil ELSE customizeProbe(s.probes[probe], probe, s)]

\* The scheme of a probe is left to Knative.
WithoutScheme(probe) ==
  IF probe = Nil \/ probe.handler.type # "httpGet" THEN probe
  ELSE [probe EXCEPT !.handler = [@ EXCEPT !.scheme = ""]]

GetSecurityContext(s) ==
  LET default == [allowPrivilegeEscalation |-> FALSE, capabilities |-> "drop ALL",
                  privileged |-> FALSE, readOnlyRootFilesystem |-> FALSE,
                  runAsNonRoot |-> TRUE, seccompProfile |-> "RuntimeDefault"]
  IN MergeMaps(default, OrElse(s.securityContext, EmptyMap))

-----------------------------------------------------------------------------
\* Affinity.  A term of the node selector is a set of requirements, each a key
\* with its values; preferred terms come with their weights.
NoNodeAffinity == [required |-> <<>>, preferred |-> <<>>]

\* The requirements are put into every term, and into a new one if there is none.
Require(node, requirements) ==
  LET base  == OrElse(node, NoNodeAffinity)
      terms == IF base.required = <<>> THEN <<{}>> ELSE base.required
  IN [base EXCEPT !.required = [i \in DOMAIN terms |-> terms[i] \cup requirements]]

isCustomAffinityDefined(config) ==
  config # Nil /\ \E f \in {"node", "pod", "antiPod", "labels"} : config[f] # Nil

customizeAffinity(config) ==
  LET labels == OrElse(config.labels, EmptyMap)
  IN [node |-> IF labels = EmptyMap THEN config.node
               ELSE Require(config.node, {<<key, labels[key]>> : key \in DOMAIN labels}),
      pod |-> config.pod, antiPod |-> config.antiPod]

customizeDefaultAffinity ==
  [node |-> Nil, pod |-> Nil, antiPod |-> <<<<50, "zone">>, <<50, "hostname">>>>]

\* The earlier in the list, the more weight.
customizeAffinityArchitectures(affinity, config) ==
  LET archs == IF config = Nil THEN <<>> ELSE config.architecture
      node  == Require(affinity.node, {<<"arch", archs>>})
      preferences == [i \in DOMAIN archs |-> <<Len(archs) - i + 1, archs[i]>>]
  IN IF archs = <<>> THEN affinity
     ELSE [affinity EXCEPT !.node = [node EXCEPT !.preferred = @ \o preferences]]

CustomizeAffinity(config) ==
  customizeAffinityArchitectures(
    IF isCustomAffinityDefined(config) THEN customizeAffinity(config)
    ELSE customizeDefaultAffinity, config)

\* The spread of the pods: constraints by topology key.  A constraint whose key
\* was seen replaces the one at the position the memo has for the key, which is
\* its position in its own list.  Writing past the end of the list panics, which
\* is Nil here.
DefaultSpread == <<[key |-> "zone", when |-> "anyway"], [key |-> "hostname", when |-> "anyway"]>>

MergeTopologySpreadConstraints(constraints1, constraints2) ==
  LET placed(list) == [j \in DOMAIN list |-> [at |-> j, constraint |-> list[j]]]
      merge(acc, p) ==
        LET key == p.constraint.key
        IN IF acc = Nil THEN Nil
           ELSE IF key \notin DOMAIN acc.memo
           THEN [dest |-> Append(acc.dest, p.constraint), memo |-> acc.memo @@ (key :> p.at)]
           ELSE IF acc.memo[key] \in DOMAIN acc.dest
           THEN [acc EXCEPT !.dest[acc.memo[key]] = p.constraint]
           ELSE Nil
      merged == FoldLeft(merge, [dest |-> <<>>, memo |-> EmptyMap],
                         placed(constraints1) \o placed(constraints2))
  IN IF merged = Nil THEN Nil ELSE merged.dest

TopologySpread(s) ==
  LET config == s.topologySpread
      defaults == IF config = Nil \/ ~config.disableDefaults THEN DefaultSpread ELSE <<>>
  IN IF config = Nil \/ config.constraints = Nil THEN defaults
     ELSE MergeTopologySpreadConstraints(defaults, config.constraints)

-----------------------------------------------------------------------------
\* The pod template.  verbatim are the fields copied whatever they are: host
\* aliases, init containers, envFrom, tolerations, sidecars and the DNS settings.
NewPod ==
  [labels |-> EmptyMap, annotations |-> EmptyMap, ports |-> <<>>, image |-> "",
   resources |-> "none", probes |-> EmptyMap, pullPolicy |-> "", env |-> <<>>,
   verbatim |-> Nil, volumes |-> <<>>, mounts |-> <<>>, security |-> EmptyMap, account |-> "",
   spread |-> <<>>, affinity |-> Nil, automount |-> TRUE, serviceLinks |-> Nil, priority |-> ""]

MountsCertificate(s) == s.manageTLS \/ s.service.certificateSecretRef # Nil

GetEnvVarValue(env, name, default) ==
  IF \E i \in DOMAIN env : env[i].name = name
  THEN env[CHOOSE i \in DOMAIN env : env[i].name = name
             /\ \A j \in 1 .. i - 1 : env[j].name # name].value
  ELSE default

Env(s, refs) ==
  LET var(name, value) == [name |-> name, value |-> value]
      given == ToSet(s.env)
  IN s.env
     \o (IF MountsCertificate(s) /\ \A v \in given : v.name # "TLS_DIR"
         THEN <<var("TLS_DIR", "/etc/x509/certs")>> ELSE <<>>)
     \o (IF refs.saVersion = Nil THEN <<>> ELSE <<var("SA_RESOURCE_VERSION", refs.saVersion)>>)

CertificateVolume(s, refs) ==
  IF MountsCertificate(s) THEN <<[name |-> "svc-certificate", secret |-> refs.certSecret]>> ELSE <<>>

CertificateMount(s) ==
  IF MountsCertificate(s)
  THEN <<[name |-> "svc-certificate",
          path |-> GetEnvVarValue(s.env, "TLS_DIR", "/etc/x509/certs")]>>
  ELSE <<>>

\* Only the section of the workload that is used gives annotations to the pods.
WorkloadAnnotations(s) ==
  IF s.statefulSet # Nil THEN s.statefulSet.annotations
  ELSE IF s.deployment # Nil THEN s.deployment.annotations ELSE EmptyMap

ContainerPort(s) == OrElse(s.service.targetPort, s.service.port)

AccountName(s) == IF GetServiceAccountName(s) = "" THEN Name ELSE GetServiceAccountName(s)

CustomizePodSpec(old, s, refs) ==
  [Labelled(old, s) EXCEPT
     !.annotations = MergeMaps(MergeMaps(@, GetAnnotations(s)), WorkloadAnnotations(s)),
     !.ports = <<[port |-> ContainerPort(s),
                  name |-> PortName(s.service.portName, ContainerPort(s))]>>
               \o (IF @ = <<>> THEN @ ELSE Tail(@)),
     !.image = refs.image,
     !.resources = OrElse(s.resources, @),
     !.probes = CustomizeProbes(s),
     !.pullPolicy = OrElse(s.pullPolicy, @),
     !.env = Env(s, refs),
     !.verbatim = s.verbatim,
     !.volumes = s.volumes \o CertificateVolume(s, refs),
     !.mounts = s.mounts \o CertificateMount(s),
     !.security = GetSecurityContext(s),
     !.account = AccountName(s),
     !.spread = TopologySpread(s),
     !.affinity = CustomizeAffinity(s.affinity),
     !.automount = s.serviceAccount = Nil \/ s.serviceAccount.mountToken,
     !.serviceLinks = IF s.disableServiceLinks THEN FALSE ELSE Nil,
     !.priority = OrElse(s.priorityClassName, "")]

\* The pod template carries the hash of the certificate's secret, under the
\* name of the secret.
CertificateUsable(s, refs, cluster) ==
  MountsCertificate(s) => refs.certSecret \in DOMAIN cluster.secrets

CustomizePodWithSVCCertificate(pod, s, refs, cluster) ==
  IF MountsCertificate(s)
  THEN [pod EXCEPT !.annotations =
          With(@, "hash " \o refs.certSecret, cluster.secrets[refs.certSecret]["tls.crt"])]
  ELSE pod

-----------------------------------------------------------------------------
\* Deployment and StatefulSet.
NewDeployment == [labels |-> EmptyMap, annotations |-> EmptyMap,
                  replicas |-> 1, strategy |-> "", pod |-> NewPod]

NewStatefulSet == [labels |-> EmptyMap, annotations |-> EmptyMap,
                   replicas |-> 1, strategy |-> "", pod |-> NewPod, claims |-> <<>>]

\* Fault: the Autoscaler is not heeded.
AlwaysReplicas(old, s) == OrElse(s.replicas, 1)

\* With autoscaling the number of replicas is left to the Autoscaler; a number
\* left out is 1 for the API server.
Replicas(old, s) == IF s.autoscaling = Nil THEN OrElse(s.replicas, 1) ELSE old

Strategy(section) ==
  IF section = Nil THEN "RollingUpdate" ELSE OrElse(section.updateStrategy, "RollingUpdate")

Workload(old, s, refs, cluster, section) ==
  [Labelled(old, s) EXCEPT
     !.annotations = MergeMaps(MergeMaps(@, GetAnnotations(s)),
                               IF section = Nil THEN EmptyMap ELSE section.annotations),
     !.replicas = Replicas(@, s),
     !.strategy = Strategy(section),
     !.pod = CustomizePodWithSVCCertificate(CustomizePodSpec(@, s, refs), s, refs, cluster)]

CustomizeDeployment(old, s, refs, cluster) == Workload(old, s, refs, cluster, s.deployment)

\* The claim templates are made once; their volume is mounted unless the
\* specification mounts it already.
ClaimTemplate(s) ==
  OrElse(s.statefulSet.storage.template,
         [name |-> "pvc", size |-> s.statefulSet.storage.size,
          class |-> s.statefulSet.storage.className])

CustomizePersistence(sts, s) ==
  IF s.statefulSet.storage = Nil THEN sts
  ELSE LET claims == IF sts.claims = <<>> THEN <<ClaimTemplate(s)>> ELSE sts.claims
           mounts == sts.pod.mounts
           mount  == [name |-> claims[1].name, path |-> s.statefulSet.storage.mountPath]
           mounted == \E m \in ToSet(mounts) : m.name = mount.name
       IN [sts EXCEPT
             !.claims = claims,
             !.pod = [@ EXCEPT !.mounts =
                        IF mount.path = "" \/ mounted THEN mounts ELSE Append(mounts, mount)]]

CustomizeStatefulSet(old, s, refs, cluster) ==
  CustomizePersistence(Workload(old, s, refs, cluster, s.statefulSet), s)

\* A storage section needs a size unless it has a template of its own.
Validate(s) ==
  LET storage == IF s.statefulSet = Nil THEN Nil ELSE s.statefulSet.storage
  IN storage # Nil /\ storage.template = Nil => storage.size \notin {"", "malformed"}

-----------------------------------------------------------------------------
\* The Knative Service.
NewKnative ==
  [labels |-> EmptyMap, annotations |-> EmptyMap, podLabels |-> EmptyMap,
   podAnnotations |-> EmptyMap, port |-> 0, portName |-> "", image |-> "", probes |-> EmptyMap,
   pullPolicy |-> "", env |-> <<>>, verbatim |-> Nil, volumes |-> <<>>, mounts |-> <<>>,
   security |-> EmptyMap, account |-> "", automount |-> Nil, priority |-> ""]

\* Expose wins over a visibility given as a label.
Visibility(labels, s) ==
  IF s.expose THEN Without(labels, {"visibility", "serving visibility"})
  ELSE MergeMaps(labels, ("visibility" :> "cluster-local")
                         @@ ("serving visibility" :> "cluster-local"))

KnativeAutoscaling == {"knative/min-scale"}

CustomizeKnativeService(old, s, refs) ==
  [Labelled(old, s) EXCEPT
     !.labels = Visibility(GetLabels(s), s),
     !.annotations = filterMerge(KnativeAutoscaling, old.annotations, GetAnnotations(s)),
     !.podLabels = GetLabels(s),
     !.podAnnotations = MergeMaps(@, GetAnnotations(s)),
     !.port = ContainerPort(s),
     !.portName = IF s.service.portName = "" THEN @ ELSE s.service.portName,
     !.image = refs.image,
     !.probes = [p \in Probes |-> WithoutScheme(CustomizeProbes(s)[p])],
     !.pullPolicy = s.pullPolicy,
     !.env = s.env,
     !.verbatim = s.verbatim,
     !.volumes = s.volumes,
     !.mounts = s.mounts,
     !.security = GetSecurityContext(s),
     !.account = AccountName(s),
     !.automount = IF s.serviceAccount # Nil /\ ~s.serviceAccount.mountToken THEN FALSE ELSE Nil,
     !.priority = OrElse(s.priorityClassName, "")]

-----------------------------------------------------------------------------
\* The Autoscaler.
NewHPA == [labels |-> EmptyMap, annotations |-> EmptyMap,
           min |-> Nil, max |-> 0, behavior |-> Nil, metrics |-> <<>>, target |-> ""]

CustomizeHPA(old, s) ==
  LET autoscaling == s.autoscaling
      usage(resource, percentage) ==
        IF percentage = Nil THEN <<>> ELSE <<<<resource, percentage>>>>
  IN [Labelled(old, s) EXCEPT
        !.min = autoscaling.min,
        !.max = autoscaling.max,
        !.behavior = autoscaling.behavior,
        !.metrics = usage("cpu", autoscaling.cpu) \o usage("memory", autoscaling.memory)
                    \o autoscaling.metrics,
        !.target = IF s.statefulSet = Nil THEN "Deployment" ELSE "StatefulSet"]
==============================================================================
