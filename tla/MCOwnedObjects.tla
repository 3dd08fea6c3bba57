---------------------------- MODULE MCOwnedObjects ----------------------------
(* OwnedObjects on small sets of specifications, varied for each kind of      *)
(* object in the fields its content depends on.                               *)
EXTENDS OwnedObjects

Base == [EmptySpec EXCEPT !.manageTLS = FALSE, !.service = NoService]

Annotated == [Base EXCEPT !.annotations = ("image/source" :> "git") @@ ("knative/min-scale" :> "1"),
                          !.labels = ("instance" :> "other") @@ ("visibility" :> "public"),
                          !.applicationVersion = "1"]
PartOf    == [Base EXCEPT !.labels = "part-of" :> "suite"]

\* A target port that is given by its name.
Named == -1

Port(n, name, node) == [port |-> n, name |-> name, targetPort |-> 0, nodePort |-> node]

\* Ports that come and go, node ports given and left to the API server.
WithService(type, ports) == [Base EXCEPT !.service = [NoService EXCEPT !.type = type, !.ports = ports]]

ServiceSpecs ==
  {Base, [PartOf EXCEPT !.service = Nil],
   [Annotated EXCEPT !.disableTopologyRouting = TRUE, !.service.portName = "web",
                     !.service.targetPort = 9090, !.service.sessionAffinity = "ClientIP"],
   [Base EXCEPT !.manageTLS = TRUE, !.monitoring = EmptyMonitoring],
   [Base EXCEPT !.manageTLS = TRUE, !.service.annotations = CertName :> "mine"],
   [Base EXCEPT !.manageTLS = TRUE, !.service.certificateSecretRef = "mine"],
   WithService("LoadBalancer", <<Port(9000, "a", 30001)>>),
   WithService("NodePort", <<Port(9000, "a", 30001)>>),
   WithService("NodePort", <<Port(9001, "b", 0), Port(9000, "a", 30001)>>),
   WithService("ClusterIP", <<[Port(9000, "a", 0) EXCEPT !.targetPort = Named]>>),
   [WithService("NodePort", <<Port(9001, "b", 0)>>) EXCEPT !.service.nodePort = 30001]}

HeadlessSpecs ==
  {[s EXCEPT !.statefulSet = EmptyStatefulSet] :
     s \in {WithService(type, <<Port(9000, "a", node)>>) :
              type \in {"ClusterIP", "NodePort"}, node \in {0, 30001}}
           \cup {[Base EXCEPT !.service.nodePort = 30002, !.service.type = "NodePort"]}}
  \cup {Base}

PolicySpecs ==
  {[Base EXCEPT !.expose = exposed, !.networkPolicy = policy] :
     exposed \in BOOLEAN,
     policy \in {Nil} \cup [disable : {FALSE}, namespaceLabels : {Nil, EmptyMap},
                            fromLabels : {Nil, EmptyMap, "role" :> "client"}]}
  \cup {[Base EXCEPT !.networkPolicy = [EmptyPolicy EXCEPT !.disable = TRUE]]}

Route(host, path, termination, insecure, secret) ==
  [EmptyRoute EXCEPT !.host = host, !.path = path, !.termination = termination,
                     !.insecure = insecure, !.certificateSecretRef = secret]

Exposed(route) == [Base EXCEPT !.expose = TRUE, !.route = route]

RouteSpecs ==
  {Base, Exposed(Nil),
   Exposed(Route("", "", Nil, Nil, Nil)),
   Exposed(Route("shop", "/", "edge", "Redirect", "mine")),
   Exposed(Route("shop", "/", "edge", Nil, Nil)),
   Exposed(Route("desk", "/", "passthrough", Nil, "mine")),
   Exposed(Route("desk", "", "reencrypt", "Allow", Nil)),
   [Exposed(Route("", "/", Nil, "Allow", "broken")) EXCEPT !.service.portName = "web"],
   [Exposed(Nil) EXCEPT !.manageTLS = TRUE],
   [Exposed(Route("shop", "", "reencrypt", Nil, "mine")) EXCEPT !.manageTLS = TRUE]}

IngressSpecs ==
  {Base, Exposed(Nil), Exposed(Route("shop", "", Nil, Nil, "mine")),
   [Exposed([Route("", "/", Nil, Nil, "mine") EXCEPT !.pathType = "Prefix",
                                                    !.annotations = "class" :> "nginx"])
      EXCEPT !.service.portName = "web"],
   Annotated}

Endpoint(port, target, settings) ==
  [port |-> port, targetPort |-> target, scheme |-> Nil, tls |-> Nil,
   kept |-> settings, always |-> settings, credentials |-> {}]

Monitored(tls, labels, endpoints) ==
  [Base EXCEPT !.manageTLS = tls, !.monitoring = [labels |-> labels, endpoints |-> endpoints]]

MonitorSpecs ==
  {Base, [Monitored(FALSE, EmptyMap, <<>>) EXCEPT !.knative = TRUE],
   Monitored(FALSE, "team" :> "a", <<>>), Monitored(TRUE, EmptyMap, <<>>),
   Monitored(TRUE, EmptyMap, <<Endpoint("", 9443, "interval" :> "5s")>>),
   Monitored(TRUE, "team" :> "a",
     <<[Endpoint("web", 9443, EmptyMap) EXCEPT !.scheme = "http", !.tls = [ca |-> "own"]]>>),
   Monitored(FALSE, EmptyMap,
     <<[Endpoint("web", Nil, EmptyMap) EXCEPT
          !.credentials = {[name |-> "mine", optional |-> FALSE],
                           [name |-> "absent", optional |-> TRUE]}]>>),
   Monitored(FALSE, EmptyMap,
     <<[Endpoint("", Nil, EmptyMap) EXCEPT
          !.credentials = {[name |-> "pull-b", optional |-> FALSE]}]>>)}

AccountSpecs ==
  {[Base EXCEPT !.pullSecrets = secrets] :
     secrets \in {<<>>, <<"pull-a">>, <<"pull-b">>, <<"pull-b", "pull-a">>}}
  \cup {[Base EXCEPT !.serviceAccountName = "own"]}

\* Pods.
Autoscaled == [EmptyAutoscaling EXCEPT !.min = 1, !.max = 3, !.cpu = 80]
AnyProbe   == [handler |-> Nil, timing |-> EmptyMap]
HttpProbe  == [AnyProbe EXCEPT !.handler = [type |-> "httpGet", port |-> 9443],
                               !.timing = [period |-> 5]]
ExecProbe  == [AnyProbe EXCEPT !.handler = [type |-> "exec", command |-> "true"]]
Constraint(key, when) == [key |-> key, when |-> when]
Spread(disabled, constraints) == [disableDefaults |-> disabled, constraints |-> constraints]
Account(name, mount) == [name |-> name, mountToken |-> mount, skipValidation |-> TRUE]

PodVariants ==
  {Base,
   [Annotated EXCEPT !.probes = [EmptyProbes EXCEPT !.startup = AnyProbe, !.readiness = HttpProbe],
                     !.securityContext = [runAsNonRoot |-> FALSE], !.priorityClassName = "high"],
   [Base EXCEPT !.manageTLS = TRUE, !.resources = "small", !.pullPolicy = "Always",
                !.affinity = [EmptyAffinity EXCEPT !.architecture = <<"arm", "x86">>]],
   [Base EXCEPT !.manageTLS = TRUE, !.env = <<[name |-> "TLS_DIR", value |-> "/tls"]>>,
                !.service.certificateSecretRef = "mine", !.disableServiceLinks = TRUE,
                !.probes = [EmptyProbes EXCEPT !.liveness = ExecProbe],
                !.serviceAccount = Account("own", FALSE)],
   [Base EXCEPT !.affinity = [EmptyAffinity EXCEPT !.labels = "disk" :> "ssd", !.antiPod = <<>>],
                !.topologySpread = Spread(FALSE, <<Constraint("zone", "never"), Constraint("rack", "never")>>),
                !.volumes = <<[name |-> "data", secret |-> "mine"]>>,
                !.mounts = <<[name |-> "data", path |-> "/data"]>>]}

DeploymentSpecs ==
  PodVariants
  \cup {[Base EXCEPT !.autoscaling = Autoscaled, !.replicas = 2,
                     !.deployment = [updateStrategy |-> "Recreate", annotations |-> "tier" :> "web"]],
        [Base EXCEPT !.topologySpread = [EmptySpread EXCEPT !.disableDefaults = TRUE], !.replicas = 2, !.service.targetPort = 9090],
        [Base EXCEPT !.topologySpread =
           Spread(TRUE, <<Constraint("zone", "never"), Constraint("zone", "anyway"),
                          Constraint("rack", "never"), Constraint("rack", "anyway")>>)]}

KnativeSpecs == {[s EXCEPT !.knative = TRUE] : s \in PodVariants}
                \cup {[Annotated EXCEPT !.knative = TRUE, !.expose = TRUE],
                      [Base EXCEPT !.knative = TRUE, !.service.portName = "web"], Base}

Storage(size, path, template) ==
  [size |-> size, className |-> "", mountPath |-> path, template |-> template]
Stateful(storage) == [EmptyStatefulSet EXCEPT !.storage = storage]

StatefulSpecs ==
  {[Base EXCEPT !.statefulSet = Stateful(storage)] :
     storage \in {Nil, Storage("1Gi", "/data", Nil), Storage("malformed", "", Nil),
                  Storage("", "/logs", [name |-> "logs", size |-> "2Gi", class |-> "fast"])}}
  \cup {[Base EXCEPT !.statefulSet = Stateful(Storage("1Gi", "/data", Nil)),
                     !.volumes = <<[name |-> "data", secret |-> "mine"]>>,
                     !.mounts = <<[name |-> "data", path |-> "/secret"]>>],
        [Base EXCEPT !.statefulSet = Stateful(Nil), !.autoscaling = Autoscaled], Base}

HPASpecs ==
  {Base, [Base EXCEPT !.autoscaling = Autoscaled],
   [Base EXCEPT !.autoscaling = [Autoscaled EXCEPT !.min = 4]],
   [Base EXCEPT !.autoscaling = [Autoscaled EXCEPT !.cpu = Nil, !.memory = 70, !.metrics = <<<<"queue", 5>>>>],
                !.statefulSet = Stateful(Nil)]}

BindingSpecs ==
  {[s EXCEPT !.service.bindable = TRUE] :
     s \in {Base, Exposed(Nil), Exposed(Route("shop", "/", "edge", Nil, Nil)),
            [Exposed(Route("desk", "", Nil, Nil, Nil)) EXCEPT !.service.certificateSecretRef = "mine"]}}
  \cup {Base}

\* Ports given to several objects.
PortSpecs ==
  {[Base EXCEPT !.expose = TRUE, !.service = service,
                !.monitoring = EmptyMonitoring] :
     service \in {NoService, [NoService EXCEPT !.portName = "web", !.targetPort = 9090],
                  [NoService EXCEPT !.port = 8443, !.ports = <<Port(9000, "", 0)>>]}}

MCSpecs(track) ==
  CASE track = <<"Service">>        -> ServiceSpecs
    [] track = <<"Headless">>       -> HeadlessSpecs
    [] track = <<"NetworkPolicy">>  -> PolicySpecs
    [] track = <<"Route">>          -> RouteSpecs
    [] track = <<"Ingress">>        -> IngressSpecs
    [] track = <<"ServiceMonitor">> -> MonitorSpecs
    [] track = <<"ServiceAccount">> -> AccountSpecs
    [] track = <<"Deployment">>     -> DeploymentSpecs
    [] track = <<"StatefulSet">>    -> StatefulSpecs
    [] track = <<"KnativeService">> -> KnativeSpecs
    [] track = <<"HPA">>            -> HPASpecs
    [] track = <<"BindingSecret", "Route">> -> BindingSpecs
    [] track = <<"ServiceAccount", "Deployment">> ->
         {[Base EXCEPT !.pullSecrets = secrets] : secrets \in {<<>>, <<"pull-a">>, <<"pull-b">>}}
    [] OTHER -> PortSpecs

TLS(name) == [f \in {"tls.crt", "tls.key", "ca.crt"} |-> name]
Secrets(names) == [n \in names |-> IF n = "broken" THEN "tls.crt" :> "not PEM" ELSE TLS(n)]

Cluster ==
  [openshift |-> TRUE, certManager |-> TRUE, hostname |-> "", override |-> EmptyMap,
   secrets |-> Secrets({"app-svc-tls-cm", "mine", "broken", "pull-a", "pull-b", ForeignSecret})]

Pulls(names) == [Cluster EXCEPT !.secrets = Secrets(names \cup {ForeignSecret})]

MCClusters(track) ==
  CASE track = <<"Service">> -> {[Cluster EXCEPT !.certManager = c] : c \in BOOLEAN}
    [] track \in {<<"Route">>, <<"Ingress">>} ->
         {[Cluster EXCEPT !.hostname = h] : h \in {"", "apps"}}
    [] track = <<"NetworkPolicy">> -> {[Cluster EXCEPT !.openshift = o] : o \in BOOLEAN}
    [] track = <<"ServiceAccount">> -> {Pulls({"pull-a", "pull-b"}), Pulls({"pull-b"})}
    [] track = <<"ServiceMonitor">> ->
         {Cluster, [Cluster EXCEPT !.secrets = Without(@, {"pull-b"})]}
    [] track = <<"StatefulSet">> ->
         {Cluster, [Cluster EXCEPT !.secrets = MergeMaps(@, "app-svc-tls-cm" :> TLS("renewed"))]}
    [] track = <<"BindingSecret", "Route">> ->
         {Cluster, [Cluster EXCEPT !.override = "host" :> "proxy"]}
    [] OTHER -> {Cluster}

\* One kind at a time, with the Route for the binding Secret that has its address.
AllTracks ==
  {<<k>> : k \in {"Service", "Headless", "NetworkPolicy", "Route", "Ingress", "ServiceMonitor",
                  "ServiceAccount", "Deployment", "StatefulSet", "KnativeService", "HPA"}}
  \cup {<<"BindingSecret", "Route">>}

\* Objects whose content depends on each other.
LinkedTracks ==
  {<<"BindingSecret", "Route">>, <<"ServiceAccount", "Deployment">>,
   <<"Service", "NetworkPolicy", "Deployment", "Ingress", "ServiceMonitor">>}

RouteTrack == {<<"Route">>}
==============================================================================
