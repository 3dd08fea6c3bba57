--------------------------- MODULE ExposureContent ---------------------------
(***************************************************************************)
(* The objects that make the application reachable, as functions of the    *)
(* object found in the cluster and the specification: Service, Network-    *)
(* Policy, Route, Ingress, ServiceMonitor and binding Secret.              *)
(*                                                                         *)
(* refs are the references in the status and cluster is what else the      *)
(* functions read: the configured host name, the secrets there are, the    *)
(* certificate of the service and the platform.                            *)
(***************************************************************************)
EXTENDS ObjectContent, Integers, FiniteSets

\* The Service.
NewPort == [port |-> 0, name |-> <<>>, targetPort |-> 0, nodePort |-> 0]

NewService ==
  [labels |-> EmptyMap, annotations |-> EmptyMap, ports |-> <<>>,
   type |-> "ClusterIP", affinity |-> Nil, headless |-> FALSE]

\* A node port that the type allows and nobody asks for stays what it was.
NodePort(old, type, asked, never) ==
  CASE type = "ClusterIP" \/ never              -> 0
    [] type = "NodePort" /\ ~never /\ asked # 0 -> asked
    [] OTHER                                    -> old

CustomizeServiceAnnotations(annotations, disabled) ==
  IF disabled THEN Without(annotations, {"topology-hints", "topology-mode"})
  ELSE With(annotations, "topology-mode", "Auto")

\* Fault: a headless Service asks for the node port as well.
SamePort(old, service, headless) ==
  [port |-> service.port, name |-> PortName(service.portName, service.port),
   targetPort |-> OrElse(service.targetPort, service.port),
   nodePort |-> NodePort(old.nodePort, service.type, service.nodePort, FALSE)]

PrimaryPort(old, service, headless) ==
  [port |-> service.port,
   name |-> PortName(service.portName, service.port),
   targetPort |-> OrElse(service.targetPort, service.port),
   nodePort |-> NodePort(old.nodePort, service.type, service.nodePort, headless)]

\* The number of a port; one that is given by its name, which a negative number
\* stands for, has 0, for which the API server takes the port itself.
IntValue(port) == IF port < 0 THEN 0 ELSE port

AdditionalPort(old, p, type) ==
  [port |-> p.port, name |-> PortName(p.name, p.port), targetPort |-> IntValue(p.targetPort),
   nodePort |-> NodePort(old.nodePort, type, p.nodePort, FALSE)]

\* The ports are matched by position: the list is cut or extended to the
\* wanted length and every entry then overwritten.
CustomizeService(old, s, headless) ==
  LET service == s.service
      at(i)   == IF i \in DOMAIN old.ports THEN old.ports[i] ELSE NewPort
  IN [Labelled(old, s) EXCEPT
        !.annotations = MergeMaps(CustomizeServiceAnnotations(old.annotations,
                                                              s.disableTopologyRouting),
                                  GetAnnotations(s)),
        !.ports = <<PrimaryPort(at(1), service, headless)>>
                  \o [i \in DOMAIN service.ports |->
                        AdditionalPort(at(i + 1), service.ports[i], service.type)],
        !.type = service.type,
        !.affinity = OrElse(service.sessionAffinity, "None")]

\* OpenShift makes the certificate of a Service that carries its annotation.
OCPSecretName == "app-svc-tls-ocp"
CertName      == "serving-cert-secret-name"
AlphaCertName == "alpha-serving-cert-secret-name"

AddOCPCertAnnotation(annotations, s) ==
  IF s.knative \/ ~s.manageTLS \/ s.service.certificateSecretRef # Nil
  THEN IF Get(annotations, CertName) = OCPSecretName
       THEN Without(annotations, {CertName, "serving-cert-signed-by",
                                  "alpha-serving-cert-signed-by"})
       ELSE annotations
  ELSE IF {CertName, AlphaCertName} \cap DOMAIN annotations # {} THEN annotations
  ELSE With(annotations, CertName, OCPSecretName)

OCPReference(annotations) ==
  IF CertName \in DOMAIN annotations THEN annotations[CertName]
  ELSE Get(annotations, AlphaCertName)

\* The Service as the reconcile writes it.
ReconciledService(old, s, cluster) ==
  LET svc == CustomizeService(old, s, FALSE)
      annotated == MergeMaps(svc.annotations, s.service.annotations)
  IN [svc EXCEPT
        !.annotations = IF cluster.openshift /\ ~cluster.certManager
                        THEN AddOCPCertAnnotation(annotated, s) ELSE annotated,
        !.labels = IF s.monitoring = Nil THEN Without(@, {"monitor/enabled"})
                   ELSE With(@, "monitor/enabled", "true")]

HeadlessService(old, s) ==
  [CustomizeService(old, s, TRUE) EXCEPT !.type = "ClusterIP", !.headless = TRUE]

-----------------------------------------------------------------------------
\* The NetworkPolicy: who may send, and to which ports.
NewPolicy == [labels |-> EmptyMap, annotations |-> EmptyMap, from |-> {}, ports |-> <<>>]

Peer(namespaces, pods) == [namespaces |-> namespaces, pods |-> pods]

Everybody  == Peer(EmptyMap, EmptyMap)
Monitoring == Peer("policy-group" :> "monitoring", EmptyMap)
Routers    == {Peer("policy-group" :> "ingress", EmptyMap),
               Peer("legacy-policy-group" :> "ingress", EmptyMap)}

createNetworkPolicyPeer(s) ==
  LET given(field, default) ==
        IF s.networkPolicy = Nil THEN default ELSE OrElse(s.networkPolicy[field], default)
  IN Peer(given("namespaceLabels", "name" :> "own"),
          given("fromLabels", "part-of" :> s.applicationName))

AllowAll(s) ==
  s.networkPolicy # Nil /\ s.networkPolicy.namespaceLabels = EmptyMap
                        /\ s.networkPolicy.fromLabels = EmptyMap

NetworkPolicyPeers(s, openshift) ==
  IF AllowAll(s) \/ (~openshift /\ s.expose) THEN {Everybody}
  ELSE {createNetworkPolicyPeer(s)}
       \cup (IF openshift THEN {Monitoring} ELSE {})
       \cup (IF openshift /\ s.expose THEN Routers ELSE {})

\* Fault: the ports of the Service instead of those of the pods.
ServicePorts(service) ==
  <<service.port>> \o [i \in DOMAIN service.ports |-> service.ports[i].port]

NetworkPolicyPorts(service) ==
  <<OrElse(service.targetPort, service.port)>>
  \o [i \in DOMAIN service.ports |-> service.ports[i].targetPort]

\* Fault: peers are only ever added.
PeersAdded(old, s, openshift) ==
  [Labelled(old, s) EXCEPT !.from = @ \cup NetworkPolicyPeers(s, openshift),
                           !.ports = NetworkPolicyPorts(s.service)]

CustomizeNetworkPolicy(old, s, openshift) ==
  [Labelled(old, s) EXCEPT !.from = NetworkPolicyPeers(s, openshift),
                           !.ports = NetworkPolicyPorts(s.service)]

-----------------------------------------------------------------------------
\* The Route.
NoTLS == [termination |-> "", certificate |-> "", ca |-> "", key |-> "",
          destinationCA |-> "", insecure |-> ""]

NewRoute == [labels |-> EmptyMap, annotations |-> EmptyMap,
             host |-> "", path |-> "", tls |-> Nil, port |-> <<>>]

DefaultHost(cluster) ==
  IF cluster.hostname = "" THEN "" ELSE Name \o "." \o cluster.hostname

RequestedHost(s, cluster) ==
  IF s.route # Nil /\ s.route.host # "" THEN s.route.host ELSE DefaultHost(cluster)

\* The secret of the service gives the destination CA, that of the route the
\* rest, and an own destination CA if it has one.
UsesServiceSecret(s) == s.manageTLS \/ s.service.certificateSecretRef # Nil

RouteSecret(s) == IF s.route = Nil THEN Nil ELSE s.route.certificateSecretRef

SecretsOfRoute(s, refs) ==
  (IF UsesServiceSecret(s) THEN {refs.certSecret} ELSE {})
  \cup (IF RouteSecret(s) = Nil THEN {} ELSE {RouteSecret(s)})

\* They are there, and the certificate of the route can be read.
RouteSecretsUsable(s, refs, cluster) ==
  /\ SecretsOfRoute(s, refs) \subseteq DOMAIN cluster.secrets
  /\ RouteSecret(s) # Nil => Get(cluster.secrets[RouteSecret(s)], "tls.crt") # "not PEM"

GetRouteTLSValues(s, refs, cluster) ==
  LET service == IF UsesServiceSecret(s) THEN cluster.secrets[refs.certSecret] ELSE EmptyMap
      route == IF RouteSecret(s) = Nil THEN EmptyMap ELSE cluster.secrets[RouteSecret(s)]
  IN [certificate |-> Get(route, "tls.crt"), ca |-> Get(route, "ca.crt"),
      key |-> Get(route, "tls.key"),
      destinationCA |-> IF "destCA.crt" \in DOMAIN route THEN route["destCA.crt"]
                        ELSE Get(service, "ca.crt")]

\* What a termination makes of the certificates; any other termination leaves
\* them alone.
Terminated(tls, termination, values) ==
  LET shown == CASE termination = "reencrypt"   -> values
                 [] termination = "edge"        -> [values EXCEPT !.destinationCA = ""]
                 [] termination = "passthrough" -> [f \in DOMAIN values |-> ""]
                 [] OTHER                       -> Restrict(tls, DOMAIN values)
  IN [MergeMaps(tls, shown) EXCEPT !.termination = termination]

RouteTLS(old, s, values) ==
  LET termination == IF s.route = Nil THEN Nil ELSE s.route.termination
      insecure    == IF s.route = Nil THEN Nil ELSE s.route.insecure
      secured == CASE termination # Nil -> Terminated(OrElse(old, NoTLS), termination, values)
                   [] termination = Nil /\ s.manageTLS -> Terminated(NoTLS, "reencrypt", values)
                   [] OTHER -> Nil
  IN IF insecure = Nil THEN secured
     ELSE [OrElse(secured, NoTLS) EXCEPT !.insecure = insecure]

\* The host and the path are set only where there is a route section; without
\* one the path is cleared and the host stays.
CustomizeRoute(old, s, refs, cluster) ==
  LET given == s.route # Nil
      annotations == MergeMaps(old.annotations, GetAnnotations(s))
  IN [Labelled(old, s) EXCEPT
        !.annotations = IF given THEN MergeMaps(annotations, s.route.annotations)
                        ELSE annotations,
        !.host = IF given THEN RequestedHost(s, cluster) ELSE @,
        !.path = IF given THEN s.route.path ELSE "",
        !.tls = RouteTLS(@, s, GetRouteTLSValues(s, refs, cluster)),
        !.port = PortName(s.service.portName, s.service.port)]

\* Fault: the host is not recorded in the status.
HostNotRecorded(s, refs, cluster) == refs.routeHost

RouteReference(s, refs, cluster) ==
  IF s.route # Nil THEN RequestedHost(s, cluster) ELSE refs.routeHost

\* A host that was set and is wanted no longer: a Route cannot be left without.
ShouldDeleteRoute(s, refs, cluster) ==
  refs.routeHost # "" /\ (s.route # Nil => RequestedHost(s, cluster) = "")

-----------------------------------------------------------------------------
\* The Ingress.
NewIngress == [labels |-> EmptyMap, annotations |-> EmptyMap,
               host |-> "", path |-> "", pathType |-> "", port |-> <<>>, tls |-> Nil]

CustomizeIngress(old, s, cluster) ==
  LET route(field, default) == IF s.route = Nil THEN default ELSE s.route[field]
      host   == RequestedHost(s, cluster)
      secret == OrElse(RouteSecret(s), "")
      type   == route("pathType", "")
  IN [Labelled(old, s) EXCEPT
        !.annotations = MergeMaps(MergeMaps(@, GetAnnotations(s)), route("annotations", EmptyMap)),
        !.host = host,
        !.path = route("path", ""),
        !.pathType = IF type = "" THEN "ImplementationSpecific" ELSE type,
        !.port = PortName(s.service.portName, s.service.port),
        !.tls = IF secret # "" /\ host # "" THEN [host |-> host, secret |-> secret] ELSE Nil]

-----------------------------------------------------------------------------
\* The ServiceMonitor: one endpoint, from the first one of the specification.
\* kept are the settings overwritten only when given (interval, path, basicAuth,
\* params, scrapeTimeout, bearerTokenFile); always are those copied whenever
\* there is an endpoint (bearerTokenSecret, proxyURL, relabelings, honorLabels).
NewMonitor ==
  [labels |-> EmptyMap, annotations |-> EmptyMap, port |-> <<>>,
   targetPort |-> Nil, scheme |-> Nil, tls |-> Nil, kept |-> EmptyMap, always |-> EmptyMap]

CustomizeServiceMonitor(old, s, refs) ==
  LET given == s.monitoring.endpoints # <<>>
      first == IF given THEN Head(s.monitoring.endpoints)
               ELSE [port |-> "", targetPort |-> Nil, scheme |-> Nil, tls |-> Nil,
                     kept |-> EmptyMap, always |-> old.always]
      managed == s.manageTLS /\ first.tls = Nil
      byNumber == first.port = "" /\ first.targetPort # Nil
  IN [Labelled(old, s) EXCEPT
        !.labels = MergeMaps(GetLabels(s), s.monitoring.labels),
        !.port = CASE byNumber -> <<>>
                   [] first.port # "" -> <<first.port>>
                   [] OTHER -> PortName(s.service.portName, s.service.port),
        !.targetPort = IF byNumber THEN first.targetPort ELSE Nil,
        !.scheme = IF managed THEN "https" ELSE first.scheme,
        !.tls = IF managed THEN [ca |-> refs.certSecret] ELSE first.tls,
        !.kept = MergeMaps(@, first.kept),
        !.always = first.always]

\* Every secret and config map that is named and not optional has to exist.
ValidatePrometheusMonitoringEndpoints(s, cluster) ==
  \A i \in DOMAIN s.monitoring.endpoints :
    \A c \in s.monitoring.endpoints[i].credentials :
      c.optional \/ c.name = "" \/ c.name \in DOMAIN cluster.secrets

-----------------------------------------------------------------------------
\* The binding Secret: the override Secret, completed by defaults.
NewBinding == [labels |-> EmptyMap, annotations |-> EmptyMap, data |-> EmptyMap]

GetIngressInfo(route) ==
  IF route = Nil THEN <<"http", "", "">>
  ELSE <<IF route.tls = Nil THEN "http" ELSE "https", route.host, route.path>>

CustomizeBinding(old, s, refs, cluster, route) ==
  LET defaults == [host     |-> Name,
                   protocol |-> IF s.manageTLS THEN "https" ELSE "http",
                   basePath |-> "/",
                   port     |-> IF s.knative THEN <<>> ELSE <<s.service.port>>]
      data == MergeMaps(defaults, cluster.override)
      uri == "uri" :> <<data.protocol, data.host, data.port, data.basePath>>
      certificate == Get(cluster.secrets, refs.certSecret)
      chain == IF refs.certSecret \in DOMAIN cluster.secrets
               THEN Get(certificate, "tls.crt") \o Get(certificate, "ca.crt") ELSE ""
      certificates == IF chain = "" THEN EmptyMap ELSE "certificates" :> chain
      ingress == IF s.expose THEN "ingress-uri" :> GetIngressInfo(route) \o <<data.basePath>>
                 ELSE EmptyMap
  IN [Labelled(old, s) EXCEPT
        !.data = MergeMaps(uri @@ certificates @@ ingress, data)]
==============================================================================
