------------------------- MODULE MCRuntimeComponent -------------------------
(* RuntimeComponent on small instances; the .cfg files give the bounds.     *)
EXTENDS RuntimeComponent

\* A plain application, and one on Knative with an image from an ImageStream and
\* an account of its own that has its name.
PlainSpecs == {{}, {"knative", "newImage", "sameAccount"}}

\* An application as a Deployment, a StatefulSet and a Knative Service.
WorkloadSpecs == {{}, {"statefulSet"}, {"knative"}}

\* An application with a Route and a binding secret, or on Knative with an
\* image from an ImageStream.
RouteSpecs == {{"expose", "bindable"}, {"knative", "expose", "newImage"}}

\* On a cluster with Ingresses and without Knative: a plain application, one
\* with an account of its own that is exposed and monitored, one that cannot
\* be served, and one that is refused.
IngressSpecs == {{}, {"serviceAccount", "newImage", "expose", "monitoring"},
                 {"knative"}, {"statefulSet", "badStorage"}}
=============================================================================
