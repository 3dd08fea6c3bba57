---------------------------- MODULE Certificates ----------------------------
(***************************************************************************)
(* The certificate of the service (GenerateSvcCertSecret and GenerateCM-   *)
(* Issuer) between the reconcile of one RuntimeComponent and cert-manager. *)
(*                                                                         *)
(* A self-signed issuer gives the CA certificate, whose secret the CA      *)
(* issuer signs with, unless there is a secret of an own CA; the service   *)
(* certificate comes from that issuer or from a custom one.  cert-manager  *)
(* keeps the secret of a certificate while it is there, so when the issuer *)
(* has changed the operator deletes the secret to have it signed again.    *)
(* Nothing tells the operator of the new secret: it is read from the cache *)
(* at the next reconcile, which puts its hash into the pods.               *)
(***************************************************************************)
EXTENDS Naturals

CONSTANTS
  Nil,
  Modes,       \* the certificates a specification may ask for
  MaxChanges,  \* how often users, administrators and renewals interfere
  MaxFaults    \* how many calls fail or crash the operator

Issuers == {"self-signed", "ca-issuer", "custom-issuer"}
Secrets == {"ca-tls", "custom-ca-tls", "svc-tls"}

\* managed by cert-manager; plain, with a secret of the user or without one; or a
\* Knative Service, which has its own.
ModesAssumption ==
  /\ Modes \subseteq {"managed", "plain", "knative"}
  /\ MaxChanges \in Nat
  /\ MaxFaults \in Nat
  /\ Nil \notin Secrets

ASSUME ModesAssumption

VARIABLES
  mode,      \* what the specification asks for
  issuers,   \* the issuers, by name
  caCert,    \* the CA certificate: absent, pending or ready
  secrets,   \* the contents of the secrets, Nil for one that is not there
  cert,      \* the service certificate, Nil if there is none
  seen,      \* the cache's copy of the secret of the service certificate
  pods,      \* the secret the pods were last given, Nil without a workload
  pc,        \* the step of the reconcile
  held,      \* what it has in memory
  lost,      \* a refresh was recorded and not carried out
  changes, faults

world == <<mode, issuers, caCert, secrets, cert, seen, pods>>
vars  == <<world, pc, held, lost, changes, faults>>

Steps == {"idle", "cleanup", "selfSigned", "caCert", "caIssuer", "customIssuer",
          "store", "refresh", "workload"}

\* ca is the secret the issuer signs with, version its resource version, ready
\* its Ready condition, and observed whether that is for its present generation.
NoIssuer == [there |-> FALSE, ca |-> Nil, version |-> 0, ready |-> Nil, observed |-> FALSE]

Unused == [mode |-> "plain", issuer |-> "ca-issuer", ca |-> "ca-tls"]

Init ==
  /\ mode \in Modes
  /\ issuers = [i \in Issuers |-> NoIssuer]
  /\ caCert = "absent"
  /\ secrets = [s \in Secrets |-> Nil]
  /\ cert = Nil
  /\ seen = Nil
  /\ pods = Nil
  /\ pc = "idle"
  /\ held = Unused
  /\ lost = FALSE
  /\ changes = 0
  /\ faults = 0

-----------------------------------------------------------------------------
\* Resource versions and contents of secrets are numbers that are only compared: a
\* new content is any that nothing has, a new version any but the one recorded.
Recorded == IF cert = Nil THEN Nil ELSE cert.version

Signatures == {secrets["svc-tls"], seen} \cup (IF pods = Nil THEN {} ELSE {pods.hash})

NewContent ==
  LET used == {secrets["ca-tls"], secrets["custom-ca-tls"]}
              \cup {content.serial : content \in Signatures \ {Nil}}
              \cup {content.ca : content \in Signatures \ {Nil}}
              \cup (IF Recorded = Nil THEN {} ELSE {Recorded.ca})
  IN CHOOSE n \in 0 .. 9 : n \notin used

NewVersion == CHOOSE n \in 0 .. 1 : Recorded # Nil => n # Recorded.issuer

-----------------------------------------------------------------------------
(* The reconcile.                                                          *)

\* Fault: the version of an issuer does not cover the secret it signs with.
VersionOnly(issuer) ==
  IF issuer.there THEN [issuer |-> issuer.version, ca |-> Nil] ELSE Nil

\* The version of an issuer: its resource version and the hash of its CA; Nil for
\* the empty string that stands for every failure to read them.
GetIssuerResourceVersion(issuer) ==
  IF ~issuer.there \/ (issuer.ca # Nil /\ secrets[issuer.ca] = Nil) THEN Nil
  ELSE [issuer |-> issuer.version,
        ca |-> IF issuer.ca = Nil THEN Nil ELSE secrets[issuer.ca]]

\* An error ends the reconcile; it is repeated after an interval, as is a success.
Goto(step) ==
  /\ pc' = step
  /\ held' = IF step = "idle" THEN Unused ELSE held

\* The Knative branch comes before the certificate and never reaches its cleanup.
Start ==
  /\ pc = "idle"
  /\ IF mode = "knative"
     THEN pods' = Nil /\ UNCHANGED <<pc, held>>
     ELSE /\ held' = [Unused EXCEPT !.mode = mode]
          /\ pc' = IF mode = "managed" THEN "selfSigned" ELSE "cleanup"
          /\ UNCHANGED pods
  /\ UNCHANGED <<mode, issuers, caCert, secrets, cert, seen, lost, changes, faults>>

\* Errors of the deletion are ignored.
Cleanup ==
  /\ pc = "cleanup"
  /\ \/ cert' = Nil /\ UNCHANGED faults
     \/ faults < MaxFaults /\ faults' = faults + 1 /\ UNCHANGED cert
  /\ Goto("workload")
  /\ UNCHANGED <<mode, issuers, caCert, secrets, seen, pods, lost, changes>>

Created(issuer) ==
  IF issuer.there THEN issuer
  ELSE [issuer EXCEPT !.there = TRUE, !.version = NewVersion]

EnsureSelfSigned ==
  /\ pc = "selfSigned"
  /\ issuers' = [issuers EXCEPT !["self-signed"] = Created(@)]
  /\ Goto(IF issuers["self-signed"].ready = "True" THEN "caCert" ELSE "idle")
  /\ UNCHANGED <<mode, caCert, secrets, cert, seen, pods, lost, changes, faults>>

\* The certificate of the CA is made in any case, and waited for unless there is
\* a secret of an own CA.  One that cannot be read counts as none.
EnsureCACert ==
  /\ pc = "caCert"
  /\ caCert' = IF caCert = "absent" THEN "pending" ELSE caCert
  /\ \/ /\ secrets["custom-ca-tls"] # Nil
        /\ pc' = "caIssuer" /\ held' = [held EXCEPT !.ca = "custom-ca-tls"]
        /\ UNCHANGED faults
     \/ /\ IF secrets["custom-ca-tls"] = Nil THEN UNCHANGED faults
           ELSE faults < MaxFaults /\ faults' = faults + 1
        /\ Goto(IF caCert = "ready" /\ secrets["ca-tls"] # Nil THEN "caIssuer" ELSE "idle")
  /\ UNCHANGED <<mode, issuers, secrets, cert, seen, pods, lost, changes>>

\* The CA issuer as it is written, and whether it may be used: one without a
\* condition may.
CAIssuer ==
  LET issuer == issuers["ca-issuer"]
  IN IF issuer.there /\ issuer.ca = held.ca THEN issuer
     ELSE [issuer EXCEPT !.there = TRUE, !.ca = held.ca, !.version = NewVersion,
                         !.observed = FALSE]

Usable(issuer) ==
  issuer.ready # Nil => issuer.ready = "True" /\ issuer.observed

EnsureCAIssuer ==
  /\ pc = "caIssuer"
  /\ issuers' = [issuers EXCEPT !["ca-issuer"] = CAIssuer]
  /\ Goto(IF Usable(CAIssuer) THEN "customIssuer" ELSE "idle")
  /\ UNCHANGED <<mode, caCert, secrets, cert, seen, pods, lost, changes, faults>>

\* A failed lookup counts as no custom issuer.
FindCustomIssuer ==
  /\ pc = "customIssuer"
  /\ \/ held' = [held EXCEPT !.issuer =
                   IF issuers["custom-issuer"].there THEN "custom-issuer" ELSE "ca-issuer"]
        /\ UNCHANGED faults
     \/ faults < MaxFaults /\ faults' = faults + 1 /\ UNCHANGED held
  /\ pc' = "store"
  /\ UNCHANGED <<world, lost, changes>>

\* Fault: the version is stored and the secret kept.
StoreOnly ==
  /\ pc = "store"
  /\ cert' = [issuer |-> held.issuer, version |-> GetIssuerResourceVersion(issuers[held.issuer])]
  /\ Goto("workload")
  /\ UNCHANGED <<mode, issuers, caCert, secrets, seen, pods, lost, changes, faults>>

\* The version of the issuer is recorded in the certificate; when it has changed
\* the secret is to be deleted.
StoreCertificate ==
  /\ pc = "store"
  /\ \E version \in {GetIssuerResourceVersion(issuers[held.issuer])}
                    \cup (IF faults < MaxFaults THEN {Nil} ELSE {}) :
       /\ cert' = [issuer |-> held.issuer, version |-> version]
       /\ Goto(IF version # Recorded THEN "refresh" ELSE "workload")
       /\ faults' = IF version = GetIssuerResourceVersion(issuers[held.issuer]) THEN faults
                    ELSE faults + 1
  /\ UNCHANGED <<mode, issuers, caCert, secrets, seen, pods, lost, changes>>

\* Errors of the deletion are ignored.
RefreshSecret ==
  /\ pc = "refresh"
  /\ \/ secrets' = [secrets EXCEPT !["svc-tls"] = Nil] /\ lost' = FALSE /\ UNCHANGED faults
     \/ /\ faults < MaxFaults
        /\ faults' = faults + 1
        /\ lost' = TRUE
        /\ UNCHANGED secrets
  /\ Goto("workload")
  /\ UNCHANGED <<mode, issuers, caCert, cert, seen, pods, changes>>

\* Fault: what the reconcile had in memory is not given up.
ApplyAndStay ==
  /\ pc = "workload"
  /\ pods' = [mode |-> held.mode, hash |-> IF held.mode = "managed" THEN seen ELSE Nil]
  /\ pc' = "idle"
  /\ UNCHANGED <<mode, issuers, caCert, secrets, cert, seen, held, lost, changes, faults>>

\* The pods mount the secret and carry its hash; without the secret the workload
\* is left as it is.
ApplyWorkload ==
  /\ pc = "workload"
  /\ pods' = IF held.mode # "managed" THEN [mode |-> held.mode, hash |-> Nil]
             ELSE IF seen = Nil THEN pods
             ELSE [mode |-> "managed", hash |-> seen]
  /\ Goto("idle")
  /\ UNCHANGED <<mode, issuers, caCert, secrets, cert, seen, lost, changes, faults>>

\* A call that is not ignored fails, or the operator restarts.
Abort ==
  /\ pc # "idle"
  /\ faults < MaxFaults
  /\ faults' = faults + 1
  /\ Goto("idle")
  /\ lost' = (lost \/ pc = "refresh")
  /\ UNCHANGED <<world, changes>>

-----------------------------------------------------------------------------
(* cert-manager and the cache.                                             *)

CanSign(issuer) == issuer.ca # Nil => secrets[issuer.ca] # Nil

\* An issuer is ready when it has the secret it signs with.
IssuerStatus(i) ==
  LET issuer == issuers[i]
      ready  == IF CanSign(issuer) THEN "True" ELSE "False"
  IN /\ issuer.there
     /\ ~issuer.observed \/ issuer.ready # ready
     /\ issuers' = [issuers EXCEPT ![i].ready = ready, ![i].observed = TRUE,
                                   ![i].version = NewVersion]
     /\ UNCHANGED <<mode, caCert, secrets, cert, seen, pods, pc, held, lost, changes, faults>>

IssueCA ==
  /\ caCert = "pending" \/ (caCert = "ready" /\ secrets["ca-tls"] = Nil)
  /\ issuers["self-signed"].ready = "True"
  /\ caCert' = "ready"
  /\ secrets' = [secrets EXCEPT !["ca-tls"] = NewContent]
  /\ UNCHANGED <<mode, issuers, cert, seen, pods, pc, held, lost, changes, faults>>

\* A content of the service secret: who signed it, with what, and its number.
Signed(name) ==
  [issuer |-> name,
   ca |-> IF issuers[name].ca = Nil THEN Nil ELSE secrets[issuers[name].ca],
   serial |-> NewContent]

\* The secret is made when it is not there, or was signed by another issuer.
IssueService ==
  /\ cert # Nil
  /\ secrets["svc-tls"] # Nil => secrets["svc-tls"].issuer # cert.issuer
  /\ issuers[cert.issuer].there /\ issuers[cert.issuer].ready = "True"
  /\ CanSign(issuers[cert.issuer])
  /\ secrets' = [secrets EXCEPT !["svc-tls"] = Signed(cert.issuer)]
  /\ lost' = FALSE
  /\ UNCHANGED <<mode, issuers, caCert, cert, seen, pods, pc, held, changes, faults>>

CacheCatchesUp ==
  /\ seen # secrets["svc-tls"]
  /\ seen' = secrets["svc-tls"]
  /\ UNCHANGED <<mode, issuers, caCert, secrets, cert, pods, pc, held, lost, changes, faults>>

-----------------------------------------------------------------------------
(* Users, administrators and renewals.                                     *)

Edit ==
  /\ mode' \in Modes \ {mode}
  /\ UNCHANGED <<issuers, caCert, secrets, cert, seen, pods, lost>>

\* The custom issuer needs no CA, as one that asks a server does not.
CustomIssuerChanges ==
  /\ issuers' = [issuers EXCEPT !["custom-issuer"] =
                   [NoIssuer EXCEPT !.there = ~issuers["custom-issuer"].there,
                                    !.version = NewVersion]]
  /\ UNCHANGED <<mode, caCert, secrets, cert, seen, pods, lost>>

\* An own CA appears, is replaced or taken away.
CustomCAChanges ==
  /\ \E content \in {Nil, NewContent} \ {secrets["custom-ca-tls"]} :
       secrets' = [secrets EXCEPT !["custom-ca-tls"] = content]
  /\ UNCHANGED <<mode, issuers, caCert, cert, seen, pods, lost>>

\* cert-manager renews the CA, or somebody deletes its secret.
CARenewed ==
  /\ secrets["ca-tls"] # Nil
  /\ secrets' \in {[secrets EXCEPT !["ca-tls"] = content] : content \in {Nil, NewContent}}
  /\ UNCHANGED <<mode, issuers, caCert, cert, seen, pods, lost>>

\* cert-manager renews the certificate when it is due.
ServiceRenewed ==
  /\ cert # Nil /\ secrets["svc-tls"] # Nil
  /\ issuers[cert.issuer].there /\ issuers[cert.issuer].ready = "True"
  /\ CanSign(issuers[cert.issuer])
  /\ secrets' = [secrets EXCEPT !["svc-tls"] = Signed(cert.issuer)]
  /\ lost' = FALSE
  /\ UNCHANGED <<mode, issuers, caCert, cert, seen, pods>>

Surroundings ==
  /\ changes < MaxChanges
  /\ changes' = changes + 1
  /\ Edit \/ CustomIssuerChanges \/ CustomCAChanges \/ CARenewed \/ ServiceRenewed
  /\ UNCHANGED <<pc, held, faults>>

-----------------------------------------------------------------------------
Reconcile ==
  Start \/ Cleanup \/ EnsureSelfSigned \/ EnsureCACert \/ EnsureCAIssuer
  \/ FindCustomIssuer \/ StoreCertificate \/ RefreshSecret \/ ApplyWorkload

CertManager == IssueCA \/ IssueService \/ \E i \in Issuers : IssuerStatus(i)

Next == Reconcile \/ Abort \/ CertManager \/ CacheCatchesUp \/ Surroundings

\* The reconcile is repeated at intervals; cert-manager and the cache go on.
Fairness ==
  /\ WF_vars(Reconcile)
  /\ WF_vars(IssueCA) /\ WF_vars(IssueService)
  /\ \A i \in Issuers : WF_vars(IssuerStatus(i))
  /\ WF_vars(CacheCatchesUp)

Spec == Init /\ [][Next]_vars /\ Fairness
-----------------------------------------------------------------------------
(* Properties.                                                             *)

\* The reconcile has something in memory exactly between its steps, and follows
\* the path of its mode.
TypeOK ==
  /\ mode \in Modes
  /\ caCert \in {"absent", "pending", "ready"}
  /\ pc \in Steps
  /\ pc = "idle" => held = Unused
  /\ pc \in {"cleanup", "workload"} \/ (pc # "idle" => held.mode = "managed")
  /\ \A content \in {secrets["svc-tls"], seen} \ {Nil} :
       content.issuer \in Issuers
  /\ cert # Nil => cert.issuer \in {"ca-issuer", "custom-issuer"}
  /\ pods # Nil => pods.mode \in {"managed", "plain"}
  /\ lost \in BOOLEAN
  /\ changes \in 0 .. MaxChanges
  /\ faults \in 0 .. MaxFaults

\* Pods are only given a secret that the issuer signed in its present form:
\* where the certificate records the present version of its issuer, the secret
\* was signed after that and not before, unless its deletion was lost or the
\* cache still has the deleted one (reconciler.go:841-868, utils.go:1793).
PodsGetRenewedSecret ==
  [][LET issuer == issuers[cert.issuer]
         version == GetIssuerResourceVersion(issuer)
     IN ApplyWorkload /\ held.mode = "managed" /\ pods' # pods
        /\ ~lost /\ seen = secrets["svc-tls"]
        /\ cert # Nil /\ version # Nil /\ cert.version = version
        => seen.issuer = cert.issuer /\ seen.ca = version.ca]_vars

\* The issuer that is to sign, and the certificate in step with it: signed by it,
\* with its present CA, and carried by the pods.
Wanted == IF issuers["custom-issuer"].there THEN "custom-issuer" ELSE "ca-issuer"

CurrentCA == IF secrets["custom-ca-tls"] # Nil THEN secrets["custom-ca-tls"] ELSE secrets["ca-tls"]

Current ==
  CASE mode = "managed" ->
         /\ secrets["svc-tls"] # Nil
         /\ secrets["svc-tls"].issuer = Wanted
         /\ secrets["svc-tls"].ca = (IF Wanted = "ca-issuer" THEN CurrentCA ELSE Nil)
         /\ pods = [mode |-> "managed", hash |-> secrets["svc-tls"]]
    [] mode = "knative" -> pods = Nil
    [] OTHER -> cert = Nil /\ pods = [mode |-> mode, hash |-> Nil]

\* Whatever issuers, CAs and specifications go through, the pods end with a
\* certificate signed by the present CA, and a certificate nobody wants is gone;
\* except where the deletion of a secret was lost after the new version had been
\* recorded, which nothing repeats before the certificate is due
\* (reconciler.go:845-868), and for Knative, where the certificate stays.
EventuallyCurrent == <>[](Current \/ (mode = "managed" /\ lost))
=============================================================================
