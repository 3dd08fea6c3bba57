-------------------------- MODULE CertificatesProofs --------------------------
(***************************************************************************)
(* The certificate of the service, proved of Certificates for any modes,   *)
(* interferences and faults.                                               *)
(***************************************************************************)
EXTENDS Certificates, FiniteSetTheorems, TLAPS

\* Of ten contents at least one is not among nine.
LEMMA TenthIsFree ==
  ASSUME NEW f
  PROVE  \E n \in 0 .. 9 : n \notin {f[k] : k \in 1 .. 9}
<1> DEFINE S == {f[k] : k \in 1 .. 9}
           g == [k \in 1 .. 9 |-> f[k]]
<1>1. g \in Surjection(1 .. 9, S)
  BY DEF Surjection
<1>2. IsFiniteSet(1 .. 9) /\ Cardinality(1 .. 9) = 9 /\ Cardinality(0 .. 9) = 10
  <2>1. \A m, n \in Int : /\ IsFiniteSet(m .. n)
                          /\ Cardinality(m .. n) = IF m > n THEN 0 ELSE n - m + 1
    BY FS_Interval
  <2>2. IsFiniteSet(1 .. 9) /\ Cardinality(1 .. 9) = IF 1 > 9 THEN 0 ELSE 9 - 1 + 1
    BY <2>1, 1 \in Int, 9 \in Int, Zenon
  <2>3. Cardinality(0 .. 9) = IF 0 > 9 THEN 0 ELSE 9 - 0 + 1
    BY <2>1, 0 \in Int, 9 \in Int, Zenon
  <2> QED
    BY <2>2, <2>3
<1> HIDE DEF g, S
<1>3. IsFiniteSet(S) /\ Cardinality(S) <= 9
  BY <1>1, <1>2, FS_Surjection
<1>4. ASSUME 0 .. 9 \subseteq S PROVE FALSE
  <2>1. Cardinality(0 .. 9) <= Cardinality(S)
    BY <1>3, <1>4, FS_Subset
  <2>2. Cardinality(S) \in Nat
    BY <1>3, FS_CardinalityType
  <2> QED
    BY <1>2, <1>3, <2>1, <2>2
<1> QED
  BY <1>4 DEF S

\* The version the certificate records is not the one an issuer gets ...
LEMMA VersionIsNew ==
  ASSUME Recorded # Nil
  PROVE  NewVersion # Recorded.issuer
<1>1. \E n \in 0 .. 1 : n # Recorded.issuer
  OBVIOUS
<1>2. \E n \in 0 .. 1 : Recorded # Nil => n # Recorded.issuer
  BY <1>1
<1> QED
  BY <1>2 DEF NewVersion

\* ... nor is its CA a new content.
LEMMA ContentIsNew ==
  ASSUME Recorded # Nil
  PROVE  NewContent # Recorded.ca
<1> DEFINE svc == secrets["svc-tls"]
           used == {secrets["ca-tls"], secrets["custom-ca-tls"]}
                     \cup {content.serial : content \in Signatures \ {Nil}}
                     \cup {content.ca : content \in Signatures \ {Nil}}
                     \cup (IF Recorded = Nil THEN {} ELSE {Recorded.ca})
           nine == <<secrets["ca-tls"], secrets["custom-ca-tls"], svc.serial, svc.ca,
                     seen.serial, seen.ca, pods.hash.serial, pods.hash.ca, Recorded.ca>>
<1>1. Signatures \subseteq {svc, seen, pods.hash}
  BY DEF Signatures
<1>2. used \subseteq {nine[k] : k \in 1 .. 9}
  BY <1>1
<1>3. \E n \in 0 .. 9 : n \notin {nine[k] : k \in 1 .. 9}
  BY TenthIsFree
<1>4. \E n \in 0 .. 9 : n \notin used
  BY <1>2, <1>3
<1>5. NewContent = CHOOSE n \in 0 .. 9 : n \notin used
  BY DEF NewContent
<1>6. Recorded.ca \in used
  OBVIOUS
<1> HIDE DEF used
<1> QED
  BY <1>4, <1>5, <1>6
-----------------------------------------------------------------------------
(* Types.                                                                  *)

CAs == {"ca-tls", "custom-ca-tls"}

\* What the reconcile has in memory, whatever its step.
Memory ==
  /\ pc \in Steps
  /\ pc = "idle" => held = Unused
  /\ pc \in {"cleanup", "workload"} \/ (pc # "idle" => held.mode = "managed")
  /\ DOMAIN held = DOMAIN Unused /\ held.mode \in {"managed", "plain"}
  /\ held.issuer \in {"ca-issuer", "custom-issuer"} /\ held.ca \in CAs

\* ... and the fields of issuers and secrets.  The issuer of the operator signs
\* with one of the CAs, a custom one with none.
Shape ==
  /\ TypeOK
  /\ Memory
  /\ DOMAIN issuers = Issuers /\ \A i \in Issuers : DOMAIN issuers[i] = DOMAIN NoIssuer
  /\ DOMAIN secrets = Secrets
  /\ issuers["custom-issuer"].ca = Nil
  /\ issuers["ca-issuer"].there => issuers["ca-issuer"].ca \in CAs

\* What is in memory when nothing is.
LEMMA UnusedFields ==
  /\ DOMAIN Unused = {"mode", "issuer", "ca"}
  /\ Unused.mode = "plain" /\ Unused.issuer = "ca-issuer" /\ Unused.ca = "ca-tls"
BY DEF Unused

\* What an issuer starts from.
LEMMA NoIssuerFields ==
  /\ DOMAIN NoIssuer = {"there", "ca", "version", "ready", "observed"}
  /\ ~NoIssuer.there /\ NoIssuer.ca = Nil
BY DEF NoIssuer

\* Initially there is nothing.
LEMMA ShapeInit == Init => Shape
<1> SUFFICES ASSUME Init PROVE Shape
  OBVIOUS
<1>1. TypeOK
  <2>1. 0 \in 0 .. MaxChanges /\ 0 \in 0 .. MaxFaults
    BY ModesAssumption DEF ModesAssumption
  <2>2. secrets["svc-tls"] = Nil
    BY DEF Init, Secrets
  <2> QED
    BY <2>1, <2>2 DEF Init, TypeOK, Steps
<1>2. Memory
  BY UnusedFields DEF Init, Memory, Steps, CAs
<1>3. issuers = [i \in Issuers |-> NoIssuer] /\ secrets = [s \in Secrets |-> Nil]
  BY DEF Init
<1>4. "custom-issuer" \in Issuers /\ "ca-issuer" \in Issuers
  BY DEF Issuers
<1>5. /\ DOMAIN issuers = Issuers /\ DOMAIN secrets = Secrets
      /\ \A i \in Issuers : issuers[i] = NoIssuer
  BY <1>3
<1>6. issuers["custom-issuer"] = NoIssuer /\ issuers["ca-issuer"] = NoIssuer
  BY <1>4, <1>5
<1> QED
  BY <1>1, <1>2, <1>5, <1>6, NoIssuerFields DEF Shape

\* A reconcile that goes on keeps what it has in memory, one that ends does not.
LEMMA HeldTyped ==
  ASSUME Shape, NEW step \in Steps, Goto(step),
         step # "idle" => pc # "idle" /\ (pc # "cleanup" \/ step = "workload"),
         pc = "workload" => step = "idle"
  PROVE  Memory'
BY UnusedFields DEF Goto, Shape, Memory, CAs

\* The reconcile keeps the types.
LEMMA ShapeReconcile ==
  ASSUME Shape, Reconcile \/ Abort
  PROVE  Shape'
<1> USE DEF Shape, Memory
<1>0. /\ DOMAIN held = {"mode", "issuer", "ca"} /\ changes \in Nat /\ faults \in Nat
      /\ MaxChanges \in Nat /\ MaxFaults \in Nat
      /\ (faults < MaxFaults => faults + 1 \in 0 .. MaxFaults)
  BY UnusedFields, ModesAssumption DEF TypeOK, ModesAssumption
<1>1. CASE Start
  <2>1. CASE mode = "knative"
    BY <1>1, <2>1 DEF Start, TypeOK
  <2>2. CASE mode # "knative"
    <3>1. held' = [Unused EXCEPT !.mode = mode] /\ mode \in {"managed", "plain"}
      BY <1>1, <2>2, ModesAssumption DEF Start, TypeOK, ModesAssumption
    <3>2. /\ DOMAIN held' = DOMAIN Unused /\ held'.mode = mode
          /\ held'.issuer = "ca-issuer" /\ held'.ca = "ca-tls"
      BY <3>1, UnusedFields
    <3>3. pc' = IF mode = "managed" THEN "selfSigned" ELSE "cleanup"
      BY <1>1, <2>2 DEF Start
    <3>4. UNCHANGED <<mode, issuers, caCert, secrets, cert, seen, pods, lost, changes, faults>>
      BY <1>1, <2>2 DEF Start
    <3> QED
      BY <3>1, <3>2, <3>3, <3>4 DEF TypeOK, Steps, CAs
  <2> QED
    BY <2>1, <2>2
<1>2. CASE Cleanup
  <2>1. Memory'
    <3>1. Goto("workload") /\ pc = "cleanup" /\ "workload" \in Steps
      BY <1>2 DEF Cleanup, Steps
    <3> QED
      BY <3>1, HeldTyped
  <2>2. cert' \in {cert, Nil} /\ faults' \in 0 .. MaxFaults
        /\ UNCHANGED <<mode, issuers, caCert, secrets, seen, pods, lost, changes>>
    BY <1>0, <1>2 DEF Cleanup, TypeOK
  <2> QED
    BY <2>1, <2>2 DEF TypeOK
<1>3. CASE EnsureSelfSigned
  <2> DEFINE step == IF issuers["self-signed"].ready = "True" THEN "caCert" ELSE "idle"
  <2>1. step \in Steps /\ Goto(step) /\ pc = "selfSigned"
    BY <1>3 DEF EnsureSelfSigned, Steps
  <2>2. Memory'
    BY <2>1, HeldTyped
  <2>3. DOMAIN Created(issuers["self-signed"]) = DOMAIN NoIssuer
    BY DEF Created, Issuers
  <2>4. issuers' = [issuers EXCEPT !["self-signed"] = Created(@)]
        /\ UNCHANGED <<mode, caCert, secrets, cert, seen, pods, lost, changes, faults>>
    BY <1>3 DEF EnsureSelfSigned
  <2> QED
    BY <2>2, <2>3, <2>4 DEF TypeOK, Issuers
<1>4. CASE EnsureCACert
  <2>1. /\ caCert' \in {"pending", caCert} /\ faults' \in 0 .. MaxFaults
        /\ UNCHANGED <<mode, issuers, secrets, cert, seen, pods, lost, changes>>
    BY <1>0, <1>4 DEF EnsureCACert, TypeOK
  <2>2. Memory'
    <3> DEFINE step == IF caCert = "ready" /\ secrets["ca-tls"] # Nil THEN "caIssuer" ELSE "idle"
    <3>1. CASE pc = "caCert" /\ pc' = "caIssuer" /\ held' = [held EXCEPT !.ca = "custom-ca-tls"]
      <4>1. /\ DOMAIN held' = DOMAIN held /\ held'.ca = "custom-ca-tls"
            /\ held'.mode = held.mode /\ held'.issuer = held.issuer
        BY <1>0, <3>1
      <4> QED
        BY <3>1, <4>1 DEF TypeOK, Steps, CAs
    <3>2. CASE Goto(step) /\ pc = "caCert"
      <4>1. step \in Steps
        BY DEF Steps
      <4> QED
        BY <3>2, <4>1, HeldTyped
    <3> QED
      BY <1>4, <3>1, <3>2 DEF EnsureCACert
  <2> QED
    BY <2>1, <2>2 DEF TypeOK
<1>5. CASE EnsureCAIssuer
  <2> DEFINE step == IF Usable(CAIssuer) THEN "customIssuer" ELSE "idle"
  <2>1. step \in Steps /\ Goto(step) /\ pc = "caIssuer"
    BY <1>5 DEF EnsureCAIssuer, Steps
  <2>2. Memory'
    BY <2>1, HeldTyped
  <2>3. DOMAIN CAIssuer = DOMAIN NoIssuer /\ CAIssuer.ca \in CAs
    <3>1. DOMAIN issuers["ca-issuer"] = DOMAIN NoIssuer
      BY DEF Issuers
    <3> QED
      BY <3>1, NoIssuerFields DEF CAIssuer
  <2>4. issuers' = [issuers EXCEPT !["ca-issuer"] = CAIssuer]
        /\ UNCHANGED <<mode, caCert, secrets, cert, seen, pods, lost, changes, faults>>
    BY <1>5 DEF EnsureCAIssuer
  <2> QED
    BY <2>2, <2>3, <2>4 DEF TypeOK, Issuers
<1>6. CASE FindCustomIssuer
  <2>1. /\ pc = "customIssuer" /\ pc' = "store" /\ faults' \in 0 .. MaxFaults
        /\ UNCHANGED <<mode, issuers, caCert, secrets, cert, seen, pods, lost, changes>>
    BY <1>0, <1>6 DEF FindCustomIssuer, world, TypeOK
  <2>2. /\ DOMAIN held' = DOMAIN held /\ held'.mode = held.mode /\ held'.ca = held.ca
        /\ held'.issuer \in {"ca-issuer", "custom-issuer"}
    BY <1>0, <1>6 DEF FindCustomIssuer
  <2> QED
    BY <2>1, <2>2 DEF TypeOK, Steps
<1>7. CASE StoreCertificate
  <2>1. PICK version : /\ cert' = [issuer |-> held.issuer, version |-> version]
                       /\ Goto(IF version # Recorded THEN "refresh" ELSE "workload")
                       /\ faults' = IF version = GetIssuerResourceVersion(issuers[held.issuer])
                                    THEN faults ELSE faults + 1
                       /\ version = GetIssuerResourceVersion(issuers[held.issuer])
                            \/ faults < MaxFaults
    BY <1>7 DEF StoreCertificate
  <2> DEFINE step == IF version # Recorded THEN "refresh" ELSE "workload"
  <2>2. step \in Steps /\ Goto(step) /\ pc = "store"
    BY <1>7, <2>1 DEF StoreCertificate, Steps
  <2>3. Memory'
    BY <2>2, HeldTyped
  <2>4. cert'.issuer = held.issuer /\ faults' \in 0 .. MaxFaults
    BY <1>0, <2>1 DEF TypeOK
  <2>5. UNCHANGED <<mode, issuers, caCert, secrets, seen, pods, lost, changes>>
    BY <1>7 DEF StoreCertificate
  <2> QED
    BY <2>3, <2>4, <2>5 DEF TypeOK
<1>8. CASE RefreshSecret
  <2>1. Memory'
    <3>1. Goto("workload") /\ pc = "refresh" /\ "workload" \in Steps
      BY <1>8 DEF RefreshSecret, Steps
    <3> QED
      BY <3>1, HeldTyped
  <2>2. secrets' \in {secrets, [secrets EXCEPT !["svc-tls"] = Nil]} /\ faults' \in 0 .. MaxFaults
        /\ lost' \in BOOLEAN /\ UNCHANGED <<mode, issuers, caCert, cert, seen, pods, changes>>
    BY <1>0, <1>8 DEF RefreshSecret, TypeOK
  <2>3. DOMAIN secrets' = Secrets /\ secrets'["svc-tls"] \in {secrets["svc-tls"], Nil}
    BY <2>2 DEF Secrets
  <2> QED
    BY <2>1, <2>2, <2>3 DEF TypeOK
<1>9. CASE ApplyWorkload
  <2>1. Memory'
    <3>1. Goto("idle") /\ pc = "workload" /\ "idle" \in Steps
      BY <1>9 DEF ApplyWorkload, Steps
    <3> QED
      BY <3>1, HeldTyped
  <2>2. pods' # Nil => pods'.mode \in {"managed", "plain"}
    BY <1>9 DEF ApplyWorkload, TypeOK
  <2> QED
    BY <1>9, <2>1, <2>2 DEF ApplyWorkload, TypeOK
<1>10. CASE Abort
  <2>1. Memory'
    <3>1. Goto("idle") /\ "idle" \in Steps
      BY <1>10 DEF Abort, Steps
    <3> QED
      BY <3>1, HeldTyped
  <2>2. lost' \in BOOLEAN
    BY <1>10 DEF Abort, TypeOK
  <2>3. faults' \in 0 .. MaxFaults
        /\ UNCHANGED <<mode, issuers, caCert, secrets, cert, seen, pods, changes>>
    BY <1>0, <1>10 DEF Abort, world
  <2> QED
    BY <2>1, <2>2, <2>3 DEF TypeOK
<1> QED
  BY <1>1, <1>2, <1>3, <1>4, <1>5, <1>6, <1>7, <1>8, <1>9, <1>10 DEF Reconcile

\* Setting the contents of a CA keeps the types.
LEMMA CATyped ==
  ASSUME Shape, NEW ca \in CAs, NEW content, secrets' = [secrets EXCEPT ![ca] = content]
  PROVE  DOMAIN secrets' = Secrets /\ secrets'["svc-tls"] = secrets["svc-tls"]
BY DEF Shape, CAs, Secrets

\* So does signing.
LEMMA SignedTyped ==
  ASSUME Shape, cert # Nil, secrets' = [secrets EXCEPT !["svc-tls"] = Signed(cert.issuer)]
  PROVE  /\ DOMAIN secrets' = Secrets
         /\ secrets'["svc-tls"] # Nil => secrets'["svc-tls"].issuer \in Issuers
<1>1. Signed(cert.issuer).issuer = cert.issuer
  BY DEF Signed
<1>2. cert.issuer \in Issuers
  BY DEF Shape, TypeOK, Issuers
<1> HIDE DEF Signed
<1> QED
  BY <1>1, <1>2 DEF Shape, Secrets

\* Every step keeps the types.
LEMMA ShapeNext == Shape /\ [Next]_vars => Shape'
<1> SUFFICES ASSUME Shape, [Next]_vars PROVE Shape'
  OBVIOUS
<1> USE DEF Shape
<1>1. CASE \E i \in Issuers : IssuerStatus(i)
  <2>1. PICK i \in Issuers : IssuerStatus(i)
    BY <1>1
  <2> DEFINE ready == IF CanSign(issuers[i]) THEN "True" ELSE "False"
             version == NewVersion
  <2>2. /\ issuers' = [issuers EXCEPT ![i].ready = ready, ![i].observed = TRUE,
                                      ![i].version = version]
        /\ UNCHANGED <<mode, caCert, secrets, cert, seen, pods, pc, held, lost, changes, faults>>
    BY <2>1 DEF IssuerStatus
  <2> HIDE DEF ready, version
  <2>3. /\ DOMAIN issuers' = Issuers
        /\ \A j \in Issuers : /\ DOMAIN issuers'[j] = DOMAIN NoIssuer
                              /\ issuers'[j].ca = issuers[j].ca
                              /\ issuers'[j].there = issuers[j].there
    BY <2>2, NoIssuerFields
  <2> QED
    BY <2>2, <2>3 DEF TypeOK, Memory, Issuers
<1>2. CASE IssueCA
  <2>1. /\ caCert' = "ready" /\ secrets' = [secrets EXCEPT !["ca-tls"] = NewContent]
        /\ UNCHANGED <<mode, issuers, cert, seen, pods, pc, held, lost, changes, faults>>
    BY <1>2 DEF IssueCA
  <2>2. DOMAIN secrets' = Secrets /\ secrets'["svc-tls"] = secrets["svc-tls"]
    BY <2>1, CATyped DEF CAs
  <2> QED
    BY <2>1, <2>2 DEF TypeOK, Memory
<1>3. CASE IssueService
  <2>1. /\ DOMAIN secrets' = Secrets
        /\ secrets'["svc-tls"] # Nil => secrets'["svc-tls"].issuer \in Issuers
    BY <1>3, SignedTyped DEF IssueService
  <2>2. lost' = FALSE
        /\ UNCHANGED <<mode, issuers, caCert, cert, seen, pods, pc, held, changes, faults>>
    BY <1>3 DEF IssueService
  <2> QED
    BY <2>1, <2>2 DEF TypeOK, Memory
<1>4. CASE CacheCatchesUp
  BY <1>4 DEF CacheCatchesUp, TypeOK, Memory
<1>5. CASE Surroundings
  <2>1. changes' \in 0 .. MaxChanges /\ UNCHANGED <<pc, held, faults>>
    BY <1>5, ModesAssumption DEF Surroundings, TypeOK, ModesAssumption
  <2>2. CASE Edit
    BY <2>1, <2>2 DEF Edit, TypeOK, Memory
  <2>3. CASE CustomIssuerChanges
    <3> DEFINE there == ~issuers["custom-issuer"].there
               version == NewVersion
    <3>1. /\ issuers' = [issuers EXCEPT !["custom-issuer"] =
                            [NoIssuer EXCEPT !.there = there, !.version = version]]
          /\ UNCHANGED <<mode, caCert, secrets, cert, seen, pods, lost>>
      BY <2>3 DEF CustomIssuerChanges
    <3> HIDE DEF there, version
    <3>2. DOMAIN issuers' = Issuers /\ issuers'["ca-issuer"] = issuers["ca-issuer"]
          /\ issuers'["custom-issuer"].ca = Nil
          /\ \A i \in Issuers : DOMAIN issuers'[i] = DOMAIN NoIssuer
      BY <3>1, NoIssuerFields DEF Issuers
    <3> QED
      BY <2>1, <3>1, <3>2 DEF TypeOK, Memory
  <2>4. CASE CustomCAChanges \/ CARenewed
    <3>1. /\ \E ca \in CAs : \E content : secrets' = [secrets EXCEPT ![ca] = content]
          /\ UNCHANGED <<mode, issuers, caCert, cert, seen, pods, lost>>
      BY <2>4 DEF CustomCAChanges, CARenewed, CAs
    <3>2. DOMAIN secrets' = Secrets /\ secrets'["svc-tls"] = secrets["svc-tls"]
      BY <3>1, CATyped
    <3> QED
      BY <2>1, <3>1, <3>2 DEF TypeOK, Memory
  <2>5. CASE ServiceRenewed
    <3>1. /\ DOMAIN secrets' = Secrets
          /\ secrets'["svc-tls"] # Nil => secrets'["svc-tls"].issuer \in Issuers
      BY <2>5, SignedTyped DEF ServiceRenewed
    <3>2. lost' = FALSE /\ UNCHANGED <<mode, issuers, caCert, cert, seen, pods>>
      BY <2>5 DEF ServiceRenewed
    <3> QED
      BY <2>1, <3>1, <3>2 DEF TypeOK, Memory
  <2> QED
    BY <1>5, <2>2, <2>3, <2>4, <2>5 DEF Surroundings
<1>6. CASE UNCHANGED vars
  BY <1>6 DEF vars, world, TypeOK, Memory
<1> QED
  BY <1>1, <1>2, <1>3, <1>4, <1>5, <1>6, ShapeReconcile DEF Next, CertManager

\* Type correctness.
THEOREM TypeCorrect == Spec => []TypeOK
<1>1. Shape => TypeOK
  BY DEF Shape
<1> QED
  BY <1>1, ShapeInit, ShapeNext, PTL DEF Spec
-----------------------------------------------------------------------------
(* The secret of the service.                                              *)

\* The present form of the issuer a certificate is from.
Form == GetIssuerResourceVersion(issuers[cert.issuer])

\* The certificate records which kind of issuer it is from.
Versioned ==
  cert # Nil /\ cert.version # Nil => (cert.issuer = "custom-issuer" <=> cert.version.ca = Nil)

\* Where the form recorded is the present one, the secret is signed in it.
Renewed ==
  /\ cert # Nil /\ cert.version # Nil /\ Form = cert.version
  /\ secrets["svc-tls"] # Nil /\ ~lost /\ pc # "refresh"
  => secrets["svc-tls"].issuer = cert.issuer /\ secrets["svc-tls"].ca = cert.version.ca

\* An issuer that can be read is there, and its form is its version with its CA.
LEMMA FormOf ==
  ASSUME Shape, NEW i \in {"ca-issuer", "custom-issuer"},
         NEW v, v = GetIssuerResourceVersion(issuers[i]), v # Nil
  PROVE  /\ v.issuer = issuers[i].version
         /\ v.ca = IF issuers[i].ca = Nil THEN Nil ELSE secrets[issuers[i].ca]
         /\ i = "custom-issuer" <=> v.ca = Nil
<1>1. issuers[i].there /\ (issuers[i].ca # Nil => secrets[issuers[i].ca] # Nil)
  BY DEF GetIssuerResourceVersion
<1>2. v = [issuer |-> issuers[i].version,
           ca |-> IF issuers[i].ca = Nil THEN Nil ELSE secrets[issuers[i].ca]]
  BY <1>1 DEF GetIssuerResourceVersion
<1>3. v.issuer = issuers[i].version
      /\ v.ca = IF issuers[i].ca = Nil THEN Nil ELSE secrets[issuers[i].ca]
  BY <1>2
<1>4. i = "ca-issuer" => issuers[i].ca # Nil
  BY <1>1, ModesAssumption DEF Shape, CAs, ModesAssumption, Secrets
<1>5. i = "custom-issuer" => issuers[i].ca = Nil
  BY DEF Shape
<1> QED
  BY <1>1, <1>3, <1>4, <1>5

\* A form that is recorded does not come back once it has gone: what issuers and
\* CAs get is new.
LEMMA FormStays ==
  ASSUME Shape, [Next]_vars, cert # Nil, cert.version # Nil, cert' = cert,
         Form' = cert.version
  PROVE  Form = cert.version
<1> DEFINE c == cert.issuer
<1>0. c \in {"ca-issuer", "custom-issuer"} /\ Recorded = cert.version
  BY DEF Shape, TypeOK, Recorded
<1>1. /\ issuers'[c].there /\ cert.version.issuer = issuers'[c].version
      /\ cert.version.ca = IF issuers'[c].ca = Nil THEN Nil ELSE secrets'[issuers'[c].ca]
      /\ issuers'[c].ca # Nil => secrets'[issuers'[c].ca] # Nil
  BY DEF Form, GetIssuerResourceVersion
<1>2. NewVersion # cert.version.issuer
  BY <1>0, VersionIsNew
<1>3. NewContent # cert.version.ca
  BY <1>0, ContentIsNew
<1>4. ASSUME issuers'[c] = issuers[c], \A ca \in CAs : secrets'[ca] = secrets[ca]
      PROVE  Form = cert.version
  <2>1. GetIssuerResourceVersion(issuers[c])' = GetIssuerResourceVersion(issuers[c])
    <3>1. issuers[c].there => issuers[c].ca = Nil \/ issuers[c].ca \in CAs
      BY <1>0 DEF Shape
    <3> QED
      BY <1>4, <3>1 DEF GetIssuerResourceVersion
  <2> QED
    BY <2>1 DEF Form
<1>5. CASE UNCHANGED <<issuers, secrets>>
  BY <1>4, <1>5
<1>6. CASE EnsureSelfSigned
  <2>1. issuers'[c] = issuers[c] /\ secrets' = secrets
    BY <1>0, <1>6 DEF EnsureSelfSigned, Shape, Issuers
  <2> QED
    BY <1>4, <2>1
<1>7. CASE EnsureCAIssuer
  <2>1. issuers' = [issuers EXCEPT !["ca-issuer"] = CAIssuer] /\ secrets' = secrets
    BY <1>7 DEF EnsureCAIssuer
  <2>2. CASE c = "custom-issuer"
    BY <1>4, <2>1, <2>2
  <2>3. CASE c = "ca-issuer" /\ CAIssuer = issuers[c]
    BY <1>4, <2>1, <2>3 DEF Shape
  <2>4. CASE c = "ca-issuer" /\ CAIssuer # issuers[c]
    <3>1. CAIssuer.version = NewVersion
      BY <2>4, NoIssuerFields DEF CAIssuer, Shape, Issuers
    <3>2. issuers'[c] = CAIssuer
      BY <2>1, <2>4 DEF Shape, Issuers
    <3> QED
      BY <1>1, <1>2, <3>1, <3>2
  <2> QED
    BY <1>0, <2>2, <2>3, <2>4
<1>8. CASE \E i \in Issuers : IssuerStatus(i)
  <2>1. PICK i \in Issuers : IssuerStatus(i)
    BY <1>8
  <2> DEFINE ready == IF CanSign(issuers[i]) THEN "True" ELSE "False"
             version == NewVersion
  <2>2. /\ issuers' = [issuers EXCEPT ![i].ready = ready, ![i].observed = TRUE,
                                      ![i].version = version]
        /\ secrets' = secrets
    BY <2>1 DEF IssuerStatus
  <2>3. version # cert.version.issuer
    BY <1>2
  <2> HIDE DEF ready, version
  <2>4. CASE i = c
    <3>1. issuers'[c].version = version
      BY <2>2, <2>4, NoIssuerFields DEF Shape
    <3> QED
      BY <1>1, <2>3, <3>1
  <2>5. CASE i # c
    <3>1. issuers'[c] = issuers[c] /\ secrets' = secrets
      BY <1>0, <2>2, <2>5 DEF Shape, Issuers
    <3> QED
      BY <1>4, <3>1
  <2> QED
    BY <2>4, <2>5
<1>9. CASE CustomIssuerChanges
  <2> DEFINE there == ~issuers["custom-issuer"].there
             version == NewVersion
  <2>1. /\ issuers' = [issuers EXCEPT !["custom-issuer"] =
                         [NoIssuer EXCEPT !.there = there, !.version = version]]
        /\ secrets' = secrets
    BY <1>9 DEF CustomIssuerChanges
  <2>2. version # cert.version.issuer
    BY <1>2
  <2> HIDE DEF there, version
  <2>3. CASE c = "custom-issuer"
    <3>1. issuers'[c].version = version
      BY <2>1, <2>3, NoIssuerFields DEF Shape, Issuers
    <3> QED
      BY <1>1, <2>2, <3>1
  <2>4. CASE c = "ca-issuer"
    BY <1>4, <2>1, <2>4
  <2> QED
    BY <1>0, <2>3, <2>4
<1>10. ASSUME NEW ca \in CAs, NEW content \in {Nil, NewContent},
              secrets' = [secrets EXCEPT ![ca] = content], issuers' = issuers
       PROVE  Form = cert.version
  <2>1. secrets'[ca] = content /\ \A s \in CAs \ {ca} : secrets'[s] = secrets[s]
    BY <1>10 DEF Shape, CAs, Secrets
  <2>2. CASE issuers[c].ca = ca /\ ca # Nil
    BY <1>1, <1>3, <1>10, <2>1, <2>2
  <2>3. CASE issuers[c].ca # ca \/ ca = Nil
    <3>1. issuers[c].there => issuers[c].ca = Nil \/ issuers[c].ca \in CAs
      BY <1>0 DEF Shape
    <3>2. Nil \notin CAs
      BY ModesAssumption DEF ModesAssumption, CAs, Secrets
    <3>3. GetIssuerResourceVersion(issuers[c])' = GetIssuerResourceVersion(issuers[c])
      BY <1>10, <2>1, <2>3, <3>1, <3>2 DEF GetIssuerResourceVersion
    <3> QED
      BY <3>3 DEF Form
  <2> QED
    BY <2>2, <2>3
<1>11. CASE IssueCA
  <2>1. secrets' = [secrets EXCEPT !["ca-tls"] = NewContent] /\ issuers' = issuers /\ "ca-tls" \in CAs
    BY <1>11 DEF IssueCA, CAs
  <2> QED
    BY <1>10, <2>1
<1>12. CASE CustomCAChanges \/ CARenewed
  <2>1. issuers' = issuers /\ \E ca \in CAs : \E content \in {Nil, NewContent} :
                                secrets' = [secrets EXCEPT ![ca] = content]
    BY <1>12 DEF CustomCAChanges, CARenewed, CAs
  <2> QED
    BY <1>10, <2>1
<1>13. CASE RefreshSecret \/ IssueService \/ ServiceRenewed
  <2>1. /\ \E content : secrets' = [secrets EXCEPT !["svc-tls"] = content] \/ secrets' = secrets
        /\ issuers' = issuers
    BY <1>13 DEF RefreshSecret, IssueService, ServiceRenewed
  <2>2. \A ca \in CAs : secrets'[ca] = secrets[ca]
    BY <2>1 DEF CAs, Shape, Secrets
  <2> QED
    BY <1>4, <2>1, <2>2
<1>14. CASE Start \/ Cleanup \/ EnsureCACert \/ FindCustomIssuer \/ StoreCertificate
            \/ ApplyWorkload \/ Abort \/ CacheCatchesUp \/ Edit \/ UNCHANGED vars
  <2>1. UNCHANGED <<issuers, secrets>>
    BY <1>14 DEF Start, Cleanup, EnsureCACert, FindCustomIssuer, StoreCertificate,
       ApplyWorkload, Abort, CacheCatchesUp, Edit, world, vars
  <2> QED
    BY <1>5, <2>1
<1> QED
  BY <1>6, <1>7, <1>8, <1>9, <1>11, <1>12, <1>13, <1>14
     DEF Next, Reconcile, CertManager, Surroundings

\* The certificate that is stored.
LEMMA CertificateStored ==
  ASSUME Shape, StoreCertificate
  PROVE  /\ cert'.issuer = held.issuer /\ held.issuer \in {"ca-issuer", "custom-issuer"}
         /\ cert'.version \in {Nil, GetIssuerResourceVersion(issuers[held.issuer])}
         /\ pc' = IF cert'.version # Recorded THEN "refresh" ELSE "workload"
         /\ UNCHANGED <<issuers, secrets, lost>>
<1>1. PICK version \in {GetIssuerResourceVersion(issuers[held.issuer]), Nil} :
        /\ cert' = [issuer |-> held.issuer, version |-> version]
        /\ Goto(IF version # Recorded THEN "refresh" ELSE "workload")
  BY DEF StoreCertificate
<1>2. cert'.issuer = held.issuer /\ cert'.version = version
  BY <1>1
<1>3. pc' = IF version # Recorded THEN "refresh" ELSE "workload"
  BY <1>1 DEF Goto
<1>4. UNCHANGED <<issuers, secrets, lost>>
  BY DEF StoreCertificate
<1> QED
  BY <1>2, <1>3, <1>4 DEF Shape, Memory

\* Only three steps touch the certificate.
LEMMA CertificateKept ==
  ASSUME [Next]_vars, ~StoreCertificate, ~Cleanup
  PROVE  cert' = cert
BY DEF Next, Reconcile, Start, EnsureSelfSigned, EnsureCACert, EnsureCAIssuer, FindCustomIssuer,
   RefreshSecret, ApplyWorkload, Abort, CertManager, IssueCA, IssueService, IssuerStatus,
   CacheCatchesUp, Surroundings, Edit, CustomIssuerChanges, CustomCAChanges, CARenewed,
   ServiceRenewed, world, vars

\* Every step keeps the version of the kind of issuer.
LEMMA VersionedNext == Shape /\ Versioned /\ [Next]_vars => Versioned'
<1> SUFFICES ASSUME Shape, Versioned, [Next]_vars PROVE Versioned'
  OBVIOUS
<1>1. CASE StoreCertificate
  <2> DEFINE v == GetIssuerResourceVersion(issuers[held.issuer])
  <2>1. /\ cert'.issuer = held.issuer /\ held.issuer \in {"ca-issuer", "custom-issuer"}
        /\ cert'.version \in {Nil, v}
    BY <1>1, CertificateStored
  <2>2. v # Nil => (held.issuer = "custom-issuer" <=> v.ca = Nil)
    BY <2>1, FormOf
  <2> HIDE DEF v
  <2> QED
    BY <2>1, <2>2 DEF Versioned
<1>2. CASE Cleanup
  <2>1. cert' \in {cert, Nil}
    BY <1>2 DEF Cleanup
  <2> QED
    BY <2>1 DEF Versioned
<1>3. CASE ~StoreCertificate /\ ~Cleanup
  BY <1>3, CertificateKept DEF Versioned
<1> QED
  BY <1>1, <1>2, <1>3

\* A secret that is signed is in the form of its issuer.
LEMMA SignedInForm ==
  ASSUME Shape, cert # Nil, secrets' = [secrets EXCEPT !["svc-tls"] = Signed(cert.issuer)],
         UNCHANGED <<issuers, cert>>, Form' = cert.version, cert.version # Nil
  PROVE  /\ secrets'["svc-tls"].issuer = cert.issuer
         /\ secrets'["svc-tls"].ca = cert.version.ca
<1> DEFINE c == cert.issuer
<1>1. c \in {"ca-issuer", "custom-issuer"}
  BY DEF Shape, TypeOK
<1>2. secrets'["svc-tls"] = Signed(c) /\ \A ca \in CAs : secrets'[ca] = secrets[ca]
  BY DEF Shape, Secrets, CAs
<1>3. /\ Signed(c).issuer = c
      /\ Signed(c).ca = IF issuers[c].ca = Nil THEN Nil ELSE secrets[issuers[c].ca]
  BY DEF Signed
<1>4. Form = cert.version
  <2>1. issuers[c].there => issuers[c].ca = Nil \/ issuers[c].ca \in CAs
    BY <1>1 DEF Shape
  <2>2. GetIssuerResourceVersion(issuers[c])' = GetIssuerResourceVersion(issuers[c])
    BY <1>2, <2>1 DEF GetIssuerResourceVersion
  <2> QED
    BY <2>2 DEF Form
<1>5. cert.version.ca = IF issuers[c].ca = Nil THEN Nil ELSE secrets[issuers[c].ca]
  BY <1>1, <1>4, FormOf DEF Form
<1> HIDE DEF Signed
<1> QED
  BY <1>2, <1>3, <1>5

\* Every step keeps the secret of a recorded form signed in it.
LEMMA RenewedNext == Shape /\ Versioned /\ Renewed /\ [Next]_vars => Renewed'
<1> SUFFICES ASSUME Shape, Versioned, Renewed, [Next]_vars,
                    cert' # Nil, cert'.version # Nil, Form' = cert'.version,
                    secrets'["svc-tls"] # Nil, ~lost', pc' # "refresh"
             PROVE  /\ secrets'["svc-tls"].issuer = cert'.issuer
                    /\ secrets'["svc-tls"].ca = cert'.version.ca
  BY DEF Renewed
<1>1. ASSUME cert' = cert, secrets'["svc-tls"] = secrets["svc-tls"], ~lost, pc # "refresh"
      PROVE  /\ secrets'["svc-tls"].issuer = cert'.issuer
             /\ secrets'["svc-tls"].ca = cert'.version.ca
  <2>1. Form = cert.version
    BY <1>1, FormStays
  <2> QED
    BY <1>1, <2>1 DEF Renewed
<1>2. CASE StoreCertificate
  <2>1. /\ cert'.issuer = held.issuer /\ held.issuer \in {"ca-issuer", "custom-issuer"}
        /\ cert'.version = GetIssuerResourceVersion(issuers[held.issuer])
        /\ cert'.version = Recorded /\ UNCHANGED <<issuers, secrets, lost>> /\ pc = "store"
    BY <1>2, CertificateStored DEF StoreCertificate
  <2>2. cert # Nil /\ cert.version = cert'.version /\ cert.version # Nil
    BY <2>1 DEF Recorded
  <2>3. held.issuer = "custom-issuer" <=> cert'.version.ca = Nil
    BY <2>1, FormOf
  <2>4. cert.issuer = "custom-issuer" <=> cert.version.ca = Nil
    BY <2>2 DEF Versioned
  <2>5. cert.issuer = held.issuer
    BY <2>1, <2>2, <2>3, <2>4 DEF Shape, TypeOK
  <2>6. Form = cert.version
    BY <2>1, <2>2, <2>5 DEF Form
  <2> QED
    BY <2>1, <2>2, <2>5, <2>6 DEF Renewed
<1>3. CASE Cleanup
  <2>1. cert' = cert /\ pc # "refresh" /\ UNCHANGED <<secrets, lost>>
    BY <1>3 DEF Cleanup
  <2> QED
    BY <1>1, <2>1
<1>4. CASE RefreshSecret
  <2>1. secrets' = [secrets EXCEPT !["svc-tls"] = Nil]
    BY <1>4 DEF RefreshSecret
  <2> QED
    BY <2>1 DEF Shape, Secrets
<1>5. CASE IssueService \/ ServiceRenewed
  <2>1. /\ cert # Nil /\ UNCHANGED <<issuers, cert>>
        /\ secrets' = [secrets EXCEPT !["svc-tls"] = Signed(cert.issuer)]
    BY <1>5 DEF IssueService, ServiceRenewed
  <2> QED
    BY <2>1, SignedInForm
<1>6. CASE Abort
  <2>1. ~lost /\ pc # "refresh" /\ UNCHANGED <<cert, secrets>>
    BY <1>6 DEF Abort, world
  <2> QED
    BY <1>1, <2>1
<1>7. CASE Start \/ EnsureSelfSigned \/ EnsureCACert \/ EnsureCAIssuer \/ FindCustomIssuer
           \/ ApplyWorkload
  <2>1. pc # "refresh" /\ UNCHANGED <<cert, secrets, lost>>
    BY <1>7 DEF Start, EnsureSelfSigned, EnsureCACert, EnsureCAIssuer, FindCustomIssuer,
       ApplyWorkload, world
  <2> QED
    BY <1>1, <2>1
<1>8. CASE IssueCA
  <2>1. /\ secrets' = [secrets EXCEPT !["ca-tls"] = NewContent]
        /\ UNCHANGED <<cert, pc, lost>>
    BY <1>8 DEF IssueCA
  <2> QED
    BY <1>1, <2>1 DEF Shape, Secrets
<1>9. CASE (\E i \in Issuers : IssuerStatus(i)) \/ CacheCatchesUp \/ UNCHANGED vars
  <2>1. UNCHANGED <<cert, secrets, pc, lost>>
    BY <1>9 DEF IssuerStatus, CacheCatchesUp, vars, world
  <2> QED
    BY <1>1, <2>1
<1>10. CASE Surroundings /\ ~ServiceRenewed
  <2>1. UNCHANGED <<cert, pc, lost>>
    BY <1>10 DEF Surroundings, Edit, CustomIssuerChanges, CustomCAChanges, CARenewed
  <2>2. secrets' = secrets \/ \E ca \in CAs : \E content : secrets' = [secrets EXCEPT ![ca] = content]
    BY <1>10 DEF Surroundings, Edit, CustomIssuerChanges, CustomCAChanges, CARenewed, CAs
  <2>3. secrets'["svc-tls"] = secrets["svc-tls"]
    BY <2>2, CATyped
  <2> QED
    BY <1>1, <2>1, <2>3
<1> QED
  BY <1>2, <1>3, <1>4, <1>5, <1>6, <1>7, <1>8, <1>9, <1>10
     DEF Next, Reconcile, CertManager, Surroundings

\* Pods are only given a secret that the issuer signed in its present form, where
\* that is the form the certificate records, unless the deletion of the secret was
\* lost or the cache still has the deleted one.
THEOREM RenewedSecrets == Spec => PodsGetRenewedSecret
<1>1. Init => Versioned /\ Renewed
  BY DEF Init, Versioned, Renewed
<1>2. Spec => [](Shape /\ Versioned /\ Renewed)
  BY <1>1, ShapeInit, ShapeNext, VersionedNext, RenewedNext, PTL DEF Spec
<1>3. Shape /\ Versioned /\ Renewed /\ [Next]_vars =>
        [LET issuer == issuers[cert.issuer]
             version == GetIssuerResourceVersion(issuer)
         IN ApplyWorkload /\ held.mode = "managed" /\ pods' # pods
            /\ ~lost /\ seen = secrets["svc-tls"]
            /\ cert # Nil /\ version # Nil /\ cert.version = version
            => seen.issuer = cert.issuer /\ seen.ca = version.ca]_vars
  <2> SUFFICES ASSUME Renewed, ApplyWorkload, held.mode = "managed", pods' # pods, ~lost,
                      seen = secrets["svc-tls"], cert # Nil, Form # Nil, cert.version = Form
               PROVE  seen.issuer = cert.issuer /\ seen.ca = Form.ca
    BY DEF Form
  <2>1. seen # Nil /\ pc # "refresh"
    BY DEF ApplyWorkload
  <2> QED
    BY <2>1 DEF Renewed
<1> QED
  BY <1>2, <1>3, PTL DEF Spec, PodsGetRenewedSecret
=============================================================================
