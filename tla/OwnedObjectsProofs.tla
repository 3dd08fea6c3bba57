-------------------------- MODULE OwnedObjectsProofs --------------------------
(***************************************************************************)
(* What the objects of one RuntimeComponent hold, proved of OwnedObjects   *)
(* for any tracks, specifications, clusters and faults.                    *)
(***************************************************************************)
EXTENDS OwnedObjects, NaturalsInduction, FiniteSetTheorems, TLAPS

\* An object that is labelled, customized or stored keeps its fields.
LEMMA LabelledFields ==
  ASSUME NEW old, NEW s
  PROVE  DOMAIN Labelled(old, s) = DOMAIN old
BY DEF Labelled

\* ... whatever its kind ...
LEMMA CustomizedFields ==
  ASSUME NEW kind \in ManagedKinds, NEW old, NEW s, NEW r
  PROVE  DOMAIN Customize(kind, old, s, r) = DOMAIN old
<1>1. CASE kind = "ServiceAccount"
  BY <1>1, LabelledFields DEF Customize, CustomizeServiceAccount
<1>2. CASE kind = "KnativeService"
  BY <1>2, LabelledFields DEF Customize, CustomizeKnativeService
<1>3. CASE kind = "BindingSecret"
  BY <1>3, LabelledFields DEF Customize, CustomizeBinding
<1>4. CASE kind = "Service"
  <2>1. DOMAIN CustomizeService(old, s, FALSE) = DOMAIN old
    BY LabelledFields DEF CustomizeService
  <2>2. DOMAIN ReconciledService(old, s, cluster) = DOMAIN CustomizeService(old, s, FALSE)
    BY DEF ReconciledService
  <2> QED
    BY <1>4, <2>1, <2>2 DEF Customize
<1>5. CASE kind = "Headless"
  <2>1. DOMAIN CustomizeService(old, s, TRUE) = DOMAIN old
    BY LabelledFields DEF CustomizeService
  <2> QED
    BY <1>5, <2>1 DEF Customize, HeadlessService
<1>6. CASE kind = "NetworkPolicy"
  BY <1>6, LabelledFields DEF Customize, CustomizeNetworkPolicy
<1>7. \A section : DOMAIN Workload(old, s, r, cluster, section) = DOMAIN old
  BY LabelledFields DEF Workload
<1>8. CASE kind = "StatefulSet"
  <2>1. \A sts : DOMAIN CustomizePersistence(sts, s) = DOMAIN sts
    BY DEF CustomizePersistence
  <2> QED
  BY <1>7, <1>8, <2>1 DEF Customize, CustomizeStatefulSet
<1>9. CASE kind = "Deployment"
  BY <1>7, <1>9 DEF Customize, CustomizeDeployment
<1>10. CASE kind = "HPA"
  BY <1>10, LabelledFields DEF Customize, CustomizeHPA
<1>11. CASE kind = "Route"
  BY <1>11, LabelledFields DEF Customize, CustomizeRoute
<1>12. CASE kind = "Ingress"
  BY <1>12, LabelledFields DEF Customize, CustomizeIngress
<1>13. CASE kind = "ServiceMonitor"
  BY <1>13, LabelledFields DEF Customize, CustomizeServiceMonitor
<1> QED
  BY <1>1, <1>2, <1>3, <1>4, <1>5, <1>6, <1>8, <1>9, <1>10, <1>11, <1>12, <1>13 DEF ManagedKinds

\* ... and so does what the API server makes of it.
LEMMA StoredFields ==
  ASSUME NEW kind, NEW old, NEW new
  PROVE  DOMAIN Stored(kind, old, new) = DOMAIN new
BY DEF Stored

-----------------------------------------------------------------------------
(* Types.                                                                  *)

\* What a reconcile holds in memory.
Memory == {"spec", "edited", "appeared", "refs"}

\* The objects have the fields of their kinds, and so do the references.
Typed ==
  /\ tracked \in Tracks
  /\ TypeOK

\* The kinds followed are managed ones.
LEMMA KindsManaged ==
  ASSUME tracked \in Tracks
  PROVE  /\ tracked \in Seq(ManagedKinds) /\ tracked # <<>>
         /\ Len(tracked) \in Nat \ {0} /\ DOMAIN tracked = 1 .. Len(tracked)
         /\ AtStatus = Len(tracked) + 1
         /\ Kinds \subseteq ManagedKinds
BY OwnedAssumption DEF OwnedAssumption, Kinds, AtStatus

\* A reconcile that has come to an object is under way.
LEMMA UnderWay ==
  ASSUME tracked \in Tracks, AtObject
  PROVE  /\ pc # 0 /\ pc \in 1 .. Len(tracked) /\ pc + 1 \in 0 .. AtStatus /\ pc + 1 # 0
         /\ AtStatus \in 0 .. AtStatus /\ AtStatus # 0
         /\ Kind \in Kinds /\ Kind \in ManagedKinds
BY KindsManaged DEF AtObject, Kind, Kinds

\* Initially all is typed.
LEMMA TypedInit == Init => Typed
<1> SUFFICES ASSUME Init PROVE Typed
  OBVIOUS
<1>1. AtStatus \in Nat
  BY KindsManaged DEF Init
<1> QED
  BY <1>1, OwnedAssumption DEF Init, Typed, TypeOK, OwnedAssumption

\* The references keep their fields.
LEMMA ReferredFields ==
  ASSUME NEW kind, NEW s, NEW r, NEW object
  PROVE  DOMAIN Referring(kind, s, r, object) = DOMAIN r
BY DEF Referring, Noted

\* A call that fails leaves all but the references in memory.
LEMMA FailureNoted ==
  ASSUME Typed, ApplyFails
  PROVE  /\ pc # 0 /\ pc' = AtStatus /\ faults < MaxFaults /\ faults' = faults + 1
         /\ DOMAIN held' = DOMAIN held /\ DOMAIN held'.refs = DOMAIN held.refs
         /\ held'.spec = held.spec /\ held'.appeared = held.appeared /\ held'.edited = held.edited
         /\ held'.refs \in {held.refs, Noted(Kind, held.spec, held.refs)}
         /\ UNCHANGED <<tracked, spec, objects, others, refs, cluster>>
<1>1. pc # 0
  BY UnderWay DEF ApplyFails, Typed
<1>2. DOMAIN held = Memory
  BY <1>1 DEF Typed, TypeOK, Memory
<1>3. DOMAIN Noted(Kind, held.spec, held.refs) = DOMAIN held.refs
  BY DEF Noted
<1>4. CASE held' = held
  BY <1>1, <1>4 DEF ApplyFails
<1>5. CASE held' = [held EXCEPT !.refs = Noted(Kind, held.spec, held.refs)]
  <2> HIDE DEF Noted
  <2> QED
    BY <1>1, <1>2, <1>3, <1>5 DEF ApplyFails, Memory
<1> QED
  BY <1>4, <1>5 DEF ApplyFails

\* Writing an object of the right fields keeps the types of all.
LEMMA ObjectTyped ==
  ASSUME Typed, NEW kind \in Kinds, NEW o, o = Nil \/ DOMAIN o = DOMAIN Empty(kind),
         objects' = [objects EXCEPT ![kind] = o], tracked' = tracked
  PROVE  /\ DOMAIN objects' = Kinds'
         /\ \A k \in Kinds' : objects'[k] # Nil => DOMAIN objects'[k] = DOMAIN Empty(k)
BY DEF Typed, TypeOK, Kinds

\* What Apply writes has the fields of its kind.
LEMMA ResultFields ==
  ASSUME Typed, AtObject
  PROVE  DOMAIN Result = DOMAIN Empty(Kind)
<1>1. Kind \in Kinds /\ Kind \in ManagedKinds
  BY UnderWay DEF Typed
<1>2. DOMAIN Starting = DOMAIN Empty(Kind)
  BY <1>1 DEF Starting, Old, Typed, TypeOK
<1>3. DOMAIN Computed = DOMAIN Starting
  BY <1>1, CustomizedFields DEF Computed
<1> QED
  BY <1>2, <1>3, StoredFields DEF Result

\* Nothing others do to an object changes its fields.
LEMMA ChangedFields ==
  ASSUME NEW kind, NEW o, NEW c \in ChangedByOthers(kind, o)
  PROVE  DOMAIN c = DOMAIN o
BY DEF ChangedByOthers

\* The reconcile keeps the types.
LEMMA TypedReconcile ==
  ASSUME Typed, Reconcile
  PROVE  Typed'
<1> USE DEF Typed
<1>0. AtStatus \in Nat \ {0} /\ (AtObject => pc \in 1 .. Len(tracked))
  BY KindsManaged, UnderWay
<1>1. CASE Begin
  <2> DEFINE s == Prepared(spec)
  <2>1. DOMAIN [refs EXCEPT !.certSecret = IF s.knative THEN @ ELSE CertReference(s),
                            !.image = s.image] = DOMAIN refs
    OBVIOUS
  <2>2. DOMAIN held' = Memory /\ DOMAIN held'.refs = DOMAIN refs /\ pc' = 1
    BY <1>1, <2>1 DEF Begin, Memory
  <2> QED
    BY <1>0, <1>1, <2>2 DEF Begin, TypeOK, Kinds, AtStatus, Memory
<1>2. CASE DeleteOldRoute
  <2>1. Kind \in Kinds
    BY <1>2, UnderWay DEF DeleteOldRoute
  <2>2. /\ DOMAIN objects' = Kinds'
        /\ \A k \in Kinds' : objects'[k] # Nil => DOMAIN objects'[k] = DOMAIN Empty(k)
    BY <1>2, <2>1, ObjectTyped DEF DeleteOldRoute
  <2> QED
    BY <1>2, <2>2 DEF DeleteOldRoute, TypeOK, Kinds, AtStatus
<1>3. CASE Apply
  <2> DEFINE object == IF Wanted(Kind, held.spec) THEN Result ELSE Nil
             r == Referring(Kind, held.spec, held.refs, object)
  <2>1. Kind \in Kinds /\ pc # 0 /\ pc' \in 0 .. AtStatus /\ pc' # 0
    BY <1>3, UnderWay DEF Apply
  <2>2. object = Nil \/ DOMAIN object = DOMAIN Empty(Kind)
    BY <1>3, ResultFields DEF Apply
  <2>3. objects' = [objects EXCEPT ![Kind] = object]
    BY <1>3 DEF Apply
  <2>5. held' = [held EXCEPT !.refs = r]
    BY <1>3 DEF Apply
  <2>6. DOMAIN r = DOMAIN held.refs
    BY ReferredFields
  <2> HIDE DEF object, r
  <2>4. /\ DOMAIN objects' = Kinds'
        /\ \A k \in Kinds' : objects'[k] # Nil => DOMAIN objects'[k] = DOMAIN Empty(k)
    BY <1>3, <2>1, <2>2, <2>3, ObjectTyped DEF Apply
  <2>7. DOMAIN held' = Memory /\ DOMAIN held'.refs = DOMAIN NoReferences
    BY <2>1, <2>5, <2>6 DEF TypeOK, Memory
  <2>8. tracked' = tracked /\ others' \subseteq others /\ refs' = refs /\ faults' = faults
    BY <1>3 DEF Apply
  <2>9. pc' = 0 => held' = Nil
    BY <2>1
  <2> QED
    BY <2>1, <2>4, <2>7, <2>8, <2>9 DEF TypeOK, Kinds, AtStatus, Memory
<1>4. CASE CannotApply \/ LeaveAlone
  <2>1. /\ pc # 0 /\ pc' \in 0 .. AtStatus /\ pc' # 0
        /\ UNCHANGED <<tracked, objects, others, refs, held, faults>>
    BY <1>4, UnderWay DEF CannotApply, LeaveAlone
  <2> QED
    BY <2>1 DEF TypeOK, Kinds, AtStatus
<1>5. CASE WriteStatus
  BY <1>0, <1>5 DEF WriteStatus, TypeOK, Kinds, AtStatus
<1> QED
  BY <1>1, <1>2, <1>3, <1>4, <1>5 DEF Reconcile

\* So do its faults, and what happens around it.
LEMMA TypedNext == Typed /\ [Next]_vars => Typed'
<1> SUFFICES ASSUME Typed, [Next]_vars PROVE Typed'
  OBVIOUS
<1> USE DEF Typed
<1>0. AtStatus \in Nat \ {0} /\ (AtObject => pc \in 1 .. Len(tracked)) /\ MaxFaults \in Nat
  BY KindsManaged, UnderWay, OwnedAssumption DEF OwnedAssumption
<1>1. CASE ApplyFails
  <2>1. pc # 0 /\ DOMAIN held = Memory /\ DOMAIN held.refs = DOMAIN NoReferences
    BY <1>1, FailureNoted DEF TypeOK, Memory
  <2>2. /\ pc' = AtStatus /\ DOMAIN held' = Memory /\ DOMAIN held'.refs = DOMAIN NoReferences
        /\ faults' \in 0 .. MaxFaults
        /\ UNCHANGED <<tracked, objects, others, refs>>
    BY <1>0, <1>1, <2>1, FailureNoted DEF TypeOK
  <2> QED
    BY <1>0, <2>2 DEF TypeOK, Kinds, AtStatus, Memory
<1>2. CASE LoseStatus
  BY <1>0, <1>2 DEF LoseStatus, TypeOK, Kinds, AtStatus
<1>3. CASE Edit
  <2>1. CASE pc = 0
    BY <1>3, <2>1 DEF Edit, TypeOK, Kinds, AtStatus
  <2>2. CASE pc # 0
    <3>1. held' = [held EXCEPT !.edited = TRUE] /\ faults < MaxFaults /\ faults' = faults + 1
      BY <1>3, <2>2 DEF Edit
    <3>2. DOMAIN held' = Memory /\ held'.refs = held.refs
      BY <2>2, <3>1 DEF TypeOK, Memory
    <3> QED
      BY <1>0, <1>3, <2>2, <3>1, <3>2 DEF Edit, TypeOK, Kinds, AtStatus, Memory
  <2> QED
    BY <2>1, <2>2
<1>4. CASE ClusterChanges \/ UNCHANGED vars
  <2>1. UNCHANGED <<tracked, objects, others, refs, pc, held, faults>>
    BY <1>4 DEF ClusterChanges, vars
  <2> QED
    BY <2>1 DEF TypeOK, Kinds, AtStatus
<1>5. CASE OthersChange
  <2> DEFINE kind == tracked[1]
  <2>1. kind \in Kinds
    BY KindsManaged DEF Kinds
  <2>2. PICK o \in ChangedByOthers(kind, objects[kind]) : objects' = [objects EXCEPT ![kind] = o]
    BY <1>5 DEF OthersChange
  <2>3. DOMAIN o = DOMAIN Empty(kind)
    BY <1>5, <2>1, <2>2, ChangedFields DEF OthersChange, TypeOK
  <2>4. /\ DOMAIN objects' = Kinds'
        /\ \A k \in Kinds' : objects'[k] # Nil => DOMAIN objects'[k] = DOMAIN Empty(k)
    BY <1>5, <2>1, <2>2, <2>3, ObjectTyped DEF OthersChange
  <2> QED
    BY <1>5, <2>4 DEF OthersChange, TypeOK, Kinds, AtStatus
<1>6. CASE OthersCreate
  <2>1. PICK kind \in Kinds : /\ objects' = [objects EXCEPT ![kind] = Empty(kind)]
                              /\ others' = others \cup {kind}
                              /\ held' = IF pc = 0 THEN held
                                         ELSE [held EXCEPT !.appeared = @ \cup {kind}]
                              /\ UNCHANGED <<tracked, spec, refs, cluster, pc, faults>>
    BY <1>6 DEF OthersCreate
  <2>2. /\ DOMAIN objects' = Kinds'
        /\ \A k \in Kinds' : objects'[k] # Nil => DOMAIN objects'[k] = DOMAIN Empty(k)
    BY <2>1, ObjectTyped
  <2>3. pc # 0 => DOMAIN held' = Memory /\ held'.refs = held.refs
    BY <2>1 DEF TypeOK, Memory
  <2> QED
    BY <2>1, <2>2, <2>3 DEF TypeOK, Kinds, AtStatus, Memory
<1>7. CASE OthersDelete
  <2>1. PICK kind \in others : /\ objects' = [objects EXCEPT ![kind] = Nil]
                               /\ others' = others \ {kind}
                               /\ UNCHANGED <<tracked, spec, refs, cluster, pc, held, faults>>
    BY <1>7 DEF OthersDelete
  <2>2. kind \in Kinds
    BY DEF TypeOK
  <2>3. /\ DOMAIN objects' = Kinds'
        /\ \A k \in Kinds' : objects'[k] # Nil => DOMAIN objects'[k] = DOMAIN Empty(k)
    BY <2>1, <2>2, ObjectTyped
  <2> QED
    BY <2>1, <2>3 DEF TypeOK, Kinds, AtStatus
<1> QED
  BY <1>1, <1>2, <1>3, <1>4, <1>5, <1>6, <1>7, TypedReconcile DEF Next, Surroundings

\* So all is typed always.
LEMMA AlwaysTyped == Spec => []Typed
BY TypedInit, TypedNext, PTL DEF Spec

\* Type correctness.
THEOREM TypeCorrect == Spec => []TypeOK
<1>1. Typed => TypeOK
  BY DEF Typed
<1> QED
  BY <1>1, AlwaysTyped, PTL

-----------------------------------------------------------------------------
(* Other owners.                                                           *)

\* A workload of another owner that a reconcile meets has appeared since it checked
\* the names: there was none then, and those that come are remembered.
OwnersKnown == pc # 0 => others \cap Workloads \subseteq held.appeared

\* Initially no reconcile is under way.
LEMMA OwnersInit == Init => OwnersKnown
BY DEF Init, OwnersKnown

\* Every step keeps the owners known.
LEMMA OwnersNext == Typed /\ OwnersKnown /\ [Next]_vars => OwnersKnown'
<1> SUFFICES ASSUME Typed, OwnersKnown, [Next]_vars PROVE OwnersKnown'
  OBVIOUS
<1>0. pc # 0 => DOMAIN held = Memory
  BY DEF Typed, TypeOK, Memory
<1>1. CASE Begin
  BY <1>1 DEF Begin, CheckForNameConflicts, OwnersKnown
<1>2. CASE DeleteOldRoute \/ CannotApply \/ LeaveAlone \/ ApplyFails \/ OthersDelete
  <2>1. pc' # 0 => pc # 0 /\ held'.appeared = held.appeared /\ others' \subseteq others
    BY <1>2, UnderWay, FailureNoted
       DEF DeleteOldRoute, CannotApply, LeaveAlone, OthersDelete, Typed
  <2> QED
    BY <2>1 DEF OwnersKnown
<1>3. CASE Apply
  <2>1. \E r : held' = [held EXCEPT !.refs = r]
    BY <1>3 DEF Apply
  <2>2. pc # 0 /\ others' \subseteq others
    BY <1>3, UnderWay DEF Apply, Typed
  <2> QED
    BY <1>0, <2>1, <2>2 DEF OwnersKnown, Memory
<1>4. CASE WriteStatus \/ LoseStatus
  BY <1>4 DEF WriteStatus, LoseStatus, OwnersKnown
<1>5. CASE Edit
  BY <1>0, <1>5 DEF Edit, OwnersKnown, Memory
<1>6. CASE ClusterChanges \/ OthersChange \/ UNCHANGED vars
  BY <1>6 DEF ClusterChanges, OthersChange, vars, OwnersKnown
<1>7. CASE OthersCreate
  BY <1>0, <1>7 DEF OthersCreate, OwnersKnown, Memory
<1> QED
  BY <1>1, <1>2, <1>3, <1>4, <1>5, <1>6, <1>7 DEF Next, Reconcile, Surroundings

\* A workload of another operator is written over only when it appeared after the
\* names were checked.
THEOREM OwnersAreRespected == Spec => OwnersRespected
<1>1. Typed /\ OwnersKnown /\ [Next]_vars =>
        [\A kind \in others \cap Workloads :
           objects'[kind] # objects[kind] /\ (Apply \/ DeleteOldRoute) => kind \in held.appeared]_vars
  <2> SUFFICES ASSUME Typed, OwnersKnown, NEW kind \in others \cap Workloads,
                      Apply \/ DeleteOldRoute
               PROVE  kind \in held.appeared
    OBVIOUS
  <2>1. pc # 0
    BY UnderWay DEF Apply, DeleteOldRoute, Typed
  <2> QED
    BY <2>1 DEF OwnersKnown
<1>2. Spec => []OwnersKnown
  BY OwnersInit, OwnersNext, AlwaysTyped, PTL DEF Spec
<1> QED
  BY <1>1, <1>2, AlwaysTyped, PTL DEF Spec, OwnersRespected

-----------------------------------------------------------------------------
(* Lists of pull secrets.                                                  *)

\* A set of numbers that has any has a least one.
LEMMA LeastElement ==
  ASSUME NEW S \in SUBSET Nat, S # {}
  PROVE  \E m \in S : \A n \in S : m <= n
<1> DEFINE Less == {ss \in Nat \X Nat : ss[1] < ss[2]}
<1>1. IsWellFoundedOn(Less, Nat)
  BY NatLessThanWellFounded DEF OpToRel
<1>2. PICK m \in S : \A n \in S : <<n, m>> \notin Less
  <2> HIDE DEF Less
  <2> QED
    BY <1>1, WFMin
<1>3. ASSUME NEW n \in S PROVE m <= n
  <2>1. <<n, m>> \in Nat \X Nat /\ <<n, m>> \notin Less
    BY <1>2
  <2>2. ~(n < m)
    BY <2>1
  <2> QED
    BY <2>2
<1> QED
  BY <1>3

\* A set that holds 0, and the successor of every number it holds up to n, holds
\* the numbers up to n.
LEMMA NumbersUpTo ==
  ASSUME NEW n \in Nat, NEW S, 0 \in S,
         \A i \in Nat : i < n /\ i \in S => i + 1 \in S
  PROVE  0 .. n \subseteq S
<1> DEFINE T == {i \in 0 .. n : i \notin S}
<1> SUFFICES ASSUME T # {} PROVE FALSE
  OBVIOUS
<1>1. PICK m \in T : \A i \in T : m <= i
  <2>1. T \in SUBSET Nat
    OBVIOUS
  <2> HIDE DEF T
  <2> QED
    BY <2>1, LeastElement
<1>2. m \in Nat /\ m # 0 /\ m <= n /\ m \notin S
  BY <1>1
<1>3. m - 1 \in Nat /\ m - 1 < n /\ (m - 1) + 1 = m /\ m - 1 \in 0 .. n /\ ~(m <= m - 1)
  BY <1>2
<1>4. m - 1 \in S
  BY <1>1, <1>3
<1> QED
  BY <1>2, <1>3, <1>4

\* What SetDiff leaves is the difference of the sets.
LEMMA SetDiffElements ==
  ASSUME NEW S, NEW a \in Seq(S), NEW b
  PROVE  SetDiff(a, b) \in Seq(S) /\ ToSet(SetDiff(a, b)) = ToSet(a) \ ToSet(b)
<1> DEFINE B == ToSet(b)
           Turn(x, n) == IF a[n] \in B THEN x ELSE Append(x, a[n])
           Loop(g, n) == /\ g \in [0 .. n -> Seq(S)] /\ g[0] = <<>>
                         /\ \A i \in 1 .. n : g[i] = Turn(g[i - 1], i)
           Runs == {n \in Nat : \E g : Loop(g, n)}
<1>0. Len(a) \in Nat /\ DOMAIN a = 1 .. Len(a) /\ \A i \in 1 .. Len(a) : a[i] \in S
  OBVIOUS
<1>1. \E g : Loop(g, Len(a))
  <2>1. 0 \in Runs
    <3>1. Loop([i \in 0 .. 0 |-> <<>>], 0)
      OBVIOUS
    <3> QED
      BY <3>1
  <2>2. ASSUME NEW n \in Nat, n < Len(a), n \in Runs PROVE n + 1 \in Runs
    <3>1. PICK g : Loop(g, n)
      BY <2>2
    <3> DEFINE h == [i \in 0 .. n + 1 |-> IF i = n + 1 THEN Turn(g[n], n + 1) ELSE g[i]]
    <3>2. h \in [0 .. n + 1 -> Seq(S)]
      <4>1. g[n] \in Seq(S) /\ a[n + 1] \in S
        BY <1>0, <2>2, <3>1
      <4>2. Turn(g[n], n + 1) \in Seq(S)
        BY <4>1
      <4> HIDE DEF Turn
      <4> QED
        BY <3>1, <4>2
    <3> HIDE DEF Turn
    <3>3. h[0] = <<>>
      BY <3>1
    <3>4. ASSUME NEW i \in 1 .. n + 1 PROVE h[i] = Turn(h[i - 1], i)
      <4>1. CASE i = n + 1
        <5>1. h[i] = Turn(g[n], n + 1) /\ h[i - 1] = g[n]
          BY <4>1
        <5> QED
          BY <4>1, <5>1
      <4>2. CASE i # n + 1
        <5>1. i \in 1 .. n /\ h[i] = g[i] /\ h[i - 1] = g[i - 1]
          BY <4>2
        <5> HIDE DEF h
        <5> QED
          BY <3>1, <5>1
      <4> QED
        BY <4>1, <4>2
    <3> HIDE DEF h
    <3>5. Loop(h, n + 1)
      BY <3>2, <3>3, <3>4
    <3>6. n + 1 \in Nat
      OBVIOUS
    <3> HIDE DEF Loop
    <3> QED
      BY <3>5, <3>6
  <2>3. 0 .. Len(a) \subseteq Runs
    <3> HIDE DEF Runs
    <3> QED
      BY <1>0, <2>1, <2>2, NumbersUpTo
  <2>4. Len(a) \in Runs
    <3> HIDE DEF Runs
    <3> QED
      BY <1>0, <2>3
  <2> QED
    BY <2>4
<1> DEFINE Out == CHOOSE g : g = [n \in 0 .. Len(a) |->
                    IF n = 0 THEN <<>> ELSE IF a[n] \in B THEN g[n - 1]
                                            ELSE Append(g[n - 1], a[n])]
<1>2. SetDiff(a, b) = Out[Len(a)]
  BY DEF SetDiff
<1>3. Out = [n \in 0 .. Len(a) |-> IF n = 0 THEN <<>> ELSE Turn(Out[n - 1], n)]
  <2>1. PICK g : Loop(g, Len(a))
    BY <1>1
  <2>2. g = [n \in 0 .. Len(a) |-> IF n = 0 THEN <<>> ELSE Turn(g[n - 1], n)]
    <3> HIDE DEF Turn
    <3>1. \A n \in 0 .. Len(a) : g[n] = IF n = 0 THEN <<>> ELSE Turn(g[n - 1], n)
      BY <1>0, <2>1
    <3> QED
      BY <2>1, <3>1
  <2> QED
    BY <2>2
<1> HIDE DEF Out
<1> DEFINE Done == {n \in 0 .. Len(a) : /\ Out[n] \in Seq(S)
                                        /\ ToSet(Out[n]) = {a[i] : i \in 1 .. n} \ B}
<1>4. 0 \in Done
  <2>1. Out[0] = <<>>
    BY <1>0, <1>3
  <2>2. Out[0] \in Seq(S) /\ ToSet(Out[0]) = {}
    BY <2>1 DEF ToSet
  <2>3. {a[i] : i \in 1 .. 0} = {}
    OBVIOUS
  <2> QED
    BY <1>0, <2>2, <2>3
<1>5. ASSUME NEW n \in Nat, n < Len(a), n \in Done PROVE n + 1 \in Done
  <2>1. n + 1 \in 0 .. Len(a) /\ n + 1 # 0 /\ (n + 1) - 1 = n /\ a[n + 1] \in S
    BY <1>0, <1>5
  <2>2. Out[n + 1] = Turn(Out[n], n + 1)
    <3> HIDE DEF Turn
    <3> QED
      BY <1>3, <2>1
  <2>3. {a[i] : i \in 1 .. n + 1} = {a[i] : i \in 1 .. n} \cup {a[n + 1]}
    <3>1. \A i : i \in 1 .. n + 1 <=> i \in 1 .. n \/ i = n + 1
      BY <1>5
    <3> QED
      BY <3>1
  <2>4. Out[n] \in Seq(S) /\ ToSet(Out[n]) = {a[i] : i \in 1 .. n} \ B
    BY <1>5
  <2>5. CASE a[n + 1] \in B
    BY <2>1, <2>2, <2>3, <2>4, <2>5
  <2>6. CASE a[n + 1] \notin B
    <3>1. Out[n + 1] = Append(Out[n], a[n + 1])
      BY <2>2, <2>6
    <3>2. ASSUME NEW x \in Seq(S), NEW e \in S PROVE ToSet(Append(x, e)) = ToSet(x) \cup {e}
      <4>1. DOMAIN Append(x, e) = DOMAIN x \cup {Len(x) + 1}
        OBVIOUS
      <4>2. /\ Append(x, e)[Len(x) + 1] = e
            /\ \A i \in DOMAIN x : Append(x, e)[i] = x[i]
        OBVIOUS
      <4> QED
        BY <4>1, <4>2 DEF ToSet
    <3>3. Out[n + 1] \in Seq(S) /\ ToSet(Out[n + 1]) = ToSet(Out[n]) \cup {a[n + 1]}
      BY <2>1, <2>4, <3>1, <3>2
    <3> QED
      BY <2>1, <2>3, <2>4, <2>6, <3>3
  <2> QED
    BY <2>5, <2>6
<1>6. Len(a) \in Done
  <2> HIDE DEF Done
  <2>1. 0 .. Len(a) \subseteq Done
    BY <1>0, <1>4, <1>5, NumbersUpTo
  <2> QED
    BY <1>0, <2>1
<1>7. {a[i] : i \in 1 .. Len(a)} = ToSet(a)
  BY <1>0 DEF ToSet
<1> QED
  BY <1>2, <1>6, <1>7
-----------------------------------------------------------------------------
(* References.                                                             *)

Lists == Seq(SecretNames)

\* The elements of two lists together.
LEMMA ConcatElements ==
  ASSUME NEW x \in Lists, NEW y \in Lists
  PROVE  x \o y \in Lists /\ ToSet(x \o y) = ToSet(x) \cup ToSet(y)
<1>1. x \o y \in Lists /\ Len(x \o y) = Len(x) + Len(y) /\ Len(x) \in Nat /\ Len(y) \in Nat
  BY DEF Lists
<1>2. DOMAIN (x \o y) = 1 .. Len(x) + Len(y) /\ DOMAIN x = 1 .. Len(x) /\ DOMAIN y = 1 .. Len(y)
  BY DEF Lists
<1>3. \A i \in 1 .. Len(x) + Len(y) : (x \o y)[i] = IF i <= Len(x) THEN x[i] ELSE y[i - Len(x)]
  BY DEF Lists
<1>4. ToSet(x \o y) \subseteq ToSet(x) \cup ToSet(y)
  <2> SUFFICES ASSUME NEW i \in 1 .. Len(x) + Len(y)
               PROVE  (x \o y)[i] \in ToSet(x) \cup ToSet(y)
    BY <1>2 DEF ToSet
  <2>1. CASE i <= Len(x)
    BY <1>1, <1>2, <1>3, <2>1 DEF ToSet
  <2>2. CASE ~(i <= Len(x))
    <3>1. i - Len(x) \in 1 .. Len(y) /\ (x \o y)[i] = y[i - Len(x)]
      BY <1>1, <1>3, <2>2
    <3> QED
      BY <1>2, <3>1 DEF ToSet
  <2> QED
    BY <2>1, <2>2
<1>5. ToSet(x) \subseteq ToSet(x \o y)
  <2> SUFFICES ASSUME NEW i \in 1 .. Len(x) PROVE x[i] \in ToSet(x \o y)
    BY <1>2 DEF ToSet
  <2>1. i \in 1 .. Len(x) + Len(y) /\ (x \o y)[i] = x[i]
    BY <1>1, <1>3
  <2> QED
    BY <1>2, <2>1 DEF ToSet
<1>6. ToSet(y) \subseteq ToSet(x \o y)
  <2> SUFFICES ASSUME NEW i \in 1 .. Len(y) PROVE y[i] \in ToSet(x \o y)
    BY <1>2 DEF ToSet
  <2>1. /\ Len(x) + i \in 1 .. Len(x) + Len(y) /\ ~(Len(x) + i <= Len(x))
        /\ (Len(x) + i) - Len(x) = i
    BY <1>1
  <2>2. (x \o y)[Len(x) + i] = y[i]
    BY <1>3, <2>1
  <2> QED
    BY <1>2, <2>1, <2>2 DEF ToSet
<1> QED
  BY <1>1, <1>4, <1>5, <1>6

\* An account is left the secrets it had but those referred to and no longer
\* named, and gets those that are named.
LEMMA AccountSecrets ==
  ASSUME NEW old, "pullSecrets" \in DOMAIN old, old.pullSecrets \in Lists,
         NEW s, s.pullSecrets \in Lists, NEW r, r.pullSecrets \in Lists
  PROVE  LET new == CustomizeServiceAccount(old, s, r)
         IN /\ new.pullSecrets \in Lists
            /\ ToSet(new.pullSecrets) =
                 (ToSet(old.pullSecrets) \ (ToSet(r.pullSecrets) \ ToSet(s.pullSecrets)))
                 \cup ToSet(s.pullSecrets)
<1> DEFINE dropped == SetDiff(r.pullSecrets, s.pullSecrets)
           kept    == SetDiff(old.pullSecrets, dropped)
           added   == SetDiff(s.pullSecrets, kept)
<1>1. ToSet(dropped) = ToSet(r.pullSecrets) \ ToSet(s.pullSecrets)
  BY SetDiffElements DEF Lists
<1>2. kept \in Lists /\ ToSet(kept) = ToSet(old.pullSecrets) \ ToSet(dropped)
  BY SetDiffElements DEF Lists
<1>3. added \in Lists /\ ToSet(added) = ToSet(s.pullSecrets) \ ToSet(kept)
  BY SetDiffElements DEF Lists
<1>4. CustomizeServiceAccount(old, s, r).pullSecrets = kept \o added
  <2>1. "pullSecrets" \in DOMAIN Labelled(old, s)
    BY LabelledFields
  <2> QED
    BY <2>1 DEF CustomizeServiceAccount
<1> HIDE DEF dropped, kept, added
<1>5. kept \o added \in Lists /\ ToSet(kept \o added) = ToSet(kept) \cup ToSet(added)
  BY <1>2, <1>3, ConcatElements
<1> QED
  BY <1>1, <1>2, <1>3, <1>4, <1>5

\* The defaults leave the pull secrets alone.
LEMMA PreparedSecrets ==
  ASSUME NEW s, DOMAIN s = DOMAIN EmptySpec, s.pullSecrets \in Lists
  PROVE  DOMAIN Prepared(s) = DOMAIN EmptySpec /\ Prepared(s).pullSecrets = s.pullSecrets
<1>1. "pullSecrets" \in DOMAIN s
  BY DEF EmptySpec
<1>2. DOMAIN Initialize(s) = DOMAIN s /\ Initialize(s).pullSecrets = s.pullSecrets
  BY <1>1 DEF Initialize
<1> QED
  BY <1>1, <1>2 DEF Prepared

\* The pull secrets named, referred to and had are lists.
Listed ==
  /\ DOMAIN spec = DOMAIN EmptySpec /\ spec.pullSecrets \in Lists
  /\ refs.pullSecrets \in Lists
  /\ pc # 0 => held.spec.pullSecrets \in Lists /\ held.refs.pullSecrets \in Lists
  /\ "ServiceAccount" \in Kinds /\ objects["ServiceAccount"] # Nil =>
       objects["ServiceAccount"].pullSecrets \in Lists

\* Initially the lists are those of the specification.
LEMMA ListedInit == Init => Listed
<1> SUFFICES ASSUME Init PROVE Listed
  OBVIOUS
<1>1. DOMAIN spec = DOMAIN EmptySpec /\ spec.pullSecrets \in Lists
  <2>1. tracked \in Tracks /\ spec \in Specs(tracked)
    BY DEF Init
  <2> QED
    BY <2>1, OwnedAssumption DEF OwnedAssumption, Lists
<1>2. refs.pullSecrets \in Lists /\ pc = 0
  <2>1. refs = NoReferences /\ pc = 0
    BY DEF Init
  <2>2. NoReferences.pullSecrets = <<>>
    BY DEF NoReferences
  <2>3. <<>> \in Lists
    BY DEF Lists
  <2> QED
    BY <2>1, <2>2, <2>3
<1>3. "ServiceAccount" \in Kinds => objects["ServiceAccount"] = Nil
  BY DEF Init
<1> QED
  BY <1>1, <1>2, <1>3 DEF Listed

\* What the reconcile leaves of an object and of the references in memory.
LEMMA Applied ==
  ASSUME Typed, Apply
  PROVE  LET object == IF Wanted(Kind, held.spec) THEN Result ELSE Nil
             r == Referring(Kind, held.spec, held.refs, object)
         IN /\ Kind \in Kinds /\ pc # 0 /\ pc' # 0
            /\ objects'[Kind] = object /\ \A k \in Kinds \ {Kind} : objects'[k] = objects[k]
            /\ held'.spec = held.spec /\ held'.edited = held.edited /\ held'.refs = r
            /\ UNCHANGED <<tracked, spec, refs, cluster, faults>> /\ Kinds' = Kinds
<1> DEFINE object == IF Wanted(Kind, held.spec) THEN Result ELSE Nil
           r == Referring(Kind, held.spec, held.refs, object)
<1>1. Kind \in Kinds /\ pc # 0 /\ pc' # 0
  BY UnderWay DEF Apply, Typed
<1>2. held' = [held EXCEPT !.refs = r] /\ objects' = [objects EXCEPT ![Kind] = object]
  BY DEF Apply
<1>3. UNCHANGED <<tracked, spec, refs, cluster, faults>> /\ Kinds' = Kinds
  BY DEF Apply, Kinds
<1>4. DOMAIN held = Memory /\ DOMAIN objects = Kinds
  BY <1>1 DEF Typed, TypeOK, Memory
<1> HIDE DEF object, r
<1>5. objects'[Kind] = object /\ \A k \in Kinds \ {Kind} : objects'[k] = objects[k]
  BY <1>1, <1>2, <1>4
<1>6. held'.spec = held.spec /\ held'.edited = held.edited /\ held'.refs = r
  BY <1>2, <1>4 DEF Memory
<1> QED
  BY <1>1, <1>3, <1>5, <1>6 DEF object, r

\* The account that is written.
LEMMA AccountWritten ==
  ASSUME Typed, Listed, AtObject, Kind = "ServiceAccount"
  PROVE  /\ Result.pullSecrets \in Lists
         /\ ToSet(Result.pullSecrets) =
              (ToSet(Starting.pullSecrets)
                 \ (ToSet(held.refs.pullSecrets) \ ToSet(held.spec.pullSecrets)))
              \cup ToSet(held.spec.pullSecrets)
         /\ Old = Nil => ToSet(Starting.pullSecrets) = {}
<1>1. Kind \in Kinds /\ pc # 0
  BY UnderWay DEF Typed
<1>2. /\ DOMAIN NewAccount = {"labels", "annotations", "pullSecrets"}
      /\ NewAccount.pullSecrets \in Lists /\ ToSet(NewAccount.pullSecrets) = {}
  BY DEF NewAccount, Lists, ToSet
<1>3. Empty(Kind) = NewAccount
  BY DEF Empty
<1>4. /\ "pullSecrets" \in DOMAIN Starting /\ Starting.pullSecrets \in Lists
      /\ Old = Nil => ToSet(Starting.pullSecrets) = {}
  <2>1. CASE Old = Nil
    BY <1>2, <1>3, <2>1 DEF Starting
  <2>2. CASE Old # Nil
    <3>1. DOMAIN Old = DOMAIN NewAccount /\ Old.pullSecrets \in Lists
      BY <1>1, <1>3, <2>2 DEF Typed, TypeOK, Listed, Old
    <3> QED
      BY <1>2, <2>2, <3>1 DEF Starting
  <2> QED
    BY <2>1, <2>2
<1>5. held.spec.pullSecrets \in Lists /\ held.refs.pullSecrets \in Lists
  BY <1>1 DEF Listed
<1>6. Result = CustomizeServiceAccount(Starting, held.spec, held.refs)
  BY DEF Result, Stored, Computed, Customize
<1> HIDE DEF Starting, Result
<1> QED
  BY <1>4, <1>5, <1>6, AccountSecrets

\* The references the reconcile has in memory are lists.
LEMMA ReferringListed ==
  ASSUME NEW kind, NEW s, s.pullSecrets \in Lists, NEW object,
         NEW r, DOMAIN r = DOMAIN NoReferences, r.pullSecrets \in Lists
  PROVE  Referring(kind, s, r, object).pullSecrets \in Lists
BY DEF Referring, Noted, NoReferences

\* The secrets a call that fails has noted are those of the specification.
LEMMA NotedSecrets ==
  ASSUME NEW kind, NEW s, NEW r, DOMAIN r = DOMAIN NoReferences
  PROVE  Noted(kind, s, r).pullSecrets \in {s.pullSecrets, r.pullSecrets}
BY DEF Noted, NoReferences

\* Others leave the secrets of an account alone, or add theirs.
LEMMA ChangedAccount ==
  ASSUME NEW o, DOMAIN o = {"labels", "annotations", "pullSecrets"},
         NEW c \in ChangedByOthers("ServiceAccount", o)
  PROVE  c.pullSecrets = o.pullSecrets \/ c.pullSecrets = Append(o.pullSecrets, ForeignSecret)
BY DEF ChangedByOthers

\* A list with that secret added to it.
LEMMA ForeignAdded ==
  ASSUME NEW x \in Lists
  PROVE  /\ Append(x, ForeignSecret) \in Lists
         /\ ToSet(Append(x, ForeignSecret)) = ToSet(x) \cup {ForeignSecret}
<1>1. Append(x, ForeignSecret) = x \o <<ForeignSecret>>
  BY DEF Lists
<1>2. <<ForeignSecret>> \in Lists /\ ToSet(<<ForeignSecret>>) = {ForeignSecret}
  <2>1. ForeignSecret \in SecretNames
    BY OwnedAssumption DEF OwnedAssumption
  <2>2. <<ForeignSecret>> \in Lists
    BY <2>1 DEF Lists
  <2>3. DOMAIN <<ForeignSecret>> = {1} /\ <<ForeignSecret>>[1] = ForeignSecret
    OBVIOUS
  <2> QED
    BY <2>2, <2>3 DEF ToSet
<1> QED
  BY <1>1, <1>2, ConcatElements

\* Every step keeps the lists lists.
LEMMA ListedNext == Typed /\ Listed /\ [Next]_vars => Listed'
<1> SUFFICES ASSUME Typed, Listed, [Next]_vars PROVE Listed'
  OBVIOUS
<1>0. pc # 0 => DOMAIN held = Memory /\ DOMAIN held.refs = DOMAIN NoReferences
  BY DEF Typed, TypeOK, Memory
<1>1. CASE Begin
  <2> DEFINE s == Prepared(spec)
             r == [refs EXCEPT !.certSecret = IF s.knative THEN @ ELSE CertReference(s),
                               !.image = s.image]
  <2>1. DOMAIN s = DOMAIN EmptySpec /\ s.pullSecrets \in Lists
    BY PreparedSecrets DEF Listed
  <2>2. r.pullSecrets = refs.pullSecrets
    BY DEF Typed, TypeOK, NoReferences
  <2>3. held'.spec = s /\ held'.refs = r /\ spec' = s
    BY <1>1 DEF Begin
  <2>4. UNCHANGED <<tracked, objects, refs>>
    BY <1>1 DEF Begin
  <2> HIDE DEF s, r
  <2> QED
    BY <2>1, <2>2, <2>3, <2>4 DEF Listed, Kinds
<1>2. CASE DeleteOldRoute
  <2>1. Kind \in Kinds /\ pc # 0
    BY <1>2, UnderWay DEF DeleteOldRoute, Typed
  <2>2. \A k \in Kinds : objects'[k] \in {objects[k], Nil}
    BY <1>2, <2>1 DEF DeleteOldRoute, Typed, TypeOK
  <2> QED
    BY <1>2, <2>2 DEF DeleteOldRoute, Listed, Kinds
<1>3. CASE Apply
  <2> DEFINE object == IF Wanted(Kind, held.spec) THEN Result ELSE Nil
             r == Referring(Kind, held.spec, held.refs, object)
  <2>1. /\ Kind \in Kinds /\ pc # 0
        /\ objects'[Kind] = object /\ \A k \in Kinds \ {Kind} : objects'[k] = objects[k]
        /\ held'.spec = held.spec /\ held'.refs = r
        /\ UNCHANGED <<spec, refs>> /\ Kinds' = Kinds
    BY <1>3, Applied
  <2>2. r.pullSecrets \in Lists
    BY <1>0, <2>1, ReferringListed DEF Listed
  <2>3. Kind = "ServiceAccount" /\ object # Nil => object.pullSecrets \in Lists
    BY <1>3, AccountWritten DEF Apply
  <2> HIDE DEF object, r
  <2> QED
    BY <2>1, <2>2, <2>3 DEF Listed
<1>4. CASE WriteStatus
  <2>1. pc # 0
    BY <1>4, KindsManaged DEF WriteStatus, Typed
  <2> QED
    BY <1>4, <2>1 DEF WriteStatus, Listed, Kinds
<1>5. CASE CannotApply \/ LeaveAlone \/ ApplyFails
  <2>1. pc # 0 /\ held'.spec = held.spec /\ UNCHANGED <<tracked, spec, objects, refs>>
    BY <1>5, UnderWay, FailureNoted DEF CannotApply, LeaveAlone, Typed
  <2>2. held'.refs.pullSecrets \in {held.spec.pullSecrets, held.refs.pullSecrets}
    BY <1>5, <2>1, NotedSecrets, FailureNoted DEF CannotApply, LeaveAlone, Typed, TypeOK
  <2> QED
    BY <2>1, <2>2 DEF Listed, Kinds
<1>6. CASE LoseStatus
  BY <1>6 DEF LoseStatus, Listed, Kinds
<1>7. CASE Edit
  <2>1. DOMAIN spec' = DOMAIN EmptySpec /\ spec'.pullSecrets \in Lists
    BY <1>7, OwnedAssumption DEF Edit, OwnedAssumption, Typed, Lists
  <2>2. pc # 0 => held'.spec = held.spec /\ held'.refs = held.refs
    BY <1>0, <1>7 DEF Edit, Memory
  <2>3. UNCHANGED <<tracked, objects, refs, pc>>
    BY <1>7 DEF Edit
  <2> QED
    BY <2>1, <2>2, <2>3 DEF Listed, Kinds
<1>8. CASE ClusterChanges \/ UNCHANGED vars
  <2>1. UNCHANGED <<tracked, spec, objects, refs, pc, held>>
    BY <1>8 DEF ClusterChanges, vars
  <2> QED
    BY <2>1 DEF Listed, Kinds
<1>9. CASE OthersChange
  <2> DEFINE kind == tracked[1]
  <2>1. kind \in Kinds
    BY KindsManaged DEF Kinds, Typed
  <2>2. PICK o \in ChangedByOthers(kind, objects[kind]) : objects' = [objects EXCEPT ![kind] = o]
    BY <1>9 DEF OthersChange
  <2>3. ASSUME kind = "ServiceAccount" PROVE o.pullSecrets \in Lists
    <3>1. objects[kind] # Nil /\ objects[kind].pullSecrets \in Lists
      BY <1>9, <2>1, <2>3 DEF OthersChange, Listed
    <3>2. DOMAIN objects[kind] = DOMAIN NewAccount
      BY <2>1, <2>3, <3>1 DEF Typed, TypeOK, Empty
    <3>3. DOMAIN objects[kind] = {"labels", "annotations", "pullSecrets"}
      BY <3>2 DEF NewAccount
    <3>4. Append(objects[kind].pullSecrets, ForeignSecret) \in Lists
      BY <3>1, ForeignAdded
    <3>5. \/ o.pullSecrets = objects[kind].pullSecrets
          \/ o.pullSecrets = Append(objects[kind].pullSecrets, ForeignSecret)
      BY <2>2, <2>3, <3>3, ChangedAccount
    <3> QED
      BY <3>1, <3>4, <3>5
  <2>4. UNCHANGED <<tracked, spec, refs, pc, held>> /\ Kinds' = Kinds
    BY <1>9 DEF OthersChange, Kinds
  <2>5. "ServiceAccount" \in Kinds /\ kind # "ServiceAccount"
        => objects'["ServiceAccount"] = objects["ServiceAccount"]
    BY <2>2 DEF Typed, TypeOK
  <2>6. kind = "ServiceAccount" => objects'["ServiceAccount"] = o /\ objects["ServiceAccount"] # Nil
    BY <1>9, <2>1, <2>2 DEF OthersChange, Typed, TypeOK
  <2> QED
    BY <2>3, <2>4, <2>5, <2>6 DEF Listed
<1>10. CASE OthersCreate \/ OthersDelete
  <2>1. /\ UNCHANGED <<tracked, spec, refs, pc>> /\ Kinds' = Kinds
        /\ pc # 0 => held'.spec = held.spec /\ held'.refs = held.refs
    BY <1>0, <1>10 DEF OthersCreate, OthersDelete, Kinds, Memory
  <2>2. "ServiceAccount" \in Kinds => objects'["ServiceAccount"] \in {objects["ServiceAccount"], Nil}
    BY <1>10 DEF OthersCreate, OthersDelete, Typed, TypeOK, Workloads
  <2> QED
    BY <2>1, <2>2 DEF Listed
<1> QED
  BY <1>1, <1>2, <1>3, <1>4, <1>5, <1>6, <1>7, <1>8, <1>9, <1>10
     DEF Next, Reconcile, Surroundings

\* So the lists are lists always.
LEMMA AlwaysListed == Spec => []Listed
BY ListedInit, ListedNext, AlwaysTyped, PTL DEF Spec
-----------------------------------------------------------------------------
(* The host of the Route.                                                  *)

\* What Apply makes of the host of a Route and of the reference to it.
LEMMA RouteWritten ==
  ASSUME Typed, Apply, Kind = "Route", Wanted(Kind, held.spec),
         NEW r, r = Referring(Kind, held.spec, held.refs, Result),
         Result # Nil, Recorded("Route", Old, held.refs)
  PROVE  Result.host \in {GeneratedHost, r.routeHost}
<1>1. Kind \in Kinds /\ pc # 0
  BY UnderWay DEF Apply, Typed
<1>2. DOMAIN held.refs = DOMAIN NoReferences
  BY <1>1 DEF Typed, TypeOK
<1>3. r.routeHost = RouteReference(held.spec, held.refs, cluster)
  BY <1>2 DEF Referring, Noted, NoReferences
<1>4. /\ DOMAIN NewRoute = {"labels", "annotations", "host", "path", "tls", "port"}
      /\ NewRoute.host = ""
  BY DEF NewRoute
<1>5. Empty(Kind) = NewRoute
  BY DEF Empty
<1>6. "host" \in DOMAIN Starting /\ (Old = Nil => Starting.host = "")
      /\ (Old # Nil => Starting = Old /\ Old.host \in {GeneratedHost, held.refs.routeHost})
  <2>1. Old # Nil => DOMAIN Old = DOMAIN NewRoute
    BY <1>1, <1>5 DEF Typed, TypeOK, Old
  <2> QED
    BY <1>4, <1>5, <2>1 DEF Starting, Recorded
<1>7. Computed = CustomizeRoute(Starting, held.spec, held.refs, cluster)
  BY DEF Computed, Customize
<1>8. /\ "host" \in DOMAIN Computed
      /\ Computed.host = IF held.spec.route # Nil THEN RequestedHost(held.spec, cluster)
                         ELSE Starting.host
  <2> HIDE DEF Starting, Computed
  <2>1. /\ DOMAIN Labelled(Starting, held.spec) = DOMAIN Starting
        /\ Labelled(Starting, held.spec).host = Starting.host
    BY <1>6 DEF Labelled
  <2> QED
    BY <1>6, <1>7, <2>1 DEF CustomizeRoute
<1>9. Result.host = IF Computed.host # "" THEN Computed.host
                    ELSE IF Old = Nil THEN GeneratedHost ELSE Old.host
  <2> HIDE DEF Computed
  <2> QED
    BY <1>8 DEF Result, Stored
<1>10. Old # Nil => ~ShouldDeleteRoute(held.spec, held.refs, cluster)
  BY DEF Apply, DeletesRoute
<1> HIDE DEF Starting, Computed, Result, Old
<1>11. CASE held.spec.route = Nil
  <2>1. r.routeHost = held.refs.routeHost /\ Computed.host = Starting.host
    BY <1>3, <1>8, <1>11 DEF RouteReference
  <2> QED
    BY <1>6, <1>9, <2>1
<1>12. CASE held.spec.route # Nil
  <2>1. r.routeHost = RequestedHost(held.spec, cluster) /\ Computed.host = r.routeHost
    BY <1>3, <1>8, <1>12 DEF RouteReference
  <2>2. Old # Nil /\ r.routeHost = "" => held.refs.routeHost = ""
    BY <1>10, <1>12, <2>1 DEF ShouldDeleteRoute
  <2> QED
    BY <1>6, <1>9, <2>1, <2>2
<1> QED
  BY <1>11, <1>12

\* The references a reconcile goes on with.
Current == IF pc = 0 THEN refs ELSE held.refs

\* Until a write fails or is lost, the resource is as the reconcile read it, and
\* what it will write into the status, or wrote, stands for the objects.
InStepUnlessLost ==
  faults = 0 => /\ pc # 0 => ~held.edited
                /\ \A k \in Kinds : Recorded(k, objects[k], Current)

\* Only the host and the pull secrets matter.
LEMMA RecordedSame ==
  ASSUME NEW k, NEW object, NEW r, NEW q, Recorded(k, object, r),
         q.routeHost = r.routeHost, q.pullSecrets = r.pullSecrets
  PROVE  Recorded(k, object, q)
BY DEF Recorded

\* An object that is gone refers to nothing.
LEMMA RecordedNothing ==
  ASSUME NEW k, NEW r
  PROVE  Recorded(k, Nil, r)
BY DEF Recorded

\* The other objects have no reference to keep.
LEMMA RecordedOthers ==
  ASSUME NEW k, k \notin {"Route", "ServiceAccount"}, NEW object, NEW r
  PROVE  Recorded(k, object, r)
BY DEF Recorded

\* What others do to an object leaves the references right.
LEMMA RecordedChanged ==
  ASSUME Typed, Listed, NEW kind \in Kinds, objects[kind] # Nil,
         NEW o \in ChangedByOthers(kind, objects[kind]),
         NEW r, Recorded(kind, objects[kind], r)
  PROVE  Recorded(kind, o, r)
<1>1. CASE kind = "Route"
  <2>1. DOMAIN objects[kind] = DOMAIN NewRoute
    BY <1>1 DEF Typed, TypeOK, Empty
  <2>2. "host" \in DOMAIN objects[kind]
    BY <2>1 DEF NewRoute
  <2>3. o.host = objects[kind].host
    BY <1>1, <2>2 DEF ChangedByOthers
  <2> QED
    BY <1>1, <2>3 DEF Recorded
<1>2. CASE kind = "ServiceAccount"
  <2>1. DOMAIN objects[kind] = DOMAIN NewAccount
    BY <1>2 DEF Typed, TypeOK, Empty
  <2>2. DOMAIN objects[kind] = {"labels", "annotations", "pullSecrets"}
    BY <2>1 DEF NewAccount
  <2>3. \/ o.pullSecrets = objects[kind].pullSecrets
        \/ o.pullSecrets = Append(objects[kind].pullSecrets, ForeignSecret)
    BY <1>2, <2>2, ChangedAccount
  <2>4. objects[kind].pullSecrets \in Lists
    BY <1>2 DEF Listed
  <2>5. ToSet(o.pullSecrets) \subseteq ToSet(objects[kind].pullSecrets) \cup {ForeignSecret}
    BY <2>3, <2>4, ForeignAdded
  <2>6. ToSet(objects[kind].pullSecrets) \subseteq ToSet(r.pullSecrets) \cup {ForeignSecret}
    BY <1>2 DEF Recorded
  <2> QED
    BY <1>2, <2>5, <2>6 DEF Recorded
<1> QED
  BY <1>1, <1>2, RecordedOthers

\* Writing an object keeps the references in memory right.
LEMMA RecordedApplied ==
  ASSUME Typed, Listed, Apply, \A k \in Kinds : Recorded(k, objects[k], held.refs),
         NEW k \in Kinds
  PROVE  Recorded(k, objects'[k], held'.refs)
<1> DEFINE object == IF Wanted(Kind, held.spec) THEN Result ELSE Nil
           r == Referring(Kind, held.spec, held.refs, object)
<1>1. /\ Kind \in Kinds /\ pc # 0 /\ AtObject
      /\ objects'[Kind] = object /\ \A q \in Kinds \ {Kind} : objects'[q] = objects[q]
      /\ held'.refs = r
  BY Applied DEF Apply
<1>2. DOMAIN held.refs = DOMAIN NoReferences
  BY <1>1 DEF Typed, TypeOK
<1>3. CASE k = Kind /\ Kind = "Route"
  <2>1. CASE object = Nil
    BY <1>1, <1>3, <2>1, RecordedNothing
  <2>2. CASE object # Nil
    <3>1. Wanted(Kind, held.spec) /\ object = Result /\ Result # Nil
      BY <2>2
    <3>2. Recorded("Route", Old, held.refs)
      BY <1>1, <1>3 DEF Old
    <3>3. Result.host \in {GeneratedHost, r.routeHost}
      BY <1>3, <3>1, <3>2, RouteWritten
    <3> QED
      BY <1>1, <1>3, <3>1, <3>3 DEF Recorded
  <2> QED
    BY <2>1, <2>2
<1>4. CASE k = Kind /\ Kind = "ServiceAccount"
  <2>1. CASE object = Nil
    BY <1>1, <1>4, <2>1, RecordedNothing
  <2>2. CASE object # Nil
    <3>1. object = Result
      BY <2>2
    <3>2. r.pullSecrets = held.spec.pullSecrets
      BY <1>2, <1>4, <2>2 DEF Referring, Noted, NoReferences
    <3>3. Old # Nil => ToSet(Old.pullSecrets) \subseteq ToSet(held.refs.pullSecrets) \cup {ForeignSecret}
      BY <1>1, <1>4 DEF Old, Recorded
    <3>4. ToSet(Starting.pullSecrets) \subseteq ToSet(held.refs.pullSecrets) \cup {ForeignSecret}
      <4>1. CASE Old = Nil
        BY <1>1, <1>4, <4>1, AccountWritten
      <4>2. CASE Old # Nil
        BY <3>3, <4>2 DEF Starting
      <4> QED
        BY <4>1, <4>2
    <3>5. ToSet(Result.pullSecrets) =
             (ToSet(Starting.pullSecrets)
                \ (ToSet(held.refs.pullSecrets) \ ToSet(held.spec.pullSecrets)))
             \cup ToSet(held.spec.pullSecrets)
      BY <1>1, <1>4, AccountWritten
    <3> HIDE DEF Starting, Result
    <3>6. ToSet(Result.pullSecrets) \subseteq ToSet(r.pullSecrets) \cup {ForeignSecret}
      BY <3>2, <3>4, <3>5
    <3> QED
      BY <1>1, <1>4, <3>1, <3>6 DEF Recorded
  <2> QED
    BY <2>1, <2>2
<1>5. CASE k = Kind /\ Kind \notin {"Route", "ServiceAccount"}
  BY <1>5, RecordedOthers
<1>6. CASE k # Kind
  <2>1. objects'[k] = objects[k] /\ Recorded(k, objects[k], held.refs)
    BY <1>1, <1>6
  <2>2. CASE k = "Route"
    <3>1. r.routeHost = held.refs.routeHost
      BY <1>2, <1>6, <2>2 DEF Referring, Noted, NoReferences
    <3> HIDE DEF r
    <3> QED
      BY <1>1, <2>1, <2>2, <3>1 DEF Recorded
  <2>3. CASE k = "ServiceAccount"
    <3>1. r.pullSecrets = held.refs.pullSecrets
      BY <1>2, <1>6, <2>3 DEF Referring, Noted, NoReferences
    <3> HIDE DEF r
    <3> QED
      BY <1>1, <2>1, <2>3, <3>1 DEF Recorded
  <2> QED
    BY <2>2, <2>3, RecordedOthers
<1> QED
  BY <1>3, <1>4, <1>5, <1>6

\* Every step keeps them in step.
LEMMA InStepNext ==
  Typed /\ Listed /\ InStepUnlessLost /\ [Next]_vars => InStepUnlessLost'
<1> SUFFICES ASSUME Typed, Listed, InStepUnlessLost, [Next]_vars, faults' = 0
             PROVE  /\ pc' # 0 => ~held'.edited
                    /\ \A k \in Kinds' : Recorded(k, objects'[k], Current')
  BY DEF InStepUnlessLost
<1>0. /\ pc # 0 => DOMAIN held = Memory /\ DOMAIN held.refs = DOMAIN NoReferences
      /\ DOMAIN refs = DOMAIN NoReferences /\ DOMAIN objects = Kinds /\ faults \in Nat
  BY OwnedAssumption DEF Typed, TypeOK, Memory, OwnedAssumption
<1>1. faults = 0 => /\ pc # 0 => ~held.edited
                    /\ \A k \in Kinds : Recorded(k, objects[k], Current)
  BY DEF InStepUnlessLost
<1>2. CASE Begin
  <2> DEFINE r == [refs EXCEPT !.certSecret = IF Prepared(spec).knative THEN @
                                                   ELSE CertReference(Prepared(spec)),
                               !.image = Prepared(spec).image]
  <2>1. r.routeHost = refs.routeHost /\ r.pullSecrets = refs.pullSecrets
    BY <1>0 DEF NoReferences
  <2>2. pc = 0 /\ pc' = 1 /\ held'.refs = r /\ ~held'.edited
        /\ UNCHANGED <<tracked, objects, faults>>
    BY <1>2 DEF Begin
  <2> HIDE DEF r
  <2>3. \A k \in Kinds : Recorded(k, objects[k], refs)
    BY <1>1, <2>2 DEF Current
  <2>4. \A k \in Kinds : Recorded(k, objects[k], r)
    BY <2>1, <2>3, RecordedSame
  <2> QED
    BY <2>2, <2>4 DEF Current, Kinds
<1>3. CASE DeleteOldRoute
  <2>1. /\ pc # 0 /\ Kind \in Kinds /\ objects' = [objects EXCEPT ![Kind] = Nil]
        /\ UNCHANGED <<tracked, refs, pc, held, faults>>
    BY <1>3, UnderWay DEF DeleteOldRoute, Typed
  <2>2. \A k \in Kinds : objects'[k] \in {objects[k], Nil}
    BY <1>0, <2>1
  <2> QED
    BY <1>1, <2>1, <2>2, RecordedNothing DEF Current, Kinds
<1>4. CASE Apply
  <2>1. /\ pc # 0 /\ pc' # 0 /\ held'.edited = held.edited /\ Kinds' = Kinds
        /\ faults' = faults
    BY <1>4, Applied
  <2>2. \A k \in Kinds : Recorded(k, objects[k], held.refs)
    BY <1>1, <2>1 DEF Current
  <2>3. \A k \in Kinds : Recorded(k, objects'[k], held'.refs)
    BY <1>4, <2>2, RecordedApplied
  <2> QED
    BY <1>1, <2>1, <2>3 DEF Current
<1>5. CASE WriteStatus
  <2>1. pc # 0 /\ pc' = 0 /\ UNCHANGED <<tracked, objects, faults>>
    BY <1>5, KindsManaged DEF WriteStatus, Typed
  <2>2. refs' = held.refs
    BY <1>1, <1>5, <2>1 DEF WriteStatus
  <2> QED
    BY <1>1, <2>1, <2>2 DEF Current, Kinds
<1>6. CASE CannotApply \/ LeaveAlone
  <2>1. pc # 0 /\ pc' # 0 /\ UNCHANGED <<tracked, objects, refs, held, faults>>
    BY <1>6, UnderWay DEF CannotApply, LeaveAlone, Typed
  <2> QED
    BY <1>1, <2>1 DEF Current, Kinds
<1>7. CASE ApplyFails \/ LoseStatus
  BY <1>0, <1>7 DEF ApplyFails, LoseStatus
<1>8. CASE Edit
  <2>1. pc = 0 /\ UNCHANGED <<tracked, objects, refs, pc, held, faults>>
    BY <1>0, <1>8 DEF Edit
  <2> QED
    BY <1>1, <2>1 DEF Current, Kinds
<1>9. CASE ClusterChanges \/ UNCHANGED vars
  <2>1. UNCHANGED <<tracked, objects, refs, pc, held, faults>>
    BY <1>9 DEF ClusterChanges, vars
  <2> QED
    BY <1>1, <2>1 DEF Current, Kinds
<1>10. CASE OthersChange
  <2> DEFINE kind == tracked[1]
  <2>1. kind \in Kinds
    BY KindsManaged DEF Kinds, Typed
  <2>2. /\ UNCHANGED <<tracked, refs, pc, held, faults>> /\ objects[kind] # Nil
        /\ \E o \in ChangedByOthers(kind, objects[kind]) :
             objects' = [objects EXCEPT ![kind] = o]
    BY <1>10 DEF OthersChange
  <2> HIDE DEF kind
  <2>3. PICK o \in ChangedByOthers(kind, objects[kind]) : objects' = [objects EXCEPT ![kind] = o]
    BY <2>2
  <2>4. Recorded(kind, o, Current)
    BY <1>1, <2>1, <2>2, RecordedChanged
  <2>5. \A k \in Kinds : Recorded(k, objects'[k], Current)
    BY <1>0, <1>1, <2>1, <2>2, <2>3, <2>4
  <2> QED
    BY <1>1, <2>2, <2>5 DEF Current, Kinds
<1>11. CASE OthersCreate
  <2>1. PICK kind \in Kinds \cap Workloads :
           /\ objects' = [objects EXCEPT ![kind] = Empty(kind)]
           /\ held' = IF pc = 0 THEN held ELSE [held EXCEPT !.appeared = @ \cup {kind}]
           /\ UNCHANGED <<tracked, spec, refs, cluster, pc, faults>>
    BY <1>11 DEF OthersCreate
  <2>2. kind \notin {"Route", "ServiceAccount"}
    BY DEF Workloads
  <2>3. pc # 0 => held'.refs = held.refs /\ held'.edited = held.edited
    BY <1>0, <2>1 DEF Memory
  <2>4. \A k \in Kinds : Recorded(k, objects'[k], Current)
    BY <1>0, <1>1, <2>1, <2>2, RecordedOthers
  <2>5. Kinds' = Kinds /\ Current' = Current
    BY <2>1, <2>3 DEF Kinds, Current
  <2> QED
    BY <1>1, <2>1, <2>3, <2>4, <2>5
<1>12. CASE OthersDelete
  <2>1. PICK kind \in others : /\ objects' = [objects EXCEPT ![kind] = Nil]
                               /\ UNCHANGED <<tracked, spec, refs, cluster, pc, held, faults>>
    BY <1>12 DEF OthersDelete
  <2>2. \A k \in Kinds : objects'[k] \in {objects[k], Nil}
    BY <1>0, <2>1
  <2> QED
    BY <1>1, <2>1, <2>2, RecordedNothing DEF Current, Kinds
<1> QED
  BY <1>2, <1>3, <1>4, <1>5, <1>6, <1>7, <1>8, <1>9, <1>10, <1>11, <1>12
     DEF Next, Reconcile, Surroundings

\* As long as no write is lost and nobody edits the resource during a reconcile,
\* the references in the status are in step with the objects they stand for.
THEOREM RecordedCorrect == Spec => []RecordedUnlessLost
<1>1. Init => InStepUnlessLost
  BY RecordedNothing DEF Init, InStepUnlessLost
<1>2. InStepUnlessLost => RecordedUnlessLost
  BY DEF InStepUnlessLost, RecordedUnlessLost, Current
<1> QED
  BY <1>1, <1>2, InStepNext, AlwaysTyped, AlwaysListed, PTL DEF Spec

-----------------------------------------------------------------------------
(* What others put into the objects.                                       *)

\* Merging or setting a key only adds keys, and leaving some out takes no other.
LEMMA KeysKept ==
  /\ \A a, b : \A k \in DOMAIN a : k \in DOMAIN MergeMaps(a, b)
  /\ \A a, key, value : \A k \in DOMAIN a : k \in DOMAIN With(a, key, value)
  /\ \A a, keys : \A k \in DOMAIN a : k \notin keys => k \in DOMAIN Without(a, keys)
BY DEF MergeMaps, With, Without, Restrict

\* The annotations a Knative Service gets ...
LEMMA KnativeAnnotations ==
  ASSUME NEW old, NEW s, NEW r, "annotations" \in DOMAIN Labelled(old, s)
  PROVE  CustomizeKnativeService(old, s, r).annotations
           = filterMerge(KnativeAutoscaling, old.annotations, GetAnnotations(s))
BY DEF CustomizeKnativeService

\* ... a Service ...
LEMMA ServiceAnnotations ==
  ASSUME NEW old, NEW s, NEW headless, "annotations" \in DOMAIN Labelled(old, s)
  PROVE  CustomizeService(old, s, headless).annotations
           = MergeMaps(CustomizeServiceAnnotations(old.annotations, s.disableTopologyRouting),
                       GetAnnotations(s))
BY DEF CustomizeService

\* ... and a headless one.
LEMMA HeadlessAnnotations ==
  ASSUME NEW old, NEW s, "annotations" \in DOMAIN CustomizeService(old, s, TRUE)
  PROVE  HeadlessService(old, s).annotations = CustomizeService(old, s, TRUE).annotations
BY DEF HeadlessService

\* The annotations of an object that is customized keep the key of others.
LEMMA KeyKept ==
  ASSUME NEW kind \in ManagedKinds, NEW old, "annotations" \in DOMAIN old,
         DOMAIN old = DOMAIN Empty(kind),
         ForeignKey \in DOMAIN old.annotations,
         NEW s, NEW r
  PROVE  ForeignKey \in DOMAIN Customize(kind, old, s, r).annotations
<1>1. /\ "annotations" \in DOMAIN Labelled(old, s)
      /\ ForeignKey \in DOMAIN Labelled(old, s).annotations
  BY KeysKept DEF Labelled
<1>2. \A a : DOMAIN old.annotations \subseteq DOMAIN MergeMaps(MergeMaps(old.annotations, GetAnnotations(s)), a)
  BY KeysKept
<1>3. DOMAIN Labelled(old, s) = DOMAIN old
  BY LabelledFields
<1>4. CASE kind = "ServiceAccount"
  BY <1>1, <1>4 DEF Customize, CustomizeServiceAccount
<1>5. CASE kind = "KnativeService"
  <2>1. ForeignKey \notin KnativeAutoscaling
    BY DEF ForeignKey, KnativeAutoscaling
  <2>2. ForeignKey \in DOMAIN filterMerge(KnativeAutoscaling, old.annotations, GetAnnotations(s))
    <3>1. ForeignKey \in DOMAIN MergeMaps(old.annotations, GetAnnotations(s))
      BY KeysKept
    <3>2. ForeignKey \in DOMAIN Without(MergeMaps(old.annotations, GetAnnotations(s)), KnativeAutoscaling)
      BY <2>1, <3>1, KeysKept
    <3> QED
      BY <3>2 DEF filterMerge
  <2>3. CustomizeKnativeService(old, s, r).annotations
          = filterMerge(KnativeAutoscaling, old.annotations, GetAnnotations(s))
    BY <1>1, KnativeAnnotations
  <2> QED
    BY <1>5, <2>2, <2>3 DEF Customize
<1>6. CASE kind = "BindingSecret"
  BY <1>1, <1>6 DEF Customize, CustomizeBinding
<1>7. \A headless \in BOOLEAN :
        /\ DOMAIN CustomizeService(old, s, headless) = DOMAIN old
        /\ ForeignKey \in DOMAIN CustomizeService(old, s, headless).annotations
  <2> TAKE headless \in BOOLEAN
  <2> DEFINE hints == CustomizeServiceAnnotations(old.annotations, s.disableTopologyRouting)
  <2>1. ForeignKey \in DOMAIN hints
    BY KeysKept DEF CustomizeServiceAnnotations, ForeignKey
  <2>2. DOMAIN CustomizeService(old, s, headless) = DOMAIN old
    BY <1>3 DEF CustomizeService
  <2>3. CustomizeService(old, s, headless).annotations = MergeMaps(hints, GetAnnotations(s))
    BY <1>1, ServiceAnnotations
  <2> HIDE DEF hints
  <2> QED
    BY <2>1, <2>2, <2>3, KeysKept
<1>8. CASE kind = "Service"
  <2> DEFINE svc == CustomizeService(old, s, FALSE)
             a == MergeMaps(svc.annotations, s.service.annotations)
  <2>1. DOMAIN svc = DOMAIN old /\ ForeignKey \in DOMAIN svc.annotations
    BY <1>7
  <2> HIDE DEF svc
  <2>2. ForeignKey \in DOMAIN a
    BY <2>1, KeysKept
  <2> HIDE DEF a
  <2>3. ForeignKey \in DOMAIN AddOCPCertAnnotation(a, s)
    BY <2>2, KeysKept DEF AddOCPCertAnnotation, ForeignKey, CertName
  <2>4. ReconciledService(old, s, cluster).annotations \in {a, AddOCPCertAnnotation(a, s)}
    BY <2>1 DEF ReconciledService, svc, a
  <2> QED
    BY <1>8, <2>2, <2>3, <2>4 DEF Customize
<1>9. CASE kind = "Headless"
  <2>1. HeadlessService(old, s).annotations = CustomizeService(old, s, TRUE).annotations
    BY <1>7, HeadlessAnnotations
  <2> QED
    BY <1>7, <1>9, <2>1 DEF Customize
<1>10. CASE kind = "NetworkPolicy"
  BY <1>1, <1>10 DEF Customize, CustomizeNetworkPolicy
<1>11. \A section : /\ DOMAIN Workload(old, s, r, cluster, section) = DOMAIN old
                    /\ ForeignKey \in DOMAIN Workload(old, s, r, cluster, section).annotations
  <2> TAKE section
  <2> DEFINE a == IF section = Nil THEN EmptyMap ELSE section.annotations
  <2>1. DOMAIN Workload(old, s, r, cluster, section) = DOMAIN old
    BY <1>3 DEF Workload
  <2>2. ForeignKey \in DOMAIN MergeMaps(MergeMaps(Labelled(old, s).annotations, GetAnnotations(s)), a)
    BY <1>1, KeysKept
  <2>3. Workload(old, s, r, cluster, section).annotations
          = MergeMaps(MergeMaps(Labelled(old, s).annotations, GetAnnotations(s)), a)
    BY <1>1, <1>3 DEF Workload
  <2> QED
    BY <2>1, <2>2, <2>3
<1>12. CASE kind = "StatefulSet"
  <2> DEFINE sts == Workload(old, s, r, cluster, s.statefulSet)
  <2>1. "annotations" \in DOMAIN sts /\ ForeignKey \in DOMAIN sts.annotations
    BY <1>11
  <2> HIDE DEF sts
  <2>2. CustomizePersistence(sts, s).annotations = sts.annotations
    BY <2>1 DEF CustomizePersistence
  <2> QED
    BY <1>12, <2>1, <2>2 DEF Customize, CustomizeStatefulSet, sts
<1>13. CASE kind = "Deployment"
  BY <1>11, <1>13 DEF Customize, CustomizeDeployment
<1>14. CASE kind = "HPA"
  BY <1>1, <1>14 DEF Customize, CustomizeHPA
<1>15. CASE kind = "Route"
  <2> DEFINE a == MergeMaps(old.annotations, GetAnnotations(s))
  <2>1. ForeignKey \in DOMAIN a /\ ForeignKey \in DOMAIN MergeMaps(a, s.route.annotations)
    BY KeysKept
  <2> HIDE DEF a
  <2>2. CustomizeRoute(old, s, r, cluster).annotations \in {a, MergeMaps(a, s.route.annotations)}
    BY <1>1 DEF CustomizeRoute, a
  <2> QED
    BY <1>15, <2>1, <2>2 DEF Customize
<1>16. CASE kind = "Ingress"
  <2> DEFINE given == IF s.route = Nil THEN EmptyMap ELSE s.route["annotations"]
  <2>1. ForeignKey \in DOMAIN MergeMaps(MergeMaps(Labelled(old, s).annotations, GetAnnotations(s)), given)
    BY <1>1, KeysKept
  <2>2. CustomizeIngress(old, s, cluster).annotations
          = MergeMaps(MergeMaps(Labelled(old, s).annotations, GetAnnotations(s)), given)
    BY <1>1 DEF CustomizeIngress
  <2> QED
    BY <1>16, <2>1, <2>2 DEF Customize
<1>17. CASE kind = "ServiceMonitor"
  BY <1>1, <1>17 DEF Customize, CustomizeServiceMonitor
<1> QED
  BY <1>4, <1>5, <1>6, <1>8, <1>9, <1>10, <1>12, <1>13, <1>14, <1>15, <1>16, <1>17 DEF ManagedKinds

\* What the API server makes of an object leaves its annotations alone, its
\* secrets and its replicas.
LEMMA StoredRest ==
  ASSUME NEW kind, NEW old, NEW new
  PROVE  /\ "annotations" \in DOMAIN new =>
              Stored(kind, old, new).annotations = new.annotations
         /\ kind \in {"Deployment", "StatefulSet"} => Stored(kind, old, new) = new
BY DEF Stored

\* With autoscaling a workload keeps its replicas.
LEMMA ReplicasKept ==
  ASSUME NEW kind \in {"Deployment", "StatefulSet"}, NEW old, "replicas" \in DOMAIN old,
         NEW s, s.autoscaling # Nil, NEW r
  PROVE  Customize(kind, old, s, r).replicas = old.replicas
<1>1. \A section : /\ "replicas" \in DOMAIN Workload(old, s, r, cluster, section)
                   /\ Workload(old, s, r, cluster, section).replicas = old.replicas
  <2> TAKE section
  <2>1. "replicas" \in DOMAIN Labelled(old, s) /\ Labelled(old, s).replicas = old.replicas
    BY DEF Labelled
  <2>2. DOMAIN Workload(old, s, r, cluster, section) = DOMAIN Labelled(old, s)
    BY DEF Workload
  <2>3. Workload(old, s, r, cluster, section).replicas = Replicas(old.replicas, s)
    BY <2>1 DEF Workload
  <2>4. Replicas(old.replicas, s) = old.replicas
    BY DEF Replicas
  <2> QED
    BY <2>1, <2>2, <2>3, <2>4
<1>2. CASE kind = "Deployment"
  BY <1>1, <1>2 DEF Customize, CustomizeDeployment
<1>3. CASE kind = "StatefulSet"
  <2> DEFINE sts == Workload(old, s, r, cluster, s.statefulSet)
  <2>1. "replicas" \in DOMAIN sts /\ sts.replicas = old.replicas
    BY <1>1
  <2> HIDE DEF sts
  <2>2. CustomizePersistence(sts, s).replicas = sts.replicas
    BY <2>1 DEF CustomizePersistence
  <2> QED
    BY <1>3, <2>1, <2>2 DEF Customize, CustomizeStatefulSet, sts
<1> QED
  BY <1>2, <1>3

\* The secret of others is in no specification, and so in no reference.
SecretOfOthers == \A t \in Tracks : \A s \in Specs(t) : ForeignSecret \notin ToSet(s.pullSecrets)

Unnamed ==
  /\ ForeignSecret \notin ToSet(spec.pullSecrets)
  /\ ForeignSecret \notin ToSet(refs.pullSecrets)
  /\ pc # 0 => /\ ForeignSecret \notin ToSet(held.spec.pullSecrets)
               /\ ForeignSecret \notin ToSet(held.refs.pullSecrets)

\* Every step keeps it out of them.
LEMMA UnnamedNext ==
  ASSUME SecretOfOthers
  PROVE  Typed /\ Listed /\ Unnamed /\ [Next]_vars => Unnamed'
<1> SUFFICES ASSUME Typed, Listed, Unnamed, [Next]_vars PROVE Unnamed'
  OBVIOUS
<1>0. pc # 0 => DOMAIN held = Memory /\ DOMAIN held.refs = DOMAIN NoReferences
  BY DEF Typed, TypeOK, Memory
<1>1. CASE Begin
  <2> DEFINE s == Prepared(spec)
             r == [refs EXCEPT !.certSecret = IF s.knative THEN @ ELSE CertReference(s),
                               !.image = s.image]
  <2>1. s.pullSecrets = spec.pullSecrets
    BY PreparedSecrets DEF Listed
  <2>2. r.pullSecrets = refs.pullSecrets
    BY DEF Typed, TypeOK, NoReferences
  <2>3. held'.spec = s /\ held'.refs = r /\ spec' = s /\ refs' = refs
    BY <1>1 DEF Begin
  <2> HIDE DEF s, r
  <2> QED
    BY <2>1, <2>2, <2>3 DEF Unnamed
<1>2. CASE Apply
  <2> DEFINE object == IF Wanted(Kind, held.spec) THEN Result ELSE Nil
             r == Referring(Kind, held.spec, held.refs, object)
  <2>1. pc # 0 /\ held'.spec = held.spec /\ held'.refs = r /\ UNCHANGED <<spec, refs>>
    BY <1>2, Applied
  <2>2. r.pullSecrets \in {held.spec.pullSecrets, held.refs.pullSecrets}
    BY <1>0, <2>1 DEF Referring, Noted, NoReferences
  <2> HIDE DEF r
  <2> QED
    BY <2>1, <2>2 DEF Unnamed
<1>3. CASE WriteStatus
  <2>1. pc # 0 /\ pc' = 0 /\ spec' = spec /\ refs' \in {refs, held.refs}
    BY <1>3, KindsManaged DEF WriteStatus, Typed
  <2> QED
    BY <2>1 DEF Unnamed
<1>4. CASE DeleteOldRoute \/ CannotApply \/ LeaveAlone \/ ApplyFails
  <2>1. pc # 0 /\ held'.spec = held.spec /\ UNCHANGED <<spec, refs>>
    BY <1>4, UnderWay, FailureNoted DEF DeleteOldRoute, CannotApply, LeaveAlone, Typed
  <2>2. held'.refs.pullSecrets \in {held.spec.pullSecrets, held.refs.pullSecrets}
    BY <1>4, <2>1, NotedSecrets, FailureNoted
       DEF DeleteOldRoute, CannotApply, LeaveAlone, Typed, TypeOK
  <2> QED
    BY <2>1, <2>2 DEF Unnamed
<1>5. CASE LoseStatus
  BY <1>5 DEF LoseStatus, Unnamed
<1>6. CASE Edit
  <2>1. ForeignSecret \notin ToSet(spec'.pullSecrets)
    BY <1>6 DEF Edit, SecretOfOthers, Typed
  <2>2. pc # 0 => held'.spec = held.spec /\ held'.refs = held.refs
    BY <1>0, <1>6 DEF Edit, Memory
  <2>3. UNCHANGED <<refs, pc>>
    BY <1>6 DEF Edit
  <2> QED
    BY <2>1, <2>2, <2>3 DEF Unnamed
<1>7. CASE ClusterChanges \/ OthersChange \/ OthersDelete \/ UNCHANGED vars
  <2>1. UNCHANGED <<spec, refs, pc, held>>
    BY <1>7 DEF ClusterChanges, OthersChange, OthersDelete, vars
  <2> QED
    BY <2>1 DEF Unnamed
<1>8. CASE OthersCreate
  <2>1. UNCHANGED <<spec, refs, pc>> /\ (pc # 0 => held'.spec = held.spec /\ held'.refs = held.refs)
    BY <1>0, <1>8 DEF OthersCreate, Memory
  <2> QED
    BY <2>1 DEF Unnamed
<1> QED
  BY <1>1, <1>2, <1>3, <1>4, <1>5, <1>6, <1>7, <1>8 DEF Next, Reconcile, Surroundings

\* The object a reconcile writes has what others put into the one it found.
LEMMA KeptApplied ==
  ASSUME Typed, Listed, Unnamed, Apply, Wanted(Kind, held.spec), Old # Nil
  PROVE  /\ ForeignKey \in DOMAIN Old.annotations => ForeignKey \in DOMAIN Result.annotations
         /\ Kind = "ServiceAccount" /\ ForeignSecret \in ToSet(Old.pullSecrets) =>
              ForeignSecret \in ToSet(Result.pullSecrets)
         /\ Kind \in {"Deployment", "StatefulSet"} /\ held.spec.autoscaling # Nil =>
              Result.replicas = Old.replicas
<1>1. Kind \in Kinds /\ Kind \in ManagedKinds /\ pc # 0 /\ AtObject
  BY UnderWay DEF Apply, Typed
<1>2. DOMAIN Old = DOMAIN Empty(Kind) /\ Starting = Old
  BY <1>1 DEF Old, Starting, Typed, TypeOK
<1>3. "annotations" \in DOMAIN Empty(Kind)
        /\ (Kind \in {"Deployment", "StatefulSet"} => "replicas" \in DOMAIN Empty(Kind))
  BY <1>1 DEF ManagedKinds, Empty, NewAccount, NewKnative, NewBinding, NewPolicy, NewStatefulSet,
     NewDeployment, NewHPA, NewRoute, NewIngress, NewMonitor, NewService
<1>4. Computed = Customize(Kind, Old, held.spec, held.refs) /\ DOMAIN Computed = DOMAIN Old
  BY <1>1, <1>2, CustomizedFields DEF Computed
<1>5. ASSUME ForeignKey \in DOMAIN Old.annotations PROVE ForeignKey \in DOMAIN Result.annotations
  <2>1. ForeignKey \in DOMAIN Computed.annotations
    BY <1>1, <1>2, <1>3, <1>4, <1>5, KeyKept
  <2>2. Result.annotations = Computed.annotations
    BY <1>2, <1>3, <1>4, StoredRest DEF Result
  <2> QED
    BY <2>1, <2>2
<1>6. ASSUME Kind = "ServiceAccount", ForeignSecret \in ToSet(Old.pullSecrets)
      PROVE  ForeignSecret \in ToSet(Result.pullSecrets)
  <2>1. ToSet(Result.pullSecrets) =
           (ToSet(Starting.pullSecrets)
              \ (ToSet(held.refs.pullSecrets) \ ToSet(held.spec.pullSecrets)))
           \cup ToSet(held.spec.pullSecrets)
    BY <1>1, <1>6, AccountWritten
  <2>2. ForeignSecret \notin ToSet(held.refs.pullSecrets)
    BY <1>1 DEF Unnamed
  <2> HIDE DEF Result, Starting, Old
  <2> QED
    BY <1>2, <1>6, <2>1, <2>2
<1>7. ASSUME Kind \in {"Deployment", "StatefulSet"}, held.spec.autoscaling # Nil
      PROVE  Result.replicas = Old.replicas
  <2>1. Result = Computed
    BY <1>7, StoredRest DEF Result
  <2>2. "replicas" \in DOMAIN Old
    BY <1>2, <1>3, <1>7
  <2> QED
    BY <1>4, <1>7, <2>1, <2>2, ReplicasKept
<1> QED
  BY <1>5, <1>6, <1>7

\* An update keeps what others have put into the object: their annotations, their
\* pull secrets, when no specification names them, and the number of replicas the
\* Autoscaler has chosen.
THEOREM OthersAreKept ==
  ASSUME SecretOfOthers
  PROVE  Spec => OthersKept
<1>1. Init => Unnamed
  <2> SUFFICES ASSUME Init PROVE Unnamed
    OBVIOUS
  <2>1. tracked \in Tracks /\ spec \in Specs(tracked) /\ refs = NoReferences /\ pc = 0
    BY DEF Init
  <2>2. ToSet(NoReferences.pullSecrets) = {}
    BY DEF NoReferences, ToSet
  <2> QED
    BY <2>1, <2>2 DEF Unnamed, SecretOfOthers
<1>2. Spec => []Unnamed
  BY <1>1, UnnamedNext, AlwaysTyped, AlwaysListed, PTL DEF Spec
<1>3. Typed /\ Listed /\ Unnamed /\ [Next]_vars =>
        [\A kind \in Kinds :
           Applies(kind) /\ objects[kind] # Nil =>
             LET old == objects[kind]  new == objects'[kind]
             IN /\ ForeignKey \in DOMAIN old.annotations => ForeignKey \in DOMAIN new.annotations
                /\ kind = "ServiceAccount" /\ ForeignSecret \in ToSet(old.pullSecrets) =>
                     ForeignSecret \in ToSet(new.pullSecrets)
                /\ kind \in {"Deployment", "StatefulSet"} /\ held.spec.autoscaling # Nil =>
                     new.replicas = old.replicas]_vars
  <2> SUFFICES ASSUME Typed, Listed, Unnamed, NEW kind \in Kinds, Applies(kind), objects[kind] # Nil
               PROVE  LET old == objects[kind]  new == objects'[kind]
                      IN /\ ForeignKey \in DOMAIN old.annotations => ForeignKey \in DOMAIN new.annotations
                         /\ kind = "ServiceAccount" /\ ForeignSecret \in ToSet(old.pullSecrets) =>
                              ForeignSecret \in ToSet(new.pullSecrets)
                         /\ kind \in {"Deployment", "StatefulSet"} /\ held.spec.autoscaling # Nil =>
                              new.replicas = old.replicas
    OBVIOUS
  <2>1. Apply /\ Kind = kind /\ Wanted(Kind, held.spec) /\ Old = objects[kind] /\ Old # Nil
    BY DEF Applies, Old
  <2>2. objects'[kind] = Result
    BY <2>1, Applied
  <2> QED
    BY <2>1, <2>2, KeptApplied
<1> QED
  BY <1>2, <1>3, AlwaysTyped, AlwaysListed, PTL DEF Spec, OthersKept

-----------------------------------------------------------------------------
(* Specifications and lists.                                               *)

\* A specification as users write it, and with its defaults.
Specified(s) ==
  /\ DOMAIN s = DOMAIN EmptySpec /\ IsList(s.mounts)
  /\ s.service # Nil => DOMAIN s.service = DOMAIN NoService /\ IsList(s.service.ports)

Defaulted(s) ==
  /\ DOMAIN s = DOMAIN EmptySpec /\ IsList(s.mounts)
  /\ DOMAIN s.service = DOMAIN NoService /\ IsList(s.service.ports)
  /\ s.resources # Nil /\ s.pullPolicy # Nil

\* A list has its elements at the numbers up to its length, and what has is a list.
LEMMA ListIndices ==
  /\ \A list : IsList(list) => /\ Len(list) \in Nat /\ DOMAIN list = 1 .. Len(list)
                               /\ list = [i \in 1 .. Len(list) |-> list[i]]
  /\ \A n \in Nat : \A list : list = [i \in 1 .. n |-> list[i]] =>
       IsList(list) /\ Len(list) = n
<1>1. ASSUME NEW list, IsList(list)
      PROVE  /\ Len(list) \in Nat /\ DOMAIN list = 1 .. Len(list)
             /\ list = [i \in 1 .. Len(list) |-> list[i]]
  BY <1>1 DEF IsList
<1>2. ASSUME NEW n \in Nat, NEW list, list = [i \in 1 .. n |-> list[i]]
      PROVE  IsList(list) /\ Len(list) = n
  <2>1. DOMAIN list = 1 .. n
    BY <1>2
  <2>2. \A i \in 1 .. n : list[i] \in ToSet(list)
    BY <2>1 DEF ToSet
  <2>3. list \in [1 .. n -> ToSet(list)]
    BY <1>2, <2>2
  <2> HIDE DEF ToSet
  <2>4. list \in Seq(ToSet(list))
    BY <2>3
  <2> QED
    BY <2>1, <2>4 DEF IsList
<1> QED
  BY <1>1, <1>2

\* A list of the indices of another is one.
LEMMA ListOver ==
  ASSUME NEW list, IsList(list), NEW other, other = [i \in DOMAIN list |-> other[i]]
  PROVE  IsList(other) /\ Len(other) = Len(list)
BY ListIndices

\* A list in front of another.
LEMMA ListsTogether ==
  ASSUME NEW x, NEW y, IsList(x), IsList(y)
  PROVE  /\ IsList(x \o y) /\ Len(x \o y) = Len(x) + Len(y)
         /\ \A i \in 1 .. Len(x) + Len(y) :
              (x \o y)[i] = IF i <= Len(x) THEN x[i] ELSE y[i - Len(x)]
<1> DEFINE S == ToSet(x) \cup ToSet(y)
<1>1. x \in Seq(S) /\ y \in Seq(S)
  BY DEF IsList
<1> HIDE DEF S
<1>2. /\ x \o y \in Seq(S) /\ Len(x \o y) = Len(x) + Len(y) /\ Len(x) \in Nat /\ Len(y) \in Nat
      /\ \A i \in 1 .. Len(x) + Len(y) :
              (x \o y)[i] = IF i <= Len(x) THEN x[i] ELSE y[i - Len(x)]
  BY <1>1
<1>3. x \o y = [i \in 1 .. Len(x) + Len(y) |-> (x \o y)[i]]
  <2>1. \A z \in Seq(S) : z = [i \in 1 .. Len(z) |-> z[i]]
    OBVIOUS
  <2> QED
    BY <1>2, <2>1
<1>4. IsList(x \o y)
  <2> DEFINE z == x \o y
  <2> HIDE DEF z
  <2>1. z = [i \in 1 .. Len(x) + Len(y) |-> z[i]] /\ Len(x) + Len(y) \in Nat
    BY <1>2, <1>3 DEF z
  <2>2. IsList(z)
    BY <2>1, ListIndices
  <2> QED
    BY <2>2 DEF z
<1> QED
  BY <1>2, <1>4

\* The defaults make a specification complete.
LEMMA PreparedDefaults ==
  ASSUME NEW s, Specified(s)
  PROVE  Defaulted(Prepared(s)) /\ Specified(Prepared(s))
<1> DEFINE service == OrElse(s.service, NoService)
           withTarget(p) == IF p.targetPort = 0 THEN [p EXCEPT !.targetPort = p.port] ELSE p
           ports == [i \in DOMAIN service.ports |-> withTarget(service.ports[i])]
           given == [service EXCEPT !.type = OrElse(@, "ClusterIP"),
                                    !.port = GetManagedPort(s), !.ports = ports]
<1>1. DOMAIN service = DOMAIN NoService /\ IsList(service.ports)
  <2>1. CASE s.service # Nil
    BY <2>1 DEF Specified, OrElse
  <2>2. CASE s.service = Nil
    <3>1. service = NoService /\ NoService.ports = <<>>
      BY <2>2 DEF OrElse, NoService
    <3>2. <<>> \in Seq(ToSet(<<>>))
      OBVIOUS
    <3> QED
      BY <3>1, <3>2 DEF IsList
  <2> QED
    BY <2>1, <2>2
<1>2. IsList(ports)
  <2>1. ports = [i \in DOMAIN service.ports |-> ports[i]]
    OBVIOUS
  <2> HIDE DEF ports, service
  <2> QED
    BY <1>1, <2>1, ListOver
<1>3. DOMAIN given = DOMAIN NoService /\ given.ports = ports
  <2> HIDE DEF ports, service
  <2>1. "ports" \in DOMAIN service
    BY <1>1 DEF NoService
  <2> QED
    BY <1>1, <2>1
<1>4. Initialize(s) = [s EXCEPT !.pullPolicy = Initialize(s).pullPolicy,
                                !.resources = Initialize(s).resources,
                                !.applicationName = Initialize(s).applicationName,
                                !.labels = Initialize(s).labels,
                                !.service = Initialize(s).service]
      /\ DOMAIN Initialize(s) = DOMAIN s
      /\ Initialize(s).pullPolicy = OrElse(s.pullPolicy, "IfNotPresent")
      /\ Initialize(s).resources = OrElse(s.resources, "none")
      /\ Initialize(s).service = given
      /\ Initialize(s).mounts = s.mounts
  <2>1. {"pullPolicy", "resources", "service", "mounts", "labels", "applicationName"}
          \subseteq DOMAIN s
    BY DEF Specified, EmptySpec
  <2>2. DOMAIN Initialize(s) = DOMAIN s
    BY DEF Initialize
  <2> QED
    BY <2>1, <2>2 DEF Initialize
<1> HIDE DEF given, ports, service
<1>5. LET p == Prepared(s)
      IN /\ DOMAIN p = DOMAIN s /\ p.pullPolicy = OrElse(s.pullPolicy, "IfNotPresent")
         /\ p.resources = OrElse(s.resources, "none") /\ p.service = given /\ p.mounts = s.mounts
  <2>1. {"pullPolicy", "resources", "service", "mounts", "annotations"} \subseteq DOMAIN s
    BY DEF Specified, EmptySpec
  <2> QED
    BY <1>4, <2>1 DEF Prepared
<1>6. OrElse(s.pullPolicy, "IfNotPresent") # Nil /\ OrElse(s.resources, "none") # Nil
  BY OwnedAssumption DEF OwnedAssumption, OrElse
<1> QED
  BY <1>2, <1>3, <1>5, <1>6 DEF Specified, Defaulted

-----------------------------------------------------------------------------
(* Complete specifications.                                                *)

\* The specification stored is one of the users' or completed by Begin, and the one
\* a reconcile works on is complete.
Complete ==
  /\ Specified(spec)
  /\ pc # 0 => Defaulted(held.spec)

\* Users write specifications.
LEMMA UsersSpecify ==
  ASSUME NEW t \in Tracks, NEW s \in Specs(t)
  PROVE  Specified(s)
BY OwnedAssumption DEF OwnedAssumption, Specified

\* Every step keeps the specifications complete.
LEMMA CompleteNext == Typed /\ Complete /\ [Next]_vars => Complete'
<1> SUFFICES ASSUME Typed, Complete, [Next]_vars PROVE Complete'
  OBVIOUS
<1>0. pc # 0 => DOMAIN held = Memory
  BY DEF Typed, TypeOK, Memory
<1>1. CASE Begin
  <2>1. spec' = Prepared(spec) /\ held'.spec = Prepared(spec)
    BY <1>1 DEF Begin
  <2>2. Specified(Prepared(spec)) /\ Defaulted(Prepared(spec))
    BY PreparedDefaults DEF Complete
  <2> QED
    BY <2>1, <2>2 DEF Complete
<1>2. CASE DeleteOldRoute \/ CannotApply \/ LeaveAlone \/ ApplyFails \/ OthersDelete
  <2>1. spec' = spec /\ (pc' # 0 => pc # 0 /\ held'.spec = held.spec)
    BY <1>2, UnderWay, FailureNoted
       DEF DeleteOldRoute, CannotApply, LeaveAlone, OthersDelete, Typed
  <2> QED
    BY <2>1 DEF Complete
<1>3. CASE Apply
  <2>1. spec' = spec /\ held'.spec = held.spec /\ pc # 0
    BY <1>3, Applied
  <2> QED
    BY <2>1 DEF Complete
<1>4. CASE WriteStatus \/ LoseStatus
  BY <1>4 DEF WriteStatus, LoseStatus, Complete
<1>5. CASE Edit
  <2>1. Specified(spec')
    BY <1>5, UsersSpecify DEF Edit, Typed
  <2>2. pc' = pc /\ (pc # 0 => held'.spec = held.spec)
    BY <1>0, <1>5 DEF Edit, Memory
  <2> QED
    BY <2>1, <2>2 DEF Complete
<1>6. CASE ClusterChanges \/ OthersChange \/ UNCHANGED vars
  BY <1>6 DEF ClusterChanges, OthersChange, vars, Complete
<1>7. CASE OthersCreate
  <2>1. spec' = spec /\ pc' = pc /\ (pc # 0 => held'.spec = held.spec)
    BY <1>0, <1>7 DEF OthersCreate, Memory
  <2> QED
    BY <2>1 DEF Complete
<1> QED
  BY <1>1, <1>2, <1>3, <1>4, <1>5, <1>6, <1>7 DEF Next, Reconcile, Surroundings

\* So they always are.
LEMMA AlwaysComplete == Spec => []Complete
<1>1. Init => Complete
  BY UsersSpecify DEF Init, Complete
<1> QED
  BY <1>1, CompleteNext, AlwaysTyped, PTL DEF Spec

-----------------------------------------------------------------------------
(* The ports of a Service.                                                 *)

At(old, i) == IF i \in DOMAIN old.ports THEN old.ports[i] ELSE NewPort

\* The port a Service gets at a position.
PortAt(old, s, headless, i) ==
  IF i = 1 THEN PrimaryPort(At(old, 1), s.service, headless)
  ELSE AdditionalPort(At(old, i), s.service.ports[i - 1], s.service.type)

\* The list of the ports.
LEMMA PortsOf ==
  ASSUME NEW old, DOMAIN old = DOMAIN NewService, NEW s, Defaulted(s), NEW headless
  PROVE  LET new == CustomizeService(old, s, headless)
         IN /\ DOMAIN new = DOMAIN NewService
            /\ IsList(new.ports) /\ Len(new.ports) = Len(s.service.ports) + 1
            /\ \A i \in DOMAIN new.ports : new.ports[i] = PortAt(old, s, headless, i)
            /\ new.type = s.service.type
<1> DEFINE new  == CustomizeService(old, s, headless)
           one  == <<PrimaryPort(At(old, 1), s.service, headless)>>
           rest == [i \in DOMAIN s.service.ports |->
                     AdditionalPort(At(old, i + 1), s.service.ports[i], s.service.type)]
<1>1. IsList(s.service.ports) /\ Len(s.service.ports) \in Nat
      /\ DOMAIN s.service.ports = 1 .. Len(s.service.ports)
  BY ListIndices DEF Defaulted
<1>2. IsList(rest) /\ Len(rest) = Len(s.service.ports)
  <2>1. rest = [i \in DOMAIN s.service.ports |-> rest[i]]
    OBVIOUS
  <2> HIDE DEF rest
  <2> QED
    BY <1>1, <2>1, ListOver
<1>3. IsList(one) /\ Len(one) = 1 /\ one[1] = PrimaryPort(At(old, 1), s.service, headless)
  <2>1. one = [i \in 1 .. 1 |-> one[i]] /\ one[1] = PrimaryPort(At(old, 1), s.service, headless)
    OBVIOUS
  <2> HIDE DEF one
  <2> QED
    BY <2>1, ListIndices
<1>4. DOMAIN new = DOMAIN NewService /\ new.ports = one \o rest /\ new.type = s.service.type
  <2>1. DOMAIN Labelled(old, s) = DOMAIN NewService
    BY LabelledFields
  <2>2. {"annotations", "ports", "type", "affinity"} \subseteq DOMAIN Labelled(old, s)
    BY <2>1 DEF NewService
  <2>3. \A l, a, p, t, f :
          l = Labelled(old, s) =>
            LET n == [l EXCEPT !.annotations = a, !.ports = p, !.type = t, !.affinity = f]
            IN DOMAIN n = DOMAIN NewService /\ n.ports = p /\ n.type = t
    BY <2>1, <2>2
  <2>4. \E a, f : new = [Labelled(old, s) EXCEPT !.annotations = a, !.ports = one \o rest,
                                                 !.type = s.service.type, !.affinity = f]
    <3>1. new = [Labelled(old, s) EXCEPT
                  !.annotations = MergeMaps(CustomizeServiceAnnotations(old.annotations,
                                                              s.disableTopologyRouting),
                                            GetAnnotations(s)),
                  !.ports = one \o rest, !.type = s.service.type,
                  !.affinity = OrElse(s.service.sessionAffinity, "None")]
      BY DEF CustomizeService, At
    <3> HIDE DEF new, one, rest
    <3> QED
      BY <3>1
  <2> HIDE DEF new, one, rest
  <2> QED
    BY <2>3, <2>4
<1>5. \A i \in 1 .. Len(rest) : rest[i] =
        AdditionalPort(At(old, i + 1), s.service.ports[i], s.service.type)
  BY <1>1, <1>2
<1> HIDE DEF one, rest, new
<1>6. /\ IsList(one \o rest) /\ Len(one \o rest) = 1 + Len(rest)
      /\ \A i \in 1 .. 1 + Len(rest) :
           (one \o rest)[i] = IF i <= 1 THEN one[i] ELSE rest[i - 1]
  <2>1. /\ IsList(one \o rest) /\ Len(one \o rest) = Len(one) + Len(rest)
        /\ \A i \in 1 .. Len(one) + Len(rest) :
             (one \o rest)[i] = IF i <= Len(one) THEN one[i] ELSE rest[i - Len(one)]
    BY <1>2, <1>3, ListsTogether
  <2> QED
    BY <1>3, <2>1
<1>7. DOMAIN (one \o rest) = 1 .. 1 + Len(rest)
  BY <1>6, ListIndices
<1>8. ASSUME NEW i \in 1 .. 1 + Len(rest) PROVE (one \o rest)[i] = PortAt(old, s, headless, i)
  <2>1. CASE i = 1
    BY <1>3, <1>6, <2>1 DEF PortAt
  <2>2. CASE i # 1
    <3>1. i - 1 \in 1 .. Len(rest) /\ (i - 1) + 1 = i /\ ~(i <= 1)
      BY <1>1, <1>2, <2>2
    <3>2. (one \o rest)[i] = rest[i - 1]
      BY <1>6, <3>1
    <3>3. rest[i - 1] = AdditionalPort(At(old, (i - 1) + 1), s.service.ports[i - 1], s.service.type)
      BY <1>5, <3>1
    <3> QED
      BY <2>2, <3>1, <3>2, <3>3 DEF PortAt
  <2> QED
    BY <2>1, <2>2
<1> QED
  BY <1>1, <1>2, <1>4, <1>6, <1>7, <1>8 DEF new

\* The kind whose Service has no address.
Headless(kind) == kind = "Headless"

\* What is computed for the two Services.
LEMMA ServiceComputed ==
  ASSUME NEW kind \in {"Service", "Headless"}, NEW old, DOMAIN old = DOMAIN NewService,
         NEW s, Defaulted(s), NEW r
  PROVE  LET new == Customize(kind, old, s, r)
         IN /\ DOMAIN new = DOMAIN NewService
            /\ IsList(new.ports) /\ Len(new.ports) = Len(s.service.ports) + 1
            /\ \A i \in DOMAIN new.ports : new.ports[i] = PortAt(old, s, Headless(kind), i)
            /\ new.type = IF Headless(kind) THEN "ClusterIP" ELSE s.service.type
<1>1. {"annotations", "labels", "ports", "type", "headless"} \subseteq DOMAIN NewService
  BY DEF NewService
<1>2. CASE kind = "Service"
  <2> DEFINE svc == CustomizeService(old, s, FALSE)
  <2>1. Customize(kind, old, s, r) = ReconciledService(old, s, cluster)
    BY <1>2 DEF Customize
  <2>2. /\ DOMAIN svc = DOMAIN NewService
        /\ IsList(svc.ports) /\ Len(svc.ports) = Len(s.service.ports) + 1
        /\ \A i \in DOMAIN svc.ports : svc.ports[i] = PortAt(old, s, FALSE, i)
        /\ svc.type = s.service.type
    BY PortsOf
  <2>3. LET new == ReconciledService(old, s, cluster)
        IN DOMAIN new = DOMAIN svc /\ new.ports = svc.ports /\ new.type = svc.type
    <3> HIDE DEF svc
    <3>1. \A a, l : LET n == [svc EXCEPT !.annotations = a, !.labels = l]
                    IN DOMAIN n = DOMAIN svc /\ n.ports = svc.ports /\ n.type = svc.type
      BY <1>1, <2>2
    <3>2. \E a, l : ReconciledService(old, s, cluster) = [svc EXCEPT !.annotations = a, !.labels = l]
      <4>1. "labels" \in DOMAIN svc
        BY <1>1, <2>2
      <4> QED
        BY <4>1 DEF ReconciledService, svc
    <3> QED
      BY <3>1, <3>2
  <2> HIDE DEF svc
  <2> QED
    BY <1>2, <2>1, <2>2, <2>3 DEF Headless
<1>3. CASE kind = "Headless"
  <2> DEFINE svc == CustomizeService(old, s, TRUE)
  <2>1. Customize(kind, old, s, r) = HeadlessService(old, s)
    BY <1>3 DEF Customize
  <2>2. /\ DOMAIN svc = DOMAIN NewService
        /\ IsList(svc.ports) /\ Len(svc.ports) = Len(s.service.ports) + 1
        /\ \A i \in DOMAIN svc.ports : svc.ports[i] = PortAt(old, s, TRUE, i)
    BY PortsOf
  <2>3. HeadlessService(old, s) = [svc EXCEPT !.type = "ClusterIP", !.headless = TRUE]
    BY DEF HeadlessService
  <2> HIDE DEF svc
  <2> QED
    BY <1>1, <1>3, <2>1, <2>2, <2>3 DEF Headless
<1> QED
  BY <1>2, <1>3

-----------------------------------------------------------------------------
(* The free node ports suffice for the ports of a Service.                 *)

\* In a finite set of numbers there is one of every rank.
LEMMA RankExists ==
  ASSUME NEW F \in SUBSET Int, IsFiniteSet(F), NEW k \in Nat, k < Cardinality(F)
  PROVE  \E n \in F : Cardinality({m \in F : m < n}) = k
<1> DEFINE c == Cardinality(F)
           below(n) == {m \in F : m < n}
           rank == [n \in F |-> Cardinality(below(n))]
<1>1. c \in Nat /\ c # 0
  BY FS_CardinalityType
<1>2. ASSUME NEW n \in F
      PROVE  /\ IsFiniteSet(below(n)) /\ Cardinality(below(n)) \in Nat
             /\ Cardinality(below(n) \cup {n}) = Cardinality(below(n)) + 1
             /\ Cardinality(below(n)) < c
  <2>1. below(n) \in SUBSET F /\ n \notin below(n)
    OBVIOUS
  <2>2. below(n) \cup {n} \in SUBSET F
    OBVIOUS
  <2> HIDE DEF below
  <2>3. IsFiniteSet(below(n)) /\ Cardinality(below(n)) \in Nat
    BY <2>1, FS_Subset, FS_CardinalityType
  <2>4. Cardinality(below(n) \cup {n}) = Cardinality(below(n)) + 1
    BY <2>1, <2>3, FS_AddElement
  <2>5. Cardinality(below(n) \cup {n}) <= c
    BY <2>2, FS_Subset
  <2> QED
    BY <1>1, <2>3, <2>4, <2>5
<1>3. ASSUME NEW n \in F, NEW p \in F, n < p PROVE Cardinality(below(n)) < Cardinality(below(p))
  <2> DEFINE S == below(p)
             T == below(n) \cup {n}
  <2>1. T \in SUBSET S
    <3>1. ASSUME NEW m \in F, m < n \/ m = n PROVE m < p
      <4>1. m \in Int /\ n \in Int /\ p \in Int
        OBVIOUS
      <4> QED
        BY <1>3, <3>1, <4>1
    <3> QED
      BY <3>1
  <2> HIDE DEF below
  <2>3. /\ Cardinality(T) = Cardinality(below(n)) + 1
        /\ Cardinality(below(n)) \in Nat /\ Cardinality(S) \in Nat
        /\ IsFiniteSet(S)
    BY <1>2, Zenon
  <2> HIDE DEF T
  <2>4. /\ Cardinality(T) = Cardinality(below(n)) + 1
        /\ Cardinality(below(n)) \in Nat /\ Cardinality(S) \in Nat
    BY <2>3
  <2> HIDE DEF S
  <2>2. Cardinality(T) <= Cardinality(S)
    BY <2>1, <2>3, FS_Subset
  <2>5. Cardinality(below(n)) < Cardinality(S)
    BY <2>2, <2>4
  <2> QED
    BY <2>5 DEF S
<1>4. rank \in Injection(F, 0 .. c - 1)
  <2>1. \A n \in F : rank[n] = Cardinality(below(n))
    OBVIOUS
  <2>2. ASSUME NEW n \in F PROVE rank[n] \in 0 .. c - 1
    <3>1. Cardinality(below(n)) \in Nat /\ Cardinality(below(n)) < c
      BY <1>2
    <3>2. rank[n] = Cardinality(below(n))
      BY <2>1
    <3> HIDE DEF below, rank, c
    <3> QED
      BY <1>1, <3>1, <3>2
  <2>3. rank \in [F -> 0 .. c - 1]
    BY <2>2
  <2>4. \A n, p \in F : rank[n] = rank[p] => n = p
    <3> HIDE DEF below, rank, c
    <3> SUFFICES ASSUME NEW n \in F, NEW p \in F, rank[n] = rank[p], n # p PROVE FALSE
      OBVIOUS
    <3>1. n < p \/ p < n
      OBVIOUS
    <3>2. rank[n] \in Int /\ rank[p] \in Int
      BY <2>2
    <3> QED
      BY <1>3, <2>1, <3>1, <3>2
  <2> HIDE DEF rank
  <2> QED
    BY <2>3, <2>4 DEF Injection, IsInjective
<1>5. IsFiniteSet(0 .. c - 1) /\ Cardinality(0 .. c - 1) = c
  <2>1. \A m, n \in Int : /\ IsFiniteSet(m .. n)
                          /\ Cardinality(m .. n) = IF m > n THEN 0 ELSE n - m + 1
    BY FS_Interval
  <2>2. c - 1 \in Int /\ 0 \in Int
    BY <1>1
  <2> HIDE DEF c
  <2>3. IsFiniteSet(0 .. c - 1) /\ Cardinality(0 .. c - 1) = IF 0 > c - 1 THEN 0 ELSE (c - 1) - 0 + 1
    BY <2>1, <2>2, Zenon
  <2> QED
    BY <1>1, <2>3
<1>6. rank \in Surjection(F, 0 .. c - 1)
  <2> HIDE DEF rank
  <2> QED
    BY <1>4, <1>5, FS_Injection
<1>7. k \in 0 .. c - 1
  BY <1>1
<1>8. \E n \in F : rank[n] = k
  <2> HIDE DEF rank, c
  <2> QED
    BY <1>6, <1>7 DEF Surjection
<1> QED
  BY <1>8

\* The node ports given out: those free, the ports that have none and come before.
Free(ports)      == Allocatable(ports) \ {p.nodePort : p \in ToSet(ports)}
Before(ports, i) == {j \in 1 .. i - 1 : ports[j].nodePort = 0}
Rank(ports, n)   == Cardinality({m \in Free(ports) : m < n})
NextFree(ports, i) == CHOOSE n \in Free(ports) : Rank(ports, n) = Cardinality(Before(ports, i))

\* There is a free node port for every port that has none.
LEMMA PortsSuffice ==
  ASSUME NEW ports, IsList(ports), NEW i \in DOMAIN ports, ports[i].nodePort = 0
  PROVE  /\ NextFree(ports, i) \in Free(ports)
         /\ Rank(ports, NextFree(ports, i)) = Cardinality(Before(ports, i))
         /\ IsFiniteSet(Before(ports, i))
<1> DEFINE n == Len(ports)
           None == {j \in 1 .. n : ports[j].nodePort = 0}
           Some == {j \in 1 .. n : ports[j].nodePort # 0}
           A == Allocatable(ports)
           U == {ports[j].nodePort : j \in Some}
<1>1. n \in Nat /\ DOMAIN ports = 1 .. n
  BY ListIndices
<1>2. IsFiniteSet(1 .. n) /\ Cardinality(1 .. n) = n
  <2>1. \A a, b \in Int : /\ IsFiniteSet(a .. b)
                          /\ Cardinality(a .. b) = IF a > b THEN 0 ELSE b - a + 1
    BY FS_Interval
  <2>2. n \in Int
    BY <1>1
  <2> HIDE DEF n
  <2>3. IsFiniteSet(1 .. n) /\ Cardinality(1 .. n) = IF 1 > n THEN 0 ELSE n - 1 + 1
    BY <2>1, <2>2, 1 \in Int, Zenon
  <2> QED
    BY <1>1, <2>3
<1>3. /\ IsFiniteSet(None) /\ IsFiniteSet(Some)
      /\ Cardinality(None) \in Nat /\ Cardinality(Some) \in Nat
      /\ Cardinality(None) + Cardinality(Some) = n
  <2>1. None \in SUBSET (1 .. n) /\ Some \in SUBSET (1 .. n)
        /\ None \cup Some = 1 .. n /\ None \cap Some = {}
    OBVIOUS
  <2> HIDE DEF None, Some, n
  <2>2. IsFiniteSet(None) /\ IsFiniteSet(Some)
    BY <1>2, <2>1, FS_Subset
  <2>3. Cardinality(None) \in Nat /\ Cardinality(Some) \in Nat
    BY <2>2, FS_CardinalityType
  <2>4. Cardinality(None \cup Some) =
          Cardinality(None) + Cardinality(Some) - Cardinality(None \cap Some)
    BY <2>2, FS_Union
  <2>5. Cardinality(None \cap Some) = 0
    BY <2>1, FS_EmptySet
  <2>6. Cardinality(None \cup Some) = n
    BY <1>2, <2>1, Zenon
  <2> QED
    BY <2>2, <2>3, <2>4, <2>5, <2>6
<1>4. IsFiniteSet(A) /\ Cardinality(A) = n /\ A \subseteq Int /\ 0 \notin A
  <2> DEFINE f == [j \in 1 .. n |-> 30999 + j]
  <2>1. A = {30999 + j : j \in 1 .. n}
    BY <1>1 DEF Allocatable
  <2>2. f \in Injection(1 .. n, A) /\ f \in Surjection(1 .. n, A)
    BY <1>1, <2>1 DEF Injection, Surjection, IsInjective
  <2>3. A \subseteq Int /\ 0 \notin A
    BY <1>1, <2>1
  <2> HIDE DEF f, A, n
  <2>4. IsFiniteSet(A) /\ Cardinality(A) <= Cardinality(1 .. n)
    BY <1>2, <2>2, FS_Surjection
  <2>5. Cardinality(1 .. n) <= Cardinality(A)
    BY <2>2, <2>4, FS_Injection
  <2>6. Cardinality(A) \in Nat
    BY <2>4, FS_CardinalityType
  <2> QED
    BY <1>1, <1>2, <2>3, <2>4, <2>5, <2>6
<1>5. IsFiniteSet(U) /\ Cardinality(U) <= Cardinality(Some) /\ Cardinality(U) \in Nat
  <2> DEFINE f == [j \in Some |-> ports[j].nodePort]
  <2>1. f \in Surjection(Some, U)
    BY DEF Surjection
  <2> HIDE DEF f, U, Some
  <2>2. IsFiniteSet(U) /\ Cardinality(U) <= Cardinality(Some)
    BY <1>3, <2>1, FS_Surjection
  <2> QED
    BY <2>2, FS_CardinalityType
<1>6. Free(ports) = A \ U
  <2>1. ASSUME NEW x \in A PROVE x \in {p.nodePort : p \in ToSet(ports)} <=> x \in U
    <3>1. x # 0
      BY <1>4, <2>1
    <3>2. ToSet(ports) = {ports[j] : j \in 1 .. n}
      BY <1>1 DEF ToSet
    <3> QED
      BY <3>1, <3>2
  <2> QED
    BY <2>1 DEF Free
<1> HIDE DEF U, A
<1>7. /\ IsFiniteSet(Free(ports)) /\ Free(ports) \in SUBSET Int
      /\ Cardinality(None) <= Cardinality(Free(ports)) /\ Cardinality(Free(ports)) \in Nat
  <2> DEFINE F == A \ U
             M == A \cap U
  <2>1. F \in SUBSET A /\ M \in SUBSET U /\ F \cup M = A /\ F \cap M = {}
    OBVIOUS
  <2> HIDE DEF F, M, None, Some, n
  <2>2. IsFiniteSet(F) /\ IsFiniteSet(M) /\ Cardinality(M) <= Cardinality(U)
    BY <1>4, <1>5, <2>1, FS_Subset
  <2>3. Cardinality(F) \in Nat /\ Cardinality(M) \in Nat
    BY <2>2, FS_CardinalityType
  <2>4. Cardinality(F \cup M) = Cardinality(F) + Cardinality(M) - Cardinality(F \cap M)
    BY <2>2, FS_Union
  <2>5. Cardinality(F \cap M) = 0
    BY <2>1, FS_EmptySet
  <2>8. Cardinality(F \cup M) = n
    BY <1>4, <2>1, Zenon
  <2>6. n = Cardinality(F) + Cardinality(M)
    BY <2>3, <2>4, <2>5, <2>8
  <2>7. Cardinality(None) <= Cardinality(F)
    BY <1>3, <1>5, <2>2, <2>3, <2>6
  <2> QED
    BY <1>4, <1>6, <2>1, <2>2, <2>3, <2>7 DEF F
<1>8. /\ IsFiniteSet(Before(ports, i)) /\ Cardinality(Before(ports, i)) \in Nat
      /\ Cardinality(Before(ports, i)) < Cardinality(None)
  <2> DEFINE B == Before(ports, i)
  <2>1. B \cup {i} \in SUBSET None /\ i \notin B
    BY <1>1 DEF Before
  <2>5. IsFiniteSet(None) /\ Cardinality(None) \in Nat
    BY <1>3
  <2> HIDE DEF B, None
  <2>2. B \in SUBSET None
    BY <2>1
  <2>3. IsFiniteSet(B) /\ Cardinality(B \cup {i}) <= Cardinality(None)
    BY <2>1, <2>2, <2>5, FS_Subset
  <2>4. Cardinality(B \cup {i}) = Cardinality(B) + 1 /\ Cardinality(B) \in Nat
    BY <2>1, <2>3, FS_AddElement, FS_CardinalityType
  <2>6. IsFiniteSet(B) /\ Cardinality(B) \in Nat /\ Cardinality(B) < Cardinality(None)
    BY <2>3, <2>4, <2>5
  <2> QED
    BY <2>6 DEF B
<1>9. \E m \in Free(ports) : Rank(ports, m) = Cardinality(Before(ports, i))
  <2> DEFINE F == Free(ports)
             k == Cardinality(Before(ports, i))
  <2>3. Cardinality(None) \in Nat
    BY <1>3
  <2> HIDE DEF None
  <2>1. F \in SUBSET Int /\ IsFiniteSet(F) /\ k \in Nat /\ k < Cardinality(F)
    <3>1. F \in SUBSET Int /\ IsFiniteSet(F) /\ Cardinality(None) <= Cardinality(F)
          /\ Cardinality(F) \in Nat
      BY <1>7
    <3>2. k \in Nat /\ k < Cardinality(None)
      BY <1>8
    <3> HIDE DEF F, k
    <3> QED
      BY <2>3, <3>1, <3>2
  <2> HIDE DEF F, k
  <2>2. \E m \in F : Cardinality({x \in F : x < m}) = k
    BY <2>1, RankExists
  <2> QED
    BY <2>2 DEF F, k, Rank
<1> QED
  BY <1>8, <1>9 DEF NextFree

\* Two ports that have none get different ones.
LEMMA PortsDiffer ==
  ASSUME NEW ports, IsList(ports), NEW i \in DOMAIN ports, NEW j \in DOMAIN ports,
         ports[i].nodePort = 0, ports[j].nodePort = 0, j < i
  PROVE  NextFree(ports, i) # NextFree(ports, j)
<1>1. /\ Rank(ports, NextFree(ports, i)) = Cardinality(Before(ports, i))
      /\ Rank(ports, NextFree(ports, j)) = Cardinality(Before(ports, j))
      /\ IsFiniteSet(Before(ports, i)) /\ IsFiniteSet(Before(ports, j))
  BY PortsSuffice
<1> DEFINE B == Before(ports, i)
           C == Before(ports, j)
<1>2. C \in SUBSET B /\ j \in B /\ j \notin C
  <2>1. DOMAIN ports = 1 .. Len(ports) /\ Len(ports) \in Nat
    BY ListIndices
  <2> QED
    BY <2>1 DEF Before
<1> HIDE DEF B, C
<1>3. IsFiniteSet(B) /\ (Cardinality(B) = Cardinality(C) => B = C)
  BY <1>1, <1>2, FS_Subset DEF B
<1> QED
  BY <1>1, <1>2, <1>3 DEF B, C

\* What Allocated makes of a list.
LEMMA AllocatedList ==
  ASSUME NEW ports, IsList(ports)
  PROVE  LET new == Allocated(ports)
         IN /\ IsList(new) /\ Len(new) = Len(ports) /\ DOMAIN new = DOMAIN ports
            /\ \A i \in DOMAIN ports :
                 new[i] = IF ports[i].nodePort # 0 THEN ports[i]
                          ELSE [ports[i] EXCEPT !.nodePort = NextFree(ports, i)]
<1> DEFINE new == [i \in DOMAIN ports |->
                     IF ports[i].nodePort # 0 THEN ports[i]
                     ELSE [ports[i] EXCEPT !.nodePort = NextFree(ports, i)]]
<1>1. Allocated(ports) = new
  BY DEF Allocated, NextFree, Rank, Free, Before
<1>2. new = [i \in DOMAIN ports |-> new[i]]
  OBVIOUS
<1>3. \A i \in DOMAIN ports :
        new[i] = IF ports[i].nodePort # 0 THEN ports[i]
                 ELSE [ports[i] EXCEPT !.nodePort = NextFree(ports, i)]
  OBVIOUS
<1>4. DOMAIN new = DOMAIN ports
  OBVIOUS
<1> HIDE DEF new
<1>5. IsList(new) /\ Len(new) = Len(ports)
  BY <1>2, ListOver
<1> QED
  BY <1>1, <1>3, <1>4, <1>5

-----------------------------------------------------------------------------
(* What is computed for the workloads.                                     *)

\* The pod template that is computed: but for its annotations it depends on the
\* template there was only in the ports after the first.
PodOf(old, s, r) ==
  CustomizePodWithSVCCertificate(CustomizePodSpec(old, s, r), s, r, cluster)

\* The port of the container, and what was there after the first port.
ContainerPorts(s) == <<[port |-> ContainerPort(s),
                        name |-> PortName(s.service.portName, ContainerPort(s))]>>

Rest(ports) == IF ports = <<>> THEN ports ELSE Tail(ports)

ComputedFrom(n, old, s, r) ==
  /\ DOMAIN n = DOMAIN NewPod /\ n.labels = GetLabels(s)
  /\ n.ports = ContainerPorts(s) \o Rest(old.ports) /\ n.image = r.image
  /\ n.resources = OrElse(s.resources, old.resources) /\ n.probes = CustomizeProbes(s)
  /\ n.pullPolicy = OrElse(s.pullPolicy, old.pullPolicy)
  /\ n.env = Env(s, r) /\ n.verbatim = s.verbatim
  /\ n.volumes = s.volumes \o CertificateVolume(s, r)
  /\ n.mounts = s.mounts \o CertificateMount(s)
  /\ n.security = GetSecurityContext(s) /\ n.account = AccountName(s)
  /\ n.spread = TopologySpread(s) /\ n.affinity = CustomizeAffinity(s.affinity)
  /\ n.automount = (s.serviceAccount = Nil \/ s.serviceAccount.mountToken)
  /\ n.serviceLinks = IF s.disableServiceLinks THEN FALSE ELSE Nil
  /\ n.priority = OrElse(s.priorityClassName, "")

\* What is customized in a pod template has these settings.
LEMMA PodSpecComputed ==
  ASSUME NEW old, DOMAIN old = DOMAIN NewPod, NEW s, NEW r
  PROVE  ComputedFrom(CustomizePodSpec(old, s, r), old, s, r)
<1> DEFINE l == Labelled(old, s)
<1>1. /\ DOMAIN l = DOMAIN NewPod /\ l.labels = GetLabels(s)
      /\ l.ports = old.ports /\ l.resources = old.resources /\ l.pullPolicy = old.pullPolicy
      /\ "annotations" \in DOMAIN l
  <2>1. {"labels", "ports", "resources", "pullPolicy", "annotations"} \subseteq DOMAIN NewPod
    BY DEF NewPod
  <2> QED
    BY <2>1 DEF Labelled
<1> DEFINE annotations == MergeMaps(MergeMaps(l.annotations, GetAnnotations(s)), WorkloadAnnotations(s))
           ports       == ContainerPorts(s) \o Rest(l.ports)
           resources   == OrElse(s.resources, l.resources)
           pullPolicy  == OrElse(s.pullPolicy, l.pullPolicy)
           automount   == s.serviceAccount = Nil \/ s.serviceAccount.mountToken
           links       == IF s.disableServiceLinks THEN FALSE ELSE Nil
           n == [l EXCEPT !.annotations = annotations, !.ports = ports, !.image = r.image,
                     !.resources = resources, !.probes = CustomizeProbes(s), !.pullPolicy = pullPolicy,
                     !.env = Env(s, r), !.verbatim = s.verbatim,
                     !.volumes = s.volumes \o CertificateVolume(s, r),
                     !.mounts = s.mounts \o CertificateMount(s), !.security = GetSecurityContext(s),
                     !.account = AccountName(s),
                     !.spread = TopologySpread(s), !.affinity = CustomizeAffinity(s.affinity),
                     !.automount = automount,
                     !.serviceLinks = links, !.priority = OrElse(s.priorityClassName, "")]
<1>2. CustomizePodSpec(old, s, r) = n
  BY <1>1, Zenon DEF CustomizePodSpec, ContainerPorts, Rest
<1> HIDE DEF l, annotations, ports, resources, pullPolicy, automount, links
<1>3. /\ DOMAIN n = DOMAIN NewPod /\ n.labels = l.labels
            /\ n.annotations = annotations /\ n.ports = ports /\ n.image = r.image
            /\ n.resources = resources /\ n.probes = CustomizeProbes(s) /\ n.pullPolicy = pullPolicy
            /\ n.env = Env(s, r) /\ n.verbatim = s.verbatim
            /\ n.volumes = s.volumes \o CertificateVolume(s, r)
            /\ n.mounts = s.mounts \o CertificateMount(s)
            /\ n.security = GetSecurityContext(s) /\ n.account = AccountName(s)
            /\ n.spread = TopologySpread(s) /\ n.affinity = CustomizeAffinity(s.affinity)
            /\ n.automount = automount
            /\ n.serviceLinks = links /\ n.priority = OrElse(s.priorityClassName, "")
  BY <1>1 DEF NewPod
<1> HIDE DEF n
<1> QED
  BY <1>1, <1>2, <1>3 DEF ports, resources, pullPolicy, automount, links, ComputedFrom

\* What the two workloads have in common.
LEMMA WorkloadComputed ==
  ASSUME NEW old, {"labels", "annotations", "replicas", "strategy", "pod"} \subseteq DOMAIN old,
         NEW s, NEW r, NEW section
  PROVE  LET n == Workload(old, s, r, cluster, section)
         IN /\ DOMAIN n = DOMAIN old /\ n.labels = GetLabels(s)
            /\ n.replicas = Replicas(old.replicas, s) /\ n.strategy = Strategy(section)
            /\ n.pod = PodOf(old.pod, s, r)
            /\ "claims" \in DOMAIN old => n.claims = old.claims
<1> DEFINE l == Labelled(old, s)
<1>1. /\ DOMAIN l = DOMAIN old /\ l.labels = GetLabels(s) /\ l.replicas = old.replicas
      /\ l.pod = old.pod
      /\ "claims" \in DOMAIN old => l.claims = old.claims
  BY DEF Labelled
<1> DEFINE annotations == MergeMaps(MergeMaps(l.annotations, GetAnnotations(s)),
                                    IF section = Nil THEN EmptyMap ELSE section.annotations)
           replicas    == Replicas(l.replicas, s)
           pod         == PodOf(l.pod, s, r)
           n == [l EXCEPT !.annotations = annotations, !.replicas = replicas,
                          !.strategy = Strategy(section), !.pod = pod]
<1>2. Workload(old, s, r, cluster, section) = n
  BY <1>1, Zenon DEF Workload, PodOf
<1> HIDE DEF l, annotations, replicas, pod
<1>3. /\ DOMAIN n = DOMAIN l /\ n.labels = l.labels /\ n.replicas = replicas
      /\ n.strategy = Strategy(section) /\ n.pod = pod
      /\ "claims" \in DOMAIN l => n.claims = l.claims
  BY <1>1
<1> HIDE DEF n
<1> QED
  BY <1>1, <1>2, <1>3 DEF replicas, pod

\* The pod template of a workload.
LEMMA PodComputed ==
  ASSUME NEW old, DOMAIN old = DOMAIN NewPod, NEW s, NEW r
  PROVE  LET n == PodOf(old, s, r)
             m == CustomizePodSpec(old, s, r)
         IN /\ DOMAIN n = DOMAIN NewPod
            /\ \A f \in DOMAIN NewPod : f # "annotations" => n[f] = m[f]
<1> DEFINE m == CustomizePodSpec(old, s, r)
<1>1. DOMAIN m = DOMAIN NewPod
  BY PodSpecComputed DEF ComputedFrom
<1> HIDE DEF m
<1>2. \A a : LET n == [m EXCEPT !.annotations = a]
             IN /\ DOMAIN n = DOMAIN NewPod
                /\ \A f \in DOMAIN NewPod : f # "annotations" => n[f] = m[f]
  BY <1>1
<1>3. PodOf(old, s, r) = m \/ \E a : PodOf(old, s, r) = [m EXCEPT !.annotations = a]
  BY DEF PodOf, CustomizePodWithSVCCertificate, m
<1> QED
  BY <1>1, <1>2, <1>3 DEF m

\* The claims of a StatefulSet, and the mounts with that of the claim.
ClaimsOf(claims, s) == IF claims = <<>> THEN <<ClaimTemplate(s)>> ELSE claims

MountsOf(mounts, name, s) ==
  LET mount   == [name |-> name, path |-> s.statefulSet.storage.mountPath]
      mounted == \E m \in ToSet(mounts) : m.name = mount.name
  IN IF mount.path = "" \/ mounted THEN mounts ELSE Append(mounts, mount)

PersistedFrom(n, sts, s) ==
  LET claims == ClaimsOf(sts.claims, s)
  IN /\ DOMAIN n = DOMAIN NewStatefulSet /\ n.labels = sts.labels
     /\ n.replicas = sts.replicas /\ n.strategy = sts.strategy
     /\ DOMAIN n.pod = DOMAIN NewPod
     /\ \A f \in DOMAIN NewPod : f # "mounts" => n.pod[f] = sts.pod[f]
     /\ s.statefulSet.storage = Nil =>
          n.claims = sts.claims /\ n.pod.mounts = sts.pod.mounts
     /\ s.statefulSet.storage # Nil =>
          n.claims = claims /\ n.pod.mounts = MountsOf(sts.pod.mounts, claims[1].name, s)

\* What is persisted of a StatefulSet changes only its claims and its mounts.
LEMMA PersistenceComputed ==
  ASSUME NEW sts, DOMAIN sts = DOMAIN NewStatefulSet, DOMAIN sts.pod = DOMAIN NewPod, NEW s
  PROVE  PersistedFrom(CustomizePersistence(sts, s), sts, s)
<1> DEFINE claims == ClaimsOf(sts.claims, s)
           mounts == MountsOf(sts.pod.mounts, claims[1].name, s)
           n == [sts EXCEPT !.claims = claims, !.pod = [@ EXCEPT !.mounts = mounts]]
<1>1. CASE s.statefulSet.storage = Nil
  BY <1>1 DEF CustomizePersistence, PersistedFrom
<1>2. CASE s.statefulSet.storage # Nil
  <2>1. "claims" \in DOMAIN sts /\ "pod" \in DOMAIN sts /\ "mounts" \in DOMAIN sts.pod
    BY DEF NewStatefulSet, NewPod
  <2>2. CustomizePersistence(sts, s) = n
    <3> DEFINE c == IF sts.claims = <<>> THEN <<ClaimTemplate(s)>> ELSE sts.claims
               mount == [name |-> c[1].name, path |-> s.statefulSet.storage.mountPath]
               mounted == \E m \in ToSet(sts.pod.mounts) : m.name = mount.name
               x == IF mount.path = "" \/ mounted THEN sts.pod.mounts
                    ELSE Append(sts.pod.mounts, mount)
    <3>1. CustomizePersistence(sts, s) = [sts EXCEPT !.claims = c,
                                                     !.pod = [@ EXCEPT !.mounts = x]]
      BY <1>2 DEF CustomizePersistence
    <3>2. claims = c /\ mounts = x
      BY DEF ClaimsOf, MountsOf
    <3> HIDE DEF c, x, claims, mounts
    <3> QED
      BY <3>1, <3>2
  <2> HIDE DEF claims, mounts
  <2>3. /\ DOMAIN n = DOMAIN NewStatefulSet /\ n.labels = sts.labels
        /\ n.replicas = sts.replicas /\ n.strategy = sts.strategy
        /\ n.claims = claims /\ n.pod = [sts.pod EXCEPT !.mounts = mounts]
    BY <2>1 DEF NewStatefulSet
  <2> HIDE DEF n
  <2>4. /\ DOMAIN n.pod = DOMAIN NewPod
        /\ \A f \in DOMAIN NewPod : f # "mounts" => n.pod[f] = sts.pod[f]
        /\ n.pod.mounts = mounts
    BY <2>1, <2>3
  <2> QED
    BY <1>2, <2>2, <2>3, <2>4 DEF mounts, claims, PersistedFrom
<1> QED
  BY <1>1, <1>2

-----------------------------------------------------------------------------
(* The form of what is written.                                            *)

FormedPod(pod) ==
  DOMAIN pod = DOMAIN NewPod /\ (pod.ports = <<>> \/ pod.ports = <<pod.ports[1]>>)

FormedTLS(tls) == tls # Nil => DOMAIN tls = DOMAIN NoTLS

Formed(kind, o) ==
  /\ kind \in {"Service", "Headless"} => ServiceAccepted(o)
  /\ kind = "Headless" => o.type = "ClusterIP"
  /\ kind \in {"Deployment", "StatefulSet"} => FormedPod(o.pod)
  /\ kind = "StatefulSet" => o.claims = <<>> \/ o.claims = <<o.claims[1]>>
  /\ kind = "Route" => o.host # "" /\ FormedTLS(o.tls)

\* Every object is one the API server has accepted, or one of another operator.
AllFormed == \A k \in Kinds : objects[k] # Nil => Formed(k, objects[k])

\* A new workload.
LEMMA EmptyFormed ==
  ASSUME NEW kind \in Workloads
  PROVE  Formed(kind, Empty(kind))
<1>1. FormedPod(NewPod)
  BY DEF FormedPod, NewPod
<1>2. NewDeployment.pod = NewPod /\ NewStatefulSet.pod = NewPod /\ NewStatefulSet.claims = <<>>
  BY DEF NewDeployment, NewStatefulSet
<1> QED
  BY <1>1, <1>2 DEF Formed, Empty, Workloads

\* What others do to an object does not spoil its form.
LEMMA ChangedFormed ==
  ASSUME NEW kind, NEW o, DOMAIN o = DOMAIN Empty(kind), Formed(kind, o),
         NEW c \in ChangedByOthers(kind, o)
  PROVE  Formed(kind, c)
<1>1. /\ \A a : LET n == [o EXCEPT !.annotations = a] IN \A f \in DOMAIN o : f # "annotations" => n[f] = o[f]
      /\ \A a : LET n == [o EXCEPT !.pullSecrets = a] IN \A f \in DOMAIN o : f # "pullSecrets" => n[f] = o[f]
      /\ \A a : LET n == [o EXCEPT !.replicas = a] IN \A f \in DOMAIN o : f # "replicas" => n[f] = o[f]
  OBVIOUS
<1>2. \/ \E a : c = [o EXCEPT !.annotations = a]
      \/ \E a : c = [o EXCEPT !.pullSecrets = a]
      \/ \E a : c = [o EXCEPT !.replicas = a]
  BY DEF ChangedByOthers
<1>3. \A f \in DOMAIN o : f \notin {"annotations", "pullSecrets", "replicas"} => c[f] = o[f]
  BY <1>1, <1>2
<1>4. CASE kind \in {"Service", "Headless"}
  <2>1. {"ports", "type"} \subseteq DOMAIN o
    BY <1>4 DEF Empty, NewService
  <2>2. c.ports = o.ports /\ c.type = o.type
    BY <1>3, <2>1
  <2> QED
    BY <1>4, <2>2 DEF Formed, ServiceAccepted
<1>5. CASE kind = "Deployment"
  <2>1. "pod" \in DOMAIN o
    BY <1>5 DEF Empty, NewDeployment
  <2>2. c.pod = o.pod
    BY <1>3, <2>1
  <2> QED
    BY <1>5, <2>2 DEF Formed
<1>6. CASE kind = "StatefulSet"
  <2>1. {"pod", "claims"} \subseteq DOMAIN o
    BY <1>6 DEF Empty, NewStatefulSet
  <2>2. c.pod = o.pod /\ c.claims = o.claims
    BY <1>3, <2>1
  <2> QED
    BY <1>6, <2>2 DEF Formed
<1>7. CASE kind = "Route"
  <2>1. {"host", "tls"} \subseteq DOMAIN o
    BY <1>7 DEF Empty, NewRoute
  <2>2. c.host = o.host /\ c.tls = o.tls
    BY <1>3, <2>1
  <2> QED
    BY <1>7, <2>2 DEF Formed
<1> QED
  BY <1>4, <1>5, <1>6, <1>7 DEF Formed

\* The list of the ports of a pod stays as short as it was.
LEMMA PortsShort ==
  ASSUME NEW ports, ports = <<>> \/ ports = <<ports[1]>>, NEW s
  PROVE  ContainerPorts(s) \o Rest(ports) = ContainerPorts(s)
<1>1. Rest(ports) = <<>>
  <2>1. ASSUME NEW p PROVE <<p>> # <<>> /\ Tail(<<p>>) = <<>>
    OBVIOUS
  <2> QED
    BY <2>1 DEF Rest
<1>2. ASSUME NEW p PROVE <<p>> \o <<>> = <<p>>
  OBVIOUS
<1> QED
  BY <1>1, <1>2 DEF ContainerPorts

\* The pod template that is computed ...
LEMMA PodFormed ==
  ASSUME NEW old, FormedPod(old), NEW s, NEW r
  PROVE  FormedPod(PodOf(old, s, r)) /\ PodOf(old, s, r).ports = ContainerPorts(s)
<1> DEFINE n == PodOf(old, s, r)
<1>1. DOMAIN n = DOMAIN NewPod /\ n.ports = ContainerPorts(s) \o Rest(old.ports)
  <2>1. "ports" \in DOMAIN NewPod
    BY DEF NewPod
  <2>2. DOMAIN n = DOMAIN NewPod /\ n.ports = CustomizePodSpec(old, s, r).ports
    BY <2>1, PodComputed DEF FormedPod
  <2> QED
    <3>1. DOMAIN old = DOMAIN NewPod
      BY DEF FormedPod
    <3>2. CustomizePodSpec(old, s, r).ports = ContainerPorts(s) \o Rest(old.ports)
      <4>1. ComputedFrom(CustomizePodSpec(old, s, r), old, s, r)
        BY <3>1, PodSpecComputed
      <4> QED
        BY <4>1 DEF ComputedFrom
    <3> HIDE DEF n
    <3> QED
      BY <2>2, <3>2, Zenon
<1>2. n.ports = ContainerPorts(s)
  BY <1>1, PortsShort DEF FormedPod
<1> HIDE DEF n
<1>3. n.ports = <<n.ports[1]>>
  BY <1>2 DEF ContainerPorts
<1> QED
  BY <1>1, <1>2, <1>3 DEF FormedPod, n

\* ... the StatefulSet ...
LEMMA StatefulSetFormed ==
  ASSUME NEW old, DOMAIN old = DOMAIN NewStatefulSet, Formed("StatefulSet", old),
         NEW s, NEW r
  PROVE  Formed("StatefulSet", CustomizeStatefulSet(old, s, r, cluster))
<1> DEFINE w == Workload(old, s, r, cluster, s.statefulSet)
           n == CustomizePersistence(w, s)
<1>1. {"labels", "annotations", "replicas", "strategy", "pod", "claims"} \subseteq DOMAIN old
  BY DEF NewStatefulSet
<1>2. DOMAIN w = DOMAIN NewStatefulSet /\ w.pod = PodOf(old.pod, s, r) /\ w.claims = old.claims
  BY <1>1, WorkloadComputed
<1>3. FormedPod(w.pod)
  BY <1>2, PodFormed DEF Formed
<1> HIDE DEF w
<1>4. /\ DOMAIN n.pod = DOMAIN NewPod
      /\ \A f \in DOMAIN NewPod : f # "mounts" => n.pod[f] = w.pod[f]
      /\ n.claims = w.claims \/ n.claims = ClaimsOf(w.claims, s)
  <2>1. PersistedFrom(n, w, s)
    BY <1>2, <1>3, PersistenceComputed DEF FormedPod
  <2> HIDE DEF n
  <2> QED
    BY <2>1 DEF PersistedFrom
<1> HIDE DEF n
<1>5. FormedPod(n.pod)
  <2>1. "ports" \in DOMAIN NewPod
    BY DEF NewPod
  <2> QED
    BY <1>3, <1>4, <2>1 DEF FormedPod
<1>6. n.claims = <<>> \/ n.claims = <<n.claims[1]>>
  BY <1>2, <1>4 DEF ClaimsOf, Formed
<1> QED
  BY <1>5, <1>6 DEF Formed, CustomizeStatefulSet, n, w

\* ... and the TLS section of a Route.
LEMMA TLSFormed ==
  ASSUME NEW old, FormedTLS(old), NEW s, NEW r
  PROVE  FormedTLS(RouteTLS(old, s, GetRouteTLSValues(s, r, cluster)))
<1> DEFINE values == GetRouteTLSValues(s, r, cluster)
<1>1. DOMAIN values = {"certificate", "ca", "key", "destinationCA"}
  BY DEF GetRouteTLSValues
<1>2. DOMAIN NoTLS = {"termination", "insecure", "certificate", "ca", "key", "destinationCA"}
  BY DEF NoTLS
<1> HIDE DEF values
<1>3. ASSUME NEW tls, DOMAIN tls = DOMAIN NoTLS, NEW t
      PROVE  DOMAIN Terminated(tls, t, values) = DOMAIN NoTLS
  <2> DEFINE shown == CASE t = "reencrypt"   -> values
                 [] t = "edge"        -> [values EXCEPT !.destinationCA = ""]
                 [] t = "passthrough" -> [f \in DOMAIN values |-> ""]
                 [] OTHER             -> Restrict(tls, DOMAIN values)
  <2>1. DOMAIN shown = DOMAIN values
    <3>1. DOMAIN Restrict(tls, DOMAIN values) = DOMAIN values
      BY DEF Restrict
    <3>2. DOMAIN [values EXCEPT !.destinationCA = ""] = DOMAIN values
      OBVIOUS
    <3>3. DOMAIN [f \in DOMAIN values |-> ""] = DOMAIN values
      OBVIOUS
    <3> QED
      BY <3>1, <3>2, <3>3
  <2> HIDE DEF shown
  <2>2. DOMAIN MergeMaps(tls, shown) = DOMAIN NoTLS
    BY <1>1, <1>2, <1>3, <2>1 DEF MergeMaps
  <2>3. Terminated(tls, t, values) = [MergeMaps(tls, shown) EXCEPT !.termination = t]
    BY DEF Terminated, shown
  <2> QED
    BY <2>2, <2>3
<1>4. DOMAIN OrElse(old, NoTLS) = DOMAIN NoTLS
  BY DEF OrElse, FormedTLS
<1> DEFINE termination == IF s.route = Nil THEN Nil ELSE s.route.termination
           insecure == IF s.route = Nil THEN Nil ELSE s.route.insecure
           secured == CASE termination # Nil -> Terminated(OrElse(old, NoTLS), termination, values)
                   [] termination = Nil /\ s.manageTLS -> Terminated(NoTLS, "reencrypt", values)
                   [] OTHER -> Nil
<1>5. FormedTLS(secured)
  BY <1>3, <1>4 DEF FormedTLS
<1>6. RouteTLS(old, s, values) = IF insecure = Nil THEN secured
                                 ELSE [OrElse(secured, NoTLS) EXCEPT !.insecure = insecure]
  BY DEF RouteTLS
<1> HIDE DEF secured, insecure, termination
<1>7. DOMAIN [OrElse(secured, NoTLS) EXCEPT !.insecure = insecure] = DOMAIN NoTLS
  BY <1>5 DEF OrElse, FormedTLS
<1> QED
  BY <1>5, <1>6, <1>7 DEF FormedTLS, values

\* What a customized object, and what is written, starts from has the form.
LEMMA StartingFormed ==
  ASSUME Typed, AllFormed, AtObject
  PROVE  /\ DOMAIN Starting = DOMAIN Empty(Kind)
         /\ Kind \in {"Deployment", "StatefulSet"} => Formed(Kind, Starting)
         /\ Kind = "Route" => FormedTLS(Starting.tls)
         /\ Old # Nil => Formed(Kind, Old) /\ Starting = Old
         /\ Kind \in Kinds /\ Kind \in ManagedKinds
<1>1. Kind \in Kinds /\ Kind \in ManagedKinds
  BY UnderWay DEF Typed
<1>2. Old # Nil => Formed(Kind, Old) /\ DOMAIN Old = DOMAIN Empty(Kind)
  BY <1>1 DEF AllFormed, Old, Typed, TypeOK
<1>3. Kind \in {"Deployment", "StatefulSet"} => Formed(Kind, Empty(Kind))
  BY EmptyFormed DEF Workloads
<1>4. Kind = "Route" => FormedTLS(Empty(Kind).tls)
  BY DEF FormedTLS, Empty, NewRoute
<1>5. CASE Old = Nil
  BY <1>1, <1>3, <1>4, <1>5 DEF Starting
<1>6. CASE Old # Nil
  BY <1>1, <1>2, <1>6 DEF Starting, Formed
<1> QED
  BY <1>5, <1>6

\* What is written has the form, when the API server accepts it.
LEMMA ResultFormed ==
  ASSUME Typed, AllFormed, Complete, AtObject, Accepted(Kind, Old, Result)
  PROVE  Formed(Kind, Result)
<1> DEFINE s == held.spec
           r == held.refs
<1>1. /\ DOMAIN Starting = DOMAIN Empty(Kind)
      /\ Kind \in {"Deployment", "StatefulSet"} => Formed(Kind, Starting)
      /\ Kind = "Route" => FormedTLS(Starting.tls)
      /\ Old # Nil => Formed(Kind, Old) /\ Starting = Old
      /\ Kind \in Kinds /\ Kind \in ManagedKinds
  BY StartingFormed
<1>2. Defaulted(s)
  BY UnderWay DEF Complete, Typed
<1> DEFINE start == Starting
           computed == Customize(Kind, start, s, r)
           old == Old
           result == Stored(Kind, old, computed)
<1>3. Result = result
  BY DEF Result, Computed
<1> HIDE DEF start, s, r, old
<1>4. CASE Kind = "Service"
  BY <1>3, <1>4 DEF Accepted, Formed
<1>5. CASE Kind = "Headless"
  <2>1. DOMAIN start = DOMAIN NewService
    BY <1>1, <1>5 DEF Empty, start
  <2>2. computed.type = "ClusterIP"
    <3>1. Headless(Kind) /\ Kind \in {"Service", "Headless"}
      BY <1>5 DEF Headless
    <3> QED
      BY <1>2, <2>1, <3>1, ServiceComputed
  <2> HIDE DEF computed
  <2>3. result = computed
    BY <1>5, <2>2 DEF Stored
  <2> HIDE DEF result
  <2> QED
    BY <1>3, <1>5, <2>2, <2>3 DEF Accepted, Formed
<1>6. CASE Kind = "Deployment"
  <2>1. DOMAIN start = DOMAIN NewDeployment /\ FormedPod(start.pod)
    BY <1>1, <1>6 DEF Empty, start, Formed
  <2>2. {"labels", "annotations", "replicas", "strategy", "pod"} \subseteq DOMAIN start
    BY <2>1 DEF NewDeployment
  <2>3. Workload(start, s, r, cluster, s.deployment).pod = PodOf(start.pod, s, r)
    BY <2>2, WorkloadComputed
  <2>4. computed = Workload(start, s, r, cluster, s.deployment)
    BY <1>6 DEF Customize, CustomizeDeployment
  <2>5. FormedPod(computed.pod)
    BY <2>1, <2>3, <2>4, PodFormed
  <2> HIDE DEF computed
  <2>6. result = computed
    BY <1>6 DEF Stored
  <2> QED
    BY <1>3, <1>6, <2>5, <2>6 DEF Formed
<1>7. CASE Kind = "StatefulSet"
  <2>1. DOMAIN start = DOMAIN NewStatefulSet /\ Formed("StatefulSet", start)
    BY <1>1, <1>7 DEF Empty, start
  <2>2. Formed("StatefulSet", CustomizeStatefulSet(start, s, r, cluster))
    BY <2>1, StatefulSetFormed
  <2>3. computed = CustomizeStatefulSet(start, s, r, cluster)
    BY <1>7 DEF Customize
  <2> HIDE DEF computed
  <2>4. result = computed
    BY <1>7 DEF Stored
  <2> QED
    BY <1>3, <1>7, <2>2, <2>3, <2>4
<1>8. CASE Kind = "Route"
  <2>1. {"host", "tls", "path", "port", "annotations"} \subseteq DOMAIN start
    BY <1>1, <1>8 DEF Empty, NewRoute, start
  <2>2. FormedTLS(start.tls)
    BY <1>1, <1>8 DEF start
  <2>3. DOMAIN computed = DOMAIN start
        /\ computed.tls = RouteTLS(start.tls, s, GetRouteTLSValues(s, r, cluster))
    <3>1. DOMAIN Labelled(start, s) = DOMAIN start /\ Labelled(start, s).tls = start.tls
      BY <2>1 DEF Labelled
    <3>2. \A l : {"host", "tls", "path", "port", "annotations"} \subseteq DOMAIN l =>
            \A a, h, p, t, q :
              LET n == [l EXCEPT !.annotations = a, !.host = h, !.path = p, !.tls = t, !.port = q]
              IN DOMAIN n = DOMAIN l /\ n.tls = t
      OBVIOUS
    <3>3. \E a, h, p, q :
            computed = [Labelled(start, s) EXCEPT !.annotations = a, !.host = h, !.path = p,
                          !.tls = RouteTLS(Labelled(start, s).tls, s, GetRouteTLSValues(s, r, cluster)),
                          !.port = q]
      BY <1>8, Zenon DEF Customize, CustomizeRoute
    <3> HIDE DEF computed
    <3> QED
      BY <2>1, <3>1, <3>2, <3>3
  <2>4. FormedTLS(computed.tls)
    BY <2>2, <2>3, TLSFormed
  <2> HIDE DEF computed
  <2>5. result.tls = computed.tls /\ result.host # ""
    <3>1. CASE computed.host # ""
      BY <1>8, <3>1 DEF Stored
    <3>2. CASE computed.host = ""
      <4>1. result = [computed EXCEPT !.host = IF old = Nil THEN GeneratedHost ELSE old.host]
        BY <1>8, <3>2 DEF Stored
      <4>2. (IF old = Nil THEN GeneratedHost ELSE old.host) # ""
        BY <1>1, <1>8 DEF Formed, GeneratedHost, old
      <4> QED
        BY <2>1, <2>3, <4>1, <4>2
    <3> QED
      BY <3>1, <3>2
  <2> QED
    BY <1>3, <1>8, <2>4, <2>5 DEF Formed
<1> QED
  BY <1>4, <1>5, <1>6, <1>7, <1>8 DEF Formed

\* Every step leaves the objects formed.
LEMMA FormedNext == Typed /\ Complete /\ AllFormed /\ [Next]_vars => AllFormed'
<1> SUFFICES ASSUME Typed, Complete, AllFormed, [Next]_vars PROVE AllFormed'
  OBVIOUS
<1>1. CASE UNCHANGED <<tracked, objects>>
  BY <1>1 DEF AllFormed, Kinds
<1>2. CASE Apply
  <2>1. /\ Kind \in Kinds /\ \A k \in Kinds \ {Kind} : objects'[k] = objects[k]
        /\ objects'[Kind] = IF Wanted(Kind, held.spec) THEN Result ELSE Nil
        /\ Kinds' = Kinds
    BY <1>2, Applied
  <2>2. Wanted(Kind, held.spec) => Formed(Kind, Result)
    BY <1>2, ResultFormed DEF Apply, Doable
  <2>3. \A k \in Kinds : objects'[k] # Nil => Formed(k, objects'[k])
    BY <2>1, <2>2 DEF AllFormed
  <2> QED
    BY <2>1, <2>3 DEF AllFormed
<1>3. CASE DeleteOldRoute \/ OthersDelete
  <2>1. \A k \in Kinds : objects'[k] \in {objects[k], Nil}
    BY <1>3, UnderWay DEF DeleteOldRoute, OthersDelete, Typed, TypeOK
  <2>2. Kinds' = Kinds
    BY <1>3 DEF DeleteOldRoute, OthersDelete, Kinds
  <2> QED
    BY <2>1, <2>2 DEF AllFormed
<1>4. CASE OthersChange
  <2> DEFINE kind == tracked[1]
  <2>1. kind \in Kinds /\ objects[kind] # Nil
    BY <1>4, KindsManaged DEF Kinds, Typed, OthersChange
  <2>2. PICK o \in ChangedByOthers(kind, objects[kind]) : objects' = [objects EXCEPT ![kind] = o]
    BY <1>4 DEF OthersChange
  <2>3. DOMAIN objects[kind] = DOMAIN Empty(kind) /\ Formed(kind, objects[kind])
    BY <2>1 DEF Typed, TypeOK, AllFormed
  <2>4. Formed(kind, o)
    BY <2>3, ChangedFormed
  <2>5. Kinds' = Kinds
    BY <1>4 DEF OthersChange, Kinds
  <2> HIDE DEF kind
  <2> QED
    BY <2>1, <2>2, <2>4, <2>5 DEF AllFormed, Typed, TypeOK
<1>5. CASE OthersCreate
  <2>1. PICK kind \in Kinds \cap Workloads : objects' = [objects EXCEPT ![kind] = Empty(kind)]
    BY <1>5 DEF OthersCreate
  <2>2. Formed(kind, Empty(kind))
    BY EmptyFormed
  <2>3. Kinds' = Kinds
    BY <1>5 DEF OthersCreate, Kinds
  <2> QED
    BY <2>1, <2>2, <2>3 DEF AllFormed, Typed, TypeOK
<1>6. CASE Begin \/ CannotApply \/ LeaveAlone \/ WriteStatus \/ ApplyFails \/ LoseStatus \/ Edit
           \/ ClusterChanges \/ UNCHANGED vars
  <2>1. UNCHANGED <<tracked, objects>>
    BY <1>6 DEF Begin, CannotApply, LeaveAlone, WriteStatus, ApplyFails, LoseStatus, Edit, ClusterChanges, vars
  <2> QED
    BY <1>1, <2>1
<1> QED
  BY <1>2, <1>3, <1>4, <1>5, <1>6 DEF Next, Reconcile, Surroundings

\* So they always are.
LEMMA AlwaysFormed == Spec => []AllFormed
<1>1. Init => AllFormed
  BY DEF Init, AllFormed, Kinds
<1> QED
  BY <1>1, FormedNext, AlwaysTyped, AlwaysComplete, PTL DEF Spec

-----------------------------------------------------------------------------
(* What is refused, and why.                                               *)

\* The node port asked for a position.
Asked(s, i) == IF i = 1 THEN s.service.nodePort ELSE s.service.ports[i - 1].nodePort

OwnNodePort(old, s, i) == NodePort(At(old, i).nodePort, s.service.type, Asked(s, i), FALSE)

\* The name of a port is that of a new one; the node port may be an old one ...
LEMMA PlainPort ==
  ASSUME NEW old, NEW s, NEW i
  PROVE  LET p == PortAt(old, s, FALSE, i)
             q == PortAt(NewService, s, FALSE, i)
         IN /\ DOMAIN p = DOMAIN NewPort
            /\ p.name = q.name /\ p.port = q.port /\ p.targetPort = q.targetPort
            /\ p.nodePort = OwnNodePort(old, s, i)
<1>1. CASE i = 1
  BY <1>1 DEF PortAt, PrimaryPort, NewPort, Asked, OwnNodePort
<1>2. CASE i # 1
  BY <1>2 DEF PortAt, AdditionalPort, NewPort, Asked, OwnNodePort
<1> QED
  BY <1>1, <1>2

\* ... and the first one of a headless Service has none.
LEMMA HeadlessPort ==
  ASSUME NEW old, NEW s, NEW i \in Int
  PROVE  /\ PortAt(old, s, TRUE, i).name = PortAt(NewService, s, FALSE, i).name
         /\ i = 1 => PortAt(old, s, TRUE, i).nodePort = 0
         /\ i # 1 => PortAt(old, s, TRUE, i).nodePort = OwnNodePort(old, s, i)
<1>1. CASE i = 1
  <2>1. \A o, t, a : NodePort(o, t, a, TRUE) = 0
    BY DEF NodePort
  <2> QED
    BY <1>1, <2>1 DEF PortAt, PrimaryPort, NewPort
<1>2. CASE i # 1
  BY <1>2 DEF PortAt, AdditionalPort, NewPort, Asked, OwnNodePort
<1> QED
  BY <1>1, <1>2

\* What a node port is.
LEMMA NodePorts ==
  ASSUME NEW old, NEW s, NEW i
  PROVE  /\ s.service.type = "ClusterIP" => OwnNodePort(old, s, i) = 0
         /\ s.service.type = "NodePort" /\ Asked(s, i) # 0 => OwnNodePort(old, s, i) = Asked(s, i)
         /\ s.service.type # "ClusterIP" /\ ~(s.service.type = "NodePort" /\ Asked(s, i) # 0) =>
              OwnNodePort(old, s, i) = At(old, i).nodePort
<1> DEFINE type == s.service.type
           asked == Asked(s, i)
           was == At(old, i).nodePort
<1>1. OwnNodePort(old, s, i) = CASE type = "ClusterIP" -> 0
                                 [] type = "NodePort" /\ asked # 0 -> asked
                                 [] OTHER -> was
  BY DEF OwnNodePort, NodePort
<1>2. "ClusterIP" # "NodePort"
  OBVIOUS
<1> HIDE DEF type, asked, was
<1> QED
  BY <1>1, <1>2 DEF type, asked, was

\* A position that is not there has no node port.
LEMMA OldNodePort ==
  ASSUME NEW old, NEW i, At(old, i).nodePort # 0
  PROVE  i \in DOMAIN old.ports /\ At(old, i) = old.ports[i]
BY DEF At, NewPort

\* What is asked for is a node port of the specification.
LEMMA AskedListed ==
  ASSUME NEW s, Defaulted(s), NEW i \in 1 .. Len(s.service.ports) + 1
  PROVE  Asked(s, i) \in AskedNodePorts(s)
<1>1. Len(s.service.ports) \in Nat /\ DOMAIN s.service.ports = 1 .. Len(s.service.ports)
  BY ListIndices DEF Defaulted
<1>2. CASE i = 1
  BY <1>2 DEF Asked, AskedNodePorts
<1>3. CASE i # 1
  <2>1. i - 1 \in DOMAIN s.service.ports
    BY <1>1, <1>3
  <2> QED
    BY <1>3, <2>1 DEF Asked, AskedNodePorts, ToSet
<1> QED
  BY <1>2, <1>3

\* A Service is accepted when a new one is, unless a port inherits a node port that
\* another asks for.
LEMMA ServiceFits ==
  ASSUME NEW old, DOMAIN old = DOMAIN NewService, ServiceAccepted(old),
         NEW s, Defaulted(s), NEW r, NEW o,
         ServiceAccepted(Customize("Service", NewService, s, r)),
         s.service.type = "NodePort" =>
           \A p \in ToSet(old.ports) : p.nodePort # 0 => p.nodePort \notin AskedNodePorts(s)
  PROVE  ServiceAccepted(Stored("Service", o, Customize("Service", old, s, r)))
<1> DEFINE new   == Customize("Service", old, s, r)
           fresh == Customize("Service", NewService, s, r)
           stored == Stored("Service", o, new)
           N == new.ports
           F == fresh.ports
           type == s.service.type
           n == Len(s.service.ports) + 1
<1>1. n \in Nat \ {0}
  BY ListIndices DEF Defaulted
<1>2. /\ DOMAIN new = DOMAIN NewService /\ IsList(N) /\ DOMAIN N = 1 .. n
      /\ \A i \in 1 .. n : N[i] = PortAt(old, s, FALSE, i)
      /\ new.type = type
  <2>1. ~Headless("Service") /\ "Service" \in {"Service", "Headless"}
    BY DEF Headless
  <2>2. /\ DOMAIN new = DOMAIN NewService /\ IsList(N) /\ Len(N) = n
        /\ \A i \in DOMAIN N : N[i] = PortAt(old, s, Headless("Service"), i)
        /\ new.type = IF Headless("Service") THEN "ClusterIP" ELSE type
    BY <2>1, ServiceComputed
  <2>3. DOMAIN N = 1 .. n
    BY <2>2, ListIndices
  <2>4. Headless("Service") = FALSE
    BY DEF Headless
  <2> HIDE DEF new, N
  <2> QED
    BY <2>2, <2>3, <2>4
<1>3. /\ DOMAIN F = 1 .. n /\ fresh.type = type
      /\ \A i \in 1 .. n : F[i] = PortAt(NewService, s, FALSE, i)
  <2>1. ~Headless("Service") /\ "Service" \in {"Service", "Headless"}
    BY DEF Headless
  <2>2. /\ IsList(F) /\ Len(F) = n
        /\ \A i \in DOMAIN F : F[i] = PortAt(NewService, s, Headless("Service"), i)
        /\ fresh.type = IF Headless("Service") THEN "ClusterIP" ELSE type
    BY <2>1, ServiceComputed
  <2>3. DOMAIN F = 1 .. n
    BY <2>2, ListIndices
  <2>4. Headless("Service") = FALSE
    BY DEF Headless
  <2> HIDE DEF fresh, F
  <2> QED
    BY <2>2, <2>3, <2>4
<1>4. \A i \in 1 .. n : \A j \in 1 .. i - 1 :
         /\ j \in 1 .. n /\ F[i].name # F[j].name
         /\ F[i].nodePort # 0 => F[i].nodePort # F[j].nodePort
  <2>1. \A i \in 1 .. n : \A j \in 1 .. i - 1 :
         /\ F[i].name # F[j].name
         /\ F[i].nodePort # 0 => F[i].nodePort # F[j].nodePort
    <3> HIDE DEF fresh
    <3> QED
      BY <1>3 DEF ServiceAccepted, fresh
  <2>2. \A i \in 1 .. n : \A j \in 1 .. i - 1 : j \in 1 .. n
    BY <1>1
  <2> QED
    BY <2>1, <2>2
<1>5. stored = IF type # "ClusterIP" THEN [new EXCEPT !.ports = Allocated(N)] ELSE new
  <2>1. stored = IF new.type # "ClusterIP" THEN [new EXCEPT !.ports = Allocated(N)] ELSE new
    BY DEF Stored
  <2> HIDE DEF new, stored
  <2> QED
    BY <1>2, <2>1
<1> SUFFICES ServiceAccepted(stored)
  OBVIOUS
<1> HIDE DEF new, fresh, stored, N, F
<1>6. /\ \A i \in 1 .. n : N[i].name = F[i].name /\ DOMAIN N[i] = DOMAIN NewPort
      /\ \A i \in 1 .. n : N[i].nodePort = OwnNodePort(old, s, i)
      /\ \A i \in 1 .. n : F[i].nodePort = OwnNodePort(NewService, s, i)
  <2> SUFFICES ASSUME NEW i \in 1 .. n
               PROVE  /\ N[i].name = F[i].name /\ DOMAIN N[i] = DOMAIN NewPort
                      /\ N[i].nodePort = OwnNodePort(old, s, i)
                      /\ F[i].nodePort = OwnNodePort(NewService, s, i)
    OBVIOUS
  <2>2. N[i] = PortAt(old, s, FALSE, i) /\ F[i] = PortAt(NewService, s, FALSE, i)
    BY <1>2, <1>3
  <2>3. /\ DOMAIN PortAt(old, s, FALSE, i) = DOMAIN NewPort
        /\ PortAt(old, s, FALSE, i).name = PortAt(NewService, s, FALSE, i).name
        /\ PortAt(old, s, FALSE, i).nodePort = OwnNodePort(old, s, i)
    BY PlainPort
  <2>4. PortAt(NewService, s, FALSE, i).nodePort = OwnNodePort(NewService, s, i)
    BY PlainPort
  <2> QED
    BY <2>2, <2>3, <2>4
<1>7. ASSUME NEW i \in 1 .. n, NEW j \in 1 .. n, j < i, N[i].nodePort # 0, type # "ClusterIP"
      PROVE  N[i].nodePort # N[j].nodePort
  <2> SUFFICES ASSUME N[i].nodePort = N[j].nodePort PROVE FALSE
    OBVIOUS
  <2> DEFINE A(k) == type = "NodePort" /\ Asked(s, k) # 0
  <2>1. \A k \in 1 .. n : IF A(k) THEN N[k].nodePort = Asked(s, k) /\ F[k].nodePort = Asked(s, k)
                                       /\ Asked(s, k) # 0
                          ELSE N[k].nodePort = At(old, k).nodePort
    BY <1>6, <1>7, NodePorts
  <2>2. \A k \in 1 .. n : Asked(s, k) \in AskedNodePorts(s)
    BY AskedListed
  <2>3. \A k \in 1 .. n : ~A(k) /\ N[k].nodePort # 0 =>
           k \in DOMAIN old.ports /\ N[k].nodePort = old.ports[k].nodePort
           /\ old.ports[k] \in ToSet(old.ports)
    <3> SUFFICES ASSUME NEW k \in 1 .. n, ~A(k), N[k].nodePort # 0
                 PROVE  k \in DOMAIN old.ports /\ N[k].nodePort = old.ports[k].nodePort
                        /\ old.ports[k] \in ToSet(old.ports)
      OBVIOUS
    <3>1. N[k].nodePort = At(old, k).nodePort
      BY <2>1
    <3> HIDE DEF A
    <3>2. k \in DOMAIN old.ports /\ At(old, k) = old.ports[k]
      BY <3>1, OldNodePort
    <3> QED
      BY <3>1, <3>2 DEF ToSet
  <2>4. j \in 1 .. i - 1
    BY <1>1, <1>7
  <2>5. CASE A(i) /\ A(j)
    <3> HIDE DEF A
    <3> QED
      BY <1>4, <2>1, <2>4, <2>5
  <2>6. CASE ~A(i) /\ ~A(j)
    <3>1. i \in DOMAIN old.ports /\ j \in 1 .. i - 1 /\ old.ports[i].nodePort # 0
          /\ old.ports[i].nodePort = old.ports[j].nodePort
      <4> HIDE DEF A
      <4> QED
        BY <1>7, <2>3, <2>4, <2>6
    <3> QED
      BY <3>1 DEF ServiceAccepted
  <2>7. \A k, m \in 1 .. n : A(k) /\ ~A(m) => N[k].nodePort # N[m].nodePort
    <3> SUFFICES ASSUME NEW k \in 1 .. n, NEW m \in 1 .. n, A(k), ~A(m),
                        N[k].nodePort = N[m].nodePort
                 PROVE  FALSE
      OBVIOUS
    <3>1. type = "NodePort"
      OBVIOUS
    <3> HIDE DEF A
    <3>2. N[m].nodePort # 0 /\ N[m].nodePort = Asked(s, k)
      BY <2>1
    <3>3. N[m].nodePort = old.ports[m].nodePort /\ old.ports[m] \in ToSet(old.ports)
      BY <2>3, <3>2
    <3> QED
      BY <2>2, <3>1, <3>2, <3>3
  <2> HIDE DEF A
  <2> QED
    BY <2>5, <2>6, <2>7
<1>8. CASE type = "ClusterIP"
  <2>1. \A i \in 1 .. n : N[i].nodePort = 0
    BY <1>6, <1>8, NodePorts
  <2>2. stored.ports = N
    BY <1>5, <1>8 DEF N
  <2> QED
    BY <1>2, <1>4, <1>6, <2>1, <2>2 DEF ServiceAccepted
<1>9. CASE type # "ClusterIP"
  <2> DEFINE P == Allocated(N)
  <2>1. /\ DOMAIN P = 1 .. n
        /\ \A i \in 1 .. n : P[i] = IF N[i].nodePort # 0 THEN N[i]
                                    ELSE [N[i] EXCEPT !.nodePort = NextFree(N, i)]
    BY <1>2, AllocatedList
  <2>2. stored.ports = P /\ stored.type = type
    <3>1. {"ports", "type"} \subseteq DOMAIN new
      BY <1>2 DEF NewService
    <3> HIDE DEF P
    <3>2. stored = [new EXCEPT !.ports = P]
      BY <1>5, <1>9 DEF P
    <3> QED
      BY <1>2, <3>1, <3>2
  <2> HIDE DEF P
  <2>3. \A i \in 1 .. n : P[i].name = F[i].name
    <3> SUFFICES ASSUME NEW i \in 1 .. n PROVE P[i].name = F[i].name
      OBVIOUS
    <3>1. "name" \in DOMAIN N[i]
      BY <1>6 DEF NewPort
    <3>2. N[i].name = F[i].name
      BY <1>6
    <3> QED
      BY <2>1, <3>1, <3>2
  <2>4. \A i \in 1 .. n : P[i].nodePort = IF N[i].nodePort # 0 THEN N[i].nodePort ELSE NextFree(N, i)
    <3> SUFFICES ASSUME NEW i \in 1 .. n
                 PROVE  P[i].nodePort = IF N[i].nodePort # 0 THEN N[i].nodePort ELSE NextFree(N, i)
      OBVIOUS
    <3>1. "nodePort" \in DOMAIN N[i]
      BY <1>6 DEF NewPort
    <3> QED
      BY <2>1, <3>1
  <2>5. \A i, j \in 1 .. n : N[i].nodePort = 0 /\ N[j].nodePort # 0 => NextFree(N, i) # N[j].nodePort
    <3> SUFFICES ASSUME NEW i \in 1 .. n, NEW j \in 1 .. n, N[i].nodePort = 0, N[j].nodePort # 0
                 PROVE  NextFree(N, i) # N[j].nodePort
      OBVIOUS
    <3>1. NextFree(N, i) \in Free(N)
      BY <1>2, PortsSuffice
    <3>2. N[j] \in ToSet(N)
      BY <1>2 DEF ToSet
    <3> QED
      BY <3>1, <3>2 DEF Free
  <2>6. \A i, j \in 1 .. n : N[i].nodePort = 0 /\ N[j].nodePort = 0 /\ j < i =>
            NextFree(N, i) # NextFree(N, j)
    BY <1>2, PortsDiffer
  <2>7. \A i \in 1 .. n : \A j \in 1 .. i - 1 : P[i].nodePort # P[j].nodePort
    <3> SUFFICES ASSUME NEW i \in 1 .. n, NEW j \in 1 .. i - 1 PROVE P[i].nodePort # P[j].nodePort
      OBVIOUS
    <3>1. j \in 1 .. n /\ j < i
      BY <1>1
    <3> HIDE DEF type, n
    <3> QED
      BY <1>7, <1>9, <2>4, <2>5, <2>6, <3>1
  <2>8. \A i \in 1 .. n : \A j \in 1 .. i - 1 : P[i].name # P[j].name
    BY <1>4, <2>3
  <2> QED
    BY <1>9, <2>1, <2>2, <2>7, <2>8 DEF ServiceAccepted
<1> QED
  BY <1>8, <1>9

\* The headless Service is accepted when a new Service with an address is, unless a
\* node port is asked for an additional port.
LEMMA HeadlessFits ==
  ASSUME NEW old, DOMAIN old = DOMAIN NewService, ServiceAccepted(old), old.type = "ClusterIP",
         NEW s, Defaulted(s), NEW r, NEW o,
         ServiceAccepted(Customize("Service", NewService, s, r)),
         s.service.type = "NodePort" => \A p \in ToSet(s.service.ports) : p.nodePort = 0
  PROVE  ServiceAccepted(Stored("Headless", o, Customize("Headless", old, s, r)))
<1> DEFINE new   == Customize("Headless", old, s, r)
           fresh == Customize("Service", NewService, s, r)
           N == new.ports
           F == fresh.ports
           n == Len(s.service.ports) + 1
<1>1. n \in Nat \ {0} /\ DOMAIN s.service.ports = 1 .. n - 1
  BY ListIndices DEF Defaulted
<1>2. /\ DOMAIN N = 1 .. n /\ new.type = "ClusterIP"
      /\ \A i \in 1 .. n : N[i] = PortAt(old, s, TRUE, i)
  <2>1. Headless("Headless") = TRUE
    BY DEF Headless
  <2>2. /\ IsList(N) /\ Len(N) = n
        /\ \A i \in DOMAIN N : N[i] = PortAt(old, s, Headless("Headless"), i)
        /\ new.type = IF Headless("Headless") THEN "ClusterIP" ELSE s.service.type
    BY ServiceComputed
  <2>3. DOMAIN N = 1 .. n
    BY <2>2, ListIndices
  <2> HIDE DEF new, N
  <2> QED
    BY <2>1, <2>2, <2>3
<1>3. /\ DOMAIN F = 1 .. n
      /\ \A i \in 1 .. n : F[i] = PortAt(NewService, s, FALSE, i)
  <2>1. Headless("Service") = FALSE
    BY DEF Headless
  <2>2. /\ IsList(F) /\ Len(F) = n
        /\ \A i \in DOMAIN F : F[i] = PortAt(NewService, s, Headless("Service"), i)
    BY ServiceComputed
  <2>3. DOMAIN F = 1 .. n
    BY <2>2, ListIndices
  <2> HIDE DEF fresh, F
  <2> QED
    BY <2>1, <2>2, <2>3
<1>4. \A i \in 1 .. n : \A j \in 1 .. i - 1 : j \in 1 .. n /\ F[i].name # F[j].name
  <2>1. \A i \in 1 .. n : \A j \in 1 .. i - 1 : F[i].name # F[j].name
    <3> HIDE DEF fresh
    <3> QED
      BY <1>3 DEF ServiceAccepted, fresh
  <2>2. \A i \in 1 .. n : \A j \in 1 .. i - 1 : j \in 1 .. n
    BY <1>1
  <2> QED
    BY <2>1, <2>2
<1>5. Stored("Headless", o, new) = new
  <2>1. new.type = "ClusterIP"
    BY <1>2
  <2> HIDE DEF new
  <2> QED
    BY <2>1 DEF Stored
<1> SUFFICES ServiceAccepted(new)
  BY <1>5
<1> HIDE DEF new, fresh, N, F
<1>6. ASSUME NEW i \in 1 .. n PROVE N[i].name = F[i].name
  <2>1. N[i] = PortAt(old, s, TRUE, i) /\ F[i] = PortAt(NewService, s, FALSE, i)
    BY <1>2, <1>3
  <2>2. PortAt(old, s, TRUE, i).name = PortAt(NewService, s, FALSE, i).name
    <3>1. i \in Int
      BY <1>1
    <3> QED
      BY <3>1, HeadlessPort
  <2> QED
    BY <2>1, <2>2
<1>7. ASSUME NEW i \in 1 .. n PROVE N[i].nodePort = 0
  <2>1. /\ i = 1 => N[i].nodePort = 0
        /\ i # 1 => N[i].nodePort = OwnNodePort(old, s, i)
    <3>1. N[i] = PortAt(old, s, TRUE, i)
      BY <1>2
    <3>2. /\ i = 1 => PortAt(old, s, TRUE, i).nodePort = 0
          /\ i # 1 => PortAt(old, s, TRUE, i).nodePort = OwnNodePort(old, s, i)
      <4>1. i \in Int
        BY <1>1
      <4> QED
        BY <4>1, HeadlessPort
    <3> QED
      BY <3>1, <3>2
  <2>2. At(old, i).nodePort = 0
    <3> SUFFICES ASSUME At(old, i).nodePort # 0 PROVE FALSE
      OBVIOUS
    <3>1. i \in DOMAIN old.ports /\ At(old, i) = old.ports[i]
      BY OldNodePort
    <3> QED
      BY <3>1 DEF ServiceAccepted
  <2>3. i # 1 /\ s.service.type = "NodePort" => Asked(s, i) = 0
    <3> SUFFICES ASSUME i # 1, s.service.type = "NodePort" PROVE Asked(s, i) = 0
      OBVIOUS
    <3>1. i - 1 \in DOMAIN s.service.ports
      BY <1>1
    <3>2. s.service.ports[i - 1] \in ToSet(s.service.ports)
      BY <3>1 DEF ToSet
    <3> QED
      BY <3>2 DEF Asked
  <2> QED
    BY <2>1, <2>2, <2>3, NodePorts
<1> QED
  BY <1>2, <1>4, <1>6, <1>7 DEF ServiceAccepted, N

\* The names in a list of volumes, claims or mounts.
Names(list) == {list[i].name : i \in DOMAIN list}

\* A pod that mounts the same, and has the volumes, is accepted as well.
LEMMA PodsAlike ==
  ASSUME NEW p, NEW q, p.mounts = q.mounts, p.volumes = q.volumes, NEW c, NEW d,
         Names(c) \subseteq Names(d), PodAccepted(p, c)
  PROVE  PodAccepted(q, d)
<1> DEFINE names(list) == {list[i].name : i \in DOMAIN list}
<1>1. /\ names(p.mounts) \subseteq names(p.volumes) \cup names(c)
      /\ \A i, j \in DOMAIN p.mounts : p.mounts[i].path = p.mounts[j].path => i = j
      /\ \A i, j \in DOMAIN p.volumes : p.volumes[i].name = p.volumes[j].name => i = j
  BY Zenon DEF PodAccepted
<1>2. names(q.mounts) \subseteq names(q.volumes) \cup names(d)
  <2>1. names(q.mounts) = names(p.mounts) /\ names(q.volumes) = names(p.volumes)
        /\ names(c) \subseteq names(d)
    BY DEF Names
  <2> HIDE DEF names
  <2> QED
    BY <1>1, <2>1
<1>3. /\ \A i, j \in DOMAIN q.mounts : q.mounts[i].path = q.mounts[j].path => i = j
      /\ \A i, j \in DOMAIN q.volumes : q.volumes[i].name = q.volumes[j].name => i = j
  BY <1>1
<1> QED
  BY <1>2, <1>3, Zenon DEF PodAccepted

\* What a pod mounts and has does not depend on the template there was.
LEMMA PodsMount ==
  ASSUME NEW old, DOMAIN old = DOMAIN NewPod, NEW s, NEW r
  PROVE  LET n == PodOf(old, s, r)
         IN /\ DOMAIN n = DOMAIN NewPod
            /\ n.mounts = s.mounts \o CertificateMount(s)
            /\ n.volumes = s.volumes \o CertificateVolume(s, r)
<1> DEFINE m == CustomizePodSpec(old, s, r)
           n == PodOf(old, s, r)
<1>1. {"mounts", "volumes"} \subseteq DOMAIN NewPod
  BY DEF NewPod
<1>2. ComputedFrom(m, old, s, r)
  BY PodSpecComputed
<1>3. DOMAIN n = DOMAIN NewPod /\ n.mounts = m.mounts /\ n.volumes = m.volumes
  <2>1. DOMAIN n = DOMAIN NewPod /\ \A f \in DOMAIN NewPod : f # "annotations" => n[f] = m[f]
    BY PodComputed
  <2> QED
    BY <1>1, <2>1
<1> HIDE DEF m, n
<1>4. n.mounts = s.mounts \o CertificateMount(s) /\ n.volumes = s.volumes \o CertificateVolume(s, r)
  BY <1>2, <1>3 DEF ComputedFrom
<1> QED
  BY <1>3, <1>4 DEF n

\* A Deployment is accepted when a new one is.
LEMMA DeploymentFits ==
  ASSUME NEW old, DOMAIN old = DOMAIN NewDeployment, FormedPod(old.pod), NEW s, NEW r, NEW o,
         PodAccepted(Customize("Deployment", NewDeployment, s, r).pod, <<>>)
  PROVE  PodAccepted(Stored("Deployment", o, Customize("Deployment", old, s, r)).pod, <<>>)
<1> DEFINE new == Customize("Deployment", old, s, r)
           fresh == Customize("Deployment", NewDeployment, s, r)
<1>1. {"labels", "annotations", "replicas", "strategy", "pod"} \subseteq DOMAIN NewDeployment
      /\ NewDeployment.pod = NewPod
  BY DEF NewDeployment
<1>2. new.pod = PodOf(old.pod, s, r) /\ fresh.pod = PodOf(NewPod, s, r)
  <2>1. \A d : Customize("Deployment", d, s, r) = Workload(d, s, r, cluster, s.deployment)
    BY DEF Customize, CustomizeDeployment
  <2>2. Workload(old, s, r, cluster, s.deployment).pod = PodOf(old.pod, s, r)
    BY <1>1, WorkloadComputed
  <2>3. Workload(NewDeployment, s, r, cluster, s.deployment).pod = PodOf(NewPod, s, r)
    BY <1>1, WorkloadComputed
  <2> QED
    BY <2>1, <2>2, <2>3
<1>3. new.pod.mounts = fresh.pod.mounts /\ new.pod.volumes = fresh.pod.volumes
  <2>1. /\ PodOf(old.pod, s, r).mounts = PodOf(NewPod, s, r).mounts
        /\ PodOf(old.pod, s, r).volumes = PodOf(NewPod, s, r).volumes
    <3>1. DOMAIN old.pod = DOMAIN NewPod
      BY DEF FormedPod
    <3>2. /\ PodOf(old.pod, s, r).mounts = s.mounts \o CertificateMount(s)
          /\ PodOf(old.pod, s, r).volumes = s.volumes \o CertificateVolume(s, r)
      BY <3>1, PodsMount
    <3>3. /\ PodOf(NewPod, s, r).mounts = s.mounts \o CertificateMount(s)
          /\ PodOf(NewPod, s, r).volumes = s.volumes \o CertificateVolume(s, r)
      BY PodsMount
    <3> QED
      BY <3>2, <3>3
  <2> HIDE DEF new, fresh
  <2> QED
    BY <1>2, <2>1
<1>4. Stored("Deployment", o, new) = new
  <2> HIDE DEF new
  <2> QED
    BY DEF Stored
<1> HIDE DEF new, fresh
<1>5. PodAccepted(new.pod, <<>>)
  BY <1>3, PodsAlike DEF fresh
<1> QED
  BY <1>4, <1>5 DEF new

\* A StatefulSet is accepted when a new one is, unless it has no claim to mount or
\* one of another name.
LEMMA StatefulSetFits ==
  ASSUME NEW old, DOMAIN old = DOMAIN NewStatefulSet, Formed("StatefulSet", old),
         NEW s, NEW r, NEW o, o # Nil => o = old, o = Nil => old = NewStatefulSet,
         LET fresh == Customize("StatefulSet", NewStatefulSet, s, r)
         IN PodAccepted(fresh.pod, fresh.claims),
         o # Nil /\ s.statefulSet.storage # Nil =>
           old.claims # <<>> /\ old.claims[1].name = ClaimTemplate(s).name
  PROVE  LET stored == Stored("StatefulSet", o, Customize("StatefulSet", old, s, r))
         IN PodAccepted(stored.pod, stored.claims) /\ (o # Nil => o.claims = stored.claims)
<1> DEFINE w(d) == Workload(d, s, r, cluster, s.statefulSet)
           n(d) == Customize("StatefulSet", d, s, r)
<1>1. {"labels", "annotations", "replicas", "strategy", "pod", "claims"} \subseteq DOMAIN NewStatefulSet
      /\ NewStatefulSet.pod = NewPod /\ NewStatefulSet.claims = <<>>
  BY DEF NewStatefulSet
<1>2. ASSUME NEW d, DOMAIN d = DOMAIN NewStatefulSet, DOMAIN d.pod = DOMAIN NewPod
      PROVE  LET mounts == s.mounts \o CertificateMount(s)
                 claims == ClaimsOf(d.claims, s)
             IN /\ n(d).pod.volumes = s.volumes \o CertificateVolume(s, r)
                /\ s.statefulSet.storage = Nil =>
                     n(d).claims = d.claims /\ n(d).pod.mounts = mounts
                /\ s.statefulSet.storage # Nil =>
                     n(d).claims = claims /\ n(d).pod.mounts = MountsOf(mounts, claims[1].name, s)
  <2> DEFINE x == w(d)
             y == n(d)
             claims == ClaimsOf(d.claims, s)
  <2>1. DOMAIN x = DOMAIN NewStatefulSet /\ x.pod = PodOf(d.pod, s, r) /\ x.claims = d.claims
    BY <1>1, <1>2, WorkloadComputed
  <2>2. /\ DOMAIN PodOf(d.pod, s, r) = DOMAIN NewPod
        /\ PodOf(d.pod, s, r).mounts = s.mounts \o CertificateMount(s)
        /\ PodOf(d.pod, s, r).volumes = s.volumes \o CertificateVolume(s, r)
    BY <1>2, PodsMount
  <2>3. y = CustomizePersistence(x, s)
    BY DEF Customize, CustomizeStatefulSet
  <2> HIDE DEF x, y
  <2>4. DOMAIN x.pod = DOMAIN NewPod /\ x.pod.mounts = s.mounts \o CertificateMount(s)
        /\ x.pod.volumes = s.volumes \o CertificateVolume(s, r)
    BY <2>1, <2>2
  <2>5. /\ \A f \in DOMAIN NewPod : f # "mounts" => y.pod[f] = x.pod[f]
        /\ s.statefulSet.storage = Nil =>
                 y.claims = x.claims /\ y.pod.mounts = x.pod.mounts
        /\ s.statefulSet.storage # Nil =>
                 y.claims = ClaimsOf(x.claims, s)
                 /\ y.pod.mounts = MountsOf(x.pod.mounts, ClaimsOf(x.claims, s)[1].name, s)
    <3>1. PersistedFrom(y, x, s)
      BY <2>1, <2>3, <2>4, PersistenceComputed
    <3> QED
      BY <3>1 DEF PersistedFrom
  <2>6. "volumes" \in DOMAIN NewPod
    BY DEF NewPod
  <2>7. y.pod.volumes = s.volumes \o CertificateVolume(s, r)
    BY <2>4, <2>5, <2>6
  <2> QED
    BY <2>1, <2>4, <2>5, <2>7 DEF y
<1>3. DOMAIN old.pod = DOMAIN NewPod
  BY DEF Formed, FormedPod
<1> DEFINE new == n(old)
           fresh == n(NewStatefulSet)
           mounts == s.mounts \o CertificateMount(s)
           template == ClaimTemplate(s)
<1>4. Stored("StatefulSet", o, new) = new
  <2> HIDE DEF n
  <2> QED
    BY DEF Stored
<1>5. /\ new.pod.volumes = fresh.pod.volumes
      /\ s.statefulSet.storage = Nil =>
           /\ new.claims = old.claims /\ fresh.claims = <<>>
           /\ new.pod.mounts = fresh.pod.mounts
      /\ s.statefulSet.storage # Nil =>
           /\ new.claims = ClaimsOf(old.claims, s) /\ fresh.claims = ClaimsOf(<<>>, s)
           /\ new.pod.mounts = MountsOf(mounts, ClaimsOf(old.claims, s)[1].name, s)
           /\ fresh.pod.mounts = MountsOf(mounts, ClaimsOf(<<>>, s)[1].name, s)
  <2>1. DOMAIN NewStatefulSet.pod = DOMAIN NewPod
    BY <1>1
  <2> HIDE DEF n, mounts
  <2> QED
    BY <1>1, <1>2, <1>3, <2>1 DEF mounts
<1>6. ClaimsOf(<<>>, s) = <<template>> /\ <<template>>[1] = template /\ DOMAIN <<template>> = {1}
  BY DEF ClaimsOf
<1>7. PodAccepted(fresh.pod, fresh.claims)
  OBVIOUS
<1> SUFFICES PodAccepted(new.pod, new.claims) /\ (o # Nil => o.claims = new.claims)
  BY <1>4
<1> HIDE DEF new, fresh, n, w, mounts, template
<1>8. CASE s.statefulSet.storage = Nil
  <2>1. Names(fresh.claims) \subseteq Names(new.claims)
    <3>1. DOMAIN fresh.claims = {}
      BY <1>5, <1>8
    <3> QED
      BY <3>1 DEF Names
  <2>2. PodAccepted(new.pod, new.claims)
    BY <1>5, <1>7, <1>8, <2>1, PodsAlike
  <2> QED
    BY <1>5, <1>8, <2>2
<1>9. CASE s.statefulSet.storage # Nil
  <2>1. CASE o = Nil
    <3>1. new = fresh
      BY <2>1 DEF new, fresh
    <3> QED
      BY <1>7, <2>1, <3>1
  <2>2. CASE o # Nil
    <3>1. old.claims # <<>> /\ old.claims[1].name = template.name /\ old.claims = <<old.claims[1]>>
      BY <1>9, <2>2 DEF Formed, template
    <3>2. ClaimsOf(old.claims, s) = old.claims
      BY <3>1 DEF ClaimsOf
    <3>3. new.claims = old.claims /\ new.pod.mounts = fresh.pod.mounts
          /\ fresh.claims = <<template>>
      BY <1>5, <1>6, <1>9, <3>1, <3>2
    <3>4. Names(fresh.claims) \subseteq Names(new.claims)
      <4>1. 1 \in DOMAIN old.claims
        BY <3>1
      <4> QED
        BY <1>6, <3>1, <3>3, <4>1 DEF Names
    <3>5. PodAccepted(new.pod, new.claims)
      BY <1>5, <1>7, <3>3, <3>4, PodsAlike
    <3> QED
      BY <2>2, <3>3, <3>5
  <2> QED
    BY <2>1, <2>2
<1> QED
  BY <1>8, <1>9

\* The limits of an Autoscaler are those of the specification.
LEMMA Limits ==
  ASSUME NEW old, DOMAIN old = DOMAIN NewHPA, NEW s, NEW r
  PROVE  /\ Customize("HPA", old, s, r).min = s.autoscaling.min
         /\ Customize("HPA", old, s, r).max = s.autoscaling.max
<1> DEFINE l == Labelled(old, s)
<1>1. DOMAIN l = DOMAIN NewHPA
  BY LabelledFields
<1>2. {"min", "max", "behavior", "metrics", "target"} \subseteq DOMAIN l
  BY <1>1 DEF NewHPA
<1> DEFINE x == Customize("HPA", old, s, r)
           a == s.autoscaling.min
           b == s.autoscaling.max
<1>3. \E c, d, e : x = [l EXCEPT !.min = a, !.max = b,
                                 !.behavior = c, !.metrics = d, !.target = e]
  BY DEF Customize, CustomizeHPA
<1> HIDE DEF l, x, a, b
<1>4. x.min = a /\ x.max = b
  BY <1>2, <1>3
<1> QED
  BY <1>4 DEF x, a, b

\* What is refused is explained.
LEMMA Explained == Typed /\ Complete /\ AllFormed => RejectionsExplained
<1> SUFFICES ASSUME Typed, Complete, AllFormed, AtObject,
                    Acceptable(Kind, held.spec, held.refs), ~Accepted(Kind, Old, Result)
             PROVE  \/ Kind = "Headless" /\ held.spec.service.type = "NodePort"
                       /\ \E p \in ToSet(held.spec.service.ports) : p.nodePort # 0
                    \/ Kind = "Service" /\ Old # Nil /\ held.spec.service.type = "NodePort"
                       /\ \E p \in ToSet(Old.ports) :
                            p.nodePort # 0 /\ p.nodePort \in AskedNodePorts(held.spec)
                    \/ Kind = "StatefulSet" /\ Old # Nil /\ held.spec.statefulSet.storage # Nil
                       /\ (Old.claims = <<>> \/ Old.claims[1].name # ClaimTemplate(held.spec).name)
  BY DEF RejectionsExplained
<1> DEFINE s == held.spec
           r == held.refs
           start == Starting
           old == Old
<1>1. /\ DOMAIN start = DOMAIN Empty(Kind)
      /\ Kind \in {"Deployment", "StatefulSet"} => Formed(Kind, start)
      /\ old # Nil => Formed(Kind, old) /\ start = old
      /\ Kind \in ManagedKinds
  BY StartingFormed
<1>2. Defaulted(s)
  BY UnderWay DEF Complete, Typed
<1>3. Result = Stored(Kind, old, Customize(Kind, start, s, r))
  BY DEF Result, Computed
<1>4. old = Nil => start = Empty(Kind)
  BY DEF Starting
<1>5. Accepted("Service", Nil, Customize("Service", NewService, s, r)) =>
        ServiceAccepted(Customize("Service", NewService, s, r))
  <2> DEFINE x == Customize("Service", NewService, s, r)
  <2> HIDE DEF x
  <2>1. Accepted("Service", Nil, x) => ServiceAccepted(x)
    BY DEF Accepted
  <2> QED
    BY <2>1 DEF x
<1> HIDE DEF s, r, start, old
<1>6. CASE Kind = "Service"
  <2>1. ServiceAccepted(Customize("Service", NewService, s, r))
    BY <1>5, <1>6 DEF Acceptable, Empty, s, r
  <2>2. DOMAIN start = DOMAIN NewService /\ ServiceAccepted(start)
    <3>1. ServiceAccepted(NewService)
      BY DEF ServiceAccepted, NewService
    <3> QED
      BY <1>1, <1>4, <1>6, <3>1 DEF Empty, Formed
  <2>3. ~ServiceAccepted(Stored("Service", old, Customize("Service", start, s, r)))
    <3> DEFINE x == Stored("Service", old, Customize("Service", start, s, r))
    <3>1. ~Accepted("Service", old, x)
      BY <1>3, <1>6 DEF old
    <3> HIDE DEF x
    <3>2. ~ServiceAccepted(x)
      BY <3>1 DEF Accepted
    <3> QED
      BY <3>2 DEF x
  <2>4. s.service.type = "NodePort" /\ \E p \in ToSet(start.ports) :
            p.nodePort # 0 /\ p.nodePort \in AskedNodePorts(s)
    BY <1>2, <2>1, <2>2, <2>3, ServiceFits
  <2>5. old # Nil
    <3>1. ToSet(NewService.ports) = {}
      BY DEF NewService, ToSet
    <3> QED
      BY <1>4, <1>6, <2>4, <3>1 DEF Empty
  <2> QED
    BY <1>1, <1>6, <2>4, <2>5 DEF s, old
<1>7. CASE Kind = "Headless"
  <2>1. ServiceAccepted(Customize("Service", NewService, s, r))
    BY <1>5, <1>7 DEF Acceptable, Empty, s, r
  <2>2. DOMAIN start = DOMAIN NewService /\ ServiceAccepted(start) /\ start.type = "ClusterIP"
    <3>1. ServiceAccepted(NewService) /\ NewService.type = "ClusterIP"
      BY DEF ServiceAccepted, NewService
    <3> QED
      BY <1>1, <1>4, <1>7, <3>1 DEF Empty, Formed
  <2>3. ~ServiceAccepted(Stored("Headless", old, Customize("Headless", start, s, r)))
    <3> DEFINE x == Stored("Headless", old, Customize("Headless", start, s, r))
    <3>1. ~Accepted("Headless", old, x)
      BY <1>3, <1>7 DEF old
    <3> HIDE DEF x
    <3>2. ~ServiceAccepted(x)
      BY <3>1 DEF Accepted
    <3> QED
      BY <3>2 DEF x
  <2>4. s.service.type = "NodePort" /\ \E p \in ToSet(s.service.ports) : p.nodePort # 0
    BY <1>2, <2>1, <2>2, <2>3, HeadlessFits
  <2> QED
    BY <1>7, <2>4 DEF s
<1>8. CASE Kind = "Deployment"
  <2>1. PodAccepted(Customize("Deployment", NewDeployment, s, r).pod, <<>>)
    <3> DEFINE x == Customize("Deployment", NewDeployment, s, r)
    <3>1. Accepted("Deployment", Nil, x)
      BY <1>8 DEF Acceptable, Empty, s, r
    <3> HIDE DEF x
    <3>2. PodAccepted(x.pod, <<>>)
      BY <3>1 DEF Accepted
    <3> QED
      BY <3>2 DEF x
  <2>2. DOMAIN start = DOMAIN NewDeployment /\ FormedPod(start.pod)
    BY <1>1, <1>8 DEF Empty, Formed
  <2> DEFINE y == Stored("Deployment", old, Customize("Deployment", start, s, r))
  <2>3. PodAccepted(y.pod, <<>>)
    BY <2>1, <2>2, DeploymentFits
  <2>4. ~Accepted("Deployment", old, y)
    BY <1>3, <1>8 DEF old
  <2> HIDE DEF y
  <2> QED
    BY <2>3, <2>4 DEF Accepted
<1>9. CASE Kind = "StatefulSet"
  <2> DEFINE x == Customize("StatefulSet", NewStatefulSet, s, r)
             y == Stored("StatefulSet", old, Customize("StatefulSet", start, s, r))
             fits == old # Nil /\ s.statefulSet.storage # Nil =>
                       start.claims # <<>> /\ start.claims[1].name = ClaimTemplate(s).name
  <2>1. PodAccepted(x.pod, x.claims)
    <3>1. Accepted("StatefulSet", Nil, x)
      BY <1>9 DEF Acceptable, Empty, s, r
    <3> HIDE DEF x
    <3> QED
      BY <3>1 DEF Accepted
  <2>2. /\ DOMAIN start = DOMAIN NewStatefulSet /\ Formed("StatefulSet", start)
        /\ old # Nil => old = start
        /\ old = Nil => start = NewStatefulSet
    BY <1>1, <1>4, <1>9 DEF Empty
  <2>3. fits => PodAccepted(y.pod, y.claims) /\ (old # Nil => old.claims = y.claims)
    BY <2>1, <2>2, StatefulSetFits
  <2>4. ~Accepted("StatefulSet", old, y)
    BY <1>3, <1>9 DEF old
  <2>5. ~fits
    <3> HIDE DEF y, fits
    <3> QED
      BY <2>3, <2>4 DEF Accepted
  <2>6. old # Nil /\ s.statefulSet.storage # Nil
        /\ (old.claims = <<>> \/ old.claims[1].name # ClaimTemplate(s).name)
    BY <2>2, <2>5
  <2> QED
    BY <1>9, <2>6 DEF s, old
<1>10. CASE Kind = "HPA"
  <2> DEFINE x == Customize("HPA", NewHPA, s, r)
             c == Customize("HPA", start, s, r)
             y == Stored("HPA", old, c)
  <2>1. x.min = c.min /\ x.max = c.max
    <3>1. DOMAIN start = DOMAIN NewHPA
      BY <1>1, <1>10 DEF Empty
    <3>2. x.min = s.autoscaling.min /\ x.max = s.autoscaling.max
      BY Limits
    <3>3. c.min = s.autoscaling.min /\ c.max = s.autoscaling.max
      BY <3>1, Limits
    <3> QED
      BY <3>2, <3>3
  <2>2. Accepted("HPA", Nil, x)
    BY <1>10 DEF Acceptable, Empty, s, r
  <2>3. ~Accepted("HPA", old, y)
    BY <1>3, <1>10 DEF old
  <2> HIDE DEF x, c
  <2>4. y = c
    BY DEF Stored
  <2> QED
    BY <2>1, <2>2, <2>3, <2>4 DEF Accepted
<1>11. CASE Kind \notin {"Service", "Headless", "Deployment", "StatefulSet", "HPA"}
  BY <1>11 DEF Accepted
<1> QED
  BY <1>6, <1>7, <1>8, <1>9, <1>10, <1>11

\* The API server refuses what is written only when it would refuse a new object
\* of the same specification, but for the three exceptions.
THEOREM RejectionsAreExplained == Spec => []RejectionsExplained
BY Explained, AlwaysTyped, AlwaysComplete, AlwaysFormed, PTL

============================================================================
