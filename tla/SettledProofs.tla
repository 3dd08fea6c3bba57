---------------------------- MODULE SettledProofs ----------------------------
(***************************************************************************)
(* What a RuntimeComponent that has settled looks like, for every set of   *)
(* specifications, choice of kinds and cluster, and all bounds: the proof  *)
(* of SettledAsDeclared.                                                   *)
(***************************************************************************)
EXTENDS RuntimeComponentProofs

\* Something will start another reconcile.
Pending == queued \/ timer = "retry" \/ gen # seen.gen

\* A reconcile that is past the write that fences off stale copies, and one that is
\* in Program.
Inside == at = "run" \/ (at = "report" /\ step # 0)
Fenced == at \in {"image", "store"} \/ Inside

\* What the copies of the resource are worth: one of the current generation has
\* the current specification, and a reconcile of an older one is not the last.
\* The cluster is known for what it is, unless its discovery failed.
Copies ==
  /\ seen.gen <= gen
  /\ seen.gen = gen => seen.spec = spec
  /\ at # "idle" => /\ held.gen <= gen
                    /\ held.gen = gen => held.spec = spec
                    /\ held.gen # gen => Pending
  /\ at = "discover" => ~held.knative
  /\ at \in {"fence", "report"} \/ Fenced =>
       \/ held.knative = KnativeInstalled
       \/ ~held.knative /\ "KnativeService" \in missed
  /\ Fenced => "badStorage" \notin held.spec
  /\ at = "reject" => "badStorage" \in held.spec
  /\ status.observed = gen => "badStorage" \notin spec

\* The cache differs from what is stored only where an event is on its way, or
\* where an object was created.
Caches ==
  \A k \in WatchedKinds :
    cache[k] # objs[k] => news[k] \/ (cache[k] = Absent /\ objs[k] # Absent)

\* The kinds this cluster has no use for are never created.
Unused(k) ==
  \/ k = "Route" /\ ~OpenShift
  \/ k = "Ingress" /\ OpenShift
  \/ k = "KnativeService" /\ ~KnativeInstalled

Never == \A k \in Kinds : Unused(k) => objs[k] = Absent

\* What becomes of k under the specification s.
Target(k, s, image) == IF k \in Declared(s) THEN Content(k, s, image) ELSE Absent

\* Step i has done its work, if it is taken, or an event will have it looked at
\* again, or an error was swallowed.
DoneBy(i) ==
  LET k == Program[i].kind
  IN Runs(i, held) /\ Program[i].op # "check" /\ k \in WatchedKinds =>
       objs[k] = Target(k, held.spec, held.image) \/ news[k] \/ queued \/ k \in missed

\* So have the steps behind the reconcile.  One that is reported on has failed.
Worked ==
  /\ Inside => \A i \in 1 .. step - 1 : DoneBy(i)
  /\ at = "report" /\ step # 0 => Program[step].kind \in missed

\* The image it works with is the one the specification asks for, or there is an
\* event to say that it is not any more, or it was missed.
ImageKnown ==
  at = "store" \/ Inside =>
    /\ held.image = Image(held.spec) \/ stream.news \/ Pending \/ "image" \in missed
    /\ ~NamesStream(held.spec) => held.image = ApplicationImage(held.spec)

\* The same of the last reconcile, when no other is to come.
Rested ==
  at = "idle" /\ ReportsReconciled /\ ~Pending =>
    /\ \A k \in WatchedKinds \ (Leftovers(spec) \cup missed) :
         objs[k] = Target(k, spec, status.image) \/ news[k]
    /\ status.image = Image(spec) \/ stream.news \/ "image" \in missed
    /\ ~NamesStream(spec) => status.image = ApplicationImage(spec)
-----------------------------------------------------------------------------
\* Step i of Program does op to kind, for the specifications in specs.
Takes(i, op, kind, specs) ==
  Program[i].op = op /\ Program[i].kind = kind /\ Program[i].when = specs

\* What the steps of Program do, whatever they make of an error.
LEMMA StepFieldsOnError ==
  \A op, kind, when, how, how2 :
    LET st == Step(op, kind, when)
    IN /\ OnError(how, st).when = when
       /\ LookedUp(how2, OnError(how, st)).when = when
BY DEF Step, LookedUp, OnError

\* Program as a table.
LEMMA AccountTable ==
  /\ Takes(1, "apply", "ServiceAccount", Without("serviceAccount") \cap Without("sameAccount"))
  /\ Takes(2, "delete", "ServiceAccount", With("serviceAccount"))
  /\ Takes(3, "check", "PullSecret", Specs)
<1>1. \A i \in {1, 2, 3} : Program[i] = AccountSteps[i]
  BY Parts
<1> QED
  BY <1>1, StepFields DEF Takes, AccountSteps, Apply, Delete, Check

\* The steps for a Knative Service, ...
LEMMA KnativeTable ==
  /\ Takes(4, "delete", "Service", Knative)
  /\ Takes(5, "delete", "HeadlessService", Knative)
  /\ Takes(6, "delete", "Deployment", Knative)
  /\ Takes(7, "delete", "StatefulSet", Knative)
  /\ Takes(8, "delete", "HPA", Knative)
  /\ Takes(9, "delete", "NetworkPolicy", Knative)
  /\ Takes(10, "delete", "Ingress", Knative)
  /\ Takes(11, "delete", "Route", If(OpenShift, Knative))
  /\ Takes(12, "apply", "KnativeService", Knative)
<1>1. \A i \in {1, 2, 3, 4, 5, 6, 7, 8, 9} : Program[i + 3] = KnativeSteps[i]
  BY Parts
<1> QED
  BY <1>1, StepFields, StepFieldsOnError DEF Takes, KnativeSteps, Apply, Delete

\* ... those for a workload of another kind, ...
LEMMA WorkloadTable ==
  /\ Takes(13, "delete", "KnativeService", Plain)
  /\ Takes(14, "check", "Certificate", Plain)
  /\ Takes(15, "apply", "Service", Plain)
  /\ Takes(16, "apply", "NetworkPolicy", Plain \cap With("networkPolicy"))
  /\ Takes(17, "delete", "NetworkPolicy", Plain \cap Without("networkPolicy"))
  /\ Takes(18, "apply", "BindingSecret", Plain \cap With("bindable"))
  /\ Takes(19, "delete", "BindingSecret", Plain \cap Without("bindable"))
  /\ Takes(20, "delete", "Deployment", Plain \cap With("statefulSet"))
  /\ Takes(21, "apply", "HeadlessService", Plain \cap With("statefulSet"))
  /\ Takes(22, "apply", "StatefulSet", Plain \cap With("statefulSet"))
  /\ Takes(23, "delete", "StatefulSet", Plain \cap Without("statefulSet"))
  /\ Takes(24, "delete", "HeadlessService", Plain \cap Without("statefulSet"))
  /\ Takes(25, "apply", "Deployment", Plain \cap Without("statefulSet"))
  /\ Takes(26, "apply", "HPA", Plain \cap With("autoscaling"))
  /\ Takes(27, "delete", "HPA", Plain \cap Without("autoscaling"))
<1>1. \A i \in {1, 2, 3, 4, 5, 6, 7, 8, 9, 10, 11, 12, 13, 14, 15} :
        Program[i + 12] = WorkloadSteps[i]
  BY Parts
<1> QED
  BY <1>1, StepFields, StepFieldsOnError DEF Takes, WorkloadSteps, Apply, Delete, Check

\* ... and those that expose and watch it.
LEMMA ExposureTable ==
  /\ Takes(28, "apply", "Route", If(OpenShift, Plain \cap With("expose")))
  /\ Takes(29, "delete", "Route", If(OpenShift, Plain \cap Without("expose")))
  /\ Takes(30, "apply", "Ingress", If(~OpenShift, Plain \cap With("expose")))
  /\ Takes(31, "delete", "Ingress", If(~OpenShift, Plain \cap Without("expose")))
  /\ Takes(32, "apply", "ServiceMonitor", Plain \cap With("monitoring"))
  /\ Takes(33, "delete", "ServiceMonitor", Plain \cap Without("monitoring"))
<1>1. \A i \in {1, 2, 3, 4, 5, 6} : Program[i + 27] = ExposureSteps[i]
  BY Parts
<1> QED
  BY <1>1, StepFields DEF Takes, ExposureSteps, Apply, Delete

\* What a specification declares, kind by kind.
LEMMA DeclaredKinds ==
  ASSUME NEW s
  PROVE  /\ "ServiceAccount" \in Declared(s) <=>
              "serviceAccount" \notin s /\ "sameAccount" \notin s
         /\ "KnativeService" \in Declared(s) <=> "knative" \in s
         /\ "Service" \in Declared(s) <=> "knative" \notin s
         /\ "StatefulSet" \in Declared(s) <=> "knative" \notin s /\ "statefulSet" \in s
         /\ "HeadlessService" \in Declared(s) <=> "knative" \notin s /\ "statefulSet" \in s
         /\ "Deployment" \in Declared(s) <=> "knative" \notin s /\ "statefulSet" \notin s
         /\ "NetworkPolicy" \in Declared(s) <=> "knative" \notin s /\ "networkPolicy" \in s
         /\ "BindingSecret" \in Declared(s) <=> "knative" \notin s /\ "bindable" \in s
         /\ "HPA" \in Declared(s) <=> "knative" \notin s /\ "autoscaling" \in s
         /\ "Route" \in Declared(s) <=> "knative" \notin s /\ "expose" \in s /\ OpenShift
         /\ "Ingress" \in Declared(s) <=> "knative" \notin s /\ "expose" \in s /\ ~OpenShift
         /\ "ServiceMonitor" \in Declared(s) <=> "knative" \notin s /\ "monitoring" \in s
BY DEF Declared

\* A step of Program applies what the specifications it is for declare, and
\* deletes what they do not.
LEMMA StepsAgree ==
  ASSUME NEW i \in 1 .. Done - 1, NEW s \in Program[i].when, Program[i].op # "check"
  PROVE  /\ Program[i].op \in {"apply", "delete"}
         /\ Program[i].op = "apply" <=> Program[i].kind \in Declared(s)
<1> DEFINE Agrees(j) ==
             \A t \in Program[j].when :
               Program[j].op # "check" =>
                 /\ Program[j].op \in {"apply", "delete"}
                 /\ Program[j].op = "apply" <=> Program[j].kind \in Declared(t)
<1> USE DEF Knative, Plain, With, Without, If
<1>1. \A j \in {1, 2, 3} : Agrees(j)
  BY AccountTable, DeclaredKinds DEF Takes
<1>2. \A j \in {4, 5, 6, 7, 8, 9, 10, 11, 12} : Agrees(j)
  BY KnativeTable, DeclaredKinds DEF Takes
<1>3. \A j \in {13, 14, 15, 16, 17, 18, 19, 20, 21, 22, 23, 24, 25, 26, 27} : Agrees(j)
  BY WorkloadTable, DeclaredKinds DEF Takes
<1>4. \A j \in {28, 29, 30, 31, 32, 33} : Agrees(j)
  BY ExposureTable, DeclaredKinds DEF Takes
<1>5. Agrees(i)
  <2> HIDE DEF Agrees
  <2>1. i \in 1 .. 33
    BY ProgramSteps
  <2> QED
    BY <1>1, <1>2, <1>3, <1>4, <2>1
<1> QED
  BY <1>5

\* The step that takes care of k in a reconcile of the copy h.
Covers(i, k, h) ==
  i \in 1 .. Done - 1 /\ Runs(i, h) /\ Program[i].kind = k /\ Program[i].op # "check"

\* Every kind but the leftovers is taken care of, or is of no use here.
LEMMA Covered ==
  ASSUME NEW h, h.spec \in Specs, "knative" \in h.spec => h.knative,
         NEW k \in Kinds \ Leftovers(h.spec),
         k = "KnativeService" => h.knative = KnativeInstalled
  PROVE  (\E i : Covers(i, k, h)) \/ (Unused(k) /\ k \notin Declared(h.spec))
<1> DEFINE s == h.spec
<1> USE DEF Knative, Plain, With, Without, If
<1>1. \A i, op, specs :
        i \in 1 .. Done - 1 /\ op # "check" /\ Takes(i, op, k, specs) /\ s \in specs
        /\ (k = "KnativeService" => h.knative) => Covers(i, k, h)
  BY DEF Covers, Runs, Takes
<1>2. k \in ObjectKinds
  BY ComponentAssumption
<1>3. \A i \in 1 .. 33 : i \in 1 .. Done - 1
  BY ProgramSteps
<1>4. CASE k = "ServiceAccount"
  BY <1>1, <1>3, <1>4, AccountTable DEF Leftovers
<1>5. CASE k = "KnativeService"
  BY <1>1, <1>3, <1>5, KnativeTable, WorkloadTable, DeclaredKinds DEF Unused
<1>6. CASE k = "Route"
  BY <1>1, <1>3, <1>6, KnativeTable, ExposureTable, DeclaredKinds DEF Unused
<1>7. CASE k = "Ingress"
  BY <1>1, <1>3, <1>7, KnativeTable, ExposureTable, DeclaredKinds DEF Unused
<1>8. CASE k = "ServiceMonitor"
  BY <1>1, <1>3, <1>8, ExposureTable DEF Leftovers
<1>9. CASE k = "BindingSecret"
  BY <1>1, <1>3, <1>9, WorkloadTable DEF Leftovers
<1>10. CASE k \in {"Service", "NetworkPolicy", "HPA"}
  BY <1>1, <1>3, <1>10, KnativeTable, WorkloadTable
<1>11. CASE k \in {"HeadlessService", "Deployment", "StatefulSet"}
  BY <1>1, <1>3, <1>11, KnativeTable, WorkloadTable
<1> QED
  BY <1>2, <1>4, <1>5, <1>6, <1>7, <1>8, <1>9, <1>10, <1>11 DEF ObjectKinds

\* What the cluster has no use for is not applied.
LEMMA UnusedKinds ==
  ASSUME NEW i \in 1 .. Done - 1, NEW h, Runs(i, h), Program[i].op = "apply",
         h.knative => KnativeInstalled
  PROVE  ~Unused(Program[i].kind)
<1>1. CASE Program[i].kind = "KnativeService"
  BY <1>1 DEF Unused, Runs
<1>2. CASE Program[i].kind \in {"Route", "Ingress"}
  BY <1>2, StepsAgree, DeclaredKinds DEF Unused, Runs
<1> QED
  BY <1>1, <1>2 DEF Unused
-----------------------------------------------------------------------------
\* At first all copies are current, there is nothing, and a reconcile is to come.
LEMMA SettledInit ==
  Init => Copies /\ Caches /\ Never /\ Worked /\ ImageKnown /\ Rested
BY DEF Init, Copies, Caches, Never, Worked, ImageKnown, Rested, Pending, Fenced, Inside

\* What was missed stays missed until the next reconcile begins.
LEMMA MissedGrows ==
  ASSUME [Next]_vars, ~Begin
  PROVE  missed \subseteq missed'
<1> USE DEF history, Fault, Spend, Swallow
<1>1. CASE \/ BeginFails \/ DiscoverKnative \/ Reject \/ Fence \/ FenceFails
           \/ FindImage \/ MissTag \/ ImageFails \/ KeepImage
  BY <1>1 DEF BeginFails, DiscoverKnative, Reject, Fence, FenceFails, FindImage, MissTag,
              ImageFails, KeepImage
<1>2. CASE StoreImage \/ ManageError \/ ManageSuccess
  <2>1. (\E new : UpdateStatus(new)) \/ UpdateStatusFails
    BY <1>2 DEF StoreImage, ManageError, ManageSuccess
  <2> QED
    BY <2>1 DEF UpdateStatus, UpdateStatusFails
<1>3. CASE \/ ApplyObject \/ ApplyElsewhere \/ ApplyFails \/ DeleteObject \/ DeleteFails
           \/ LookupFails \/ PassCheck \/ CheckFails \/ FinishWithoutKnative
  BY <1>3 DEF ApplyObject, ApplyElsewhere, ApplyFails, DeleteObject, DeleteFails,
              LookupFails, PassCheck, CheckFails, FinishWithoutKnative
<1>4. ASSUME NEW k \in Kinds, Drift(k) \/ DeliverObject(k) PROVE missed \subseteq missed'
  BY <1>4 DEF Drift, DeliverObject
<1>5. CASE \/ Edit \/ DeliverResource \/ ImageStreamChanges \/ DeliverImageStream
           \/ TimerFires \/ Crash \/ UNCHANGED vars
  BY <1>5 DEF Edit, DeliverResource, ImageStreamChanges, DeliverImageStream, TimerFires,
              Crash, vars
<1> QED
  BY <1>1, <1>2, <1>3, <1>4, <1>5 DEF Next, Reconcile

\* A reconcile in the middle, whose copy stays what it is.
LEMMA SameCopies ==
  ASSUME Copies, UNCHANGED <<spec, gen, seen, queue>>, status'.observed = status.observed,
         held'.spec = held.spec, held'.gen = held.gen, held'.knative = held.knative,
         missed \subseteq missed', at # "idle", at' \notin {"discover", "reject"},
         Fenced' => Fenced,
         at' \in {"fence", "report"} \/ Fenced' => at \in {"fence", "report"} \/ Fenced
  PROVE  Copies'
BY DEF Copies, Pending, queue

\* Every step of the system keeps Copies.
LEMMA CopiesStep ==
  ASSUME TypeOK, Position, Generations, Copies, [Next]_vars
  PROVE  Copies'
<1> USE DEF resource, cached, queue, control, history
<1>0. ~Begin => missed \subseteq missed'
  BY MissedGrows
<1>1. CASE Begin
  <2>1. /\ held'.spec = seen.spec /\ held'.gen = seen.gen /\ at' = "discover"
        /\ ~held'.knative /\ UNCHANGED <<spec, gen, seen, status>>
    BY <1>1 DEF Begin
  <2> QED
    BY <2>1 DEF Copies, Pending, Fenced, Inside
<1>2. CASE DiscoverKnative
  <2>1. /\ held'.spec = held.spec /\ held'.gen = held.gen /\ at = "discover" /\ step' = 0
        /\ at' \in {"fence", "report"} /\ UNCHANGED <<spec, gen, seen, status, queued, timer>>
    BY <1>2 DEF DiscoverKnative, TypeOK, Copy, Position
  <2>2. \/ held'.knative = KnativeInstalled
        \/ ~held'.knative /\ "KnativeService" \in missed'
    BY <1>2 DEF DiscoverKnative, TypeOK, Copy, Copies, Swallow
  <2> QED
    BY <2>1, <2>2 DEF Copies, Pending, Fenced, Inside
<1>3. CASE Reject
  BY <1>3 DEF Reject, Copies, Pending, Fenced, Inside
<1>4. CASE Fence
  <2>1. /\ held'.spec = held.spec /\ held'.gen = gen' /\ held'.knative = held.knative
        /\ at = "fence" /\ at' = "image" /\ gen' \in {gen, gen + 1}
        /\ "badStorage" \notin held.spec /\ UNCHANGED <<spec, seen, status>>
    BY <1>4 DEF Fence, TypeOK, Copy
  <2>2. held.spec = spec
    BY <1>4 DEF Fence, Generations, Copies
  <2>3. gen \in Nat /\ seen.gen \in Nat /\ seen.gen <= gen
    BY DEF Copies, TypeOK
  <2>4. seen.gen <= gen' /\ (seen.gen = gen' => gen' = gen)
    BY <2>1, <2>3
  <2>5. missed \subseteq missed'
    BY <1>4 DEF Fence, history
  <2> QED
    BY <2>1, <2>2, <2>3, <2>4, <2>5 DEF Copies, Fenced, Inside
<1>5. CASE KeepImage \/ ApplyObject \/ ApplyElsewhere \/ DeleteObject \/ PassCheck
  BY <1>0, <1>5, SameCopies
     DEF Begin, KeepImage, ApplyObject, ApplyElsewhere, DeleteObject, PassCheck, AtStep,
         Advance, Fenced, Inside
<1>6. CASE FenceFails \/ ApplyFails \/ CheckFails \/ FinishWithoutKnative
  BY <1>0, <1>6, SameCopies
     DEF Begin, FenceFails, ApplyFails, CheckFails, FinishWithoutKnative, AtStep, Fail,
         Fenced, Inside
<1>7. CASE DeleteFails \/ LookupFails
  <2>1. at = "run" /\ (Advance \/ Fail \/ (at' = "report" /\ UNCHANGED <<step, held>>))
    BY <1>7 DEF DeleteFails, LookupFails, AtStep
  <2>2. UNCHANGED <<spec, gen, seen, queue, status>>
    BY <1>7 DEF DeleteFails, LookupFails
  <2> QED
    BY <1>0, <2>1, <2>2, SameCopies DEF Begin, Advance, Fail, Fenced, Inside
<1>8. CASE StoreImage
  <2> DEFINE new == [status EXCEPT !.image = held.image]
  <2>1. new \in Status /\ new.observed = status.observed
    BY DEF TypeOK, Status, Copy
  <2>2. UpdateStatus(new) \/ UpdateStatusFails
    BY <1>8 DEF StoreImage
  <2>3. status'.observed = status.observed
    BY <2>1, <2>2, SameObserved
  <2>4. at = "store" /\ (Advance \/ Fail) /\ UNCHANGED <<spec, gen, seen, queue>>
    BY <1>8 DEF StoreImage
  <2> QED
    BY <1>0, <2>3, <2>4, SameCopies DEF Begin, Advance, Fail, Fenced, Inside
<1>9. CASE FindImage \/ MissTag \/ ImageFails
  <2>1. /\ held'.spec = held.spec /\ held'.gen = held.gen /\ held'.knative = held.knative
        /\ at = "image" /\ at' \in {"store", "error"}
        /\ UNCHANGED <<spec, gen, seen, queue, status>>
    BY <1>9 DEF FindImage, MissTag, TakeImage, ImageFails, TypeOK, Copy
  <2> QED
    BY <1>0, <2>1, SameCopies DEF Begin, Fenced, Inside
<1>10. CASE ManageError
  <2> DEFINE new == [status EXCEPT !.reconciled = "False", !.image = held.image]
  <2>1. new \in Status /\ new.observed = status.observed
    BY DEF TypeOK, Status, Copy
  <2>2. UpdateStatus(new) \/ UpdateStatusFails
    BY <1>10 DEF ManageError
  <2>3. status'.observed = status.observed
    BY <2>1, <2>2, SameObserved
  <2>4. CASE at \in {"error", "reject"}
    <3>1. at' = "idle" /\ UNCHANGED <<spec, gen, seen>>
      BY <1>10, <2>4 DEF ManageError, EndReconcile
    <3> QED
      BY <2>3, <3>1 DEF Copies, Fenced, Inside
  <2>5. CASE at = "report"
    <3>1. /\ IF step = 0 THEN at' = "fence" /\ UNCHANGED <<step, held>> ELSE Advance
          /\ UNCHANGED <<spec, gen, seen, queue>>
      BY <1>10, <2>5 DEF ManageError
    <3> QED
      BY <1>0, <2>3, <2>5, <3>1, SameCopies DEF Begin, Advance, Fenced, Inside
  <2> QED
    BY <1>10, <2>4, <2>5 DEF ManageError
<1>11. CASE ManageSuccess
  <2>1. at' = "idle" /\ UNCHANGED <<spec, gen, seen>>
    BY <1>11 DEF ManageSuccess, EndReconcile
  <2>2. status'.observed = gen => "badStorage" \notin spec
    <3>1. CASE UpdateStatusFails
      BY <3>1 DEF UpdateStatusFails, Copies
    <3>2. CASE UpdateStatus([observed |-> held.gen, reconciled |-> "True",
                             image |-> held.image])
      BY <1>11, <3>2 DEF UpdateStatus, ManageSuccess, Generations, Copies, Fenced, Inside
    <3> QED
      BY <1>11, <3>1, <3>2 DEF ManageSuccess
  <2> QED
    BY <2>1, <2>2 DEF Copies, Fenced, Inside
<1>12. CASE Edit
  <2>1. /\ held'.spec = held.spec /\ held'.gen = held.gen /\ held'.knative = held.knative
        /\ gen' = gen + 1 /\ UNCHANGED <<seen, status, at, step, queued, timer, missed>>
    BY <1>12 DEF Edit, TypeOK, Copy, Spend
  <2>2. gen \in Nat /\ seen.gen \in Nat /\ held.gen \in Nat /\ status.observed \in Nat
    BY DEF TypeOK, Copy, Status
  <2>3. seen.gen < gen' /\ status.observed < gen' /\ (at # "idle" => held.gen < gen')
    BY <2>1, <2>2 DEF Copies, Generations
  <2>4. seen.gen <= gen' /\ held.gen < gen' => held.gen <= gen'
    BY <2>1, <2>2, <2>3
  <2>5. seen.gen # gen' /\ status.observed # gen' /\ (at # "idle" => held.gen # gen')
    BY <2>1, <2>2, <2>3
  <2> QED
    BY <2>1, <2>2, <2>3, <2>4, <2>5 DEF Copies, Pending, Fenced, Inside
<1>13. CASE DeliverResource
  <2>1. /\ seen'.spec = spec /\ seen'.gen = gen
        /\ UNCHANGED <<spec, gen, status, timer, at, step, held, missed>>
    BY <1>13 DEF DeliverResource, history
  <2>2. (queued => queued') /\ (gen # seen.gen => queued')
    BY <1>13 DEF DeliverResource
  <2>3. Pending => Pending'
    BY <2>1, <2>2 DEF Pending
  <2>4. gen <= gen
    BY DEF TypeOK
  <2> QED
    BY <2>1, <2>3, <2>4 DEF Copies, Fenced, Inside
<1>14. CASE Crash
  <2>1. seen'.spec = spec /\ seen'.gen = gen /\ at' = "idle" /\ UNCHANGED <<spec, gen, status>>
    BY <1>14 DEF Crash
  <2> QED
    BY <2>1 DEF Copies, TypeOK, Fenced, Inside
<1>15. ASSUME UNCHANGED <<spec, gen, seen, status, at, step, held>>, ~Begin,
              queued' \/ ((queued => queued') /\ UNCHANGED timer)
       PROVE  Copies'
  <2>1. Pending => Pending'
    BY <1>15 DEF Pending
  <2> QED
    BY <1>0, <1>15, <2>1 DEF Copies, Fenced, Inside
<1>20. UNCHANGED at => ~Begin
  BY DEF Begin
<1>16. ASSUME NEW k \in Kinds, Drift(k) PROVE Copies'
  BY <1>15, <1>16, <1>20 DEF Drift
<1>17. ASSUME NEW k \in Kinds, DeliverObject(k) PROVE Copies'
  <2>1. queued => queued'
    BY <1>17 DEF DeliverObject
  <2> QED
    BY <1>15, <1>17, <1>20, <2>1 DEF DeliverObject
<1>18. CASE BeginFails \/ ImageStreamChanges \/ UNCHANGED vars
  <2>1. UNCHANGED <<spec, gen, seen, status, at, step, held>> /\ UNCHANGED <<queued, timer>>
    BY <1>18 DEF BeginFails, ImageStreamChanges, vars
  <2> QED
    BY <1>15, <1>20, <2>1
<1>19. CASE DeliverImageStream
  <2>1. queued => queued'
    BY <1>19 DEF DeliverImageStream
  <2> QED
    BY <1>15, <1>19, <1>20, <2>1 DEF DeliverImageStream
<1>21. CASE TimerFires
  <2>1. queued' = TRUE
    BY <1>21 DEF TimerFires
  <2>2. queued'
    BY <2>1
  <2> QED
    BY <1>15, <1>20, <1>21, <2>2 DEF TimerFires
<1> QED
  BY <1>1, <1>2, <1>3, <1>4, <1>5, <1>6, <1>7, <1>8, <1>9, <1>10, <1>11, <1>12, <1>13,
     <1>14, <1>16, <1>17, <1>18, <1>19, <1>21 DEF Next, Reconcile
-----------------------------------------------------------------------------
\* What is stored is announced, unless it was not there.
LEMMA StoreCaches ==
  ASSUME TypeOK, Caches, NEW k \in Kinds, NEW v, Store(k, v), UNCHANGED cache
  PROVE  Caches'
<1> SUFFICES ASSUME NEW l \in WatchedKinds, cache[l] # objs'[l], ~news'[l]
             PROVE  cache[l] = Absent /\ objs'[l] # Absent
  BY DEF Caches
<1>1. l \in Kinds
  BY ComponentAssumption
<1>2. CASE l = k
  <2>1. objs'[l] = v /\ ~news[l] /\ objs[l] = Absent
    BY <1>1, <1>2 DEF Store, TypeOK, Objects
  <2>2. cache[l] = objs[l]
    BY <2>1 DEF Caches
  <2> QED
    BY <2>1, <2>2
<1>3. CASE l # k
  <2>1. objs'[l] = objs[l] /\ news'[l] = news[l]
    BY <1>1, <1>3 DEF Store, TypeOK, Objects
  <2> QED
    BY <2>1 DEF Caches
<1> QED
  BY <1>2, <1>3

\* The kind of the object a step is about is one that is tracked.
LEMMA KindAtStep ==
  ASSUME TypeOK, Position, at = "run", step # Done, Current.op # "check"
  PROVE  /\ step \in 1 .. Done - 1 /\ held.spec \in Program[step].when
         /\ Runs(step, held) /\ Current.kind \in Kinds
<1>1. step \in 1 .. Done - 1
  BY ProgramSteps DEF Position, TypeOK
<1> QED
  BY <1>1, ProgramSteps DEF Position, Runs, Current

\* What neither stores an object nor delivers one.
NoObjects ==
  \/ Begin \/ BeginFails \/ DiscoverKnative \/ Reject \/ Fence \/ FenceFails
  \/ FindImage \/ MissTag \/ ImageFails \/ KeepImage \/ StoreImage
  \/ ApplyFails \/ DeleteFails \/ LookupFails \/ PassCheck \/ CheckFails
  \/ ManageError \/ FinishWithoutKnative \/ ManageSuccess
  \/ Edit \/ DeliverResource \/ ImageStreamChanges \/ DeliverImageStream \/ TimerFires
  \/ UNCHANGED vars

\* Such a step leaves the objects, the caches and the news as they are.
LEMMA SameObjects ==
  ASSUME NoObjects
  PROVE  UNCHANGED <<objs, cache, news>>
<1> USE DEF resource, cached, queue, control, history
<1>1. CASE \/ Begin \/ BeginFails \/ DiscoverKnative \/ Reject \/ Fence \/ FenceFails
           \/ FindImage \/ MissTag \/ ImageFails \/ KeepImage \/ StoreImage
  BY <1>1 DEF Begin, BeginFails, DiscoverKnative, Reject, Fence, FenceFails,
              FindImage, MissTag, TakeImage, ImageFails, KeepImage, StoreImage
<1>2. CASE \/ ApplyFails \/ DeleteFails \/ LookupFails \/ PassCheck \/ CheckFails
           \/ ManageError \/ FinishWithoutKnative \/ ManageSuccess
  BY <1>2 DEF ApplyFails, DeleteFails, LookupFails, PassCheck, CheckFails,
              ManageError, FinishWithoutKnative, ManageSuccess
<1>3. CASE \/ Edit \/ DeliverResource \/ ImageStreamChanges \/ DeliverImageStream
           \/ TimerFires \/ UNCHANGED vars
  BY <1>3 DEF Edit, DeliverResource, ImageStreamChanges, DeliverImageStream, TimerFires,
              vars
<1> QED
  BY <1>1, <1>2, <1>3 DEF NoObjects

\* Every step of the system keeps Caches.
LEMMA CachesStep ==
  ASSUME TypeOK, Position, Caches, [Next]_vars
  PROVE  Caches'
<1> USE DEF cached
<1>1. CASE NoObjects
  BY <1>1, SameObjects DEF Caches
<1>2. CASE ApplyObject \/ ApplyElsewhere
  <2>1. Current.kind \in Kinds /\ UNCHANGED cache
    BY <1>2, KindAtStep DEF ApplyObject, ApplyElsewhere, AtStep
  <2>2. UNCHANGED <<objs, news>> \/ \E v : Store(Current.kind, v)
    BY <1>2 DEF ApplyObject, ApplyElsewhere, Write
  <2> QED
    BY <2>1, <2>2, StoreCaches DEF Caches
<1>3. CASE DeleteObject
  BY <1>3, KindAtStep, StoreCaches DEF DeleteObject, AtStep
<1>4. ASSUME NEW k \in Kinds, Drift(k) PROVE Caches'
  BY <1>4, StoreCaches DEF Drift
<1>5. ASSUME NEW k \in Kinds, DeliverObject(k) PROVE Caches'
  BY <1>5 DEF DeliverObject, Caches, TypeOK, Objects
<1>6. CASE Crash
  BY <1>6 DEF Crash, Caches
<1> QED
  BY <1>1, <1>2, <1>3, <1>4, <1>5, <1>6 DEF Next, Reconcile, NoObjects

\* Every step of the system keeps Never.
LEMMA NeverStep ==
  ASSUME TypeOK, Position, Copies, Never, [Next]_vars
  PROVE  Never'
<1> SUFFICES ASSUME NEW k \in Kinds, Unused(k), objs'[k] # Absent
             PROVE  FALSE
  BY DEF Never, Unused
<1>1. objs[k] = Absent
  BY DEF Never
<1>2. /\ at = "run" /\ step \in 1 .. Done - 1
      /\ Program[step].op = "apply" /\ Program[step].kind = k
  BY <1>1, Creation DEF Creates
<1>3. Runs(step, held) /\ (held.knative => KnativeInstalled)
  BY <1>2, ProgramSteps DEF Position, Copies, Fenced, Inside
<1> QED
  BY <1>2, <1>3, UnusedKinds
-----------------------------------------------------------------------------
\* The steps between one that is taken and the next are not taken.
LEMMA WorkedAdvance ==
  ASSUME TypeOK, Worked, NEW i \in 0 .. Done - 1, at' = "run", step' = After(i, held),
         held'.spec = held.spec, held'.knative = held.knative,
         \A j \in 1 .. i : DoneBy(j)'
  PROVE  Worked'
<1> SUFFICES ASSUME NEW j \in 1 .. step' - 1 PROVE DoneBy(j)'
  BY DEF Worked, DoneBy, Inside
<1>1. CASE j <= i
  <2>1. j \in 1 .. i
    BY <1>1, ProgramSteps
  <2> QED
    BY <2>1
<1>2. CASE ~(j <= i)
  <2>1. step' \in i + 1 .. Done /\ i \in Int /\ Done \in Int
    BY NextStep, ProgramSteps
  <2>2. j \in i + 1 .. After(i, held) - 1
    BY <1>2, <2>1
  <2>3. ~Runs(j, held)
    BY <2>2, NextStep
  <2>4. ~Runs(j, held)'
    BY <2>3 DEF Runs
  <2> QED
    BY <2>4 DEF DoneBy, Runs
<1> QED
  BY <1>1, <1>2

\* A step that is taken leaves the object as the copy has it, ...
LEMMA StepTarget ==
  ASSUME TypeOK, Position, Caches, ApplyObject \/ DeleteObject
  PROVE  LET k == Current.kind
         IN k \in WatchedKinds => objs'[k] = Target(k, held.spec, held.image) \/ news'[k]
<1> DEFINE k == Current.kind
<1>1. /\ step \in 1 .. Done - 1 /\ held.spec \in Program[step].when /\ k \in Kinds
      /\ Program[step].op # "check"
  BY KindAtStep DEF ApplyObject, DeleteObject, AtStep, Current
<1>2. Current.op = "apply" <=> k \in Declared(held.spec)
  BY <1>1, StepsAgree DEF Current
<1>3. CASE ApplyObject
  <2>1. Target(k, held.spec, held.image) = Customized(k)
    BY <1>2, <1>3 DEF ApplyObject, AtStep, Target, Customized
  <2>2. CASE cache[k] = Customized(k) /\ UNCHANGED <<objs, news>>
    <3>1. Customized(k) # Absent
      BY ComponentAssumption DEF Customized, Content, Contents, TypeOK, Copy, Images
    <3> QED
      BY <2>1, <2>2, <3>1 DEF Caches
  <2>3. CASE Store(k, Customized(k))
    BY <1>1, <2>1, <2>3 DEF Store, TypeOK, Objects
  <2> QED
    BY <1>3, <2>2, <2>3 DEF ApplyObject, Write
<1>4. CASE DeleteObject
  <2>1. Target(k, held.spec, held.image) = Absent
    BY <1>2, <1>4 DEF DeleteObject, AtStep, Target
  <2> QED
    BY <1>1, <1>4, <2>1 DEF DeleteObject, Store, TypeOK, Objects
<1> QED
  BY <1>3, <1>4

\* ... unless an error is swallowed; the other objects it leaves alone.
Went == \/ ApplyObject \/ ApplyElsewhere \/ DeleteObject \/ PassCheck
        \/ ((DeleteFails \/ LookupFails \/ ManageError) /\ Inside /\ at' = "run")

Same(k) == objs'[k] = objs[k] /\ (news[k] => news'[k])
Got(k)  == objs'[k] = Target(k, held.spec, held.image) \/ news'[k] \/ k \in missed'

LEMMA StepEffect ==
  ASSUME TypeOK, Position, Caches, Worked, Went
  PROVE  /\ Inside /\ step # Done /\ Advance /\ queued' = queued
         /\ \A k \in WatchedKinds : Same(k) \/ (k = Current.kind /\ Got(k))
         /\ Current.op # "check" /\ Current.kind \in WatchedKinds => Got(Current.kind)
<1> USE DEF resource, cached, queue, control, history
<1>1. CASE ApplyObject \/ DeleteObject
  <2>1. at = "run" /\ step # Done /\ Advance /\ queued' = queued
    BY <1>1 DEF ApplyObject, DeleteObject, AtStep
  <2>2. Current.kind \in WatchedKinds => Got(Current.kind)
    BY <1>1, StepTarget DEF Got
  <2>3. UNCHANGED <<objs, news>> \/ \E v : Store(Current.kind, v)
    BY <1>1 DEF ApplyObject, DeleteObject, Write
  <2>4. \A k \in WatchedKinds : Same(k) \/ k = Current.kind
    BY <2>3, ComponentAssumption DEF Store, TypeOK, Objects, Same
  <2> QED
    BY <2>1, <2>2, <2>4 DEF Inside
<1>2. CASE ApplyElsewhere
  <2>1. at = "run" /\ step # Done /\ Advance /\ queued' = queued
    BY <1>2 DEF ApplyElsewhere, AtStep
  <2>2. Got(Current.kind)
    BY <1>2 DEF ApplyElsewhere, Swallow, Got
  <2>3. UNCHANGED <<objs, news>> \/ \E v : Store(Current.kind, v)
    BY <1>2 DEF ApplyElsewhere, Write
  <2>4. \A k \in WatchedKinds : Same(k) \/ k = Current.kind
    BY <2>3, ComponentAssumption DEF Store, TypeOK, Objects, Same
  <2> QED
    BY <2>1, <2>2, <2>4 DEF Inside
<1>3. CASE PassCheck
  <2>1. at = "run" /\ step # Done /\ Current.op = "check" /\ Advance
    BY <1>3 DEF PassCheck, AtStep
  <2>2. UNCHANGED <<objs, news, queued>>
    BY <1>3 DEF PassCheck
  <2> QED
    BY <2>1, <2>2 DEF Inside, Same
<1>4. CASE (DeleteFails \/ LookupFails) /\ Inside /\ at' = "run"
  <2>1. at = "run" /\ step # Done /\ UNCHANGED <<objs, news, queued>>
    BY <1>4 DEF DeleteFails, LookupFails, AtStep
  <2>2. Advance /\ Swallow("swallowed", Current.kind)
    BY <1>4, <2>1 DEF DeleteFails, LookupFails, Fail
  <2> QED
    BY <2>1, <2>2 DEF Inside, Same, Got, Swallow
<1>5. CASE ManageError /\ Inside /\ at' = "run"
  <2>1. at = "report" /\ step # 0 /\ step # Done
    BY <1>5 DEF ManageError, Inside, Position
  <2>2. Advance /\ UNCHANGED <<objs, news, queued>>
    BY <1>5, <2>1 DEF ManageError
  <2>3. Current.kind \in missed'
    <3>1. (\E new : UpdateStatus(new)) \/ UpdateStatusFails
      BY <1>5 DEF ManageError
    <3>2. missed \subseteq missed'
      BY <3>1 DEF UpdateStatus, UpdateStatusFails, history, Fault, Spend, Swallow
    <3> QED
      BY <2>1, <3>2 DEF Worked, Current
  <2> QED
    BY <2>1, <2>2, <2>3 DEF Inside, Same, Got
<1> QED
  BY <1>1, <1>2, <1>3, <1>4, <1>5 DEF Went

\* The steps of Program keep Worked.
LEMMA WorkedSteps ==
  ASSUME TypeOK, Position, Caches, Worked, Went, missed \subseteq missed'
  PROVE  Worked'
<1>1. /\ Inside /\ step \in 1 .. Done - 1 /\ held' = held
      /\ at' = "run" /\ step' = After(step, held) /\ queued' = queued
  BY StepEffect, ProgramSteps DEF Advance, Position, TypeOK, Inside
<1>2. ASSUME NEW j \in 1 .. step PROVE DoneBy(j)'
  <2> DEFINE k == Program[j].kind
  <2> SUFFICES ASSUME Runs(j, held), Program[j].op # "check", k \in WatchedKinds
               PROVE  Got(k) \/ queued
    BY <1>1 DEF DoneBy, Runs, Got
  <2>1. CASE j = step
    BY <2>1, StepEffect DEF Current
  <2>2. CASE j # step
    <3>1. j \in 1 .. step - 1
      BY <1>1, <2>2
    <3>2. objs[k] = Target(k, held.spec, held.image) \/ news[k] \/ queued \/ k \in missed
      BY <1>1, <3>1 DEF Worked, DoneBy
    <3>3. Same(k) \/ Got(k)
      BY StepEffect
    <3> QED
      BY <3>2, <3>3 DEF Same, Got
  <2> QED
    BY <2>1, <2>2
<1>3. step \in 0 .. Done - 1
  BY <1>1
<1> QED
  BY <1>1, <1>2, <1>3, WorkedAdvance

\* What happens around the reconcile undoes nothing it has done without an event.
LEMMA WorkedStays ==
  ASSUME Worked, Inside' => Inside, UNCHANGED step, held'.spec = held.spec,
         held'.knative = held.knative, held'.image = held.image, queued => queued',
         missed \subseteq missed',
         \A k \in WatchedKinds : Same(k) \/ news'[k] \/ queued',
         at' = "report" /\ at # "report" => Program[step].kind \in missed'
  PROVE  Worked'
<1>1. at' = "report" /\ step' # 0 => Program[step].kind \in missed'
  BY DEF Worked, Inside
<1> SUFFICES ASSUME Inside, NEW j \in 1 .. step - 1, Runs(j, held),
                    Program[j].op # "check", Program[j].kind \in WatchedKinds
             PROVE  LET k == Program[j].kind
                    IN \/ objs'[k] = Target(k, held.spec, held.image)
                       \/ news'[k] \/ queued' \/ k \in missed'
  BY <1>1 DEF Worked, DoneBy, Runs
<1> DEFINE k == Program[j].kind
<1>2. objs[k] = Target(k, held.spec, held.image) \/ news[k] \/ queued \/ k \in missed
  BY DEF Worked, DoneBy
<1> QED
  BY <1>2 DEF Same

\* Only the steps of Program and the events around the reconcile leave it in
\* Program.
LEMMA WorkedStep ==
  ASSUME TypeOK, Position, Copies, Caches, Worked, [Next]_vars
  PROVE  Worked'
<1> USE DEF resource, cached, queue, control, history
<1>0. ~Begin => missed \subseteq missed'
  BY MissedGrows
<1>1. CASE Went
  <2>1. ~Begin
    BY <1>1, StepEffect DEF Begin, Inside
  <2> QED
    BY <1>0, <1>1, <2>1, WorkedSteps
<1>2. CASE KeepImage \/ StoreImage
  <2>1. step = 0 /\ (Advance \/ Fail)
    BY <1>2 DEF KeepImage, StoreImage, Position
  <2>2. CASE Advance
    <3>1. 0 \in 0 .. Done - 1 /\ step' = After(0, held) /\ \A j \in 1 .. 0 : DoneBy(j)'
      BY <2>1, <2>2, ProgramSteps DEF Advance
    <3> QED
      BY <2>2, <3>1, WorkedAdvance DEF Advance
  <2> QED
    BY <2>1, <2>2 DEF Fail, Worked, Inside
<1>3. CASE \/ Begin \/ DiscoverKnative \/ Reject \/ Fence \/ FenceFails \/ FindImage
           \/ MissTag \/ ImageFails \/ ApplyFails \/ CheckFails \/ FinishWithoutKnative
           \/ ManageSuccess \/ Crash
  <2>1. ~Inside'
    BY <1>3
       DEF Begin, DiscoverKnative, Reject, Fence, FenceFails, FindImage, MissTag, TakeImage,
           ImageFails, ApplyFails, CheckFails, FinishWithoutKnative, ManageSuccess, Crash,
           Fail, EndReconcile, Inside, Position
  <2> QED
    BY <2>1 DEF Worked, Inside
<1>4. CASE (DeleteFails \/ LookupFails) /\ ~Went
  <2>1. /\ at = "run" /\ Inside /\ UNCHANGED <<objs, news, queued>>
        /\ \/ Advance
           \/ Fail
           \/ /\ at' = "report" /\ UNCHANGED <<step, held>>
              /\ Swallow("swallowed", Current.kind)
    BY <1>4 DEF DeleteFails, LookupFails, AtStep, Inside
  <2>2. ~Advance
    BY <1>4, <2>1 DEF Went, Advance
  <2>3. CASE Fail
    BY <2>3 DEF Fail, Worked, Inside
  <2>4. CASE at' = "report" /\ UNCHANGED <<step, held>> /\ Swallow("swallowed", Current.kind)
    <3>1. Program[step].kind \in missed' /\ missed \subseteq missed'
      BY <2>4 DEF Swallow, Current
    <3>2. \A k : Same(k)
      BY <2>1 DEF Same
    <3> QED
      BY <2>1, <2>4, <3>1, <3>2, WorkedStays
  <2> QED
    BY <2>1, <2>2, <2>3, <2>4
<1>5. CASE ManageError /\ ~Went
  <2>1. ~Inside'
    BY <1>5 DEF ManageError, Went, Inside, EndReconcile, Advance
  <2> QED
    BY <2>1 DEF Worked, Inside
<1>6. ASSUME UNCHANGED <<at, step>>, held'.spec = held.spec, held'.knative = held.knative,
             held'.image = held.image, queued => queued',
             \A k \in WatchedKinds : Same(k) \/ news'[k] \/ queued'
      PROVE  Worked'
  <2>1. missed \subseteq missed'
    BY <1>0, <1>6 DEF Begin
  <2>2. Inside' <=> Inside
    BY <1>6 DEF Inside
  <2> QED
    BY <1>6, <2>1, <2>2, WorkedStays
<1>7. CASE Edit
  <2>1. /\ held'.spec = held.spec /\ held'.knative = held.knative
        /\ held'.image = held.image /\ UNCHANGED <<at, step, objs, news, queued>>
    BY <1>7 DEF Edit, TypeOK, Copy
  <2> QED
    BY <1>6, <2>1 DEF Same
<1>8. ASSUME NEW k \in Kinds, Drift(k) PROVE Worked'
  <2>1. UNCHANGED <<at, step, held, queued>>
    BY <1>8 DEF Drift
  <2>2. ASSUME NEW l \in WatchedKinds PROVE news'[l] \/ Same(l)
    BY <1>8, ComponentAssumption DEF Drift, Store, TypeOK, Objects, Same
  <2> QED
    BY <1>6, <2>1, <2>2
<1>9. ASSUME NEW k \in Kinds, DeliverObject(k) PROVE Worked'
  <2>1. UNCHANGED <<at, step, held, objs>>
    BY <1>9 DEF DeliverObject
  <2>2. (queued => queued') /\ (news[k] => queued')
    BY <1>9 DEF DeliverObject
  <2>3. ASSUME NEW l \in WatchedKinds PROVE Same(l) \/ queued'
    <3>1. CASE l = k
      BY <2>1, <2>2, <3>1 DEF Same
    <3>2. CASE l # k
      BY <1>9, <2>1, <3>2, ComponentAssumption DEF DeliverObject, TypeOK, Same
    <3> QED
      BY <3>1, <3>2
  <2> QED
    BY <1>6, <2>1, <2>2, <2>3
<1>10. CASE \/ BeginFails \/ DeliverResource \/ ImageStreamChanges \/ DeliverImageStream
            \/ TimerFires \/ UNCHANGED vars
  <2>1. UNCHANGED <<at, step, held, objs, news>>
    BY <1>10 DEF BeginFails, DeliverResource, ImageStreamChanges, DeliverImageStream,
                 TimerFires, vars
  <2>2. queued => queued'
    BY <1>10 DEF BeginFails, DeliverResource, ImageStreamChanges, DeliverImageStream,
                 TimerFires, vars
  <2> QED
    BY <1>6, <2>1, <2>2 DEF Same
<1> QED
  BY <1>1, <1>2, <1>3, <1>4, <1>5, <1>7, <1>8, <1>9, <1>10 DEF Next, Reconcile, Went
-----------------------------------------------------------------------------
\* A reconcile that was to come is still to come, until it begins.
LEMMA PendingStep ==
  ASSUME TypeOK, Copies, Pending, [Next]_vars, ~Begin
  PROVE  Pending'
<1> USE DEF resource, cached, queue, control, history
<1>1. CASE UNCHANGED <<queued, timer, gen, seen>>
  BY <1>1 DEF Pending
<1>2. CASE Fence \/ Edit
  <2>1. UNCHANGED <<seen, queued, timer>> /\ gen' \in {gen, gen + 1}
    BY <1>2 DEF Fence, Edit
  <2>2. gen # seen.gen => gen' # seen.gen
    BY <2>1 DEF TypeOK, Copies
  <2> QED
    BY <2>1, <2>2 DEF Pending
<1>3. CASE ManageError \/ ManageSuccess
  <2>1. UNCHANGED <<queued, gen, seen>> /\ (timer = "retry" => timer' = "retry")
    BY <1>3 DEF ManageError, ManageSuccess
  <2> QED
    BY <2>1 DEF Pending
<1>4. CASE DeliverResource
  <2>1. (queued => queued') /\ (gen # seen.gen => queued') /\ UNCHANGED timer
    BY <1>4 DEF DeliverResource
  <2> QED
    BY <2>1 DEF Pending
<1>5. ASSUME NEW k \in Kinds, DeliverObject(k) PROVE Pending'
  <2>1. (queued => queued') /\ UNCHANGED <<timer, gen, seen>>
    BY <1>5 DEF DeliverObject
  <2> QED
    BY <2>1 DEF Pending
<1>6. CASE DeliverImageStream
  <2>1. UNCHANGED <<timer, gen, seen>>
    BY <1>6 DEF DeliverImageStream
  <2>2. queued => queued'
    BY <1>6 DEF DeliverImageStream
  <2> QED
    BY <2>1, <2>2 DEF Pending
<1>7. CASE TimerFires \/ Crash
  <2>1. queued' = TRUE
    BY <1>7 DEF TimerFires, Crash
  <2> QED
    BY <2>1 DEF Pending
<1>8. CASE \/ BeginFails \/ DiscoverKnative \/ Reject \/ FenceFails \/ FindImage
           \/ MissTag \/ ImageFails \/ KeepImage \/ StoreImage \/ ApplyObject
           \/ ApplyElsewhere \/ ApplyFails \/ DeleteObject \/ DeleteFails \/ LookupFails
           \/ PassCheck \/ CheckFails \/ FinishWithoutKnative \/ ImageStreamChanges
           \/ UNCHANGED vars
  BY <1>1, <1>8 DEF BeginFails, DiscoverKnative, Reject, FenceFails, FindImage, MissTag,
     TakeImage, ImageFails, KeepImage, StoreImage, ApplyObject, ApplyElsewhere, ApplyFails,
     DeleteObject, DeleteFails, LookupFails, PassCheck, CheckFails, FinishWithoutKnative,
     ImageStreamChanges, vars
<1>9. ASSUME NEW k \in Kinds, Drift(k) PROVE Pending'
  BY <1>1, <1>9 DEF Drift
<1> QED
  BY <1>2, <1>3, <1>4, <1>5, <1>6, <1>7, <1>8, <1>9 DEF Next, Reconcile

\* The tag of the image is the same as long as nothing happens to the ImageStream.
LEMMA SameImage ==
  ASSUME UNCHANGED stream, NEW s
  PROVE  Image(s)' = Image(s)
BY DEF Image

\* An event of the ImageStream is lost on those that name no image of it, or is
\* known to be missed.
LEMMA DeliveredImage ==
  ASSUME TypeOK, Copies, DeliverImageStream, ~Pending', "image" \notin missed'
  PROVE  /\ ~NamesStream(spec) /\ gen = seen.gen /\ spec' = spec
         /\ Image(spec)' = ApplicationImage(spec)
<1>1. UNCHANGED <<timer, gen, seen>> /\ ~queued'
  BY DEF DeliverImageStream, Pending, resource, cached
<1>2. gen = seen.gen /\ seen.spec = spec
  BY <1>1 DEF Pending, Copies
<1>3. NamesStream(seen.spec) => queued'
  <2>1. ~Swallow("match", "image")
    BY DEF Swallow
  <2>2. queued' = (queued \/ Match)
    BY <2>1 DEF DeliverImageStream
  <2> QED
    BY <2>2 DEF Match
<1>4. spec' = spec
  BY DEF DeliverImageStream, resource
<1> QED
  BY <1>1, <1>2, <1>3, <1>4 DEF Image

\* Every step of the system keeps ImageKnown.
LEMMA ImageKnownStep ==
  ASSUME TypeOK, Position, Copies, ImageKnown, [Next]_vars
  PROVE  ImageKnown'
<1> USE DEF resource, cached, queue, control, history
<1>0. ~Begin => missed \subseteq missed'
  BY MissedGrows
<1>1. CASE FindImage
  <2>1. /\ UNCHANGED stream /\ held'.spec = held.spec
        /\ held'.image = Image(held.spec)
    BY <1>1 DEF FindImage, TakeImage, TypeOK, Copy
  <2>2. Image(held.spec)' = held'.image
    BY <2>1 DEF Image
  <2>3. ~NamesStream(held'.spec) => held'.image = ApplicationImage(held'.spec)
    BY <2>1 DEF Image
  <2> QED
    BY <2>1, <2>2, <2>3 DEF ImageKnown, NamesStream
<1>2. CASE MissTag
  <2>1. /\ held'.spec = held.spec /\ held'.image = ApplicationImage(held.spec)
        /\ "image" \in missed'
    BY <1>2 DEF MissTag, TakeImage, Swallow, TypeOK, Copy
  <2> QED
    BY <2>1 DEF ImageKnown, NamesStream, ApplicationImage
<1>3. CASE \/ Begin \/ DiscoverKnative \/ Reject \/ Fence \/ FenceFails \/ ImageFails
           \/ ApplyFails \/ CheckFails \/ FinishWithoutKnative \/ ManageSuccess \/ Crash
  <2>1. ~Inside' /\ at' # "store"
    BY <1>3
       DEF Begin, DiscoverKnative, Reject, Fence, FenceFails, ImageFails, ApplyFails,
           CheckFails, FinishWithoutKnative, ManageSuccess, Crash, Fail, EndReconcile,
           Inside, Position
  <2> QED
    BY <2>1 DEF ImageKnown, Inside
<1>4. ASSUME at' = "store" \/ Inside' => at = "store" \/ Inside,
             held'.spec = held.spec, held'.image = held.image, UNCHANGED stream, ~Begin
      PROVE  ImageKnown'
  <2>1. Pending => Pending'
    BY <1>4, PendingStep
  <2>2. Image(held.spec)' = Image(held.spec)
    BY <1>4 DEF Image
  <2> QED
    BY <1>0, <1>4, <2>1, <2>2 DEF ImageKnown, NamesStream, ApplicationImage, Inside
<1>5. UNCHANGED <<at, step>> => ~Begin /\ (Inside' <=> Inside)
  BY DEF Begin, Inside
<1>6. CASE KeepImage \/ StoreImage
  <2>1. at = "store" /\ (Advance \/ Fail) /\ UNCHANGED stream
    BY <1>6 DEF KeepImage, StoreImage
  <2> QED
    BY <1>4, <2>1 DEF Advance, Fail, Begin, Inside
<1>7. CASE ApplyObject \/ ApplyElsewhere \/ DeleteObject \/ PassCheck \/ DeleteFails \/ LookupFails
  <2>1. /\ at = "run" /\ UNCHANGED stream
        /\ Advance \/ Fail \/ (at' = "report" /\ UNCHANGED held)
    BY <1>7 DEF ApplyObject, ApplyElsewhere, DeleteObject, PassCheck, DeleteFails,
                LookupFails, AtStep
  <2> QED
    BY <1>4, <2>1 DEF Advance, Fail, Begin, Inside
<1>8. CASE ManageError
  <2>1. CASE Inside
    <3>1. at = "report" /\ Advance /\ UNCHANGED stream
      BY <1>8, <2>1 DEF ManageError, Inside
    <3> QED
      BY <1>4, <2>1, <3>1 DEF Advance, Begin
  <2>2. CASE ~Inside
    <3>1. ~Inside' /\ at' # "store"
      BY <1>8, <2>2 DEF ManageError, EndReconcile, Inside
    <3> QED
      BY <3>1 DEF ImageKnown, Inside
  <2> QED
    BY <2>1, <2>2
<1>9. CASE Edit
  <2>1. held'.spec = held.spec /\ held'.image = held.image /\ UNCHANGED <<at, step, stream>>
    BY <1>9 DEF Edit, TypeOK, Copy
  <2> QED
    BY <1>4, <1>5, <2>1
<1>10. ASSUME NEW k \in Kinds, Drift(k) \/ DeliverObject(k) PROVE ImageKnown'
  BY <1>4, <1>5, <1>10 DEF Drift, DeliverObject
<1>11. CASE BeginFails \/ DeliverResource \/ TimerFires \/ UNCHANGED vars
  BY <1>4, <1>5, <1>11 DEF BeginFails, DeliverResource, TimerFires, vars
<1>12. CASE ImageStreamChanges
  <2>1. stream'.news /\ UNCHANGED <<at, step, held>>
    BY <1>12 DEF ImageStreamChanges
  <2> QED
    BY <2>1 DEF ImageKnown, NamesStream, ApplicationImage, Inside
<1>13. CASE DeliverImageStream
  <2>1. UNCHANGED <<at, step, held, gen, seen>>
    BY <1>13 DEF DeliverImageStream
  <2>2. ASSUME at = "store" \/ Inside, ~Pending', "image" \notin missed'
        PROVE  held.image = Image(held.spec)'
    <3>1. /\ gen = seen.gen /\ ~NamesStream(spec) /\ spec' = spec
          /\ Image(spec)' = ApplicationImage(spec)
      BY <1>13, <2>2, DeliveredImage
    <3>2. ~Pending
      BY <1>13, <2>1, <2>2, <1>5, PendingStep
    <3>3. held.spec = spec
      BY <2>2, <3>2 DEF Copies, Inside
    <3> QED
      BY <2>1, <2>2, <3>1, <3>3 DEF ImageKnown
  <2> QED
    BY <2>1, <2>2 DEF ImageKnown, NamesStream, ApplicationImage, Inside
<1> QED
  BY <1>1, <1>2, <1>3, <1>6, <1>7, <1>8, <1>9, <1>10, <1>11, <1>12, <1>13
     DEF Next, Reconcile
-----------------------------------------------------------------------------
\* A reconcile that ends with a report leaves everything as it is reported.
LEMMA RestedSuccess ==
  ASSUME TypeOK, Position, Generations, Copies, Never, Worked, ImageKnown, ManageSuccess
  PROVE  Rested'
<1> SUFFICES ASSUME ~Pending', ReportsReconciled' PROVE Rested'
  BY DEF Rested
<1>1. /\ at = "run" /\ step = Done /\ ~KnativeMissing
      /\ UNCHANGED <<spec, gen, seen, objs, news, stream, queued>>
  BY DEF ManageSuccess, cached
<1>2. UpdateStatus([observed |-> held.gen, reconciled |-> "True", image |-> held.image])
  <2>1. timer' # "retry"
    BY DEF Pending
  <2> QED
    BY <2>1 DEF ManageSuccess
<1>3. held.spec = spec /\ status'.image = held.image
  BY <1>1, <1>2 DEF UpdateStatus, Generations, Copies
<1>4. ~queued /\ gen = seen.gen
  <2>1. ~queued' /\ gen' = seen'.gen
    BY DEF Pending
  <2> QED
    BY <1>1, <2>1
<1>5. ASSUME NEW k \in WatchedKinds \ (Leftovers(spec) \cup missed)
      PROVE  objs[k] = Target(k, spec, held.image) \/ news[k]
  <2>1. k \in Kinds \ Leftovers(held.spec) /\ k \notin missed
    BY <1>3, ComponentAssumption
  <2>2. /\ held.spec \in Specs
        /\ k = "KnativeService" => held.knative = KnativeInstalled
        /\ "knative" \in held.spec => held.knative
    BY <1>1, <2>1 DEF TypeOK, Copy, Copies, KnativeMissing, Fenced, Inside
  <2>3. CASE \E i : Covers(i, k, held)
    <3>1. PICK i : Covers(i, k, held)
      BY <2>3
    <3>2. i \in 1 .. step - 1 /\ Runs(i, held) /\ Program[i].kind = k /\ Program[i].op # "check"
      BY <1>1, <3>1 DEF Covers
    <3>3. DoneBy(i)
      BY <1>1, <3>2 DEF Worked, Inside
    <3> QED
      BY <1>3, <1>4, <2>1, <3>2, <3>3 DEF DoneBy
  <2>4. CASE Unused(k) /\ k \notin Declared(held.spec)
    BY <1>3, <2>1, <2>4 DEF Never, Target
  <2> QED
    BY <2>1, <2>2, <2>3, <2>4, Covered
<1>6. held.image = Image(spec) \/ stream.news \/ "image" \in missed
  <2>1. timer # "retry"
    <3>1. timer' # "retry"
      BY DEF Pending
    <3> QED
      BY <3>1 DEF ManageSuccess
  <2> QED
    BY <1>1, <1>3, <1>4, <2>1 DEF ImageKnown, Pending, Inside
<1>7. ~NamesStream(spec) => held.image = ApplicationImage(spec)
  BY <1>1, <1>3 DEF ImageKnown, Inside
<1>8. Image(spec)' = Image(spec) /\ missed' = missed
  BY <1>1, <1>2 DEF Image, UpdateStatus, history
<1> QED
  BY <1>1, <1>3, <1>5, <1>6, <1>7, <1>8
     DEF Rested, Target, Leftovers, NamesStream, ApplicationImage

\* While the controller rests, what changes comes with an event.
LEMMA RestedStays ==
  ASSUME Rested, UNCHANGED <<at, status, spec, gen>>, Pending => Pending',
         missed \subseteq missed',
         \A k \in WatchedKinds : Same(k) \/ news'[k] \/ Pending',
         \/ UNCHANGED stream
         \/ stream'.news
         \/ Pending'
         \/ "image" \in missed'
         \/ ~NamesStream(spec) /\ Image(spec)' = ApplicationImage(spec)
  PROVE  Rested'
<1> SUFFICES ASSUME at = "idle", ReportsReconciled, ~Pending' PROVE Rested'
  BY DEF Rested, ReportsReconciled
<1>1. /\ \A k \in WatchedKinds \ (Leftovers(spec) \cup missed) :
            objs[k] = Target(k, spec, status.image) \/ news[k]
      /\ status.image = Image(spec) \/ stream.news \/ "image" \in missed
      /\ ~NamesStream(spec) => status.image = ApplicationImage(spec)
  BY DEF Rested
<1>2. \A k \in WatchedKinds \ (Leftovers(spec) \cup missed') :
        objs'[k] = Target(k, spec, status.image) \/ news'[k]
  BY <1>1 DEF Same
<1>3. status.image = Image(spec)' \/ stream'.news \/ "image" \in missed'
  BY <1>1 DEF Image
<1> QED
  BY <1>1, <1>2, <1>3 DEF Rested, Target, Leftovers, NamesStream, ApplicationImage

\* Every step of the system keeps Rested.
LEMMA RestedStep ==
  ASSUME TypeOK, Position, Generations, Copies, Never, Worked, ImageKnown, Rested,
         [Next]_vars
  PROVE  Rested'
<1> USE DEF resource, cached, queue, control, history
<1>0. UNCHANGED at => missed \subseteq missed'
  BY MissedGrows DEF Begin
<1>1. CASE ManageSuccess
  BY <1>1, RestedSuccess
<1>2. CASE ManageError
  <2> DEFINE new == [status EXCEPT !.reconciled = "False", !.image = held.image]
  <2>1. new \in Status /\ new.observed = status.observed
    BY DEF TypeOK, Status, Copy
  <2>2. UpdateStatus(new) \/ UpdateStatusFails
    BY <1>2 DEF ManageError
  <2>3. status'.observed = status.observed /\ UNCHANGED <<spec, gen>>
    BY <1>2, <2>1, <2>2, SameObserved DEF ManageError
  <2>4. CASE at = "error"
    BY <1>2, <2>4 DEF ManageError, Rested, Pending
  <2>5. CASE at = "reject"
    <3>1. ReportsReconciled' => "badStorage" \notin spec
      BY <2>3 DEF ReportsReconciled, Copies
    <3>2. ReportsReconciled' => Pending
      BY <2>5, <3>1 DEF Copies
    <3>3. Pending => Pending'
      BY <1>2, <2>5, PendingStep DEF Begin
    <3> QED
      BY <3>2, <3>3 DEF Rested
  <2>6. CASE at = "report"
    <3>1. at' # "idle"
      BY <1>2, <2>6 DEF ManageError, Advance
    <3> QED
      BY <3>1 DEF Rested
  <2> QED
    BY <1>2, <2>4, <2>5, <2>6 DEF ManageError
<1>3. CASE \/ Begin \/ DiscoverKnative \/ Reject \/ Fence \/ FenceFails \/ FindImage
           \/ MissTag \/ ImageFails \/ KeepImage \/ StoreImage \/ ApplyObject
           \/ ApplyElsewhere \/ ApplyFails \/ DeleteObject \/ DeleteFails \/ LookupFails
           \/ PassCheck \/ CheckFails \/ FinishWithoutKnative
  <2>1. at' # "idle"
    BY <1>3
       DEF Begin, DiscoverKnative, Reject, Fence, FenceFails, FindImage, MissTag, TakeImage,
           ImageFails, KeepImage, StoreImage, ApplyObject, ApplyElsewhere, ApplyFails,
           DeleteObject, DeleteFails, LookupFails, PassCheck, CheckFails,
           FinishWithoutKnative, Fail, Advance
  <2> QED
    BY <2>1 DEF Rested
<1>4. CASE Edit
  <2>1. gen' = gen + 1 /\ UNCHANGED status
    BY <1>4 DEF Edit
  <2>2. status'.observed # gen'
    BY <2>1 DEF Generations, TypeOK, Status
  <2> QED
    BY <2>2 DEF Rested, ReportsReconciled
<1>5. CASE TimerFires \/ Crash
  <2>1. queued' = TRUE
    BY <1>5 DEF TimerFires, Crash
  <2> QED
    BY <2>1 DEF Rested, Pending
<1>6. ASSUME NEW k \in Kinds, Drift(k) PROVE Rested'
  <2>1. UNCHANGED <<at, status, spec, gen, stream, queued, timer, seen>>
    BY <1>6 DEF Drift
  <2>2. ASSUME NEW l \in WatchedKinds PROVE news'[l] \/ Same(l)
    BY <1>6, ComponentAssumption DEF Drift, Store, TypeOK, Objects, Same
  <2>3. Pending => Pending'
    BY <2>1 DEF Pending
  <2> QED
    BY <1>0, <2>1, <2>2, <2>3, RestedStays
<1>7. ASSUME NEW k \in Kinds, DeliverObject(k) PROVE Rested'
  <2>1. UNCHANGED <<at, status, spec, gen, stream, objs, timer, seen>>
    BY <1>7 DEF DeliverObject
  <2>2. (queued => queued') /\ (news[k] => queued')
    BY <1>7 DEF DeliverObject
  <2>3. (Pending => Pending') /\ (news[k] => Pending')
    BY <2>1, <2>2 DEF Pending
  <2>4. ASSUME NEW l \in WatchedKinds PROVE Same(l) \/ Pending'
    <3>1. CASE l = k
      BY <2>1, <2>3, <3>1 DEF Same
    <3>2. CASE l # k
      BY <1>7, <2>1, <3>2, ComponentAssumption DEF DeliverObject, TypeOK, Same
    <3> QED
      BY <3>1, <3>2
  <2> QED
    BY <1>0, <2>1, <2>3, <2>4, RestedStays
<1>8. CASE DeliverImageStream
  <2>1. UNCHANGED <<at, status, spec, gen, objs, news, timer, seen>>
    BY <1>8 DEF DeliverImageStream
  <2>2. Pending => Pending'
    <3>1. queued => queued'
      BY <1>8 DEF DeliverImageStream
    <3> QED
      BY <2>1, <3>1 DEF Pending
  <2>3. ASSUME ~Pending', "image" \notin missed'
        PROVE  ~NamesStream(spec) /\ Image(spec)' = ApplicationImage(spec)
    BY <1>8, <2>3, DeliveredImage
  <2> QED
    BY <1>0, <2>1, <2>2, <2>3, RestedStays DEF Same
<1>9. CASE ImageStreamChanges
  <2>1. stream'.news /\ UNCHANGED <<at, status, spec, gen, objs, news, queued, timer, seen>>
    BY <1>9 DEF ImageStreamChanges
  <2>2. Pending => Pending'
    BY <2>1 DEF Pending
  <2> QED
    BY <1>0, <2>1, <2>2, RestedStays DEF Same
<1>10. CASE DeliverResource
  <2>1. UNCHANGED <<at, status, spec, gen, objs, news, stream, timer>>
    BY <1>10 DEF DeliverResource
  <2>2. (queued => queued') /\ (gen # seen.gen => queued')
    BY <1>10 DEF DeliverResource
  <2>3. Pending => Pending'
    BY <2>1, <2>2 DEF Pending
  <2> QED
    BY <1>0, <2>1, <2>3, RestedStays DEF Same
<1>11. CASE BeginFails \/ UNCHANGED vars
  <2>1. UNCHANGED <<at, status, spec, gen, objs, news, stream, timer, queued, seen>>
    BY <1>11 DEF BeginFails, vars
  <2>2. Pending => Pending'
    BY <2>1 DEF Pending
  <2> QED
    BY <1>0, <2>1, <2>2, RestedStays DEF Same
<1> QED
  BY <1>1, <1>2, <1>3, <1>4, <1>5, <1>6, <1>7, <1>8, <1>9, <1>10, <1>11
     DEF Next, Reconcile

\* A controller at rest, with nothing on its way, has the objects and the image it
\* reports.
LEMMA SettledThen ==
  ASSUME Generations, Copies, Rested
  PROVE  SettledAsDeclared
<1> SUFFICES ASSUME Settled, ReportsReconciled
             PROVE  /\ \A k \in WatchedKinds \ (Leftovers(spec) \cup missed) : AsDeclared(k)
                    /\ status.image = Image(spec) \/ "image" \in missed
  BY DEF SettledAsDeclared
<1>1. ~Pending /\ at = "idle"
  BY DEF Settled, Generations, Pending
<1>2. ~stream.news /\ \A k \in WatchedKinds : ~news[k]
  BY ComponentAssumption DEF Settled
<1>3. status.image = Image(spec) \/ "image" \in missed
  BY <1>1, <1>2 DEF Rested
<1> QED
  BY <1>1, <1>2, <1>3 DEF Rested, AsDeclared, Target

\* When all is quiet and the resource reports that it was reconciled, every watched
\* object is what the specification declares, and so is the image, but for what was
\* missed when an error was swallowed: no stale copy, conflict, returned failure,
\* restart or change behind its back leaves a difference that no event brings up
\* again.
THEOREM SettledCorrect == Spec => []SettledAsDeclared
<1> DEFINE Inv == /\ TypeOK /\ Position /\ Generations
                  /\ Copies /\ Caches /\ Never /\ Worked /\ ImageKnown /\ Rested
<1>1. ASSUME TypeOK, TypeOK', Position, Position', Inv, [Next]_vars PROVE Inv'
  BY <1>1, GenerationsStep, CopiesStep, CachesStep, NeverStep, WorkedStep, ImageKnownStep,
     RestedStep
<1>2. TypeOK /\ Position /\ Init => Inv
  BY GenerationsInit, SettledInit
<1>3. Inv => SettledAsDeclared
  BY SettledThen
<1>4. TypeOK /\ TypeOK' /\ Position /\ Position' /\ Inv /\ [Next]_vars => Inv'
  BY <1>1
<1> HIDE DEF Inv
<1> QED
  BY <1>2, <1>3, <1>4, TypeAndPosition, PTL DEF Spec
=============================================================================
