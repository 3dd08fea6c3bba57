----------------------- MODULE RuntimeComponentProofs -----------------------
(***************************************************************************)
(* Proofs about RuntimeComponent, for every set of specifications, every   *)
(* choice of kinds, cluster and failing calls, and all bounds.             *)
(***************************************************************************)
EXTENDS RuntimeComponent, WellFoundedInduction, TLAPS

\* Where the reconcile stands in Program: a step it is at is one it takes, and
\* one it reports on is one whose failure is reported.
Position ==
  /\ at \in {"idle", "discover", "fence", "image", "store"} => step = 0
  /\ at = "run" => step # 0
  /\ at = "report" => step # Done
  /\ at \in {"run", "report"} /\ step \notin {0, Done} => Runs(step, held)
  /\ at = "report" /\ step # 0 => "report" \in {Program[step].onError, Program[step].lookup}

\* What the resource version protects: a copy that is still the latest has the
\* generation of the resource, and no report is of a later one.
Generations ==
  /\ fresh => seen.gen = gen
  /\ held.current => held.gen = gen
  /\ status.observed <= gen
  /\ at \in {"image", "store", "run"} \/ (at = "report" /\ step # 0) => held.gen >= status.observed

\* The deletions of the other workload, and the creations that come after them.
DeleteDeployment  == 20
ApplyStatefulSet  == 22
DeleteStatefulSet == 23
ApplyDeployment   == 25

\* Once a reconcile is past the deletion of k at step i, there is none until the
\* reconcile ends.
Past(i, k, specs) ==
  at \in {"run", "report"} /\ step > i /\ held.spec \in specs /\ k \in Kinds =>
    objs[k] = Absent

\* What holds of the workload a specification does not want, ...
Switched ==
  /\ Past(DeleteDeployment, "Deployment", Plain \cap With("statefulSet"))
  /\ Past(DeleteStatefulSet, "StatefulSet", Plain \cap Without("statefulSet"))

\* ... and of what a Knative Service replaces, by the steps from FirstCleanup on.
FirstCleanup == 4
ApplyKnative == 12
Replaced     == <<"Service", "HeadlessService", "Deployment", "StatefulSet", "HPA",
                  "NetworkPolicy">>
Cleared      == \A n \in 1 .. 6 : Past(FirstCleanup + n - 1, Replaced[n], Knative)
-----------------------------------------------------------------------------
\* A set of natural numbers that is not empty has a least element.
LEMMA LeastElement ==
  ASSUME NEW S \in SUBSET Nat, S # {}
  PROVE  \E m \in S : \A n \in S : m <= n
<1> DEFINE Less == {ss \in Nat \X Nat : ss[1] < ss[2]}
<1>1. IsWellFoundedOn(Less, Nat)
  BY NatLessThanWellFounded DEF OpToRel
<1>2. PICK m \in S : \A n \in S : <<n, m>> \notin Less
  <2> HIDE DEF Less
  <2> QED
    BY <1>1, WFMin
<1>3. ASSUME NEW n \in S PROVE m <= n
  <2>1. <<n, m>> \in Nat \X Nat /\ <<n, m>> \notin Less
    BY <1>2
  <2>2. ~(n < m)
    BY <2>1
  <2>3. n \in Int /\ m \in Int
    OBVIOUS
  <2> QED
    BY <2>2, <2>3
<1> QED
  BY <1>3

\* Program is 33 steps long, and these are the ones that switch the workload.
LEMMA ProgramSteps ==
  /\ Done = 34
  /\ Program[DeleteDeployment] = Delete("Deployment", Plain \cap With("statefulSet"))
  /\ Program[ApplyStatefulSet] = Apply("StatefulSet", Plain \cap With("statefulSet"))
  /\ Program[DeleteStatefulSet] = Delete("StatefulSet", Plain \cap Without("statefulSet"))
  /\ Program[ApplyDeployment] = Apply("Deployment", Plain \cap Without("statefulSet"))
  /\ Program[ApplyKnative] = Apply("KnativeService", Knative)
BY DEF Done, Program, AccountSteps, KnativeSteps, WorkloadSteps, ExposureSteps,
       DeleteDeployment, ApplyStatefulSet, DeleteStatefulSet, ApplyDeployment,
       ApplyKnative

\* The step after a step that is not the last comes later, is taken, and no step
\* between the two is.
LEMMA NextStep ==
  ASSUME NEW i \in 0 .. Done - 1, NEW h
  PROVE  /\ After(i, h) \in i + 1 .. Done
         /\ After(i, h) # Done => Runs(After(i, h), h)
         /\ \A m \in i + 1 .. After(i, h) - 1 : ~Runs(m, h)
<1> DEFINE S == {j \in i + 1 .. Done : j = Done \/ Runs(j, h)}
           IsNext(j) == /\ j # Done => Runs(j, h)
                        /\ \A m \in i + 1 .. j - 1 : ~Runs(m, h)
<1>0. Done = 34
  BY ProgramSteps
<1>1. S \in SUBSET Nat /\ Done \in S
  BY <1>0
<1>2. PICK j \in S : \A n \in S : j <= n
  BY <1>1, LeastElement
<1>3. j \in i + 1 .. Done /\ (j # Done => Runs(j, h))
  OBVIOUS
<1>4. ASSUME NEW m \in i + 1 .. j - 1 PROVE ~Runs(m, h)
  <2>1. m \in i + 1 .. Done /\ ~(j <= m)
    BY <1>0, <1>3
  <2> QED
    BY <2>1, <1>2
<1>5. \E n \in i + 1 .. Done : IsNext(n)
  BY <1>3, <1>4
<1>6. After(i, h) = CHOOSE n \in i + 1 .. Done : IsNext(n)
  BY DEF After
<1> HIDE DEF IsNext
<1>7. After(i, h) \in i + 1 .. Done /\ IsNext(After(i, h))
  BY <1>5, <1>6
<1> QED
  BY <1>7 DEF IsNext

\* Program, part by part.
LEMMA Parts ==
  /\ \A i \in 1 .. 3   : Program[i] = AccountSteps[i]
  /\ \A i \in 4 .. 12  : Program[i] = KnativeSteps[i - 3]
  /\ \A i \in 13 .. 27 : Program[i] = WorkloadSteps[i - 12]
  /\ \A i \in 28 .. 33 : Program[i] = ExposureSteps[i - 27]
BY DEF Program, AccountSteps, KnativeSteps, WorkloadSteps, ExposureSteps

\* The steps that create k.
Creates(st, k) == st.op = "apply" /\ st.kind = k

\* How a step treats an error, or looks an API up, is all that LookedUp and
\* OnError change.
LEMMA StepFields ==
  \A op, kind, when, how, how2 :
    LET st == Step(op, kind, when)
    IN /\ st.op = op /\ st.kind = kind /\ st.when = when
       /\ LookedUp(how, st).op = op /\ LookedUp(how, st).kind = kind
       /\ LookedUp(how, st).when = when
       /\ OnError(how, st).op = op /\ OnError(how, st).kind = kind
       /\ LookedUp(how2, OnError(how, st)).op = op
       /\ LookedUp(how2, OnError(how, st)).kind = kind
BY DEF Step, LookedUp, OnError

\* Each workload is created by one step of Program.
LEMMA Creations ==
  ASSUME NEW i \in 1 .. Done - 1
  PROVE  /\ Creates(Program[i], "Deployment") => i = ApplyDeployment
         /\ Creates(Program[i], "StatefulSet") => i = ApplyStatefulSet
         /\ Creates(Program[i], "KnativeService") => i = ApplyKnative
<1> DEFINE Other(st) == /\ ~Creates(st, "Deployment") /\ ~Creates(st, "StatefulSet")
                        /\ ~Creates(st, "KnativeService")
<1>1. \A j \in {1, 2, 3} : Other(AccountSteps[j])
  BY StepFields DEF AccountSteps, Creates, Apply, Delete, Check
<1>2. \A j \in {1, 2, 3, 4, 5, 6, 7, 8, 9} :
        /\ ~Creates(KnativeSteps[j], "Deployment")
        /\ ~Creates(KnativeSteps[j], "StatefulSet")
        /\ Creates(KnativeSteps[j], "KnativeService") => j = 9
  BY StepFields DEF KnativeSteps, Creates, Apply, Delete
<1>3. \A j \in {1, 2, 3, 4, 5, 6, 7, 8, 9, 10, 11, 12, 13, 14, 15} :
        /\ Creates(WorkloadSteps[j], "Deployment") => j = 13
        /\ Creates(WorkloadSteps[j], "StatefulSet") => j = 10
        /\ ~Creates(WorkloadSteps[j], "KnativeService")
  BY StepFields DEF WorkloadSteps, Creates, Apply, Delete, Check
<1>4. \A j \in {1, 2, 3, 4, 5, 6} : Other(ExposureSteps[j])
  BY StepFields DEF ExposureSteps, Creates, Apply, Delete
<1>5. CASE i \in 1 .. 3
  BY <1>1, <1>5, Parts
<1>6. CASE i \in 4 .. 12
  BY <1>2, <1>6, Parts DEF ApplyKnative
<1>7. CASE i \in 13 .. 27
  BY <1>3, <1>7, Parts DEF ApplyDeployment, ApplyStatefulSet
<1>8. CASE i \in 28 .. 33
  BY <1>4, <1>8, Parts
<1> QED
  BY <1>5, <1>6, <1>7, <1>8, ProgramSteps
-----------------------------------------------------------------------------
HistoryOK == spent \in [Bounds -> Nat] /\ missed \subseteq Missable

\* Faults are counted, and what is missed is one of the things that can be.
LEMMA HistoryType ==
  ASSUME TypeOK, NEW call, NEW b, NEW what \in Missable,
         UNCHANGED history \/ Fault(call) \/ Spend(b) \/ Swallow(call, what)
  PROVE  HistoryOK'
BY DEF TypeOK, HistoryOK, history, Fault, Spend, Swallow, Bounds

\* A check is not looked up, so what is looked up is a kind of object.
LEMMA Lookups ==
  ASSUME NEW i \in 1 .. Done - 1, Program[i].lookup # "none"
  PROVE  Program[i].op # "check"
<1> DEFINE Good(st) == st.op = "check" => st.lookup = "none"
<1>0. \A op, kind, when : /\ Step(op, kind, when).op = op
                          /\ Step(op, kind, when).lookup = "none"
  BY DEF Step
<1>1. \A j \in {1, 2, 3} : Good(AccountSteps[j])
  BY <1>0 DEF AccountSteps, Apply, Delete, Check
<1>2. \A j \in {1, 2, 3, 4, 5, 6, 7, 8, 9} : Good(KnativeSteps[j])
  BY StepFields DEF KnativeSteps, Apply, Delete
<1>3. \A j \in {1, 2, 3, 4, 5, 6, 7, 8, 9, 10, 11, 12, 13, 14, 15} : Good(WorkloadSteps[j])
  BY <1>0, StepFields DEF WorkloadSteps, Apply, Delete, Check
<1>4. \A j \in {1, 2, 3, 4, 5, 6} : Good(ExposureSteps[j])
  BY StepFields DEF ExposureSteps, Apply, Delete
<1>5. CASE i \in 1 .. 3
  BY <1>1, <1>5, Parts
<1>6. CASE i \in 4 .. 12
  BY <1>2, <1>6, Parts
<1>7. CASE i \in 13 .. 27
  BY <1>3, <1>7, Parts
<1>8. CASE i \in 28 .. 33
  BY <1>4, <1>8, Parts
<1> QED
  BY <1>5, <1>6, <1>7, <1>8, ProgramSteps

\* The kind of the step that is taken, unless it is a check, is one that can be
\* missed.
LEMMA KindType ==
  ASSUME TypeOK, Position, at = "run", step # Done,
         Current.op # "check" \/ Current.lookup # "none"
  PROVE  Current.kind \in Missable
<1>1. step \in 1 .. Done - 1 /\ Runs(step, held)
  BY ProgramSteps DEF TypeOK, Position
<1>2. Program[step].op # "check"
  BY <1>1, Lookups DEF Current
<1> QED
  BY <1>1, <1>2, ComponentAssumption DEF Runs, Current, Missable

\* The status writes keep the type of what they write, stored or not.
LEMMA StatusUpdateType ==
  ASSUME TypeOK, NEW new \in Status, UpdateStatus(new) \/ UpdateStatusFails
  PROVE  status' \in Status /\ fresh' \in BOOLEAN /\ HistoryOK'
<1>1. CASE UpdateStatus(new)
  BY <1>1 DEF TypeOK, UpdateStatus, HistoryOK, history
<1>2. CASE UpdateStatusFails
  <2>1. /\ UNCHANGED <<status, fresh>>
        /\ UNCHANGED history \/ Fault("status") \/ Swallow("status", "rejection")
    BY <1>2 DEF UpdateStatusFails
  <2>2. HistoryOK'
    BY <2>1, HistoryType DEF Missable
  <2> QED
    BY <2>1, <2>2 DEF TypeOK
<1> QED
  BY <1>1, <1>2

\* An image in the status of the resource is one of those there are.
LEMMA ImageType ==
  ASSUME TypeOK, NEW s
  PROVE  Image(s) \in Images /\ ApplicationImage(s) \in Images
BY DEF TypeOK, Image, ApplicationImage, Images, Tags

\* A reconcile that ends holds no copy; one that goes on is at a step or done.
LEMMA EndType ==
  ASSUME TypeOK
  PROVE  /\ NoCopy \in Copy
         /\ EndReconcile => at' \in Positions /\ step' \in 0 .. Done /\ held' \in Copy
<1>1. NoCopy \in Copy
  BY DEF TypeOK, NoCopy, Copy, Images
<1> QED
  BY <1>1, ProgramSteps DEF EndReconcile, Positions

\* Advance leaves the controller at a place of the right type.
LEMMA AdvanceType ==
  ASSUME TypeOK, Advance, step # Done
  PROVE  at' \in Positions /\ step' \in 0 .. Done /\ held' \in Copy
BY ProgramSteps, NextStep DEF TypeOK, Advance, Positions

\* An owned object that is stored, or none, has its type.
LEMMA StoreType ==
  ASSUME TypeOK, NEW k, NEW v \in Contents \cup {Absent}, Store(k, v)
  PROVE  objs' \in Objects /\ news' \in [Kinds -> BOOLEAN]
BY DEF TypeOK, Store, Objects

\* So has one that is customized.
LEMMA WriteType ==
  ASSUME TypeOK, NEW k, NEW v \in Contents, Write(k, v)
  PROVE  objs' \in Objects /\ news' \in [Kinds -> BOOLEAN]
BY StoreType DEF Write, TypeOK

\* Before Program is run, the reconcile is at none of its steps, and Program does
\* not report on the last.
LEMMA PositionInit == Init => Position
BY DEF Init, Position

\* The state of the controller always has its type.
LEMMA TypeStep ==
  ASSUME TypeOK, Position, [Next]_vars
  PROVE  TypeOK'
<1> USE ComponentAssumption DEF resource, cached, queue, control, history
<1>1. CASE Begin
  BY <1>1 DEF Begin, TypeOK, Positions, Copy, Status
<1>2. CASE BeginFails
  BY <1>2 DEF BeginFails, Fault, Spend, TypeOK, Bounds
<1>3. CASE DiscoverKnative
  <2>1. HistoryOK'
    BY <1>3, HistoryType DEF DiscoverKnative, Missable, ObjectKinds
  <2> QED
    BY <1>3, <2>1 DEF DiscoverKnative, TypeOK, HistoryOK, Positions, Copy
<1>4. CASE Reject
  BY <1>4 DEF Reject, TypeOK, Positions
<1>5. CASE Fence
  BY <1>5 DEF Fence, TypeOK, Positions, Copy
<1>6. CASE FenceFails
  BY <1>6 DEF FenceFails, Fail, Fault, Spend, TypeOK, Bounds, Positions
<1>7. CASE KeepImage
  <2>1. step # Done
    BY <1>7, ProgramSteps DEF KeepImage, Position
  <2> QED
    BY <1>7, <2>1, AdvanceType DEF KeepImage, TypeOK
<1>8. CASE StoreImage
  <2> DEFINE new == [status EXCEPT !.image = held.image]
  <2>1. new \in Status
    BY DEF TypeOK, Status, Copy
  <2>2. step # Done
    BY <1>8, ProgramSteps DEF StoreImage, Position
  <2>3. at' \in Positions /\ step' \in 0 .. Done /\ held' \in Copy
    BY <1>8, <2>2, AdvanceType DEF StoreImage, Fail, TypeOK, Positions
  <2>4. UpdateStatus(new) \/ UpdateStatusFails
    BY <1>8 DEF StoreImage
  <2> QED
    BY <1>8, <2>1, <2>3, <2>4, StatusUpdateType DEF StoreImage, TypeOK, HistoryOK
<1>9. CASE ImageFails
  BY <1>9, ImageType DEF ImageFails, Fault, Spend, TypeOK, Bounds, Positions, Copy
<1>10. CASE ApplyObject
  <2>1. step # Done /\ Advance
    BY <1>10 DEF ApplyObject, AtStep
  <2>2. \A k : Customized(k) \in Contents
    BY DEF TypeOK, Copy, Customized, Content, Contents, Images
  <2>3. objs' \in Objects /\ news' \in [Kinds -> BOOLEAN]
    BY <1>10, <2>2, WriteType DEF ApplyObject
  <2> QED
    BY <1>10, <2>1, <2>3, AdvanceType DEF ApplyObject, TypeOK
<1>11. CASE ApplyFails
  BY <1>11 DEF ApplyFails, Fail, Fault, Spend, TypeOK, Bounds, Positions
<1>12. CASE DeleteObject
  <2>1. step # Done /\ Advance
    BY <1>12 DEF DeleteObject, AtStep
  <2>2. objs' \in Objects /\ news' \in [Kinds -> BOOLEAN]
    BY <1>12, StoreType DEF DeleteObject
  <2> QED
    BY <1>12, <2>1, <2>2, AdvanceType DEF DeleteObject, TypeOK
<1>13. CASE DeleteFails
  <2>1. step # Done
    BY <1>13 DEF DeleteFails, AtStep
  <2>2. at' \in Positions /\ step' \in 0 .. Done /\ held' \in Copy
    BY <1>13, <2>1, AdvanceType DEF DeleteFails, Fail, TypeOK, Positions
  <2>3. Current.kind \in Missable
    BY <1>13, <2>1, KindType DEF DeleteFails, AtStep
  <2>4. HistoryOK'
    BY <1>13, <2>3, HistoryType DEF DeleteFails
  <2> QED
    BY <1>13, <2>2, <2>4 DEF DeleteFails, TypeOK, HistoryOK
<1>14. CASE LookupFails
  <2>1. step # Done
    BY <1>14 DEF LookupFails
  <2>2. at' \in Positions /\ step' \in 0 .. Done /\ held' \in Copy
    BY <1>14, <2>1, AdvanceType DEF LookupFails, TypeOK, Positions
  <2>3. Current.kind \in Missable
    BY <1>14, KindType DEF LookupFails
  <2>4. HistoryOK'
    BY <1>14, <2>3, HistoryType DEF LookupFails
  <2> QED
    BY <1>14, <2>2, <2>4 DEF LookupFails, TypeOK, HistoryOK
<1>15. CASE PassCheck
  <2>1. step # Done /\ Advance
    BY <1>15 DEF PassCheck, AtStep
  <2> QED
    BY <1>15, <2>1, AdvanceType DEF PassCheck, TypeOK
<1>16. CASE CheckFails
  BY <1>16 DEF CheckFails, Fail, Fault, Spend, TypeOK, Bounds, Positions
<1>17. CASE ManageError
  <2> DEFINE new == [status EXCEPT !.reconciled = "False", !.image = held.image]
  <2>1. new \in Status
    BY DEF TypeOK, Status, Copy
  <2>2. UpdateStatus(new) \/ UpdateStatusFails
    BY <1>17 DEF ManageError
  <2>3. /\ at \in {"error", "reject", "report"}
        /\ at = "report" => step # Done
    BY <1>17 DEF ManageError, Position
  <2>4. at' \in Positions /\ step' \in 0 .. Done /\ held' \in Copy
    <3>1. CASE at \in {"error", "reject"}
      BY <1>17, <3>1, EndType DEF ManageError
    <3>2. CASE at = "report"
      BY <1>17, <2>3, <3>2, AdvanceType DEF ManageError, TypeOK, Positions
    <3> QED
      BY <2>3, <3>1, <3>2
  <2>5. timer' \in Timers
    BY <1>17, <2>3 DEF ManageError, TypeOK, Timers
  <2> QED
    BY <1>17, <2>1, <2>2, <2>4, <2>5, StatusUpdateType
       DEF ManageError, TypeOK, HistoryOK
<1>18. CASE FinishWithoutKnative
  BY <1>18 DEF FinishWithoutKnative, Fail, TypeOK, Positions
<1>19. CASE ManageSuccess
  <2> DEFINE new == [observed |-> held.gen, reconciled |-> "True", image |-> held.image]
  <2>1. new \in Status
    BY DEF TypeOK, Status, Copy
  <2>2. UpdateStatus(new) \/ UpdateStatusFails
    BY <1>19 DEF ManageSuccess
  <2>3. timer' \in Timers
    BY <1>19 DEF ManageSuccess, TypeOK, Timers
  <2>4. at' \in Positions /\ step' \in 0 .. Done /\ held' \in Copy
    BY <1>19, EndType DEF ManageSuccess
  <2> QED
    BY <1>19, <2>1, <2>2, <2>3, <2>4, StatusUpdateType
       DEF ManageSuccess, TypeOK, HistoryOK
<1>20. CASE Edit
  <2>1. held' \in Copy
    BY <1>20 DEF Edit, TypeOK, Copy
  <2>2. HistoryOK' /\ gen' \in Nat
    BY <1>20, HistoryType DEF Edit, TypeOK, Missable
  <2>3. spec' \in Specs /\ defaulted' \in BOOLEAN /\ fresh' \in BOOLEAN
    BY <1>20 DEF Edit, TypeOK
  <2> QED
    BY <1>20, <2>1, <2>2, <2>3 DEF Edit, TypeOK, HistoryOK
<1>21. ASSUME NEW k \in Kinds, Drift(k) PROVE TypeOK'
  <2>1. objs' \in Objects /\ news' \in [Kinds -> BOOLEAN]
    BY <1>21, StoreType DEF Drift
  <2> QED
    BY <1>21, <2>1 DEF Drift, Spend, TypeOK, Bounds
<1>22. ASSUME NEW k \in Kinds, DeliverObject(k) PROVE TypeOK'
  BY <1>22 DEF DeliverObject, TypeOK, Objects
<1>23. CASE DeliverResource
  BY <1>23 DEF DeliverResource, TypeOK
<1>24. CASE TimerFires
  BY <1>24 DEF TimerFires, TypeOK, Timers
<1>25. CASE Crash
  <2>1. NoCopy \in Copy /\ 0 \in 0 .. Done
    BY EndType, ProgramSteps
  <2>2. stream' \in [tag : Tags, news : BOOLEAN]
    BY <1>25 DEF Crash, TypeOK
  <2>3. HistoryOK'
    BY <1>25, HistoryType DEF Crash, Missable
  <2> QED
    BY <1>25, <2>1, <2>2, <2>3 DEF Crash, TypeOK, HistoryOK, Positions, Timers
<1>26. CASE UNCHANGED vars
  BY <1>26 DEF vars, TypeOK
<1>27. CASE ImageStreamChanges
  <2>1. stream' \in [tag : Tags, news : BOOLEAN]
    BY <1>27 DEF ImageStreamChanges
  <2>2. HistoryOK'
    BY <1>27, HistoryType DEF ImageStreamChanges, Missable
  <2> QED
    BY <1>27, <2>1, <2>2 DEF ImageStreamChanges, TypeOK, HistoryOK
<1>28. CASE DeliverImageStream
  <2>1. stream' \in [tag : Tags, news : BOOLEAN]
    BY <1>28 DEF DeliverImageStream, TypeOK
  <2>2. queued' \in BOOLEAN
    BY <1>28 DEF DeliverImageStream, TypeOK
  <2>3. HistoryOK'
    BY <1>28, HistoryType DEF DeliverImageStream, Missable
  <2> QED
    BY <1>28, <2>1, <2>2, <2>3 DEF DeliverImageStream, TypeOK, HistoryOK
<1>29. CASE FindImage \/ MissTag
  <2>1. PICK image \in Images : TakeImage(image)
    BY <1>29, ImageType DEF FindImage, MissTag
  <2>2. HistoryOK'
    BY <1>29, HistoryType DEF FindImage, MissTag, Missable
  <2> QED
    BY <2>1, <2>2 DEF TakeImage, TypeOK, HistoryOK, Positions, Copy
<1>30. CASE ApplyElsewhere
  <2> DEFINE v == [spec |-> held.spec, image |-> "elsewhere"]
  <2>1. step # Done /\ Advance /\ at = "run" /\ Current.op # "check"
    BY <1>30 DEF ApplyElsewhere, AtStep
  <2>2. v \in Contents
    BY DEF TypeOK, Copy, Contents
  <2>3. objs' \in Objects /\ news' \in [Kinds -> BOOLEAN]
    BY <1>30, <2>2, WriteType DEF ApplyElsewhere
  <2>4. HistoryOK'
    BY <1>30, <2>1, KindType, HistoryType DEF ApplyElsewhere
  <2> QED
    BY <1>30, <2>1, <2>3, <2>4, AdvanceType DEF ApplyElsewhere, TypeOK, HistoryOK
<1> QED
  BY <1>1, <1>2, <1>3, <1>4, <1>5, <1>6, <1>7, <1>8, <1>9, <1>10, <1>11, <1>12, <1>13,
     <1>14, <1>15, <1>16, <1>17, <1>18, <1>19, <1>20, <1>21, <1>22, <1>23, <1>24, <1>25,
     <1>26, <1>27, <1>28, <1>29, <1>30 DEF Next, Reconcile
-----------------------------------------------------------------------------
\* Advance leads from one step that is taken to the next.
LEMMA AdvancePosition ==
  ASSUME TypeOK, Advance, step # Done
  PROVE  Position'
<1>1. /\ step' \in step + 1 .. Done /\ at' = "run" /\ held' = held
      /\ step' # Done => Runs(step', held)
  BY ProgramSteps, NextStep DEF TypeOK, Advance
<1>2. step' # 0
  BY <1>1, ProgramSteps DEF TypeOK
<1>3. Runs(step', held') <=> Runs(step', held)
  BY <1>1
<1> QED
  BY <1>1, <1>2, <1>3 DEF Position, Runs

\* What does not move the reconcile leaves it where it is.
LEMMA SamePosition ==
  ASSUME Position, UNCHANGED <<at, step>>,
         held'.spec = held.spec, held'.knative = held.knative
  PROVE  Position'
BY DEF Position, Runs

\* Outside Program there is little to say of a position.
LEMMA OtherPosition ==
  ASSUME at' \notin {"run", "report"}, at' # "error" => step' = 0
  PROVE  Position'
BY DEF Position

\* Every step of the system keeps Position.
LEMMA PositionStep ==
  ASSUME TypeOK, Position, [Next]_vars
  PROVE  Position'
<1> USE DEF resource, cached, queue, control, history
<1>1. ASSUME UNCHANGED control PROVE Position'
  BY <1>1, SamePosition
<1>2. ASSUME Fail PROVE Position'
  BY <1>2, OtherPosition DEF Fail
<1>3. ASSUME EndReconcile PROVE Position'
  BY <1>3, OtherPosition DEF EndReconcile
<1>4. CASE Begin \/ Reject \/ Fence
  BY <1>4, OtherPosition DEF Begin, Reject, Fence, Position
<1>5. CASE DiscoverKnative
  BY <1>5, ProgramSteps DEF DiscoverKnative, Position
<1>6. CASE KeepImage \/ StoreImage
  <2>1. step # Done /\ (Advance \/ Fail)
    BY <1>6, ProgramSteps DEF KeepImage, StoreImage, Position
  <2> QED
    BY <1>2, <2>1, AdvancePosition
<1>7. CASE FindImage \/ MissTag
  BY <1>7, OtherPosition DEF FindImage, MissTag, TakeImage, Position
<1>8. CASE ImageFails
  BY <1>8, OtherPosition DEF ImageFails
<1>9. CASE ApplyObject \/ ApplyElsewhere \/ DeleteObject \/ PassCheck
  BY <1>9, AdvancePosition DEF ApplyObject, ApplyElsewhere, DeleteObject, PassCheck, AtStep
<1>10. CASE DeleteFails
  <2>1. at = "run" /\ step # Done
    BY <1>10 DEF DeleteFails, AtStep
  <2>2. ASSUME at' = "report", UNCHANGED <<step, held>>, Current.onError = "report"
        PROVE  Position'
    BY <2>1, <2>2 DEF Position, Current
  <2> QED
    BY <1>2, <1>10, <2>1, <2>2, AdvancePosition DEF DeleteFails
<1>11. CASE LookupFails
  <2>1. at = "run" /\ step # Done
    BY <1>11 DEF LookupFails
  <2>2. ASSUME at' = "report", UNCHANGED <<step, held>>, Current.lookup = "report"
        PROVE  Position'
    BY <2>1, <2>2 DEF Position, Current
  <2> QED
    BY <1>11, <2>1, <2>2, AdvancePosition DEF LookupFails
<1>12. CASE ManageError
  <2>1. CASE at \in {"error", "reject"}
    BY <1>3, <1>12, <2>1 DEF ManageError
  <2>2. CASE at = "report" /\ step = 0
    <3>1. at' = "fence" /\ step' = 0
      BY <1>12, <2>2 DEF ManageError
    <3> QED
      BY <3>1, OtherPosition
  <2>3. CASE at = "report" /\ step # 0
    <3>1. Advance /\ step # Done
      BY <1>12, <2>3 DEF ManageError, Position
    <3> QED
      BY <3>1, AdvancePosition
  <2> QED
    BY <1>12, <2>1, <2>2, <2>3 DEF ManageError
<1>13. CASE Edit
  <2>1. /\ held' = [held EXCEPT !.current = FALSE]
        /\ UNCHANGED <<at, step>>
    BY <1>13 DEF Edit
  <2>2. held'.spec = held.spec /\ held'.knative = held.knative
    BY <2>1 DEF TypeOK, Copy
  <2> QED
    BY <2>1, <2>2, SamePosition
<1>14. CASE Crash
  BY <1>14, OtherPosition DEF Crash
<1>15. CASE FenceFails \/ ApplyFails \/ CheckFails \/ FinishWithoutKnative
  BY <1>2, <1>15 DEF FenceFails, ApplyFails, CheckFails, FinishWithoutKnative
<1>16. CASE ManageSuccess
  BY <1>3, <1>16 DEF ManageSuccess
<1>17. ASSUME NEW k \in Kinds, Drift(k) \/ DeliverObject(k) PROVE Position'
  BY <1>1, <1>17 DEF Drift, DeliverObject
<1>18. CASE \/ BeginFails \/ DeliverResource \/ ImageStreamChanges \/ DeliverImageStream
            \/ TimerFires \/ UNCHANGED vars
  BY <1>1, <1>18 DEF BeginFails, DeliverResource, ImageStreamChanges, DeliverImageStream,
                     TimerFires, vars
<1> QED
  BY <1>4, <1>5, <1>6, <1>7, <1>8, <1>9, <1>10, <1>11, <1>12, <1>13, <1>14, <1>15, <1>16,
     <1>17, <1>18 DEF Next, Reconcile

\* A step the reconcile is at is one its copy of the specification asks for.
LEMMA TypeAndPosition == Spec => [](TypeOK /\ Position)
<1>1. Init => TypeOK
  <2> SUFFICES ASSUME Init PROVE TypeOK
    OBVIOUS
  <2>1. NoCopy \in Copy /\ 0 \in 0 .. Done
    BY ProgramSteps DEF Init, NoCopy, Copy, Images
  <2> QED
    BY <2>1 DEF Init, TypeOK, Status, Images, Tags, Objects, Bounds, Positions, Timers
<1> QED
  BY <1>1, PositionInit, PositionStep, TypeStep, PTL DEF Spec

\* The state of the controller always has its type; in particular every step leads
\* to a step of Program or to its end, whatever the specification.
THEOREM TypeCorrect == Spec => []TypeOK
BY TypeAndPosition, PTL
-----------------------------------------------------------------------------
\* At first there is no report, and the cache has the only generation.
LEMMA GenerationsInit == Init => Generations
BY DEF Init, Generations, NoCopy

\* Advance changes neither copy nor generation.
LEMMA AdvanceGenerations ==
  ASSUME TypeOK, Generations, Advance, UNCHANGED <<gen, seen, fresh, status>>,
         at \in {"store", "run"} \/ (at = "report" /\ step # 0)
  PROVE  Generations'
BY DEF Generations, Advance

\* A status write, or none, that leaves the observed generation alone.
LEMMA SameObserved ==
  ASSUME TypeOK, NEW new \in Status, new.observed = status.observed,
         UpdateStatus(new) \/ UpdateStatusFails
  PROVE  status'.observed = status.observed /\ (fresh' => fresh)
BY DEF UpdateStatus, UpdateStatusFails

\* Every step of the system keeps Generations.
LEMMA GenerationsStep ==
  ASSUME TypeOK, Position, Generations, [Next]_vars
  PROVE  Generations'
<1> USE DEF resource, cached, queue, control, history
<1>1. CASE Begin
  BY <1>1 DEF Begin, Generations
<1>2. CASE DiscoverKnative
  <2>1. /\ held'.gen = held.gen /\ held'.current = held.current
        /\ UNCHANGED <<gen, seen, fresh, status, step>> /\ at' \in {"fence", "report"}
        /\ step = 0
    BY <1>2 DEF DiscoverKnative, TypeOK, Copy, Position
  <2> QED
    BY <2>1 DEF Generations
<1>3. CASE Fence
  <2>1. /\ held'.gen = gen' /\ UNCHANGED <<status, seen>> /\ at' = "image"
        /\ fresh' => fresh /\ gen' = gen
    BY <1>3 DEF Fence, TypeOK, Copy
  <2>2. gen \in Nat /\ gen' \in Nat /\ gen' >= gen
    BY <1>3 DEF Fence, TypeOK
  <2>3. status.observed \in Nat /\ status.observed <= gen
    BY DEF Generations, TypeOK, Status
  <2>4. status'.observed <= gen' /\ held'.gen >= status'.observed
    BY <2>1, <2>2, <2>3
  <2> QED
    BY <2>1, <2>4 DEF Generations
<1>4. CASE KeepImage \/ ApplyObject \/ ApplyElsewhere \/ DeleteObject \/ PassCheck
  BY <1>4, AdvanceGenerations
     DEF KeepImage, ApplyObject, ApplyElsewhere, DeleteObject, PassCheck, AtStep
<1>5. CASE StoreImage
  <2> DEFINE new == [status EXCEPT !.image = held.image]
  <2>1. new \in Status /\ new.observed = status.observed
    BY DEF TypeOK, Status, Copy
  <2>2. UpdateStatus(new) \/ UpdateStatusFails
    BY <1>5 DEF StoreImage
  <2>3. status'.observed = status.observed /\ (fresh' => fresh)
    BY <2>1, <2>2, SameObserved
  <2>4. /\ held'.gen = held.gen /\ held'.current = held.current
        /\ at = "store" /\ at' \in {"run", "error"} /\ UNCHANGED <<gen, seen>>
    BY <1>5 DEF StoreImage, Advance, Fail
  <2> QED
    BY <2>3, <2>4 DEF Generations
<1>6. CASE ImageFails
  <2>1. /\ held'.gen = held.gen /\ held'.current = held.current /\ at' = "error"
        /\ UNCHANGED <<gen, seen, fresh, status>>
    BY <1>6 DEF ImageFails, TypeOK, Copy
  <2> QED
    BY <2>1 DEF Generations
<1>19. CASE FindImage \/ MissTag
  <2>1. /\ held'.gen = held.gen /\ held'.current = held.current
        /\ at = "image" /\ at' = "store" /\ UNCHANGED <<gen, seen, fresh, status>>
    BY <1>19 DEF FindImage, MissTag, TakeImage, TypeOK, Copy
  <2> QED
    BY <2>1 DEF Generations
<1>7. ASSUME at' = "error", UNCHANGED <<gen, seen, fresh, status, held>> PROVE Generations'
  BY <1>7 DEF Generations
<1>8. CASE DeleteFails \/ LookupFails
  <2>1. at = "run" /\ UNCHANGED <<gen, seen, fresh, status>>
    BY <1>8 DEF DeleteFails, LookupFails, AtStep
  <2>2. ASSUME at' = "report", UNCHANGED <<step, held>> PROVE Generations'
    BY <2>1, <2>2 DEF Generations
  <2>3. Advance \/ Fail \/ (at' = "report" /\ UNCHANGED <<step, held>>)
    BY <1>8 DEF DeleteFails, LookupFails
  <2> QED
    BY <1>7, <2>1, <2>2, <2>3, AdvanceGenerations DEF Fail
<1>9. CASE ManageError
  <2> DEFINE new == [status EXCEPT !.reconciled = "False", !.image = held.image]
  <2>1. new \in Status /\ new.observed = status.observed
    BY DEF TypeOK, Status, Copy
  <2>2. UpdateStatus(new) \/ UpdateStatusFails
    BY <1>9 DEF ManageError
  <2>3. status'.observed = status.observed /\ (fresh' => fresh) /\ UNCHANGED <<gen, seen>>
    BY <1>9, <2>1, <2>2, SameObserved DEF ManageError
  <2>4. CASE at \in {"error", "reject"}
    <3>0. EndReconcile
      BY <1>9, <2>4 DEF ManageError
    <3>1. at' = "idle" /\ ~held'.current
      BY <3>0 DEF EndReconcile, NoCopy
    <3>2. (fresh' => seen'.gen = gen') /\ status'.observed <= gen'
      BY <2>3 DEF Generations
    <3> QED
      BY <3>1, <3>2 DEF Generations
  <2>5. CASE at = "report" /\ step = 0
    <3>1. at' = "fence" /\ held' = held
      BY <1>9, <2>5 DEF ManageError
    <3> QED
      BY <2>3, <3>1 DEF Generations
  <2>6. CASE at = "report" /\ step # 0
    <3>1. at' = "run" /\ held' = held
      BY <1>9, <2>6 DEF ManageError, Advance
    <3> QED
      BY <2>3, <2>6, <3>1 DEF Generations
  <2> QED
    BY <1>9, <2>4, <2>5, <2>6 DEF ManageError
<1>10. CASE ManageSuccess
  <2>1. at' = "idle" /\ ~held'.current /\ UNCHANGED <<gen, seen>>
    BY <1>10 DEF ManageSuccess, EndReconcile, NoCopy
  <2>2. CASE UpdateStatusFails
    BY <2>1, <2>2 DEF UpdateStatusFails, Generations
  <2>3. CASE UpdateStatus([observed |-> held.gen, reconciled |-> "True",
                           image |-> held.image])
    <3>1. status'.observed = gen /\ ~fresh'
      BY <2>3 DEF UpdateStatus, Generations
    <3> QED
      BY <2>1, <3>1 DEF Generations, TypeOK
  <2> QED
    BY <1>10, <2>2, <2>3 DEF ManageSuccess
<1>11. CASE Edit
  <2>1. /\ held'.gen = held.gen /\ ~held'.current /\ ~fresh' /\ gen' = gen + 1
        /\ UNCHANGED <<status, at, step>>
    BY <1>11 DEF Edit, TypeOK, Copy
  <2> QED
    BY <2>1 DEF Generations, TypeOK, Status
<1>12. CASE DeliverResource
  BY <1>12 DEF DeliverResource, Generations
<1>13. CASE Crash
  BY <1>13 DEF Crash, Generations, NoCopy
<1>14. CASE FenceFails \/ ApplyFails \/ CheckFails \/ FinishWithoutKnative
  BY <1>7, <1>14 DEF FenceFails, ApplyFails, CheckFails, FinishWithoutKnative, Fail
<1>15. CASE Reject
  BY <1>15 DEF Reject, Generations
<1>16. ASSUME UNCHANGED <<gen, seen, fresh, status, at, step, held>> PROVE Generations'
  BY <1>16 DEF Generations
<1>17. ASSUME NEW k \in Kinds, Drift(k) \/ DeliverObject(k) PROVE Generations'
  BY <1>16, <1>17 DEF Drift, DeliverObject
<1>18. CASE \/ BeginFails \/ ImageStreamChanges \/ DeliverImageStream \/ TimerFires
            \/ UNCHANGED vars
  BY <1>16, <1>18 DEF BeginFails, ImageStreamChanges, DeliverImageStream, TimerFires, vars
<1> QED
  BY <1>1, <1>2, <1>3, <1>4, <1>5, <1>6, <1>8, <1>9, <1>10, <1>11, <1>12, <1>13, <1>14,
     <1>15, <1>17, <1>18, <1>19 DEF Next, Reconcile

\* A reconcile that changes the cluster works for a generation no older than the
\* one reported: the write before it is refused for any copy but the latest.
THEOREM NeverBack == Spec => []NoRollback
<1>1. Generations => NoRollback
  BY DEF Generations, NoRollback
<1> QED
  BY <1>1, TypeAndPosition, GenerationsInit, GenerationsStep, PTL DEF Spec

\* Reports name the generation of the moment they are stored.
LEMMA TrackingInit == Init => Tracking!Init
BY DEF Init, Tracking!Init

\* Every step of the system is one of GenerationTracking, or changes neither the
\* generation nor the report.
LEMMA TrackingStep ==
  ASSUME TypeOK, Generations, [Next]_vars
  PROVE  Tracking!Next \/ UNCHANGED <<gen, status.observed>>
<1> DEFINE Mapped == Tracking!Next \/ UNCHANGED <<gen, status.observed>>
<1> USE DEF resource, cached, queue, control, history
<1>1. ASSUME UNCHANGED gen, status'.observed = status.observed PROVE Mapped
  BY <1>1
<1>2. ASSUME gen' = gen + 1, UNCHANGED status PROVE Mapped
  BY <1>2 DEF Tracking!Next, Tracking!Change
<1>3. CASE Fence
  BY <1>1, <1>2, <1>3 DEF Fence
<1>4. CASE Edit
  BY <1>2, <1>4 DEF Edit
<1>5. CASE StoreImage
  <2> DEFINE new == [status EXCEPT !.image = held.image]
  <2>1. new \in Status /\ new.observed = status.observed
    BY DEF TypeOK, Status, Copy
  <2>2. UpdateStatus(new) \/ UpdateStatusFails
    BY <1>5 DEF StoreImage
  <2>3. status'.observed = status.observed
    BY <2>1, <2>2, SameObserved
  <2> QED
    BY <1>1, <1>5, <2>3 DEF StoreImage
<1>6. CASE ManageError
  <2> DEFINE new == [status EXCEPT !.reconciled = "False", !.image = held.image]
  <2>1. new \in Status /\ new.observed = status.observed
    BY DEF TypeOK, Status, Copy
  <2>2. UpdateStatus(new) \/ UpdateStatusFails
    BY <1>6 DEF ManageError
  <2>3. status'.observed = status.observed
    BY <2>1, <2>2, SameObserved
  <2> QED
    BY <1>1, <1>6, <2>3 DEF ManageError
<1>7. CASE ManageSuccess
  <2>1. CASE UpdateStatusFails
    BY <1>1, <1>7, <2>1 DEF ManageSuccess, UpdateStatusFails
  <2>2. CASE UpdateStatus([observed |-> held.gen, reconciled |-> "True",
                           image |-> held.image])
    <3>1. status'.observed = gen /\ UNCHANGED gen
      BY <1>7, <2>2 DEF UpdateStatus, Generations, ManageSuccess
    <3> QED
      BY <3>1 DEF Tracking!Next, Tracking!Report
  <2> QED
    BY <1>7, <2>1, <2>2 DEF ManageSuccess
<1>8. CASE \/ Begin \/ BeginFails \/ DiscoverKnative \/ Reject \/ FenceFails
           \/ FindImage \/ MissTag \/ ImageFails \/ KeepImage \/ ApplyObject
           \/ ApplyElsewhere \/ ApplyFails \/ DeleteObject \/ DeleteFails
           \/ LookupFails \/ PassCheck \/ CheckFails \/ FinishWithoutKnative
  BY <1>1, <1>8 DEF Begin, BeginFails, DiscoverKnative, Reject, FenceFails, FindImage,
     MissTag, TakeImage, ImageFails, KeepImage, ApplyObject, ApplyElsewhere, ApplyFails,
     DeleteObject, DeleteFails, LookupFails, PassCheck, CheckFails, FinishWithoutKnative
<1>9. ASSUME NEW k \in Kinds, Drift(k) \/ DeliverObject(k) PROVE Mapped
  BY <1>1, <1>9 DEF Drift, DeliverObject
<1>10. CASE \/ DeliverResource \/ ImageStreamChanges \/ DeliverImageStream \/ TimerFires
            \/ Crash \/ UNCHANGED vars
  BY <1>1, <1>10 DEF DeliverResource, ImageStreamChanges, DeliverImageStream, TimerFires,
                     Crash, vars
<1> QED
  BY <1>3, <1>4, <1>5, <1>6, <1>7, <1>8, <1>9, <1>10 DEF Next, Reconcile

\* observedGeneration implements GenerationTracking: a report names the generation
\* the resource has at that moment.
THEOREM Implements == Spec => ImplementsTracking
<1>1. TypeOK /\ Generations /\ [Next]_vars => [Tracking!Next]_<<gen, status.observed>>
  BY TrackingStep
<1> QED
  BY <1>1, TypeAndPosition, GenerationsInit, GenerationsStep, TrackingInit, PTL
     DEF Spec, ImplementsTracking, Tracking!Spec
-----------------------------------------------------------------------------
\* Step i deletes k for specs, and no step creates k for one of them.
Deletes(i, k, specs) ==
  /\ i \in 1 .. Done - 1 /\ k # "KnativeService"
  /\ Program[i] = Delete(k, specs)
  /\ \A j \in 1 .. Done - 1 : Creates(Program[j], k) => Program[j].when \cap specs = {}

\* What a Knative Service replaces is not created for one.
LEMMA KnativeCreations ==
  ASSUME NEW i \in 1 .. Done - 1, Program[i].op = "apply"
  PROVE  \/ Program[i].when \cap Knative = {}
         \/ Program[i].kind \in {"ServiceAccount", "KnativeService"}
<1> DEFINE Good(st) == \/ st.op # "apply"
                       \/ st.when \cap Knative = {}
                       \/ st.kind \in {"ServiceAccount", "KnativeService"}
<1>1. \A j \in {1, 2, 3} : Good(AccountSteps[j])
  BY StepFields DEF AccountSteps, Apply, Delete, Check
<1>2. \A j \in {1, 2, 3, 4, 5, 6, 7, 8, 9} : Good(KnativeSteps[j])
  BY StepFields DEF KnativeSteps, Apply, Delete
<1>3. Plain \cap Knative = {}
  BY DEF Plain, Knative, With, Without
<1>4. \A j \in {1, 2, 3, 4, 5, 6, 7, 8, 9, 10, 11, 12, 13, 14, 15} : Good(WorkloadSteps[j])
  BY <1>3, StepFields DEF WorkloadSteps, Apply, Delete, Check
<1>5. \A j \in {1, 2, 3, 4, 5, 6} : Good(ExposureSteps[j])
  BY <1>3, StepFields DEF ExposureSteps, Apply, Delete, If
<1>6. CASE i \in 1 .. 3
  BY <1>1, <1>6, Parts
<1>7. CASE i \in 4 .. 12
  BY <1>2, <1>7, Parts
<1>8. CASE i \in 13 .. 27
  BY <1>4, <1>8, Parts
<1>9. CASE i \in 28 .. 33
  BY <1>5, <1>9, Parts
<1> QED
  BY <1>6, <1>7, <1>8, <1>9, ProgramSteps

\* The eight deletions the theorems below are about.
LEMMA Deletions ==
  /\ Deletes(DeleteDeployment, "Deployment", Plain \cap With("statefulSet"))
  /\ Deletes(DeleteStatefulSet, "StatefulSet", Plain \cap Without("statefulSet"))
  /\ \A n \in 1 .. 6 : Deletes(FirstCleanup + n - 1, Replaced[n], Knative)
<1>1. Deletes(DeleteDeployment, "Deployment", Plain \cap With("statefulSet"))
  <2>1. ASSUME NEW j \in 1 .. Done - 1, Creates(Program[j], "Deployment")
        PROVE  Program[j].when \cap (Plain \cap With("statefulSet")) = {}
    <3>1. Program[j] = Apply("Deployment", Plain \cap Without("statefulSet"))
      BY <2>1, Creations, ProgramSteps
    <3> QED
      BY <3>1, StepFields DEF Apply, With, Without
  <2> QED
    BY <2>1, ProgramSteps DEF Deletes, DeleteDeployment
<1>2. Deletes(DeleteStatefulSet, "StatefulSet", Plain \cap Without("statefulSet"))
  <2>1. ASSUME NEW j \in 1 .. Done - 1, Creates(Program[j], "StatefulSet")
        PROVE  Program[j].when \cap (Plain \cap Without("statefulSet")) = {}
    <3>1. Program[j] = Apply("StatefulSet", Plain \cap With("statefulSet"))
      BY <2>1, Creations, ProgramSteps
    <3> QED
      BY <3>1, StepFields DEF Apply, With, Without
  <2> QED
    BY <2>1, ProgramSteps DEF Deletes, DeleteStatefulSet
<1>3. ASSUME NEW n \in 1 .. 6
      PROVE  Deletes(FirstCleanup + n - 1, Replaced[n], Knative)
  <2>1. FirstCleanup + n - 1 \in 4 .. 9 /\ (FirstCleanup + n - 1) - 3 = n
    BY DEF FirstCleanup
  <2>2. Program[FirstCleanup + n - 1] = KnativeSteps[n]
    BY <2>1, Parts
  <2>3. KnativeSteps[n] = Delete(Replaced[n], Knative)
    BY DEF KnativeSteps, Replaced
  <2>4. Replaced[n] \notin {"ServiceAccount", "KnativeService"}
    BY DEF Replaced
  <2>5. ASSUME NEW j \in 1 .. Done - 1, Creates(Program[j], Replaced[n])
        PROVE  Program[j].when \cap Knative = {}
    BY <2>4, <2>5, KnativeCreations DEF Creates
  <2> QED
    BY <2>1, <2>2, <2>3, <2>4, <2>5, ProgramSteps DEF Deletes
<1> QED
  BY <1>1, <1>2, <1>3

\* Only CreateOrUpdate gives an object a content it did not have.
LEMMA Created ==
  ASSUME TypeOK, [Next]_vars, NEW k \in Kinds, objs'[k] \notin {objs[k], Absent}
  PROVE  (ApplyObject \/ ApplyElsewhere) /\ Program[step].kind = k
<1> USE DEF resource, cached, queue, control, history
<1>1. objs' # objs
  OBVIOUS
<1>2. ASSUME NEW l, Store(l, Absent) PROVE FALSE
  BY <1>2 DEF Store, TypeOK, Objects
<1>3. CASE ApplyObject \/ ApplyElsewhere
  BY <1>1, <1>3 DEF ApplyObject, ApplyElsewhere, Write, Store, Current, TypeOK, Objects
<1>4. CASE DeleteObject
  BY <1>2, <1>4 DEF DeleteObject
<1>5. ASSUME NEW l \in Kinds, Drift(l) \/ DeliverObject(l) PROVE FALSE
  BY <1>1, <1>2, <1>5 DEF Drift, DeliverObject
<1>6. CASE \/ Begin \/ BeginFails \/ DiscoverKnative \/ Reject \/ Fence \/ FenceFails
           \/ FindImage \/ MissTag \/ ImageFails \/ KeepImage \/ StoreImage
  BY <1>1, <1>6 DEF Begin, BeginFails, DiscoverKnative, Reject, Fence, FenceFails,
                    FindImage, MissTag, TakeImage, ImageFails, KeepImage, StoreImage
<1>7. CASE \/ ApplyFails \/ DeleteFails \/ LookupFails \/ PassCheck \/ CheckFails
           \/ ManageError \/ FinishWithoutKnative \/ ManageSuccess
  BY <1>1, <1>7 DEF ApplyFails, DeleteFails, LookupFails, PassCheck, CheckFails,
                    ManageError, FinishWithoutKnative, ManageSuccess
<1>8. CASE \/ Edit \/ DeliverResource \/ ImageStreamChanges \/ DeliverImageStream
           \/ TimerFires \/ Crash \/ UNCHANGED vars
  BY <1>1, <1>8 DEF Edit, DeliverResource, ImageStreamChanges, DeliverImageStream,
                    TimerFires, Crash, vars
<1> QED
  BY <1>3, <1>4, <1>5, <1>6, <1>7, <1>8 DEF Next, Reconcile

\* What creates k is a step of Program that the copy of the specification asks for.
LEMMA Creation ==
  ASSUME TypeOK, Position, [Next]_vars, NEW k \in Kinds, objs'[k] \notin {objs[k], Absent}
  PROVE  /\ at = "run" /\ step \in 1 .. Done - 1 /\ held' = held
         /\ Creates(Program[step], k) /\ held.spec \in Program[step].when
<1>1. (ApplyObject \/ ApplyElsewhere) /\ Program[step].kind = k
  BY Created
<1> QED
  BY <1>1, ProgramSteps
     DEF ApplyObject, ApplyElsewhere, AtStep, Current, Advance, Position, TypeOK, Runs, Creates

\* How a reconcile comes to a place in Program: it is there already, or it goes on
\* from the step before, whose object is gone if all that step can do is delete it.
Stays   == /\ at \in {"run", "report"}
           /\ step' = step /\ held'.spec = held.spec
GoesOn  == /\ at \in {"run", "report"} \/ step = 0
           /\ step # Done /\ step' = After(step, held) /\ held'.spec = held.spec
           /\ \A k \in Kinds, specs \in SUBSET Specs :
                step # 0 /\ Program[step] = Delete(k, specs) => objs'[k] = Absent

\* There is no other way.
LEMMA Moves ==
  ASSUME TypeOK, Position, [Next]_vars, at' \in {"run", "report"}, step' # 0
  PROVE  Stays \/ GoesOn
<1> USE DEF resource, cached, queue, control, history
<1>1. \A k, specs : /\ Delete(k, specs).op = "delete" /\ Delete(k, specs).kind = k
                    /\ Delete(k, specs).onError = "abort" /\ Delete(k, specs).lookup = "none"
  BY DEF Delete, Step
<1>2. CASE ApplyObject \/ ApplyElsewhere
  BY <1>1, <1>2 DEF ApplyObject, ApplyElsewhere, AtStep, Current, Advance, GoesOn
<1>3. CASE DeleteObject
  <2>1. \A k \in Kinds : k = Program[step].kind => objs'[k] = Absent
    BY <1>3 DEF DeleteObject, Store, Current, TypeOK, Objects
  <2> QED
    BY <1>1, <1>3, <2>1 DEF DeleteObject, AtStep, Current, Advance, GoesOn
<1>4. CASE PassCheck
  BY <1>1, <1>4 DEF PassCheck, AtStep, Current, Advance, GoesOn
<1>5. CASE DeleteFails
  BY <1>1, <1>5 DEF DeleteFails, AtStep, Current, Advance, Fail, Stays, GoesOn
<1>6. CASE LookupFails
  BY <1>1, <1>6 DEF LookupFails, Current, Advance, Stays, GoesOn
<1>7. CASE ManageError
  <2>1. CASE at = "report" /\ step # 0
    <3>1. Advance /\ step # Done
      BY <1>7, <2>1 DEF ManageError, Position
    <3>2. "report" \in {Program[step].onError, Program[step].lookup}
      BY <2>1 DEF Position
    <3> QED
      BY <1>1, <2>1, <3>1, <3>2 DEF Advance, GoesOn
  <2> QED
    BY <1>7, <2>1 DEF ManageError, EndReconcile
<1>8. CASE KeepImage \/ StoreImage
  <2>1. step = 0 /\ (Advance \/ Fail)
    BY <1>8 DEF KeepImage, StoreImage, Position
  <2> QED
    BY <2>1, ProgramSteps DEF Advance, Fail, GoesOn
<1>9. CASE Edit
  BY <1>9 DEF Edit, TypeOK, Copy, Stays
<1>10. ASSUME NEW k \in Kinds, Drift(k) \/ DeliverObject(k) PROVE Stays
  BY <1>10 DEF Drift, DeliverObject, Stays
<1>11. CASE \/ Begin \/ DiscoverKnative \/ Reject \/ Fence \/ FenceFails \/ FindImage
            \/ MissTag \/ ImageFails \/ ApplyFails \/ CheckFails
            \/ FinishWithoutKnative \/ ManageSuccess \/ Crash
  BY <1>11 DEF Begin, DiscoverKnative, Reject, Fence, FenceFails, FindImage, MissTag,
               TakeImage, ImageFails, ApplyFails, CheckFails, FinishWithoutKnative, ManageSuccess, Crash, Fail, EndReconcile,
               Position
<1>12. CASE \/ BeginFails \/ DeliverResource \/ ImageStreamChanges \/ DeliverImageStream
            \/ TimerFires \/ UNCHANGED vars
  BY <1>12 DEF BeginFails, DeliverResource, ImageStreamChanges, DeliverImageStream,
               TimerFires, vars, Stays
<1> QED
  BY <1>2, <1>3, <1>4, <1>5, <1>6, <1>7, <1>8, <1>9, <1>10, <1>11, <1>12 DEF Next, Reconcile

\* What is between two numbers is in the interval between them.
LEMMA Between ==
  ASSUME NEW m \in Int, NEW a \in Int, NEW b \in Int, a < m, m < b
  PROVE  m \in a + 1 .. b - 1
OBVIOUS

\* A reconcile that is past a deletion, or comes past it, finds nothing there, and
\* nothing of the kind is created until it ends.
LEMMA PastStep ==
  ASSUME TypeOK, Position, [Next]_vars,
         NEW i, NEW k, NEW specs \in SUBSET Specs, Deletes(i, k, specs), Past(i, k, specs)
  PROVE  Past(i, k, specs)'
<1> SUFFICES ASSUME at' \in {"run", "report"}, step' > i, held'.spec \in specs, k \in Kinds
             PROVE  objs'[k] = Absent
  BY DEF Past
<1>1. i \in 1 .. Done - 1 /\ Done = 34 /\ step \in 0 .. Done
  BY ProgramSteps DEF Deletes, TypeOK
<1>2. objs'[k] \in {objs[k], Absent}
  <2> SUFFICES ASSUME objs'[k] \notin {objs[k], Absent} PROVE FALSE
    OBVIOUS
  <2> QED
    BY Creation DEF Deletes
<1>3. ASSUME at \in {"run", "report"}, step > i, held'.spec = held.spec
      PROVE  objs'[k] = Absent
  BY <1>2, <1>3 DEF Past
<1>4. CASE Stays
  BY <1>3, <1>4 DEF Stays
<1>5. CASE GoesOn
  <2>1. CASE step > i
    <3>1. at \in {"run", "report"}
      BY <1>1, <1>5, <2>1 DEF GoesOn
    <3> QED
      BY <1>3, <1>5, <2>1, <3>1 DEF GoesOn
  <2>2. CASE step = i
    BY <1>1, <1>5, <2>2 DEF GoesOn, Deletes
  <2>3. CASE step < i
    <3>1. step \in 0 .. Done - 1 /\ step' = After(step, held)
      BY <1>1, <1>5, <2>3 DEF GoesOn
    <3>2. step' \in step + 1 .. Done
      BY <3>1, NextStep
    <3>3. i \in step + 1 .. step' - 1
      <4>1. i \in Int /\ step \in Int /\ step' \in Int
        BY <1>1, <3>2
      <4>2. step < i /\ i < step'
        BY <2>3, <4>1
      <4> QED
        BY <4>1, <4>2, Between
    <3>4. ~Runs(i, held)
      BY <3>1, <3>3, NextStep
    <3>5. held.spec \in specs
      BY <1>5 DEF GoesOn
    <3>6. Runs(i, held)
      BY <3>5 DEF Runs, Deletes, Delete, Step
    <3> QED
      BY <3>4, <3>6
  <2> QED
    BY <1>1, <2>1, <2>2, <2>3
<1> QED
  <2>1. step' # 0
    BY <1>1
  <2> QED
    BY <1>4, <1>5, <2>1, Moves

\* Every step of the system keeps Switched and Cleared.
LEMMA SwitchedStep ==
  ASSUME TypeOK, Position, Switched, Cleared, [Next]_vars
  PROVE  Switched' /\ Cleared'
<1>1. /\ Plain \cap With("statefulSet") \in SUBSET Specs
      /\ Plain \cap Without("statefulSet") \in SUBSET Specs
      /\ Knative \in SUBSET Specs
  BY DEF Plain, Knative, With, Without
<1>2. Past(DeleteDeployment, "Deployment", Plain \cap With("statefulSet"))'
  <2> DEFINE specs == Plain \cap With("statefulSet")
  <2>1. specs \in SUBSET Specs /\ Deletes(DeleteDeployment, "Deployment", specs)
        /\ Past(DeleteDeployment, "Deployment", specs)
    BY <1>1, Deletions DEF Switched
  <2> HIDE DEF specs
  <2>2. Past(DeleteDeployment, "Deployment", specs)'
    BY <2>1, PastStep
  <2> QED
    BY <2>2 DEF specs, Past
<1>3. Past(DeleteStatefulSet, "StatefulSet", Plain \cap Without("statefulSet"))'
  <2> DEFINE specs == Plain \cap Without("statefulSet")
  <2>1. specs \in SUBSET Specs /\ Deletes(DeleteStatefulSet, "StatefulSet", specs)
        /\ Past(DeleteStatefulSet, "StatefulSet", specs)
    BY <1>1, Deletions DEF Switched
  <2> HIDE DEF specs
  <2>2. Past(DeleteStatefulSet, "StatefulSet", specs)'
    BY <2>1, PastStep
  <2> QED
    BY <2>2 DEF specs, Past
<1>4. ASSUME NEW n \in 1 .. 6
      PROVE  Past(FirstCleanup + n - 1, Replaced[n], Knative)'
  <2> DEFINE i == FirstCleanup + n - 1
             k == Replaced[n]
             specs == Knative
  <2>1. specs \in SUBSET Specs /\ Deletes(i, k, specs) /\ Past(i, k, specs)
    BY <1>1, Deletions DEF Cleared
  <2> HIDE DEF i, k, specs
  <2>2. Past(i, k, specs)'
    BY <2>1, PastStep
  <2> QED
    BY <2>2 DEF i, k, specs, Past
<1> QED
  BY <1>2, <1>3, <1>4 DEF Switched, Cleared

\* A workload is created by a reconcile that is past the deletion of the other.
LEMMA ApartStep ==
  ASSUME TypeOK, Position, Switched, OneWorkload, [Next]_vars
  PROVE  OneWorkload'
<1> SUFFICES ASSUME "Deployment" \in Kinds, "StatefulSet" \in Kinds,
                    objs'["Deployment"] # Absent, objs'["StatefulSet"] # Absent
             PROVE  FALSE
  BY DEF OneWorkload
<1>1. CASE objs'["Deployment"] # objs["Deployment"]
  <2>1. /\ at = "run" /\ step = ApplyDeployment
        /\ held.spec \in Plain \cap Without("statefulSet")
    BY <1>1, Creation, Creations, ProgramSteps, StepFields DEF Apply
  <2>2. objs["StatefulSet"] = Absent
    BY <2>1 DEF Switched, Past, ApplyDeployment, DeleteStatefulSet
  <2>3. Creates(Program[step], "StatefulSet")
    BY <2>2, Creation
  <2> QED
    BY <2>1, <2>3, ProgramSteps, StepFields DEF Creates, Apply
<1>2. CASE objs'["StatefulSet"] # objs["StatefulSet"]
  <2>1. /\ at = "run" /\ step = ApplyStatefulSet
        /\ held.spec \in Plain \cap With("statefulSet")
    BY <1>2, Creation, Creations, ProgramSteps, StepFields DEF Apply
  <2>2. objs["Deployment"] = Absent
    BY <2>1 DEF Switched, Past, ApplyStatefulSet, DeleteDeployment
  <2>3. Creates(Program[step], "Deployment")
    BY <2>2, Creation
  <2> QED
    BY <2>1, <2>3, ProgramSteps, StepFields DEF Creates, Apply
<1> QED
  BY <1>1, <1>2 DEF OneWorkload

\* A Knative Service is created by a reconcile that is past all of the clean-up.
LEMMA KnativeStep ==
  ASSUME TypeOK, Position, Cleared, [Next]_vars, NEW k \in Kinds, k = "KnativeService",
         objs[k] = Absent, objs'[k] # Absent,
         NEW l \in Kinds \cap {"Service", "HeadlessService", "Deployment",
                               "StatefulSet", "HPA", "NetworkPolicy"}
  PROVE  objs[l] = Absent
<1>1. at = "run" /\ step = ApplyKnative /\ held.spec \in Knative
  BY Creation, Creations, ProgramSteps, StepFields DEF Apply
<1>2. PICK n \in 1 .. 6 : l = Replaced[n]
  <2>1. \E n \in {1, 2, 3, 4, 5, 6} : l = Replaced[n]
    BY DEF Replaced
  <2> QED
    BY <2>1
<1>3. step > FirstCleanup + n - 1
  BY <1>1 DEF ApplyKnative, FirstCleanup
<1> QED
  BY <1>1, <1>2, <1>3 DEF Cleared, Past

\* The invariant of the theorems below.
LEMMA SwitchedAlways == Spec => [](TypeOK /\ Position /\ Switched /\ Cleared)
<1>1. Init => Switched /\ Cleared
  BY DEF Init, Switched, Cleared, Past
<1> QED
  BY <1>1, TypeAndPosition, SwitchedStep, PTL DEF Spec

\* No application has a Deployment and a StatefulSet at once, whatever fails, is
\* edited or restarted: between the deletion of the one and the creation of the
\* other the reconcile is never without the deletion behind it.
THEOREM Apart == Spec => []OneWorkload
<1>1. Init => OneWorkload
  BY DEF Init, OneWorkload
<1> QED
  BY <1>1, SwitchedAlways, ApartStep, PTL DEF Spec

\* A Knative Service is created only when the Services, workloads, autoscaler and
\* network policy it replaces are gone, whatever was interrupted before.
THEOREM CleanedUp == Spec => KnativeAfterCleanup
<1>1. TypeOK /\ Position /\ Cleared /\ [Next]_vars =>
        [\A k \in Kinds : k = "KnativeService" /\ objs[k] = Absent /\ objs'[k] # Absent
           => \A l \in Kinds \cap {"Service", "HeadlessService", "Deployment",
                                   "StatefulSet", "HPA", "NetworkPolicy"} :
                objs[l] = Absent]_vars
  BY KnativeStep
<1> QED
  BY <1>1, SwitchedAlways, PTL DEF Spec, KnativeAfterCleanup
=============================================================================
