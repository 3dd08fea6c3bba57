----------------------- MODULE RuntimeOperationProofs -----------------------
(***************************************************************************)
(* Proofs about RuntimeOperation, for every set of operations and every    *)
(* value of the bounds.                                                    *)
(***************************************************************************)
EXTENDS RuntimeOperation, TLAPS

Active == {"started", "executing"}

\* What the resource version protects.  A copy that is still the latest agrees
\* with the stored status, so the write that would start an operation again, or
\* rewrite its outcome, is made with an outdated copy and refused.
CopiesAgree(o) ==
  /\ fresh[o] => seen[o].status = stored[o]
  /\ stored[o].completed # "None" => stored[o].started = "True"
  /\ seen[o].status.completed # "None" => seen[o].status.started = "True"
  /\ phase[o] # "idle" => held[o].status.completed = "None"
  /\ phase[o] = "read" => held[o].status.started # "True" /\ ~held[o].stored
  /\ phase[o] = "read" /\ held[o].current => held[o].status = stored[o]
  /\ phase[o] \in Active => held[o].status.started = "True"
  /\ phase[o] \in Active /\ held[o].current => stored[o].completed = "None"
  /\ phase[o] \in Active /\ held[o].stored => stored[o].started = "True"

\* A recorded execution has left its mark in the stored status.
RecordKept(o) ==
  /\ recorded[o] <= 1
  /\ recorded[o] = 1 => stored[o].started = "True"
  /\ phase[o] = "started" /\ held[o].stored => recorded[o] = 0

RecordInv == \A o \in Ops : CopiesAgree(o) /\ RecordKept(o)

\* What may still make the command of an operation run: each of these leads to
\* at most one execution, and only an edit or a restart adds one.
One(b) == IF b THEN 1 ELSE 0
Chances(o) == One(queued[o]) + One(edited[o]) + One(timer[o] # NoTimer)
              + One(phase[o] \in {"read", "started"})

Allowance == 1 + spent["edits"] + spent["crashes"]
ChanceInv == \A o \in Ops : execs[o] + Chances(o) <= Allowance
-----------------------------------------------------------------------------
\* Status().Update keeps the type of what it writes, stored or not.
LEMMA StatusUpdateType ==
  ASSUME TypeOK, NEW o \in Ops, NEW new \in Condition, NEW b \in BOOLEAN,
         StatusUpdate(o, new, b)
  PROVE  /\ stored' \in [Ops -> Condition]
         /\ age' \in [Ops -> 0..Cap]
         /\ fresh' \in [Ops -> BOOLEAN]
         /\ spent' \in [Bounds -> Nat]
<1>1. CASE b
  <2>1. /\ stored' = [stored EXCEPT ![o] = new] /\ age' = [age EXCEPT ![o] = 0]
        /\ fresh' = [fresh EXCEPT ![o] = FALSE] /\ spent' = spent
    BY <1>1 DEF StatusUpdate
  <2>2. 0 \in 0..Cap
    BY OperationAssumption
  <2> QED
    BY <2>1, <2>2 DEF TypeOK
<1>2. CASE ~b
  <2>1. UNCHANGED <<stored, age, fresh>>
    BY <1>2 DEF StatusUpdate
  <2>2. spent' = spent \/ Spend("lost")
    BY <1>2 DEF StatusUpdate
  <2>3. spent' \in [Bounds -> Nat]
    BY <2>2 DEF TypeOK, Spend, Bounds
  <2> QED
    BY <2>1, <2>3 DEF TypeOK
<1> QED
  BY <1>1, <1>2

\* handleStartErrorAndRequeue never waits longer than the cap.
LEMMA RetryIntervalType ==
  ASSUME NEW s \in Condition, NEW a \in 0..Cap, NEW p \in Pods
  PROVE  RetryInterval(s, a, p) \in 0..Cap
BY OperationAssumption DEF RetryInterval, Lesser

\* The status of a new resource, and a reconcile that holds none.
LEMMA NoCopyType == NoCopy \in Copy /\ NewStatus \in Condition
BY OperationAssumption DEF NoCopy, NewStatus, Copy, Condition, Status, Pods

\* The state of the controller always has its type; in particular Reconcile
\* never asks for a delay beyond the cap.
THEOREM TypeCorrect == Spec => []TypeOK
<1> USE OperationAssumption
<1>1. Init => TypeOK
  BY NoCopyType DEF Init, TypeOK, Bounds, NoTimer, Phases
<1>2. TypeOK /\ [Next]_vars => TypeOK'
  <2> SUFFICES ASSUME TypeOK, [Next]_vars PROVE TypeOK'
    OBVIOUS
  <2> USE DEF TypeOK
  <2>1. ASSUME NEW o \in Ops, SkipDone(o) PROVE TypeOK'
    BY <2>1 DEF SkipDone, cached, ghosts
  <2>2. ASSUME NEW o \in Ops, Begin(o) PROVE TypeOK'
    BY <2>2 DEF Begin, cached, ghosts, Copy, Phases
  <2>3. ASSUME NEW o \in Ops, FailToStart(o) PROVE TypeOK'
    <3> DEFINE interval == RetryInterval(held[o].status, held[o].age, pod[o])
               new == [held[o].status EXCEPT !.started = "False", !.message = pod[o]]
    <3>1. held[o].status \in Condition /\ held[o].age \in 0..Cap
      BY DEF Copy
    <3>2. interval \in 0..Cap
      BY <3>1, RetryIntervalType
    <3>3. new \in Condition
      BY <3>1 DEF Condition, Status
    <3>4. PICK b \in BOOLEAN : StatusUpdate(o, new, b)
      BY <2>3 DEF FailToStart
    <3>5. timer' \in [Ops -> NoTimer..Cap] /\ retry' \in [Ops -> 0..Cap]
      BY <2>3, <3>2 DEF FailToStart, RequeueAfter, Lesser, NoTimer
    <3>6. phase' \in [Ops -> Phases] /\ held' \in [Ops -> Copy]
      BY <2>3, NoCopyType DEF FailToStart, EndReconcile, Phases
    <3> QED
      BY <2>3, <3>3, <3>4, <3>5, <3>6, StatusUpdateType DEF FailToStart
  <2>4. ASSUME NEW o \in Ops, RecordStart(o) PROVE TypeOK'
    <3> DEFINE new == [held[o].status EXCEPT !.started = "True", !.message = "running"]
    <3>1. held[o].status \in Condition
      BY DEF Copy
    <3>2. new \in Condition
      BY <3>1 DEF Condition, Status, Pods
    <3>3. PICK b \in BOOLEAN :
            /\ StatusUpdate(o, new, b)
            /\ held' = [held EXCEPT ![o].status = new, ![o].stored = b]
      BY <2>4 DEF RecordStart
    <3>4. held' \in [Ops -> Copy]
      <4>1. held[o] \in Copy
        OBVIOUS
      <4>2. [held[o] EXCEPT !.status = new, !.stored = b] \in Copy
        BY <4>1, <3>2 DEF Copy
      <4>3. held' = [held EXCEPT ![o] = [held[o] EXCEPT !.status = new, !.stored = b]]
        BY <3>3
      <4> QED
        BY <4>2, <4>3
    <3> QED
      BY <2>4, <3>2, <3>3, <3>4, StatusUpdateType DEF RecordStart, queue, ghosts, Phases
  <2>5. ASSUME NEW o \in Ops, Execute(o) PROVE TypeOK'
    BY <2>5 DEF Execute, cached, queue, Phases
  <2>6. ASSUME NEW o \in Ops, Complete(o) PROVE TypeOK'
    <3>1. PICK outcome \in {"False", "True"}, b \in BOOLEAN :
            StatusUpdate(o, [held[o].status EXCEPT !.completed = outcome], b)
      BY <2>6 DEF Complete
    <3>2. [held[o].status EXCEPT !.completed = outcome] \in Condition
      <4>1. held[o].status \in Condition
        BY DEF Copy
      <4> QED
        BY <4>1 DEF Condition, Status
    <3>3. phase' \in [Ops -> Phases] /\ held' \in [Ops -> Copy]
      BY <2>6, NoCopyType DEF Complete, EndReconcile, Phases
    <3> QED
      BY <2>6, <3>1, <3>2, <3>3, StatusUpdateType DEF Complete, queue, ghosts
  <2>7. ASSUME NEW o \in Ops, Deliver(o) PROVE TypeOK'
    BY <2>7 DEF Deliver, ghosts
  <2>8. ASSUME NEW o \in Ops, TimerFires(o) PROVE TypeOK'
    BY <2>8 DEF TimerFires, cached, ghosts, NoTimer
  <2>9. ASSUME NEW o \in Ops, Edit(o) PROVE TypeOK'
    <3>1. held' \in [Ops -> Copy]
      <4>1. held[o] \in Copy
        OBVIOUS
      <4>2. [held[o] EXCEPT !.current = FALSE] \in Copy
        BY <4>1 DEF Copy
      <4>3. held' = [held EXCEPT ![o] = [held[o] EXCEPT !.current = FALSE]]
        BY <2>9 DEF Edit
      <4> QED
        BY <4>2, <4>3
    <3>2. spent' \in [Bounds -> Nat]
      BY <2>9 DEF Edit, Spend, Bounds
    <3> QED
      BY <2>9, <3>1, <3>2 DEF Edit, queue, ghosts
  <2>10. ASSUME NEW o \in Ops, PodChanges(o) PROVE TypeOK'
    BY <2>10 DEF PodChanges, cached, queue, ghosts, Spend, Bounds
  <2>11. CASE Tick
    <3>1. age' \in [Ops -> 0..Cap]
      BY <2>11 DEF Tick, Lesser
    <3>2. seen' \in [Ops -> [status : Condition, age : 0..Cap]]
      BY <2>11 DEF Tick, Lesser
    <3>3. timer' \in [Ops -> NoTimer..Cap]
      BY <2>11 DEF Tick, NoTimer
    <3> QED
      BY <2>11, <3>1, <3>2, <3>3 DEF Tick, ghosts
  <2>12. CASE Crash
    BY <2>12, NoCopyType DEF Crash, ghosts, Spend, Bounds, NoTimer, Phases
  <2>13. CASE UNCHANGED vars
    BY <2>13 DEF vars, cached, queue, ghosts
  <2> QED
    BY <2>1, <2>2, <2>3, <2>4, <2>5, <2>6, <2>7, <2>8, <2>9, <2>10, <2>11, <2>12, <2>13
       DEF Next, Reconcile
<1> QED
  BY <1>1, <1>2, PTL DEF Spec
-----------------------------------------------------------------------------
\* What a status write does to the operation it is made for, and to the others.
LEMMA StatusUpdateEffect ==
  ASSUME TypeOK, NEW o \in Ops, NEW new \in Condition, NEW b \in BOOLEAN,
         StatusUpdate(o, new, b)
  PROVE  /\ b => held[o].current /\ stored'[o] = new /\ ~fresh'[o]
         /\ ~b => stored'[o] = stored[o] /\ fresh'[o] = fresh[o]
         /\ \A p \in Ops \ {o} : stored'[p] = stored[p] /\ fresh'[p] = fresh[p]
<1>1. CASE b
  BY <1>1 DEF StatusUpdate, TypeOK
<1>2. CASE ~b
  BY <1>2 DEF StatusUpdate, TypeOK
<1> QED
  BY <1>1, <1>2

\* What an operation's part of the invariant depends on.
Untouched(p) ==
  /\ stored'[p] = stored[p]
  /\ seen'[p].status = seen[p].status
  /\ fresh'[p] = fresh[p]
  /\ phase'[p] = phase[p]
  /\ held'[p] = held[p]
  /\ recorded'[p] = recorded[p]

RecordOK(p) == CopiesAgree(p) /\ RecordKept(p)

\* A step for one operation keeps the invariant of the others.
LEMMA UntouchedKeeps ==
  ASSUME NEW p \in Ops, RecordOK(p), Untouched(p)
  PROVE  RecordOK(p)'
BY DEF RecordOK, CopiesAgree, RecordKept, Untouched

\* A new operation has recorded nothing, and its cached copy is the stored one.
LEMMA RecordInit == Init => RecordInv
<1> SUFFICES ASSUME Init, NEW p \in Ops PROVE CopiesAgree(p) /\ RecordKept(p)
  BY DEF RecordInv
<1>1. /\ stored[p] = NewStatus /\ seen[p].status = NewStatus
      /\ phase[p] = "idle" /\ recorded[p] = 0
  BY DEF Init
<1> QED
  BY <1>1 DEF CopiesAgree, RecordKept, NewStatus, Active

\* Every step of the controller and around it keeps RecordInv.
LEMMA RecordStep == TypeOK /\ RecordInv /\ [Next]_vars => RecordInv'
<1> SUFFICES ASSUME TypeOK, RecordInv, [Next]_vars PROVE RecordInv'
  OBVIOUS
<1>0. \A p \in Ops : RecordOK(p)
  BY DEF RecordInv, RecordOK
<1> SUFFICES \A p \in Ops : RecordOK(p)'
  BY DEF RecordInv, RecordOK
<1>1. ASSUME NEW o \in Ops, SkipDone(o) PROVE \A p \in Ops : RecordOK(p)'
  BY <1>0, <1>1, UntouchedKeeps DEF SkipDone, cached, ghosts, Untouched
<1>2. ASSUME NEW o \in Ops, Begin(o) PROVE \A p \in Ops : RecordOK(p)'
  <2>1. ASSUME NEW p \in Ops, p # o PROVE RecordOK(p)'
    BY <1>0, <1>2, <2>1, UntouchedKeeps DEF Begin, cached, ghosts, Untouched, TypeOK
  <2>2. /\ phase'[o] = "read"
        /\ held'[o] = [status |-> seen[o].status, age |-> seen[o].age,
                       current |-> fresh[o], stored |-> FALSE]
        /\ seen[o].status.started # "True" /\ seen[o].status.completed # "True"
        /\ UNCHANGED <<stored, seen, fresh, recorded>>
    BY <1>2 DEF Begin, cached, ghosts, TypeOK
  <2>3. seen[o].status.completed = "None"
    BY <1>0, <2>2 DEF RecordOK, CopiesAgree
  <2>4. RecordOK(o)'
    BY <1>0, <2>2, <2>3 DEF RecordOK, CopiesAgree, RecordKept, Active
  <2> QED
    BY <2>1, <2>4
<1>3. ASSUME NEW o \in Ops, FailToStart(o) PROVE \A p \in Ops : RecordOK(p)'
  <2> DEFINE new == [held[o].status EXCEPT !.started = "False", !.message = pod[o]]
  <2>1. held[o].status \in Condition
    BY DEF TypeOK, Copy
  <2>2. new \in Condition /\ new.started = "False" /\ new.completed = held[o].status.completed
    BY <2>1 DEF Condition, Status, TypeOK
  <2>3. PICK b \in BOOLEAN : StatusUpdate(o, new, b)
    BY <1>3 DEF FailToStart
  <2>4. /\ b => held[o].current /\ stored'[o] = new /\ ~fresh'[o]
        /\ ~b => stored'[o] = stored[o] /\ fresh'[o] = fresh[o]
        /\ \A p \in Ops \ {o} : stored'[p] = stored[p] /\ fresh'[p] = fresh[p]
    BY <2>2, <2>3, StatusUpdateEffect
  <2>5. /\ phase[o] = "read" /\ phase'[o] = "idle"
        /\ UNCHANGED <<seen, recorded>>
        /\ \A p \in Ops \ {o} : phase'[p] = phase[p] /\ held'[p] = held[p]
    BY <1>3 DEF FailToStart, EndReconcile, TypeOK
  <2>6. ASSUME NEW p \in Ops, p # o PROVE RecordOK(p)'
    BY <1>0, <2>4, <2>5, <2>6, UntouchedKeeps DEF Untouched
  <2>7. RecordOK(o)'
    <3>1. /\ held[o].status.completed = "None"
          /\ held[o].current => stored[o].started # "True"
      BY <1>0, <2>5 DEF RecordOK, CopiesAgree
    <3> QED
      BY ZenonT(60), <1>0, <2>2, <2>4, <2>5, <3>1 DEF RecordOK, CopiesAgree, RecordKept, Active, TypeOK
  <2> QED
    BY <2>6, <2>7
<1>4. ASSUME NEW o \in Ops, RecordStart(o) PROVE \A p \in Ops : RecordOK(p)'
  <2> DEFINE new == [held[o].status EXCEPT !.started = "True", !.message = "running"]
  <2>1. held[o].status \in Condition
    BY DEF TypeOK, Copy
  <2>2. new \in Condition /\ new.started = "True" /\ new.completed = held[o].status.completed
    BY <2>1 DEF Condition, Status, Pods
  <2>3. PICK b \in BOOLEAN :
          /\ StatusUpdate(o, new, b)
          /\ held' = [held EXCEPT ![o].status = new, ![o].stored = b]
    BY <1>4 DEF RecordStart
  <2>4. /\ b => held[o].current /\ stored'[o] = new /\ ~fresh'[o]
        /\ ~b => stored'[o] = stored[o] /\ fresh'[o] = fresh[o]
        /\ \A p \in Ops \ {o} : stored'[p] = stored[p] /\ fresh'[p] = fresh[p]
    BY <2>2, <2>3, StatusUpdateEffect
  <2>5. /\ held'[o].status = new /\ held'[o].stored = b /\ held'[o].current = held[o].current
        /\ \A p \in Ops \ {o} : held'[p] = held[p]
    BY <2>3 DEF TypeOK, Copy
  <2>6. /\ phase[o] = "read" /\ phase'[o] = "started"
        /\ UNCHANGED <<seen, recorded>>
        /\ \A p \in Ops \ {o} : phase'[p] = phase[p]
    BY <1>4 DEF RecordStart, ghosts, TypeOK
  <2>7. ASSUME NEW p \in Ops, p # o PROVE RecordOK(p)'
    BY <1>0, <2>4, <2>5, <2>6, <2>7, UntouchedKeeps DEF Untouched
  <2>8. RecordOK(o)'
    <3>1. /\ held[o].status.completed = "None"
          /\ held[o].current => stored[o].started # "True" /\ stored[o].completed = "None"
          /\ recorded[o] \in Nat
      BY <1>0, <2>6 DEF RecordOK, CopiesAgree, TypeOK
    <3>2. held[o].current => recorded[o] = 0
      BY <1>0, <3>1 DEF RecordOK, RecordKept
    <3>3. CopiesAgree(o)'
      <4> HIDE DEF new
      <4>1. CASE b
        BY <1>0, <2>2, <2>4, <2>5, <2>6, <3>1, <4>1 DEF RecordOK, CopiesAgree, Active
      <4>2. CASE ~b
        BY <1>0, <2>2, <2>4, <2>5, <2>6, <3>1, <4>2 DEF RecordOK, CopiesAgree, Active
      <4> QED
        BY <4>1, <4>2
    <3>4. RecordKept(o)'
      BY <1>0, <2>2, <2>4, <2>5, <2>6, <3>1, <3>2 DEF RecordOK, RecordKept
    <3> QED
      BY <3>3, <3>4 DEF RecordOK
  <2> QED
    BY <2>7, <2>8
<1>5. ASSUME NEW o \in Ops, Execute(o) PROVE \A p \in Ops : RecordOK(p)'
  <2>1. ASSUME NEW p \in Ops, p # o PROVE RecordOK(p)'
    BY <1>0, <1>5, <2>1, UntouchedKeeps DEF Execute, cached, Untouched, TypeOK
  <2>2. /\ phase[o] = "started" /\ phase'[o] = "executing"
        /\ recorded'[o] = IF held[o].stored THEN recorded[o] + 1 ELSE recorded[o]
        /\ UNCHANGED <<stored, seen, fresh, held>>
    BY <1>5 DEF Execute, cached, TypeOK
  <2>3. RecordOK(o)'
    BY <1>0, <2>2 DEF RecordOK, CopiesAgree, RecordKept, Active, TypeOK
  <2> QED
    BY <2>1, <2>3
<1>6. ASSUME NEW o \in Ops, Complete(o) PROVE \A p \in Ops : RecordOK(p)'
  <2>1. held[o].status \in Condition
    BY DEF TypeOK, Copy
  <2>2. PICK outcome \in {"False", "True"}, b \in BOOLEAN :
          StatusUpdate(o, [held[o].status EXCEPT !.completed = outcome], b)
    BY <1>6 DEF Complete
  <2> DEFINE new == [held[o].status EXCEPT !.completed = outcome]
  <2>3. new \in Condition /\ new.started = held[o].status.started
    BY <2>1 DEF Condition, Status
  <2>4. /\ b => held[o].current /\ stored'[o] = new /\ ~fresh'[o]
        /\ ~b => stored'[o] = stored[o] /\ fresh'[o] = fresh[o]
        /\ \A p \in Ops \ {o} : stored'[p] = stored[p] /\ fresh'[p] = fresh[p]
    BY <2>2, <2>3, StatusUpdateEffect
  <2>5. /\ phase[o] = "executing" /\ phase'[o] = "idle"
        /\ UNCHANGED <<seen, recorded>>
        /\ \A p \in Ops \ {o} : phase'[p] = phase[p] /\ held'[p] = held[p]
    BY <1>6 DEF Complete, EndReconcile, ghosts, TypeOK
  <2>6. ASSUME NEW p \in Ops, p # o PROVE RecordOK(p)'
    BY <1>0, <2>4, <2>5, <2>6, UntouchedKeeps DEF Untouched
  <2>7. held[o].status.started = "True"
    BY <1>0, <2>5 DEF RecordOK, CopiesAgree, Active
  <2>8. RecordOK(o)'
    BY <1>0, <2>3, <2>4, <2>5, <2>7 DEF RecordOK, CopiesAgree, RecordKept, Active
  <2> QED
    BY <2>6, <2>8
<1>7. ASSUME NEW o \in Ops, Deliver(o) PROVE \A p \in Ops : RecordOK(p)'
  <2>1. ASSUME NEW p \in Ops, p # o PROVE RecordOK(p)'
    BY <1>0, <1>7, <2>1, UntouchedKeeps DEF Deliver, ghosts, Untouched, TypeOK
  <2>2. /\ seen'[o].status = stored[o]
        /\ UNCHANGED <<stored, phase, held, recorded>>
    BY <1>7 DEF Deliver, ghosts, TypeOK
  <2>3. RecordOK(o)'
    BY <1>0, <2>2 DEF RecordOK, CopiesAgree, RecordKept, Active
  <2> QED
    BY <2>1, <2>3
<1>8. ASSUME NEW o \in Ops, TimerFires(o) PROVE \A p \in Ops : RecordOK(p)'
  BY <1>0, <1>8, UntouchedKeeps DEF TimerFires, cached, ghosts, Untouched
<1>9. ASSUME NEW o \in Ops, Edit(o) PROVE \A p \in Ops : RecordOK(p)'
  <2>1. ASSUME NEW p \in Ops, p # o PROVE RecordOK(p)'
    BY <1>0, <1>9, <2>1, UntouchedKeeps DEF Edit, ghosts, Untouched, TypeOK
  <2>2. /\ ~fresh'[o] /\ ~held'[o].current
        /\ held'[o].status = held[o].status /\ held'[o].stored = held[o].stored
        /\ UNCHANGED <<stored, seen, phase, recorded>>
    BY <1>9 DEF Edit, ghosts, TypeOK, Copy
  <2>3. RecordOK(o)'
    BY <1>0, <2>2 DEF RecordOK, CopiesAgree, RecordKept, Active
  <2> QED
    BY <2>1, <2>3
<1>10. ASSUME NEW o \in Ops, PodChanges(o) PROVE \A p \in Ops : RecordOK(p)'
  BY <1>0, <1>10, UntouchedKeeps DEF PodChanges, cached, ghosts, Untouched
<1>11. CASE Tick
  <2>1. ASSUME NEW p \in Ops PROVE seen'[p].status = seen[p].status
    BY <1>11, <2>1 DEF Tick, TypeOK
  <2> QED
    BY <1>0, <1>11, <2>1, UntouchedKeeps DEF Tick, ghosts, Untouched
<1>12. CASE Crash
  <2> SUFFICES ASSUME NEW p \in Ops PROVE RecordOK(p)'
    OBVIOUS
  <2>1. /\ seen'[p].status = stored[p] /\ phase'[p] = "idle"
        /\ UNCHANGED <<stored, recorded>>
    BY <1>12 DEF Crash, ghosts
  <2> QED
    BY <1>0, <2>1 DEF RecordOK, CopiesAgree, RecordKept, Active
<1>13. CASE UNCHANGED vars
  BY <1>0, <1>13, UntouchedKeeps DEF vars, cached, ghosts, Untouched
<1> QED
  BY <1>1, <1>2, <1>3, <1>4, <1>5, <1>6, <1>7, <1>8, <1>9, <1>10, <1>11, <1>12, <1>13
     DEF Next, Reconcile

\* However edits, lost writes, restarts and stale reads interleave with
\* Reconcile, only one execution of an operation belongs to a reconcile whose
\* Status().Update stored Started.
THEOREM RecordedOnce == Spec => []RecordedStartOnce
<1>1. RecordInv => RecordedStartOnce
  BY DEF RecordInv, RecordKept, RecordedStartOnce
<1> QED
  BY <1>1, TypeCorrect, RecordInit, RecordStep, PTL DEF Spec
-----------------------------------------------------------------------------
\* The four summands of Chances, and how one step may move between them.
Waits(o)    == One(queued[o])
Pending(o)  == One(edited[o])
Delayed(o)  == One(timer[o] # NoTimer)
Starting(o) == One(phase[o] \in {"read", "started"})

Counted(o) ==
  /\ {Waits(o), Pending(o), Delayed(o), Starting(o)} \subseteq {0, 1}
  /\ execs[o] \in Nat /\ Allowance \in Nat
  /\ Chances(o) = Waits(o) + Pending(o) + Delayed(o) + Starting(o)

AllCounted == \A o \in Ops : Counted(o)

\* Each summand is 0 or 1, for arithmetic on them.
LEMMA Summands == TypeOK => AllCounted
<1> SUFFICES ASSUME TypeOK, NEW o \in Ops PROVE Counted(o)
  BY DEF AllCounted
<1>1. Waits(o) \in {0, 1} /\ Pending(o) \in {0, 1} /\ Delayed(o) \in {0, 1} /\ Starting(o) \in {0, 1}
  BY DEF Waits, Pending, Delayed, Starting, One
<1>2. execs[o] \in Nat /\ Allowance \in Nat
  BY DEF TypeOK, Allowance, Bounds
<1>3. Chances(o) = Waits(o) + Pending(o) + Delayed(o) + Starting(o)
  BY DEF Chances, Waits, Pending, Delayed, Starting
<1> QED
  BY <1>1, <1>2, <1>3 DEF Counted

\* The Create event is the one chance of a new operation.
LEMMA ChanceInit == Init => ChanceInv
<1> SUFFICES ASSUME Init, NEW o \in Ops PROVE execs[o] + Chances(o) <= Allowance
  BY DEF ChanceInv
<1>1. /\ execs[o] = 0 /\ queued[o] = TRUE /\ edited[o] = FALSE
      /\ timer[o] = NoTimer /\ phase[o] = "idle"
      /\ spent["edits"] = 0 /\ spent["crashes"] = 0
  BY DEF Init, Bounds
<1>2. Chances(o) = 1
  BY <1>1 DEF Chances, One
<1> QED
  BY <1>1, <1>2 DEF Allowance

\* A status write costs at most the bound on lost writes.
LEMMA StatusUpdateAllowance ==
  ASSUME TypeOK, NEW o \in Ops, NEW new, NEW b \in BOOLEAN, StatusUpdate(o, new, b)
  PROVE  Allowance' = Allowance
<1>1. spent' = spent \/ Spend("lost")
  BY DEF StatusUpdate
<1> QED
  BY <1>1 DEF Allowance, Spend, TypeOK, Bounds

\* Only an edit and a restart add a chance, and each adds one.
LEMMA ChanceStep == TypeOK /\ TypeOK' /\ ChanceInv /\ [Next]_vars => ChanceInv'
<1> SUFFICES ASSUME TypeOK, TypeOK', ChanceInv, [Next]_vars PROVE ChanceInv'
  OBVIOUS
<1> DEFINE OK(p) == execs[p] + Chances(p) <= Allowance
<1>0. \A p \in Ops : OK(p)
  BY DEF ChanceInv
<1> SUFFICES \A p \in Ops : OK(p)'
  BY DEF ChanceInv
<1>b. \A p \in Ops : Counted(p) /\ Counted(p)'
  <2>1. AllCounted /\ AllCounted'
    BY Summands, PTL
  <2> QED
    BY <2>1 DEF AllCounted
<1>a. ASSUME NEW p \in Ops,
             Allowance' >= Allowance,
             execs'[p] + Waits(p)' + Pending(p)' + Delayed(p)' + Starting(p)' - Allowance'
               <= execs[p] + Waits(p) + Pending(p) + Delayed(p) + Starting(p) - Allowance
      PROVE  OK(p)'
  BY <1>0, <1>a, <1>b DEF Counted
<1> DEFINE Summed(p) == Waits(p) \in {0, 1} /\ Pending(p) \in {0, 1}
                        /\ Delayed(p) \in {0, 1} /\ Starting(p) \in {0, 1}
                        /\ execs[p] \in Nat
<1>c. \A p \in Ops : Summed(p) /\ Summed(p)'
  BY <1>b DEF Counted
<1>d. Allowance \in Nat
  BY DEF TypeOK, Allowance, Bounds
<1>e. ASSUME NEW p \in Ops, Allowance' = Allowance \/ Allowance' = Allowance + 1,
             execs'[p] = execs[p], queued'[p] = queued[p], edited'[p] = edited[p],
             timer'[p] = timer[p], phase'[p] = phase[p]
      PROVE  OK(p)'
  <2>1. /\ Waits(p)' = Waits(p) /\ Pending(p)' = Pending(p)
        /\ Delayed(p)' = Delayed(p) /\ Starting(p)' = Starting(p)
    BY <1>e DEF Waits, Pending, Delayed, Starting
  <2> QED
    BY <1>a, <1>c, <1>d, <1>e, <2>1
<1>1. ASSUME NEW o \in Ops, SkipDone(o) PROVE \A p \in Ops : OK(p)'
  <2>1. Allowance' = Allowance
    BY <1>1 DEF SkipDone, Allowance
  <2>2. ASSUME NEW p \in Ops, p # o PROVE OK(p)'
    BY <1>1, <1>e, <2>1, <2>2 DEF SkipDone, cached, ghosts, TypeOK
  <2>3. /\ Waits(o)' = 0 /\ Pending(o)' = Pending(o) /\ Delayed(o)' = Delayed(o)
        /\ Starting(o)' = Starting(o) /\ execs' = execs
    BY <1>1 DEF SkipDone, cached, ghosts, Waits, Pending, Delayed, Starting, One, TypeOK
  <2>4. OK(o)'
    BY <1>a, <1>c, <1>d, <2>1, <2>3
  <2> QED
    BY <2>2, <2>4
<1>2. ASSUME NEW o \in Ops, Begin(o) PROVE \A p \in Ops : OK(p)'
  <2>1. Allowance' = Allowance
    BY <1>2 DEF Begin, Allowance
  <2>2. ASSUME NEW p \in Ops, p # o PROVE OK(p)'
    BY ZenonT(60), <1>2, <1>e, <2>1, <2>2 DEF Begin, cached, ghosts, TypeOK
  <2>3. /\ Waits(o) = 1 /\ Waits(o)' = 0
        /\ Pending(o)' = Pending(o) /\ Delayed(o)' = Delayed(o) /\ execs' = execs
    BY <1>2 DEF Begin, cached, ghosts, Waits, Pending, Delayed, One, TypeOK
  <2>4. OK(o)'
    BY <1>a, <1>c, <1>d, <2>1, <2>3
  <2> QED
    BY <2>2, <2>4
<1>3. ASSUME NEW o \in Ops, FailToStart(o) PROVE \A p \in Ops : OK(p)'
  <2>1. Allowance' = Allowance
    BY <1>3, StatusUpdateAllowance DEF FailToStart
  <2>2. ASSUME NEW p \in Ops, p # o PROVE OK(p)'
    BY <1>3, <1>e, <2>1, <2>2 DEF FailToStart, RequeueAfter, EndReconcile, TypeOK
  <2>3. /\ Starting(o) = 1 /\ Starting(o)' = 0
        /\ Waits(o)' = Waits(o) /\ Pending(o)' = Pending(o) /\ execs' = execs
    BY <1>3 DEF FailToStart, EndReconcile, Waits, Pending, Starting, One, TypeOK
  <2>4. OK(o)'
    BY <1>a, <1>c, <1>d, <2>1, <2>3
  <2> QED
    BY <2>2, <2>4
<1>4. ASSUME NEW o \in Ops, RecordStart(o) PROVE \A p \in Ops : OK(p)'
  <2>1. Allowance' = Allowance
    BY <1>4, StatusUpdateAllowance DEF RecordStart
  <2>2. ASSUME NEW p \in Ops, p # o PROVE OK(p)'
    BY <1>4, <1>e, <2>1, <2>2 DEF RecordStart, queue, ghosts, TypeOK
  <2>3. /\ Starting(o) = 1 /\ Waits(o)' = Waits(o) /\ Pending(o)' = Pending(o)
        /\ Delayed(o)' = Delayed(o) /\ execs' = execs
    BY <1>4 DEF RecordStart, queue, ghosts, Waits, Pending, Delayed, Starting, One
  <2>4. OK(o)'
    BY <1>a, <1>c, <1>d, <2>1, <2>3
  <2> QED
    BY <2>2, <2>4
<1>5. ASSUME NEW o \in Ops, Execute(o) PROVE \A p \in Ops : OK(p)'
  <2>1. Allowance' = Allowance
    BY <1>5 DEF Execute, Allowance
  <2>2. ASSUME NEW p \in Ops, p # o PROVE OK(p)'
    BY <1>5, <1>e, <2>1, <2>2 DEF Execute, cached, queue, TypeOK
  <2>3. /\ Starting(o) = 1 /\ Starting(o)' = 0 /\ execs'[o] = execs[o] + 1
        /\ Waits(o)' = Waits(o) /\ Pending(o)' = Pending(o) /\ Delayed(o)' = Delayed(o)
    BY <1>5 DEF Execute, cached, queue, Waits, Pending, Delayed, Starting, One, TypeOK
  <2>4. OK(o)'
    BY <1>a, <1>c, <1>d, <2>1, <2>3
  <2> QED
    BY <2>2, <2>4
<1>6. ASSUME NEW o \in Ops, Complete(o) PROVE \A p \in Ops : OK(p)'
  <2>1. Allowance' = Allowance
    BY <1>6, StatusUpdateAllowance DEF Complete
  <2>2. ASSUME NEW p \in Ops, p # o PROVE OK(p)'
    BY <1>6, <1>e, <2>1, <2>2 DEF Complete, EndReconcile, queue, ghosts, TypeOK
  <2>3. /\ Starting(o)' = 0 /\ execs' = execs
        /\ Waits(o)' = Waits(o) /\ Pending(o)' = Pending(o) /\ Delayed(o)' = Delayed(o)
    BY <1>6 DEF Complete, EndReconcile, queue, ghosts, Waits, Pending, Delayed,
                Starting, One, TypeOK
  <2>4. OK(o)'
    BY <1>a, <1>c, <1>d, <2>1, <2>3
  <2> QED
    BY <2>2, <2>4
<1>7. ASSUME NEW o \in Ops, Deliver(o) PROVE \A p \in Ops : OK(p)'
  <2>1. Allowance' = Allowance
    BY <1>7 DEF Deliver, Allowance
  <2>2. ASSUME NEW p \in Ops, p # o PROVE OK(p)'
    BY ZenonT(60), <1>7, <1>e, <2>1, <2>2 DEF Deliver, ghosts, TypeOK
  <2>3. /\ queued'[o] = (queued[o] \/ edited[o]) /\ edited'[o] = FALSE
        /\ Delayed(o)' = Delayed(o) /\ Starting(o)' = Starting(o) /\ execs' = execs
    BY <1>7 DEF Deliver, ghosts, Delayed, Starting, TypeOK
  <2>4. Pending(o)' = 0 /\ Waits(o)' <= Waits(o) + Pending(o)
    <3>1. CASE edited[o]
      <4>1. Pending(o) = 1 /\ Pending(o)' = 0
        BY <2>3, <3>1 DEF Pending, One
      <4> QED
        BY <1>c, <4>1
    <3>2. CASE ~edited[o]
      <4>1. (queued'[o] <=> queued[o]) /\ edited'[o] = FALSE
        BY <2>3, <3>2
      <4>2. Waits(o)' = Waits(o) /\ Pending(o)' = 0
        BY <4>1 DEF Waits, Pending, One
      <4> QED
        BY <1>c, <4>2
    <3> QED
      BY <3>1, <3>2
  <2>5. OK(o)'
    BY <1>a, <1>c, <1>d, <2>1, <2>3, <2>4
  <2> QED
    BY <2>2, <2>5
<1>8. ASSUME NEW o \in Ops, TimerFires(o) PROVE \A p \in Ops : OK(p)'
  <2>1. Allowance' = Allowance
    BY <1>8 DEF TimerFires, Allowance
  <2>2. ASSUME NEW p \in Ops, p # o PROVE OK(p)'
    BY <1>8, <1>e, <2>1, <2>2 DEF TimerFires, cached, ghosts, TypeOK
  <2>3. /\ Delayed(o) = 1 /\ Delayed(o)' = 0
        /\ Pending(o)' = Pending(o) /\ Starting(o)' = Starting(o) /\ execs' = execs
    BY <1>8 DEF TimerFires, cached, ghosts, Delayed, Pending, Starting, One, NoTimer, TypeOK
  <2>4. OK(o)'
    BY <1>a, <1>c, <1>d, <2>1, <2>3
  <2> QED
    BY <2>2, <2>4
<1>9. ASSUME NEW o \in Ops, Edit(o) PROVE \A p \in Ops : OK(p)'
  <2>1. Allowance' = Allowance + 1
    BY <1>9 DEF Edit, Spend, Allowance, TypeOK, Bounds
  <2>2. ASSUME NEW p \in Ops, p # o PROVE OK(p)'
    BY <1>9, <1>e, <2>1, <2>2 DEF Edit, queue, ghosts, TypeOK
  <2>3. /\ Waits(o)' = Waits(o) /\ Delayed(o)' = Delayed(o)
        /\ Starting(o)' = Starting(o) /\ execs' = execs
    BY <1>9 DEF Edit, queue, ghosts, Waits, Delayed, Starting
  <2>4. OK(o)'
    BY <1>a, <1>c, <1>d, <2>1, <2>3
  <2> QED
    BY <2>2, <2>4
<1>10. ASSUME NEW o \in Ops, PodChanges(o) PROVE \A p \in Ops : OK(p)'
  <2>1. Allowance' = Allowance
    BY <1>10 DEF PodChanges, Spend, Allowance, TypeOK, Bounds
  <2> QED
    BY <1>10, <1>e, <2>1 DEF PodChanges, cached, queue, ghosts
<1>11. CASE Tick
  <2> SUFFICES ASSUME NEW p \in Ops PROVE OK(p)'
    OBVIOUS
  <2>1. Allowance' = Allowance
    BY <1>11 DEF Tick, Allowance
  <2>2. (timer'[p] = NoTimer) <=> (timer[p] = NoTimer)
    BY <1>11 DEF Tick, NoTimer, TypeOK
  <2>3. /\ Delayed(p)' = Delayed(p) /\ Waits(p)' = Waits(p)
        /\ Pending(p)' = Pending(p) /\ Starting(p)' = Starting(p) /\ execs' = execs
    BY <1>11, <2>2 DEF Tick, ghosts, Waits, Pending, Delayed, Starting, One
  <2> QED
    BY <1>a, <1>c, <1>d, <2>1, <2>3
<1>12. CASE Crash
  <2> SUFFICES ASSUME NEW p \in Ops PROVE OK(p)'
    OBVIOUS
  <2>1. Allowance' = Allowance + 1
    BY <1>12 DEF Crash, Spend, Allowance, TypeOK, Bounds
  <2>2. /\ Delayed(p)' = 0 /\ Waits(p)' = 1
        /\ Pending(p)' = 0 /\ Starting(p)' = 0 /\ execs' = execs
    BY <1>12 DEF Crash, ghosts, Waits, Pending, Delayed, Starting, One
  <2> QED
    BY <1>a, <1>c, <1>d, <2>1, <2>2
<1>13. CASE UNCHANGED vars
  <2>1. Allowance' = Allowance
    BY <1>13 DEF vars, Allowance
  <2> QED
    BY <1>13, <1>e, <2>1 DEF vars, cached, queue, ghosts
<1> QED
  BY <1>1, <1>2, <1>3, <1>4, <1>5, <1>6, <1>7, <1>8, <1>9, <1>10, <1>11, <1>12, <1>13
     DEF Next, Reconcile

\* A command that runs again was brought back by an edit of the resource or by
\* a restart of the operator; nothing else leads Reconcile to it twice.
THEOREM Repetitions == Spec => []RepetitionsExplained
<1>1. TypeOK /\ ChanceInv => RepetitionsExplained
  <2> SUFFICES ASSUME TypeOK, ChanceInv, NEW o \in Ops PROVE execs[o] <= Allowance
    BY DEF RepetitionsExplained, Allowance
  <2>1. Counted(o) /\ execs[o] + Chances(o) <= Allowance
    BY Summands DEF AllCounted, ChanceInv
  <2> QED
    BY <2>1 DEF Counted
<1> QED
  BY <1>1, TypeCorrect, ChanceInit, ChanceStep, PTL DEF Spec
-----------------------------------------------------------------------------
\* The refinement mapping, named.
Started   == [o \in Ops |-> stored[o].started]
Completed == [o \in Ops |-> stored[o].completed]

\* A new resource has neither condition.
LEMMA LifecycleInit == Init => Lifecycle!Init
BY DEF Init, Lifecycle!Init, NewStatus

\* RecordInv makes every status write of Reconcile a step of OperationLifecycle.
LEMMA LifecycleStep ==
  TypeOK /\ RecordInv /\ [Next]_vars => [Lifecycle!Next]_<<Started, Completed>>
<1> SUFFICES ASSUME TypeOK, RecordInv, [Next]_vars
             PROVE  Lifecycle!Next \/ UNCHANGED <<Started, Completed>>
  OBVIOUS
<1> DEFINE Mapped == Lifecycle!Next \/ UNCHANGED <<Started, Completed>>
<1>0. ASSUME UNCHANGED stored PROVE Mapped
  BY <1>0 DEF Started, Completed
<1>1. ASSUME NEW o \in Ops, FailToStart(o) PROVE Mapped
  <2>1. PICK b \in BOOLEAN :
          StatusUpdate(o, [held[o].status EXCEPT !.started = "False", !.message = pod[o]], b)
    BY <1>1 DEF FailToStart
  <2>2. CASE b
    <3>1. held[o].status = stored[o] /\ stored[o].started # "True" /\ stored[o] \in Condition
      BY <1>1, <2>1, <2>2 DEF FailToStart, StatusUpdate, RecordInv, CopiesAgree, TypeOK
    <3>2. stored' = [stored EXCEPT ![o] = [stored[o] EXCEPT !.started = "False",
                                                            !.message = pod[o]]]
      BY <2>1, <2>2, <3>1 DEF StatusUpdate
    <3>3. Lifecycle!ReportWaiting(o)
      BY <3>1, <3>2 DEF Lifecycle!ReportWaiting, TypeOK, Condition
    <3> QED
      BY <3>3 DEF Lifecycle!Next
  <2>3. CASE ~b
    BY <1>0, <2>1, <2>3 DEF StatusUpdate
  <2> QED
    BY <2>2, <2>3
<1>2. ASSUME NEW o \in Ops, RecordStart(o) PROVE Mapped
  <2>1. PICK b \in BOOLEAN :
          StatusUpdate(o, [held[o].status EXCEPT !.started = "True", !.message = "running"], b)
    BY <1>2 DEF RecordStart
  <2>2. CASE b
    <3>1. held[o].status = stored[o] /\ stored[o].started # "True" /\ stored[o] \in Condition
      BY <1>2, <2>1, <2>2 DEF RecordStart, StatusUpdate, RecordInv, CopiesAgree, TypeOK
    <3>2. stored' = [stored EXCEPT ![o] = [stored[o] EXCEPT !.started = "True",
                                                            !.message = "running"]]
      BY <2>1, <2>2, <3>1 DEF StatusUpdate
    <3>3. Lifecycle!Start(o)
      BY <3>1, <3>2 DEF Lifecycle!Start, TypeOK, Condition
    <3> QED
      BY <3>3 DEF Lifecycle!Next
  <2>3. CASE ~b
    BY <1>0, <2>1, <2>3 DEF StatusUpdate
  <2> QED
    BY <2>2, <2>3
<1>3. ASSUME NEW o \in Ops, Complete(o) PROVE Mapped
  <2>1. PICK outcome \in {"False", "True"}, b \in BOOLEAN :
          StatusUpdate(o, [held[o].status EXCEPT !.completed = outcome], b)
    BY <1>3 DEF Complete
  <2>2. CASE b
    <3>1. /\ held[o].status.started = "True" /\ stored[o].completed = "None"
          /\ held[o].status \in Condition
      BY <1>3, <2>1, <2>2 DEF Complete, StatusUpdate, RecordInv, CopiesAgree, Active,
                              TypeOK, Copy
    <3>2. stored' = [stored EXCEPT ![o] = [held[o].status EXCEPT !.completed = outcome]]
      BY <2>1, <2>2 DEF StatusUpdate
    <3>3. Lifecycle!Finish(o)
      BY <3>1, <3>2 DEF Lifecycle!Finish, TypeOK, Condition
    <3> QED
      BY <3>3 DEF Lifecycle!Next
  <2>3. CASE ~b
    BY <1>0, <2>1, <2>3 DEF StatusUpdate
  <2> QED
    BY <2>2, <2>3
<1>4. ASSUME NEW o \in Ops,
             \/ SkipDone(o) \/ Begin(o) \/ Execute(o) \/ Deliver(o) \/ TimerFires(o)
             \/ Edit(o) \/ PodChanges(o)
      PROVE  Mapped
  BY <1>0, <1>4 DEF SkipDone, Begin, Execute, Deliver, TimerFires, Edit, PodChanges
<1>5. CASE Tick \/ Crash \/ UNCHANGED vars
  BY <1>0, <1>5 DEF Tick, Crash, vars
<1> QED
  BY <1>1, <1>2, <1>3, <1>4, <1>5 DEF Next, Reconcile

\* The stored conditions only move forward: every reconcile, edit, lost write
\* and restart is a step of OperationLifecycle or changes nothing it sees.
THEOREM Implements == Spec => ImplementsLifecycle
BY TypeCorrect, RecordInit, RecordStep, LifecycleInit, LifecycleStep, PTL
   DEF Spec, ImplementsLifecycle, Lifecycle!Spec, Started, Completed
-----------------------------------------------------------------------------
\* Nobody edits the resource, no write is lost, the operator does not restart, and
\* a reconcile reads what was written: the circumstances of BackoffDoubles.
Quiet == MaxEdits = 0 /\ MaxLost = 0 /\ MaxCrashes = 0 /\ ~LaggingCache

Remaining(o) == IF timer[o] = NoTimer THEN 0 ELSE timer[o]

\* The retry of a failure to start is not before its interval is over: what is
\* left of it is on the timer, the rest is the age of the condition.
WaitsOut(o) ==
  /\ ~edited[o]
  /\ fresh[o] => seen[o].status = stored[o] /\ seen[o].age = age[o]
  /\ queued[o] => phase[o] = "idle"
  /\ queued[o] \/ phase[o] # "idle" => timer[o] = NoTimer
  /\ phase[o] = "read" =>
       held[o].current /\ held[o].status = stored[o] /\ held[o].age = age[o]
  /\ phase[o] \in Active => held[o].current /\ held[o].status.started = "True"
  /\ stored[o].started = "False" => retry[o] <= age[o] + Remaining(o)

WaitsInv == \A o \in Ops : WaitsOut(o)

\* A write in quiet circumstances is stored.
LEMMA NothingLost ==
  ASSUME Quiet, TypeOK, NEW o \in Ops, held[o].current, NEW new, NEW b \in BOOLEAN,
         StatusUpdate(o, new, b)
  PROVE  /\ stored' = [stored EXCEPT ![o] = new]
         /\ age' = [age EXCEPT ![o] = 0]
         /\ fresh' = [fresh EXCEPT ![o] = FALSE]
<1>1. ~(spent["lost"] < MaxLost)
  BY DEF Quiet, TypeOK, Bounds
<1> QED
  BY <1>1 DEF StatusUpdate

\* A failure to start in quiet circumstances: the condition is new, and the
\* timer has the whole interval.
LEMMA FailureWaits ==
  ASSUME Quiet, TypeOK, WaitsInv, NEW o \in Ops, FailToStart(o)
  PROVE  WaitsInv' /\ retry'[o] = RetryInterval(stored[o], age[o], pod[o])
<1> DEFINE interval == RetryInterval(held[o].status, held[o].age, pod[o])
           new == [held[o].status EXCEPT !.started = "False", !.message = pod[o]]
<1>1. /\ phase[o] = "read" /\ held[o].current
      /\ held[o].status = stored[o] /\ held[o].age = age[o] /\ timer[o] = NoTimer
  BY DEF FailToStart, WaitsInv, WaitsOut
<1>2. PICK b \in BOOLEAN : StatusUpdate(o, new, b)
  BY DEF FailToStart
<1>3. /\ stored' = [stored EXCEPT ![o] = new] /\ age' = [age EXCEPT ![o] = 0]
      /\ fresh' = [fresh EXCEPT ![o] = FALSE]
  BY <1>1, <1>2, NothingLost
<1>4. interval \in 0..Cap
  BY <1>1, RetryIntervalType DEF TypeOK
<1>5. /\ timer' = [timer EXCEPT ![o] = interval] /\ retry' = [retry EXCEPT ![o] = interval]
      /\ phase' = [phase EXCEPT ![o] = "idle"] /\ held' = [held EXCEPT ![o] = NoCopy]
      /\ UNCHANGED <<seen, edited, queued>>
  BY <1>1 DEF FailToStart, RequeueAfter, EndReconcile
<1>6. ASSUME NEW p \in Ops PROVE WaitsOut(p)'
  <2>1. CASE p = o
    <3>1. ~edited[o] /\ ~queued[o]
      BY <1>1 DEF WaitsInv, WaitsOut
    <3>2. /\ ~edited'[o] /\ ~queued'[o] /\ ~fresh'[o] /\ phase'[o] = "idle"
          /\ age'[o] = 0 /\ timer'[o] = interval /\ retry'[o] = interval
      BY <1>3, <1>5, <3>1 DEF TypeOK
    <3>3. Remaining(o)' = interval
      BY <1>4, <3>2 DEF Remaining, NoTimer
    <3>4. retry'[o] <= age'[o] + Remaining(o)'
      BY <1>4, <3>2, <3>3
    <3> QED
      BY <2>1, <3>2, <3>4 DEF WaitsOut, Active
  <2>2. CASE p # o
    <3>1. WaitsOut(p)
      BY DEF WaitsInv
    <3>2. /\ stored'[p] = stored[p] /\ age'[p] = age[p] /\ fresh'[p] = fresh[p]
          /\ timer'[p] = timer[p] /\ retry'[p] = retry[p] /\ phase'[p] = phase[p]
          /\ held'[p] = held[p] /\ seen' = seen /\ edited' = edited /\ queued' = queued
      BY <1>3, <1>5, <2>2 DEF TypeOK
    <3> QED
      BY <3>1, <3>2 DEF WaitsOut, Remaining
  <2> QED
    BY <2>1, <2>2
<1> QED
  BY <1>1, <1>5, <1>6 DEF WaitsInv, TypeOK

\* At first everything is queued, nothing has failed and no timer runs.
LEMMA WaitsInit == Init => WaitsInv
<1> SUFFICES ASSUME Init, NEW o \in Ops PROVE WaitsOut(o)
  BY DEF WaitsInv
<1>1. /\ stored[o] = NewStatus /\ seen[o].status = NewStatus /\ seen[o].age = age[o]
      /\ ~edited[o] /\ timer[o] = NoTimer /\ phase[o] = "idle"
  BY DEF Init
<1>2. stored[o].started # "False"
  BY <1>1 DEF NewStatus
<1> QED
  BY <1>1, <1>2 DEF WaitsOut, Active

\* The clock takes from the timer what it adds to the age.
LEMMA TickWaits ==
  ASSUME TypeOK, WaitsInv, Tick
  PROVE  WaitsInv'
<1> SUFFICES ASSUME NEW p \in Ops PROVE WaitsOut(p)'
  BY DEF WaitsInv
<1>1. WaitsOut(p)
  BY DEF WaitsInv
<1>2. /\ age'[p] = Lesser(age[p] + 1, Cap)
      /\ seen'[p] = [seen[p] EXCEPT !.age = Lesser(@ + 1, Cap)]
      /\ timer'[p] = IF timer[p] > 0 THEN timer[p] - 1 ELSE timer[p]
      /\ phase[p] # "read"
      /\ UNCHANGED <<stored, fresh, edited, queued, phase, held, retry>>
  BY DEF Tick, ghosts
<1>3. /\ age[p] \in 0..Cap /\ timer[p] \in NoTimer..Cap /\ retry[p] \in 0..Cap
      /\ seen[p] \in [status : Condition, age : 0..Cap] /\ Cap \in Nat
  BY OperationAssumption DEF TypeOK
<1>4. fresh[p] => seen'[p].status = stored[p] /\ seen'[p].age = age'[p]
  BY <1>1, <1>2, <1>3 DEF WaitsOut
<1>5. timer[p] = NoTimer => timer'[p] = NoTimer
  BY <1>2 DEF NoTimer
<1>6. retry[p] <= age[p] + Remaining(p) => retry[p] <= age'[p] + Remaining(p)'
  BY <1>2, <1>3 DEF Remaining, NoTimer, Lesser
<1> QED
  BY <1>1, <1>2, <1>4, <1>5, <1>6 DEF WaitsOut

\* Every step of a quiet system lets the interval pass before the retry.
LEMMA WaitsStep ==
  ASSUME Quiet, TypeOK, WaitsInv, [Next]_vars
  PROVE  WaitsInv'
<1> USE DEF TypeOK, WaitsInv, WaitsOut
<1>1. ASSUME NEW o \in Ops, SkipDone(o) PROVE WaitsInv'
  BY <1>1 DEF SkipDone, cached, ghosts, Remaining
<1>2. ASSUME NEW o \in Ops, Begin(o) PROVE WaitsInv'
  BY <1>2 DEF Begin, cached, ghosts, Quiet, Remaining, Active, WorkerFree
<1>3. ASSUME NEW o \in Ops, FailToStart(o) PROVE WaitsInv'
  BY <1>3, FailureWaits
<1>4. ASSUME NEW o \in Ops, RecordStart(o) PROVE WaitsInv'
  <2> DEFINE new == [held[o].status EXCEPT !.started = "True", !.message = "running"]
  <2>1. PICK b \in BOOLEAN : /\ StatusUpdate(o, new, b)
                             /\ held' = [held EXCEPT ![o].status = new, ![o].stored = b]
    BY <1>4 DEF RecordStart
  <2>2. held[o].current /\ held[o] \in Copy /\ timer[o] = NoTimer /\ ~queued[o] /\ ~edited[o]
    BY <1>4 DEF RecordStart
  <2>3. /\ stored' = [stored EXCEPT ![o] = new] /\ age' = [age EXCEPT ![o] = 0]
        /\ fresh' = [fresh EXCEPT ![o] = FALSE]
    BY <2>1, <2>2, NothingLost
  <2>4. new.started = "True" /\ new \in Condition
    BY <2>2 DEF Copy, Condition, Status, Pods
  <2>5. held'[o].current /\ held'[o].status.started = "True"
    BY <2>1, <2>2, <2>4 DEF Copy
  <2>6. /\ phase' = [phase EXCEPT ![o] = "started"]
        /\ UNCHANGED <<seen, edited, queued, timer, retry>>
    BY <1>4 DEF RecordStart, queue, ghosts
  <2>7. ASSUME NEW p \in Ops PROVE WaitsOut(p)'
    <3>1. CASE p = o
      <4>1. stored'[o].started = "True" /\ ~fresh'[o] /\ phase'[o] = "started"
        BY <2>3, <2>4, <2>6
      <4> QED
        BY <3>1, <4>1, <2>2, <2>5, <2>6 DEF Active
    <3>2. CASE p # o
      <4>1. /\ stored'[p] = stored[p] /\ age'[p] = age[p] /\ fresh'[p] = fresh[p]
            /\ phase'[p] = phase[p] /\ held'[p] = held[p]
        BY <2>1, <2>3, <2>6, <3>2
      <4> QED
        BY <4>1, <2>6 DEF Remaining
    <3> QED
      BY <3>1, <3>2
  <2> QED
    BY <2>7
<1>5. ASSUME NEW o \in Ops, Execute(o) PROVE WaitsInv'
  BY <1>5 DEF Execute, cached, queue, ghosts, Remaining, Active
<1>6. ASSUME NEW o \in Ops, Complete(o) PROVE WaitsInv'
  <2>1. PICK outcome \in {"False", "True"}, b \in BOOLEAN :
          StatusUpdate(o, [held[o].status EXCEPT !.completed = outcome], b)
    BY <1>6 DEF Complete
  <2> DEFINE new == [held[o].status EXCEPT !.completed = outcome]
  <2>2. /\ held[o].current /\ held[o] \in Copy /\ timer[o] = NoTimer
        /\ ~queued[o] /\ ~edited[o] /\ held[o].status.started = "True"
    BY <1>6 DEF Complete, Active
  <2>3. /\ stored' = [stored EXCEPT ![o] = new] /\ age' = [age EXCEPT ![o] = 0]
        /\ fresh' = [fresh EXCEPT ![o] = FALSE]
    BY <2>1, <2>2, NothingLost
  <2>4. new.started = "True"
    BY <2>2 DEF Copy, Condition
  <2>6. /\ phase' = [phase EXCEPT ![o] = "idle"] /\ held' = [held EXCEPT ![o] = NoCopy]
        /\ UNCHANGED <<seen, edited, queued, timer, retry>>
    BY <1>6 DEF Complete, EndReconcile, queue, ghosts
  <2>7. ASSUME NEW p \in Ops PROVE WaitsOut(p)'
    <3>1. CASE p = o
      <4>1. stored'[o].started = "True" /\ ~fresh'[o] /\ phase'[o] = "idle"
        BY <2>3, <2>4, <2>6
      <4> QED
        BY <3>1, <4>1, <2>2, <2>6 DEF Active
    <3>2. CASE p # o
      <4>1. /\ stored'[p] = stored[p] /\ age'[p] = age[p] /\ fresh'[p] = fresh[p]
            /\ phase'[p] = phase[p] /\ held'[p] = held[p]
        BY <2>3, <2>6, <3>2
      <4> QED
        BY <4>1, <2>6 DEF Remaining
    <3> QED
      BY <3>1, <3>2
  <2> QED
    BY <2>7
<1>7. ASSUME NEW o \in Ops, Deliver(o) PROVE WaitsInv'
  BY <1>7 DEF Deliver, ghosts, Remaining
<1>8. ASSUME NEW o \in Ops, TimerFires(o) PROVE WaitsInv'
  <2>1. /\ timer[o] = 0 /\ phase[o] = "idle"
        /\ timer' = [timer EXCEPT ![o] = NoTimer] /\ queued' = [queued EXCEPT ![o] = TRUE]
        /\ UNCHANGED <<stored, age, seen, fresh, edited, phase, held, retry>>
    BY <1>8 DEF TimerFires, cached, ghosts, NoTimer
  <2>2. ASSUME NEW p \in Ops PROVE Remaining(p)' = Remaining(p)
    BY <2>1 DEF Remaining, NoTimer
  <2> QED
    BY <2>1, <2>2
<1>9. ASSUME NEW o \in Ops, PodChanges(o) PROVE WaitsInv'
  BY <1>9 DEF PodChanges, cached, queue, ghosts, Remaining
<1>10. ASSUME NEW o \in Ops, Edit(o) PROVE FALSE
  BY <1>10 DEF Edit, Quiet, Bounds
<1>11. CASE Tick
  BY <1>11, TickWaits
<1>12. CASE Crash
  BY <1>12 DEF Crash, Quiet, Bounds
<1>13. CASE UNCHANGED vars
  BY <1>13 DEF vars, cached, queue, ghosts, Remaining
<1> QED
  BY <1>1, <1>2, <1>3, <1>4, <1>5, <1>6, <1>7, <1>8, <1>9, <1>10, <1>11, <1>12, <1>13
     DEF Next, Reconcile

\* A failure to start that is met again waits at least twice as long as before, up
\* to the cap, when nobody edits, no write is lost and no copy is stale.
THEOREM Doubles == ASSUME Quiet PROVE Spec => BackoffDoubles
<1>1. TypeOK /\ WaitsInv /\ [Next]_vars => WaitsInv'
  BY WaitsStep
<1>2. ASSUME TypeOK, WaitsInv, NEW o \in Ops, FailToStart(o),
             stored[o].started = "False", stored[o].message = pod[o]
      PROVE  retry'[o] >= Lesser(2 * retry[o], Cap)
  <2>1. retry'[o] = Lesser(2 * age[o], Cap)
    BY <1>2, FailureWaits DEF RetryInterval
  <2>2. timer[o] = NoTimer /\ retry[o] <= age[o]
    <3>1. phase[o] = "read"
      BY <1>2 DEF FailToStart
    <3>2. timer[o] = NoTimer /\ retry[o] <= age[o] + Remaining(o)
      BY <1>2, <3>1 DEF WaitsInv, WaitsOut
    <3> QED
      BY <3>2, <1>2 DEF Remaining, TypeOK
  <2>3. age[o] \in Nat /\ retry[o] \in Nat /\ Cap \in Nat
    BY <1>2, OperationAssumption DEF TypeOK
  <2> QED
    BY <2>1, <2>2, <2>3 DEF Lesser
<1>3. TypeOK /\ WaitsInv
      => \A o \in Ops :
           FailToStart(o) /\ stored[o].started = "False" /\ stored[o].message = pod[o]
           => retry'[o] >= Lesser(2 * retry[o], Cap)
  BY <1>2
<1> QED
  BY <1>1, <1>3, WaitsInit, TypeCorrect, PTL DEF Spec, BackoffDoubles
=============================================================================
