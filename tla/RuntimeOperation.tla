-------------------------- MODULE RuntimeOperation --------------------------
(***************************************************************************)
(* The controller of the RuntimeOperation custom resource                  *)
(* (internal/controller/runtimeoperation_controller.go): it runs a command *)
(* in a container of a pod, once, and reports Started and Completed in the *)
(* status of the resource.                                                 *)
(*                                                                         *)
(* One worker processes all operations.  It reads each operation from the  *)
(* informer cache, which lags behind the API server, and writes the status *)
(* back without looking at the error of the write, so a write that         *)
(* conflicts with a concurrent edit, or that the API server drops, goes    *)
(* unnoticed.  Time is counted in seconds, and every age saturates at Cap. *)
(***************************************************************************)
EXTENDS Integers

CONSTANTS
  Ops,            \* the RuntimeOperation resources
  Cap,            \* longest retry interval (six hours in the code)
  LaggingCache,   \* whether a reconcile may read a cached copy that is behind
  MaxEdits,       \* bound on the edits users make to the specifications
  MaxPodChanges,  \* bound on the changes of the pods
  MaxLost,        \* bound on the status writes the API server drops
  MaxCrashes      \* bound on the restarts of the operator

ASSUME OperationAssumption ==
  /\ Cap \in Nat /\ Cap >= 2
  /\ LaggingCache \in BOOLEAN
  /\ {MaxEdits, MaxPodChanges, MaxLost, MaxCrashes} \subseteq Nat

VARIABLES
  stored,    \* status held by the API server, one per operation
  age,       \* seconds since the Started condition in stored was updated
  seen,      \* the cached copy of the status, with its own age
  fresh,     \* whether the cached copy is the stored version
  edited,    \* whether a specification edit has not reached the cache yet
  queued,    \* whether the work queue holds the operation
  timer,     \* seconds before a delayed requeue, or NoTimer
  pod,       \* what the controller finds when it looks for the container
  phase,     \* how far the reconcile of the operation has come
  held,      \* the copy of the status that reconcile works on
  execs,     \* how often the command was started
  recorded,  \* how often it was started by a reconcile that stored Started
  retry,     \* the interval handleStartErrorAndRequeue last asked for
  spent      \* how much of each bound is used up

cached  == <<seen, fresh, edited>>
queue   == <<queued, timer>>
ghosts  == <<execs, recorded, retry>>
vars    == <<stored, age, cached, queue, pod, phase, held, ghosts, spent>>

Status  == {"None", "False", "True"}
Pods    == {"absent", "notRunning", "noContainer", "running"}
Phases  == {"idle", "read", "started", "executing"}
Bounds  == {"edits", "pods", "lost", "crashes"}
NoTimer == -1

\* Started and Completed.  A start failure is told apart by the state of the
\* pod that caused it; the message of a new resource is never compared.
Condition == [started : Status, completed : Status, message : Pods]
NewStatus == [started |-> "None", completed |-> "None", message |-> "running"]

\* The in-memory copy: the status, the age of its Started condition, whether
\* its resource version is still the latest, and whether this reconcile has
\* stored Started.
Copy == [status : Condition, age : 0..Cap, current : BOOLEAN, stored : BOOLEAN]
NoCopy == [status |-> NewStatus, age |-> 0, current |-> FALSE, stored |-> FALSE]

Lesser(a, b) == IF a < b THEN a ELSE b
Spend(what)  == spent' = [spent EXCEPT ![what] = @ + 1]

TypeOK ==
  /\ stored \in [Ops -> Condition]
  /\ age \in [Ops -> 0..Cap]
  /\ seen \in [Ops -> [status : Condition, age : 0..Cap]]
  /\ fresh \in [Ops -> BOOLEAN]
  /\ edited \in [Ops -> BOOLEAN]
  /\ queued \in [Ops -> BOOLEAN]
  /\ timer \in [Ops -> NoTimer..Cap]
  /\ pod \in [Ops -> Pods]
  /\ phase \in [Ops -> Phases]
  /\ held \in [Ops -> Copy]
  /\ execs \in [Ops -> Nat]
  /\ recorded \in [Ops -> Nat]
  /\ retry \in [Ops -> 0..Cap]
  /\ spent \in [Bounds -> Nat]

Init ==
  /\ stored = [o \in Ops |-> NewStatus]
  /\ age = [o \in Ops |-> 0]
  /\ seen = [o \in Ops |-> [status |-> NewStatus, age |-> 0]]
  /\ fresh = [o \in Ops |-> TRUE]
  /\ edited = [o \in Ops |-> FALSE]
  /\ queued = [o \in Ops |-> TRUE]       \* the Create event
  /\ timer = [o \in Ops |-> NoTimer]
  /\ pod \in [Ops -> Pods]
  /\ phase = [o \in Ops |-> "idle"]
  /\ held = [o \in Ops |-> NoCopy]
  /\ execs = [o \in Ops |-> 0]
  /\ recorded = [o \in Ops |-> 0]
  /\ retry = [o \in Ops |-> 0]
  /\ spent = [b \in Bounds |-> 0]
-----------------------------------------------------------------------------
\* Fault: the status is patched, whatever the version of the copy.
PatchStatus(o, new, isStored) ==
  /\ stored' = IF isStored THEN [stored EXCEPT ![o] = new] ELSE stored
  /\ age' = IF isStored THEN [age EXCEPT ![o] = 0] ELSE age
  /\ fresh' = IF isStored THEN [fresh EXCEPT ![o] = FALSE] ELSE fresh
  /\ UNCHANGED spent

(***************************************************************************)
(* Status().Update(instance), whose error the callers ignore.  The API     *)
(* server stores the copy only when its resource version is the latest;    *)
(* it may also drop the write.  Either way the caller goes on.             *)
(***************************************************************************)
StatusUpdate(o, new, isStored) ==
  IF isStored
  THEN /\ held[o].current
       /\ stored' = [stored EXCEPT ![o] = new]
       /\ age' = [age EXCEPT ![o] = 0]
       /\ fresh' = [fresh EXCEPT ![o] = FALSE]
       /\ UNCHANGED spent
  ELSE /\ \/ ~held[o].current /\ UNCHANGED spent
          \/ held[o].current /\ spent["lost"] < MaxLost /\ Spend("lost")
       /\ UNCHANGED <<stored, age, fresh>>

EndReconcile(o) ==
  /\ phase' = [phase EXCEPT ![o] = "idle"]
  /\ held' = [held EXCEPT ![o] = NoCopy]

\* Fault: the failure to start asks for no requeue.
NoRequeue(o, interval) == UNCHANGED timer

\* The work queue keeps the earlier of two delayed requeues of one key.
RequeueAfter(o, interval) ==
  timer' = [timer EXCEPT ![o] = IF @ = NoTimer THEN interval ELSE Lesser(@, interval)]

\* Fault: the interval is doubled without a limit.
UncappedInterval(status, conditionAge, message) ==
  2 * IF status.started = "None" \/ status.message # message THEN 1 ELSE conditionAge

\* Fault: the interval is kept instead of doubled.
ConstantInterval(status, conditionAge, message) ==
  IF status.started = "None" \/ status.message # message THEN 1 ELSE conditionAge

\* handleStartErrorAndRequeue: one second for a new error, the age of the
\* condition for a repeated one; twice that is waited, at most Cap.
RetryInterval(status, conditionAge, message) ==
  LET interval == IF status.started = "None" \/ status.message # message
                  THEN 1 ELSE conditionAge
  IN  Lesser(2 * interval, Cap)
-----------------------------------------------------------------------------
WorkerFree == \A o \in Ops : phase[o] = "idle"

\* Reconcile up to its early returns: an operation that completed or started
\* is left alone, and nothing requeues it.
SkipDone(o) ==
  /\ WorkerFree
  /\ queued[o]
  /\ LaggingCache \/ fresh[o]
  /\ "True" \in {seen[o].status.completed, seen[o].status.started}
  /\ queued' = [queued EXCEPT ![o] = FALSE]
  /\ UNCHANGED <<stored, age, cached, timer, pod, phase, held, ghosts, spent>>

\* Reconcile reads the operation and goes on to look for the pod.
Begin(o) ==
  /\ WorkerFree
  /\ queued[o]
  /\ LaggingCache \/ fresh[o]
  /\ "True" \notin {seen[o].status.completed, seen[o].status.started}
  /\ queued' = [queued EXCEPT ![o] = FALSE]
  /\ phase' = [phase EXCEPT ![o] = "read"]
  /\ held' = [held EXCEPT ![o] = [status |-> seen[o].status, age |-> seen[o].age,
                                  current |-> fresh[o], stored |-> FALSE]]
  /\ UNCHANGED <<stored, age, cached, timer, pod, ghosts, spent>>

\* The pod or its container is missing, or the pod does not run.
FailToStart(o) ==
  /\ phase[o] = "read"
  /\ pod[o] # "running"
  /\ LET interval == RetryInterval(held[o].status, held[o].age, pod[o])
         new == [held[o].status EXCEPT !.started = "False", !.message = pod[o]]
     IN  /\ \E isStored \in BOOLEAN : StatusUpdate(o, new, isStored)
         /\ RequeueAfter(o, interval)
         /\ retry' = [retry EXCEPT ![o] = interval]
  /\ EndReconcile(o)
  /\ UNCHANGED <<seen, edited, queued, pod, execs, recorded>>

\* The container is there: Started is reported, in memory whatever the write.
\* The pod is remembered, so what happens to it afterwards is not seen.
RecordStart(o) ==
  /\ phase[o] = "read"
  /\ pod[o] = "running"
  /\ LET new == [held[o].status EXCEPT !.started = "True", !.message = "running"]
     IN  \E isStored \in BOOLEAN :
           /\ StatusUpdate(o, new, isStored)
           /\ held' = [held EXCEPT ![o].status = new, ![o].stored = isStored]
  /\ phase' = [phase EXCEPT ![o] = "started"]
  /\ UNCHANGED <<seen, edited, queue, pod, ghosts>>

\* ExecuteCommandInContainer starts the command.
Execute(o) ==
  /\ phase[o] = "started"
  /\ phase' = [phase EXCEPT ![o] = "executing"]
  /\ execs' = [execs EXCEPT ![o] = @ + 1]
  /\ recorded' = [recorded EXCEPT ![o] = IF held[o].stored THEN @ + 1 ELSE @]
  /\ UNCHANGED <<stored, age, cached, queue, pod, held, retry, spent>>

\* Fault: the outcome is set in memory, and the reconcile ends.
CompleteSilently(o) ==
  /\ phase[o] = "executing"
  /\ EndReconcile(o)
  /\ UNCHANGED <<stored, age, fresh, spent, seen, edited, queue, pod, ghosts>>

\* The command ends, well or not.  Nothing is requeued in either case.
Complete(o) ==
  /\ phase[o] = "executing"
  /\ \E outcome \in {"False", "True"}, isStored \in BOOLEAN :
        StatusUpdate(o, [held[o].status EXCEPT !.completed = outcome], isStored)
  /\ EndReconcile(o)
  /\ UNCHANGED <<seen, edited, queue, pod, ghosts>>
-----------------------------------------------------------------------------
(***************************************************************************)
(* Around the controller: the watch, the delayed requeues, users, pods,    *)
(* time, and restarts of the operator.                                     *)
(***************************************************************************)

\* Fault: no predicate, so status writes trigger reconciles too.
DeliverAll(o) ==
  /\ ~fresh[o]
  /\ fresh' = [fresh EXCEPT ![o] = TRUE]
  /\ seen' = [seen EXCEPT ![o] = [status |-> stored[o], age |-> age[o]]]
  /\ queued' = [queued EXCEPT ![o] = TRUE]
  /\ edited' = [edited EXCEPT ![o] = FALSE]
  /\ UNCHANGED <<stored, age, timer, pod, phase, held, ghosts, spent>>

\* The watch updates the cache.  The predicate of SetupWithManager passes
\* changes of the generation only, so status writes trigger nothing.
Deliver(o) ==
  /\ ~fresh[o]
  /\ fresh' = [fresh EXCEPT ![o] = TRUE]
  /\ seen' = [seen EXCEPT ![o] = [status |-> stored[o], age |-> age[o]]]
  /\ queued' = [queued EXCEPT ![o] = @ \/ edited[o]]
  /\ edited' = [edited EXCEPT ![o] = FALSE]
  /\ UNCHANGED <<stored, age, timer, pod, phase, held, ghosts, spent>>

TimerFires(o) ==
  /\ timer[o] = 0
  /\ timer' = [timer EXCEPT ![o] = NoTimer]
  /\ queued' = [queued EXCEPT ![o] = TRUE]
  /\ UNCHANGED <<stored, age, cached, pod, phase, held, ghosts, spent>>

Edit(o) ==
  /\ spent["edits"] < MaxEdits
  /\ Spend("edits")
  /\ fresh' = [fresh EXCEPT ![o] = FALSE]
  /\ edited' = [edited EXCEPT ![o] = TRUE]
  /\ held' = [held EXCEPT ![o].current = FALSE]
  /\ UNCHANGED <<stored, age, seen, queue, pod, phase, ghosts>>

PodChanges(o) ==
  /\ spent["pods"] < MaxPodChanges
  /\ Spend("pods")
  /\ \E p \in Pods \ {pod[o]} : pod' = [pod EXCEPT ![o] = p]
  /\ UNCHANGED <<stored, age, cached, queue, phase, held, ghosts>>

\* A handler that runs no command takes no time.
Tick ==
  /\ \A o \in Ops : phase[o] \in {"idle", "executing"}
  /\ age' = [o \in Ops |-> Lesser(age[o] + 1, Cap)]
  /\ seen' = [o \in Ops |-> [seen[o] EXCEPT !.age = Lesser(@ + 1, Cap)]]
  /\ timer' = [o \in Ops |-> IF timer[o] > 0 THEN timer[o] - 1 ELSE timer[o]]
  /\ UNCHANGED <<stored, fresh, edited, queued, pod, phase, held, ghosts, spent>>

\* A restarted operator lists every operation: each one is queued again.
Crash ==
  /\ spent["crashes"] < MaxCrashes
  /\ Spend("crashes")
  /\ seen' = [o \in Ops |-> [status |-> stored[o], age |-> age[o]]]
  /\ fresh' = [o \in Ops |-> TRUE]
  /\ edited' = [o \in Ops |-> FALSE]
  /\ queued' = [o \in Ops |-> TRUE]
  /\ timer' = [o \in Ops |-> NoTimer]
  /\ phase' = [o \in Ops |-> "idle"]
  /\ held' = [o \in Ops |-> NoCopy]
  /\ UNCHANGED <<stored, age, pod, ghosts>>

Reconcile(o) == \/ SkipDone(o) \/ Begin(o) \/ FailToStart(o)
                \/ RecordStart(o) \/ Execute(o) \/ Complete(o)

Next ==
  \/ \E o \in Ops : \/ Reconcile(o) \/ Deliver(o) \/ TimerFires(o)
                    \/ Edit(o) \/ PodChanges(o)
  \/ Tick
  \/ Crash

Spec == Init /\ [][Next]_vars

\* The worker keeps serving the queue and goes on with what it started,
\* commands end, the watch delivers, and time passes.  Users, pods, failures
\* and crashes owe nothing.  The queue is served in order, so an operation
\* that waits in it is reached.
Fairness ==
  /\ \A o \in Ops : /\ SF_vars(SkipDone(o) \/ Begin(o))
                    /\ WF_vars(FailToStart(o) \/ RecordStart(o) \/ Execute(o) \/ Complete(o))
                    /\ WF_vars(Deliver(o))
                    /\ WF_vars(TimerFires(o))
  /\ SF_vars(Tick)

FairSpec == Spec /\ Fairness
-----------------------------------------------------------------------------
(***************************************************************************)
(* Correctness.                                                            *)
(***************************************************************************)

\* At most one of the executions of an operation belongs to a reconcile that
\* stored Started, whatever edits, lost writes, restarts and stale reads do:
\* the resource version is what stops a second reconcile from recording a
\* start of its own (the Status().Update of Reconcile).
RecordedStartOnce == \A o \in Ops : recorded[o] <= 1

\* Every repetition of a command is accounted for by an edit of the resource
\* or a restart of the operator: lost writes, stale reads and requeues alone
\* never run it twice, because no path of Reconcile that reaches the command
\* asks for another reconcile.
RepetitionsExplained ==
  \A o \in Ops : execs[o] <= 1 + spent["edits"] + spent["crashes"]

\* A repeated start failure is retried after at least twice the interval
\* before it, up to Cap (the comment of handleStartErrorAndRequeue).
BackoffDoubles ==
  [][\A o \in Ops :
        FailToStart(o) /\ stored[o].started = "False" /\ stored[o].message = pod[o]
        => retry'[o] >= Lesser(2 * retry[o], Cap)]_vars

\* The persisted conditions implement OperationLifecycle.
Lifecycle == INSTANCE OperationLifecycle
               WITH started   <- [o \in Ops |-> stored[o].started],
                    completed <- [o \in Ops |-> stored[o].completed]
ImplementsLifecycle == Lifecycle!Spec

\* An operation whose pod comes up and stays up gets started: the retries of
\* handleStartErrorAndRequeue go on for as long as it takes.
EventuallyStarted ==
  \A o \in Ops : <>[](pod[o] = "running") =>
                 <>(stored[o].started = "True" \/ execs[o] > 0)

\* Without edits, restarts and lost writes, its outcome gets reported as well,
\* also when it has to wait for the command of another operation to end.
EventuallyReported ==
  \A o \in Ops : <>[](pod[o] = "running") => <>(stored[o].completed # "None")
=============================================================================
