-------------------------- MODULE ReconcileStatus --------------------------
(***************************************************************************)
(* How a reconcile of a RuntimeComponent ends (ManageError, ManageSuccess  *)
(* and CheckApplicationStatus in utils/reconciler.go and utils/status.go): *)
(* the conditions it stores, and how long it waits for the next one.       *)
(*                                                                         *)
(* Time is counted in seconds, ages saturate at MaxAge.  The values of the *)
(* operator's ConfigMap are in tenths of a second: the code reads them     *)
(* with ParseFloat in some places and with Atoi, which takes a fraction    *)
(* for 0, in others.  The increase is a fraction num/den.                  *)
(***************************************************************************)
EXTENDS StatusConditions

CONSTANTS
  Configs,        \* configurations that CheckValidValue accepts
  Workloads(_),   \* what the Deployment, StatefulSet or Knative Service reports,
                  \* under a configuration
  Errors,         \* messages a reconcile may fail with
  Warnings(_),    \* whether a status warning may apply to the specification
  Exposed,        \* spec.expose: the status lists an external endpoint
  LookupsFail(_), \* the lookup of that endpoint's API may fail
  WritesFail,     \* the status may fail to be stored
  MaxAge(_)       \* ages saturate here, under a configuration

ASSUME StatusAssumption ==
  /\ \A c \in Configs : /\ {c.min, c.failureMax, c.successMax, c.num, c.den} \subseteq Nat \ {0}
                        /\ c.num >= c.den
                        /\ c.show \in BOOLEAN
  /\ {Exposed, WritesFail} \subseteq BOOLEAN
  /\ \A c \in Configs : LookupsFail(c) \in BOOLEAN /\ Warnings(c) \subseteq BOOLEAN
  /\ \A c \in Configs : MaxAge(c) \in Nat

\* What the objects of an application report: counts among the replicas there
\* are.  The number wanted is fixed or in the range of the autoscaler; a Knative
\* Service counts as one replica, which is ready or not there.
Reported(w) ==
  /\ w.kind \in {"fixed", "scaled", "knative"} /\ w.exists \in BOOLEAN
  /\ {w.min, w.max, w.replicas, w.ready, w.updated} \subseteq Nat
  /\ w.min <= w.max /\ w.ready <= w.replicas /\ w.updated <= w.replicas
  /\ w.kind = "fixed" => w.min = w.max
  /\ w.kind = "knative" => {w.min, w.max} = {1} /\ {w.ready, w.updated} = {w.replicas}
                           /\ w.replicas <= 1

ASSUME WorkloadAssumption == \A c \in Configs : \A w \in Workloads(c) : Reported(w)

VARIABLES
  config,      \* the configuration in force
  workload,    \* its kind ("fixed" or "scaled" replicas, or "knative"), whether
               \* it exists, the replicas wanted, and the counts reported
  hasWarning,  \* whether a status warning applies to the specification
  conditions,  \* stored status.conditions
  interval,    \* stored status.reconcileInterval, or Hidden
  delay,       \* seconds the last reconcile asked to wait
  requeued     \* whether it asked for another reconcile at all

vars == <<config, workload, hasWarning, conditions, interval, delay, requeued>>

Hidden == -1
AtMost(a, b)  == IF a < b THEN a ELSE b
AtLeast(a, b) == IF a < b THEN b ELSE a
-----------------------------------------------------------------------------
(***************************************************************************)
(* Intervals.                                                              *)
(***************************************************************************)
Atoi(v)  == IF v % 10 = 0 THEN v \div 10 ELSE 0
Floor(v) == v \div 10

\* Fault: the interval of a new condition is not looked up.
NoInterval(c) == 0

ResetInterval(c) == Atoi(c.min)

Power(b) == LET power[n \in Nat] == IF n = 0 THEN 1 ELSE b * power[n - 1] IN power

\* The loop of updateReconcileInterval: how often the elapsed time can be
\* divided by the increase, rounding down, before it is at most the minimum.
Exponent(c) ==
  LET divide[x \in 0 .. MaxAge(c)] ==
        IF 10 * x > c.min THEN 1 + divide[(x * c.den) \div c.num] ELSE 0
  IN  divide

\* The minimum, increased once for every such division.
Increased(c, elapsed) ==
  IF 10 * elapsed >= c.min /\ c.num > c.den
  THEN LET e == Exponent(c)[elapsed]
       IN  (c.min * Power(c.num)[e]) \div (10 * Power(c.den)[e])
  ELSE Floor(c.min)

\* Faults: the increase ignores the maximum; it is not taken for all of the
\* elapsed time; or the wait starts over at the maximum.
Uncapped(c, max, elapsed)  == Increased(c, elapsed)
NotRaised(c, max, elapsed) == AtMost(Increased(c, elapsed), max)
StartOver(c, max, elapsed) ==
  IF elapsed >= max THEN Floor(c.min) ELSE AtMost(Increased(c, elapsed), max)

\* updateReconcileInterval.  The minimum itself is not held to the maximum.
UpdatedInterval(c, max, elapsed) ==
  IF elapsed >= max THEN max
  ELSE IF 10 * elapsed < c.min THEN Floor(c.min)
  ELSE AtMost(Increased(c, elapsed), max)

\* The interval is shown in the status, or removed from it.
Shown(seconds) == IF config.show THEN seconds ELSE Hidden
-----------------------------------------------------------------------------
(***************************************************************************)
(* Conditions.  The operators below take and return a status s: the        *)
(* conditions and the interval held in memory.                             *)
(***************************************************************************)
Set(s, type, isTrue, message) ==
  [s EXCEPT !.conditions = SetCondition(@, NewCondition(type, isTrue, message))]

\* Fault: warnings are only ever added.
AddOnly(s) == IF hasWarning THEN Set(s, "Warning", TRUE, <<"warning", 0>>) ELSE s

\* addStatusWarnings
AddWarnings(s) ==
  IF hasWarning THEN Set(s, "Warning", TRUE, <<"warning", 0>>)
  ELSE [s EXCEPT !.conditions = UnsetCondition(@, "Warning")]

\* Fault: replicas left over from before do not matter.
EnoughReady(s) ==
  LET count == AtMost(workload.ready, workload.updated)
  IN  Set(s, "ResourcesReady", count >= workload.min, <<"available", count>>)

\* areReplicasReady: the replicas that count are ready and up to date.
ReplicasReady(s) ==
  LET w       == workload
      count   == AtMost(w.ready, w.updated)
      enough  == IF w.kind = "scaled" THEN count >= w.min
                 ELSE {w.replicas, w.ready, w.updated} = {w.min}
      tooMany == w.replicas > w.max
  IN  IF enough /\ ~tooMany THEN Set(s, "ResourcesReady", TRUE, <<"available", count>>)
      ELSE IF tooMany /\ (w.kind = "scaled" => enough)
           THEN Set(s, "ResourcesReady", FALSE, <<"progressing", 0>>)
           ELSE Set(s, "ResourcesReady", FALSE, <<"unavailable", count>>)

\* isKnativeReady: the service says so itself.
KnativeReady(s) ==
  Set(s, "ResourcesReady", workload.ready > 0,
      <<IF workload.ready > 0 THEN "available" ELSE "unavailable", 0>>)

\* CheckResourcesStatus
ResourcesChecked(s) ==
  IF ~workload.exists THEN Set(s, "ResourcesReady", FALSE, <<"not created", 0>>)
  ELSE IF workload.kind = "knative" THEN KnativeReady(s) ELSE ReplicasReady(s)

\* Fault: Ready is left as it was.
ReadyKept(s) == s

NotReconciled(s) == Set(s, "Ready", FALSE, <<"not reconciled", 0>>)

\* ManageError up to its write.  The condition it compares with the new one is
\* the stored element that SetCondition has just overwritten, so what decides
\* is whether there was one, and whether the interval is in the status.
\* CheckApplicationStatus finds Reconciled = False, and looks no further.
Failed(s, message) ==
  LET t == NotReconciled(AddWarnings(Set(s, "Reconciled", FALSE, message)))
      seconds == IF ~Has(s.conditions, "Reconciled") \/ t.interval = Hidden
                 THEN ResetInterval(config)
                 ELSE UpdatedInterval(config, Atoi(config.failureMax),
                                      LatestTransition(t.conditions))
  IN  [t EXCEPT !.interval = Shown(seconds), !.delay = seconds]

\* The application is exposed by a Route or an Ingress.
HasEndpoint == Exposed /\ workload.kind # "knative"

\* ReportExternalEndpointStatus asks for the API of the endpoint, and calls
\* ManageError when there is no answer.
EndpointReported(s, lookupFails) ==
  IF lookupFails THEN Failed(s, <<"lookup", 0>>) ELSE s

\* CheckApplicationStatus after Reconciled was set to True.
Checked(s, lookupFails) ==
  LET t == EndpointReported(ResourcesChecked(s), lookupFails)
  IN  IF IsTrue(t.conditions, "ResourcesReady")
      THEN Set(t, "Ready", TRUE, <<"ready", 0>>)
      ELSE Set(t, "Ready", FALSE, <<"resources not ready", 0>>)

\* ManageSuccess up to its write.  The condition compared is Ready when the
\* application is ready, ResourcesReady otherwise.
Succeeded(s, lookupFails) ==
  LET t == Checked(AddWarnings(Set(s, "Reconciled", TRUE, <<"", 0>>)), lookupFails)
      ready == IsTrue(t.conditions, "Ready")
      compared == IF ready THEN "Ready" ELSE "ResourcesReady"
      max == Atoi(IF ready THEN config.successMax ELSE config.failureMax)
      seconds == IF Has(s.conditions, "Reconciled") /\ Has(s.conditions, compared)
                 THEN UpdatedInterval(config, max, LatestTransition(t.conditions))
                 ELSE ResetInterval(config)
  IN  [t EXCEPT !.interval = Shown(seconds), !.delay = seconds]

Held == [conditions |-> conditions, interval |-> interval, delay |-> delay]

Store(s) == conditions' = s.conditions /\ interval' = s.interval
-----------------------------------------------------------------------------
Messages  == Errors \cup
             ({"", "warning", "not created", "available", "progressing", "unavailable",
               "lookup", "not reconciled", "resources not ready", "ready"} \X Nat)
Condition == [type : Types, isTrue : BOOLEAN, age : 0 .. MaxAge(config), message : Messages]

TypeOK ==
  /\ config \in Configs
  /\ workload \in Workloads(config)
  /\ hasWarning \in BOOLEAN
  /\ conditions \in Seq(Condition)
  /\ interval \in Nat \cup {Hidden}
  /\ delay \in Nat
  /\ requeued \in BOOLEAN

Init ==
  /\ config \in Configs
  /\ workload \in Workloads(config)
  /\ hasWarning \in Warnings(config)
  /\ conditions = << >>
  /\ interval = Hidden
  /\ delay = 0
  /\ requeued = TRUE               \* the Create event

\* A reconcile fails.  ManageError always asks for a requeue; one second later,
\* or as soon as the work queue likes, when the status could not be stored.
Fail(message) ==
  LET s == Failed(Held, message)
  IN  /\ \/ Store(s) /\ delay' = s.delay
         \/ WritesFail /\ delay' = 1 /\ UNCHANGED <<conditions, interval>>
      /\ requeued' = TRUE
      /\ UNCHANGED <<config, workload, hasWarning>>

\* A reconcile succeeds.  A delay of 0 is no requeue.  When the lookup of the
\* endpoint fails, ManageError stores its own status first.
Succeed(lookupFails) ==
  LET s == Succeeded(Held, lookupFails)
      nested == Failed(ResourcesChecked(AddWarnings(Set(Held, "Reconciled", TRUE, <<"", 0>>))),
                       <<"lookup", 0>>)
  IN  /\ \/ Store(s) /\ delay' = s.delay
         \/ WritesFail /\ delay' = 1 /\ UNCHANGED <<conditions, interval>>
         \/ WritesFail /\ lookupFails /\ delay' = 1 /\ Store(nested)
      /\ requeued' = (delay' > 0)
      /\ UNCHANGED <<config, workload, hasWarning>>

Elapse ==
  /\ conditions' = [i \in DOMAIN conditions |->
                      [conditions[i] EXCEPT !.age = AtMost(@ + 1, MaxAge(config))]]
  /\ UNCHANGED <<config, workload, hasWarning, interval, delay, requeued>>

WorkloadChanges ==
  /\ workload' \in Workloads(config)
  /\ UNCHANGED <<config, hasWarning, conditions, interval, delay, requeued>>

WarningChanges ==
  /\ hasWarning' \in Warnings(config)
  /\ UNCHANGED <<config, workload, conditions, interval, delay, requeued>>

Next ==
  \/ \E e \in Errors : Fail(e)
  \/ \E f \in {FALSE, LookupsFail(config) /\ HasEndpoint} : Succeed(f)
  \/ Elapse
  \/ WorkloadChanges
  \/ WarningChanges

Spec == Init /\ [][Next]_vars
-----------------------------------------------------------------------------
(***************************************************************************)
(* Correctness.                                                            *)
(***************************************************************************)
Content(cs) == [i \in DOMAIN cs |-> [cs[i] EXCEPT !.age = 0]]

Reconciles == (\E e \in Errors : Fail(e)) \/ (\E f \in BOOLEAN : Succeed(f))

\* A reconcile that stores what was stored already: nothing changed meanwhile,
\* and the transition times are as they were.
Repeats == Reconciles /\ conditions # << >> /\ conditions' = conditions

\* No condition but Warning is ever dropped from the status.  UnsetCondition
\* would drop all but one of those behind the one it removes, and is right only
\* because SetCondition keeps Warning last.
ConditionsKept ==
  [][\A type \in Types \ {"Warning"} : Has(conditions, type) => Has(conditions', type)]_vars

\* A warning is listed exactly while it applies: what a reconcile stores about
\* it is not what an earlier one left.
WarningUpToDate ==
  [][Reconciles /\ Content(conditions') # Content(conditions)
     => (Has(conditions', "Warning") <=> hasWarning)]_vars

\* Ready is True only when the application is reconciled and its resources are
\* ready (user-guide-v1.adoc:270, troubleshooting.adoc:65).  The exception is a
\* lookup of the endpoint that fails: ManageError reports it as Reconciled False,
\* and CheckApplicationStatus goes on and sets Ready (status.go:62-73, 226-234).
ReadyMeansReconciled ==
  IsTrue(conditions, "Ready") =>
    /\ IsTrue(conditions, "ResourcesReady")
    /\ Has(conditions, "Reconciled")
    /\ \/ IsTrue(conditions, "Reconciled")
       \/ GetCondition(conditions, "Reconciled").message = <<"lookup", 0>>

\* ResourcesReady is set to True when the running replicas match the desired
\* replicas or fall within the desired range, and to False otherwise
\* (troubleshooting.adoc:62); replicas of an older template do not count.
ReadyReplicasCount ==
  [][\A f \in BOOLEAN :
       Succeed(f) /\ conditions' # conditions =>
         (IsTrue(conditions', "ResourcesReady") <=>
            /\ workload.exists
            /\ AtMost(workload.ready, workload.updated) \in workload.min .. workload.max
            /\ workload.replicas \in workload.min .. workload.max)]_vars

\* The wait between two reconciles stays within what the administrator asked
\* for, and grows with the time the status has stood unchanged at most by the
\* configured increase.
DelayWithinBounds ==
  [][Reconciles /\ delay' # 1 =>
       LET most    == IF IsTrue(conditions', "Ready") THEN config.successMax
                      ELSE config.failureMax
           elapsed == LatestTransition(conditions')
       IN  /\ 10 * delay' >= AtMost(config.min, most)
           /\ 10 * delay' <= AtLeast(config.min, most)
           /\ \/ 10 * delay' <= config.min
              \/ delay' * config.den <= elapsed * config.num]_vars

\* While nothing changes the wait never gets shorter.  (A maximum below the
\* minimum, which CheckValidValue accepts, cuts the wait when it is reached.)
DelayGrows ==
  [][Repeats /\ delay' # 1 /\ config.min <= AtMost(config.failureMax, config.successMax)
     => delay' >= delay]_vars

\* Every reconcile asks for another: "the operator controller periodically
\* runs reconciliation" (user-guide-v1.adoc:342).
PeriodicallyReconciled == requeued

\* A failure that repeats unchanged for long enough is retried at the failure
\* maximum (user-guide-v1.adoc:346), provided the interval is shown in the status:
\* while it is hidden ManageError starts over every time (reconciler.go:395).
FailureReachesMaximum ==
  [][\A e \in Errors :
       Fail(e) /\ Repeats /\ config.show
       /\ 10 * LatestTransition(conditions) >= config.failureMax
       => delay' \in {1, Atoi(config.failureMax)}]_vars
=============================================================================
