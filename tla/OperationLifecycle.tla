------------------------- MODULE OperationLifecycle -------------------------
(***************************************************************************)
(* What a RuntimeOperation promises to the user who reads its status: the  *)
(* Started and Completed conditions only ever move forward.  An operation  *)
(* waits (possibly reporting why it cannot start), starts once, and its    *)
(* outcome, once reported, is never rewritten.  RuntimeOperation.tla is    *)
(* shown to implement this specification.                                  *)
(***************************************************************************)
CONSTANT Ops

VARIABLES started, completed    \* persisted conditions, one per operation

Status == {"None", "False", "True"}

Init == /\ started = [o \in Ops |-> "None"]
        /\ completed = [o \in Ops |-> "None"]

\* A failed attempt to start is reported; the operation may still start.
ReportWaiting(o) ==
  /\ started[o] # "True"
  /\ started' = [started EXCEPT ![o] = "False"]
  /\ UNCHANGED completed

Start(o) ==
  /\ started[o] # "True"
  /\ started' = [started EXCEPT ![o] = "True"]
  /\ UNCHANGED completed

\* The outcome of the command is reported once.  An operation whose Started
\* report was lost reports both at the same time.
Finish(o) ==
  /\ completed[o] = "None"
  /\ started' = [started EXCEPT ![o] = "True"]
  /\ \E outcome \in {"False", "True"} :
        completed' = [completed EXCEPT ![o] = outcome]

Next == \E o \in Ops : ReportWaiting(o) \/ Start(o) \/ Finish(o)

Spec == Init /\ [][Next]_<<started, completed>>
=============================================================================
