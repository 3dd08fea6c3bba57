-------------------------- MODULE MCReconcileStatus --------------------------
(* ReconcileStatus on small instances; the .cfg files give the bounds.      *)
EXTENDS ReconcileStatus

\* The defaults, scaled down: 5 s to 2 s, 240 s to 12 s and 120 s to 8 s.
Config(min, percentage, show) ==
  [min |-> min, failureMax |-> 120, successMax |-> 80,
   num |-> 2 + percentage, den |-> 2, show |-> show]

\* Increases of 50, 0 and 100 percent, with the interval shown, are followed
\* through time; with the interval hidden the replica counts, the warning and the
\* lookup of the endpoint vary instead.
AllConfigs == {Config(20, p, TRUE) : p \in 0 .. 2} \cup {Config(20, 1, FALSE)}
Ages(c) == IF c.show THEN 13 ELSE 0
Warned(c) == IF c.show THEN {FALSE} ELSE {FALSE, TRUE}
Unanswered(c) == ~c.show

OneError  == {<<"error", 1>>}

Counts == {c \in [replicas : 0 .. 3, ready : 0 .. 3, updated : 0 .. 3] :
             c.ready <= c.replicas /\ c.updated <= c.replicas}

Workload(c, kind, most) ==
  [kind |-> kind, exists |-> TRUE, min |-> 1, max |-> most,
   replicas |-> c.replicas, ready |-> c.ready, updated |-> c.updated]

Missing(w) == [w EXCEPT !.exists = FALSE]

\* One wanted replica, with up to two of either template; one to two wanted by
\* autoscaling, with up to three; a Knative Service; and none of these yet.
One == {c \in Counts : c.replicas <= 1 /\ c.ready = c.updated /\ c.ready = c.replicas}
AllWorkloads ==
  {Workload(c, "fixed", 1) : c \in {d \in Counts : d.replicas <= 2}}
  \cup {Workload(c, "scaled", 2) : c \in {d \in Counts : d.ready = d.updated}}
  \cup {Workload(c, "knative", 1) : c \in One}
  \cup {Missing(Workload(c, "fixed", 1)) : c \in One}

\* A replica that is ready, or not yet.
TwoWorkloads ==
  {Workload([replicas |-> 1, ready |-> n, updated |-> 1], "fixed", 1) : n \in 0 .. 1}

Observed(c) == IF c.show THEN TwoWorkloads ELSE AllWorkloads
==============================================================================
