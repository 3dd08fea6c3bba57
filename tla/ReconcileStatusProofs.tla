------------------------ MODULE ReconcileStatusProofs ------------------------
(***************************************************************************)
(* Proofs about ReconcileStatus, for every configuration, workload and     *)
(* error: what the conditions a reconcile stores say.                      *)
(***************************************************************************)
EXTENDS ReconcileStatus, StatusConditionsProofs

\* A status in memory: its conditions are in order, one of each type.
IsStatus(s) ==
  {"conditions", "interval", "delay"} \subseteq DOMAIN s /\ s.conditions \in Listed(Condition)

\* In s the condition of this type says so.
Says(s, type, isTrue, message) ==
  /\ Has(s.conditions, type)
  /\ GetCondition(s.conditions, type).isTrue = isTrue
  /\ GetCondition(s.conditions, type).message = message

\* r says of all but some types of conditions what s says.
SameBut(types, s, r) ==
  \A t \in Types \ types :
    /\ Has(r.conditions, t) <=> Has(s.conditions, t)
    /\ Has(s.conditions, t) => GetCondition(r.conditions, t) = GetCondition(s.conditions, t)

\* The replicas that count, and those there are, are as many as are wanted.
AsWanted(w) ==
  /\ w.exists
  /\ AtMost(w.ready, w.updated) \in w.min .. w.max
  /\ w.replicas \in w.min .. w.max

\* The list of conditions stays in order.
ConditionsOK ==
  /\ config \in Configs
  /\ workload \in Workloads(config)
  /\ hasWarning \in BOOLEAN
  /\ conditions \in Listed(Condition)
-----------------------------------------------------------------------------
\* The conditions there are make a set the lemmas on lists apply to.
LEMMA ConditionSet ==
  ASSUME config \in Configs
  PROVE  Conditions(Condition) /\ AnyAge(Condition) /\ \A c \in Condition : c.age \in Nat
<1>1. MaxAge(config) \in Nat
  BY StatusAssumption
<1>2. 0 \in 0 .. MaxAge(config)
  BY <1>1
<1> QED
  BY <1>1, <1>2 DEF Conditions, AnyAge, Condition

\* Set changes one condition.
LEMMA AfterSetStatus ==
  ASSUME config \in Configs, NEW s, IsStatus(s), NEW type \in Types, NEW isTrue \in BOOLEAN,
         NEW message \in Messages
  PROVE  LET r == Set(s, type, isTrue, message)
         IN /\ IsStatus(r) /\ r.interval = s.interval /\ r.delay = s.delay
            /\ Says(r, type, isTrue, message) /\ SameBut({type}, s, r)
<1> DEFINE r == Set(s, type, isTrue, message)
           c == NewCondition(type, isTrue, message)
<1>1. /\ c \in Condition /\ c.type = type /\ c.isTrue = isTrue /\ c.message = message
  <2>1. 0 \in 0 .. MaxAge(config)
    BY StatusAssumption
  <2> QED
    BY <2>1 DEF NewCondition, Condition
<1>2. /\ r.conditions = SetCondition(s.conditions, c) /\ DOMAIN r = DOMAIN s
      /\ r.interval = s.interval /\ r.delay = s.delay
  BY DEF Set, IsStatus
<1> HIDE DEF r, c
<1>3. Conditions(Condition) /\ AnyAge(Condition) /\ s.conditions \in Listed(Condition)
  BY ConditionSet DEF IsStatus
<1>4. LET q == SetCondition(s.conditions, c)
      IN /\ q \in Listed(Condition)
         /\ Has(q, c.type)
         /\ GetCondition(q, c.type).isTrue = c.isTrue
         /\ GetCondition(q, c.type).message = c.message
  BY <1>1, <1>3, AfterSet
<1>5. IsStatus(r)
  BY <1>2, <1>4 DEF IsStatus
<1>6. Says(r, type, isTrue, message)
  BY <1>1, <1>2, <1>4 DEF Says
<1>7. SameBut({type}, s, r)
  <2> SUFFICES ASSUME NEW t \in Types \ {type}
               PROVE  /\ Has(r.conditions, t) <=> Has(s.conditions, t)
                      /\ Has(s.conditions, t) =>
                           GetCondition(r.conditions, t) = GetCondition(s.conditions, t)
    BY DEF SameBut
  <2> QED
    BY <1>1, <1>2, <1>3, OthersAfterSet
<1> QED
  BY <1>2, <1>5, <1>6, <1>7 DEF r

\* What is the same from s to r and from r to q is the same from s to q.
LEMMA SameAfter ==
  ASSUME NEW types, NEW more, NEW s, NEW r, NEW q, SameBut(types, s, r), SameBut(more, r, q)
  PROVE  SameBut(types \cup more, s, q)
BY DEF SameBut

\* What a status says of a type is kept by what says the same of it.
LEMMA StillSays ==
  ASSUME NEW types, NEW s, NEW r, SameBut(types, s, r), NEW t \in Types \ types
  PROVE  /\ \A b, m : Says(s, t, b, m) => Says(r, t, b, m)
         /\ Has(r.conditions, t) <=> Has(s.conditions, t)
         /\ IsTrue(r.conditions, t) <=> IsTrue(s.conditions, t)
BY DEF SameBut, Says, IsTrue

\* The messages of the conditions.
LEMMA MessagesThere ==
  /\ Errors \subseteq Messages
  /\ \A n \in Nat : /\ <<"available", n>> \in Messages
                    /\ <<"unavailable", n>> \in Messages
  /\ {<<"", 0>>, <<"warning", 0>>, <<"not created", 0>>, <<"progressing", 0>>,
      <<"lookup", 0>>, <<"not reconciled", 0>>, <<"resources not ready", 0>>,
      <<"ready", 0>>} \subseteq Messages
<1> DEFINE words == {"", "warning", "not created", "available", "progressing",
                     "unavailable", "lookup", "not reconciled",
                     "resources not ready", "ready"}
<1>1. Messages = Errors \cup (words \X Nat)
  BY DEF Messages
<1>2. \A m \in words : \A n \in Nat : <<m, n>> \in words \X Nat
  OBVIOUS
<1>3. \A m \in words : \A n \in Nat : <<m, n>> \in Messages
  BY <1>1, <1>2
<1>4. \A m \in words : <<m, 0>> \in Messages
  BY <1>3
<1>5. /\ "" \in words /\ "warning" \in words /\ "not created" \in words
      /\ "available" \in words /\ "progressing" \in words /\ "unavailable" \in words
      /\ "lookup" \in words /\ "not reconciled" \in words
      /\ "resources not ready" \in words /\ "ready" \in words
  OBVIOUS
<1> HIDE DEF words
<1> QED
  BY <1>1, <1>3, <1>4, <1>5

\* AddWarnings changes Warning only: it is listed when a warning applies.
LEMMA AfterWarnings ==
  ASSUME config \in Configs, hasWarning \in BOOLEAN, NEW s, IsStatus(s)
  PROVE  LET r == AddWarnings(s)
         IN /\ IsStatus(r) /\ r.interval = s.interval /\ r.delay = s.delay
            /\ SameBut({"Warning"}, s, r)
            /\ Has(r.conditions, "Warning") <=> hasWarning
<1> DEFINE r == AddWarnings(s)
<1>1. CASE hasWarning
  <2>1. r = Set(s, "Warning", TRUE, <<"warning", 0>>)
    BY <1>1 DEF AddWarnings
  <2>2. "Warning" \in Types /\ TRUE \in BOOLEAN /\ <<"warning", 0>> \in Messages
    BY MessagesThere DEF Types
  <2> HIDE DEF r
  <2>3. /\ IsStatus(r) /\ r.interval = s.interval /\ r.delay = s.delay
        /\ Says(r, "Warning", TRUE, <<"warning", 0>>) /\ SameBut({"Warning"}, s, r)
    BY <2>1, <2>2, AfterSetStatus
  <2>4. Has(r.conditions, "Warning")
    BY <2>3 DEF Says
  <2> QED
    BY <1>1, <2>3, <2>4 DEF r
<1>2. CASE ~hasWarning
  <2>1. /\ r.conditions = UnsetCondition(s.conditions, "Warning") /\ DOMAIN r = DOMAIN s
        /\ r.interval = s.interval /\ r.delay = s.delay
    BY <1>2 DEF AddWarnings, IsStatus
  <2>2. Conditions(Condition) /\ s.conditions \in Listed(Condition)
    BY ConditionSet DEF IsStatus
  <2> HIDE DEF r
  <2>3. /\ r.conditions \in Listed(Condition) /\ ~Has(r.conditions, "Warning")
        /\ Elements(r.conditions) = {d \in Elements(s.conditions) : d.type # "Warning"}
    BY <2>1, <2>2, AfterUnset
  <2>4. IsStatus(r)
    BY <2>1, <2>3 DEF IsStatus
  <2>5. SameBut({"Warning"}, s, r)
    <3> SUFFICES ASSUME NEW t \in Types \ {"Warning"}
                 PROVE  /\ Has(r.conditions, t) <=> Has(s.conditions, t)
                        /\ Has(s.conditions, t) =>
                             GetCondition(r.conditions, t) = GetCondition(s.conditions, t)
      BY DEF SameBut
    <3>1. \A d : d.type = t => (d \in Elements(r.conditions) <=> d \in Elements(s.conditions))
      BY <2>3
    <3> QED
      BY <2>2, <2>3, <3>1, SameOfType
  <2> QED
    BY <1>2, <2>1, <2>3, <2>4, <2>5 DEF r
<1> QED
  BY <1>1, <1>2

\* CheckResourcesStatus changes ResourcesReady only: it is True when the replicas
\* are as many as are wanted.
LEMMA AfterResourcesChecked ==
  ASSUME config \in Configs, workload \in Workloads(config), NEW s, IsStatus(s)
  PROVE  LET r == ResourcesChecked(s)
         IN /\ IsStatus(r) /\ r.interval = s.interval /\ r.delay = s.delay
            /\ SameBut({"ResourcesReady"}, s, r)
            /\ Has(r.conditions, "ResourcesReady")
            /\ IsTrue(r.conditions, "ResourcesReady") <=> AsWanted(workload)
<1> DEFINE r == ResourcesChecked(s)
           w == workload
           count == AtMost(w.ready, w.updated)
<1>1. Reported(w)
  BY WorkloadAssumption
<1>2. count \in Nat
  BY <1>1 DEF Reported, AtMost
<1> SUFFICES \E b \in BOOLEAN, m \in Messages : /\ r = Set(s, "ResourcesReady", b, m)
                                                /\ b <=> AsWanted(w)
  <2>1. PICK b \in BOOLEAN, m \in Messages : /\ r = Set(s, "ResourcesReady", b, m)
                                             /\ b <=> AsWanted(w)
    OBVIOUS
  <2>2. "ResourcesReady" \in Types
    BY DEF Types
  <2> HIDE DEF r, w
  <2>3. /\ IsStatus(r) /\ r.interval = s.interval /\ r.delay = s.delay
        /\ Says(r, "ResourcesReady", b, m) /\ SameBut({"ResourcesReady"}, s, r)
    BY <2>1, <2>2, AfterSetStatus
  <2>4. /\ Has(r.conditions, "ResourcesReady")
        /\ IsTrue(r.conditions, "ResourcesReady") <=> b
    BY <2>3 DEF Says, IsTrue
  <2> QED
    BY <2>1, <2>3, <2>4 DEF r, w
<1>3. CASE ~w.exists
  <2>1. r = Set(s, "ResourcesReady", FALSE, <<"not created", 0>>)
    BY <1>3 DEF ResourcesChecked
  <2>2. ~AsWanted(w)
    BY <1>3 DEF AsWanted
  <2> QED
    BY <2>1, <2>2, MessagesThere
<1>4. CASE w.exists /\ w.kind = "knative"
  <2>1. r = Set(s, "ResourcesReady", w.ready > 0,
                <<IF w.ready > 0 THEN "available" ELSE "unavailable", 0>>)
    BY <1>4 DEF ResourcesChecked, KnativeReady
  <2>2. (w.ready > 0) <=> AsWanted(w)
    BY <1>1, <1>4 DEF AsWanted, Reported, AtMost
  <2> DEFINE m == <<IF w.ready > 0 THEN "available" ELSE "unavailable", 0>>
  <2>3. m \in Messages
    <3>1. CASE w.ready > 0
      BY <3>1, MessagesThere
    <3>2. CASE ~(w.ready > 0)
      BY <3>2, MessagesThere
    <3> QED
      BY <3>1, <3>2
  <2>4. (w.ready > 0) \in BOOLEAN
    OBVIOUS
  <2> HIDE DEF m, r, w
  <2> QED
    BY <2>1, <2>2, <2>3, <2>4 DEF m
<1>5. CASE w.exists /\ w.kind # "knative"
  <2> DEFINE enough  == IF w.kind = "scaled" THEN count >= w.min
                        ELSE {w.replicas, w.ready, w.updated} = {w.min}
             tooMany == w.replicas > w.max
  <2>1. r = IF enough /\ ~tooMany THEN Set(s, "ResourcesReady", TRUE, <<"available", count>>)
            ELSE IF tooMany /\ (w.kind = "scaled" => enough)
                 THEN Set(s, "ResourcesReady", FALSE, <<"progressing", 0>>)
                 ELSE Set(s, "ResourcesReady", FALSE, <<"unavailable", count>>)
    BY <1>5 DEF ResourcesChecked, ReplicasReady
  <2>2. (enough /\ ~tooMany) <=> AsWanted(w)
    <3>1. CASE w.kind = "scaled"
      BY <1>1, <1>5, <3>1 DEF AsWanted, Reported, AtMost
    <3>2. CASE w.kind = "fixed"
      BY <1>1, <1>5, <3>2 DEF AsWanted, Reported, AtMost
    <3> QED
      BY <1>1, <1>5, <3>1, <3>2 DEF Reported
  <2>3. /\ <<"available", count>> \in Messages /\ <<"unavailable", count>> \in Messages
        /\ <<"progressing", 0>> \in Messages
    BY <1>2, MessagesThere
  <2> HIDE DEF enough, tooMany, r, count, w
  <2>4. CASE enough /\ ~tooMany
    BY <2>1, <2>2, <2>3, <2>4
  <2>5. CASE ~(enough /\ ~tooMany) /\ tooMany /\ (w.kind = "scaled" => enough)
    BY <2>1, <2>2, <2>3, <2>5
  <2>6. CASE ~(enough /\ ~tooMany) /\ ~(tooMany /\ (w.kind = "scaled" => enough))
    BY <2>1, <2>2, <2>3, <2>6
  <2> QED
    BY <2>4, <2>5, <2>6
<1> QED
  BY <1>3, <1>4, <1>5

\* ManageError reports the failure, and Ready False with it.
LEMMA AfterFailed ==
  ASSUME config \in Configs, hasWarning \in BOOLEAN, NEW s, IsStatus(s),
         NEW message \in Messages
  PROVE  LET r == Failed(s, message)
         IN /\ IsStatus(r)
            /\ Says(r, "Reconciled", FALSE, message)
            /\ Says(r, "Ready", FALSE, <<"not reconciled", 0>>)
            /\ Has(r.conditions, "Warning") <=> hasWarning
            /\ SameBut({"Reconciled", "Ready", "Warning"}, s, r)
<1> DEFINE a == Set(s, "Reconciled", FALSE, message)
           b == AddWarnings(a)
           t == NotReconciled(b)
           r == Failed(s, message)
<1>1. r.conditions = t.conditions /\ DOMAIN r = DOMAIN t
  BY DEF Failed
<1>2. t = Set(b, "Ready", FALSE, <<"not reconciled", 0>>)
  BY DEF NotReconciled
<1>3. /\ {"Reconciled", "Ready"} \subseteq Types /\ FALSE \in BOOLEAN
      /\ <<"not reconciled", 0>> \in Messages
  BY MessagesThere DEF Types
<1>4. IsStatus(a) /\ Says(a, "Reconciled", FALSE, message) /\ SameBut({"Reconciled"}, s, a)
  <2> HIDE DEF b, t, r
  <2> QED
    BY <1>3, AfterSetStatus
<1> HIDE DEF a
<1>5. IsStatus(b) /\ SameBut({"Warning"}, a, b) /\ (Has(b.conditions, "Warning") <=> hasWarning)
  BY <1>4, AfterWarnings
<1> HIDE DEF b
<1>6. /\ IsStatus(t) /\ Says(t, "Ready", FALSE, <<"not reconciled", 0>>)
      /\ SameBut({"Ready"}, b, t)
  BY <1>2, <1>3, <1>5, AfterSetStatus
<1> HIDE DEF t
<1>7. Says(t, "Reconciled", FALSE, message)
  <2>1. Says(b, "Reconciled", FALSE, message)
    BY <1>4, <1>5 DEF Says, SameBut, Types
  <2> QED
    BY <2>1, <1>6 DEF Says, SameBut, Types
<1>8. Has(t.conditions, "Warning") <=> hasWarning
  BY <1>5, <1>6 DEF SameBut, Types
<1>9. SameBut({"Reconciled", "Ready", "Warning"}, s, t)
  BY <1>4, <1>5, <1>6 DEF SameBut
<1>10. IsStatus(r)
  BY <1>1, <1>6 DEF IsStatus
<1> HIDE DEF r
<1>11. /\ Says(r, "Reconciled", FALSE, message)
       /\ Says(r, "Ready", FALSE, <<"not reconciled", 0>>)
       /\ Has(r.conditions, "Warning") <=> hasWarning
  BY <1>1, <1>6, <1>7, <1>8 DEF Says
<1>12. SameBut({"Reconciled", "Ready", "Warning"}, s, r)
  BY <1>1, <1>9 DEF SameBut
<1> QED
  BY <1>10, <1>11, <1>12 DEF r

\* A reconcile that got through: Reconciled is True before the resources are looked
\* at, and the warnings are up to date.
Reconciled(s) == AddWarnings(Set(s, "Reconciled", TRUE, <<"", 0>>))

\* It says so.
LEMMA AfterReconciled ==
  ASSUME config \in Configs, hasWarning \in BOOLEAN, NEW s, IsStatus(s)
  PROVE  /\ IsStatus(Reconciled(s))
         /\ Says(Reconciled(s), "Reconciled", TRUE, <<"", 0>>)
         /\ Has(Reconciled(s).conditions, "Warning") <=> hasWarning
<1> DEFINE a == Set(s, "Reconciled", TRUE, <<"", 0>>)
           b == AddWarnings(a)
<1>1. "Reconciled" \in Types /\ TRUE \in BOOLEAN /\ <<"", 0>> \in Messages
  BY MessagesThere DEF Types
<1>2. IsStatus(a) /\ Says(a, "Reconciled", TRUE, <<"", 0>>)
  BY <1>1, AfterSetStatus
<1> HIDE DEF a
<1>3. IsStatus(b) /\ SameBut({"Warning"}, a, b) /\ (Has(b.conditions, "Warning") <=> hasWarning)
  BY <1>2, AfterWarnings
<1> HIDE DEF b
<1>4. Says(b, "Reconciled", TRUE, <<"", 0>>)
  BY <1>2, <1>3 DEF Says, SameBut, Types
<1> QED
  BY <1>3, <1>4 DEF Reconciled, a, b

\* Reconciled is True, or False for a lookup of the endpoint that failed.
ReconciledButLookup(s) ==
  /\ Has(s.conditions, "Reconciled")
  /\ \/ IsTrue(s.conditions, "Reconciled")
     \/ GetCondition(s.conditions, "Reconciled").message = <<"lookup", 0>>

\* ReportExternalEndpointStatus leaves a status as it was, or reports the failure.
LEMMA AfterEndpoint ==
  ASSUME config \in Configs, hasWarning \in BOOLEAN, NEW s, IsStatus(s),
         IsTrue(s.conditions, "Reconciled"),
         Has(s.conditions, "Warning") <=> hasWarning,
         NEW fails \in BOOLEAN
  PROVE  LET r == EndpointReported(s, fails)
         IN /\ IsStatus(r) /\ ReconciledButLookup(r)
            /\ Has(r.conditions, "Warning") <=> hasWarning
            /\ SameBut({"Reconciled", "Ready", "Warning"}, s, r)
<1>1. CASE fails
  <2>1. EndpointReported(s, fails) = Failed(s, <<"lookup", 0>>)
    BY <1>1 DEF EndpointReported
  <2>2. <<"lookup", 0>> \in Messages
    BY MessagesThere
  <2> DEFINE r == Failed(s, <<"lookup", 0>>)
  <2>3. /\ IsStatus(r) /\ Says(r, "Reconciled", FALSE, <<"lookup", 0>>)
        /\ Has(r.conditions, "Warning") <=> hasWarning
        /\ SameBut({"Reconciled", "Ready", "Warning"}, s, r)
    BY <2>2, AfterFailed
  <2> HIDE DEF r
  <2>4. ReconciledButLookup(r)
    BY <2>3 DEF Says, ReconciledButLookup
  <2> QED
    BY <2>1, <2>3, <2>4 DEF r
<1>2. CASE ~fails
  <2>1. EndpointReported(s, fails) = s
    BY <1>2 DEF EndpointReported
  <2> QED
    BY <2>1 DEF ReconciledButLookup, SameBut, IsTrue
<1> QED
  BY <1>1, <1>2

\* What a reconcile that gets through says: Ready says what ResourcesReady says,
\* which is whether the replicas are as many as are wanted.
Coherent(s) ==
  /\ IsStatus(s) /\ ReconciledButLookup(s)
  /\ Has(s.conditions, "Ready") /\ Has(s.conditions, "ResourcesReady")
  /\ Has(s.conditions, "Warning") <=> hasWarning
  /\ IsTrue(s.conditions, "Ready") <=> IsTrue(s.conditions, "ResourcesReady")
  /\ IsTrue(s.conditions, "ResourcesReady") <=> AsWanted(workload)
  /\ GetCondition(s.conditions, "Ready").message # <<"not reconciled", 0>>

\* CheckApplicationStatus leaves such a status, ...
LEMMA AfterChecked ==
  ASSUME config \in Configs, workload \in Workloads(config), hasWarning \in BOOLEAN,
         NEW s, IsStatus(s), IsTrue(s.conditions, "Reconciled"),
         Has(s.conditions, "Warning") <=> hasWarning,
         NEW fails \in BOOLEAN
  PROVE  Coherent(Checked(s, fails))
<1> DEFINE u == ResourcesChecked(s)
           t == EndpointReported(u, fails)
           r == Checked(s, fails)
<1>1. PICK b \in BOOLEAN, m \in Messages :
        /\ r = Set(t, "Ready", b, m)
        /\ b <=> IsTrue(t.conditions, "ResourcesReady")
        /\ m # <<"not reconciled", 0>>
  <2>1. /\ <<"ready", 0>> \in Messages /\ <<"resources not ready", 0>> \in Messages
        /\ <<"ready", 0>> # <<"not reconciled", 0>>
        /\ <<"resources not ready", 0>> # <<"not reconciled", 0>>
    BY MessagesThere
  <2>2. r = IF IsTrue(t.conditions, "ResourcesReady")
            THEN Set(t, "Ready", TRUE, <<"ready", 0>>)
            ELSE Set(t, "Ready", FALSE, <<"resources not ready", 0>>)
    BY DEF Checked
  <2> HIDE DEF t, r
  <2>3. CASE IsTrue(t.conditions, "ResourcesReady")
    BY <2>1, <2>2, <2>3
  <2>4. CASE ~IsTrue(t.conditions, "ResourcesReady")
    BY <2>1, <2>2, <2>4
  <2> QED
    BY <2>3, <2>4
<1> HIDE DEF r
<1>2. /\ IsStatus(u) /\ SameBut({"ResourcesReady"}, s, u)
      /\ Has(u.conditions, "ResourcesReady")
      /\ IsTrue(u.conditions, "ResourcesReady") <=> AsWanted(workload)
  <2> HIDE DEF t
  <2> QED
    BY AfterResourcesChecked
<1> HIDE DEF u
<1>3. IsTrue(u.conditions, "Reconciled") /\ (Has(u.conditions, "Warning") <=> hasWarning)
  BY <1>2 DEF SameBut, IsTrue, Types
<1>4. /\ IsStatus(t) /\ ReconciledButLookup(t)
      /\ Has(t.conditions, "Warning") <=> hasWarning
      /\ SameBut({"Reconciled", "Ready", "Warning"}, u, t)
  BY <1>2, <1>3, AfterEndpoint
<1> HIDE DEF t
<1>5. /\ Has(t.conditions, "ResourcesReady")
      /\ IsTrue(t.conditions, "ResourcesReady") <=> AsWanted(workload)
  BY <1>2, <1>4 DEF SameBut, IsTrue, Types
<1>6. "Ready" \in Types
  BY DEF Types
<1>7. IsStatus(r) /\ Says(r, "Ready", b, m) /\ SameBut({"Ready"}, t, r)
  BY <1>1, <1>4, <1>6, AfterSetStatus
<1>8. ReconciledButLookup(r)
  BY <1>4, <1>7 DEF SameBut, Types, ReconciledButLookup, IsTrue
<1>9. Has(r.conditions, "Warning") <=> hasWarning
  BY <1>4, <1>7 DEF SameBut, Types
<1>10. /\ Has(r.conditions, "ResourcesReady")
       /\ IsTrue(r.conditions, "ResourcesReady") <=> AsWanted(workload)
       /\ IsTrue(r.conditions, "ResourcesReady") <=> IsTrue(t.conditions, "ResourcesReady")
  BY <1>5, <1>7 DEF SameBut, IsTrue, Types
<1>11. /\ Has(r.conditions, "Ready") /\ (IsTrue(r.conditions, "Ready") <=> b)
       /\ GetCondition(r.conditions, "Ready").message # <<"not reconciled", 0>>
  BY <1>1, <1>7 DEF Says, IsTrue
<1>12. IsTrue(r.conditions, "Ready") <=> IsTrue(r.conditions, "ResourcesReady")
  BY <1>1, <1>10, <1>11
<1> QED
  BY <1>7, <1>8, <1>9, <1>10, <1>11, <1>12 DEF Coherent, r

\* ... and so does ManageSuccess.
LEMMA AfterSucceeded ==
  ASSUME config \in Configs, workload \in Workloads(config), hasWarning \in BOOLEAN,
         NEW s, IsStatus(s), NEW fails \in BOOLEAN
  PROVE  Coherent(Succeeded(s, fails))
<1> DEFINE a == Reconciled(s)
           t == Checked(a, fails)
           r == Succeeded(s, fails)
<1>1. r.conditions = t.conditions /\ DOMAIN r = DOMAIN t
  BY DEF Succeeded, Reconciled
<1>2. /\ IsStatus(a) /\ IsTrue(a.conditions, "Reconciled")
      /\ Has(a.conditions, "Warning") <=> hasWarning
  BY AfterReconciled DEF Says, IsTrue
<1> HIDE DEF a
<1>3. Coherent(t)
  BY <1>2, AfterChecked
<1> HIDE DEF t, r
<1> QED
  BY <1>1, <1>3 DEF Coherent, IsStatus, ReconciledButLookup, r

\* The status ManageError stores when the lookup of the endpoint fails.
Nested(s) == Failed(ResourcesChecked(Reconciled(s)), <<"lookup", 0>>)

\* It says that the application is not ready.
LEMMA AfterNested ==
  ASSUME config \in Configs, workload \in Workloads(config), hasWarning \in BOOLEAN,
         NEW s, IsStatus(s)
  PROVE  LET r == Nested(s)
         IN /\ IsStatus(r)
            /\ Has(r.conditions, "Reconciled") /\ Has(r.conditions, "ResourcesReady")
            /\ Says(r, "Ready", FALSE, <<"not reconciled", 0>>)
            /\ Has(r.conditions, "Warning") <=> hasWarning
            /\ IsTrue(r.conditions, "ResourcesReady") <=> AsWanted(workload)
<1> DEFINE a == Reconciled(s)
           u == ResourcesChecked(a)
           r == Failed(u, <<"lookup", 0>>)
<1>1. IsStatus(a)
  BY AfterReconciled
<1> HIDE DEF a
<1>2. /\ IsStatus(u) /\ Has(u.conditions, "ResourcesReady")
      /\ IsTrue(u.conditions, "ResourcesReady") <=> AsWanted(workload)
  BY <1>1, AfterResourcesChecked
<1> HIDE DEF u
<1>3. <<"lookup", 0>> \in Messages
  BY MessagesThere
<1>4. /\ IsStatus(r) /\ Says(r, "Reconciled", FALSE, <<"lookup", 0>>)
      /\ Says(r, "Ready", FALSE, <<"not reconciled", 0>>)
      /\ Has(r.conditions, "Warning") <=> hasWarning
      /\ SameBut({"Reconciled", "Ready", "Warning"}, u, r)
  BY <1>2, <1>3, AfterFailed
<1> HIDE DEF r
<1>5. /\ Has(r.conditions, "Reconciled") /\ Has(r.conditions, "ResourcesReady")
      /\ IsTrue(r.conditions, "ResourcesReady") <=> AsWanted(workload)
  BY <1>2, <1>4 DEF Says, SameBut, Types, IsTrue
<1> QED
  BY <1>4, <1>5 DEF Nested, r, u, a

-----------------------------------------------------------------------------
\* The steps: what a reconcile that fails may leave stored, ...
LEMMA FailStores ==
  ASSUME ConditionsOK, NEW e \in Errors, Fail(e), conditions' # conditions
  PROVE  /\ conditions' \in Listed(Condition)
         /\ Has(conditions', "Reconciled")
         /\ Has(conditions', "Ready") /\ ~IsTrue(conditions', "Ready")
         /\ Has(conditions', "Warning") <=> hasWarning
         /\ Has(conditions', "ResourcesReady") <=> Has(conditions, "ResourcesReady")
<1> DEFINE r == Failed(Held, e)
<1>1. conditions' = r.conditions
  BY DEF Fail, Store
<1>2. IsStatus(Held) /\ Held.conditions = conditions
  BY DEF Held, IsStatus, ConditionsOK
<1>3. e \in Messages
  BY MessagesThere
<1>4. /\ IsStatus(r) /\ Says(r, "Reconciled", FALSE, e)
      /\ Says(r, "Ready", FALSE, <<"not reconciled", 0>>)
      /\ Has(r.conditions, "Warning") <=> hasWarning
      /\ SameBut({"Reconciled", "Ready", "Warning"}, Held, r)
  BY <1>2, <1>3, AfterFailed DEF ConditionsOK
<1> HIDE DEF r
<1>5. Has(r.conditions, "ResourcesReady") <=> Has(conditions, "ResourcesReady")
  BY <1>2, <1>4 DEF SameBut, Types
<1> QED
  BY <1>1, <1>4, <1>5 DEF IsStatus, Says, IsTrue

\* ... what one that gets through may, ...
LEMMA SucceedStores ==
  ASSUME ConditionsOK, NEW f \in BOOLEAN, Succeed(f), conditions' # conditions
  PROVE  \E r : /\ conditions' = r.conditions /\ IsStatus(r)
                /\ \A t \in Types \ {"Warning"} : Has(conditions', t)
                /\ Has(conditions', "Warning") <=> hasWarning
                /\ IsTrue(conditions', "ResourcesReady") <=> AsWanted(workload)
                /\ \/ Coherent(r)
                   \/ f /\ ~IsTrue(conditions', "Ready")
<1>1. IsStatus(Held)
  BY DEF Held, IsStatus, ConditionsOK
<1>2. CASE conditions' = Succeeded(Held, f).conditions
  <2> DEFINE r == Succeeded(Held, f)
  <2>1. Coherent(r)
    BY <1>1, AfterSucceeded DEF ConditionsOK
  <2>2. conditions' = r.conditions
    BY <1>2
  <2> HIDE DEF r
  <2>3. /\ IsStatus(r) /\ (Has(conditions', "Warning") <=> hasWarning)
        /\ Has(conditions', "Ready") /\ Has(conditions', "ResourcesReady")
        /\ Has(conditions', "Reconciled")
        /\ IsTrue(conditions', "ResourcesReady") <=> AsWanted(workload)
    BY <2>1, <2>2 DEF Coherent, ReconciledButLookup
  <2>4. \A t \in Types \ {"Warning"} : Has(conditions', t)
    BY <2>3 DEF Types
  <2> QED
    BY <2>1, <2>2, <2>3, <2>4
<1>3. CASE f /\ conditions' = Nested(Held).conditions
  <2> DEFINE r == Nested(Held)
  <2>1. /\ IsStatus(r)
        /\ Has(r.conditions, "Reconciled") /\ Has(r.conditions, "ResourcesReady")
        /\ Says(r, "Ready", FALSE, <<"not reconciled", 0>>)
        /\ Has(r.conditions, "Warning") <=> hasWarning
        /\ IsTrue(r.conditions, "ResourcesReady") <=> AsWanted(workload)
    BY <1>1, AfterNested DEF ConditionsOK
  <2>2. conditions' = r.conditions
    BY <1>3
  <2> HIDE DEF r
  <2>3. /\ Has(conditions', "Warning") <=> hasWarning
        /\ Has(conditions', "Ready") /\ Has(conditions', "ResourcesReady")
        /\ Has(conditions', "Reconciled") /\ ~IsTrue(conditions', "Ready")
        /\ IsTrue(conditions', "ResourcesReady") <=> AsWanted(workload)
    BY <2>1, <2>2 DEF Says, IsTrue
  <2>4. \A t \in Types \ {"Warning"} : Has(conditions', t)
    BY <2>3 DEF Types
  <2> QED
    BY <1>3, <2>1, <2>2, <2>3, <2>4
<1> QED
  BY <1>2, <1>3 DEF Succeed, Store, Nested, Reconciled

\* ... and that time changes nothing but ages.
LEMMA ElapseKeeps ==
  ASSUME ConditionsOK, Elapse
  PROVE  /\ conditions' \in Listed(Condition)
         /\ \A t : /\ Has(conditions', t) <=> Has(conditions, t)
                   /\ Has(conditions, t) =>
                        /\ GetCondition(conditions', t).isTrue = GetCondition(conditions, t).isTrue
                        /\ GetCondition(conditions', t).message = GetCondition(conditions, t).message
<1> DEFINE cs == conditions
           r == conditions'
<1>1. cs \in Seq(Condition) /\ DOMAIN cs = 1 .. Len(cs) /\ Len(cs) \in Nat /\ InOrder(cs)
  BY ElementsOf DEF ConditionsOK
<1>2. r = [i \in DOMAIN cs |-> [cs[i] EXCEPT !.age = AtMost(@ + 1, MaxAge(config))]]
  BY DEF Elapse
<1>3. Conditions(Condition) /\ cs \in Listed(Condition)
  BY ConditionSet DEF ConditionsOK
<1> HIDE DEF cs, r
<1>4. ASSUME NEW i \in DOMAIN cs
      PROVE  /\ r[i] \in Condition /\ r[i].type = cs[i].type
             /\ r[i].isTrue = cs[i].isTrue /\ r[i].message = cs[i].message
  <2>1. MaxAge(config) \in Nat
    BY StatusAssumption DEF ConditionsOK
  <2>2. cs[i] \in Condition
    BY <1>1
  <2>3. AtMost(cs[i].age + 1, MaxAge(config)) \in 0 .. MaxAge(config)
    BY <2>1, <2>2 DEF Condition, AtMost
  <2>4. r[i] = [cs[i] EXCEPT !.age = AtMost(cs[i].age + 1, MaxAge(config))]
    BY <1>2
  <2> QED
    BY <2>2, <2>3, <2>4 DEF Condition
<1>5. DOMAIN r = 1 .. Len(cs)
  BY <1>1, <1>2
<1>6. r \in Seq(Condition)
  BY <1>1, <1>2, <1>4, <1>5
<1>7. InOrder(r)
  BY <1>1, <1>4, <1>5 DEF InOrder, Before
<1>8. r \in Listed(Condition)
  BY <1>6, <1>7 DEF Listed
<1>9. ASSUME NEW t
      PROVE  /\ Has(r, t) <=> Has(cs, t)
             /\ Has(cs, t) => /\ GetCondition(r, t).isTrue = GetCondition(cs, t).isTrue
                              /\ GetCondition(r, t).message = GetCondition(cs, t).message
  <2>1. Has(r, t) <=> Has(cs, t)
    BY <1>1, <1>4, <1>5 DEF Has
  <2>2. ASSUME Has(cs, t)
        PROVE  /\ GetCondition(r, t).isTrue = GetCondition(cs, t).isTrue
               /\ GetCondition(r, t).message = GetCondition(cs, t).message
    <3>1. PICK i \in DOMAIN cs : cs[i].type = t
      BY <2>2 DEF Has
    <3>2. GetCondition(cs, t) = cs[i]
      BY <1>3, <3>1, TheCondition
    <3>3. i \in DOMAIN r /\ r[i].type = t
      BY <1>1, <1>4, <1>5, <3>1
    <3>4. GetCondition(r, t) = r[i]
      BY <1>3, <1>8, <3>3, TheCondition
    <3> QED
      BY <1>4, <3>1, <3>2, <3>4
  <2> QED
    BY <2>1, <2>2
<1> QED
  BY <1>8, <1>9 DEF cs, r

\* A step of a reconcile is one of these.
LEMMA SucceedsOrFails ==
  ASSUME ConditionsOK, Next
  PROVE  \/ \E e \in Errors : Fail(e)
         \/ \E f \in BOOLEAN : Succeed(f)
         \/ Elapse
         \/ WorkloadChanges
         \/ WarningChanges
<1>1. LookupsFail(config) \in BOOLEAN /\ HasEndpoint \in BOOLEAN
  BY StatusAssumption DEF ConditionsOK, HasEndpoint
<1>2. {FALSE, LookupsFail(config) /\ HasEndpoint} \subseteq BOOLEAN
  BY <1>1
<1> QED
  BY <1>2 DEF Next

\* The conditions in order, one of each type: inductive by itself, as SetCondition
\* and UnsetCondition are right about such lists.
LEMMA ConditionsOKInit == Init => ConditionsOK
<1> SUFFICES ASSUME Init PROVE ConditionsOK
  OBVIOUS
<1>1. hasWarning \in BOOLEAN
  BY StatusAssumption DEF Init
<1>2. << >> \in Seq(Condition) /\ InOrder(<< >>)
  BY DEF InOrder
<1> QED
  BY <1>1, <1>2 DEF Init, ConditionsOK, Listed

\* Every step keeps them so, ...
LEMMA ConditionsOKNext == ConditionsOK /\ [Next]_vars => ConditionsOK'
<1> SUFFICES ASSUME ConditionsOK, [Next]_vars PROVE ConditionsOK'
  OBVIOUS
<1>1. config' = config => Condition' = Condition
  BY DEF Condition
<1>2. ASSUME NEW e \in Errors, Fail(e) PROVE ConditionsOK'
  <2>1. UNCHANGED <<config, workload, hasWarning>>
    BY <1>2 DEF Fail
  <2>2. conditions' \in Listed(Condition)
    BY <1>2, FailStores DEF ConditionsOK
  <2> QED
    BY <1>1, <2>1, <2>2 DEF ConditionsOK, Listed
<1>3. ASSUME NEW f \in BOOLEAN, Succeed(f) PROVE ConditionsOK'
  <2>1. UNCHANGED <<config, workload, hasWarning>>
    BY <1>3 DEF Succeed
  <2>2. conditions' \in Listed(Condition)
    BY <1>3, SucceedStores DEF ConditionsOK, IsStatus
  <2> QED
    BY <1>1, <2>1, <2>2 DEF ConditionsOK, Listed
<1>4. CASE Elapse
  <2>1. UNCHANGED <<config, workload, hasWarning>>
    BY <1>4 DEF Elapse
  <2>2. conditions' \in Listed(Condition)
    BY <1>4, ElapseKeeps
  <2> QED
    BY <1>1, <2>1, <2>2 DEF ConditionsOK, Listed
<1>5. CASE WorkloadChanges
  BY <1>1, <1>5 DEF WorkloadChanges, ConditionsOK, Listed
<1>6. CASE WarningChanges
  <2>1. hasWarning' \in BOOLEAN
    BY <1>6, StatusAssumption DEF WarningChanges, ConditionsOK
  <2> QED
    BY <1>1, <1>6, <2>1 DEF WarningChanges, ConditionsOK, Listed
<1>7. CASE UNCHANGED vars
  BY <1>1, <1>7 DEF vars, ConditionsOK, Listed
<1> QED
  BY <1>2, <1>3, <1>4, <1>5, <1>6, <1>7, SucceedsOrFails

\* ... and so they always are.
LEMMA ConditionsAlwaysOK == Spec => []ConditionsOK
BY ConditionsOKInit, ConditionsOKNext, PTL DEF Spec

\* No condition but Warning is ever dropped from the status.
THEOREM ConditionsAreKept == Spec => ConditionsKept
<1> DEFINE Kept == \A type \in Types \ {"Warning"} : Has(conditions, type) => Has(conditions', type)
<1>1. ConditionsOK /\ [Next]_vars => [Kept]_vars
  <2> SUFFICES ASSUME ConditionsOK, Next, NEW type \in Types \ {"Warning"},
                      Has(conditions, type)
               PROVE  Has(conditions', type)
    OBVIOUS
  <2>1. CASE conditions' = conditions
    BY <2>1
  <2>2. ASSUME conditions' # conditions, NEW e \in Errors, Fail(e) PROVE Has(conditions', type)
    <3>1. /\ Has(conditions', "Reconciled") /\ Has(conditions', "Ready")
          /\ Has(conditions', "ResourcesReady") <=> Has(conditions, "ResourcesReady")
      BY <2>2, FailStores
    <3> QED
      BY <3>1 DEF Types
  <2>3. ASSUME conditions' # conditions, NEW f \in BOOLEAN, Succeed(f)
        PROVE  Has(conditions', type)
    BY <2>3, SucceedStores
  <2>4. CASE Elapse
    BY <2>4, ElapseKeeps
  <2>5. CASE WorkloadChanges \/ WarningChanges
    BY <2>1, <2>5 DEF WorkloadChanges, WarningChanges
  <2> QED
    BY <2>1, <2>2, <2>3, <2>4, <2>5, SucceedsOrFails
<1> QED
  BY <1>1, ConditionsAlwaysOK, PTL DEF Spec, ConditionsKept

\* What a reconcile stores lists a warning exactly while one applies.
THEOREM WarningsUpToDate == Spec => WarningUpToDate
<1> DEFINE UpToDate == Reconciles /\ Content(conditions') # Content(conditions)
                       => (Has(conditions', "Warning") <=> hasWarning)
<1>1. ConditionsOK /\ [Next]_vars => [UpToDate]_vars
  <2> SUFFICES ASSUME ConditionsOK, Next, Reconciles,
                      Content(conditions') # Content(conditions)
               PROVE  Has(conditions', "Warning") <=> hasWarning
    OBVIOUS
  <2>1. conditions' # conditions
    OBVIOUS
  <2>2. ASSUME NEW e \in Errors, Fail(e) PROVE Has(conditions', "Warning") <=> hasWarning
    BY <2>1, <2>2, FailStores
  <2>3. ASSUME NEW f \in BOOLEAN, Succeed(f) PROVE Has(conditions', "Warning") <=> hasWarning
    BY <2>1, <2>3, SucceedStores
  <2> QED
    BY <2>2, <2>3 DEF Reconciles
<1> QED
  BY <1>1, ConditionsAlwaysOK, PTL DEF Spec, WarningUpToDate

\* After a reconcile that got through, ResourcesReady is True exactly when the
\* replicas that count, and those there are, are as many as are wanted.
THEOREM ReplicasCounted == Spec => ReadyReplicasCount
<1> DEFINE Counted == \A f \in BOOLEAN :
                        Succeed(f) /\ conditions' # conditions =>
                          (IsTrue(conditions', "ResourcesReady") <=>
                             /\ workload.exists
                             /\ AtMost(workload.ready, workload.updated)
                                  \in workload.min .. workload.max
                             /\ workload.replicas \in workload.min .. workload.max)
<1>1. ConditionsOK /\ [Next]_vars => [Counted]_vars
  <2> SUFFICES ASSUME ConditionsOK, NEW f \in BOOLEAN, Succeed(f), conditions' # conditions
               PROVE  IsTrue(conditions', "ResourcesReady") <=> AsWanted(workload)
    BY DEF AsWanted
  <2> QED
    BY SucceedStores
<1> QED
  BY <1>1, ConditionsAlwaysOK, PTL DEF Spec, ReadyReplicasCount

\* Ready is True only when the resources are ready, and the application is
\* reconciled but for a lookup of its endpoint that failed.
THEOREM ReadyIsReconciled == Spec => []ReadyMeansReconciled
<1>1. Init => ReadyMeansReconciled
  BY DEF Init, ReadyMeansReconciled, IsTrue, Has
<1>2. ConditionsOK /\ ReadyMeansReconciled /\ [Next]_vars => ReadyMeansReconciled'
  <2> SUFFICES ASSUME ConditionsOK, ReadyMeansReconciled, [Next]_vars,
                      IsTrue(conditions', "Ready")
               PROVE  /\ IsTrue(conditions', "ResourcesReady")
                      /\ Has(conditions', "Reconciled")
                      /\ \/ IsTrue(conditions', "Reconciled")
                         \/ GetCondition(conditions', "Reconciled").message = <<"lookup", 0>>
    BY DEF ReadyMeansReconciled
  <2> DEFINE Goal == /\ IsTrue(conditions', "ResourcesReady")
                     /\ Has(conditions', "Reconciled")
                     /\ \/ IsTrue(conditions', "Reconciled")
                        \/ GetCondition(conditions', "Reconciled").message = <<"lookup", 0>>
  <2>1. CASE conditions' = conditions
    BY <2>1 DEF ReadyMeansReconciled
  <2>2. ASSUME conditions' # conditions, NEW e \in Errors, Fail(e) PROVE Goal
    BY <2>2, FailStores
  <2>3. ASSUME conditions' # conditions, NEW f \in BOOLEAN, Succeed(f) PROVE Goal
    <3>1. PICK r : conditions' = r.conditions /\ Coherent(r)
      BY <2>3, SucceedStores
    <3> QED
      BY <3>1 DEF Coherent, ReconciledButLookup
  <2>4. CASE Elapse
    <3>1. IsTrue(conditions, "Ready")
      BY <2>4, ElapseKeeps DEF IsTrue
    <3>2. /\ IsTrue(conditions, "ResourcesReady")
          /\ Has(conditions, "Reconciled")
          /\ \/ IsTrue(conditions, "Reconciled")
             \/ GetCondition(conditions, "Reconciled").message = <<"lookup", 0>>
      BY <3>1 DEF ReadyMeansReconciled
    <3> QED
      BY <2>4, <3>2, ElapseKeeps DEF IsTrue
  <2>5. CASE WorkloadChanges \/ WarningChanges \/ UNCHANGED vars
    BY <2>1, <2>5 DEF WorkloadChanges, WarningChanges, vars
  <2> QED
    BY <2>1, <2>2, <2>3, <2>4, <2>5, SucceedsOrFails
<1> QED
  BY <1>1, <1>2, ConditionsAlwaysOK, PTL DEF Spec
-----------------------------------------------------------------------------
(***************************************************************************)
(* Intervals.  Power and Exponent are recursive functions: that they are   *)
(* what their definitions say is proved first, by descent.                 *)
(***************************************************************************)
\* A set of numbers that holds the next of each, and zero, holds all of them; ...
LEMMA AllNumbers ==
  ASSUME NEW S, 0 \in S, \A n \in Nat : n \in S => n + 1 \in S
  PROVE  Nat \subseteq S
<1> SUFFICES ASSUME Nat \ S # {} PROVE FALSE
  OBVIOUS
<1>1. PICK m \in Nat \ S : \A n \in Nat \ S : m <= n
  BY LeastElement
<1>2. m - 1 \in Nat /\ m - 1 \in S
  BY <1>1
<1> QED
  BY <1>1, <1>2

\* ... and so does one that holds each number below which it holds all.
LEMMA AllNumbersAbove ==
  ASSUME NEW S, \A n \in Nat : (\A m \in Nat : m < n => m \in S) => n \in S
  PROVE  Nat \subseteq S
<1> SUFFICES ASSUME Nat \ S # {} PROVE FALSE
  OBVIOUS
<1>1. PICK m \in Nat \ S : \A n \in Nat \ S : m <= n
  BY LeastElement
<1>2. \A n \in Nat : n < m => n \in S
  BY <1>1
<1> QED
  BY <1>1, <1>2

\* The recursive function of the powers of b is what it is declared to be.
LEMMA PowerStep ==
  ASSUME NEW b \in Nat
  PROVE  Power(b)[0] = 1 /\ \A n \in Nat : Power(b)[n + 1] = b * Power(b)[n]
<1> DEFINE IsPower(g, n) == /\ g \in [0 .. n -> Nat] /\ g[0] = 1
                            /\ \A i \in 1 .. n : g[i] = b * g[i - 1]
           Defined == {n \in Nat : \E g : IsPower(g, n)}
           G == [n \in Nat |-> CHOOSE g : IsPower(g, n)]
           f == [n \in Nat |-> G[n][n]]
<1>1. Nat \subseteq Defined
  <2>1. 0 \in Defined
    <3>1. IsPower([i \in 0 .. 0 |-> 1], 0)
      OBVIOUS
    <3> QED
      BY <3>1
  <2>2. ASSUME NEW n \in Nat, n \in Defined PROVE n + 1 \in Defined
    <3>1. PICK g : IsPower(g, n)
      BY <2>2
    <3> DEFINE h == [i \in 0 .. n + 1 |-> IF i = n + 1 THEN b * g[n] ELSE g[i]]
    <3>2. h \in [0 .. n + 1 -> Nat]
      <4>1. g[n] \in Nat /\ b * g[n] \in Nat
        BY <3>1
      <4> QED
        BY <3>1, <4>1
    <3>3. h[0] = 1
      BY <3>1
    <3>4. ASSUME NEW i \in 1 .. n + 1 PROVE h[i] = b * h[i - 1]
      <4>1. CASE i = n + 1
        BY <4>1
      <4>2. CASE i # n + 1
        BY <3>1, <4>2
      <4> QED
        BY <4>1, <4>2
    <3> HIDE DEF h
    <3>5. IsPower(h, n + 1)
      BY <3>2, <3>3, <3>4
    <3> QED
      BY <3>5
  <2> HIDE DEF Defined
  <2> QED
    BY <2>1, <2>2, AllNumbers
<1>2. \A n \in Nat : IsPower(G[n], n)
  BY <1>1
<1> HIDE DEF G
<1>3. ASSUME NEW n \in Nat PROVE G[n + 1][n] = G[n][n]
  <2> DEFINE Same == {i \in Nat : i <= n => G[n + 1][i] = G[n][i]}
  <2>1. 0 \in Same
    <3>1. n + 1 \in Nat
      OBVIOUS
    <3> QED
      BY <1>2, <3>1
  <2>2. ASSUME NEW i \in Nat, i \in Same PROVE i + 1 \in Same
    <3> SUFFICES ASSUME i + 1 <= n PROVE G[n + 1][i + 1] = G[n][i + 1]
      OBVIOUS
    <3>1. G[n + 1][i] = G[n][i]
      BY <2>2
    <3>2. i + 1 \in 1 .. n /\ i + 1 \in 1 .. n + 1 /\ (i + 1) - 1 = i /\ n + 1 \in Nat
      OBVIOUS
    <3>3. G[n + 1][i + 1] = b * G[n + 1][i]
      BY <1>2, <3>2
    <3>4. G[n][i + 1] = b * G[n][i]
      BY <1>2, <3>2
    <3> QED
      BY <3>1, <3>3, <3>4
  <2>3. Nat \subseteq Same
    <3> HIDE DEF Same
    <3> QED
      BY <2>1, <2>2, AllNumbers
  <2> QED
    BY <2>3
<1>4. f[0] = 1
  BY <1>2
<1>5. ASSUME NEW n \in Nat PROVE f[n + 1] = b * f[n]
  <2>1. n + 1 \in Nat /\ n + 1 \in 1 .. n + 1 /\ (n + 1) - 1 = n
    OBVIOUS
  <2>2. G[n + 1][n + 1] = b * G[n + 1][n]
    BY <1>2, <2>1
  <2> QED
    BY <1>3, <2>1, <2>2
<1>6. f = [n \in Nat |-> IF n = 0 THEN 1 ELSE b * f[n - 1]]
  <2> SUFFICES ASSUME NEW n \in Nat PROVE f[n] = IF n = 0 THEN 1 ELSE b * f[n - 1]
    OBVIOUS
  <2>1. CASE n = 0
    BY <1>4, <2>1
  <2>2. CASE n # 0
    <3>1. n - 1 \in Nat /\ (n - 1) + 1 = n
      BY <2>2
    <3> HIDE DEF f
    <3>2. f[(n - 1) + 1] = b * f[n - 1]
      BY <1>5, <3>1
    <3> QED
      BY <2>2, <3>1, <3>2
  <2> QED
    BY <2>1, <2>2
<1> HIDE DEF f
<1>7. Power(b) = [n \in Nat |-> IF n = 0 THEN 1 ELSE b * Power(b)[n - 1]]
  <2>1. Power(b) = CHOOSE g : g = [n \in Nat |-> IF n = 0 THEN 1 ELSE b * g[n - 1]]
    BY DEF Power
  <2> QED
    BY <1>6, <2>1
<1>8. ASSUME NEW n \in Nat PROVE Power(b)[n] = IF n = 0 THEN 1 ELSE b * Power(b)[n - 1]
  BY <1>7
<1> HIDE DEF Power
<1>9. ASSUME NEW n \in Nat PROVE Power(b)[n + 1] = b * Power(b)[n]
  <2>1. n + 1 \in Nat /\ n + 1 # 0 /\ (n + 1) - 1 = n
    OBVIOUS
  <2> QED
    BY <1>8, <2>1
<1> QED
  BY <1>8, <1>9

\* The powers of a positive number are positive.
LEMMA PowerPositive ==
  ASSUME NEW b \in Nat \ {0}, NEW n \in Nat
  PROVE  Power(b)[n] \in Nat \ {0}
<1> DEFINE Positive == {i \in Nat : Power(b)[i] \in Nat \ {0}}
<1>1. 0 \in Positive
  BY PowerStep
<1>2. ASSUME NEW i \in Nat, i \in Positive PROVE i + 1 \in Positive
  <2>1. Power(b)[i + 1] = b * Power(b)[i]
    BY PowerStep
  <2> DEFINE p == Power(b)[i]
  <2>2. p \in Nat \ {0}
    BY <1>2
  <2> HIDE DEF p
  <2>3. b * p \in Nat \ {0}
    BY <2>2
  <2> QED
    BY <2>1, <2>3 DEF p
<1> HIDE DEF Positive
<1>3. Nat \subseteq Positive
  BY <1>1, <1>2, AllNumbers
<1> QED
  BY <1>3 DEF Positive
\* A function that counts the steps down to a set, on the numbers up to n ...
Counts(f, n, Stop, down) ==
  /\ f \in [0 .. n -> Nat]
  /\ \A x \in 0 .. n : f[x] = IF x \in Stop THEN 0 ELSE 1 + f[down[x]]

\* ... is there, as steps that go down come to an end.
LEMMA CountDown ==
  ASSUME NEW M \in Nat, NEW Stop, NEW down,
         \A x \in 0 .. M : x \notin Stop => down[x] \in 0 .. M /\ down[x] < x
  PROVE  \E f : Counts(f, M, Stop, down)
<1> DEFINE Defined == {n \in Nat : n <= M => \E f : Counts(f, n, Stop, down)}
<1>1. 0 \in Defined
  <2>1. 0 \in Stop
    OBVIOUS
  <2>2. Counts([x \in 0 .. 0 |-> 0], 0, Stop, down)
    BY <2>1 DEF Counts
  <2> QED
    BY <2>2
<1>2. ASSUME NEW n \in Nat, n \in Defined PROVE n + 1 \in Defined
  <2> SUFFICES ASSUME n + 1 <= M PROVE \E f : Counts(f, n + 1, Stop, down)
    OBVIOUS
  <2>1. PICK f : Counts(f, n, Stop, down)
    BY <1>2
  <2> DEFINE last == IF n + 1 \in Stop THEN 0 ELSE 1 + f[down[n + 1]]
             g == [x \in 0 .. n + 1 |-> IF x = n + 1 THEN last ELSE f[x]]
  <2>2. n + 1 \notin Stop => down[n + 1] \in 0 .. n
    OBVIOUS
  <2>3. last \in Nat
    BY <2>1, <2>2 DEF Counts
  <2>4. g \in [0 .. n + 1 -> Nat]
    <3> HIDE DEF last
    <3> QED
      BY <2>1, <2>3 DEF Counts
  <2>5. ASSUME NEW x \in 0 .. n + 1
        PROVE  g[x] = IF x \in Stop THEN 0 ELSE 1 + g[down[x]]
    <3>1. CASE x = n + 1
      <4>1. n + 1 \notin Stop => g[down[n + 1]] = f[down[n + 1]]
        BY <2>2
      <4> QED
        BY <3>1, <4>1
    <3>2. CASE x # n + 1
      <4>1. x \in 0 .. n /\ g[x] = f[x]
        BY <3>2
      <4>2. x \notin Stop => down[x] \in 0 .. n
        BY <4>1
      <4>3. x \notin Stop => g[down[x]] = f[down[x]]
        BY <4>2
      <4> HIDE DEF g
      <4> QED
        BY <2>1, <4>1, <4>3 DEF Counts
    <3> QED
      BY <3>1, <3>2
  <2> HIDE DEF g
  <2>6. Counts(g, n + 1, Stop, down)
    BY <2>4, <2>5 DEF Counts
  <2> QED
    BY <2>6
<1> HIDE DEF Defined
<1>3. M \in Defined
  BY <1>1, <1>2, AllNumbers
<1> QED
  BY <1>3 DEF Defined

\* The values of a configuration are numbers, none of them zero.
LEMMA ConfigNumbers ==
  ASSUME NEW c \in Configs
  PROVE  /\ c.min \in Nat \ {0} /\ c.failureMax \in Nat \ {0} /\ c.successMax \in Nat \ {0}
         /\ c.num \in Nat \ {0} /\ c.den \in Nat \ {0} /\ c.num >= c.den
         /\ c.show \in BOOLEAN /\ MaxAge(c) \in Nat
BY StatusAssumption

\* Dividing: the quotient, rounded down.
LEMMA Quotient ==
  ASSUME NEW a \in Nat, NEW b \in Nat \ {0}
  PROVE  /\ a \div b \in Nat /\ (a \div b) * b <= a
         /\ \A q \in Nat : q * b <= a => q <= a \div b
OBVIOUS

\* Multiplying keeps the order.
LEMMA Product ==
  ASSUME NEW a \in Nat, NEW b \in Nat, NEW c \in Nat
  PROVE  /\ a * b \in Nat /\ a * b = b * a /\ (a * b) * c = a * (b * c)
         /\ a <= b => a * c <= b * c
         /\ c # 0 /\ a * c <= b * c => a <= b
OBVIOUS

\* Dividing by more than one is a step down, and keeps the order.
LEMMA Division ==
  ASSUME NEW c \in Configs, c.num > c.den, NEW x \in Nat
  PROVE  LET y == (x * c.den) \div c.num
         IN /\ y \in Nat /\ y * c.num <= x * c.den
            /\ x # 0 => y < x
            /\ \A z \in Nat : x <= z => y <= (z * c.den) \div c.num
<1> DEFINE n == c.num
           d == c.den
           y == (x * d) \div n
<1>1. n \in Nat \ {0} /\ d \in Nat \ {0} /\ d < n
  BY ConfigNumbers
<1> HIDE DEF n, d
<1>2. y \in Nat /\ y * n <= x * d
  BY <1>1
<1>3. ASSUME x # 0 PROVE y < x
  <2>1. x * d < x * n
    BY <1>1, <1>3
  <2>2. y * n < x * n
    BY <1>1, <1>2, <2>1
  <2> QED
    BY <1>1, <1>2, <2>2
<1>4. ASSUME NEW z \in Nat, x <= z PROVE y <= (z * d) \div n
  <2>1. x * d <= z * d
    BY <1>1, <1>4
  <2>2. y * n <= z * d /\ z * d \in Nat
    BY <1>1, <1>2, <2>1
  <2> HIDE DEF y
  <2> QED
    BY <1>1, <1>2, <2>2, Quotient
<1> QED
  BY <1>2, <1>3, <1>4 DEF n, d

\* The loop of updateReconcileInterval comes to an end.
LEMMA ExponentStep ==
  ASSUME NEW c \in Configs, c.num > c.den, NEW x \in 0 .. MaxAge(c)
  PROVE  /\ Exponent(c)[x] \in Nat
         /\ Exponent(c)[x] = IF 10 * x > c.min THEN 1 + Exponent(c)[(x * c.den) \div c.num]
                             ELSE 0
         /\ 10 * x > c.min => (x * c.den) \div c.num \in 0 .. MaxAge(c)
<1> DEFINE M == MaxAge(c)
           Stop == {i \in 0 .. M : ~(10 * i > c.min)}
           down == [i \in 0 .. M |-> (i * c.den) \div c.num]
<1>1. M \in Nat /\ c.min \in Nat \ {0}
  BY ConfigNumbers
<1>2. ASSUME NEW i \in 0 .. M, 10 * i > c.min
      PROVE  (i * c.den) \div c.num \in 0 .. M /\ (i * c.den) \div c.num < i
  <2>1. i \in Nat /\ i # 0
    BY <1>1, <1>2
  <2>2. (i * c.den) \div c.num \in Nat /\ (i * c.den) \div c.num < i
    BY <2>1, Division
  <2> QED
    BY <1>1, <2>1, <2>2
<1>3. \A i \in 0 .. M : i \notin Stop => down[i] \in 0 .. M /\ down[i] < i
  BY <1>2
<1>4. PICK f : Counts(f, M, Stop, down)
  <2> HIDE DEF M, Stop, down
  <2> QED
    BY <1>1, <1>3, CountDown
<1>5. f = [i \in 0 .. M |-> IF 10 * i > c.min THEN 1 + f[(i * c.den) \div c.num] ELSE 0]
  <2>1. ASSUME NEW i \in 0 .. M
        PROVE  f[i] = IF 10 * i > c.min THEN 1 + f[(i * c.den) \div c.num] ELSE 0
    BY <1>4 DEF Counts
  <2> QED
    BY <1>4, <2>1 DEF Counts
<1>6. Exponent(c) = [i \in 0 .. M |-> IF 10 * i > c.min
                                      THEN 1 + Exponent(c)[(i * c.den) \div c.num] ELSE 0]
  <2>1. Exponent(c) = CHOOSE g : g = [i \in 0 .. M |-> IF 10 * i > c.min
                                        THEN 1 + g[(i * c.den) \div c.num] ELSE 0]
    BY DEF Exponent
  <2> QED
    BY <1>5, <2>1
<1> HIDE DEF Exponent
<1> DEFINE e == Exponent(c)
<1>7. ASSUME NEW i \in 0 .. M
      PROVE  e[i] = IF 10 * i > c.min THEN 1 + e[(i * c.den) \div c.num] ELSE 0
  BY <1>6
<1> HIDE DEF e
<1> DEFINE Numbers == {n \in Nat : n <= M => e[n] \in Nat}
<1>8. ASSUME NEW n \in Nat, \A m \in Nat : m < n => m \in Numbers PROVE n \in Numbers
  <2> SUFFICES ASSUME n <= M PROVE e[n] \in Nat
    OBVIOUS
  <2>1. n \in 0 .. M
    BY <1>1
  <2>2. CASE ~(10 * n > c.min)
    BY <1>7, <2>1, <2>2
  <2>3. CASE 10 * n > c.min
    <3> DEFINE m == (n * c.den) \div c.num
    <3>1. m \in 0 .. M /\ m < n
      BY <1>2, <2>1, <2>3
    <3>2. e[n] = 1 + e[m]
      BY <1>7, <2>1, <2>3
    <3> HIDE DEF m
    <3>3. e[m] \in Nat
      BY <1>1, <1>8, <3>1
    <3> QED
      BY <3>2, <3>3
  <2> QED
    BY <2>2, <2>3
<1>9. Nat \subseteq Numbers
  <2> HIDE DEF Numbers
  <2> QED
    BY <1>8, AllNumbersAbove
<1>10. e[x] \in Nat
  BY <1>1, <1>9
<1> QED
  BY <1>2, <1>7, <1>10 DEF e

\* The longer the time, the more often it can be divided.
LEMMA ExponentGrows ==
  ASSUME NEW c \in Configs, c.num > c.den, NEW x \in 0 .. MaxAge(c), NEW y \in 0 .. MaxAge(c),
         x <= y
  PROVE  Exponent(c)[x] <= Exponent(c)[y]
<1> DEFINE M == MaxAge(c)
           e == Exponent(c)
           Less(n) == (n * c.den) \div c.num
           Grows == {n \in Nat : n <= M => \A m \in 0 .. M : n <= m => e[n] <= e[m]}
<1>1. M \in Nat /\ c.min \in Nat \ {0}
  BY ConfigNumbers
<1>2. \A n \in 0 .. M : /\ e[n] \in Nat
                        /\ e[n] = IF 10 * n > c.min THEN 1 + e[Less(n)] ELSE 0
                        /\ 10 * n > c.min => Less(n) \in 0 .. M
  BY ExponentStep
<1>3. \A n \in Nat : /\ n # 0 => Less(n) < n
                     /\ \A m \in Nat : n <= m => Less(n) <= Less(m)
  BY Division
<1> HIDE DEF e, Less
<1>4. ASSUME NEW n \in Nat, \A i \in Nat : i < n => i \in Grows PROVE n \in Grows
  <2> SUFFICES ASSUME n <= M, NEW m \in 0 .. M, n <= m PROVE e[n] <= e[m]
    OBVIOUS
  <2>1. n \in 0 .. M
    BY <1>1
  <2>2. CASE ~(10 * n > c.min)
    BY <1>2, <2>1, <2>2
  <2>3. CASE 10 * n > c.min
    <3>1. 10 * m > c.min /\ n # 0
      BY <1>1, <2>3
    <3>2. /\ Less(n) \in 0 .. M /\ Less(m) \in 0 .. M
          /\ e[n] = 1 + e[Less(n)] /\ e[m] = 1 + e[Less(m)]
      BY <1>2, <2>1, <2>3, <3>1
    <3>3. Less(n) < n /\ Less(n) <= Less(m)
      BY <1>3, <3>1
    <3>4. e[Less(n)] <= e[Less(m)]
      BY <1>1, <1>4, <3>2, <3>3
    <3>5. e[Less(n)] \in Nat /\ e[Less(m)] \in Nat
      BY <1>2, <3>2
    <3> QED
      BY <3>2, <3>4, <3>5
  <2> QED
    BY <2>2, <2>3
<1>5. Nat \subseteq Grows
  <2> HIDE DEF Grows
  <2> QED
    BY <1>4, AllNumbersAbove
<1> QED
  BY <1>1, <1>5 DEF e

\* The minimum, increased once less than the time can be divided, is at most the time.
LEMMA ExponentBound ==
  ASSUME NEW c \in Configs, c.num > c.den, NEW x \in 0 .. MaxAge(c), 10 * x > c.min
  PROVE  \E n \in Nat : /\ Exponent(c)[x] = n + 1
                        /\ c.min * Power(c.num)[n] <= (10 * x) * Power(c.den)[n]
<1> DEFINE M == MaxAge(c)
           e == Exponent(c)
           Less(n) == (n * c.den) \div c.num
           p == Power(c.num)
           q == Power(c.den)
           Bound(i) == \E n \in Nat : e[i] = n + 1 /\ c.min * p[n] <= (10 * i) * q[n]
           Bounded == {i \in Nat : i <= M /\ 10 * i > c.min => Bound(i)}
<1>1. /\ M \in Nat /\ c.min \in Nat \ {0} /\ c.num \in Nat \ {0} /\ c.den \in Nat \ {0}
  BY ConfigNumbers
<1>2. \A n \in 0 .. M : /\ e[n] \in Nat
                        /\ e[n] = IF 10 * n > c.min THEN 1 + e[Less(n)] ELSE 0
                        /\ 10 * n > c.min => Less(n) \in 0 .. M
  BY ExponentStep
<1>3. \A n \in Nat : /\ n # 0 => Less(n) < n
                     /\ Less(n) * c.num <= n * c.den
  BY Division
<1>4. /\ p[0] = 1 /\ \A n \in Nat : p[n] \in Nat /\ p[n + 1] = c.num * p[n]
      /\ q[0] = 1 /\ \A n \in Nat : q[n] \in Nat /\ q[n + 1] = c.den * q[n]
  BY <1>1, PowerStep, PowerPositive
<1> HIDE DEF e, Less, p, q
<1>5. ASSUME NEW i \in Nat, \A j \in Nat : j < i => j \in Bounded PROVE i \in Bounded
  <2> SUFFICES ASSUME i <= M, 10 * i > c.min PROVE Bound(i)
    OBVIOUS
  <2> DEFINE j == Less(i)
  <2>1. i \in 0 .. M /\ i # 0
    BY <1>1
  <2>2. j \in 0 .. M /\ j < i /\ j * c.num <= i * c.den /\ e[i] = 1 + e[j] /\ e[j] \in Nat
    BY <1>2, <1>3, <2>1
  <2> HIDE DEF j
  <2>3. CASE ~(10 * j > c.min)
    <3>1. e[i] = 0 + 1
      BY <1>2, <2>2, <2>3
    <3>2. c.min * p[0] <= (10 * i) * q[0]
      BY <1>1, <1>4
    <3> QED
      BY <3>1, <3>2
  <2>4. CASE 10 * j > c.min
    <3>1. j \in Nat /\ j <= M /\ Bound(j)
      BY <1>1, <1>5, <2>2, <2>4
    <3>2. PICK n \in Nat : e[j] = n + 1 /\ c.min * p[n] <= (10 * j) * q[n]
      BY <3>1
    <3> DEFINE P == p[n]
               Q == q[n]
               N == c.num
               D == c.den
    <3>3. P \in Nat /\ Q \in Nat /\ p[n + 1] = N * P /\ q[n + 1] = D * Q
      BY <1>4
    <3>4. N \in Nat /\ D \in Nat /\ c.min * P <= (10 * j) * Q /\ j * N <= i * D
      BY <1>1, <2>2, <3>2
    <3> HIDE DEF P, Q, N, D
    <3>5. (c.min * P) * N <= ((10 * j) * Q) * N
      BY <1>1, <3>1, <3>3, <3>4, Product
    <3>6. (c.min * P) * N = c.min * (N * P) /\ ((10 * j) * Q) * N = 10 * ((j * N) * Q)
      BY <1>1, <3>1, <3>3, <3>4
    <3>7. (j * N) * Q <= (i * D) * Q
      BY <3>1, <3>3, <3>4, Product
    <3>8. 10 * ((i * D) * Q) = (10 * i) * (D * Q) /\ (j * N) * Q \in Nat /\ (i * D) * Q \in Nat
      BY <3>1, <3>3, <3>4
    <3>9. c.min * (N * P) <= (10 * i) * (D * Q)
      <4> DEFINE A == (j * N) * Q
                 B == (i * D) * Q
      <4>1. A \in Nat /\ B \in Nat /\ A <= B
        BY <3>7, <3>8
      <4>2. c.min * (N * P) <= 10 * A /\ 10 * B = (10 * i) * (D * Q)
        BY <3>5, <3>6, <3>8
      <4>3. c.min * (N * P) \in Int
        BY <1>1, <3>3, <3>4
      <4> HIDE DEF A, B
      <4> QED
        BY <4>1, <4>2, <4>3
    <3>10. e[i] = (n + 1) + 1 /\ n + 1 \in Nat
      BY <2>2, <3>2
    <3>11. c.min * p[n + 1] <= (10 * i) * q[n + 1]
      BY <3>3, <3>9
    <3> QED
      BY <3>10, <3>11
  <2> QED
    BY <2>3, <2>4
<1>6. Nat \subseteq Bounded
  <2> HIDE DEF Bounded
  <2> QED
    BY <1>5, AllNumbersAbove
<1>7. Bound(x)
  BY <1>1, <1>6
<1> QED
  BY <1>7 DEF e, p, q

\* How powers grow: by a factor of num over den, which is at least one.
LEMMA PowersGrow ==
  ASSUME NEW c \in Configs, NEW q \in Nat, NEW e \in Nat,
         q * (10 * Power(c.den)[e]) <= c.min * Power(c.num)[e]
  PROVE  \A k \in Nat : q * (10 * Power(c.den)[e + k]) <= c.min * Power(c.num)[e + k]
<1> DEFINE N == c.num
           D == c.den
           Kept == {k \in Nat : q * (10 * Power(D)[e + k]) <= c.min * Power(N)[e + k]}
<1>1. c.min \in Nat \ {0} /\ N \in Nat \ {0} /\ D \in Nat \ {0} /\ D <= N
  BY ConfigNumbers
<1> HIDE DEF N, D
<1>2. 0 \in Kept
  BY DEF N, D
<1>3. ASSUME NEW k \in Nat, k \in Kept PROVE k + 1 \in Kept
  <2> DEFINE i == e + k
  <2>1. i \in Nat /\ e + (k + 1) = i + 1
    OBVIOUS
  <2>2. q * (10 * Power(D)[i]) <= c.min * Power(N)[i]
    BY <1>3
  <2> HIDE DEF i
  <2> DEFINE u == Power(D)[i]
             v == Power(N)[i]
  <2>3. u \in Nat /\ v \in Nat /\ Power(D)[i + 1] = D * u /\ Power(N)[i + 1] = N * v
    BY <1>1, <2>1, PowerStep, PowerPositive
  <2>4. q * (10 * u) <= c.min * v
    BY <2>2
  <2> HIDE DEF u, v
  <2>5. (q * (10 * u)) * D <= (c.min * v) * D
    BY <1>1, <2>3, <2>4, Product
  <2>6. (c.min * v) * D <= (c.min * v) * N
    BY <1>1, <2>3, Product
  <2>7. (q * (10 * u)) * D = q * (10 * (D * u)) /\ (c.min * v) * N = c.min * (N * v)
    BY <1>1, <2>3
  <2>8. q * (10 * (D * u)) <= c.min * (N * v)
    <3>1. (q * (10 * u)) * D \in Int /\ (c.min * v) * D \in Int /\ (c.min * v) * N \in Int
      BY <1>1, <2>3
    <3> QED
      BY <2>5, <2>6, <2>7, <3>1
  <2> QED
    BY <2>1, <2>3, <2>8
<1>4. Nat \subseteq Kept
  <2> HIDE DEF Kept
  <2> QED
    BY <1>2, <1>3, AllNumbers
<1> QED
  BY <1>4 DEF N, D

\* The minimum increased n times.
Times(c, n) == (c.min * Power(c.num)[n]) \div (10 * Power(c.den)[n])

\* The minimum increased n times is a number that grows with n.
LEMMA TimesGrow ==
  ASSUME NEW c \in Configs, NEW n \in Nat
  PROVE  /\ Times(c, n) \in Nat
         /\ Times(c, n) * (10 * Power(c.den)[n]) <= c.min * Power(c.num)[n]
         /\ \A m \in Nat : n <= m => Times(c, n) <= Times(c, m)
<1>1. c.min \in Nat \ {0} /\ c.num \in Nat \ {0} /\ c.den \in Nat \ {0}
  BY ConfigNumbers
<1>2. ASSUME NEW i \in Nat
      PROVE  c.min * Power(c.num)[i] \in Nat /\ 10 * Power(c.den)[i] \in Nat \ {0}
  <2> DEFINE u == Power(c.num)[i]
             v == Power(c.den)[i]
  <2>1. u \in Nat \ {0} /\ v \in Nat \ {0}
    BY <1>1, PowerPositive
  <2> HIDE DEF u, v
  <2>2. c.min * u \in Nat /\ 10 * v \in Nat \ {0}
    BY <1>1, <2>1
  <2> QED
    BY <2>2 DEF u, v
<1>3. \A i \in Nat : /\ Times(c, i) \in Nat
                     /\ Times(c, i) * (10 * Power(c.den)[i]) <= c.min * Power(c.num)[i]
                     /\ \A q \in Nat : q * (10 * Power(c.den)[i]) <= c.min * Power(c.num)[i]
                                       => q <= Times(c, i)
  BY <1>2, Quotient DEF Times
<1>4. ASSUME NEW m \in Nat, n <= m PROVE Times(c, n) <= Times(c, m)
  <2>1. m - n \in Nat /\ n + (m - n) = m
    BY <1>4
  <2>2. Times(c, n) * (10 * Power(c.den)[n + (m - n)]) <= c.min * Power(c.num)[n + (m - n)]
    BY <1>3, <2>1, PowersGrow
  <2>3. Times(c, n) * (10 * Power(c.den)[m]) <= c.min * Power(c.num)[m]
    BY <2>1, <2>2
  <2> QED
    BY <1>3, <2>3
<1> QED
  BY <1>3, <1>4

\* The increased interval: at least the minimum, at most what the configured increase
\* makes of the elapsed time, and the longer the longer that is.
LEMMA IncreasedBounds ==
  ASSUME NEW c \in Configs, NEW x \in 0 .. MaxAge(c)
  PROVE  /\ Increased(c, x) \in Nat /\ Floor(c.min) \in Nat
         /\ Floor(c.min) <= Increased(c, x)
         /\ \/ 10 * Increased(c, x) <= c.min
            \/ Increased(c, x) * c.den <= x * c.num
         /\ \A y \in 0 .. MaxAge(c) : x <= y => Increased(c, x) <= Increased(c, y)
<1>1. /\ c.min \in Nat \ {0} /\ c.num \in Nat \ {0} /\ c.den \in Nat \ {0} /\ MaxAge(c) \in Nat
  BY ConfigNumbers
<1>2. Floor(c.min) \in Nat /\ 10 * Floor(c.min) <= c.min
  BY <1>1 DEF Floor
<1>3. Floor(c.min) = Times(c, 0)
  <2>1. Power(c.num)[0] = 1 /\ Power(c.den)[0] = 1
    BY <1>1, PowerStep
  <2> QED
    BY <1>1, <2>1 DEF Floor, Times
<1>4. ASSUME NEW y \in 0 .. MaxAge(c)
      PROVE  /\ 10 * y >= c.min /\ c.num > c.den => Increased(c, y) = Times(c, Exponent(c)[y])
             /\ ~(10 * y >= c.min /\ c.num > c.den) => Increased(c, y) = Floor(c.min)
  BY DEF Increased, Times
<1>5. ASSUME NEW y \in 0 .. MaxAge(c), c.num > c.den
      PROVE  Exponent(c)[y] \in Nat
  BY <1>5, ExponentStep
<1>6. ASSUME NEW y \in 0 .. MaxAge(c) PROVE Increased(c, y) \in Nat /\ Floor(c.min) <= Increased(c, y)
  <2>1. CASE 10 * y >= c.min /\ c.num > c.den
    <3>1. Exponent(c)[y] \in Nat /\ 0 <= Exponent(c)[y]
      BY <1>5, <2>1
    <3> QED
      BY <1>3, <1>4, <2>1, <3>1, TimesGrow
  <2>2. CASE ~(10 * y >= c.min /\ c.num > c.den)
    BY <1>2, <1>4, <2>2
  <2> QED
    BY <2>1, <2>2
<1>7. 10 * Increased(c, x) <= c.min \/ Increased(c, x) * c.den <= x * c.num
  <2>1. CASE ~(10 * x >= c.min /\ c.num > c.den)
    BY <1>2, <1>4, <2>1
  <2>2. CASE 10 * x = c.min /\ c.num > c.den
    <3>1. Exponent(c)[x] = 0
      BY <2>2, ExponentStep
    <3> QED
      BY <1>2, <1>3, <1>4, <2>2, <3>1
  <2>3. CASE 10 * x > c.min /\ c.num > c.den
    <3>1. PICK n \in Nat : /\ Exponent(c)[x] = n + 1
                           /\ c.min * Power(c.num)[n] <= (10 * x) * Power(c.den)[n]
      BY <2>3, ExponentBound
    <3> DEFINE I == Increased(c, x)
               u == Power(c.num)[n]
               v == Power(c.den)[n]
               N == c.num
               D == c.den
    <3>2. I = Times(c, n + 1)
      <4>1. 10 * x >= c.min
        BY <1>1, <2>3
      <4> QED
        BY <1>4, <2>3, <3>1, <4>1
    <3>3. /\ u \in Nat \ {0} /\ v \in Nat \ {0}
          /\ Power(N)[n + 1] = N * u /\ Power(D)[n + 1] = D * v
      BY <1>1, PowerStep, PowerPositive
    <3>4. I * (10 * (D * v)) <= c.min * (N * u)
      BY <3>2, <3>3, TimesGrow
    <3>5. I \in Nat /\ N \in Nat /\ D \in Nat /\ c.min * u <= (10 * x) * v /\ x \in Nat
      BY <1>1, <1>6, <3>1
    <3> HIDE DEF I, u, v, N, D
    <3>6. (c.min * u) * N <= ((10 * x) * v) * N
      BY <1>1, <3>3, <3>5, Product
    <3>7. (c.min * u) * N = c.min * (N * u) /\ ((10 * x) * v) * N = (x * N) * (10 * v)
          /\ I * (10 * (D * v)) = (I * D) * (10 * v)
      BY <1>1, <3>3, <3>5
    <3>8. (I * D) * (10 * v) <= (x * N) * (10 * v)
      <4>1. (c.min * u) * N \in Int /\ (I * D) * (10 * v) \in Int /\ (x * N) * (10 * v) \in Int
        BY <1>1, <3>3, <3>5
      <4> QED
        BY <3>4, <3>6, <3>7, <4>1
    <3>9. I * D \in Nat /\ x * N \in Nat /\ 10 * v \in Nat /\ 10 * v # 0
      BY <3>3, <3>5
    <3>10. I * D <= x * N
      BY <3>8, <3>9, Product
    <3> QED
      BY <3>10 DEF I, D, N
  <2> QED
    BY <1>1, <2>1, <2>2, <2>3
<1>8. ASSUME NEW y \in 0 .. MaxAge(c), x <= y PROVE Increased(c, x) <= Increased(c, y)
  <2>1. CASE ~(10 * x >= c.min /\ c.num > c.den)
    BY <1>4, <1>6, <2>1
  <2>2. CASE 10 * x >= c.min /\ c.num > c.den
    <3>1. 10 * y >= c.min
      BY <1>1, <1>8, <2>2
    <3>2. /\ Exponent(c)[x] <= Exponent(c)[y]
          /\ Exponent(c)[x] \in Nat /\ Exponent(c)[y] \in Nat
      BY <1>5, <1>8, <2>2, ExponentGrows
    <3>3. Times(c, Exponent(c)[x]) <= Times(c, Exponent(c)[y])
      BY <3>2, TimesGrow
    <3> QED
      BY <1>4, <2>2, <3>1, <3>3
  <2> QED
    BY <2>1, <2>2
<1> QED
  BY <1>2, <1>6, <1>7, <1>8

\* The interval after an unchanged status: a number between the minimum and the
\* maximum, the maximum after as long a time, and the longer the longer the time.
LEMMA UpdatedBounds ==
  ASSUME NEW c \in Configs, NEW max \in Nat, NEW x \in 0 .. MaxAge(c)
  PROVE  LET u == UpdatedInterval(c, max, x)
         IN /\ u \in Nat
            /\ AtMost(Floor(c.min), max) <= u /\ u <= AtLeast(Floor(c.min), max)
            /\ 10 * u <= c.min \/ u * c.den <= x * c.num
            /\ x >= max => u = max
            /\ Floor(c.min) <= max =>
                 \A y \in 0 .. MaxAge(c) : x <= y => u <= UpdatedInterval(c, max, y)
<1>1. /\ c.min \in Nat \ {0} /\ c.num \in Nat \ {0} /\ c.den \in Nat \ {0}
      /\ c.den <= c.num /\ MaxAge(c) \in Nat
  BY ConfigNumbers
<1> DEFINE F == Floor(c.min)
           I(y) == Increased(c, y)
           u(y) == UpdatedInterval(c, max, y)
<1>2. F \in Nat /\ 10 * F <= c.min
  BY <1>1 DEF Floor
<1>3. \A y \in 0 .. MaxAge(c) :
        /\ I(y) \in Nat /\ F <= I(y)
        /\ 10 * I(y) <= c.min \/ I(y) * c.den <= y * c.num
        /\ \A z \in 0 .. MaxAge(c) : y <= z => I(y) <= I(z)
  BY IncreasedBounds
<1>4. \A y \in 0 .. MaxAge(c) :
        u(y) = IF y >= max THEN max
               ELSE IF 10 * y < c.min THEN F ELSE AtMost(I(y), max)
  BY DEF UpdatedInterval
<1> HIDE DEF F, I, u
<1>5. \A y \in 0 .. MaxAge(c) : u(y) \in Nat
  BY <1>2, <1>3, <1>4 DEF AtMost
<1>6. AtMost(F, max) <= u(x) /\ u(x) <= AtLeast(F, max)
  BY <1>1, <1>2, <1>3, <1>4 DEF AtMost, AtLeast
<1>7. 10 * u(x) <= c.min \/ u(x) * c.den <= x * c.num
  <2>1. CASE x >= max
    <3>1. u(x) = max /\ max <= x /\ x \in Nat
      BY <1>1, <1>4, <2>1
    <3>2. max * c.den <= x * c.den
      BY <1>1, <3>1, Product
    <3>3. x * c.den <= x * c.num
      <4>1. c.den * x <= c.num * x
        BY <1>1, <3>1, Product
      <4> QED
        BY <1>1, <3>1, <4>1, Product
    <3>4. max * c.den \in Int /\ x * c.den \in Int /\ x * c.num \in Int
      BY <1>1, <3>1
    <3>5. max * c.den <= x * c.num
      BY <3>2, <3>3, <3>4
    <3> QED
      BY <3>1, <3>5
  <2>2. CASE x < max /\ 10 * x < c.min
    BY <1>1, <1>2, <1>4, <2>2
  <2>3. CASE x < max /\ ~(10 * x < c.min)
    <3>1. u(x) = AtMost(I(x), max)
      BY <1>1, <1>4, <2>3
    <3>2. u(x) <= I(x) /\ u(x) \in Nat /\ I(x) \in Nat
      BY <1>3, <1>5, <3>1 DEF AtMost
    <3>3. CASE 10 * I(x) <= c.min
      BY <1>1, <3>2, <3>3
    <3>4. CASE I(x) * c.den <= x * c.num
      <4>1. u(x) * c.den <= I(x) * c.den
        BY <1>1, <3>2, Product
      <4>2. u(x) * c.den \in Int /\ I(x) * c.den \in Int /\ x * c.num \in Int
        BY <1>1, <3>2
      <4>3. u(x) * c.den <= x * c.num
        BY <3>4, <4>1, <4>2
      <4> QED
        BY <4>3
    <3> QED
      BY <1>3, <3>3, <3>4
  <2> QED
    BY <1>1, <2>1, <2>2, <2>3
<1>8. x >= max => u(x) = max
  BY <1>4
<1>9. ASSUME F <= max, NEW y \in 0 .. MaxAge(c), x <= y PROVE u(x) <= u(y)
  <2>1. u(x) <= max
    BY <1>2, <1>6, <1>9 DEF AtLeast
  <2>2. CASE y >= max
    BY <1>4, <2>1, <2>2
  <2>3. CASE y < max /\ 10 * x < c.min
    <3>1. u(x) = F
      BY <1>1, <1>4, <1>9, <2>3
    <3>2. F <= u(y)
      BY <1>1, <1>2, <1>3, <1>4, <1>9 DEF AtMost
    <3> QED
      BY <3>1, <3>2
  <2>4. CASE y < max /\ ~(10 * x < c.min)
    <3>1. u(x) = AtMost(I(x), max) /\ u(y) = AtMost(I(y), max)
      BY <1>1, <1>4, <1>9, <2>4
    <3>2. I(x) <= I(y) /\ I(x) \in Nat /\ I(y) \in Nat
      BY <1>3, <1>9
    <3> QED
      BY <3>1, <3>2 DEF AtMost
  <2> QED
    BY <1>1, <2>2, <2>3, <2>4
<1> QED
  BY <1>5, <1>6, <1>7, <1>8, <1>9 DEF F, u

\* The time since the latest transition.
LEMMA TimeUnchanged ==
  ASSUME config \in Configs, NEW cs \in Listed(Condition), NEW t, Has(cs, t)
  PROVE  LatestTransition(cs) \in 0 .. MaxAge(config)
<1>1. \A d \in Condition : d.age \in 0 .. MaxAge(config)
  BY DEF Condition
<1>2. Elements(cs) \subseteq Condition
  BY ElementsOf
<1>3. LatestTransition(cs) \in {d.age : d \in Elements(cs)}
  BY ConditionSet, Latest
<1> QED
  BY <1>1, <1>2, <1>3

\* What the code reads with Atoi.
LEMMA AtoiNumbers ==
  ASSUME NEW v \in Nat \ {0}
  PROVE  /\ Atoi(v) \in Nat /\ Floor(v) \in Nat
         /\ Atoi(v) <= Floor(v) /\ 10 * Floor(v) <= v
BY DEF Atoi, Floor

\* How long a reconcile that fails waits, and what it shows of it.
LEMMA FailedWaits ==
  ASSUME config \in Configs, hasWarning \in BOOLEAN, NEW s, IsStatus(s),
         NEW message \in Messages
  PROVE  LET r == Failed(s, message)
             u == UpdatedInterval(config, Atoi(config.failureMax), LatestTransition(r.conditions))
         IN /\ r.delay \in Nat /\ r.interval = Shown(r.delay)
            /\ r.delay \in {ResetInterval(config), u}
            /\ s.interval = Hidden => r.delay = ResetInterval(config)
            /\ Has(s.conditions, "Reconciled") /\ s.interval # Hidden => r.delay = u
<1> DEFINE a == Set(s, "Reconciled", FALSE, message)
           t == NotReconciled(AddWarnings(a))
           r == Failed(s, message)
           u == UpdatedInterval(config, Atoi(config.failureMax), LatestTransition(r.conditions))
           seconds == IF ~Has(s.conditions, "Reconciled") \/ t.interval = Hidden
                      THEN ResetInterval(config)
                      ELSE UpdatedInterval(config, Atoi(config.failureMax),
                                           LatestTransition(t.conditions))
<1>1. r = [t EXCEPT !.interval = Shown(seconds), !.delay = seconds]
  BY DEF Failed
<1>2. IsStatus(t) /\ t.interval = s.interval
  <2>1. /\ {"Reconciled", "Ready"} \subseteq Types /\ FALSE \in BOOLEAN
        /\ <<"not reconciled", 0>> \in Messages
    BY MessagesThere DEF Types
  <2> HIDE DEF t, r, seconds
  <2>2. IsStatus(a) /\ a.interval = s.interval
    BY <2>1, AfterSetStatus
  <2> HIDE DEF a
  <2> DEFINE b == AddWarnings(a)
  <2>3. IsStatus(b) /\ b.interval = a.interval
    BY <2>2, AfterWarnings
  <2> HIDE DEF b
  <2>4. IsStatus(Set(b, "Ready", FALSE, <<"not reconciled", 0>>))
        /\ Set(b, "Ready", FALSE, <<"not reconciled", 0>>).interval = b.interval
    BY <2>1, <2>3, AfterSetStatus
  <2> QED
    BY <2>2, <2>3, <2>4 DEF t, b, NotReconciled
<1>3. IsStatus(r) /\ Says(r, "Ready", FALSE, <<"not reconciled", 0>>)
  <2> HIDE DEF r
  <2> QED
    BY AfterFailed DEF r
<1> HIDE DEF t, seconds
<1>4. r.delay = seconds /\ r.interval = Shown(seconds) /\ r.conditions = t.conditions
  BY <1>1, <1>2 DEF IsStatus
<1> HIDE DEF r, a
<1>5. seconds = IF ~Has(s.conditions, "Reconciled") \/ s.interval = Hidden
                THEN ResetInterval(config) ELSE u
  BY <1>2, <1>4 DEF seconds
<1>6. ResetInterval(config) \in Nat /\ Atoi(config.failureMax) \in Nat
  BY ConfigNumbers, AtoiNumbers DEF ResetInterval
<1>7. u \in Nat
  <2>1. LatestTransition(r.conditions) \in 0 .. MaxAge(config)
    BY <1>3, TimeUnchanged DEF IsStatus, Says
  <2> QED
    BY <1>6, <2>1, UpdatedBounds
<1> HIDE DEF u
<1>8. seconds \in Nat /\ seconds \in {ResetInterval(config), u}
  BY <1>5, <1>6, <1>7
<1> QED
  BY <1>4, <1>5, <1>8 DEF r, u

\* The maximum for a status.
Longest(c, cs) == IF IsTrue(cs, "Ready") THEN c.successMax ELSE c.failureMax

\* How long one that gets through waits.
LEMMA SucceededWaits ==
  ASSUME config \in Configs, workload \in Workloads(config), hasWarning \in BOOLEAN,
         NEW s, IsStatus(s), NEW fails \in BOOLEAN
  PROVE  LET r == Succeeded(s, fails)
             u == UpdatedInterval(config, Atoi(Longest(config, r.conditions)),
                                  LatestTransition(r.conditions))
         IN /\ r.delay \in Nat /\ r.interval = Shown(r.delay)
            /\ r.delay \in {ResetInterval(config), u}
            /\ Has(s.conditions, "Reconciled") /\ Has(s.conditions, "ResourcesReady")
               /\ Has(s.conditions, "Ready") => r.delay = u
<1> DEFINE t == Checked(Reconciled(s), fails)
           r == Succeeded(s, fails)
           u == UpdatedInterval(config, Atoi(Longest(config, r.conditions)),
                                LatestTransition(r.conditions))
           ready == IsTrue(t.conditions, "Ready")
           compared == IF ready THEN "Ready" ELSE "ResourcesReady"
           max == Atoi(IF ready THEN config.successMax ELSE config.failureMax)
           seconds == IF Has(s.conditions, "Reconciled") /\ Has(s.conditions, compared)
                      THEN UpdatedInterval(config, max, LatestTransition(t.conditions))
                      ELSE ResetInterval(config)
<1>1. r = [t EXCEPT !.interval = Shown(seconds), !.delay = seconds]
  BY DEF Succeeded, Reconciled
<1>2. IsStatus(t)
  <2> DEFINE a == Reconciled(s)
  <2>1. /\ IsStatus(a) /\ IsTrue(a.conditions, "Reconciled")
        /\ Has(a.conditions, "Warning") <=> hasWarning
    BY AfterReconciled DEF Says, IsTrue
  <2> HIDE DEF a
  <2> QED
    BY <2>1, AfterChecked DEF Coherent, a
<1>3. IsStatus(r) /\ Has(r.conditions, "Ready")
  <2> HIDE DEF r
  <2> QED
    BY AfterSucceeded DEF Coherent, r
<1> HIDE DEF t, seconds
<1>4. r.delay = seconds /\ r.interval = Shown(seconds) /\ r.conditions = t.conditions
  BY <1>1, <1>2 DEF IsStatus
<1> HIDE DEF r
<1>5. seconds = IF Has(s.conditions, "Reconciled") /\ Has(s.conditions, compared)
                THEN u ELSE ResetInterval(config)
  BY <1>4 DEF seconds, Longest
<1>6. ResetInterval(config) \in Nat /\ Atoi(Longest(config, r.conditions)) \in Nat
  BY ConfigNumbers, AtoiNumbers DEF ResetInterval, Longest
<1>7. u \in Nat
  <2>1. LatestTransition(r.conditions) \in 0 .. MaxAge(config)
    BY <1>3, TimeUnchanged DEF IsStatus
  <2> QED
    BY <1>6, <2>1, UpdatedBounds
<1> HIDE DEF u
<1>8. seconds \in Nat /\ seconds \in {ResetInterval(config), u}
  BY <1>5, <1>6, <1>7
<1> QED
  BY <1>4, <1>5, <1>8 DEF r, u

\* A list that is not empty has a condition.
LEMMA NotEmpty ==
  ASSUME NEW cs \in Listed(Condition)
  PROVE  cs # << >> <=> \E t : Has(cs, t)
<1>1. DOMAIN cs = 1 .. Len(cs) /\ Len(cs) \in Nat /\ cs \in Seq(Condition)
  BY ElementsOf
<1>2. ASSUME cs # << >> PROVE Has(cs, cs[1].type)
  <2>1. 1 \in DOMAIN cs
    BY <1>1, <1>2
  <2> QED
    BY <2>1 DEF Has
<1>3. ASSUME NEW t, Has(cs, t) PROVE cs # << >>
  BY <1>3 DEF Has
<1> QED
  BY <1>2, <1>3

\* What is known of the waits: they are numbers, and the interval is in the status
\* exactly when it is to be shown and there has been a reconcile.
WaitsOK ==
  /\ interval \in Nat \cup {Hidden} /\ delay \in Nat /\ requeued \in BOOLEAN
  /\ ~config.show => interval = Hidden
  /\ config.show /\ conditions # << >> => interval # Hidden

\* The waits are right before the first reconcile ...
LEMMA WaitsOKInit == Init => WaitsOK
BY DEF Init, WaitsOK

\* A status that shows its wait when that is to be shown keeps them so.
LEMMA WaitsStored ==
  ASSUME config \in Configs, config' = config, requeued' \in BOOLEAN, delay' \in Nat,
         \E n \in Nat : interval' = Shown(n)
  PROVE  WaitsOK'
<1>1. config.show \in BOOLEAN
  BY ConfigNumbers
<1>2. PICK n \in Nat : interval' = Shown(n)
  OBVIOUS
<1> QED
  BY <1>1, <1>2 DEF WaitsOK, Shown, Hidden

\* ... every step keeps them so ...
LEMMA WaitsOKNext == ConditionsOK /\ WaitsOK /\ [Next]_vars => WaitsOK'
<1> SUFFICES ASSUME ConditionsOK, WaitsOK, [Next]_vars PROVE WaitsOK'
  OBVIOUS
<1>0. IsStatus(Held) /\ config \in Configs
  BY DEF Held, IsStatus, ConditionsOK
<1>1. ASSUME UNCHANGED <<config, conditions, interval>>, delay' \in Nat, requeued' \in BOOLEAN
      PROVE  WaitsOK'
  BY <1>1 DEF WaitsOK
<1>2. ASSUME NEW e \in Errors, Fail(e) PROVE WaitsOK'
  <2> DEFINE r == Failed(Held, e)
  <2>1. e \in Messages
    BY MessagesThere
  <2>2. r.delay \in Nat /\ r.interval = Shown(r.delay)
    BY <1>0, <2>1, FailedWaits DEF ConditionsOK
  <2>3. \/ interval' = r.interval /\ delay' = r.delay
        \/ delay' = 1 /\ UNCHANGED <<conditions, interval>>
    BY <1>2 DEF Fail, Store
  <2>4. requeued' = TRUE /\ config' = config
    BY <1>2 DEF Fail
  <2> HIDE DEF r
  <2>5. CASE interval' = r.interval /\ delay' = r.delay
    BY <1>0, <2>2, <2>4, <2>5, WaitsStored
  <2>6. CASE delay' = 1 /\ UNCHANGED <<conditions, interval>>
    BY <1>1, <2>4, <2>6
  <2> QED
    BY <2>3, <2>5, <2>6
<1>3. ASSUME NEW f \in BOOLEAN, Succeed(f) PROVE WaitsOK'
  <2> DEFINE r == Succeeded(Held, f)
             u == ResourcesChecked(Reconciled(Held))
             q == Failed(u, <<"lookup", 0>>)
  <2>1. r.delay \in Nat /\ r.interval = Shown(r.delay)
    BY <1>0, SucceededWaits DEF ConditionsOK
  <2>2. q.delay \in Nat /\ q.interval = Shown(q.delay)
    <3>1. IsStatus(u)
      <4> DEFINE a == Reconciled(Held)
      <4>1. IsStatus(a)
        BY <1>0, AfterReconciled DEF ConditionsOK
      <4> HIDE DEF a
      <4> QED
        BY <4>1, AfterResourcesChecked DEF ConditionsOK, a
    <3> HIDE DEF u
    <3> QED
      BY <3>1, FailedWaits, MessagesThere DEF ConditionsOK
  <2>3. \/ interval' = r.interval /\ delay' = r.delay
        \/ delay' = 1 /\ UNCHANGED <<conditions, interval>>
        \/ interval' = q.interval /\ delay' = 1
    BY <1>3 DEF Succeed, Store, Reconciled
  <2>4. requeued' \in BOOLEAN /\ config' = config
    <3>1. requeued' = (delay' > 0) /\ config' = config
      BY <1>3 DEF Succeed
    <3>2. (delay' > 0) \in BOOLEAN
      OBVIOUS
    <3> QED
      BY <3>1, <3>2, Zenon
  <2> HIDE DEF r, q
  <2>5. CASE interval' = r.interval /\ delay' = r.delay
    BY <1>0, <2>1, <2>4, <2>5, WaitsStored
  <2>6. CASE delay' = 1 /\ UNCHANGED <<conditions, interval>>
    BY <1>1, <2>4, <2>6
  <2>7. CASE interval' = q.interval /\ delay' = 1
    BY <1>0, <2>2, <2>4, <2>7, WaitsStored
  <2> QED
    BY <2>3, <2>5, <2>6, <2>7
<1>4. CASE Elapse
  <2>1. conditions' # << >> => conditions # << >>
    <3>1. /\ conditions \in Listed(Condition) /\ conditions' \in Listed(Condition)
          /\ \A t : Has(conditions', t) <=> Has(conditions, t)
      BY <1>4, ElapseKeeps DEF ConditionsOK
    <3> QED
      BY <3>1, NotEmpty
  <2> QED
    BY <1>4, <2>1 DEF Elapse, WaitsOK
<1>5. CASE WorkloadChanges \/ WarningChanges \/ UNCHANGED vars
  BY <1>1, <1>5 DEF WorkloadChanges, WarningChanges, vars, WaitsOK
<1> QED
  BY <1>2, <1>3, <1>4, <1>5, SucceedsOrFails

\* ... and they always are.
LEMMA WaitsAlwaysOK == Spec => []WaitsOK
BY WaitsOKInit, WaitsOKNext, ConditionsAlwaysOK, PTL DEF Spec

\* Type correctness.
THEOREM TypesCorrect == Spec => []TypeOK
<1>1. ConditionsOK /\ WaitsOK => TypeOK
  BY DEF ConditionsOK, WaitsOK, TypeOK, Listed
<1> QED
  BY <1>1, ConditionsAlwaysOK, WaitsAlwaysOK, PTL

\* A failure that repeats for long enough is retried at the failure maximum, when the
\* interval is shown.
THEOREM FailuresReachMaximum == Spec => FailureReachesMaximum
<1> DEFINE Reaches == \A e \in Errors :
                        Fail(e) /\ Repeats /\ config.show
                        /\ 10 * LatestTransition(conditions) >= config.failureMax
                        => delay' \in {1, Atoi(config.failureMax)}
<1>1. ConditionsOK /\ WaitsOK /\ [Next]_vars => [Reaches]_vars
  <2> SUFFICES ASSUME ConditionsOK, WaitsOK, NEW e \in Errors, Fail(e), conditions # << >>,
                      conditions' = conditions, config.show,
                      10 * LatestTransition(conditions) >= config.failureMax, delay' # 1
               PROVE  delay' = Atoi(config.failureMax)
    BY DEF Repeats
  <2> DEFINE r == Failed(Held, e)
             u == UpdatedInterval(config, Atoi(config.failureMax), LatestTransition(r.conditions))
  <2>1. /\ IsStatus(Held) /\ config \in Configs /\ e \in Messages
        /\ Held.conditions = conditions /\ Held.interval = interval
    BY MessagesThere DEF Held, IsStatus, ConditionsOK
  <2>2. conditions = r.conditions /\ delay' = r.delay
    BY DEF Fail, Store
  <2>3. IsStatus(r) /\ Says(r, "Reconciled", FALSE, e)
    <3> HIDE DEF r
    <3> QED
      BY <2>1, AfterFailed DEF ConditionsOK, r
  <2>4. Has(conditions, "Reconciled") /\ interval # Hidden
    BY <2>2, <2>3 DEF Says, WaitsOK
  <2>5. r.delay = u
    <3> HIDE DEF r
    <3> QED
      BY <2>1, <2>4, FailedWaits DEF ConditionsOK, r
  <2>6. LatestTransition(conditions) \in 0 .. MaxAge(config)
    BY <2>1, <2>4, TimeUnchanged DEF ConditionsOK
  <2> HIDE DEF r
  <2>7. /\ config.failureMax \in Nat \ {0} /\ Atoi(config.failureMax) \in Nat
        /\ 10 * Atoi(config.failureMax) <= config.failureMax /\ MaxAge(config) \in Nat
    BY <2>1, ConfigNumbers, AtoiNumbers
  <2>8. LatestTransition(conditions) >= Atoi(config.failureMax)
    BY <2>6, <2>7
  <2> QED
    BY <2>1, <2>2, <2>5, <2>6, <2>7, <2>8, UpdatedBounds
<1> QED
  BY <1>1, ConditionsAlwaysOK, WaitsAlwaysOK, PTL DEF Spec, FailureReachesMaximum

-----------------------------------------------------------------------------
\* The wait after a status that stays as it is ...
Wait(c, cs) == UpdatedInterval(c, Atoi(Longest(c, cs)), LatestTransition(cs))

\* ... but for a failure of which the status does not show the interval: ManageError
\* takes it for a new one.
NotReconciledYet(cs) == GetCondition(cs, "Ready").message = <<"not reconciled", 0>>

NextWait(c, cs) ==
  IF ~c.show /\ NotReconciledYet(cs) THEN ResetInterval(c) ELSE Wait(c, cs)

\* What a reconcile that stores its status waits.
Waited(fresh) ==
  /\ conditions' \in Listed(Condition)
  /\ Has(conditions', "Ready") /\ Has(conditions', "Reconciled")
  /\ delay' \in {ResetInterval(config), Wait(config, conditions')}
  /\ ~config.show /\ NotReconciledYet(conditions') => delay' = ResetInterval(config)
  /\ ~fresh => delay' = NextWait(config, conditions')

\* What a failed reconcile leaves: after a lost write the old conditions and a second's wait,
\* otherwise the conditions and the wait of ManageError.
LEMMA FailWaits ==
  ASSUME ConditionsOK, WaitsOK, NEW e \in Errors, Fail(e)
  PROVE  \/ conditions' = conditions /\ delay' = 1
         \/ Waited(conditions' # conditions)
<1> DEFINE r == Failed(Held, e)
           w == UpdatedInterval(config, Atoi(config.failureMax), LatestTransition(r.conditions))
<1>1. /\ IsStatus(Held) /\ config \in Configs /\ e \in Messages
      /\ Held.conditions = conditions /\ Held.interval = interval
  BY MessagesThere DEF Held, IsStatus, ConditionsOK
<1>2. \/ conditions' = conditions /\ delay' = 1
      \/ conditions' = r.conditions /\ delay' = r.delay
  BY DEF Fail, Store
<1> SUFFICES ASSUME conditions' = r.conditions, delay' = r.delay
             PROVE  Waited(conditions' # conditions)
  BY <1>2
<1>3. /\ IsStatus(r) /\ Says(r, "Reconciled", FALSE, e)
      /\ Says(r, "Ready", FALSE, <<"not reconciled", 0>>)
  <2> HIDE DEF r
  <2> QED
    BY <1>1, AfterFailed DEF ConditionsOK, r
<1>4. /\ r.delay \in {ResetInterval(config), w}
      /\ interval = Hidden => r.delay = ResetInterval(config)
      /\ Has(conditions, "Reconciled") /\ interval # Hidden => r.delay = w
  <2> HIDE DEF r
  <2> QED
    BY <1>1, FailedWaits DEF ConditionsOK, r
<1> HIDE DEF r
<1>5. /\ conditions' \in Listed(Condition) /\ Has(conditions', "Ready")
      /\ Has(conditions', "Reconciled") /\ ~IsTrue(conditions', "Ready")
      /\ NotReconciledYet(conditions')
  BY <1>3 DEF IsStatus, Says, IsTrue, NotReconciledYet
<1>6. Wait(config, conditions') = w
  BY <1>5 DEF Wait, Longest
<1>7. ~config.show => delay' = ResetInterval(config)
  BY <1>4 DEF WaitsOK
<1>8. ASSUME conditions' = conditions, config.show PROVE delay' = w
  <2>1. conditions # << >>
    BY <1>5, <1>8 DEF Has
  <2>2. interval # Hidden
    BY <1>8, <2>1 DEF WaitsOK
  <2> QED
    BY <1>4, <1>5, <1>8, <2>2
<1> HIDE DEF w
<1>9. delay' \in {ResetInterval(config), Wait(config, conditions')}
  BY <1>4, <1>6
<1>10. ~(conditions' # conditions) => delay' = NextWait(config, conditions')
  BY <1>5, <1>6, <1>7, <1>8 DEF NextWait
<1> QED
  BY <1>5, <1>7, <1>9, <1>10 DEF Waited

\* The same of a successful reconcile, whose own write may be lost after that of a failed
\* lookup was stored.
LEMMA SucceedWaits ==
  ASSUME ConditionsOK, WaitsOK, NEW f \in BOOLEAN, Succeed(f)
  PROVE  \/ conditions' = conditions /\ delay' = 1
         \/ /\ delay' = 1 /\ conditions' \in Listed(Condition)
            /\ Has(conditions', "Ready") /\ Has(conditions', "Reconciled")
         \/ Waited(conditions' # conditions)
<1> DEFINE r == Succeeded(Held, f)
           w == UpdatedInterval(config, Atoi(Longest(config, r.conditions)),
                                LatestTransition(r.conditions))
<1>1. /\ IsStatus(Held) /\ config \in Configs /\ Held.conditions = conditions
  BY DEF Held, IsStatus, ConditionsOK
<1>2. \/ conditions' = conditions /\ delay' = 1
      \/ conditions' = Nested(Held).conditions /\ delay' = 1
      \/ conditions' = r.conditions /\ delay' = r.delay
  BY DEF Succeed, Store, Nested, Reconciled
<1>3. CASE conditions' = Nested(Held).conditions /\ delay' = 1
  <2> DEFINE q == Nested(Held)
  <2>1. /\ IsStatus(q) /\ Has(q.conditions, "Reconciled")
        /\ Says(q, "Ready", FALSE, <<"not reconciled", 0>>)
    BY <1>1, AfterNested DEF ConditionsOK
  <2> HIDE DEF q
  <2>2. conditions' = q.conditions
    BY <1>3 DEF q
  <2> QED
    BY <1>3, <2>1, <2>2 DEF IsStatus, Says
<1>4. CASE conditions' = r.conditions /\ delay' = r.delay
  <2>1. Coherent(r)
    <3> HIDE DEF r
    <3> QED
      BY <1>1, AfterSucceeded DEF ConditionsOK, r
  <2>2. /\ r.delay \in {ResetInterval(config), w}
        /\ Has(conditions, "Reconciled") /\ Has(conditions, "ResourcesReady")
           /\ Has(conditions, "Ready") => r.delay = w
    <3> HIDE DEF r
    <3> QED
      BY <1>1, SucceededWaits DEF ConditionsOK, r
  <2> HIDE DEF r
  <2>3. /\ conditions' \in Listed(Condition) /\ Has(conditions', "Ready")
        /\ Has(conditions', "Reconciled") /\ Has(conditions', "ResourcesReady")
        /\ ~NotReconciledYet(conditions')
    BY <1>4, <2>1 DEF Coherent, IsStatus, ReconciledButLookup, NotReconciledYet
  <2>4. Wait(config, conditions') = w
    BY <1>4 DEF Wait
  <2> HIDE DEF w
  <2>5. delay' \in {ResetInterval(config), Wait(config, conditions')}
    BY <1>4, <2>2, <2>4
  <2>6. ~(conditions' # conditions) => delay' = NextWait(config, conditions')
    BY <1>4, <2>2, <2>3, <2>4 DEF NextWait
  <2> QED
    BY <2>3, <2>5, <2>6 DEF Waited
<1> QED
  BY <1>2, <1>3, <1>4

\* The values of the ConfigMap are whole seconds: the precondition that
\* updateReconcileInterval states (reconciler.go:295).  CheckValidValue accepts others,
\* and Atoi takes them for 0.
WholeSeconds ==
  \A c \in Configs : {c.min, c.failureMax, c.successMax} \subseteq {10 * n : n \in Nat}

\* For whole seconds the two parsers agree, and neither makes a configured value 0.
LEMMA WholeNumbers ==
  ASSUME WholeSeconds, NEW c \in Configs, NEW v \in {c.min, c.failureMax, c.successMax}
  PROVE  v \in Nat \ {0} /\ Atoi(v) \in Nat \ {0} /\ Floor(v) = Atoi(v) /\ 10 * Atoi(v) = v
<1>1. v \in Nat \ {0} /\ v \in {10 * n : n \in Nat}
  BY ConfigNumbers DEF WholeSeconds
<1>2. PICK n \in Nat : v = 10 * n
  BY <1>1
<1> QED
  BY <1>1, <1>2 DEF Atoi, Floor

\* The waits are those asked for, in whole seconds.
LEMMA WaitBounds ==
  ASSUME WholeSeconds, config \in Configs, NEW cs \in Listed(Condition), NEW t, Has(cs, t)
  PROVE  LET w    == Wait(config, cs)
             most == Longest(config, cs)
         IN /\ w \in Nat \ {0} /\ ResetInterval(config) \in Nat \ {0}
            /\ 10 * ResetInterval(config) = config.min
            /\ AtMost(config.min, most) <= 10 * w /\ 10 * w <= AtLeast(config.min, most)
            /\ \/ 10 * w <= config.min
               \/ w * config.den <= LatestTransition(cs) * config.num
            /\ config.min <= most => ResetInterval(config) <= w
<1> DEFINE w    == Wait(config, cs)
           most == Longest(config, cs)
           x    == LatestTransition(cs)
<1>1. most \in {config.failureMax, config.successMax}
  BY DEF Longest
<1> HIDE DEF most
<1>2. /\ config.min \in Nat \ {0} /\ Floor(config.min) \in Nat \ {0}
      /\ 10 * Floor(config.min) = config.min /\ ResetInterval(config) = Floor(config.min)
      /\ most \in Nat \ {0} /\ Atoi(most) \in Nat \ {0} /\ 10 * Atoi(most) = most
  BY <1>1, WholeNumbers DEF ResetInterval
<1>3. x \in 0 .. MaxAge(config)
  BY TimeUnchanged
<1>4. w = UpdatedInterval(config, Atoi(most), x)
  BY DEF Wait, most
<1> HIDE DEF w, x
<1>5. /\ w \in Nat
      /\ AtMost(Floor(config.min), Atoi(most)) <= w
      /\ w <= AtLeast(Floor(config.min), Atoi(most))
      /\ 10 * w <= config.min \/ w * config.den <= x * config.num
  BY <1>2, <1>3, <1>4, UpdatedBounds
<1>6. /\ w # 0 /\ AtMost(config.min, most) <= 10 * w /\ 10 * w <= AtLeast(config.min, most)
      /\ config.min <= most => Floor(config.min) <= w
  BY <1>2, <1>5 DEF AtMost, AtLeast
<1> QED
  BY <1>2, <1>5, <1>6 DEF w, most, x

\* Every reconcile asks for another, if the values are whole seconds.
THEOREM AlwaysReconciled == ASSUME WholeSeconds PROVE Spec => []PeriodicallyReconciled
<1>1. Init => PeriodicallyReconciled
  BY DEF Init, PeriodicallyReconciled
<1>2. ConditionsOK /\ WaitsOK /\ PeriodicallyReconciled /\ [Next]_vars => PeriodicallyReconciled'
  <2> SUFFICES ASSUME ConditionsOK, WaitsOK, requeued, [Next]_vars PROVE requeued'
    BY DEF PeriodicallyReconciled
  <2>1. ASSUME NEW e \in Errors, Fail(e) PROVE requeued'
    BY <2>1 DEF Fail
  <2>2. ASSUME NEW f \in BOOLEAN, Succeed(f) PROVE requeued'
    <3>1. delay' = 1 \/ Waited(conditions' # conditions)
      BY <2>2, SucceedWaits
    <3>2. ASSUME Waited(conditions' # conditions) PROVE delay' \in Nat \ {0}
      <4>1. /\ conditions' \in Listed(Condition) /\ Has(conditions', "Ready")
            /\ delay' \in {ResetInterval(config), Wait(config, conditions')}
        BY <3>2 DEF Waited
      <4>2. Wait(config, conditions') \in Nat \ {0} /\ ResetInterval(config) \in Nat \ {0}
        BY <4>1, WaitBounds DEF ConditionsOK
      <4> QED
        BY <4>1, <4>2
    <3>3. delay' > 0
      BY <3>1, <3>2
    <3>4. requeued' = (delay' > 0)
      BY <2>2 DEF Succeed
    <3> QED
      BY <3>3, <3>4, Zenon
  <2>3. CASE Elapse \/ WorkloadChanges \/ WarningChanges \/ UNCHANGED vars
    BY <2>3 DEF Elapse, WorkloadChanges, WarningChanges, vars
  <2> QED
    BY <2>1, <2>2, <2>3, SucceedsOrFails
<1> QED
  BY <1>1, <1>2, ConditionsAlwaysOK, WaitsAlwaysOK, PTL DEF Spec, PeriodicallyReconciled

\* The wait stays between the minimum and the maximum, and within what the configured
\* increase makes of the time the status has stood unchanged.
THEOREM DelaysWithinBounds == ASSUME WholeSeconds PROVE Spec => DelayWithinBounds
<1> DEFINE Within ==
      Reconciles /\ delay' # 1 =>
        LET most    == IF IsTrue(conditions', "Ready") THEN config.successMax
                       ELSE config.failureMax
            elapsed == LatestTransition(conditions')
        IN  /\ 10 * delay' >= AtMost(config.min, most)
            /\ 10 * delay' <= AtLeast(config.min, most)
            /\ \/ 10 * delay' <= config.min
               \/ delay' * config.den <= elapsed * config.num
<1>1. ConditionsOK /\ WaitsOK /\ [Next]_vars => [Within]_vars
  <2> SUFFICES ASSUME ConditionsOK, WaitsOK, Reconciles, delay' # 1 PROVE Within
    OBVIOUS
  <2>1. Waited(conditions' # conditions)
    BY FailWaits, SucceedWaits DEF Reconciles
  <2> DEFINE most == Longest(config, conditions')
             w    == Wait(config, conditions')
             x    == LatestTransition(conditions')
  <2>2. /\ w \in Nat \ {0} /\ ResetInterval(config) \in Nat \ {0}
        /\ 10 * ResetInterval(config) = config.min
        /\ AtMost(config.min, most) <= 10 * w /\ 10 * w <= AtLeast(config.min, most)
        /\ 10 * w <= config.min \/ w * config.den <= x * config.num
    BY <2>1, WaitBounds DEF Waited, ConditionsOK
  <2>3. most \in Nat \ {0} /\ config.min \in Nat \ {0}
    BY ConfigNumbers DEF Longest, ConditionsOK
  <2>4. delay' = w \/ delay' = ResetInterval(config)
    BY <2>1 DEF Waited
  <2> HIDE DEF most, w, x
  <2>5. /\ 10 * delay' >= AtMost(config.min, most) /\ 10 * delay' <= AtLeast(config.min, most)
        /\ 10 * delay' <= config.min \/ delay' * config.den <= x * config.num
    <3>1. CASE delay' = w
      <4>1. AtMost(config.min, most) \in Int
        BY <2>3 DEF AtMost
      <4> QED
        BY <2>2, <3>1, <4>1
    <3>2. CASE delay' = ResetInterval(config)
      BY <2>2, <2>3, <3>2 DEF AtMost, AtLeast
    <3> QED
      BY <2>4, <3>1, <3>2
  <2> QED
    BY <2>5 DEF most, x, Longest
<1> QED
  BY <1>1, ConditionsAlwaysOK, WaitsAlwaysOK, PTL DEF Spec, DelayWithinBounds

\* As time passes, the wait after the status there is gets no shorter.
LEMMA ElapseWaits ==
  ASSUME WholeSeconds, ConditionsOK, Elapse, conditions # << >>, Has(conditions, "Ready"),
         config.min <= AtMost(config.failureMax, config.successMax)
  PROVE  NextWait(config, conditions) <= NextWait(config, conditions')
<1> DEFINE cs == conditions
           r  == conditions'
<1>1. /\ config \in Configs /\ cs \in Listed(Condition) /\ r \in Listed(Condition)
      /\ Has(r, "Ready") /\ Has(cs, "Ready")
      /\ IsTrue(r, "Ready") <=> IsTrue(cs, "Ready")
      /\ NotReconciledYet(r) <=> NotReconciledYet(cs)
  BY ElapseKeeps DEF ConditionsOK, IsTrue, NotReconciledYet
<1>2. LatestTransition(cs) <= LatestTransition(r)
  <2>1. /\ DOMAIN r = DOMAIN cs
        /\ \A i \in DOMAIN cs : r[i] = [cs[i] EXCEPT !.age = AtMost(@ + 1, MaxAge(config))]
    BY DEF Elapse
  <2>2. PICK d \in Elements(r) : LatestTransition(r) = d.age
    BY <1>1, ConditionSet, Latest
  <2>3. PICK i \in DOMAIN cs : d = r[i]
    BY <2>1, <2>2 DEF Elements
  <2>4. cs[i] \in Condition /\ cs[i] \in Elements(cs)
    BY <1>1, ElementsOf DEF Elements
  <2>5. cs[i].age \in 0 .. MaxAge(config) /\ MaxAge(config) \in Nat
    BY <1>1, <2>4, ConfigNumbers DEF Condition
  <2>6. r[i].age = AtMost(cs[i].age + 1, MaxAge(config))
    BY <2>1, <2>3, <2>4 DEF Condition
  <2>7. cs[i].age <= r[i].age
    BY <2>5, <2>6 DEF AtMost
  <2>8. LatestTransition(cs) <= cs[i].age /\ LatestTransition(cs) \in 0 .. MaxAge(config)
    BY <1>1, <2>4, ConditionSet, Latest, TimeUnchanged
  <2> QED
    BY <2>2, <2>3, <2>5, <2>6, <2>7, <2>8 DEF AtMost
<1>3. LatestTransition(cs) \in 0 .. MaxAge(config) /\ LatestTransition(r) \in 0 .. MaxAge(config)
  BY <1>1, TimeUnchanged
<1> HIDE DEF cs, r
<1> DEFINE most == Longest(config, cs)
<1>4. Longest(config, r) = most
  BY <1>1 DEF Longest
<1>5. Floor(config.min) <= Atoi(most) /\ Atoi(most) \in Nat
  <2>1. /\ most \in {config.failureMax, config.successMax} /\ config.min <= most
        /\ most \in Nat \ {0} /\ config.min \in Nat \ {0}
    BY <1>1, ConfigNumbers DEF Longest, AtMost
  <2> HIDE DEF most
  <2>2. 10 * Floor(config.min) = config.min /\ 10 * Atoi(most) = most /\ Atoi(most) \in Nat
    BY <1>1, <2>1, WholeNumbers
  <2>3. Floor(config.min) \in Nat
    BY <2>1, AtoiNumbers
  <2> QED
    BY <2>1, <2>2, <2>3
<1>6. Wait(config, cs) <= Wait(config, r)
  <2> HIDE DEF most
  <2> QED
    BY <1>1, <1>2, <1>3, <1>4, <1>5, UpdatedBounds DEF Wait, most
<1>7. ResetInterval(config) <= ResetInterval(config)
  BY <1>1, WholeNumbers DEF ResetInterval
<1> QED
  BY <1>1, <1>6, <1>7 DEF NextWait, cs, r

\* What makes it grow: the last wait is no longer than the next one after the status
\* there is.
Grown ==
  conditions # << >> =>
    /\ Has(conditions, "Ready") /\ Has(conditions, "Reconciled")
    /\ config.min <= AtMost(config.failureMax, config.successMax)
       => delay <= NextWait(config, conditions)

\* Every step keeps the wait below what the next reconcile would compute: the list of
\* conditions only gets older, and a change of it starts over from the minimum.
LEMMA GrownNext ==
  ASSUME WholeSeconds
  PROVE  ConditionsOK /\ WaitsOK /\ Grown /\ [Next]_vars => Grown'
<1> SUFFICES ASSUME ConditionsOK, WaitsOK, Grown, [Next]_vars, conditions' # << >>
             PROVE  /\ Has(conditions', "Ready") /\ Has(conditions', "Reconciled")
                    /\ config'.min <= AtMost(config'.failureMax, config'.successMax)
                       => delay' <= NextWait(config', conditions')
  BY DEF Grown
<1>0. config' = config
  BY DEF Next, Fail, Succeed, Elapse, WorkloadChanges, WarningChanges, vars
<1> DEFINE Goal == /\ Has(conditions', "Ready") /\ Has(conditions', "Reconciled")
                   /\ config.min <= AtMost(config.failureMax, config.successMax)
                      => delay' <= NextWait(config, conditions')
<1> SUFFICES Goal
  BY <1>0
<1>1. ASSUME NEW cs \in Listed(Condition), Has(cs, "Ready")
      PROVE  /\ NextWait(config, cs) \in Nat \ {0}
             /\ config.min <= AtMost(config.failureMax, config.successMax)
                => ResetInterval(config) <= NextWait(config, cs)
  <2>1. /\ Wait(config, cs) \in Nat \ {0} /\ ResetInterval(config) \in Nat \ {0}
        /\ config.min <= Longest(config, cs) => ResetInterval(config) <= Wait(config, cs)
    BY <1>1, WaitBounds DEF ConditionsOK
  <2>2. config.min <= AtMost(config.failureMax, config.successMax)
        => config.min <= Longest(config, cs)
    BY ConfigNumbers DEF ConditionsOK, AtMost, Longest
  <2> QED
    BY <2>1, <2>2 DEF NextWait
<1>2. CASE conditions' = conditions /\ delay' = 1
  <2>1. Has(conditions', "Ready") /\ Has(conditions', "Reconciled")
    BY <1>2 DEF Grown
  <2>2. NextWait(config, conditions') \in Nat \ {0}
    BY <1>1, <1>2, <2>1 DEF ConditionsOK
  <2> QED
    BY <1>2, <2>1, <2>2
<1>3. CASE /\ delay' = 1 /\ conditions' \in Listed(Condition)
           /\ Has(conditions', "Ready") /\ Has(conditions', "Reconciled")
  <2>1. NextWait(config, conditions') \in Nat \ {0}
    BY <1>1, <1>3
  <2> QED
    BY <1>3, <2>1
<1>4. ASSUME NEW fresh \in BOOLEAN, Waited(fresh) PROVE Goal
  <2>1. /\ conditions' \in Listed(Condition)
        /\ Has(conditions', "Ready") /\ Has(conditions', "Reconciled")
        /\ delay' \in {ResetInterval(config), Wait(config, conditions')}
        /\ ~config.show /\ NotReconciledYet(conditions') => delay' = ResetInterval(config)
    BY <1>4 DEF Waited
  <2>2. delay' \in {ResetInterval(config), NextWait(config, conditions')}
    BY <2>1 DEF NextWait
  <2>3. NextWait(config, conditions') \in Nat
    BY <1>1, <2>1
  <2> QED
    BY <1>1, <2>1, <2>2, <2>3
<1>5. ASSUME NEW e \in Errors, Fail(e) PROVE Goal
  BY <1>2, <1>4, <1>5, FailWaits
<1>6. ASSUME NEW f \in BOOLEAN, Succeed(f) PROVE Goal
  BY <1>2, <1>3, <1>4, <1>6, SucceedWaits
<1>7. CASE Elapse
  <2>1. \A t : Has(conditions', t) <=> Has(conditions, t)
    BY <1>7, ElapseKeeps
  <2>2. conditions # << >>
    BY <1>7, <2>1, ElapseKeeps, NotEmpty DEF ConditionsOK
  <2>3. Has(conditions, "Ready") /\ Has(conditions, "Reconciled")
    BY <2>2 DEF Grown
  <2>4. ASSUME config.min <= AtMost(config.failureMax, config.successMax)
        PROVE  delay' <= NextWait(config, conditions')
    <3>1. delay <= NextWait(config, conditions) /\ delay' = delay /\ delay \in Nat
      BY <1>7, <2>2, <2>4 DEF Grown, Elapse, WaitsOK
    <3>2. NextWait(config, conditions) <= NextWait(config, conditions')
      BY <1>7, <2>2, <2>3, <2>4, ElapseWaits
    <3>3. NextWait(config, conditions) \in Nat /\ NextWait(config, conditions') \in Nat
      BY <1>1, <1>7, <2>1, <2>3, ElapseKeeps DEF ConditionsOK
    <3> QED
      BY <3>1, <3>2, <3>3
  <2> QED
    BY <2>1, <2>3, <2>4
<1>8. CASE WorkloadChanges \/ WarningChanges \/ UNCHANGED vars
  <2>1. UNCHANGED <<conditions, delay>>
    BY <1>8 DEF WorkloadChanges, WarningChanges, vars
  <2> QED
    BY <2>1 DEF Grown
<1> QED
  BY <1>5, <1>6, <1>7, <1>8, SucceedsOrFails

\* While nothing changes the wait never gets shorter.
THEOREM DelaysGrow == ASSUME WholeSeconds PROVE Spec => DelayGrows
<1>1. Init => Grown
  BY DEF Init, Grown
<1>2. Spec => []Grown
  BY <1>1, GrownNext, ConditionsAlwaysOK, WaitsAlwaysOK, PTL DEF Spec
<1> DEFINE Grows == Repeats /\ delay' # 1
                    /\ config.min <= AtMost(config.failureMax, config.successMax)
                    => delay' >= delay
<1>3. ConditionsOK /\ WaitsOK /\ Grown /\ [Next]_vars => [Grows]_vars
  <2> SUFFICES ASSUME ConditionsOK, WaitsOK, Grown, Reconciles, conditions # << >>,
                      conditions' = conditions, delay' # 1,
                      config.min <= AtMost(config.failureMax, config.successMax)
               PROVE  delay' >= delay
    BY DEF Repeats
  <2>1. Waited(conditions' # conditions)
    BY FailWaits, SucceedWaits DEF Reconciles
  <2>2. delay' = NextWait(config, conditions)
    BY <2>1 DEF Waited
  <2>3. delay <= NextWait(config, conditions)
    BY DEF Grown
  <2>4. NextWait(config, conditions) \in Nat
    <3>1. conditions \in Listed(Condition) /\ Has(conditions, "Ready")
      BY <2>1 DEF Waited
    <3>2. Wait(config, conditions) \in Nat /\ ResetInterval(config) \in Nat
      BY <3>1, WaitBounds DEF ConditionsOK
    <3> QED
      BY <3>2 DEF NextWait
  <2> QED
    BY <2>2, <2>3, <2>4 DEF WaitsOK
<1> QED
  BY <1>2, <1>3, ConditionsAlwaysOK, WaitsAlwaysOK, PTL DEF Spec, DelayGrows
=============================================================================
