-------------------------- MODULE StatusConditions --------------------------
(***************************************************************************)
(* The list of conditions in the status of a RuntimeComponent, and the     *)
(* functions of api/v1/runtimecomponent_types.go that read and change it.  *)
(*                                                                         *)
(* A condition keeps, in place of its last transition time, the seconds    *)
(* that have passed since.  Message and reason always change together and  *)
(* are one message here.                                                   *)
(***************************************************************************)
EXTENDS Integers, Sequences, FiniteSetsExt

Types == {"Ready", "Reconciled", "ResourcesReady", "Warning"}

\* Ready comes first, the others in alphabetical order.
Rank(type) == CASE type = "Ready"          -> 1
                [] type = "Reconciled"     -> 2
                [] type = "ResourcesReady" -> 3
                [] type = "Warning"        -> 4

Before(c, d) == Rank(c.type) < Rank(d.type)

\* Fault: the transition time is rounded up.
RoundedUp(type, isTrue, message) ==
  [type |-> type, isTrue |-> isTrue, message |-> message, age |-> -1]

NewCondition(type, isTrue, message) ==
  [type |-> type, isTrue |-> isTrue, message |-> message, age |-> 0]

Has(conditions, type) == \E i \in DOMAIN conditions : conditions[i].type = type

GetCondition(conditions, type) ==
  conditions[CHOOSE i \in DOMAIN conditions : conditions[i].type = type]

IsTrue(conditions, type) ==
  Has(conditions, type) /\ GetCondition(conditions, type).isTrue

InOrder(list) == \A i, j \in DOMAIN list : i < j => Before(list[i], list[j])

Elements(list) == {list[i] : i \in DOMAIN list}

\* The conditions of a list in the order of their ranks.  (There is one of each
\* type, so there is one such list.)
Sorted(list) ==
  IF InOrder(list) THEN list
  ELSE CHOOSE s \in [DOMAIN list -> Elements(list)] :
         InOrder(s) /\ Elements(s) = Elements(list)

SameContent(c, d) == c.isTrue = d.isTrue /\ c.message = d.message

\* Fault: a new condition is appended, and the list not sorted.
SetUnsorted(conditions, c) ==
  IF ~Has(conditions, c.type) THEN Append(conditions, c)
  ELSE [i \in DOMAIN conditions |->
          IF conditions[i].type # c.type THEN conditions[i]
          ELSE [c EXCEPT !.age = IF SameContent(conditions[i], c)
                                 THEN conditions[i].age ELSE 0]]

\* SetCondition: the condition changes in place or is appended, its transition
\* time moves when its content changes, and the list is sorted again.
SetCondition(conditions, c) ==
  LET inPlace == [i \in DOMAIN conditions |->
                    IF conditions[i].type # c.type THEN conditions[i]
                    ELSE [c EXCEPT !.age = IF SameContent(conditions[i], c)
                                           THEN conditions[i].age ELSE 0]]
  IN  Sorted(IF Has(conditions, c.type) THEN inPlace ELSE Append(conditions, c))

\* UnsetCondition keeps only one of the conditions behind the one it removes.
UnsetCondition(conditions, type) ==
  IF ~Has(conditions, type) THEN conditions
  ELSE LET i == CHOOSE n \in DOMAIN conditions : conditions[n].type = type
           kept == SubSeq(conditions, 1, i - 1)
       IN  IF i = Len(conditions) THEN kept ELSE Append(kept, conditions[i + 1])

\* GetLatestTransitionTime, as an age.
LatestTransition(conditions) == Min({conditions[i].age : i \in DOMAIN conditions})
=============================================================================
