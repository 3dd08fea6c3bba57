----------------------- MODULE StatusConditionsProofs -----------------------
(***************************************************************************)
(* What SetCondition and UnsetCondition do to a list of conditions, for    *)
(* lists of any conditions in the order the code keeps them in.            *)
(***************************************************************************)
EXTENDS StatusConditions, WellFoundedInduction, TLAPS

\* The lists of conditions from C that are in order: there is at most one
\* condition of each type.
Listed(C) == {cs \in Seq(C) : InOrder(cs)}

\* A set of conditions: with one condition it has every other of the same type.
Conditions(C) ==
  \A c \in C : /\ c = [type |-> c.type, isTrue |-> c.isTrue, message |-> c.message, age |-> c.age]
               /\ c.type \in Types
-----------------------------------------------------------------------------
\* A set of natural numbers that is not empty has a least element.
LEMMA LeastElement ==
  ASSUME NEW S \in SUBSET Nat, S # {}
  PROVE  \E m \in S : \A n \in S : m <= n
<1> DEFINE Less == {ss \in Nat \X Nat : ss[1] < ss[2]}
<1>1. IsWellFoundedOn(Less, Nat)
  BY NatLessThanWellFounded DEF OpToRel
<1>2. PICK m \in S : \A n \in S : <<n, m>> \notin Less
  <2> HIDE DEF Less
  <2> QED
    BY <1>1, WFMin
<1>3. ASSUME NEW n \in S PROVE m <= n
  <2>1. <<n, m>> \in Nat \X Nat /\ <<n, m>> \notin Less
    BY <1>2
  <2>2. ~(n < m)
    BY <2>1
  <2>3. n \in Int /\ m \in Int
    OBVIOUS
  <2> QED
    BY <2>2, <2>3
<1> QED
  BY <1>3

\* The types are ranked one after the other.
LEMMA Ranks ==
  /\ Rank("Ready") = 1 /\ Rank("Reconciled") = 2
  /\ Rank("ResourcesReady") = 3 /\ Rank("Warning") = 4
  /\ \A t \in Types : Rank(t) \in 1 .. 4
  /\ \A t, u \in Types : Rank(t) = Rank(u) => t = u
<1>1. Rank("Ready") = 1
  BY DEF Rank
<1>2. Rank("Reconciled") = 2
  BY DEF Rank
<1>3. Rank("ResourcesReady") = 3
  BY DEF Rank
<1>4. Rank("Warning") = 4
  BY DEF Rank
<1> QED
  BY <1>1, <1>2, <1>3, <1>4 DEF Types

\* A list in order has one condition of a type, the one GetCondition returns.
LEMMA TheCondition ==
  ASSUME NEW C, Conditions(C), NEW cs \in Listed(C), NEW i \in DOMAIN cs
  PROVE  /\ Has(cs, cs[i].type) /\ GetCondition(cs, cs[i].type) = cs[i]
         /\ \A j \in DOMAIN cs : cs[j].type = cs[i].type => j = i
<1>1. ASSUME NEW j \in DOMAIN cs, cs[j].type = cs[i].type PROVE j = i
  <2>1. /\ i \in Int /\ j \in Int /\ cs[i].type \in Types
    BY DEF Listed, Conditions
  <2>2. ~(Rank(cs[i].type) < Rank(cs[j].type)) /\ ~(Rank(cs[j].type) < Rank(cs[i].type))
    BY <1>1, <2>1, Ranks
  <2>3. ~(i < j) /\ ~(j < i)
    BY <2>2 DEF Listed, InOrder, Before
  <2> QED
    BY <2>1, <2>3
<1>2. i = CHOOSE n \in DOMAIN cs : cs[n].type = cs[i].type
  BY <1>1
<1> QED
  BY <1>1, <1>2 DEF Has, GetCondition

\* What is in a list, and what is found in it.
LEMMA Lookup ==
  ASSUME NEW C, Conditions(C), NEW cs \in Listed(C), NEW t
  PROVE  /\ Has(cs, t) <=> \E d \in Elements(cs) : d.type = t
         /\ Has(cs, t) => GetCondition(cs, t) \in Elements(cs) /\ GetCondition(cs, t).type = t
         /\ \A d \in Elements(cs) : d.type = t => GetCondition(cs, t) = d
BY TheCondition DEF Has, Elements

\* The elements of a list are conditions.
LEMMA ElementsOf ==
  ASSUME NEW C, NEW cs \in Listed(C)
  PROVE  /\ Elements(cs) \subseteq C /\ cs \in Seq(C) /\ InOrder(cs)
         /\ DOMAIN cs = 1 .. Len(cs) /\ Len(cs) \in Nat
BY DEF Elements, Listed

\* There is a place for a condition of a new type.
LEMMA Place ==
  ASSUME NEW C, Conditions(C), NEW cs \in Listed(C), NEW c \in C, ~Has(cs, c.type)
  PROVE  \E m \in 1 .. Len(cs) + 1 :
           /\ \A i \in 1 .. m - 1 : Before(cs[i], c)
           /\ \A i \in m .. Len(cs) : Before(c, cs[i])
<1> DEFINE Behind == {i \in DOMAIN cs : Before(c, cs[i])}
<1>1. DOMAIN cs = 1 .. Len(cs) /\ Len(cs) \in Nat
  BY ElementsOf
<1>2. \A i \in DOMAIN cs : Before(cs[i], c) \/ Before(c, cs[i])
  <2> SUFFICES ASSUME NEW i \in DOMAIN cs PROVE Before(cs[i], c) \/ Before(c, cs[i])
    OBVIOUS
  <2>1. cs[i].type \in Types /\ c.type \in Types /\ cs[i].type # c.type
    BY DEF Listed, Conditions, Has
  <2>2. Rank(cs[i].type) \in Int /\ Rank(c.type) \in Int /\ Rank(cs[i].type) # Rank(c.type)
    BY <2>1, Ranks
  <2> QED
    BY <2>2 DEF Before
<1>3. CASE Behind = {}
  <2>1. \A i \in 1 .. Len(cs) : Before(cs[i], c)
    BY <1>1, <1>2, <1>3
  <2> WITNESS Len(cs) + 1 \in 1 .. Len(cs) + 1
  <2> QED
    BY <1>1, <2>1
<1>4. CASE Behind # {}
  <2>1. PICK m \in Behind : \A n \in Behind : m <= n
    <3>1. Behind \in SUBSET Nat
      BY <1>1
    <3> QED
      BY <1>4, <3>1, LeastElement
  <2>2. \A i \in 1 .. m - 1 : Before(cs[i], c)
    BY <1>1, <1>2, <2>1
  <2>3. ASSUME NEW i \in m .. Len(cs) PROVE Before(c, cs[i])
    <3>1. i \in DOMAIN cs /\ m \in DOMAIN cs /\ Before(c, cs[m])
      BY <1>1, <2>1
    <3>2. CASE i = m
      BY <3>1, <3>2
    <3>3. CASE i # m
      <4>1. Before(cs[m], cs[i])
        BY <1>1, <3>1, <3>3 DEF Listed, InOrder
      <4>2. c.type \in Types /\ cs[m].type \in Types /\ cs[i].type \in Types
        BY <3>1 DEF Listed, Conditions
      <4> QED
        BY <3>1, <4>1, <4>2, Ranks DEF Before
    <3> QED
      BY <3>2, <3>3
  <2> QED
    BY <1>1, <2>1, <2>2, <2>3
<1> QED
  BY <1>3, <1>4

\* A list in order with a condition of a new type behind it can be put in order.
LEMMA Insertion ==
  ASSUME NEW C, Conditions(C), NEW cs \in Listed(C), NEW c \in C, ~Has(cs, c.type)
  PROVE  LET list == Append(cs, c)
         IN \E s \in [DOMAIN list -> Elements(list)] :
              InOrder(s) /\ Elements(s) = Elements(list)
<1> DEFINE list == Append(cs, c)
           n == Len(cs)
<1>1. cs \in Seq(C) /\ DOMAIN cs = 1 .. n /\ n \in Nat /\ InOrder(cs)
  BY ElementsOf
<1>2. /\ DOMAIN list = 1 .. n + 1 /\ list[n + 1] = c
      /\ \A i \in 1 .. n : list[i] = cs[i]
  BY <1>1
<1>3. PICK m \in 1 .. n + 1 : /\ \A i \in 1 .. m - 1 : Before(cs[i], c)
                             /\ \A i \in m .. n : Before(c, cs[i])
  BY Place
<1> DEFINE s == [i \in 1 .. n + 1 |-> IF i < m THEN cs[i] ELSE IF i = m THEN c ELSE cs[i - 1]]
<1> HIDE DEF list, n
<1>4. /\ DOMAIN s = 1 .. n + 1 /\ s[m] = c
      /\ \A i \in 1 .. m - 1 : s[i] = cs[i]
      /\ \A i \in m + 1 .. n + 1 : s[i] = cs[i - 1]
  BY <1>1
<1> HIDE DEF s
<1>5. ASSUME NEW i \in 1 .. n + 1
      PROVE  \/ i \in 1 .. m - 1 /\ i \in 1 .. n
             \/ i = m
             \/ i \in m + 1 .. n + 1 /\ i - 1 \in m .. n /\ i - 1 \in 1 .. n
  BY <1>1
<1>6. InOrder(s)
  <2> SUFFICES ASSUME NEW i \in 1 .. n + 1, NEW j \in 1 .. n + 1, i < j
               PROVE  Before(s[i], s[j])
    BY <1>4 DEF InOrder
  <2>1. CASE i \in 1 .. m - 1 /\ j \in 1 .. m - 1
    BY <1>1, <1>4, <2>1 DEF InOrder
  <2>2. CASE i \in 1 .. m - 1 /\ j = m
    BY <1>3, <1>4, <2>2
  <2>3. CASE i \in 1 .. m - 1 /\ j \in m + 1 .. n + 1
    <3>1. i \in 1 .. n /\ j - 1 \in 1 .. n /\ i < j - 1
      BY <1>1, <2>3
    <3> QED
      BY <1>1, <1>4, <2>3, <3>1 DEF InOrder
  <2>4. CASE i = m /\ j \in m + 1 .. n + 1
    <3>1. j - 1 \in m .. n
      BY <1>1, <2>4
    <3> QED
      BY <1>3, <1>4, <2>4, <3>1
  <2>5. CASE i \in m + 1 .. n + 1 /\ j \in m + 1 .. n + 1
    <3>1. i - 1 \in 1 .. n /\ j - 1 \in 1 .. n /\ i - 1 < j - 1
      BY <1>1, <2>5
    <3> QED
      BY <1>1, <1>4, <2>5, <3>1 DEF InOrder
  <2> QED
    BY <1>1, <1>5, <2>1, <2>2, <2>3, <2>4, <2>5
<1>7. ASSUME NEW i \in 1 .. n + 1 PROVE s[i] \in Elements(list)
  <2>1. CASE i \in 1 .. n /\ s[i] = cs[i]
    BY <1>2, <2>1 DEF Elements
  <2>2. CASE i = m
    BY <1>1, <1>2, <1>4, <2>2 DEF Elements
  <2>3. CASE i - 1 \in 1 .. n /\ s[i] = cs[i - 1]
    BY <1>1, <1>2, <2>3 DEF Elements
  <2> QED
    BY <1>4, <1>5, <2>1, <2>2, <2>3
<1>8. ASSUME NEW i \in 1 .. n + 1 PROVE list[i] \in Elements(s)
  <2>1. CASE i = n + 1
    BY <1>2, <1>4, <2>1 DEF Elements
  <2>2. CASE i \in 1 .. n /\ i < m
    BY <1>1, <1>2, <1>4, <2>2 DEF Elements
  <2>3. CASE i \in 1 .. n /\ ~(i < m)
    <3>1. i + 1 \in m + 1 .. n + 1 /\ i + 1 \in 1 .. n + 1 /\ (i + 1) - 1 = i
      BY <1>1, <2>3
    <3>2. s[i + 1] = cs[i]
      BY <1>4, <3>1
    <3> QED
      BY <1>2, <1>4, <2>3, <3>1, <3>2 DEF Elements
  <2> QED
    BY <1>1, <2>1, <2>2, <2>3
<1>9. s \in [DOMAIN list -> Elements(list)]
  BY <1>2, <1>7 DEF s
<1>10. Elements(s) = Elements(list)
  BY <1>2, <1>4, <1>7, <1>8 DEF Elements
<1> QED
  BY <1>6, <1>9, <1>10 DEF list

\* Sorting a list that can be put in order does that, and nothing else.
LEMMA SortedList ==
  ASSUME NEW list,
         \E s \in [DOMAIN list -> Elements(list)] : InOrder(s) /\ Elements(s) = Elements(list)
  PROVE  /\ DOMAIN Sorted(list) = DOMAIN list
         /\ InOrder(Sorted(list)) /\ Elements(Sorted(list)) = Elements(list)
         /\ Sorted(list) = list \/ Sorted(list) \in [DOMAIN list -> Elements(list)]
BY DEF Sorted

\* The condition SetCondition leaves in a list: c, as old as the one before it if
\* that said the same.
Renewed(conditions, c) ==
  IF ~Has(conditions, c.type) THEN c
  ELSE [c EXCEPT !.age = IF SameContent(GetCondition(conditions, c.type), c)
                         THEN GetCondition(conditions, c.type).age ELSE 0]

\* C has with a condition the same one of any age that occurs in it, and anew.
AnyAge(C) ==
  \A c \in C : [c EXCEPT !.age = 0] \in C /\ \A d \in C : [c EXCEPT !.age = d.age] \in C

\* A changed or new condition keeps its type.
LEMMA RenewedCondition ==
  ASSUME NEW C, Conditions(C), AnyAge(C), NEW cs \in Listed(C), NEW c \in C
  PROVE  /\ Renewed(cs, c) \in C /\ Renewed(cs, c).type = c.type
         /\ Renewed(cs, c).isTrue = c.isTrue /\ Renewed(cs, c).message = c.message
<1> DEFINE d == GetCondition(cs, c.type)
<1>1. c = [type |-> c.type, isTrue |-> c.isTrue, message |-> c.message, age |-> c.age]
  BY DEF Conditions
<1>2. Has(cs, c.type) => d \in C
  BY Lookup, ElementsOf
<1>3. [c EXCEPT !.age = 0] \in C /\ (d \in C => [c EXCEPT !.age = d.age] \in C)
  BY DEF AnyAge
<1>4. Renewed(cs, c) \in {c, [c EXCEPT !.age = 0], [c EXCEPT !.age = d.age]}
  BY DEF Renewed
<1>5. \A x : /\ [c EXCEPT !.age = x].type = c.type
             /\ [c EXCEPT !.age = x].isTrue = c.isTrue
             /\ [c EXCEPT !.age = x].message = c.message
  BY <1>1
<1>6. Renewed(cs, c) \in C
  BY <1>2, <1>3 DEF Renewed
<1> QED
  BY <1>4, <1>5, <1>6

\* SetCondition changes or adds the condition of that type, no other, and leaves
\* the list in order.
LEMMA SetConditionElements ==
  ASSUME NEW C, Conditions(C), AnyAge(C), NEW cs \in Listed(C), NEW c \in C
  PROVE  /\ SetCondition(cs, c) \in Listed(C)
         /\ Elements(SetCondition(cs, c)) =
              {d \in Elements(cs) : d.type # c.type} \cup {Renewed(cs, c)}
<1> DEFINE inPlace == [i \in DOMAIN cs |->
                         IF cs[i].type # c.type THEN cs[i]
                         ELSE [c EXCEPT !.age = IF SameContent(cs[i], c)
                                                THEN cs[i].age ELSE 0]]
           list == IF Has(cs, c.type) THEN inPlace ELSE Append(cs, c)
<1>0. SetCondition(cs, c) = Sorted(list)
  BY DEF SetCondition
<1>1. cs \in Seq(C) /\ DOMAIN cs = 1 .. Len(cs) /\ Len(cs) \in Nat /\ InOrder(cs)
  BY ElementsOf
<1>2. Renewed(cs, c) \in C /\ Renewed(cs, c).type = c.type
  BY RenewedCondition
<1>3. CASE Has(cs, c.type)
  <2>1. \A i \in DOMAIN cs :
          inPlace[i] = IF cs[i].type # c.type THEN cs[i] ELSE Renewed(cs, c)
    BY <1>3, TheCondition DEF Renewed
  <2>2. \A i \in DOMAIN cs : inPlace[i] \in C /\ inPlace[i].type = cs[i].type
    BY <1>1, <1>2, <2>1
  <2>3. DOMAIN inPlace = DOMAIN cs
    OBVIOUS
  <2> HIDE DEF inPlace
  <2>4. inPlace \in Seq(C)
    <3>1. inPlace \in [1 .. Len(cs) -> C]
      BY <1>1, <2>2, <2>3 DEF inPlace
    <3> QED
      BY <1>1, <3>1
  <2>5. InOrder(inPlace)
    BY <1>1, <2>2, <2>3 DEF InOrder, Before
  <2>6. SetCondition(cs, c) = inPlace
    BY <1>0, <1>3, <2>5 DEF Sorted
  <2>7. \E i \in DOMAIN cs : cs[i].type = c.type
    BY <1>3 DEF Has
  <2>8. Elements(inPlace) = {d \in Elements(cs) : d.type # c.type} \cup {Renewed(cs, c)}
    BY <2>1, <2>3, <2>7 DEF Elements
  <2> QED
    BY <2>4, <2>5, <2>6, <2>8 DEF Listed
<1>4. CASE ~Has(cs, c.type)
  <2> DEFINE new == Append(cs, c)
             r == Sorted(new)
  <2>1. /\ DOMAIN r = DOMAIN new /\ InOrder(r) /\ Elements(r) = Elements(new)
        /\ r = new \/ r \in [DOMAIN new -> Elements(new)]
    <3> HIDE DEF new, r
    <3>1. \E s \in [DOMAIN new -> Elements(new)] : InOrder(s) /\ Elements(s) = Elements(new)
      BY <1>4, Insertion DEF new
    <3> QED
      BY <3>1, SortedList DEF r
  <2>2. new \in Seq(C) /\ DOMAIN new = 1 .. Len(cs) + 1 /\ new[Len(cs) + 1] = c
        /\ \A i \in 1 .. Len(cs) : new[i] = cs[i]
    BY <1>1
  <2>3. SetCondition(cs, c) = r
    BY <1>0, <1>4
  <2> HIDE DEF new, r
  <2>4. Elements(new) = Elements(cs) \cup {c}
    <3>1. ASSUME NEW i \in DOMAIN new PROVE new[i] \in Elements(cs) \cup {c}
      <4>1. i = Len(cs) + 1 \/ i \in 1 .. Len(cs)
        BY <1>1, <2>2
      <4> QED
        BY <1>1, <2>2, <4>1 DEF Elements
    <3>2. ASSUME NEW i \in DOMAIN cs PROVE cs[i] \in Elements(new)
      <4>1. i \in DOMAIN new /\ new[i] = cs[i]
        BY <1>1, <2>2
      <4> QED
        BY <4>1 DEF Elements
    <3>3. c \in Elements(new)
      <4>1. Len(cs) + 1 \in DOMAIN new
        BY <1>1, <2>2
      <4> QED
        BY <2>2, <4>1 DEF Elements
    <3> QED
      BY <3>1, <3>2, <3>3 DEF Elements
  <2>5. Elements(cs) = {d \in Elements(cs) : d.type # c.type}
    BY <1>4, Lookup
  <2>6. r \in Seq(C)
    <3>1. CASE r \in [DOMAIN new -> Elements(new)]
      <4>1. Elements(new) \subseteq C
        BY <2>4, ElementsOf
      <4>2. r \in [1 .. Len(cs) + 1 -> C] /\ Len(cs) + 1 \in Nat
        BY <1>1, <2>2, <3>1, <4>1
      <4> QED
        BY <4>2
    <3> QED
      BY <2>1, <2>2, <3>1
  <2>7. Renewed(cs, c) = c
    BY <1>4 DEF Renewed
  <2> QED
    BY <2>1, <2>3, <2>4, <2>5, <2>6, <2>7 DEF Listed
<1> QED
  BY <1>3, <1>4

\* Two lists that hold the same conditions of a type say the same of it.
LEMMA SameOfType ==
  ASSUME NEW C, Conditions(C), NEW cs \in Listed(C), NEW r \in Listed(C), NEW t,
         \A d : d.type = t => (d \in Elements(r) <=> d \in Elements(cs))
  PROVE  /\ Has(r, t) <=> Has(cs, t)
         /\ Has(cs, t) => GetCondition(r, t) = GetCondition(cs, t)
<1>1. Has(r, t) <=> Has(cs, t)
  BY Lookup
<1>2. ASSUME Has(cs, t) PROVE GetCondition(r, t) = GetCondition(cs, t)
  <2>1. GetCondition(cs, t) \in Elements(cs) /\ GetCondition(cs, t).type = t
    BY <1>2, Lookup
  <2>2. GetCondition(cs, t) \in Elements(r)
    BY <2>1
  <2> QED
    BY <2>1, <2>2, Lookup
<1> QED
  BY <1>1, <1>2

\* The same, as what is found in the list: the condition set, ...
LEMMA AfterSet ==
  ASSUME NEW C, Conditions(C), AnyAge(C), NEW cs \in Listed(C), NEW c \in C
  PROVE  LET r == SetCondition(cs, c)
         IN /\ r \in Listed(C)
            /\ Has(r, c.type) /\ GetCondition(r, c.type) = Renewed(cs, c)
            /\ GetCondition(r, c.type).isTrue = c.isTrue
            /\ GetCondition(r, c.type).message = c.message
<1> DEFINE r == SetCondition(cs, c)
<1>1. r \in Listed(C) /\ Elements(r) = {d \in Elements(cs) : d.type # c.type} \cup {Renewed(cs, c)}
  BY SetConditionElements
<1>2. /\ Renewed(cs, c).type = c.type /\ Renewed(cs, c).isTrue = c.isTrue
      /\ Renewed(cs, c).message = c.message
  BY RenewedCondition
<1> HIDE DEF r
<1>3. Has(r, c.type) /\ GetCondition(r, c.type) = Renewed(cs, c)
  BY <1>1, <1>2, Lookup
<1> QED
  BY <1>1, <1>2, <1>3 DEF r

\* ... and the others, which are what they were.
LEMMA OthersAfterSet ==
  ASSUME NEW C, Conditions(C), AnyAge(C), NEW cs \in Listed(C), NEW c \in C,
         NEW t, t # c.type
  PROVE  /\ Has(SetCondition(cs, c), t) <=> Has(cs, t)
         /\ Has(cs, t) => GetCondition(SetCondition(cs, c), t) = GetCondition(cs, t)
<1> DEFINE r == SetCondition(cs, c)
<1>1. r \in Listed(C) /\ Elements(r) = {d \in Elements(cs) : d.type # c.type} \cup {Renewed(cs, c)}
  BY SetConditionElements
<1>2. Renewed(cs, c).type = c.type
  BY RenewedCondition
<1> HIDE DEF r
<1>3. \A d : d.type = t => (d \in Elements(r) <=> d \in Elements(cs))
  BY <1>1, <1>2
<1>4. /\ Has(r, t) <=> Has(cs, t)
      /\ Has(cs, t) => GetCondition(r, t) = GetCondition(cs, t)
  BY <1>1, <1>3, SameOfType
<1> QED
  BY <1>4 DEF r

\* Warning is the last condition of a list in order, so taking it away takes away
\* nothing else.
LEMMA AfterUnset ==
  ASSUME NEW C, Conditions(C), NEW cs \in Listed(C)
  PROVE  LET r == UnsetCondition(cs, "Warning")
         IN /\ r \in Listed(C) /\ ~Has(r, "Warning")
            /\ Elements(r) = {d \in Elements(cs) : d.type # "Warning"}
<1> DEFINE r == UnsetCondition(cs, "Warning")
           n == Len(cs)
<1>1. cs \in Seq(C) /\ DOMAIN cs = 1 .. n /\ n \in Nat /\ InOrder(cs)
  BY ElementsOf
<1>2. CASE ~Has(cs, "Warning")
  <2>1. r = cs
    BY <1>2 DEF UnsetCondition
  <2>2. Elements(cs) = {d \in Elements(cs) : d.type # "Warning"}
    BY <1>2 DEF Elements, Has
  <2> QED
    BY <1>2, <2>1, <2>2
<1>3. CASE Has(cs, "Warning")
  <2>1. PICK i \in 1 .. n : cs[i].type = "Warning"
    BY <1>1, <1>3 DEF Has
  <2>2. \A j \in 1 .. n : cs[j].type = "Warning" => j = i
    BY <1>1, <2>1, TheCondition
  <2>3. i = CHOOSE m \in DOMAIN cs : cs[m].type = "Warning"
    BY <1>1, <2>1, <2>2
  <2>4. i = n
    <3> HIDE DEF n
    <3> SUFFICES ASSUME i # n PROVE FALSE
      OBVIOUS
    <3>1. n \in 1 .. n /\ i < n
      BY <1>1
    <3>2. Before(cs[i], cs[n])
      BY <1>1, <2>1, <3>1 DEF InOrder
    <3>3. cs[n].type \in Types
      BY <1>1, <3>1 DEF Conditions
    <3> QED
      BY <2>1, <3>2, <3>3, Ranks DEF Before
  <2>5. r = SubSeq(cs, 1, n - 1)
    BY <1>3, <2>3, <2>4 DEF UnsetCondition
  <2> HIDE DEF r, n
  <2>6. r \in Seq(C) /\ DOMAIN r = 1 .. n - 1 /\ \A j \in 1 .. n - 1 : r[j] = cs[j]
    BY <1>1, <2>1, <2>4, <2>5 DEF n
  <2>7. InOrder(r)
    BY <1>1, <2>6 DEF InOrder
  <2>8. r \in Listed(C)
    BY <2>6, <2>7 DEF Listed
  <2>9. Elements(r) = {d \in Elements(cs) : d.type # "Warning"}
    <3>1. ASSUME NEW j \in 1 .. n - 1
          PROVE  r[j] \in Elements(cs) /\ r[j].type # "Warning"
      BY <1>1, <2>1, <2>2, <2>4, <2>6, <3>1 DEF Elements
    <3>2. ASSUME NEW j \in 1 .. n, cs[j].type # "Warning" PROVE cs[j] \in Elements(r)
      <4>1. j \in 1 .. n - 1
        BY <1>1, <2>1, <2>4, <3>2
      <4> QED
        BY <2>6, <4>1 DEF Elements
    <3> QED
      BY <1>1, <2>6, <3>1, <3>2 DEF Elements
  <2>10. ~Has(r, "Warning")
    BY <2>8, <2>9, Lookup
  <2> QED
    BY <2>8, <2>9, <2>10 DEF r
<1> QED
  BY <1>2, <1>3

\* The latest transition is the age of a condition in the list.
LEMMA Latest ==
  ASSUME NEW C, \A c \in C : c.age \in Nat, NEW cs \in Listed(C), NEW t, Has(cs, t)
  PROVE  /\ LatestTransition(cs) \in {c.age : c \in Elements(cs)}
         /\ \A c \in Elements(cs) : LatestTransition(cs) <= c.age
<1> DEFINE ages == {cs[i].age : i \in DOMAIN cs}
<1>1. ages = {c.age : c \in Elements(cs)}
  BY DEF Elements
<1>2. ages \subseteq Nat /\ ages # {}
  BY ElementsOf DEF Has
<1>3. PICK m \in ages : \A n \in ages : m <= n
  <2> HIDE DEF ages
  <2> QED
    BY <1>2, LeastElement
<1>4. LatestTransition(cs) = Min(ages)
  BY DEF LatestTransition
<1>5. Min(ages) \in ages /\ \A n \in ages : Min(ages) <= n
  <2> HIDE DEF ages
  <2> QED
    BY <1>3 DEF Min
<1> QED
  BY <1>1, <1>4, <1>5
=============================================================================
