------------------------------ MODULE ObjectModel ------------------------------
(* The list of objects that services show: src/src/core/model.hpp.  Lists    *)
(* are sequences without duplicates; a view is told of each row that comes   *)
(* or goes.                                                                  *)
EXTENDS Integers, Sequences, SequencesExt, SequenceTheorems, TLAPS

\* insertObject().
InsertObject(list, object, index) == InsertAt(list, index, object)
AppendObject(list, object) == Append(list, object)

\* insertObjectSorted(): after the objects it compares greater than, from the front.
InsertObjectSorted(list, object, Greater(_, _)) ==
  LET stops == {i \in DOMAIN list : ~Greater(object, list[i])}
      index == IF stops = {} THEN Len(list) + 1 ELSE CHOOSE i \in stops : \A j \in stops : i <= j
  IN InsertObject(list, object, index)

\* removeObject(), removeAt(): nothing if it is not there.
RemoveObject(list, object) ==
  LET found == {i \in DOMAIN list : list[i] = object}
  IN IF found = {} THEN list ELSE RemoveAt(list, CHOOSE i \in found : \A j \in found : i <= j)

\* diffUpdate(): objects that are not among the new ones go; then each new one is put at
\* its place, unless it is there already.
DiffUpdate(list, newValues) ==
  FoldLeft(LAMBDA l, i : IF i <= Len(l) /\ l[i] = newValues[i] THEN l
                         ELSE InsertObject(l, newValues[i], i),
           SelectSeq(list, LAMBDA o : \E i \in DOMAIN newValues : newValues[i] = o),
           [i \in DOMAIN newValues |-> i])

-----------------------------------------------------------------------------
\* Appending an object that is not listed adds it, and leaves each listed once.
LEMMA Appended ==
  ASSUME NEW S, NEW list \in Seq(S), NEW object \in S
  PROVE  /\ AppendObject(list, object) \in Seq(S)
         /\ ToSet(AppendObject(list, object)) = ToSet(list) \cup {object}
         /\ IsInjective(list) /\ object \notin ToSet(list) => IsInjective(AppendObject(list, object))
<1> DEFINE l == AppendObject(list, object)
<1>1. /\ l \in Seq(S) /\ Len(list) \in Nat /\ DOMAIN list = 1..Len(list)
      /\ DOMAIN l = 1..Len(list) + 1
      /\ \A i \in 1..Len(list) : l[i] = list[i]
      /\ l[Len(list) + 1] = object
  BY DEF AppendObject
<1> HIDE DEF l
<1>2. ToSet(l) = ToSet(list) \cup {object}
  <2>1. ASSUME NEW i \in DOMAIN l PROVE l[i] \in ToSet(list) \cup {object}
    BY <1>1 DEF ToSet
  <2>2. ASSUME NEW i \in DOMAIN list PROVE list[i] \in ToSet(l)
    BY <1>1 DEF ToSet
  <2>3. object \in ToSet(l)
    BY <1>1 DEF ToSet
  <2> QED BY <2>1, <2>2, <2>3 DEF ToSet
<1>3. IsInjective(list) /\ object \notin ToSet(list) => IsInjective(l)
  BY <1>1 DEF IsInjective, ToSet
<1> QED BY <1>1, <1>2, <1>3 DEF l

\* removeAt() takes one position out; those after it move up.
LEMMA WithoutOne ==
  ASSUME NEW S, NEW list \in Seq(S), NEW p \in 1..Len(list)
  PROVE  /\ RemoveAt(list, p) \in Seq(S) /\ Len(RemoveAt(list, p)) = Len(list) - 1
         /\ \A i \in 1..Len(list) - 1 : RemoveAt(list, p)[i] = list[IF i < p THEN i ELSE i + 1]
<1> DEFINE a == SubSeq(list, 1, p - 1)
           b == SubSeq(list, p + 1, Len(list))
<1>1. Len(list) \in Nat /\ p \in Nat /\ 1 <= p /\ p <= Len(list)
  OBVIOUS
<1>2. a \in Seq(S) /\ Len(a) = p - 1 /\ \A i \in 1..p - 1 : a[i] = list[i]
  BY <1>1, SubSeqProperties
<1>3. b \in Seq(S) /\ Len(b) = Len(list) - p /\ \A i \in 1..Len(list) - p : b[i] = list[p + i]
  BY <1>1, SubSeqProperties
<1>4. RemoveAt(list, p) = a \o b
  BY DEF RemoveAt
<1> HIDE DEF a, b
<1>5. /\ a \o b \in Seq(S) /\ Len(a \o b) = Len(a) + Len(b)
      /\ \A i \in 1..Len(a) + Len(b) : (a \o b)[i] = IF i <= Len(a) THEN a[i] ELSE b[i - Len(a)]
  BY <1>2, <1>3, ConcatProperties
<1>6. Len(a \o b) = Len(list) - 1
  BY <1>1, <1>2, <1>3, <1>5
<1>7. ASSUME NEW i \in 1..Len(list) - 1 PROVE (a \o b)[i] = list[IF i < p THEN i ELSE i + 1]
  <2>1. i \in Int /\ 1 <= i /\ i <= Len(list) - 1
    BY <1>1
  <2>2. CASE i < p
    <3>1. i \in 1..p - 1
      BY <1>1, <2>1, <2>2
    <3> QED BY <1>1, <1>2, <1>3, <1>5, <2>1, <2>2, <3>1
  <2>3. CASE ~(i < p)
    <3>1. i - (p - 1) \in 1..Len(list) - p /\ p + (i - (p - 1)) = i + 1
      BY <1>1, <2>1, <2>3
    <3>2. b[i - (p - 1)] = list[i + 1]
      BY <1>3, <3>1
    <3>3. (a \o b)[i] = b[i - Len(a)]
      BY <1>1, <1>2, <1>3, <1>5, <2>1, <2>3
    <3> QED BY <1>2, <2>3, <3>2, <3>3
  <2> QED BY <2>2, <2>3
<1> QED BY <1>4, <1>5, <1>6, <1>7

\* Removing an object of a list in which each is once takes it out, and nothing else
\* (removeObject()).
LEMMA Removed ==
  ASSUME NEW S, NEW list \in Seq(S), IsInjective(list), NEW object
  PROVE  /\ RemoveObject(list, object) \in Seq(S)
         /\ IsInjective(RemoveObject(list, object))
         /\ ToSet(RemoveObject(list, object)) = ToSet(list) \ {object}
<1> DEFINE found == {i \in DOMAIN list : list[i] = object}
           r     == RemoveObject(list, object)
<1>1. Len(list) \in Nat /\ DOMAIN list = 1..Len(list)
  OBVIOUS
<1>2. CASE found = {}
  <2>1. r = list
    BY <1>2 DEF RemoveObject
  <2>2. object \notin ToSet(list)
    BY <1>2 DEF ToSet
  <2> QED BY <2>1, <2>2
<1>3. CASE found # {}
  <2>1. PICK p \in 1..Len(list) : list[p] = object
    BY <1>1, <1>3
  <2>2. found = {p}
    BY <1>1, <2>1 DEF IsInjective
  <2>3. (CHOOSE i \in found : \A j \in found : i <= j) = p
    BY <2>1, <2>2
  <2>4. r = RemoveAt(list, p)
    BY <2>2, <2>3 DEF RemoveObject
  <2> HIDE DEF r
  <2>5. /\ r \in Seq(S) /\ DOMAIN r = 1..Len(list) - 1
        /\ \A i \in 1..Len(list) - 1 : r[i] = list[IF i < p THEN i ELSE i + 1]
    <3>1. /\ RemoveAt(list, p) \in Seq(S) /\ Len(RemoveAt(list, p)) = Len(list) - 1
          /\ \A i \in 1..Len(list) - 1 : RemoveAt(list, p)[i] = list[IF i < p THEN i ELSE i + 1]
      BY WithoutOne
    <3>2. r \in Seq(S) /\ Len(r) = Len(list) - 1
      BY <2>4, <3>1
    <3>3. DOMAIN r = 1..Len(list) - 1
      BY <3>2
    <3> QED BY <2>4, <3>1, <3>2, <3>3
  <2>6. IsInjective(r)
    <3> SUFFICES ASSUME NEW i \in DOMAIN r, NEW j \in DOMAIN r, r[i] = r[j] PROVE i = j
      BY DEF IsInjective
    <3> DEFINE x == IF i < p THEN i ELSE i + 1
               y == IF j < p THEN j ELSE j + 1
    <3>1. x \in DOMAIN list /\ y \in DOMAIN list /\ list[x] = list[y]
      BY <1>1, <2>1, <2>5
    <3>2. x = y
      BY <3>1 DEF IsInjective
    <3> QED BY <1>1, <2>1, <2>5, <3>2
  <2>7. ToSet(r) = ToSet(list) \ {object}
    <3>1. ASSUME NEW i \in DOMAIN r PROVE r[i] \in ToSet(list) \ {object}
      <4> DEFINE x == IF i < p THEN i ELSE i + 1
      <4>1. x \in DOMAIN list /\ r[i] = list[x] /\ x # p
        BY <1>1, <2>1, <2>5
      <4>2. list[x] # object
        BY <1>1, <2>1, <4>1 DEF IsInjective
      <4> QED BY <4>1, <4>2 DEF ToSet
    <3>2. ASSUME NEW i \in DOMAIN list, list[i] # object PROVE list[i] \in ToSet(r)
      <4> DEFINE x == IF i < p THEN i ELSE i - 1
      <4>1. x \in DOMAIN r /\ r[x] = list[i]
        BY <1>1, <2>1, <2>5, <3>2
      <4> QED BY <4>1 DEF ToSet
    <3> QED BY <3>1, <3>2 DEF ToSet
  <2> QED BY <2>5, <2>6, <2>7 DEF r
<1> QED BY <1>2, <1>3
=============================================================================
