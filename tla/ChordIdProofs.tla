--------------------------- MODULE ChordIdProofs ---------------------------
(***************************************************************************)
(* The order id_is_between puts on the circle, for identifiers of any      *)
(* length: seen from one identifier it is a strict total order, and every  *)
(* non-empty set of identifiers has a first and a last element in it.  The *)
(* argument maps an identifier to its clockwise distance.                  *)
(***************************************************************************)
EXTENDS ChordId, WellFoundedInduction, TLAPS

\* How far clockwise x is from me; all the way round for me itself.
Distance(me, x) == IF x > me THEN x - me ELSE x - me + 2^CHORD_ID_BITS

(***************************************************************************)
(* id_is_between(x, me, y) compares clockwise distances from me, which are *)
(* between 1 and 2^CHORD_ID_BITS and tell identifiers apart.               *)
(***************************************************************************)
LEMMA BetweenIsCloser ==
  ASSUME NEW me \in Id, NEW x \in Id, NEW y \in Id
  PROVE  /\ Distance(me, x) \in 1 .. 2^CHORD_ID_BITS
         /\ id_is_between(x, me, y) <=> Distance(me, x) < Distance(me, y)
         /\ Distance(me, x) = Distance(me, y) => x = y
<1> DEFINE N == 2^CHORD_ID_BITS
<1>1. N \in Nat
  BY IdAssumption
<1>2. me \in 0 .. N - 1 /\ x \in 0 .. N - 1 /\ y \in 0 .. N - 1
  BY DEF Id
<1> HIDE DEF N
<1>3. /\ Distance(me, x) = IF x > me THEN x - me ELSE x - me + N
      /\ Distance(me, y) = IF y > me THEN y - me ELSE y - me + N
  BY DEF Distance, N
<1>4. /\ Distance(me, x) \in 1 .. N
      /\ id_is_between(x, me, y) <=> Distance(me, x) < Distance(me, y)
      /\ Distance(me, x) = Distance(me, y) => x = y
  BY <1>1, <1>2, <1>3 DEF id_is_between
<1> QED
  BY <1>4 DEF N

(***************************************************************************)
(* Seen from me, id_is_between is irreflexive, transitive and total: the   *)
(* finger list has one order, and it is a list without duplicates.         *)
(***************************************************************************)
THEOREM BetweenIsTotalOrder ==
  ASSUME NEW me \in Id, NEW x \in Id, NEW y \in Id, NEW z \in Id
  PROVE  /\ ~ id_is_between(x, me, x)
         /\ id_is_between(x, me, y) /\ id_is_between(y, me, z) => id_is_between(x, me, z)
         /\ x # y => id_is_between(x, me, y) \/ id_is_between(y, me, x)
<1>1. /\ Distance(me, x) \in Int
      /\ Distance(me, y) \in Int
      /\ Distance(me, z) \in Int
  BY BetweenIsCloser, IdAssumption
<1> QED
  BY <1>1, BetweenIsCloser

\* A non-empty set of natural numbers has a least element.
LEMMA NatMin ==
  ASSUME NEW T, T \subseteq Nat, T # {}
  PROVE  \E m \in T : \A n \in T : m <= n
<1>1. PICK m \in T : \A n \in T : ~ (<<n, m>> \in OpToRel(<, Nat))
  BY NatLessThanWellFounded, WFMin
<1>2. ASSUME NEW n \in T PROVE m <= n
  <2>1. n \in Nat /\ m \in Nat
    OBVIOUS
  <2>2. ~ (n < m)
    BY <1>1, <2>1 DEF OpToRel
  <2> QED
    BY <2>1, <2>2
<1> QED
  BY <1>2

(***************************************************************************)
(* FirstFrom picks an element of the set, the one every other comes after  *)
(* (what a walk from head_flist meets first).                              *)
(***************************************************************************)
THEOREM FirstFromIsFirst ==
  ASSUME NEW me \in Id, NEW S, S \subseteq Id, S # {}
  PROVE  /\ FirstFrom(me, S) \in S
         /\ \A y \in S \ {FirstFrom(me, S)} : id_is_between(FirstFrom(me, S), me, y)
<1> DEFINE T == {Distance(me, x) : x \in S}
<1>1. T \subseteq Nat
  BY BetweenIsCloser, IdAssumption
<1>2. T # {}
  OBVIOUS
<1>3. PICK m \in T : \A n \in T : m <= n
  BY <1>1, <1>2, NatMin
<1>4. PICK x \in S : m = Distance(me, x)
  BY <1>3
<1>5. ASSUME NEW y \in S \ {x} PROVE id_is_between(x, me, y)
  <2>1. Distance(me, x) <= Distance(me, y)
    BY <1>3, <1>4
  <2>2. /\ Distance(me, x) \in Int /\ Distance(me, y) \in Int
        /\ Distance(me, x) # Distance(me, y)
    BY BetweenIsCloser, IdAssumption
  <2> QED
    BY <2>1, <2>2, BetweenIsCloser
<1> QED
  BY <1>5 DEF FirstFrom

(***************************************************************************)
(* LastFrom picks an element of the set, the one every other comes before  *)
(* (what a walk back from tail_flist meets first).                         *)
(***************************************************************************)
THEOREM LastFromIsLast ==
  ASSUME NEW me \in Id, NEW S, S \subseteq Id, S # {}
  PROVE  /\ LastFrom(me, S) \in S
         /\ \A y \in S \ {LastFrom(me, S)} : id_is_between(y, me, LastFrom(me, S))
<1> DEFINE T == {2^CHORD_ID_BITS - Distance(me, x) : x \in S}
<1>1. T \subseteq Nat
  BY BetweenIsCloser, IdAssumption
<1>2. T # {}
  OBVIOUS
<1>3. PICK m \in T : \A n \in T : m <= n
  BY <1>1, <1>2, NatMin
<1>4. PICK x \in S : m = 2^CHORD_ID_BITS - Distance(me, x)
  BY <1>3
<1>5. ASSUME NEW y \in S \ {x} PROVE id_is_between(y, me, x)
  <2>1. 2^CHORD_ID_BITS - Distance(me, x) <= 2^CHORD_ID_BITS - Distance(me, y)
    BY <1>3, <1>4
  <2>2. /\ Distance(me, x) \in Int /\ Distance(me, y) \in Int
        /\ Distance(me, x) # Distance(me, y)
    BY BetweenIsCloser, IdAssumption
  <2> QED
    BY <2>1, <2>2, BetweenIsCloser, IdAssumption
<1> QED
  BY <1>5 DEF LastFrom
=============================================================================
