------------------------------ MODULE ChordId ------------------------------
(***************************************************************************)
(* Identifiers on the Chord circle (src/util.c).  A chordID is             *)
(* CHORD_ID_BITS bits long; the code keeps it as a big-endian byte array   *)
(* compared with memcmp, which is the order of the number it denotes, so   *)
(* an identifier is that number.                                           *)
(***************************************************************************)
EXTENDS Integers

CONSTANT CHORD_ID_BITS  \* 160 in the code

\* The second conjunct is a fact of arithmetic the provers do not know.
ASSUME IdAssumption ==
  /\ CHORD_ID_BITS \in Nat \ {0}
  /\ 2^CHORD_ID_BITS \in Nat \ {0}

Id == 0 .. 2^CHORD_ID_BITS - 1

\* Is x in the open interval (a, b) of the circle?  (a, a) is all but a.
id_is_between(x, a, b) ==
  IF a = b THEN x # a
  ELSE IF a < b THEN a < x /\ x < b
  ELSE a < x \/ x < b

\* id + 2^n, wrapping around.
chord_id_successor(id, n) == (id + 2^n) % 2^CHORD_ID_BITS

(***************************************************************************)
(* The finger list of a node is sorted clockwise from the node's own       *)
(* identifier "me": x comes before y iff id_is_between(x, me, y).  These   *)
(* are the first and the last identifier of a set in that order.           *)
(***************************************************************************)
FirstFrom(me, S) == CHOOSE x \in S : \A y \in S \ {x} : id_is_between(x, me, y)

LastFrom(me, S) == CHOOSE x \in S : \A y \in S \ {x} : id_is_between(y, me, x)
=============================================================================
