------------------------------ MODULE IdBytes ------------------------------
(***************************************************************************)
(* Identifiers as the code keeps them (src/util.c): arrays of bytes, the   *)
(* most significant first, with arithmetic byte by byte.  ChordId has the  *)
(* numbers they denote.                                                    *)
(***************************************************************************)
EXTENDS Integers

CONSTANTS
  CHORD_ID_BYTES,  \* 20 in the code
  BYTE_BITS        \* 8

\* The last two conjuncts are facts of arithmetic the provers do not know.
ASSUME IdBytesAssumption ==
  /\ CHORD_ID_BYTES \in Nat \ {0} /\ BYTE_BITS \in Nat \ {0}
  /\ 2^BYTE_BITS \in Nat
  /\ \A k \in 0 .. BYTE_BITS - 1 : 2^k \in 1 .. 2^BYTE_BITS - 1

Index == 0 .. CHORD_ID_BYTES - 1

Byte == 0 .. 2^BYTE_BITS - 1

chordID == [Index -> Byte]

\* Arithmetic of an unsigned char.
uchar(n) == n % 2^BYTE_BITS

\* id + 2^n.  The loop increments the bytes before start until one is not zero.
chord_id_successor(id, n) ==
  LET start == CHORD_ID_BYTES - 1 - n \div BYTE_BITS
      sum   == uchar(id[start] + 2^(n % BYTE_BITS))
      carry(i) == /\ sum < id[start]
                  /\ i < start
                  /\ \A j \in i + 1 .. start - 1 : uchar(id[j] + 1) = 0
  IN  [i \in Index |-> IF i = start THEN sum
                       ELSE IF carry(i) THEN uchar(id[i] + 1) ELSE id[i]]

\* id - 2^n.  The loop decrements the bytes before start up to one that was not zero.
chord_id_predecessor(id, n) ==
  LET start == CHORD_ID_BYTES - 1 - n \div BYTE_BITS
      diff  == uchar(id[start] - 2^(n % BYTE_BITS))
      borrow(i) == /\ diff > id[start]
                   /\ i < start
                   /\ \A j \in i + 1 .. start - 1 : id[j] = 0
  IN  [i \in Index |-> IF i = start THEN diff
                       ELSE IF borrow(i) THEN uchar(id[i] - 1) ELSE id[i]]

id_add(a, b) ==
  LET carry[i \in Index] ==  \* into byte i
        IF i = CHORD_ID_BYTES - 1 THEN 0
        ELSE (a[i + 1] + b[i + 1] + carry[i + 1]) \div 2^BYTE_BITS
  IN  [i \in Index |-> uchar(a[i] + b[i] + carry[i])]

id_subtract(a, b) ==
  LET borrow[i \in Index] ==  \* from byte i
        IF i = CHORD_ID_BYTES - 1 THEN 0
        ELSE IF a[i + 1] - borrow[i + 1] < b[i + 1] THEN 1 ELSE 0
  IN  [i \in Index |-> uchar(a[i] - borrow[i] - b[i])]

\* m is random()%10 + 1.
random_from(a, m) == [i \in Index |-> (a[i] * m) \div 11]

\* Mutant: the distance is taken the wrong way round.
id_random_between_back(a, b, m) == id_add(a, random_from(id_subtract(a, b), m))

id_random_between(a, b, m) == id_add(a, random_from(id_subtract(b, a), m))

id_equals(a, b) == a = b

\* memcmp
is_less(a, b) == \E i \in Index : a[i] < b[i] /\ \A j \in 0 .. i - 1 : a[j] = b[j]

id_is_between(x, a, b) ==
  IF id_equals(a, b) THEN ~id_equals(x, a)
  ELSE IF is_less(a, b) THEN is_less(a, x) /\ is_less(x, b)
  ELSE is_less(a, x) \/ is_less(x, b)

-----------------------------------------------------------------------------
\* The number an array denotes.
Value(x) ==
  LET sum[i \in Index] ==
        IF i = 0 THEN x[0] ELSE sum[i - 1] * 2^BYTE_BITS + x[i]
  IN  sum[CHORD_ID_BYTES - 1]
=============================================================================
