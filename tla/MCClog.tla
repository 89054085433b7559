------------------------------- MODULE MCClog -------------------------------
(***************************************************************************)
(* Four files.  The hash values make the chains of the small table wrap    *)
(* around: the fourth file doubles it, and moving its elements to the new  *)
(* table finds a chain too long and doubles it again.                      *)
(***************************************************************************)
EXTENDS Clog

MCName == {"chord", "finger", "process", "util"}
MCHashValue == [chord |-> 7, finger |-> 23, process |-> 8, util |-> 15]
MCLevel == {0, 1}
=============================================================================
