------------------------------ MODULE MCDHash ------------------------------
(***************************************************************************)
(* Three nodes and one file, whose successor is 4.  It is published by     *)
(* another node, and everyone knows everyone, or by its successor, and 1   *)
(* does not know of 4 and takes 6 for the file's successor.                *)
(***************************************************************************)
EXTENDS DHash

MCAddrId == [a \in Addr |-> a]

MCFileId == [f \in File |-> 3]

All == [n \in Addr |-> Addr]

Start(known, n) == [known |-> known, source |-> [f \in File |-> n]]

MCSkips == {Start([All EXCEPT ![1] = {6}], 4)}

MCStarts == {Start(All, 1)} \cup MCSkips
=============================================================================
