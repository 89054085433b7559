---------------------------- MODULE MCFingerList ----------------------------
(***************************************************************************)
(* Identifiers of three bytes of two bits.  The server is at 00 11 11, so  *)
(* that its successors carry over two bytes, and the distance to 01 00 01  *)
(* borrows over two; 01 00 11 is exactly 2^2 from it, and 11 00 11 lies    *)
(* beyond the wrap-around.                                                 *)
(***************************************************************************)
EXTENDS ListRefinement, TLC

MCAddrId == [a \in Addr |-> (0 :> a \div 16) @@ (1 :> (a \div 4) % 4) @@ (2 :> a % 4)]

MCWellKnown == <<17, 51>>
=============================================================================
