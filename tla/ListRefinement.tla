--------------------------- MODULE ListRefinement ---------------------------
(***************************************************************************)
(* The linked list of FingerList implements the table of FingerSet: the    *)
(* mapping forgets the pointers and turns arrays of bytes into numbers.    *)
(***************************************************************************)
EXTENDS FingerList

CONSTANTS Unspecified, DEF_TTL, PERIOD_PING_PRED, CHORD_CLEAN_PERIOD

\* The finger table of FingerTable that the list stands for.
Table ==
  [addr |-> Self, id |-> Value(srv.id), pred_bound |-> Value(srv.pred_bound), sock |-> Self,
   flist |-> [x \in {Value(srv.heap[f].id) : f \in Allocated(srv)} |->
                LET f == CHOOSE g \in Allocated(srv) : Value(srv.heap[g].id) = x
                IN  [addr |-> srv.heap[f].addr, status |-> srv.heap[f].status,
                     npings |-> srv.heap[f].npings]],
   num_passive_fingers |-> srv.num_passive_fingers, to_fix_finger |-> srv.to_fix_finger,
   to_fix_backup |-> srv.to_fix_backup, to_ping |-> srv.to_ping,
   discover_addr_event |-> FALSE, stab_event |-> TRUE, ticket_salt |-> 1,
   fault |-> srv.fault]

Fingers == INSTANCE FingerSet
  WITH srv <- Table, CHORD_ID_BITS <- CHORD_ID_BYTES * BYTE_BITS,
       AddrId <- [a \in Addr |-> Value(AddrId[a])]

\* The list implements the table of FingerTable and Stabilize: the same fingers,
\* range and counters, and the same messages, after every operation and every loop.
ImplementsTable == Fingers!Spec
=============================================================================
