----------------------------- MODULE FingerSet -----------------------------
(***************************************************************************)
(* What the finger table of a running server promises, as a set of fingers *)
(* without pointers: the operations of FingerTable and Stabilize, in any   *)
(* order.  FingerList implements it.                                       *)
(***************************************************************************)
EXTENDS Stabilize

CONSTANT Self

VARIABLES
  srv,
  out   \* the last operation, and the type and destination of its messages

To(msgs) == {[type |-> m.type, to |-> m.to] : m \in msgs}

Init ==
  /\ srv = [addr |-> Self, id |-> get_address_id(Self), pred_bound |-> get_address_id(Self),
            sock |-> Self, flist |-> <<>>, num_passive_fingers |-> 0,
            to_fix_finger |-> NFINGERS - 1, to_fix_backup |-> 0, to_ping |-> 0,
            discover_addr_event |-> FALSE, stab_event |-> TRUE, ticket_salt |-> 1,
            fault |-> "none"]
  /\ out = [op |-> "start", msgs |-> {}]

Does(op, r) ==
  /\ out'.op = op
  /\ out' = [op |-> op, msgs |-> To(r.out)]
  /\ srv' = r.srv

Insert(a) == Does("insert", Result(insert_finger(srv, a), {}))

Pong(a) == Does("pong", process_pong(srv, [from |-> a, ticket |-> pack_ticket(srv, "PING", a)]))

Ping == Does("ping", ping(srv))

FixBackup == succ_finger(srv) # NULL /\ Does("fix_succs_preds", fix_succs_preds(srv))

FixFinger(rnd) == succ_finger(srv) # NULL /\ Does("fix_fingers", fix_fingers(srv, rnd))

Clean == Does("clean", Result(clean_finger_list(srv), {}))

Next ==
  \/ \E a \in Addr : Insert(a) \/ Pong(a)
  \/ Ping \/ FixBackup \/ Clean
  \/ \E rnd \in 0 .. Len(WellKnown) - 1 : FixFinger(rnd)

Spec == Init /\ [][Next]_<<srv, out>>
=============================================================================
