---------------------------- MODULE FingerTable ----------------------------
(***************************************************************************)
(* A Chord server's state and its finger table (include/chord/chord.h,     *)
(* src/finger.c, and the range functions of src/chord.c).                  *)
(*                                                                         *)
(* The code keeps the fingers in a doubly linked list sorted clockwise     *)
(* from the server's identifier, without duplicate identifiers.  Here the  *)
(* list is the function flist from the identifiers in it to the rest of    *)
(* the finger; the place of a finger in the list is a function of the      *)
(* identifiers alone (id_is_between(x, srv.id, y) iff x comes before y).   *)
(* A Finger pointer is the finger's identifier, or NULL.                   *)
(***************************************************************************)
EXTENDS ChordId, FiniteSets

CONSTANTS
  Addr,                 \* the <address, port> pairs of the nodes
  Unspecified,          \* the address in6addr_any
  AddrId,               \* SHA-1 of an address, as an identifier
  NULL,
  MAX_PASSIVE_FINGERS,
  PING_THRESH

ASSUME AddrAssumption ==
  /\ Unspecified \notin Addr
  /\ AddrId \in [Addr -> Id]
  /\ \A a, b \in Addr : AddrId[a] = AddrId[b] => a = b
  /\ NULL \notin Id

ASSUME FingerAssumption ==
  /\ MAX_PASSIVE_FINGERS \in Nat \ {0}
  /\ PING_THRESH \in Nat \ {0}

get_address_id(addr) == AddrId[addr]

Finger == [addr : Addr, status : {"PASSIVE", "ACTIVE"}, npings : 0 .. PING_THRESH]

\* Mutant: a new finger is taken to be reachable.
new_finger_active(addr) == [addr |-> addr, status |-> "ACTIVE", npings |-> 0]

new_finger(addr) == [addr |-> addr, status |-> "PASSIVE", npings |-> 0]

-----------------------------------------------------------------------------
fingers(s) == DOMAIN s.flist

(***************************************************************************)
(* The ChordServer structure: node.addr, node.id and the fields of the     *)
(* same names; sock, the address its datagrams leave from; whether each    *)
(* timer event is added; a number for the random ticket salt; and whether, *)
(* and by what, the process has been ended.                                *)
(***************************************************************************)
IsServer(s) ==
  /\ fingers(s) \subseteq Id
  /\ s \in [addr : Addr \cup {Unspecified}, id : Id, pred_bound : Id, sock : Addr,
            flist : [fingers(s) -> Finger], num_passive_fingers : Nat,
            to_fix_finger : Nat, to_fix_backup : Nat, to_ping : Nat,
            discover_addr_event : BOOLEAN, stab_event : BOOLEAN,
            ticket_salt : Nat, fault : {"none", "assert", "null", "freed", "family"}]

active_fingers(s) == {x \in fingers(s) : s.flist[x].status = "ACTIVE"}

passive_fingers(s) == {x \in fingers(s) : s.flist[x].status = "PASSIVE"}

\* The first finger of S in list order, or NULL.
FirstFinger(s, S) == IF S = {} THEN NULL ELSE FirstFrom(s.id, S)

\* The last finger of S in list order, or NULL.
LastFinger(s, S) == IF S = {} THEN NULL ELSE LastFrom(s.id, S)

succ_finger(s) == FirstFinger(s, active_fingers(s))

\* Mutant: the status of the finger is not looked at.
pred_finger_any(s) == LastFinger(s, fingers(s))

pred_finger(s) == LastFinger(s, active_fingers(s))

\* The left bound of the range a server with this table should have.
PredecessorOrSelf(s) == IF pred_finger(s) = NULL THEN s.id ELSE pred_finger(s)

\* fall: also consider the passive fingers.
closest_preceding_finger(s, id, fall) ==
  LastFinger(s, {x \in IF fall THEN fingers(s) ELSE active_fingers(s) :
                   id_is_between(x, s.id, id)})

\* The address of the closest preceding finger, our own if there is none.
closest_preceding_node(s, id, fall) ==
  LET f == closest_preceding_finger(s, id, fall)
  IN  IF f = NULL THEN s.addr ELSE s.flist[f].addr

\* Mutant: the record of unanswered pings starts at 0 instead of -1.
get_worst_passive_finger_from_0(s) ==
  FirstFinger(s, {x \in passive_fingers(s) : s.flist[x].npings > 0})

\* Mutant: the status of the finger is not looked at.
get_worst_finger(s) ==
  FirstFinger(s, {x \in fingers(s) :
                    \A y \in fingers(s) : s.flist[y].npings <= s.flist[x].npings})

(***************************************************************************)
(* The search for the passive finger with the most unanswered pings keeps  *)
(* the first one seen with a strictly greater count, and stops at the      *)
(* first that has PING_THRESH-1 of them: counts above PING_THRESH-1 do not *)
(* compare as greater.                                                     *)
(***************************************************************************)
get_worst_passive_finger(s) ==
  LET count(x) == IF s.flist[x].npings >= PING_THRESH - 1
                  THEN PING_THRESH - 1 ELSE s.flist[x].npings
  IN  FirstFinger(s, {x \in passive_fingers(s) :
                        \A y \in passive_fingers(s) : count(y) <= count(x)})

-----------------------------------------------------------------------------
chord_update_range(s, l, r) == [s EXCEPT !.pred_bound = l, !.id = r]

\* Is x in the range (pred_bound, id] this server is responsible for?
chord_id_is_local(s, x) == x = s.id \/ id_is_between(x, s.pred_bound, s.id)

\* Mutant: the range is not updated.
remove_fingers_only(s, R) ==
  [s EXCEPT !.num_passive_fingers = @ - Cardinality(R \cap passive_fingers(s)),
            !.flist = [x \in fingers(s) \ R |-> s.flist[x]]]

(***************************************************************************)
(* Removal of the fingers R, one remove_finger after the other.  Each call *)
(* moves the left bound of the range when it changes the predecessor, so   *)
(* the calls together do so iff the last predecessor is not the first.     *)
(***************************************************************************)
remove_fingers(s, R) ==
  LET t == [s EXCEPT !.num_passive_fingers = @ - Cardinality(R \cap passive_fingers(s)),
                     !.flist = [x \in fingers(s) \ R |-> s.flist[x]]]
      pf == pred_finger(t)
  IN  IF pred_finger(s) = pf THEN t
      ELSE chord_update_range(t, IF pf = NULL THEN s.id ELSE pf, s.id)

remove_finger(s, f) == remove_fingers(s, {f})

\* A failed assert() ends the process.
assert_fails(s) == [s EXCEPT !.fault = "assert"]

fingerlist_insert(s, id, finger) ==
  [s EXCEPT !.flist = [x \in fingers(s) \cup {id} |->
                         IF x = id THEN finger ELSE s.flist[x]]]

\* The table is full and nothing in it may be dropped: assert(worst_finger).
cannot_drop_passive_finger(s) ==
  s.num_passive_fingers >= MAX_PASSIVE_FINGERS /\ get_worst_passive_finger(s) = NULL

\* Make room for one more passive finger.
drop_worst_passive_finger(s) ==
  IF s.num_passive_fingers >= MAX_PASSIVE_FINGERS
  THEN remove_finger(s, get_worst_passive_finger(s)) ELSE s

insert_finger(s, addr) ==
  LET id == get_address_id(addr)
      t  == drop_worst_passive_finger(s)
  IN  IF addr = s.addr THEN s
      ELSE IF id \in fingers(s)
      THEN IF s.flist[id].addr = addr THEN s
           ELSE [s EXCEPT !.flist[id].addr = addr, !.flist[id].npings = 0]
      ELSE IF cannot_drop_passive_finger(s) THEN assert_fails(s)
      ELSE fingerlist_insert([t EXCEPT !.num_passive_fingers = @ + 1], id, new_finger(addr))

(***************************************************************************)
(* The flag insert_finger leaves in *fnew.  When it drops a request from   *)
(* ourselves it does not write the flag, and the caller reads whatever its *)
(* uninitialized local variable held: "garbage".                           *)
(***************************************************************************)
insert_finger_fnew(s, addr, garbage) ==
  IF addr = s.addr THEN garbage ELSE get_address_id(addr) \notin fingers(s)

\* Mutant: an activated finger still counts as passive.
activate_finger_uncounted(s, f) == [s EXCEPT !.flist[f].status = "ACTIVE"]

activate_finger(s, f) ==
  [s EXCEPT !.num_passive_fingers = IF s.flist[f].status = "PASSIVE" THEN @ - 1 ELSE @,
            !.flist[f].status = "ACTIVE"]
=============================================================================
