------------------------------ MODULE Process ------------------------------
(***************************************************************************)
(* The packet handlers of a Chord server (src/process.c), the messages     *)
(* they send (src/sendpkt.c) and the tickets in them (src/crypt.c).        *)
(*                                                                         *)
(* A handler is an operator from the server's state and the message to a   *)
(* record: srv, the state when it returns, and out, the messages it sends. *)
(* A message carries the addresses of its sender and receiver (the UDP     *)
(* header) and the fields of its protocol buffer that a handler reads.     *)
(***************************************************************************)
EXTENDS FingerTable

\* A process that a failed assertion has ended sends nothing more.
Result(s, msgs) == [srv |-> s, out |-> IF s.fault = "none" THEN msgs ELSE {}]

\* Every error code has the packet dropped, and a warning logged.
Dropped(s) == Result(s, {})

(***************************************************************************)
(* A ticket is a salted hash of the packet type and, for two types, of the *)
(* address it is sent to; the salt is drawn when the server starts.  The   *)
(* time in a ticket ends its life after TICKET_TIMEOUT, which is the same  *)
(* as losing the reply; times are left out.                                *)
(***************************************************************************)
Ticket == [salt : Nat, type : {"ADDR_DISCOVER", "FS", "PING"}, addr : Addr \cup {NULL}]

pack_ticket(s, type, addr) == [salt |-> s.ticket_salt, type |-> type, addr |-> addr]

\* Mutant: the salt is not part of the hash.
verify_ticket_unsalted(s, ticket, type, addr) ==
  ticket.type = type /\ ticket.addr = addr

verify_ticket(s, ticket, type, addr) == ticket = pack_ticket(s, type, addr)

send_addr_discover(s, to) ==
  [type |-> "ADDR_DISCOVER", from |-> s.sock, to |-> to,
   ticket |-> pack_ticket(s, "ADDR_DISCOVER", to)]

send_addr_discover_reply(s, ticket, to) ==
  [type |-> "ADDR_DISCOVER_REPLY", from |-> s.sock, to |-> to, ticket |-> ticket, addr |-> to]

send_data(s, last, ttl, to, id) ==
  [type |-> "DATA", from |-> s.sock, to |-> to, last |-> last, ttl |-> ttl, id |-> id]

send_fs_forward(s, ticket, ttl, to, addr) ==
  [type |-> "FS", from |-> s.sock, to |-> to, ticket |-> ticket, ttl |-> ttl, addr |-> addr]

send_fs(s, ttl, to) == send_fs_forward(s, pack_ticket(s, "FS", NULL), ttl, to, s.addr)

send_fs_reply(s, ticket, to, addr) ==
  [type |-> "FS_REPLY", from |-> s.sock, to |-> to, ticket |-> ticket, addr |-> addr]

send_stab(s, to) == [type |-> "STAB", from |-> s.sock, to |-> to, addr |-> s.addr]

send_stab_reply(s, to, addr) ==
  [type |-> "STAB_REPLY", from |-> s.sock, to |-> to, addr |-> addr]

send_notify(s, to) == [type |-> "NOTIFY", from |-> s.sock, to |-> to]

send_ping(s, to) ==
  [type |-> "PING", from |-> s.sock, to |-> to, ticket |-> pack_ticket(s, "PING", to)]

send_pong(s, ticket, to) ==
  [type |-> "PONG", from |-> s.sock, to |-> to, ticket |-> ticket]

-----------------------------------------------------------------------------
\* Mutant: the answer gives the address of the server instead of the asker's.
process_addr_discover_own(s, msg) ==
  Result(s, {[send_addr_discover_reply(s, msg.ticket, msg.from) EXCEPT !.addr = s.sock]})

\* Answered whether or not the server knows its own address.
process_addr_discover(s, msg) ==
  Result(s, {send_addr_discover_reply(s, msg.ticket, msg.from)})

\* Mutant: the discovery timer is not deleted.
process_addr_discover_reply_no_del(s, msg) ==
  IF /\ verify_ticket(s, msg.ticket, "ADDR_DISCOVER", msg.from)
     /\ s.addr = Unspecified
  THEN LET id == get_address_id(msg.addr)
       IN  Result(chord_update_range([s EXCEPT !.addr = msg.addr,
                                               !.stab_event = TRUE], id, id), {})
  ELSE Dropped(s)

(***************************************************************************)
(* The first valid reply tells us our address and with it our identifier;  *)
(* the discovery timer is deleted and the stabilization timer added.       *)
(***************************************************************************)
process_addr_discover_reply(s, msg) ==
  IF /\ verify_ticket(s, msg.ticket, "ADDR_DISCOVER", msg.from)
     /\ s.addr = Unspecified
  THEN LET id == get_address_id(msg.addr)
       IN  Result(chord_update_range([s EXCEPT !.addr = msg.addr,
                                               !.discover_addr_event = FALSE,
                                               !.stab_event = TRUE], id, id), {})
  ELSE Dropped(s)

\* Mutant: the successor itself is not in its own range.
next_route_node_open(s, id, last) ==
  LET sf == succ_finger(s)
  IN  IF sf # NULL /\ id_is_between(id, s.id, sf)
      THEN [addr |-> s.flist[sf].addr, last |-> TRUE]
      ELSE [addr |-> closest_preceding_node(s, id, FALSE), last |-> FALSE]

\* Mutant: a packet that went too far is not sent back.
next_route_node_forward(s, id, last) ==
  LET sf == succ_finger(s)
  IN  IF sf # NULL /\ (id_is_between(id, s.id, sf) \/ id = sf)
      THEN [addr |-> s.flist[sf].addr, last |-> TRUE]
      ELSE [addr |-> closest_preceding_node(s, id, FALSE), last |-> FALSE]

\* The next hop for id: its address, and whether it should be responsible.
next_route_node(s, id, last) ==
  LET pf == pred_finger(s)
      sf == succ_finger(s)
  IN  IF last /\ pf # NULL
      THEN [addr |-> s.flist[pf].addr, last |-> TRUE]
      ELSE IF sf # NULL /\ (id_is_between(id, s.id, sf) \/ id = sf)
      THEN [addr |-> s.flist[sf].addr, last |-> TRUE]
      ELSE [addr |-> closest_preceding_node(s, id, FALSE), last |-> FALSE]

\* A local id is dropped after a log line: the upcall is commented out.
process_data(s, msg) ==
  LET next == next_route_node(s, msg.id, msg.last)
  IN  IF s.addr = Unspecified \/ msg.ttl - 1 = 0 \/ chord_id_is_local(s, msg.id)
      THEN Dropped(s)
      ELSE Result(s, {send_data(s, next.last, msg.ttl - 1, next.addr, msg.id)})

process_fs(s, msg) ==
  LET succ == succ_finger(s)
      id   == get_address_id(msg.addr)
  IN  IF s.addr = Unspecified \/ msg.ttl - 1 = 0 \/ s.addr = msg.addr
      THEN Dropped(s)
      ELSE Result(s,
             IF succ = NULL
             THEN {send_fs_reply(s, msg.ticket, msg.addr, s.addr)}
             ELSE IF id_is_between(id, s.id, succ) \/ id = succ
             THEN {send_fs_reply(s, msg.ticket, msg.addr, s.flist[succ].addr)}
             ELSE {send_fs_forward(s, msg.ticket, msg.ttl - 1,
                                   closest_preceding_node(s, id, FALSE), msg.addr)})

process_fs_reply(s, msg) ==
  IF \/ s.addr = Unspecified
     \/ ~verify_ticket(s, msg.ticket, "FS", NULL)
     \/ s.addr = msg.addr
  THEN Dropped(s)
  ELSE Result(insert_finger(s, msg.addr),
              IF insert_finger_fnew(s, msg.addr, FALSE)
              THEN {send_ping(s, msg.addr)} ELSE {})

\* The predecessor is looked up before the insertion, which may free a finger,
\* and read after it.
process_stab(s, msg) ==
  LET pred == pred_finger(s)
      t    == insert_finger(s, msg.addr)
  IN  IF s.addr = Unspecified THEN Dropped(s)
      ELSE IF pred \notin fingers(t) \cup {NULL}
      THEN Dropped([t EXCEPT !.fault = "freed"])
      ELSE Result(t, IF pred = NULL THEN {}
                     ELSE {send_stab_reply(s, msg.addr, t.flist[pred].addr)})

\* Mutant: replies are heeded before the address is known.
process_stab_reply_early(s, msg) ==
  LET t    == insert_finger(s, msg.addr)
      succ == succ_finger(t)
  IN  IF s.addr = msg.addr THEN Dropped(s)
      ELSE IF t.fault = "none" /\ succ = NULL THEN Dropped([t EXCEPT !.fault = "null"])
      ELSE Result(t, {send_notify(s, t.flist[succ].addr)}
                       \cup IF insert_finger_fnew(s, msg.addr, FALSE)
                            THEN {send_ping(s, msg.addr)} ELSE {})

(***************************************************************************)
(* The successor may be NULL here (the active fingers may have been        *)
(* dropped since the request was sent), and is read without a test.        *)
(***************************************************************************)
process_stab_reply(s, msg) ==
  LET t    == insert_finger(s, msg.addr)
      succ == succ_finger(t)
  IN  IF s.addr = Unspecified \/ s.addr = msg.addr THEN Dropped(s)
      ELSE IF t.fault = "none" /\ succ = NULL THEN Dropped([t EXCEPT !.fault = "null"])
      ELSE Result(t, {send_notify(s, t.flist[succ].addr)}
                       \cup IF insert_finger_fnew(s, msg.addr, FALSE)
                            THEN {send_ping(s, msg.addr)} ELSE {})

process_notify(s, msg, garbage) ==
  IF s.addr = Unspecified THEN Dropped(s)
  ELSE Result(insert_finger(s, msg.from),
              IF insert_finger_fnew(s, msg.from, garbage)
              THEN {send_ping(s, msg.from)} ELSE {})

process_ping(s, msg, garbage) ==
  LET t    == insert_finger(s, msg.from)
      pred == pred_finger(t)
  IN  IF s.addr = Unspecified THEN Dropped(s)
      ELSE Result(t, {send_pong(s, msg.ticket, msg.from)}
                       \cup IF /\ insert_finger_fnew(s, msg.from, garbage)
                               /\ \/ pred = NULL
                                  \/ id_is_between(get_address_id(msg.from), pred, s.id)
                            THEN {send_ping(s, msg.from)} ELSE {})

\* Mutant: the range is not updated.
process_pong_same_range(s, msg) ==
  LET f == get_address_id(msg.from)
      t == insert_finger(s, msg.from)
      u == activate_finger([t EXCEPT !.flist[f].npings = 0], f)
  IN  IF \/ s.addr = Unspecified
         \/ ~verify_ticket(s, msg.ticket, "PING", msg.from)
         \/ msg.from = s.addr
      THEN Dropped(s)
      ELSE IF t.fault # "none" THEN Dropped(t)
      ELSE Result(u, {})

\* The round-trip time is recorded in the finger, and read nowhere.
process_pong(s, msg) ==
  LET f  == get_address_id(msg.from)
      t  == insert_finger(s, msg.from)
      u  == activate_finger([t EXCEPT !.flist[f].npings = 0], f)
      newpred == pred_finger(u)
  IN  IF \/ s.addr = Unspecified
         \/ ~verify_ticket(s, msg.ticket, "PING", msg.from)
         \/ msg.from = s.addr
      THEN Dropped(s)
      ELSE IF t.fault # "none" THEN Dropped(t)
      ELSE IF newpred = NULL /\ pred_finger(t) # newpred THEN Dropped(assert_fails(u))
      ELSE IF pred_finger(t) = newpred THEN Result(u, {})
      ELSE Result(chord_update_range(u, newpred, s.id), {})
=============================================================================
