---------------------------- MODULE ChordServer ----------------------------
(***************************************************************************)
(* One Chord server among peers that follow the protocol, over UDP.        *)
(*                                                                         *)
(* The server is a single-threaded event loop: every handler and every     *)
(* timer callback runs to completion, and is one action.  The network may  *)
(* lose, delay, reorder and duplicate datagrams, and the peers run the     *)
(* same program in states we do not know.  Hence a peer may send a request *)
(* at any time, with any contents a server can give it, and a reply may    *)
(* arrive at any time after the request it answers was sent, and again.    *)
(* The server may crash and be started anew: it keeps nothing but its      *)
(* socket address, and draws a new ticket salt.                            *)
(***************************************************************************)
EXTENDS Stabilize

CONSTANTS
  Self,       \* the address peers see the server's datagrams come from
  IsV6,       \* is_v6: whether the server's socket is an IPv6 one
  V4Mapped,   \* the addresses that are IPv4 addresses, mapped to IPv6
  MaxStarts   \* bound on the number of times the server is started

ASSUME ServerAssumption ==
  /\ Self \in Addr
  /\ IsV6 \in BOOLEAN
  /\ V4Mapped \subseteq Addr
  /\ IsV6 \/ Self \in V4Mapped
  /\ MaxStarts \in Nat \ {0}

VARIABLES
  srv,        \* the ChordServer structure
  idx,        \* the static counter of stabilize()
  sent        \* every request sent that is answered to us

vars == <<srv, idx, sent>>

\* Whether the server's socket can exchange datagrams with the node at a.
Reaches(a) == IsV6 \/ a \in V4Mapped

Peer == {a \in Addr \ {Self} : Reaches(a)}

(***************************************************************************)
(* new_server: calloc, the ticket salt, and the two timers.                *)
(***************************************************************************)
new_server(salt) ==
  [addr |-> Unspecified, id |-> 0, pred_bound |-> 0, sock |-> Self,
   flist |-> [x \in {} |-> 0], num_passive_fingers |-> 0,
   to_fix_finger |-> NFINGERS - 1, to_fix_backup |-> 0, to_ping |-> 0,
   discover_addr_event |-> TRUE, stab_event |-> FALSE,
   ticket_salt |-> salt, fault |-> "none"]

Init ==
  /\ srv = new_server(1)
  /\ idx = 0
  /\ sent = {}

-----------------------------------------------------------------------------
(***************************************************************************)
(* The requests among a step's messages that are answered to us, with what *)
(* the answer depends on.  A find_successor request wanders: any node may  *)
(* be the one to answer it.                                                *)
(***************************************************************************)
IsRequest(m) ==
  \/ m.type \in {"ADDR_DISCOVER", "STAB", "PING"}
  \/ m.type = "FS" /\ m.addr = Self

Request(m) ==
  [type   |-> m.type,
   to     |-> IF m.type = "FS" THEN NULL ELSE m.to,
   ticket |-> IF m.type = "STAB" THEN NULL ELSE m.ticket]

Send(msgs) ==
  sent' = sent \cup {Request(m) : m \in {n \in msgs : Reaches(n.to) /\ IsRequest(n)}}

\* send_raw_v4 asserts that the address it is given is a mapped IPv4 one.  What
\* else the step sends counts as sent: an answer finds the process ended or, once
\* it has been started again, another salt.
after_sending(s, msgs) ==
  IF \A m \in msgs : Reaches(m.to) THEN s ELSE [s EXCEPT !.fault = "family"]

Asked(type) == {m \in sent : m.type = type}

\* Run a handler to completion, unless an earlier one has ended the process.
Handle(r) ==
  /\ srv.fault = "none"
  /\ srv' = after_sending(r.srv, r.out)
  /\ Send(r.out)
  /\ UNCHANGED idx

-----------------------------------------------------------------------------
\* Requests from the peers.  What their tickets hold is nothing to us: NULL.
\* Two more requests change nothing in the server and are sent on or answered
\* to nodes it can reach: address discovery and data.

RecvStab(p) ==
  Handle(process_stab(srv, [type |-> "STAB", from |-> p, to |-> Self, addr |-> p]))

RecvNotify(p, garbage) ==
  Handle(process_notify(srv, [type |-> "NOTIFY", from |-> p, to |-> Self], garbage))

RecvPing(p, garbage) ==
  Handle(process_ping(srv,
    [type |-> "PING", from |-> p, to |-> Self, ticket |-> NULL], garbage))

\* A ping of our own reaches us when we are one of our well known nodes.
RecvOwnPing(m, garbage) ==
  /\ m.to = Self
  /\ Handle(process_ping(srv,
       [type |-> "PING", from |-> Self, to |-> Self, ticket |-> m.ticket], garbage))

\* A request of the node addr, sent on by some peer, to find its successor.  One of
\* our own that comes back is dropped.
RecvFs(addr) ==
  Handle(process_fs(srv,
    [type |-> "FS", to |-> Self, ticket |-> NULL, ttl |-> DEF_TTL, addr |-> addr]))

-----------------------------------------------------------------------------
\* Replies to the request m.

RecvAddrDiscoverReply(m) ==
  Handle(process_addr_discover_reply(srv,
    [type |-> "ADDR_DISCOVER_REPLY", from |-> m.to, to |-> Self,
     ticket |-> m.ticket, addr |-> Self]))

RecvFsReply(m, addr) ==
  Handle(process_fs_reply(srv,
    [type |-> "FS_REPLY", to |-> Self, ticket |-> m.ticket, addr |-> addr]))

RecvStabReply(m, addr) ==
  Handle(process_stab_reply(srv,
    [type |-> "STAB_REPLY", from |-> m.to, to |-> Self, addr |-> addr]))

RecvPong(m) ==
  Handle(process_pong(srv,
    [type |-> "PONG", from |-> m.to, to |-> Self, ticket |-> m.ticket]))

-----------------------------------------------------------------------------
\* The two timers.

DiscoverAddr ==
  /\ srv.discover_addr_event
  /\ Handle(discover_addr(srv))

Stabilization(rnd) ==
  /\ srv.stab_event
  /\ srv.fault = "none"
  /\ \E r \in {stabilize(srv, idx, rnd)} :
       /\ srv' = after_sending(r.srv, r.out)
       /\ idx' = r.idx
       /\ Send(r.out)

\* The process ends, for whatever reason, and is started again.
Restart ==
  /\ srv.ticket_salt < MaxStarts
  /\ srv' = new_server(srv.ticket_salt + 1)
  /\ idx' = 0
  /\ UNCHANGED sent

Random == IF WellKnown = <<>> THEN {0} ELSE 0 .. Len(WellKnown) - 1

Receive ==
  \/ \E p \in Peer : RecvStab(p)
  \/ \E p \in Peer, garbage \in BOOLEAN : RecvNotify(p, garbage)
  \/ \E p \in Peer, garbage \in BOOLEAN : RecvPing(p, garbage)
  \/ \E m \in Asked("PING"), garbage \in BOOLEAN : RecvOwnPing(m, garbage)
  \/ \E addr \in Addr \ {Self} : RecvFs(addr)
  \/ \E m \in Asked("ADDR_DISCOVER") : RecvAddrDiscoverReply(m)
  \/ \E m \in Asked("FS"), addr \in Addr : RecvFsReply(m, addr)
  \/ \E m \in Asked("STAB"), addr \in Addr : RecvStabReply(m, addr)
  \/ \E m \in Asked("PING") : RecvPong(m)

Timer ==
  \/ DiscoverAddr
  \/ \E rnd \in Random : Stabilization(rnd)

Next == Receive \/ Timer \/ Restart

Spec == Init /\ [][Next]_vars

-----------------------------------------------------------------------------
RequestType ==
  [type : {"ADDR_DISCOVER", "PING"}, to : Addr, ticket : Ticket]
    \cup [type : {"STAB"}, to : Addr, ticket : {NULL}]
    \cup [type : {"FS"}, to : {NULL}, ticket : Ticket]

\* Every component of the state has its type; counters are in their range.
TypeOK ==
  /\ IsServer(srv)
  /\ srv.to_fix_finger \in 0 .. NFINGERS - 1
  /\ srv.to_fix_backup \in 0 .. NSUCCESSORS - 1
  /\ idx \in 0 .. CHORD_CLEAN_PERIOD - 1
  /\ sent \subseteq RequestType

-----------------------------------------------------------------------------
(***************************************************************************)
(* num_passive_fingers, which insert_finger, activate_finger and           *)
(* remove_finger each adjust, is the number of passive fingers in the      *)
(* list, and never exceeds MAX_PASSIVE_FINGERS.                            *)
(***************************************************************************)
PassiveFingersCounted ==
  /\ srv.num_passive_fingers = Cardinality(passive_fingers(srv))
  /\ srv.num_passive_fingers <= MAX_PASSIVE_FINGERS

(***************************************************************************)
(* The range a server believes itself responsible for always starts at its *)
(* current predecessor finger, or is the whole circle when it has none,    *)
(* whichever of process_pong, ping, clean_finger_list and insert_finger's  *)
(* eviction last changed the table.                                        *)
(***************************************************************************)
RangeFollowsPredecessor == srv.pred_bound = PredecessorOrSelf(srv)

(***************************************************************************)
(* The assertions of finger.c, process_pong and stabilize do not fail:     *)
(* there is a passive finger to drop when there are too many, activating a *)
(* finger does not lose the predecessor, and a server with a successor has *)
(* a predecessor.                                                          *)
(***************************************************************************)
AssertionsHold == srv.fault # "assert"

(***************************************************************************)
(* process_stab keeps a pointer to the predecessor across insert_finger,   *)
(* which may evict and free a finger: never that one.                      *)
(***************************************************************************)
PredecessorOutlivesInsertion == srv.fault # "freed"

(***************************************************************************)
(* "There is a two-way connectivity to this node" (process_pong): a finger *)
(* is active only if this run of the server pinged its address.  Late and  *)
(* duplicated pongs, and pongs for a ping of an earlier run, cannot        *)
(* activate anything else.                                                 *)
(***************************************************************************)
ActiveFingersWerePinged ==
  \A x \in active_fingers(srv) :
    [type |-> "PING", to |-> srv.flist[x].addr,
     ticket |-> pack_ticket(srv, "PING", srv.flist[x].addr)] \in sent

(***************************************************************************)
(* A server knows its address only if this run of it asked the node that   *)
(* told it: process_addr_discover_reply takes no answer to a question of   *)
(* an earlier run, which would wake the server before it asked.            *)
(***************************************************************************)
AddressWasAskedFor ==
  srv.addr # Unspecified =>
    \E m \in Asked("ADDR_DISCOVER") : m.ticket = pack_ticket(srv, "ADDR_DISCOVER", m.to)

(***************************************************************************)
(* Until the address is known the server has no finger and does not        *)
(* stabilize; from then on it stabilizes and no longer asks, so            *)
(* discover_addr never finds the address "already known".                  *)
(***************************************************************************)
DormantUntilAddressKnown ==
  /\ srv.discover_addr_event <=> srv.addr = Unspecified
  /\ srv.stab_event <=> srv.addr # Unspecified
  /\ srv.addr = Unspecified => fingers(srv) = {}
  /\ srv.addr # Unspecified => srv.id = get_address_id(srv.addr)
  /\ srv.id \notin fingers(srv)

(***************************************************************************)
(* Whatever the finger table, a data packet or find_successor request this *)
(* server does not keep is not sent to itself; and unless the next hop is  *)
(* told it should be responsible, it lies strictly between this server and *)
(* the target, so that such hops alone cannot loop.                        *)
(***************************************************************************)
ForwardingMakesProgress ==
  srv.addr # Unspecified =>
    /\ \A id \in Id, last \in BOOLEAN :
         LET msgs == process_data(srv, [type |-> "DATA", to |-> Self, id |-> id,
                                        ttl |-> DEF_TTL, last |-> last]).out
         IN  \A m \in msgs : /\ m.to # srv.addr
                             /\ m.last \/ id_is_between(get_address_id(m.to), srv.id, id)
    /\ \A addr \in Addr :
         LET msgs == process_fs(srv, [type |-> "FS", to |-> Self, ticket |-> NULL,
                                      ttl |-> DEF_TTL, addr |-> addr]).out
         IN  \A m \in msgs : m.type = "FS" =>
               id_is_between(get_address_id(m.to), srv.id, get_address_id(addr))

\* No active finger is lost but for a reason.
KeepsActiveFingers ==
  \A x \in active_fingers(srv) :
    \/ x \in active_fingers(srv)'
    \/ srv.flist[x].npings >= PING_THRESH
    \/ idx = 0 /\ idx' # idx
    \/ srv'.ticket_salt # srv.ticket_salt

(***************************************************************************)
(* An active finger leaves the table only after PING_THRESH unanswered     *)
(* pings, in a clean-up of the table, or with the process: peers that fill *)
(* the table with passive fingers cannot push out an active one.           *)
(***************************************************************************)
ActiveFingersAreKept == [][KeepsActiveFingers]_vars

-----------------------------------------------------------------------------
(***************************************************************************)
(* What comments in the code say and the code does not do.                 *)
(*                                                                         *)
(* "There is a better successor in between us and our current successor"   *)
(* (process_stab_reply): when a reply is processed there is a current      *)
(* successor to notify.  A reply that arrives after the last active finger *)
(* was dropped, in a clean-up or for not answering pings, finds none, and  *)
(* a NULL pointer is read.                                                 *)
(***************************************************************************)
StabReplyFindsSuccessor == srv.fault # "null"

(***************************************************************************)
(* "Keep only (1) backup successors, (2) proper fingers, and (3)           *)
(* predecessor" (clean_finger_list): a clean-up leaves the server its      *)
(* predecessor.  The code keeps the last NPREDECESSORS fingers of the      *)
(* list, active or not, and may remove an active one before them.          *)
(***************************************************************************)
CleaningKeepsPredecessor ==
  [][idx = 0 /\ idx' # idx =>
       pred_finger(srv)' = pred_finger(ping(srv).srv)]_vars
=============================================================================
