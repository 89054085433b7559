----------------------------- MODULE ChordRing -----------------------------
(***************************************************************************)
(* Several Chord servers that talk to each other over UDP.                 *)
(*                                                                         *)
(* Every server runs the handlers of Process and the timers of Stabilize,  *)
(* in a process of its own.  Datagrams are lost, delayed and reordered: at *)
(* most Capacity of those in flight are kept, whichever the network        *)
(* likes.  Servers crash and stay down.  Nothing tells a server that       *)
(* another is down but that its pings go unanswered, while a third may     *)
(* still name it in replies.                                               *)
(***************************************************************************)
EXTENDS Stabilize

CONSTANTS
  Node,         \* the servers; the other addresses are nodes that are down
  Salt,         \* the random salt of each server's tickets
  Known,        \* for each way to begin: whom each server has as active fingers,
                \* or Unspecified for a server that is just started
  Capacity,     \* bound on the datagrams in flight
  MaxCrashes    \* bound on the number of servers that crash

ASSUME RingAssumption ==
  /\ Node \subseteq Addr
  /\ Salt \in [Node -> Nat]
  /\ \A m, n \in Node : Salt[m] = Salt[n] => m = n
  /\ Known \subseteq [Node -> (SUBSET Addr) \cup {Unspecified}]
  /\ \A known \in Known, n \in Node : known[n] # Unspecified => n \notin known[n]
  /\ Capacity \in Nat \ {0}
  /\ MaxCrashes \in Nat

VARIABLES
  srv,          \* the ChordServer structure of each server
  idx,          \* the static counter of each server's stabilize()
  sent,         \* the requests each server has sent so far
  net,          \* the datagrams in flight
  crashed,      \* the servers that have crashed
  ticks         \* for each server, a bit that flips when a timer of it fires

vars == <<srv, idx, sent, net, crashed, ticks>>

\* One server by itself: the same handlers, peers that may do anything.
Server(n) == INSTANCE ChordServer WITH
  Self <- n, MaxStarts <- 1, IsV6 <- TRUE, V4Mapped <- {},
  srv <- srv[n], idx <- idx[n], sent <- sent[n]

-----------------------------------------------------------------------------
new_server(n) ==
  [addr |-> Unspecified, id |-> 0, pred_bound |-> 0, sock |-> n,
   flist |-> [x \in {} |-> 0], num_passive_fingers |-> 0,
   to_fix_finger |-> NFINGERS - 1, to_fix_backup |-> 0, to_ping |-> 0,
   discover_addr_event |-> TRUE, stab_event |-> FALSE,
   ticket_salt |-> Salt[n], fault |-> "none"]

\* A server that has long been up, with the given active fingers.
Settled(n, peers) ==
  LET s == [new_server(n) EXCEPT
              !.addr = n, !.id = get_address_id(n),
              !.discover_addr_event = FALSE, !.stab_event = TRUE,
              !.flist = [x \in {get_address_id(a) : a \in peers} |->
                           [addr |-> CHOOSE a \in peers : get_address_id(a) = x,
                            status |-> "ACTIVE", npings |-> 0]]]
  IN  [s EXCEPT !.pred_bound = PredecessorOrSelf(s)]

\* The requests such a server has sent in its time.
AllRequests(s) ==
  LET msgs == UNION {{send_addr_discover(s, a), send_stab(s, a), send_ping(s, a),
                      send_fs(s, DEF_TTL, a)} : a \in Addr}
  IN  {Server(s.sock)!Request(m) : m \in msgs}

Init ==
  /\ \E known \in Known :
       /\ srv = [n \in Node |-> IF known[n] = Unspecified THEN new_server(n)
                                ELSE Settled(n, known[n])]
       /\ sent = [n \in Node |-> IF known[n] = Unspecified THEN {}
                                 ELSE AllRequests(srv[n])]
  /\ idx = [n \in Node |-> 0]
  /\ net = {}
  /\ crashed = {}
  /\ ticks = [n \in Node |-> 0]

-----------------------------------------------------------------------------
\* A process runs until it crashes or a fault ends it.
Up == {n \in Node \ crashed : srv[n].fault = "none"}

\* What is in flight after msgs are sent: any Capacity datagrams, the rest is lost.
Transmit(before, msgs) ==
  \E kept \in SUBSET {m \in before \cup msgs : m.to \in Up} :
    /\ Cardinality(kept) <= Capacity
    /\ net' = kept

\* Server n has run a handler or a timer to completion.
Does(n, r, i, before) ==
  /\ srv' = [srv EXCEPT ![n] = r.srv]
  /\ idx' = [idx EXCEPT ![n] = i]
  /\ sent' = [sent EXCEPT ![n] = @ \cup
                {Server(n)!Request(m) : m \in {o \in r.out : Server(n)!IsRequest(o)}}]
  /\ Transmit(before, r.out)
  /\ UNCHANGED crashed

\* The handler for the type of the packet.  No application sends data here.
handle_packet(s, m, garbage) ==
  CASE m.type = "ADDR_DISCOVER"       -> process_addr_discover(s, m)
    [] m.type = "ADDR_DISCOVER_REPLY" -> process_addr_discover_reply(s, m)
    [] m.type = "FS"                  -> process_fs(s, m)
    [] m.type = "FS_REPLY"            -> process_fs_reply(s, m)
    [] m.type = "STAB"                -> process_stab(s, m)
    [] m.type = "STAB_REPLY"          -> process_stab_reply(s, m)
    [] m.type = "NOTIFY"              -> process_notify(s, m, garbage)
    [] m.type = "PING"                -> process_ping(s, m, garbage)
    [] m.type = "PONG"                -> process_pong(s, m)

Receive(m, garbage) ==
  /\ m.to \in Up
  /\ Does(m.to, handle_packet(srv[m.to], m, garbage), idx[m.to], net \ {m})
  /\ UNCHANGED ticks

DiscoverAddr(n) ==
  /\ n \in Up
  /\ srv[n].discover_addr_event
  /\ Does(n, discover_addr(srv[n]), idx[n], net)

Stabilization(n, rnd) ==
  /\ n \in Up
  /\ srv[n].stab_event
  /\ \E r \in {stabilize(srv[n], idx[n], rnd)} : Does(n, r, r.idx, net)

Crash(n) ==
  /\ n \in Up
  /\ Cardinality(crashed) < MaxCrashes
  /\ crashed' = crashed \cup {n}
  /\ net' = {m \in net : m.to # n}
  /\ UNCHANGED <<srv, idx, sent, ticks>>

Random == IF WellKnown = <<>> THEN {0} ELSE 0 .. Len(WellKnown) - 1

Timer(n) ==
  /\ \/ DiscoverAddr(n)
     \/ \E rnd \in Random : Stabilization(n, rnd)
  /\ ticks' = [ticks EXCEPT ![n] = 1 - @]

Next ==
  \/ \E m \in net, garbage \in BOOLEAN : Receive(m, garbage)
  \/ \E n \in Node : Timer(n) \/ Crash(n)

Spec == Init /\ [][Next]_vars

\* The timers of a process that runs are persistent events: one is always added.
TimerFires(n) == n \in Up /\ ticks' = [ticks EXCEPT ![n] = 1 - @]

FairSpec == Spec /\ \A n \in Node : WF_ticks(TimerFires(n))

-----------------------------------------------------------------------------
(***************************************************************************)
(* Whatever servers do to each other, each of them does only what the      *)
(* model of one server among arbitrary peers allows: requests name their   *)
(* sender, replies come only for requests sent and with their tickets, and *)
(* a server is told no address but its own.  So what holds of every step   *)
(* of ChordServer holds of every server of a ring.                         *)
(***************************************************************************)
ServersBehave ==
  [][\A n \in Node : Server(n)!Next \/ UNCHANGED Server(n)!vars]_vars

(***************************************************************************)
(* Two servers that have each other as active fingers are never both       *)
(* responsible for an identifier: the ranges each of them caches, and      *)
(* moves when fingers become active, are dropped or evicted, do not        *)
(* overlap.                                                                *)
(***************************************************************************)
PeersShareNoIdentifier ==
  \A m, n \in Node :
    /\ m # n
    /\ get_address_id(m) \in active_fingers(srv[n])
    /\ get_address_id(n) \in active_fingers(srv[m])
    => \A x \in Id : ~(chord_id_is_local(srv[m], x) /\ chord_id_is_local(srv[n], x))

(***************************************************************************)
(* A node that is down is in the end in nobody's table, and stays out:     *)
(* though servers that still have it name it to others, and those insert   *)
(* and ping it once more, a node is named to others only while it is       *)
(* active, and nobody makes it active again.                               *)
(***************************************************************************)
DeadNodesAreForgotten ==
  <>[](\A n \in Up, a \in Addr \ Up : get_address_id(a) \notin fingers(srv[n]))
=============================================================================
