-------------------------------- MODULE Wire --------------------------------
(***************************************************************************)
(* The way of a packet from the structure a sender fills in to the handler *)
(* of the receiver: pack.c, chord.c's and dhash.cpp's dispatch tables, and *)
(* for a Data packet of DHash the second table inside it.                  *)
(***************************************************************************)
EXTENDS Dispatcher, FiniteSets

CONSTANTS
  Server,   \* the ChordServer structures of the process
  DHash,    \* its DHash structure
  Client,   \* the control process, at the other end of DHash's control socket
  Ticket, Address, Port, Ttl, Name   \* values of the fields

VARIABLES
  dispatcher,         \* of each server
  chord_dispatcher,   \* of DHash: the packets inside Data
  received            \* the last packet received and what became of it

vars == <<dispatcher, chord_dispatcher, received>>

-----------------------------------------------------------------------------
new_server(srv) ==
  [new_dispatcher(CHORD_PONG + 1) EXCEPT
     ![CHORD_ADDR_DISCOVER] =
        init_handler(srv, addr_discover__descriptor, "process_addr_discover"),
     ![CHORD_ADDR_DISCOVER_REPLY] =
        init_handler(srv, addr_discover_reply__descriptor, "process_addr_discover_reply"),
     ![CHORD_DATA] = init_handler(srv, data__descriptor, "process_data"),
     ![CHORD_FS] = init_handler(srv, find_successor__descriptor, "process_fs"),
     ![CHORD_FS_REPLY] = init_handler(srv, find_successor_reply__descriptor, "process_fs_reply"),
     ![CHORD_STAB] = init_handler(srv, stabilize__descriptor, "process_stab"),
     ![CHORD_STAB_REPLY] = init_handler(srv, stabilize_reply__descriptor, "process_stab_reply"),
     ![CHORD_NOTIFY] = init_handler(srv, notify__descriptor, "process_notify"),
     ![CHORD_PING] = init_handler(srv, ping__descriptor, "process_ping"),
     ![CHORD_PONG] = init_handler(srv, pong__descriptor, "process_pong")]

new_dhash ==
  [new_dispatcher(DHASH_PUSH_REPLY + 1) EXCEPT
     ![DHASH_QUERY] = init_handler(DHash, query__descriptor, "dhash_process_query"),
     ![DHASH_QUERY_REPLY_SUCCESS] =
        init_handler(DHash, query_reply_success__descriptor, "dhash_process_query_reply_success"),
     ![DHASH_QUERY_REPLY_FAILURE] =
        init_handler(DHash, query_reply_failure__descriptor, "dhash_process_query_reply_failure"),
     ![DHASH_PUSH] = init_handler(DHash, push__descriptor, "dhash_process_push"),
     ![DHASH_PUSH_REPLY] = init_handler(DHash, push_reply__descriptor, "dhash_process_push_reply")]

\* DHash takes the Data packets of a server over.
dhash_start(srv) ==
  dispatcher_push_arg(
    dispatcher_set_packet_handlers(new_server(srv), CHORD_DATA, data__descriptor,
                                   "dhash_unpack_chord_data"),
    CHORD_DATA, DHash)

-----------------------------------------------------------------------------
(***************************************************************************)
(* What is sent: the handler meant for it, the fields, the packed bytes.   *)
(***************************************************************************)
Packet(process, msg, buf) == [process |-> process, msg |-> msg, buf |-> buf]

DHashPackets ==
  {Packet("dhash_process_query", [reply_addr |-> a, reply_port |-> p, name |-> n],
          dhash_pack_query(a, p, n)) : a \in Address, p \in Port, n \in Name} \cup
  {Packet("dhash_process_query_reply_success", [name |-> n],
          dhash_pack_query_reply_success(n)) : n \in Name} \cup
  {Packet("dhash_process_query_reply_failure", [name |-> n],
          dhash_pack_query_reply_failure(n)) : n \in Name} \cup
  {Packet("dhash_process_push", [reply_addr |-> a, reply_port |-> p, name |-> n],
          dhash_pack_push(a, p, n)) : a \in Address, p \in Port, n \in Name} \cup
  {Packet("dhash_process_push_reply", [name |-> n],
          dhash_pack_push_reply(n)) : n \in Name}

ChordPackets ==
  {Packet("process_addr_discover", [ticket |-> t], pack_addr_discover(t)) : t \in Ticket} \cup
  {Packet("process_addr_discover_reply", [ticket |-> t, addr |-> a],
          pack_addr_discover_reply(t, a)) : t \in Ticket, a \in Address} \cup
  {Packet("process_fs", [ticket |-> t, ttl |-> l, addr |-> a, port |-> p],
          pack_fs(t, l, a, p)) : t \in Ticket, l \in Ttl, a \in Address, p \in Port} \cup
  {Packet("process_fs_reply", [ticket |-> t, addr |-> a, port |-> p],
          pack_fs_reply(t, a, p)) : t \in Ticket, a \in Address, p \in Port} \cup
  {Packet("process_stab", [addr |-> a, port |-> p], pack_stab(a, p)) :
     a \in Address, p \in Port} \cup
  {Packet("process_stab_reply", [addr |-> a, port |-> p], pack_stab_reply(a, p)) :
     a \in Address, p \in Port} \cup
  {Packet("process_notify", NoFields, pack_notify)} \cup
  {Packet("process_ping", [ticket |-> t, time |-> 1], pack_ping(t, 1)) : t \in Ticket} \cup
  {Packet("process_pong", [ticket |-> t, time |-> 1], pack_pong(t, 1)) : t \in Ticket}

DataPacket(last, ttl, id, data) ==
  Packet("process_data", [id |-> id, ttl |-> ttl, last |-> last, data |-> data],
         pack_data(last, ttl, id, data))

(***************************************************************************)
(* Packets of another version of the program: fields we do not know        *)
(* (numbers from 100 on are set aside for them), one field of ours fewer,  *)
(* a type we do not know.                                                  *)
(***************************************************************************)
PAYLOAD == 3

Extended(buf) ==
  [buf EXCEPT ![PAYLOAD] =
     [n \in DOMAIN @ \cup {100} |-> IF n \in DOMAIN @ THEN @[n] ELSE NULL]]

Shortened(buf) == [buf EXCEPT ![PAYLOAD] = [n \in DOMAIN @ \ {1} |-> @[n]]]

UnknownType(buf) == [buf EXCEPT ![2] = CHORD_PONG + 1]

\* What becomes of a packet of type p with these bytes.
SameMeaning(p) == {p, Packet(p.process, p.msg, Extended(p.buf))}
NotUnpacked(p) == {Packet("none: required field missing", p.msg, Shortened(p.buf))}
NotKnown(p) == {Packet("none: unknown type", p.msg, UnknownType(p.buf))}

\* packets: the packet and, if DHash looked into it, the one inside.
Received(s, packets, returned, calls, forwarded, leaked) ==
  [at |-> s, packets |-> packets, returned |-> returned, calls |-> calls,
   forwarded |-> forwarded, leaked |-> leaked]

-----------------------------------------------------------------------------
\* A process with DHash, or one without (simple_client).
Init ==
  /\ \/ dispatcher = [s \in Server |-> new_server(s)]
     \/ dispatcher = [s \in Server |-> dhash_start(s)]
  /\ chord_dispatcher = new_dhash
  /\ received = {}

\* handle_packet, for all packets but Data under DHash.  An error code of the
\* handler only has the packet logged (process_error).
handle_packet(s, p) ==
  \E returned \in {0, 1} :
    LET r == dispatch_packet(dispatcher[s], p.buf, returned)
    IN  /\ received' = {Received(s, <<p>>, returned, r.calls, FALSE, r.leaked)}
        /\ UNCHANGED <<dispatcher, chord_dispatcher>>

\* Mutant: a packet is sent on only when its handler fails.
dhash_unpack_chord_data_known(args, msg, returned, garbage) ==
  LET type == dispatcher_get_type(msg.data)
      d    == dispatcher_push_arg(chord_dispatcher, type, args[1])
      r    == dispatch_packet(d, msg.data, returned)
      process_ret == IF r.calls = <<>> THEN garbage ELSE returned
  IN  [chord_dispatcher |-> dispatcher_pop_arg(d, type), calls |-> r.calls,
       leaked |-> r.leaked + 1, forwarded |-> r.ret = 1 /\ process_ret # 0]

(***************************************************************************)
(* The handler of Data under DHash.  It dispatches the packet inside, with *)
(* the server as second argument, and hands the Data packet on to          *)
(* process_data if nothing took it or its handler says so.  process_ret is *)
(* not initialized: when the packet inside does not unpack it is garbage.  *)
(***************************************************************************)
dhash_unpack_chord_data(args, msg, returned, garbage) ==
  LET type == dispatcher_get_type(msg.data)
      d    == dispatcher_push_arg(chord_dispatcher, type, args[1])
      r    == dispatch_packet(d, msg.data, returned)
      process_ret == IF r.calls = <<>> THEN garbage ELSE returned
  IN  [chord_dispatcher |-> dispatcher_pop_arg(d, type), calls |-> r.calls,
       leaked |-> r.leaked + 1, forwarded |-> r.ret = 0 \/ process_ret # 0]

handle_dhash_packet(s, p, inner) ==
  \E returned, garbage \in {0, 1} :
    LET r == dispatch_packet(dispatcher[s], p.buf, 0)
        c == r.calls[1]
        u == dhash_unpack_chord_data(c.args, c.msg, returned, garbage)
    IN  /\ r.calls # <<>>
        /\ c.process = "dhash_unpack_chord_data"
        /\ received' = {Received(s, <<p, inner>>, returned, r.calls \o u.calls, u.forwarded,
                                 r.leaked + u.leaked)}
        /\ chord_dispatcher' = u.chord_dispatcher
        /\ UNCHANGED dispatcher

ReceiveChord(s) ==
  \E p \in ChordPackets : \E v \in SameMeaning(p) \cup NotKnown(p) : handle_packet(s, v)

ReceiveData(s) ==
  \E inner \in DHashPackets, last \in BOOLEAN, ttl \in Ttl, id \in Name :
    LET p == DataPacket(last, ttl, id, inner.buf)
    IN  /\ dispatcher[s][CHORD_DATA].process = "process_data"
        /\ \E v \in SameMeaning(p) \cup NotUnpacked(p) : handle_packet(s, v)

ReceiveDHash(s) ==
  \E inner \in DHashPackets, last \in BOOLEAN, ttl \in Ttl, id \in Name :
    \E v \in SameMeaning(inner) \cup NotUnpacked(inner) \cup NotKnown(inner) :
      handle_dhash_packet(s, DataPacket(last, ttl, id, v.buf), v)

(***************************************************************************)
(* The control process reads DHash's answer and calls process_reply.       *)
(***************************************************************************)
DHASH_CLIENT_REPLY_LOCAL == 0
DHASH_CLIENT_REPLY_SUCCESS == 1
DHASH_CLIENT_REPLY_FAILURE == 2

handle_reply ==
  \E name \in Name, code \in {DHASH_CLIENT_REPLY_LOCAL, DHASH_CLIENT_REPLY_SUCCESS,
                             DHASH_CLIENT_REPLY_FAILURE} :
    LET buf == dhash_pack_control_request_reply(code, name)
        p == Packet("process_reply", [name |-> name, code |-> code], buf)
        c == [process |-> "process_reply", args |-> <<Client>>,
              msg |-> dhash_client_unpack_request_reply(buf)]
    IN  /\ received' = {Received(Client, <<p>>, 0, <<c>>, FALSE, 0)}
        /\ UNCHANGED <<dispatcher, chord_dispatcher>>

Next ==
  \/ \E s \in Server : ReceiveChord(s) \/ ReceiveData(s) \/ ReceiveDHash(s)
  \/ handle_reply

Spec == Init /\ [][Next]_vars

-----------------------------------------------------------------------------
\* The received packets that one of our tables has a handler for.
Meant(r) ==
  {p \in Range(r.packets) :
     p.process \notin {"none: required field missing", "none: unknown type"}}

(***************************************************************************)
(* Every handler a packet is meant for is called, no other, and it reads   *)
(* the fields the sender assigned: descriptors, packing, nesting in Data   *)
(* and dispatch tables agree, also when a newer peer adds fields.  (The    *)
(* Data handler of DHash stands in for process_data.)                      *)
(***************************************************************************)
HandlersReadWhatWasSent ==
  LET plain(name) == IF name = "dhash_unpack_chord_data" THEN "process_data" ELSE name
  IN  \A r \in received :
        {<<plain(c.process), c.msg>> : c \in Range(r.calls)}
          = {<<p.process, p.msg>> : p \in Meant(r)}

(***************************************************************************)
(* A handler finds its arguments where its argument structure has them:    *)
(* ChordPacketArgs starts with the server, DHashPacketArgs has DHash       *)
(* after it, ChordDataPacketArgs has DHash first and then the server.  The *)
(* server is the one whose socket the packet came in on, although one      *)
(* table of DHash serves them all and its argument is pushed anew for      *)
(* every packet.                                                           *)
(***************************************************************************)
HandlersGetTheirArguments ==
  \A r \in received : \A c \in Range(r.calls) :
    c.args = CASE c.process = "dhash_unpack_chord_data" -> <<r.at, DHash>>
               [] c.process \in {p.process : p \in DHashPackets} -> <<DHash, r.at>>
               [] OTHER -> <<r.at>>

(***************************************************************************)
(* A Data packet under DHash travels on exactly when this node did not     *)
(* deal with what is inside: its type is unknown, or its handler asks for  *)
(* it (dhash_process_query without the file).  Only for a packet that does *)
(* not unpack is the choice left to an uninitialized variable.             *)
(***************************************************************************)
UnhandledPacketsTravelOn ==
  \A r \in received :
    Len(r.packets) = 2 =>
      CASE r.packets[2].process = "none: unknown type" -> r.forwarded
        [] r.packets[2].process = "none: required field missing" -> TRUE
        [] OTHER -> r.forwarded <=> r.returned # 0

(***************************************************************************)
(* Memory is lost only with packets that are dropped or passed on: both    *)
(* structures unpacked for a packet whose handler succeeds are freed.      *)
(* (dispatch_packet returns early in the other cases, and                  *)
(* dispatcher_get_type keeps one header for every packet of DHash.)        *)
(***************************************************************************)
HandledPacketsAreFreed ==
  \A r \in received :
    r.returned = 0 /\ r.calls # <<>> =>
      r.leaked = IF Len(r.packets) = 1 THEN 0 ELSE IF Len(r.calls) = 2 THEN 1 ELSE 2
=============================================================================
