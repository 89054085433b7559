------------------------------ MODULE Packing ------------------------------
(***************************************************************************)
(* What the server and DHash put into their packets: src/pack.c and        *)
(* file_client/pack.cpp.  Every function assigns the fields of a structure *)
(* and packs it as the payload of a header.                                *)
(***************************************************************************)
EXTENDS Messages

CHORD_WIRE_VERSION == 1
DHASH_WIRE_VERSION == 1

\* Packet types of the server (chord.h) and, inside Data, of DHash (dhash.h).
CHORD_ADDR_DISCOVER == 0
CHORD_ADDR_DISCOVER_REPLY == 1
CHORD_DATA == 2
CHORD_FS == 3
CHORD_FS_REPLY == 4
CHORD_STAB == 5
CHORD_STAB_REPLY == 6
CHORD_NOTIFY == 7
CHORD_PING == 8
CHORD_PONG == 9

DHASH_QUERY == 0
DHASH_QUERY_REPLY_SUCCESS == 1
DHASH_QUERY_REPLY_FAILURE == 2
DHASH_PUSH == 3
DHASH_PUSH_REPLY == 4

\* The message that nothing is assigned to.
NoFields == [name \in {} |-> Zero]

pack_header(version, type, desc, msg) ==
  protobuf_c_message_pack(header__descriptor,
    [version |-> version, type |-> type, payload |-> protobuf_c_message_pack(desc, msg)])

pack_chord_header(type, desc, msg) == pack_header(CHORD_WIRE_VERSION, type, desc, msg)

-----------------------------------------------------------------------------
\* src/pack.c

pack_addr_discover(ticket) ==
  pack_chord_header(CHORD_ADDR_DISCOVER, addr_discover__descriptor, [ticket |-> ticket])

pack_addr_discover_reply(ticket, addr) ==
  pack_chord_header(CHORD_ADDR_DISCOVER_REPLY, addr_discover_reply__descriptor,
                    [ticket |-> ticket, addr |-> addr])

\* Mutant: has_ttl is not set.
pack_data_without_ttl(last, ttl, id, data) ==
  pack_chord_header(CHORD_DATA, data__descriptor, [id |-> id, last |-> last, data |-> data])

pack_data(last, ttl, id, data) ==
  pack_chord_header(CHORD_DATA, data__descriptor,
                    [id |-> id, ttl |-> ttl, last |-> last, data |-> data])

pack_fs(ticket, ttl, addr, port) ==
  pack_chord_header(CHORD_FS, find_successor__descriptor,
                    [ticket |-> ticket, ttl |-> ttl, addr |-> addr, port |-> port])

pack_fs_reply(ticket, addr, port) ==
  pack_chord_header(CHORD_FS_REPLY, find_successor_reply__descriptor,
                    [ticket |-> ticket, addr |-> addr, port |-> port])

pack_stab(addr, port) ==
  pack_chord_header(CHORD_STAB, stabilize__descriptor, [addr |-> addr, port |-> port])

pack_stab_reply(addr, port) ==
  pack_chord_header(CHORD_STAB_REPLY, stabilize_reply__descriptor,
                    [addr |-> addr, port |-> port])

pack_notify == pack_chord_header(CHORD_NOTIFY, notify__descriptor, NoFields)

pack_ping(ticket, time) ==
  pack_chord_header(CHORD_PING, ping__descriptor, [ticket |-> ticket, time |-> time])

pack_pong(ticket, time) ==
  pack_chord_header(CHORD_PONG, pong__descriptor, [ticket |-> ticket, time |-> time])

-----------------------------------------------------------------------------
\* file_client/pack.cpp

pack_dhash_header(type, desc, msg) == pack_header(DHASH_WIRE_VERSION, type, desc, msg)

dhash_pack_query(addr, port, name) ==
  pack_dhash_header(DHASH_QUERY, query__descriptor,
                    [reply_addr |-> addr, reply_port |-> port, name |-> name])

dhash_pack_query_reply_success(name) ==
  pack_dhash_header(DHASH_QUERY_REPLY_SUCCESS, query_reply_success__descriptor,
                    [name |-> name])

dhash_pack_query_reply_failure(name) ==
  pack_dhash_header(DHASH_QUERY_REPLY_FAILURE, query_reply_failure__descriptor,
                    [name |-> name])

dhash_pack_push(addr, port, name) ==
  pack_dhash_header(DHASH_PUSH, push__descriptor,
                    [reply_addr |-> addr, reply_port |-> port, name |-> name])

dhash_pack_push_reply(name) ==
  pack_dhash_header(DHASH_PUSH_REPLY, push_reply__descriptor, [name |-> name])

\* The answer to the control process is packed without a header.
dhash_pack_control_request_reply(code, name) ==
  protobuf_c_message_pack(client_request_reply__descriptor, [name |-> name, code |-> code])

dhash_client_unpack_request_reply(buf) ==
  protobuf_c_message_unpack(client_request_reply__descriptor, buf)
=============================================================================
