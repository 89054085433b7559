------------------------------ MODULE Messages ------------------------------
(***************************************************************************)
(* The protocol buffers of the Chord server (src/messages.pb-c.c) and of   *)
(* DHash (file_client/d_messages.pb-c.c).                                  *)
(*                                                                         *)
(* A descriptor is the table the generated code hands to the protobuf-c    *)
(* runtime: the fields in order.  A packed message is a function from the  *)
(* numbers of the fields in it to their values; a message structure is a   *)
(* function from the names of the fields that are set to their values.     *)
(***************************************************************************)
EXTENDS Naturals, Sequences

CONSTANT NULL

\* A field that is 0 or empty in a structure nothing was assigned to.
Zero == NULL

required(name, number) ==
  [name |-> name, number |-> number, optional |-> FALSE, default |-> Zero]

optional(name, number) ==
  [name |-> name, number |-> number, optional |-> TRUE, default |-> Zero]

\* An optional field with a default of its own.
defaulted(name, number, default) ==
  [name |-> name, number |-> number, optional |-> TRUE, default |-> default]

-----------------------------------------------------------------------------
\* messages.pb-c.c

header__descriptor == <<optional("version", 1), required("type", 2), required("payload", 3)>>

ticket__descriptor == <<required("time", 1), required("hash", 2)>>

addr_discover__descriptor == <<optional("ticket", 1)>>

addr_discover_reply__descriptor == <<optional("ticket", 1), required("addr", 2)>>

data__descriptor ==
  <<required("id", 1), defaulted("ttl", 2, 32), defaulted("last", 3, FALSE),
    required("data", 4)>>

find_successor__descriptor ==
  <<optional("ticket", 1), optional("ttl", 2), required("addr", 3), required("port", 4)>>

find_successor_reply__descriptor ==
  <<optional("ticket", 1), required("addr", 2), required("port", 3)>>

stabilize__descriptor == <<required("addr", 1), required("port", 2)>>

stabilize_reply__descriptor == <<required("addr", 1), required("port", 2)>>

notify__descriptor == <<>>

ping__descriptor == <<optional("ticket", 1), required("time", 2)>>

pong__descriptor == <<optional("ticket", 1), required("time", 2)>>

-----------------------------------------------------------------------------
\* d_messages.pb-c.c

client_request__descriptor == <<required("name", 1)>>

client_request_reply__descriptor == <<required("name", 1), required("code", 2)>>

query__descriptor == <<required("reply_addr", 1), required("reply_port", 2), required("name", 3)>>

query_reply_success__descriptor == <<required("name", 1)>>

query_reply_failure__descriptor == <<required("name", 1)>>

push__descriptor == <<required("reply_addr", 1), required("reply_port", 2), required("name", 3)>>

push_reply__descriptor == <<required("name", 1)>>

-----------------------------------------------------------------------------
(***************************************************************************)
(* The runtime.  Packing walks the fields: a required one is written even  *)
(* when nothing was assigned to it, an optional one when its has_ flag is  *)
(* set.  Unpacking looks the number of each part up in number_ranges: all  *)
(* our tables have the one range that starts at 1, so that the field is    *)
(* the one at that index; a part with another number is an unknown field   *)
(* and kept aside.  A message that lacks a required field does not unpack. *)
(***************************************************************************)
Indices(desc) == 1 .. Len(desc)

Names(desc) == {desc[i].name : i \in Indices(desc)}

protobuf_c_message_pack(desc, msg) ==
  LET packed == {i \in Indices(desc) : ~desc[i].optional \/ desc[i].name \in DOMAIN msg}
      value(i) == IF desc[i].name \in DOMAIN msg THEN msg[desc[i].name] ELSE Zero
  IN  [n \in {desc[i].number : i \in packed} |->
         value(CHOOSE i \in packed : desc[i].number = n)]

\* Otherwise protobuf_c_message_unpack returns NULL.
Unpacks(desc, buf) == \A i \in Indices(desc) : desc[i].optional \/ i \in DOMAIN buf

protobuf_c_message_unpack(desc, buf) ==
  LET index(name) == CHOOSE i \in Indices(desc) : desc[i].name = name
  IN  [name \in Names(desc) |->
         IF index(name) \in DOMAIN buf THEN buf[index(name)] ELSE desc[index(name)].default]
=============================================================================
