------------------------- MODULE WireMessageProofs -------------------------
(***************************************************************************)
(* Packing and unpacking are inverse for every descriptor of the form the  *)
(* generated code has, every packet of the program has such a form, and    *)
(* the dispatcher finds its handler.                                       *)
(***************************************************************************)
EXTENDS Wire, TLAPS

-----------------------------------------------------------------------------
(***************************************************************************)
(* The form of the generated tables: the number of a field is its index,   *)
(* no two fields have the same name, a required one has no default of its  *)
(* own; and the numbers set aside for newer versions are free.             *)
(***************************************************************************)
WellFormed(desc) ==
  /\ Len(desc) \in 0 .. 99
  /\ \A i \in Indices(desc) :
       /\ desc[i].number = i
       /\ desc[i].optional \in BOOLEAN
       /\ ~desc[i].optional => desc[i].default = Zero
       /\ \A j \in Indices(desc) : desc[j].name = desc[i].name => j = i

\* buf has the fields of packed, and otherwise only ones that desc does not know.
Carries(desc, buf, packed) ==
  /\ DOMAIN buf \cap Indices(desc) = DOMAIN packed
  /\ \A n \in DOMAIN packed : buf[n] = packed[n]

\* What a reader finds in the fields the sender left alone.
Completed(desc, msg) ==
  [name \in Names(desc) |->
     IF name \in DOMAIN msg THEN msg[name]
     ELSE desc[CHOOSE i \in Indices(desc) : desc[i].name = name].default]

\* The packed fields, and the value of each.
LEMMA Packed ==
  ASSUME NEW desc, WellFormed(desc), NEW msg
  PROVE  LET packed == protobuf_c_message_pack(desc, msg)
         IN  /\ DOMAIN packed = {i \in Indices(desc) : ~desc[i].optional \/ desc[i].name \in DOMAIN msg}
             /\ \A i \in DOMAIN packed :
                  packed[i] = IF desc[i].name \in DOMAIN msg THEN msg[desc[i].name] ELSE Zero
<1> DEFINE P == {i \in Indices(desc) : ~desc[i].optional \/ desc[i].name \in DOMAIN msg}
           V(i) == IF desc[i].name \in DOMAIN msg THEN msg[desc[i].name] ELSE Zero
<1>a. \A i \in P : desc[i].number = i
  BY Zenon DEF WellFormed
<1>1. {desc[i].number : i \in P} = P
  <2> HIDE DEF P
  <2> QED  BY <1>a
<1>2. \A n \in P : (CHOOSE i \in P : desc[i].number = n) = n
  BY Zenon DEF WellFormed
<1>3. protobuf_c_message_pack(desc, msg)
        = [n \in {desc[i].number : i \in P} |-> V(CHOOSE i \in P : desc[i].number = n)]
  BY DEF protobuf_c_message_pack
<1> HIDE DEF P, V
<1>4. protobuf_c_message_pack(desc, msg) = [n \in P |-> V(n)]
  BY <1>1, <1>2, <1>3
<1> QED
  BY <1>4 DEF P, V

\* A packed message carries its own fields.
LEMMA OwnBytes ==
  ASSUME NEW desc, WellFormed(desc), NEW msg, NEW buf,
         buf = protobuf_c_message_pack(desc, msg)
  PROVE  Carries(desc, buf, buf)
<1> DEFINE packed == protobuf_c_message_pack(desc, msg)
<1>1. DOMAIN packed = {i \in Indices(desc) : ~desc[i].optional \/ desc[i].name \in DOMAIN msg}
  BY Packed, Zenon
<1> HIDE DEF packed
<1> QED
  BY <1>1 DEF Carries, packed

(***************************************************************************)
(* protobuf_c_message_unpack undoes protobuf_c_message_pack: the reader    *)
(* finds every assigned field as it was sent and the default in the        *)
(* others, whatever unknown fields are in the message.                     *)
(***************************************************************************)
THEOREM RoundTrip ==
  ASSUME NEW desc, WellFormed(desc), NEW msg, DOMAIN msg \subseteq Names(desc),
         NEW buf, Carries(desc, buf, protobuf_c_message_pack(desc, msg))
  PROVE  /\ Unpacks(desc, buf)
         /\ protobuf_c_message_unpack(desc, buf) = Completed(desc, msg)
<1> DEFINE packed == protobuf_c_message_pack(desc, msg)
           index(name) == CHOOSE i \in Indices(desc) : desc[i].name = name
           U == protobuf_c_message_unpack(desc, buf)
           C == Completed(desc, msg)
<1>1. /\ DOMAIN packed = {i \in Indices(desc) : ~desc[i].optional \/ desc[i].name \in DOMAIN msg}
      /\ \A i \in DOMAIN packed :
           packed[i] = IF desc[i].name \in DOMAIN msg THEN msg[desc[i].name] ELSE Zero
  BY Packed, Zenon
<1>a. DOMAIN buf \cap Indices(desc) = DOMAIN packed /\ \A n \in DOMAIN packed : buf[n] = packed[n]
  BY DEF Carries
<1> HIDE DEF packed
<1>2. Unpacks(desc, buf)
  BY <1>1, <1>a DEF Unpacks
<1>b. U = [name \in Names(desc) |->
             IF index(name) \in DOMAIN buf THEN buf[index(name)] ELSE desc[index(name)].default]
  BY DEF protobuf_c_message_unpack
<1>c. C = [name \in Names(desc) |->
             IF name \in DOMAIN msg THEN msg[name] ELSE desc[index(name)].default]
  BY DEF Completed
<1>3. ASSUME NEW name \in Names(desc)
      PROVE  U[name] = C[name]
  <2>1. PICK i \in Indices(desc) : desc[i].name = name
    BY DEF Names
  <2>2. index(name) = i
    BY <2>1, Zenon DEF WellFormed
  <2> HIDE DEF index, U, C
  <2>3. U[name] = IF i \in DOMAIN buf THEN buf[i] ELSE desc[i].default
    BY <1>b, <2>2
  <2>4. C[name] = IF name \in DOMAIN msg THEN msg[name] ELSE desc[i].default
    BY <1>c, <2>2
  <2>5. i \in DOMAIN buf <=> ~desc[i].optional \/ name \in DOMAIN msg
    BY <1>1, <1>a, <2>1
  <2>6. i \in DOMAIN buf => buf[i] = IF name \in DOMAIN msg THEN msg[name] ELSE Zero
    BY <1>1, <1>a, <2>1
  <2>7. ~desc[i].optional => desc[i].default = Zero
    BY Zenon DEF WellFormed
  <2> QED
    BY <2>3, <2>4, <2>5, <2>6, <2>7
<1> HIDE DEF U, C, index
<1>4. U = [name \in Names(desc) |-> U[name]] /\ C = [name \in Names(desc) |-> C[name]]
  BY <1>b, <1>c
<1>5. U = C
  BY <1>3, <1>4
<1> QED
  BY <1>2, <1>5 DEF U, C

\* A message with all the fields of its descriptor arrives as it is.
LEMMA RoundTripAll ==
  ASSUME NEW desc, WellFormed(desc), NEW msg, msg = [name \in Names(desc) |-> msg[name]],
         NEW buf, Carries(desc, buf, protobuf_c_message_pack(desc, msg))
  PROVE  Unpacks(desc, buf) /\ protobuf_c_message_unpack(desc, buf) = msg
<1>1. DOMAIN msg = Names(desc)
  OBVIOUS
<1>2. Completed(desc, msg) = msg
  BY <1>1 DEF Completed
<1> QED
  BY <1>1, <1>2, RoundTrip

-----------------------------------------------------------------------------
(***************************************************************************)
(* The tables of the generated code.                                       *)
(***************************************************************************)
IsField(f, number, name) ==
  /\ f.number = number
  /\ f.name = name
  /\ f.optional \in BOOLEAN
  /\ ~f.optional => f.default = Zero

\* The three kinds of fields are fields.
LEMMA Fields ==
  ASSUME NEW name, NEW number, NEW default
  PROVE  /\ IsField(required(name, number), number, name) /\ ~required(name, number).optional
         /\ IsField(optional(name, number), number, name)
         /\ IsField(defaulted(name, number, default), number, name)
BY DEF IsField, required, optional, defaulted

\* A descriptor without fields is well formed.
LEMMA Form0 ==
  ASSUME NEW desc, Len(desc) = 0
  PROVE  WellFormed(desc) /\ Names(desc) = {}
<1>1. Indices(desc) = {}
  BY DEF Indices
<1>2. WellFormed(desc)
  BY <1>1 DEF WellFormed, IsField
<1>3. Names(desc) = {}
  BY <1>1 DEF Names, IsField
<1> QED
  BY <1>2, <1>3

\* So is one with one field,
LEMMA Form1 ==
  ASSUME NEW desc, Len(desc) = 1,
         IsField(desc[1], 1, desc[1].name)
  PROVE  WellFormed(desc) /\ Names(desc) = {desc[1].name}
<1>1. Indices(desc) = {1}
  BY DEF Indices
<1>2. WellFormed(desc)
  BY <1>1 DEF WellFormed, IsField
<1>3. Names(desc) = {desc[1].name}
  BY <1>1 DEF Names, IsField
<1> QED
  BY <1>2, <1>3

\* with two,
LEMMA Form2 ==
  ASSUME NEW desc, Len(desc) = 2,
         IsField(desc[1], 1, desc[1].name), IsField(desc[2], 2, desc[2].name),
         \A i, j \in 1 .. 2 : i < j => desc[i].name # desc[j].name
  PROVE  WellFormed(desc) /\ Names(desc) = {desc[1].name, desc[2].name}
<1>1. Indices(desc) = {1, 2}
  BY DEF Indices
<1>2. WellFormed(desc)
  BY <1>1 DEF WellFormed, IsField
<1>3. Names(desc) = {desc[1].name, desc[2].name}
  BY <1>1 DEF Names, IsField
<1> QED
  BY <1>2, <1>3

\* with three,
LEMMA Form3 ==
  ASSUME NEW desc, Len(desc) = 3,
         IsField(desc[1], 1, desc[1].name), IsField(desc[2], 2, desc[2].name),
         IsField(desc[3], 3, desc[3].name),
         \A i, j \in 1 .. 3 : i < j => desc[i].name # desc[j].name
  PROVE  WellFormed(desc) /\ Names(desc) = {desc[1].name, desc[2].name, desc[3].name}
<1>1. Indices(desc) = {1, 2, 3}
  BY DEF Indices
<1>2. WellFormed(desc)
  BY <1>1 DEF WellFormed, IsField
<1>3. Names(desc) = {desc[1].name, desc[2].name, desc[3].name}
  BY <1>1 DEF Names, IsField
<1> QED
  BY <1>2, <1>3

\* and with four, if their names differ.
LEMMA Form4 ==
  ASSUME NEW desc, Len(desc) = 4,
         IsField(desc[1], 1, desc[1].name), IsField(desc[2], 2, desc[2].name),
         IsField(desc[3], 3, desc[3].name), IsField(desc[4], 4, desc[4].name),
         \A i, j \in 1 .. 4 : i < j => desc[i].name # desc[j].name
  PROVE  WellFormed(desc) /\ Names(desc) = {desc[1].name, desc[2].name, desc[3].name, desc[4].name}
<1>1. Indices(desc) = {1, 2, 3, 4}
  BY DEF Indices
<1>2. WellFormed(desc)
  BY <1>1 DEF WellFormed, IsField
<1>3. Names(desc) = {desc[1].name, desc[2].name, desc[3].name, desc[4].name}
  BY <1>1 DEF Names, IsField
<1> QED
  BY <1>2, <1>3

\* The tables of the program have this form, and these are their fields.
LEMMA HeaderForm ==
  WellFormed(header__descriptor) /\ Names(header__descriptor) = {"version", "type", "payload"}
<1>1. /\ Len(header__descriptor) = 3
      /\ IsField(header__descriptor[1], 1, "version")
      /\ IsField(header__descriptor[2], 2, "type")
      /\ IsField(header__descriptor[3], 3, "payload")
  BY Fields DEF header__descriptor
<1> QED  BY <1>1, Form3 DEF IsField

\* The messages of messages.proto, and the names of their fields.
LEMMA ServerForms ==
  /\ WellFormed(addr_discover__descriptor) /\ Names(addr_discover__descriptor) = {"ticket"}
  /\ WellFormed(addr_discover_reply__descriptor)
  /\ Names(addr_discover_reply__descriptor) = {"ticket", "addr"}
  /\ WellFormed(data__descriptor) /\ Names(data__descriptor) = {"id", "ttl", "last", "data"}
  /\ WellFormed(find_successor__descriptor)
  /\ Names(find_successor__descriptor) = {"ticket", "ttl", "addr", "port"}
  /\ WellFormed(find_successor_reply__descriptor)
  /\ Names(find_successor_reply__descriptor) = {"ticket", "addr", "port"}
  /\ WellFormed(stabilize__descriptor) /\ Names(stabilize__descriptor) = {"addr", "port"}
  /\ WellFormed(stabilize_reply__descriptor)
  /\ Names(stabilize_reply__descriptor) = {"addr", "port"}
  /\ WellFormed(notify__descriptor) /\ Names(notify__descriptor) = {}
  /\ WellFormed(ping__descriptor) /\ Names(ping__descriptor) = {"ticket", "time"}
  /\ WellFormed(pong__descriptor) /\ Names(pong__descriptor) = {"ticket", "time"}
<1>1. WellFormed(addr_discover__descriptor) /\ Names(addr_discover__descriptor) = {"ticket"}
  <2>1. /\ Len(addr_discover__descriptor) = 1
        /\ IsField(addr_discover__descriptor[1], 1, "ticket")
    BY Fields DEF addr_discover__descriptor
  <2> QED  BY <2>1, Form1 DEF IsField
<1>2. /\ WellFormed(addr_discover_reply__descriptor)
      /\ Names(addr_discover_reply__descriptor) = {"ticket", "addr"}
  <2>1. /\ Len(addr_discover_reply__descriptor) = 2
        /\ IsField(addr_discover_reply__descriptor[1], 1, "ticket")
        /\ IsField(addr_discover_reply__descriptor[2], 2, "addr")
    BY Fields DEF addr_discover_reply__descriptor
  <2> QED  BY <2>1, Form2 DEF IsField
<1>3. WellFormed(data__descriptor) /\ Names(data__descriptor) = {"id", "ttl", "last", "data"}
  <2>1. /\ Len(data__descriptor) = 4
        /\ IsField(data__descriptor[1], 1, "id")
        /\ IsField(data__descriptor[2], 2, "ttl")
        /\ IsField(data__descriptor[3], 3, "last")
        /\ IsField(data__descriptor[4], 4, "data")
    BY Fields, Zenon DEF data__descriptor
  <2> QED  BY <2>1, Form4 DEF IsField
<1>4. /\ WellFormed(find_successor__descriptor)
      /\ Names(find_successor__descriptor) = {"ticket", "ttl", "addr", "port"}
  <2>1. /\ Len(find_successor__descriptor) = 4
        /\ IsField(find_successor__descriptor[1], 1, "ticket")
        /\ IsField(find_successor__descriptor[2], 2, "ttl")
        /\ IsField(find_successor__descriptor[3], 3, "addr")
        /\ IsField(find_successor__descriptor[4], 4, "port")
    BY Fields DEF find_successor__descriptor
  <2> QED  BY <2>1, Form4 DEF IsField
<1>5. /\ WellFormed(find_successor_reply__descriptor)
      /\ Names(find_successor_reply__descriptor) = {"ticket", "addr", "port"}
  <2>1. /\ Len(find_successor_reply__descriptor) = 3
        /\ IsField(find_successor_reply__descriptor[1], 1, "ticket")
        /\ IsField(find_successor_reply__descriptor[2], 2, "addr")
        /\ IsField(find_successor_reply__descriptor[3], 3, "port")
    BY Fields DEF find_successor_reply__descriptor
  <2> QED  BY <2>1, Form3 DEF IsField
<1>6. WellFormed(stabilize__descriptor) /\ Names(stabilize__descriptor) = {"addr", "port"}
  <2>1. /\ Len(stabilize__descriptor) = 2
        /\ IsField(stabilize__descriptor[1], 1, "addr")
        /\ IsField(stabilize__descriptor[2], 2, "port")
    BY Fields DEF stabilize__descriptor
  <2> QED  BY <2>1, Form2 DEF IsField
<1>7. /\ WellFormed(stabilize_reply__descriptor)
      /\ Names(stabilize_reply__descriptor) = {"addr", "port"}
  <2>1. /\ Len(stabilize_reply__descriptor) = 2
        /\ IsField(stabilize_reply__descriptor[1], 1, "addr")
        /\ IsField(stabilize_reply__descriptor[2], 2, "port")
    BY Fields DEF stabilize_reply__descriptor
  <2> QED  BY <2>1, Form2 DEF IsField
<1>8. WellFormed(notify__descriptor) /\ Names(notify__descriptor) = {}
  <2>1. /\ Len(notify__descriptor) = 0
    BY Fields DEF notify__descriptor
  <2> QED  BY <2>1, Form0 DEF IsField
<1>9. WellFormed(ping__descriptor) /\ Names(ping__descriptor) = {"ticket", "time"}
  <2>1. /\ Len(ping__descriptor) = 2
        /\ IsField(ping__descriptor[1], 1, "ticket")
        /\ IsField(ping__descriptor[2], 2, "time")
    BY Fields DEF ping__descriptor
  <2> QED  BY <2>1, Form2 DEF IsField
<1>10. WellFormed(pong__descriptor) /\ Names(pong__descriptor) = {"ticket", "time"}
  <2>1. /\ Len(pong__descriptor) = 2
        /\ IsField(pong__descriptor[1], 1, "ticket")
        /\ IsField(pong__descriptor[2], 2, "time")
    BY Fields DEF pong__descriptor
  <2> QED  BY <2>1, Form2 DEF IsField
<1> QED
  BY <1>1, <1>2, <1>3, <1>4, <1>5, <1>6, <1>7, <1>8, <1>9, <1>10

\* The messages of d_messages.proto, and the names of their fields.
LEMMA DHashForms ==
  /\ WellFormed(query__descriptor)
  /\ Names(query__descriptor) = {"reply_addr", "reply_port", "name"}
  /\ WellFormed(query_reply_success__descriptor)
  /\ Names(query_reply_success__descriptor) = {"name"}
  /\ WellFormed(query_reply_failure__descriptor)
  /\ Names(query_reply_failure__descriptor) = {"name"}
  /\ WellFormed(push__descriptor)
  /\ Names(push__descriptor) = {"reply_addr", "reply_port", "name"}
  /\ WellFormed(push_reply__descriptor) /\ Names(push_reply__descriptor) = {"name"}
<1>1. /\ WellFormed(query__descriptor)
      /\ Names(query__descriptor) = {"reply_addr", "reply_port", "name"}
  <2>1. /\ Len(query__descriptor) = 3
        /\ IsField(query__descriptor[1], 1, "reply_addr")
        /\ IsField(query__descriptor[2], 2, "reply_port")
        /\ IsField(query__descriptor[3], 3, "name")
    BY Fields DEF query__descriptor
  <2> QED  BY <2>1, Form3 DEF IsField
<1>2. /\ WellFormed(query_reply_success__descriptor)
      /\ Names(query_reply_success__descriptor) = {"name"}
  <2>1. /\ Len(query_reply_success__descriptor) = 1
        /\ IsField(query_reply_success__descriptor[1], 1, "name")
    BY Fields DEF query_reply_success__descriptor
  <2> QED  BY <2>1, Form1 DEF IsField
<1>3. /\ WellFormed(query_reply_failure__descriptor)
      /\ Names(query_reply_failure__descriptor) = {"name"}
  <2>1. /\ Len(query_reply_failure__descriptor) = 1
        /\ IsField(query_reply_failure__descriptor[1], 1, "name")
    BY Fields DEF query_reply_failure__descriptor
  <2> QED  BY <2>1, Form1 DEF IsField
<1>4. /\ WellFormed(push__descriptor)
      /\ Names(push__descriptor) = {"reply_addr", "reply_port", "name"}
  <2>1. /\ Len(push__descriptor) = 3
        /\ IsField(push__descriptor[1], 1, "reply_addr")
        /\ IsField(push__descriptor[2], 2, "reply_port")
        /\ IsField(push__descriptor[3], 3, "name")
    BY Fields DEF push__descriptor
  <2> QED  BY <2>1, Form3 DEF IsField
<1>5. WellFormed(push_reply__descriptor) /\ Names(push_reply__descriptor) = {"name"}
  <2>1. /\ Len(push_reply__descriptor) = 1
        /\ IsField(push_reply__descriptor[1], 1, "name")
    BY Fields DEF push_reply__descriptor
  <2> QED  BY <2>1, Form1 DEF IsField
<1> QED
  BY <1>1, <1>2, <1>3, <1>4, <1>5

-----------------------------------------------------------------------------
(***************************************************************************)
(* Headers.                                                                *)
(***************************************************************************)
IsHeader(buf) == buf = [n \in 1 .. 3 |-> buf[n]]

\* A header as a message.
HeaderOf(version, type, payload) == [version |-> version, type |-> type, payload |-> payload]

\* The fields of a header in a packed one.
LEMMA HeaderFields ==
  ASSUME NEW version, NEW type, NEW payload
  PROVE  LET buf == protobuf_c_message_pack(header__descriptor, HeaderOf(version, type, payload))
         IN  IsHeader(buf) /\ buf[1] = version /\ buf[2] = type /\ buf[3] = payload
<1> DEFINE hd == header__descriptor
           msg == HeaderOf(version, type, payload)
           buf == protobuf_c_message_pack(hd, msg)
<1>1. /\ Len(hd) = 3 /\ hd[1].name = "version" /\ hd[2].name = "type" /\ hd[3].name = "payload"
      /\ DOMAIN msg = {"version", "type", "payload"}
      /\ msg["version"] = version /\ msg["type"] = type /\ msg["payload"] = payload
  BY DEF header__descriptor, required, optional, HeaderOf
<1>2. /\ DOMAIN buf = {i \in Indices(hd) : ~hd[i].optional \/ hd[i].name \in DOMAIN msg}
      /\ \A i \in DOMAIN buf :
           buf[i] = IF hd[i].name \in DOMAIN msg THEN msg[hd[i].name] ELSE Zero
  BY HeaderForm, Packed, Zenon
<1>3. buf = [n \in DOMAIN buf |-> buf[n]]
  BY DEF protobuf_c_message_pack
<1> HIDE DEF hd, msg, buf
<1>4. Indices(hd) = 1 .. 3 /\ 1 .. 3 = {1, 2, 3}
  BY <1>1 DEF Indices
<1>5. DOMAIN buf = 1 .. 3
  BY <1>1, <1>2, <1>4
<1>6. buf[1] = version /\ buf[2] = type /\ buf[3] = payload
  BY <1>1, <1>2, <1>4, <1>5
<1> QED
  BY <1>3, <1>5, <1>6 DEF IsHeader, buf, hd, msg

\* pack_header puts the type and the packed message where they belong.
LEMMA HeaderPacked ==
  ASSUME NEW version, NEW type, NEW desc, NEW msg
  PROVE  LET buf == pack_header(version, type, desc, msg)
         IN  IsHeader(buf) /\ buf[2] = type /\ buf[3] = protobuf_c_message_pack(desc, msg)
BY HeaderFields DEF pack_header, HeaderOf

\* header__unpack finds them there.
LEMMA HeaderUnpacked ==
  ASSUME NEW buf, IsHeader(buf)
  PROVE  header__unpack(buf).type = buf[2] /\ header__unpack(buf).payload = buf[3]
<1> DEFINE msg == HeaderOf(buf[1], buf[2], buf[3])
           packed == protobuf_c_message_pack(header__descriptor, msg)
<1>1. IsHeader(packed) /\ packed[1] = buf[1] /\ packed[2] = buf[2] /\ packed[3] = buf[3]
  BY HeaderFields
<1>2. msg = [name \in {"version", "type", "payload"} |-> msg[name]]
  BY DEF HeaderOf
<1>3. Indices(header__descriptor) = 1 .. 3
  BY DEF Indices, header__descriptor
<1> HIDE DEF packed
<1>4. Carries(header__descriptor, buf, packed)
  <2>1. DOMAIN packed = 1 .. 3 /\ DOMAIN buf = 1 .. 3 /\ 1 .. 3 = {1, 2, 3}
    BY <1>1 DEF IsHeader
  <2> QED
    BY <1>1, <1>3, <2>1 DEF Carries
<1>5. protobuf_c_message_unpack(header__descriptor, buf) = msg
  <2>1. WellFormed(header__descriptor) /\ msg = [name \in Names(header__descriptor) |-> msg[name]]
    BY <1>2, HeaderForm
  <2> HIDE DEF msg
  <2> QED
    BY <1>4, <2>1, RoundTripAll DEF packed
<1> QED
  BY <1>5 DEF header__unpack, HeaderOf

-----------------------------------------------------------------------------
(***************************************************************************)
(* The dispatch tables.                                                    *)
(***************************************************************************)
\* A list of arguments with one more, or one fewer.
LEMMA Pairs ==
  ASSUME NEW s, NEW x
  PROVE  /\ Append(<<s>>, x) = <<s, x>>
         /\ Front(<<s, x>>) = <<s>>
         /\ <<s>> \o <<x>> = <<s, x>>
<1>1. <<s>> \in Seq({s, x}) /\ <<x>> \in Seq({s, x}) /\ <<s, x>> \in Seq({s, x})
  OBVIOUS
<1> DEFINE a == Append(<<s>>, x)
           b == Front(<<s, x>>)
           c == <<s>> \o <<x>>
<1>2. a \in Seq({s, x}) /\ Len(a) = 2 /\ a[1] = s /\ a[2] = x
  BY <1>1
<1>3. b \in Seq({s, x}) /\ Len(b) = 1 /\ b[1] = s
  BY <1>1 DEF Front
<1>4. c \in Seq({s, x}) /\ Len(c) = 2 /\ c[1] = s /\ c[2] = x
  BY <1>1
<1> HIDE DEF a, b, c
<1>5. a = <<s, x>> /\ b = <<s>> /\ c = <<s, x>>
  BY <1>1, <1>2, <1>3, <1>4
<1> QED
  BY <1>5 DEF a, b, c

\* A dispatcher with handlers for the types up to n.
IsTable(d, n) == d = [type \in 0 .. n |-> d[type]]

\* What dispatcher_set_packet stores for every type of the Chord server.
LEMMA ServerTable ==
  ASSUME NEW s
  PROVE  LET d == new_server(s)
         IN  /\ IsTable(d, 9)
             /\ d[0] = init_handler(s, addr_discover__descriptor, "process_addr_discover")
             /\ d[1] = init_handler(s, addr_discover_reply__descriptor, "process_addr_discover_reply")
             /\ d[2] = init_handler(s, data__descriptor, "process_data")
             /\ d[3] = init_handler(s, find_successor__descriptor, "process_fs")
             /\ d[4] = init_handler(s, find_successor_reply__descriptor, "process_fs_reply")
             /\ d[5] = init_handler(s, stabilize__descriptor, "process_stab")
             /\ d[6] = init_handler(s, stabilize_reply__descriptor, "process_stab_reply")
             /\ d[7] = init_handler(s, notify__descriptor, "process_notify")
             /\ d[8] = init_handler(s, ping__descriptor, "process_ping")
             /\ d[9] = init_handler(s, pong__descriptor, "process_pong")
<1> DEFINE e0 == new_dispatcher(10)
           h0 == init_handler(s, addr_discover__descriptor, "process_addr_discover")
           h1 == init_handler(s, addr_discover_reply__descriptor, "process_addr_discover_reply")
           h2 == init_handler(s, data__descriptor, "process_data")
           h3 == init_handler(s, find_successor__descriptor, "process_fs")
           h4 == init_handler(s, find_successor_reply__descriptor, "process_fs_reply")
           h5 == init_handler(s, stabilize__descriptor, "process_stab")
           h6 == init_handler(s, stabilize_reply__descriptor, "process_stab_reply")
           h7 == init_handler(s, notify__descriptor, "process_notify")
           h8 == init_handler(s, ping__descriptor, "process_ping")
           h9 == init_handler(s, pong__descriptor, "process_pong")
           e1 == [e0 EXCEPT ![0] = h0]
           e2 == [e1 EXCEPT ![1] = h1]
           e3 == [e2 EXCEPT ![2] = h2]
           e4 == [e3 EXCEPT ![3] = h3]
           e5 == [e4 EXCEPT ![4] = h4]
           e6 == [e5 EXCEPT ![5] = h5]
           e7 == [e6 EXCEPT ![6] = h6]
           e8 == [e7 EXCEPT ![7] = h7]
           e9 == [e8 EXCEPT ![8] = h8]
           e10 == [e9 EXCEPT ![9] = h9]
<1>a. new_server(s) = e10
  BY DEF new_server, CHORD_ADDR_DISCOVER, CHORD_ADDR_DISCOVER_REPLY, CHORD_DATA, CHORD_FS,
         CHORD_FS_REPLY, CHORD_STAB, CHORD_STAB_REPLY, CHORD_NOTIFY, CHORD_PING, CHORD_PONG
<1>b. IsTable(e0, 9)
  BY DEF IsTable, new_dispatcher
<1> HIDE DEF e0, h0, h1, h2, h3, h4, h5, h6, h7, h8, h9
<1>1. IsTable(e1, 9) /\ e1[0] = h0
  BY <1>b DEF IsTable
<1> HIDE DEF e1
<1>2. IsTable(e2, 9) /\ e2[0] = h0 /\ e2[1] = h1
  BY <1>1 DEF IsTable
<1> HIDE DEF e2
<1>3. IsTable(e3, 9) /\ e3[0] = h0 /\ e3[1] = h1 /\ e3[2] = h2
  BY <1>2 DEF IsTable
<1> HIDE DEF e3
<1>4. IsTable(e4, 9) /\ e4[0] = h0 /\ e4[1] = h1 /\ e4[2] = h2 /\ e4[3] = h3
  BY <1>3 DEF IsTable
<1> HIDE DEF e4
<1>5. IsTable(e5, 9) /\ e5[0] = h0 /\ e5[1] = h1 /\ e5[2] = h2 /\ e5[3] = h3 /\ e5[4] = h4
  BY <1>4 DEF IsTable
<1> HIDE DEF e5
<1>6. IsTable(e6, 9) /\ e6[0] = h0 /\ e6[1] = h1 /\ e6[2] = h2 /\ e6[3] = h3 /\ e6[4] = h4 /\ e6[5] = h5
  BY <1>5 DEF IsTable
<1> HIDE DEF e6
<1>7. IsTable(e7, 9) /\ e7[0] = h0 /\ e7[1] = h1 /\ e7[2] = h2 /\ e7[3] = h3 /\ e7[4] = h4 /\ e7[5] = h5 /\ e7[6] = h6
  BY <1>6 DEF IsTable
<1> HIDE DEF e7
<1>8. IsTable(e8, 9) /\ e8[0] = h0 /\ e8[1] = h1 /\ e8[2] = h2 /\ e8[3] = h3 /\ e8[4] = h4 /\ e8[5] = h5 /\ e8[6] = h6 /\ e8[7] = h7
  BY <1>7 DEF IsTable
<1> HIDE DEF e8
<1>9. IsTable(e9, 9) /\ e9[0] = h0 /\ e9[1] = h1 /\ e9[2] = h2 /\ e9[3] = h3 /\ e9[4] = h4 /\ e9[5] = h5 /\ e9[6] = h6 /\ e9[7] = h7 /\ e9[8] = h8
  BY <1>8 DEF IsTable
<1> HIDE DEF e9
<1>10. IsTable(e10, 9) /\ e10[0] = h0 /\ e10[1] = h1 /\ e10[2] = h2 /\ e10[3] = h3 /\ e10[4] = h4 /\ e10[5] = h5 /\ e10[6] = h6 /\ e10[7] = h7 /\ e10[8] = h8 /\ e10[9] = h9
  BY <1>9 DEF IsTable
<1> HIDE DEF e10
<1> QED
  BY <1>a, <1>10 DEF h0, h1, h2, h3, h4, h5, h6, h7, h8, h9

\* The same for DHash.
LEMMA DHashTable ==
  /\ IsTable(new_dhash, 4)
  /\ new_dhash[0] = init_handler(DHash, query__descriptor, "dhash_process_query")
  /\ new_dhash[1] = init_handler(DHash, query_reply_success__descriptor, "dhash_process_query_reply_success")
  /\ new_dhash[2] = init_handler(DHash, query_reply_failure__descriptor, "dhash_process_query_reply_failure")
  /\ new_dhash[3] = init_handler(DHash, push__descriptor, "dhash_process_push")
  /\ new_dhash[4] = init_handler(DHash, push_reply__descriptor, "dhash_process_push_reply")
<1> DEFINE e0 == new_dispatcher(5)
           h0 == init_handler(DHash, query__descriptor, "dhash_process_query")
           h1 == init_handler(DHash, query_reply_success__descriptor, "dhash_process_query_reply_success")
           h2 == init_handler(DHash, query_reply_failure__descriptor, "dhash_process_query_reply_failure")
           h3 == init_handler(DHash, push__descriptor, "dhash_process_push")
           h4 == init_handler(DHash, push_reply__descriptor, "dhash_process_push_reply")
           e1 == [e0 EXCEPT ![0] = h0]
           e2 == [e1 EXCEPT ![1] = h1]
           e3 == [e2 EXCEPT ![2] = h2]
           e4 == [e3 EXCEPT ![3] = h3]
           e5 == [e4 EXCEPT ![4] = h4]
<1>a. new_dhash = e5
  BY DEF new_dhash, DHASH_QUERY, DHASH_QUERY_REPLY_SUCCESS,
         DHASH_QUERY_REPLY_FAILURE, DHASH_PUSH, DHASH_PUSH_REPLY
<1>b. IsTable(e0, 4)
  BY DEF IsTable, new_dispatcher
<1> HIDE DEF e0, h0, h1, h2, h3, h4
<1>1. IsTable(e1, 4) /\ e1[0] = h0
  BY <1>b DEF IsTable
<1> HIDE DEF e1
<1>2. IsTable(e2, 4) /\ e2[0] = h0 /\ e2[1] = h1
  BY <1>1 DEF IsTable
<1> HIDE DEF e2
<1>3. IsTable(e3, 4) /\ e3[0] = h0 /\ e3[1] = h1 /\ e3[2] = h2
  BY <1>2 DEF IsTable
<1> HIDE DEF e3
<1>4. IsTable(e4, 4) /\ e4[0] = h0 /\ e4[1] = h1 /\ e4[2] = h2 /\ e4[3] = h3
  BY <1>3 DEF IsTable
<1> HIDE DEF e4
<1>5. IsTable(e5, 4) /\ e5[0] = h0 /\ e5[1] = h1 /\ e5[2] = h2 /\ e5[3] = h3 /\ e5[4] = h4
  BY <1>4 DEF IsTable
<1> HIDE DEF e5
<1> QED
  BY <1>a, <1>5 DEF h0, h1, h2, h3, h4

\* DHash changes nothing but the handler of Data.
LEMMA StartedTable ==
  ASSUME NEW s
  PROVE  LET d == dhash_start(s)
         IN  /\ IsTable(d, 9)
             /\ \A type \in 0 .. 9 : type # 2 => d[type] = new_server(s)[type]
             /\ d[2] = [unpack |-> data__descriptor, process |-> "dhash_unpack_chord_data",
                        process_args |-> <<s, DHash>>]
<1> DEFINE d == new_server(s)
           u == "dhash_unpack_chord_data"
           h == [unpack |-> data__descriptor, process |-> u, process_args |-> <<s>>]
           k == [unpack |-> data__descriptor, process |-> u, process_args |-> <<s, DHash>>]
           e == dispatcher_set_packet_handlers(d, CHORD_DATA, data__descriptor, u)
           f == dispatcher_push_arg(e, CHORD_DATA, DHash)
<1>1. IsTable(d, 9) /\ d[2] = init_handler(s, data__descriptor, "process_data")
  BY ServerTable
<1> HIDE DEF d
<1>2. e = [d EXCEPT ![2] = h]
  <2>1. e = [d EXCEPT ![2].unpack = data__descriptor, ![2].process = u]
    BY <1>1 DEF dispatcher_set_packet_handlers, has_handler, CHORD_DATA, IsTable
  <2>2. [[d[2] EXCEPT !.unpack = data__descriptor] EXCEPT !.process = u] = h
    <3>1. d[2] = [unpack |-> data__descriptor, process |-> "process_data", process_args |-> <<s>>]
      BY <1>1 DEF init_handler
    <3> DEFINE q == [d[2] EXCEPT !.unpack = data__descriptor]
    <3>2. q = [unpack |-> data__descriptor, process |-> "process_data", process_args |-> <<s>>]
      BY <3>1
    <3> HIDE DEF q
    <3>3. [q EXCEPT !.process = u] = h
      BY <3>2
    <3> QED
      BY <3>3 DEF q
  <2> HIDE DEF h
  <2> QED
    BY <1>1, <2>1, <2>2, Zenon DEF IsTable
<1> HIDE DEF e
<1>3. IsTable(e, 9) /\ e[2] = h /\ \A type \in 0 .. 9 : type # 2 => e[type] = d[type]
  <2> HIDE DEF h
  <2>1. DOMAIN d = 0 .. 9 /\ 2 \in 0 .. 9
    BY <1>1 DEF IsTable
  <2>2. \A type \in 0 .. 9 : type # 2 => e[type] = d[type]
    BY <1>2, <2>1, Zenon
  <2>3. e[2] = h
    BY <1>2, <2>1, Zenon
  <2>4. IsTable(e, 9)
    BY <1>2, <2>1, Zenon DEF IsTable
  <2> QED  BY <2>2, <2>3, <2>4
<1>4. Append(<<s>>, DHash) = <<s, DHash>>
  BY Pairs, Zenon
<1>5. f = [e EXCEPT ![2] = k]
  <2>1. f = [e EXCEPT ![2].process_args = Append(@, DHash)]
    BY <1>3 DEF dispatcher_push_arg, has_handler, CHORD_DATA, IsTable
  <2>2. [e[2] EXCEPT !.process_args = Append(@, DHash)] = k
    BY <1>3, <1>4
  <2> QED
    BY <2>1, <2>2, Zenon
<1> HIDE DEF f
<1>6. IsTable(f, 9) /\ f[2] = k /\ \A type \in 0 .. 9 : type # 2 => f[type] = e[type]
  <2> HIDE DEF k
  <2>1. DOMAIN e = 0 .. 9 /\ 2 \in 0 .. 9
    BY <1>3 DEF IsTable
  <2>2. \A type \in 0 .. 9 : type # 2 => f[type] = e[type]
    BY <1>5, <2>1, Zenon
  <2>3. f[2] = k
    BY <1>5, <2>1, Zenon
  <2>4. IsTable(f, 9)
    BY <1>5, <2>1, Zenon DEF IsTable
  <2> QED  BY <2>2, <2>3, <2>4
<1>7. dhash_start(s) = f
  BY DEF dhash_start, f, e, d
<1> QED
  BY <1>3, <1>6, <1>7 DEF d

-----------------------------------------------------------------------------
(***************************************************************************)
(* Packets.                                                                *)
(***************************************************************************)
IsMessage(msg, desc) == msg = [name \in Names(desc) |-> msg[name]]

\* p is the packet of this type with the fields p.msg.
Sealed(p, type, desc) ==
  /\ WellFormed(desc)
  /\ IsMessage(p.msg, desc)
  /\ IsHeader(p.buf) /\ p.buf[2] = type
  /\ p.buf[3] = protobuf_c_message_pack(desc, p.msg)

\* A message packed with a header is sealed.
LEMMA PackSeals ==
  ASSUME NEW process, NEW msg, NEW version, NEW type, NEW desc,
         WellFormed(desc), IsMessage(msg, desc)
  PROVE  Sealed(Packet(process, msg, pack_header(version, type, desc, msg)), type, desc)
<1> DEFINE buf == pack_header(version, type, desc, msg)
<1>1. IsHeader(buf) /\ buf[2] = type /\ buf[3] = protobuf_c_message_pack(desc, msg)
  BY HeaderPacked
<1> HIDE DEF buf
<1> QED
  BY <1>1 DEF Sealed, Packet, buf

\* The name of a handler of ours.
Ours(process) ==
  process \notin {"none: required field missing", "none: unknown type", "dhash_unpack_chord_data"}

\* A packet without the first field does not unpack.
FirstRequired(desc) == 1 \in Indices(desc) /\ ~desc[1].optional

\* The handlers dhash registers for its own messages.
DHashHandlers ==
  {"dhash_process_query", "dhash_process_query_reply_success",
   "dhash_process_query_reply_failure", "dhash_process_push", "dhash_process_push_reply"}

\* Every packet of the server is sealed for the entry of its handler.
LEMMA ChordSealed ==
  ASSUME NEW s, NEW p \in ChordPackets
  PROVE  \E type \in 0 .. 9 : \E desc :
           /\ type # 2 /\ Sealed(p, type, desc)
           /\ new_server(s)[type] = init_handler(s, desc, p.process)
           /\ Ours(p.process) /\ p.process \notin DHashHandlers
<1> DEFINE Good(type, desc) ==
             /\ type # 2 /\ Sealed(p, type, desc)
             /\ new_server(s)[type] = init_handler(s, desc, p.process)
             /\ Ours(p.process) /\ p.process \notin DHashHandlers
           G == \E type \in 0 .. 9 : \E desc : Good(type, desc)
<1>1. ASSUME NEW t \in Ticket, 
             p = Packet("process_addr_discover", [ticket |-> t], pack_addr_discover(t))
      PROVE  G
  <2> DEFINE m == [ticket |-> t]
  <2>1. WellFormed(addr_discover__descriptor) /\ IsMessage(m, addr_discover__descriptor)
    BY ServerForms DEF IsMessage
  <2>2. pack_addr_discover(t) = pack_header(1, 0, addr_discover__descriptor, m)
    BY DEF pack_addr_discover, pack_chord_header, CHORD_WIRE_VERSION, CHORD_ADDR_DISCOVER
  <2>3. p = Packet("process_addr_discover", m, pack_header(1, 0, addr_discover__descriptor, m))
    BY <1>1, <2>2
  <2> HIDE DEF m
  <2>4. Sealed(p, 0, addr_discover__descriptor)
    BY <2>1, <2>3, PackSeals
  <2>5. p.process = "process_addr_discover"
    BY <2>3 DEF Packet
  <2>6. Good(0, addr_discover__descriptor)
    BY <2>4, <2>5, ServerTable DEF Ours, DHashHandlers
  <2> HIDE DEF Good
  <2>7. 0 \in 0 .. 9
    OBVIOUS
  <2> QED
    BY <2>6, <2>7, Zenon DEF G
<1>2. ASSUME NEW t \in Ticket, NEW a \in Address, 
             p = Packet("process_addr_discover_reply", [ticket |-> t, addr |-> a], pack_addr_discover_reply(t, a))
      PROVE  G
  <2> DEFINE m == [ticket |-> t, addr |-> a]
  <2>1. WellFormed(addr_discover_reply__descriptor) /\ IsMessage(m, addr_discover_reply__descriptor)
    BY ServerForms DEF IsMessage
  <2>2. pack_addr_discover_reply(t, a) = pack_header(1, 1, addr_discover_reply__descriptor, m)
    BY DEF pack_addr_discover_reply, pack_chord_header, CHORD_WIRE_VERSION, CHORD_ADDR_DISCOVER_REPLY
  <2>3. p = Packet("process_addr_discover_reply", m, pack_header(1, 1, addr_discover_reply__descriptor, m))
    BY <1>2, <2>2
  <2> HIDE DEF m
  <2>4. Sealed(p, 1, addr_discover_reply__descriptor)
    BY <2>1, <2>3, PackSeals
  <2>5. p.process = "process_addr_discover_reply"
    BY <2>3 DEF Packet
  <2>6. Good(1, addr_discover_reply__descriptor)
    BY <2>4, <2>5, ServerTable DEF Ours, DHashHandlers
  <2> HIDE DEF Good
  <2>7. 1 \in 0 .. 9
    OBVIOUS
  <2> QED
    BY <2>6, <2>7, Zenon DEF G
<1>3. ASSUME NEW t \in Ticket, NEW l \in Ttl, NEW a \in Address, NEW q \in Port, 
             p = Packet("process_fs", [ticket |-> t, ttl |-> l, addr |-> a, port |-> q], pack_fs(t, l, a, q))
      PROVE  G
  <2> DEFINE m == [ticket |-> t, ttl |-> l, addr |-> a, port |-> q]
  <2>1. WellFormed(find_successor__descriptor) /\ IsMessage(m, find_successor__descriptor)
    BY ServerForms DEF IsMessage
  <2>2. pack_fs(t, l, a, q) = pack_header(1, 3, find_successor__descriptor, m)
    BY DEF pack_fs, pack_chord_header, CHORD_WIRE_VERSION, CHORD_FS
  <2>3. p = Packet("process_fs", m, pack_header(1, 3, find_successor__descriptor, m))
    BY <1>3, <2>2
  <2> HIDE DEF m
  <2>4. Sealed(p, 3, find_successor__descriptor)
    BY <2>1, <2>3, PackSeals
  <2>5. p.process = "process_fs"
    BY <2>3 DEF Packet
  <2>6. Good(3, find_successor__descriptor)
    BY <2>4, <2>5, ServerTable DEF Ours, DHashHandlers
  <2> HIDE DEF Good
  <2>7. 3 \in 0 .. 9
    OBVIOUS
  <2> QED
    BY <2>6, <2>7, Zenon DEF G
<1>4. ASSUME NEW t \in Ticket, NEW a \in Address, NEW q \in Port, 
             p = Packet("process_fs_reply", [ticket |-> t, addr |-> a, port |-> q], pack_fs_reply(t, a, q))
      PROVE  G
  <2> DEFINE m == [ticket |-> t, addr |-> a, port |-> q]
  <2>1. WellFormed(find_successor_reply__descriptor) /\ IsMessage(m, find_successor_reply__descriptor)
    BY ServerForms DEF IsMessage
  <2>2. pack_fs_reply(t, a, q) = pack_header(1, 4, find_successor_reply__descriptor, m)
    BY DEF pack_fs_reply, pack_chord_header, CHORD_WIRE_VERSION, CHORD_FS_REPLY
  <2>3. p = Packet("process_fs_reply", m, pack_header(1, 4, find_successor_reply__descriptor, m))
    BY <1>4, <2>2
  <2> HIDE DEF m
  <2>4. Sealed(p, 4, find_successor_reply__descriptor)
    BY <2>1, <2>3, PackSeals
  <2>5. p.process = "process_fs_reply"
    BY <2>3 DEF Packet
  <2>6. Good(4, find_successor_reply__descriptor)
    BY <2>4, <2>5, ServerTable DEF Ours, DHashHandlers
  <2> HIDE DEF Good
  <2>7. 4 \in 0 .. 9
    OBVIOUS
  <2> QED
    BY <2>6, <2>7, Zenon DEF G
<1>5. ASSUME NEW a \in Address, NEW q \in Port, 
             p = Packet("process_stab", [addr |-> a, port |-> q], pack_stab(a, q))
      PROVE  G
  <2> DEFINE m == [addr |-> a, port |-> q]
  <2>1. WellFormed(stabilize__descriptor) /\ IsMessage(m, stabilize__descriptor)
    BY ServerForms DEF IsMessage
  <2>2. pack_stab(a, q) = pack_header(1, 5, stabilize__descriptor, m)
    BY DEF pack_stab, pack_chord_header, CHORD_WIRE_VERSION, CHORD_STAB
  <2>3. p = Packet("process_stab", m, pack_header(1, 5, stabilize__descriptor, m))
    BY <1>5, <2>2
  <2> HIDE DEF m
  <2>4. Sealed(p, 5, stabilize__descriptor)
    BY <2>1, <2>3, PackSeals
  <2>5. p.process = "process_stab"
    BY <2>3 DEF Packet
  <2>6. Good(5, stabilize__descriptor)
    BY <2>4, <2>5, ServerTable DEF Ours, DHashHandlers
  <2> HIDE DEF Good
  <2>7. 5 \in 0 .. 9
    OBVIOUS
  <2> QED
    BY <2>6, <2>7, Zenon DEF G
<1>6. ASSUME NEW a \in Address, NEW q \in Port, 
             p = Packet("process_stab_reply", [addr |-> a, port |-> q], pack_stab_reply(a, q))
      PROVE  G
  <2> DEFINE m == [addr |-> a, port |-> q]
  <2>1. WellFormed(stabilize_reply__descriptor) /\ IsMessage(m, stabilize_reply__descriptor)
    BY ServerForms DEF IsMessage
  <2>2. pack_stab_reply(a, q) = pack_header(1, 6, stabilize_reply__descriptor, m)
    BY DEF pack_stab_reply, pack_chord_header, CHORD_WIRE_VERSION, CHORD_STAB_REPLY
  <2>3. p = Packet("process_stab_reply", m, pack_header(1, 6, stabilize_reply__descriptor, m))
    BY <1>6, <2>2
  <2> HIDE DEF m
  <2>4. Sealed(p, 6, stabilize_reply__descriptor)
    BY <2>1, <2>3, PackSeals
  <2>5. p.process = "process_stab_reply"
    BY <2>3 DEF Packet
  <2>6. Good(6, stabilize_reply__descriptor)
    BY <2>4, <2>5, ServerTable DEF Ours, DHashHandlers
  <2> HIDE DEF Good
  <2>7. 6 \in 0 .. 9
    OBVIOUS
  <2> QED
    BY <2>6, <2>7, Zenon DEF G
<1>7. ASSUME p = Packet("process_notify", NoFields, pack_notify)
      PROVE  G
  <2> DEFINE m == NoFields
  <2>1. WellFormed(notify__descriptor) /\ IsMessage(m, notify__descriptor)
    BY ServerForms DEF IsMessage, NoFields
  <2>2. pack_notify = pack_header(1, 7, notify__descriptor, m)
    BY DEF pack_notify, pack_chord_header, CHORD_WIRE_VERSION, CHORD_NOTIFY
  <2>3. p = Packet("process_notify", m, pack_header(1, 7, notify__descriptor, m))
    BY <1>7, <2>2
  <2> HIDE DEF m
  <2>4. Sealed(p, 7, notify__descriptor)
    BY <2>1, <2>3, PackSeals
  <2>5. p.process = "process_notify"
    BY <2>3 DEF Packet
  <2>6. Good(7, notify__descriptor)
    BY <2>4, <2>5, ServerTable DEF Ours, DHashHandlers
  <2> HIDE DEF Good
  <2>7. 7 \in 0 .. 9
    OBVIOUS
  <2> QED
    BY <2>6, <2>7, Zenon DEF G
<1>8. ASSUME NEW t \in Ticket, 
             p = Packet("process_ping", [ticket |-> t, time |-> 1], pack_ping(t, 1))
      PROVE  G
  <2> DEFINE m == [ticket |-> t, time |-> 1]
  <2>1. WellFormed(ping__descriptor) /\ IsMessage(m, ping__descriptor)
    BY ServerForms DEF IsMessage
  <2>2. pack_ping(t, 1) = pack_header(1, 8, ping__descriptor, m)
    BY DEF pack_ping, pack_chord_header, CHORD_WIRE_VERSION, CHORD_PING
  <2>3. p = Packet("process_ping", m, pack_header(1, 8, ping__descriptor, m))
    BY <1>8, <2>2
  <2> HIDE DEF m
  <2>4. Sealed(p, 8, ping__descriptor)
    BY <2>1, <2>3, PackSeals
  <2>5. p.process = "process_ping"
    BY <2>3 DEF Packet
  <2>6. Good(8, ping__descriptor)
    BY <2>4, <2>5, ServerTable DEF Ours, DHashHandlers
  <2> HIDE DEF Good
  <2>7. 8 \in 0 .. 9
    OBVIOUS
  <2> QED
    BY <2>6, <2>7, Zenon DEF G
<1>9. ASSUME NEW t \in Ticket, 
             p = Packet("process_pong", [ticket |-> t, time |-> 1], pack_pong(t, 1))
      PROVE  G
  <2> DEFINE m == [ticket |-> t, time |-> 1]
  <2>1. WellFormed(pong__descriptor) /\ IsMessage(m, pong__descriptor)
    BY ServerForms DEF IsMessage
  <2>2. pack_pong(t, 1) = pack_header(1, 9, pong__descriptor, m)
    BY DEF pack_pong, pack_chord_header, CHORD_WIRE_VERSION, CHORD_PONG
  <2>3. p = Packet("process_pong", m, pack_header(1, 9, pong__descriptor, m))
    BY <1>9, <2>2
  <2> HIDE DEF m
  <2>4. Sealed(p, 9, pong__descriptor)
    BY <2>1, <2>3, PackSeals
  <2>5. p.process = "process_pong"
    BY <2>3 DEF Packet
  <2>6. Good(9, pong__descriptor)
    BY <2>4, <2>5, ServerTable DEF Ours, DHashHandlers
  <2> HIDE DEF Good
  <2>7. 9 \in 0 .. 9
    OBVIOUS
  <2> QED
    BY <2>6, <2>7, Zenon DEF G
<1> DEFINE AddrDiscover(t) == Packet("process_addr_discover", [ticket |-> t], pack_addr_discover(t))
           AddrDiscoverReply(t, a) == Packet("process_addr_discover_reply", [ticket |-> t, addr |-> a], pack_addr_discover_reply(t, a))
           Fs(t, l, a, q) == Packet("process_fs", [ticket |-> t, ttl |-> l, addr |-> a, port |-> q], pack_fs(t, l, a, q))
           FsReply(t, a, q) == Packet("process_fs_reply", [ticket |-> t, addr |-> a, port |-> q], pack_fs_reply(t, a, q))
           Stab(a, q) == Packet("process_stab", [addr |-> a, port |-> q], pack_stab(a, q))
           StabReply(a, q) == Packet("process_stab_reply", [addr |-> a, port |-> q], pack_stab_reply(a, q))
           Notify == Packet("process_notify", NoFields, pack_notify)
           Ping(t) == Packet("process_ping", [ticket |-> t, time |-> 1], pack_ping(t, 1))
           Pong(t) == Packet("process_pong", [ticket |-> t, time |-> 1], pack_pong(t, 1))
<1>a. ChordPackets =
        {AddrDiscover(t) : t \in Ticket} \cup
        {AddrDiscoverReply(t, a) : t \in Ticket, a \in Address} \cup
        {Fs(t, l, a, q) : t \in Ticket, l \in Ttl, a \in Address, q \in Port} \cup
        {FsReply(t, a, q) : t \in Ticket, a \in Address, q \in Port} \cup
        {Stab(a, q) : a \in Address, q \in Port} \cup
        {StabReply(a, q) : a \in Address, q \in Port} \cup
        {Notify} \cup
        {Ping(t) : t \in Ticket} \cup
        {Pong(t) : t \in Ticket}
  BY DEF ChordPackets
<1> HIDE DEF AddrDiscover, AddrDiscoverReply, Fs, FsReply, Stab, StabReply, Notify, Ping, Pong
<1>b. \/ \E t \in Ticket : p = AddrDiscover(t)
      \/ \E t \in Ticket, a \in Address : p = AddrDiscoverReply(t, a)
      \/ \E t \in Ticket, l \in Ttl, a \in Address, q \in Port : p = Fs(t, l, a, q)
      \/ \E t \in Ticket, a \in Address, q \in Port : p = FsReply(t, a, q)
      \/ \E a \in Address, q \in Port : p = Stab(a, q)
      \/ \E a \in Address, q \in Port : p = StabReply(a, q)
      \/ p = Notify
      \/ \E t \in Ticket : p = Ping(t)
      \/ \E t \in Ticket : p = Pong(t)
  BY <1>a
<1>10. \/ \E t \in Ticket :
               p = Packet("process_addr_discover", [ticket |-> t], pack_addr_discover(t))
       \/ \E t \in Ticket, a \in Address :
               p = Packet("process_addr_discover_reply", [ticket |-> t, addr |-> a], pack_addr_discover_reply(t, a))
       \/ \E t \in Ticket, l \in Ttl, a \in Address, q \in Port :
               p = Packet("process_fs", [ticket |-> t, ttl |-> l, addr |-> a, port |-> q], pack_fs(t, l, a, q))
       \/ \E t \in Ticket, a \in Address, q \in Port :
               p = Packet("process_fs_reply", [ticket |-> t, addr |-> a, port |-> q], pack_fs_reply(t, a, q))
       \/ \E a \in Address, q \in Port :
               p = Packet("process_stab", [addr |-> a, port |-> q], pack_stab(a, q))
       \/ \E a \in Address, q \in Port :
               p = Packet("process_stab_reply", [addr |-> a, port |-> q], pack_stab_reply(a, q))
       \/ p = Packet("process_notify", NoFields, pack_notify)
       \/ \E t \in Ticket :
               p = Packet("process_ping", [ticket |-> t, time |-> 1], pack_ping(t, 1))
       \/ \E t \in Ticket :
               p = Packet("process_pong", [ticket |-> t, time |-> 1], pack_pong(t, 1))
  BY <1>b, Zenon DEF AddrDiscover, AddrDiscoverReply, Fs, FsReply, Stab, StabReply, Notify, Ping, Pong
<1> HIDE DEF G, Good
<1>11. G
  BY <1>1, <1>2, <1>3, <1>4, <1>5, <1>6, <1>7, <1>8, <1>9, <1>10, Zenon
<1> QED
  BY <1>11 DEF G, Good

\* Every packet of DHash is sealed for the entry of its handler, and its first field is required.
LEMMA DHashSealed ==
  ASSUME NEW p \in DHashPackets
  PROVE  \E type \in 0 .. 4 : \E desc :
           /\ Sealed(p, type, desc) /\ FirstRequired(desc)
           /\ new_dhash[type] = init_handler(DHash, desc, p.process)
           /\ Ours(p.process) /\ p.process \in DHashHandlers
<1> DEFINE Good(type, desc) ==
             /\ Sealed(p, type, desc) /\ FirstRequired(desc)
             /\ new_dhash[type] = init_handler(DHash, desc, p.process)
             /\ Ours(p.process) /\ p.process \in DHashHandlers
           G == \E type \in 0 .. 4 : \E desc : Good(type, desc)
<1>1. ASSUME NEW a \in Address, NEW q \in Port, NEW n \in Name, 
             p = Packet("dhash_process_query", [reply_addr |-> a, reply_port |-> q, name |-> n], dhash_pack_query(a, q, n))
      PROVE  G
  <2> DEFINE m == [reply_addr |-> a, reply_port |-> q, name |-> n]
  <2>1. WellFormed(query__descriptor) /\ IsMessage(m, query__descriptor)
    BY DHashForms DEF IsMessage
  <2>2. dhash_pack_query(a, q, n) = pack_header(1, 0, query__descriptor, m)
    BY DEF dhash_pack_query, pack_dhash_header, DHASH_WIRE_VERSION, DHASH_QUERY
  <2>3. p = Packet("dhash_process_query", m, pack_header(1, 0, query__descriptor, m))
    BY <1>1, <2>2
  <2> HIDE DEF m
  <2>4. Sealed(p, 0, query__descriptor)
    BY <2>1, <2>3, PackSeals
  <2>5. p.process = "dhash_process_query"
    BY <2>3 DEF Packet
  <2>6. FirstRequired(query__descriptor)
    BY DEF FirstRequired, Indices, query__descriptor, required
  <2>7. Good(0, query__descriptor)
    BY <2>4, <2>5, <2>6, DHashTable DEF Ours, DHashHandlers
  <2> HIDE DEF Good
  <2>8. 0 \in 0 .. 4
    OBVIOUS
  <2> QED
    BY <2>7, <2>8, Zenon DEF G
<1>2. ASSUME NEW n \in Name, 
             p = Packet("dhash_process_query_reply_success", [name |-> n], dhash_pack_query_reply_success(n))
      PROVE  G
  <2> DEFINE m == [name |-> n]
  <2>1. WellFormed(query_reply_success__descriptor) /\ IsMessage(m, query_reply_success__descriptor)
    BY DHashForms DEF IsMessage
  <2>2. dhash_pack_query_reply_success(n) = pack_header(1, 1, query_reply_success__descriptor, m)
    BY DEF dhash_pack_query_reply_success, pack_dhash_header, DHASH_WIRE_VERSION, DHASH_QUERY_REPLY_SUCCESS
  <2>3. p = Packet("dhash_process_query_reply_success", m, pack_header(1, 1, query_reply_success__descriptor, m))
    BY <1>2, <2>2
  <2> HIDE DEF m
  <2>4. Sealed(p, 1, query_reply_success__descriptor)
    BY <2>1, <2>3, PackSeals
  <2>5. p.process = "dhash_process_query_reply_success"
    BY <2>3 DEF Packet
  <2>6. FirstRequired(query_reply_success__descriptor)
    BY DEF FirstRequired, Indices, query_reply_success__descriptor, required
  <2>7. Good(1, query_reply_success__descriptor)
    BY <2>4, <2>5, <2>6, DHashTable DEF Ours, DHashHandlers
  <2> HIDE DEF Good
  <2>8. 1 \in 0 .. 4
    OBVIOUS
  <2> QED
    BY <2>7, <2>8, Zenon DEF G
<1>3. ASSUME NEW n \in Name, 
             p = Packet("dhash_process_query_reply_failure", [name |-> n], dhash_pack_query_reply_failure(n))
      PROVE  G
  <2> DEFINE m == [name |-> n]
  <2>1. WellFormed(query_reply_failure__descriptor) /\ IsMessage(m, query_reply_failure__descriptor)
    BY DHashForms DEF IsMessage
  <2>2. dhash_pack_query_reply_failure(n) = pack_header(1, 2, query_reply_failure__descriptor, m)
    BY DEF dhash_pack_query_reply_failure, pack_dhash_header, DHASH_WIRE_VERSION, DHASH_QUERY_REPLY_FAILURE
  <2>3. p = Packet("dhash_process_query_reply_failure", m, pack_header(1, 2, query_reply_failure__descriptor, m))
    BY <1>3, <2>2
  <2> HIDE DEF m
  <2>4. Sealed(p, 2, query_reply_failure__descriptor)
    BY <2>1, <2>3, PackSeals
  <2>5. p.process = "dhash_process_query_reply_failure"
    BY <2>3 DEF Packet
  <2>6. FirstRequired(query_reply_failure__descriptor)
    BY DEF FirstRequired, Indices, query_reply_failure__descriptor, required
  <2>7. Good(2, query_reply_failure__descriptor)
    BY <2>4, <2>5, <2>6, DHashTable DEF Ours, DHashHandlers
  <2> HIDE DEF Good
  <2>8. 2 \in 0 .. 4
    OBVIOUS
  <2> QED
    BY <2>7, <2>8, Zenon DEF G
<1>4. ASSUME NEW a \in Address, NEW q \in Port, NEW n \in Name, 
             p = Packet("dhash_process_push", [reply_addr |-> a, reply_port |-> q, name |-> n], dhash_pack_push(a, q, n))
      PROVE  G
  <2> DEFINE m == [reply_addr |-> a, reply_port |-> q, name |-> n]
  <2>1. WellFormed(push__descriptor) /\ IsMessage(m, push__descriptor)
    BY DHashForms DEF IsMessage
  <2>2. dhash_pack_push(a, q, n) = pack_header(1, 3, push__descriptor, m)
    BY DEF dhash_pack_push, pack_dhash_header, DHASH_WIRE_VERSION, DHASH_PUSH
  <2>3. p = Packet("dhash_process_push", m, pack_header(1, 3, push__descriptor, m))
    BY <1>4, <2>2
  <2> HIDE DEF m
  <2>4. Sealed(p, 3, push__descriptor)
    BY <2>1, <2>3, PackSeals
  <2>5. p.process = "dhash_process_push"
    BY <2>3 DEF Packet
  <2>6. FirstRequired(push__descriptor)
    BY DEF FirstRequired, Indices, push__descriptor, required
  <2>7. Good(3, push__descriptor)
    BY <2>4, <2>5, <2>6, DHashTable DEF Ours, DHashHandlers
  <2> HIDE DEF Good
  <2>8. 3 \in 0 .. 4
    OBVIOUS
  <2> QED
    BY <2>7, <2>8, Zenon DEF G
<1>5. ASSUME NEW n \in Name, 
             p = Packet("dhash_process_push_reply", [name |-> n], dhash_pack_push_reply(n))
      PROVE  G
  <2> DEFINE m == [name |-> n]
  <2>1. WellFormed(push_reply__descriptor) /\ IsMessage(m, push_reply__descriptor)
    BY DHashForms DEF IsMessage
  <2>2. dhash_pack_push_reply(n) = pack_header(1, 4, push_reply__descriptor, m)
    BY DEF dhash_pack_push_reply, pack_dhash_header, DHASH_WIRE_VERSION, DHASH_PUSH_REPLY
  <2>3. p = Packet("dhash_process_push_reply", m, pack_header(1, 4, push_reply__descriptor, m))
    BY <1>5, <2>2
  <2> HIDE DEF m
  <2>4. Sealed(p, 4, push_reply__descriptor)
    BY <2>1, <2>3, PackSeals
  <2>5. p.process = "dhash_process_push_reply"
    BY <2>3 DEF Packet
  <2>6. FirstRequired(push_reply__descriptor)
    BY DEF FirstRequired, Indices, push_reply__descriptor, required
  <2>7. Good(4, push_reply__descriptor)
    BY <2>4, <2>5, <2>6, DHashTable DEF Ours, DHashHandlers
  <2> HIDE DEF Good
  <2>8. 4 \in 0 .. 4
    OBVIOUS
  <2> QED
    BY <2>7, <2>8, Zenon DEF G
<1>6. \/ \E a \in Address, q \in Port, n \in Name :
               p = Packet("dhash_process_query", [reply_addr |-> a, reply_port |-> q, name |-> n], dhash_pack_query(a, q, n))
      \/ \E n \in Name :
               p = Packet("dhash_process_query_reply_success", [name |-> n], dhash_pack_query_reply_success(n))
      \/ \E n \in Name :
               p = Packet("dhash_process_query_reply_failure", [name |-> n], dhash_pack_query_reply_failure(n))
      \/ \E a \in Address, q \in Port, n \in Name :
               p = Packet("dhash_process_push", [reply_addr |-> a, reply_port |-> q, name |-> n], dhash_pack_push(a, q, n))
      \/ \E n \in Name :
               p = Packet("dhash_process_push_reply", [name |-> n], dhash_pack_push_reply(n))
  BY DEF DHashPackets
<1> HIDE DEF G, Good
<1>7. G
  BY <1>1, <1>2, <1>3, <1>4, <1>5, <1>6, Zenon
<1> QED
  BY <1>7 DEF G, Good

\* A Data packet is sealed for the entry of its handler, and its first field is required.
LEMMA DataSealed ==
  ASSUME NEW last, NEW ttl, NEW id, NEW data
  PROVE  LET p == DataPacket(last, ttl, id, data)
         IN  /\ Sealed(p, 2, data__descriptor)
             /\ FirstRequired(data__descriptor)
             /\ p.process = "process_data" /\ p.msg["data"] = data
<1> DEFINE p == DataPacket(last, ttl, id, data)
           m == [id |-> id, ttl |-> ttl, last |-> last, data |-> data]
<1>1. WellFormed(data__descriptor) /\ IsMessage(m, data__descriptor) /\ m.data = data
  BY ServerForms DEF IsMessage
<1>2. p = Packet("process_data", m, pack_header(1, 2, data__descriptor, m))
  BY DEF DataPacket, pack_data, pack_chord_header, CHORD_WIRE_VERSION, CHORD_DATA
<1> HIDE DEF m, p
<1>3. Sealed(p, 2, data__descriptor)
  BY <1>1, <1>2, PackSeals
<1>4. p.process = "process_data" /\ p.msg = m
  BY <1>2 DEF Packet
<1>5. FirstRequired(data__descriptor)
  BY DEF FirstRequired, Indices, data__descriptor, required
<1> QED
  BY <1>1, <1>3, <1>4, <1>5 DEF p

-----------------------------------------------------------------------------
(***************************************************************************)
(* Dispatching packets of our version and of others.                       *)
(***************************************************************************)
\* A packet that is packed is a header with the fields of desc in it.
LEMMA SealedCarries ==
  ASSUME NEW p, NEW type, NEW desc, Sealed(p, type, desc)
  PROVE  /\ DOMAIN p.buf[3] \subseteq Indices(desc) /\ 100 \notin Indices(desc)
         /\ Carries(desc, p.buf[3], protobuf_c_message_pack(desc, p.msg))
<1> DEFINE packed == protobuf_c_message_pack(desc, p.msg)
<1>a. WellFormed(desc)
  BY DEF Sealed
<1>1. DOMAIN packed \subseteq Indices(desc)
  <2>1. DOMAIN packed = {i \in Indices(desc) : ~desc[i].optional \/ desc[i].name \in DOMAIN p.msg}
    BY <1>a, Packed, Zenon
  <2> HIDE DEF packed
  <2> QED
    BY <2>1
<1>2. 100 \notin Indices(desc)
  <2> DEFINE n == Len(desc)
  <2>1. n \in 0 .. 99 /\ Indices(desc) = 1 .. n
    BY <1>a, Zenon DEF WellFormed, Indices
  <2> HIDE DEF n
  <2> QED
    BY <2>1
<1> HIDE DEF packed
<1>3. p.buf[3] = packed
  BY DEF Sealed, packed
<1> QED
  BY <1>1, <1>2, <1>3 DEF Carries, packed

\* The bytes of a packet with a changed payload or type.
LEMMA Changed ==
  ASSUME NEW buf, IsHeader(buf), NEW x, NEW e
  PROVE  /\ e = [buf EXCEPT ![3] = x] => IsHeader(e) /\ e[2] = buf[2] /\ e[3] = x
         /\ e = [buf EXCEPT ![2] = x] => IsHeader(e) /\ e[2] = x /\ e[3] = buf[3]
<1>1. DOMAIN buf = 1 .. 3 /\ 2 \in 1 .. 3 /\ 3 \in 1 .. 3 /\ 2 # 3 /\ 3 # 2
  BY DEF IsHeader
<1>2. ASSUME e = [buf EXCEPT ![3] = x]  PROVE  e[2] = buf[2] /\ e[3] = x
  BY <1>1, <1>2, Zenon
<1>3. ASSUME e = [buf EXCEPT ![2] = x]  PROVE  e[3] = buf[3] /\ e[2] = x
  BY <1>1, <1>3, Zenon
<1>4. e = [buf EXCEPT ![3] = x] \/ e = [buf EXCEPT ![2] = x] => IsHeader(e)
  BY <1>1 DEF IsHeader
<1> QED
  BY <1>2, <1>3, <1>4

\* A packet of ours, also one with fields added, holds the fields that were sent.
LEMMA SameBytes ==
  ASSUME NEW p, NEW type, NEW desc, Sealed(p, type, desc), NEW v \in SameMeaning(p)
  PROVE  /\ v.process = p.process /\ v.msg = p.msg
         /\ IsHeader(v.buf) /\ v.buf[2] = type
         /\ Carries(desc, v.buf[3], protobuf_c_message_pack(desc, p.msg))
<1>1. IsHeader(p.buf) /\ p.buf[2] = type
  BY DEF Sealed
<1>2. CASE v = p
  BY <1>1, <1>2, SealedCarries
<1>3. CASE v = Packet(p.process, p.msg, Extended(p.buf))
  <2> DEFINE packed == p.buf[3]
             x == [n \in DOMAIN packed \cup {100} |->
                     IF n \in DOMAIN packed THEN packed[n] ELSE NULL]
             e == Extended(p.buf)
  <2>1. DOMAIN packed \subseteq Indices(desc) /\ 100 \notin Indices(desc)
    BY SealedCarries
  <2>2. packed = protobuf_c_message_pack(desc, p.msg)
    BY DEF Sealed
  <2>3. e = [p.buf EXCEPT ![3] = x]
    BY DEF Extended, PAYLOAD
  <2>4. IsHeader(e) /\ e[2] = type /\ e[3] = x
    <3> HIDE DEF x, e
    <3> QED  BY <1>1, <2>3, Changed
  <2> HIDE DEF packed, e
  <2>5. DOMAIN x = DOMAIN packed \cup {100} /\ \A n \in DOMAIN packed : x[n] = packed[n]
    OBVIOUS
  <2> HIDE DEF x
  <2>6. Carries(desc, x, packed)
    BY <2>1, <2>5 DEF Carries
  <2>7. v.process = p.process /\ v.msg = p.msg /\ v.buf = e
    BY <1>3 DEF Packet, e
  <2> QED
    BY <2>2, <2>4, <2>6, <2>7
<1> QED
  BY <1>2, <1>3 DEF SameMeaning

\* Packet v has no handler, because desc does not unpack from it.
IsShort(v, type, desc) ==
  /\ v.process = "none: required field missing"
  /\ IsHeader(v.buf) /\ v.buf[2] = type
  /\ ~Unpacks(desc, v.buf[3])

\* One whose first field is missing does not unpack.
LEMMA ShortBytes ==
  ASSUME NEW p, NEW type, NEW desc, Sealed(p, type, desc), FirstRequired(desc),
         NEW v \in NotUnpacked(p)
  PROVE  IsShort(v, type, desc)
<1> DEFINE x == [n \in DOMAIN p.buf[3] \ {1} |-> p.buf[3][n]]
           e == Shortened(p.buf)
<1>1. IsHeader(p.buf) /\ p.buf[2] = type
  BY DEF Sealed
<1>2. e = [p.buf EXCEPT ![3] = x]
  BY DEF Shortened, PAYLOAD
<1>3. IsHeader(e) /\ e[2] = type /\ e[3] = x
  <2> HIDE DEF x, e
  <2> QED  BY <1>1, <1>2, Changed
<1>4. 1 \notin DOMAIN x
  OBVIOUS
<1> HIDE DEF x, e
<1>5. v.process = "none: required field missing" /\ v.buf = e
  <2>1. v = Packet("none: required field missing", p.msg, e)
    BY Zenon DEF NotUnpacked, e
  <2> QED
    BY <2>1, Zenon DEF Packet
<1> QED
  BY <1>3, <1>4, <1>5, Zenon DEF IsShort, Unpacks, FirstRequired

\* One of an unknown type keeps only its form.
LEMMA UnknownBytes ==
  ASSUME NEW p, NEW type, NEW desc, Sealed(p, type, desc), NEW v \in NotKnown(p)
  PROVE  v.process = "none: unknown type" /\ IsHeader(v.buf) /\ v.buf[2] = 10
<1> DEFINE e == UnknownType(p.buf)
<1>1. IsHeader(p.buf)
  BY DEF Sealed
<1>2. e = [p.buf EXCEPT ![2] = 10]
  BY DEF UnknownType, CHORD_PONG
<1>3. IsHeader(e) /\ e[2] = 10
  <2> HIDE DEF e
  <2> QED  BY <1>1, <1>2, Changed
<1> HIDE DEF e
<1>4. v.process = "none: unknown type" /\ v.buf = e
  <2>1. v = Packet("none: unknown type", p.msg, e)
    BY Zenon DEF NotKnown, e
  <2> QED
    BY <2>1, Zenon DEF Packet
<1> QED
  BY <1>3, <1>4, Zenon

\* dispatch_packet for a packet that has a handler and unpacks.
LEMMA DispatchTaken ==
  ASSUME NEW d, NEW buf, IsHeader(buf), NEW returned, NEW type, buf[2] = type, type \in DOMAIN d,
         NEW desc, d[type].unpack = desc, NEW msg, WellFormed(desc), IsMessage(msg, desc),
         Carries(desc, buf[3], protobuf_c_message_pack(desc, msg))
  PROVE  dispatch_packet(d, buf, returned)
           = Dispatched(1, <<Call(d[type], msg)>>, IF returned = 0 THEN 0 ELSE 2)
<1> DEFINE h == header__unpack(buf)
<1>1. h.type = type /\ h.payload = buf[3]
  BY HeaderUnpacked
<1>2. Unpacks(desc, buf[3]) /\ protobuf_c_message_unpack(desc, buf[3]) = msg
  BY RoundTripAll DEF IsMessage
<1> QED
  BY <1>1, <1>2 DEF dispatch_packet, has_handler

\* dispatch_packet for a packet that does not unpack, and for one without a handler.
LEMMA Dispatch ==
  ASSUME NEW d, NEW buf, IsHeader(buf), NEW returned
  PROVE  /\ buf[2] \in DOMAIN d /\ ~Unpacks(d[buf[2]].unpack, buf[3]) =>
              dispatch_packet(d, buf, returned) = Dispatched(1, <<>>, 1)
         /\ buf[2] \notin DOMAIN d => dispatch_packet(d, buf, returned) = Dispatched(0, <<>>, 1)
         /\ dispatcher_get_type(buf) = buf[2]
<1>1. header__unpack(buf).type = buf[2] /\ header__unpack(buf).payload = buf[3]
  BY HeaderUnpacked
<1> QED
  BY <1>1 DEF dispatch_packet, has_handler, dispatcher_get_type

=============================================================================
