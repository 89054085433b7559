----------------------------- MODULE Dispatcher -----------------------------
(***************************************************************************)
(* src/dispatcher.c: tables from packet types to handlers.                 *)
(*                                                                         *)
(* A handler is a record of the descriptor its unpack function uses, the   *)
(* name of its process function, and process_args, the arguments it is     *)
(* called with besides the message: one of them is set with the handler,   *)
(* others are pushed and popped.  The list of odd handlers, for types      *)
(* beyond the size of the table, is empty in every table the program       *)
(* builds, and left out.                                                   *)
(***************************************************************************)
EXTENDS Packing, Functions

NoHandler == [unpack |-> NULL, process |-> NULL, process_args |-> <<>>]

new_dispatcher(size) == [value \in 0 .. size - 1 |-> NoHandler]

\* Otherwise get_handler returns NULL.
has_handler(d, value) == value \in DOMAIN d

\* What dispatcher_set_packet stores for a type.
init_handler(arg, unpack, process) ==
  [unpack |-> unpack, process |-> process, process_args |-> <<arg>>]

dispatcher_set_packet_handlers(d, value, unpack, process) ==
  IF has_handler(d, value) THEN [d EXCEPT ![value].unpack = unpack, ![value].process = process]
  ELSE d

dispatcher_push_arg(d, value, arg) ==
  IF has_handler(d, value) THEN [d EXCEPT ![value].process_args = Append(@, arg)] ELSE d

\* Without the last.
Front(s) == SubSeq(s, 1, Len(s) - 1)

\* Mutant: the argument stays.
dispatcher_pop_nothing(d, value) == d

dispatcher_pop_arg(d, value) ==
  IF has_handler(d, value) THEN [d EXCEPT ![value].process_args = Front(@)] ELSE d

header__unpack(buf) == protobuf_c_message_unpack(header__descriptor, buf)

\* The header unpacked here is never freed.
dispatcher_get_type(buf) == header__unpack(buf).type

(***************************************************************************)
(* A call of dispatch_packet, with what the handler will return: whether   *)
(* the packet was taken (ret), the calls of handlers made, and how many of *)
(* the two unpacked structures are left allocated.  *process_ret is        *)
(* written only when a handler is called, and is what it returned.  A      *)
(* handler that returns an error has the message and its header left       *)
(* allocated.                                                              *)
(***************************************************************************)
Dispatched(ret, calls, leaked) == [ret |-> ret, calls |-> calls, leaked |-> leaked]

Call(handler, msg) ==
  [process |-> handler.process, args |-> handler.process_args, msg |-> msg]

\* Mutant: only the message is freed.
dispatch_packet_keeping_header(d, buf, returned) ==
  LET header  == header__unpack(buf)
      handler == d[header.type]
      msg     == protobuf_c_message_unpack(handler.unpack, header.payload)
  IN  IF ~has_handler(d, header.type) THEN Dispatched(0, <<>>, 1)
      ELSE IF ~Unpacks(handler.unpack, header.payload) THEN Dispatched(1, <<>>, 1)
      ELSE Dispatched(1, <<Call(handler, msg)>>, IF returned = 0 THEN 1 ELSE 2)

dispatch_packet(d, buf, returned) ==
  LET header  == header__unpack(buf)
      handler == d[header.type]
      msg     == protobuf_c_message_unpack(handler.unpack, header.payload)
  IN  IF ~has_handler(d, header.type) THEN Dispatched(0, <<>>, 1)
      ELSE IF ~Unpacks(handler.unpack, header.payload) THEN Dispatched(1, <<>>, 1)
      ELSE Dispatched(1, <<Call(handler, msg)>>, IF returned = 0 THEN 0 ELSE 2)
=============================================================================
