------------------------------ MODULE Transfer ------------------------------
(***************************************************************************)
(* A file transfer (file_client/transfer.cpp): its structure, and what the *)
(* event loop and the transfer's own thread do to it.  The thread          *)
(* connects, moves the file, and returns; then either an event has the     *)
(* event loop call one of the two callbacks, or, when there are none, the  *)
(* thread frees the structure itself.                                      *)
(***************************************************************************)
EXTENDS FingerTable

\* thread: how far it has got.  "connected" is a live connection, "receiving" one
\* whose file is open at the receiver.
Thread == {"none", "connecting", "connected", "receiving", "returned"}

IsTransfer(t, Node, File) ==
  /\ t.type = "RECEIVE" => t.file # NULL
  /\ t \in [node : Node, peer : Node, type : {"IDLE", "SEND", "RECEIVE"},
            file : File \cup {NULL}, callbacks : BOOLEAN, thread : Thread,
            event : {"none", "success", "fail"}, partner : Nat, freed : 0 .. 2]

new_transfer(node, peer) ==
  [node |-> node, peer |-> peer, type |-> "IDLE", file |-> NULL, callbacks |-> FALSE,
   thread |-> "none", event |-> "none", partner |-> 0, freed |-> 0]

free_transfer(t) == [t EXCEPT !.freed = @ + 1]

transfer_set_callbacks(t) == [t EXCEPT !.callbacks = TRUE]

\* Mutant: the name is not kept.
transfer_start_receiving_unnamed(t, file) ==
  [t EXCEPT !.type = "RECEIVE", !.thread = "connecting"]

transfer_start_receiving(t, file) ==
  [t EXCEPT !.file = file, !.type = "RECEIVE", !.thread = "connecting"]

transfer_start_sending(t) == [t EXCEPT !.type = "SEND", !.thread = "connecting"]

\* Mutant: the thread frees the structure in either case.
transfer_returns_freeing(t, succeeded) ==
  [t EXCEPT !.thread = "returned",
            !.event = IF ~t.callbacks THEN "none"
                      ELSE IF succeeded THEN "success" ELSE "fail",
            !.freed = @ + 1]

\* The end of transfer_connect, once the file has been moved or has not.
transfer_returns(t, succeeded) ==
  IF t.callbacks
  THEN [t EXCEPT !.thread = "returned", !.event = IF succeeded THEN "success" ELSE "fail"]
  ELSE free_transfer([t EXCEPT !.thread = "returned"])

\* UDT::connect fails: the thread returns at once, without a callback or a free.
transfer_connect_fails(t) == [t EXCEPT !.thread = "returned"]
=============================================================================
