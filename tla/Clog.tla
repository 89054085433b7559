-------------------------------- MODULE Clog --------------------------------
(***************************************************************************)
(* The logger: src/logger/clog.c and file.c, on top of the hash table.     *)
(*                                                                         *)
(* A message is written in pieces.  PartialLog prints to standard output.  *)
(* The print functions of util.c write to l->fp instead, a stdio stream    *)
(* with a buffer of its own, whose contents reach standard output when it  *)
(* is flushed, if log_partial is set at that moment.  Every piece looks    *)
(* its logger up by the name of the source file.                           *)
(*                                                                         *)
(* Messages of different files may be open at once, of one file never: a   *)
(* call to Log between StartLog and EndLog of a file would clear           *)
(* log_partial.  No function of the program makes one.                     *)
(***************************************************************************)
EXTENDS HashMap, SequencesExt

CONSTANTS
  Name,         \* the source files that log
  Level,
  MinLevel,     \* clog_default_log_level
  MaxOpen,      \* bounds how many files are writing a message at once
  MaxPieces     \* bounds how many pieces of messages are written

VARIABLES
  loggers,   \* the hash table from names to loggers
  ctx,       \* the logger_ctx_t structures, numbered as they are allocated
  open,      \* the level of the message each file is writing, or NULL
  stdout     \* what each file has printed

vars == <<loggers, ctx, open, stdout>>

Init ==
  /\ loggers = hashmap_new
  /\ ctx = <<>>
  /\ open = [n \in Name |-> NULL]
  /\ stdout = [n \in Name |-> <<>>]

-----------------------------------------------------------------------------
logger_ctx_new_file == [min_level |-> MinLevel, log_partial |-> 0, fp |-> <<>>]

(***************************************************************************)
(* The logger of a name; a name that has none is given one.  The step of a *)
(* caller of clog_get_logger that leaves the logger as l and prints items: *)
(***************************************************************************)
clog_get_logger(n) ==
  LET found == hashmap_get(loggers, n)
  IN  IF found = NULL THEN logger_ctx_new_file ELSE ctx[found]

Logged(n, l, items) ==
  LET found == hashmap_get(loggers, n)
  IN  /\ IF found = NULL
         THEN /\ loggers' = hashmap_put(loggers, n, Len(ctx) + 1)
              /\ ctx' = Append(ctx, l)
         ELSE /\ loggers' = loggers
              /\ ctx' = [ctx EXCEPT ![found] = l]
      /\ stdout' = [stdout EXCEPT ![n] = @ \o items]
      /\ MapThenSumSet(LAMBDA x : Len(stdout'[x]), Name)
           + FoldSeq(LAMBDA x, k : k + Len(x.fp), 0, ctx') <= MaxPieces

\* What a flush of fp prints: logger_call_write drops it unless log_partial is set.
logger_call_write(l) == IF l.log_partial = 1 THEN l.fp ELSE <<>>

Flushed(l) == [l EXCEPT !.fp = <<>>]

clog_start_log(n) ==
  LET l == clog_get_logger(n)
  IN  /\ open[n] = NULL
      /\ Cardinality({x \in Name : open[x] # NULL}) < MaxOpen
      /\ \E level \in Level :
           /\ open' = [open EXCEPT ![n] = level]
           /\ IF level >= l.min_level
              THEN Logged(n, [l EXCEPT !.log_partial = 1], <<"start">>)
              ELSE Logged(n, l, <<>>)

clog_partial_log(n) ==
  LET l == clog_get_logger(n)
  IN  /\ open[n] # NULL
      /\ IF l.log_partial = 1
         THEN Logged(n, Flushed(l), Append(logger_call_write(l), "said"))
         ELSE Logged(n, l, <<>>)
      /\ UNCHANGED open

\* A print function writes to fp.  The stream may be full, and flush itself.
print_to_fp(n) ==
  LET l == clog_get_logger(n)
      written == [l EXCEPT !.fp = Append(@, "printed")]
  IN  /\ open[n] # NULL
      /\ \/ Logged(n, written, <<>>)
         \/ Logged(n, Flushed(l), logger_call_write(written))
      /\ UNCHANGED open

\* Mutant: the buffer is flushed only when the message is being printed.
clog_end_log_if_partial(n) ==
  LET l == clog_get_logger(n)
  IN  /\ open[n] # NULL
      /\ open' = [open EXCEPT ![n] = NULL]
      /\ IF l.log_partial = 1
         THEN Logged(n, [Flushed(l) EXCEPT !.log_partial = 0],
                     Append(logger_call_write(l), "end"))
         ELSE Logged(n, l, <<>>)

clog_end_log(n) ==
  LET l == clog_get_logger(n)
  IN  /\ open[n] # NULL
      /\ open' = [open EXCEPT ![n] = NULL]
      /\ Logged(n, [Flushed(l) EXCEPT !.log_partial = 0],
                IF l.log_partial = 1 THEN Append(logger_call_write(l), "end") ELSE <<>>)

\* A message in one call: vlog starts it, prints and ends it.
clog_log(n) ==
  LET l == clog_get_logger(n)
  IN  /\ open[n] = NULL
      /\ \E level \in Level :
           IF level >= l.min_level
           THEN Logged(n, [Flushed(l) EXCEPT !.log_partial = 0],
                       <<"start", "said">> \o l.fp \o <<"end">>)
           ELSE Logged(n, l, <<>>)
      /\ UNCHANGED open

Next ==
  \E n \in Name :
    clog_start_log(n) \/ clog_partial_log(n) \/ print_to_fp(n) \/ clog_end_log(n) \/ clog_log(n)

Spec == Init /\ [][Next]_vars

-----------------------------------------------------------------------------
(***************************************************************************)
(* The table has every logger once, under its name, and counts them: no    *)
(* name loses its logger, or its place in the count, when the table is     *)
(* doubled, not even when it is doubled again while its elements are being *)
(* moved.                                                                  *)
(***************************************************************************)
EveryLoggerIsFound ==
  LET used == {i \in DOMAIN loggers.data : loggers.data[i].in_use = 1}
  IN  /\ \A i \in used : hashmap_get(loggers, loggers.data[i].key) = loggers.data[i].data
      /\ {loggers.data[i].data : i \in used} = DOMAIN ctx
      /\ Cardinality(used) = Len(ctx)
      /\ loggers.size = Len(ctx)

\* What of n's messages has been said so far: printed, or about to be.
Said(n) ==
  LET l == hashmap_get(loggers, n)
  IN  stdout[n] \o (IF l = NULL THEN <<>> ELSE logger_call_write(ctx[l]))

Log == INSTANCE MessageLog WITH Text <- {"said", "printed"}, printed <- [n \in Name |-> Said(n)]

(***************************************************************************)
(* Logging implements MessageLog: the pieces of a message appear in order, *)
(* whichever of the two ways they were written, and what is written while  *)
(* a message is suppressed never shows up in a later one.                  *)
(***************************************************************************)
LogsMessagesInOrder == Log!Spec
=============================================================================
