------------------------------ MODULE EventLog ------------------------------
(***************************************************************************)
(* What the event store promises to the daemon (SqliteStore in             *)
(* src/src/storage/sqlite_store.hpp), without queue, writer thread or      *)
(* batches: store() promises an event, promised events are written to the  *)
(* table in the order of the promises, and the table loses rows to the     *)
(* retention period only.  The end of the process cancels the promises and *)
(* leaves the table alone.                                                 *)
(***************************************************************************)
EXTENDS Naturals, Sequences

CONSTANTS
  Event,    \* the events
  Stamp,    \* the timestamp of each event
  Cutoffs   \* now - retention, as prune() may compute it

VARIABLES
  promised,   \* events for which store() returned true in this process
  written,    \* those of them that have been written
  table       \* the table of events, which outlives the process

Init == promised = <<>> /\ written = {} /\ table = {}

Promise(e) ==
  /\ promised' = Append(promised, e)
  /\ UNCHANGED <<written, table>>

(* A promised event is written, for the first time or once more, when all  *)
(* events promised before it have been.                                    *)
Write(i) ==
  /\ written' = written \cup {promised[i]}
  /\ \A j \in 1..i : promised[j] \in written'
  /\ table' = table \cup {promised[i]}
  /\ UNCHANGED promised

Expire(cutoff) ==
  /\ table' = {e \in table : Stamp[e] >= cutoff}
  /\ UNCHANGED <<promised, written>>

Restart ==
  /\ promised' = <<>> /\ written' = {}
  /\ UNCHANGED table

Next ==
  \/ \E e \in Event : Promise(e)
  \/ \E i \in DOMAIN promised : Write(i)
  \/ \E c \in Cutoffs : Expire(c)
  \/ Restart

Spec == Init /\ [][Next]_<<promised, written, table>>
=============================================================================
