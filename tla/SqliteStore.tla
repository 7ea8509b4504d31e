---------------------------- MODULE SqliteStore ----------------------------
(***************************************************************************)
(* The SQLite event store (src/src/storage/sqlite_store.cpp).              *)
(*                                                                         *)
(* Three threads meet in it: the capture thread calls store(), which       *)
(* checks `failed`, serializes the event and then takes queue_mutex to     *)
(* push it; the writer thread swaps the queue with its own vector `batch`  *)
(* and inserts the batch row by row; the main thread prunes and finally    *)
(* destroys the store.  Every critical section of queue_mutex and every    *)
(* SQLite statement is one step.                                           *)
(*                                                                         *)
(* SQLite itself is external: a statement is atomic and durable, an INSERT *)
(* fails when its event_id is already in the table (UNIQUE,                *)
(* migrations.cpp:18) or when the disk fails, and sqlite3_changes() is one *)
(* number per connection.                                                  *)
(***************************************************************************)
EXTENDS Integers, Sequences, FiniteSets, Functions

CONSTANTS
  Event,             \* the events the capture thread may hand to store()
  EventId,           \* the event_id string of each event
  Stamp,             \* the timestamp of each event
  Cutoffs,           \* now - retention, as prune() may compute it
  kMaxQueuedWrites,  \* bound of the write queue
  CurrentVersion,    \* schema version this build migrates to
  DiskFaults,        \* whether SQLite calls may fail and the process die
  MaxPrunes,         \* bound on the number of prune() calls
  None               \* no event

ASSUME StoreAssumption ==
  /\ kMaxQueuedWrites \in Nat \ {0}
  /\ CurrentVersion \in Nat
  /\ MaxPrunes \in Nat
  /\ DiskFaults \in BOOLEAN
  /\ Stamp \in [Event -> Nat]
  /\ Cutoffs \subseteq Nat
  /\ IsFiniteSet(Event)
  /\ None \notin Event

VARIABLES
  rows,      \* database: the events of table `events`
  version,   \* database: PRAGMA user_version
  changes,   \* connection: what sqlite3_changes() returns
  impl,      \* "null" | "open" | "closing" (inside ~Impl, shutdown set)
  queue,     \* Impl::queue
  stored,    \* Impl::stored
  dropped,   \* Impl::dropped
  writer,    \* writer thread: "none" | "wait" | "write", or returned:
             \* "exited" after draining the queue, "failed" after an error
  batch,     \* writer_loop's local vector
  next,      \* index of the row the writer inserts next
  storing,   \* event the capture thread is serializing inside store()
  pruning,   \* rows the running prune() deleted, -1 when none is running
  pruned,    \* last finished prune(): rows deleted and number returned
  prunes,    \* number of prune() calls so far
  offered,   \* history: events handed to store()
  accepted,  \* history: events for which store() returned true, in order
  log        \* history: the successful inserts of this process, in order

database == <<rows, version>>
callers  == <<storing, pruning, pruned, prunes>>
history  == <<offered, accepted, log>>
vars == <<rows, version, changes, impl, queue, stored,
          dropped, writer, batch, next, storing, pruning, pruned, prunes,
          offered, accepted, log>>

TypeOK ==
  /\ rows \in SUBSET Event
  /\ version \in Nat
  /\ changes \in Nat
  /\ impl \in {"null", "open", "closing"}
  /\ queue \in Seq(Event)
  /\ stored \in Nat
  /\ dropped \in Nat
  /\ writer \in {"none", "wait", "write", "exited", "failed"}
  /\ batch \in Seq(Event)
  /\ next \in Nat \ {0}
  /\ storing \in Event \cup {None}
  /\ pruning \in Nat \cup {-1}
  /\ pruned \in Nat \X Nat
  /\ prunes \in 0..MaxPrunes
  /\ offered \in SUBSET Event
  /\ accepted \in Seq(Event)
  /\ log \in Seq(Event)

(* Impl::failed is set exactly when the writer returns on an error, and    *)
(* Impl::shutdown exactly when the destructor starts.                      *)
failed   == writer = "failed"
shutdown == impl = "closing"
-----------------------------------------------------------------------------
(* A freshly constructed Impl, and the state of a process without one. *)
FreshImpl ==
  /\ queue' = <<>> /\ batch' = <<>> /\ next' = 1
  /\ stored' = 0 /\ dropped' = 0 /\ changes' = 0
  /\ accepted' = <<>> /\ log' = <<>>

Init ==
  /\ rows = {}
  /\ version \in 0..(CurrentVersion + 1)
  /\ changes = 0
  /\ impl = "null"
  /\ queue = <<>> /\ batch = <<>> /\ next = 1
  /\ stored = 0 /\ dropped = 0
  /\ writer = "none"
  /\ storing = None /\ pruning = -1 /\ pruned = <<0, 0>> /\ prunes = 0
  /\ offered = {} /\ accepted = <<>> /\ log = <<>>

(* The constructor succeeds: the database opens, the pragmas and the       *)
(* pending migrations run (one transaction), the writer thread starts.     *)
(* A database that is newer than this build is refused.                    *)
Open ==
  /\ impl = "null" /\ storing = None
  /\ version <= CurrentVersion
  /\ version' = CurrentVersion
  /\ impl' = "open" /\ writer' = "wait"
  /\ FreshImpl
  /\ UNCHANGED <<rows, callers, offered>>

(* The constructor fails and resets impl_.  When only the writer thread    *)
(* could not be created the migrations have already been committed.        *)
OpenFail ==
  /\ impl = "null" /\ storing = None
  /\ \/ version > CurrentVersion /\ UNCHANGED version
     \/ DiskFaults /\ version <= CurrentVersion
        /\ version' \in {version, CurrentVersion}
  /\ impl' = "null" /\ writer' = "none"
  /\ FreshImpl
  /\ UNCHANGED <<rows, callers, offered>>
-----------------------------------------------------------------------------
(* store(), first part: an absent or failed store refuses the event;       *)
(* otherwise the event is copied and serialized, outside any lock.         *)
StoreRefuse(e) ==
  /\ storing = None /\ e \notin offered
  /\ impl = "null" \/ (impl = "open" /\ failed)
  /\ offered' = offered \cup {e}
  /\ UNCHANGED <<database, changes, impl, queue, stored,
                 dropped, writer, batch, next, callers, accepted, log>>

StoreBegin(e) ==
  /\ storing = None /\ e \notin offered
  /\ impl = "open" /\ ~failed
  /\ storing' = e
  /\ offered' = offered \cup {e}
  /\ UNCHANGED <<database, changes, impl, queue, stored,
                 dropped, writer, batch, next, pruning, pruned, prunes,
                 accepted, log>>

(* store(), second part, under queue_mutex: a full queue drops the event,  *)
(* else it is pushed and the writer notified.                              *)
StoreFull ==
  /\ storing # None
  /\ Len(queue) >= kMaxQueuedWrites
  /\ dropped' = dropped + 1
  /\ storing' = None
  /\ UNCHANGED <<database, changes, impl, queue, stored,
                 writer, batch, next, pruning, pruned, prunes,
                 history>>

Push(limit, q) ==
  /\ storing # None
  /\ Len(queue) < limit
  /\ queue' = q
  /\ accepted' = Append(accepted, storing)
  /\ storing' = None
  /\ UNCHANGED <<database, changes, impl, stored, dropped,
                 writer, batch, next, pruning, pruned, prunes,
                 offered, log>>

(* Mutant: the bound is tested with > instead of >=. *)
StorePushOffByOne == Push(kMaxQueuedWrites + 1, Append(queue, storing))

StorePush == Push(kMaxQueuedWrites, Append(queue, storing))
-----------------------------------------------------------------------------
(* writer_loop: `batch` is declared outside the loop and is not cleared,   *)
(* so the swap hands the previous batch back to the queue.                 *)
WriterSwap ==
  /\ writer = "wait" /\ queue # <<>>
  /\ batch' = queue /\ queue' = batch
  /\ next' = 1
  /\ writer' = "write"
  /\ UNCHANGED <<database, changes, impl, stored, dropped,
                 callers, history>>

WriterReturns(condition) ==
  /\ writer = "wait" /\ condition
  /\ writer' = "exited"
  /\ UNCHANGED <<database, changes, impl, queue, stored,
                 dropped, batch, next, callers, history>>

(* Mutants: the writer returns without draining the queue; the wait's      *)
(* predicate leaves shutdown out, so that an empty queue never wakes it.   *)
WriterExitEarly == WriterReturns(shutdown)
WriterExitDeaf == WriterReturns(FALSE)

WriterExit == WriterReturns(shutdown /\ queue = <<>>)

(* UNIQUE(event_id) of the events table. *)
IdTaken(e) == \E r \in rows : EventId[r] = EventId[e]

InsertRow ==
  /\ writer = "write" /\ next <= Len(batch)
  /\ ~IdTaken(batch[next])
  /\ rows' = rows \cup {batch[next]}
  /\ log' = Append(log, batch[next])
  /\ stored' = stored + 1
  /\ changes' = 1
  /\ next' = next + 1
  /\ UNCHANGED <<version, impl, queue, dropped, writer,
                 batch, callers, offered, accepted>>

(* A failed insert disables the store and ends the thread; the rest of the *)
(* batch and the queue stay where they are.                                *)
Failure(kept) ==
  /\ writer = "write" /\ next <= Len(batch)
  /\ IdTaken(batch[next]) \/ DiskFaults
  /\ rows' = kept
  /\ writer' = "failed"
  /\ UNCHANGED <<version, changes, impl, queue, stored, dropped,
                 batch, next, callers, history>>

(* Mutant: the writer makes room for the event_id before it inserts. *)
InsertFailsHalfway == Failure({r \in rows : EventId[r] # EventId[batch[next]]})

InsertFails == Failure(rows)

EndBatch(q) ==
  /\ writer = "write" /\ next > Len(batch)
  /\ writer' = "wait" /\ queue' = q
  /\ UNCHANGED <<database, changes, impl, stored,
                 dropped, batch, next, callers, history>>

(* Mutant: the stale vector is cleared, but in the queue. *)
BatchDoneClearsQueue == EndBatch(<<>>)

BatchDone == EndBatch(queue)

WriterStep == WriterSwap \/ WriterExit \/ InsertRow \/ InsertFails \/ BatchDone
-----------------------------------------------------------------------------
(* prune(): the DELETE, and then sqlite3_changes() as a call of its own.   *)
(* (When the DELETE fails prune() returns -1 and nothing has changed.)     *)
PruneDelete(cutoff) ==
  /\ impl = "open" /\ ~failed /\ pruning = -1
  /\ prunes < MaxPrunes
  /\ LET old == {r \in rows : Stamp[r] < cutoff}
     IN /\ rows' = rows \ old
        /\ changes' = Cardinality(old)
        /\ pruning' = Cardinality(old)
  /\ prunes' = prunes + 1
  /\ UNCHANGED <<version, impl, queue, stored, dropped,
                 writer, batch, next, storing, pruned, history>>

Returned(count) ==
  /\ pruning # -1
  /\ pruned' = <<pruning, count>>
  /\ pruning' = -1
  /\ UNCHANGED <<database, changes, impl, queue, stored,
                 dropped, writer, batch, next, storing, prunes, history>>

PruneReturn == Returned(changes)

(* ~Impl, on the main thread once capture has stopped: raise shutdown,     *)
(* join the writer, close the database.                                    *)
CloseBegin ==
  /\ impl = "open" /\ storing = None /\ pruning = -1
  /\ impl' = "closing"
  /\ UNCHANGED <<database, changes, queue, stored, dropped, writer,
                 batch, next, callers, history>>

CloseEnd ==
  /\ impl = "closing" /\ writer \in {"exited", "failed"}
  /\ impl' = "null" /\ writer' = "none"
  /\ FreshImpl
  /\ UNCHANGED <<database, callers, offered>>

(* The process dies: only the database survives. *)
Crash ==
  /\ DiskFaults /\ impl # "null"
  /\ impl' = "null" /\ writer' = "none"
  /\ FreshImpl
  /\ storing' = None /\ pruning' = -1
  /\ UNCHANGED <<database, pruned, prunes, offered>>

Next ==
  \/ Open \/ OpenFail
  \/ \E e \in Event : StoreRefuse(e) \/ StoreBegin(e)
  \/ StoreFull \/ StorePush
  \/ WriterStep
  \/ \E c \in Cutoffs : PruneDelete(c)
  \/ PruneReturn
  \/ CloseBegin \/ CloseEnd
  \/ Crash

(* The operating system runs the writer thread, and the thread that is     *)
(* inside store() or ~Impl; nobody is obliged to call them.                *)
Fairness ==
  /\ WF_vars(WriterStep)
  /\ WF_vars(StoreFull \/ StorePush)
  /\ WF_vars(CloseEnd)

Spec == Init /\ [][Next]_vars
FairSpec == Spec /\ Fairness
-----------------------------------------------------------------------------
(* What the writer still has to insert of its batch. *)
PendingBatch ==
  IF writer = "write" THEN {batch[i] : i \in next..Len(batch)} ELSE {}

Persisted == Range(log)

(* Every queue is bounded (docs/architecture.md, invariant 4): neither the *)
(* queue nor the vector that is swapped back into it exceeds the bound.    *)
QueueBounded == Len(queue) <= kMaxQueuedWrites /\ Len(batch) <= kMaxQueuedWrites

(* Until a write fails, an event that store() accepted is either inserted  *)
(* or still in the hands of the writer: no interleaving of push, swap and  *)
(* insert loses one between the queue and the batch.                       *)
NothingVanishes ==
  ~failed => Range(accepted) \subseteq Persisted \cup PendingBatch \cup Range(queue)

(* At every moment, failed store included, the accepted events that have   *)
(* reached the table are a prefix of the order in which store() accepted   *)
(* them, although the writer swaps old batches back into the queue.        *)
PersistedIsPrefix ==
  \A j \in DOMAIN accepted : accepted[j] \in Persisted =>
    \A i \in 1..j : accepted[i] \in Persisted

(* When ~Impl has joined a writer that did not fail, every event that      *)
(* store() accepted has been inserted: shutdown drains the queue.          *)
CloseDrains ==
  writer = "exited" => Range(accepted) \subseteq Persisted

(* The destructor's join returns: the writer always notices shutdown,      *)
(* whatever is in the queue, so Daemon::stop() cannot hang in store_.      *)
CloseTerminates == impl = "closing" ~> impl # "closing"

(* The store is an event log: seen through the events it accepted, those   *)
(* it inserted and the rows, its threads only promise, write in order,     *)
(* expire, and start over with an intact table.                            *)
Log == INSTANCE EventLog WITH promised <- accepted, written <- Persisted, table <- rows
ImplementsEventLog == Log!Spec

(* "All writes ... pass through a bounded queue drained by a writer        *)
(* thread" (docs/architecture.md:89-91): an accepted event reaches the     *)
(* table, or the process ends.                                             *)
AcceptedIsPersisted ==
  \A e \in Event : e \in Range(accepted) ~> (e \in Persisted \/ impl # "open")
=============================================================================
