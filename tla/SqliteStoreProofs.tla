------------------------- MODULE SqliteStoreProofs -------------------------
(***************************************************************************)
(* Proofs about the event store: whatever the number of events, the queue  *)
(* bound, the number of prunes and the faults, the accepted events reach   *)
(* the table in the order of acceptance, and none is lost while no write   *)
(* has failed.                                                             *)
(***************************************************************************)
EXTENDS SqliteStore, FiniteSetTheorems, TLAPS

(* SMT proves a leaf that names no prover. *)
USE SMTT(60)

(* The phases of the store and of its threads fit together. *)
Phases ==
  /\ storing # None => impl = "open"
  /\ impl = "null" <=> writer = "none"
  /\ impl = "null" => accepted = <<>> /\ log = <<>> /\ batch = <<>> /\ queue = <<>>
  /\ writer = "exited" => impl = "closing" /\ queue = <<>>

(* Where events can be: nothing is queued, batched or inserted that was    *)
(* not accepted, and nothing is accepted twice.                            *)
Provenance ==
  /\ \A i \in DOMAIN accepted : accepted[i] \in offered /\ accepted[i] # storing
  /\ storing # None => storing \in offered
  /\ \A i \in DOMAIN queue : \E j \in DOMAIN accepted : queue[i] = accepted[j]
  /\ \A i \in DOMAIN batch : \E j \in DOMAIN accepted : batch[i] = accepted[j]
  /\ \A i \in DOMAIN log : \E j \in DOMAIN accepted : log[i] = accepted[j]

(* The part of the batch that lies behind the writer has been inserted. *)
BatchWritten ==
  \A p \in DOMAIN batch :
    (writer = "wait" \/ (writer = "write" /\ p < next)) => batch[p] \in Persisted

(* An event still ahead of the writer is preceded, there, by every earlier *)
(* accepted event that has not been inserted.                              *)
BatchOrder ==
  writer = "write" =>
    \A p \in next..Len(batch) : \A j \in DOMAIN accepted : batch[p] = accepted[j] =>
      \A i \in 1..j : \/ accepted[i] \in Persisted
                      \/ \E q \in next..p : batch[q] = accepted[i]

QueueOrder ==
  ~failed =>
    \A p \in DOMAIN queue : \A j \in DOMAIN accepted : queue[p] = accepted[j] =>
      \A i \in 1..j : \/ accepted[i] \in Persisted \cup PendingBatch
                      \/ \E q \in 1..p : queue[q] = accepted[i]

StoreInv ==
  /\ TypeOK
  /\ QueueBounded
  /\ Phases
  /\ Provenance
  /\ BatchWritten
  /\ BatchOrder
  /\ QueueOrder
  /\ NothingVanishes
  /\ PersistedIsPrefix
-----------------------------------------------------------------------------
(* Appending to a sequence adds one element to its range and keeps the     *)
(* rest in place (store() pushes, the writer logs an insert).              *)
LEMMA AppendFacts ==
  ASSUME NEW S, NEW s \in Seq(S), NEW e \in S
  PROVE  /\ Append(s, e) \in Seq(S)
         /\ Len(Append(s, e)) = Len(s) + 1
         /\ \A i \in 1..Len(s) : Append(s, e)[i] = s[i]
         /\ Append(s, e)[Len(s) + 1] = e
         /\ DOMAIN Append(s, e) = 1..(Len(s) + 1)
         /\ DOMAIN s = 1..Len(s)
         /\ Len(s) \in Nat
  OBVIOUS

(* push_back() adds its element to those of the queue, and no other. *)
LEMMA AppendRange ==
  ASSUME NEW S, NEW s \in Seq(S), NEW e \in S
  PROVE  Range(Append(s, e)) = Range(s) \cup {e}
  BY AppendFacts DEF Range

(* The state holds initially: everything is empty. *)
LEMMA StoreInvInit == Init => StoreInv
<1> SUFFICES ASSUME Init PROVE StoreInv
  OBVIOUS
<1> USE StoreAssumption DEF Init, StoreAssumption
<1>1. TypeOK
  BY DEF TypeOK
<1>2. QueueBounded /\ Phases /\ Provenance
  BY DEF QueueBounded, Phases, Provenance
<1>3. BatchWritten /\ BatchOrder /\ QueueOrder
  BY DEF BatchWritten, BatchOrder, QueueOrder
<1>4. NothingVanishes /\ PersistedIsPrefix
  BY DEF NothingVanishes, PersistedIsPrefix, Range
<1> QED
  BY <1>1, <1>2, <1>3, <1>4 DEF StoreInv

(* A step that leaves a process without an Impl, or with a fresh one,      *)
(* satisfies every part of the invariant vacuously.                        *)
LEMMA FreshStep ==
  ASSUME TypeOK', FreshImpl, storing' = None,
         impl' = "null" <=> writer' = "none", impl' # "closing",
         writer' \notin {"exited", "failed"}
  PROVE  StoreInv'
<1> USE StoreAssumption DEF FreshImpl, StoreAssumption
<1>1. QueueBounded' /\ Phases' /\ Provenance'
  BY DEF QueueBounded, Phases, Provenance
<1>2. BatchWritten' /\ BatchOrder' /\ QueueOrder'
  BY DEF BatchWritten, BatchOrder, QueueOrder
<1>3. NothingVanishes' /\ PersistedIsPrefix'
  BY DEF NothingVanishes, PersistedIsPrefix, Range
<1> QED
  BY <1>1, <1>2, <1>3 DEF StoreInv
-----------------------------------------------------------------------------
(* Every action keeps the types. *)
LEMMA TypeStep == TypeOK /\ Next => TypeOK'
<1> SUFFICES ASSUME TypeOK, Next PROVE TypeOK'
  OBVIOUS
<1> USE StoreAssumption DEF StoreAssumption, TypeOK, database, callers, history
<1>1. CASE Open
  BY <1>1 DEF Open, FreshImpl
<1>2. CASE OpenFail
  BY <1>2 DEF OpenFail, FreshImpl
<1>3. ASSUME NEW e \in Event, StoreRefuse(e) PROVE TypeOK'
  BY <1>3 DEF StoreRefuse
<1>4. ASSUME NEW e \in Event, StoreBegin(e) PROVE TypeOK'
  BY <1>4 DEF StoreBegin
<1>5. CASE StoreFull
  BY <1>5 DEF StoreFull
<1>6. CASE StorePush
  <2>1. storing \in Event
    BY <1>6 DEF StorePush, Push
  <2> QED
    BY <1>6, <2>1, AppendFacts DEF StorePush, Push
<1>7. CASE WriterSwap
  BY <1>7 DEF WriterSwap
<1>8. CASE WriterExit
  BY <1>8 DEF WriterExit, WriterReturns
<1>9. CASE InsertRow
  <2>1. batch[next] \in Event
    BY <1>9 DEF InsertRow
  <2>2. log' \in Seq(Event)
    BY <1>9, <2>1, AppendFacts DEF InsertRow
  <2> QED
    BY <1>9, <2>1, <2>2 DEF InsertRow
<1>10. CASE InsertFails
  BY <1>10 DEF InsertFails, Failure
<1>11. CASE BatchDone
  BY <1>11 DEF BatchDone, EndBatch
<1>12. ASSUME NEW c \in Cutoffs, PruneDelete(c) PROVE TypeOK'
  <2> DEFINE old == {r \in rows : Stamp[r] < c}
  <2>1. IsFiniteSet(Event) /\ old \subseteq Event
    OBVIOUS
  <2>2. Cardinality(old) \in Nat
    BY <2>1, FS_Subset, FS_CardinalityType
  <2> QED
    BY <1>12, <2>2 DEF PruneDelete
<1>13. CASE PruneReturn
  BY <1>13 DEF PruneReturn, Returned
<1>14. CASE CloseBegin
  BY <1>14 DEF CloseBegin
<1>15. CASE CloseEnd
  BY <1>15 DEF CloseEnd, FreshImpl
<1>16. CASE Crash
  BY <1>16 DEF Crash, FreshImpl
<1> QED
  BY ZenonT(60), <1>1, <1>2, <1>3, <1>4, <1>5, <1>6, <1>7, <1>8, <1>9, <1>10, <1>11,
     <1>12, <1>13, <1>14, <1>15, <1>16 DEF Next, WriterStep
-----------------------------------------------------------------------------
(* A step that touches neither the queue, the batch nor the histories      *)
(* keeps the invariant when the writer stays, leaves a finished batch, or  *)
(* returns.                                                                *)
LEMMA QuietStep ==
  ASSUME StoreInv, TypeOK', Phases',
         UNCHANGED <<queue, batch, next, accepted, log>>,
         offered \subseteq offered',
         storing' # None =>
           storing' \in offered' /\ (storing' = storing \/ storing' \notin offered),
         \/ writer' = writer
         \/ writer' = "failed"
         \/ writer' = "exited" /\ writer = "wait"
         \/ writer' = "wait" /\ writer = "write" /\ next > Len(batch)
  PROVE  StoreInv'
<1> USE DEF StoreInv
<1>1. QueueBounded' /\ PersistedIsPrefix'
  BY DEF QueueBounded, PersistedIsPrefix, Persisted
<1>2. Provenance'
  BY StoreAssumption DEF Provenance, TypeOK, StoreAssumption
<1>3. BatchWritten'
  BY DEF BatchWritten, Persisted, TypeOK
<1>4. BatchOrder'
  BY DEF BatchOrder, Persisted
<1>5. failed' \/ (~failed /\ PendingBatch' = PendingBatch)
  <2>1. next > Len(batch) => {batch[i] : i \in next..Len(batch)} = {}
    BY DEF TypeOK
  <2> QED
    BY <2>1, ZenonT(60) DEF PendingBatch, failed, TypeOK
<1>6. QueueOrder'
  BY <1>5 DEF QueueOrder, Persisted
<1>7. NothingVanishes'
  BY <1>5 DEF NothingVanishes, Persisted
<1> QED
  BY <1>1, <1>2, <1>3, <1>4, <1>6, <1>7

(* store() pushes: the new event is behind every accepted one. *)
LEMMA PushStep == StoreInv /\ TypeOK' /\ StorePush => StoreInv'
<1> SUFFICES ASSUME StoreInv, TypeOK', StorePush PROVE StoreInv'
  OBVIOUS
<1> DEFINE e == storing
           n == Len(accepted)
           m == Len(queue)
<1>1. /\ storing \in Event /\ e \in Event /\ e \in offered
      /\ impl = "open" /\ n \in Nat /\ m \in Nat
      /\ DOMAIN accepted = 1..n /\ DOMAIN queue = 1..m
      /\ \A i \in 1..n : accepted[i] # e /\ accepted[i] \in Event
  BY DEF StorePush, Push, StoreInv, TypeOK, Provenance, Phases
<1>2. /\ DOMAIN accepted' = 1..(n+1)
      /\ \A i \in 1..n : accepted'[i] = accepted[i]
      /\ accepted'[n+1] = e
  BY <1>1, AppendFacts DEF StorePush, Push, StoreInv, TypeOK
<1>3. /\ DOMAIN queue' = 1..(m+1)
      /\ Len(queue') = m + 1
      /\ \A i \in 1..m : queue'[i] = queue[i]
      /\ queue'[m+1] = e
  BY <1>1, AppendFacts DEF StorePush, Push, StoreInv, TypeOK
<1>4. UNCHANGED <<impl, writer, batch, next, log, offered>> /\ storing' = None
  BY DEF StorePush, Push
<1>5. /\ \A i \in DOMAIN queue : queue[i] # e
      /\ \A i \in DOMAIN batch : batch[i] # e
      /\ e \notin Persisted
  BY <1>1 DEF StoreInv, Provenance, Persisted, Range
<1> HIDE DEF n, m
<1>6. PendingBatch' = PendingBatch /\ Persisted' = Persisted /\ failed' = failed
  BY <1>4 DEF PendingBatch, Persisted, failed
<1>7. QueueBounded'
  BY <1>1, <1>3, <1>4, StoreAssumption
     DEF QueueBounded, StoreInv, StorePush, Push, m, StoreAssumption
<1>8. Phases'
  BY <1>1, <1>4 DEF Phases, StoreInv
<1>9. Provenance'
  <2>1. \A i \in DOMAIN accepted' : accepted'[i] \in offered /\ accepted'[i] # None
    BY <1>1, <1>2, StoreAssumption DEF Provenance, StoreInv, StoreAssumption
  <2>2. \A x : (\E j \in DOMAIN accepted : x = accepted[j])
               => \E j \in DOMAIN accepted' : x = accepted'[j]
    BY <1>1, <1>2
  <2>3. \A i \in DOMAIN queue' : \E j \in DOMAIN accepted' : queue'[i] = accepted'[j]
    <3> SUFFICES ASSUME NEW i \in 1..(m+1)
                 PROVE  \E j \in DOMAIN accepted' : queue'[i] = accepted'[j]
      BY <1>3
    <3>1. CASE i = m + 1
      BY <1>1, <1>2, <1>3, <3>1
    <3>2. CASE i \in 1..m
      <4>1. queue'[i] = queue[i] /\ i \in DOMAIN queue
        BY <1>1, <1>3, <3>2
      <4>2. \E j \in DOMAIN accepted : queue[i] = accepted[j]
        BY <4>1 DEF Provenance, StoreInv
      <4> QED
        BY <2>2, <4>1, <4>2
    <3> QED
      BY <1>1, <3>1, <3>2
  <2>4. \A i \in DOMAIN batch' : \E j \in DOMAIN accepted' : batch'[i] = accepted'[j]
    BY <1>4, <2>2 DEF Provenance, StoreInv
  <2>5. \A i \in DOMAIN log' : \E j \in DOMAIN accepted' : log'[i] = accepted'[j]
    BY <1>4, <2>2 DEF Provenance, StoreInv
  <2>6. offered' = offered /\ storing' = None
    BY <1>4
  <2> QED
    BY <2>1, <2>3, <2>4, <2>5, <2>6, ZenonT(60) DEF Provenance
<1>10. BatchWritten'
  BY <1>4, <1>6 DEF BatchWritten, StoreInv
<1>11. BatchOrder'
  <2> SUFFICES ASSUME writer = "write", NEW p \in next..Len(batch),
                      NEW j \in 1..(n+1), batch[p] = accepted'[j], NEW i \in 1..j
               PROVE  \/ accepted'[i] \in Persisted
                      \/ \E q \in next..p : batch[q] = accepted'[i]
    BY <1>2, <1>4, <1>6 DEF BatchOrder
  <2>0. batch \in Seq(Event) /\ next \in Nat \ {0}
    BY DEF StoreInv, TypeOK
  <2>1. p \in DOMAIN batch /\ p \in Nat
    BY <2>0
  <2>2. j \in 1..n /\ i \in 1..n
    BY <1>1, <1>2, <1>5, <2>1
  <2> QED
    BY <1>1, <1>2, <2>2 DEF BatchOrder, StoreInv
<1>12. QueueOrder'
  <2> SUFFICES ASSUME ~failed, NEW p \in 1..(m+1),
                      NEW j \in 1..(n+1), queue'[p] = accepted'[j], NEW i \in 1..j
               PROVE  \/ accepted'[i] \in Persisted \cup PendingBatch
                      \/ \E q \in 1..p : queue'[q] = accepted'[i]
    BY <1>2, <1>3, <1>6 DEF QueueOrder
  <2>1. CASE p \in 1..m
    <3>1. j \in 1..n /\ i \in 1..n /\ queue[p] = accepted[j]
      BY <1>1, <1>2, <1>3, <1>5, <2>1
    <3>2. \/ accepted[i] \in Persisted \cup PendingBatch
          \/ \E q \in 1..p : queue[q] = accepted[i]
      BY <1>1, <2>1, <3>1 DEF QueueOrder, StoreInv
    <3> QED
      BY <1>1, <1>2, <1>3, <2>1, <3>1, <3>2
  <2>2. CASE p = m + 1
    <3>1. CASE i = n + 1
      BY <1>1, <1>2, <1>3, <2>2, <3>1
    <3>2. CASE i \in 1..n
      <4>1. accepted[i] \in Persisted \cup PendingBatch \cup Range(queue)
        BY <1>1, <3>2 DEF NothingVanishes, StoreInv, Range
      <4>2. accepted[i] \in Range(queue) => \E q \in 1..m : queue'[q] = accepted[i]
        BY <1>1, <1>3 DEF Range
      <4> QED
        BY <1>1, <1>2, <2>2, <3>2, <4>1, <4>2
    <3> QED
      BY <1>1, <3>1, <3>2
  <2> QED
    BY <1>1, <2>1, <2>2
<1>13. NothingVanishes'
  <2>1. Range(accepted') = Range(accepted) \cup {e} /\ Range(queue') = Range(queue) \cup {e}
    BY <1>1, AppendRange DEF StorePush, Push, StoreInv, TypeOK
  <2> QED
    BY <1>6, <2>1 DEF NothingVanishes, StoreInv
<1>14. PersistedIsPrefix'
  BY <1>1, <1>2, <1>5, <1>6 DEF PersistedIsPrefix, StoreInv
<1> QED
  BY <1>7, <1>8, <1>9, <1>10, <1>11, <1>12, <1>13, <1>14 DEF StoreInv

(* The writer swaps: what comes back to the queue has been inserted, and   *)
(* what leaves it keeps its order.                                         *)
LEMMA SwapStep == StoreInv /\ TypeOK' /\ WriterSwap => StoreInv'
<1> SUFFICES ASSUME StoreInv, TypeOK', WriterSwap PROVE StoreInv'
  OBVIOUS
<1>1. /\ batch' = queue /\ queue' = batch /\ next' = 1 /\ writer' = "write"
      /\ UNCHANGED <<impl, storing, offered, accepted, log>>
      /\ writer = "wait"
  BY DEF WriterSwap, callers, history
<1>2. queue \in Seq(Event) /\ batch \in Seq(Event)
  BY DEF StoreInv, TypeOK
<1>3. PendingBatch = {} /\ Persisted' = Persisted /\ ~failed
  BY <1>1 DEF PendingBatch, Persisted, failed
<1>4. PendingBatch' = Range(queue)
  BY <1>1, <1>2 DEF PendingBatch, Range
<1>5. QueueBounded' /\ Phases' /\ Provenance'
  BY <1>1 DEF QueueBounded, Phases, Provenance, StoreInv
<1>6. BatchWritten'
  BY <1>1, <1>2 DEF BatchWritten
<1>7. BatchOrder'
  BY <1>1, <1>2, <1>3 DEF BatchOrder, QueueOrder, StoreInv
<1>8. QueueOrder'
  <2>1. \A p \in DOMAIN batch : batch[p] \in Persisted
    BY <1>1 DEF BatchWritten, StoreInv
  <2> QED
    BY <1>1, <1>3, <2>1 DEF QueueOrder, PersistedIsPrefix, StoreInv
<1>9. NothingVanishes'
  BY <1>1, <1>3, <1>4 DEF NothingVanishes, StoreInv
<1>10. PersistedIsPrefix'
  BY <1>1, <1>3 DEF PersistedIsPrefix, StoreInv
<1> QED
  BY <1>5, <1>6, <1>7, <1>8, <1>9, <1>10 DEF StoreInv

(* The writer inserts the event at `next`: every accepted event before it  *)
(* is already in the table.                                                *)
LEMMA InsertStep == StoreInv /\ TypeOK' /\ InsertRow => StoreInv'
<1> SUFFICES ASSUME StoreInv, TypeOK', InsertRow PROVE StoreInv'
  OBVIOUS
<1> DEFINE e == batch[next]
<1>1. /\ writer = "write" /\ next <= Len(batch) /\ next' = next + 1
      /\ log' = Append(log, e)
      /\ UNCHANGED <<impl, queue, batch, writer, storing, offered, accepted>>
  BY DEF InsertRow, callers
<1>2. /\ batch \in Seq(Event) /\ next \in Nat \ {0} /\ log \in Seq(Event)
      /\ queue \in Seq(Event) /\ accepted \in Seq(Event)
  BY DEF StoreInv, TypeOK
<1>3. e \in Event /\ next \in DOMAIN batch /\ Len(batch) \in Nat
  BY <1>1, <1>2
<1>4. Persisted' = Persisted \cup {e}
  BY <1>1, <1>2, <1>3, AppendRange DEF Persisted
<1>5. PendingBatch \subseteq PendingBatch' \cup {e}
  BY <1>1, <1>2, <1>3 DEF PendingBatch
<1>6. ~failed /\ ~failed'
  BY <1>1 DEF failed
<1>7. QueueBounded'
  BY <1>1 DEF QueueBounded, StoreInv
<1>8. Phases'
  BY <1>1 DEF Phases, StoreInv
<1>9. Provenance'
  <2>1. \E j \in DOMAIN accepted : e = accepted[j]
    BY <1>3 DEF Provenance, StoreInv
  <2>2. \A i \in DOMAIN log' : log'[i] = e \/ (i \in DOMAIN log /\ log'[i] = log[i])
    BY <1>1, <1>2, <1>3, AppendFacts
  <2> QED
    BY <1>1, <2>1, <2>2 DEF Provenance, StoreInv
<1>10. BatchWritten'
  <2> SUFFICES ASSUME NEW p \in DOMAIN batch, p < next + 1
               PROVE  batch[p] \in Persisted'
    BY <1>1 DEF BatchWritten
  <2>1. p = next \/ p < next
    BY <1>2
  <2> QED
    BY <1>1, <1>4, <2>1 DEF BatchWritten, StoreInv
<1>11. BatchOrder'
  <2> SUFFICES ASSUME NEW p \in (next + 1)..Len(batch), NEW j \in DOMAIN accepted,
                      batch[p] = accepted[j], NEW i \in 1..j
               PROVE  \/ accepted[i] \in Persisted'
                      \/ \E q \in (next + 1)..p : batch[q] = accepted[i]
    BY <1>1 DEF BatchOrder
  <2>1. p \in next..Len(batch) /\ p \in Nat
    BY <1>2, <1>3
  <2>2. \/ accepted[i] \in Persisted
        \/ \E q \in next..p : batch[q] = accepted[i]
    BY <1>1, <2>1 DEF BatchOrder, StoreInv
  <2>3. \A q \in next..p : q = next \/ q \in (next + 1)..p
    BY <1>2, <2>1
  <2> QED
    BY <1>4, <2>2, <2>3
<1>12. QueueOrder'
  <2> SUFFICES ASSUME NEW p \in DOMAIN queue, NEW j \in DOMAIN accepted,
                      queue[p] = accepted[j], NEW i \in 1..j
               PROVE  \/ accepted[i] \in Persisted' \cup PendingBatch'
                      \/ \E q \in 1..p : queue[q] = accepted[i]
    BY <1>1 DEF QueueOrder
  <2>1. \/ accepted[i] \in Persisted \cup PendingBatch
        \/ \E q \in 1..p : queue[q] = accepted[i]
    BY <1>6 DEF QueueOrder, StoreInv
  <2> QED
    BY <1>4, <1>5, <2>1
<1>13. NothingVanishes'
  BY <1>1, <1>4, <1>5, <1>6 DEF NothingVanishes, StoreInv
<1>14. PersistedIsPrefix'
  <2> SUFFICES ASSUME NEW j \in DOMAIN accepted, accepted[j] \in Persisted',
                      NEW i \in 1..j
               PROVE  accepted[i] \in Persisted'
    BY <1>1 DEF PersistedIsPrefix
  <2>1. CASE accepted[j] \in Persisted
    BY <1>4, <2>1 DEF PersistedIsPrefix, StoreInv
  <2>2. CASE accepted[j] = e
    <3>1. next \in next..Len(batch) /\ \A q \in next..next : q = next
      BY <1>1, <1>2, <1>3
    <3>2. \/ accepted[i] \in Persisted
          \/ \E q \in next..next : batch[q] = accepted[i]
      BY <1>1, <2>2, <3>1 DEF BatchOrder, StoreInv
    <3> QED
      BY <1>4, <3>1, <3>2
  <2> QED
    BY <1>4, <2>1, <2>2
<1> QED
  BY <1>7, <1>8, <1>9, <1>10, <1>11, <1>12, <1>13, <1>14 DEF StoreInv
-----------------------------------------------------------------------------
(* Every step of the store keeps the invariant. *)
LEMMA StoreInvStep == StoreInv /\ [Next]_vars => StoreInv'
<1> SUFFICES ASSUME StoreInv, [Next]_vars PROVE StoreInv'
  OBVIOUS
<1>0. TypeOK'
  BY TypeStep, ZenonT(60) DEF StoreInv, TypeOK, vars
<1>a. storing # None => storing \in offered
  BY DEF StoreInv, Provenance
<1> USE DEF database, callers, history
<1>1. CASE Open
  <2>1. storing' = None
    BY <1>1 DEF Open, StoreInv, Phases
  <2> QED
    BY <1>0, <1>1, <2>1, FreshStep DEF Open
<1>2. CASE OpenFail
  <2>1. storing' = None
    BY <1>2 DEF OpenFail, StoreInv, Phases
  <2> QED
    BY <1>0, <1>2, <2>1, FreshStep DEF OpenFail
<1>3. CASE CloseEnd
  <2>1. storing' = None
    BY <1>3 DEF CloseEnd, StoreInv, Phases
  <2> QED
    BY <1>0, <1>3, <2>1, FreshStep DEF CloseEnd
<1>4. CASE Crash
  <2>1. storing' = None
    BY <1>4 DEF Crash, StoreInv, Phases
  <2> QED
    BY <1>0, <1>4, <2>1, FreshStep DEF Crash
<1>5. ASSUME NEW e \in Event, StoreRefuse(e) PROVE StoreInv'
  <2>1. Phases'
    BY <1>5 DEF StoreRefuse, StoreInv, Phases, TypeOK, failed, shutdown
  <2> QED
    BY <1>0, <1>5, <2>1, QuietStep DEF StoreRefuse, StoreInv, Provenance
<1>6. ASSUME NEW e \in Event, StoreBegin(e) PROVE StoreInv'
  <2>1. Phases'
    BY <1>6 DEF StoreBegin, StoreInv, Phases, TypeOK, failed, shutdown
  <2> QED
    BY <1>0, <1>6, <2>1, QuietStep DEF StoreBegin, StoreInv, Provenance
<1>7. CASE StoreFull
  <2>1. Phases'
    BY <1>7 DEF StoreFull, StoreInv, Phases, TypeOK, failed, shutdown
  <2> QED
    BY <1>0, <1>7, <2>1, QuietStep DEF StoreFull, StoreInv, Provenance
<1>8. CASE WriterExit
  <2>1. Phases'
    BY <1>8 DEF WriterExit, WriterReturns, StoreInv, Phases, TypeOK, failed, shutdown
  <2>2. /\ UNCHANGED <<queue, batch, next, accepted, log, offered, storing>>
        /\ writer = "wait" /\ writer' = "exited"
    BY <1>8 DEF WriterExit, WriterReturns
  <2> QED
    BY <1>0, <1>a, <2>1, <2>2, QuietStep
<1>9. CASE InsertFails
  <2>1. Phases'
    BY <1>9 DEF InsertFails, Failure, StoreInv, Phases, TypeOK, failed, shutdown
  <2>2. /\ UNCHANGED <<queue, batch, next, accepted, log, offered, storing>>
        /\ writer' = "failed"
    BY <1>9 DEF InsertFails, Failure
  <2> QED
    BY <1>0, <1>a, <2>1, <2>2, QuietStep
<1>10. CASE BatchDone
  <2>1. Phases'
    BY <1>10 DEF BatchDone, EndBatch, StoreInv, Phases, TypeOK, failed, shutdown
  <2>2. /\ UNCHANGED <<queue, batch, next, accepted, log, offered, storing>>
        /\ writer = "write" /\ writer' = "wait" /\ next > Len(batch)
    BY <1>10 DEF BatchDone, EndBatch
  <2> QED
    BY <1>0, <1>a, <2>1, <2>2, QuietStep
<1>11. ASSUME NEW c \in Cutoffs, PruneDelete(c) PROVE StoreInv'
  <2>1. Phases'
    BY <1>11 DEF PruneDelete, StoreInv, Phases, TypeOK, failed, shutdown
  <2>2. UNCHANGED <<queue, batch, next, accepted, log, offered, storing, writer>>
    BY <1>11 DEF PruneDelete
  <2> QED
    BY <1>0, <1>a, <2>1, <2>2, QuietStep
<1>12. CASE PruneReturn
  <2>1. Phases'
    BY <1>12 DEF PruneReturn, Returned, StoreInv, Phases, TypeOK, failed, shutdown
  <2>2. UNCHANGED <<queue, batch, next, accepted, log, offered, storing, writer>>
    BY <1>12 DEF PruneReturn, Returned
  <2> QED
    BY <1>0, <1>a, <2>1, <2>2, QuietStep
<1>13. CASE CloseBegin
  <2>1. Phases'
    BY <1>13 DEF CloseBegin, StoreInv, Phases, TypeOK, failed, shutdown
  <2>2. UNCHANGED <<queue, batch, next, accepted, log, offered, storing, writer>>
    BY <1>13 DEF CloseBegin
  <2> QED
    BY <1>0, <1>a, <2>1, <2>2, QuietStep
<1>14. CASE StorePush
  BY <1>0, <1>14, PushStep
<1>15. CASE WriterSwap
  BY <1>0, <1>15, SwapStep
<1>16. CASE InsertRow
  BY <1>0, <1>16, InsertStep
<1>17. CASE UNCHANGED vars
  <2>1. Phases'
    BY <1>17 DEF vars, StoreInv, Phases
  <2>2. UNCHANGED <<queue, batch, next, accepted, log, offered, storing, writer>>
    BY <1>17 DEF vars
  <2> QED
    BY <1>0, <1>a, <2>1, <2>2, QuietStep
<1> QED
  BY <1>1, <1>2, <1>3, <1>4, <1>5, <1>6, <1>7, <1>8, <1>9,
     <1>10, <1>11, <1>12, <1>13, <1>14, <1>15, <1>16, <1>17 DEF Next, WriterStep

(* The inductive invariant holds in every reachable state. *)
THEOREM StoreInvariant == Spec => []StoreInv
  BY StoreInvInit, StoreInvStep, PTL DEF Spec

(* Type correctness of the store. *)
THEOREM StoreTypeOK == Spec => []TypeOK
<1>1. StoreInv => TypeOK
  BY DEF StoreInv
<1> QED
  BY <1>1, StoreInvariant, PTL

(* The write queue, and the batch that is swapped back into it, never      *)
(* exceed kMaxQueuedWrites.                                                *)
THEOREM StoreQueueBounded == Spec => []QueueBounded
<1>1. StoreInv => QueueBounded
  BY DEF StoreInv
<1> QED
  BY <1>1, StoreInvariant, PTL

(* As long as no write has failed, no accepted event is lost between       *)
(* store()'s push, the writer's swap and its inserts.                      *)
THEOREM StoreNothingVanishes == Spec => []NothingVanishes
<1>1. StoreInv => NothingVanishes
  BY DEF StoreInv
<1> QED
  BY <1>1, StoreInvariant, PTL

(* The events that reached the table are a prefix of the accepted ones,    *)
(* also after a failed write.                                              *)
THEOREM StorePersistedIsPrefix == Spec => []PersistedIsPrefix
<1>1. StoreInv => PersistedIsPrefix
  BY DEF StoreInv
<1> QED
  BY <1>1, StoreInvariant, PTL

(* A writer that returns because of shutdown has inserted every accepted   *)
(* event: ~Impl loses nothing unless a write failed.                       *)
THEOREM StoreCloseDrains == Spec => []CloseDrains
<1>1. StoreInv => CloseDrains
  <2> SUFFICES ASSUME StoreInv, writer = "exited"
               PROVE  Range(accepted) \subseteq Persisted
    BY DEF CloseDrains
  <2>1. queue = <<>> /\ ~failed /\ PendingBatch = {}
    BY DEF StoreInv, Phases, failed, PendingBatch
  <2>2. Range(queue) = {}
    BY <2>1 DEF Range
  <2> QED
    BY <2>1, <2>2 DEF StoreInv, NothingVanishes
<1> QED
  BY <1>1, StoreInvariant, PTL
-----------------------------------------------------------------------------
(* A step of the store that neither accepts nor inserts leaves the log as  *)
(* it is, or expires rows of it.                                           *)
LEMMA LogUnmoved ==
  ASSUME UNCHANGED <<rows, accepted, log>>
  PROVE  UNCHANGED <<accepted, Persisted, rows>>
  BY DEF Persisted

(* The constructor, ~Impl and the death of the process start the log over  *)
(* and leave the table alone.                                              *)
LEMMA LogRestarts ==
  ASSUME FreshImpl, rows' = rows
  PROVE  Log!Restart
<1>1. accepted' = <<>> /\ log' = <<>>
  BY DEF FreshImpl
<1>2. Persisted' = {}
  BY <1>1 DEF Persisted, Range
<1> QED
  BY <1>1, <1>2 DEF Log!Restart

(* The writer inserts the event at `next`: a write of the log, since       *)
(* BatchOrder leaves no earlier accepted event behind.                     *)
LEMMA LogWrites ==
  ASSUME StoreInv, StoreInv', InsertRow
  PROVE  \E i \in DOMAIN accepted : Log!Write(i)
<1> DEFINE e == batch[next]
<1>1. /\ next <= Len(batch) /\ rows' = rows \cup {e} /\ log' = Append(log, e)
      /\ accepted' = accepted
  BY DEF InsertRow
<1>2. batch \in Seq(Event) /\ next \in Nat \ {0} /\ log \in Seq(Event)
  BY DEF StoreInv, TypeOK
<1>3. next \in DOMAIN batch /\ e \in Event
  BY <1>1, <1>2
<1>4. Persisted' = Persisted \cup {e}
  BY <1>1, <1>2, <1>3, AppendRange DEF Persisted
<1>5. PICK i \in DOMAIN accepted : e = accepted[i]
  BY <1>3 DEF StoreInv, Provenance
<1>6. \A j \in 1..i : accepted[j] \in Persisted'
  <2>1. accepted'[i] \in Persisted' /\ i \in DOMAIN accepted'
    BY <1>1, <1>4, <1>5
  <2> QED
    BY <1>1, <2>1 DEF StoreInv, PersistedIsPrefix
<1>7. Log!Write(i)
  BY <1>1, <1>4, <1>5, <1>6 DEF Log!Write
<1> QED
  BY <1>7

(* prune() expires: what its DELETE keeps is not older than the cutoff. *)
LEMMA LogExpires ==
  ASSUME TypeOK, NEW c \in Cutoffs, PruneDelete(c)
  PROVE  Log!Expire(c)
<1>1. rows' = rows \ {r \in rows : Stamp[r] < c} /\ UNCHANGED <<accepted, log>>
  BY DEF PruneDelete, history
<1>2. \A r \in rows : Stamp[r] \in Nat /\ c \in Nat
  BY StoreAssumption DEF StoreAssumption, TypeOK
<1>3. rows' = {r \in rows : Stamp[r] >= c}
  BY <1>1, <1>2
<1> QED
  BY <1>1, <1>3 DEF Log!Expire, Persisted

(* Every step of the store is a step of the log, or invisible in it. *)
LEMMA LogStep ==
  ASSUME StoreInv, StoreInv', [Next]_vars
  PROVE  [Log!Next]_<<accepted, Persisted, rows>>
<1> USE DEF database, history
<1>1. CASE Open \/ OpenFail \/ CloseEnd \/ Crash
  <2>1. FreshImpl /\ rows' = rows
    BY <1>1, ZenonT(60) DEF Open, OpenFail, CloseEnd, Crash
  <2> QED
    BY <2>1, LogRestarts DEF Log!Next
<1>2. CASE StorePush
  <2>1. storing \in Event /\ accepted' = Append(accepted, storing)
    BY <1>2 DEF StorePush, Push, StoreInv, TypeOK
  <2>2. UNCHANGED <<rows, log>>
    BY <1>2 DEF StorePush, Push
  <2>3. Log!Promise(storing)
    BY <2>1, <2>2 DEF Log!Promise, Persisted
  <2> QED
    BY <2>1, <2>3 DEF Log!Next
<1>3. CASE InsertRow
  BY <1>3, LogWrites DEF Log!Next
<1>4. ASSUME NEW c \in Cutoffs, PruneDelete(c) PROVE Log!Next
  <2>1. Log!Expire(c)
    BY <1>4, LogExpires DEF StoreInv
  <2> QED
    BY <2>1 DEF Log!Next
<1>5. ASSUME NEW e \in Event, StoreRefuse(e) \/ StoreBegin(e)
      PROVE  UNCHANGED <<accepted, Persisted, rows>>
  <2>1. UNCHANGED <<rows, accepted, log>>
    BY <1>5, ZenonT(60) DEF StoreRefuse, StoreBegin
  <2> QED
    BY <2>1, LogUnmoved
<1>6. CASE StoreFull \/ WriterSwap \/ WriterExit \/ InsertFails \/ BatchDone
           \/ PruneReturn \/ CloseBegin
  <2>1. UNCHANGED <<rows, accepted, log>>
    BY <1>6, ZenonT(60) DEF StoreFull, WriterSwap, WriterExit, WriterReturns, InsertFails,
       Failure, BatchDone, EndBatch, PruneReturn, Returned, CloseBegin
  <2> QED
    BY <2>1, LogUnmoved
<1>7. CASE UNCHANGED vars
  BY <1>7, LogUnmoved DEF vars
<1> QED
  BY ZenonT(60), <1>1, <1>2, <1>3, <1>4, <1>5, <1>6, <1>7 DEF Next, WriterStep

(* The store with its queue, threads, failures and restarts implements the *)
(* event log, for every number of events and every bound.                  *)
THEOREM StoreImplementsEventLog == Spec => ImplementsEventLog
<1>1. Init => Log!Init
  BY DEF Init, Log!Init, Persisted, Range
<1> QED
  BY <1>1, LogStep, StoreInvariant, PTL DEF Spec, ImplementsEventLog, Log!Spec
=============================================================================
