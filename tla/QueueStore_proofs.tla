------------------------- MODULE QueueStore_proofs -------------------------
(***************************************************************************)
(* Proofs about QueueStore, for every value of its constants.              *)
(***************************************************************************)
EXTENDS QueueStoreSafety, FiniteSetTheorems, TLAPS

-----------------------------------------------------------------------------
(* The operators of MessageRows on tables.                                 *)

(* A sweep keeps some rows of the table, as they are (expire_messages).    *)
LEMMA SweepIsTable ==
    ASSUME NEW table, NEW next \in Nat \ {0}, IsTable(table, next),
           NEW q, NEW retention, NEW t
    PROVE  /\ IsTable(Sweep(table, q, retention, t), next)
           /\ DOMAIN Sweep(table, q, retention, t) \subseteq DOMAIN table
           /\ \A s \in DOMAIN Sweep(table, q, retention, t) :
                Sweep(table, q, retention, t)[s] = table[s]
BY DEF IsTable, Sweep

(* Inserting a row under the next sequence number (insert_message).        *)
LEMMA InsertIsTable ==
    ASSUME NEW table, NEW next \in Nat \ {0}, IsTable(table, next),
           NEW row \in Row
    PROVE  IsTable(Insert(table, next, row), next + 1)
BY DEF IsTable, Insert

(* Deleting rows.                                                          *)
LEMMA RemoveIsTable ==
    ASSUME NEW table, NEW next \in Nat \ {0}, IsTable(table, next), NEW rows
    PROVE  IsTable(Remove(table, rows), next)
BY DEF IsTable, Remove

(* Moving a row: it is gone under its old number, present under the next   *)
(* one, and no other row is touched (move_message).                        *)
LEMMA MoveIsTable ==
    ASSUME NEW table, NEW next \in Nat \ {0}, IsTable(table, next),
           NEW s \in DOMAIN table, NEW row \in Row
    PROVE  /\ IsTable(Move(table, s, next, row), next + 1)
           /\ DOMAIN Move(table, s, next, row) = (DOMAIN table \ {s}) \cup {next}
           /\ Move(table, s, next, row)[next] = row
           /\ \A x \in DOMAIN table \ {s} :
                Move(table, s, next, row)[x] = table[x]
<1>1. next \notin DOMAIN table
  BY DEF IsTable
<1>2. IsTable(Remove(table, {s}), next)
  BY RemoveIsTable
<1>3. IsTable(Move(table, s, next, row), next + 1)
  BY <1>2, InsertIsTable DEF Move
<1>4. QED
  BY <1>1, <1>3 DEF Move, Insert, Remove

(* A table has finitely many rows.                                         *)
LEMMA TableIsFinite ==
    ASSUME NEW table, NEW next \in Nat, IsTable(table, next),
           NEW rows, rows \subseteq DOMAIN table
    PROVE  IsFiniteSet(rows) /\ Cardinality(rows) \in Nat
<1>1. IsFiniteSet(1 .. next - 1)
  BY FS_Interval
<1>2. IsFiniteSet(rows)
  BY <1>1, FS_Subset DEF IsTable
<1>3. QED
  BY <1>2, FS_CardinalityType

(* The rows in flight are finitely many, so the room left is a number.     *)
LEMMA RoomType ==
    ASSUME TypeOK, NEW q \in Queue
    PROVE  Room(q) \in Nat
<1>1. DOMAIN messages \subseteq 1 .. nextSequence - 1 /\ nextSequence \in Nat
  BY DEF TypeOK, IsTable
<1>2. IsFiniteSet(1 .. nextSequence - 1)
  BY <1>1, FS_Interval
<1>3. Leased(q) \subseteq DOMAIN messages
  BY DEF Leased, InFlight, RowsOf, SweptQueue, Sweep
<1>4. IsFiniteSet(Leased(q))
  BY <1>1, <1>2, <1>3, FS_Subset
<1>5. Cardinality(Leased(q)) \in Nat
  BY <1>4, FS_CardinalityType
<1>6. settings[q].maxInFlight \in Nat
  BY DEF TypeOK, Settings
<1>7. QED
  BY <1>5, <1>6 DEF Room
-----------------------------------------------------------------------------
(* The types of the values that actions store.                             *)

(* The row of a send or of a redrive (insert_message, move_message).       *)
LEMMA NewRowType ==
    ASSUME NEW s \in Nat, NEW q \in Queue, NEW g \in Group,
           NEW d \in DedupId \cup {NoDedupId}, NEW t \in Nat, NEW delay \in Nat
    PROVE  NewRow(s, q, g, d, t, delay) \in Row
BY DEF NewRow, Row, NoHandle

(* A delivered row (deliver_candidate).                                    *)
LEMMA DeliveredRowType ==
    ASSUME NEW row \in Row, NEW s \in Nat, NEW t \in Nat, NEW visibility \in Nat
    PROVE  DeliveredRow(row, s, t, visibility) \in Row
<1>1. row.count \in Nat /\ row.total \in Nat
  BY DEF Row
<1>2. /\ <<s, row.count + 1>> \in Nat \X Nat
      /\ row.count + 1 \in Nat
      /\ row.total + 1 \in Nat
      /\ t + visibility \in Nat
  BY <1>1
<1>3. QED
  BY <1>2 DEF DeliveredRow, Row

(* A dead-lettered row (redrive_candidate).                                *)
LEMMA DeadLetterRowType ==
    ASSUME TypeOK, NEW row \in Row, NEW q \in Queue, NEW t \in Nat,
           settings[q].policy # NoPolicy
    PROVE  DeadLetterRow(row, q, t) \in Row
<1>1. settings[q].policy.deadLetter \in Queue
  BY DEF TypeOK, Settings, Policy
<1>2. QED
  BY <1>1 DEF DeadLetterRow, Row, NoHandle

(* The attempts table after a trigger and after pruning.                   *)
LEMMA InvalidateType ==
    ASSUME NEW table \in SUBSET Attempt, NEW handles
    PROVE  Invalidate(table, handles) \subseteq Attempt
BY DEF Invalidate, Attempt

(* The attempts table of a receive transaction.                            *)
LEMMA AttemptsForType ==
    ASSUME TypeOK, NEW table, NEW q, NEW t
    PROVE  AttemptsFor(table, q, t) \subseteq Attempt
<1>1. attempts \in SUBSET Attempt
  BY DEF TypeOK
<1>2. Invalidate(attempts, LostHandles(messages, table)) \subseteq Attempt
  BY <1>1, InvalidateType
<1>3. QED
  BY <1>2 DEF AttemptsFor, PruneAttempts

(* The swept table of a queue.                                             *)
LEMMA SweptQueueType ==
    ASSUME TypeOK, NEW q \in Queue, NEW t
    PROVE  IsTable(SweptQueue(q, t), nextSequence)
<1>1. nextSequence \in Nat \ {0} /\ IsTable(messages, nextSequence)
  BY DEF TypeOK
<1>2. QED
  BY <1>1, SweepIsTable DEF SweptQueue
-----------------------------------------------------------------------------
(* TypeOK is inductive: one lemma per action.                              *)

(* The INSERT of a send (insert_message).                                  *)
LEMMA EnqueueType ==
    ASSUME TypeOK, NEW q \in Queue, NEW g \in Group,
           NEW d \in DedupId \cup {NoDedupId}, NEW delay \in Nat,
           NEW t \in Nat, Enqueue(q, g, d, delay, t)
    PROVE  /\ nextSequence' \in Nat \ {0}
           /\ IsTable(messages, nextSequence)'
           /\ (attempts \subseteq Attempt)'
<1>1. nextSequence \in Nat \ {0} /\ attempts \in SUBSET Attempt
  BY DEF TypeOK
<1>2. NewRow(nextSequence, q, g, d, t, delay) \in Row
  BY <1>1, NewRowType
<1>3. IsTable(messages, nextSequence)'
  BY <1>1, <1>2, SweptQueueType, InsertIsTable DEF Enqueue
<1>4. (attempts \subseteq Attempt)'
  BY <1>1, InvalidateType DEF Enqueue
<1>5. QED
  BY <1>1, <1>3, <1>4 DEF Enqueue

(* The three outcomes of a send (send_message_at).                         *)
LEMMA SendType ==
    ASSUME TypeOK, NEW q \in Queue, NEW t \in Nat, SendTo(q, t),
           QueueStoreAssumption
    PROVE  TypeOK'
<1>1. ASSUME NEW g \in Group,
             NEW delay \in Delays \cup {settings[q].delay},
             SendStandard(q, g, delay, t)
      PROVE  TypeOK'
  <2>1. q \in Queue /\ delay \in Nat
    BY DEF QueueStoreAssumption, TypeOK, Settings
  <2>2. Enqueue(q, g, NoDedupId, delay, t)
    BY <1>1 DEF SendStandard
  <2>3. QED
    BY <1>1, <2>1, <2>2, EnqueueType DEF SendStandard, TypeOK, txVars
<1>2. ASSUME NEW g \in Group, NEW d \in DedupId,
             SendFifo(q, g, d, t)
      PROVE  TypeOK'
  <2>1. q \in Queue /\ settings[q].delay \in Nat
    BY DEF QueueStoreAssumption, TypeOK, Settings
  <2>2. Enqueue(q, g, d, settings[q].delay, t)
    BY <1>2 DEF SendFifo
  <2>3. (keys \subseteq Key)'
    BY <1>2, <2>1 DEF SendFifo, FreshKeys, Key, TypeOK
  <2>4. QED
    BY <1>2, <2>1, <2>2, <2>3, EnqueueType DEF SendFifo, TypeOK, txVars
<1>3. ASSUME NEW g \in Group, NEW d \in DedupId,
             SendDuplicate(q, g, d, t)
      PROVE  TypeOK'
  <2>1. q \in Queue /\ attempts \in SUBSET Attempt
    BY DEF QueueStoreAssumption, TypeOK
  <2>2. IsTable(messages, nextSequence)'
    BY <1>3, <2>1, SweptQueueType DEF SendDuplicate
  <2>3. (keys \subseteq Key)' /\ (attempts \subseteq Attempt)'
    BY <1>3, <2>1, InvalidateType DEF SendDuplicate, FreshKeys, TypeOK
  <2>4. QED
    BY <1>3, <2>2, <2>3 DEF SendDuplicate, TypeOK, txVars
<1>4. QED
  BY <1>1, <1>2, <1>3 DEF SendTo

(* A replay (replay_attempt).                                              *)
LEMMA ReplayAttemptType ==
    ASSUME TypeOK, NEW q \in Queue, NEW a, NEW fingerprint,
           ReplayAttempt(q, a, fingerprint)
    PROVE  TypeOK'
<1>1. IsTable(SweptQueue(q, now), nextSequence) /\ now \in Nat
  BY SweptQueueType DEF TypeOK
<1>2. Known(q, a) \subseteq Attempt
  BY AttemptsForType DEF Known
<1>3. PICK r \in Known(q, a) :
        messages' = [s \in DOMAIN SweptQueue(q, now) |->
            IF s \in {x \in RowsOf(SweptQueue(q, now), q) :
                        SweptQueue(q, now)[x].handle \in r.members}
            THEN [SweptQueue(q, now)[s] EXCEPT !.invisible = now + r.visibility]
            ELSE SweptQueue(q, now)[s]]
  BY DEF ReplayAttempt
<1>4. now + r.visibility \in Nat
  BY <1>1, <1>2 DEF Attempt
<1>5. DOMAIN messages' = DOMAIN SweptQueue(q, now)
  BY <1>3
<1>6. ASSUME NEW s \in DOMAIN SweptQueue(q, now)
      PROVE  messages'[s] \in Row
  <2>1. SweptQueue(q, now)[s] \in Row
    BY <1>1 DEF IsTable
  <2>2. [SweptQueue(q, now)[s] EXCEPT !.invisible = now + r.visibility] \in Row
    BY <1>4, <2>1 DEF Row
  <2>3. QED
    BY <1>3, <2>1, <2>2
<1>7. messages' \in [DOMAIN messages' -> Row]
  BY <1>3, <1>5, <1>6
<1>8. IsTable(messages', nextSequence)
  BY <1>1, <1>5, <1>7 DEF IsTable
<1>9. attempts' \subseteq Attempt
  BY AttemptsForType DEF ReplayAttempt
<1>10. QED
  BY <1>8, <1>9 DEF ReplayAttempt, TypeOK, txVars

(* A refused receive (receive_messages).                                   *)
LEMMA ReceiveOverLimitType ==
    ASSUME TypeOK, NEW q \in Queue, ReceiveOverLimit(q)
    PROVE  TypeOK'
<1>1. IsTable(messages, nextSequence)'
  BY SweptQueueType DEF ReceiveOverLimit
<1>2. attempts' \subseteq Attempt
  BY AttemptsForType DEF ReceiveOverLimit
<1>3. QED
  BY <1>1, <1>2 DEF ReceiveOverLimit, TypeOK, txVars

(* A receive takes its lease time and its room (receive_messages).         *)
LEMMA BeginReceiveType ==
    ASSUME TypeOK, QueueStoreAssumption, NEW q \in Queue, NEW max \in BatchSizes,
           NEW option \in Visibilities, NEW a \in AttemptId \cup {NoAttempt},
           NEW cacheEmpty \in BOOLEAN,
           BeginReceive(q, max, option, a, cacheEmpty)
    PROVE  TypeOK'
<1>1. max \in Nat /\ option \in Nat \cup {UseDefault} /\ now \in Nat
  BY DEF QueueStoreAssumption, TypeOK
<1>2. Min2(max, Room(q)) \in Nat
  BY <1>1, RoomType DEF Min2
<1>3. (IF option = UseDefault THEN settings[q].visibility ELSE option) \in Nat
  BY <1>1 DEF TypeOK, Settings
<1>4. tx' \in ReceiveTx /\ tx'.received = {}
  BY <1>1, <1>2, <1>3 DEF BeginReceive, ReceiveTx, Fingerprint
<1>5. IsTable(work', workNext') /\ workNext' \in Nat \ {0}
  BY SweptQueueType DEF BeginReceive, TypeOK
<1>6. QED
  BY <1>4, <1>5 DEF BeginReceive, TypeOK, store

(* Which record tx is follows from its kind.                               *)
LEMMA TxKinds ==
    ASSUME TypeOK
    PROVE  /\ tx.kind = "receive" => tx \in ReceiveTx
           /\ tx.kind = "redrive" => tx \in RedriveTx
           /\ tx # Idle => tx.kind \in {"receive", "redrive"}
<1>1. tx = Idle \/ tx \in ReceiveTx \/ tx \in RedriveTx
  BY DEF TypeOK
<1>2. tx = Idle => tx.kind = "idle"
  BY DEF Idle
<1>3. tx \in ReceiveTx => tx.kind = "receive"
  BY DEF ReceiveTx
<1>4. tx \in RedriveTx => tx.kind = "redrive"
  BY DEF RedriveTx
<1>5. QED
  BY <1>1, <1>2, <1>3, <1>4

(* The empty table that a finished transaction leaves behind.              *)
LEMMA EmptyIsTable == IsTable(EmptyTable, 1) /\ DOMAIN EmptyTable = {}
BY DEF IsTable, EmptyTable

(* One delivery of a receive (deliver_candidate).                          *)
LEMMA DeliverNextType ==
    ASSUME TypeOK, NEW s \in DOMAIN work, DeliverNext(s)
    PROVE  TypeOK'
<1>1. /\ tx \in ReceiveTx /\ IsTable(work, workNext) /\ workNext \in Nat
      /\ tx.received \subseteq DOMAIN work
  BY TxKinds DEF DeliverNext, TypeOK
<1>2. s \in Nat /\ work[s] \in Row
  BY <1>1 DEF IsTable
<1>3. DeliveredRow(work[s], s, tx.at, tx.visibility) \in Row
  BY <1>1, <1>2, DeliveredRowType DEF ReceiveTx
<1>4. work' = [work EXCEPT ![s] = DeliveredRow(work[s], s, tx.at, tx.visibility)]
  BY DEF DeliverNext
<1>5. IsTable(work, workNext)'
  BY <1>1, <1>3, <1>4 DEF IsTable, DeliverNext
<1>6. work[s].group \in Group
  BY <1>2 DEF Row
<1>7. /\ tx' = [tx EXCEPT !.received = tx.received \cup {s},
                          !.preferred = IF tx.queue \in Fifo THEN work[s].group
                                                             ELSE tx.preferred]
      /\ tx.received \cup {s} \in SUBSET Nat
  BY <1>1, <1>2 DEF DeliverNext, ReceiveTx
<1>8. tx' \in ReceiveTx /\ tx'.received = tx.received \cup {s}
  BY <1>1, <1>6, <1>7 DEF ReceiveTx
<1>9. tx'.received \subseteq DOMAIN work'
  BY <1>1, <1>4, <1>8
<1>10. QED
  BY <1>5, <1>8, <1>9 DEF DeliverNext, TypeOK, store

(* One move of a running transaction (move_message).                       *)
LEMMA MoveRowType ==
    ASSUME TypeOK, NEW s \in DOMAIN work, NEW row \in Row, MoveRow(s, row)
    PROVE  IsTable(work', workNext') /\ workNext' \in Nat \ {0}
<1>1. IsTable(work, workNext) /\ workNext \in Nat \ {0}
  BY DEF TypeOK
<1>2. IsTable(Move(work, s, workNext, row), workNext + 1)
  BY <1>1, MoveIsTable
<1>3. work' = Move(work, s, workNext, row) /\ workNext' = workNext + 1
  BY DEF MoveRow
<1>4. QED
  BY <1>1, <1>2, <1>3

(* What it leaves of the private table.                                    *)
LEMMA MoveRowRows ==
    ASSUME TypeOK, NEW s \in DOMAIN work, NEW row \in Row, MoveRow(s, row)
    PROVE  /\ DOMAIN work' = (DOMAIN work \ {s}) \cup {workNext}
           /\ workNext \notin DOMAIN work /\ work'[workNext] = row
           /\ \A x \in DOMAIN work \ {s} : work'[x] = work[x]
           /\ workNext \in Nat \ {0} /\ workNext' = workNext + 1
<1>1. IsTable(work, workNext) /\ workNext \in Nat \ {0} /\ workNext \notin DOMAIN work
  BY DEF TypeOK, IsTable
<1>2. work' = Move(work, s, workNext, row) /\ workNext' = workNext + 1
  BY DEF MoveRow
<1>3. /\ DOMAIN work' = (DOMAIN work \ {s}) \cup {workNext}
      /\ work'[workNext] = row
      /\ \A x \in DOMAIN work \ {s} : work'[x] = work[x]
  BY <1>1, <1>2 DEF Move, Insert, Remove
<1>4. QED
  BY <1>1, <1>2, <1>3

(* The row that redrive_candidate inserts.                                 *)
LEMMA DeadLetterNextRow ==
    ASSUME TypeOK, NEW s \in DOMAIN work, DeadLetterNext(s)
    PROVE  \E row \in Row :
             /\ MoveRow(s, row)
             /\ row = DeadLetterRow(work[s], tx.queue, tx.at)
             /\ row.id = work[s].id /\ row.total = work[s].total
             /\ row.group = work[s].group /\ row.dedup = work[s].dedup
             /\ row.queue = settings[tx.queue].policy.deadLetter
             /\ row.count = 0 /\ row.invisible = 0 /\ row.handle = NoHandle
             /\ row.origin = tx.queue
<1> DEFINE row == DeadLetterRow(work[s], tx.queue, tx.at)
<1>1. tx \in ReceiveTx /\ work[s] \in Row
  BY TxKinds DEF DeadLetterNext, TypeOK, IsTable
<1>2. settings[tx.queue].policy # NoPolicy /\ tx.at \in Nat /\ tx.queue \in Queue
  BY <1>1 DEF DeadLetterNext, Exhausted, ReceiveTx
<1>3. row \in Row
  BY <1>1, <1>2, DeadLetterRowType
<1>4. /\ row.id = work[s].id /\ row.total = work[s].total
      /\ row.group = work[s].group /\ row.dedup = work[s].dedup
      /\ row.queue = settings[tx.queue].policy.deadLetter
      /\ row.count = 0 /\ row.invisible = 0 /\ row.handle = NoHandle
      /\ row.origin = tx.queue
  BY <1>1 DEF DeadLetterRow, Row
<1>5. MoveRow(s, row)
  BY DEF DeadLetterNext
<1>6. QED
  BY <1>3, <1>4, <1>5

(* One dead-letter move: the row is none of those received                 *)
(* (redrive_candidate).                                                    *)
LEMMA DeadLetterNextType ==
    ASSUME TypeOK, NEW s \in DOMAIN work, DeadLetterNext(s)
    PROVE  TypeOK'
<1>1. /\ tx \in ReceiveTx /\ IsTable(work, workNext) /\ workNext \in Nat \ {0}
      /\ tx.received \subseteq DOMAIN work
  BY TxKinds DEF DeadLetterNext, TypeOK
<1>2. work[s] \in Row
  BY <1>1 DEF IsTable
<1>3. DeadLetterRow(work[s], tx.queue, tx.at) \in Row
  BY <1>1, <1>2, DeadLetterRowType DEF DeadLetterNext, Exhausted, ReceiveTx
<1>4. MoveRow(s, DeadLetterRow(work[s], tx.queue, tx.at))
  BY DEF DeadLetterNext
<1>5. IsTable(work', workNext') /\ workNext' \in Nat \ {0}
  BY <1>3, <1>4, MoveRowType
<1>6. s \notin tx.received
  BY <1>2 DEF DeadLetterNext, AlreadyReceived
<1>7. DOMAIN work' = (DOMAIN work \ {s}) \cup {workNext}
  BY <1>1, <1>3, <1>4, MoveIsTable DEF MoveRow
<1>8. QED
  BY <1>1, <1>5, <1>6, <1>7 DEF DeadLetterNext, TypeOK, store

(* The end of a receive and the attempt it stores (save_attempt).          *)
LEMMA CommitReceiveType ==
    ASSUME TypeOK, CommitReceive
    PROVE  TypeOK'
<1>1. /\ tx \in ReceiveTx /\ IsTable(work, workNext) /\ workNext \in Nat \ {0}
      /\ tx.received \subseteq DOMAIN work
  BY TxKinds DEF CommitReceive, TypeOK
<1>2. AttemptsFor(work, tx.queue, tx.at) \subseteq Attempt
  BY AttemptsForType
<1>3. {work[s].handle : s \in tx.received} \subseteq Nat \X Nat
  BY <1>1 DEF IsTable, Row
<1>4. SavedAttempt \subseteq Attempt
  <2>1. CASE tx.attempt # NoAttempt /\ (tx.received # {} \/ tx.cacheEmpty)
    <3>1. /\ tx.queue \in Queue /\ tx.attempt \in AttemptId /\ tx.at \in Nat
          /\ tx.fingerprint \in Fingerprint /\ tx.visibility \in Nat
      BY <1>1, <2>1 DEF ReceiveTx
    <3>2. [queue |-> tx.queue, id |-> tx.attempt, created |-> tx.at,
           fingerprint |-> tx.fingerprint, visibility |-> tx.visibility,
           members |-> {work[s].handle : s \in tx.received}, valid |-> TRUE]
          \in Attempt
      BY <1>3, <3>1 DEF Attempt
    <3>3. QED
      BY <2>1, <3>2 DEF SavedAttempt
  <2>2. CASE ~(tx.attempt # NoAttempt /\ (tx.received # {} \/ tx.cacheEmpty))
    BY <2>2 DEF SavedAttempt
  <2>3. QED
    BY <2>1, <2>2
<1>5. (attempts \subseteq Attempt)' /\ IsTable(messages', nextSequence')
      /\ nextSequence' \in Nat \ {0}
  BY <1>1, <1>2, <1>4 DEF CommitReceive
<1>6. tx'.kind = "idle" /\ IsTable(work', workNext') /\ workNext' = 1 /\ tx' = Idle
  BY EmptyIsTable DEF CommitReceive, Idle
<1>7. QED
  BY <1>5, <1>6 DEF CommitReceive, TypeOK

(* A transaction that SQLite drops.                                        *)
LEMMA RollbackType ==
    ASSUME TypeOK, Rollback
    PROVE  TypeOK'
<1>1. tx'.kind = "idle" /\ IsTable(work', workNext') /\ workNext' = 1 /\ tx' = Idle
  BY EmptyIsTable DEF Rollback, Idle
<1>2. QED
  BY <1>1 DEF Rollback, TypeOK, store

(* The start of redrive_dead_letters.                                      *)
LEMMA BeginRedriveType ==
    ASSUME TypeOK, QueueStoreAssumption, NEW dlq \in Queue, NEW source \in Queue,
           NEW max \in MoveSizes, BeginRedrive(dlq, source, max)
    PROVE  TypeOK'
<1>1. max \in Nat /\ now \in Nat /\ nextSequence \in Nat \ {0}
  BY DEF QueueStoreAssumption, TypeOK
<1>2. tx' \in RedriveTx /\ tx'.kind = "redrive"
  BY <1>1 DEF BeginRedrive, RedriveTx
<1>3. IsTable(work', workNext') /\ workNext' \in Nat \ {0}
  BY <1>1, SweptQueueType, SweepIsTable DEF BeginRedrive
<1>4. QED
  BY <1>2, <1>3 DEF BeginRedrive, TypeOK, store

(* The row that redrive_dead_letters inserts.                              *)
LEMMA RedriveNextRow ==
    ASSUME TypeOK, NEW s \in DOMAIN work, RedriveNext(s)
    PROVE  \E row \in Row :
             /\ MoveRow(s, row)
             /\ row = NewRow(workNext, tx.source, work[s].group, work[s].dedup, tx.at,
                             settings[tx.source].delay)
             /\ row.id = workNext /\ row.queue = tx.source /\ row.group = work[s].group
             /\ row.dedup = work[s].dedup
             /\ row.count = 0 /\ row.handle = NoHandle /\ row.origin = NoQueue
<1> DEFINE row == NewRow(workNext, tx.source, work[s].group, work[s].dedup, tx.at,
                         settings[tx.source].delay)
<1>1. tx \in RedriveTx /\ IsTable(work, workNext) /\ workNext \in Nat
  BY TxKinds DEF RedriveNext, TypeOK
<1>2. /\ tx.source \in Queue /\ tx.at \in Nat
      /\ settings[tx.source].delay \in Nat
      /\ work[s].group \in Group /\ work[s].dedup \in DedupId \cup {NoDedupId}
  BY <1>1 DEF RedriveTx, Row, TypeOK, Settings, IsTable
<1>3. row \in Row
  BY <1>1, <1>2, NewRowType
<1>4. /\ row.id = workNext /\ row.queue = tx.source /\ row.group = work[s].group
      /\ row.dedup = work[s].dedup
      /\ row.count = 0 /\ row.handle = NoHandle /\ row.origin = NoQueue
  BY DEF NewRow
<1>5. MoveRow(s, row)
  BY DEF RedriveNext
<1>6. QED
  BY <1>3, <1>4, <1>5

(* One move of redrive_dead_letters.                                       *)
LEMMA RedriveNextType ==
    ASSUME TypeOK, NEW s \in DOMAIN work, RedriveNext(s)
    PROVE  TypeOK'
<1>1. tx \in RedriveTx /\ IsTable(work, workNext) /\ workNext \in Nat \ {0}
  BY TxKinds DEF RedriveNext, TypeOK
<1>2. work[s] \in Row
  BY <1>1 DEF IsTable
<1>3. /\ tx.source \in Queue /\ tx.at \in Nat
      /\ settings[tx.source].delay \in Nat
      /\ work[s].group \in Group /\ work[s].dedup \in DedupId \cup {NoDedupId}
  BY <1>1, <1>2 DEF RedriveTx, Row, TypeOK, Settings
<1>4. PICK row \in Row : MoveRow(s, row)
  BY <1>1, <1>3, NewRowType DEF RedriveNext
<1>5. IsTable(work', workNext') /\ workNext' \in Nat \ {0}
  BY <1>4, MoveRowType
<1>6. tx' = [tx EXCEPT !.moved = tx.moved + 1]
  BY DEF RedriveNext
<1>7. tx' \in RedriveTx /\ tx'.kind = "redrive"
  BY <1>1, <1>6 DEF RedriveTx
<1>8. QED
  BY <1>5, <1>7 DEF RedriveNext, TypeOK, store

(* The end of redrive_dead_letters.                                        *)
LEMMA CommitRedriveType ==
    ASSUME TypeOK, CommitRedrive
    PROVE  TypeOK'
<1>1. tx'.kind = "idle" /\ IsTable(work', workNext') /\ workNext' = 1 /\ tx' = Idle
  BY EmptyIsTable DEF CommitRedrive, Idle
<1>2. attempts' \subseteq Attempt
  BY InvalidateType DEF CommitRedrive, TypeOK
<1>3. QED
  BY <1>1, <1>2 DEF CommitRedrive, TypeOK

(* A deletion (delete_message).                                            *)
LEMMA DeleteType ==
    ASSUME TypeOK, NEW s \in DOMAIN messages, Delete(s)
    PROVE  TypeOK'
<1>1. IsTable(messages', nextSequence)
  BY RemoveIsTable DEF Delete, TypeOK
<1>2. attempts' \subseteq Attempt
  BY InvalidateType DEF Delete, TypeOK
<1>3. QED
  BY <1>1, <1>2 DEF Delete, TypeOK, txVars

(* A visibility change (change_visibility).                                *)
LEMMA ChangeVisibilityType ==
    ASSUME TypeOK, NEW s \in DOMAIN messages, NEW timeout \in Nat, NEW t \in Nat,
           ChangeVisibility(s, timeout, t)
    PROVE  TypeOK'
<1>1. IsTable(messages, nextSequence) /\ t + timeout \in Nat
  BY DEF TypeOK
<1>2. [messages[s] EXCEPT !.invisible = t + timeout] \in Row
  BY <1>1 DEF IsTable, Row
<1>3. messages' = [messages EXCEPT ![s] =
                      [messages[s] EXCEPT !.invisible = t + timeout]]
  BY DEF ChangeVisibility
<1>4. IsTable(messages', nextSequence)
  BY <1>1, <1>2, <1>3 DEF IsTable
<1>5. attempts' \subseteq Attempt
  BY InvalidateType DEF ChangeVisibility, TypeOK
<1>6. QED
  BY <1>4, <1>5 DEF ChangeVisibility, TypeOK, txVars

(* A changed delay keeps the rows rows (set_queue_attributes).             *)
LEMMA RetimedIsTable ==
    ASSUME TypeOK, NEW q \in Queue, NEW delay \in Nat
    PROVE  IsTable(Retimed(q, delay), nextSequence)
<1>1. IsTable(messages, nextSequence)
  BY DEF TypeOK
<1>2. ASSUME NEW s \in DOMAIN messages
      PROVE  Retimed(q, delay)[s] \in Row
  <2>1. messages[s] \in Row /\ messages[s].created + delay \in Nat
    BY <1>1 DEF IsTable, Row
  <2>2. [messages[s] EXCEPT !.available = messages[s].created + delay] \in Row
    BY <2>1 DEF Row
  <2>3. QED
    BY <2>1, <2>2 DEF Retimed
<1>3. DOMAIN Retimed(q, delay) = DOMAIN messages
  BY DEF Retimed
<1>4. Retimed(q, delay) \in [DOMAIN messages -> Row]
  BY <1>2 DEF Retimed
<1>5. QED
  BY <1>1, <1>3, <1>4 DEF IsTable

(* An attribute change (set_queue_attributes).                             *)
LEMMA SetQueueAttributesType ==
    ASSUME TypeOK, QueueStoreAssumption, NEW q \in Queue, NEW c \in Updates[q],
           SetQueueAttributes(q, c)
    PROVE  TypeOK'
<1>1. c \in Settings /\ c.delay \in Nat
  BY DEF QueueStoreAssumption, Settings
<1>2. nextSequence \in Nat \ {0} /\ settings \in [Queue -> Settings]
  BY DEF TypeOK
<1>3. IsTable(messages', nextSequence)
  BY <1>1, <1>2, RetimedIsTable, SweepIsTable DEF SetQueueAttributes
<1>4. attempts' \subseteq Attempt
  BY InvalidateType DEF SetQueueAttributes, TypeOK
<1>5. settings' \in [Queue -> Settings]
  BY <1>1, <1>2 DEF SetQueueAttributes
<1>6. QED
  BY <1>3, <1>4, <1>5 DEF SetQueueAttributes, TypeOK, txVars

(* A purge (purge_queue).                                                  *)
LEMMA PurgeQueueType ==
    ASSUME TypeOK, NEW q \in Queue, PurgeQueue(q)
    PROVE  TypeOK'
<1>1. now \in Nat /\ attempts \in SUBSET Attempt
  BY DEF TypeOK
<1>2. IsTable(messages', nextSequence)
  BY RemoveIsTable DEF PurgeQueue, TypeOK
<1>3. Invalidate(attempts, LostHandles(messages,
          Remove(messages, RowsOf(messages, q)))) \subseteq Attempt
  BY <1>1, InvalidateType
<1>4. attempts' \subseteq Attempt
  BY <1>3 DEF PurgeQueue, Attempt
<1>5. lastPurge' \in [Queue -> Nat \cup {Never}]
  BY <1>1 DEF PurgeQueue, TypeOK
<1>6. QED
  BY <1>2, <1>4, <1>5 DEF PurgeQueue, TypeOK, txVars

(* The passage of time.                                                    *)
LEMMA TickType ==
    ASSUME TypeOK, Tick
    PROVE  TypeOK'
BY DEF Tick, TypeOK, store, txVars

(* Every step keeps the types.                                             *)
LEMMA TypeStep ==
    ASSUME TypeOK, QueueStoreAssumption, [Next]_vars
    PROVE  TypeOK'
<1>1. CASE Send
  BY <1>1, SendType DEF Send, TypeOK
<1>2. CASE StartReceive
  <2>1. ASSUME NEW q \in Queue, NEW max \in BatchSizes, NEW option \in Visibilities,
               NEW a \in AttemptId \cup {NoAttempt}, NEW cacheEmpty \in BOOLEAN,
               BeginReceive(q, max, option, a, cacheEmpty)
        PROVE  TypeOK'
    BY <2>1, BeginReceiveType
  <2>2. ASSUME NEW q \in Queue, NEW a, NEW fingerprint,
               ReplayAttempt(q, a, fingerprint)
        PROVE  TypeOK'
    BY <2>2, ReplayAttemptType
  <2>3. QED
    BY <1>2, <2>1, <2>2 DEF StartReceive
<1>3. CASE \E q \in Queue : ReceiveOverLimit(q)
  BY <1>3, ReceiveOverLimitType
<1>4. CASE RunReceive
  BY <1>4, DeliverNextType, DeadLetterNextType, CommitReceiveType DEF RunReceive
<1>5. CASE Rollback
  BY <1>5, RollbackType
<1>6. CASE Redrive
  BY <1>6, BeginRedriveType, RedriveNextType, CommitRedriveType DEF Redrive
<1>7. CASE Manage
  <2>1. now \in Nat /\ Timeouts \subseteq Nat /\ Purgeable \subseteq Queue
    BY DEF TypeOK, QueueStoreAssumption
  <2>2. QED
    BY <1>7, <2>1, DeleteType, ChangeVisibilityType, SetQueueAttributesType,
       PurgeQueueType DEF Manage
<1>8. CASE Tick
  BY <1>8, TickType
<1>9. CASE UNCHANGED vars
  BY <1>9 DEF vars, TypeOK, IsTable
<1>10. QED
  BY <1>1, <1>2, <1>3, <1>4, <1>5, <1>6, <1>7, <1>8, <1>9 DEF Next, Operation

(* The types hold of every reachable state of the message store.           *)
THEOREM TypeCorrect == Spec => []TypeOK
<1>1. Init => TypeOK
  BY EmptyIsTable, QueueStoreAssumption
     DEF Init, TypeOK, Idle, Never, QueueStoreAssumption
<1>2. TypeOK /\ [Next]_vars => TypeOK'
  BY TypeStep, QueueStoreAssumption
<1>3. QED
  BY <1>1, <1>2, PTL DEF Spec
-----------------------------------------------------------------------------
\* The rows of both tables are in the same queue with the same handle.
SameDeliveries(before, after) ==
    \A s \in DOMAIN before \cap DOMAIN after :
        /\ after[s].handle = before[s].handle
        /\ after[s].queue = before[s].queue
-----------------------------------------------------------------------------
(* What the operators on tables do to the handles.                         *)

(* A sweep hands nothing out (expire_messages).                            *)
LEMMA SweepHandles ==
    ASSUME NEW table, HandlesNameDeliveries(table), NEW q, NEW retention, NEW t
    PROVE  /\ HandlesNameDeliveries(Sweep(table, q, retention, t))
           /\ SameDeliveries(table, Sweep(table, q, retention, t))
BY DEF Sweep, HandlesNameDeliveries, SameDeliveries

(* A deletion hands nothing out.                                           *)
LEMMA RemoveHandles ==
    ASSUME NEW table, HandlesNameDeliveries(table), NEW rows
    PROVE  /\ HandlesNameDeliveries(Remove(table, rows))
           /\ SameDeliveries(table, Remove(table, rows))
BY DEF Remove, HandlesNameDeliveries, SameDeliveries

(* A new row has not been delivered (insert_message, move_message).        *)
LEMMA InsertHandles ==
    ASSUME NEW table, HandlesNameDeliveries(table), NEW next,
           NEW row, row.count = 0, row.handle = NoHandle
    PROVE  /\ HandlesNameDeliveries(Insert(table, next, row))
           /\ next \notin DOMAIN table =>
                SameDeliveries(table, Insert(table, next, row))
BY DEF Insert, HandlesNameDeliveries, SameDeliveries

(* A moved row loses its handle with its receive count (move_message).     *)
LEMMA MoveRowHandles ==
    ASSUME HandlesNameDeliveries(work), NEW s,
           NEW row, row.count = 0, row.handle = NoHandle, MoveRow(s, row)
    PROVE  HandlesNameDeliveries(work')
<1>1. HandlesNameDeliveries(Remove(work, {s}))
  BY RemoveHandles
<1>2. HandlesNameDeliveries(Insert(Remove(work, {s}), workNext, row))
  BY <1>1, InsertHandles
<1>3. QED
  BY <1>2 DEF MoveRow, Move

(* Where two tables have the same deliveries no row was handed out.        *)
LEMMA NothingDelivered ==
    ASSUME SameDeliveries(messages, messages')
    PROVE  Delivered = {}
BY DEF SameDeliveries, Delivered
-----------------------------------------------------------------------------
(* TransactionInv is inductive.                                            *)

(* An operation outside transactions has only the committed rows to care   *)
(* for.                                                                    *)
LEMMA IdleStep ==
    ASSUME TransactionInv, tx = Idle, UNCHANGED txVars, TypeOK',
           HandlesNameDeliveries(messages')
    PROVE  TransactionInv'
<1>1. tx' = Idle /\ tx'.kind = "idle"
  BY DEF txVars, Idle
<1>2. HandlesNameDeliveries(work)'
  BY DEF txVars, TransactionInv, HandlesNameDeliveries
<1>3. HandlesNameDeliveries(messages)'
  BY DEF HandlesNameDeliveries
<1>4. QED
  BY <1>1, <1>2, <1>3 DEF TransactionInv

(* A finished transaction leaves its variables empty.                      *)
LEMMA FinishedStep ==
    ASSUME tx' = Idle, work' = EmptyTable, TypeOK', HandlesNameDeliveries(messages')
    PROVE  TransactionInv'
<1>1. tx' = Idle /\ tx'.kind = "idle"
  BY DEF Idle
<1>2. HandlesNameDeliveries(work)'
  BY EmptyIsTable DEF HandlesNameDeliveries
<1>3. HandlesNameDeliveries(messages)'
  BY DEF HandlesNameDeliveries
<1>4. QED
  BY <1>1, <1>2, <1>3 DEF TransactionInv

(* The operations that neither start nor end a transaction (sends, replays,*)
(* receives over the limit, deletions, visibility changes, attribute       *)
(* changes and purges) hand nothing out.                                   *)
LEMMA SendQuiet ==
    ASSUME TransactionInv, NEW q, NEW t, SendTo(q, t)
    PROVE  /\ tx = Idle /\ UNCHANGED txVars
           /\ HandlesNameDeliveries(messages')
           /\ SameDeliveries(messages, messages')
<1>1. HandlesNameDeliveries(SweptQueue(q, t)) /\ SameDeliveries(messages, SweptQueue(q, t))
  BY SweepHandles DEF TransactionInv, SweptQueue
<1>2. DOMAIN SweptQueue(q, t) \subseteq DOMAIN messages
  BY DEF SweptQueue, Sweep
<1>3. nextSequence \notin DOMAIN messages
  BY DEF TransactionInv, TypeOK, IsTable
<1>4. ASSUME NEW g, NEW d, NEW delay, Enqueue(q, g, d, delay, t)
      PROVE  /\ HandlesNameDeliveries(messages')
             /\ SameDeliveries(messages, messages')
  <2> DEFINE row == NewRow(nextSequence, q, g, d, t, delay)
  <2>1. row.count = 0 /\ row.handle = NoHandle
    BY DEF NewRow
  <2>2. messages' = Insert(SweptQueue(q, t), nextSequence, row)
    BY <1>4 DEF Enqueue
  <2> HIDE DEF row
  <2>3. /\ HandlesNameDeliveries(messages')
        /\ SameDeliveries(SweptQueue(q, t), messages')
    BY <1>1, <1>2, <1>3, <2>1, <2>2, InsertHandles
  <2>4. DOMAIN messages' = DOMAIN SweptQueue(q, t) \cup {nextSequence}
    BY <2>2 DEF Insert
  <2>5. QED
    BY <1>1, <1>2, <1>3, <2>3, <2>4 DEF SameDeliveries
<1>5. ASSUME NEW g, NEW delay, SendStandard(q, g, delay, t)
      PROVE  /\ tx = Idle /\ UNCHANGED txVars
             /\ HandlesNameDeliveries(messages')
             /\ SameDeliveries(messages, messages')
  BY <1>4, <1>5 DEF SendStandard
<1>6. ASSUME NEW g, NEW d, SendFifo(q, g, d, t) \/ SendDuplicate(q, g, d, t)
      PROVE  /\ tx = Idle /\ UNCHANGED txVars
             /\ HandlesNameDeliveries(messages')
             /\ SameDeliveries(messages, messages')
  BY <1>1, <1>4, <1>6 DEF SendFifo, SendDuplicate
<1>7. QED
  BY <1>5, <1>6 DEF SendTo

(* A replay renews leases under the old handles.                           *)
LEMMA ReceiveQuiet ==
    ASSUME TransactionInv, NEW q, NEW a, NEW fingerprint,
           ReplayAttempt(q, a, fingerprint) \/ ReceiveOverLimit(q)
    PROVE  /\ tx = Idle /\ UNCHANGED txVars
           /\ HandlesNameDeliveries(messages')
           /\ SameDeliveries(messages, messages')
<1>1. HandlesNameDeliveries(SweptQueue(q, now)) /\ SameDeliveries(messages, SweptQueue(q, now))
  BY SweepHandles DEF TransactionInv, SweptQueue
<1>2. CASE ReceiveOverLimit(q)
  BY <1>1, <1>2 DEF ReceiveOverLimit
<1>3. CASE ReplayAttempt(q, a, fingerprint)
  <2>1. PICK r :
          messages' = [s \in DOMAIN SweptQueue(q, now) |->
              IF s \in {x \in RowsOf(SweptQueue(q, now), q) :
                          SweptQueue(q, now)[x].handle \in r.members}
              THEN [SweptQueue(q, now)[s] EXCEPT !.invisible = now + r.visibility]
              ELSE SweptQueue(q, now)[s]]
    BY <1>3 DEF ReplayAttempt
  <2>2. DOMAIN messages' = DOMAIN SweptQueue(q, now)
    BY <2>1
  <2>3. ASSUME NEW s \in DOMAIN SweptQueue(q, now)
        PROVE  /\ messages'[s].handle = SweptQueue(q, now)[s].handle
               /\ messages'[s].count = SweptQueue(q, now)[s].count
               /\ messages'[s].queue = SweptQueue(q, now)[s].queue
    <3>1. messages'[s] \in {SweptQueue(q, now)[s],
                            [SweptQueue(q, now)[s] EXCEPT !.invisible = now + r.visibility]}
      BY <2>1
    <3>2. SweptQueue(q, now)[s] \in Row
      <4>1. SweptQueue(q, now)[s] = messages[s] /\ s \in DOMAIN messages
        BY DEF SweptQueue, Sweep
      <4>2. QED
        BY <4>1 DEF TransactionInv, TypeOK, IsTable
    <3>3. QED
      BY <3>1, <3>2 DEF Row
  <2>4. QED
    BY <1>1, <1>3, <2>2, <2>3 DEF ReplayAttempt, HandlesNameDeliveries, SameDeliveries
<1>4. QED
  BY <1>2, <1>3

(* No management operation hands a message out.                            *)
LEMMA ManageQuiet ==
    ASSUME TransactionInv, Manage
    PROVE  /\ tx = Idle /\ UNCHANGED txVars
           /\ HandlesNameDeliveries(messages')
           /\ SameDeliveries(messages, messages')
<1>1. ASSUME NEW s, Delete(s)
      PROVE  /\ tx = Idle /\ UNCHANGED txVars
             /\ HandlesNameDeliveries(messages')
             /\ SameDeliveries(messages, messages')
  BY <1>1, RemoveHandles DEF Delete, TransactionInv
<1>2. ASSUME NEW s, NEW timeout, ChangeVisibility(s, timeout, now)
      PROVE  /\ tx = Idle /\ UNCHANGED txVars
             /\ HandlesNameDeliveries(messages')
             /\ SameDeliveries(messages, messages')
  <2>1. messages \in [DOMAIN messages -> Row]
    BY DEF TransactionInv, TypeOK, IsTable
  <2>2. messages' = [messages EXCEPT ![s].invisible = now + timeout]
    BY <1>2 DEF ChangeVisibility
  <2>3. DOMAIN messages' = DOMAIN messages
    BY <2>2
  <2>4. ASSUME NEW x \in DOMAIN messages
        PROVE  /\ messages'[x].handle = messages[x].handle
               /\ messages'[x].count = messages[x].count
               /\ messages'[x].queue = messages[x].queue
    BY <2>1, <2>2 DEF Row
  <2>5. QED
    BY <1>2, <2>3, <2>4
       DEF ChangeVisibility, TransactionInv, HandlesNameDeliveries, SameDeliveries
<1>3. ASSUME NEW q, NEW c, SetQueueAttributes(q, c)
      PROVE  /\ tx = Idle /\ UNCHANGED txVars
             /\ HandlesNameDeliveries(messages')
             /\ SameDeliveries(messages, messages')
  <2> DEFINE retimed == Retimed(q, c.delay)
  <2>1. messages \in [DOMAIN messages -> Row]
    BY DEF TransactionInv, TypeOK, IsTable
  <2>2. DOMAIN retimed = DOMAIN messages
    BY DEF Retimed
  <2>3. ASSUME NEW x \in DOMAIN messages
        PROVE  /\ retimed[x].handle = messages[x].handle
               /\ retimed[x].count = messages[x].count
               /\ retimed[x].queue = messages[x].queue
    BY <2>1 DEF Row, Retimed
  <2>4. messages' = Sweep(retimed, q, c.retention, now)
    BY <1>3 DEF SetQueueAttributes
  <2> HIDE DEF retimed
  <2>5. HandlesNameDeliveries(retimed) /\ SameDeliveries(messages, retimed)
    BY <2>2, <2>3 DEF TransactionInv, HandlesNameDeliveries, SameDeliveries
  <2>6. HandlesNameDeliveries(messages') /\ SameDeliveries(retimed, messages')
    BY <2>4, <2>5, SweepHandles
  <2>7. DOMAIN messages' \subseteq DOMAIN retimed
    BY <2>4 DEF Sweep
  <2>8. SameDeliveries(messages, messages')
    BY <2>2, <2>5, <2>6, <2>7 DEF SameDeliveries
  <2>9. QED
    BY <1>3, <2>6, <2>8 DEF SetQueueAttributes
<1>4. ASSUME NEW q, PurgeQueue(q)
      PROVE  /\ tx = Idle /\ UNCHANGED txVars
             /\ HandlesNameDeliveries(messages')
             /\ SameDeliveries(messages, messages')
  BY <1>4, RemoveHandles DEF PurgeQueue, TransactionInv
<1>5. QED
  BY <1>1, <1>2, <1>3, <1>4 DEF Manage

(* A transaction starts from the committed rows that its sweeps leave.     *)
LEMMA BeginReceiveTransaction ==
    ASSUME TransactionInv, QueueStoreAssumption, NEW q \in Queue,
           NEW max \in BatchSizes, NEW option \in Visibilities,
           NEW a \in AttemptId \cup {NoAttempt}, NEW cacheEmpty \in BOOLEAN,
           BeginReceive(q, max, option, a, cacheEmpty)
    PROVE  TransactionInv'
<1>1. TypeOK'
  BY BeginReceiveType DEF TransactionInv
<1>2. HandlesNameDeliveries(work') /\ HandlesNameDeliveries(messages')
  BY SweepHandles DEF BeginReceive, TransactionInv, SweptQueue, store
<1>3. tx'.received = {} /\ tx'.kind = "receive"
  BY DEF BeginReceive
<1>4. (nextSequence <= workNext)'
  BY DEF BeginReceive, store, TransactionInv, TypeOK
<1>5. UntouchedRows'
  BY DEF BeginReceive, store, UntouchedRows, SweptQueue, Sweep
<1>6. QED
  BY <1>1, <1>2, <1>3, <1>4, <1>5
     DEF TransactionInv, ReceivedRows, HandlesNameDeliveries

(* So does a redrive, with the sweeps of both queues.                      *)
LEMMA BeginRedriveTransaction ==
    ASSUME TransactionInv, QueueStoreAssumption, NEW dlq \in Queue,
           NEW source \in Queue, NEW max \in MoveSizes,
           BeginRedrive(dlq, source, max)
    PROVE  TransactionInv'
<1>1. TypeOK'
  BY BeginRedriveType DEF TransactionInv
<1>2. HandlesNameDeliveries(work') /\ HandlesNameDeliveries(messages')
  BY SweepHandles DEF BeginRedrive, TransactionInv, SweptQueue, store
<1>3. tx'.kind = "redrive"
  BY DEF BeginRedrive
<1>4. (nextSequence <= workNext)'
  BY DEF BeginRedrive, store, TransactionInv, TypeOK
<1>5. UntouchedRows'
  BY DEF BeginRedrive, store, UntouchedRows, SweptQueue, Sweep
<1>6. QED
  BY <1>1, <1>2, <1>3, <1>4, <1>5 DEF TransactionInv, HandlesNameDeliveries

(* A delivery: the row was untouched, and on a FIFO queue everything ahead *)
(* of it has been received (next_receivable, deliver_candidate).           *)
LEMMA DeliverNextTransaction ==
    ASSUME TransactionInv, NEW s \in DOMAIN work, DeliverNext(s)
    PROVE  TransactionInv'
<1>1. TypeOK'
  BY DeliverNextType DEF TransactionInv
<1>2. /\ tx \in ReceiveTx /\ IsTable(work, workNext) /\ workNext \in Nat
      /\ tx.kind = "receive" /\ tx # Idle
  BY TxKinds DEF DeliverNext, TransactionInv, TypeOK, Idle
<1>3. s \in Nat \ {0} /\ work[s] \in Row
  BY <1>2 DEF IsTable
<1>4. DEFINE row == DeliveredRow(work[s], s, tx.at, tx.visibility)
<1>5. /\ row.handle = <<s, work[s].count + 1>> /\ row.count = work[s].count + 1
      /\ row.queue = work[s].queue /\ row.group = work[s].group
      /\ work[s].count \in Nat
  BY <1>3 DEF DeliveredRow, Row
<1>6. /\ DOMAIN work' = DOMAIN work /\ work'[s] = row
      /\ \A x \in DOMAIN work \ {s} : work'[x] = work[x]
  BY <1>2 DEF DeliverNext, IsTable
<1>7. HIDE DEF row
<1>8. /\ tx'.received = tx.received \cup {s}
      /\ tx'.kind = tx.kind /\ tx'.queue = tx.queue
  BY <1>2 DEF DeliverNext, ReceiveTx
<1>9. s \in Candidates /\ s \notin tx.received
  BY <1>3 DEF DeliverNext, IsNext, AlreadyReceived
<1>10. work[s].queue = tx.queue
  BY <1>9 DEF Candidates, Receivable, RowsOf
<1>11. tx.queue \in Fifo => Ahead(work, s) \subseteq tx.received
  BY <1>9 DEF Candidates, Receivable
<1>12. \A x \in DOMAIN work : /\ work'[x].queue = work[x].queue
                              /\ work'[x].group = work[x].group
  BY <1>5, <1>6
<1>13. \A x \in DOMAIN work : Ahead(work', x) = Ahead(work, x)
  BY <1>6, <1>12 DEF Ahead
<1>14. HandlesNameDeliveries(work')
  BY <1>5, <1>6 DEF TransactionInv, HandlesNameDeliveries
<1>15. UNCHANGED <<messages, nextSequence, workNext>>
  BY DEF DeliverNext, store
<1>16. nextSequence <= workNext /\ UntouchedRows /\ ReceivedRows
  BY <1>2 DEF TransactionInv
<1>17. UntouchedRows'
  BY <1>2, <1>6, <1>8, <1>12, <1>15, <1>16 DEF UntouchedRows
<1>18. ASSUME NEW x \in tx.received \cup {s}
       PROVE  /\ work'[x].queue = tx.queue
              /\ work'[x].count > 0
              /\ x < nextSequence => work'[x].count = messages[x].count + 1
              /\ tx.queue \in Fifo => Ahead(work', x) \subseteq tx.received \cup {s}
  <2>1. CASE x = s
    <3>1. s < nextSequence => work[s] = messages[s]
      BY <1>9, <1>16 DEF UntouchedRows
    <3>2. QED
      BY <1>5, <1>6, <1>10, <1>11, <1>13, <2>1, <3>1
  <2>2. CASE x # s
    <3>1. x \in tx.received /\ x \in DOMAIN work
      BY <2>2 DEF TransactionInv, TypeOK, DeliverNext
    <3>2. QED
      BY <1>6, <1>13, <1>16, <2>2, <3>1 DEF ReceivedRows
  <2>3. QED
    BY <2>1, <2>2
<1>19. ReceivedRows'
  BY <1>8, <1>15, <1>18 DEF ReceivedRows
<1>20. HandlesNameDeliveries(messages')
  BY <1>15 DEF TransactionInv
<1>21. QED
  BY <1>1, <1>14, <1>15, <1>16, <1>17, <1>19, <1>20
     DEF TransactionInv, HandlesNameDeliveries

(* A moved row reappears behind all others, so it is ahead of none.        *)
LEMMA MoveRowTransaction ==
    ASSUME TransactionInv, tx # Idle, NEW s \in DOMAIN work, NEW row \in Row,
           row.count = 0, row.handle = NoHandle, MoveRow(s, row),
           UNCHANGED <<messages, nextSequence>>
    PROVE  /\ HandlesNameDeliveries(work')
           /\ (nextSequence <= workNext)'
           /\ \A x \in DOMAIN work' : x < nextSequence =>
                x \in DOMAIN work \ {s} /\ work'[x] = work[x]
           /\ \A x \in DOMAIN work \ {s} :
                /\ x \in DOMAIN work'
                /\ work'[x] = work[x]
                /\ Ahead(work', x) \subseteq Ahead(work, x)
<1>1. /\ IsTable(work, workNext) /\ workNext \in Nat \ {0}
      /\ nextSequence \in Nat /\ nextSequence <= workNext
  BY DEF TransactionInv, TypeOK
<1>2. HandlesNameDeliveries(work')
  BY MoveRowHandles DEF TransactionInv
<1>3. work' = Move(work, s, workNext, row) /\ workNext' = workNext + 1
  BY DEF MoveRow
<1>4. /\ DOMAIN work' = (DOMAIN work \ {s}) \cup {workNext}
      /\ \A x \in DOMAIN work \ {s} : work'[x] = work[x]
  <2>1. IsTable(work, workNext) /\ workNext \in Nat \ {0}
    BY <1>1
  <2>2. /\ IsTable(Move(work, s, workNext, row), workNext + 1)
        /\ DOMAIN Move(work, s, workNext, row) = (DOMAIN work \ {s}) \cup {workNext}
        /\ Move(work, s, workNext, row)[workNext] = row
        /\ \A x \in DOMAIN work \ {s} :
             Move(work, s, workNext, row)[x] = work[x]
    BY ONLY s \in DOMAIN work, row \in Row, <2>1, MoveIsTable
  <2>3. QED
    BY <1>3, <2>2
<1>5. \A x \in DOMAIN work : x \in Nat /\ x < workNext
  BY <1>1 DEF IsTable
<1>6. \A x \in DOMAIN work \ {s} : Ahead(work', x) \subseteq Ahead(work, x)
  BY <1>1, <1>4, <1>5 DEF Ahead
<1>7. QED
  BY <1>1, <1>2, <1>3, <1>4, <1>5, <1>6

(* A dead-lettered row has not been received by this call.                 *)
LEMMA DeadLetterNextTransaction ==
    ASSUME TransactionInv, NEW s \in DOMAIN work, DeadLetterNext(s)
    PROVE  TransactionInv'
<1>1. TypeOK'
  BY DeadLetterNextType DEF TransactionInv
<1>2. /\ tx \in ReceiveTx /\ tx.kind = "receive" /\ tx # Idle
      /\ IsTable(work, workNext) /\ tx.received \subseteq DOMAIN work
      /\ UNCHANGED <<messages, nextSequence, tx>>
  BY TxKinds DEF DeadLetterNext, TransactionInv, TypeOK, Idle, store
<1>3. work[s] \in Row
  BY <1>2 DEF IsTable
<1>4. DEFINE row == DeadLetterRow(work[s], tx.queue, tx.at)
<1>5. row \in Row
  BY <1>2, <1>3, DeadLetterRowType
     DEF DeadLetterNext, Exhausted, ReceiveTx, TransactionInv
<1>6. row.count = 0 /\ row.handle = NoHandle
  BY <1>3 DEF DeadLetterRow, Row
<1>7. MoveRow(s, row)
  BY DEF DeadLetterNext
<1>8. HIDE DEF row
<1>9. /\ HandlesNameDeliveries(work')
      /\ (nextSequence <= workNext)'
      /\ \A x \in DOMAIN work' : x < nextSequence =>
           x \in DOMAIN work \ {s} /\ work'[x] = work[x]
      /\ \A x \in DOMAIN work \ {s} :
           /\ x \in DOMAIN work'
           /\ work'[x] = work[x]
           /\ Ahead(work', x) \subseteq Ahead(work, x)
  BY <1>2, <1>5, <1>6, <1>7, MoveRowTransaction
<1>10. s \notin tx.received
  BY <1>3 DEF DeadLetterNext, AlreadyReceived
<1>11. UntouchedRows /\ ReceivedRows /\ HandlesNameDeliveries(messages)
  BY <1>2 DEF TransactionInv
<1>12. UntouchedRows'
  BY <1>2, <1>9, <1>11 DEF UntouchedRows
<1>13. \A x \in tx.received : x \in DOMAIN work \ {s}
  BY <1>2, <1>10
<1>14. ReceivedRows'
  BY <1>2, <1>9, <1>11, <1>13 DEF ReceivedRows
<1>15. QED
  BY <1>1, <1>2, <1>9, <1>11, <1>12, <1>14 DEF TransactionInv, HandlesNameDeliveries

(* A redriven row is a new one.                                            *)
LEMMA RedriveNextTransaction ==
    ASSUME TransactionInv, NEW s \in DOMAIN work, RedriveNext(s)
    PROVE  TransactionInv'
<1>1. TypeOK'
  BY RedriveNextType DEF TransactionInv
<1>2. /\ tx \in RedriveTx /\ tx.kind = "redrive" /\ tx # Idle
      /\ IsTable(work, workNext) /\ workNext \in Nat
      /\ UNCHANGED <<messages, nextSequence>>
  BY TxKinds DEF RedriveNext, TransactionInv, TypeOK, Idle, store
<1>3. tx'.kind = "redrive"
  BY <1>2 DEF RedriveNext, RedriveTx
<1>4. DEFINE row == NewRow(workNext, tx.source, work[s].group, work[s].dedup, tx.at,
                           settings[tx.source].delay)
<1>5. /\ tx.source \in Queue /\ tx.at \in Nat
      /\ settings[tx.source].delay \in Nat
      /\ work[s].group \in Group /\ work[s].dedup \in DedupId \cup {NoDedupId}
  BY <1>2 DEF RedriveTx, Row, TransactionInv, TypeOK, Settings, IsTable
<1>6. row \in Row
  BY <1>2, <1>5, NewRowType
<1>7. row.count = 0 /\ row.handle = NoHandle
  BY DEF NewRow
<1>8. MoveRow(s, row)
  BY DEF RedriveNext
<1>9. HIDE DEF row
<1>10. /\ HandlesNameDeliveries(work')
       /\ (nextSequence <= workNext)'
       /\ \A x \in DOMAIN work' : x < nextSequence =>
            x \in DOMAIN work \ {s} /\ work'[x] = work[x]
  BY <1>2, <1>6, <1>7, <1>8, MoveRowTransaction
<1>11. UntouchedRows /\ HandlesNameDeliveries(messages)
  BY <1>2 DEF TransactionInv
<1>12. UntouchedRows'
  BY <1>2, <1>3, <1>10, <1>11 DEF UntouchedRows
<1>13. QED
  BY <1>1, <1>2, <1>3, <1>10, <1>11, <1>12 DEF TransactionInv, HandlesNameDeliveries

(* Every step keeps the invariant.                                         *)
LEMMA TransactionStep ==
    ASSUME TransactionInv, QueueStoreAssumption, [Next]_vars
    PROVE  TransactionInv'
<1>1. TypeOK'
  BY TypeStep DEF TransactionInv
<1>2. CASE Send
  BY <1>1, <1>2, SendQuiet, IdleStep DEF Send
<1>3. CASE StartReceive
  <2>1. ASSUME NEW q \in Queue, NEW max \in BatchSizes, NEW option \in Visibilities,
               NEW a \in AttemptId \cup {NoAttempt}, NEW cacheEmpty \in BOOLEAN,
               BeginReceive(q, max, option, a, cacheEmpty)
        PROVE  TransactionInv'
    BY <2>1, BeginReceiveTransaction
  <2>2. ASSUME NEW q, NEW a, NEW fingerprint, ReplayAttempt(q, a, fingerprint)
        PROVE  TransactionInv'
    BY <1>1, <2>2, ReceiveQuiet, IdleStep
  <2>3. QED
    BY <1>3, <2>1, <2>2 DEF StartReceive
<1>4. CASE \E q \in Queue : ReceiveOverLimit(q)
  BY <1>1, <1>4, ReceiveQuiet, IdleStep
<1>5. CASE RunReceive
  <2>1. CASE CommitReceive
    BY <1>1, <2>1, FinishedStep DEF CommitReceive, TransactionInv
  <2>2. QED
    BY <1>5, <2>1, DeliverNextTransaction, DeadLetterNextTransaction DEF RunReceive
<1>6. CASE Rollback
  BY <1>1, <1>6, FinishedStep DEF Rollback, TransactionInv, store
<1>7. CASE Redrive
  <2>1. CASE CommitRedrive
    BY <1>1, <2>1, FinishedStep DEF CommitRedrive, TransactionInv
  <2>2. QED
    BY <1>7, <2>1, BeginRedriveTransaction, RedriveNextTransaction DEF Redrive
<1>8. CASE Manage
  BY <1>1, <1>8, ManageQuiet, IdleStep
<1>9. CASE Tick \/ UNCHANGED vars
  <2>1. UNCHANGED <<store, txVars>>
    BY <1>9 DEF Tick, vars, store, txVars
  <2>2. QED
    BY <1>1, <2>1
       DEF TransactionInv, store, txVars, HandlesNameDeliveries, UntouchedRows,
           ReceivedRows, Ahead
<1>10. QED
  BY <1>2, <1>3, <1>4, <1>5, <1>6, <1>7, <1>8, <1>9 DEF Next, Operation

(* A running transaction has its own deliveries and moves, and otherwise   *)
(* the committed rows (TransactionInv).                                    *)
THEOREM TransactionCorrect == Spec => []TransactionInv
<1>1. Init => TransactionInv
  <2>1. ASSUME Init PROVE TypeOK
    BY <2>1, EmptyIsTable, QueueStoreAssumption
       DEF Init, TypeOK, Idle, Never, QueueStoreAssumption
  <2>2. QED
    BY <2>1, EmptyIsTable DEF Init, TransactionInv, HandlesNameDeliveries, Idle
<1>2. TransactionInv /\ [Next]_vars => TransactionInv'
  BY TransactionStep, QueueStoreAssumption
<1>3. QED
  BY <1>1, <1>2, PTL DEF Spec

(* A receive never meets a row that it has inserted itself.                *)
LEMMA MovesLeaveQueueStep ==
    ASSUME TransactionInv, MovesLeaveQueue, QueueStoreAssumption, [Next]_vars
    PROVE  MovesLeaveQueue'
<1>1. /\ TypeOK /\ IsTable(messages, nextSequence) /\ IsTable(work, workNext)
      /\ nextSequence \in Nat /\ workNext \in Nat
      /\ tx \in {Idle} \cup ReceiveTx \cup RedriveTx
      /\ settings \in [Queue -> Settings]
  BY DEF TransactionInv, TypeOK
<1>2. ASSUME UNCHANGED settings, tx'.kind # "receive"
      PROVE  MovesLeaveQueue'
  BY <1>2 DEF MovesLeaveQueue
<1>3. CASE Send
  BY <1>1, <1>3, <1>2 DEF Send, SendTo, SendStandard, SendFifo, SendDuplicate, txVars, Idle
<1>4. ASSUME NEW q \in Queue, NEW max, NEW option, NEW a, NEW cacheEmpty,
             BeginReceive(q, max, option, a, cacheEmpty)
      PROVE  MovesLeaveQueue'
  <2>1. DOMAIN work' \subseteq DOMAIN messages /\ UNCHANGED <<settings, nextSequence>>
    BY <1>4 DEF BeginReceive, SweptQueue, Sweep, store
  <2>2. \A s \in DOMAIN work' : ~(s >= nextSequence)
    BY <1>1, <2>1 DEF IsTable
  <2>3. QED
    BY <2>1, <2>2 DEF MovesLeaveQueue
<1>5. CASE \E q \in Queue : ReceiveOverLimit(q)
  BY <1>2, <1>5 DEF ReceiveOverLimit, txVars, Idle
<1>6. ASSUME NEW q \in Queue, NEW a, NEW f, ReplayAttempt(q, a, f)
      PROVE  MovesLeaveQueue'
  BY <1>2, <1>6 DEF ReplayAttempt, txVars, Idle
<1>7. ASSUME NEW s \in DOMAIN work, DeliverNext(s)
      PROVE  MovesLeaveQueue'
  <2>1. /\ DOMAIN work' = DOMAIN work /\ UNCHANGED <<settings, nextSequence>>
        /\ \A x \in DOMAIN work : work'[x].queue = work[x].queue
        /\ tx'.queue = tx.queue /\ tx'.kind = tx.kind
    <3>1. tx \in ReceiveTx /\ work[s] \in Row
      BY <1>1, <1>7, TxKinds DEF DeliverNext, IsTable, Idle
    <3>2. DeliveredRow(work[s], s, tx.at, tx.visibility).queue = work[s].queue
      BY <3>1 DEF DeliveredRow, Row
    <3>3. QED
      BY <1>7, <3>1, <3>2 DEF DeliverNext, store, ReceiveTx
  <2>2. QED
    BY <2>1 DEF MovesLeaveQueue
<1>8. ASSUME NEW s \in DOMAIN work, DeadLetterNext(s)
      PROVE  MovesLeaveQueue'
  <2>1. /\ tx \in ReceiveTx /\ tx.kind = "receive" /\ tx.queue \in Queue
        /\ work[s] \in Row
        /\ UNCHANGED <<settings, nextSequence, tx>>
    BY <1>1, <1>8, TxKinds DEF DeadLetterNext, store, IsTable, Idle, ReceiveTx
  <2>2. DEFINE row == DeadLetterRow(work[s], tx.queue, tx.at)
  <2>3. row.queue = settings[tx.queue].policy.deadLetter
    BY <2>1 DEF DeadLetterRow, Row
  <2>4. settings[tx.queue].policy.deadLetter # tx.queue
    BY <1>8, <2>1 DEF DeadLetterNext, Exhausted, MovesLeaveQueue, PolicyAllowed
  <2>5. work' = Insert(Remove(work, {s}), workNext, row)
    BY <1>8 DEF DeadLetterNext, MoveRow, Move
  <2>6. \A x \in DOMAIN work' :
          \/ x \in DOMAIN work /\ work'[x] = work[x]
          \/ work'[x] = row
    BY <2>5 DEF Insert, Remove
  <2>7. QED
    BY <2>1, <2>3, <2>4, <2>6 DEF MovesLeaveQueue
<1>9. CASE CommitReceive \/ Rollback \/ CommitRedrive
  BY <1>2, <1>9 DEF CommitReceive, Rollback, CommitRedrive, store, Idle
<1>10. ASSUME NEW dlq, NEW source, NEW max, BeginRedrive(dlq, source, max)
       PROVE  MovesLeaveQueue'
  BY <1>2, <1>10 DEF BeginRedrive, store
<1>11. ASSUME NEW s \in DOMAIN work, RedriveNext(s)
       PROVE  MovesLeaveQueue'
  <2>1. tx \in RedriveTx
    BY <1>1, <1>11, TxKinds DEF RedriveNext, Idle
  <2>2. tx'.kind = "redrive"
    BY <1>11, <2>1 DEF RedriveNext, RedriveTx
  <2>3. QED
    BY <1>2, <1>11, <2>2 DEF RedriveNext, store
<1>12. CASE Manage
  <2>1. ASSUME NEW q \in Queue, NEW c \in Updates[q], SetQueueAttributes(q, c)
        PROVE  MovesLeaveQueue'
    <3>1. settings' = [settings EXCEPT ![q] = c] /\ PolicyAllowed(q, c.policy)
          /\ tx'.kind = "idle"
      BY <2>1 DEF SetQueueAttributes, txVars, Idle
    <3>2. \A p \in Queue : PolicyAllowed(p, settings'[p].policy)
      BY <1>1, <3>1 DEF MovesLeaveQueue
    <3>3. QED
      BY <3>1, <3>2 DEF MovesLeaveQueue
  <2>2. ASSUME NEW s, NEW timeout, Delete(s) \/ ChangeVisibility(s, timeout, now)
        PROVE  MovesLeaveQueue'
    BY <1>2, <2>2 DEF Delete, ChangeVisibility, txVars, Idle
  <2>3. ASSUME NEW q, PurgeQueue(q)
        PROVE  MovesLeaveQueue'
    BY <1>2, <2>3 DEF PurgeQueue, txVars, Idle
  <2>4. QED
    BY <1>12, <2>1, <2>2, <2>3 DEF Manage
<1>13. CASE Tick \/ UNCHANGED vars
  BY <1>13 DEF Tick, vars, store, txVars, MovesLeaveQueue
<1>14. QED
  BY <1>3, <1>4, <1>5, <1>6, <1>7, <1>8, <1>9, <1>10, <1>11, <1>12, <1>13
     DEF Next, Operation, StartReceive, RunReceive, Redrive

(* What a receive inserts is never in the queue it reads (redrive_candidate*)
(* and the check of write_redrive_policy).                                 *)
LEMMA MovesAlwaysLeave == Spec => []MovesLeaveQueue
<1>1. Init => MovesLeaveQueue
  BY QueueStoreAssumption DEF Init, MovesLeaveQueue, QueueStoreAssumption, Idle
<1>2. TransactionInv /\ MovesLeaveQueue /\ [Next]_vars => MovesLeaveQueue'
  BY MovesLeaveQueueStep, QueueStoreAssumption
<1>3. QED
  BY <1>1, <1>2, TransactionCorrect, PTL DEF Spec
-----------------------------------------------------------------------------
(* What the commits hand out.                                              *)

(* The commit of a receive hands out the rows it received and no others.   *)
LEMMA CommitReceiveDelivers ==
    ASSUME TransactionInv, CommitReceive
    PROVE  /\ Delivered = {s \in DOMAIN messages : s \in tx.received}
           /\ \A s \in tx.received : s < nextSequence => s \in Delivered
<1>1. /\ tx \in ReceiveTx /\ tx.kind = "receive" /\ tx # Idle
      /\ IsTable(work, workNext) /\ IsTable(messages, nextSequence)
      /\ tx.received \subseteq DOMAIN work /\ nextSequence \in Nat
      /\ UntouchedRows /\ ReceivedRows
      /\ HandlesNameDeliveries(messages) /\ HandlesNameDeliveries(work)
      /\ messages' = work
  BY TxKinds DEF CommitReceive, TransactionInv, TypeOK, Idle
<1>2. ASSUME NEW s \in DOMAIN messages, s \in DOMAIN work
      PROVE  s < nextSequence
  BY <1>1 DEF IsTable
<1>3. ASSUME NEW s \in tx.received, s < nextSequence
      PROVE  s \in Delivered
  <2>1. s \in DOMAIN work /\ s \in DOMAIN messages
    BY <1>1, <1>3 DEF UntouchedRows
  <2>2. messages[s].count \in Nat
    BY <1>1, <2>1 DEF IsTable, Row
  <2>3. work[s].count = messages[s].count + 1
    BY <1>1, <1>3 DEF ReceivedRows
  <2>4. work[s].handle = <<s, messages[s].count + 1>>
    <3>1. work[s].handle = IF work[s].count = 0 THEN NoHandle ELSE <<s, work[s].count>>
      BY <1>1, <2>1 DEF HandlesNameDeliveries
    <3>2. work[s].count # 0
      BY <2>2, <2>3
    <3>3. QED
      BY <2>3, <3>1, <3>2
  <2>5. messages[s].handle \in {NoHandle, <<s, messages[s].count>>}
    BY <1>1, <2>1 DEF HandlesNameDeliveries
  <2>6. work[s].handle # messages[s].handle
    BY <2>2, <2>4, <2>5 DEF NoHandle
  <2>7. QED
    BY <1>1, <2>1, <2>6 DEF Delivered
<1>4. ASSUME NEW s \in Delivered
      PROVE  s \in DOMAIN messages /\ s \in tx.received
  <2>1. s \in DOMAIN messages /\ s \in DOMAIN work /\ work[s].handle # messages[s].handle
    BY <1>1 DEF Delivered
  <2>2. QED
    BY <1>1, <1>2, <2>1 DEF UntouchedRows
<1>5. QED
  BY <1>1, <1>2, <1>3, <1>4

(* So the rows that a commit hands out are all those it received.          *)
LEMMA CommitDeliversAll ==
    ASSUME TransactionInv, MovesLeaveQueue, CommitReceive
    PROVE  Delivered = tx.received
<1>1. /\ tx.kind = "receive" /\ tx # Idle /\ tx.received \subseteq DOMAIN work
      /\ IsTable(work, workNext) /\ nextSequence \in Nat
      /\ UntouchedRows /\ ReceivedRows
  BY DEF CommitReceive, TransactionInv, TypeOK, Idle
<1>2. \A s \in tx.received : s < nextSequence
  BY <1>1 DEF ReceivedRows, MovesLeaveQueue, IsTable
<1>3. QED
  BY <1>1, <1>2, CommitReceiveDelivers DEF UntouchedRows

(* The moves of a redrive hand nothing out.                                *)
LEMMA CommitRedriveQuiet ==
    ASSUME TransactionInv, CommitRedrive
    PROVE  SameDeliveries(messages, messages')
<1>1. /\ tx.kind = "redrive" /\ tx # Idle /\ UntouchedRows
      /\ IsTable(messages, nextSequence) /\ nextSequence \in Nat
      /\ messages' = work
  BY DEF CommitRedrive, TransactionInv, TypeOK, Idle
<1>2. QED
  BY <1>1 DEF UntouchedRows, SameDeliveries, IsTable

(* A step changes the handles of committed rows only if it is the commit   *)
(* of a receive.                                                           *)
LEMMA OnlyReceiveDelivers ==
    ASSUME TransactionInv, QueueStoreAssumption, [Next]_vars
    PROVE  CommitReceive \/ SameDeliveries(messages, messages')
<1>1. UNCHANGED messages => SameDeliveries(messages, messages')
  BY DEF SameDeliveries
<1>2. CASE Send
  BY <1>2, SendQuiet DEF Send
<1>3. CASE StartReceive
  BY <1>1, <1>3, ReceiveQuiet DEF StartReceive, BeginReceive, store
<1>4. CASE \E q \in Queue : ReceiveOverLimit(q)
  BY <1>4, ReceiveQuiet
<1>5. CASE RunReceive
  BY <1>1, <1>5 DEF RunReceive, DeliverNext, DeadLetterNext, store
<1>6. CASE Rollback
  BY <1>1, <1>6 DEF Rollback, store
<1>7. CASE Redrive
  BY <1>1, <1>7, CommitRedriveQuiet DEF Redrive, BeginRedrive, RedriveNext, store
<1>8. CASE Manage
  BY <1>8, ManageQuiet
<1>9. CASE Tick \/ UNCHANGED vars
  BY <1>1, <1>9 DEF Tick, vars, store
<1>10. QED
  BY <1>2, <1>3, <1>4, <1>5, <1>6, <1>7, <1>8, <1>9 DEF Next, Operation
-----------------------------------------------------------------------------
(* What a step may do to the committed rows.                               *)

\* Some rows are gone; of the others only lease and delay may differ.
Thinned(before, after) ==
    /\ DOMAIN after \subseteq DOMAIN before
    /\ \A s \in DOMAIN after :
        /\ after[s].id = before[s].id
        /\ after[s].queue = before[s].queue
        /\ after[s].group = before[s].group
        /\ after[s].created = before[s].created
        /\ after[s].handle = before[s].handle
        /\ after[s].count = before[s].count
        /\ after[s].total = before[s].total
        /\ after[s].origin = before[s].origin

\* Delivery times change only with the attributes of a queue.
TimesKept ==
    \/ /\ UNCHANGED settings
       /\ \A s \in DOMAIN messages' : messages'[s].available = messages[s].available
    \/ \E q \in Queue : \E c \in Updates[q] : SetQueueAttributes(q, c)

(* A sweep thins a table (expire_messages).                                *)
LEMMA SweepThins ==
    ASSUME NEW table, NEW q, NEW retention, NEW t
    PROVE  /\ Thinned(table, Sweep(table, q, retention, t))
           /\ \A s \in DOMAIN Sweep(table, q, retention, t) :
                Sweep(table, q, retention, t)[s].available = table[s].available
BY DEF Thinned, Sweep

(* A replay renews leases (replay_attempt).                                *)
LEMMA ReplayThins ==
    ASSUME TypeOK, NEW q \in Queue, NEW a, NEW fingerprint,
           ReplayAttempt(q, a, fingerprint)
    PROVE  Thinned(messages, messages') /\ TimesKept
<1>1. IsTable(SweptQueue(q, now), nextSequence)
  BY SweptQueueType
<1>2. /\ DOMAIN SweptQueue(q, now) \subseteq DOMAIN messages
      /\ \A s \in DOMAIN SweptQueue(q, now) : SweptQueue(q, now)[s] = messages[s]
  BY DEF SweptQueue, Sweep
<1>3. PICK r :
        messages' = [s \in DOMAIN SweptQueue(q, now) |->
            IF s \in {x \in RowsOf(SweptQueue(q, now), q) :
                        SweptQueue(q, now)[x].handle \in r.members}
            THEN [SweptQueue(q, now)[s] EXCEPT !.invisible = now + r.visibility]
            ELSE SweptQueue(q, now)[s]]
  BY DEF ReplayAttempt
<1>4. DOMAIN messages' = DOMAIN SweptQueue(q, now)
  BY <1>3
<1>5. ASSUME NEW s \in DOMAIN messages'
      PROVE  /\ messages[s] \in Row
             /\ messages'[s] \in {messages[s],
                                  [messages[s] EXCEPT !.invisible = now + r.visibility]}
  BY <1>1, <1>2, <1>3, <1>4 DEF IsTable
<1>6. Thinned(messages, messages')
  BY <1>2, <1>4, <1>5 DEF Thinned, Row
<1>7. \A s \in DOMAIN messages' : messages'[s].available = messages[s].available
  BY <1>5 DEF Row
<1>8. QED
  BY <1>6, <1>7 DEF ReplayAttempt, TimesKept

(* So do deletions, visibility and attribute changes and purges.           *)
LEMMA ManageThins ==
    ASSUME TypeOK, Manage
    PROVE  Thinned(messages, messages') /\ TimesKept
<1>1. messages \in [DOMAIN messages -> Row]
  BY DEF TypeOK, IsTable
<1>2. ASSUME NEW s, Delete(s)
      PROVE  Thinned(messages, messages') /\ TimesKept
  BY <1>2 DEF Delete, Remove, Thinned, TimesKept
<1>3. ASSUME NEW s, NEW timeout, ChangeVisibility(s, timeout, now)
      PROVE  Thinned(messages, messages') /\ TimesKept
  <2>1. messages' = [messages EXCEPT ![s].invisible = now + timeout]
    BY <1>3 DEF ChangeVisibility
  <2>2. DOMAIN messages' = DOMAIN messages
    BY <2>1
  <2>3. ASSUME NEW x \in DOMAIN messages
        PROVE  messages'[x] \in {messages[x],
                                 [messages[x] EXCEPT !.invisible = now + timeout]}
    BY <2>1
  <2>4. /\ Thinned(messages, messages')
        /\ \A x \in DOMAIN messages' : messages'[x].available = messages[x].available
    BY <1>1, <2>2, <2>3 DEF Thinned, Row
  <2>5. QED
    BY <1>3, <2>4 DEF ChangeVisibility, TimesKept
<1>4. ASSUME NEW q \in Queue, NEW c \in Updates[q], SetQueueAttributes(q, c)
      PROVE  Thinned(messages, messages') /\ TimesKept
  <2> DEFINE retimed == Retimed(q, c.delay)
  <2>1. DOMAIN retimed = DOMAIN messages
    BY DEF Retimed
  <2>2. \A x \in DOMAIN messages :
          retimed[x] \in {messages[x],
                          [messages[x] EXCEPT !.available = messages[x].created + c.delay]}
    BY DEF Retimed
  <2> HIDE DEF retimed
  <2>3. Thinned(messages, retimed)
    BY <1>1, <2>1, <2>2 DEF Thinned, Row
  <2>4. messages' = Sweep(retimed, q, c.retention, now)
    BY <1>4 DEF SetQueueAttributes, retimed
  <2>5. QED
    BY <1>4, <2>3, <2>4, SweepThins DEF Thinned, TimesKept
<1>5. ASSUME NEW q, PurgeQueue(q)
      PROVE  Thinned(messages, messages') /\ TimesKept
  BY <1>5 DEF PurgeQueue, Remove, Thinned, TimesKept
<1>6. QED
  BY <1>2, <1>3, <1>4, <1>5 DEF Manage

\* The INSERT of a send, with the delay that is due on a FIFO queue.
Sends ==
    \E q \in Queue, g \in Group, d \in DedupId \cup {NoDedupId}, delay \in Nat :
        Enqueue(q, g, d, delay, now) /\ (q \in Fifo => delay = settings[q].delay)

(* The steps as the proofs about rows need to tell them apart: outside     *)
(* transactions rows are thinned out or one is inserted, and the committed *)
(* rows change otherwise only when a transaction commits.                  *)
LEMMA StepKinds ==
    ASSUME TypeOK, QueueStoreAssumption, [Next]_vars
    PROVE  \/ /\ tx = Idle /\ UNCHANGED <<txVars, now, nextSequence>>
              /\ Thinned(messages, messages') /\ TimesKept
           \/ tx = Idle /\ UNCHANGED <<txVars, settings, now>> /\ Sends
           \/ UNCHANGED <<store, txVars>> /\ now' \in {now, now + 1}
           \/ \E q \in Queue, max \in BatchSizes, option \in Visibilities,
                 a \in AttemptId \cup {NoAttempt}, cacheEmpty \in BOOLEAN :
                BeginReceive(q, max, option, a, cacheEmpty)
           \/ \E dlq, source \in Queue, max \in MoveSizes : BeginRedrive(dlq, source, max)
           \/ \E s \in DOMAIN work : DeliverNext(s) \/ DeadLetterNext(s) \/ RedriveNext(s)
           \/ CommitReceive
           \/ CommitRedrive
           \/ Rollback
<1> DEFINE Quiet == /\ tx = Idle /\ UNCHANGED <<txVars, now, nextSequence>>
                    /\ Thinned(messages, messages') /\ TimesKept
           Sent == tx = Idle /\ UNCHANGED <<txVars, settings, now>> /\ Sends
<1>1. ASSUME Send PROVE Quiet \/ Sent
  <2>1. PICK q \in Sendable : SendTo(q, now)
    BY <1>1 DEF Send
  <2>2. q \in Queue /\ now \in Nat /\ settings[q].delay \in Nat /\ Delays \subseteq Nat
    BY DEF TypeOK, QueueStoreAssumption, Settings
  <2>3. ASSUME NEW g \in Group, NEW delay \in Delays \cup {settings[q].delay},
               SendStandard(q, g, delay, now)
        PROVE  Sent
    BY <2>2, <2>3 DEF SendStandard, Sends
  <2>4. ASSUME NEW g \in Group, NEW d \in DedupId, SendFifo(q, g, d, now)
        PROVE  Sent
    BY <2>2, <2>4 DEF SendFifo, Sends
  <2>5. ASSUME NEW g \in Group, NEW d \in DedupId, SendDuplicate(q, g, d, now)
        PROVE  Quiet
    BY <2>5, SweepThins DEF SendDuplicate, SweptQueue, TimesKept
  <2>6. QED
    BY <2>1, <2>3, <2>4, <2>5 DEF SendTo
<1>2. ASSUME NEW q \in Queue, ReceiveOverLimit(q) PROVE Quiet
  BY <1>2, SweepThins DEF ReceiveOverLimit, SweptQueue, TimesKept
<1>3. ASSUME NEW q \in Queue, NEW a, NEW f, ReplayAttempt(q, a, f) PROVE Quiet
  <2>1. Thinned(messages, messages') /\ TimesKept
    BY <1>3, ReplayThins
  <2>2. QED
    BY <1>3, <2>1 DEF ReplayAttempt
<1>4. ASSUME Manage PROVE Quiet
  BY <1>4, ManageThins DEF Manage, Delete, ChangeVisibility, SetQueueAttributes, PurgeQueue
<1>5. ASSUME Tick \/ UNCHANGED vars
      PROVE  UNCHANGED <<store, txVars>> /\ now' \in {now, now + 1}
  BY <1>5 DEF Tick, vars, store, txVars
<1> HIDE DEF Quiet, Sent
<1>6. CASE StartReceive
  BY <1>3, <1>6 DEF StartReceive, Quiet
<1>7. CASE Operation /\ ~StartReceive
  BY <1>1, <1>2, <1>4, <1>7 DEF Operation, RunReceive, Redrive, Quiet, Sent
<1>8. QED
  BY <1>5, <1>6, <1>7 DEF Next
=============================================================================
