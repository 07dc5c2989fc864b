----------------------- MODULE QueueStoreSafety_proofs -----------------------
(***************************************************************************)
(* Proofs of what QueueStoreSafety states, for every value of the          *)
(* constants.  First what receives hand out: FIFO groups in order, the     *)
(* earlier message at least as often, leases up to the in-flight limit,    *)
(* and stored attempts that can be replayed.  Then that no message is      *)
(* lost, doubled or misplaced: no UNIQUE or PRIMARY KEY constraint of the  *)
(* schema trips, a receive keeps every message it does not expire, a       *)
(* redrive returns what it takes, and the delay of FIFO messages is the    *)
(* current one.  They rest on the inductive invariant TransactionInv.      *)
(***************************************************************************)
EXTENDS QueueStore_proofs

\* AttemptsReplayable of a set of attempts and a messages table.
ReplayableIn(table, rows) ==
    \A a \in table : a.valid =>
        \A h \in a.members :
            /\ h[1] \in DOMAIN rows
            /\ rows[h[1]].handle = h
            /\ rows[h[1]].queue = a.queue

\* A sequence number stays with its queue.
QueuesStay(before, after) ==
    \A s \in DOMAIN before \cap DOMAIN after : after[s].queue = before[s].queue
-----------------------------------------------------------------------------
(* Group order.                                                            *)

(* So whatever is ahead of a delivered row is delivered with it.           *)
LEMMA CommitReceiveInOrder ==
    ASSUME TransactionInv, CommitReceive,
           NEW s \in Delivered, messages[s].queue \in Fifo
    PROVE  Ahead(messages', s) \subseteq Delivered
<1>1. /\ tx.kind = "receive" /\ tx # Idle /\ UntouchedRows /\ ReceivedRows
      /\ IsTable(work, workNext) /\ IsTable(messages, nextSequence)
      /\ nextSequence \in Nat /\ tx.received \subseteq DOMAIN work
      /\ messages' = work
  BY DEF CommitReceive, TransactionInv, TypeOK, Idle
<1>2. s \in DOMAIN messages /\ s \in tx.received
  BY CommitReceiveDelivers
<1>3. s \in Nat /\ s < nextSequence /\ s \in DOMAIN work
  BY <1>1, <1>2 DEF IsTable
<1>4. work[s].queue = messages[s].queue /\ work[s].queue = tx.queue
  BY <1>1, <1>2, <1>3 DEF UntouchedRows, ReceivedRows
<1>5. Ahead(work, s) \subseteq tx.received
  BY <1>1, <1>2, <1>4 DEF ReceivedRows
<1>6. \A e \in Ahead(work, s) : e < nextSequence
  BY <1>1, <1>3 DEF Ahead, IsTable
<1>7. QED
  BY <1>1, <1>5, <1>6, CommitReceiveDelivers

(* No overtaking in a FIFO group, whatever the clients do and wherever a   *)
(* transaction is cut off (next_receivable and fifo_candidate_sql).        *)
THEOREM GroupsInOrder == Spec => GroupOrder
<1>1. ASSUME TransactionInv, [Next]_vars,
             NEW s \in Delivered, messages[s].queue \in Fifo
      PROVE  Ahead(messages', s) \subseteq Delivered
  BY <1>1, QueueStoreAssumption, OnlyReceiveDelivers, NothingDelivered,
     CommitReceiveInOrder
<1>2. TransactionInv /\ [Next]_vars =>
        [\A s \in Delivered : messages[s].queue \in Fifo =>
            Ahead(messages', s) \subseteq Delivered]_vars
  BY <1>1
<1>3. QED
  BY <1>2, TransactionCorrect, PTL DEF Spec, GroupOrder
-----------------------------------------------------------------------------
(* Receive counts along a group.                                           *)

(* Losing rows and changing leases disturbs no counts.                     *)
LEMMA ThinnedCounts ==
    ASSUME NEW before, NEW after, EarlierMore(before), Thinned(before, after)
    PROVE  EarlierMore(after)
BY DEF EarlierMore, Thinned, Ahead

(* A row that was never received may join at the end (insert_message).     *)
LEMMA InsertCounts ==
    ASSUME NEW table, NEW next \in Nat \ {0}, IsTable(table, next),
           EarlierMore(table), NEW row \in Row, row.count = 0
    PROVE  EarlierMore(Insert(table, next, row))
<1> DEFINE after == Insert(table, next, row)
<1>1. \A s \in DOMAIN table : s \in Nat /\ s < next /\ table[s].count \in Nat
  BY DEF IsTable, Row
<1>2. /\ DOMAIN after = DOMAIN table \cup {next} /\ after[next] = row
      /\ \A s \in DOMAIN table : after[s] = table[s]
  BY <1>1 DEF Insert
<1> HIDE DEF after
<1>3. ASSUME NEW s \in DOMAIN after, after[s].queue \in Fifo, NEW e \in Ahead(after, s)
      PROVE  after[e].count >= after[s].count
  <2>1. e \in DOMAIN table /\ after[e] = table[e] /\ e < s
    BY <1>1, <1>2 DEF Ahead
  <2>2. CASE s = next
    BY <1>1, <1>2, <2>1, <2>2
  <2>3. CASE s # next
    <3>1. s \in DOMAIN table /\ after[s] = table[s]
      BY <1>2, <2>3
    <3>2. e \in Ahead(table, s)
      BY <2>1, <3>1 DEF Ahead
    <3>3. QED
      BY <1>3, <2>1, <3>1, <3>2 DEF EarlierMore
  <2>4. QED
    BY <2>2, <2>3
<1>4. QED
  BY <1>3 DEF EarlierMore, after

(* So may a row that moves there (move_message).                           *)
LEMMA MoveCounts ==
    ASSUME TypeOK, EarlierMore(work), NEW s, NEW row \in Row, row.count = 0,
           MoveRow(s, row)
    PROVE  EarlierMore(work')
<1>1. IsTable(Remove(work, {s}), workNext) /\ workNext \in Nat \ {0}
  BY RemoveIsTable DEF TypeOK
<1>2. Thinned(work, Remove(work, {s}))
  BY DEF Thinned, Remove
<1>3. EarlierMore(Remove(work, {s}))
  BY <1>2, ThinnedCounts
<1>4. EarlierMore(Insert(Remove(work, {s}), workNext, row))
  BY <1>1, <1>3, InsertCounts
<1>5. QED
  BY <1>4 DEF MoveRow, Move

(* A delivery goes to the first row of the group not received yet, which   *)
(* those ahead of it were received more often than.                        *)
LEMMA DeliverNextCounts ==
    ASSUME TransactionInv, EarlierInv, NEW s \in DOMAIN work, DeliverNext(s)
    PROVE  EarlierInv'
<1>1. /\ tx \in ReceiveTx /\ tx.kind = "receive" /\ IsTable(work, workNext)
      /\ tx.received \subseteq DOMAIN work
  BY TxKinds DEF DeliverNext, TransactionInv, TypeOK
<1>2. \A x \in DOMAIN work : x \in Nat /\ work[x] \in Row /\ work[x].count \in Nat
  BY <1>1 DEF IsTable, Row
<1>3. /\ DOMAIN work' = DOMAIN work
      /\ \A x \in DOMAIN work : work'[x].queue = work[x].queue
                                /\ work'[x].group = work[x].group
      /\ work'[s].count = work[s].count + 1
      /\ \A x \in DOMAIN work \ {s} : work'[x] = work[x]
  BY <1>2 DEF DeliverNext, DeliveredRow, Row
<1>4. /\ tx'.received = tx.received \cup {s}
      /\ tx'.kind = tx.kind /\ tx'.queue = tx.queue
      /\ UNCHANGED messages
  BY <1>1 DEF DeliverNext, ReceiveTx, store
<1>5. \A x \in DOMAIN work : Ahead(work', x) = Ahead(work, x)
  BY <1>3 DEF Ahead
<1>6. /\ s \notin tx.received /\ work[s].queue = tx.queue
      /\ tx.queue \in Fifo => Ahead(work, s) \subseteq tx.received
  BY DEF DeliverNext, IsNext, AlreadyReceived, Candidates, Receivable, RowsOf
<1>7. /\ EarlierMore(messages) /\ EarlierMore(work)
      /\ tx.queue \in Fifo => \A x \in DOMAIN work \ tx.received :
            \A e \in Ahead(work, x) \cap tx.received : work[e].count > work[x].count
  BY <1>1 DEF EarlierInv
<1>8. ASSUME NEW x \in DOMAIN work, work[x].queue \in Fifo, NEW e \in Ahead(work, x)
      PROVE  work'[e].count >= work'[x].count
  <2>1. e \in DOMAIN work /\ work[e].count >= work[x].count /\ e # x
    BY <1>2, <1>7, <1>8 DEF EarlierMore, Ahead
  <2>2. CASE x = s
    BY <1>2, <1>3, <1>6, <1>7, <1>8, <2>1, <2>2
  <2>3. CASE x # s
    BY <1>2, <1>3, <2>1, <2>3
  <2>4. QED
    BY <2>2, <2>3
<1>9. ASSUME tx.queue \in Fifo, NEW x \in DOMAIN work \ (tx.received \cup {s}),
             NEW e \in Ahead(work, x) \cap (tx.received \cup {s})
      PROVE  work'[e].count > work'[x].count
  <2>1. work'[x] = work[x]
    BY <1>3
  <2>2. CASE e = s
    <3>1. work[s].count >= work[x].count
      BY <1>6, <1>7, <1>9, <2>2 DEF EarlierMore, Ahead
    <3>2. QED
      BY <1>2, <1>3, <2>1, <2>2, <3>1
  <2>3. CASE e # s
    BY <1>3, <1>7, <1>9, <2>1, <2>3 DEF Ahead
  <2>4. QED
    BY <2>2, <2>3
<1>10. EarlierMore(work') /\ EarlierMore(messages')
  BY <1>3, <1>4, <1>5, <1>7, <1>8 DEF EarlierMore
<1>11. QED
  BY <1>3, <1>4, <1>5, <1>9, <1>10 DEF EarlierInv, EarlierMore

(* A dead-lettered row starts again from zero in the other queue.          *)
LEMMA DeadLetterNextCounts ==
    ASSUME TransactionInv, EarlierInv, NEW s \in DOMAIN work, DeadLetterNext(s)
    PROVE  EarlierInv'
<1>1. /\ TypeOK /\ tx \in ReceiveTx /\ tx.kind = "receive" /\ tx # Idle
      /\ IsTable(work, workNext) /\ workNext \in Nat \ {0}
      /\ tx.received \subseteq DOMAIN work /\ work[s] \in Row /\ ReceivedRows
      /\ UNCHANGED <<messages, tx>>
  BY TxKinds DEF DeadLetterNext, TransactionInv, TypeOK, store, IsTable, Idle
<1>2. PICK row \in Row : MoveRow(s, row) /\ row.count = 0
  BY <1>1, DeadLetterNextRow
<1>4. EarlierMore(work') /\ EarlierMore(messages')
  BY <1>1, <1>2, MoveCounts DEF EarlierInv
<1>6. /\ DOMAIN work' = (DOMAIN work \ {s}) \cup {workNext} /\ work'[workNext] = row
      /\ \A x \in DOMAIN work \ {s} : work'[x] = work[x]
  BY <1>1, <1>2, MoveRowRows
<1>7. s \notin tx.received
  BY <1>1 DEF DeadLetterNext, AlreadyReceived
<1>8. ASSUME tx.queue \in Fifo, NEW x \in DOMAIN work' \ tx.received,
             NEW e \in Ahead(work', x) \cap tx.received
      PROVE  work'[e].count > work'[x].count
  <2>1. e \in DOMAIN work \ {s} /\ work'[e] = work[e] /\ work[e].count > 0
    BY <1>1, <1>6, <1>7 DEF ReceivedRows
  <2>2. CASE x = workNext
    BY <1>2, <1>6, <2>1, <2>2
  <2>3. CASE x # workNext
    <3>1. x \in DOMAIN work /\ work'[x] = work[x]
      BY <1>6, <2>3
    <3>2. e \in Ahead(work, x)
      BY <2>1, <3>1 DEF Ahead
    <3>3. QED
      BY <1>1, <1>8, <2>1, <3>1, <3>2 DEF EarlierInv
  <2>4. QED
    BY <2>2, <2>3
<1>9. QED
  BY <1>1, <1>4, <1>8 DEF EarlierInv, EarlierMore

(* A redriven row starts again from zero at its source.                    *)
LEMMA RedriveNextCounts ==
    ASSUME TypeOK, EarlierInv, NEW s \in DOMAIN work, RedriveNext(s)
    PROVE  EarlierInv'
<1>1. PICK row \in Row : MoveRow(s, row) /\ row.count = 0
  BY RedriveNextRow
<1>2. EarlierMore(work')
  BY <1>1, MoveCounts DEF EarlierInv
<1>3. tx'.kind = "redrive" /\ UNCHANGED messages
  BY TxKinds DEF RedriveNext, RedriveTx, store
<1>4. QED
  BY <1>2, <1>3 DEF EarlierInv, EarlierMore

(* Every step keeps the order of the counts.                               *)
LEMMA EarlierStep ==
    ASSUME TransactionInv, EarlierInv, QueueStoreAssumption, [Next]_vars
    PROVE  EarlierInv'
<1>1. TypeOK /\ nextSequence \in Nat \ {0} /\ IsTable(messages, nextSequence)
  BY DEF TransactionInv, TypeOK
<1>2. ASSUME EarlierMore(messages'), EarlierMore(work'), tx'.kind # "receive"
      PROVE  EarlierInv'
  BY <1>2 DEF EarlierInv, EarlierMore
<1>3. EarlierMore(messages) /\ EarlierMore(work)
  BY DEF EarlierInv
<1>4. CASE tx = Idle /\ UNCHANGED <<txVars, now, nextSequence>> /\ Thinned(messages, messages')
  BY <1>2, <1>3, <1>4, ThinnedCounts DEF txVars, Idle
<1>5. CASE tx = Idle /\ UNCHANGED <<txVars, settings, now>> /\ Sends
  <2>1. PICK q \in Queue, g \in Group, d \in DedupId \cup {NoDedupId}, delay \in Nat :
          Enqueue(q, g, d, delay, now)
    BY <1>5 DEF Sends
  <2>2. NewRow(nextSequence, q, g, d, now, delay) \in Row
    BY <1>1, NewRowType DEF TypeOK
  <2>3. NewRow(nextSequence, q, g, d, now, delay).count = 0
    BY DEF NewRow
  <2>4. IsTable(SweptQueue(q, now), nextSequence) /\ EarlierMore(SweptQueue(q, now))
    BY <1>1, <1>3, SweptQueueType, SweepThins, ThinnedCounts DEF SweptQueue
  <2>5. EarlierMore(messages')
    BY <1>1, <2>1, <2>2, <2>3, <2>4, InsertCounts DEF Enqueue
  <2>6. QED
    BY <1>2, <1>3, <1>5, <2>5 DEF txVars, Idle
<1>6. CASE UNCHANGED <<store, txVars>>
  BY <1>6 DEF store, txVars, EarlierInv, EarlierMore, Ahead
<1>7. ASSUME NEW q, NEW max, NEW option, NEW a, NEW cacheEmpty,
             BeginReceive(q, max, option, a, cacheEmpty)
      PROVE  EarlierInv'
  <2>1. EarlierMore(SweptQueue(q, now))
    BY <1>3, SweepThins, ThinnedCounts DEF SweptQueue
  <2>2. work' = SweptQueue(q, now) /\ UNCHANGED messages /\ tx'.received = {}
    BY <1>7 DEF BeginReceive, store
  <2>3. QED
    BY <1>3, <2>1, <2>2 DEF EarlierInv, EarlierMore
<1>8. ASSUME NEW dlq, NEW source, NEW max, BeginRedrive(dlq, source, max)
      PROVE  EarlierInv'
  <2>1. EarlierMore(SweptQueue(dlq, now))
    BY <1>3, SweepThins, ThinnedCounts DEF SweptQueue
  <2>2. EarlierMore(Sweep(SweptQueue(dlq, now), source, settings[source].retention, now))
    BY <2>1, SweepThins, ThinnedCounts
  <2>3. QED
    BY <1>2, <1>3, <1>8, <2>2 DEF BeginRedrive, store
<1>9. CASE \E s \in DOMAIN work : DeliverNext(s) \/ DeadLetterNext(s) \/ RedriveNext(s)
  BY <1>1, <1>9, DeliverNextCounts, DeadLetterNextCounts, RedriveNextCounts
<1>10. EarlierMore(EmptyTable)
  BY EmptyIsTable DEF EarlierMore
<1>11. CASE CommitReceive \/ CommitRedrive \/ Rollback
  BY <1>2, <1>3, <1>10, <1>11 DEF CommitReceive, CommitRedrive, Rollback, store, Idle
<1>12. QED
  BY <1>1, <1>4, <1>5, <1>6, <1>7, <1>8, <1>9, <1>11, StepKinds

(* So the counts are always in order, within a transaction too.            *)
LEMMA EarlierAlways == Spec => []EarlierInv
<1>1. Init => EarlierInv
  BY EmptyIsTable DEF Init, EarlierInv, EarlierMore, Idle
<1>2. TransactionInv /\ EarlierInv /\ [Next]_vars => EarlierInv'
  BY EarlierStep, QueueStoreAssumption
<1>3. QED
  BY <1>1, <1>2, TransactionCorrect, PTL DEF Spec

(* In every FIFO group the earlier message has been received at least as   *)
(* often, for any batch sizes, visibility timeouts and redrive policies    *)
(* (collect_received).                                                     *)
THEOREM EarlierReceivedFirst == Spec => []EarlierReceivedMore
<1>1. EarlierInv => EarlierReceivedMore
  BY DEF EarlierInv, EarlierReceivedMore
<1>2. QED
  BY <1>1, EarlierAlways, PTL
-----------------------------------------------------------------------------
(* The in-flight limit.                                                    *)

(* What is in flight does not depend on the sweep (count_in_flight).       *)
LEMMA SweptLeases ==
    ASSUME NEW q
    PROVE  Leased(q) = InFlight(messages, q, settings[q].retention, now)
BY DEF Leased, InFlight, SweptQueue, Sweep, RowsOf

(* The limit that a receive starts with (saturating_sub of the leases).    *)
LEMMA RoomLeft ==
    ASSUME TypeOK, NEW q \in Queue, NEW max \in Nat
    PROVE  /\ Min2(max, Room(q)) \in Nat
           /\ \/ Min2(max, Room(q)) = 0
              \/ Cardinality(InFlight(messages, q, settings[q].retention, now))
                   + Min2(max, Room(q)) <= settings[q].maxInFlight
<1>1. Leased(q) = InFlight(messages, q, settings[q].retention, now)
  BY SweptLeases
<1>2. InFlight(messages, q, settings[q].retention, now) \subseteq DOMAIN messages
  BY DEF InFlight, RowsOf
<1>3. nextSequence \in Nat /\ IsTable(messages, nextSequence)
  BY DEF TypeOK
<1>4. Cardinality(Leased(q)) \in Nat
  BY <1>1, <1>2, <1>3, TableIsFinite
<1>5. settings[q].maxInFlight \in Nat
  BY DEF TypeOK, Settings
<1>6. QED
  BY <1>1, <1>4, <1>5 DEF Room, Min2

(* The start of a receive.                                                 *)
LEMMA BeginReceiveLimit ==
    ASSUME TransactionInv, QueueStoreAssumption, NEW q \in Queue,
           NEW max \in BatchSizes, NEW option, NEW a, NEW cacheEmpty,
           BeginReceive(q, max, option, a, cacheEmpty)
    PROVE  LimitInv'
<1>1. TypeOK /\ max \in Nat /\ now \in Nat /\ nextSequence \in Nat
  BY DEF TransactionInv, TypeOK, QueueStoreAssumption
<1>2. /\ tx'.queue = q /\ tx'.at = now /\ tx'.received = {}
      /\ tx'.limit = Min2(max, Room(q)) /\ work' = SweptQueue(q, now)
      /\ UNCHANGED <<now, messages, settings, nextSequence>>
  BY DEF BeginReceive, store
<1>3. LeasesFound' = InFlight(messages, q, settings[q].retention, now)
  BY <1>2 DEF LeasesFound, InFlight, RowsOf, Expired
<1>4. Cardinality({}) = 0
  BY FS_EmptySet
<1>5. /\ (Cardinality(tx.received) <= tx.limit)'
      /\ (tx.limit = 0 \/ Cardinality(LeasesFound) + tx.limit
                            <= settings[tx.queue].maxInFlight)'
  BY <1>1, <1>2, <1>3, <1>4, RoomLeft
<1>6. \A s \in DOMAIN work' : s \in DOMAIN messages /\ s \in Nat /\ s < nextSequence
  BY <1>1, <1>2 DEF SweptQueue, Sweep, TypeOK, IsTable
<1>7. \A s \in RowsOf(work', q) : ~Expired(messages[s], settings[q].retention, now)
  BY <1>2 DEF SweptQueue, Sweep, RowsOf
<1>8. QED
  BY <1>1, <1>2, <1>5, <1>6, <1>7 DEF LimitInv, RowsOf

(* A delivery takes one of the leases left.                                *)
LEMMA DeliverNextLimit ==
    ASSUME TransactionInv, MovesLeaveQueue, LimitInv, NEW s \in DOMAIN work,
           DeliverNext(s)
    PROVE  LimitInv'
<1>1. /\ tx \in ReceiveTx /\ tx.kind = "receive" /\ tx # Idle
      /\ IsTable(work, workNext) /\ workNext \in Nat /\ nextSequence \in Nat
      /\ tx.received \subseteq DOMAIN work
  BY TxKinds DEF DeliverNext, TransactionInv, TypeOK, Idle
<1>2. work[s] \in Row /\ s \in Nat
  BY <1>1 DEF IsTable
<1>3. /\ DOMAIN work' = DOMAIN work
      /\ \A x \in DOMAIN work : work'[x].queue = work[x].queue
      /\ \A x \in DOMAIN work \ {s} : work'[x] = work[x]
  BY <1>1, <1>2 DEF DeliverNext, DeliveredRow, Row
<1>4. /\ tx' = [tx EXCEPT !.received = tx.received \cup {s}, !.preferred = tx'.preferred]
      /\ UNCHANGED <<now, messages, settings, nextSequence>>
  BY <1>1 DEF DeliverNext, ReceiveTx, store
<1>5. /\ tx'.kind = "receive" /\ tx'.queue = tx.queue /\ tx'.at = tx.at
      /\ tx'.limit = tx.limit /\ tx'.received = tx.received \cup {s}
  BY <1>1, <1>4 DEF ReceiveTx
<1>6. work[s].queue = tx.queue /\ s < nextSequence
  <2>1. work[s].queue = tx.queue
    BY DEF DeliverNext, IsNext, Candidates, Receivable, RowsOf
  <2>2. QED
    BY <1>1, <1>2, <2>1 DEF MovesLeaveQueue
<1>7. Cardinality(tx'.received) <= tx'.limit
  <2>1. IsFiniteSet(tx.received) /\ Cardinality(tx.received) \in Nat
    BY <1>1, TableIsFinite
  <2>2. Cardinality(tx.received \cup {s}) =
          IF s \in tx.received THEN Cardinality(tx.received)
                              ELSE Cardinality(tx.received) + 1
    BY <2>1, FS_AddElement
  <2>3. Cardinality(tx.received) < tx.limit /\ tx.limit \in Nat
    BY <1>1 DEF DeliverNext, WantsMore, ReceiveTx
  <2>4. Cardinality(tx.received \cup {s}) \in Nat
    BY <2>1, FS_AddElement, FS_CardinalityType
  <2>5. QED
    BY <1>5, <2>1, <2>2, <2>3, <2>4
<1>8. LeasesFound' = LeasesFound
  BY <1>4, <1>5 DEF LeasesFound, InFlight, RowsOf, Expired
<1>9. \A x \in DOMAIN work' : x >= nextSequence => work'[x].invisible = 0
  BY <1>1, <1>2, <1>3, <1>6 DEF LimitInv
<1>10. RowsOf(work', tx.queue) = RowsOf(work, tx.queue)
  BY <1>3 DEF RowsOf
<1>11. QED
  BY <1>1, <1>4, <1>5, <1>7, <1>8, <1>9, <1>10 DEF LimitInv

(* A row that moves is not leased where it goes.                           *)
LEMMA MoveLimit ==
    ASSUME TransactionInv, LimitInv, NEW s \in DOMAIN work,
           DeadLetterNext(s) \/ RedriveNext(s)
    PROVE  LimitInv'
<1>1. TypeOK /\ tx # Idle /\ nextSequence \in Nat /\ nextSequence <= workNext
  BY DEF TransactionInv, TypeOK, DeadLetterNext, RedriveNext, Idle
<1>2. PICK row \in Row : MoveRow(s, row) /\ row.invisible = 0
  BY <1>1, DeadLetterNextRow, RedriveNextRow DEF NewRow
<1>3. /\ DOMAIN work' = (DOMAIN work \ {s}) \cup {workNext} /\ work'[workNext] = row
      /\ \A x \in DOMAIN work \ {s} : work'[x] = work[x]
      /\ workNext \in Nat
  BY <1>1, <1>2, MoveRowRows
<1>4. UNCHANGED <<now, messages, settings, nextSequence>>
  BY DEF DeadLetterNext, RedriveNext, store
<1>5. \A x \in DOMAIN work' : x >= nextSequence => work'[x].invisible = 0
  BY <1>1, <1>2, <1>3 DEF LimitInv
<1>6. CASE RedriveNext(s)
  <2>1. tx'.kind = "redrive"
    BY <1>1, <1>6, TxKinds DEF RedriveNext, RedriveTx
  <2>2. QED
    BY <1>4, <1>5, <2>1 DEF LimitInv
<1>7. CASE DeadLetterNext(s)
  <2>1. tx' = tx /\ tx.kind = "receive"
    BY <1>7 DEF DeadLetterNext
  <2>2. LeasesFound' = LeasesFound
    BY <1>4, <2>1 DEF LeasesFound, InFlight, RowsOf, Expired
  <2>3. \A x \in RowsOf(work', tx.queue) : x < nextSequence =>
            x \in RowsOf(work, tx.queue)
    BY <1>1, <1>3 DEF RowsOf
  <2>4. QED
    BY <1>4, <1>5, <2>1, <2>2, <2>3 DEF LimitInv
<1>8. QED
  BY <1>6, <1>7

(* Every step keeps the invariant.                                         *)
LEMMA LimitStep ==
    ASSUME TransactionInv, MovesLeaveQueue, LimitInv, QueueStoreAssumption,
           [Next]_vars
    PROVE  LimitInv'
<1>1. TypeOK /\ now \in Nat /\ nextSequence \in Nat
  BY DEF TransactionInv, TypeOK
<1>2. ASSUME tx' = Idle PROVE LimitInv'
  BY <1>2 DEF LimitInv, Idle
<1>3. ASSUME UNCHANGED <<store, txVars>>, now' \in {now, now + 1} PROVE LimitInv'
  <2>1. now' \in Nat /\ now' >= now
    BY <1>1, <1>3
  <2>2. LeasesFound' = LeasesFound
    BY <1>3 DEF store, txVars, LeasesFound, InFlight, RowsOf, Expired
  <2>3. tx.kind = "receive" => tx.at <= now'
    BY <1>1, <2>1, TxKinds DEF LimitInv, ReceiveTx
  <2>4. RowsOf(work', tx.queue) = RowsOf(work, tx.queue)
    BY <1>3 DEF txVars
  <2>5. UNCHANGED <<messages, settings, nextSequence, tx, work>>
    BY <1>3 DEF store, txVars
  <2>6. QED
    BY <2>2, <2>3, <2>4, <2>5 DEF LimitInv
<1>4. ASSUME NEW dlq, NEW source, NEW max, BeginRedrive(dlq, source, max)
      PROVE  LimitInv'
  <2>1. tx'.kind = "redrive" /\ DOMAIN work' \subseteq DOMAIN messages
        /\ UNCHANGED nextSequence
    BY <1>4 DEF BeginRedrive, store, SweptQueue, Sweep
  <2>2. \A s \in DOMAIN work' : ~(s >= nextSequence)
    BY <1>1, <2>1 DEF TypeOK, IsTable
  <2>3. QED
    BY <2>1, <2>2 DEF LimitInv
<1>5. CASE CommitReceive \/ CommitRedrive \/ Rollback
  BY <1>2, <1>5 DEF CommitReceive, CommitRedrive, Rollback
<1>6. CASE \E s \in DOMAIN work : DeliverNext(s) \/ DeadLetterNext(s) \/ RedriveNext(s)
  BY <1>6, DeliverNextLimit, MoveLimit
<1>7. CASE tx = Idle /\ UNCHANGED txVars
  BY <1>2, <1>7 DEF txVars
<1>8. QED
  BY <1>1, <1>3, <1>4, <1>5, <1>6, <1>7, BeginReceiveLimit, StepKinds

\* A step leases nothing more in q, or stays within the limit.
StaysInLimit(q) ==
    \/ LeasedRows(messages', q, now') \subseteq LeasedRows(messages, q, now)
    \/ Cardinality(LeasedRows(messages', q, now')) <= settings[q].maxInFlight

(* A replay renews the leases that lapsed only when they fit               *)
(* (replay_attempt).                                                       *)
LEMMA ReplayInLimit ==
    ASSUME TypeOK, NEW p \in Queue, NEW a, NEW fingerprint,
           ReplayAttempt(p, a, fingerprint), NEW q \in Queue
    PROVE  StaysInLimit(q)
<1> DEFINE swept == SweptQueue(p, now)
           members(r) == {s \in RowsOf(swept, p) : swept[s].handle \in r.members}
           lapsed(r) == {s \in members(r) : swept[s].invisible <= now}
<1>1. PICK r \in Known(p, a) :
        /\ ReplayFits(p, r, lapsed(r))
        /\ messages' = [s \in DOMAIN swept |->
              IF s \in members(r) THEN [swept[s] EXCEPT !.invisible = now + r.visibility]
                                  ELSE swept[s]]
  BY DEF ReplayAttempt
<1>2. IsTable(swept, nextSequence) /\ now \in Nat /\ now' = now /\ nextSequence \in Nat
  BY SweptQueueType DEF TypeOK, ReplayAttempt
<1>3. r.visibility \in Nat
  BY AttemptsForType DEF Known, Attempt
<1>4. Leased(p) = LeasedRows(swept, p, now)
  BY DEF Leased, InFlight, LeasedRows, SweptQueue, Sweep, RowsOf
<1>5. /\ DOMAIN swept \subseteq DOMAIN messages
      /\ \A s \in DOMAIN swept : swept[s] = messages[s] /\ swept[s] \in Row
  BY <1>2 DEF SweptQueue, Sweep, IsTable
<1> DEFINE renewed == lapsed(r)
<1>6. /\ ReplayFits(p, r, renewed)
      /\ \A s \in renewed : s \in DOMAIN swept /\ swept[s].queue = p
      /\ \A s \in DOMAIN swept \ renewed :
            s \in members(r) => swept[s].invisible > now
      /\ renewed \subseteq members(r)
      /\ \A s \in members(r) : swept[s].queue = p
  BY <1>1, <1>2, <1>5 DEF RowsOf, Row
<1>7. DOMAIN messages' = DOMAIN swept
  BY <1>1
<1>8. \A s \in DOMAIN swept :
        /\ messages'[s].queue = swept[s].queue
        /\ s \in members(r) => messages'[s].invisible = now + r.visibility
        /\ s \notin members(r) => messages'[s] = swept[s]
  BY <1>1, <1>5 DEF Row
<1> HIDE DEF swept, members, lapsed, renewed
<1>9. ASSUME q # p \/ r.visibility = 0 \/ renewed = {}
      PROVE  LeasedRows(messages', q, now') \subseteq LeasedRows(messages, q, now)
  BY <1>2, <1>3, <1>5, <1>6, <1>7, <1>8, <1>9 DEF LeasedRows, RowsOf, Row
<1>10. ASSUME q = p, Cardinality(Leased(p)) + Cardinality(renewed) <= settings[p].maxInFlight
       PROVE  Cardinality(LeasedRows(messages', q, now')) <= settings[q].maxInFlight
  <2>1. LeasedRows(messages', p, now') \subseteq Leased(p) \cup renewed
    BY <1>2, <1>3, <1>4, <1>6, <1>7, <1>8 DEF LeasedRows, RowsOf
  <2>2. /\ Leased(p) \subseteq DOMAIN swept /\ renewed \subseteq DOMAIN swept
        /\ Leased(p) \cup renewed \subseteq DOMAIN swept
    BY <1>4, <1>6 DEF LeasedRows, RowsOf
  <2>3. /\ IsFiniteSet(Leased(p)) /\ IsFiniteSet(renewed)
        /\ IsFiniteSet(Leased(p) \cup renewed)
        /\ Cardinality(Leased(p)) \in Nat /\ Cardinality(renewed) \in Nat
        /\ Cardinality(Leased(p) \cap renewed) \in Nat
    BY <1>2, <2>2, TableIsFinite
  <2>4. Cardinality(Leased(p) \cup renewed)
          = Cardinality(Leased(p)) + Cardinality(renewed) - Cardinality(Leased(p) \cap renewed)
    BY <2>3, FS_Union
  <2>5. /\ Cardinality(LeasedRows(messages', p, now')) <= Cardinality(Leased(p) \cup renewed)
        /\ Cardinality(LeasedRows(messages', p, now')) \in Nat
    BY <2>1, <2>3, FS_Subset, FS_CardinalityType
  <2>6. settings[p].maxInFlight \in Nat
    BY DEF TypeOK, Settings
  <2>7. QED
    BY <1>10, <2>3, <2>4, <2>5, <2>6
<1>11. QED
  BY <1>6, <1>9, <1>10 DEF ReplayFits, StaysInLimit

(* A commit adds leases to the rows that the receive delivered.            *)
LEMMA CommitReceiveInLimit ==
    ASSUME TransactionInv, MovesLeaveQueue, LimitInv, CommitReceive, NEW q \in Queue
    PROVE  StaysInLimit(q)
<1>1. /\ tx \in ReceiveTx /\ tx.kind = "receive" /\ tx # Idle /\ TypeOK
      /\ IsTable(work, workNext) /\ IsTable(messages, nextSequence)
      /\ nextSequence \in Nat /\ workNext \in Nat /\ now \in Nat
      /\ tx.received \subseteq DOMAIN work
      /\ UntouchedRows /\ ReceivedRows
  BY TxKinds DEF CommitReceive, TransactionInv, TypeOK, Idle
<1>2. messages' = work /\ now' = now
  BY DEF CommitReceive
<1>3. \A s \in DOMAIN work : s \in Nat /\ work[s] \in Row /\ work[s].invisible \in Nat
  BY <1>1 DEF IsTable, Row
<1>4. \A s \in LeasedRows(work, q, now) : /\ s \in DOMAIN work /\ work[s].queue = q
                                          /\ work[s].invisible > now
                                          /\ s < nextSequence
  BY <1>1, <1>3 DEF LeasedRows, RowsOf, LimitInv
<1>5. ASSUME NEW s \in LeasedRows(work, q, now), s \notin tx.received
      PROVE  /\ s \in LeasedRows(messages, q, now)
             /\ q = tx.queue => s \in LeasesFound
  <2>1. s \in DOMAIN messages /\ work[s] = messages[s]
    BY <1>1, <1>4, <1>5 DEF UntouchedRows
  <2>2. tx.at <= now /\ tx.at \in Nat
    BY <1>1 DEF LimitInv, ReceiveTx
  <2>3. messages[s].queue = q /\ messages[s].invisible > now /\ messages[s].invisible \in Nat
    BY <1>3, <1>4, <2>1
  <2>4. messages[s].invisible > tx.at
    BY <1>1, <2>2, <2>3
  <2>5. q = tx.queue => ~Expired(messages[s], settings[tx.queue].retention, tx.at)
    BY <1>1, <1>4 DEF LimitInv, RowsOf
  <2>6. QED
    BY <2>1, <2>3, <2>4, <2>5 DEF LeasedRows, LeasesFound, InFlight, RowsOf
<1>6. CASE q # tx.queue \/ tx.received = {}
  <2>1. LeasedRows(work, q, now) \cap tx.received = {}
    BY <1>1, <1>4, <1>6 DEF ReceivedRows
  <2>2. LeasedRows(work, q, now) \subseteq LeasedRows(messages, q, now)
    BY <1>5, <2>1
  <2>3. QED
    BY <1>2, <2>2 DEF StaysInLimit
<1>7. CASE q = tx.queue /\ tx.received # {}
  <2>1. LeasedRows(work, q, now) \subseteq LeasesFound \cup tx.received
    BY <1>5, <1>7
  <2>2. LeasesFound \subseteq DOMAIN messages
    BY DEF LeasesFound, InFlight, RowsOf
  <2>3. /\ IsFiniteSet(LeasesFound) /\ Cardinality(LeasesFound) \in Nat
        /\ IsFiniteSet(tx.received) /\ Cardinality(tx.received) \in Nat
    BY <1>1, <2>2, TableIsFinite
  <2>4. /\ IsFiniteSet(LeasesFound \cup tx.received)
        /\ Cardinality(LeasesFound \cup tx.received)
             = Cardinality(LeasesFound) + Cardinality(tx.received)
               - Cardinality(LeasesFound \cap tx.received)
        /\ Cardinality(LeasesFound \cap tx.received) \in Nat
    BY <2>3, FS_Union, FS_Intersection, FS_CardinalityType
  <2>5. /\ Cardinality(LeasedRows(work, q, now)) <= Cardinality(LeasesFound \cup tx.received)
        /\ Cardinality(LeasedRows(work, q, now)) \in Nat
    BY <2>1, <2>4, FS_Subset, FS_CardinalityType
  <2>6. Cardinality(tx.received) # 0
    BY <1>7, <2>3, FS_EmptySet
  <2>7. /\ Cardinality(tx.received) <= tx.limit /\ tx.limit \in Nat
        /\ \/ tx.limit = 0
           \/ Cardinality(LeasesFound) + tx.limit <= settings[tx.queue].maxInFlight
    BY <1>1 DEF LimitInv, ReceiveTx
  <2>8. settings[q].maxInFlight \in Nat
    BY <1>1 DEF TypeOK, Settings
  <2>9. Cardinality(LeasedRows(work, q, now)) <= settings[q].maxInFlight
    BY <1>7, <2>3, <2>4, <2>5, <2>6, <2>7, <2>8
  <2>10. QED
    BY <1>2, <2>9 DEF StaysInLimit
<1>8. QED
  BY <1>6, <1>7

(* No other step leases rows.                                              *)
LEMMA OthersLeaseNothing ==
    ASSUME TransactionInv, LimitInv, QueueStoreAssumption, [Next]_vars,
           ~CommitReceive, NEW q \in Queue,
           \A p \in Queue, a \in AttemptId \cup {NoAttempt} : \A f : ~ReplayAttempt(p, a, f)
    PROVE  LeasedRows(messages', q, now') \subseteq LeasedRows(messages, q, now)
<1>1. /\ TypeOK /\ now \in Nat /\ nextSequence \in Nat
      /\ IsTable(messages, nextSequence)
      /\ \A s \in DOMAIN messages : messages[s] \in Row /\ messages[s].invisible \in Nat
  BY DEF TransactionInv, TypeOK, IsTable, Row
<1>2. ASSUME now' \in {now, now + 1},
             \A s \in DOMAIN messages' :
                \/ /\ s \in DOMAIN messages /\ messages'[s].queue = messages[s].queue
                   /\ messages'[s].invisible \in {messages[s].invisible, 0}
                \/ messages'[s].invisible = 0
      PROVE  LeasedRows(messages', q, now') \subseteq LeasedRows(messages, q, now)
  BY <1>1, <1>2 DEF LeasedRows, RowsOf
<1>3. CASE Send
  <2>1. PICK p \in Sendable : SendTo(p, now)
    BY <1>3 DEF Send
  <2>2. ASSUME NEW g, NEW d, NEW delay, Enqueue(p, g, d, delay, now)
        PROVE  \A s \in DOMAIN messages' :
                  \/ s \in DOMAIN messages /\ messages'[s] = messages[s]
                  \/ messages'[s].invisible = 0
    <3>1. NewRow(nextSequence, p, g, d, now, delay).invisible = 0
      BY DEF NewRow
    <3>2. QED
      BY <2>2, <3>1 DEF Enqueue, Insert, SweptQueue, Sweep
  <2>3. QED
    BY <1>2, <2>1, <2>2 DEF SendTo, SendStandard, SendFifo, SendDuplicate, SweptQueue, Sweep
<1>4. CASE \E p \in Queue : ReceiveOverLimit(p)
  BY <1>2, <1>4 DEF ReceiveOverLimit, SweptQueue, Sweep
<1>5. CASE UNCHANGED messages /\ now' \in {now, now + 1}
  BY <1>2, <1>5
<1>6. CASE CommitRedrive
  <2>1. tx # Idle /\ messages' = work /\ now' = now
    BY <1>6 DEF CommitRedrive, Idle
  <2>2. tx.kind = "redrive" /\ UntouchedRows /\ IsTable(work, workNext)
    BY <1>6, <2>1 DEF CommitRedrive, TransactionInv, TypeOK
  <2>3. \A s \in DOMAIN work : /\ s < nextSequence => s \in DOMAIN messages /\ work[s] = messages[s]
                               /\ ~(s < nextSequence) => work[s].invisible = 0
    BY <1>1, <2>1, <2>2 DEF UntouchedRows, LimitInv, TransactionInv, TypeOK, IsTable
  <2>4. QED
    BY <1>2, <2>1, <2>3
<1>7. ASSUME NEW s, Delete(s)
      PROVE  LeasedRows(messages', q, now') \subseteq LeasedRows(messages, q, now)
  BY <1>2, <1>7 DEF Delete, Remove
<1>8. ASSUME NEW s \in DOMAIN messages, NEW timeout, ChangeVisibility(s, timeout, now)
      PROVE  LeasedRows(messages', q, now') \subseteq LeasedRows(messages, q, now)
  <2>1. messages' = [messages EXCEPT ![s].invisible = now + timeout]
        /\ messages[s].invisible > now /\ now' = now
    BY <1>8 DEF ChangeVisibility
  <2>2. /\ DOMAIN messages' = DOMAIN messages
        /\ messages'[s].queue = messages[s].queue
        /\ \A x \in DOMAIN messages \ {s} : messages'[x] = messages[x]
    BY <1>1, <2>1 DEF Row
  <2>3. QED
    BY <2>1, <2>2 DEF LeasedRows, RowsOf
<1>9. ASSUME NEW p, NEW c, SetQueueAttributes(p, c)
      PROVE  LeasedRows(messages', q, now') \subseteq LeasedRows(messages, q, now)
  <2>1. \A x \in DOMAIN messages :
          Retimed(p, c.delay)[x] \in {messages[x],
              [messages[x] EXCEPT !.available = messages[x].created + c.delay]}
    BY DEF Retimed
  <2>2. ASSUME NEW x \in DOMAIN messages
        PROVE  /\ Retimed(p, c.delay)[x].queue = messages[x].queue
               /\ Retimed(p, c.delay)[x].invisible = messages[x].invisible
    <3> DEFINE row == messages[x]  retimed == Retimed(p, c.delay)[x]
               available == row.created + c.delay
    <3>1. row \in Row
      BY <1>1
    <3>2. retimed \in {row, [row EXCEPT !.available = available]}
      BY <2>1
    <3> HIDE DEF row, retimed, available
    <3>3. retimed.queue = row.queue /\ retimed.invisible = row.invisible
      BY ONLY <3>1, <3>2 DEF Row
    <3>4. QED
      BY ONLY <3>3 DEF row, retimed
  <2>3. DOMAIN Retimed(p, c.delay) = DOMAIN messages
    BY DEF Retimed
  <2>4. messages' = Sweep(Retimed(p, c.delay), p, c.retention, now) /\ now' = now
    BY <1>9 DEF SetQueueAttributes
  <2>5. /\ DOMAIN messages' \subseteq DOMAIN messages
        /\ \A x \in DOMAIN messages' : messages'[x] = Retimed(p, c.delay)[x]
    BY <2>3, <2>4 DEF Sweep
  <2>6. QED
    BY <1>2, <2>2, <2>4, <2>5
<1>10. ASSUME NEW p, PurgeQueue(p)
       PROVE  LeasedRows(messages', q, now') \subseteq LeasedRows(messages, q, now)
  BY <1>2, <1>10 DEF PurgeQueue, Remove
<1>11. CASE Manage
  BY <1>7, <1>8, <1>9, <1>10, <1>11 DEF Manage
<1>12. CASE StartReceive
  BY <1>5, <1>12 DEF StartReceive, BeginReceive, store
<1>13. CASE RunReceive \/ Rollback
  BY <1>5, <1>13 DEF RunReceive, DeliverNext, DeadLetterNext, Rollback, store
<1>14. CASE Redrive
  BY <1>5, <1>6, <1>14 DEF Redrive, BeginRedrive, RedriveNext, store
<1>15. CASE Tick \/ UNCHANGED vars
  BY <1>5, <1>15 DEF Tick, vars, store
<1>16. QED
  BY <1>3, <1>4, <1>11, <1>12, <1>13, <1>14, <1>15 DEF Next, Operation

(* So a receive never delivers more than it had room for.                  *)
LEMMA LimitAlways == Spec => []LimitInv
<1>1. Init => LimitInv
  BY EmptyIsTable DEF Init, LimitInv, Idle
<1>2. TransactionInv /\ MovesLeaveQueue /\ LimitInv /\ [Next]_vars => LimitInv'
  BY LimitStep, QueueStoreAssumption
<1>3. QED
  BY <1>1, <1>2, TransactionCorrect, MovesAlwaysLeave, PTL DEF Spec

(* A queue never has more leases than its limit unless it already had      *)
(* them: receives, replays and visibility changes of any number of clients *)
(* cannot lift their number above maxInFlight (count_in_flight,            *)
(* receive_messages, replay_attempt).                                      *)
THEOREM LeasesBounded == Spec => InFlightBound
<1>1. ASSUME TransactionInv, MovesLeaveQueue, LimitInv, [Next]_vars, NEW q \in Queue
      PROVE  Cardinality(LeasedRows(messages', q, now')) >
                 Cardinality(LeasedRows(messages, q, now))
             => Cardinality(LeasedRows(messages', q, now')) <= settings[q].maxInFlight
  <2>1. StaysInLimit(q)
    BY <1>1, QueueStoreAssumption, ReplayInLimit, CommitReceiveInLimit, OthersLeaseNothing
       DEF StaysInLimit, TransactionInv
  <2>2. IsTable(messages, nextSequence) /\ nextSequence \in Nat
    BY <1>1 DEF TransactionInv, TypeOK
  <2>3. IsFiniteSet(LeasedRows(messages, q, now)) /\ Cardinality(LeasedRows(messages, q, now)) \in Nat
    BY <2>2, TableIsFinite DEF LeasedRows, RowsOf
  <2>4. CASE LeasedRows(messages', q, now') \subseteq LeasedRows(messages, q, now)
    <3>1. /\ Cardinality(LeasedRows(messages', q, now')) <= Cardinality(LeasedRows(messages, q, now))
          /\ Cardinality(LeasedRows(messages', q, now')) \in Nat
      BY <2>3, <2>4, FS_Subset, FS_CardinalityType
    <3>2. QED
      BY <2>3, <3>1
  <2>5. QED
    BY <2>1, <2>4 DEF StaysInLimit
<1>2. TransactionInv /\ MovesLeaveQueue /\ LimitInv /\ [Next]_vars =>
        [\A q \in Queue :
            LET before == Cardinality(LeasedRows(messages, q, now))
                after == Cardinality(LeasedRows(messages', q, now'))
            IN  after > before => after <= settings[q].maxInFlight]_vars
  BY <1>1
<1>3. QED
  BY <1>2, TransactionCorrect, MovesAlwaysLeave, LimitAlways, PTL DEF Spec, InFlightBound
-----------------------------------------------------------------------------
(* What the triggers keep.                                                 *)

(* Invalidating the attempts of all handles that get lost keeps the rest   *)
(* replayable (invalidate_receive_delete, invalidate_receive_update).      *)
LEMMA TriggersSuffice ==
    ASSUME NEW table \in SUBSET Attempt, NEW before, NEW after, NEW handles,
           0 \notin DOMAIN before, ReplayableIn(table, before),
           QueuesStay(before, after), LostHandles(before, after) \subseteq handles
    PROVE  ReplayableIn(Invalidate(table, handles), after)
<1> SUFFICES ASSUME NEW b \in Invalidate(table, handles), b.valid,
                    NEW h \in b.members
             PROVE  /\ h[1] \in DOMAIN after
                    /\ after[h[1]].handle = h
                    /\ after[h[1]].queue = b.queue
  BY DEF ReplayableIn
<1>1. PICK a \in table :
        b = IF a.members \cap handles = {} THEN a ELSE [a EXCEPT !.valid = FALSE]
  BY DEF Invalidate
<1>2. a \in Attempt
  OBVIOUS
<1>3. a.members \cap handles = {}
  BY <1>1, <1>2 DEF Attempt
<1>4. b = a /\ h \notin handles
  BY <1>1, <1>3
<1>5. /\ h[1] \in DOMAIN before
      /\ before[h[1]].handle = h
      /\ before[h[1]].queue = a.queue
  BY <1>4 DEF ReplayableIn
<1>6. h # NoHandle
  BY <1>5 DEF NoHandle
<1>7. h \notin LostHandles(before, after)
  BY <1>4
<1>8. h[1] \in DOMAIN after /\ after[h[1]].handle = h
  BY <1>5, <1>6, <1>7 DEF LostHandles
<1>9. QED
  BY <1>4, <1>5, <1>8 DEF QueuesStay

(* A table that keeps the rows of another loses no more handles.           *)
LEMMA FewerLost ==
    ASSUME NEW before, NEW less, NEW more, DOMAIN less \subseteq DOMAIN more,
           \A s \in DOMAIN less : more[s].handle = less[s].handle
    PROVE  LostHandles(before, more) \subseteq LostHandles(before, less)
BY DEF LostHandles

(* Rows that stay the delivered rows they were stay in their queue.        *)
LEMMA SameDeliveriesStay ==
    ASSUME NEW before, NEW after, SameDeliveries(before, after)
    PROVE  QueuesStay(before, after)
BY DEF SameDeliveries, QueuesStay

(* The types that TriggersSuffice asks for.                                *)
LEMMA AttemptsAndRows ==
    ASSUME TransactionInv
    PROVE  attempts \in SUBSET Attempt /\ 0 \notin DOMAIN messages
BY DEF TransactionInv, TypeOK, IsTable

(* The attempts table of a receive transaction (replay_attempt).           *)
LEMMA AttemptsForReplayable ==
    ASSUME TransactionInv, AttemptsReplayable, NEW table, NEW q, NEW t,
           QueuesStay(messages, table)
    PROVE  ReplayableIn(AttemptsFor(table, q, t), table)
<1>1. ReplayableIn(attempts, messages)
  BY DEF AttemptsReplayable, ReplayableIn
<1>2. ReplayableIn(Invalidate(attempts, LostHandles(messages, table)), table)
  BY <1>1, AttemptsAndRows, TriggersSuffice
<1>3. QED
  BY <1>2 DEF AttemptsFor, PruneAttempts, ReplayableIn
-----------------------------------------------------------------------------
(* AttemptsReplayable is preserved: one lemma per group of operations.     *)

(* Sends only expire messages.                                             *)
LEMMA SendReplayable ==
    ASSUME TransactionInv, AttemptsReplayable, NEW q, NEW t, SendTo(q, t)
    PROVE  ReplayableIn(attempts', messages')
<1>1. ReplayableIn(attempts, messages)
  BY DEF AttemptsReplayable, ReplayableIn
<1>2. QueuesStay(messages, messages')
  BY SendQuiet, SameDeliveriesStay
<1>3. nextSequence \notin DOMAIN SweptQueue(q, t)
  BY DEF TransactionInv, TypeOK, IsTable, SweptQueue, Sweep
<1>4. ASSUME NEW g, NEW d, NEW delay, Enqueue(q, g, d, delay, t)
      PROVE  ReplayableIn(attempts', messages')
  <2>1. /\ DOMAIN SweptQueue(q, t) \subseteq DOMAIN messages'
        /\ \A s \in DOMAIN SweptQueue(q, t) :
             messages'[s].handle = SweptQueue(q, t)[s].handle
    BY <1>3, <1>4 DEF Enqueue, Insert
  <2>2. LostHandles(messages, messages') \subseteq LostHandles(messages, SweptQueue(q, t))
    BY <2>1, FewerLost
  <2>3. attempts' = Invalidate(attempts, LostHandles(messages, SweptQueue(q, t)))
    BY <1>4 DEF Enqueue
  <2>4. QED
    BY <1>1, <1>2, <2>2, <2>3, AttemptsAndRows, TriggersSuffice
<1>5. ASSUME NEW g, NEW d, SendDuplicate(q, g, d, t)
      PROVE  ReplayableIn(attempts', messages')
  <2>1. attempts' = Invalidate(attempts, LostHandles(messages, messages'))
    BY <1>5 DEF SendDuplicate
  <2>2. QED
    BY <1>1, <1>2, <2>1, AttemptsAndRows, TriggersSuffice
<1>6. QED
  BY <1>4, <1>5 DEF SendTo, SendStandard, SendFifo

(* A replay changes leases but no handle, and a receive over the limit     *)
(* only expires messages.                                                  *)
LEMMA ReceiveReplayable ==
    ASSUME TransactionInv, AttemptsReplayable, NEW q, NEW a, NEW fingerprint,
           ReplayAttempt(q, a, fingerprint) \/ ReceiveOverLimit(q)
    PROVE  ReplayableIn(attempts', messages')
<1>1. ReplayableIn(attempts, messages)
  BY DEF AttemptsReplayable, ReplayableIn
<1>2. QueuesStay(messages, SweptQueue(q, now))
  BY DEF QueuesStay, SweptQueue, Sweep
<1>3. ReplayableIn(AttemptsFor(SweptQueue(q, now), q, now), SweptQueue(q, now))
  BY <1>2, AttemptsForReplayable
<1>4. attempts' = AttemptsFor(SweptQueue(q, now), q, now)
  BY DEF ReplayAttempt, ReceiveOverLimit
<1>5. CASE ReceiveOverLimit(q)
  BY <1>3, <1>4, <1>5 DEF ReceiveOverLimit
<1>6. CASE ReplayAttempt(q, a, fingerprint)
  <2>1. PICK r :
          messages' = [s \in DOMAIN SweptQueue(q, now) |->
              IF s \in {x \in RowsOf(SweptQueue(q, now), q) :
                          SweptQueue(q, now)[x].handle \in r.members}
              THEN [SweptQueue(q, now)[s] EXCEPT !.invisible = now + r.visibility]
              ELSE SweptQueue(q, now)[s]]
    BY <1>6 DEF ReplayAttempt
  <2>2. DOMAIN messages' = DOMAIN SweptQueue(q, now)
    BY <2>1
  <2>3. ASSUME NEW s \in DOMAIN SweptQueue(q, now)
        PROVE  /\ messages'[s].handle = SweptQueue(q, now)[s].handle
               /\ messages'[s].queue = SweptQueue(q, now)[s].queue
    <3>1. messages'[s] \in {SweptQueue(q, now)[s],
                            [SweptQueue(q, now)[s] EXCEPT !.invisible = now + r.visibility]}
      BY <2>1
    <3>2. SweptQueue(q, now)[s] \in Row
      BY DEF SweptQueue, Sweep, TransactionInv, TypeOK, IsTable
    <3>3. QED
      BY <3>1, <3>2 DEF Row
  <2>4. QED
    BY <1>3, <1>4, <2>2, <2>3 DEF ReplayableIn
<1>7. QED
  BY <1>5, <1>6

(* Deletions, visibility changes, attribute changes and purges.            *)
LEMMA ManageReplayable ==
    ASSUME TransactionInv, AttemptsReplayable, Manage
    PROVE  ReplayableIn(attempts', messages')
<1>1. ReplayableIn(attempts, messages)
  BY DEF AttemptsReplayable, ReplayableIn
<1>2. QueuesStay(messages, messages')
  BY ManageQuiet, SameDeliveriesStay
<1>3. ASSUME NEW handles, attempts' = Invalidate(attempts, handles),
             LostHandles(messages, messages') \subseteq handles
      PROVE  ReplayableIn(attempts', messages')
  BY <1>1, <1>2, <1>3, AttemptsAndRows, TriggersSuffice
<1>4. ASSUME NEW s, Delete(s)
      PROVE  ReplayableIn(attempts', messages')
  <2>1. LostHandles(messages, messages') \subseteq {messages[s].handle}
    BY <1>4 DEF Delete, LostHandles, Remove
  <2>2. QED
    BY <1>3, <1>4, <2>1 DEF Delete
<1>5. ASSUME NEW s, NEW timeout, ChangeVisibility(s, timeout, now)
      PROVE  ReplayableIn(attempts', messages')
  <2>1. messages \in [DOMAIN messages -> Row]
    BY DEF TransactionInv, TypeOK, IsTable
  <2>2. messages' = [messages EXCEPT ![s].invisible = now + timeout]
    BY <1>5 DEF ChangeVisibility
  <2>3. \A x \in DOMAIN messages : /\ x \in DOMAIN messages'
                                   /\ messages'[x].handle = messages[x].handle
    BY <2>1, <2>2 DEF Row
  <2>4. LostHandles(messages, messages') \subseteq {messages[s].handle}
    BY <2>3 DEF LostHandles
  <2>5. QED
    BY <1>3, <1>5, <2>4 DEF ChangeVisibility
<1>6. ASSUME NEW q, NEW c, SetQueueAttributes(q, c)
      PROVE  ReplayableIn(attempts', messages')
  <2>1. attempts' = Invalidate(attempts, LostHandles(messages, messages'))
    BY <1>6 DEF SetQueueAttributes
  <2>2. QED
    BY <1>3, <2>1
<1>7. ASSUME NEW q, PurgeQueue(q)
      PROVE  ReplayableIn(attempts', messages')
  <2> DEFINE invalid == Invalidate(attempts, LostHandles(messages, messages'))
  <2>1. attempts' = {IF a.queue = q THEN [a EXCEPT !.valid = FALSE] ELSE a :
                        a \in invalid}
    BY <1>7 DEF PurgeQueue
  <2>2. ReplayableIn(invalid, messages') /\ invalid \subseteq Attempt
    BY <1>1, <1>2, AttemptsAndRows, TriggersSuffice, InvalidateType
  <2> HIDE DEF invalid
  <2>3. \A b \in attempts' : b.valid => b \in invalid
    BY <2>1, <2>2 DEF Attempt
  <2>4. QED
    BY <2>2, <2>3 DEF ReplayableIn
<1>8. QED
  BY <1>4, <1>5, <1>6, <1>7 DEF Manage

(* The commit of a receive invalidates what it dead-letters or delivers    *)
(* again, and what it saves names its own deliveries (save_attempt).       *)
LEMMA CommitReceiveReplayable ==
    ASSUME TransactionInv, AttemptsReplayable, CommitReceive
    PROVE  ReplayableIn(attempts', messages')
<1>1. /\ tx.kind = "receive" /\ tx # Idle /\ UntouchedRows /\ ReceivedRows
      /\ HandlesNameDeliveries(work) /\ tx.received \subseteq DOMAIN work
      /\ IsTable(messages, nextSequence) /\ nextSequence \in Nat
  BY DEF CommitReceive, TransactionInv, TypeOK, Idle
<1>2. messages' = work /\ attempts' = AttemptsFor(work, tx.queue, tx.at) \cup SavedAttempt
  BY DEF CommitReceive
<1>3. QueuesStay(messages, work)
  BY <1>1 DEF QueuesStay, UntouchedRows, IsTable
<1>4. ReplayableIn(AttemptsFor(work, tx.queue, tx.at), work)
  BY <1>3, AttemptsForReplayable
<1>5. ASSUME NEW s \in tx.received
      PROVE  work[s].handle[1] = s /\ work[s].queue = tx.queue /\ s \in DOMAIN work
  <2>1. work[s].count # 0 /\ work[s].queue = tx.queue
    BY <1>1 DEF ReceivedRows
  <2>2. work[s].handle = <<s, work[s].count>>
    BY <1>1, <2>1 DEF HandlesNameDeliveries
  <2>3. QED
    BY <1>1, <2>1, <2>2
<1>6. ReplayableIn(SavedAttempt, work)
  <2> SUFFICES ASSUME NEW a \in SavedAttempt, NEW h \in a.members
               PROVE  /\ h[1] \in DOMAIN work
                      /\ work[h[1]].handle = h
                      /\ work[h[1]].queue = a.queue
    BY DEF ReplayableIn
  <2>1. a.queue = tx.queue /\ a.members = {work[s].handle : s \in tx.received}
    BY DEF SavedAttempt
  <2>2. PICK s \in tx.received : h = work[s].handle
    BY <2>1
  <2>3. QED
    BY <1>5, <2>1, <2>2
<1>7. QED
  BY <1>2, <1>4, <1>6 DEF ReplayableIn

(* The commit of a redrive invalidates what it moves.                      *)
LEMMA CommitRedriveReplayable ==
    ASSUME TransactionInv, AttemptsReplayable, CommitRedrive
    PROVE  ReplayableIn(attempts', messages')
<1>1. ReplayableIn(attempts, messages)
  BY DEF AttemptsReplayable, ReplayableIn
<1>2. QueuesStay(messages, messages')
  BY CommitRedriveQuiet, SameDeliveriesStay
<1>3. attempts' = Invalidate(attempts, LostHandles(messages, messages'))
  BY DEF CommitRedrive
<1>4. QED
  BY <1>1, <1>2, <1>3, AttemptsAndRows, TriggersSuffice

(* Every step keeps the stored attempts replayable.                        *)
LEMMA ReplayableStep ==
    ASSUME TransactionInv, AttemptsReplayable, [Next]_vars
    PROVE  AttemptsReplayable'
<1>1. ReplayableIn(attempts', messages') => AttemptsReplayable'
  BY DEF ReplayableIn, AttemptsReplayable
<1>2. UNCHANGED <<attempts, messages>> => AttemptsReplayable'
  BY DEF AttemptsReplayable
<1>3. CASE Send
  BY <1>1, <1>3, SendReplayable DEF Send
<1>4. CASE StartReceive
  BY <1>1, <1>2, <1>4, ReceiveReplayable DEF StartReceive, BeginReceive, store
<1>5. CASE \E q \in Queue : ReceiveOverLimit(q)
  BY <1>1, <1>5, ReceiveReplayable
<1>6. CASE RunReceive
  BY <1>1, <1>2, <1>6, CommitReceiveReplayable
     DEF RunReceive, DeliverNext, DeadLetterNext, store
<1>7. CASE Rollback
  BY <1>2, <1>7 DEF Rollback, store
<1>8. CASE Redrive
  BY <1>1, <1>2, <1>8, CommitRedriveReplayable
     DEF Redrive, BeginRedrive, RedriveNext, store
<1>9. CASE Manage
  BY <1>1, <1>9, ManageReplayable
<1>10. CASE Tick \/ UNCHANGED vars
  BY <1>2, <1>10 DEF Tick, vars, store
<1>11. QED
  BY <1>3, <1>4, <1>5, <1>6, <1>7, <1>8, <1>9, <1>10 DEF Next, Operation

(* A valid stored attempt names current deliveries of its queue, so its    *)
(* replay answers what the first call answered (replay_attempt and the     *)
(* triggers of fifo.rs).                                                   *)
THEOREM AttemptsStayReplayable == Spec => []AttemptsReplayable
<1>1. Init => AttemptsReplayable
  BY DEF Init, AttemptsReplayable
<1>2. TransactionInv /\ AttemptsReplayable /\ [Next]_vars => AttemptsReplayable'
  BY ReplayableStep
<1>3. QED
  BY <1>1, <1>2, TransactionCorrect, PTL DEF Spec
-----------------------------------------------------------------------------
(* What the store keeps.                                                   *)

\* The ids of a table are distinct and below the next sequence number.
DistinctIds(table, next) == UniqueIds(table) /\ IdsBelow(table, next)

\* The primary key of receive_attempts.
NoTwins(table) ==
    \A a1, a2 \in table : a1.queue = a2.queue /\ a1.id = a2.id => a1 = a2

\* The primary key of deduplication_keys.
NoTwinKeys(table) ==
    \A k1, k2 \in table :
        k1.queue = k2.queue /\ k1.dedup = k2.dedup /\ k1.group = k2.group
        => k1 = k2
-----------------------------------------------------------------------------
(* Message ids.                                                            *)

(* Deleting rows and changing other columns keeps the ids distinct.        *)
LEMMA FewerIds ==
    ASSUME NEW before, NEW after, NEW next, DistinctIds(before, next),
           DOMAIN after \subseteq DOMAIN before,
           \A s \in DOMAIN after : after[s].id = before[s].id
    PROVE  DistinctIds(after, next)
BY DEF DistinctIds, UniqueIds, IdsBelow

(* A sweep deletes rows.                                                   *)
LEMMA SweepIds ==
    ASSUME NEW table, NEW next, DistinctIds(table, next),
           NEW q, NEW retention, NEW t
    PROVE  DistinctIds(Sweep(table, q, retention, t), next)
<1>1. /\ DOMAIN Sweep(table, q, retention, t) \subseteq DOMAIN table
      /\ \A s \in DOMAIN Sweep(table, q, retention, t) :
            Sweep(table, q, retention, t)[s].id = table[s].id
  BY DEF Sweep
<1>2. QED
  BY <1>1, FewerIds

(* A new message is named after its sequence number, which no row and no   *)
(* message has had before (insert_message).                                *)
LEMMA InsertIds ==
    ASSUME NEW table, NEW next \in Nat \ {0}, IsTable(table, next),
           DistinctIds(table, next), NEW row, row.id = next
    PROVE  DistinctIds(Insert(table, next, row), next + 1)
<1>1. \A s \in DOMAIN table : table[s].id \in Nat /\ table[s].id < next /\ s # next
  BY DEF IsTable, Row, DistinctIds, IdsBelow
<1>2. /\ DOMAIN Insert(table, next, row) = DOMAIN table \cup {next}
      /\ Insert(table, next, row)[next].id = next
      /\ \A s \in DOMAIN table : Insert(table, next, row)[s] = table[s]
  BY <1>1 DEF Insert
<1>3. IdsBelow(Insert(table, next, row), next + 1)
  BY <1>1, <1>2 DEF IdsBelow
<1>4. UniqueIds(Insert(table, next, row))
  BY <1>1, <1>2 DEF UniqueIds, DistinctIds
<1>5. QED
  BY <1>3, <1>4 DEF DistinctIds

(* A moved row keeps its id while its old row is deleted, or gets a new    *)
(* one (move_message).                                                     *)
LEMMA MoveIds ==
    ASSUME NEW table, NEW next \in Nat \ {0}, IsTable(table, next),
           DistinctIds(table, next), NEW s \in DOMAIN table,
           NEW row \in Row, row.id \in {table[s].id, next}
    PROVE  DistinctIds(Move(table, s, next, row), next + 1)
<1>1. \A x \in DOMAIN table : table[x].id \in Nat /\ table[x].id < next /\ x # next
  BY DEF IsTable, Row, DistinctIds, IdsBelow
<1>2. /\ DOMAIN Move(table, s, next, row) = (DOMAIN table \ {s}) \cup {next}
      /\ Move(table, s, next, row)[next] = row
      /\ \A x \in DOMAIN table \ {s} : Move(table, s, next, row)[x] = table[x]
  BY <1>1 DEF Move, Insert, Remove
<1>3. IdsBelow(Move(table, s, next, row), next + 1)
  BY <1>1, <1>2 DEF IdsBelow
<1>4. \A x \in DOMAIN table \ {s} : table[x].id # row.id
  BY <1>1 DEF DistinctIds, UniqueIds
<1>5. UniqueIds(Move(table, s, next, row))
  BY <1>1, <1>2, <1>4 DEF UniqueIds, DistinctIds
<1>6. QED
  BY <1>3, <1>5 DEF DistinctIds
-----------------------------------------------------------------------------
(* Receive attempts.                                                       *)

(* The triggers change neither the queue, the id nor the age of attempts.  *)
LEMMA InvalidateKeeps ==
    ASSUME NEW table \in SUBSET Attempt, NEW handles,
           NEW b \in Invalidate(table, handles)
    PROVE  \E a \in table : b.queue = a.queue /\ b.id = a.id /\ b.created = a.created
<1>1. PICK a \in table :
        b = IF a.members \cap handles = {} THEN a ELSE [a EXCEPT !.valid = FALSE]
  BY DEF Invalidate
<1>2. a \in Attempt
  OBVIOUS
<1>3. QED
  BY <1>1, <1>2 DEF Attempt

(* So they create no twins.                                                *)
LEMMA InvalidateTwins ==
    ASSUME NEW table \in SUBSET Attempt, NoTwins(table), NEW handles
    PROVE  NoTwins(Invalidate(table, handles))
<1> SUFFICES ASSUME NEW b1 \in Invalidate(table, handles),
                    NEW b2 \in Invalidate(table, handles),
                    b1.queue = b2.queue, b1.id = b2.id
             PROVE  b1 = b2
  BY DEF NoTwins
<1>1. PICK a1 \in table :
        b1 = IF a1.members \cap handles = {} THEN a1
                                             ELSE [a1 EXCEPT !.valid = FALSE]
  BY DEF Invalidate
<1>2. PICK a2 \in table :
        b2 = IF a2.members \cap handles = {} THEN a2
                                             ELSE [a2 EXCEPT !.valid = FALSE]
  BY DEF Invalidate
<1>3. a1 \in Attempt /\ a2 \in Attempt
  OBVIOUS
<1>4. b1.queue = a1.queue /\ b1.id = a1.id
  BY <1>1, <1>3 DEF Attempt
<1>5. b2.queue = a2.queue /\ b2.id = a2.id
  BY <1>2, <1>3 DEF Attempt
<1>6. a1 = a2
  BY <1>4, <1>5 DEF NoTwins
<1>7. QED
  BY <1>1, <1>2, <1>6

(* The attempts table of a receive transaction has no twins, and an attempt*)
(* that replay_attempt did not find is not there.                          *)
LEMMA AttemptsForTwins ==
    ASSUME TypeOK, NoTwins(attempts), NEW table, NEW q, NEW t
    PROVE  /\ NoTwins(AttemptsFor(table, q, t))
           /\ \A b \in AttemptsFor(table, q, t) :
                \E a \in PruneAttempts(attempts, q, t) :
                    b.queue = a.queue /\ b.id = a.id
           /\ \A a \in PruneAttempts(attempts, q, t) :
                \E b \in AttemptsFor(table, q, t) :
                    b.queue = a.queue /\ b.id = a.id
<1> DEFINE handles == LostHandles(messages, table)
<1>1. attempts \in SUBSET Attempt
  BY DEF TypeOK
<1> HIDE DEF handles
<1>2. NoTwins(Invalidate(attempts, handles))
  BY <1>1, InvalidateTwins
<1>3. AttemptsFor(table, q, t) = PruneAttempts(Invalidate(attempts, handles), q, t)
  BY DEF AttemptsFor, handles
<1>4. NoTwins(AttemptsFor(table, q, t))
  BY <1>2, <1>3 DEF PruneAttempts, NoTwins
<1>5. ASSUME NEW b \in AttemptsFor(table, q, t)
      PROVE  \E a \in PruneAttempts(attempts, q, t) :
                b.queue = a.queue /\ b.id = a.id
  <2>1. b \in Invalidate(attempts, handles) /\ (b.queue = q => b.created > t - AttemptWindow)
    BY <1>3 DEF PruneAttempts
  <2>2. PICK a \in attempts :
          b.queue = a.queue /\ b.id = a.id /\ b.created = a.created
    BY <1>1, <2>1, InvalidateKeeps
  <2>3. QED
    BY <2>1, <2>2 DEF PruneAttempts
<1>6. ASSUME NEW a \in PruneAttempts(attempts, q, t)
      PROVE  \E b \in AttemptsFor(table, q, t) :
                b.queue = a.queue /\ b.id = a.id
  <2>1. a \in attempts /\ a \in Attempt /\ (a.queue = q => a.created > t - AttemptWindow)
    BY <1>1 DEF PruneAttempts
  <2> DEFINE b == IF a.members \cap handles = {} THEN a
                                                 ELSE [a EXCEPT !.valid = FALSE]
  <2>2. b \in Invalidate(attempts, handles)
    BY <2>1 DEF Invalidate
  <2>3. b.queue = a.queue /\ b.id = a.id /\ b.created = a.created
    BY <2>1 DEF Attempt
  <2> HIDE DEF b
  <2>4. b \in AttemptsFor(table, q, t)
    BY <1>3, <2>1, <2>2, <2>3 DEF PruneAttempts
  <2>5. QED
    BY <2>3, <2>4
<1>7. QED
  BY <1>4, <1>5, <1>6
-----------------------------------------------------------------------------
(* The parts of ConstraintsInv, as the steps below use them.               *)
LEMMA ConstraintsParts ==
    ConstraintsInv <=>
        /\ DistinctIds(messages, nextSequence) /\ DistinctIds(work, workNext)
        /\ NoTwinKeys(keys) /\ NoTwins(attempts)
        /\ tx.kind = "receive" => AttemptIsNew
BY DEF ConstraintsInv, ConstraintsNeverTrip, DistinctIds, NoTwinKeys, NoTwins

(* An operation outside transactions leaves the transaction alone.         *)
LEMMA IdleConstraints ==
    ASSUME TypeOK, ConstraintsInv, tx = Idle, UNCHANGED txVars,
           DistinctIds(messages', nextSequence'), NoTwinKeys(keys'),
           NoTwins(attempts')
    PROVE  ConstraintsInv'
<1>1. tx'.kind = "idle"
  BY DEF txVars, Idle
<1>2. DistinctIds(work', workNext')
  BY ConstraintsParts DEF txVars
<1>3. QED
  BY <1>1, <1>2
     DEF ConstraintsInv, ConstraintsNeverTrip, DistinctIds, NoTwinKeys, NoTwins,
         UniqueIds, IdsBelow

(* A finished transaction leaves an empty table behind.                    *)
LEMMA FinishedConstraints ==
    ASSUME tx' = Idle, work' = EmptyTable,
           DistinctIds(messages', nextSequence'), NoTwinKeys(keys'),
           NoTwins(attempts')
    PROVE  ConstraintsInv'
<1>1. tx'.kind = "idle"
  BY DEF Idle
<1>2. DistinctIds(work', workNext')
  BY EmptyIsTable DEF DistinctIds, UniqueIds, IdsBelow
<1>3. QED
  BY <1>1, <1>2
     DEF ConstraintsInv, ConstraintsNeverTrip, DistinctIds, NoTwinKeys, NoTwins,
         UniqueIds, IdsBelow
-----------------------------------------------------------------------------
(* ConstraintsInv is inductive: one lemma per group of operations.         *)

(* A send adds a fresh id, and its key only when find_duplicate found none *)
(* for the same queue, deduplication id and group.                         *)
LEMMA SendConstraints ==
    ASSUME TypeOK, ConstraintsInv, NEW q \in Queue, NEW t \in Nat, SendTo(q, t)
    PROVE  ConstraintsInv'
<1>1. /\ DistinctIds(messages, nextSequence) /\ NoTwinKeys(keys)
      /\ NoTwins(attempts)
  BY ConstraintsParts
<1>2. DistinctIds(SweptQueue(q, t), nextSequence)
  BY <1>1, SweepIds DEF SweptQueue
<1>3. /\ IsTable(SweptQueue(q, t), nextSequence) /\ nextSequence \in Nat \ {0}
      /\ attempts \in SUBSET Attempt
  BY SweptQueueType DEF TypeOK
<1>4. ASSUME NEW g, NEW d, NEW delay, Enqueue(q, g, d, delay, t)
      PROVE  DistinctIds(messages', nextSequence') /\ NoTwins(attempts')
  <2> DEFINE row == NewRow(nextSequence, q, g, d, t, delay)
  <2>1. row.id = nextSequence
    BY DEF NewRow
  <2>2. /\ messages' = Insert(SweptQueue(q, t), nextSequence, row)
        /\ nextSequence' = nextSequence + 1
        /\ attempts' = Invalidate(attempts, LostHandles(messages, SweptQueue(q, t)))
    BY <1>4 DEF Enqueue
  <2> HIDE DEF row
  <2>3. DistinctIds(messages', nextSequence')
    BY <1>2, <1>3, <2>1, <2>2, InsertIds
  <2>4. QED
    BY <1>1, <1>3, <2>2, <2>3, InvalidateTwins
<1>5. ASSUME NEW g, NEW delay, SendStandard(q, g, delay, t)
      PROVE  ConstraintsInv'
  BY <1>1, <1>4, <1>5, IdleConstraints DEF SendStandard
<1>6. ASSUME NEW g, NEW d, SendFifo(q, g, d, t)
      PROVE  ConstraintsInv'
  <2> DEFINE new == [queue |-> q, dedup |-> d, group |-> g,
                     message |-> nextSequence, seen |-> t]
  <2>1. keys' = FreshKeys(q, t) \cup {new} /\ Duplicates(q, g, d, t) = {}
    BY <1>6 DEF SendFifo
  <2>2. \A k \in FreshKeys(q, t) : k.queue = q /\ k.dedup = d => k.group # g
    BY <2>1 DEF Duplicates
  <2>3. new.queue = q /\ new.dedup = d /\ new.group = g
    OBVIOUS
  <2>4. FreshKeys(q, t) \subseteq keys
    BY DEF FreshKeys
  <2> HIDE DEF new
  <2>5. NoTwinKeys(keys')
    BY <1>1, <2>1, <2>2, <2>3, <2>4 DEF NoTwinKeys
  <2>6. QED
    BY <1>4, <1>6, <2>5, IdleConstraints DEF SendFifo
<1>7. ASSUME NEW g, NEW d, SendDuplicate(q, g, d, t)
      PROVE  ConstraintsInv'
  <2>1. NoTwinKeys(keys')
    BY <1>1, <1>7 DEF SendDuplicate, FreshKeys, NoTwinKeys
  <2>2. NoTwins(attempts')
    BY <1>1, <1>3, <1>7, InvalidateTwins DEF SendDuplicate
  <2>3. QED
    BY <1>2, <1>7, <2>1, <2>2, IdleConstraints DEF SendDuplicate
<1>8. QED
  BY <1>5, <1>6, <1>7 DEF SendTo

(* Replays and receives over the limit.                                    *)
LEMMA ReceiveConstraints ==
    ASSUME TypeOK, ConstraintsInv, NEW q \in Queue, NEW a, NEW fingerprint,
           ReplayAttempt(q, a, fingerprint) \/ ReceiveOverLimit(q)
    PROVE  ConstraintsInv'
<1>1. /\ DistinctIds(messages, nextSequence) /\ NoTwinKeys(keys)
      /\ NoTwins(attempts)
  BY ConstraintsParts
<1>2. DistinctIds(SweptQueue(q, now), nextSequence)
  BY <1>1, SweepIds DEF SweptQueue
<1>3. NoTwins(AttemptsFor(SweptQueue(q, now), q, now))
  BY <1>1, AttemptsForTwins
<1>4. CASE ReceiveOverLimit(q)
  BY <1>1, <1>2, <1>3, <1>4, IdleConstraints DEF ReceiveOverLimit
<1>5. CASE ReplayAttempt(q, a, fingerprint)
  <2>1. PICK r :
          messages' = [s \in DOMAIN SweptQueue(q, now) |->
              IF s \in {x \in RowsOf(SweptQueue(q, now), q) :
                          SweptQueue(q, now)[x].handle \in r.members}
              THEN [SweptQueue(q, now)[s] EXCEPT !.invisible = now + r.visibility]
              ELSE SweptQueue(q, now)[s]]
    BY <1>5 DEF ReplayAttempt
  <2>2. DOMAIN messages' = DOMAIN SweptQueue(q, now)
    BY <2>1
  <2>3. ASSUME NEW s \in DOMAIN SweptQueue(q, now)
        PROVE  messages'[s].id = SweptQueue(q, now)[s].id
    <3>1. messages'[s] \in {SweptQueue(q, now)[s],
                            [SweptQueue(q, now)[s] EXCEPT !.invisible = now + r.visibility]}
      BY <2>1
    <3>2. SweptQueue(q, now)[s] \in Row
      BY SweptQueueType DEF IsTable
    <3>3. QED
      BY <3>1, <3>2 DEF Row
  <2>4. DistinctIds(messages', nextSequence)
    BY <1>2, <2>2, <2>3, FewerIds
  <2>5. QED
    BY <1>1, <1>3, <1>5, <2>4, IdleConstraints DEF ReplayAttempt
<1>6. QED
  BY <1>4, <1>5

(* A deletion takes away ids and handles only.                             *)
LEMMA DeleteConstraints ==
    ASSUME TypeOK, ConstraintsInv, NEW s, Delete(s)
    PROVE  ConstraintsInv'
<1>1. /\ DistinctIds(messages, nextSequence) /\ NoTwinKeys(keys)
      /\ NoTwins(attempts) /\ attempts \in SUBSET Attempt
  BY ConstraintsParts DEF TypeOK
<1>2. DistinctIds(messages', nextSequence)
  BY <1>1, FewerIds DEF Delete, Remove
<1>3. NoTwins(attempts')
  BY <1>1, InvalidateTwins DEF Delete
<1>4. QED
  BY <1>1, <1>2, <1>3, IdleConstraints DEF Delete

(* A visibility change keeps the ids, whatever clock reading it is given.  *)
LEMMA ChangeVisibilityConstraints ==
    ASSUME TypeOK, ConstraintsInv, NEW s, NEW timeout, NEW t,
           ChangeVisibility(s, timeout, t)
    PROVE  ConstraintsInv'
<1>1. /\ DistinctIds(messages, nextSequence) /\ NoTwinKeys(keys)
      /\ NoTwins(attempts)
      /\ attempts \in SUBSET Attempt /\ messages \in [DOMAIN messages -> Row]
  BY ConstraintsParts DEF TypeOK, IsTable
<1>2. messages' = [messages EXCEPT ![s].invisible = t + timeout]
  BY DEF ChangeVisibility
<1>3. DOMAIN messages' = DOMAIN messages
  BY <1>2
<1>4. \A x \in DOMAIN messages' : messages'[x].id = messages[x].id
  BY <1>1, <1>2 DEF Row
<1>5. DistinctIds(messages', nextSequence)
  BY <1>1, <1>3, <1>4, FewerIds
<1>6. NoTwins(attempts')
  BY <1>1, InvalidateTwins DEF ChangeVisibility
<1>7. QED
  BY <1>1, <1>5, <1>6, IdleConstraints DEF ChangeVisibility

(* Deletions, visibility changes, attribute changes and purges.            *)
LEMMA ManageConstraints ==
    ASSUME TypeOK, ConstraintsInv, QueueStoreAssumption, Manage
    PROVE  ConstraintsInv'
<1>1. /\ DistinctIds(messages, nextSequence) /\ NoTwinKeys(keys)
      /\ NoTwins(attempts)
      /\ attempts \in SUBSET Attempt /\ messages \in [DOMAIN messages -> Row]
  BY ConstraintsParts DEF TypeOK, IsTable
<1>2. ASSUME NEW s, Delete(s)
      PROVE  ConstraintsInv'
  BY <1>2, DeleteConstraints
<1>3. ASSUME NEW s, NEW timeout, ChangeVisibility(s, timeout, now)
      PROVE  ConstraintsInv'
  BY <1>3, ChangeVisibilityConstraints
<1>4. ASSUME NEW q, NEW c, SetQueueAttributes(q, c)
      PROVE  ConstraintsInv'
  <2> DEFINE retimed == Retimed(q, c.delay)
  <2>1. DOMAIN retimed = DOMAIN messages
    BY DEF Retimed
  <2>2. \A x \in DOMAIN retimed : retimed[x].id = messages[x].id
    BY <1>1 DEF Retimed, Row
  <2>3. messages' = Sweep(retimed, q, c.retention, now)
    BY <1>4 DEF SetQueueAttributes
  <2> HIDE DEF retimed
  <2>4. DistinctIds(messages', nextSequence)
    BY <1>1, <2>1, <2>2, <2>3, FewerIds, SweepIds
  <2>5. NoTwins(attempts')
    BY <1>1, <1>4, InvalidateTwins DEF SetQueueAttributes
  <2>6. QED
    BY <1>1, <1>4, <2>4, <2>5, IdleConstraints DEF SetQueueAttributes
<1>5. ASSUME NEW q, PurgeQueue(q)
      PROVE  ConstraintsInv'
  <2>1. DistinctIds(messages', nextSequence)
    <3>1. /\ DOMAIN messages' \subseteq DOMAIN messages
          /\ \A x \in DOMAIN messages' : messages'[x].id = messages[x].id
      BY <1>5 DEF PurgeQueue, Remove
    <3>2. QED
      BY <1>1, <3>1, FewerIds
  <2> DEFINE invalid == Invalidate(attempts, LostHandles(messages,
                                   Remove(messages, RowsOf(messages, q))))
  <2>2. NoTwins(invalid) /\ invalid \subseteq Attempt
    BY <1>1, InvalidateTwins, InvalidateType
  <2>3. attempts' = {IF a.queue = q THEN [a EXCEPT !.valid = FALSE] ELSE a :
                        a \in invalid}
    BY <1>5 DEF PurgeQueue
  <2> HIDE DEF invalid
  <2>4. ASSUME NEW b \in attempts'
        PROVE  \E a \in invalid :
                  /\ b = IF a.queue = q THEN [a EXCEPT !.valid = FALSE] ELSE a
                  /\ b.queue = a.queue /\ b.id = a.id
    <3>1. PICK a \in invalid :
            b = IF a.queue = q THEN [a EXCEPT !.valid = FALSE] ELSE a
      BY <2>3
    <3>2. a \in Attempt
      BY <2>2
    <3>3. b.queue = a.queue /\ b.id = a.id
      BY <3>1, <3>2 DEF Attempt
    <3>4. QED
      BY <3>1, <3>3
  <2>5. NoTwins(attempts')
    <3> SUFFICES ASSUME NEW b1 \in attempts', NEW b2 \in attempts',
                        b1.queue = b2.queue, b1.id = b2.id
                 PROVE  b1 = b2
      BY DEF NoTwins
    <3>1. PICK a1 \in invalid :
            /\ b1 = IF a1.queue = q THEN [a1 EXCEPT !.valid = FALSE] ELSE a1
            /\ b1.queue = a1.queue /\ b1.id = a1.id
      BY <2>4
    <3>2. PICK a2 \in invalid :
            /\ b2 = IF a2.queue = q THEN [a2 EXCEPT !.valid = FALSE] ELSE a2
            /\ b2.queue = a2.queue /\ b2.id = a2.id
      BY <2>4
    <3>3. a1 = a2
      BY <2>2, <3>1, <3>2 DEF NoTwins
    <3>4. QED
      BY <3>1, <3>2, <3>3
  <2>6. QED
    BY <1>1, <1>5, <2>1, <2>5, IdleConstraints DEF PurgeQueue
<1>6. QED
  BY <1>2, <1>3, <1>4, <1>5 DEF Manage

(* A receive goes on only when no stored attempt has its id.               *)
LEMMA BeginReceiveConstraints ==
    ASSUME TypeOK, ConstraintsInv, NEW q \in Queue, NEW max, NEW option, NEW a,
           NEW cacheEmpty, BeginReceive(q, max, option, a, cacheEmpty)
    PROVE  ConstraintsInv'
<1>1. /\ DistinctIds(messages, nextSequence) /\ NoTwinKeys(keys)
      /\ NoTwins(attempts)
  BY ConstraintsParts
<1>2. DistinctIds(SweptQueue(q, now), nextSequence)
  BY <1>1, SweepIds DEF SweptQueue
<1>3. /\ work' = SweptQueue(q, now) /\ workNext' = nextSequence
      /\ UNCHANGED <<messages, nextSequence, keys, attempts>>
      /\ tx'.queue = q /\ tx'.at = now /\ tx'.attempt = a
      /\ a # NoAttempt => Known(q, a) = {}
  BY DEF BeginReceive, store
<1>4. a # NoAttempt =>
        \A r \in PruneAttempts(attempts, q, now) : r.queue # q \/ r.id # a
  BY <1>1, <1>3, AttemptsForTwins DEF Known
<1>5. AttemptIsNew'
  BY <1>3, <1>4 DEF AttemptIsNew, PruneAttempts
<1>6. QED
  BY <1>1, <1>2, <1>3, <1>5
     DEF ConstraintsInv, ConstraintsNeverTrip, DistinctIds, NoTwinKeys, NoTwins,
         UniqueIds, IdsBelow

(* A redrive starts from the swept queues.                                 *)
LEMMA BeginRedriveConstraints ==
    ASSUME TypeOK, ConstraintsInv, NEW dlq, NEW source, NEW max,
           BeginRedrive(dlq, source, max)
    PROVE  ConstraintsInv'
<1>1. /\ DistinctIds(messages, nextSequence) /\ NoTwinKeys(keys)
      /\ NoTwins(attempts)
  BY ConstraintsParts
<1>2. /\ work' = Sweep(SweptQueue(dlq, now), source, settings[source].retention, now)
      /\ workNext' = nextSequence /\ tx'.kind = "redrive"
      /\ UNCHANGED <<messages, nextSequence, keys, attempts>>
  BY DEF BeginRedrive, store
<1>3. DistinctIds(work', workNext')
  BY <1>1, <1>2, SweepIds DEF SweptQueue
<1>4. QED
  BY <1>1, <1>2, <1>3
     DEF ConstraintsInv, ConstraintsNeverTrip, DistinctIds, NoTwinKeys, NoTwins,
         UniqueIds, IdsBelow

(* A delivery keeps the id of the row.                                     *)
LEMMA DeliverNextConstraints ==
    ASSUME TypeOK, ConstraintsInv, NEW s \in DOMAIN work, DeliverNext(s)
    PROVE  ConstraintsInv'
<1>1. /\ DistinctIds(messages, nextSequence) /\ DistinctIds(work, workNext)
      /\ NoTwinKeys(keys) /\ NoTwins(attempts)
      /\ tx.kind = "receive" => AttemptIsNew
  BY ConstraintsParts
<1>2. /\ tx \in ReceiveTx /\ tx.kind = "receive" /\ work \in [DOMAIN work -> Row]
  BY TxKinds DEF DeliverNext, TypeOK, IsTable
<1>3. /\ DOMAIN work' = DOMAIN work
      /\ \A x \in DOMAIN work : work'[x].id = work[x].id
  BY <1>2 DEF DeliverNext, DeliveredRow, Row
<1>4. UNCHANGED <<messages, nextSequence, keys, attempts, workNext>>
  BY DEF DeliverNext, store
<1>5. DistinctIds(work', workNext')
  BY <1>1, <1>3, <1>4, FewerIds
<1>6. tx'.queue = tx.queue /\ tx'.at = tx.at /\ tx'.attempt = tx.attempt
  BY <1>2 DEF DeliverNext, ReceiveTx
<1>7. AttemptIsNew'
  BY <1>1, <1>2, <1>4, <1>6 DEF AttemptIsNew, PruneAttempts
<1>8. QED
  BY <1>1, <1>4, <1>5, <1>7
     DEF ConstraintsInv, ConstraintsNeverTrip, DistinctIds, NoTwinKeys, NoTwins,
         UniqueIds, IdsBelow

(* The id of a dead-lettered row stays, that of a redriven one is new.     *)
LEMMA MoveConstraints ==
    ASSUME TypeOK, ConstraintsInv, NEW s \in DOMAIN work,
           DeadLetterNext(s) \/ RedriveNext(s)
    PROVE  ConstraintsInv'
<1>1. /\ DistinctIds(messages, nextSequence) /\ DistinctIds(work, workNext)
      /\ NoTwinKeys(keys) /\ NoTwins(attempts)
      /\ tx.kind = "receive" => AttemptIsNew
  BY ConstraintsParts
<1>2. IsTable(work, workNext) /\ workNext \in Nat \ {0} /\ work[s] \in Row
  BY DEF TypeOK, IsTable
<1>3. PICK row \in Row : MoveRow(s, row) /\ row.id \in {work[s].id, workNext}
  <2>1. CASE DeadLetterNext(s)
    <3>1. DeadLetterRow(work[s], tx.queue, tx.at) \in Row
      BY <1>2, <2>1, TxKinds, DeadLetterRowType
         DEF DeadLetterNext, Exhausted, ReceiveTx
    <3>2. DeadLetterRow(work[s], tx.queue, tx.at).id = work[s].id
      BY <1>2 DEF DeadLetterRow, Row
    <3>3. QED
      BY <2>1, <3>1, <3>2 DEF DeadLetterNext
  <2>2. CASE RedriveNext(s)
    <3> DEFINE row == NewRow(workNext, tx.source, work[s].group, work[s].dedup,
                             tx.at, settings[tx.source].delay)
    <3>1. tx.source \in Queue /\ tx.at \in Nat
      BY <2>2, TxKinds DEF RedriveNext, RedriveTx
    <3>2. /\ settings[tx.source].delay \in Nat
          /\ work[s].group \in Group /\ work[s].dedup \in DedupId \cup {NoDedupId}
      BY <1>2, <3>1 DEF TypeOK, Settings, Row
    <3>3. row \in Row
      BY <1>2, <3>1, <3>2, NewRowType
    <3>4. row.id = workNext /\ MoveRow(s, row)
      BY <2>2 DEF NewRow, RedriveNext
    <3>5. QED
      BY <3>3, <3>4
  <2>3. QED
    BY <2>1, <2>2
<1>4. work' = Move(work, s, workNext, row) /\ workNext' = workNext + 1
  BY <1>3 DEF MoveRow
<1>5. DistinctIds(Move(work, s, workNext, row), workNext + 1)
  <2>1. /\ IsTable(work, workNext) /\ workNext \in Nat \ {0}
        /\ DistinctIds(work, workNext) /\ row.id \in {work[s].id, workNext}
    BY <1>1, <1>2, <1>3
  <2>2. QED
    BY ONLY s \in DOMAIN work, row \in Row, <2>1, MoveIds
<1>6. UNCHANGED <<messages, nextSequence, keys, attempts>>
  BY DEF DeadLetterNext, RedriveNext, store
<1>7. tx'.kind = "receive" => AttemptIsNew'
  <2>1. CASE DeadLetterNext(s)
    BY <1>1, <1>6, <2>1 DEF DeadLetterNext, AttemptIsNew, PruneAttempts
  <2>2. CASE RedriveNext(s)
    <3>1. tx'.kind = "redrive"
      BY <2>2, TxKinds DEF RedriveNext, RedriveTx
    <3>2. QED
      BY <3>1
  <2>3. QED
    BY <2>1, <2>2
<1>8. DistinctIds(work', workNext')
  BY <1>4, <1>5
<1>9. QED
  BY <1>1, <1>6, <1>7, <1>8
     DEF ConstraintsInv, ConstraintsNeverTrip, DistinctIds, NoTwinKeys, NoTwins,
         UniqueIds, IdsBelow

(* save_attempt adds an attempt whose id the queue has not stored.         *)
LEMMA CommitReceiveConstraints ==
    ASSUME TypeOK, ConstraintsInv, CommitReceive
    PROVE  ConstraintsInv'
<1>1. /\ DistinctIds(work, workNext) /\ NoTwinKeys(keys)
      /\ NoTwins(attempts) /\ AttemptIsNew
  BY ConstraintsParts DEF CommitReceive
<1>2. /\ messages' = work /\ nextSequence' = workNext /\ UNCHANGED keys
      /\ attempts' = AttemptsFor(work, tx.queue, tx.at) \cup SavedAttempt
      /\ tx' = Idle /\ work' = EmptyTable
  BY DEF CommitReceive
<1>3. \A a \in SavedAttempt : /\ a.queue = tx.queue /\ a.id = tx.attempt
                              /\ tx.attempt # NoAttempt
  BY DEF SavedAttempt
<1>4. \A a1, a2 \in SavedAttempt : a1 = a2
  BY DEF SavedAttempt
<1>5. NoTwins(AttemptsFor(work, tx.queue, tx.at))
  BY <1>1, AttemptsForTwins
<1>6. \A b \in AttemptsFor(work, tx.queue, tx.at), a \in SavedAttempt :
        b.queue # a.queue \/ b.id # a.id
  BY <1>1, <1>3, AttemptsForTwins DEF AttemptIsNew
<1>7. NoTwins(attempts')
  BY <1>2, <1>4, <1>5, <1>6 DEF NoTwins
<1>8. QED
  BY <1>1, <1>2, <1>7, FinishedConstraints

(* The other ends of transactions.                                         *)
LEMMA EndConstraints ==
    ASSUME TypeOK, ConstraintsInv, CommitRedrive \/ Rollback
    PROVE  ConstraintsInv'
<1>1. /\ DistinctIds(work, workNext) /\ DistinctIds(messages, nextSequence)
      /\ NoTwinKeys(keys) /\ NoTwins(attempts)
  BY ConstraintsParts
<1>2. CASE CommitRedrive
  <2>1. attempts \in SUBSET Attempt
    BY DEF TypeOK
  <2>2. NoTwins(attempts')
    BY <1>1, <1>2, <2>1, InvalidateTwins DEF CommitRedrive
  <2>3. QED
    BY <1>1, <1>2, <2>2, FinishedConstraints DEF CommitRedrive
<1>3. CASE Rollback
  BY <1>1, <1>3, FinishedConstraints DEF Rollback, store
<1>4. QED
  BY <1>2, <1>3

(* Every step keeps the constraints.                                       *)
LEMMA ConstraintsStep ==
    ASSUME TypeOK, ConstraintsInv, QueueStoreAssumption, [Next]_vars
    PROVE  ConstraintsInv'
<1>1. CASE Send
  BY <1>1, SendConstraints DEF Send, TypeOK, QueueStoreAssumption
<1>2. CASE StartReceive
  BY <1>2, BeginReceiveConstraints, ReceiveConstraints DEF StartReceive
<1>3. CASE \E q \in Queue : ReceiveOverLimit(q)
  BY <1>3, ReceiveConstraints
<1>4. CASE RunReceive
  BY <1>4, DeliverNextConstraints, MoveConstraints, CommitReceiveConstraints
     DEF RunReceive
<1>5. CASE Rollback
  BY <1>5, EndConstraints
<1>6. CASE Redrive
  BY <1>6, BeginRedriveConstraints, MoveConstraints, EndConstraints DEF Redrive
<1>7. CASE Manage
  BY <1>7, ManageConstraints
<1>8. CASE Tick \/ UNCHANGED vars
  BY <1>8 DEF Tick, vars, store, txVars, ConstraintsInv, ConstraintsNeverTrip,
     UniqueIds, IdsBelow, AttemptIsNew, PruneAttempts
<1>9. QED
  BY <1>1, <1>2, <1>3, <1>4, <1>5, <1>6, <1>7, <1>8 DEF Next, Operation

(* An empty database breaks none.                                          *)
LEMMA ConstraintsStart == Init => ConstraintsInv
BY EmptyIsTable DEF Init, ConstraintsInv, ConstraintsNeverTrip, UniqueIds,
   IdsBelow, Idle

(* So they hold throughout.                                                *)
LEMMA ConstraintsAlways == Spec => []ConstraintsInv
<1>1. Init => ConstraintsInv
  BY ConstraintsStart
<1>2. TypeOK /\ ConstraintsInv /\ [Next]_vars => ConstraintsInv'
  BY ConstraintsStep, QueueStoreAssumption
<1>3. QED
  BY <1>1, <1>2, TypeCorrect, PTL DEF Spec

(* The message_id UNIQUE constraint and the primary keys of                *)
(* deduplication_keys and receive_attempts never trip.                     *)
THEOREM ConstraintsHold == Spec => []ConstraintsNeverTrip
<1>1. ConstraintsInv => ConstraintsNeverTrip
  BY DEF ConstraintsInv
<1>2. QED
  BY <1>1, ConstraintsAlways, PTL
-----------------------------------------------------------------------------
(* A receive keeps the messages it does not expire.                        *)

(* The rows that the receive keeps are committed rows, as they are.        *)
LEMMA KeptAreCommitted ==
    /\ DOMAIN KeptRows \subseteq DOMAIN messages
    /\ \A s \in DOMAIN KeptRows : KeptRows[s] = messages[s]
    /\ \A s \in RowsOf(KeptRows, tx.queue) :
        ~Expired(messages[s], settings[tx.queue].retention, tx.at)
BY DEF KeptRows, Sweep, RowsOf

(* They stay the same while it runs.                                       *)
LEMMA KeptStay ==
    ASSUME UNCHANGED <<messages, settings>>, tx'.queue = tx.queue, tx'.at = tx.at
    PROVE  KeptRows' = KeptRows
BY DEF KeptRows, Sweep, Expired

(* It starts with all of them.                                             *)
LEMMA BeginReceiveKeeps ==
    ASSUME TypeOK, NEW q \in Queue, NEW max, NEW option, NEW a, NEW cacheEmpty,
           BeginReceive(q, max, option, a, cacheEmpty)
    PROVE  ReceiveInv'
<1>1. /\ work' = SweptQueue(q, now) /\ UNCHANGED <<messages, settings, nextSequence>>
      /\ tx'.kind = "receive" /\ tx'.queue = q /\ tx'.at = now /\ tx'.received = {}
  BY DEF BeginReceive, store
<1>2. KeptRows' = work'
  BY <1>1 DEF KeptRows, SweptQueue, Sweep, Expired
<1>3. IsTable(work', nextSequence') /\ nextSequence' \in Nat
  BY <1>1, SweptQueueType DEF TypeOK
<1>4. ASSUME NEW n \in DOMAIN work'
      PROVE  n < nextSequence' /\ work'[n].total + 0 = work'[n].total
  BY <1>3 DEF IsTable, Row
<1>5. \A n \in DOMAIN work' : n < nextSequence' /\ ~(n >= nextSequence')
  BY <1>3, <1>4 DEF IsTable
<1>6. QED
  BY <1>1, <1>2, <1>4, <1>5 DEF ReceiveInv

(* A delivery adds one to the total receive count of one row               *)
(* (deliver_candidate).                                                    *)
LEMMA DeliverNextKeeps ==
    ASSUME TransactionInv, MovesLeaveQueue, ReceiveInv, NEW s \in DOMAIN work,
           DeliverNext(s)
    PROVE  ReceiveInv'
<1>1. /\ tx \in ReceiveTx /\ tx.kind = "receive" /\ tx # Idle
      /\ IsTable(work, workNext) /\ workNext \in Nat /\ nextSequence \in Nat
  BY TxKinds DEF DeliverNext, TransactionInv, TypeOK, Idle
<1>2. work[s] \in Row /\ s \in Nat
  BY <1>1 DEF IsTable
<1>3. /\ DOMAIN work' = DOMAIN work
      /\ \A x \in DOMAIN work : work'[x].id = work[x].id
      /\ \A x \in DOMAIN work \ {s} : work'[x] = work[x]
      /\ work'[s].total = work[s].total + 1
  BY <1>1, <1>2 DEF DeliverNext, DeliveredRow, Row
<1>4. /\ tx' = [tx EXCEPT !.received = tx.received \cup {s}, !.preferred = tx'.preferred]
      /\ UNCHANGED <<messages, settings, nextSequence>>
  BY <1>1 DEF DeliverNext, ReceiveTx, store
<1>5. /\ tx'.kind = "receive" /\ tx'.queue = tx.queue /\ tx'.at = tx.at
      /\ tx'.received = tx.received \cup {s}
  BY <1>1, <1>4 DEF ReceiveTx
<1>6. work[s].queue = tx.queue /\ s \notin tx.received
  BY DEF DeliverNext, IsNext, Candidates, Receivable, RowsOf, AlreadyReceived
<1>7. s < nextSequence
  BY <1>1, <1>2, <1>6 DEF MovesLeaveQueue
<1>8. KeptRows' = KeptRows
  BY <1>4, <1>5, KeptStay
<1>9. IdsOf(work') = IdsOf(work)
  BY <1>3 DEF IdsOf
<1>10. ASSUME NEW n \in DOMAIN work', n < nextSequence'
       PROVE  /\ n \in DOMAIN KeptRows'
              /\ work'[n].id = KeptRows'[n].id
              /\ work'[n].total = KeptRows'[n].total + IF n \in tx'.received THEN 1 ELSE 0
  <2>1. /\ n \in DOMAIN KeptRows /\ work[n].id = KeptRows[n].id
        /\ work[n].total = KeptRows[n].total + IF n \in tx.received THEN 1 ELSE 0
    BY <1>1, <1>3, <1>4, <1>10 DEF ReceiveInv
  <2>2. CASE n = s
    <3>1. KeptRows[s].total \in Nat
      BY <2>1, <2>2, KeptAreCommitted DEF TransactionInv, TypeOK, IsTable, Row
    <3>2. QED
      BY <1>3, <1>5, <1>6, <1>8, <2>1, <2>2, <3>1
  <2>3. CASE n # s
    BY <1>3, <1>5, <1>8, <2>1, <2>3
  <2>4. QED
    BY <2>2, <2>3
<1>11. ASSUME NEW n \in DOMAIN work', n >= nextSequence'
       PROVE  \E r \in RowsOf(KeptRows', tx'.queue) :
                 MovedFrom(work[n], KeptRows[r])'
  <2>1. n # s /\ n >= nextSequence /\ n \in DOMAIN work
    BY <1>1, <1>2, <1>3, <1>4, <1>7, <1>11
  <2>2. PICK r \in RowsOf(KeptRows, tx.queue) : MovedFrom(work[n], KeptRows[r])
    BY <1>1, <2>1 DEF ReceiveInv
  <2>3. MovedFrom(work[n], KeptRows[r])'
    BY <1>3, <1>4, <1>5, <1>8, <2>1, <2>2 DEF MovedFrom
  <2>4. QED
    BY <1>5, <1>8, <2>2, <2>3
<1>12. QED
  BY <1>1, <1>3, <1>5, <1>8, <1>9, <1>10, <1>11 DEF ReceiveInv

(* A dead-letter move takes a row away and inserts one with the same id and*)
(* total (redrive_candidate).                                              *)
LEMMA DeadLetterNextKeeps ==
    ASSUME TransactionInv, MovesLeaveQueue, ReceiveInv, NEW s \in DOMAIN work,
           DeadLetterNext(s)
    PROVE  ReceiveInv'
<1>1. /\ TypeOK /\ tx \in ReceiveTx /\ tx.kind = "receive" /\ tx # Idle
      /\ IsTable(work, workNext) /\ workNext \in Nat /\ nextSequence \in Nat
      /\ nextSequence <= workNext /\ UntouchedRows
  BY TxKinds DEF DeadLetterNext, TransactionInv, TypeOK, Idle
<1>2. PICK row \in Row : /\ MoveRow(s, row)
                         /\ row.id = work[s].id /\ row.total = work[s].total
                         /\ row.group = work[s].group /\ row.dedup = work[s].dedup
                         /\ row.queue = settings[tx.queue].policy.deadLetter
                         /\ row.origin = tx.queue
  BY <1>1, DeadLetterNextRow
<1>3. /\ DOMAIN work' = (DOMAIN work \ {s}) \cup {workNext} /\ work'[workNext] = row
      /\ \A x \in DOMAIN work \ {s} : work'[x] = work[x]
      /\ workNext \notin DOMAIN work
  BY <1>1, <1>2, MoveRowRows
<1>4. UNCHANGED <<messages, settings, nextSequence, tx>>
  BY DEF DeadLetterNext, store
<1>5. KeptRows' = KeptRows
  BY <1>4, KeptStay
<1>6. work[s].queue = tx.queue /\ s \notin tx.received
  BY DEF DeadLetterNext, IsNext, Candidates, Receivable, RowsOf, AlreadyReceived
<1>7. s < nextSequence /\ s \in Nat
  BY <1>1, <1>6 DEF MovesLeaveQueue, IsTable
<1>8. s \in RowsOf(KeptRows, tx.queue) /\ MovedFrom(row, KeptRows[s])
  <2>1. s \in DOMAIN KeptRows
    BY <1>1, <1>6, <1>7 DEF ReceiveInv
  <2>2. KeptRows[s] = messages[s] /\ work[s] = messages[s]
    BY <1>1, <1>6, <1>7, <2>1, KeptAreCommitted DEF UntouchedRows
  <2>3. QED
    BY <1>2, <1>6, <2>1, <2>2 DEF RowsOf, MovedFrom
<1>9. IdsOf(work') = IdsOf(work)
  BY <1>2, <1>3 DEF IdsOf
<1>10. Cardinality(DOMAIN work') = Cardinality(DOMAIN work)
  <2>1. IsFiniteSet(DOMAIN work) /\ Cardinality(DOMAIN work) \in Nat
    BY <1>1, TableIsFinite
  <2>2. /\ IsFiniteSet(DOMAIN work \ {s})
        /\ Cardinality(DOMAIN work \ {s}) = Cardinality(DOMAIN work) - 1
    BY <2>1, FS_RemoveElement
  <2>3. Cardinality((DOMAIN work \ {s}) \cup {workNext}) =
          Cardinality(DOMAIN work \ {s}) + 1
    BY <1>3, <2>2, FS_AddElement
  <2>4. QED
    BY <1>3, <2>1, <2>2, <2>3
<1>11. ASSUME NEW n \in DOMAIN work', n < nextSequence'
       PROVE  /\ n \in DOMAIN KeptRows'
              /\ work'[n].id = KeptRows'[n].id
              /\ work'[n].total = KeptRows'[n].total + IF n \in tx'.received THEN 1 ELSE 0
  <2>1. n \in DOMAIN work \ {s} /\ n < nextSequence
    BY <1>1, <1>3, <1>4, <1>11
  <2>2. QED
    BY <1>1, <1>3, <1>4, <1>5, <2>1 DEF ReceiveInv
<1>12. ASSUME NEW n \in DOMAIN work', n >= nextSequence'
       PROVE  \E r \in RowsOf(KeptRows', tx'.queue) :
                 MovedFrom(work[n], KeptRows[r])'
  <2>1. CASE n = workNext
    <3>1. MovedFrom(work[n], KeptRows[s])'
      BY <1>3, <1>4, <1>5, <1>8, <2>1 DEF MovedFrom
    <3>2. QED
      BY <1>4, <1>5, <1>8, <3>1
  <2>2. CASE n # workNext
    <3>1. n \in DOMAIN work \ {s} /\ n >= nextSequence
      BY <1>3, <1>4, <1>12, <2>2
    <3>2. PICK r \in RowsOf(KeptRows, tx.queue) : MovedFrom(work[n], KeptRows[r])
      BY <1>1, <3>1 DEF ReceiveInv
    <3>3. MovedFrom(work[n], KeptRows[r])'
      BY <1>3, <1>4, <1>5, <3>1, <3>2 DEF MovedFrom
    <3>4. QED
      BY <1>4, <1>5, <3>2, <3>3
  <2>3. QED
    BY <2>1, <2>2
<1>13. QED
  BY <1>1, <1>4, <1>5, <1>9, <1>10, <1>11, <1>12 DEF ReceiveInv

(* Every step keeps what a running receive has.                            *)
LEMMA ReceiveStep ==
    ASSUME TransactionInv, MovesLeaveQueue, ReceiveInv, QueueStoreAssumption, [Next]_vars
    PROVE  ReceiveInv'
<1>1. TypeOK
  BY DEF TransactionInv
<1>2. ASSUME tx'.kind # "receive" PROVE ReceiveInv'
  BY <1>2 DEF ReceiveInv
<1>3. CASE tx = Idle /\ UNCHANGED txVars
  BY <1>2, <1>3 DEF txVars, Idle
<1>4. CASE UNCHANGED <<store, txVars>>
  <2>1. UNCHANGED <<tx, work, workNext, messages, settings, nextSequence>>
    BY ONLY <1>4 DEF store, txVars
  <2>2. KeptRows' = KeptRows
    BY ONLY <2>1, KeptStay
  <2>3. QED
    BY ONLY <2>1, <2>2, ReceiveInv DEF ReceiveInv, MovedFrom
<1>5. CASE \E q \in Queue, max \in BatchSizes, option \in Visibilities,
             a \in AttemptId \cup {NoAttempt}, cacheEmpty \in BOOLEAN :
            BeginReceive(q, max, option, a, cacheEmpty)
  BY <1>1, <1>5, BeginReceiveKeeps
<1>6. CASE \E s \in DOMAIN work : DeliverNext(s) \/ DeadLetterNext(s)
  BY <1>6, DeliverNextKeeps, DeadLetterNextKeeps
<1>7. ASSUME NEW s \in DOMAIN work, RedriveNext(s) PROVE ReceiveInv'
  <2>1. tx'.kind = "redrive"
    BY <1>1, <1>7, TxKinds DEF RedriveNext, RedriveTx
  <2>2. QED
    BY <1>2, <2>1
<1>8. CASE \E dlq, source \in Queue, max \in MoveSizes : BeginRedrive(dlq, source, max)
  BY <1>2, <1>8 DEF BeginRedrive
<1>9. CASE CommitReceive \/ CommitRedrive \/ Rollback
  BY <1>2, <1>9 DEF CommitReceive, CommitRedrive, Rollback, Idle
<1>10. QED
  BY <1>1, <1>3, <1>4, <1>5, <1>6, <1>7, <1>8, <1>9, StepKinds

(* So the private table of a receive is always accounted for.              *)
LEMMA ReceiveAlwaysKeeps == Spec => []ReceiveInv
<1>1. Init => ReceiveInv
  BY DEF Init, ReceiveInv, Idle
<1>2. TransactionInv /\ MovesLeaveQueue /\ ReceiveInv /\ [Next]_vars => ReceiveInv'
  BY ReceiveStep, QueueStoreAssumption
<1>3. QED
  BY <1>1, <1>2, TransactionCorrect, MovesAlwaysLeave, PTL DEF Spec

(* What the commit of a receive does to the messages.                      *)
LEMMA CommitKeeps ==
    ASSUME TransactionInv, MovesLeaveQueue, ConstraintsInv, ReceiveInv, CommitReceive
    PROVE  /\ Delivered = tx.received
           /\ messages' = work
           /\ \A s \in DOMAIN messages, n \in DOMAIN work :
                work[n].id = messages[s].id =>
                    \/ n = s /\ n \in DOMAIN KeptRows /\ n < nextSequence
                    \/ /\ n >= nextSequence /\ n # s /\ n \notin Delivered
                       /\ s \in RowsOf(KeptRows, tx.queue)
                       /\ work[n].total = KeptRows[s].total
<1>1. /\ tx.kind = "receive" /\ tx \in ReceiveTx /\ messages' = work
      /\ IsTable(messages, nextSequence) /\ IsTable(work, workNext)
      /\ nextSequence \in Nat /\ workNext \in Nat
      /\ UniqueIds(messages)
  BY TxKinds DEF CommitReceive, TransactionInv, TypeOK, ConstraintsInv,
     ConstraintsNeverTrip
<1>2. Delivered = tx.received
  BY CommitDeliversAll
<1>3. Delivered \subseteq DOMAIN messages /\ DOMAIN messages \subseteq 1 .. nextSequence - 1
  BY <1>1 DEF Delivered, IsTable
<1>4. ASSUME NEW s \in DOMAIN messages, NEW n \in DOMAIN work,
             work[n].id = messages[s].id
      PROVE  \/ n = s /\ n \in DOMAIN KeptRows /\ n < nextSequence
             \/ /\ n >= nextSequence /\ n # s /\ n \notin Delivered
                /\ s \in RowsOf(KeptRows, tx.queue)
                /\ work[n].total = KeptRows[s].total
  <2>1. n \in Nat /\ s < nextSequence /\ s \in Nat
    BY <1>1 DEF IsTable
  <2>2. CASE n < nextSequence
    <3>1. n \in DOMAIN KeptRows /\ work[n].id = KeptRows[n].id
      BY <1>1, <2>2 DEF ReceiveInv
    <3>2. n \in DOMAIN messages /\ messages[n].id = messages[s].id
      BY <1>4, <3>1, KeptAreCommitted
    <3>3. n = s
      BY <1>1, <3>2 DEF UniqueIds
    <3>4. QED
      BY <2>2, <3>1, <3>3
  <2>3. CASE n >= nextSequence
    <3>1. PICK r \in RowsOf(KeptRows, tx.queue) :
            work[n].id = KeptRows[r].id /\ work[n].total = KeptRows[r].total
      BY <1>1, <2>3 DEF ReceiveInv, MovedFrom
    <3>2. r \in DOMAIN messages /\ messages[r].id = messages[s].id
      BY <1>4, <3>1, KeptAreCommitted DEF RowsOf
    <3>3. r = s
      BY <1>1, <3>2 DEF UniqueIds
    <3>4. n # s /\ n \notin Delivered
      BY <1>1, <1>3, <2>1, <2>3
    <3>5. QED
      BY <2>3, <3>1, <3>3, <3>4
  <2>4. QED
    BY <1>1, <2>1, <2>2, <2>3
<1>5. QED
  BY <1>1, <1>2, <1>4

(* A receive transaction ends with its commit or with a rollback.          *)
LEMMA ReceiveEnds ==
    ASSUME TypeOK, QueueStoreAssumption, [Next]_vars, tx.kind = "receive", tx' = Idle
    PROVE  CommitReceive \/ (Rollback /\ UNCHANGED messages)
<1>1. tx \in ReceiveTx /\ tx # Idle /\ tx'.kind = "idle"
  BY TxKinds DEF Idle
<1>2. ~UNCHANGED <<store, txVars>>
  BY <1>1 DEF txVars
<1>3. ASSUME NEW s \in DOMAIN work PROVE ~(DeliverNext(s) \/ DeadLetterNext(s) \/ RedriveNext(s))
  <2>1. ~DeadLetterNext(s) /\ ~RedriveNext(s)
    BY <1>1 DEF DeadLetterNext, RedriveNext
  <2>2. ASSUME DeliverNext(s) PROVE FALSE
    <3>1. tx'.kind = tx.kind
      BY <1>1, <2>2 DEF DeliverNext, ReceiveTx
    <3>2. QED
      BY <1>1, <3>1
  <2>3. QED
    BY <2>1, <2>2
<1>4. QED
  BY <1>1, <1>2, <1>3, StepKinds DEF BeginReceive, BeginRedrive, CommitRedrive,
     Rollback, store

(* A receive loses and duplicates no message and counts each delivery once;*)
(* what it dead-letters keeps its content and goes where the policy says,  *)
(* and what it neither delivers nor dead-letters nor expires stays as it   *)
(* was.                                                                    *)
THEOREM ReceivesConserve == Spec => ReceiveConserves
<1>1. ASSUME TransactionInv, MovesLeaveQueue, ConstraintsInv, ReceiveInv,
             [Next]_vars, tx.kind = "receive", tx' = Idle, messages' # messages
      PROVE  /\ IdsOf(messages') = IdsOf(KeptRows)
             /\ Cardinality(DOMAIN messages') = Cardinality(DOMAIN KeptRows)
             /\ \A s \in DOMAIN KeptRows, n \in DOMAIN messages' :
                    messages'[n].id = KeptRows[s].id =>
                        messages'[n].total =
                            KeptRows[s].total + IF n \in Delivered THEN 1 ELSE 0
             /\ \A n \in DOMAIN messages' \cap DOMAIN messages :
                    /\ messages'[n].queue = messages[n].queue
                    /\ n \in Delivered \/ messages'[n] = messages[n]
             /\ \A n \in DOMAIN messages' \ DOMAIN messages :
                    \E s \in RowsOf(KeptRows, tx.queue) :
                        MovedFrom(messages'[n], KeptRows[s])
  <2>1. CommitReceive
    BY <1>1, ReceiveEnds, QueueStoreAssumption DEF TransactionInv
  <2>2. messages' = work /\ Delivered = tx.received
    BY <1>1, <2>1, CommitKeeps
  <2>3. /\ IdsOf(work) = IdsOf(KeptRows)
        /\ Cardinality(DOMAIN work) = Cardinality(DOMAIN KeptRows)
    BY <1>1 DEF ReceiveInv
  <2>4. ASSUME NEW s \in DOMAIN KeptRows, NEW n \in DOMAIN work,
               work[n].id = KeptRows[s].id
        PROVE  work[n].total = KeptRows[s].total + IF n \in Delivered THEN 1 ELSE 0
    <3>1. s \in DOMAIN messages /\ work[n].id = messages[s].id /\ KeptRows[s].total \in Nat
      BY <1>1, <2>4, KeptAreCommitted DEF TransactionInv, TypeOK, IsTable, Row
    <3>2. CASE n = s /\ n \in DOMAIN KeptRows /\ n < nextSequence
      BY <1>1, <2>2, <3>2 DEF ReceiveInv
    <3>3. CASE n \notin Delivered /\ work[n].total = KeptRows[s].total
      BY <3>1, <3>3
    <3>4. QED
      BY <1>1, <2>1, <3>1, <3>2, <3>3, CommitKeeps
  <2>5. /\ tx # Idle /\ UntouchedRows
        /\ nextSequence \in Nat /\ DOMAIN work \subseteq Nat
        /\ \A n \in DOMAIN messages : n < nextSequence
    <3>1. IsTable(work, workNext) /\ IsTable(messages, nextSequence) /\ nextSequence \in Nat
      BY <1>1 DEF TransactionInv, TypeOK
    <3>2. QED
      BY <1>1, <3>1 DEF TransactionInv, Idle, IsTable
  <2>6. ASSUME NEW n \in DOMAIN work \cap DOMAIN messages
        PROVE  /\ work[n].queue = messages[n].queue
               /\ n \in Delivered \/ work[n] = messages[n]
    BY <2>2, <2>5 DEF UntouchedRows
  <2>7. ASSUME NEW n \in DOMAIN work \ DOMAIN messages
        PROVE  \E s \in RowsOf(KeptRows, tx.queue) : MovedFrom(work[n], KeptRows[s])
    <3>1. n >= nextSequence
      BY <2>5 DEF UntouchedRows
    <3>2. QED
      BY <1>1, <3>1 DEF ReceiveInv
  <2>8. QED
    BY <2>2, <2>3, <2>4, <2>6, <2>7
<1>2. QED
  BY <1>1, TransactionCorrect, MovesAlwaysLeave, ConstraintsAlways,
     ReceiveAlwaysKeeps, PTL DEF Spec, ReceiveConserves

(* Messages past the retention of their queue are neither handed out nor   *)
(* dead-lettered: receive_messages expires them first.                     *)
THEOREM LiveRowsMoveOnly == Spec => OnlyLiveRowsMove
<1>1. ASSUME TransactionInv, MovesLeaveQueue, ConstraintsInv, ReceiveInv,
             [Next]_vars, tx.kind = "receive", tx' = Idle,
             NEW s \in DOMAIN messages, NEW n \in DOMAIN messages',
             messages'[n].id = messages[s].id, n # s \/ s \in Delivered
      PROVE  ~Expired(messages[s], settings[tx.queue].retention, tx.at)
  <2>1. CASE CommitReceive
    <3>1. /\ messages' = work /\ Delivered = tx.received
          /\ \/ n = s /\ n \in DOMAIN KeptRows /\ n < nextSequence
             \/ s \in RowsOf(KeptRows, tx.queue)
      BY <1>1, <2>1, CommitKeeps
    <3>2. ASSUME n = s, n \in DOMAIN KeptRows, n < nextSequence
          PROVE  s \in RowsOf(KeptRows, tx.queue)
      <4>1. s \in tx.received /\ s \in DOMAIN work
        BY <1>1, <3>1, <3>2
      <4>2. tx # Idle /\ UntouchedRows /\ ReceivedRows
        BY <1>1 DEF TransactionInv, Idle
      <4>3. messages[s].queue = tx.queue
        BY <3>2, <4>1, <4>2 DEF UntouchedRows, ReceivedRows
      <4>4. QED
        BY <3>2, <4>3, KeptAreCommitted DEF RowsOf
    <3>3. QED
      BY <3>1, <3>2, KeptAreCommitted
  <2>2. CASE UNCHANGED messages
    <3>1. s \notin Delivered
      BY <2>2 DEF Delivered
    <3>2. n = s
      BY <1>1, <2>2 DEF ConstraintsInv, ConstraintsNeverTrip, UniqueIds
    <3>3. QED
      BY <1>1, <3>1, <3>2
  <2>3. QED
    BY <1>1, <2>1, <2>2, ReceiveEnds, QueueStoreAssumption DEF TransactionInv
<1>2. TransactionInv /\ MovesLeaveQueue /\ ConstraintsInv /\ ReceiveInv /\ [Next]_vars
      => (tx.kind = "receive" /\ tx' = Idle =>
            \A s \in DOMAIN messages, n \in DOMAIN messages' :
                /\ messages'[n].id = messages[s].id
                /\ n # s \/ s \in Delivered
                => ~Expired(messages[s], settings[tx.queue].retention, tx.at))
  BY <1>1
<1>3. QED
  BY <1>2, TransactionCorrect, MovesAlwaysLeave, ConstraintsAlways,
     ReceiveAlwaysKeeps, PTL DEF Spec, OnlyLiveRowsMove
-----------------------------------------------------------------------------
(* A redrive returns what it takes.                                        *)

(* A redrive starts with the live rows of both queues.                     *)
LEMMA BeginRedriveReturns ==
    ASSUME TypeOK, NEW dlq \in Queue, NEW source \in Queue, NEW max,
           BeginRedrive(dlq, source, max)
    PROVE  RedriveInv'
<1>1. /\ work' = Sweep(SweptQueue(dlq, now), source, settings[source].retention, now)
      /\ UNCHANGED <<messages, settings, nextSequence>> /\ dlq # source
      /\ tx'.queue = dlq /\ tx'.source = source /\ tx'.at = now
  BY DEF BeginRedrive, store
<1>2. /\ DOMAIN work' =
            {s \in DOMAIN messages :
                /\ messages[s].queue = dlq
                   => ~Expired(messages[s], settings[dlq].retention, now)
                /\ messages[s].queue = source
                   => ~Expired(messages[s], settings[source].retention, now)}
      /\ \A s \in DOMAIN work' : work'[s] = messages[s]
  BY <1>1 DEF SweptQueue, Sweep
<1>3. Gone(work)' = {} /\ Added(work)' = {}
  BY <1>1, <1>2 DEF Gone, Added, RowsOf, Expired
<1>4. ReturnedTo(work)'
  <2> DEFINE place == [s \in {} |-> 0]
  <2>1. place \in [Gone(work)' -> Added(work)']
    BY <1>3
  <2>2. ReturnedAs(work, place)'
    BY <1>3 DEF ReturnedAs
  <2> HIDE DEF place
  <2>3. QED
    BY <1>3, <2>1, <2>2 DEF ReturnedTo
<1>5. \A s \in DOMAIN messages : s < nextSequence
  BY DEF TypeOK, IsTable
<1>6. \A s \in RowsOf(work', tx'.queue) :
        s < nextSequence' /\ ~Expired(work'[s], settings'[tx'.queue].retention, tx'.at)
  BY <1>1, <1>2, <1>5 DEF RowsOf
<1>7. QED
  BY <1>1, <1>3, <1>4, <1>6 DEF RedriveInv, Expired

(* What can be taken after a move comes after what it took: it could be    *)
(* taken before, or only the row taken was ahead of it.                    *)
LEMMA RedriveNextCandidates ==
    ASSUME TypeOK, tx.queue # tx.source, NEW s \in DOMAIN work, RedriveNext(s)
    PROVE  \A c \in RedriveCandidates' : s < c
<1>1. /\ tx \in RedriveTx /\ IsTable(work, workNext) /\ workNext \in Nat
      /\ DOMAIN work \subseteq Nat
  BY TxKinds DEF RedriveNext, TypeOK, IsTable
<1>2. PICK row \in Row : MoveRow(s, row) /\ row.queue = tx.source
  BY RedriveNextRow
<1>3. /\ DOMAIN work' = (DOMAIN work \ {s}) \cup {workNext} /\ work'[workNext] = row
      /\ \A x \in DOMAIN work \ {s} : work'[x] = work[x]
      /\ workNext \notin DOMAIN work
  BY <1>1, <1>2, MoveRowRows
<1>4. tx'.queue = tx.queue /\ tx'.source = tx.source /\ tx'.at = tx.at
  BY <1>1 DEF RedriveNext, RedriveTx
<1>5. s \in RedriveCandidates /\ \A o \in RedriveCandidates : s <= o
  BY DEF RedriveNext
<1>6. SUFFICES ASSUME NEW c \in RedriveCandidates' PROVE s < c
  OBVIOUS
<1>7. /\ c \in DOMAIN work' /\ work'[c].queue = tx.queue
      /\ work'[c].origin = tx.source /\ Deliverable(work'[c], tx.at)
      /\ tx.queue \in Fifo => Ahead(work', c) = {}
  BY <1>4 DEF RedriveCandidates, RowsOf
<1>8. c \in DOMAIN work \ {s} /\ work'[c] = work[c]
  BY <1>2, <1>3, <1>7
<1>9. CASE tx.queue \in Fifo => Ahead(work, c) = {}
  <2>1. c \in RedriveCandidates
    BY <1>7, <1>8, <1>9 DEF RedriveCandidates, RowsOf
  <2>2. QED
    BY <1>1, <1>5, <1>8, <2>1
<1>10. CASE tx.queue \in Fifo /\ Ahead(work, c) # {}
  <2>1. PICK e : e \in Ahead(work, c)
    BY <1>10
  <2>2. e # s => e \in Ahead(work', c)
    BY <1>3, <1>8, <2>1 DEF Ahead
  <2>3. QED
    BY <1>7, <1>10, <2>1, <2>2 DEF Ahead
<1>11. QED
  BY <1>9, <1>10
LEMMA RedriveNextReturns ==
    ASSUME TransactionInv, RedriveInv, NEW s \in DOMAIN work, RedriveNext(s)
    PROVE  RedriveInv'
<1>1. /\ TypeOK /\ tx \in RedriveTx /\ tx.kind = "redrive" /\ tx # Idle
      /\ IsTable(work, workNext) /\ IsTable(messages, nextSequence)
      /\ workNext \in Nat /\ nextSequence \in Nat
      /\ nextSequence <= workNext /\ UntouchedRows
  BY TxKinds DEF RedriveNext, TransactionInv, TypeOK, Idle
<1>2. PICK row \in Row : /\ MoveRow(s, row) /\ row.queue = tx.source
                         /\ row.group = work[s].group /\ row.dedup = work[s].dedup
  BY <1>1, RedriveNextRow
<1>3. /\ DOMAIN work' = (DOMAIN work \ {s}) \cup {workNext} /\ work'[workNext] = row
      /\ \A x \in DOMAIN work \ {s} : work'[x] = work[x]
      /\ workNext \notin DOMAIN work
  BY <1>1, <1>2, MoveRowRows
<1>4. /\ UNCHANGED <<messages, settings, nextSequence>>
      /\ tx'.queue = tx.queue /\ tx'.source = tx.source /\ tx'.at = tx.at
  BY <1>1 DEF RedriveNext, store, RedriveTx
<1>5. /\ tx.queue # tx.source /\ ReturnedTo(work)
      /\ \A x \in RowsOf(work, tx.queue) :
            x < nextSequence /\ ~Expired(work[x], settings[tx.queue].retention, tx.at)
      /\ \A x \in Gone(work), c \in RedriveCandidates : x < c
  BY <1>1 DEF RedriveInv
<1>6. /\ s \in RowsOf(work, tx.queue) /\ work[s].origin = tx.source
      /\ tx.queue \in Fifo => Ahead(work, s) = {}
      /\ s \in RedriveCandidates
  BY DEF RedriveNext, RedriveCandidates
<1>7. \A x \in DOMAIN work : x < nextSequence =>
        x \in DOMAIN messages /\ work[x] = messages[x]
  BY <1>1 DEF UntouchedRows
<1>8. /\ s \in DOMAIN messages /\ work[s] = messages[s] /\ messages[s].queue = tx.queue
      /\ ~Expired(messages[s], settings[tx.queue].retention, tx.at)
  BY <1>5, <1>6, <1>7 DEF RowsOf
<1>9. workNext \notin DOMAIN messages /\ \A e \in DOMAIN messages : e < nextSequence
  BY <1>1 DEF IsTable
<1>10. Gone(work)' = Gone(work) \cup {s} /\ s \notin Gone(work)
  BY <1>3, <1>4, <1>8, <1>9 DEF Gone, RowsOf, Expired
<1>11. Added(work)' = Added(work) \cup {workNext} /\ workNext \notin Added(work)
  BY <1>3, <1>4, <1>8, <1>9 DEF Added
<1>12. /\ Gone(work) \subseteq Nat /\ s \in Nat
       /\ \A x \in Gone(work) : x < s /\ ~(s < x)
       /\ \A n \in Added(work) : n \in DOMAIN work \ {s} /\ n < workNext
       /\ Gone(work) \subseteq DOMAIN messages
  <2>1. \A x \in Gone(work) : x < s
    BY <1>5, <1>6
  <2>2. Gone(work) \subseteq DOMAIN messages /\ Gone(work) \subseteq Nat /\ s \in Nat
    BY <1>1 DEF Gone, RowsOf, IsTable
  <2>3. \A n \in Added(work) : n \in DOMAIN work \ {s} /\ n < workNext
    BY <1>1, <1>8 DEF Added, IsTable
  <2>4. QED
    BY <2>1, <2>2, <2>3
<1>13. \E place \in [Gone(work)' -> Added(work)'] : ReturnedAs(work, place)'
  <2>1. PICK old \in [Gone(work) -> Added(work)] : ReturnedAs(work, old)
    BY <1>5 DEF ReturnedTo
  <2>a. PICK place :
          place = [x \in Gone(work) \cup {s} |-> IF x = s THEN workNext ELSE old[x]]
    OBVIOUS
  <2>2. /\ \A x \in Gone(work) : place[x] = old[x] /\ old[x] \in Added(work)
        /\ place[s] = workNext
    BY <1>10, <2>1, <2>a
  <2>3. place \in [Gone(work)' -> Added(work)']
    BY <1>10, <1>11, <2>1, <2>a
  <2>4. ASSUME NEW n \in Added(work)'
        PROVE  \E x \in Gone(work)' : place[x] = n
    BY <1>10, <1>11, <2>1, <2>2, <2>4 DEF ReturnedAs
  <2>5. ASSUME NEW x \in Gone(work)'
        PROVE  /\ work'[place[x]].queue = tx.source
               /\ work'[place[x]].group = messages[x].group
               /\ work'[place[x]].dedup = messages[x].dedup
    <3>1. CASE x = s
      BY <1>2, <1>3, <1>8, <2>2, <3>1
    <3>2. CASE x \in Gone(work)
      <4>1. work'[old[x]] = work[old[x]]
        BY <1>3, <1>12, <2>2, <3>2
      <4>2. QED
        BY <2>1, <2>2, <3>2, <4>1 DEF ReturnedAs
    <3>3. QED
      BY <1>10, <3>1, <3>2
  <2>6. ASSUME NEW e \in Gone(work)', NEW x \in Gone(work)', e < x
        PROVE  place[e] < place[x]
    <3>1. e # s \/ x # s
      BY <1>12, <2>6
    <3>2. e \in Gone(work)
      BY <1>10, <1>12, <2>6, <3>1
    <3>3. CASE x = s
      BY <1>12, <2>2, <3>2, <3>3
    <3>4. CASE x \in Gone(work)
      BY <2>1, <2>2, <2>6, <3>2, <3>4 DEF ReturnedAs
    <3>5. QED
      BY <1>10, <3>3, <3>4
  <2>7. ReturnedAs(work, place)'
    BY <1>4, <2>4, <2>5, <2>6 DEF ReturnedAs
  <2>8. QED
    BY <2>3, <2>7
<1>14. \A x \in Gone(work)' : messages[x].origin = tx.source
  BY <1>5, <1>6, <1>8, <1>10 DEF ReturnedTo
<1>15. ASSUME tx.queue \in Fifo, NEW x \in Gone(work)'
       PROVE  Ahead(messages, x) \cap DOMAIN work' = {}
  <2>1. Ahead(messages, x) \cap DOMAIN work' \subseteq Ahead(messages, x) \cap DOMAIN work
    BY <1>3, <1>9 DEF Ahead
  <2>2. CASE x \in Gone(work)
    BY <1>5, <1>15, <2>1, <2>2 DEF ReturnedTo
  <2>3. CASE x = s
    <3>1. \A e \in Ahead(messages, s) \cap DOMAIN work : e \in Ahead(work, s)
      BY <1>7, <1>8, <1>9 DEF Ahead
    <3>2. QED
      BY <1>6, <1>15, <2>1, <2>3, <3>1
  <2>4. QED
    BY <1>10, <2>2, <2>3
<1>16. ReturnedTo(work)'
  <2>1. \A x \in Gone(work)' : messages'[x].origin = tx'.source
    BY <1>4, <1>14
  <2>2. tx'.queue \in Fifo =>
          \A x \in Gone(work)' : Ahead(messages, x)' \cap DOMAIN work' = {}
    BY <1>4, <1>15 DEF Ahead
  <2>3. QED
    BY <1>13, <2>1, <2>2 DEF ReturnedTo
<1>17. \A x \in RowsOf(work', tx'.queue) :
        x < nextSequence' /\ ~Expired(work'[x], settings'[tx'.queue].retention, tx'.at)
  <2>1. \A x \in RowsOf(work', tx.queue) : x \in RowsOf(work, tx.queue) /\ work'[x] = work[x]
    BY <1>2, <1>3, <1>5 DEF RowsOf
  <2>2. QED
    BY <1>4, <1>5, <2>1
<1>18. \A x \in Gone(work)', c \in RedriveCandidates' : x < c
  <2>1. \A c \in RedriveCandidates' : s < c /\ c \in Nat
    <3>1. \A c \in RedriveCandidates' : s < c
      BY <1>1, <1>5, RedriveNextCandidates
    <3>2. RedriveCandidates' \subseteq DOMAIN work'
      BY DEF RedriveCandidates, RowsOf
    <3>3. DOMAIN work' \subseteq Nat
      BY <1>1, <1>3 DEF IsTable
    <3>4. QED
      BY <3>1, <3>2, <3>3
  <2>2. QED
    BY <1>10, <1>12, <2>1
<1>19. QED
  BY <1>4, <1>5, <1>16, <1>17, <1>18 DEF RedriveInv, Expired

(* Every step keeps what a running redrive has.                            *)
LEMMA RedriveStep ==
    ASSUME TransactionInv, RedriveInv, QueueStoreAssumption, [Next]_vars
    PROVE  RedriveInv'
<1>1. TypeOK
  BY DEF TransactionInv
<1>2. ASSUME tx'.kind # "redrive" PROVE RedriveInv'
  BY <1>2 DEF RedriveInv
<1>3. CASE tx = Idle /\ UNCHANGED txVars
  BY <1>2, <1>3 DEF txVars, Idle
<1>4. CASE UNCHANGED <<store, txVars>>
  <2>1. UNCHANGED <<tx, work, messages, settings, nextSequence>>
    BY ONLY <1>4 DEF store, txVars
  <2>2. RedriveCandidates' = RedriveCandidates
    BY ONLY <2>1 DEF RedriveCandidates, RowsOf, Ahead, Deliverable
  <2>3. Gone(work)' = Gone(work) /\ Added(work)' = Added(work)
    BY ONLY <2>1 DEF Gone, Added, RowsOf, Expired
  <2>4. ASSUME NEW place, ReturnedAs(work, place)
        PROVE  ReturnedAs(work, place)'
    BY ONLY <2>1, <2>3, <2>4 DEF ReturnedAs
  <2>5. ReturnedTo(work) => ReturnedTo(work)'
    BY ONLY <2>1, <2>3, <2>4 DEF ReturnedTo, Ahead
  <2>6. QED
    BY ONLY <2>1, <2>2, <2>3, <2>5, RedriveInv DEF RedriveInv, RowsOf, Expired
<1>5. CASE \E dlq, source \in Queue, max \in MoveSizes : BeginRedrive(dlq, source, max)
  BY <1>1, <1>5, BeginRedriveReturns
<1>6. CASE \E s \in DOMAIN work : RedriveNext(s)
  BY <1>6, RedriveNextReturns
<1>7. ASSUME NEW s \in DOMAIN work, DeliverNext(s) \/ DeadLetterNext(s)
      PROVE  RedriveInv'
  <2>1. tx'.kind = "receive"
    BY <1>1, <1>7, TxKinds DEF DeliverNext, DeadLetterNext, ReceiveTx
  <2>2. QED
    BY <1>2, <2>1
<1>8. CASE \E q \in Queue, max \in BatchSizes, option \in Visibilities,
             a \in AttemptId \cup {NoAttempt}, cacheEmpty \in BOOLEAN :
            BeginReceive(q, max, option, a, cacheEmpty)
  BY <1>2, <1>8 DEF BeginReceive
<1>9. CASE CommitReceive \/ CommitRedrive \/ Rollback
  BY <1>2, <1>9 DEF CommitReceive, CommitRedrive, Rollback, Idle
<1>10. QED
  BY <1>1, <1>3, <1>4, <1>5, <1>6, <1>7, <1>8, <1>9, StepKinds

(* A redrive transaction ends with its commit or with a rollback.          *)
LEMMA RedriveEnds ==
    ASSUME TypeOK, QueueStoreAssumption, [Next]_vars, tx.kind = "redrive", tx' = Idle
    PROVE  CommitRedrive \/ UNCHANGED messages
<1>1. tx \in RedriveTx /\ tx # Idle /\ tx'.kind = "idle"
  BY TxKinds DEF Idle
<1>2. QED
  BY <1>1, StepKinds DEF BeginReceive, BeginRedrive, CommitReceive, DeliverNext,
     DeadLetterNext, RedriveNext, Rollback, store

(* So a running redrive has always returned what it took.                  *)
LEMMA RedriveAlwaysReturns == Spec => []RedriveInv
<1>1. Init => RedriveInv
  BY DEF Init, RedriveInv, Idle
<1>2. TransactionInv /\ RedriveInv /\ [Next]_vars => RedriveInv'
  BY RedriveStep, QueueStoreAssumption
<1>3. QED
  BY <1>1, <1>2, TransactionCorrect, PTL DEF Spec

(* redrive_dead_letters takes rows that came from the source, of a FIFO    *)
(* group the first ones; each becomes one new row there, with the group    *)
(* and content it had, and the new rows are in the order of the old.       *)
THEOREM RedrivesReturn == Spec => RedriveReturns
<1>1. ASSUME TransactionInv, RedriveInv, [Next]_vars, tx.kind = "redrive",
             tx' = Idle, messages' # messages
      PROVE  ReturnedTo(messages')
  <2>1. CommitRedrive
    BY <1>1, RedriveEnds, QueueStoreAssumption DEF TransactionInv
  <2>2. messages' = work /\ ReturnedTo(work)
    BY <1>1, <2>1 DEF CommitRedrive, RedriveInv
  <2>3. QED
    BY <2>2
<1>2. QED
  BY <1>1, RedriveAlwaysReturns, TransactionCorrect, PTL DEF Spec, RedriveReturns
-----------------------------------------------------------------------------
(* The delay of FIFO messages.                                             *)

(* set_queue_attributes gives the rows that still wait the new delay.      *)
LEMMA SetQueueAttributesDelays ==
    ASSUME TypeOK, DelaysCurrent(messages), NEW q \in Queue, NEW c \in Settings,
           SetQueueAttributes(q, c)
    PROVE  DelaysCurrent(messages)'
<1> DEFINE retimed == Retimed(q, c.delay)
<1>1. messages \in [DOMAIN messages -> Row] /\ settings \in [Queue -> Settings]
  BY DEF TypeOK, IsTable
<1>2. /\ settings' = [settings EXCEPT ![q] = c]
      /\ messages' = Sweep(retimed, q, c.retention, now)
  BY DEF SetQueueAttributes
<1>3. /\ DOMAIN retimed = DOMAIN messages
      /\ \A s \in DOMAIN messages :
            IF q \in Fifo /\ c.delay # settings[q].delay /\ messages[s].queue = q
               /\ messages[s].count = 0
            THEN retimed[s] = [messages[s] EXCEPT !.available = messages[s].created + c.delay]
            ELSE retimed[s] = messages[s]
  BY DEF Retimed
<1> HIDE DEF retimed
<1>4. ASSUME NEW s \in DOMAIN messages', messages'[s].queue \in Fifo,
             messages'[s].count = 0, messages'[s].origin = NoQueue
      PROVE  messages'[s].available =
                messages'[s].created + settings'[messages'[s].queue].delay
  <2>1. s \in DOMAIN messages /\ messages'[s] = retimed[s] /\ messages[s] \in Row
    BY <1>1, <1>2, <1>3 DEF Sweep
  <2>2. /\ messages'[s].queue = messages[s].queue /\ messages'[s].count = messages[s].count
        /\ messages'[s].origin = messages[s].origin
        /\ messages'[s].created = messages[s].created
    BY <1>3, <2>1 DEF Row
  <2>3. /\ messages[s].queue \in Queue
        /\ messages[s].available =
             messages[s].created + settings[messages[s].queue].delay
    BY <1>4, <2>1, <2>2 DEF DelaysCurrent, Row
  <2>4. CASE messages[s].queue = q /\ c.delay # settings[q].delay
    <3>1. messages'[s].available = messages[s].created + c.delay
      BY <1>3, <1>4, <2>1, <2>2, <2>4 DEF Row
    <3>2. settings'[messages'[s].queue].delay = c.delay
      BY <1>1, <1>2, <2>2, <2>4
    <3>3. QED
      BY <2>2, <3>1, <3>2
  <2>5. CASE messages[s].queue # q \/ c.delay = settings[q].delay
    <3>1. messages'[s] = messages[s]
      BY <1>3, <2>1, <2>5
    <3>2. settings'[messages[s].queue].delay = settings[messages[s].queue].delay
      BY <1>1, <1>2, <2>3, <2>5
    <3>3. QED
      BY <2>3, <3>1, <3>2
  <2>6. QED
    BY <2>4, <2>5
<1>5. QED
  BY <1>4 DEF DelaysCurrent

(* A send uses the current delay of a FIFO queue (insert_message).         *)
LEMMA SendDelays ==
    ASSUME TypeOK, DelaysCurrent(messages), UNCHANGED settings, Sends
    PROVE  DelaysCurrent(messages)'
<1>1. PICK q \in Queue, g \in Group, d \in DedupId \cup {NoDedupId}, delay \in Nat :
        Enqueue(q, g, d, delay, now) /\ (q \in Fifo => delay = settings[q].delay)
  BY DEF Sends
<1> DEFINE row == NewRow(nextSequence, q, g, d, now, delay)
<1>2. row.queue = q /\ row.created = now /\ row.available = now + delay
  BY DEF NewRow
<1>3. messages' = Insert(SweptQueue(q, now), nextSequence, row)
  BY <1>1 DEF Enqueue
<1> HIDE DEF row
<1>4. DelaysCurrent(SweptQueue(q, now))
  BY DEF DelaysCurrent, SweptQueue, Sweep
<1>5. \A s \in DOMAIN messages' :
        \/ messages'[s] = row
        \/ s \in DOMAIN SweptQueue(q, now) /\ messages'[s] = SweptQueue(q, now)[s]
  BY <1>3 DEF Insert
<1>6. QED
  BY <1>1, <1>2, <1>4, <1>5 DEF DelaysCurrent

(* Rows that a transaction moves either have an origin or wait from their  *)
(* move on; rows it delivers do not wait any more.                         *)
LEMMA RunningDelays ==
    ASSUME TypeOK, DelaysInv, NEW s \in DOMAIN work,
           DeliverNext(s) \/ DeadLetterNext(s) \/ RedriveNext(s)
    PROVE  DelaysInv'
<1>1. tx # Idle /\ UNCHANGED <<messages, settings>> /\ IsTable(work, workNext)
  BY DEF DeliverNext, DeadLetterNext, RedriveNext, store, Idle, TypeOK
<1>2. DelaysCurrent(work) /\ DelaysCurrent(messages)'
  BY <1>1 DEF DelaysInv, DelaysCurrent
<1>3. CASE DeliverNext(s)
  <2>1. /\ tx \in ReceiveTx /\ work \in [DOMAIN work -> Row]
        /\ work[s] \in Row /\ work[s].count \in Nat
    BY <1>1, <1>3, TxKinds DEF DeliverNext, IsTable, Row
  <2>2. /\ DOMAIN work' = DOMAIN work /\ work'[s].count # 0
        /\ \A x \in DOMAIN work \ {s} : work'[x] = work[x]
    <3>1. DeliveredRow(work[s], s, tx.at, tx.visibility).count # 0
      BY <2>1 DEF DeliveredRow, Row
    <3>2. work' = [work EXCEPT ![s] = DeliveredRow(work[s], s, tx.at, tx.visibility)]
      BY <1>3 DEF DeliverNext
    <3>3. QED
      BY <2>1, <3>1, <3>2
  <2>3. DelaysCurrent(work)'
    BY <1>1, <1>2, <2>2 DEF DelaysCurrent
  <2>4. QED
    BY <1>2, <2>3 DEF DelaysInv
<1>4. ASSUME NEW row \in Row, MoveRow(s, row),
             row.origin # NoQueue \/ row.available = row.created + settings[row.queue].delay
      PROVE  DelaysInv'
  <2>1. /\ DOMAIN work' = (DOMAIN work \ {s}) \cup {workNext} /\ work'[workNext] = row
        /\ \A x \in DOMAIN work \ {s} : work'[x] = work[x]
    BY <1>4, MoveRowRows
  <2>2. DelaysCurrent(work)'
    BY <1>1, <1>2, <1>4, <2>1 DEF DelaysCurrent
  <2>3. QED
    BY <1>2, <2>2 DEF DelaysInv
<1>5. CASE DeadLetterNext(s)
  <2>1. tx.queue \in Queue
    BY <1>5, TxKinds DEF DeadLetterNext, ReceiveTx
  <2>2. PICK row \in Row : MoveRow(s, row) /\ row.origin = tx.queue
    BY <1>5, DeadLetterNextRow
  <2>3. row.origin # NoQueue
    BY <2>1, <2>2, MessageRowsAssumption
  <2>4. QED
    BY <1>4, <2>2, <2>3
<1>6. CASE RedriveNext(s)
  <2>1. PICK row \in Row :
          /\ MoveRow(s, row) /\ row.queue = tx.source
          /\ row = NewRow(workNext, tx.source, work[s].group, work[s].dedup, tx.at,
                          settings[tx.source].delay)
    BY <1>6, RedriveNextRow
  <2>2. row.available = row.created + settings[row.queue].delay
    BY <2>1 DEF NewRow
  <2>3. QED
    BY <1>4, <2>1, <2>2
<1>7. QED
  BY <1>3, <1>5, <1>6

(* Every step keeps the delays current.                                    *)
LEMMA DelaysStep ==
    ASSUME TypeOK, DelaysInv, QueueStoreAssumption, [Next]_vars
    PROVE  DelaysInv'
<1>1. DelaysCurrent(messages)
  BY DEF DelaysInv
<1>2. CASE tx = Idle /\ UNCHANGED txVars /\ Thinned(messages, messages') /\ TimesKept
  <2>1. ASSUME NEW q \in Queue, NEW c \in Updates[q], SetQueueAttributes(q, c)
        PROVE  DelaysCurrent(messages)'
    <3>1. c \in Settings
      BY DEF QueueStoreAssumption
    <3>2. QED
      BY <1>1, <2>1, <3>1, SetQueueAttributesDelays
  <2>2. DelaysCurrent(messages)'
    BY <1>1, <1>2, <2>1 DEF TimesKept, DelaysCurrent, Thinned
  <2>3. QED
    BY <1>2, <2>2 DEF DelaysInv, txVars
<1>3. CASE tx = Idle /\ UNCHANGED <<txVars, settings>> /\ Sends
  BY <1>1, <1>3, SendDelays DEF DelaysInv, txVars
<1>4. CASE UNCHANGED <<store, txVars>>
  BY <1>4 DEF store, txVars, DelaysInv, DelaysCurrent
<1>5. ASSUME NEW q, NEW max, NEW option, NEW a, NEW cacheEmpty,
             BeginReceive(q, max, option, a, cacheEmpty)
      PROVE  DelaysInv'
  <2>1. work' = SweptQueue(q, now) /\ UNCHANGED <<messages, settings>>
    BY <1>5 DEF BeginReceive, store
  <2>2. DelaysCurrent(work)' /\ DelaysCurrent(messages)'
    BY <1>1, <2>1 DEF DelaysCurrent, SweptQueue, Sweep
  <2>3. QED
    BY <2>2 DEF DelaysInv
<1>6. ASSUME NEW dlq, NEW source, NEW max, BeginRedrive(dlq, source, max)
      PROVE  DelaysInv'
  <2>1. /\ work' = Sweep(SweptQueue(dlq, now), source, settings[source].retention, now)
        /\ UNCHANGED <<messages, settings>>
    BY <1>6 DEF BeginRedrive, store
  <2>2. DelaysCurrent(work)' /\ DelaysCurrent(messages)'
    BY <1>1, <2>1 DEF DelaysCurrent, SweptQueue, Sweep
  <2>3. QED
    BY <2>2 DEF DelaysInv
<1>7. CASE \E s \in DOMAIN work : DeliverNext(s) \/ DeadLetterNext(s) \/ RedriveNext(s)
  BY <1>7, RunningDelays
<1>8. CASE CommitReceive \/ CommitRedrive
  <2>1. tx # Idle /\ messages' = work /\ UNCHANGED settings /\ tx' = Idle
    BY <1>8 DEF CommitReceive, CommitRedrive, Idle
  <2>2. DelaysCurrent(messages)'
    BY <2>1 DEF DelaysInv, DelaysCurrent
  <2>3. QED
    BY <2>1, <2>2 DEF DelaysInv, Idle
<1>9. CASE Rollback
  BY <1>1, <1>9 DEF Rollback, store, DelaysInv, DelaysCurrent, Idle
<1>10. QED
  BY <1>2, <1>3, <1>4, <1>5, <1>6, <1>7, <1>8, <1>9, StepKinds

(* A FIFO message that was neither received nor moved becomes available    *)
(* exactly the current DelaySeconds after its creation.                    *)
THEOREM FifoDelaysCurrent == Spec => []FifoDelayCurrent
<1>1. Init => DelaysInv
  BY EmptyIsTable DEF Init, DelaysInv, DelaysCurrent, Idle
<1>2. TypeOK /\ DelaysInv /\ [Next]_vars => DelaysInv'
  BY DelaysStep, QueueStoreAssumption
<1>3. DelaysInv => FifoDelayCurrent
  BY DEF DelaysInv, FifoDelayCurrent
<1>4. QED
  BY <1>1, <1>2, <1>3, TypeCorrect, PTL DEF Spec
=============================================================================
