-------------------- MODULE QueueStoreRefinement_proofs --------------------
(***************************************************************************)
(* Proof that QueueStore implements FifoLines, for every value of the      *)
(* constants.  A running transaction keeps MovesInv; from it, and from the *)
(* invariants of QueueStoreSafety, every committed step is a step of the   *)
(* lines, and every other step leaves them alone.                          *)
(***************************************************************************)
EXTENDS QueueStoreRefinement, QueueStoreSafety_proofs

(* What survives of the committed rows stays the same while a transaction  *)
(* runs.                                                                   *)
LEMMA SurvivingStay ==
    ASSUME UNCHANGED <<messages, settings>>, tx'.kind = tx.kind,
           tx'.queue = tx.queue, tx'.at = tx.at,
           tx.kind = "redrive" => tx'.source = tx.source
    PROVE  Surviving' = Surviving
<1>1. KeptRows' = KeptRows
  BY KeptStay
<1>2. CASE tx.kind = "redrive"
  BY <1>1, <1>2 DEF Surviving, Sweep, Expired
<1>3. CASE tx.kind # "redrive"
  BY <1>1, <1>3 DEF Surviving
<1>4. QED
  BY <1>2, <1>3

(* It is part of the committed rows.                                       *)
LEMMA SurvivingAreCommitted ==
    /\ DOMAIN Surviving \subseteq DOMAIN messages
    /\ \A s \in DOMAIN Surviving : Surviving[s] = messages[s]
<1>1. /\ DOMAIN KeptRows \subseteq DOMAIN messages
      /\ \A s \in DOMAIN KeptRows : KeptRows[s] = messages[s]
  BY KeptAreCommitted
<1>2. QED
  BY <1>1 DEF Surviving, Sweep

(* A transaction starts with what survives, and has moved nothing.         *)
LEMMA BeginMoves ==
    ASSUME TypeOK, DOMAIN work' \subseteq DOMAIN messages,
           \A n \in DOMAIN work' : work'[n].group = messages[n].group,
           DOMAIN Surviving' = DOMAIN work',
           UNCHANGED <<messages, nextSequence>>,
           tx'.kind = "receive" => tx'.received = {},
           tx'.kind = "redrive" => (tx'.queue \in Fifo <=> tx'.source \in Fifo)
    PROVE  MovesInv'
<1>1. \A n \in DOMAIN work' : ~ (n >= nextSequence)
  BY DEF TypeOK, IsTable
<1>2. MovedRows' = {} /\ InsertedRows' = {}
  BY <1>1 DEF MovedRows, InsertedRows
<1> DEFINE place == [s \in {} |-> s]
<1>3. place \in [{} -> {}] /\ MovedTo(place)'
  BY <1>2 DEF MovedTo
<1>4. QED
  BY <1>2, <1>3 DEF MovesInv

(* The start of a receive.                                                 *)
LEMMA BeginReceiveMoves ==
    ASSUME TypeOK, NEW q \in Queue, NEW max, NEW option, NEW a, NEW cacheEmpty,
           BeginReceive(q, max, option, a, cacheEmpty)
    PROVE  MovesInv'
<1>1. /\ work' = SweptQueue(q, now) /\ UNCHANGED <<messages, settings, nextSequence>>
      /\ tx'.kind = "receive" /\ tx'.queue = q /\ tx'.at = now /\ tx'.received = {}
  BY DEF BeginReceive, store
<1>2. Surviving' = work'
  BY <1>1 DEF Surviving, KeptRows, SweptQueue, Sweep, Expired
<1>3. /\ DOMAIN work' \subseteq DOMAIN messages
      /\ \A n \in DOMAIN work' : work'[n] = messages[n]
  BY <1>1 DEF SweptQueue, Sweep
<1>4. QED
  BY <1>1, <1>2, <1>3, BeginMoves

(* The start of redrive_dead_letters.                                      *)
LEMMA BeginRedriveMoves ==
    ASSUME TypeOK, NEW dlq \in Queue, NEW source \in Queue, NEW max,
           BeginRedrive(dlq, source, max)
    PROVE  MovesInv'
<1>1. /\ work' = Sweep(SweptQueue(dlq, now), source, settings[source].retention, now)
      /\ UNCHANGED <<messages, settings, nextSequence>>
      /\ tx'.kind = "redrive" /\ tx'.queue = dlq /\ tx'.source = source /\ tx'.at = now
      /\ dlq \in Fifo <=> source \in Fifo
  BY DEF BeginRedrive, store
<1>2. KeptRows' = SweptQueue(dlq, now)
  BY <1>1 DEF KeptRows, SweptQueue, Sweep, Expired
<1>3. Surviving' = work'
  BY <1>1, <1>2 DEF Surviving, Sweep, Expired
<1>4. /\ DOMAIN work' \subseteq DOMAIN messages
      /\ \A n \in DOMAIN work' : work'[n] = messages[n]
  BY <1>1 DEF SweptQueue, Sweep
<1>5. QED
  BY <1>1, <1>3, <1>4, BeginMoves

(* A delivery moves nothing, and leaves the count within the limit of the  *)
(* redrive policy.                                                         *)
LEMMA DeliverNextMoves ==
    ASSUME TransactionInv, MovesLeaveQueue, MovesInv, NEW s \in DOMAIN work, DeliverNext(s)
    PROVE  MovesInv'
<1>1. /\ TypeOK /\ tx \in ReceiveTx /\ tx.kind = "receive" /\ tx # Idle
      /\ IsTable(work, workNext) /\ workNext \in Nat /\ nextSequence \in Nat
      /\ settings \in [Queue -> Settings] /\ tx.queue \in Queue
  BY TxKinds DEF DeliverNext, TransactionInv, TypeOK, Idle, ReceiveTx
<1>2. work[s] \in Row /\ s \in Nat /\ work[s].queue = tx.queue
  BY <1>1 DEF IsTable, DeliverNext, IsNext, Candidates, Receivable, RowsOf
<1>3. /\ DOMAIN work' = DOMAIN work
      /\ \A x \in DOMAIN work \ {s} : work'[x] = work[x]
      /\ work'[s].group = work[s].group /\ work'[s].count = work[s].count + 1
  BY <1>1, <1>2 DEF DeliverNext, DeliveredRow, Row
<1>4. /\ tx'.kind = tx.kind /\ tx'.queue = tx.queue /\ tx'.at = tx.at /\ tx' # Idle
      /\ tx'.received = tx.received \cup {s}
      /\ UNCHANGED <<messages, settings, nextSequence>>
  BY <1>1 DEF DeliverNext, ReceiveTx, store, Idle
<1>5. Surviving' = Surviving
  BY <1>1, <1>4, SurvivingStay
<1>6. MovedRows' = MovedRows /\ InsertedRows' = InsertedRows
  BY <1>3, <1>4, <1>5 DEF MovedRows, InsertedRows
<1>7. s \notin InsertedRows
  BY <1>1, <1>2 DEF InsertedRows, MovesLeaveQueue
<1>8. Target' = Target
  BY <1>1, <1>4 DEF Target
<1>9. PICK place \in [MovedRows -> InsertedRows] : MovedTo(place)
  BY <1>1 DEF MovesInv
<1>10. MovedTo(place)'
  <2>1. \A x \in MovedRows : work'[place[x]] = work[place[x]]
    BY <1>3, <1>7, <1>9 DEF InsertedRows
  <2>2. QED
    BY <1>1, <1>4, <1>6, <1>8, <1>9, <2>1 DEF MovedTo
<1>11. \A n \in DOMAIN work' \ InsertedRows' :
          n \in DOMAIN Surviving' /\ work'[n].group = messages'[n].group
  BY <1>1, <1>3, <1>4, <1>5, <1>6 DEF MovesInv
<1>12. MovedRows' \subseteq RowsOf(messages', tx'.queue)
  BY <1>1, <1>4, <1>6 DEF MovesInv
<1>13. /\ tx'.queue \in Fifo => \A x \in MovedRows' : Ahead(Surviving, x)' \subseteq MovedRows'
       /\ InsertedRows' \subseteq 1 .. MaxSequence
  BY <1>1, <1>4, <1>5, <1>6 DEF MovesInv, Ahead
<1>14. ASSUME settings[tx.queue].policy # NoPolicy
       PROVE  \A x \in tx'.received : work'[x].count <= settings[tx.queue].policy.max
  <2> DEFINE max == settings[tx.queue].policy.max
  <2>1. settings[tx.queue].policy \in Policy \ {NoPolicy}
    BY <1>1, <1>14 DEF Settings
  <2>2. max \in Nat
    BY <2>1 DEF Policy
  <2>3. ~ (work[s].count >= max) /\ work[s].count \in Nat
    BY <1>2, <1>14 DEF DeliverNext, Exhausted, Row
  <2>4. \A x \in tx.received : work[x].count <= max
    BY <1>1, <1>14 DEF MovesInv
  <2>5. s \notin tx.received
    BY <1>2 DEF DeliverNext, AlreadyReceived
  <2>6. tx.received \subseteq DOMAIN work
    BY <1>1 DEF TypeOK
  <2> HIDE DEF max
  <2>7. work'[s].count <= max
    BY <1>3, <2>2, <2>3
  <2>8. QED
    BY <1>3, <1>4, <2>4, <2>5, <2>6, <2>7 DEF max
<1>15. QED
  BY <1>1, <1>4, <1>6, <1>9, <1>10, <1>11, <1>12, <1>13, <1>14 DEF MovesInv

(* A move takes the first row that is left of its group to the end of the  *)
(* table (move_message).                                                   *)
LEMMA MoveMoves ==
    ASSUME TransactionInv, MovesInv, tx # Idle,
           NEW s \in DOMAIN work, s < nextSequence, work[s].queue = tx.queue,
           NEW row \in Row, MoveRow(s, row),
           row.queue = Target, row.group = work[s].group,
           IF tx.kind = "redrive" THEN row.id = workNext /\ row.total = 0
           ELSE row.id = messages[s].id /\ row.total = messages[s].total,
           tx.queue \in Fifo => Ahead(work, s) = {},
           UNCHANGED <<messages, settings, nextSequence>>,
           tx' # Idle, tx'.kind = tx.kind, tx'.queue = tx.queue, tx'.at = tx.at,
           tx.kind = "redrive" => tx'.source = tx.source,
           tx.kind = "receive" => tx'.received = tx.received /\ s \notin tx.received
    PROVE  MovesInv'
<1>1. /\ TypeOK /\ IsTable(work, workNext) /\ IsTable(messages, nextSequence)
      /\ workNext \in Nat /\ nextSequence \in Nat /\ nextSequence <= workNext
      /\ UntouchedRows
  BY DEF TransactionInv, TypeOK
<1>2. /\ DOMAIN work' = (DOMAIN work \ {s}) \cup {workNext}
      /\ workNext \notin DOMAIN work /\ work'[workNext] = row
      /\ \A x \in DOMAIN work \ {s} : work'[x] = work[x]
  BY <1>1, MoveRowRows
<1>3. /\ \A x \in DOMAIN work : x \in Nat /\ x < workNext
      /\ \A x \in DOMAIN messages : x \in Nat /\ x < nextSequence
  BY <1>1 DEF IsTable
<1>4. Surviving' = Surviving /\ DOMAIN Surviving \subseteq DOMAIN messages
  BY SurvivingStay, SurvivingAreCommitted
<1>5. /\ \A n \in DOMAIN work \ InsertedRows :
            n \in DOMAIN Surviving /\ work[n].group = messages[n].group
      /\ MovedRows \subseteq RowsOf(messages, tx.queue)
      /\ InsertedRows \subseteq 1 .. MaxSequence
      /\ tx.kind = "redrive" => (tx.queue \in Fifo <=> tx.source \in Fifo)
      /\ tx.queue \in Fifo =>
            \A x \in MovedRows : Ahead(Surviving, x) \subseteq MovedRows
      /\ \E place \in [MovedRows -> InsertedRows] : MovedTo(place)
  BY DEF MovesInv
<1>6. s \notin InsertedRows /\ s \in DOMAIN Surviving /\ s \in DOMAIN messages
  BY <1>1, <1>3, <1>4, <1>5 DEF InsertedRows
<1>7. messages[s].queue = tx.queue /\ messages[s].group = work[s].group
  BY <1>1, <1>5, <1>6 DEF UntouchedRows
<1>8. workNext \notin DOMAIN Surviving /\ workNext >= nextSequence
  BY <1>1, <1>3, <1>4
<1>9. MovedRows' = MovedRows \cup {s} /\ s \notin MovedRows
  BY <1>2, <1>4, <1>6, <1>8 DEF MovedRows
<1>10. InsertedRows' = InsertedRows \cup {workNext} /\ workNext \notin InsertedRows
  BY <1>2, <1>6, <1>8 DEF InsertedRows
<1>11. Target' = Target
  BY DEF Target
<1>12. PICK place \in [MovedRows -> InsertedRows] : MovedTo(place)
  BY <1>5
<1>13. PICK longer \in [MovedRows' -> InsertedRows'] :
          longer[s] = workNext /\ \A x \in MovedRows : longer[x] = place[x]
  <2> DEFINE f == [x \in MovedRows \cup {s} |-> IF x = s THEN workNext ELSE place[x]]
  <2>1. /\ f \in [MovedRows' -> InsertedRows'] /\ f[s] = workNext
        /\ \A x \in MovedRows : f[x] = place[x]
    BY <1>9, <1>10, <1>12
  <2>2. QED
    BY <2>1
<1>14. \A x \in MovedRows : work'[place[x]] = work[place[x]]
  BY <1>2, <1>6, <1>12 DEF InsertedRows
<1>15. \A e \in Ahead(Surviving, s) : tx.queue \in Fifo => e \in MovedRows
  <2> SUFFICES ASSUME NEW e \in Ahead(Surviving, s), tx.queue \in Fifo, e \in DOMAIN work
               PROVE  FALSE
    BY DEF MovedRows, Ahead
  <2>1. /\ e \in DOMAIN Surviving /\ e < s
        /\ Surviving[e].queue = Surviving[s].queue
        /\ Surviving[e].group = Surviving[s].group
    BY DEF Ahead
  <2>2. messages[e].queue = tx.queue /\ messages[e].group = work[s].group
    BY <1>6, <1>7, <2>1, SurvivingAreCommitted
  <2>3. e < nextSequence /\ e \notin InsertedRows
    BY <1>1, <1>3, <1>4, <2>1 DEF InsertedRows
  <2>4. work[e].queue = tx.queue /\ work[e].group = work[s].group
    BY <1>1, <1>5, <2>2, <2>3 DEF UntouchedRows
  <2>5. e \in Ahead(work, s)
    BY <2>1, <2>4 DEF Ahead
  <2>6. QED
    BY <2>5
<1>16. ASSUME tx.queue \in Fifo, NEW x \in MovedRows, messages[x].group = messages[s].group
       PROVE  x < s
  <2> SUFFICES ASSUME ~ (x < s) PROVE FALSE
    OBVIOUS
  <2>1. /\ x \in DOMAIN Surviving /\ x # s /\ s < x
        /\ messages[x].queue = tx.queue
    BY <1>3, <1>4, <1>5, <1>6, <1>9 DEF MovedRows, RowsOf
  <2>2. s \in Ahead(Surviving, x)
    BY <1>6, <1>7, <1>16, <2>1, SurvivingAreCommitted DEF Ahead
  <2>3. QED
    BY <1>5, <1>9, <1>16, <2>2
<1>17. MovedTo(longer)'
  <2>1. \A n \in InsertedRows' : \E x \in MovedRows' : longer[x] = n
    BY <1>9, <1>10, <1>12, <1>13 DEF MovedTo
  <2>2. ASSUME tx.queue \in Fifo, NEW x \in MovedRows', NEW e \in MovedRows',
               messages[e].group = messages[x].group, e < x
        PROVE  longer[e] < longer[x]
    <3>1. CASE x \in MovedRows /\ e \in MovedRows
      BY <1>12, <1>13, <2>2, <3>1 DEF MovedTo
    <3>2. CASE x = s /\ e \in MovedRows
      BY <1>3, <1>12, <1>13, <3>2 DEF InsertedRows
    <3>3. CASE e = s /\ x \in MovedRows
      <4>1. x < s /\ x \in Nat /\ s \in Nat
        BY <1>3, <1>4, <1>6, <1>16, <2>2, <3>3 DEF MovedRows
      <4>2. QED
        BY <2>2, <3>3, <4>1
    <3>4. CASE e = s /\ x = s
      BY <1>3, <2>2, <3>4
    <3>5. QED
      BY <1>9, <3>1, <3>2, <3>3, <3>4
  <2>3. ASSUME NEW x \in MovedRows'
        PROVE  /\ work'[longer[x]].queue = Target
               /\ work'[longer[x]].group = messages[x].group
               /\ IF tx.kind = "redrive"
                  THEN work'[longer[x]].id = longer[x] /\ work'[longer[x]].total = 0
                  ELSE /\ work'[longer[x]].id = messages[x].id
                       /\ work'[longer[x]].total = messages[x].total
    <3>1. CASE x = s
      BY <1>2, <1>7, <1>13, <3>1
    <3>2. CASE x \in MovedRows
      BY <1>12, <1>13, <1>14, <3>2 DEF MovedTo
    <3>3. QED
      BY <1>9, <3>1, <3>2
  <2>4. QED
    BY <1>11, <2>1, <2>2, <2>3 DEF MovedTo
<1>18. \A n \in DOMAIN work' \ InsertedRows' :
          n \in DOMAIN Surviving' /\ work'[n].group = messages'[n].group
  BY <1>2, <1>4, <1>5, <1>10
<1>19. MovedRows' \subseteq RowsOf(messages', tx'.queue)
  BY <1>5, <1>6, <1>7, <1>9 DEF RowsOf
<1>20. tx'.queue \in Fifo => \A x \in MovedRows' : Ahead(Surviving, x)' \subseteq MovedRows'
  BY <1>4, <1>5, <1>9, <1>15 DEF Ahead
<1>21. tx'.kind = "receive" /\ settings'[tx'.queue].policy # NoPolicy =>
          \A x \in tx'.received : work'[x].count <= settings'[tx'.queue].policy.max
  BY <1>1, <1>2 DEF MovesInv, TypeOK
<1>22. InsertedRows' \subseteq 1 .. MaxSequence
  <2>1. workNext <= MaxSequence /\ workNext \in Nat \ {0}
    BY DEF MoveRow, TransactionInv, TypeOK
  <2>2. workNext \in 1 .. MaxSequence
    BY <2>1, QueueStoreAssumption DEF QueueStoreAssumption
  <2>3. QED
    BY <1>5, <1>10, <2>2
<1>23. tx'.kind = "redrive" => (tx'.queue \in Fifo <=> tx'.source \in Fifo)
  BY <1>5
<1>24. QED
  BY <1>13, <1>17, <1>18, <1>19, <1>20, <1>21, <1>22, <1>23 DEF MovesInv

(* A dead-letter move takes the head of its group: whatever was ahead has  *)
(* been delivered at least as often, and would have exhausted its          *)
(* deliveries first (redrive_candidate).                                   *)
LEMMA DeadLetterNextMoves ==
    ASSUME TransactionInv, MovesLeaveQueue, EarlierInv, MovesInv, NEW s \in DOMAIN work,
           DeadLetterNext(s)
    PROVE  MovesInv'
<1>1. /\ TypeOK /\ tx \in ReceiveTx /\ tx.kind = "receive" /\ tx # Idle
      /\ IsTable(work, workNext) /\ nextSequence \in Nat /\ workNext \in Nat
      /\ settings \in [Queue -> Settings] /\ tx.queue \in Queue
      /\ UntouchedRows
  BY TxKinds DEF DeadLetterNext, TransactionInv, TypeOK, Idle, ReceiveTx
<1>2. /\ s \in Candidates /\ ~ AlreadyReceived(s) /\ Exhausted(s)
      /\ UNCHANGED <<messages, settings, nextSequence, tx>>
  BY DEF DeadLetterNext, IsNext, store
<1>3. work[s].queue = tx.queue /\ s \notin tx.received /\ s \in Nat /\ work[s] \in Row
  BY <1>1, <1>2 DEF Candidates, Receivable, RowsOf, AlreadyReceived, IsTable
<1>4. s < nextSequence
  BY <1>1, <1>3 DEF MovesLeaveQueue
<1>5. work[s] = messages[s]
  BY <1>1, <1>3, <1>4 DEF UntouchedRows
<1>6. ASSUME tx.queue \in Fifo
      PROVE  Ahead(work, s) = {}
  <2> SUFFICES ASSUME NEW e \in Ahead(work, s) PROVE FALSE
    OBVIOUS
  <2> DEFINE max == settings[tx.queue].policy.max
  <2>1. e \in tx.received /\ e \in DOMAIN work
    BY <1>2, <1>6 DEF Candidates, Receivable, Ahead
  <2>2. settings[tx.queue].policy \in Policy \ {NoPolicy} /\ work[s].count >= max
    BY <1>1, <1>2 DEF Exhausted, Settings
  <2>3. max \in Nat
    BY <2>2 DEF Policy
  <2>4. work[e].count <= max
    BY <1>1, <2>1, <2>2 DEF MovesInv
  <2>5. work[e].count > work[s].count
    BY <1>1, <1>3, <1>6, <2>1 DEF EarlierInv
  <2>6. work[e].count \in Nat /\ work[s].count \in Nat
    BY <1>1, <1>3, <2>1 DEF IsTable, Row
  <2> HIDE DEF max
  <2>7. QED
    BY <2>2, <2>3, <2>4, <2>5, <2>6
<1>7. PICK row \in Row :
        /\ MoveRow(s, row)
        /\ row.id = work[s].id /\ row.total = work[s].total /\ row.group = work[s].group
        /\ row.queue = settings[tx.queue].policy.deadLetter
  BY <1>1, DeadLetterNextRow
<1>8. row.queue = Target
  BY <1>1, <1>7 DEF Target
<1>9. QED
  BY <1>1, <1>2, <1>3, <1>4, <1>5, <1>6, <1>7, <1>8, MoveMoves

(* A redrive takes the head of its group, and inserts a new message        *)
(* (redrive_dead_letters).                                                 *)
LEMMA RedriveNextMoves ==
    ASSUME TransactionInv, RedriveInv, MovesInv, NEW s \in DOMAIN work, RedriveNext(s)
    PROVE  MovesInv'
<1>1. TypeOK /\ tx \in RedriveTx /\ tx.kind = "redrive" /\ tx # Idle
  BY TxKinds DEF RedriveNext, TransactionInv, TypeOK, Idle
<1>2. /\ UNCHANGED <<messages, settings, nextSequence>>
      /\ tx'.queue = tx.queue /\ tx'.source = tx.source /\ tx'.at = tx.at
      /\ tx'.kind = tx.kind /\ tx' # Idle
  BY <1>1 DEF RedriveNext, store, RedriveTx, Idle
<1>3. /\ s \in RowsOf(work, tx.queue)
      /\ tx.queue \in Fifo => Ahead(work, s) = {}
  BY DEF RedriveNext, RedriveCandidates
<1>4. s < nextSequence /\ work[s].queue = tx.queue
  BY <1>1, <1>3 DEF RedriveInv, RowsOf
<1>5. PICK row \in Row :
        /\ MoveRow(s, row)
        /\ row = NewRow(workNext, tx.source, work[s].group, work[s].dedup, tx.at,
                        settings[tx.source].delay)
        /\ row.id = workNext /\ row.queue = tx.source /\ row.group = work[s].group
  BY <1>1, RedriveNextRow
<1>6. row.total = 0 /\ row.queue = Target
  BY <1>1, <1>5 DEF NewRow, Target
<1>7. QED
  BY <1>1, <1>2, <1>3, <1>4, <1>5, <1>6, MoveMoves

(* Every step keeps what a running transaction has moved.                  *)
LEMMA MovesStep ==
    ASSUME TransactionInv, MovesLeaveQueue, EarlierInv, RedriveInv, MovesInv,
           QueueStoreAssumption, [Next]_vars
    PROVE  MovesInv'
<1>1. TypeOK
  BY DEF TransactionInv
<1>2. CASE tx = Idle /\ UNCHANGED txVars
  BY <1>2 DEF txVars, MovesInv
<1>3. CASE UNCHANGED <<store, txVars>>
  <2>1. UNCHANGED <<tx, work, workNext, messages, settings, nextSequence>>
    BY ONLY <1>3 DEF store, txVars
  <2>2. Surviving' = Surviving
    BY <2>1, SurvivingStay
  <2>3. MovedRows' = MovedRows /\ InsertedRows' = InsertedRows /\ Target' = Target
    BY ONLY <2>1, <2>2 DEF MovedRows, InsertedRows, Target
  <2>4. CASE tx # Idle
    <3>1. PICK place \in [MovedRows -> InsertedRows] : MovedTo(place)
      BY <2>4 DEF MovesInv
    <3>2. MovedTo(place)'
      BY ONLY <2>1, <2>3, <3>1 DEF MovedTo
    <3>3. /\ \A n \in DOMAIN work' \ InsertedRows' :
                n \in DOMAIN Surviving' /\ work'[n].group = messages'[n].group
          /\ MovedRows' \subseteq RowsOf(messages', tx'.queue)
          /\ InsertedRows' \subseteq 1 .. MaxSequence
          /\ tx'.kind = "redrive" => (tx'.queue \in Fifo <=> tx'.source \in Fifo)
          /\ tx'.queue \in Fifo =>
                \A x \in MovedRows' : Ahead(Surviving, x)' \subseteq MovedRows'
          /\ tx'.kind = "receive" /\ settings'[tx'.queue].policy # NoPolicy =>
                \A x \in tx'.received : work'[x].count <= settings'[tx'.queue].policy.max
      BY <2>1, <2>2, <2>3, <2>4 DEF MovesInv, Ahead
    <3>4. QED
      BY <2>3, <3>1, <3>2, <3>3 DEF MovesInv
  <2>5. CASE tx = Idle
    BY <2>1, <2>5 DEF MovesInv
  <2>6. QED
    BY <2>4, <2>5
<1>4. CASE \E q \in Queue, max \in BatchSizes, option \in Visibilities,
             a \in AttemptId \cup {NoAttempt}, cacheEmpty \in BOOLEAN :
            BeginReceive(q, max, option, a, cacheEmpty)
  BY <1>1, <1>4, BeginReceiveMoves
<1>5. CASE \E dlq, source \in Queue, max \in MoveSizes : BeginRedrive(dlq, source, max)
  BY <1>1, <1>5, BeginRedriveMoves
<1>6. CASE \E s \in DOMAIN work : DeliverNext(s) \/ DeadLetterNext(s) \/ RedriveNext(s)
  BY <1>6, DeliverNextMoves, DeadLetterNextMoves, RedriveNextMoves
<1>7. CASE CommitReceive \/ CommitRedrive \/ Rollback
  BY <1>7 DEF CommitReceive, CommitRedrive, Rollback, MovesInv
<1>8. QED
  BY <1>1, <1>2, <1>3, <1>4, <1>5, <1>6, <1>7, StepKinds

(* So the moves of a running transaction are always in order.              *)
THEOREM MovesAlwaysInOrder == Spec => []MovesInv
<1>1. Init => MovesInv
  BY DEF Init, MovesInv
<1>2. ASSUME TransactionInv, MovesLeaveQueue, EarlierInv, RedriveInv, MovesInv, [Next]_vars
      PROVE  MovesInv'
  BY <1>2, MovesStep, QueueStoreAssumption
<1>3. QED
  BY <1>1, <1>2, TransactionCorrect, MovesAlwaysLeave, EarlierAlways,
     RedriveAlwaysReturns, PTL DEF Spec

-----------------------------------------------------------------------------
(* The lines of the committed rows, and numbers.                           *)

(* The lines of a table.                                                   *)
LEMMA LineParts ==
    ASSUME NEW table, NEW q \in Fifo, NEW g \in Group
    PROVE  /\ LinesOf(table)[q][g] = LineOf(table, q, g)
           /\ \A s : s \in DOMAIN LineOf(table, q, g) <=>
                        /\ s \in DOMAIN table
                        /\ table[s].queue = q /\ table[s].group = g
           /\ \A s \in DOMAIN LineOf(table, q, g) :
                /\ LineOf(table, q, g)[s] = [id |-> table[s].id, received |-> table[s].total]
                /\ LineOf(table, q, g)[s].id = table[s].id
                /\ LineOf(table, q, g)[s].received = table[s].total
BY DEF LinesOf, LineOf, RowsOf

(* Lines are the same when each of them is.                                *)
LEMMA SameLines ==
    ASSUME NEW table, NEW lines, lines = [q \in Fifo |-> [g \in Group |-> lines[q][g]]],
           \A q \in Fifo : \A g \in Group : lines[q][g] = LineOf(table, q, g)
    PROVE  lines = LinesOf(table)
BY DEF LinesOf

(* What a sweep, a deletion or a purge leaves is what remains without the  *)
(* messages lost.                                                          *)
LEMMA LinesRemain ==
    ASSUME UniqueIds(messages), NEW kept, DOMAIN kept \subseteq DOMAIN messages,
           \A s \in DOMAIN kept :
              /\ kept[s].queue = messages[s].queue /\ kept[s].group = messages[s].group
              /\ kept[s].id = messages[s].id /\ kept[s].total = messages[s].total
    PROVE  \E lost \in SUBSET Lines!Present : Lines!Remaining(lost) = LinesOf(kept)
<1> DEFINE lost == {id \in Lines!Present : \A s \in DOMAIN kept : kept[s].id # id}
           left == Lines!Remaining(lost)
<1>1. ASSUME NEW q \in Fifo, NEW g \in Group
      PROVE  left[q][g] = LineOf(kept, q, g)
  <2> DEFINE line == LineOf(messages, q, g)
  <2>1. left[q][g] = Lines!Kept(line, lost)
    BY LineParts DEF Lines!Remaining
  <2>2. \A s \in DOMAIN line : line[s].id \in Lines!Present
    <3>1. LinesOf(messages)[q][g] = line
      BY LineParts
    <3> HIDE DEF line
    <3>2. \A s \in DOMAIN line : line[s].id \in Lines!IdsOf(LinesOf(messages)[q][g])
      BY <3>1 DEF Lines!IdsOf
    <3>3. QED
      BY <3>2 DEF Lines!Present
  <2>3. \A s \in DOMAIN line : line[s].id = messages[s].id /\ s \in DOMAIN messages
    BY DEF LineOf, RowsOf
  <2>4. \A s \in DOMAIN line : line[s].id \notin lost <=> s \in DOMAIN kept
    <3>1. ASSUME NEW s \in DOMAIN line, line[s].id \notin lost
          PROVE  s \in DOMAIN kept
      <4>1. PICK o \in DOMAIN kept : kept[o].id = line[s].id
        BY <2>2, <3>1
      <4>2. messages[o].id = messages[s].id /\ o \in DOMAIN messages
        BY <2>3, <4>1
      <4>3. QED
        BY <2>3, <4>2 DEF UniqueIds
    <3>2. ASSUME NEW s \in DOMAIN line, s \in DOMAIN kept
          PROVE  line[s].id \notin lost
      BY <2>3, <3>2
    <3>3. QED
      BY <3>1, <3>2
  <2> HIDE DEF lost, left
  <2>5. \A s : s \in DOMAIN line /\ s \in DOMAIN kept <=> s \in DOMAIN LineOf(kept, q, g)
    BY DEF LineOf, RowsOf
  <2>6. \A s \in DOMAIN LineOf(kept, q, g) : line[s] = LineOf(kept, q, g)[s]
    BY DEF LineOf, RowsOf
  <2>7. LineOf(kept, q, g) = [s \in DOMAIN LineOf(kept, q, g) |-> LineOf(kept, q, g)[s]]
    BY DEF LineOf
  <2> HIDE DEF line
  <2>8. Lines!Kept(line, lost) = [s \in DOMAIN LineOf(kept, q, g) |-> line[s]]
    <3>1. {o \in DOMAIN line : line[o].id \notin lost} = DOMAIN LineOf(kept, q, g)
      BY <2>4, <2>5
    <3>2. QED
      BY <3>1 DEF Lines!Kept
  <2>9. QED
    BY <2>1, <2>6, <2>7, <2>8
<1>2. left = [q \in Fifo |-> [g \in Group |-> left[q][g]]]
  BY DEF Lines!Remaining
<1> HIDE DEF lost, left
<1>3. left = LinesOf(kept)
  BY <1>1, <1>2, SameLines
<1>4. lost \in SUBSET Lines!Present
  BY DEF lost
<1>5. QED
  BY <1>3, <1>4 DEF left

(* A non-empty set of numbers with a bound has a greatest one: of the      *)
(* intervals n .. N one is smallest.                                       *)
LEMMA GreatestNumber ==
    ASSUME NEW N \in Nat, NEW A, A \subseteq 1 .. N, A # {}
    PROVE  \E n \in A : \A m \in A : m <= n
<1> DEFINE T == {n .. N : n \in A}
<1>1. IsWellFoundedOn(StrictSubsetOrdering(Nat), FiniteSubsetsOf(Nat))
  BY FS_StrictSubsetOrderingWellFounded
<1>2. T \subseteq FiniteSubsetsOf(Nat)
  <2>1. \A n \in A : n .. N \subseteq Nat /\ IsFiniteSet(n .. N)
    BY FS_Interval
  <2>2. \A x \in T : x \in FiniteSubsetsOf(Nat)
    BY ONLY <2>1 DEF FiniteSubsetsOf
  <2>3. QED
    BY ONLY <2>2
<1>3. T # {}
  OBVIOUS
<1>4. PICK x \in T : \A y \in T : ~ (<<y, x>> \in StrictSubsetOrdering(Nat))
  <2> HIDE DEF T
  <2>1. QED
    BY ONLY <1>1, <1>2, <1>3, WFMin
<1>5. PICK n \in A : x = n .. N
  OBVIOUS
<1>6. ASSUME NEW m \in A, n < m
      PROVE  FALSE
  <2>1. /\ m .. N \subseteq n .. N /\ n \in n .. N /\ n \notin m .. N
    BY <1>6
  <2>2. <<m .. N, n .. N>> \in StrictSubsetOrdering(Nat)
    BY <2>1 DEF StrictSubsetOrdering
  <2>3. QED
    BY <1>4, <1>5, <2>2
<1>7. QED
  BY <1>6

\* Who is ahead of a member is a member.
FirstOf(A, D) == A \subseteq D /\ \A s \in A, e \in D : e < s => e \in A

(* A first part of a line ends at its greatest place.                      *)
LEMMA FirstPartEnds ==
    ASSUME NEW N \in Nat, NEW D, D \subseteq 1 .. N, NEW A, FirstOf(A, D)
    PROVE  \E end \in {0} \cup D :
              A = {p \in D : p <= end} /\ (end # 0 => end \in A)
<1>1. CASE A = {}
  <2>1. \A p \in D : ~ (p <= 0)
    OBVIOUS
  <2>2. A = {p \in D : p <= 0}
    BY ONLY <1>1, <2>1
  <2>3. QED
    BY <2>2
<1>2. CASE A # {}
  <2>0. A \subseteq D /\ A \subseteq 1 .. N /\ D \subseteq Nat
    BY DEF FirstOf
  <2>1. PICK end \in A : \A m \in A : m <= end
    BY ONLY <1>2, <2>0, N \in Nat, GreatestNumber
  <2>2. A = {p \in D : p <= end}
    <3>1. ASSUME NEW p \in D, p <= end PROVE p \in A
      <4>1. p < end \/ p = end
        BY ONLY <2>0, <2>1, <3>1
      <4>2. QED
        BY ONLY <2>1, <4>1, FirstOf(A, D) DEF FirstOf
    <3>2. QED
      BY ONLY <2>0, <2>1, <3>1
  <2>3. QED
    BY <2>1, <2>2 DEF FirstOf
<1>3. QED
  BY <1>1, <1>2

(* A line that has lost a first part, and handed out the next one.         *)
LEMMA FirstPartsLeave ==
    ASSUME NEW N \in Nat, NEW line, DOMAIN line \subseteq 1 .. N,
           NEW moved, FirstOf(moved, DOMAIN line),
           NEW rest, DOMAIN rest = DOMAIN line \ moved,
           NEW out, FirstOf(out, DOMAIN rest),
           rest = [p \in DOMAIN rest |->
                      IF p \in out THEN Lines!Counted(line[p]) ELSE line[p]]
    PROVE  \E dead, given \in Lines!Ends(line) :
              /\ dead # 0 => moved # {}
              /\ DOMAIN Lines!First(line, dead) = moved
              /\ rest = Lines!HandedOut(Lines!Rest(line, dead), given)
              /\ out = {} => rest = Lines!Rest(line, dead)
<1>1. PICK dead \in {0} \cup DOMAIN line :
          moved = {p \in DOMAIN line : p <= dead} /\ (dead # 0 => dead \in moved)
  BY FirstPartEnds
<1>2. PICK given \in {0} \cup DOMAIN rest : out = {p \in DOMAIN rest : p <= given}
  <2>1. DOMAIN rest \subseteq 1 .. N
    OBVIOUS
  <2>2. QED
    BY ONLY <2>1, N \in Nat, FirstOf(out, DOMAIN rest), FirstPartEnds
<1>3. DOMAIN Lines!First(line, dead) = moved
  BY <1>1 DEF Lines!First
<1>4. DOMAIN Lines!Rest(line, dead) = DOMAIN rest
  BY <1>1 DEF Lines!Rest
<1>5. \A p \in DOMAIN rest : Lines!Rest(line, dead)[p] = line[p]
  BY <1>4 DEF Lines!Rest
<1>6. rest = Lines!HandedOut(Lines!Rest(line, dead), given)
  <2>1. \A p \in DOMAIN rest : p \in out <=> p <= given
    BY <1>2
  <2>2. Lines!HandedOut(Lines!Rest(line, dead), given) =
          [p \in DOMAIN rest |->
              IF p <= given THEN Lines!Counted(line[p]) ELSE line[p]]
    BY <1>4, <1>5 DEF Lines!HandedOut
  <2>3. QED
    BY <2>1, <2>2
<1>7. dead \in Lines!Ends(line) /\ given \in Lines!Ends(line)
  BY DEF Lines!Ends
<1>8. out = {} => rest = Lines!Rest(line, dead)
  <2>1. Lines!Rest(line, dead) = [p \in DOMAIN rest |-> line[p]]
    BY <1>4 DEF Lines!Rest
  <2>2. QED
    BY <2>1
<1>9. QED
  BY <1>1, <1>3, <1>6, <1>7, <1>8

-----------------------------------------------------------------------------
(* The lines of a commit.                                                  *)

(* What a transaction has left of the surviving rows is in their place,    *)
(* counted once more if it was received.                                   *)
LEMMA RowsLeft ==
    ASSUME TransactionInv, MovesInv, ReceiveInv, tx # Idle
    PROVE  /\ DOMAIN work \ InsertedRows = DOMAIN Surviving \ MovedRows
           /\ \A n \in DOMAIN work \ InsertedRows :
                /\ n < nextSequence
                /\ work[n].queue = Surviving[n].queue
                /\ work[n].group = Surviving[n].group
                /\ work[n].id = Surviving[n].id
                /\ work[n].total = Surviving[n].total
                      + IF tx.kind = "receive" /\ n \in tx.received THEN 1 ELSE 0
<1>1. /\ TypeOK /\ IsTable(work, workNext) /\ IsTable(messages, nextSequence)
      /\ workNext \in Nat /\ nextSequence \in Nat
      /\ UntouchedRows
  BY DEF TransactionInv, TypeOK
<1>2. /\ DOMAIN work \subseteq Nat
      /\ \A s \in DOMAIN messages : s \in Nat /\ s < nextSequence /\ messages[s] \in Row
  BY <1>1 DEF IsTable
<1>3. /\ DOMAIN Surviving \subseteq DOMAIN messages
      /\ \A s \in DOMAIN Surviving : Surviving[s] = messages[s]
  BY SurvivingAreCommitted
<1>4. \A n \in DOMAIN work \ InsertedRows :
          n \in DOMAIN Surviving /\ work[n].group = messages[n].group
  BY DEF MovesInv
<1>5. \A n \in DOMAIN work \ InsertedRows : n < nextSequence
  BY <1>1, <1>2 DEF InsertedRows
<1>6. DOMAIN work \ InsertedRows = DOMAIN Surviving \ MovedRows
  <2>1. \A n \in DOMAIN work \ InsertedRows : n \in DOMAIN Surviving \ MovedRows
    BY <1>4 DEF MovedRows
  <2>2. \A n \in DOMAIN Surviving \ MovedRows : n \in DOMAIN work /\ n \notin InsertedRows
    BY <1>1, <1>2, <1>3 DEF MovedRows, InsertedRows
  <2>3. QED
    BY <2>1, <2>2
<1>7. ASSUME NEW n \in DOMAIN work \ InsertedRows
      PROVE  /\ work[n].queue = Surviving[n].queue
             /\ work[n].group = Surviving[n].group
             /\ work[n].id = Surviving[n].id
             /\ work[n].total = Surviving[n].total
                    + IF tx.kind = "receive" /\ n \in tx.received THEN 1 ELSE 0
  <2>1. Surviving[n] = messages[n] /\ n \in DOMAIN messages
    BY <1>3, <1>4
  <2>2. work[n].queue = Surviving[n].queue /\ work[n].group = Surviving[n].group
    BY <1>1, <1>4, <1>5, <2>1 DEF UntouchedRows
  <2>3. CASE tx.kind = "receive"
    <3>1. Surviving = KeptRows
      BY <2>3 DEF Surviving
    <3>2. /\ work[n].id = KeptRows[n].id
          /\ work[n].total = KeptRows[n].total + IF n \in tx.received THEN 1 ELSE 0
      BY <1>5, <2>3 DEF ReceiveInv
    <3>3. QED
      BY <2>2, <2>3, <3>1, <3>2
  <2>4. CASE tx.kind # "receive"
    <3>1. work[n] = messages[n]
      BY <1>1, <1>5, <2>4 DEF UntouchedRows
    <3>2. Surviving[n].total \in Nat
      BY <1>2, <2>1 DEF Row
    <3>3. Surviving[n].total + 0 = Surviving[n].total
      BY <3>2
    <3>4. QED
      BY <2>1, <2>2, <2>4, <3>1, <3>3
  <2>5. QED
    BY <2>3, <2>4
<1>8. QED
  BY <1>5, <1>6, <1>7

(* Rows move to another queue of the same type.                            *)
LEMMA MovesChangeQueue ==
    ASSUME TransactionInv, MovesLeaveQueue, RedriveInv, MovesInv, tx # Idle,
           InsertedRows # {}
    PROVE  /\ Target \in Queue /\ Target # tx.queue
           /\ tx.queue \in Fifo <=> Target \in Fifo
           /\ \A n \in InsertedRows : work[n].queue = Target
<1>1. PICK place \in [MovedRows -> InsertedRows] : MovedTo(place)
  BY DEF MovesInv
<1>2. \A n \in InsertedRows : work[n].queue = Target
  BY <1>1 DEF MovedTo
<1>3. PICK n \in DOMAIN work : work[n].queue = Target
  BY <1>2 DEF InsertedRows
<1>4. Target \in Queue
  BY <1>3 DEF TransactionInv, TypeOK, IsTable, Row
<1>5. CASE tx.kind = "redrive"
  BY <1>2, <1>4, <1>5 DEF Target, RedriveInv, MovesInv
<1>6. CASE tx.kind = "receive"
  <2>1. tx.queue \in Queue
    BY <1>6, TxKinds DEF TransactionInv, ReceiveTx
  <2>2. Target = settings[tx.queue].policy.deadLetter
    BY <1>6 DEF Target
  <2>3. settings[tx.queue].policy # NoPolicy
    BY <1>4, <2>2, MessageRowsAssumption DEF NoPolicy, MessageRowsAssumption
  <2>4. QED
    BY <1>2, <1>4, <2>1, <2>2, <2>3 DEF MovesLeaveQueue, PolicyAllowed
<1>7. QED
  BY <1>5, <1>6, TxKinds DEF TransactionInv

(* The line of a group in the queue that a transaction reads has lost a    *)
(* first part, and a receive has handed out the next one.                  *)
LEMMA LineLeft ==
    ASSUME TransactionInv, MovesLeaveQueue, RedriveInv, ReceiveInv, MovesInv, tx # Idle,
           tx.queue \in Fifo, NEW g \in Group,
           NEW line, line = LineOf(Surviving, tx.queue, g)
    PROVE  \E dead, given \in Lines!Ends(line) :
              /\ dead # 0 => MovedRows # {}
              /\ DOMAIN Lines!First(line, dead) = MovedRows \cap DOMAIN line
              /\ LineOf(work, tx.queue, g) = Lines!HandedOut(Lines!Rest(line, dead), given)
              /\ tx.kind = "redrive" => LineOf(work, tx.queue, g) = Lines!Rest(line, dead)
<1> DEFINE rest == LineOf(work, tx.queue, g)
           moved == MovedRows \cap DOMAIN line
           out == IF tx.kind = "receive" THEN tx.received \cap DOMAIN rest ELSE {}
<1>1. /\ TypeOK /\ IsTable(messages, nextSequence) /\ nextSequence \in Nat \ {0}
      /\ IsTable(work, workNext) /\ workNext \in Nat \ {0}
  BY DEF TransactionInv, TypeOK
<1>2. /\ DOMAIN Surviving \subseteq DOMAIN messages
      /\ \A s \in DOMAIN Surviving : Surviving[s] = messages[s]
  BY SurvivingAreCommitted
<1>3. /\ \A s : s \in DOMAIN line <=> /\ s \in DOMAIN Surviving
                                      /\ Surviving[s].queue = tx.queue
                                      /\ Surviving[s].group = g
      /\ \A s \in DOMAIN line :
            line[s] = [id |-> Surviving[s].id, received |-> Surviving[s].total]
  BY DEF LineOf, RowsOf
<1>4. /\ \A n : n \in DOMAIN rest <=> /\ n \in DOMAIN work
                                      /\ work[n].queue = tx.queue /\ work[n].group = g
      /\ rest = [n \in DOMAIN rest |-> [id |-> work[n].id, received |-> work[n].total]]
  BY DEF LineOf, RowsOf
<1>5. DOMAIN line \subseteq 1 .. nextSequence - 1
  BY <1>1, <1>2, <1>3 DEF IsTable
<1>6. /\ DOMAIN work \ InsertedRows = DOMAIN Surviving \ MovedRows
      /\ \A n \in DOMAIN work \ InsertedRows :
            /\ work[n].queue = Surviving[n].queue /\ work[n].group = Surviving[n].group
            /\ work[n].id = Surviving[n].id
            /\ work[n].total = Surviving[n].total
                  + IF tx.kind = "receive" /\ n \in tx.received THEN 1 ELSE 0
  BY RowsLeft
<1>7. \A n \in InsertedRows : work[n].queue # tx.queue
  BY MovesChangeQueue
<1> HIDE DEF rest
<1>8. DOMAIN rest \subseteq DOMAIN work \ InsertedRows
  BY <1>4, <1>7
<1>9. DOMAIN rest = DOMAIN line \ moved
  <2>1. \A n \in DOMAIN rest : n \in DOMAIN line \ moved
    BY <1>3, <1>4, <1>6, <1>8
  <2>2. \A n \in DOMAIN line \ moved : n \in DOMAIN rest
    BY <1>3, <1>4, <1>6
  <2>3. QED
    BY <2>1, <2>2
<1>10. FirstOf(moved, DOMAIN line)
  <2>1. ASSUME NEW s \in moved, NEW e \in DOMAIN line, e < s
        PROVE  e \in moved
    <3>1. e \in Ahead(Surviving, s)
      BY <1>3, <2>1 DEF Ahead
    <3>2. QED
      BY <2>1, <3>1 DEF MovesInv
  <2>2. QED
    BY <2>1 DEF FirstOf
<1>11. FirstOf(out, DOMAIN rest)
  <2>1. ASSUME NEW s \in out, NEW e \in DOMAIN rest, e < s
        PROVE  e \in out
    <3>1. tx.kind = "receive" /\ s \in tx.received /\ s \in DOMAIN rest
      BY <2>1
    <3>2. e \in Ahead(work, s)
      BY <1>4, <2>1, <3>1 DEF Ahead
    <3>3. QED
      BY <2>1, <3>1, <3>2 DEF TransactionInv, ReceivedRows
  <2>2. QED
    BY <2>1 DEF FirstOf
<1>12. rest = [p \in DOMAIN rest |->
                  IF p \in out THEN Lines!Counted(line[p]) ELSE line[p]]
  <2>1. ASSUME NEW p \in DOMAIN rest
        PROVE  [id |-> work[p].id, received |-> work[p].total] =
                  IF p \in out THEN Lines!Counted(line[p]) ELSE line[p]
    <3>1. p \in DOMAIN line /\ p \in DOMAIN work \ InsertedRows /\ p \in DOMAIN messages
      BY <1>2, <1>3, <1>8, <1>9, <2>1
    <3>2. Surviving[p].total \in Nat
      BY <1>1, <1>2, <1>3, <3>1 DEF IsTable, Row
    <3>3. p \in out <=> tx.kind = "receive" /\ p \in tx.received
      BY <2>1
    <3>4. CASE p \in out
      <4>1. work[p].total = Surviving[p].total + 1 /\ work[p].id = Surviving[p].id
        BY <1>6, <3>1, <3>3, <3>4
      <4>2. line[p] = [id |-> Surviving[p].id, received |-> Surviving[p].total]
        BY <1>3, <3>1
      <4>3. QED
        BY ONLY <3>4, <4>1, <4>2 DEF Lines!Counted
    <3>5. CASE p \notin out
      <4>1. work[p].total = Surviving[p].total /\ work[p].id = Surviving[p].id
        BY <1>6, <3>1, <3>2, <3>3, <3>5
      <4>2. line[p] = [id |-> Surviving[p].id, received |-> Surviving[p].total]
        BY <1>3, <3>1
      <4>3. QED
        BY ONLY <3>5, <4>1, <4>2
    <3>6. QED
      BY <3>4, <3>5
  <2>2. QED
    BY <1>4, <2>1
<1>13. tx.kind = "redrive" => out = {}
  OBVIOUS
<1> HIDE DEF out, moved
<1>14. PICK dead, given \in Lines!Ends(line) :
          /\ dead # 0 => moved # {}
          /\ DOMAIN Lines!First(line, dead) = moved
          /\ rest = Lines!HandedOut(Lines!Rest(line, dead), given)
          /\ out = {} => rest = Lines!Rest(line, dead)
  <2>1. nextSequence - 1 \in Nat
    BY <1>1
  <2>2. QED
    BY ONLY <1>5, <1>9, <1>10, <1>11, <1>12, <2>1, FirstPartsLeave
<1>15. QED
  BY <1>13, <1>14 DEF rest, moved

(* The line of the group in the queue that rows move to has become longer: *)
(* those moved follow in their order.                                      *)
LEMMA LineJoined ==
    ASSUME TransactionInv, MovesLeaveQueue, RedriveInv, ReceiveInv, MovesInv, tx # Idle,
           tx.queue \in Fifo, Target \in Fifo, Target # tx.queue, NEW g \in Group,
           NEW place \in [MovedRows -> InsertedRows], MovedTo(place),
           NEW line, line = LineOf(Surviving, Target, g),
           NEW moving, DOMAIN moving = MovedRows \cap DOMAIN LineOf(Surviving, tx.queue, g)
    PROVE  LET longer == LineOf(work, Target, g)
               follows == [p \in DOMAIN moving |-> place[p]]
           IN  /\ follows \in [DOMAIN moving -> DOMAIN longer]
               /\ Lines!Follow(longer, line, moving, follows)
               /\ \A p \in DOMAIN moving :
                    longer[follows[p]] =
                        [id |-> work[place[p]].id, received |-> work[place[p]].total]
<1> DEFINE longer == LineOf(work, Target, g)
           follows == [p \in DOMAIN moving |-> place[p]]
<1>1. /\ TypeOK /\ IsTable(messages, nextSequence) /\ nextSequence \in Nat \ {0}
      /\ IsTable(work, workNext) /\ workNext \in Nat \ {0}
  BY DEF TransactionInv, TypeOK
<1>2. /\ DOMAIN Surviving \subseteq DOMAIN messages
      /\ \A s \in DOMAIN Surviving : Surviving[s] = messages[s]
  BY SurvivingAreCommitted
<1>3. /\ \A s : s \in DOMAIN line <=> /\ s \in DOMAIN Surviving
                                      /\ Surviving[s].queue = Target
                                      /\ Surviving[s].group = g
      /\ \A s \in DOMAIN line :
            line[s] = [id |-> Surviving[s].id, received |-> Surviving[s].total]
  BY DEF LineOf, RowsOf
<1>4. /\ \A n : n \in DOMAIN longer <=> /\ n \in DOMAIN work
                                        /\ work[n].queue = Target /\ work[n].group = g
      /\ \A n \in DOMAIN longer :
            longer[n] = [id |-> work[n].id, received |-> work[n].total]
  BY DEF LineOf, RowsOf
<1>5. \A s : s \in DOMAIN moving <=> s \in MovedRows /\ messages[s].group = g
  <2>1. \A s \in MovedRows : s \in DOMAIN Surviving /\ Surviving[s].queue = tx.queue
    BY <1>2 DEF MovesInv, MovedRows, RowsOf
  <2>2. \A s : s \in DOMAIN LineOf(Surviving, tx.queue, g) <=>
                  /\ s \in DOMAIN Surviving
                  /\ Surviving[s].queue = tx.queue /\ Surviving[s].group = g
    BY DEF LineOf, RowsOf
  <2>3. QED
    BY <1>2, <2>1, <2>2
<1>6. /\ DOMAIN work \ InsertedRows = DOMAIN Surviving \ MovedRows
      /\ \A n \in DOMAIN work \ InsertedRows :
            /\ n < nextSequence
            /\ work[n].queue = Surviving[n].queue /\ work[n].group = Surviving[n].group
            /\ work[n].id = Surviving[n].id
            /\ work[n].total = Surviving[n].total
                  + IF tx.kind = "receive" /\ n \in tx.received THEN 1 ELSE 0
  BY RowsLeft
<1>7. /\ \A s \in MovedRows : /\ place[s] \in InsertedRows /\ place[s] \in DOMAIN work
                              /\ work[place[s]].queue = Target
                              /\ work[place[s]].group = messages[s].group
      /\ \A n \in InsertedRows : \E s \in MovedRows : place[s] = n
  BY DEF MovedTo, InsertedRows
<1> HIDE DEF longer
<1>8. \A p \in DOMAIN line : p \in DOMAIN Surviving \ MovedRows
  <2>1. \A s \in MovedRows : Surviving[s].queue = tx.queue
    BY <1>2 DEF MovesInv, MovedRows, RowsOf
  <2>2. QED
    BY <1>3, <2>1
<1>9. DOMAIN longer = DOMAIN line \cup {follows[p] : p \in DOMAIN moving}
  <2>1. ASSUME NEW n \in DOMAIN longer
        PROVE  n \in DOMAIN line \cup {follows[p] : p \in DOMAIN moving}
    <3>1. CASE n \in InsertedRows
      <4>1. PICK s \in MovedRows : place[s] = n
        BY <1>7, <3>1
      <4>2. s \in DOMAIN moving
        BY <1>4, <1>5, <1>7, <2>1, <4>1
      <4>3. QED
        BY <4>1, <4>2
    <3>2. CASE n \notin InsertedRows
      BY <1>3, <1>4, <1>6, <2>1, <3>2
    <3>3. QED
      BY <3>1, <3>2
  <2>2. \A n \in DOMAIN line : n \in DOMAIN longer
    BY <1>3, <1>4, <1>6, <1>8
  <2>3. \A p \in DOMAIN moving : follows[p] \in DOMAIN longer
    BY <1>4, <1>5, <1>7
  <2>4. QED
    BY <2>1, <2>2, <2>3
<1>10. \A p \in DOMAIN line : longer[p] = line[p]
  <2>1. ASSUME NEW p \in DOMAIN line
        PROVE  longer[p] = line[p]
    <3>1. p \in DOMAIN work \ InsertedRows /\ p \in DOMAIN longer
      BY <1>6, <1>8, <1>9
    <3>2. tx.kind = "receive" => p \notin tx.received
      BY <1>4, <3>1 DEF TransactionInv, ReceivedRows
    <3>3. Surviving[p].total \in Nat
      BY <1>1, <1>2, <1>8 DEF IsTable, Row
    <3>4. work[p].id = Surviving[p].id /\ work[p].total = Surviving[p].total
      BY <1>6, <3>1, <3>2, <3>3
    <3>5. QED
      BY <1>3, <1>4, <3>1, <3>4
  <2>2. QED
    BY <2>1
<1>11. \A p \in DOMAIN moving, o \in DOMAIN line : o < follows[p]
  <2>1. ASSUME NEW p \in DOMAIN moving, NEW o \in DOMAIN line
        PROVE  o < follows[p]
    <3>1. o < nextSequence /\ o \in Nat
      BY <1>1, <1>2, <1>3 DEF IsTable
    <3>2. place[p] \in DOMAIN work /\ place[p] >= nextSequence
      BY <1>5, <1>7 DEF InsertedRows
    <3>3. place[p] \in Nat
      BY <1>1, <3>2 DEF IsTable
    <3>4. o < place[p]
      BY <1>1, <3>1, <3>2, <3>3
    <3>5. QED
      BY <3>4
  <2>2. QED
    BY <2>1
<1>12. \A p, o \in DOMAIN moving : o < p => follows[o] < follows[p]
  BY <1>5 DEF MovedTo
<1>13. follows \in [DOMAIN moving -> DOMAIN longer]
  BY <1>9
<1>14. \A p \in DOMAIN moving :
          longer[follows[p]] = [id |-> work[place[p]].id, received |-> work[place[p]].total]
  BY <1>4, <1>9
<1> HIDE DEF follows
<1>15. Lines!Follow(longer, line, moving, follows)
  BY <1>9, <1>10, <1>11, <1>12 DEF Lines!Follow
<1>16. QED
  BY <1>13, <1>14, <1>15 DEF longer, follows

(* The other lines have not changed.                                       *)
LEMMA LineUntouched ==
    ASSUME TransactionInv, MovesLeaveQueue, RedriveInv, ReceiveInv, MovesInv, tx # Idle,
           NEW q, q # tx.queue, InsertedRows = {} \/ q # Target, NEW g
    PROVE  LineOf(work, q, g) = LineOf(Surviving, q, g)
<1>1. /\ TypeOK /\ IsTable(messages, nextSequence)
  BY DEF TransactionInv, TypeOK
<1>2. /\ DOMAIN Surviving \subseteq DOMAIN messages
      /\ \A s \in DOMAIN Surviving : Surviving[s] = messages[s]
  BY SurvivingAreCommitted
<1>3. /\ DOMAIN work \ InsertedRows = DOMAIN Surviving \ MovedRows
      /\ \A n \in DOMAIN work \ InsertedRows :
            /\ work[n].queue = Surviving[n].queue /\ work[n].group = Surviving[n].group
            /\ work[n].id = Surviving[n].id
            /\ work[n].total = Surviving[n].total
                  + IF tx.kind = "receive" /\ n \in tx.received THEN 1 ELSE 0
  BY RowsLeft
<1>4. \A s \in MovedRows : Surviving[s].queue = tx.queue
  BY <1>2 DEF MovesInv, MovedRows, RowsOf
<1>5. \A n \in InsertedRows : work[n].queue # q
  BY MovesChangeQueue
<1>6. ASSUME NEW n
      PROVE  n \in DOMAIN work /\ work[n].queue = q /\ work[n].group = g
             <=> n \in DOMAIN Surviving /\ Surviving[n].queue = q /\ Surviving[n].group = g
  BY <1>3, <1>4, <1>5
<1>7. ASSUME NEW n \in DOMAIN work, work[n].queue = q
      PROVE  work[n].id = Surviving[n].id /\ work[n].total = Surviving[n].total
  <2>1. n \in DOMAIN work \ InsertedRows /\ n \in DOMAIN Surviving
    BY <1>3, <1>5, <1>7
  <2>2. tx.kind = "receive" => n \notin tx.received
    BY <1>7 DEF TransactionInv, ReceivedRows
  <2>3. Surviving[n].total \in Nat
    BY <1>1, <1>2, <2>1 DEF IsTable, Row
  <2>4. QED
    BY <1>3, <2>1, <2>2, <2>3
<1>8. QED
  BY <1>6, <1>7 DEF LineOf, RowsOf

-----------------------------------------------------------------------------
(* The steps.                                                              *)

(* A step of the lines from what remains of them.                          *)
LEMMA LinesNext ==
    ASSUME NEW lost \in SUBSET Lines!Present, NEW left, left = Lines!Remaining(lost),
           \/ Lines!Lose(left)
           \/ \E q \in Fifo, g \in Group : Lines!Send(left, q, g)
           \/ \E q, other \in Fifo : Lines!Between(left, q, other)
    PROVE  Lines!Next
BY DEF Lines!Next

(* What a transaction leaves of the committed rows is a loss.              *)
LEMMA SurvivingRemain ==
    ASSUME ConstraintsInv
    PROVE  \E lost \in SUBSET Lines!Present : Lines!Remaining(lost) = LinesOf(Surviving)
<1>1. UniqueIds(messages)
  BY DEF ConstraintsInv, ConstraintsNeverTrip
<1>2. PICK kept : kept = Surviving
  OBVIOUS
<1>3. /\ DOMAIN kept \subseteq DOMAIN messages
      /\ \A s \in DOMAIN kept :
            /\ kept[s].queue = messages[s].queue /\ kept[s].group = messages[s].group
            /\ kept[s].id = messages[s].id /\ kept[s].total = messages[s].total
  BY <1>2, SurvivingAreCommitted
<1>4. QED
  BY <1>1, <1>2, <1>3, LinesRemain

(* A transaction over Standard queues changes no line but by its sweep.    *)
LEMMA StandardCommit ==
    ASSUME TransactionInv, MovesLeaveQueue, RedriveInv, ReceiveInv, MovesInv, ConstraintsInv,
           tx # Idle, tx.queue \notin Fifo, messages' = work
    PROVE  Lines!Next
<1>1. PICK lost \in SUBSET Lines!Present : Lines!Remaining(lost) = LinesOf(Surviving)
  BY SurvivingRemain
<1>2. \A q \in Fifo : q # tx.queue /\ (InsertedRows = {} \/ q # Target)
  BY MovesChangeQueue
<1>3. \A q \in Fifo, g \in Group : LineOf(work, q, g) = LineOf(Surviving, q, g)
  BY <1>2, LineUntouched
<1>4. LinesOf(work) = LinesOf(Surviving)
  BY <1>3 DEF LinesOf
<1>5. PICK left : left = LinesOf(Surviving)
  OBVIOUS
<1>6. LinesOf(messages') = left
  BY <1>4, <1>5
<1>7. Lines!Lose(left)
  BY <1>6 DEF Lines!Lose
<1>8. QED
  BY <1>1, <1>5, <1>7, LinesNext

(* Only the queue that a transaction reads and the one that it moves rows  *)
(* to have other lines than before.                                        *)
LEMMA CommitBetween ==
    ASSUME TransactionInv, MovesLeaveQueue, RedriveInv, ReceiveInv, MovesInv, ConstraintsInv,
           tx # Idle, messages' = work, tx.queue \in Fifo,
           NEW other \in Fifo, InsertedRows = {} \/ other = Target,
           NEW left, left = LinesOf(Surviving),
           Lines!Receive(left, tx.queue, other) \/ Lines!Redrive(left, tx.queue, other)
    PROVE  Lines!Next
<1>1. PICK lost \in SUBSET Lines!Present : Lines!Remaining(lost) = left
  BY SurvivingRemain
<1>2. PICK q \in Fifo : q = tx.queue
  OBVIOUS
<1>3. PICK new : new = LinesOf(work)
  OBVIOUS
<1>4. LinesOf(messages') = new
  BY <1>3
<1>5. ASSUME NEW r \in Fifo \ {q, other}
      PROVE  new[r] = left[r]
  <2>1. \A g \in Group : LineOf(work, r, g) = LineOf(Surviving, r, g)
    BY <1>2, <1>5, LineUntouched
  <2>2. /\ new[r] = [g \in Group |-> LineOf(work, r, g)]
        /\ left[r] = [g \in Group |-> LineOf(Surviving, r, g)]
    BY <1>3 DEF LinesOf
  <2>3. QED
    BY <2>1, <2>2
<1>6. new = [r \in Fifo |-> [g \in Group |-> new[r][g]]]
  BY <1>3 DEF LinesOf
<1>7. Lines!Between(left, q, other)
  BY <1>2, <1>4, <1>5, <1>6 DEF Lines!Between
<1>8. QED
  BY <1>1, <1>7, LinesNext

(* The commit of a receive from a FIFO queue.                              *)
LEMMA CommitReceiveLines ==
    ASSUME TransactionInv, MovesLeaveQueue, RedriveInv, ReceiveInv, MovesInv, ConstraintsInv,
           CommitReceive, tx.queue \in Fifo
    PROVE  Lines!Next
<1>1. tx.kind = "receive" /\ tx # Idle /\ messages' = work
  BY DEF CommitReceive, Idle
<1>2. PICK place \in [MovedRows -> InsertedRows] : MovedTo(place)
  BY <1>1 DEF MovesInv
<1>3. MovedRows # {} => InsertedRows # {}
  BY <1>2
<1>4. PICK other \in Fifo :
          /\ InsertedRows = {} => other = tx.queue
          /\ InsertedRows # {} => other = Target /\ other # tx.queue
  BY <1>1, MovesChangeQueue
<1>5. PICK left : left = LinesOf(Surviving)
  OBVIOUS
<1>6. PICK new : new = LinesOf(work)
  OBVIOUS
<1>7. PICK q \in Fifo : q = tx.queue
  OBVIOUS
<1>8. ASSUME NEW g \in Group
      PROVE  \E dead, given \in Lines!Ends(left[q][g]) :
                /\ dead # 0 => other # q
                /\ new[q][g] = Lines!HandedOut(Lines!Rest(left[q][g], dead), given)
                /\ other # q =>
                      Lines!Moved(new[other][g], left[other][g],
                                  Lines!First(left[q][g], dead))
  <2>1. PICK line : line = LineOf(Surviving, tx.queue, g)
    OBVIOUS
  <2>2. left[q][g] = line /\ new[q][g] = LineOf(work, tx.queue, g)
    BY <1>5, <1>6, <1>7, <2>1 DEF LinesOf
  <2>3. PICK dead, given \in Lines!Ends(line) :
            /\ dead # 0 => MovedRows # {}
            /\ DOMAIN Lines!First(line, dead) = MovedRows \cap DOMAIN line
            /\ LineOf(work, tx.queue, g) = Lines!HandedOut(Lines!Rest(line, dead), given)
    BY <1>1, <2>1, LineLeft
  <2>4. ASSUME other # q
        PROVE  Lines!Moved(new[other][g], left[other][g], Lines!First(line, dead))
    <3>1. other = Target /\ other # tx.queue
      BY <1>4, <1>7, <2>4
    <3>2. PICK old : old = LineOf(Surviving, Target, g)
      OBVIOUS
    <3>3. PICK longer : longer = LineOf(work, Target, g)
      OBVIOUS
    <3>4. left[other][g] = old /\ new[other][g] = longer
      BY <1>5, <1>6, <3>1, <3>2, <3>3 DEF LinesOf
    <3>5. PICK moving : moving = Lines!First(line, dead)
      OBVIOUS
    <3>6. PICK follows : follows = [p \in DOMAIN moving |-> place[p]]
      OBVIOUS
    <3>7. /\ follows \in [DOMAIN moving -> DOMAIN longer]
          /\ Lines!Follow(longer, old, moving, follows)
          /\ \A p \in DOMAIN moving :
                longer[follows[p]] =
                    [id |-> work[place[p]].id, received |-> work[place[p]].total]
      BY <1>1, <1>2, <2>1, <2>3, <3>1, <3>2, <3>3, <3>5, <3>6, LineJoined
    <3>8. ASSUME NEW p \in DOMAIN moving
          PROVE  longer[follows[p]] = moving[p]
      <4>1. p \in MovedRows /\ p \in DOMAIN line
        BY <2>3, <3>5
      <4>2. moving[p] = line[p]
        BY <3>5 DEF Lines!First
      <4>3. line[p] = [id |-> Surviving[p].id, received |-> Surviving[p].total]
        BY <2>1, <4>1 DEF LineOf, RowsOf
      <4>4. Surviving[p] = messages[p]
        BY <4>1, SurvivingAreCommitted DEF MovedRows
      <4>5. work[place[p]].id = messages[p].id /\ work[place[p]].total = messages[p].total
        BY <1>1, <1>2, <4>1 DEF MovedTo
      <4>6. QED
        BY <3>7, <4>2, <4>3, <4>4, <4>5
    <3>9. Lines!Moved(longer, old, moving)
      BY <3>7, <3>8 DEF Lines!Moved
    <3>10. QED
      BY <3>4, <3>5, <3>9
  <2>5. dead # 0 => other # q
    BY <1>3, <1>4, <1>7, <2>3
  <2>6. QED
    BY <2>2, <2>3, <2>4, <2>5
<1>9. LinesOf(messages') = new
  BY <1>1, <1>6
<1>10. Lines!Receive(left, q, other)
  BY <1>8, <1>9 DEF Lines!Receive
<1>11. QED
  BY <1>1, <1>4, <1>5, <1>7, <1>10, CommitBetween

(* The commit of a redrive between FIFO queues.                            *)
LEMMA CommitRedriveLines ==
    ASSUME TransactionInv, MovesLeaveQueue, RedriveInv, ReceiveInv, MovesInv, ConstraintsInv,
           ConstraintsInv', CommitRedrive, tx.queue \in Fifo
    PROVE  Lines!Next
<1>1. tx.kind = "redrive" /\ tx # Idle /\ messages' = work
  BY DEF CommitRedrive, Idle
<1>2. PICK place \in [MovedRows -> InsertedRows] : MovedTo(place)
  BY <1>1 DEF MovesInv
<1>3. PICK other \in Fifo : other = Target /\ other # tx.queue
  BY <1>1 DEF MovesInv, RedriveInv, Target
<1>4. PICK left : left = LinesOf(Surviving)
  OBVIOUS
<1>5. PICK new : new = LinesOf(work)
  OBVIOUS
<1>6. PICK q \in Fifo : q = tx.queue
  OBVIOUS
<1>7. \A n \in InsertedRows : n \in (1 .. MaxSequence) \ Lines!Present
  <2>1. ASSUME NEW n \in InsertedRows, n \in Lines!Present
        PROVE  FALSE
    <3>1. PICK r \in Fifo, g \in Group : n \in Lines!IdsOf(LinesOf(messages)[r][g])
      BY <2>1 DEF Lines!Present
    <3>2. LinesOf(messages)[r][g] = LineOf(messages, r, g)
      BY DEF LinesOf
    <3>3. PICK p \in DOMAIN LineOf(messages, r, g) : n = LineOf(messages, r, g)[p].id
      BY <3>1, <3>2 DEF Lines!IdsOf
    <3>4. p \in DOMAIN messages /\ n = messages[p].id
      BY <3>3 DEF LineOf, RowsOf
    <3>5. n < nextSequence
      BY <3>4 DEF ConstraintsInv, IdsBelow
    <3>6. n >= nextSequence /\ n \in DOMAIN work
      BY <2>1 DEF InsertedRows
    <3>7. n \in Nat /\ nextSequence \in Nat
      BY <3>6 DEF TransactionInv, TypeOK, IsTable
    <3>8. QED
      BY <3>5, <3>6, <3>7
  <2>2. QED
    BY <1>1, <2>1 DEF MovesInv
<1>8. ASSUME NEW g \in Group
      PROVE  \E back \in Lines!Ends(left[q][g]) :
                /\ new[q][g] = Lines!Rest(left[q][g], back)
                /\ Lines!Renewed(new[other][g], left[other][g],
                                 Lines!First(left[q][g], back))
  <2>1. PICK line : line = LineOf(Surviving, tx.queue, g)
    OBVIOUS
  <2>2. left[q][g] = line /\ new[q][g] = LineOf(work, tx.queue, g)
    BY <1>4, <1>5, <1>6, <2>1 DEF LinesOf
  <2>3. PICK back \in Lines!Ends(line) :
            /\ DOMAIN Lines!First(line, back) = MovedRows \cap DOMAIN line
            /\ LineOf(work, tx.queue, g) = Lines!Rest(line, back)
    BY <1>1, <2>1, LineLeft
  <2>4. PICK old : old = LineOf(Surviving, Target, g)
    OBVIOUS
  <2>5. PICK longer : longer = LineOf(work, Target, g)
    OBVIOUS
  <2>6. left[other][g] = old /\ new[other][g] = longer
    BY <1>3, <1>4, <1>5, <2>4, <2>5 DEF LinesOf
  <2>7. PICK moving : moving = Lines!First(line, back)
    OBVIOUS
  <2>8. PICK follows : follows = [p \in DOMAIN moving |-> place[p]]
    OBVIOUS
  <2>9. /\ follows \in [DOMAIN moving -> DOMAIN longer]
        /\ Lines!Follow(longer, old, moving, follows)
        /\ \A p \in DOMAIN moving :
              longer[follows[p]] =
                  [id |-> work[place[p]].id, received |-> work[place[p]].total]
    <3>1. /\ Target \in Fifo /\ Target # tx.queue
          /\ DOMAIN moving = MovedRows \cap DOMAIN LineOf(Surviving, tx.queue, g)
      BY ONLY <1>3, <2>1, <2>3, <2>7
    <3>2. QED
      BY <1>1, <1>2, <2>4, <2>5, <2>8, <3>1, LineJoined
  <2>10. ASSUME NEW p \in DOMAIN moving
         PROVE  \E id \in (1 .. MaxSequence) \ Lines!Present :
                    longer[follows[p]] = Lines!New(id)
    <3>1. p \in MovedRows
      BY <2>3, <2>7
    <3>2. place[p] \in (1 .. MaxSequence) \ Lines!Present
      BY <1>2, <1>7, <3>1
    <3>3. work[place[p]].id = place[p] /\ work[place[p]].total = 0
      BY <1>1, <1>2, <3>1 DEF MovedTo
    <3>4. longer[follows[p]] = Lines!New(place[p])
      BY <2>9, <3>3 DEF Lines!New
    <3>5. QED
      BY <3>2, <3>4
  <2>11. Lines!Renewed(longer, old, moving)
    BY <2>9, <2>10 DEF Lines!Renewed
  <2>12. QED
    BY <2>2, <2>3, <2>6, <2>7, <2>11
<1>9. LinesOf(messages') = new
  BY <1>1, <1>5
<1>10. Lines!Distinct'
  <2>1. UniqueIds(messages')
    BY DEF ConstraintsInv, ConstraintsNeverTrip
  <2>2. PICK table : table = messages'
    OBVIOUS
  <2>3. ASSUME NEW r \in Fifo, NEW s \in Fifo, NEW g \in Group, NEW h \in Group,
               NEW p \in DOMAIN LinesOf(table)[r][g],
               NEW o \in DOMAIN LinesOf(table)[s][h],
               LinesOf(table)[r][g][p].id = LinesOf(table)[s][h][o].id
        PROVE  r = s /\ g = h /\ p = o
    <3>1. /\ LinesOf(table)[r][g] = LineOf(table, r, g)
          /\ LinesOf(table)[s][h] = LineOf(table, s, h)
      BY DEF LinesOf
    <3>2. /\ p \in DOMAIN table /\ table[p].queue = r /\ table[p].group = g
          /\ o \in DOMAIN table /\ table[o].queue = s /\ table[o].group = h
          /\ table[p].id = table[o].id
      BY <2>3, <3>1 DEF LineOf, RowsOf
    <3>3. p = o
      BY <2>1, <2>2, <3>2 DEF UniqueIds
    <3>4. QED
      BY <3>2, <3>3
  <2>4. QED
    BY <2>2, <2>3 DEF Lines!Distinct
<1>11. Lines!Redrive(left, q, other)
  BY <1>3, <1>6, <1>8, <1>9, <1>10 DEF Lines!Redrive
<1>12. QED
  BY <1>1, <1>3, <1>4, <1>6, <1>11, CommitBetween

(* Deleted, expired and purged messages are lost from their lines; what    *)
(* else changes in the rows left is not seen there.                        *)
LEMMA ThinnedLines ==
    ASSUME ConstraintsInv, Thinned(messages, messages')
    PROVE  Lines!Next
<1>1. UniqueIds(messages)
  BY DEF ConstraintsInv, ConstraintsNeverTrip
<1>2. PICK kept : kept = messages'
  OBVIOUS
<1>3. /\ DOMAIN kept \subseteq DOMAIN messages
      /\ \A s \in DOMAIN kept :
            /\ kept[s].queue = messages[s].queue /\ kept[s].group = messages[s].group
            /\ kept[s].id = messages[s].id /\ kept[s].total = messages[s].total
  BY <1>2 DEF Thinned
<1>4. PICK lost \in SUBSET Lines!Present : Lines!Remaining(lost) = LinesOf(kept)
  BY <1>1, <1>3, LinesRemain
<1>5. PICK left : left = LinesOf(kept)
  OBVIOUS
<1>6. LinesOf(messages') = left
  BY <1>2, <1>5
<1>7. Lines!Lose(left)
  BY <1>6 DEF Lines!Lose
<1>8. QED
  BY <1>4, <1>5, <1>7, LinesNext

(* A message sent joins its line at the end; those expired are lost        *)
(* (expire_messages, insert_message).                                      *)
LEMMA SendLines ==
    ASSUME TypeOK, ConstraintsInv, Sends
    PROVE  Lines!Next
<1>0. PICK q \in Queue, g \in Group : \E d, delay : Enqueue(q, g, d, delay, now)
  BY DEF Sends
<1>1. PICK d, delay : Enqueue(q, g, d, delay, now)
  BY <1>0
<1>2. PICK kept : kept = SweptQueue(q, now)
  OBVIOUS
<1>3. /\ DOMAIN kept \subseteq DOMAIN messages
      /\ \A s \in DOMAIN kept : kept[s] = messages[s]
  BY <1>2 DEF SweptQueue, Sweep
<1>4. PICK lost \in SUBSET Lines!Present : Lines!Remaining(lost) = LinesOf(kept)
  <2>1. UniqueIds(messages)
    BY DEF ConstraintsInv, ConstraintsNeverTrip
  <2>2. QED
    BY <1>3, <2>1, LinesRemain
<1>5. PICK n : n = nextSequence
  OBVIOUS
<1>6. /\ n \in 1 .. MaxSequence
      /\ DOMAIN messages \subseteq 1 .. n - 1
  <2>1. n \in Nat \ {0} /\ n <= MaxSequence
    BY <1>1, <1>5 DEF Enqueue, TypeOK
  <2>2. MaxSequence \in Nat
    BY QueueStoreAssumption DEF QueueStoreAssumption
  <2>3. QED
    BY <1>5, <2>1, <2>2 DEF TypeOK, IsTable
<1>7. PICK row : row = NewRow(n, q, g, d, now, delay)
  OBVIOUS
<1>8. row.id = n /\ row.queue = q /\ row.group = g /\ row.total = 0
  BY <1>7 DEF NewRow
<1>9. PICK table : table = messages'
  OBVIOUS
<1>10. /\ DOMAIN table = DOMAIN kept \cup {n} /\ table[n] = row
       /\ \A s \in DOMAIN kept : table[s] = kept[s] /\ s # n /\ s < n
  <2>1. table = Insert(kept, n, row)
    BY <1>1, <1>2, <1>5, <1>7, <1>9 DEF Enqueue
  <2>2. \A s \in DOMAIN kept : s # n /\ s < n
    BY <1>3, <1>6
  <2>3. QED
    BY <2>1, <2>2 DEF Insert
<1>11. PICK left : left = LinesOf(kept)
  OBVIOUS
<1>12. PICK new : new = LinesOf(table)
  OBVIOUS
<1>13. LinesOf(messages') = new
  BY <1>9, <1>12
<1>14. ASSUME NEW r \in Fifo, NEW h \in Group, ~ (r = q /\ h = g)
       PROVE  new[r][h] = left[r][h]
  <2>1. LineOf(table, r, h) = LineOf(kept, r, h)
    BY <1>8, <1>10, <1>14 DEF LineOf, RowsOf
  <2>2. QED
    BY <1>11, <1>12, <2>1 DEF LinesOf
<1>15. /\ new = [r \in Fifo |-> [h \in Group |-> new[r][h]]]
       /\ left = [r \in Fifo |-> [h \in Group |-> left[r][h]]]
  BY <1>11, <1>12 DEF LinesOf
<1>16. CASE q \notin Fifo
  <2>1. new = left
    BY <1>14, <1>15, <1>16
  <2>2. Lines!Lose(left)
    BY <1>13, <2>1 DEF Lines!Lose
  <2>3. QED
    BY <1>4, <1>11, <2>2, LinesNext
<1>17. CASE q \in Fifo
  <2>1. PICK line : line = LineOf(kept, q, g)
    OBVIOUS
  <2>2. PICK longer : longer = LineOf(table, q, g)
    OBVIOUS
  <2>3. left[q][g] = line /\ new[q][g] = longer
    BY <1>11, <1>12, <1>17, <2>1, <2>2 DEF LinesOf
  <2>4. longer = Lines!Add(line, n, Lines!New(n))
    <3>1. \A s : s \in DOMAIN longer <=> s \in DOMAIN line \cup {n}
      BY <1>8, <1>10, <2>1, <2>2 DEF LineOf, RowsOf
    <3>2. \A s \in DOMAIN line : s # n /\ longer[s] = line[s]
      BY <1>8, <1>10, <2>1, <2>2 DEF LineOf, RowsOf
    <3>3. longer[n] = Lines!New(n)
      BY <1>8, <1>10, <2>2 DEF LineOf, RowsOf, Lines!New
    <3>4. longer = [s \in DOMAIN longer |-> longer[s]]
      BY <2>2 DEF LineOf
    <3>5. QED
      BY <3>1, <3>2, <3>3, <3>4 DEF Lines!Add
  <2>5. n \in (1 .. MaxSequence) \ Lines!Present
    <3>1. ASSUME n \in Lines!Present
          PROVE  FALSE
      <4>1. PICK r \in Fifo, h \in Group : n \in Lines!IdsOf(LinesOf(messages)[r][h])
        BY <3>1 DEF Lines!Present
      <4>2. LinesOf(messages)[r][h] = LineOf(messages, r, h)
        BY DEF LinesOf
      <4>3. PICK p \in DOMAIN LineOf(messages, r, h) : n = LineOf(messages, r, h)[p].id
        BY <4>1, <4>2 DEF Lines!IdsOf
      <4>4. p \in DOMAIN messages /\ n = messages[p].id
        BY <4>3 DEF LineOf, RowsOf
      <4>5. n < n
        BY <1>5, <4>4 DEF ConstraintsInv, IdsBelow
      <4>6. QED
        BY <1>6, <4>5
    <3>2. QED
      BY <1>6, <3>1
  <2>6. n \in DOMAIN new[q][g] /\ \A o \in DOMAIN left[q][g] : o < n
    <3>1. n \in DOMAIN longer
      BY <1>8, <1>10, <2>2 DEF LineOf, RowsOf
    <3>2. \A o \in DOMAIN line : o < n
      BY <1>10, <2>1 DEF LineOf, RowsOf
    <3>3. QED
      BY <2>3, <3>1, <3>2
  <2>7. new = [left EXCEPT ![q][g] = Lines!Add(left[q][g], n, Lines!New(n))]
    <3>1. \A r \in Fifo \ {q} : new[r] = left[r]
      BY ONLY <1>14, <1>15
    <3>2. PICK message : message = Lines!Add(left[q][g], n, Lines!New(n))
      OBVIOUS
    <3>3. new[q][g] = message
      BY ONLY <2>3, <2>4, <3>2
    <3>4. new[q] = [left[q] EXCEPT ![g] = message]
      BY ONLY <1>14, <1>15, <1>17, <3>3
    <3>5. new = [left EXCEPT ![q] = [left[q] EXCEPT ![g] = message]]
      BY ONLY <1>15, <1>17, <3>1, <3>4
    <3>6. QED
      BY ONLY <3>2, <3>5
  <2>8. Lines!Send(left, q, g)
    BY <1>13, <2>5, <2>6, <2>7 DEF Lines!Send
  <2>9. QED
    BY <1>4, <1>11, <1>17, <2>8, LinesNext
<1>18. QED
  BY <1>16, <1>17

(* Every step of the store is one of its lines, or changes none.           *)
LEMMA LinesStep ==
    ASSUME TransactionInv, MovesLeaveQueue, RedriveInv, ReceiveInv, MovesInv, ConstraintsInv,
           ConstraintsInv', QueueStoreAssumption, [Next]_vars
    PROVE  Lines!Next \/ UNCHANGED LinesOf(messages)
<1>1. TypeOK
  BY DEF TransactionInv
<1>2. ASSUME UNCHANGED messages
      PROVE  UNCHANGED LinesOf(messages)
  BY <1>2
<1>3. CASE Thinned(messages, messages')
  BY <1>3, ThinnedLines
<1>4. CASE Sends
  BY <1>1, <1>4, SendLines
<1>5. CASE UNCHANGED store
  BY <1>2, <1>5 DEF store
<1>6. CASE CommitReceive
  <2>1. tx # Idle /\ messages' = work
    BY <1>6 DEF CommitReceive, Idle
  <2>2. QED
    BY <1>6, <2>1, CommitReceiveLines, StandardCommit
<1>7. CASE CommitRedrive
  <2>1. tx # Idle /\ messages' = work
    BY <1>7 DEF CommitRedrive, Idle
  <2>2. QED
    BY <1>7, <2>1, CommitRedriveLines, StandardCommit
<1>8. QED
  <2>1. \A q \in Queue, max \in BatchSizes, option \in Visibilities,
           a \in AttemptId \cup {NoAttempt}, cacheEmpty \in BOOLEAN :
          BeginReceive(q, max, option, a, cacheEmpty) => UNCHANGED store
    BY DEF BeginReceive
  <2>2. \A dlq, source \in Queue, max \in MoveSizes :
          BeginRedrive(dlq, source, max) => UNCHANGED store
    BY DEF BeginRedrive
  <2>3. \A s \in DOMAIN work :
          DeliverNext(s) \/ DeadLetterNext(s) \/ RedriveNext(s) => UNCHANGED store
    BY DEF DeliverNext, DeadLetterNext, RedriveNext
  <2>4. Rollback => UNCHANGED store
    BY DEF Rollback
  <2>5. UNCHANGED <<store, txVars>> => UNCHANGED store
    OBVIOUS
  <2>6. QED
    BY <1>1, <1>3, <1>4, <1>5, <1>6, <1>7, <2>1, <2>2, <2>3, <2>4, <2>5, StepKinds

(* FIFO queues are lines: whatever batches, dead-lettering, redrive,       *)
(* expiry, retries and abandoned transactions do to the rows is a step of  *)
(* FifoLines.                                                              *)
THEOREM StoreImplementsLines == Spec => ImplementsLines
<1>1. Init => Lines!Init
  <2>1. ASSUME Init
        PROVE  LinesOf(messages) = [q \in Fifo |-> [g \in Group |-> [p \in {} |-> Lines!New(p)]]]
    <3>1. messages = EmptyTable
      BY <2>1 DEF Init
    <3>2. \A q \in Fifo, g \in Group : LineOf(EmptyTable, q, g) = [p \in {} |-> Lines!New(p)]
      BY DEF LineOf, RowsOf, EmptyTable
    <3>3. QED
      BY <3>1, <3>2 DEF LinesOf
  <2>2. QED
    BY <2>1 DEF Lines!Init
<1>2. ASSUME TransactionInv, MovesLeaveQueue, RedriveInv, ReceiveInv, MovesInv,
             ConstraintsInv, ConstraintsInv', [Next]_vars
      PROVE  [Lines!Next]_(LinesOf(messages))
  BY <1>2, LinesStep, QueueStoreAssumption
<1>3. QED
  BY <1>1, <1>2, TransactionCorrect, MovesAlwaysLeave, RedriveAlwaysReturns,
     ReceiveAlwaysKeeps, MovesAlwaysInOrder, ConstraintsAlways,
     PTL DEF Spec, ImplementsLines, Lines!Spec
=============================================================================
