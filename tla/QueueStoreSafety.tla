-------------------------- MODULE QueueStoreSafety --------------------------
(***************************************************************************)
(* What QueueStore promises: the properties that the runs check and that   *)
(* QueueStore_proofs proves.                                               *)
(***************************************************************************)
EXTENDS QueueStore

(* Every variable has its type; the private table of a transaction is a    *)
(* messages table that holds the rows already received.                    *)
TypeOK ==
    /\ now \in Nat
    /\ settings \in [Queue -> Settings]
    /\ nextSequence \in Nat \ {0}
    /\ IsTable(messages, nextSequence)
    /\ keys \subseteq Key
    /\ attempts \subseteq Attempt
    /\ lastPurge \in [Queue -> Nat \cup {Never}]
    /\ tx \in {Idle} \cup ReceiveTx \cup RedriveTx
    /\ workNext \in Nat \ {0}
    /\ IsTable(work, workNext)
    /\ tx.kind = "receive" => tx.received \subseteq DOMAIN work

UniqueIds(table) ==
    \A s1, s2 \in DOMAIN table : table[s1].id = table[s2].id => s1 = s2

(* The UNIQUE and PRIMARY KEY constraints never make a statement fail:     *)
(* move_message keeps the message_id of the row it deletes and a fresh id  *)
(* is never one in use (sqlite_lqs.rs:1365-1397), find_duplicate keeps     *)
(* insert_message from repeating a deduplication key even after the        *)
(* deduplication scope changed (1172-1218), and save_attempt runs only     *)
(* when replay_attempt has found or pruned nothing (fifo.rs:178-242).      *)
ConstraintsNeverTrip ==
    /\ UniqueIds(messages)
    /\ UniqueIds(work)
    /\ \A k1, k2 \in keys :
        k1.queue = k2.queue /\ k1.dedup = k2.dedup /\ k1.group = k2.group
        => k1 = k2
    /\ \A a1, a2 \in attempts :
        a1.queue = a2.queue /\ a1.id = a2.id => a1 = a2

(* A stored receive attempt that is still valid can be replayed as it is:  *)
(* each receipt handle it answered with is the current handle of a row of  *)
(* that queue.  Deletion, expiry, purge, dead-lettering, a new delivery or *)
(* a visibility change of any member must have invalidated it (triggers of *)
(* fifo.rs:167-174).                                                       *)
AttemptsReplayable ==
    \A a \in attempts : a.valid =>
        \A h \in a.members :
            /\ h[1] \in DOMAIN messages
            /\ messages[h[1]].handle = h
            /\ messages[h[1]].queue = a.queue

\* Of two rows of a FIFO group the earlier has the higher receive count.
EarlierMore(table) ==
    \A s \in DOMAIN table : table[s].queue \in Fifo =>
        \A e \in Ahead(table, s) : table[e].count >= table[s].count

(* In a FIFO group the earlier message has been received at least as often *)
(* as the later one.  So the head reaches maxReceiveCount first and        *)
(* dead-lettering, which looks at each row's own count, cannot tear a      *)
(* later message out from behind an earlier one (collect_received,         *)
(* sqlite_lqs.rs:1443-1498).                                               *)
EarlierReceivedMore == EarlierMore(messages)

\* FIFO rows that were neither received nor moved wait for the queue's delay.
DelaysCurrent(table) ==
    \A s \in DOMAIN table :
        LET row == table[s]
        IN  row.queue \in Fifo /\ row.count = 0 /\ row.origin = NoQueue
            => row.available = row.created + settings[row.queue].delay

(* A message of a FIFO queue that was never received and never moved       *)
(* becomes available exactly the current DelaySeconds after its creation,  *)
(* whatever attribute changes came before and after it was sent            *)
(* (set_queue_attributes, sqlite_lqs.rs:786-788; insert_message).          *)
FifoDelayCurrent == DelaysCurrent(messages)
-----------------------------------------------------------------------------
\* The rows that a step hands out: they carry a new receipt handle.
Delivered ==
    {s \in DOMAIN messages \cap DOMAIN messages' :
        messages'[s].handle # messages[s].handle}

(* No overtaking: when a FIFO message is handed out, every earlier message *)
(* of its group that the queue still holds is handed out by the same call  *)
(* (next_receivable and fifo_candidate_sql, sqlite_lqs.rs:1552-1629).      *)
GroupOrder ==
    [][\A s \in Delivered : messages[s].queue \in Fifo =>
          Ahead(messages', s) \subseteq Delivered]_vars

LeasedRows(table, q, t) == {s \in RowsOf(table, q) : table[s].invisible > t}

(* The number of leases of a queue grows only up to its in-flight limit,   *)
(* whichever of receive, replay and visibility change makes it grow.       *)
InFlightBound ==
    [][\A q \in Queue :
          LET before == Cardinality(LeasedRows(messages, q, now))
              after == Cardinality(LeasedRows(messages', q, now'))
          IN  after > before => after <= settings[q].maxInFlight]_vars

IdsOf(table) == {table[s].id : s \in DOMAIN table}

\* The committed rows without those of its queue that the receive expires.
KeptRows == Sweep(messages, tx.queue, settings[tx.queue].retention, tx.at)

\* A new row of the receive against the row of its queue that it dead-lettered.
MovedFrom(row, from) ==
    /\ row.id = from.id /\ row.total = from.total
    /\ row.group = from.group /\ row.dedup = from.dedup
    /\ row.queue = settings[tx.queue].policy.deadLetter
    /\ row.origin = tx.queue

(* A receive transaction loses and duplicates no message: on commit all    *)
(* messages but those of its queue that were past their retention are      *)
(* still there, each once.  The total receive count of those delivered has *)
(* grown by one; those dead-lettered stand in the dead-letter queue of the *)
(* policy with the id, total, group and content they had; every other row, *)
(* of whichever queue, is left as it was.  On rollback nothing has changed.*)
ReceiveConserves ==
    [][tx.kind = "receive" /\ tx' = Idle /\ messages' # messages =>
        /\ IdsOf(messages') = IdsOf(KeptRows)
        /\ Cardinality(DOMAIN messages') = Cardinality(DOMAIN KeptRows)
        /\ \A s \in DOMAIN KeptRows, n \in DOMAIN messages' :
            messages'[n].id = KeptRows[s].id =>
                messages'[n].total =
                    KeptRows[s].total + IF n \in Delivered THEN 1 ELSE 0
        /\ \A n \in DOMAIN messages' \cap DOMAIN messages :
            /\ messages'[n].queue = messages[n].queue
            /\ n \in Delivered \/ messages'[n] = messages[n]
        /\ \A n \in DOMAIN messages' \ DOMAIN messages :
            \E s \in RowsOf(KeptRows, tx.queue) :
                MovedFrom(messages'[n], KeptRows[s])]_vars

(* A message past the retention of its queue is neither handed out nor     *)
(* dead-lettered (DESIGN.md: expired messages are never sent to the DLQ).  *)
OnlyLiveRowsMove ==
    [][tx.kind = "receive" /\ tx' = Idle =>
        \A s \in DOMAIN messages, n \in DOMAIN messages' :
            /\ messages'[n].id = messages[s].id
            /\ n # s \/ s \in Delivered
            => ~Expired(messages[s], settings[tx.queue].retention, tx.at)]_vars

\* The live rows of the dead-letter queue that are missing from a table, and the
\* rows that it has in addition to the committed ones.
Gone(table) ==
    {s \in RowsOf(messages, tx.queue) :
        ~Expired(messages[s], settings[tx.queue].retention, tx.at)} \ DOMAIN table
Added(table) == DOMAIN table \ DOMAIN messages

\* Each row gone stands at its place among the rows added, which are no more:
\* in the source of the redrive, with its group and content, and in the order
\* of the rows gone.
ReturnedAs(table, place) ==
    /\ \A n \in Added(table) : \E s \in Gone(table) : place[s] = n
    /\ \A s \in Gone(table) :
        /\ table[place[s]].queue = tx.source
        /\ table[place[s]].group = messages[s].group
        /\ table[place[s]].dedup = messages[s].dedup
    /\ \A e, s \in Gone(table) : e < s => place[e] < place[s]

\* The rows gone came from the source of the redrive and were returned to it;
\* of a FIFO group they were the first.
ReturnedTo(table) ==
    /\ \A s \in Gone(table) : messages[s].origin = tx.source
    /\ tx.queue \in Fifo =>
        \A s \in Gone(table) : Ahead(messages, s) \cap DOMAIN table = {}
    /\ \E place \in [Gone(table) -> Added(table)] : ReturnedAs(table, place)

(* redrive_dead_letters returns messages to their source only: it takes    *)
(* rows that came from there, and each becomes one new message of the same *)
(* group and content.  The new messages stand in the order that the rows   *)
(* had in the dead-letter queue, and of a FIFO group the first are taken:  *)
(* one that was sent to that queue directly, came from another queue or is *)
(* in flight keeps back the later ones of its group.                       *)
RedriveReturns ==
    [][tx.kind = "redrive" /\ tx' = Idle /\ messages' # messages
        => ReturnedTo(messages')]_vars
-----------------------------------------------------------------------------
\* A row carries the handle of its last delivery under this sequence number.
HandlesNameDeliveries(table) ==
    \A s \in DOMAIN table :
        table[s].handle = IF table[s].count = 0 THEN NoHandle
                                                ELSE <<s, table[s].count>>

\* Rows that the transaction has not delivered are as it found them.
UntouchedRows ==
    \A s \in DOMAIN work : s < nextSequence =>
        /\ s \in DOMAIN messages
        /\ work[s].queue = messages[s].queue
        /\ work[s] = messages[s] \/ (tx.kind = "receive" /\ s \in tx.received)

\* Rows that it has delivered were delivered once, and nothing is left ahead
\* of them in their group.
ReceivedRows ==
    \A s \in tx.received :
        /\ work[s].queue = tx.queue
        /\ work[s].count > 0
        /\ s < nextSequence => work[s].count = messages[s].count + 1
        /\ tx.queue \in Fifo => Ahead(work, s) \subseteq tx.received

(* What a running transaction sees differs from the committed messages     *)
(* only by its own deliveries and moves (receive_messages and              *)
(* redrive_dead_letters work on one SQLite transaction): the inductive     *)
(* invariant behind GroupOrder and AttemptsReplayable.                     *)
TransactionInv ==
    /\ TypeOK
    /\ HandlesNameDeliveries(messages)
    /\ HandlesNameDeliveries(work)
    /\ tx # Idle => nextSequence <= workNext /\ UntouchedRows
    /\ tx.kind = "receive" => ReceivedRows

(* The rows that a receive has inserted are in a dead-letter queue, which  *)
(* is never the queue it reads (write_redrive_policy): it cannot meet them *)
(* again.                                                                  *)
MovesLeaveQueue ==
    /\ \A q \in Queue : PolicyAllowed(q, settings[q].policy)
    /\ tx.kind = "receive" =>
        \A s \in DOMAIN work : s >= nextSequence => work[s].queue # tx.queue

(* What a receive has delivered so far is ahead, in place and in count, of *)
(* what it has not: the inductive invariant behind EarlierReceivedMore.    *)
EarlierInv ==
    /\ EarlierMore(messages)
    /\ EarlierMore(work)
    /\ tx.kind = "receive" /\ tx.queue \in Fifo =>
        \A s \in DOMAIN work \ tx.received :
            \A e \in Ahead(work, s) \cap tx.received : work[e].count > work[s].count

\* The leases that the running receive found when it began.
LeasesFound == InFlight(messages, tx.queue, settings[tx.queue].retention, tx.at)

(* A running receive delivers no more than there was room for when it      *)
(* began, and only rows that were live then; the rows that a transaction   *)
(* inserts are not leased: the inductive invariant behind InFlightBound.   *)
LimitInv ==
    /\ tx # Idle => \A s \in DOMAIN work : s >= nextSequence => work[s].invisible = 0
    /\ tx.kind = "receive" =>
        /\ tx.at <= now
        /\ Cardinality(tx.received) <= tx.limit
        /\ \/ tx.limit = 0
           \/ Cardinality(LeasesFound) + tx.limit <= settings[tx.queue].maxInFlight
        /\ \A s \in RowsOf(work, tx.queue) : s < nextSequence =>
            ~Expired(messages[s], settings[tx.queue].retention, tx.at)

(* The private table of a receive holds the rows kept, each under its own  *)
(* number or, dead-lettered, under a new one, and the totals count the     *)
(* deliveries: the inductive invariant behind ReceiveConserves and         *)
(* OnlyLiveRowsMove.                                                       *)
ReceiveInv ==
    tx.kind = "receive" =>
        /\ IdsOf(work) = IdsOf(KeptRows)
        /\ Cardinality(DOMAIN work) = Cardinality(DOMAIN KeptRows)
        /\ \A n \in DOMAIN work : n < nextSequence =>
            /\ n \in DOMAIN KeptRows
            /\ work[n].id = KeptRows[n].id
            /\ work[n].total = KeptRows[n].total + IF n \in tx.received THEN 1 ELSE 0
        /\ \A n \in DOMAIN work : n >= nextSequence =>
            \E s \in RowsOf(KeptRows, tx.queue) : MovedFrom(work[n], KeptRows[s])

(* A redrive has so far returned what it took, it meets live rows only,    *)
(* and what it may take next comes after all that it took: the inductive   *)
(* invariant behind RedriveReturns.                                        *)
RedriveInv ==
    tx.kind = "redrive" =>
        /\ tx.queue # tx.source
        /\ ReturnedTo(work)
        /\ \A s \in RowsOf(work, tx.queue) :
            /\ s < nextSequence
            /\ ~Expired(work[s], settings[tx.queue].retention, tx.at)
        /\ \A s \in Gone(work), c \in RedriveCandidates : s < c

\* The invariant behind FifoDelayCurrent.
DelaysInv == DelaysCurrent(messages) /\ (tx # Idle => DelaysCurrent(work))

\* The ids in use were given out already.
IdsBelow(table, next) == \A s \in DOMAIN table : table[s].id < next

\* replay_attempt found no attempt that save_attempt would collide with.
AttemptIsNew ==
    tx.attempt # NoAttempt =>
        \A a \in PruneAttempts(attempts, tx.queue, tx.at) :
            a.queue # tx.queue \/ a.id # tx.attempt

(* The inductive invariant behind ConstraintsNeverTrip.                    *)
ConstraintsInv ==
    /\ ConstraintsNeverTrip
    /\ IdsBelow(messages, nextSequence)
    /\ IdsBelow(work, workNext)
    /\ tx.kind = "receive" => AttemptIsNew

-----------------------------------------------------------------------------
(* DESIGN.md promises that messages of one group are never out with two    *)
(* calls at once: a lease anywhere in the group blocks it.  The code looks *)
(* at earlier messages only, so this does not hold.                        *)
GroupExclusive ==
    [][\A s \in Delivered : messages[s].queue \in Fifo =>
        \A o \in RowsOf(messages, messages[s].queue) \ Delivered :
            messages[o].group = messages[s].group
            => messages[o].invisible <= now]_vars
=============================================================================
