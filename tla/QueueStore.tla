----------------------------- MODULE QueueStore -----------------------------
(***************************************************************************)
(* The message life cycle of struct Lqs (src/src/sqlite_lqs.rs and         *)
(* src/src/fifo.rs): send with deduplication, receive with leases, dead    *)
(* letters and receive attempts, delete, visibility changes, attribute     *)
(* changes, purge and redrive, over a fixed set of queues.                 *)
(*                                                                         *)
(* Every operation is one SQLite write transaction, so operations of       *)
(* several clients are serialized: an operation starts only when tx is     *)
(* Idle.  The two operations that loop, receive and redrive, take one step *)
(* per iteration over a private copy of the messages table (work); their   *)
(* last step commits it and Rollback (process crash, database error)       *)
(* abandons it at any point between the statements.                        *)
(*                                                                         *)
(* The clock reading of an operation is taken when it begins (the HTTP     *)
(* handlers read it while holding the server mutex); now may move on       *)
(* before the operation commits.  The operations that batches consist of   *)
(* take the reading t as a parameter: a batch passes an older one.         *)
(***************************************************************************)
EXTENDS MessageRows

CONSTANTS
    Fifo,                 \* the queues of type FIFO; the others are Standard
    NoGroup, NoAttempt,   \* "no group preferred", "no ReceiveRequestAttemptId"
    UseDefault,           \* "no VisibilityTimeout requested"
    AttemptId,            \* the ReceiveRequestAttemptIds of FIFO receives
    Delays,               \* the delays Standard sends ask for
    BatchSizes,           \* the MaxNumberOfMessages of receives
    Visibilities,         \* the VisibilityTimeouts of receives
    Timeouts,             \* the timeouts given to ChangeMessageVisibility
    MoveSizes,            \* the max_messages of redrive_dead_letters
    Sendable, Purgeable,  \* the queues that clients send to, and purge
    Initial,              \* the settings every queue is created with
    Updates,              \* the settings SetQueueAttributes may leave behind
    DeduplicationWindow,  \* 300000 ms in the code
    AttemptWindow,        \* 300000 ms in the code
    PurgeCooldown,        \* 60000 ms in the code
    MaxTime,              \* bound on the clock
    MaxSequence,          \* bound on the sequence numbers
    MaxReceives           \* bound on the deliveries of a row

VARIABLES
    now,           \* the clock of the host
    settings,      \* tables queues and redrive_policies
    messages,      \* tables messages and dead_letter_origins
    nextSequence,  \* the AUTOINCREMENT counter of messages
    keys,          \* table deduplication_keys
    attempts,      \* tables receive_attempts and receive_attempt_members
    lastPurge,     \* queues.last_purge_ms
    tx,            \* the local variables of the running receive or redrive
    work,          \* what that transaction sees as the messages table
    workNext       \* what it sees as the AUTOINCREMENT counter

store == <<settings, messages, nextSequence, keys, attempts, lastPurge>>
txVars == <<tx, work, workNext>>
vars == <<now, settings, messages, nextSequence, keys, attempts, lastPurge,
          tx, work, workNext>>
-----------------------------------------------------------------------------
Never == -1
NoPolicy == [deadLetter |-> NoQueue, max |-> 0]

Policy == [deadLetter : Queue, max : Nat \ {0}] \cup {NoPolicy}
Settings == [visibility : Nat, delay : Nat, retention : Nat \ {0},
             maxInFlight : Nat \ {0}, perGroup : BOOLEAN, policy : Policy]

\* write_redrive_policy: the DLQ is another queue of the same type.
PolicyAllowed(q, policy) ==
    policy # NoPolicy => /\ policy.deadLetter # q
                         /\ q \in Fifo <=> policy.deadLetter \in Fifo

ASSUME QueueStoreAssumption ==
    /\ Fifo \subseteq Queue
    /\ NoGroup \notin Group
    /\ NoAttempt \notin AttemptId
    /\ UseDefault \notin Nat
    /\ Delays \subseteq Nat /\ Timeouts \subseteq Nat
    /\ BatchSizes \subseteq 1 .. 10
    /\ Visibilities \subseteq Nat \cup {UseDefault}
    /\ MoveSizes \subseteq Nat
    /\ Sendable \subseteq Queue /\ Purgeable \subseteq Queue
    /\ Initial \in [Queue -> Settings]
    /\ Updates \in [Queue -> SUBSET Settings]
    /\ \A q \in Queue : PolicyAllowed(q, Initial[q].policy)
    /\ {DeduplicationWindow, AttemptWindow, PurgeCooldown} \subseteq Nat \ {0}
    /\ {MaxTime, MaxSequence, MaxReceives} \subseteq Nat

Key == [queue : Queue, dedup : DedupId, group : Group, message : Nat, seen : Nat]

\* The maximum number of messages and the visibility asked for.
Fingerprint == Nat \X (Nat \cup {UseDefault})

Attempt == [queue : Queue, id : AttemptId, created : Nat,
            fingerprint : Fingerprint, visibility : Nat,
            members : SUBSET (Nat \X Nat), valid : BOOLEAN]

Idle == [kind |-> "idle"]
ReceiveTx == [kind : {"receive"}, queue : Queue, at : Nat, limit : Nat,
              visibility : Nat, attempt : AttemptId \cup {NoAttempt},
              fingerprint : Fingerprint, cacheEmpty : BOOLEAN,
              received : SUBSET Nat, preferred : Group \cup {NoGroup}]
RedriveTx == [kind : {"redrive"}, queue : Queue, source : Queue, at : Nat,
              limit : Nat, moved : Nat]

EmptyTable == [s \in {} |-> s]
-----------------------------------------------------------------------------
SweptQueue(q, t) == Sweep(messages, q, settings[q].retention, t)

\* The UPDATE of the two triggers, for the handles they fire on.
Invalidate(table, handles) ==
    {IF a.members \cap handles = {} THEN a ELSE [a EXCEPT !.valid = FALSE] :
        a \in table}

\* replay_attempt first deletes the attempts of q older than the window.
PruneAttempts(table, q, t) ==
    {a \in table : a.queue = q => a.created > t - AttemptWindow}

Min2(a, b) == IF a <= b THEN a ELSE b

Init ==
    /\ now = 0
    /\ settings = Initial
    /\ messages = EmptyTable
    /\ nextSequence = 1
    /\ keys = {}
    /\ attempts = {}
    /\ lastPurge = [q \in Queue |-> Never]
    /\ tx = Idle
    /\ work = EmptyTable
    /\ workNext = 1
-----------------------------------------------------------------------------
(* send *)

NewRow(s, q, g, d, t, delay) ==
    [id |-> s, queue |-> q, group |-> g, dedup |-> d, created |-> t,
     available |-> t + delay, invisible |-> 0, handle |-> NoHandle, count |-> 0, total |-> 0,
     origin |-> NoQueue]

\* expire_messages followed by the INSERT of insert_message.
Enqueue(q, g, d, delay, t) ==
    /\ nextSequence <= MaxSequence
    /\ messages' = Insert(SweptQueue(q, t), nextSequence,
                          NewRow(nextSequence, q, g, d, t, delay))
    /\ nextSequence' = nextSequence + 1
    /\ attempts' = Invalidate(attempts, LostHandles(messages, SweptQueue(q, t)))

SendStandard(q, g, delay, t) ==
    /\ tx = Idle
    /\ q \notin Fifo
    /\ Enqueue(q, g, NoDedupId, delay, t)
    /\ UNCHANGED <<now, settings, keys, lastPurge, txVars>>

\* find_duplicate first forgets the keys of the queue older than the window.
FreshKeys(q, t) ==
    {k \in keys : k.queue = q => k.seen > t - DeduplicationWindow}

\* Mutant: a key counts as expired one time unit before it is deleted.
DuplicatesShort(q, g, d, t) ==
    {k \in FreshKeys(q, t) : /\ k.queue = q /\ k.dedup = d
                             /\ k.seen > t - DeduplicationWindow + 1
                             /\ settings[q].perGroup => k.group = g}

\* Mutant: the deduplication scope is ignored.
DuplicatesInGroup(q, g, d, t) ==
    {k \in FreshKeys(q, t) : k.queue = q /\ k.dedup = d /\ k.group = g}

Duplicates(q, g, d, t) ==
    {k \in FreshKeys(q, t) : /\ k.queue = q /\ k.dedup = d
                             /\ settings[q].perGroup => k.group = g}

SendFifo(q, g, d, t) ==
    /\ tx = Idle
    /\ q \in Fifo
    /\ Duplicates(q, g, d, t) = {}
    /\ Enqueue(q, g, d, settings[q].delay, t)
    /\ keys' = FreshKeys(q, t) \cup {[queue |-> q, dedup |-> d, group |-> g,
                                      message |-> nextSequence, seen |-> t]}
    /\ UNCHANGED <<now, settings, lastPurge, txVars>>

\* The retry of a send reports the first MessageId; only the two sweeps of
\* the transaction are committed.
SendDuplicate(q, g, d, t) ==
    /\ tx = Idle
    /\ q \in Fifo
    /\ Duplicates(q, g, d, t) # {}
    /\ messages' = SweptQueue(q, t)
    /\ attempts' = Invalidate(attempts, LostHandles(messages, SweptQueue(q, t)))
    /\ keys' = FreshKeys(q, t)
    /\ UNCHANGED <<now, settings, nextSequence, lastPurge, txVars>>
-----------------------------------------------------------------------------
(* receive *)

\* The attempts table after the receive transaction has changed messages
\* into table.
AttemptsFor(table, q, t) ==
    PruneAttempts(Invalidate(attempts, LostHandles(messages, table)), q, t)

Known(q, a) ==
    {r \in AttemptsFor(SweptQueue(q, now), q, now) : r.queue = q /\ r.id = a}

Leased(q) == InFlight(SweptQueue(q, now), q, settings[q].retention, now)

\* Bound: a queue is read only while none of its rows was delivered too often.
WithinReceiveBound(q) ==
    \A s \in RowsOf(messages, q) : messages[s].count < MaxReceives

\* Mutant: a replay does not look at the in-flight limit.
ReplayAlwaysFits(q, r, extra) == TRUE

\* A replay that leases rows again may not exceed the in-flight limit.
ReplayFits(q, r, extra) ==
    \/ r.visibility = 0
    \/ extra = {}
    \/ Cardinality(Leased(q)) + Cardinality(extra) <= settings[q].maxInFlight

\* replay_attempt with a stored, valid answer to the same request: the lease
\* of every member starts again, counters and handles stay.
ReplayAttempt(q, a, fingerprint) ==
    LET swept == SweptQueue(q, now)
        Members(r) == {s \in RowsOf(swept, q) : swept[s].handle \in r.members}
    IN  /\ tx = Idle
        /\ q \in Fifo
        /\ \E r \in Known(q, a) :
            /\ r.valid
            /\ r.fingerprint = fingerprint
            /\ ReplayFits(q, r, {s \in Members(r) : swept[s].invisible <= now})
            /\ messages' = [s \in DOMAIN swept |->
                  IF s \in Members(r)
                  THEN [swept[s] EXCEPT !.invisible = now + r.visibility]
                  ELSE swept[s]]
        /\ attempts' = AttemptsFor(swept, q, now)
        /\ UNCHANGED <<now, settings, nextSequence, keys, lastPurge, txVars>>

\* Mutant: the limit is not reduced by the leases that exist.
RoomWhole(q) == settings[q].maxInFlight

\* How many more leases the in-flight limit allows (saturating_sub).
Room(q) ==
    IF Cardinality(Leased(q)) >= settings[q].maxInFlight
    THEN 0
    ELSE settings[q].maxInFlight - Cardinality(Leased(q))

\* A Standard queue at its limit answers OverLimit, after committing the sweep.
ReceiveOverLimit(q) ==
    /\ tx = Idle
    /\ q \notin Fifo
    /\ Room(q) = 0
    /\ messages' = SweptQueue(q, now)
    /\ attempts' = AttemptsFor(SweptQueue(q, now), q, now)
    /\ UNCHANGED <<now, settings, nextSequence, keys, lastPurge, txVars>>

BeginReceive(q, max, option, a, cacheEmpty) ==
    /\ tx = Idle
    /\ a # NoAttempt => q \in Fifo /\ Known(q, a) = {}
    /\ q \notin Fifo => Room(q) > 0
    /\ WithinReceiveBound(q)
    /\ tx' = [kind |-> "receive", queue |-> q, at |-> now,
              limit |-> Min2(max, Room(q)),
              visibility |-> IF option = UseDefault THEN settings[q].visibility
                                                    ELSE option,
              attempt |-> a, fingerprint |-> <<max, option>>,
              cacheEmpty |-> cacheEmpty, received |-> {}, preferred |-> NoGroup]
    /\ work' = SweptQueue(q, now)
    /\ workNext' = nextSequence
    /\ UNCHANGED <<now, store>>

Candidates ==
    Receivable(work, tx.queue, tx.queue \in Fifo, tx.at, tx.received)

IsNext(s) ==
    /\ s \in Candidates
    /\ \A o \in Candidates : PrecedesOrEquals(work, s, o, tx.preferred)

\* The three answers of candidate_action.
AlreadyReceived(s) == \E r \in tx.received : work[r].id = work[s].id
Exhausted(s) ==
    LET p == settings[tx.queue].policy
    IN  p # NoPolicy /\ work[s].count >= p.max

WantsMore == Cardinality(tx.received) < tx.limit

DeliverNext(s) ==
    /\ tx.kind = "receive"
    /\ WantsMore
    /\ IsNext(s) /\ ~AlreadyReceived(s) /\ ~Exhausted(s)
    /\ work' = [work EXCEPT ![s] = DeliveredRow(@, s, tx.at, tx.visibility)]
    /\ tx' = [tx EXCEPT !.received = @ \cup {s},
                        !.preferred = IF tx.queue \in Fifo THEN work[s].group
                                                           ELSE @]
    /\ UNCHANGED <<now, store, workNext>>

\* Mutant: the AUTOINCREMENT counter does not advance.
MoveRowKeepsCounter(s, row) ==
    /\ work' = Move(work, s, workNext, row)
    /\ UNCHANGED workNext

\* move_message within the running transaction.
MoveRow(s, row) ==
    /\ workNext <= MaxSequence
    /\ work' = Move(work, s, workNext, row)
    /\ workNext' = workNext + 1

\* Mutant: the total receive count is reset with the receive count.
DeadLetterRowForgets(row, q, t) ==
    [row EXCEPT !.queue = settings[q].policy.deadLetter,
                !.created = IF q \in Fifo THEN t ELSE @,
                !.available = t, !.invisible = 0, !.handle = NoHandle,
                !.count = 0, !.total = 0, !.origin = q]

\* redrive_candidate: message id and total survive, a FIFO move restarts the
\* retention period.
DeadLetterRow(row, q, t) ==
    [row EXCEPT !.queue = settings[q].policy.deadLetter,
                !.created = IF q \in Fifo THEN t ELSE @,
                !.available = t, !.invisible = 0, !.handle = NoHandle,
                !.count = 0, !.origin = q]

DeadLetterNext(s) ==
    /\ tx.kind = "receive"
    /\ WantsMore
    /\ IsNext(s) /\ ~AlreadyReceived(s) /\ Exhausted(s)
    /\ MoveRow(s, DeadLetterRow(work[s], tx.queue, tx.at))
    /\ UNCHANGED <<now, store, tx>>

\* Mutant: an empty answer is never stored.
SavedAttemptNonEmpty ==
    IF tx.attempt # NoAttempt /\ tx.received # {}
    THEN {[queue |-> tx.queue, id |-> tx.attempt, created |-> tx.at,
           fingerprint |-> tx.fingerprint, visibility |-> tx.visibility,
           members |-> {work[s].handle : s \in tx.received}, valid |-> TRUE]}
    ELSE {}

\* save_attempt, skipped for an empty page of a long poll that goes on.
SavedAttempt ==
    IF tx.attempt # NoAttempt /\ (tx.received # {} \/ tx.cacheEmpty)
    THEN {[queue |-> tx.queue, id |-> tx.attempt, created |-> tx.at,
           fingerprint |-> tx.fingerprint, visibility |-> tx.visibility,
           members |-> {work[s].handle : s \in tx.received}, valid |-> TRUE]}
    ELSE {}

CommitReceive ==
    /\ tx.kind = "receive"
    /\ \/ ~WantsMore
       \/ Candidates = {}
       \/ \E s \in Candidates : IsNext(s) /\ AlreadyReceived(s)
    /\ messages' = work
    /\ nextSequence' = workNext
    /\ attempts' = AttemptsFor(work, tx.queue, tx.at) \cup SavedAttempt
    /\ tx' = Idle /\ work' = EmptyTable /\ workNext' = 1
    /\ UNCHANGED <<now, settings, keys, lastPurge>>

\* The process dies or a statement fails: SQLite drops the transaction.
Rollback ==
    /\ tx # Idle
    /\ tx' = Idle /\ work' = EmptyTable /\ workNext' = 1
    /\ UNCHANGED <<now, store>>
-----------------------------------------------------------------------------
(* redrive_dead_letters *)

BeginRedrive(dlq, source, max) ==
    /\ tx = Idle
    /\ dlq # source /\ (dlq \in Fifo <=> source \in Fifo)
    /\ tx' = [kind |-> "redrive", queue |-> dlq, source |-> source, at |-> now,
              limit |-> max, moved |-> 0]
    /\ work' = Sweep(SweptQueue(dlq, now), source, settings[source].retention, now)
    /\ workNext' = nextSequence
    /\ UNCHANGED <<now, store>>

\* Mutant: the NOT EXISTS clause is missing, what cannot be taken is passed over.
RedriveCandidatesIgnoreGroup ==
    {s \in RowsOf(work, tx.queue) :
        work[s].origin = tx.source /\ Deliverable(work[s], tx.at)}

RedriveCandidates ==
    {s \in RowsOf(work, tx.queue) :
        /\ work[s].origin = tx.source
        /\ Deliverable(work[s], tx.at)
        /\ tx.queue \in Fifo => Ahead(work, s) = {}}

RedriveNext(s) ==
    /\ tx.kind = "redrive"
    /\ tx.moved < tx.limit
    /\ s \in RedriveCandidates
    /\ \A o \in RedriveCandidates : s <= o
    /\ MoveRow(s, NewRow(workNext, tx.source, work[s].group, work[s].dedup, tx.at,
                         settings[tx.source].delay))
    /\ tx' = [tx EXCEPT !.moved = @ + 1]
    /\ UNCHANGED <<now, store>>

CommitRedrive ==
    /\ tx.kind = "redrive"
    /\ tx.moved >= tx.limit \/ RedriveCandidates = {}
    /\ messages' = work
    /\ nextSequence' = workNext
    /\ attempts' = Invalidate(attempts, LostHandles(messages, work))
    /\ tx' = Idle /\ work' = EmptyTable /\ workNext' = 1
    /\ UNCHANGED <<now, settings, keys, lastPurge>>
-----------------------------------------------------------------------------
(* delete, change_visibility, set_queue_attributes, purge_queue *)

\* Neither the lease nor the retention of the row matters.
Delete(s) ==
    /\ tx = Idle
    /\ s \in DOMAIN messages /\ messages[s].handle # NoHandle
    /\ messages' = Remove(messages, {s})
    /\ attempts' = Invalidate(attempts, {messages[s].handle})
    /\ UNCHANGED <<now, settings, nextSequence, keys, lastPurge, txVars>>

\* The assignment to visibility_revision fires the trigger of the handle.
ChangeVisibility(s, timeout, t) ==
    /\ tx = Idle
    /\ s \in DOMAIN messages /\ messages[s].handle # NoHandle
    /\ messages[s].invisible > t
    /\ ~Expired(messages[s], settings[messages[s].queue].retention, t)
    /\ messages' = [messages EXCEPT ![s].invisible = t + timeout]
    /\ attempts' = Invalidate(attempts, {messages[s].handle})
    /\ UNCHANGED <<now, settings, nextSequence, keys, lastPurge, txVars>>

\* Mutant: a new delay reaches later sends only.
RetimedNothing(q, delay) == messages

\* A new delay reaches the rows of a FIFO queue not received yet.
Retimed(q, delay) ==
    [s \in DOMAIN messages |->
        IF /\ q \in Fifo /\ delay # settings[q].delay
           /\ messages[s].queue = q /\ messages[s].count = 0
        THEN [messages[s] EXCEPT !.available = messages[s].created + delay]
        ELSE messages[s]]

SetQueueAttributes(q, c) ==
    LET table == Sweep(Retimed(q, c.delay), q, c.retention, now)
    IN  /\ tx = Idle
        /\ PolicyAllowed(q, c.policy)
        /\ q \notin Fifo => c.perGroup = settings[q].perGroup
        /\ settings' = [settings EXCEPT ![q] = c]
        /\ messages' = table
        /\ attempts' = Invalidate(attempts, LostHandles(messages, table))
        /\ UNCHANGED <<now, nextSequence, keys, lastPurge, txVars>>

PurgeQueue(q) ==
    /\ tx = Idle
    /\ lastPurge[q] = Never \/ now >= lastPurge[q] + PurgeCooldown
    /\ messages' = Remove(messages, RowsOf(messages, q))
    /\ attempts' = {IF a.queue = q THEN [a EXCEPT !.valid = FALSE] ELSE a :
                      a \in Invalidate(attempts, LostHandles(messages,
                                Remove(messages, RowsOf(messages, q))))}
    /\ lastPurge' = [lastPurge EXCEPT ![q] = now]
    /\ UNCHANGED <<now, settings, nextSequence, keys, txVars>>

Tick ==
    /\ now < MaxTime
    /\ now' = now + 1
    /\ UNCHANGED <<store, txVars>>
-----------------------------------------------------------------------------
SendTo(q, t) ==
    \E g \in Group :
        \/ \E delay \in Delays \cup {settings[q].delay} : SendStandard(q, g, delay, t)
        \/ \E d \in DedupId : SendFifo(q, g, d, t) \/ SendDuplicate(q, g, d, t)

Send == \E q \in Sendable : SendTo(q, now)

StartReceive ==
    \E q \in Queue, max \in BatchSizes, option \in Visibilities,
       a \in AttemptId \cup {NoAttempt} :
        \/ \E cacheEmpty \in BOOLEAN : BeginReceive(q, max, option, a, cacheEmpty)
        \/ ReplayAttempt(q, a, <<max, option>>)

RunReceive ==
    \/ \E s \in DOMAIN work : DeliverNext(s) \/ DeadLetterNext(s)
    \/ CommitReceive

Redrive ==
    \/ \E dlq, source \in Queue, max \in MoveSizes : BeginRedrive(dlq, source, max)
    \/ \E s \in DOMAIN work : RedriveNext(s)
    \/ CommitRedrive

Manage ==
    \/ \E s \in DOMAIN messages :
        \/ Delete(s)
        \/ \E timeout \in Timeouts : ChangeVisibility(s, timeout, now)
    \/ \E q \in Queue : \E c \in Updates[q] : SetQueueAttributes(q, c)
    \/ \E q \in Purgeable : PurgeQueue(q)

\* One step of one request.
Operation ==
    \/ Send
    \/ StartReceive
    \/ \E q \in Queue : ReceiveOverLimit(q)
    \/ RunReceive
    \/ Rollback
    \/ Redrive
    \/ Manage

Next == Operation \/ Tick

Spec == Init /\ [][Next]_vars
=============================================================================
