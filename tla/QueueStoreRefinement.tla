------------------------ MODULE QueueStoreRefinement ------------------------
(***************************************************************************)
(* QueueStore with FIFO queues implements FifoLines.  A line consists of   *)
(* the committed rows of a queue and group, their sequence numbers are its *)
(* places; leases, the private table of a transaction, settings, keys and  *)
(* attempts are how it is done.                                            *)
(***************************************************************************)
EXTENDS QueueStoreSafety

LineOf(table, q, g) ==
    [s \in {s \in RowsOf(table, q) : table[s].group = g} |->
        [id |-> table[s].id, received |-> table[s].total]]

LinesOf(table) == [q \in Fifo |-> [g \in Group |-> LineOf(table, q, g)]]

Lines == INSTANCE FifoLines WITH
            Queue <- Fifo,
            Id <- 1 .. MaxSequence,
            lines <- LinesOf(messages)

(* Whatever is committed is a step of the abstract lines: batches that are *)
(* taken row by row, dead-lettering in the middle of a batch, redrive and  *)
(* expiry beside them, retried and abandoned transactions (collect_        *)
(* received, sqlite_lqs.rs:1443-1498; redrive_dead_letters, 719-759).      *)
ImplementsLines == Lines!Spec
-----------------------------------------------------------------------------
\* The committed rows that the running transaction has not expired.
Surviving ==
    IF tx.kind = "redrive"
    THEN Sweep(KeptRows, tx.source, settings[tx.source].retention, tx.at)
    ELSE KeptRows

\* The rows that it has moved, those that it has inserted, and where to.
MovedRows == DOMAIN Surviving \ DOMAIN work
InsertedRows == {n \in DOMAIN work : n >= nextSequence}
Target == IF tx.kind = "redrive" THEN tx.source ELSE settings[tx.queue].policy.deadLetter

\* Every row moved has its place among those inserted, on a FIFO queue in the
\* order of its group: dead-lettered it is the same message, redriven a new one.
MovedTo(place) ==
    /\ \A n \in InsertedRows : \E s \in MovedRows : place[s] = n
    /\ tx.queue \in Fifo =>
        \A s, e \in MovedRows :
            messages[e].group = messages[s].group /\ e < s => place[e] < place[s]
    /\ \A s \in MovedRows :
        LET row == work[place[s]]
        IN  /\ row.queue = Target /\ row.group = messages[s].group
            /\ IF tx.kind = "redrive"
               THEN row.id = place[s] /\ row.total = 0
               ELSE row.id = messages[s].id /\ row.total = messages[s].total

(* A running transaction has moved the first rows of each group of a FIFO  *)
(* queue, and the rows left are in their old group: the inductive          *)
(* invariant behind ImplementsLines.                                       *)
MovesInv ==
    tx # Idle =>
        /\ \A n \in DOMAIN work \ InsertedRows :
            n \in DOMAIN Surviving /\ work[n].group = messages[n].group
        /\ MovedRows \subseteq RowsOf(messages, tx.queue)
        /\ InsertedRows \subseteq 1 .. MaxSequence
        /\ tx.kind = "redrive" => (tx.queue \in Fifo <=> tx.source \in Fifo)
        /\ tx.queue \in Fifo =>
            \A s \in MovedRows : Ahead(Surviving, s) \subseteq MovedRows
        /\ \E place \in [MovedRows -> InsertedRows] : MovedTo(place)
        /\ tx.kind = "receive" /\ settings[tx.queue].policy # NoPolicy =>
            \A s \in tx.received : work[s].count <= settings[tx.queue].policy.max
=============================================================================
