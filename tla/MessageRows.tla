---------------------------- MODULE MessageRows ----------------------------
(***************************************************************************)
(* The predicates and updates that the SQL statements of src/src/          *)
(* sqlite_lqs.rs compute over the rows of table `messages'.  The table is  *)
(* a function from the AUTOINCREMENT column `sequence' to rows; the other  *)
(* columns are the fields of a row.                                        *)
(*                                                                         *)
(*   id         message_id ("msg-<sequence of the first insertion>")       *)
(*   queue      queue_name                                                 *)
(*   group      group_id                                                   *)
(*   created    created_at_ms                                              *)
(*   available  available_at_ms                                            *)
(*   invisible  invisible_until_ms; 0 stands for NULL, which every         *)
(*              comparison with a clock reading treats alike               *)
(*   handle     receipt_handle: <<sequence, receive_count>> identifies the *)
(*              delivery that "receipt-<sequence>-<count>-<now>" names     *)
(*   count      receive_count, reset when the row moves to another queue   *)
(*   total      total_receive_count, kept when the row moves               *)
(*   origin     the dead_letter_origins row of this sequence, if any       *)
(*   dedup      message_deduplication_id                                   *)
(*                                                                         *)
(* Bodies, attributes and first_received_at_ms are data that no statement  *)
(* below reads and are left out.                                           *)
(***************************************************************************)
EXTENDS Integers, FiniteSets

CONSTANTS
    Queue,      \* the queue names
    Group,      \* the message group ids
    DedupId,    \* the deduplication ids of FIFO sends
    NoQueue,    \* "not a queue": a row without origin, a queue without policy
    NoDedupId   \* NULL in message_deduplication_id: a Standard message

ASSUME MessageRowsAssumption == NoQueue \notin Queue /\ NoDedupId \notin DedupId

NoHandle == <<0, 0>>

Row == [id : Nat, queue : Queue, group : Group, dedup : DedupId \cup {NoDedupId},
        created : Nat, available : Nat, invisible : Nat,
        handle : Nat \X Nat, count : Nat, total : Nat,
        origin : Queue \cup {NoQueue}]

\* A messages table whose sequence numbers are all below next.
IsTable(table, next) ==
    /\ DOMAIN table \subseteq 1 .. next - 1
    /\ table \in [DOMAIN table -> Row]

RowsOf(table, q) == {s \in DOMAIN table : table[s].queue = q}

\* The retention deadline of a row has passed at clock reading t.
Expired(row, retention, t) == row.created <= t - retention

\* Mutant: the sweep before a transaction is forgotten.
SweepNothing(table, q, retention, t) == table

\* expire_messages: the rows of q past their retention are deleted.
Sweep(table, q, retention, t) ==
    [s \in {r \in DOMAIN table :
              table[r].queue = q => ~Expired(table[r], retention, t)}
       |-> table[s]]

\* count_in_flight counts these rows.
InFlight(table, q, retention, t) ==
    {s \in RowsOf(table, q) :
        /\ table[s].invisible > t
        /\ ~Expired(table[s], retention, t)}

\* The row may be handed out at t: delay elapsed and not leased.
Deliverable(row, t) == row.available <= t /\ row.invisible <= t

\* The rows of the group of s in its queue that were enqueued before s.
Ahead(table, s) ==
    {e \in DOMAIN table : /\ table[e].queue = table[s].queue
                          /\ table[e].group = table[s].group
                          /\ e < s}

\* Mutant: the NOT EXISTS clause is missing, no row blocks a later one.
ReceivableIgnoresGroup(table, q, fifo, t, selected) ==
    {s \in RowsOf(table, q) : Deliverable(table[s], t) /\ (fifo => s \notin selected)}

\* The WHERE clause of next_receivable.  selected are the rows this receive
\* call has already taken: on a FIFO queue only they may be overtaken.
Receivable(table, q, fifo, t, selected) ==
    {s \in RowsOf(table, q) :
        /\ Deliverable(table[s], t)
        /\ fifo => s \notin selected /\ Ahead(table, s) \subseteq selected}

\* The ORDER BY clause: rows of the preferred group first, then by sequence.
\* A Standard queue orders by sequence alone: its callers pass a preferred
\* value that is not a group.
PrecedesOrEquals(table, s, other, preferred) ==
    IF (table[s].group = preferred) = (table[other].group = preferred)
    THEN s <= other
    ELSE table[s].group = preferred

\* deliver_candidate: the row as the delivery of s leaves it.
DeliveredRow(row, s, t, visibility) ==
    [row EXCEPT !.handle = <<s, row.count + 1>>,
                !.invisible = t + visibility,
                !.count = row.count + 1,
                !.total = row.total + 1]

Insert(table, s, row) ==
    [x \in DOMAIN table \cup {s} |-> IF x = s THEN row ELSE table[x]]

Remove(table, rows) == [s \in DOMAIN table \ rows |-> table[s]]

\* Mutant: an UPDATE gives the row to the other queue in its old place.
MoveInPlace(table, s, next, newRow) == Insert(Remove(table, {s}), s, newRow)

\* move_message: the row is deleted and inserted again under the sequence
\* number next, without receipt handle, lease or receive count.
Move(table, s, next, newRow) == Insert(Remove(table, {s}), next, newRow)

\* Mutant: only the trigger on DELETE exists.
LostHandlesOfDeleted(before, after) ==
    {before[s].handle : s \in {r \in DOMAIN before \ DOMAIN after :
        before[r].handle # NoHandle}}

\* The receipt handles for which the triggers invalidate_receive_delete and
\* invalidate_receive_update fire on the way from one table to another: the
\* row is gone, or carries another handle.
LostHandles(before, after) ==
    {before[s].handle : s \in {r \in DOMAIN before :
        /\ before[r].handle # NoHandle
        /\ r \in DOMAIN after => after[r].handle # before[r].handle}}
=============================================================================
