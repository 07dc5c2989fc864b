-------------------------- MODULE DatabaseOpening ---------------------------
(***************************************************************************)
(* Opening a database file (Lqs::open, src/src/sqlite_lqs.rs): the base    *)
(* schema, and one transaction that brings a file of any earlier release   *)
(* to the schema of this one.  Processes open the same file side by side,  *)
(* work with it, die at any point and start again; what a transaction has  *)
(* not committed dies with its process.                                    *)
(*                                                                         *)
(* A file is a record: the parts of the schema it has, and those rows that *)
(* a migration reads or rewrites.  A column that the table does not have   *)
(* yet holds NoColumn.  The queues are FIFO queues; time stands still, so  *)
(* that no deduplication key expires.                                      *)
(***************************************************************************)
EXTENDS Integers, FiniteSets

CONSTANTS
    Process,      \* processes that open the file
    Queue, Group, DedupId, Policy,
    Sendable,     \* the queues that messages are sent to; others are for dead letters
    NoProcess, NoColumn, NoDedupId, NoPolicy,
    UnknownGroup, \* '' in the column group_id of deduplication_keys
    LegacyFiles,  \* files that earlier releases left, each with its history
    MaxStarts, MaxMessage, MaxReceives   \* bounds

VARIABLES
    file,         \* what is committed
    history,      \* every send that was accepted: queue, deduplication id, group
    lock,         \* who holds SQLite's write lock
    draft,        \* the uncommitted changes of the holder
    pc,           \* how far each process has come
    foreignKeys,  \* PRAGMA foreign_keys of each connection
    starts        \* how often a process was started

vars == <<file, history, lock, draft, pc, foreignKeys, starts>>
-----------------------------------------------------------------------------
(* Files *)

\* Columns and tables that came with later releases: the delivery settings,
\* message_deduplication_id, total_receive_count, the group of a deduplication
\* key with everything else of FIFO queues, the CHECK that admits a visibility
\* timeout of 0, the dates and tags of queues, table queue_security.
Feature == {"base", "delivery", "dedupIds", "totals", "groups", "wideCheck",
            "stamps", "security"}

Message == [queue : Queue, group : Group, received : Nat,
            total : Nat \cup {NoColumn},
            dedup : DedupId \cup {NoDedupId, NoColumn}]

Key == [queue : Queue, dedup : DedupId, message : Nat,
        group : Group \cup {UnknownGroup, NoColumn}]

\* oldWindows are the queues whose deduplication window is not five minutes,
\* perGroup those whose deduplication scope is messageGroup.
IsFile(f) ==
    /\ f = [features |-> f.features, queues |-> f.queues, oldWindows |-> f.oldWindows,
            perGroup |-> f.perGroup, messages |-> f.messages, keys |-> f.keys,
            security |-> f.security]
    /\ f.features \subseteq Feature
    /\ {f.queues, f.oldWindows, f.perGroup} \subseteq SUBSET Queue
    /\ DOMAIN f.messages \subseteq Nat
    /\ f.messages \in [DOMAIN f.messages -> Message]
    /\ \A m \in DOMAIN f.messages :
        /\ f.messages[m].total = NoColumn <=> "totals" \notin f.features
        /\ f.messages[m].dedup = NoColumn <=> "dedupIds" \notin f.features
    /\ f.keys \subseteq Key
    /\ \A k \in f.keys : k.group = NoColumn <=> "groups" \notin f.features
    /\ DOMAIN f.security \subseteq Queue
    /\ f.security \in [DOMAIN f.security -> Policy \cup {NoPolicy}]

NoRows == [x \in {} |-> x]

NewFile == [features |-> {}, queues |-> {}, oldWindows |-> {}, perGroup |-> {},
            messages |-> NoRows, keys |-> {}, security |-> NoRows]

\* What the releases kept to: a file without tables is empty, the columns came
\* in this order, a total covers the receive count.
SoundFile(f) ==
    /\ "base" \notin f.features => f = NewFile
    /\ "totals" \in f.features =>
        /\ "dedupIds" \in f.features
        /\ \A m \in DOMAIN f.messages : f.messages[m].received <= f.messages[m].total

\* A key still tells of the send h, or its message does.
Remembers(f, h) ==
    \E k \in f.keys :
        /\ k.queue = h.queue /\ k.dedup = h.dedup
        /\ "groups" \in f.features => k.group \in {h.group, UnknownGroup}
        /\ "groups" \notin f.features /\ k.message \in DOMAIN f.messages
           => f.messages[k.message].group = h.group

Sends == [queue : Queue, dedup : DedupId, group : Group]

ASSUME DatabaseOpeningAssumption ==
    /\ NoProcess \notin Process /\ Sendable \subseteq Queue
    /\ UnknownGroup \notin Group
    /\ NoColumn \notin Nat \cup Group \cup DedupId \cup {UnknownGroup, NoDedupId}
    /\ {MaxStarts, MaxMessage, MaxReceives} \subseteq Nat
    /\ \A legacy \in LegacyFiles :
        /\ IsFile(legacy.file) /\ "base" \in legacy.file.features
        /\ SoundFile(legacy.file)
        /\ legacy.history \subseteq Sends
        /\ \A h \in legacy.history : Remembers(legacy.file, h)

Without(f, gone) == [x \in DOMAIN f \ gone |-> f[x]]
With(f, x, y) == [z \in DOMAIN f \cup {x} |-> IF z = x THEN y ELSE f[z]]

\* PRAGMA foreign_key_check finds nothing.
ReferencesHold(f) ==
    /\ \A m \in DOMAIN f.messages : f.messages[m].queue \in f.queues
    /\ \A k \in f.keys : k.queue \in f.queues
    /\ DOMAIN f.security \subseteq f.queues
-----------------------------------------------------------------------------
(* The statements of a migration, as changes of a file *)

\* create_base_schema: CREATE TABLE IF NOT EXISTS.
WithBase(f) ==
    IF "base" \in f.features THEN f
    ELSE [f EXCEPT !.features = {"base", "wideCheck"}]

\* Mutant: the columns are filled in on every start.
AddColumnsAlways(f) ==
    [f EXCEPT
        !.features = @ \cup {"delivery", "dedupIds", "totals"},
        !.messages = [m \in DOMAIN @ |-> [@[m] EXCEPT !.total = f.messages[m].received]]]

\* The deduplication id under which the message was accepted: an early release
\* wrote at most one key for it.
KeyOf(f, m) ==
    LET found == {k \in f.keys : k.queue = f.messages[m].queue /\ k.message = m}
    IN  IF found = {} THEN NoDedupId ELSE (CHOOSE k \in found : TRUE).dedup

\* A row with what its new columns can know of the past.
FilledIn(f, m) ==
    [f.messages[m] EXCEPT
        !.dedup = IF "dedupIds" \in f.features THEN @ ELSE KeyOf(f, m),
        !.total = IF "totals" \in f.features THEN @ ELSE f.messages[m].received]

\* add_delivery_columns
AddColumns(f) ==
    [f EXCEPT !.features = @ \cup {"delivery", "dedupIds", "totals"},
              !.messages = [m \in DOMAIN @ |-> FilledIn(f, m)]]

\* Mutant: the rebuilt table has the keys of the messages that still exist.
MigratedKeysJoined(f) ==
    {[k EXCEPT !.group = f.messages[k.message].group] :
        k \in {key \in f.keys : key.message \in DOMAIN f.messages}}

\* Mutant: the rows are copied without a group.
MigratedKeysCopied(f) == f.keys

\* fifo::migrate: the table of keys is rebuilt with the group of the message,
\* or '' when the message has been deleted.
MigratedKeys(f) ==
    {[k EXCEPT !.group = IF k.message \in DOMAIN f.messages
                         THEN f.messages[k.message].group ELSE UnknownGroup]
        : k \in f.keys}

MigrateFifo(f) ==
    [f EXCEPT !.features = @ \cup {"groups"},
              !.keys = IF "groups" \in f.features THEN @ ELSE MigratedKeys(f),
              !.oldWindows = {}]

\* DROP TABLE queues deletes the rows of queues first when foreign keys are on,
\* and with them every row that names a queue.
MigrateManagement(f, enforced) ==
    LET dropped == IF enforced /\ "wideCheck" \notin f.features
                   THEN [f EXCEPT !.messages = NoRows, !.keys = {}, !.security = NoRows]
                   ELSE f
    IN  [dropped EXCEPT !.features = @ \cup {"wideCheck", "stamps"}]

\* Mutant: rows are inserted only when the table is created.
MigrateSecurityOnce(f) ==
    IF "security" \in f.features THEN f
    ELSE [f EXCEPT !.features = @ \cup {"security"},
                   !.security = [q \in f.queues |-> NoPolicy]]

\* security_sqlite::migrate: INSERT OR IGNORE for every queue.
MigrateSecurity(f) ==
    [f EXCEPT !.features = @ \cup {"security"},
              !.security = [q \in DOMAIN @ \cup f.queues |->
                              IF q \in DOMAIN @ THEN @[q] ELSE NoPolicy]]

\* What migrate_existing_schema makes of a file: foreign keys are off.
Upgraded(f) ==
    MigrateSecurity(MigrateManagement(MigrateFifo(AddColumns(f)), FALSE))
-----------------------------------------------------------------------------
Init ==
    /\ \/ file = NewFile /\ history = {}
       \/ \E legacy \in LegacyFiles : file = legacy.file /\ history = legacy.history
    /\ lock = NoProcess
    /\ draft = NewFile
    /\ pc = [p \in Process |-> "closed"]
    /\ foreignKeys = [p \in Process |-> FALSE]
    /\ starts = 0

Goto(p, label) == pc' = [pc EXCEPT ![p] = label]

\* Lqs::open: a connection, and create_base_schema on it outside a transaction,
\* which enforces foreign keys and has to wait only if tables are missing.
Connect(p) ==
    /\ pc[p] = "closed" /\ starts < MaxStarts
    /\ "base" \in file.features \/ lock = NoProcess
    /\ file' = WithBase(file)
    /\ foreignKeys' = [foreignKeys EXCEPT ![p] = TRUE]
    /\ starts' = starts + 1
    /\ Goto(p, "connected")
    /\ UNCHANGED <<history, lock, draft>>

\* migrate_existing_schema switches them off before the transaction begins,
\* inside which the pragma would have no effect.
SwitchOff(p) ==
    /\ pc[p] = "connected"
    /\ foreignKeys' = [foreignKeys EXCEPT ![p] = FALSE]
    /\ Goto(p, "waiting")
    /\ UNCHANGED <<file, history, lock, draft, starts>>

\* BEGIN IMMEDIATE.
Begin(p) ==
    /\ pc[p] = "waiting" /\ lock = NoProcess
    /\ lock' = p
    /\ draft' = file
    /\ Goto(p, "columns")
    /\ UNCHANGED <<file, history, foreignKeys, starts>>

\* It has waited for as long as the busy timeout of the connection.
GiveUp(p) ==
    /\ pc[p] = "waiting" /\ lock # NoProcess
    /\ Goto(p, "failed")
    /\ foreignKeys' = [foreignKeys EXCEPT ![p] = FALSE]
    /\ UNCHANGED <<file, history, lock, draft, starts>>

Change(p, label, changed, next) ==
    /\ pc[p] = label
    /\ draft' = changed
    /\ Goto(p, next)
    /\ UNCHANGED <<file, history, lock, foreignKeys, starts>>

Columns(p) == Change(p, "columns", AddColumns(draft), "fifo")
FifoTables(p) == Change(p, "fifo", MigrateFifo(draft), "management")
Management(p) ==
    Change(p, "management", MigrateManagement(draft, foreignKeys[p]), "security")
Security(p) == Change(p, "security", MigrateSecurity(draft), "check")

\* Mutant: the connection that failed is kept.
ReleasedNot(p) == UNCHANGED <<lock, draft>>

\* The connection is closed, which rolls its transaction back.
Released(p) ==
    IF lock = p THEN lock' = NoProcess /\ draft' = NewFile
                ELSE UNCHANGED <<lock, draft>>

\* The foreign keys of the draft do not hold: open answers an error.
CheckFails(p) ==
    /\ pc[p] = "check" /\ ~ReferencesHold(draft)
    /\ Released(p)
    /\ Goto(p, "failed")
    /\ UNCHANGED <<file, history, foreignKeys, starts>>

Commit(p) ==
    /\ pc[p] = "check" /\ ReferencesHold(draft)
    /\ file' = draft
    /\ lock' = NoProcess
    /\ draft' = NewFile
    /\ Goto(p, "committed")
    /\ UNCHANGED <<history, foreignKeys, starts>>

\* The last statement of migrate_existing_schema switches them on again.
SwitchOn(p) ==
    /\ pc[p] = "committed"
    /\ foreignKeys' = [foreignKeys EXCEPT ![p] = TRUE]
    /\ Goto(p, "open")
    /\ UNCHANGED <<file, history, lock, draft, starts>>

\* A process dies, or drops its connection after an error.
Die(p) ==
    /\ pc[p] # "closed"
    /\ Released(p)
    /\ Goto(p, "closed")
    /\ foreignKeys' = [foreignKeys EXCEPT ![p] = FALSE]
    /\ UNCHANGED <<file, history, starts>>

Migrate(p) ==
    \/ SwitchOff(p) \/ Begin(p)
    \/ Columns(p) \/ FifoTables(p) \/ Management(p) \/ Security(p)
    \/ CheckFails(p) \/ Commit(p)
    \/ SwitchOn(p)
-----------------------------------------------------------------------------
(* What a process does with the open file, one transaction at a time *)

Work(p, changed) ==
    /\ pc[p] = "open" /\ lock = NoProcess
    /\ file' = changed
    /\ UNCHANGED <<lock, draft, pc, foreignKeys, starts>>

\* send: the keys that suppress a message of group g.
Suppressing(q, d, g) ==
    {k \in file.keys : /\ k.queue = q /\ k.dedup = d
                       /\ q \in file.perGroup => k.group \in {g, UnknownGroup}}

\* Message ids are unique; which one it is does not matter.
FreshIds ==
    LET used == DOMAIN file.messages \cup {k.message : k \in file.keys}
        free == 1 .. MaxMessage \ used
    IN  {m \in free : \A n \in free : m <= n}

Send(p, q, d, g) ==
    \E m \in FreshIds :
        /\ q \in file.queues
        /\ Suppressing(q, d, g) = {}
        /\ Work(p, [file EXCEPT
              !.messages = With(@, m, [queue |-> q, group |-> g, received |-> 0,
                                       total |-> 0, dedup |-> d]),
              !.keys = @ \cup {[queue |-> q, dedup |-> d, message |-> m, group |-> g]}])
        /\ history' = history \cup {[queue |-> q, dedup |-> d, group |-> g]}

\* A row that is received once more, in both of its counts.
Counted(row) == [row EXCEPT !.received = @ + 1, !.total = @ + 1]

Receive(p, m) ==
    /\ file.messages[m].received < MaxReceives
    /\ Work(p, [file EXCEPT !.messages[m] = Counted(@)])
    /\ UNCHANGED history

\* move_message to the dead-letter queue: total_receive_count goes on.
Moved(row, dlq) == [row EXCEPT !.queue = dlq, !.received = 0]

DeadLetter(p, m, dlq) ==
    /\ file.messages[m].queue \in Sendable
    /\ dlq \in file.queues \ Sendable
    /\ file.messages[m].received > 0
    /\ Work(p, [file EXCEPT !.messages[m] = Moved(@, dlq)])
    /\ UNCHANGED history

DeleteMessage(p, m) ==
    /\ Work(p, [file EXCEPT !.messages = Without(@, {m})])
    /\ UNCHANGED history

\* set_queue_attributes
SetScope(p, q) ==
    /\ q \in file.queues \ file.perGroup
    /\ Work(p, [file EXCEPT !.perGroup = @ \cup {q}])
    /\ UNCHANGED history

SetPolicy(p, q, policy) ==
    /\ q \in file.queues
    /\ Work(p, [file EXCEPT !.security[q] = policy])
    /\ UNCHANGED history

CreateQueue(p, q) ==
    /\ q \notin file.queues
    /\ Work(p, [file EXCEPT !.queues = @ \cup {q}, !.security = With(@, q, NoPolicy)])
    /\ UNCHANGED history

\* delete_queue: SQLite deletes the rows that name the queue if the connection
\* enforces foreign keys.
DeleteQueue(p, q) ==
    LET named == {m \in DOMAIN file.messages : file.messages[m].queue = q}
        emptied == [file EXCEPT !.messages = Without(@, named),
                                !.keys = {k \in @ : k.queue # q},
                                !.security = Without(@, {q})]
        rest == IF foreignKeys[p] THEN emptied ELSE file
    IN  /\ q \in file.queues
        /\ Work(p, [rest EXCEPT !.queues = @ \ {q}, !.perGroup = @ \ {q}])
        /\ history' = {h \in history : h.queue # q}

Use(p) ==
    \/ \E q \in Sendable, d \in DedupId, g \in Group : Send(p, q, d, g)
    \/ \E q \in Sendable, policy \in Policy : SetScope(p, q) \/ SetPolicy(p, q, policy)
    \/ \E m \in DOMAIN file.messages :
            \/ Receive(p, m) \/ DeleteMessage(p, m)
            \/ \E dlq \in Queue : DeadLetter(p, m, dlq)
    \/ \E q \in Queue : CreateQueue(p, q) \/ DeleteQueue(p, q)

Next ==
    \E p \in Process : Connect(p) \/ Migrate(p) \/ GiveUp(p) \/ Die(p) \/ Use(p)

\* A process that is not dead goes on with its migration.
Spec == Init /\ [][Next]_vars /\ \A p \in Process : WF_vars(Migrate(p))
-----------------------------------------------------------------------------
(* What openings promise *)

(* Every variable has its type; a row has a value in a column exactly when *)
(* its table has the column.                                               *)
OpeningTypeOK ==
    /\ IsFile(file) /\ IsFile(draft)
    /\ history \subseteq Sends
    /\ lock \in Process \cup {NoProcess}
    /\ pc \in [Process -> {"closed", "connected", "waiting", "columns", "fifo",
                          "management", "security", "check", "committed", "open",
                          "failed"}]
    /\ foreignKeys \in [Process -> BOOLEAN]
    /\ starts \in Nat

Migrated(f) ==
    /\ f.features = Feature
    /\ f.oldWindows = {}
    /\ DOMAIN f.security = f.queues
    /\ \A m \in DOMAIN f.messages : f.messages[m].received <= f.messages[m].total

(* A process that has the file open finds every column and table it reads, *)
(* a security row for each queue, five-minute windows, receive counts that *)
(* the total covers, and rows whose references hold, on a connection that  *)
(* enforces them - whatever other processes do to the file, start another  *)
(* migration included (migrate_existing_schema, sqlite_lqs.rs:844-867).    *)
OpenMeansMigrated ==
    \A p \in Process : pc[p] = "open" =>
        foreignKeys[p] /\ Migrated(file) /\ ReferencesHold(file)

\* What a file says about a message to one who knows no later columns.
Content(f, m) ==
    [queue |-> f.messages[m].queue, group |-> f.messages[m].group,
     received |-> f.messages[m].received]

\* What a commit keeps of the file, and makes of it.
KeptByCommit ==
    \A p \in Process : pc[p] = "check" /\ pc'[p] = "committed" =>
        /\ file'.queues = file.queues /\ file'.perGroup = file.perGroup
        /\ DOMAIN file'.messages = DOMAIN file.messages
        /\ \A m \in DOMAIN file.messages :
            /\ Content(file', m) = Content(file, m)
            /\ file.messages[m].total # NoColumn =>
                    file'.messages[m] = file.messages[m]
        /\ {<<k.queue, k.dedup, k.message>> : k \in file'.keys}
             = {<<k.queue, k.dedup, k.message>> : k \in file.keys}
        /\ \A k \in file'.keys : k.message \in DOMAIN file.messages =>
                k.group = file.messages[k.message].group \/ k \in file.keys
        /\ \A q \in DOMAIN file.security : file'.security[q] = file.security[q]
        /\ Migrated(file) => file' = file

(* A migration loses no queue, message, key or security setting and        *)
(* invents none: counts and deduplication ids that the file already held   *)
(* stay, a key of a message that exists keeps to its group, and a second   *)
(* start finds nothing left to do (docs/compatibility.md:80 and 125).      *)
MigrationKeeps == [][KeptByCommit]_vars

\* No earlier send suppresses a message that this step adds.
Unsuppressed ==
    \A m \in DOMAIN file'.messages \ DOMAIN file.messages :
        \A h \in history :
            ~ /\ h.queue = file'.messages[m].queue
              /\ h.dedup = file'.messages[m].dedup
              /\ h.queue \in file.perGroup => h.group = file'.messages[m].group

(* Deduplication reaches across an upgrade: a send is accepted only if no  *)
(* earlier send of its queue, or of its group when the scope is the group, *)
(* had its deduplication id, even if that was before the keys had groups   *)
(* and its message has been deleted (docs/compatibility.md:125;            *)
(* fifo.rs:145-152; sqlite_lqs.rs:1189).                                   *)
SendsRespectHistory == [][Unsuppressed]_vars

\* The labels of a process that is inside its migration.
Stages == {"columns", "fifo", "management", "security", "check"}

ProcessInv(p) ==
    /\ pc[p] # "closed" => "base" \in file.features
    /\ pc[p] \in Stages <=> lock = p
    /\ foreignKeys[p] <=> pc[p] \in {"connected", "open"}
    /\ pc[p] = "columns" => draft = file
    /\ pc[p] = "fifo" => draft = AddColumns(file)
    /\ pc[p] = "management" => draft = MigrateFifo(AddColumns(file))
    /\ pc[p] = "security"
       => draft = MigrateManagement(MigrateFifo(AddColumns(file)), FALSE)
    /\ pc[p] = "check" => draft = Upgraded(file)
    /\ pc[p] \in {"committed", "open"} => Migrated(file) /\ ReferencesHold(file)

(* What a running migration has changed is a function of the file, which   *)
(* nobody else writes meanwhile, and a file that some process has open     *)
(* stays migrated: the inductive invariant behind OpenMeansMigrated,       *)
(* MigrationKeeps and SendsRespectHistory.                                 *)
OpeningInv ==
    /\ OpeningTypeOK
    /\ SoundFile(file)
    /\ "base" \notin file.features => history = {}
    /\ \A h \in history : Remembers(file, h)
    /\ \A p \in Process : ProcessInv(p)

(* A process that has begun to open the file is some time done with it, or *)
(* dead: nobody who fails or dies keeps the others waiting.                *)
OpeningEnds ==
    \A p \in Process :
        pc[p] = "connected" ~> pc[p] \in {"open", "failed", "closed"}
=============================================================================
