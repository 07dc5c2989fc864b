# LQS in TLA+

LQS is a local SQS-compatible queue server in Rust: an HTTP front end over one
SQLite database.  This directory models its behaviour in TLA+, checks the models
with TLC on small instances and proves the results that matter most with TLAPS.
Every definition is translated from the Rust source and the SQL in it; paths below
are relative to the repository root (`src/` there is the Rust crate).

## The system

| Component | State it keeps | Operations | Where | Modelled in |
|---|---|---|---|---|
| Message store | tables `messages`, `queues`, AUTOINCREMENT counter | `send`, `receive_page`, `delete`, `change_visibility`, `set_queue_attributes`, `purge_queue` | `src/sqlite_lqs.rs`, `src/management.rs` | `MessageRows`, `QueueStore`, `FifoLines` |
| FIFO deduplication | table `deduplication_keys` | `find_duplicate`, `insert_message` | `src/sqlite_lqs.rs` | `QueueStore`, `DeduplicationHistory` |
| Receive attempts | tables `receive_attempts`, `receive_attempt_members`, two triggers | `replay_attempt`, `save_attempt` | `src/fifo.rs` | `QueueStore` |
| Dead letters | tables `redrive_policies`, `dead_letter_origins` | `redrive_candidate`, `move_message`, `redrive_dead_letters`, `write_redrive_policy` | `src/sqlite_lqs.rs` | `QueueStore` |
| Batch requests | one clock reading, entries left | `execute`, `run_batch` | `src/batch.rs`, `src/batch_http.rs` | `BatchRequests` |
| Queue catalog | `queues`, `deleted_queues`, `redrive_policies`, `queue_tags`, listing cursors | `create_queue_with_tags_at`, `delete_queue`, `set_redrive_policy`, `tag_queue`, `untag_queue`, `list_queues`, dead-letter source listing | `src/management.rs`, `src/sqlite_lqs.rs`, `src/http_server.rs` | `QueueCatalog` |
| Long polling | deadline of each poll | `poll_receive` | `src/http_server.rs` | `LongPoll`, `RequestPipeline` |
| Admission | semaphore permits, token bucket | `try_enter` | `src/http_server.rs` | `RequestPipeline` |
| Authorization | configuration, table `queue_security` | `ServerConfig::validate`, the two hooks, `authorize`, `add_permission`, `remove_permission`, `QueueSecurity::updated` | `src/security*.rs`, `src/http_server.rs` | `QueuePolicies`, `RequestPipeline` |
| Opening, schema migration | schema and old rows of the file, write lock, `PRAGMA foreign_keys` | `open`, `migrate_existing_schema` and its four parts | `src/sqlite_lqs.rs`, `src/fifo.rs`, `src/management.rs`, `src/security_sqlite.rs` | `DatabaseOpening` |
| Plaintext migration | source and target file, key | `migrate_plaintext_database`, `open_encrypted` | `src/sqlite_lqs.rs`, `src/main.rs` | `PlaintextMigration` |
| Protocol, message attributes, entry points | none | parsing, encoding, validation, MD5, arguments | `src/http_server.rs`, `src/*_http.rs`, `src/message_attributes.rs`, `src/main.rs` | see "Not modelled" |

How they interact.  The HTTP server admits a request (permit, then token), reads and
parses its body, finds out who sends it and takes one mutex around the `Lqs` value
(`lock_lqs`), under which the request is authorized by the policy of that moment and
runs.  `Lqs` owns one SQLite connection; every operation is one `IMMEDIATE`
transaction (or one statement).  Other processes may open the same file, so a
transaction, not the mutex, is the unit of atomicity; the mutex matters for batches,
whose entries are transactions of their own.  Triggers couple the `messages` table
to the receive attempts, foreign keys (some with and some without `ON DELETE
CASCADE`) couple everything to `queues`.  A long poll releases the mutex between its
pages.

What is hard here:

- *FIFO batches.*  One receive may take several messages of a group; the candidate
  query must let it overtake exactly the rows it has taken itself.
- *Dead-lettering inside a receive.*  The loop moves exhausted messages away while
  it goes on choosing candidates, looking at each row's own count.
- *Leases and clocks.*  Leases lapse, are extended, set to zero and replayed, all
  under one in-flight limit that can itself be lowered.
- *Retries.*  A send is retried by deduplication id, a receive by attempt id; both
  are remembered for five minutes and invalidated by other operations.
- *Names that come back.*  A queue is deleted with everything that names it and may
  be created again 60 seconds later, under polls, listings and stored answers.
- *Crashes.*  A receive consists of many statements; a message move is a DELETE
  followed by an INSERT; a migration rebuilds tables with foreign keys off.
- *Old clock readings.*  A batch reads the clock before it waits for the mutex.
- *Permits.*  A request can end in half a dozen ways and must give its permit back
  once in each of them.

`PROJECT.json` lists the hazards line by line with the properties that watch them.

## Modules

| Module | What it is |
|---|---|
| `MessageRows` | the predicates and updates the SQL computes over rows of `messages`, as pure operators |
| `QueueStore` | the state machine of `Lqs` over a fixed set of queues |
| `QueueStoreSafety` | its type invariant, invariants and action properties |
| `FifoLines` | the abstract specification: every message group is a line |
| `QueueStoreRefinement` | `QueueStore` with FIFO queues implements `FifoLines` |
| `DeduplicationHistory` | `QueueStore` with a history variable that records acceptances |
| `BatchRequests` | composes `QueueStore` with batch clients, the server mutex and their clock readings |
| `LongPoll` | composes `QueueStore` with clients whose receives are long polls |
| `QueueCatalog`, `QueueCatalogSafety` | queues that come and go, and the rows that name them; what is promised of them |
| `QueuePolicies` | policies, wildcards and encryption settings as pure operators |
| `RequestPipeline` | a request from admission to answer, with `QueuePolicies` |
| `DatabaseOpening` | opening and migrating a file of any release, by several processes |
| `PlaintextMigration` | extends it with the copy to an encrypted file |
| `MC...` | instances for TLC: settings, files, policies, symmetry |
| `..._proofs` | theorems and their proofs, see below |

`QueueStore` takes the set of queues as fixed and looks at rows and leases in full;
`QueueCatalog` is the other way round: queues come and go, and a receive takes any
messages.  They meet in the tables `messages`, `dead_letter_origins`,
`redrive_policies` and `receive_attempts`, which both have.

### QueueStore

A message is a row of a function from `sequence` to records.  There is one
variable per table (or group of tables changed together) and `tx`, `work`,
`workNext`, the local state of the one running transaction.

| Action | Code |
|---|---|
| `SendStandard`, `SendFifo`, `SendDuplicate` | `send`: sweep, `find_duplicate`, `insert_message` |
| `BeginReceive` | `receive_page` up to the loop: sweep, prune attempts, limit |
| `DeliverNext`, `DeadLetterNext` | one iteration of `collect_received` |
| `CommitReceive` | end of the loop, `save_attempt`, commit |
| `ReplayAttempt`, `ReceiveOverLimit` | the two early ends of `receive_page` that commit |
| `BeginRedrive`, `RedriveNext`, `CommitRedrive` | `redrive_dead_letters` |
| `Rollback` | crash or database error at any point of a loop |
| `Delete`, `ChangeVisibility`, `SetQueueAttributes`, `PurgeQueue` | the methods of these names |
| `Tick` | the clock |

A call that fails rolls back and changes nothing, so it is no action.  Operations
that do not loop are one step: SQLite serializes writers, and their statements are
invisible to others until the commit.

What the abstraction leaves out, and why it is safe:

- Bodies, attributes, sizes, MD5s and `first_received_at_ms` are read by no
  condition.  Message ids are the sequence number of the first insertion (the code
  formats that number), receipt handles the pair of sequence and receive count
  (the code adds the time, which cannot make two equal).
- `invisible_until_ms` NULL is 0: the code compares it with the clock only, and NULL
  behaves like any past time in each of these comparisons.
- `SetQueueAttributes` is given the settings it leaves behind.
  `redrive_policy` and `set_redrive_policy` write the same row under the same checks.
- A Standard message always has a group here; no statement reads it for Standard
  queues.
- Times are a few abstract units instead of milliseconds; all comparisons of the
  code are between a time and a time plus or minus a constant.
- The clock does not step back.  Keys without a group (`group_id = ''`), which only
  a migrated file has, are in `DatabaseOpening`.

`FifoLines` says the same without rows, leases, clocks or transactions: messages
join a line at its end, only a first part of it is handed out or moves on, and
messages may disappear from anywhere.  A line is a function from places to messages,
each an id and the number of times it was handed out; only the order of the places
means anything.  The refinement maps the committed rows of a group to such a line, a
row's sequence number being its place and its total receive count (origin included)
the number; a receive or redrive of many steps is one abstract step, at its commit.

### LongPoll and BatchRequests

`LongPoll` follows one `poll_receive` per client through its stages: ready (before
`lock_lqs`), paging (its receive transaction, taken step by step from `QueueStore`),
empty or full (after an incomplete page or `OverLimit`, before the clock is read),
asleep, and answered, repeated, gaveUp or failed.  A dropped connection ends a
request only while it sleeps: that is the only `await` of the loop.  Other clients
send, delete and change visibilities at any time no transaction runs.
`BatchRequests` adds clients that read the clock, wait for the mutex and run their
entries with the old reading.

### QueueCatalog

One variable per table and one action per operation, named as in the code
(`CreateQueue`, `DeleteQueue` with its cascades, `SetRedrivePolicy`, `TagQueue`,
`UntagQueue`, `Send`, `Receive`, `DeadLetter`, `Redrive`, `DeleteMessage`,
`PurgeQueue`).  Names are numbers in the order SQLite sorts them.  `client` is the
one request of several transactions that is followed: a listing
(`StartListing`, `NextPage`, `ListingFails`) or a long poll (`StartPoll`,
`PollAnswers`, `PollEnds`), beside any number of other operations; the history
variable `present` holds the queues the request is about that were there all the
time.  Each page of a listing has a `MaxResults` or none (`NoMaximum`).  One without
has room for `DefaultPageSize` names, 1000 in the code, and never carries a token
(`next_cursor` needs `maximum.is_some()`; `docs/compatibility.md` line 135), so when
there are more, the listing is `"cut"`: it ends although names are missing, and
nothing in the answer says so.  A stored answer includes what it says about the origin of each member,
because `delete_queue` invalidates answers on that account.  Left out: attributes
that refer to no other row, the validation of names and tags, `modified_at_ms`, the comparison that makes a
repeated `CreateQueue` idempotent.

Two assumptions about time stand in this module.  The longest poll is shorter than
the cooldown of a name (`PollTime < Cooldown`, an `ASSUME`; 20 and 60 seconds in the
code), and `Tick` does not pass the deadline of a poll before its last page, which says
that requests wait for the mutex less than the 40 seconds between the two.

### RequestPipeline and QueuePolicies

A request is `Reading`, `Ready` (before `lock_lqs`), asleep between two pages, or
answering; it holds a permit in each of these states.  `Enter`, `Throttled` and `Probe` are the
three outcomes of `try_enter` that count tokens, `Identify`, `Reject` and `Refuse`
what may become of the body and its headers, `Perform`, `ReceivePage`,
`SetQueueAttributes`, `AddPermission`, `RemovePermission`, `DeleteQueue`,
`CreateQueue` and `Fails` what happens under the mutex, `Panic`, `Disconnect` and
`Respond` how it ends.  `Restart` replaces the process by one with any configuration
that `ServerConfig::validate` accepts; the database stays.

Tokens are counted in parts, as many as there are ticks in a second, instead of
floating point numbers; the code's `f64` rounds, the model does not.  A policy is a
sequence of statements about the one queue; the grammar of JSON policies is left
out.  `Glob` is the loop of `glob`: `GlobStep` is one iteration on its four variables,
`Matches` the meaning of `*` and `?` that `DecisionsRight` refers to.
`MCRequestPipeline` states and TLC evaluates `GlobIsMatching`, that the two agree for
all patterns and texts of up to four characters; the lemma `GlobMatches` proves it for
all.  A name of an action has no `*` in it (an assumption; the code's list of actions),
and every stored policy is a sequence of statements over the principals and patterns
of the constants.  The digest comparison of credentials is equality.

### DatabaseOpening and PlaintextMigration

A file is a record of the schema features it has and of the rows that a migration
reads or rewrites; a column a table does not have yet holds `NoColumn`.  A process
connects (`create_base_schema` outside a transaction), switches foreign keys off,
waits for the write lock, runs the four parts of the migration on a draft, checks
references, commits and switches foreign keys on.  It may die before every one of
these steps; another process may do all this at the same time, or give up waiting.
Once open, processes send, receive, dead-letter, delete, change scope and policies,
create and delete queues.  Time stands still in this module, so no key expires.

The command `migrate-plaintext` runs while no process has the file open: it creates the target,
keys it, exports table by table and opens the copy; it may end after every step and
leaves what it has written.  SQLCipher's `sqlcipher_export` and its key check are
external and modelled from how the code uses them.  That the source is not opened
again once there is a target is a bound: neither file depends on the other then.

## What the runs check

| Run | Instance | Properties |
|---|---|---|
| `FifoDeadLetters` | FIFO source with maxReceiveCount 2 and its DLQ, one group, batches of 2, one attempt id, three contents, both queues sent to, redrive of 1-2, expiry, 6 sequence numbers | `TypeOK`, `EarlierReceivedMore`, `GroupOrder`, `ReceiveConserves`, `ImplementsLines`, `RedriveReturns` |
| `StandardDeadLetters` | Standard source with room for 2 leases and its DLQ, both sent to, delays, visibility 0, default and extension, redrive, expiry | `InFlightBound`, `OnlyLiveRowsMove` |
| `Deduplication` | two groups, one id, one attempt id, scope, delay and retention change, purge | `FifoDelayCurrent`, `DeduplicationHolds` |
| `BatchOrder` | a batch of 2 with an old clock reading beside single requests, FIFO queue and DLQ | `BatchContiguous`, `ConstraintsNeverTrip` |
| `PollRetries` | two clients, one attempt id or none, waits 0 and 1, batches of 2, limit 2 lowered to 1, purge, expiry, visibility changes | `PollTypeOK`, `RetriesAgree`, `AttemptsReplayable`, `NothingSwallowed`, `InFlightBound` |
| `PollLiveness` | two clients, waits 0 and 2, one Standard message, one lease | `PollsEnd`, `EmptyOnlyAtDeadline` |
| `QueueCatalog` | three FIFO queues, policies from two of them, one tag allowed of two, 3 sequence numbers, pages of 1 and 2 names, or of 2 without `MaxResults`, cooldown 2, poll 1 | `CatalogTypeOK`, `NoDanglingRows`, `AnswersCurrent`, `PollMeetsOneQueue`, `ListingExact` |
| `Opening` | two processes, three starts, a new file or one of six releases (the message in its queue or already dead-lettered) or a damaged one; one target, two keys | `FilesTypeOK`, `MigrationKeeps`, `SendsRespectHistory`, `ServedFilesWhole`, `OpeningEnds`, `ExportComplete`, `TargetsKept` |
| `RequestPipeline` | two clients, two permits, one token a second, four configurations of which two must be refused, three policies | `PipelineTypeOK`, `PermitsConserved`, `RateBound`, `RemoteCallersKnown`, `DecisionsRight`, `SettingsValid`, `PermissionsRevocable`, `JudgedNow`, `PoisonIsFinal` |
| `GroupExclusive` | finds a violation | `GroupExclusive` |
| `StaleBatch` | finds a violation | `InFlightBound` |
| `RetriesNeverEmpty` | finds a violation | `RetriesNeverEmpty` |

The largest run has four million distinct states.

Bounds.  `MaxTime` (clock), `MaxSequence` (sequence numbers, hence messages and
moves), `MaxReceives` (deliveries of a row; never below the `maxReceiveCount` of the
run, so dead-lettering is not cut off), `MaxStarts`, `MaxStartsBefore` and
`MaxMessage` (starts of processes and new messages in `Opening`), `MaxPasses` (pages
of a poll in `RequestPipeline`), `MaxStatements` (2 instead of 20; a limit of the
code) and the constraints `OneThingAtATime` of `QueueCatalog` and `FewSends` of
`FifoDeadLetters`.

- Two messages of a group plus one more are enough for every order violation, which
  is about a pair; three to six clock units contain a lease, its lapse, the attempt
  window and an expiry.  `MaxReceives` stops new receives on a queue, not a running
  one.  `DeduplicationWindow` is short enough to end within the run, except in
  `FifoDeadLetters`, where each message has a content of its own.
- Six sequence numbers let two messages go to the dead-letter queue and back in one
  redrive, or pass one another there if they could: between messages that were sent
  there directly, which a redrive must not take and whose group it must not pass.
  `FewSends` leaves out three messages together with such ones, such ones together
  with stored attempts, and what follows the last number when there are three.  The
  theorems need none of this.
- Three queues are a source, its dead-letter queue and one more; two pages and the
  deletion and re-creation of a name fit in two cooldowns.  `OneThingAtATime` leaves
  out states in which a listing, poll or tag is combined with dead letters or stored
  attempts: no operation but `DeleteQueue` reads two of them, and that removes each
  by itself.  The theorems about `QueueCatalog` need no such constraint.
- One attempt at opening that dies, one that races another, and one that finds
  everything done are three starts.  A file of each release with a message, its key
  and the key of a deleted message has every row a migration treats specially.
- Two requests, a probe and one refill show every order of taking and giving back.

Group and client symmetry is used where groups and clients are interchangeable and
no temporal property with fairness is checked.

Some properties see less in a run than they say.  `InFlightBound` passes where no batch
has an old clock reading; with one it fails, which is what `StaleBatch` shows.
`BatchOrder` has no attempt ids and keeps its scope, so there `ConstraintsNeverTrip` is
about message ids and deduplication keys; the rest of it is shown by the theorems
`ConstraintsHold` and `BatchConstraintsHold`.  `Opening` has one target; that a command
leaves other targets alone is the theorem `TargetsStay`.

Deadlock is checked except in `Opening`, whose starts are bounded.  Elsewhere
receives that find nothing, restarts or probes keep every state alive, so this check
says little.

Fairness.  `PollSpec`: weak fairness of the clock, of the statements of a page whose
thread holds the mutex, and of the timer of a sleeping request is what the operating
system and Tokio give.  Strong fairness of the start of a page says that a thread
that asks for the mutex again and again gets it once: neither `std::sync::Mutex` nor
the lock of SQLite queues its waiters, but neither lets one wait for ever while it
becomes free infinitely often.  Clients owe nothing: they may stop sending, hold
their answers or disconnect.  `MaxReceives` is above the number of deliveries that
`MaxTime` allows in the poll runs, so no bound keeps a page from starting.
`Opening`: weak fairness of `Migrate(p)` says that a process that is not dead goes
on with its migration; nothing says that it does not die, and waiting for the lock ends
as its holder ends or dies.  The other specifications state no fairness.

### What the violations show

- `GroupExclusive`.  `DESIGN.md` line 10 promises that one group is never delivered
  concurrently and line 28 that a message in flight blocks its group.  The query
  looks at *earlier* messages only.  After one call has received m1 and m2 and m1 has been
  made visible again with a timeout of 0, the next call receives m1 while m2 is
  still out with the first call.
- `StaleBatch`.  `DESIGN.md` line 94 says a lapsed handle cannot be revived to get
  around the in-flight limit.  `batch_http::execute` reads the clock before it
  waits for the mutex, so a lease that lapses during the wait still counts as in
  flight for the batch and is extended although its slot has been given away.
- `RetriesNeverEmpty`.  `docs/compatibility.md` lines 121 and 123 promise a retry the
  same messages for five minutes, or `OverLimit` when their leases do not fit the
  limit any more.  `poll_receive` takes the `OverLimit` of `replay_attempt` like that of
  a full Standard queue: it waits, and at the deadline answers an empty success.

### What the passing runs show about the newer parts

- `delete_queue` detaches everything that the foreign keys do not cascade to; its
  treatment of stored answers is needed, for without it a retry would name a deleted
  (and perhaps re-created) source queue as the origin of a dead letter.
- A long poll that resolves its queue by name in every page is safe only because the
  tombstone outlasts it.
- A second start, or a second process, finds a migrated file and changes nothing; a
  connection that has migrated enforces foreign keys again before it is used.
- A half-written target is either refused or, when the tables copied so far hold
  their references, opened as a smaller database.  That is so for a copy that has
  the queues but not yet the messages: a server can be started on it, it serves a
  consistent database, and only the missing success report of the command tells.

## Proofs

The theorems hold for every value of the constants that satisfies the named
assumptions of the modules; TLC evaluates these in the runs.  They are of the form
`Spec => ...`, by an invariant of the initial states and one step lemma per action or
kind of action.  The inductive invariants that stand in the modules of the components
(`TransactionInv`, `EarlierInv`, `LimitInv`, `ReceiveInv`, `RedriveInv`, `DelaysInv`,
`MovesInv`, `AnswersStored`, `FinalPages`, `OpeningInv`, `ExportInv`) were checked
with TLC as invariants of the runs before they were proved.  Every invariant and
action property of the passing runs and the refinement `ImplementsLines` is a theorem.

The message store.  `QueueStore_proofs`:

- `TypeCorrect`: `Spec => []TypeOK`.  `TypeOK` is inductive as it stands, with one
  conjunct that is more than typing: the rows a receive has handed out are still in
  its table (a dead-letter move inside the same receive never takes one away),
  without which the members that `save_attempt` stores would have no type.
- `TransactionCorrect`: `Spec => []TransactionInv`.  What holds *inside* a
  transaction: a row that the transaction has not delivered is the committed row, a
  row that it has delivered was delivered once and everything ahead of it in its
  FIFO group was delivered too, and a handle names the sequence number and count of
  the delivery that issued it.  Without the second part a commit would publish
  an unknown table and no property of the delivered rows would follow.

`QueueStoreSafety_proofs`, first what a delivery may do, on top of `TransactionInv`:

- `GroupsInOrder`: `Spec => GroupOrder`.  Only a commit and a replay touch
  leases of many rows.  The first publishes `ReceivedRows`, the second changes no handle.
- `EarlierReceivedFirst`: `Spec => []EarlierReceivedMore`, by `EarlierInv`.  The
  property must hold of the private table too, and there a row that the running
  receive has delivered is *strictly* ahead of those behind it that it has not: that
  pays for the next delivery.
- `LeasesBounded`: `Spec => InFlightBound`, by `LimitInv`.  The leases that a receive
  found and the room it may still use add up to no more than the limit it has read,
  delivered rows are within that room, and rows that dead-lettering inserts are not
  leased.  The proof counts leases as cardinalities.
- `AttemptsStayReplayable`: `Spec => []AttemptsReplayable`.  The triggers invalidate the
  attempts whose members' handles change or vanish (`TriggersSuffice`), and the
  attempt that a commit stores holds handles of rows it has just written.  That a new
  handle differs from the old one needs `HandlesNameDeliveries`.

`QueueStoreSafety_proofs`, then what becomes of messages:

- `ConstraintsHold`: `Spec => []ConstraintsNeverTrip`.  The invariant
  `ConstraintsInv` adds that ids in use are below the AUTOINCREMENT counter, so that
  the id of an inserted row is new, and `AttemptIsNew`, that a running receive
  found no stored attempt of its id: the check and the insert are many statements
  apart.
- `ReceivesConserve`: `Spec => ReceiveConserves`, by `ReceiveInv`: at every point of a
  receive its table has the ids that the sweep left, as many rows as ids, each
  delivered row counted once, and each row it has inserted continues the id, total,
  group and content of one it has removed (`MovedFrom`).  That every other row is as
  it was comes from `TransactionInv`.
- `LiveRowsMoveOnly`: `Spec => OnlyLiveRowsMove`; what a receive or redrive works on
  has outlived the sweep of its beginning.
- `RedrivesReturn`: `Spec => RedriveReturns`, by `RedriveInv`: what has been returned so
  far came from the source, of a group nothing that stayed was ahead of it, and the
  new rows stand in the order of the old ones.  The last needs one more conjunct:
  whatever can be taken next comes after all that was taken, because a row becomes
  free to be taken only by the removal of one ahead of it (`RedriveNextCandidates`).
- `FifoDelaysCurrent`: `Spec => []FifoDelayCurrent`, by `DelaysInv`, which says the same
  of the private table.

The refinement (`QueueStoreRefinement_proofs`):

- `MovesAlwaysInOrder`: `Spec => []MovesInv`.  A running receive or redrive has moved,
  of each group, a first part of what has survived the sweep; the moved rows stand in
  the same order at the end of the target's line, and every other row is where it
  was.  For a receive this needs `EarlierInv`: no message reaches `maxReceiveCount`
  before the ones ahead of it.
- `StoreImplementsLines`: `Spec => ImplementsLines`.  One lemma for each kind of step
  that commits something: rows that expire or are deleted (`ThinnedLines`), a send
  (`SendLines`), a receive from a FIFO queue (`CommitReceiveLines`: the counters of the
  delivered rows and the moved first parts at once) or a Standard one
  (`StandardCommit`), a redrive (`CommitRedriveLines`).  `LineLeft`, `LineJoined` and
  `LineUntouched` say what a move does to the line it leaves, the one it joins and
  the rest.  A first part of a finite line ends somewhere (`FirstPartEnds`);
  that ids stay distinct comes from `ConstraintsInv`, the totals from `ReceiveInv`, the
  source of redriven rows from `RedriveInv`.

Deduplication and batches (`SendRequests_proofs`):

- `KeysRemember`: `HistorySpec => []KeysRememberAcceptance`, and from it
  `AcceptedOnce`: `HistorySpec => DeduplicationHolds`.  The invariant relates the
  table to the history variable in both directions: a key holds the moment of the
  last acceptance of its id in its group, and an acceptance within the window has
  its key.  The first direction is what keeps a key from being deleted early, the
  second what makes `find_duplicate` see it, under either scope.
- `BatchesContiguous`: `BatchSpec => []BatchContiguous`.  `BatchInv` says that the
  numbers a running batch has been given end right below the counter, that no
  transaction is open beside it and that no two batches run at once: the mutex.
- `BatchConstraintsHold`: `BatchSpec => []ConstraintsNeverTrip`.  A batch is no behaviour
  of `Spec`, its entries use old clock readings; the lemmas about sends, deletions and
  visibility changes hold for any reading, so `ConstraintsInv` survives it.

Long polls (`LongPoll_proofs`):

- `PollsTyped`: `PollSafetySpec => []PollTypeOK`, a running receive belongs to exactly
  one request.  `PollsRefineStore`: `PollSafetySpec => Spec`; each step of a server
  with long polls is a step of `QueueStore` or leaves its variables alone, so the
  theorems above hold of such a server.  `EveryDeliveryAnswered`: `PollSafetySpec =>
  NothingSwallowed`; it needs `MovesLeaveQueue`, that a receive inserts rows only into
  another queue, or a commit could hand out rows that were not there before.
- `RetriesAnsweredAlike`: `PollSafetySpec => []RetriesAgree`.  The property compares two
  answers; the invariant `AnswersStored` says of each alone that its attempt was stored
  at some time, and has the same handles for five minutes from then on.
- `PollsEmptyAtDeadline`: `PollSafetySpec => EmptyOnlyAtDeadline`; by `FinalPages` a
  page that may store an empty answer has been started at the deadline.

The catalog (`QueueCatalog_proofs`):

- `NoRowsDangle` and `AnswersStayCurrent`: `CatalogSpec => []NoDanglingRows` and
  `[]AnswersCurrent`.  The inductive invariant `TablesInv` consists of the types,
  both properties and `MembersReceived`, that the members of a stored attempt were
  received at least once, by which `delete_queue` finds them.
- `PollsMeetOneQueue`: `CatalogSpec => []PollMeetsOneQueue`.  While a poll runs and
  its queue is not the one it began with, the name is reserved by a tombstone that is
  younger than the poll; with `PollTime < Cooldown` it outlasts the deadline.
- `TablesTypeOK`, and `ListingsExact`: `CatalogSpec => []ListingExact`.  `ListingInv` says
  of every listing that a queue that was there all the time has been answered or comes
  after the last name answered, the latter not when the listing ended for want of
  names.
  That a page is an initial piece of the names behind the cursor, in order, is shown
  by induction over the names it takes.

Opening and migration (`PlaintextMigration_proofs`), for any number of processes and
targets:

- `FilesTyped`: a column is filled in exactly if its table has it.
- `ServedWhole`: `[]ServedFilesWhole`.  By `OpeningInv` the draft of every process is
  what the parts of the migration it has been through make of the committed file,
  the lock has at most one holder, and foreign keys are off for no process that has
  the file open.
- `MigrationsKeep` and `SendsRespect`: every key that an acceptance has left is in
  the file in a form that the send of this release finds (`Remembers`): under its own
  group, or, when its message was gone before groups were recorded, under the unknown
  group that every send meets.  A file on which the migration starts must be one that a
  release could have written: every acceptance of its history has its key
  (`Remembers`), and totals, where it has them, are at least the counts (`SoundFile`).
  `DatabaseOpeningAssumption` says so of `LegacyFiles`; TLC evaluates it for the six
  releases.
- `ExportsComplete` and `TargetsStay`: by `ExportInv` what a command has left in a
  target is under one key, is either unused or has been migrated, and its references
  hold if it is in use.

Requests (`RequestPipeline_proofs`), for any number of clients, any limits, any
configurations and policies:

- `PermitsNeverLost`, on top of `PipelineTyped`: free permits and admitted requests
  add up; every kind of step keeps the sum (`StepKinds` sorts the actions).
- `RateBounded`: the invariant `RateInv` says of every admitted request that what was
  admitted since, and what the bucket still holds, is paid for by a full bucket and
  the refill of the time since then (`Paid`).  `RateBound` alone is not inductive: it
  says nothing of the tokens left.
- `RemoteCallersStayKnown`: a valid configuration keeps identities apart, and a
  request that is admitted keeps its identity from page to page.
- `SettingsStayValid`, `AlwaysJudgedNow`, `PoisonStaysFinal`: what is stored is
  valid, nothing is performed that the policy of the moment forbids, nothing at all
  after a panic.
- `DecisionsStayRight`: `Spec => []DecisionsRight`, for patterns and names of any length.
  It rests on `GlobMatches`, the correctness of the loop of `glob`.  Its invariant
  (`GlobInv`) is: the pattern matches as a whole exactly if it does from the current
  places on, or from a later try of the last star.  Passing a star keeps that,
  although the stars before are never tried again: the text between two stars has
  been found as early as it can be, and text without a star has a fixed length
  (`StarlessFits`).  A measure that grows with each iteration (`GlobProgress`) shows that the
  loop ends, and that the number of iterations the model gives it is enough.
- `PermissionsStayRevocable`: `Spec => []PermissionsRevocable`.  A decision depends on
  the set of statements only (`DecidedByStatements`), and what `remove_permission`
  leaves is the set of those under other Sids (`WithoutLeaves`).

Induction over data.  The induction theorems of the library take an operator as a
parameter, which the provers here cannot instantiate.  The proofs above use sets
instead: `FS_StrictSubsetOrderingWellFounded` gives a least element of every non-empty
set of numbers (`LeastNumber`), from which follow induction up to a bound for a set
(`SetInduction`) and the existence of functions defined by recursion (`Recursion`);
and a greatest element of every finite one (`GreatestNumber`).

With TLC only: liveness under fairness (`PollsEnd`, `OpeningEnds`), which with
`ENABLED` is outside what the prover can do.

## Not modelled

- *Parsing and encoding* of requests, responses and errors, in JSON and XML, and the
  *validation, size and MD5* of message attributes: stateless conversions of strings;
  no state depends on them beyond "malformed", which is `Refuse` in
  `RequestPipeline` and `Refuse` in `BatchRequests`.
- *File permissions, symbolic links and the format of key files* when a file is
  opened: properties of the operating system's file system, checked once at the
  start.
- *Arguments and messages* of the executable, and the re-exports of the library.
- A *clock that steps back*, and *other processes* that write the file while a server
  answers requests about policies: the first would need a second clock in every
  module, the second is a trusted administrator (`docs/compatibility.md` line 193).
- Queues and full leases in one model: a queue that is deleted and re-created under
  the step-by-step receive of `QueueStore`.  The two never overlap in time, since
  both are write transactions; `QueueCatalog` has what a delete leaves of rows.

## What could come next

A wall clock that steps back: `now` as a reading each operation takes, of which only
the transactions' order is known, and which of the theorems about keys, leases and
attempts survive it.  `BatchRequests` is a first step: `ConstraintsNeverTrip` does,
`InFlightBound` does not.
