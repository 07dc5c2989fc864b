---------------------------- MODULE QueueCatalog ----------------------------
(***************************************************************************)
(* The catalog of queues of struct Lqs (src/src/management.rs and          *)
(* src/src/sqlite_lqs.rs): creating and deleting queues, tombstones,       *)
(* redrive policies between queues, tags, the two paged listings, and what *)
(* all this does to the rows that name a queue: messages, the origins of   *)
(* dead letters and stored receive attempts.                               *)
(*                                                                         *)
(* One variable per table; an operation is one write transaction, hence    *)
(* one step.  Which messages a receive takes is the subject of QueueStore; *)
(* here it takes any.  A listing and a long poll consist of several        *)
(* transactions; the variable client follows one of them through its       *)
(* steps, beside any number of other operations.                           *)
(*                                                                         *)
(* Of the configuration of a queue there is its redrive policy; the other  *)
(* attributes do not refer to other rows.  The type of a queue follows     *)
(* from its name (validate_queue_creation).                                *)
(***************************************************************************)
EXTENDS Integers, FiniteSets, SequencesExt

CONSTANTS
    Name,        \* queue names: numbers, in the order SQLite sorts the names
    Fifo,        \* the names that end in .fifo
    NoQueue, NoAttempt,
    Sources,     \* the queues that redrive policies are asked for
    Tag, MaxTags,       \* tag keys, and how many a queue may carry (50)
    AttemptId,   \* the ReceiveRequestAttemptIds of FIFO receives
    PrefixSets,  \* sets of names that share a prefix
    PageSizes,   \* the MaxResults of listings
    NoMaximum,   \* a page that is asked for without MaxResults
    DefaultPageSize,    \* how many names such a page has (1000)
    Cooldown,    \* 60000 ms in the code
    PollTime,    \* how long a long poll waits: at most 20000 ms
    MaxTime, MaxSequence, MaxReceives   \* bounds

ASSUME QueueCatalogAssumption ==
    /\ Name \subseteq Nat \ {0} /\ Fifo \subseteq Name /\ Sources \subseteq Name
    /\ NoQueue \notin Name /\ NoAttempt \notin AttemptId
    /\ MaxTags \in Nat /\ Cooldown \in Nat /\ PollTime \in Nat /\ PollTime < Cooldown
    /\ DefaultPageSize \in Nat \ {0} /\ PageSizes \subseteq 1 .. DefaultPageSize
    /\ NoMaximum \notin Nat

VARIABLES
    now,
    queues,        \* table queues: the names in it
    tombstones,    \* table deleted_queues: name -> deleted_at_ms
    policies,      \* table redrive_policies: source -> dead_letter_queue
    tags,          \* table queue_tags: pairs of name and key
    messages,      \* table messages: sequence -> queue and receive count
    nextSequence,  \* its AUTOINCREMENT counter
    origins,       \* table dead_letter_origins: sequence -> source queue
    attempts,      \* tables receive_attempts and receive_attempt_members
    client         \* the request of several transactions that is under way

rows == <<tags, messages, nextSequence, origins, attempts>>
tables == <<queues, tombstones, policies, rows>>
vars == <<now, queues, tombstones, policies, tags, messages, nextSequence,
          origins, attempts, client>>
-----------------------------------------------------------------------------
Without(f, gone) == [x \in DOMAIN f \ gone |-> f[x]]
With(f, x, y) == [z \in DOMAIN f \cup {x} |-> IF z = x THEN y ELSE f[z]]

PolicyOf(q) == IF q \in DOMAIN policies THEN policies[q] ELSE NoQueue

\* write_redrive_policy: the policy q -> d may be written while known are the
\* queues that exist.
PolicyAllowed(q, d, known) ==
    d # NoQueue => d \in known /\ d # q /\ (q \in Fifo <=> d \in Fifo)

\* Mutant: a policy that is taken away is stored as an empty one.
PolicyWrittenAlways(q, d) == With(policies, q, d)

\* write_redrive_policy: the table after the policy of q became d.
PolicyWritten(q, d) ==
    IF d = NoQueue THEN Without(policies, {q}) ELSE With(policies, q, d)

RowsOf(q) == {s \in DOMAIN messages : messages[s].queue = q}

\* The receipt handle of a message names its sequence number and delivery.
Handle(s) == <<s, messages[s].receives>>

\* receive_attempts and receive_attempt_members, with what the stored
\* response says about the origin of each member.
Attempt == [queue : Name, id : AttemptId, valid : BOOLEAN,
            members : SUBSET (Nat \X Nat \X (Name \cup {NoQueue}))]

OriginOf(s) == IF s \in DOMAIN origins THEN origins[s] ELSE NoQueue

\* The triggers on messages: the attempts that hold a handle of the rows lose
\* their validity when these rows are deleted or delivered again.
Invalidated(set, lost) ==
    {IF \E m \in a.members : m[1] \in lost THEN [a EXCEPT !.valid = FALSE] ELSE a
        : a \in set}
-----------------------------------------------------------------------------
(* Clients *)

Idle == [kind |-> "idle"]
Polling(q) == [kind |-> "poll", queue |-> q, deadline |-> now + PollTime]
Listing(of, scope) ==
    [kind |-> "listing", of |-> of, scope |-> scope, found |-> <<>>]

\* A listing is under way, complete, or was cut off without a token.
ListingKinds == {"listing", "listed", "cut"}

Client ==
    {Idle}
    \cup [kind : {"poll"}, queue : Name, deadline : Nat]
    \cup [kind : ListingKinds, of : {"queues"}, scope : PrefixSets, found : Seq(Name)]
    \cup [kind : ListingKinds, of : {"sources"}, scope : Name, found : Seq(Name)]

Init ==
    /\ now = 0
    /\ queues = {}
    /\ tombstones = << >>
    /\ policies = << >>
    /\ tags = {}
    /\ messages = << >>
    /\ nextSequence = 1
    /\ origins = << >>
    /\ attempts = {}
    /\ client = Idle
-----------------------------------------------------------------------------
(* Creating and deleting *)

\* Mutant: the name of a deleted queue can be used again at once.
NeverDeletedRecently(q) == FALSE

DeletedRecently(q) == q \in DOMAIN tombstones /\ now < tombstones[q] + Cooldown

\* create_queue_with_tags_at that succeeds.
CreateQueue(q, d, keys) ==
    /\ ~DeletedRecently(q)
    /\ q \notin queues
    /\ PolicyAllowed(q, d, queues \cup {q})
    /\ Cardinality(keys) <= MaxTags
    /\ queues' = queues \cup {q}
    /\ tombstones' = Without(tombstones, {q})
    /\ policies' = PolicyWritten(q, d)
    /\ tags' = tags \cup ({q} \X keys)
    /\ UNCHANGED <<now, messages, nextSequence, origins, attempts>>

\* Mutant: the policies that send to the queue are left in place.
DetachedPoliciesOf(q) == Without(policies, {q})

\* delete_queue: the policies from and to the queue go.
Detached(q) ==
    Without(policies, {q} \cup {p \in DOMAIN policies : policies[p] = q})

\* Mutant: stored answers that name the queue stay valid.
OriginAttemptsKept(q) == attempts

\* delete_queue: a stored answer that names the queue as the source of a dead
\* letter is no longer what a receive would answer.
OriginAttempts(q) ==
    Invalidated(attempts,
        {s \in DOMAIN messages : OriginOf(s) = q /\ messages[s].receives > 0})

\* delete_queue, with what its DELETE FROM queues cascades to.
DeleteQueue(q) ==
    /\ q \in queues
    /\ queues' = queues \ {q}
    /\ tombstones' = With(tombstones, q, now)
    /\ policies' = Detached(q)
    /\ tags' = {t \in tags : t[1] # q}
    /\ messages' = Without(messages, RowsOf(q))
    /\ origins' = Without(origins, RowsOf(q) \cup {s \in DOMAIN origins : origins[s] = q})
    /\ attempts' = {a \in Invalidated(OriginAttempts(q), RowsOf(q)) : a.queue # q}
    /\ UNCHANGED <<now, nextSequence>>

\* set_redrive_policy, or set_queue_attributes with a RedrivePolicy.
SetRedrivePolicy(q, d) ==
    /\ q \in queues
    /\ PolicyAllowed(q, d, queues)
    /\ policies' = PolicyWritten(q, d)
    /\ UNCHANGED <<now, queues, tombstones, rows>>

\* tag_queue writes first and counts then; too many roll it back.
TagQueue(q, keys) ==
    LET written == tags \cup ({q} \X keys)
    IN  /\ q \in queues
        /\ keys # {}
        /\ Cardinality({t \in written : t[1] = q}) <= MaxTags
        /\ tags' = written
        /\ UNCHANGED <<now, queues, tombstones, policies, messages, nextSequence,
                       origins, attempts>>

UntagQueue(q, keys) ==
    /\ q \in queues
    /\ keys # {}
    /\ tags' = tags \ ({q} \X keys)
    /\ UNCHANGED <<now, queues, tombstones, policies, messages, nextSequence,
                   origins, attempts>>
-----------------------------------------------------------------------------
(* Messages *)

Send(q) ==
    /\ q \in queues
    /\ nextSequence <= MaxSequence
    /\ messages' = With(messages, nextSequence, [queue |-> q, receives |-> 0])
    /\ nextSequence' = nextSequence + 1
    /\ UNCHANGED <<now, queues, tombstones, policies, tags, origins, attempts>>

\* receive_page hands out the rows and stores the answer under the attempt id.
Receive(q, taken, id) ==
    /\ q \in queues
    /\ taken # {} /\ taken \subseteq RowsOf(q)
    /\ \A s \in taken : messages[s].receives < MaxReceives
    /\ id # NoAttempt => q \in Fifo /\ ~ \E a \in attempts : a.queue = q /\ a.id = id
    /\ messages' = [s \in DOMAIN messages |->
                      IF s \in taken THEN [messages[s] EXCEPT !.receives = @ + 1]
                                     ELSE messages[s]]
    /\ attempts' = Invalidated(attempts, taken) \cup
         (IF id = NoAttempt THEN {}
          ELSE {[queue |-> q, id |-> id, valid |-> TRUE,
                 members |-> {<<s, messages[s].receives + 1, OriginOf(s)>> : s \in taken}]})
    /\ UNCHANGED <<now, queues, tombstones, policies, tags, nextSequence, origins>>

\* move_message: DELETE and INSERT under a new sequence number.
Move(s, q, origin) ==
    /\ nextSequence <= MaxSequence
    /\ messages' = With(Without(messages, {s}), nextSequence, [queue |-> q, receives |-> 0])
    /\ origins' = IF origin = NoQueue THEN Without(origins, {s})
                  ELSE With(Without(origins, {s}), nextSequence, origin)
    /\ attempts' = Invalidated(attempts, {s})
    /\ nextSequence' = nextSequence + 1
    /\ UNCHANGED <<now, queues, tombstones, policies, tags>>

\* redrive_candidate: the policy of the queue sends a row to its DLQ.
DeadLetter(s) ==
    /\ messages[s].receives > 0
    /\ PolicyOf(messages[s].queue) # NoQueue
    /\ Move(s, PolicyOf(messages[s].queue), messages[s].queue)

\* redrive_dead_letters: the row goes back to where it came from.
Redrive(s) ==
    /\ OriginOf(s) # NoQueue
    /\ OriginOf(s) \in queues
    /\ OriginOf(s) # messages[s].queue
    /\ Move(s, OriginOf(s), NoQueue)

\* delete, and the sweep of expired messages.
DeleteMessage(s) ==
    /\ messages' = Without(messages, {s})
    /\ origins' = Without(origins, {s})
    /\ attempts' = Invalidated(attempts, {s})
    /\ UNCHANGED <<now, queues, tombstones, policies, tags, nextSequence>>

\* purge_queue; its cooldown is in QueueStore.
PurgeQueue(q) ==
    /\ q \in queues
    /\ messages' = Without(messages, RowsOf(q))
    /\ origins' = Without(origins, RowsOf(q))
    /\ attempts' = {IF a.queue = q THEN [a EXCEPT !.valid = FALSE] ELSE a : a \in attempts}
    /\ UNCHANGED <<now, queues, tombstones, policies, tags, nextSequence>>
-----------------------------------------------------------------------------
(* Listings: list_queues, and ListDeadLetterSourceQueues over HTTP *)

Listed(of, scope) ==
    IF of = "queues" THEN queues \cap scope
                     ELSE {q \in DOMAIN policies : policies[q] = scope}

StartListing(of, scope) ==
    /\ client = Idle
    /\ client' = Listing(of, scope)
    /\ UNCHANGED <<now, tables>>

\* The cursor is the last name answered; a page has the names behind it.
After(set, found) == {n \in set : found = <<>> \/ n > Last(found)}

\* How many names of the set do not come after n.
Rank(set, n) == Cardinality({m \in set : m <= n})

\* The first max names of a set, in order (ORDER BY, LIMIT).
FirstOf(set, max) ==
    LET length == IF Cardinality(set) < max THEN Cardinality(set) ELSE max
    IN  [k \in 1 .. length |-> CHOOSE n \in set : Rank(set, n) = k]

\* Mutant: the page itself is counted, not what it was cut from.
MoreInPage(rest, limit) == Len(FirstOf(rest, limit)) > limit

\* has_more: limit + 1 rows are read to see whether a page follows.
More(rest, limit) == Cardinality(rest) > limit

PageLimit(maximum) == IF maximum = NoMaximum THEN DefaultPageSize ELSE maximum

\* Only a page with MaxResults names a cursor: one without is cut off.
PageOutcome(rest, maximum) ==
    IF ~More(rest, PageLimit(maximum)) THEN "listed"
    ELSE IF maximum = NoMaximum THEN "cut" ELSE "listing"

NextPage(maximum) ==
    LET rest == After(Listed(client.of, client.scope), client.found)
    IN  /\ client.kind = "listing"
        /\ client.of = "sources" => client.scope \in queues
        /\ client' = [client EXCEPT
              !.kind = PageOutcome(rest, maximum),
              !.found = @ \o FirstOf(rest, PageLimit(maximum))]
        /\ UNCHANGED <<now, tables>>

\* The dead-letter queue is gone: NonExistentQueue.
ListingFails ==
    /\ client.kind = "listing" /\ client.of = "sources"
    /\ client.scope \notin queues
    /\ client' = Idle
    /\ UNCHANGED <<now, tables>>
-----------------------------------------------------------------------------
(* A long poll resolves the name of its queue in every page *)

StartPoll(q) ==
    /\ client = Idle
    /\ q \in queues
    /\ now + PollTime <= MaxTime
    /\ client' = Polling(q)
    /\ UNCHANGED <<now, tables>>

PollAnswers ==
    /\ client.kind = "poll"
    /\ \E s \in RowsOf(client.queue) : Receive(client.queue, {s}, NoAttempt)
    /\ client' = Idle

\* The queue is gone, or the last page found nothing.
PollEnds ==
    /\ client.kind = "poll"
    /\ client.queue \notin queues \/ now >= client.deadline
    /\ client' = Idle
    /\ UNCHANGED <<now, tables>>
-----------------------------------------------------------------------------
\* The client has its answer; or the server dies, and the tables survive.
Forget ==
    /\ client # Idle
    /\ client' = Idle
    /\ UNCHANGED <<now, tables>>

\* A page whose deadline has come starts before the clock moves on: requests
\* wait for the mutex less than the 40 seconds by which Cooldown exceeds the
\* longest poll.
Tick ==
    /\ now < MaxTime
    /\ client.kind = "poll" => now < client.deadline
    /\ now' = now + 1
    /\ UNCHANGED <<tables, client>>

Create ==
    \E q \in Name :
        \E d \in (IF q \in Sources THEN Name \cup {NoQueue} ELSE {NoQueue}) :
            \E keys \in SUBSET Tag : CreateQueue(q, d, keys)

Manage ==
    \/ \E q \in Name : DeleteQueue(q)
    \/ \E q \in Sources, d \in Name \cup {NoQueue} : SetRedrivePolicy(q, d)
    \/ \E q \in Name, keys \in SUBSET Tag : TagQueue(q, keys) \/ UntagQueue(q, keys)

UseMessages ==
    \/ \E q \in Sources : Send(q)
    \/ \E q \in Name, id \in AttemptId \cup {NoAttempt} :
            \E taken \in SUBSET RowsOf(q) : Receive(q, taken, id)
    \/ \E s \in DOMAIN messages : DeadLetter(s) \/ Redrive(s) \/ DeleteMessage(s)
    \/ \E q \in Name : PurgeQueue(q)

List ==
    \/ \E scope \in PrefixSets : StartListing("queues", scope)
    \/ \E dlq \in queues : StartListing("sources", dlq)
    \/ \E maximum \in PageSizes \cup {NoMaximum} : NextPage(maximum)
    \/ ListingFails

Next ==
    \/ (Create \/ Manage \/ UseMessages) /\ UNCHANGED client
    \/ List
    \/ (\E q \in Name : StartPoll(q)) \/ PollAnswers \/ PollEnds
    \/ Forget
    \/ Tick

Spec == Init /\ [][Next]_vars
=============================================================================
