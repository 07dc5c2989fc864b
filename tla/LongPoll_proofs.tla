-------------------------- MODULE LongPoll_proofs --------------------------
(***************************************************************************)
(* Long polls run on the message store of QueueStore: every theorem about  *)
(* that store holds of a server with long polls, and no delivery of a page *)
(* is lost between the store and the answer.                               *)
(***************************************************************************)
EXTENDS LongPoll, QueueStoreSafety_proofs

PollInv == TypeOK /\ PollTypeOK

(* A request that is not absent carries what a client may ask for.         *)
LEMMA RequestType ==
    ASSUME PollTypeOK, NEW c \in Poller, poll[c].stage # "none"
    PROVE  poll[c] \in Poll /\ poll[c].request \in Request
BY DEF PollTypeOK, NoPoll, Poll

(* Only one request can be in its page, and only in a transaction.         *)
LEMMA IdleNobodyPages ==
    ASSUME PollTypeOK, tx = Idle, NEW c \in Poller
    PROVE  ~In(c, {"paging"})
BY DEF PollTypeOK, Idle

(* The start of a page is a step of the store or leaves it alone.          *)
LEMMA StartPageStep ==
    ASSUME PollTypeOK, NEW c \in Poller, StartPage(c)
    PROVE  [Next]_vars
<1>1. poll[c].request \in Request
  BY RequestType DEF StartPage, In
<1>2. DEFINE r == poll[c].request
<1>3. /\ r.queue \in Queue /\ r.max \in BatchSizes /\ r.option \in Visibilities
      /\ r.attempt \in AttemptId \cup {NoAttempt} /\ LastPage(c) \in BOOLEAN
  BY <1>1 DEF Request, LastPage
<1>4. CASE BeginReceive(r.queue, r.max, r.option, r.attempt, LastPage(c))
  BY <1>3, <1>4 DEF StartReceive, Operation, Next
<1>5. CASE Repeat(c)
  BY <1>3, <1>5 DEF Repeat, StartReceive, Operation, Next
<1>6. CASE ReceiveOverLimit(r.queue)
  BY <1>3, <1>6 DEF Operation, Next
<1>7. QED
  BY <1>4, <1>5, <1>6 DEF StartPage

(* So is every other step.                                                 *)
LEMMA PollStepIsStep ==
    ASSUME PollTypeOK, [PollNext]_pollVars
    PROVE  [Next]_vars
<1>1. ASSUME NEW c \in Poller, PollStep(c)
      PROVE  [Next]_vars
  <2>1. CASE RunPage(c)
    BY <2>1 DEF RunPage, EndPage, RunReceive, Operation, Next
  <2>2. CASE FailPage(c)
    BY <2>2 DEF FailPage, Operation, Next
  <2>3. QED
    BY <1>1, <2>1, <2>2, StartPageStep DEF PollStep, Deny, GoOn, WakeUp, Disconnect, Done
<1>2. QED
  BY <1>1 DEF PollNext, Arrive, Restart, Operation, Next, pollVars
-----------------------------------------------------------------------------
(* Types of the requests.                                                  *)

(* A request that goes on stays a request.                                 *)
LEMMA EnterType ==
    ASSUME poll \in [Poller -> Poll \cup {NoPoll}], NEW c \in Poller,
           poll[c].stage # "none", NEW stage \in Waiting \cup Succeeded \cup {"failed"},
           Enter(c, stage)
    PROVE  /\ poll' \in [Poller -> Poll \cup {NoPoll}]
           /\ poll'[c].stage = stage /\ poll'[c].request = poll[c].request
           /\ \A d \in Poller \ {c} : poll'[d] = poll[d]
<1>1. poll[c] \in Poll
  BY DEF NoPoll
<1>2. [poll[c] EXCEPT !.stage = stage] \in Poll
  BY <1>1 DEF Poll
<1>3. QED
  BY <1>1, <1>2 DEF Enter, Poll

(* So does a request that is answered.                                     *)
LEMMA AnswerType ==
    ASSUME poll \in [Poller -> Poll \cup {NoPoll}], NEW c \in Poller,
           poll[c].stage # "none", NEW outcome \in Succeeded,
           NEW handles \in SUBSET (Nat \X Nat), NEW t \in Nat,
           Answer(c, outcome, handles, t)
    PROVE  /\ poll' \in [Poller -> Poll \cup {NoPoll}]
           /\ poll'[c].stage = outcome /\ poll'[c].handles = handles
           /\ \A d \in Poller \ {c} : poll'[d] = poll[d]
<1>1. poll[c] \in Poll
  BY DEF NoPoll
<1>2. [poll[c] EXCEPT !.stage = outcome, !.handles = handles, !.time = t] \in Poll
  BY <1>1 DEF Poll
<1>3. QED
  BY <1>1, <1>2 DEF Answer, Poll

(* While no transaction runs a step cannot disturb a page, as nobody is in *)
(* one.                                                                    *)
LEMMA NoPageType ==
    ASSUME poll' \in [Poller -> Poll \cup {NoPoll}],
           \A d \in Poller : poll'[d].stage # "paging"
    PROVE  PollTypeOK'
BY DEF PollTypeOK, In

(* The step of a request outside its page, beside the page of another.     *)
LEMMA BesideType ==
    ASSUME PollTypeOK, NEW c \in Poller, UNCHANGED tx,
           poll' \in [Poller -> Poll \cup {NoPoll}], poll'[c].stage # "paging",
           \A d \in Poller \ {c} : poll'[d] = poll[d]
    PROVE  PollTypeOK'
BY DEF PollTypeOK, In

(* The start of a page.                                                    *)
LEMMA StartPageType ==
    ASSUME PollInv, QueueStoreAssumption, NEW c \in Poller, StartPage(c)
    PROVE  PollTypeOK'
<1>1. /\ poll \in [Poller -> Poll \cup {NoPoll}] /\ poll[c].stage = "ready"
      /\ tx = Idle /\ now \in Nat
      /\ \A d \in Poller : poll[d].stage # "paging"
  BY IdleNobodyPages DEF PollInv, PollTypeOK, StartPage, In, TypeOK
<1>2. poll[c].request \in Request
  BY <1>1, RequestType DEF PollInv
<1>3. DEFINE r == poll[c].request
<1>4. CASE BeginReceive(r.queue, r.max, r.option, r.attempt, LastPage(c)) /\ Enter(c, "paging")
  <2>1. /\ poll' \in [Poller -> Poll \cup {NoPoll}]
        /\ poll'[c].request = poll[c].request
        /\ \A d \in Poller \ {c} : poll'[d] = poll[d]
    BY <1>1, <1>4, EnterType DEF Waiting
  <2>2. tx'.kind = "receive" /\ tx'.queue = r.queue /\ tx'.attempt = r.attempt
    BY <1>4 DEF BeginReceive
  <2>3. QED
    BY <1>1, <2>1, <2>2 DEF PollTypeOK, In
<1>5. CASE Repeat(c)
  <2>1. PICK a \in Known(r.queue, r.attempt) : Answer(c, "repeated", a.members, now)
    BY <1>5 DEF Repeat
  <2>2. a \in Attempt
    <3>1. AttemptsFor(SweptQueue(r.queue, now), r.queue, now) \subseteq Attempt
      BY AttemptsForType DEF PollInv, TypeOK
    <3>2. QED
      BY <3>1 DEF Known
  <2>3. a.members \in SUBSET (Nat \X Nat)
    BY <2>2 DEF Attempt
  <2>4. QED
    BY <1>1, <2>1, <2>3, AnswerType, NoPageType DEF Succeeded
<1>6. CASE Enter(c, "failed") \/ OverLimit(c)
  <2>1. Enter(c, "failed") \/ Enter(c, "full")
    BY <1>6 DEF OverLimit
  <2>2. QED
    BY <1>1, <2>1, EnterType, NoPageType DEF Waiting
<1>7. QED
  BY <1>4, <1>5, <1>6 DEF StartPage

(* The page itself: only its commit changes the request.                   *)
LEMMA RunPageType ==
    ASSUME PollInv, NEW c \in Poller, RunPage(c)
    PROVE  PollTypeOK'
<1>1. /\ poll \in [Poller -> Poll \cup {NoPoll}] /\ poll[c].stage = "paging"
      /\ tx \in ReceiveTx /\ tx.kind = "receive" /\ tx.received \subseteq DOMAIN work
      /\ IsTable(work, workNext)
      /\ \A d \in Poller \ {c} : poll[d].stage # "paging"
  BY TxKinds DEF PollInv, PollTypeOK, RunPage, EndPage, In, TypeOK, Idle
<1>2. CASE UNCHANGED poll /\ \E s \in DOMAIN work : DeliverNext(s) \/ DeadLetterNext(s)
  <2>1. tx'.kind = tx.kind /\ tx'.queue = tx.queue /\ tx'.attempt = tx.attempt
    BY <1>1, <1>2 DEF DeliverNext, DeadLetterNext, ReceiveTx
  <2>2. QED
    BY <1>1, <1>2, <2>1 DEF PollInv, PollTypeOK, In
<1>3. CASE EndPage(c)
  <2>1. {work[s].handle : s \in tx.received} \in SUBSET (Nat \X Nat) /\ tx.at \in Nat
    BY <1>1 DEF IsTable, Row, ReceiveTx
  <2>2. CASE Answer(c, "answered", {work[s].handle : s \in tx.received}, tx.at)
    BY <1>1, <2>1, <2>2, AnswerType, NoPageType DEF Succeeded
  <2>3. CASE Enter(c, "empty")
    BY <1>1, <2>3, EnterType, NoPageType DEF Waiting
  <2>4. QED
    BY <1>3, <2>2, <2>3 DEF EndPage
<1>4. QED
  BY <1>2, <1>3 DEF RunPage

(* The steps between pages and the end of a request.                       *)
LEMMA BetweenType ==
    ASSUME PollInv, LongPollAssumption, NEW c \in Poller,
           GoOn(c) \/ WakeUp(c) \/ Deny(c) \/ Disconnect(c) \/ Done(c)
    PROVE  PollTypeOK'
<1>1. /\ poll \in [Poller -> Poll \cup {NoPoll}]
      /\ PollTypeOK /\ now \in Nat
  BY DEF PollInv, PollTypeOK, TypeOK
<1>2. UNCHANGED tx
  BY DEF GoOn, WakeUp, Deny, Disconnect, Done, vars
<1>3. CASE poll' = [poll EXCEPT ![c] = NoPoll]
  BY <1>1, <1>2, <1>3, BesideType DEF NoPoll
<1>4. CASE \E stage \in {"ready", "empty", "failed"} : poll[c].stage # "none" /\ Enter(c, stage)
  BY <1>1, <1>2, <1>4, EnterType, BesideType DEF Waiting
<1>5. CASE GoOn(c)
  <2>1. poll[c].stage # "none" /\ poll[c] \in Poll
    BY <1>1, <1>5 DEF GoOn, In, NoPoll
  <2>2. CASE Answer(c, "gaveUp", {}, now)
    BY <1>1, <1>2, <2>1, <2>2, AnswerType, BesideType DEF Succeeded
  <2>3. CASE poll' = [poll EXCEPT ![c].stage = "asleep",
                                  ![c].time = Min2(poll[c].deadline, now + PollInterval)]
    <3>1. Min2(poll[c].deadline, now + PollInterval) \in Nat
      BY <1>1, <2>1, LongPollAssumption DEF LongPollAssumption, Min2, Poll
    <3>2. [poll[c] EXCEPT !.stage = "asleep",
                          !.time = Min2(poll[c].deadline, now + PollInterval)] \in Poll
      BY <2>1, <3>1 DEF Poll, Waiting
    <3>3. /\ poll' \in [Poller -> Poll \cup {NoPoll}]
          /\ poll'[c].stage = "asleep"
          /\ \A d \in Poller \ {c} : poll'[d] = poll[d]
      BY <1>1, <2>1, <2>3, <3>2 DEF Poll
    <3>4. QED
      BY <1>1, <1>2, <3>3, BesideType
  <2>4. QED
    BY <1>4, <1>5, <2>1, <2>2, <2>3 DEF GoOn
<1>6. QED
  BY <1>3, <1>4, <1>5 DEF WakeUp, Deny, Disconnect, Done, In

(* PollTypeOK is inductive, given the types of the store.                  *)
LEMMA PollTypeStep ==
    ASSUME PollInv, QueueStoreAssumption, LongPollAssumption, [PollNext]_pollVars
    PROVE  PollTypeOK'
<1>1. /\ poll \in [Poller -> Poll \cup {NoPoll}]
      /\ PollTypeOK /\ now \in Nat
  BY DEF PollInv, PollTypeOK, TypeOK
<1>2. ASSUME NEW c \in Poller, NEW r \in Request, Arrive(c, r)
      PROVE  PollTypeOK'
  <2>1. UNCHANGED tx /\ now + r.wait \in Nat
    <3>1. r.wait \in Nat
      BY LongPollAssumption DEF Request, LongPollAssumption
    <3>2. QED
      BY <1>1, <1>2, <3>1 DEF Arrive, vars
  <2>2. [stage |-> "ready", request |-> r, deadline |-> now + r.wait,
         time |-> now, handles |-> {}] \in Poll
    BY <1>1, <2>1 DEF Poll, Waiting
  <2>3. /\ poll' \in [Poller -> Poll \cup {NoPoll}]
        /\ poll'[c].stage = "ready"
        /\ \A d \in Poller \ {c} : poll'[d] = poll[d]
    BY <1>1, <1>2, <2>2 DEF Arrive
  <2>4. QED
    BY <1>1, <2>1, <2>3, BesideType
<1>3. ASSUME NEW c \in Poller, FailPage(c)
      PROVE  PollTypeOK'
  <2>1. /\ poll[c].stage = "paging" /\ Enter(c, "failed")
        /\ \A d \in Poller \ {c} : poll[d].stage # "paging"
    BY <1>1, <1>3 DEF FailPage, In, PollTypeOK
  <2>2. QED
    BY <1>1, <2>1, EnterType, NoPageType
<1>4. CASE Restart
  BY <1>4, NoPageType DEF Restart, NoPoll
<1>5. CASE (Send \/ Manage) /\ UNCHANGED poll
  <2>1. tx = Idle
    BY <1>5 DEF Send, SendTo, SendStandard, SendFifo, SendDuplicate, Manage, Delete,
       ChangeVisibility, SetQueueAttributes, PurgeQueue
  <2>2. QED
    BY <1>1, <1>5, <2>1, IdleNobodyPages, NoPageType DEF In
<1>6. CASE (Tick /\ UNCHANGED poll) \/ UNCHANGED pollVars
  BY <1>1, <1>6 DEF Tick, txVars, pollVars, vars, PollTypeOK, In
<1>7. QED
  BY <1>2, <1>3, <1>4, <1>5, <1>6, StartPageType, RunPageType, BetweenType
     DEF PollNext, PollStep

(* The invariant behind the theorems about polls: types of the store and   *)
(* of the requests, and one owner for a running receive.                   *)
LEMMA PollInvariant == PollSafetySpec => []PollInv
<1>1. PollInit => PollInv
  <2>1. ASSUME Init PROVE TypeOK
    BY <2>1, EmptyIsTable, QueueStoreAssumption
       DEF Init, TypeOK, Idle, Never, QueueStoreAssumption
  <2>2. QED
    BY <2>1 DEF PollInit, PollInv, PollTypeOK, In, NoPoll
<1>2. PollInv /\ [PollNext]_pollVars => PollInv'
  BY PollTypeStep, PollStepIsStep, TypeStep, QueueStoreAssumption, LongPollAssumption
     DEF PollInv
<1>3. QED
  BY <1>1, <1>2, PTL DEF PollSafetySpec

(* A running receive is the page of exactly one request, and every request *)
(* has its type (poll_receive and lock_lqs).                               *)
THEOREM PollsTyped == PollSafetySpec => []PollTypeOK
BY PollInvariant, PTL DEF PollInv

(* Long polls do to the store only what QueueStore allows, so its theorems *)
(* hold of a server with long polls: receive_page is all that poll_receive *)
(* calls.                                                                  *)
THEOREM PollsRefineStore == PollSafetySpec => Spec
<1>1. PollInit => Init
  BY DEF PollInit
<1>2. PollInv /\ [PollNext]_pollVars => [Next]_vars
  BY PollStepIsStep DEF PollInv
<1>3. QED
  BY <1>1, <1>2, PollInvariant, PTL DEF PollSafetySpec, Spec
-----------------------------------------------------------------------------
(* No delivery is swallowed.                                               *)

(* Only the end of a page commits a receive.                               *)
LEMMA OnlyEndPageCommits ==
    ASSUME PollInv, TransactionInv, [PollNext]_pollVars, CommitReceive, Delivered # {}
    PROVE  \E c \in Poller : EndPage(c)
<1>1. tx # Idle /\ tx.kind = "receive" /\ messages' # messages
  BY DEF CommitReceive, Idle, Delivered
<1>2. \A c \in Poller : ~StartPage(c) /\ ~Deny(c)
  BY <1>1 DEF StartPage, Deny
<1>3. \A c \in Poller : /\ ~FailPage(c) /\ ~GoOn(c) /\ ~WakeUp(c) /\ ~Disconnect(c) /\ ~Done(c)
                        /\ \A r \in Request : ~Arrive(c, r)
  BY <1>1 DEF FailPage, Rollback, GoOn, WakeUp, Disconnect, Done, Arrive, vars, store
<1>4. ~Restart /\ ~Tick /\ ~UNCHANGED pollVars
  BY <1>1 DEF Restart, Rollback, Tick, pollVars, vars, store
<1>5. ~(Send \/ Manage)
  BY <1>1 DEF Send, SendTo, SendStandard, SendFifo, SendDuplicate, Manage, Delete,
     ChangeVisibility, SetQueueAttributes, PurgeQueue
<1>6. \A s \in DOMAIN work : ~DeliverNext(s) /\ ~DeadLetterNext(s)
  BY <1>1 DEF DeliverNext, DeadLetterNext, store
<1>7. QED
  BY <1>2, <1>3, <1>4, <1>5, <1>6 DEF PollNext, PollStep, RunPage

(* Whatever a page leases is answered to the request that leased it: for   *)
(* any number of clients, batches and waiting times (receive_page returns  *)
(* `complete' whenever it received something).                             *)
THEOREM EveryDeliveryAnswered == PollSafetySpec => NothingSwallowed
<1>1. ASSUME PollInv, TransactionInv, MovesLeaveQueue, [PollNext]_pollVars,
             Delivered # {}
      PROVE  \E c \in Poller : Answers(c, {messages'[s].handle : s \in Delivered})
  <2>1. CommitReceive
    BY <1>1, PollStepIsStep, OnlyReceiveDelivers, NothingDelivered, QueueStoreAssumption
       DEF PollInv
  <2>2. PICK c \in Poller : EndPage(c)
    BY <1>1, <2>1, OnlyEndPageCommits
  <2>3. Delivered = tx.received /\ messages' = work
    BY <1>1, <2>1, CommitDeliversAll DEF CommitReceive
  <2>4. Answer(c, "answered", {messages'[s].handle : s \in Delivered}, tx.at)
    BY <1>1, <2>2, <2>3 DEF EndPage, Complete
  <2>5. poll \in [Poller -> Poll \cup {NoPoll}] /\ poll[c].stage = "paging"
    BY <1>1, <2>2 DEF PollInv, PollTypeOK, EndPage, In
  <2>6. poll[c] \in Poll
    BY <2>5 DEF NoPoll
  <2>7. /\ poll'[c].stage = "answered"
        /\ poll'[c].handles = {messages'[s].handle : s \in Delivered}
    BY <2>4, <2>5, <2>6 DEF Answer, Poll
  <2>8. QED
    BY <2>5, <2>7 DEF Answers, In, Waiting, Succeeded
<1>2. PollInv /\ TransactionInv /\ MovesLeaveQueue /\ [PollNext]_pollVars =>
        [Delivered # {} =>
            \E c \in Poller : Answers(c, {messages'[s].handle : s \in Delivered})]_pollVars
  BY <1>1
<1>3. QED
  BY <1>2, PollInvariant, PollsRefineStore, TransactionCorrect, MovesAlwaysLeave, PTL
     DEF PollSafetySpec, NothingSwallowed
-----------------------------------------------------------------------------
(* Stored answers.                                                         *)

\* What no trigger changes.
Alike(a, b) ==
    a.queue = b.queue /\ a.id = b.id /\ a.created = b.created /\ a.members = b.members

\* The table has every attempt that may still be repeated.
Survive(table) ==
    \A a \in attempts :
        \/ \E b \in table : Alike(a, b)
        \/ Clock >= a.created + AttemptWindow

(* The triggers remove nothing.                                            *)
LEMMA InvalidateFinds ==
    ASSUME NEW table \in SUBSET Attempt, NEW handles, NEW a \in table
    PROVE  \E b \in Invalidate(table, handles) : Alike(a, b)
<1> DEFINE b == IF a.members \cap handles = {} THEN a ELSE [a EXCEPT !.valid = FALSE]
<1>1. b \in Invalidate(table, handles)
  BY DEF Invalidate
<1>2. a \in Attempt
  OBVIOUS
<1>3. Alike(a, b)
  BY <1>2 DEF Alike, Attempt
<1> HIDE DEF b
<1>4. QED
  BY <1>1, <1>3

(* Nor does a purge.                                                       *)
LEMMA PurgeFinds ==
    ASSUME NEW table \in SUBSET Attempt, NEW q, NEW a \in table
    PROVE  \E b \in {IF x.queue = q THEN [x EXCEPT !.valid = FALSE] ELSE x : x \in table} :
                Alike(a, b)
<1> DEFINE b == IF a.queue = q THEN [a EXCEPT !.valid = FALSE] ELSE a
<1>1. b \in {IF x.queue = q THEN [x EXCEPT !.valid = FALSE] ELSE x : x \in table}
  OBVIOUS
<1>2. a \in Attempt
  OBVIOUS
<1>3. Alike(a, b)
  BY <1>2 DEF Alike, Attempt
<1> HIDE DEF b
<1>4. QED
  BY <1>1, <1>3

(* What a receive transaction removes can no longer be repeated.           *)
LEMMA AttemptsForSurvive ==
    ASSUME TypeOK, NEW table, NEW q, Clock \in Nat
    PROVE  Survive(AttemptsFor(table, q, Clock))
<1> SUFFICES ASSUME NEW a \in attempts, ~(Clock >= a.created + AttemptWindow)
             PROVE  \E b \in AttemptsFor(table, q, Clock) : Alike(a, b)
  BY DEF Survive
<1>1. attempts \in SUBSET Attempt /\ a \in Attempt
  BY DEF TypeOK
<1>2. PICK b \in Invalidate(attempts, LostHandles(messages, table)) : Alike(a, b)
  BY <1>1, InvalidateFinds
<1>3. a.created \in Nat /\ AttemptWindow \in Nat
  BY <1>1, QueueStoreAssumption DEF Attempt, QueueStoreAssumption
<1>4. b.created > Clock - AttemptWindow
  BY <1>2, <1>3 DEF Alike
<1>5. b \in AttemptsFor(table, q, Clock)
  BY <1>2, <1>4 DEF AttemptsFor, PruneAttempts
<1>6. QED
  BY <1>2, <1>5

(* No step of the store removes an attempt that may still be repeated, and *)
(* the reading that decides this does not go back.                         *)
LEMMA AttemptsSurvive ==
    ASSUME TypeOK, LimitInv, QueueStoreAssumption, [Next]_vars
    PROVE  Survive(attempts') /\ Clock \in Nat /\ Clock' \in Nat /\ Clock <= Clock'
<1>1. attempts \in SUBSET Attempt /\ now \in Nat /\ Clock \in Nat
      /\ (tx.kind = "receive" => tx \in ReceiveTx /\ tx.at <= now)
      /\ (tx = Idle => tx.kind # "receive")
  BY TxKinds DEF TypeOK, Clock, ReceiveTx, LimitInv, Idle
<1>2. ASSUME NEW handles, attempts' = Invalidate(attempts, handles)
      PROVE  Survive(attempts')
  BY <1>1, <1>2, InvalidateFinds DEF Survive
<1>3. ASSUME UNCHANGED attempts
      PROVE  Survive(attempts')
  BY <1>3 DEF Survive, Alike
<1>4. ASSUME UNCHANGED <<tx, now>>
      PROVE  Clock' = Clock
  BY <1>4 DEF Clock
<1>5. ASSUME tx' = Idle, UNCHANGED now
      PROVE  Clock' = now /\ Clock <= Clock'
  BY <1>1, <1>5 DEF Clock, Idle
<1>6. CASE Send
  <2>1. UNCHANGED <<tx, now>> /\ \E handles : attempts' = Invalidate(attempts, handles)
    BY <1>6 DEF Send, SendTo, SendStandard, SendFifo, SendDuplicate, Enqueue, txVars
  <2>2. QED
    BY <1>1, <1>2, <1>4, <2>1
<1>7. CASE StartReceive \/ \E q \in Queue : ReceiveOverLimit(q)
  <2>1. CASE \E q \in Queue, max \in BatchSizes, option \in Visibilities,
                a \in AttemptId \cup {NoAttempt}, cacheEmpty \in BOOLEAN :
                BeginReceive(q, max, option, a, cacheEmpty)
    <3>1. tx = Idle /\ UNCHANGED <<attempts, now>> /\ tx'.kind = "receive" /\ tx'.at = now
      BY <2>1 DEF BeginReceive, store
    <3>2. Clock' = now /\ Clock = now
      BY <1>1, <3>1 DEF Clock
    <3>3. QED
      BY <1>1, <1>3, <3>1, <3>2
  <2>2. CASE \/ \E q \in Queue : \E a, f : ReplayAttempt(q, a, f)
             \/ \E q \in Queue : ReceiveOverLimit(q)
    <3>1. /\ tx = Idle /\ UNCHANGED <<tx, now>>
          /\ \E table, q : attempts' = AttemptsFor(table, q, now)
      BY <2>2 DEF ReplayAttempt, ReceiveOverLimit, txVars
    <3>2. Clock = now
      BY <1>1, <3>1 DEF Clock
    <3>3. QED
      BY <1>1, <1>4, <3>1, <3>2, AttemptsForSurvive
  <2>3. ASSUME StartReceive
        PROVE  \/ \E q \in Queue, max \in BatchSizes, option \in Visibilities,
                     a \in AttemptId \cup {NoAttempt}, cacheEmpty \in BOOLEAN :
                     BeginReceive(q, max, option, a, cacheEmpty)
               \/ \E q \in Queue : \E a, f : ReplayAttempt(q, a, f)
    BY <2>3 DEF StartReceive
  <2>4. QED
    BY <1>7, <2>1, <2>2, <2>3
<1>8. CASE \E s \in DOMAIN work : DeliverNext(s) \/ DeadLetterNext(s) \/ RedriveNext(s)
  <2>1. UNCHANGED <<attempts, now>> /\ tx'.kind = tx.kind /\ tx'.at = tx.at
    <3>1. UNCHANGED <<attempts, now>> /\ tx \in ReceiveTx \cup RedriveTx
      BY <1>8, TxKinds DEF DeliverNext, DeadLetterNext, RedriveNext, store
    <3>2. QED
      BY <1>8, <3>1 DEF DeliverNext, DeadLetterNext, RedriveNext, ReceiveTx, RedriveTx
  <2>2. Clock' = Clock
    BY <2>1 DEF Clock
  <2>3. QED
    BY <1>1, <1>3, <2>1, <2>2
<1>9. CASE CommitReceive
  <2>1. /\ tx.kind = "receive" /\ tx' = Idle /\ UNCHANGED now
        /\ AttemptsFor(work, tx.queue, tx.at) \subseteq attempts'
    BY <1>9 DEF CommitReceive
  <2>2. Clock = tx.at
    BY <2>1 DEF Clock
  <2>3. Survive(AttemptsFor(work, tx.queue, tx.at))
    BY <1>1, <2>2, AttemptsForSurvive
  <2>4. Survive(attempts')
    BY <2>1, <2>3 DEF Survive
  <2>5. QED
    BY <1>1, <1>5, <2>1, <2>4
<1>10. CASE Rollback
  <2>1. tx' = Idle /\ UNCHANGED <<now, attempts>>
    BY <1>10 DEF Rollback, store
  <2>2. QED
    BY <1>1, <1>3, <1>5, <2>1
<1>11. CASE \E dlq, source \in Queue, max \in MoveSizes : BeginRedrive(dlq, source, max)
  <2>1. tx = Idle /\ UNCHANGED <<now, attempts>> /\ tx'.kind = "redrive"
    BY <1>11 DEF BeginRedrive, store
  <2>2. Clock' = Clock
    BY <1>1, <2>1 DEF Clock
  <2>3. QED
    BY <1>1, <1>3, <2>1, <2>2
<1>12. CASE CommitRedrive
  <2>1. /\ tx' = Idle /\ UNCHANGED now
        /\ \E handles : attempts' = Invalidate(attempts, handles)
    BY <1>12 DEF CommitRedrive
  <2>2. QED
    BY <1>1, <1>2, <1>5, <2>1
<1>13. CASE Manage
  <2>1. UNCHANGED <<tx, now>>
    BY <1>13 DEF Manage, Delete, ChangeVisibility, SetQueueAttributes, PurgeQueue, txVars
  <2>2. ASSUME \E handles : attempts' = Invalidate(attempts, handles)
        PROVE  Survive(attempts')
    BY <1>2, <2>2
  <2>3. ASSUME NEW q \in Queue, PurgeQueue(q)
        PROVE  Survive(attempts')
    <3> DEFINE less == Invalidate(attempts, LostHandles(messages, Remove(messages, RowsOf(messages, q))))
    <3>1. attempts' = {IF a.queue = q THEN [a EXCEPT !.valid = FALSE] ELSE a : a \in less}
      BY <2>3 DEF PurgeQueue
    <3>2. less \in SUBSET Attempt /\ \A a \in attempts : \E b \in less : Alike(a, b)
      BY <1>1, InvalidateType, InvalidateFinds
    <3> HIDE DEF less
    <3>3. \A b \in less : \E x \in attempts' : Alike(b, x)
      BY <3>1, <3>2, PurgeFinds
    <3>4. ASSUME NEW a \in attempts
          PROVE  \E x \in attempts' : Alike(a, x)
      BY <3>2, <3>3 DEF Alike
    <3>5. QED
      BY <3>4 DEF Survive
  <2>4. (\E handles : attempts' = Invalidate(attempts, handles)) \/ \E q \in Queue : PurgeQueue(q)
    <3>1. ASSUME NEW s, Delete(s) \/ \E timeout \in Timeouts : ChangeVisibility(s, timeout, now)
          PROVE  \E handles : attempts' = Invalidate(attempts, handles)
      BY <3>1 DEF Delete, ChangeVisibility
    <3>2. ASSUME NEW q, NEW c, SetQueueAttributes(q, c)
          PROVE  \E handles : attempts' = Invalidate(attempts, handles)
      BY <3>2 DEF SetQueueAttributes
    <3>3. QED
      BY <1>13, <3>1, <3>2, QueueStoreAssumption DEF Manage, QueueStoreAssumption
  <2>5. Survive(attempts')
    BY <2>2, <2>3, <2>4
  <2>6. QED
    BY <1>1, <1>4, <2>1, <2>5
<1>14. CASE Tick
  <2>1. UNCHANGED <<attempts, tx>> /\ now' = now + 1
    BY <1>14 DEF Tick, store, txVars
  <2>2. Clock' \in Nat /\ Clock <= Clock'
    BY <1>1, <2>1 DEF Clock, ReceiveTx
  <2>3. QED
    BY <1>1, <1>3, <2>1, <2>2
<1>15. CASE UNCHANGED vars
  BY <1>1, <1>3, <1>4, <1>15 DEF vars
<1>16. QED
  BY <1>6, <1>7, <1>8, <1>9, <1>10, <1>11, <1>12, <1>13, <1>14, <1>15
     DEF Next, Operation, RunReceive, Redrive

(* How the answers of requests come about: only these steps leave a        *)
(* request with a successful answer that it did not have.                  *)
LEMMA AnswerSteps ==
    ASSUME PollInv, [PollNext]_pollVars, NEW c \in Poller
    PROVE  \/ poll'[c] = poll[c]
           \/ poll'[c].stage \notin Succeeded
           \/ In(c, {"ready"}) /\ tx = Idle /\ Repeat(c)
           \/ EndPage(c) /\ Complete
           \/ /\ In(c, {"full"}) /\ now >= poll[c].deadline
              /\ Answer(c, "gaveUp", {}, now)
<1>1. poll \in [Poller -> Poll \cup {NoPoll}]
  BY DEF PollInv, PollTypeOK
<1>2. ASSUME NEW d \in Poller, NEW stage, stage \notin Succeeded, poll[d].stage # "none",
             Enter(d, stage)
      PROVE  poll'[c] = poll[c] \/ poll'[c].stage \notin Succeeded
  <2>1. poll[d] \in Poll
    BY <1>1, <1>2 DEF NoPoll
  <2>2. d = c => poll'[c].stage = stage
    BY <1>1, <1>2, <2>1 DEF Enter, Poll
  <2>3. d # c => poll'[c] = poll[c]
    BY <1>1, <1>2 DEF Enter
  <2>4. QED
    BY <1>2, <2>2, <2>3
<1>3. ASSUME NEW d \in Poller, NEW p, p.stage \notin Succeeded, poll' = [poll EXCEPT ![d] = p]
      PROVE  poll'[c] = poll[c] \/ poll'[c].stage \notin Succeeded
  BY <1>1, <1>3
<1>4. ASSUME NEW d \in Poller, NEW outcome, NEW handles, NEW t, Answer(d, outcome, handles, t),
             d # c
      PROVE  poll'[c] = poll[c]
  BY <1>1, <1>4 DEF Answer
<1>5. ASSUME NEW d \in Poller, StartPage(d)
      PROVE  \/ poll'[c] = poll[c] \/ poll'[c].stage \notin Succeeded
             \/ In(c, {"ready"}) /\ tx = Idle /\ Repeat(c)
  <2>1. poll[d].stage # "none" /\ In(d, {"ready"}) /\ tx = Idle
    BY <1>5 DEF StartPage, In
  <2>2. Repeat(d) \/ \E stage \in {"paging", "failed", "full"} : Enter(d, stage)
    BY <1>5 DEF StartPage, OverLimit
  <2>3. CASE Repeat(d)
    BY <1>4, <2>1, <2>3 DEF Repeat
  <2>4. CASE \E stage \in {"paging", "failed", "full"} : Enter(d, stage)
    BY <1>2, <2>1, <2>4 DEF Succeeded
  <2>5. QED
    BY <2>2, <2>3, <2>4
<1>6. ASSUME NEW d \in Poller, RunPage(d)
      PROVE  \/ poll'[c] = poll[c] \/ poll'[c].stage \notin Succeeded
             \/ EndPage(c) /\ Complete
  <2>1. CASE EndPage(d) /\ Complete
    BY <1>4, <2>1 DEF EndPage
  <2>2. CASE EndPage(d) /\ ~Complete
    <3>1. poll[d].stage # "none" /\ Enter(d, "empty")
      BY <2>2 DEF EndPage, In
    <3>2. QED
      BY <1>2, <3>1 DEF Succeeded
  <2>3. QED
    BY <1>6, <2>1, <2>2 DEF RunPage
<1>7. ASSUME NEW d \in Poller, GoOn(d)
      PROVE  \/ poll'[c] = poll[c] \/ poll'[c].stage \notin Succeeded
             \/ In(c, {"full"}) /\ now >= poll[c].deadline /\ Answer(c, "gaveUp", {}, now)
  <2>1. poll[d].stage # "none"
    BY <1>7 DEF GoOn, In
  <2>2. CASE In(d, {"full"}) /\ now >= poll[d].deadline /\ Answer(d, "gaveUp", {}, now)
    BY <1>4, <2>2
  <2>3. CASE Enter(d, "empty") \/ Enter(d, "ready")
    BY <1>2, <2>1, <2>3 DEF Succeeded
  <2>4. CASE poll' = [poll EXCEPT ![d].stage = "asleep",
                                  ![d].time = Min2(poll[d].deadline, now + PollInterval)]
    <3>1. poll[d] \in Poll
      BY <1>1, <2>1 DEF NoPoll
    <3>2. d = c => poll'[c].stage = "asleep"
      BY <1>1, <2>4, <3>1 DEF Poll
    <3>3. d # c => poll'[c] = poll[c]
      BY <1>1, <2>4
    <3>4. QED
      BY <3>2, <3>3 DEF Succeeded
  <2>5. QED
    BY <1>7, <2>2, <2>3, <2>4 DEF GoOn
<1>8. ASSUME NEW d \in Poller, Deny(d) \/ FailPage(d) \/ WakeUp(d)
      PROVE  poll'[c] = poll[c] \/ poll'[c].stage \notin Succeeded
  <2>1. poll[d].stage # "none" /\ (Enter(d, "failed") \/ Enter(d, "ready"))
    BY <1>8 DEF Deny, FailPage, WakeUp, In
  <2>2. QED
    BY <1>2, <2>1 DEF Succeeded
<1>9. ASSUME NEW d \in Poller, Disconnect(d) \/ Done(d) \/ \E r \in Request : Arrive(d, r)
      PROVE  poll'[c] = poll[c] \/ poll'[c].stage \notin Succeeded
  <2>1. \E p : p.stage \notin Succeeded /\ poll' = [poll EXCEPT ![d] = p]
    BY <1>9 DEF Disconnect, Done, Arrive, Succeeded, NoPoll
  <2>2. QED
    BY <1>3, <2>1
<1>10. CASE Restart
  BY <1>10 DEF Restart, NoPoll, Succeeded
<1>11. CASE UNCHANGED poll
  BY <1>11
<1>12. QED
  BY <1>5, <1>6, <1>7, <1>8, <1>9, <1>10, <1>11 DEF PollNext, PollStep, pollVars

(* What an answer leaves of the request.                                   *)
LEMMA AnswerFields ==
    ASSUME PollTypeOK, NEW c \in Poller, poll[c].stage # "none",
           NEW outcome, NEW handles, NEW t, Answer(c, outcome, handles, t)
    PROVE  /\ poll'[c].stage = outcome /\ poll'[c].handles = handles /\ poll'[c].time = t
           /\ poll'[c].request = poll[c].request /\ poll'[c].deadline = poll[c].deadline
           /\ \A d \in Poller \ {c} : poll'[d] = poll[d]
<1>1. poll \in [Poller -> Poll \cup {NoPoll}] /\ poll[c] \in Poll
  BY DEF PollTypeOK, NoPoll
<1>2. poll'[c] = [poll[c] EXCEPT !.stage = outcome, !.handles = handles, !.time = t]
  BY <1>1 DEF Answer, Poll
<1>3. QED
  BY <1>1, <1>2 DEF Answer, Poll

\* What is stored under the attempt id of the request and may be repeated is
\* what the request is answered.
AgreesWithStored(c) ==
    \A a \in attempts :
        /\ a.queue = poll[c].request.queue /\ a.id = poll[c].request.attempt
        /\ Clock < a.created + AttemptWindow
        => In(c, {"repeated"})' /\ a.members = poll'[c].handles

(* A repetition says what is stored, and stays stored.                     *)
LEMMA RepeatAgrees ==
    ASSUME PollInv, ConstraintsInv, NEW c \in Poller,
           In(c, {"ready"}), tx = Idle, Repeat(c)
    PROVE  /\ poll'[c].request = poll[c].request /\ poll'[c].time = Clock
           /\ In(c, {"repeated"})' /\ AgreesWithStored(c)
           /\ \E t \in Nat : StoredAt(c, t)'
<1> DEFINE q == poll[c].request.queue
           id == poll[c].request.attempt
           table == AttemptsFor(SweptQueue(q, now), q, now)
<1>1. PICK a \in Known(q, id) : Answer(c, "repeated", a.members, now)
  BY DEF Repeat
<1>2. /\ attempts' = table /\ UNCHANGED <<now, tx>> /\ now \in Nat
      /\ TypeOK /\ PollTypeOK /\ attempts \subseteq Attempt /\ NoTwins(attempts)
  BY ConstraintsParts DEF Repeat, ReplayAttempt, txVars, PollInv, TypeOK
<1>3. Clock = now /\ Clock' = now
  BY <1>2 DEF Clock, Idle
<1>4. a \in table /\ a.queue = q /\ a.id = id
  BY <1>1 DEF Known
<1> DEFINE Asked == /\ poll'[c].stage = "repeated" /\ poll'[c].handles = a.members
                    /\ poll'[c].time = now /\ poll'[c].request = poll[c].request
<1>5. Asked
  BY <1>1, <1>2, AnswerFields DEF In
<1>6. table \subseteq Attempt /\ NoTwins(table) /\ Survive(table)
  BY <1>2, <1>3, AttemptsForType, AttemptsForTwins, AttemptsForSurvive
<1>7. a.created \in Nat /\ now < a.created + AttemptWindow /\ AttemptWindow \in Nat
  <2>1. a.created > now - AttemptWindow
    BY <1>4 DEF AttemptsFor, PruneAttempts
  <2>2. a.created \in Nat /\ AttemptWindow \in Nat
    BY <1>4, <1>6, QueueStoreAssumption DEF Attempt, QueueStoreAssumption
  <2>3. QED
    BY <1>2, <2>1, <2>2
<1> HIDE DEF table
<1>8. ASSUME NEW e \in attempts, e.queue = q, e.id = id, Clock < e.created + AttemptWindow
      PROVE  e.members = a.members
  <2>1. e.created \in Nat
    BY <1>2 DEF Attempt
  <2>2. PICK b \in table : Alike(e, b)
    BY <1>3, <1>2, <1>6, <1>7, <1>8, <2>1 DEF Survive
  <2>3. b = a
    BY <1>4, <1>6, <1>8, <2>2 DEF Alike, NoTwins
  <2>4. QED
    BY <2>2, <2>3 DEF Alike
<1>9. AgreesWithStored(c)
  BY <1>5, <1>8 DEF AgreesWithStored, In
<1>10. StoredAt(c, a.created)'
  <2>1. \E b \in attempts' : /\ b.queue = q /\ b.id = id /\ b.created = a.created
                             /\ b.members = a.members
    BY <1>2, <1>4
  <2>2. QED
    BY <1>2, <1>3, <1>5, <1>7, <2>1 DEF StoredAt, In, Stored
<1>11. QED
  BY <1>3, <1>5, <1>7, <1>9, <1>10 DEF In

(* A page that answers stores its answer, where nothing was to be          *)
(* repeated.                                                               *)
LEMMA PageAgrees ==
    ASSUME PollInv, ConstraintsInv, LimitInv, NEW c \in Poller, EndPage(c), Complete,
           poll[c].request.attempt # NoAttempt
    PROVE  /\ poll'[c].request = poll[c].request /\ poll'[c].time = Clock
           /\ AgreesWithStored(c)
           /\ \E t \in Nat : StoredAt(c, t)'
<1> DEFINE handles == {work[s].handle : s \in tx.received}
<1>1. /\ TypeOK /\ PollTypeOK /\ In(c, {"paging"}) /\ CommitReceive
      /\ Answer(c, "answered", handles, tx.at)
  BY DEF PollInv, EndPage
<1>2. /\ tx.kind = "receive" /\ tx \in ReceiveTx /\ tx.at \in Nat /\ tx.at <= now
      /\ tx.queue = poll[c].request.queue /\ tx.attempt = poll[c].request.attempt
      /\ now \in Nat /\ now' = now /\ tx' = Idle /\ attempts \subseteq Attempt
  BY <1>1, TxKinds DEF PollTypeOK, ReceiveTx, LimitInv, CommitReceive, TypeOK
<1>3. Clock = tx.at /\ Clock' = now
  BY <1>2 DEF Clock, Idle
<1>4. /\ poll'[c].stage = "answered" /\ poll'[c].handles = handles
      /\ poll'[c].time = tx.at /\ poll'[c].request = poll[c].request
  BY <1>1, AnswerFields DEF In
<1>5. AttemptWindow \in Nat \ {0}
  BY QueueStoreAssumption DEF QueueStoreAssumption
<1>6. ASSUME NEW a \in attempts, a.queue = tx.queue, a.id = tx.attempt,
             tx.at < a.created + AttemptWindow
      PROVE  FALSE
  <2>1. a.created \in Nat
    BY <1>2 DEF Attempt
  <2>2. a \in PruneAttempts(attempts, tx.queue, tx.at)
    BY <1>2, <1>5, <1>6, <2>1 DEF PruneAttempts
  <2>3. QED
    BY <1>2, <1>6, <2>2 DEF ConstraintsInv, AttemptIsNew
<1>7. AgreesWithStored(c)
  BY <1>2, <1>3, <1>6 DEF AgreesWithStored
<1>8. \E a \in attempts' : /\ a.queue = tx.queue /\ a.id = tx.attempt
                           /\ a.created = tx.at /\ a.members = handles
  <2> DEFINE saved == [queue |-> tx.queue, id |-> tx.attempt, created |-> tx.at,
           fingerprint |-> tx.fingerprint, visibility |-> tx.visibility,
           members |-> handles, valid |-> TRUE]
  <2>1. SavedAttempt = {saved}
    BY <1>2 DEF SavedAttempt, Complete
  <2>2. saved \in attempts'
    BY <1>1, <2>1 DEF CommitReceive
  <2>3. /\ saved.queue = tx.queue /\ saved.id = tx.attempt /\ saved.created = tx.at
        /\ saved.members = handles
    OBVIOUS
  <2> HIDE DEF saved
  <2>4. QED
    BY <2>2, <2>3
<1> HIDE DEF handles
<1>9. \E t \in Nat : StoredAt(c, t)'
  <2>1. PICK t \in Nat : t = tx.at
    BY <1>2
  <2>2. StoredAt(c, t)'
    BY <1>2, <1>3, <1>4, <1>5, <1>8, <2>1 DEF StoredAt, In, Stored
  <2>3. QED
    BY <2>2
<1>10. QED
  BY <1>2, <1>3, <1>4, <1>7, <1>9

(* What a request was answered can still be looked up after any step.      *)
LEMMA AnswersStoredStep ==
    ASSUME PollInv, ConstraintsInv, LimitInv, AnswersStored, [PollNext]_pollVars
    PROVE  AnswersStored'
<1>1. TypeOK /\ [Next]_vars /\ AttemptWindow \in Nat
  BY PollStepIsStep, QueueStoreAssumption DEF PollInv, QueueStoreAssumption
<1>2. Survive(attempts') /\ Clock \in Nat /\ Clock' \in Nat /\ Clock <= Clock'
  BY <1>1, AttemptsSurvive, QueueStoreAssumption
<1>3. SUFFICES ASSUME NEW c \in Poller, In(c, {"answered", "repeated"})',
                      poll'[c].request.attempt # NoAttempt
               PROVE  \E t \in Nat : StoredAt(c, t)'
  BY DEF AnswersStored
<1>4. CASE poll'[c] = poll[c]
  <2>1. PICK t \in Nat : StoredAt(c, t)
    BY <1>3, <1>4 DEF AnswersStored, In
  <2>2. poll[c].time \in Nat
    BY <1>3, <1>4 DEF PollInv, PollTypeOK, In, NoPoll, Poll
  <2>3. ASSUME Clock' < t + AttemptWindow
        PROVE  \E b \in attempts' : /\ b.queue = poll[c].request.queue
                                    /\ b.id = poll[c].request.attempt
                                    /\ b.created = t /\ b.members = poll[c].handles
    <3>1. Clock < t + AttemptWindow
      BY <1>1, <1>2, <2>3
    <3>2. PICK a \in attempts : /\ a.queue = poll[c].request.queue
                                /\ a.id = poll[c].request.attempt
                                /\ a.created = t /\ a.members = poll[c].handles
      BY <2>1, <3>1 DEF StoredAt, Stored
    <3>3. PICK b \in attempts' : Alike(a, b)
      BY <1>1, <1>2, <3>1, <3>2 DEF Survive
    <3>4. QED
      BY <3>2, <3>3 DEF Alike
  <2>4. poll[c].time <= Clock'
    BY <1>2, <2>1, <2>2 DEF StoredAt
  <2>5. StoredAt(c, t)'
    BY <1>4, <2>1, <2>3, <2>4 DEF StoredAt, In, Stored
  <2>6. QED
    BY <2>5
<1>5. CASE In(c, {"ready"}) /\ tx = Idle /\ Repeat(c)
  BY <1>5, RepeatAgrees
<1>6. CASE EndPage(c) /\ Complete
  <2>1. poll'[c].request = poll[c].request
    BY <1>6, AnswerFields DEF EndPage, PollInv, In
  <2>2. QED
    BY <1>3, <1>6, <2>1, PageAgrees
<1>7. CASE In(c, {"full"}) /\ Answer(c, "gaveUp", {}, now)
  <2>1. poll'[c].stage = "gaveUp"
    BY <1>7, AnswerFields DEF PollInv, In
  <2>2. QED
    BY <1>3, <2>1 DEF In
<1>8. QED
  BY <1>3, <1>4, <1>5, <1>6, <1>7, AnswerSteps DEF In, Succeeded

(* A request has the answer it had, or gets one that agrees with what is   *)
(* stored while nothing happens to the others.                             *)
LEMMA NewAnswer ==
    ASSUME PollInv, ConstraintsInv, LimitInv, [PollNext]_pollVars, NEW c \in Poller,
           In(c, {"answered", "repeated"})', poll'[c].request.attempt # NoAttempt,
           poll'[c] # poll[c]
    PROVE  /\ poll'[c].request = poll[c].request /\ poll'[c].time = Clock
           /\ AgreesWithStored(c)
           /\ \A d \in Poller \ {c} : poll'[d] = poll[d]
<1>1. CASE In(c, {"ready"}) /\ tx = Idle /\ Repeat(c)
  <2>1. \A d \in Poller \ {c} : poll'[d] = poll[d]
    BY <1>1, AnswerFields DEF PollInv, Repeat, In
  <2>2. QED
    BY <1>1, <2>1, RepeatAgrees
<1>2. CASE EndPage(c) /\ Complete
  <2>1. poll'[c].request = poll[c].request /\ \A d \in Poller \ {c} : poll'[d] = poll[d]
    BY <1>2, AnswerFields DEF EndPage, PollInv, In
  <2>2. QED
    BY <1>2, <2>1, PageAgrees
<1>3. CASE In(c, {"full"}) /\ Answer(c, "gaveUp", {}, now)
  <2>1. poll'[c].stage = "gaveUp"
    BY <1>3, AnswerFields DEF PollInv, In
  <2>2. QED
    BY <2>1 DEF In
<1>4. QED
  BY <1>1, <1>2, <1>3, AnswerSteps DEF In, Succeeded

(* An answer agrees with the earlier answers under its attempt id.         *)
LEMMA RetriesStep ==
    ASSUME PollInv, ConstraintsInv, LimitInv, AnswersStored, RetriesAgree,
           [PollNext]_pollVars
    PROVE  RetriesAgree'
<1>1. /\ AttemptWindow \in Nat /\ Clock \in Nat
      /\ \A c \in Poller : poll[c].stage # "none" => poll[c].time \in Nat
  <2>1. Clock \in Nat
    BY AttemptsSurvive, PollStepIsStep, QueueStoreAssumption DEF PollInv
  <2>2. QED
    BY <2>1, QueueStoreAssumption
       DEF PollInv, PollTypeOK, NoPoll, Poll, QueueStoreAssumption
<1>2. SUFFICES ASSUME NEW c \in Poller, NEW d \in Poller, RetriedBy(c, d)',
                      ~In(d, {"gaveUp"})'
               PROVE  poll'[c].handles = poll'[d].handles
  BY DEF RetriesAgree
<1>3. /\ poll'[c].stage = "answered" /\ poll'[d].stage \in {"answered", "repeated"}
      /\ poll'[c].request.attempt # NoAttempt /\ poll'[d].request.attempt # NoAttempt
      /\ poll'[c].request.queue = poll'[d].request.queue
      /\ poll'[c].request.attempt = poll'[d].request.attempt
      /\ poll'[d].time \in poll'[c].time .. poll'[c].time + AttemptWindow - 1
  BY <1>2 DEF RetriedBy, In, Succeeded
<1>4. CASE c = d
  BY <1>4
<1>5. CASE poll'[c] = poll[c] /\ poll'[d] = poll[d]
  <2>1. RetriedBy(c, d) /\ ~In(d, {"gaveUp"})
    BY <1>3, <1>5 DEF RetriedBy, In, Succeeded
  <2>2. QED
    BY <1>5, <2>1 DEF RetriesAgree
<1>6. CASE poll'[c] = poll[c] /\ poll'[d] # poll[d]
  <2>1. /\ poll'[d].request = poll[d].request /\ poll'[d].time = Clock
        /\ AgreesWithStored(d)
    BY <1>3, <1>6, NewAnswer DEF In
  <2>2. PICK t \in Nat : StoredAt(c, t)
    BY <1>3, <1>6 DEF AnswersStored, In
  <2>3. t = poll[c].time /\ Clock < t + AttemptWindow
    <3>1. t = poll[c].time /\ poll[c].time \in Nat
      BY <1>1, <1>3, <1>6, <2>2 DEF StoredAt, In
    <3>2. QED
      BY <1>1, <1>3, <1>6, <2>1, <3>1
  <2>4. PICK a \in attempts : /\ a.queue = poll[c].request.queue
                              /\ a.id = poll[c].request.attempt
                              /\ a.created = t /\ a.members = poll[c].handles
    BY <2>2, <2>3 DEF StoredAt, Stored
  <2>5. a.members = poll'[d].handles
    BY <1>3, <1>6, <2>1, <2>3, <2>4 DEF AgreesWithStored
  <2>6. QED
    BY <1>6, <2>4, <2>5
<1>7. CASE poll'[c] # poll[c] /\ c # d
  <2>1. /\ poll'[c].request = poll[c].request /\ poll'[c].time = Clock
        /\ AgreesWithStored(c) /\ poll'[d] = poll[d]
    BY <1>3, <1>7, NewAnswer DEF In
  <2>2. PICK t \in Nat : StoredAt(d, t)
    BY <1>3, <2>1 DEF AnswersStored, In
  <2>3. Clock < t + AttemptWindow
    <3>1. /\ poll[d].time \in Nat /\ poll[d].time <= Clock
          /\ poll[d].time < t + AttemptWindow /\ poll[d].time >= Clock
      BY <1>1, <1>3, <2>1, <2>2 DEF StoredAt
    <3>2. QED
      BY <1>1, <3>1
  <2>4. PICK a \in attempts : /\ a.queue = poll[d].request.queue
                              /\ a.id = poll[d].request.attempt
                              /\ a.created = t /\ a.members = poll[d].handles
    BY <2>2, <2>3 DEF StoredAt, Stored
  <2>5. In(c, {"repeated"})'
    BY <1>3, <2>1, <2>3, <2>4 DEF AgreesWithStored
  <2>6. QED
    BY <1>3, <2>5 DEF In
<1>8. QED
  BY <1>4, <1>5, <1>6, <1>7

(* Requests under one attempt id are answered alike for the five minutes   *)
(* in which a retry can come, whatever the pages, sleeps and deadlines of  *)
(* any number of clients do meanwhile.                                     *)
THEOREM RetriesAnsweredAlike == PollSafetySpec => []RetriesAgree
<1>1. PollInit => AnswersStored /\ RetriesAgree
  BY DEF PollInit, AnswersStored, RetriesAgree, RetriedBy, In, NoPoll
<1>2. /\ PollInv /\ ConstraintsInv /\ LimitInv /\ AnswersStored /\ RetriesAgree
      /\ [PollNext]_pollVars
      => AnswersStored' /\ RetriesAgree'
  BY AnswersStoredStep, RetriesStep
<1>3. QED
  BY <1>1, <1>2, PollInvariant, PollsRefineStore, ConstraintsAlways, LimitAlways, PTL
     DEF PollSafetySpec
-----------------------------------------------------------------------------
(* Empty answers.                                                          *)

(* A page that runs on is disturbed by nothing but the clock.              *)
LEMMA PageRunsOn ==
    ASSUME PollInv, [PollNext]_pollVars, NEW c \in Poller, In(c, {"paging"}),
           poll'[c] = poll[c]
    PROVE  /\ now' \in {now, now + 1}
           /\ UNCHANGED tx \/ \E s \in DOMAIN work : DeliverNext(s) \/ DeadLetterNext(s)
<1>1. /\ tx # Idle /\ PollTypeOK /\ poll \in [Poller -> Poll \cup {NoPoll}]
      /\ \A d \in Poller : In(d, {"paging"}) => d = c
  BY DEF PollInv, PollTypeOK, Idle
<1>2. \A d \in Poller : ~StartPage(d) /\ ~Deny(d)
  BY <1>1 DEF StartPage, Deny
<1>3. ~(Send \/ Manage) /\ ~Restart
  <2>1. ~(Send \/ Manage)
    BY <1>1 DEF Send, SendTo, SendStandard, SendFifo, SendDuplicate, Manage,
       Delete, ChangeVisibility, SetQueueAttributes, PurgeQueue
  <2>2. ~Restart
    BY DEF Restart, In, NoPoll
  <2>3. QED
    BY <2>1, <2>2
<1>4. ASSUME NEW stage, Enter(c, stage) PROVE stage = "paging"
  <2>1. poll[c] \in Poll
    BY <1>1 DEF In, NoPoll
  <2>2. poll'[c].stage = stage
    BY <1>1, <1>4, <2>1 DEF Enter, Poll
  <2>3. QED
    BY <2>2 DEF In
<1>5. ASSUME NEW d \in Poller, FailPage(d) PROVE FALSE
  BY <1>1, <1>4, <1>5 DEF FailPage
<1>6. ASSUME NEW d \in Poller, EndPage(d) PROVE FALSE
  <2>1. d = c
    BY <1>1, <1>6 DEF EndPage
  <2>2. Answer(c, "answered", {work[s].handle : s \in tx.received}, tx.at)
    BY <1>4, <1>6, <2>1 DEF EndPage
  <2>3. poll'[c].stage = "answered"
    BY <1>1, <2>2, AnswerFields DEF In
  <2>4. QED
    BY <2>3 DEF In
<1>7. ASSUME NEW d \in Poller, RunPage(d)
      PROVE  now' = now /\ \E s \in DOMAIN work : DeliverNext(s) \/ DeadLetterNext(s)
  BY <1>6, <1>7 DEF RunPage, DeliverNext, DeadLetterNext
<1>8. ASSUME NEW d \in Poller, GoOn(d) \/ WakeUp(d) \/ Disconnect(d) \/ Done(d)
                               \/ \E r \in Request : Arrive(d, r)
      PROVE  UNCHANGED <<now, tx>>
  BY <1>8 DEF GoOn, WakeUp, Disconnect, Done, Arrive, vars
<1>9. Tick => now' = now + 1 /\ UNCHANGED tx
  BY DEF Tick, txVars
<1>10. UNCHANGED pollVars => UNCHANGED <<now, tx>>
  BY DEF pollVars, vars
<1>11. QED
  BY <1>2, <1>3, <1>5, <1>7, <1>8, <1>9, <1>10 DEF PollNext, PollStep

(* A page begins when its request starts it.                               *)
LEMMA PageBegins ==
    ASSUME PollInv, [PollNext]_pollVars, NEW c \in Poller, In(c, {"paging"})',
           poll'[c] # poll[c]
    PROVE  /\ In(c, {"ready"}) /\ Enter(c, "paging")
           /\ LET r == poll[c].request
              IN  BeginReceive(r.queue, r.max, r.option, r.attempt, LastPage(c))
<1>1. poll \in [Poller -> Poll \cup {NoPoll}] /\ poll'[c].stage = "paging"
  BY DEF PollInv, PollTypeOK, In
<1>2. ASSUME NEW d \in Poller, NEW stage, Enter(d, stage), poll[d].stage # "none"
      PROVE  d = c /\ stage = "paging"
  <2>1. poll[d] \in Poll
    BY <1>1, <1>2 DEF NoPoll
  <2>2. QED
    BY <1>1, <1>2, <2>1 DEF Enter, Poll
<1>3. ASSUME NEW d \in Poller, NEW outcome, NEW handles, NEW t, Answer(d, outcome, handles, t),
             poll[d].stage # "none"
      PROVE  d = c /\ outcome = "paging"
  <2>1. d = c
    BY <1>3, AnswerFields DEF PollInv
  <2>2. QED
    BY <1>1, <1>3, <2>1, AnswerFields DEF PollInv
<1>4. ASSUME NEW d \in Poller, NEW p, poll' = [poll EXCEPT ![d] = p]
      PROVE  p.stage = "paging"
  BY <1>1, <1>4
<1>5. ASSUME NEW d \in Poller, StartPage(d)
      PROVE  /\ In(c, {"ready"}) /\ Enter(c, "paging")
             /\ LET r == poll[c].request
                IN  BeginReceive(r.queue, r.max, r.option, r.attempt, LastPage(c))
  <2>1. poll[d].stage # "none"
    BY <1>5 DEF StartPage, In
  <2>2. ~Enter(d, "failed") /\ ~OverLimit(d) /\ ~Repeat(d)
    BY <1>2, <1>3, <2>1 DEF OverLimit, Repeat
  <2>3. Enter(d, "paging")
    BY <1>5, <2>2 DEF StartPage
  <2>4. d = c
    BY <1>2, <2>1, <2>3
  <2>5. QED
    BY <1>5, <2>2, <2>4 DEF StartPage
<1>6. ASSUME NEW d \in Poller, RunPage(d) \/ FailPage(d) \/ Deny(d) \/ WakeUp(d)
      PROVE  FALSE
  <2>1. poll[d].stage # "none"
    BY <1>6 DEF RunPage, EndPage, FailPage, Deny, WakeUp, In, DeliverNext
  <2>2. QED
    BY <1>2, <1>3, <1>6, <2>1 DEF RunPage, EndPage, FailPage, Deny, WakeUp
<1>7. ASSUME NEW d \in Poller, GoOn(d)
      PROVE  FALSE
  <2>1. poll[d].stage # "none" /\ poll[d] \in Poll
    BY <1>1, <1>7 DEF GoOn, In, NoPoll
  <2>2. poll' = [poll EXCEPT ![d].stage = "asleep",
                             ![d].time = Min2(poll[d].deadline, now + PollInterval)]
    BY <1>2, <1>3, <1>7, <2>1 DEF GoOn
  <2>3. poll'[d].stage = "asleep" /\ \A e \in Poller \ {d} : poll'[e] = poll[e]
    BY <1>1, <2>1, <2>2 DEF Poll
  <2>4. QED
    BY <1>1, <2>3
<1>8. ASSUME NEW d \in Poller, Disconnect(d) \/ Done(d) \/ \E r \in Request : Arrive(d, r)
      PROVE  FALSE
  <2>1. \E p : p.stage # "paging" /\ poll' = [poll EXCEPT ![d] = p]
    BY <1>8 DEF Disconnect, Done, Arrive, NoPoll
  <2>2. QED
    BY <1>4, <2>1
<1>9. ~Restart /\ ~UNCHANGED poll
  BY <1>1 DEF Restart, NoPoll
<1>10. QED
  BY <1>5, <1>6, <1>7, <1>8, <1>9 DEF PollNext, PollStep, pollVars

(* A receive stores an empty answer when it is told to.                    *)
LEMMA BeginCaches ==
    ASSUME NEW q, NEW max, NEW option, NEW a, NEW final,
           BeginReceive(q, max, option, a, final)
    PROVE  tx'.cacheEmpty = final /\ now' = now
BY DEF BeginReceive

(* A page that stores an empty answer goes on being one that began after   *)
(* the deadline.                                                           *)
LEMMA FinalPagesStep ==
    ASSUME PollInv, FinalPages, [PollNext]_pollVars
    PROVE  FinalPages'
<1>1. SUFFICES ASSUME NEW c \in Poller, In(c, {"paging"})', tx'.cacheEmpty
               PROVE  now' >= poll'[c].deadline
  BY DEF FinalPages
<1>2. /\ poll \in [Poller -> Poll \cup {NoPoll}] /\ now \in Nat /\ TypeOK
      /\ poll[c].stage # "none" => poll[c].deadline \in Nat
  BY DEF PollInv, PollTypeOK, TypeOK, NoPoll, Poll
<1>3. CASE poll'[c] = poll[c]
  <2>1. In(c, {"paging"}) /\ tx \in ReceiveTx
    BY <1>1, <1>2, <1>3, TxKinds DEF In, PollInv, PollTypeOK
  <2>2. tx.cacheEmpty
    <3>1. CASE UNCHANGED tx
      BY <1>1, <3>1
    <3>2. CASE \E s \in DOMAIN work : DeliverNext(s) \/ DeadLetterNext(s)
      BY <1>1, <2>1, <3>2 DEF DeliverNext, DeadLetterNext, ReceiveTx
    <3>3. QED
      BY <1>3, <2>1, <3>1, <3>2, PageRunsOn
  <2>3. now >= poll[c].deadline /\ poll[c].deadline \in Nat
    BY <1>2, <2>1, <2>2 DEF FinalPages, In
  <2>4. now' \in {now, now + 1}
    BY <1>3, <2>1, PageRunsOn
  <2>5. QED
    BY <1>2, <1>3, <2>3, <2>4
<1>4. CASE poll'[c] # poll[c]
  <2>1. In(c, {"ready"}) /\ Enter(c, "paging") /\ now' = now /\ LastPage(c)
    <3>1. tx'.cacheEmpty = LastPage(c) /\ now' = now
      BY ONLY <1>1, <1>4, PageBegins, BeginCaches, PollInv, [PollNext]_pollVars, Zenon
    <3>2. LastPage(c)
      BY <1>1, <3>1, Zenon
    <3>3. QED
      BY <1>1, <1>4, <3>1, <3>2, PageBegins
  <2>2. poll'[c].deadline = poll[c].deadline
    BY <1>2, <2>1 DEF Enter, In, NoPoll, Poll
  <2>3. QED
    BY <2>1, <2>2 DEF LastPage
<1>5. QED
  BY <1>3, <1>4

\* The property of a step that EmptyOnlyAtDeadline states.
EmptyAtDeadline(c) ==
    Answers(c, {}) =>
        \/ now >= poll[c].deadline
        \/ \E a \in attempts :
              /\ a.queue = poll[c].request.queue /\ a.id = poll[c].request.attempt
              /\ a.members = {}

(* An empty answer comes at the deadline or is one that was stored before. *)
LEMMA EmptyStep ==
    ASSUME PollInv, FinalPages, [PollNext]_pollVars, NEW c \in Poller
    PROVE  EmptyAtDeadline(c)
<1>1. SUFFICES ASSUME Answers(c, {})
               PROVE  \/ now >= poll[c].deadline
                      \/ \E a \in attempts :
                            /\ a.queue = poll[c].request.queue
                            /\ a.id = poll[c].request.attempt
                            /\ a.members = {}
  BY DEF EmptyAtDeadline
<1>2. /\ poll[c].stage # "none" /\ poll[c].stage \notin Succeeded
      /\ poll'[c].stage \in Succeeded /\ poll'[c].handles = {}
  BY <1>1 DEF Answers, In, Waiting, Succeeded
<1>3. CASE Repeat(c)
  <2> DEFINE q == poll[c].request.queue
             table == AttemptsFor(SweptQueue(q, now), q, now)
  <2>1. PICK a \in Known(q, poll[c].request.attempt) : Answer(c, "repeated", a.members, now)
    BY <1>3 DEF Repeat
  <2>2. a.members = {}
    BY <1>2, <2>1, AnswerFields DEF PollInv
  <2>3. /\ a \in Invalidate(attempts, LostHandles(messages, SweptQueue(q, now)))
        /\ a.queue = q /\ a.id = poll[c].request.attempt
    BY <2>1 DEF Known, AttemptsFor, PruneAttempts
  <2>4. PICK e \in attempts :
          a = IF e.members \cap LostHandles(messages, SweptQueue(q, now)) = {}
              THEN e ELSE [e EXCEPT !.valid = FALSE]
    BY <2>3 DEF Invalidate
  <2>5. e \in Attempt
    BY DEF PollInv, TypeOK
  <2>6. e.queue = a.queue /\ e.id = a.id /\ e.members = a.members
    BY <2>4, <2>5 DEF Attempt
  <2>7. QED
    BY <2>2, <2>3, <2>6
<1>4. CASE EndPage(c) /\ Complete
  <2>1. poll'[c].handles = {work[s].handle : s \in tx.received}
    BY <1>2, <1>4, AnswerFields DEF EndPage, PollInv
  <2>2. tx.received = {} /\ tx.cacheEmpty
    BY <1>2, <1>4, <2>1 DEF Complete
  <2>3. QED
    BY <1>4, <2>2 DEF EndPage, FinalPages
<1>5. QED
  BY <1>2, <1>3, <1>4, AnswerSteps

(* An empty answer before the deadline of a long poll only ever repeats    *)
(* one that was stored, for any number of clients and at any limit.        *)
THEOREM PollsEmptyAtDeadline == PollSafetySpec => EmptyOnlyAtDeadline
<1>1. PollInit => FinalPages
  BY DEF PollInit, FinalPages, In, NoPoll
<1>2. PollInv /\ FinalPages /\ [PollNext]_pollVars => FinalPages'
  BY FinalPagesStep
<1>3. PollInv /\ FinalPages /\ [PollNext]_pollVars =>
        [\A c \in Poller : Answers(c, {}) =>
            \/ now >= poll[c].deadline
            \/ \E a \in attempts :
                  /\ a.queue = poll[c].request.queue /\ a.id = poll[c].request.attempt
                  /\ a.members = {}]_pollVars
  BY EmptyStep DEF EmptyAtDeadline
<1>4. QED
  BY <1>1, <1>2, <1>3, PollInvariant, PTL DEF PollSafetySpec, EmptyOnlyAtDeadline
=============================================================================
