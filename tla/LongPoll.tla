------------------------------ MODULE LongPoll ------------------------------
(***************************************************************************)
(* ReceiveMessage over HTTP (poll_receive in src/src/http_server.rs): each *)
(* request runs receive_page again and again until a page is complete or   *)
(* its deadline has passed.  The mutex and the transaction of a page are   *)
(* given up before the request sleeps, so other requests come in between.  *)
(*                                                                         *)
(* All receives are requests of this module; the short ones wait for 0.    *)
(* Deadlines are set by the monotonic clock of the host and leases by its  *)
(* wall clock; one variable, now, stands for both.                         *)
(***************************************************************************)
EXTENDS QueueStoreSafety

CONSTANTS Poller,       \* the clients that receive
          Waits,        \* the waiting times, requested or the queue's default
          PollInterval  \* 100 ms in the code

ASSUME LongPollAssumption == Waits \subseteq Nat /\ PollInterval \in Nat \ {0}

VARIABLE poll           \* the local variables of poll_receive, per client

pollVars == <<vars, poll>>

\* What a client asks for.
Request == [queue : Queue, max : BatchSizes, option : Visibilities,
            attempt : AttemptId \cup {NoAttempt}, wait : Waits]

(* The stages of a request:                                                *)
(*   ready     about to take the mutex for a page                          *)
(*   paging    its receive transaction runs                                *)
(*   empty     the page found nothing (or no room) and is not complete     *)
(*   full      the page ended with OverLimit                               *)
(*   asleep    in sleep_until, until time                                  *)
(*   answered  a page of its own answered, at clock reading time           *)
(*   repeated  a stored attempt answered, at time                          *)
(*   gaveUp    it answered nothing because of the limit, at time           *)
(*   failed    the response is an error                                    *)
NoPoll == [stage |-> "none"]
Waiting == {"ready", "paging", "empty", "full", "asleep"}
Succeeded == {"answered", "repeated", "gaveUp"}
Poll == [stage : Waiting \cup Succeeded \cup {"failed"}, request : Request,
         deadline : Nat, time : Nat, handles : SUBSET (Nat \X Nat)]

In(c, stages) == poll[c].stage \in stages
Enter(c, stage) == poll' = [poll EXCEPT ![c].stage = stage]
Answer(c, outcome, handles, t) ==
    poll' = [poll EXCEPT ![c].stage = outcome, ![c].handles = handles, ![c].time = t]

PollInit == Init /\ poll = [c \in Poller |-> NoPoll]

Arrive(c, r) ==
    /\ poll[c] = NoPoll
    /\ now + r.wait <= MaxTime
    /\ r.attempt # NoAttempt => r.queue \in Fifo
    /\ poll' = [poll EXCEPT ![c] =
          [stage |-> "ready", request |-> r, deadline |-> now + r.wait,
           time |-> now, handles |-> {}]]
    /\ UNCHANGED vars
-----------------------------------------------------------------------------
(* One page: lock_lqs and receive_page *)

\* Mutant: the last page is treated like the others.
NeverLastPage(c) == FALSE

\* An empty page is final when it starts at or after the deadline.
LastPage(c) == now >= poll[c].deadline

\* The answer repeats a stored attempt.
Repeat(c) ==
    LET r == poll[c].request
        f == <<r.max, r.option>>
    IN  /\ ReplayAttempt(r.queue, r.attempt, f)
        /\ \E a \in Known(r.queue, r.attempt) : Answer(c, "repeated", a.members, now)

\* The stored attempt was invalidated or was made with other parameters.
RefusesRepeat(r) ==
    \E a \in Known(r.queue, r.attempt) :
        ~a.valid \/ a.fingerprint # <<r.max, r.option>>

\* Renewing the lapsed leases of the stored attempt would exceed the limit.
RepeatOverLimit(r) ==
    \E a \in Known(r.queue, r.attempt) :
        /\ a.valid /\ a.fingerprint = <<r.max, r.option>>
        /\ ~ReplayFits(r.queue, a,
              {s \in RowsOf(SweptQueue(r.queue, now), r.queue) :
                  messages[s].handle \in a.members /\ messages[s].invisible <= now})

\* Mutant: a long poll that meets the limit answers at once.
OverLimitAnswers(c) ==
    IF poll[c].request.wait > 0 THEN Answer(c, "gaveUp", {}, now) ELSE Enter(c, "failed")

\* OverLimit is an error to a short receive, a long poll goes on.
OverLimit(c) ==
    IF poll[c].request.wait > 0 THEN Enter(c, "full") ELSE Enter(c, "failed")

StartPage(c) ==
    LET r == poll[c].request
    IN  /\ In(c, {"ready"})
        /\ tx = Idle
        /\ \/ BeginReceive(r.queue, r.max, r.option, r.attempt, LastPage(c))
              /\ Enter(c, "paging")
           \/ Repeat(c)
           \/ RefusesRepeat(r) /\ Enter(c, "failed") /\ UNCHANGED vars
           \/ RepeatOverLimit(r) /\ OverLimit(c) /\ UNCHANGED vars
           \/ ReceiveOverLimit(r.queue) /\ OverLimit(c)

\* lock_lqs authorizes every page: the permission may have been revoked.
Deny(c) ==
    /\ In(c, {"ready"})
    /\ tx = Idle
    /\ Enter(c, "failed")
    /\ UNCHANGED vars

\* Mutant: a page is complete at the deadline only.
CompleteAtDeadline == tx.cacheEmpty

\* The page answers the request.
Complete == tx.received # {} \/ tx.cacheEmpty

EndPage(c) ==
    /\ In(c, {"paging"})
    /\ CommitReceive
    /\ IF Complete
       THEN Answer(c, "answered", {work[s].handle : s \in tx.received}, tx.at)
       ELSE Enter(c, "empty")

RunPage(c) ==
    \/ In(c, {"paging"}) /\ (\E s \in DOMAIN work : DeliverNext(s) \/ DeadLetterNext(s))
                       /\ UNCHANGED poll
    \/ EndPage(c)

\* Mutant: the error of a page is lost.
FailPageUnseen(c) == In(c, {"paging"}) /\ Rollback /\ UNCHANGED poll

\* A statement of the page fails.
FailPage(c) == In(c, {"paging"}) /\ Rollback /\ Enter(c, "failed")
-----------------------------------------------------------------------------
(* Between two pages *)

GoOn(c) ==
    /\ \/ /\ In(c, {"full"})
          /\ IF now >= poll[c].deadline THEN Answer(c, "gaveUp", {}, now)
                                        ELSE Enter(c, "empty")
       \/ /\ In(c, {"empty"})
          /\ IF now >= poll[c].deadline
             THEN Enter(c, "ready")
             ELSE poll' = [poll EXCEPT
                    ![c].stage = "asleep",
                    ![c].time = Min2(poll[c].deadline, now + PollInterval)]
    /\ UNCHANGED vars

WakeUp(c) ==
    /\ In(c, {"asleep"}) /\ now >= poll[c].time
    /\ Enter(c, "ready")
    /\ UNCHANGED vars

\* The connection is closed while the request sleeps; the future is dropped.
Disconnect(c) ==
    /\ In(c, {"asleep"})
    /\ poll' = [poll EXCEPT ![c] = NoPoll]
    /\ UNCHANGED vars

\* The client has its response and may ask again.
Done(c) ==
    /\ In(c, Succeeded \cup {"failed"})
    /\ poll' = [poll EXCEPT ![c] = NoPoll]
    /\ UNCHANGED vars

\* The server dies and comes back without its requests.
Restart ==
    /\ poll' = [c \in Poller |-> NoPoll]
    /\ Rollback \/ (tx = Idle /\ UNCHANGED vars)

PollStep(c) ==
    \/ StartPage(c) \/ Deny(c) \/ RunPage(c) \/ FailPage(c)
    \/ GoOn(c) \/ WakeUp(c) \/ Disconnect(c) \/ Done(c)

PollNext ==
    \/ \E c \in Poller : PollStep(c) \/ \E r \in Request : Arrive(c, r)
    \/ Restart
    \/ (Send \/ Manage) /\ UNCHANGED poll
    \/ Tick /\ UNCHANGED poll

(* Time goes on, a thread that holds the mutex runs to the end of its page *)
(* and a timer that is due fires.  A request that wants the mutex gets it  *)
(* in the end although others take it in turns: strong fairness.           *)
PollFairness ==
    /\ WF_pollVars(Tick /\ UNCHANGED poll)
    /\ \A c \in Poller :
        /\ WF_pollVars(RunPage(c))
        /\ WF_pollVars(GoOn(c))
        /\ WF_pollVars(WakeUp(c))
        /\ SF_pollVars(StartPage(c))

PollSafetySpec == PollInit /\ [][PollNext]_pollVars
PollSpec == PollSafetySpec /\ PollFairness
-----------------------------------------------------------------------------
(* Every request has its type, and the running receive transaction is the  *)
(* page of exactly one request.                                            *)
PollTypeOK ==
    /\ poll \in [Poller -> Poll \cup {NoPoll}]
    /\ \A c \in Poller : In(c, {"paging"}) =>
        /\ tx.kind = "receive"
        /\ tx.queue = poll[c].request.queue
        /\ tx.attempt = poll[c].request.attempt
    /\ \A c, d \in Poller : In(c, {"paging"}) /\ In(d, {"paging"}) => c = d

\* The step answers c with these receipt handles.
Answers(c, handles) ==
    /\ In(c, Waiting)
    /\ poll'[c].stage \in Succeeded /\ poll'[c].handles = handles

(* No delivery is swallowed: the messages that a page leases are the       *)
(* answer of the request that leased them, they never stay leased behind a *)
(* page that goes on waiting (`complete' in receive_page,                  *)
(* sqlite_lqs.rs:606).                                                     *)
NothingSwallowed ==
    [][Delivered # {} =>
        \E c \in Poller : Answers(c, {messages'[s].handle : s \in Delivered})]_pollVars

(* An empty answer before the deadline only ever repeats a stored one,     *)
(* even when the queue is at its limit (poll_receive,                      *)
(* http_server.rs:1649-1690; DESIGN.md: a long poll does not end early on  *)
(* account of the limit and is empty at the deadline only).                *)
EmptyOnlyAtDeadline ==
    [][\A c \in Poller : Answers(c, {}) =>
        \/ now >= poll[c].deadline
        \/ \E a \in attempts :
              /\ a.queue = poll[c].request.queue /\ a.id = poll[c].request.attempt
              /\ a.members = {}]_pollVars

\* Both requests carry the same attempt id, and d was answered in the five
\* minutes after a page of c was.
RetriedBy(c, d) ==
    /\ In(c, {"answered"})
    /\ In(d, Succeeded)
    /\ poll[c].request.attempt # NoAttempt
    /\ poll[c].request.queue = poll[d].request.queue
    /\ poll[c].request.attempt = poll[d].request.attempt
    /\ poll[d].time \in poll[c].time .. poll[c].time + AttemptWindow - 1

(* Requests that carry the same attempt id are answered alike, the empty   *)
(* answer included, however their pages, sleeps and deadlines interleave   *)
(* (replay_attempt, save_attempt, fifo.rs:178-242; an empty page is stored *)
(* only when it ends the poll).  The answer of a poll that gave up at the  *)
(* in-flight limit is left out: see RetriesNeverEmpty.                     *)
RetriesAgree ==
    \A c, d \in Poller :
        RetriedBy(c, d) /\ ~In(d, {"gaveUp"}) => poll[c].handles = poll[d].handles

\* The reading that decides which attempts are too old.
Clock == IF tx.kind = "receive" THEN tx.at ELSE now

Stored(q, id, t, handles) ==
    \E a \in attempts :
        a.queue = q /\ a.id = id /\ a.created = t /\ a.members = handles

\* The answer of c was stored at t, and still is while it can be repeated.
StoredAt(c, t) ==
    LET p == poll[c]
    IN  /\ p.time <= Clock /\ p.time < t + AttemptWindow
        /\ In(c, {"answered"}) => t = p.time
        /\ Clock < t + AttemptWindow =>
              Stored(p.request.queue, p.request.attempt, t, p.handles)

(* What was answered under an attempt id can be looked up: the inductive   *)
(* invariant behind RetriesAgree.                                          *)
AnswersStored ==
    \A c \in Poller :
        In(c, {"answered", "repeated"}) /\ poll[c].request.attempt # NoAttempt
        => \E t \in Nat : StoredAt(c, t)

(* A page that stores an empty answer began after the deadline: the        *)
(* invariant behind EmptyOnlyAtDeadline.                                   *)
FinalPages ==
    \A c \in Poller :
        In(c, {"paging"}) /\ tx.cacheEmpty => now >= poll[c].deadline

(* docs/compatibility.md promises that a retry returns the same messages   *)
(* for five minutes, and OverLimit when they do not fit the limit.  A long *)
(* poll answers an empty success instead, so this does not hold.           *)
RetriesNeverEmpty ==
    \A c, d \in Poller : RetriedBy(c, d) => poll[c].handles = poll[d].handles

(* Every request is answered, however others keep the mutex busy: no page  *)
(* at or after the deadline leads to another one for ever.                 *)
PollsEnd == \A c \in Poller : In(c, Waiting) ~> ~In(c, Waiting)
=============================================================================
