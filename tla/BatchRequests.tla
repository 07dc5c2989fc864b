--------------------------- MODULE BatchRequests ---------------------------
(***************************************************************************)
(* The batch requests of the HTTP server (src/src/batch_http.rs, over      *)
(* run_batch of src/src/batch.rs) running beside the single requests of    *)
(* QueueStore.                                                             *)
(*                                                                         *)
(* execute reads the clock, then waits for the server mutex, then runs its *)
(* entries under that mutex with the reading it took before.  Each entry   *)
(* is a transaction of its own: it succeeds or fails alone.                *)
(***************************************************************************)
EXTENDS QueueStoreSafety

CONSTANTS Caller,       \* the clients that send batch requests
          EntryCounts   \* the numbers of entries of a batch (1 .. 10)

ASSUME BatchAssumption == EntryCounts \subseteq 1 .. 10

VARIABLE batch          \* the local variables of execute, per client

batchVars == <<vars, batch>>

NoBatch == [stage |-> "none"]
Request == [stage : {"waiting", "running"},
            action : {"Send", "Delete", "ChangeVisibility"}, queue : Queue,
            at : Nat, left : 0 .. 10, sent : SUBSET Nat]

BatchInit == Init /\ batch = [c \in Caller |-> NoBatch]

\* Mutant: the mutex is taken per entry.
MutexAlwaysFree == TRUE

\* The mutex of AppState is not held by a batch.
MutexFree == \A c \in Caller : batch[c].stage # "running"

ReadClock(c, action, q, n) ==
    /\ batch[c] = NoBatch
    /\ batch' = [batch EXCEPT ![c] =
          [stage |-> "waiting", action |-> action, queue |-> q, at |-> now,
           left |-> n, sent |-> {}]]
    /\ UNCHANGED vars

Lock(c) ==
    /\ batch[c].stage = "waiting"
    /\ MutexFree /\ tx = Idle
    /\ batch' = [batch EXCEPT ![c].stage = "running"]
    /\ UNCHANGED vars

\* run_batch finds no entries, more than ten, or ids that are malformed or not
\* distinct: nothing is done.
Refuse(c) ==
    /\ batch[c].stage = "waiting"
    /\ MutexFree /\ tx = Idle
    /\ batch' = [batch EXCEPT ![c] = NoBatch]
    /\ UNCHANGED vars

\* The operation of one entry.
EntryOperation(b) ==
    \/ b.action = "Send" /\ SendTo(b.queue, b.at)
    \/ \E s \in RowsOf(messages, b.queue) :
        \/ b.action = "Delete" /\ Delete(s)
        \/ /\ b.action = "ChangeVisibility"
           /\ \E timeout \in Timeouts : ChangeVisibility(s, timeout, b.at)

\* The loop body of run_batch; a failed entry changes nothing and the next one
\* is tried.
Entry(c) ==
    /\ batch[c].stage = "running" /\ batch[c].left > 0
    /\ \/ EntryOperation(batch[c])
       \/ UNCHANGED vars
    /\ batch' = [batch EXCEPT
          ![c].left = @ - 1,
          ![c].sent = @ \cup (nextSequence .. nextSequence' - 1)]

Unlock(c) ==
    /\ batch[c].stage = "running" /\ batch[c].left = 0
    /\ batch' = [batch EXCEPT ![c] = NoBatch]
    /\ UNCHANGED vars

\* The process dies: what the entries have committed so far stays.
Crash ==
    /\ batch' = [c \in Caller |-> NoBatch]
    /\ Rollback \/ (tx = Idle /\ UNCHANGED vars)

SingleRequest ==
    /\ MutexFree
    /\ Operation
    /\ UNCHANGED batch

BatchNext ==
    \/ \E c \in Caller :
        \/ \E action \in {"Send", "Delete", "ChangeVisibility"},
              q \in Sendable, n \in EntryCounts : ReadClock(c, action, q, n)
        \/ Lock(c) \/ Refuse(c) \/ Entry(c) \/ Unlock(c)
    \/ Crash
    \/ SingleRequest
    \/ Tick /\ UNCHANGED batch

BatchSpec == BatchInit /\ [][BatchNext]_batchVars
-----------------------------------------------------------------------------
(* Nothing comes between the messages of one batch: the sequence numbers   *)
(* it was given are consecutive whatever other clients send, receive or    *)
(* dead-letter meanwhile (the mutex spans run_batch, batch_http.rs:91-92). *)
BatchContiguous ==
    \A c \in Caller : batch[c] # NoBatch =>
        \A first, last \in batch[c].sent : first .. last \subseteq batch[c].sent
=============================================================================
