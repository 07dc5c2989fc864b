------------------------ MODULE SendRequests_proofs ------------------------
(***************************************************************************)
(* What is sent, for every value of the constants.                         *)
(*                                                                         *)
(* Exactly-once acceptance (DeduplicationHistory): the inductive invariant *)
(* says that the keys are the truth about the past, a key holds the moment *)
(* of the last acceptance, and an acceptance within the window has its     *)
(* key.                                                                    *)
(*                                                                         *)
(* Batches (BatchRequests): the inductive invariant says that the batch    *)
(* that holds the mutex was given the numbers up to the counter.  It also  *)
(* carries the invariant of the constraints (QueueStoreSafety_proofs) from *)
(* the operations of the store to entries with old clock readings.         *)
(***************************************************************************)
EXTENDS DeduplicationHistory, BatchRequests, QueueStoreSafety_proofs

HistoryTyped == lastAccepted \in [Queue \X Group \X DedupId -> Nat \cup {Never}]

HistoryInv == HistoryTyped /\ KeysRememberAcceptance
-----------------------------------------------------------------------------
(* Which step accepts a message, and what the others leave of the keys     *)

(* A step that keeps the counter, or that belongs to a receive or redrive, *)
(* accepts nothing.                                                        *)
LEMMA NothingAccepted ==
    ASSUME HistoryTyped, HistoryNext,
           nextSequence' = nextSequence \/ tx # Idle \/ tx' # Idle
    PROVE  lastAccepted' = lastAccepted
<1>1. \A q, g, d : ~Accepted(q, g, d)
  BY DEF Accepted
<1>2. lastAccepted' = [k \in Queue \X Group \X DedupId |-> lastAccepted[k]]
  BY <1>1 DEF HistoryNext
<1>3. QED
  BY <1>2 DEF HistoryTyped

(* A Standard message has no deduplication id.                             *)
LEMMA StandardNotAccepted ==
    ASSUME TypeOK, QueueStoreAssumption, MessageRowsAssumption, HistoryTyped, HistoryNext,
           NEW p \in Queue, NEW h \in Group, NEW delay, SendStandard(p, h, delay, now)
    PROVE  lastAccepted' = lastAccepted
<1>1. messages'[nextSequence].dedup = NoDedupId
  BY DEF SendStandard, Enqueue, Insert, NewRow
<1>2. \A q \in Queue, g \in Group, d \in DedupId : ~Accepted(q, g, d)
  BY <1>1 DEF Accepted, MessageRowsAssumption
<1>3. lastAccepted' = [k \in Queue \X Group \X DedupId |-> lastAccepted[k]]
  BY <1>2 DEF HistoryNext
<1>4. QED
  BY <1>3 DEF HistoryTyped

(* A FIFO send accepts its message and no other.                           *)
LEMMA FifoAccepted ==
    ASSUME TypeOK, HistoryTyped, HistoryNext,
           NEW p \in Queue, NEW h \in Group, NEW e \in DedupId, SendFifo(p, h, e, now)
    PROVE  lastAccepted' = [lastAccepted EXCEPT ![<<p, h, e>>] = now]
<1>1. /\ messages'[nextSequence].queue = p
      /\ messages'[nextSequence].group = h
      /\ messages'[nextSequence].dedup = e
  BY DEF SendFifo, Enqueue, Insert, NewRow
<1>2. tx = Idle /\ tx' = Idle /\ nextSequence' # nextSequence
  BY DEF SendFifo, Enqueue, txVars, TypeOK
<1>3. \A q \in Queue, g \in Group, d \in DedupId :
        Accepted(q, g, d) <=> q = p /\ g = h /\ d = e
  BY <1>1, <1>2 DEF Accepted
<1>4. lastAccepted' = [k \in Queue \X Group \X DedupId |->
                         IF Accepted(k[1], k[2], k[3]) THEN now ELSE lastAccepted[k]]
  BY DEF HistoryNext
<1>5. \A k \in Queue \X Group \X DedupId :
        Accepted(k[1], k[2], k[3]) <=> k = <<p, h, e>>
  BY <1>3
<1>6. QED
  BY <1>4, <1>5 DEF HistoryTyped

(* What a step can be to the deduplication keys.                           *)
LEMMA HistorySteps ==
    ASSUME TypeOK, QueueStoreAssumption, MessageRowsAssumption, HistoryTyped,
           [HistoryNext]_historyVars
    PROVE  \/ /\ lastAccepted' = lastAccepted
              /\ now' \in {now, now + 1}
              /\ \E q \in Queue : keys' = FreshKeys(q, now)
           \/ /\ lastAccepted' = lastAccepted
              /\ now' \in {now, now + 1}
              /\ keys' = keys
           \/ \E p \in Queue, h \in Group, e \in DedupId :
                /\ SendFifo(p, h, e, now)
                /\ lastAccepted' = [lastAccepted EXCEPT ![<<p, h, e>>] = now]
<1>0. Sendable \subseteq Queue
  BY DEF QueueStoreAssumption
<1>1. CASE UNCHANGED historyVars
  BY <1>1 DEF historyVars, vars
<1>2. ASSUME HistoryNext
      PROVE  \/ UNCHANGED <<now, keys>> /\ UNCHANGED lastAccepted
             \/ UNCHANGED keys /\ now' = now + 1 /\ UNCHANGED lastAccepted
             \/ \E p \in Queue : /\ UNCHANGED now /\ UNCHANGED lastAccepted
                                 /\ keys' = FreshKeys(p, now)
             \/ \E p \in Queue, h \in Group, e \in DedupId :
                  /\ SendFifo(p, h, e, now)
                  /\ lastAccepted' = [lastAccepted EXCEPT ![<<p, h, e>>] = now]
  <2>1. ASSUME NEW p \in Sendable, NEW h \in Group, NEW delay, SendStandard(p, h, delay, now)
        PROVE  UNCHANGED <<now, keys>> /\ UNCHANGED lastAccepted
    BY <1>0, <1>2, <2>1, StandardNotAccepted DEF SendStandard
  <2>2. ASSUME NEW p \in Sendable, NEW h \in Group, NEW e \in DedupId, SendFifo(p, h, e, now)
        PROVE  lastAccepted' = [lastAccepted EXCEPT ![<<p, h, e>>] = now]
    BY <1>0, <1>2, <2>2, FifoAccepted
  <2>3. ASSUME NEW p \in Sendable, NEW h \in Group, NEW e \in DedupId,
               SendDuplicate(p, h, e, now)
        PROVE  UNCHANGED now /\ UNCHANGED lastAccepted /\ keys' = FreshKeys(p, now)
    BY <1>2, <2>3, NothingAccepted DEF SendDuplicate
  <2>4. CASE Send
    BY <1>0, <2>1, <2>2, <2>3, <2>4 DEF Send, SendTo
  <2>5. CASE StartReceive
    BY <1>2, <2>5, NothingAccepted DEF StartReceive, BeginReceive, ReplayAttempt, store
  <2>6. CASE \E q \in Queue : ReceiveOverLimit(q)
    BY <1>2, <2>6, NothingAccepted DEF ReceiveOverLimit
  <2>7. CASE RunReceive
    <3>1. tx # Idle
      <4>1. tx.kind = "receive"
        BY <2>7 DEF RunReceive, DeliverNext, DeadLetterNext, CommitReceive
      <4>2. QED
        BY <4>1 DEF Idle
    <3>2. UNCHANGED <<now, keys>>
      BY <2>7 DEF RunReceive, DeliverNext, DeadLetterNext, CommitReceive, store
    <3>3. QED
      BY <1>2, <3>1, <3>2, NothingAccepted
  <2>8. CASE Rollback
    BY <1>2, <2>8, NothingAccepted DEF Rollback, store
  <2>9. CASE Redrive
    <3>1. tx # Idle \/ tx' # Idle
      BY <2>9 DEF Redrive, BeginRedrive, RedriveNext, CommitRedrive, Idle
    <3>2. UNCHANGED <<now, keys>>
      BY <2>9 DEF Redrive, BeginRedrive, RedriveNext, CommitRedrive, store
    <3>3. QED
      BY <1>2, <3>1, <3>2, NothingAccepted
  <2>10. CASE Manage
    BY <1>2, <2>10, NothingAccepted
       DEF Manage, Delete, ChangeVisibility, SetQueueAttributes, PurgeQueue
  <2>11. CASE Tick
    BY <1>2, <2>11, NothingAccepted DEF Tick, store
  <2>12. QED
    BY <1>2, <2>4, <2>5, <2>6, <2>7, <2>8, <2>9, <2>10, <2>11
       DEF HistoryNext, Next, Operation
<1>3. QED
  BY <1>1, <1>2
-----------------------------------------------------------------------------
(* The invariant                                                           *)

(* A send without duplicates finds no younger acceptance in its scope.     *)
LEMMA NoneWithinWindow ==
    ASSUME TypeOK, QueueStoreAssumption, HistoryInv,
           NEW p \in Queue, NEW h \in Group, NEW e \in DedupId, SendFifo(p, h, e, now),
           NEW g \in Group, settings[p].perGroup => g = h, lastAccepted[<<p, g, e>>] # Never
    PROVE  lastAccepted[<<p, g, e>>] + DeduplicationWindow <= now
<1>1. lastAccepted[<<p, g, e>>] \in Nat /\ now \in Nat /\ DeduplicationWindow \in Nat
  BY DEF HistoryInv, HistoryTyped, TypeOK, QueueStoreAssumption
<1>2. SUFFICES ASSUME lastAccepted[<<p, g, e>>] > now - DeduplicationWindow
               PROVE  FALSE
  BY <1>1
<1>3. PICK k \in keys : k.queue = p /\ k.dedup = e /\ k.group = g
  BY <1>2 DEF HistoryInv, KeysRememberAcceptance
<1>4. k.seen = lastAccepted[<<p, g, e>>]
  BY <1>3 DEF HistoryInv, KeysRememberAcceptance
<1>5. k \in Duplicates(p, h, e, now)
  BY <1>2, <1>3, <1>4 DEF Duplicates, FreshKeys
<1>6. QED
  BY <1>5 DEF SendFifo

(* Forgetting keys older than the window, and the passage of time, leave   *)
(* the keys true.                                                          *)
LEMMA ForgettingKeeps ==
    ASSUME TypeOK, QueueStoreAssumption, HistoryInv,
           UNCHANGED lastAccepted, now' \in {now, now + 1},
           keys' = keys \/ \E q \in Queue : keys' = FreshKeys(q, now)
    PROVE  HistoryInv'
<1>1. now \in Nat /\ DeduplicationWindow \in Nat
  BY DEF TypeOK, QueueStoreAssumption
<1>2. \A k \in keys' : k \in keys
  BY DEF FreshKeys
<1>3. \A k \in keys : k.seen > now - DeduplicationWindow => k \in keys'
  BY DEF FreshKeys
<1>4. ASSUME NEW q \in Queue, NEW d \in DedupId, NEW g \in Group,
             lastAccepted[<<q, g, d>>] # Never,
             lastAccepted[<<q, g, d>>] > now' - DeduplicationWindow
      PROVE  \E k \in keys' : k.queue = q /\ k.dedup = d /\ k.group = g
  <2>1. lastAccepted[<<q, g, d>>] \in Nat
    BY <1>4 DEF HistoryInv, HistoryTyped
  <2>2. lastAccepted[<<q, g, d>>] > now - DeduplicationWindow
    BY <1>1, <1>4, <2>1
  <2>3. PICK k \in keys : k.queue = q /\ k.dedup = d /\ k.group = g
    BY <1>4, <2>2 DEF HistoryInv, KeysRememberAcceptance
  <2>4. k.seen = lastAccepted[<<q, g, d>>]
    BY <2>3 DEF HistoryInv, KeysRememberAcceptance
  <2>5. QED
    BY <1>3, <2>2, <2>3, <2>4
<1>5. KeysRememberAcceptance'
  BY <1>2, <1>4 DEF HistoryInv, KeysRememberAcceptance
<1>6. QED
  BY <1>5 DEF HistoryInv, HistoryTyped

(* An accepted message leaves its own key, and the only one of that id in  *)
(* its group.                                                              *)
LEMMA AcceptingKeeps ==
    ASSUME TypeOK, QueueStoreAssumption, HistoryInv,
           NEW p \in Queue, NEW h \in Group, NEW e \in DedupId, SendFifo(p, h, e, now),
           lastAccepted' = [lastAccepted EXCEPT ![<<p, h, e>>] = now]
    PROVE  HistoryInv'
<1> DEFINE new == [queue |-> p, dedup |-> e, group |-> h, message |-> nextSequence,
                   seen |-> now]
<1>1. /\ now \in Nat /\ DeduplicationWindow \in Nat /\ nextSequence \in Nat
      /\ keys \subseteq Key
  BY DEF TypeOK, QueueStoreAssumption
<1>2. now' = now /\ keys' = FreshKeys(p, now) \cup {new}
  BY DEF SendFifo
<1>3. lastAccepted \in [Queue \X Group \X DedupId -> Nat \cup {Never}]
  BY DEF HistoryInv, HistoryTyped
<1>4. /\ lastAccepted'[<<p, h, e>>] = now
      /\ \A q \in Queue, g \in Group, d \in DedupId :
           <<q, g, d>> # <<p, h, e>> => lastAccepted'[<<q, g, d>>] = lastAccepted[<<q, g, d>>]
  BY <1>3
<1>5. ASSUME NEW k \in keys'
      PROVE  k.seen = lastAccepted'[<<k.queue, k.group, k.dedup>>]
  <2>1. CASE k = new
    BY <1>4, <2>1
  <2>2. CASE k \in FreshKeys(p, now)
    <3>1. /\ k \in keys /\ k.queue \in Queue /\ k.group \in Group /\ k.dedup \in DedupId
          /\ k.queue = p => k.seen > now - DeduplicationWindow
      BY <1>1, <2>2 DEF FreshKeys, Key
    <3>2. <<k.queue, k.group, k.dedup>> # <<p, h, e>>
      <4>1. ASSUME k.queue = p, k.group = h, k.dedup = e
            PROVE  k \in Duplicates(p, h, e, now)
        BY <2>2, <3>1, <4>1 DEF Duplicates
      <4>2. QED
        BY <4>1 DEF SendFifo
    <3>3. k.seen = lastAccepted[<<k.queue, k.group, k.dedup>>]
      BY <3>1 DEF HistoryInv, KeysRememberAcceptance
    <3>4. QED
      BY <1>4, <3>1, <3>2, <3>3
  <2>3. QED
    BY <1>2, <2>1, <2>2
<1>6. ASSUME NEW q \in Queue, NEW d \in DedupId, NEW g \in Group,
             lastAccepted'[<<q, g, d>>] # Never,
             lastAccepted'[<<q, g, d>>] > now - DeduplicationWindow
      PROVE  \E k \in keys' : k.queue = q /\ k.dedup = d /\ k.group = g
  <2>1. CASE <<q, g, d>> = <<p, h, e>>
    <3>1. q = p /\ g = h /\ d = e
      BY <2>1
    <3>2. new \in keys' /\ new.queue = p /\ new.dedup = e /\ new.group = h
      BY <1>2
    <3>3. QED
      BY <3>1, <3>2
  <2>2. CASE <<q, g, d>> # <<p, h, e>>
    <3>1. lastAccepted'[<<q, g, d>>] = lastAccepted[<<q, g, d>>]
      BY <1>4, <2>2
    <3>2. PICK k \in keys : k.queue = q /\ k.dedup = d /\ k.group = g
      BY <1>6, <3>1 DEF HistoryInv, KeysRememberAcceptance
    <3>3. k.seen = lastAccepted[<<q, g, d>>]
      BY <3>2 DEF HistoryInv, KeysRememberAcceptance
    <3>4. k \in FreshKeys(p, now)
      BY <1>6, <3>1, <3>2, <3>3 DEF FreshKeys
    <3>5. QED
      BY <1>2, <3>2, <3>4
  <2>3. QED
    BY <2>1, <2>2
<1>7. KeysRememberAcceptance'
  BY <1>2, <1>5, <1>6 DEF KeysRememberAcceptance
<1>8. HistoryTyped'
  BY <1>1, <1>3 DEF HistoryTyped
<1>9. QED
  BY <1>7, <1>8 DEF HistoryInv

(* Every step keeps the invariant.                                         *)
LEMMA HistoryStep ==
    ASSUME TypeOK, QueueStoreAssumption, MessageRowsAssumption, HistoryInv,
           [HistoryNext]_historyVars
    PROVE  HistoryInv'
<1>1. HistoryTyped
  BY DEF HistoryInv
<1>2. QED
  BY <1>1, HistorySteps, ForgettingKeeps, AcceptingKeeps

(* The history variable restricts nothing.                                 *)
LEMMA HistoryImplements == HistorySpec => Spec
<1>1. HistoryInit => Init
  BY DEF HistoryInit
<1>2. [HistoryNext]_historyVars => [Next]_vars
  BY DEF HistoryNext, historyVars
<1>3. QED
  BY <1>1, <1>2, PTL DEF HistorySpec, Spec

(* The invariant holds.                                                    *)
LEMMA HistoryHolds == HistorySpec => [](TypeOK /\ HistoryInv)
<1>1. HistoryInit => HistoryInv
  BY DEF HistoryInit, Init, HistoryInv, HistoryTyped, KeysRememberAcceptance
<1>2. TypeOK /\ HistoryInv /\ [HistoryNext]_historyVars => HistoryInv'
  BY HistoryStep, QueueStoreAssumption, MessageRowsAssumption
<1>3. QED
  BY <1>1, <1>2, HistoryImplements, TypeCorrect, PTL DEF HistorySpec
-----------------------------------------------------------------------------
(* The table deduplication_keys remembers every acceptance of the window,  *)
(* with its moment, across retries, deletions, purges, changes of scope    *)
(* and receive transactions that fail (find_duplicate, insert_message).    *)
THEOREM KeysRemember == HistorySpec => []KeysRememberAcceptance
<1>1. HistoryInv => KeysRememberAcceptance
  BY DEF HistoryInv
<1>2. QED
  BY <1>1, HistoryHolds, PTL

(* No message is enqueued within the window of another with its            *)
(* deduplication id in its scope, whatever happens in between              *)
(* (Lqs::send, find_duplicate).                                            *)
THEOREM AcceptedOnce == HistorySpec => DeduplicationHolds
<1>1. ASSUME TypeOK, HistoryInv, [HistoryNext]_historyVars,
             NEW q \in Queue, NEW d \in DedupId, NEW g \in Group,
             lastAccepted'[<<q, g, d>>] # lastAccepted[<<q, g, d>>], NEW h \in Group,
             settings[q].perGroup => h = g, lastAccepted[<<q, h, d>>] # Never
      PROVE  lastAccepted'[<<q, g, d>>] >= lastAccepted[<<q, h, d>>] + DeduplicationWindow
  <2>1. HistoryTyped
    BY <1>1 DEF HistoryInv
  <2>2. PICK p \in Queue, i \in Group, e \in DedupId :
          /\ SendFifo(p, i, e, now)
          /\ lastAccepted' = [lastAccepted EXCEPT ![<<p, i, e>>] = now]
    BY <1>1, <2>1, HistorySteps, QueueStoreAssumption, MessageRowsAssumption
  <2>3. q = p /\ g = i /\ d = e
    BY <1>1, <2>1, <2>2 DEF HistoryTyped
  <2>4. lastAccepted'[<<q, g, d>>] = now
    BY <2>1, <2>2, <2>3 DEF HistoryTyped
  <2>5. /\ now \in Nat /\ DeduplicationWindow \in Nat
        /\ lastAccepted[<<q, h, d>>] \in Nat
    BY <1>1, <2>1, QueueStoreAssumption DEF HistoryTyped, TypeOK, QueueStoreAssumption
  <2>6. lastAccepted[<<q, h, d>>] + DeduplicationWindow <= now
    BY <1>1, <2>2, <2>3, NoneWithinWindow, QueueStoreAssumption
  <2>7. QED
    BY <2>4, <2>5, <2>6
<1>2. TypeOK /\ HistoryInv /\ [HistoryNext]_historyVars =>
        [\A q \in Queue, d \in DedupId, g \in Group :
          lastAccepted'[<<q, g, d>>] # lastAccepted[<<q, g, d>>] =>
            \A h \in Group :
                \/ settings[q].perGroup /\ h # g
                \/ lastAccepted[<<q, h, d>>] = Never
                \/ lastAccepted'[<<q, g, d>>]
                     >= lastAccepted[<<q, h, d>>] + DeduplicationWindow]_historyVars
  BY <1>1
<1>3. QED
  BY <1>2, HistoryHolds, PTL DEF HistorySpec, DeduplicationHolds
-----------------------------------------------------------------------------
(* Batches                                                                 *)

\* The numbers of a batch that runs end at the counter.
Consecutive(sent, next) == \E first \in Nat : sent = first .. next - 1

BatchInv ==
    /\ TypeOK
    /\ batch \in [Caller -> Request \cup {NoBatch}]
    /\ \A c \in Caller :
        /\ batch[c].stage = "waiting" => batch[c].sent = {}
        /\ batch[c].stage = "running" =>
            tx = Idle /\ Consecutive(batch[c].sent, nextSequence)
    /\ \A c, d \in Caller :
        batch[c].stage = "running" /\ batch[d].stage = "running" => c = d

(* The entries of a batch are operations of the store with an older clock  *)
(* reading.                                                                *)
LEMMA EntryOperationStep ==
    ASSUME TypeOK, QueueStoreAssumption, NEW b \in Request, EntryOperation(b)
    PROVE  TypeOK' /\ tx' = Idle /\ nextSequence' \in {nextSequence, nextSequence + 1}
<1>1. b.queue \in Queue /\ b.at \in Nat
  BY DEF Request
<1>2. CASE SendTo(b.queue, b.at)
  <2>1. tx' = Idle /\ nextSequence' \in {nextSequence, nextSequence + 1}
    BY <1>2 DEF SendTo, SendStandard, SendFifo, SendDuplicate, Enqueue, txVars
  <2>2. QED
    BY <1>1, <1>2, <2>1, SendType
<1>3. ASSUME NEW s \in RowsOf(messages, b.queue), Delete(s)
      PROVE  TypeOK' /\ tx' = Idle /\ nextSequence' = nextSequence
  BY <1>3, DeleteType DEF Delete, txVars, RowsOf
<1>4. ASSUME NEW s \in RowsOf(messages, b.queue), NEW timeout \in Timeouts,
             ChangeVisibility(s, timeout, b.at)
      PROVE  TypeOK' /\ tx' = Idle /\ nextSequence' = nextSequence
  <2>1. timeout \in Nat /\ s \in DOMAIN messages
    BY QueueStoreAssumption DEF QueueStoreAssumption, RowsOf
  <2>2. QED
    BY <1>1, <1>4, <2>1, ChangeVisibilityType DEF ChangeVisibility, txVars
<1>5. QED
  BY <1>2, <1>3, <1>4 DEF EntryOperation

(* One entry continues the numbers of its batch.                           *)
LEMMA EntryContinues ==
    ASSUME BatchInv, QueueStoreAssumption, NEW c \in Caller, Entry(c)
    PROVE  BatchInv'
<1>1. /\ batch[c] \in Request /\ batch[c].stage = "running" /\ batch[c].left \in 1 .. 10
      /\ TypeOK /\ tx = Idle /\ nextSequence \in Nat
      /\ batch \in [Caller -> Request \cup {NoBatch}]
      /\ \A d \in Caller \ {c} : batch[d].stage # "running"
  BY DEF BatchInv, Entry, NoBatch, Request, TypeOK
<1>2. TypeOK' /\ tx' = Idle /\ nextSequence' \in {nextSequence, nextSequence + 1}
  <2>1. CASE UNCHANGED vars
    <3>1. TypeOK'
      BY <1>1, <2>1, TypeStep
    <3>2. QED
      BY <1>1, <2>1, <3>1 DEF vars
  <2>2. QED
    BY <1>1, <2>1, EntryOperationStep DEF Entry
<1> DEFINE numbers == batch[c].sent \cup (nextSequence .. nextSequence' - 1)
<1>3. PICK first \in Nat : batch[c].sent = first .. nextSequence - 1
  BY <1>1 DEF BatchInv, Consecutive
<1>4. numbers = first .. nextSequence' - 1 \/ numbers = nextSequence .. nextSequence' - 1
  <2> DEFINE next == nextSequence  after == nextSequence'
  <2>1. /\ next \in Nat /\ after \in {next, next + 1}
        /\ numbers = (first .. next - 1) \cup (next .. after - 1)
    BY <1>1, <1>2, <1>3
  <2> HIDE DEF next, after, numbers
  <2>2. CASE after = next
    <3>1. next .. after - 1 = {}
      BY ONLY <2>1, <2>2
    <3>2. QED
      BY ONLY <2>1, <2>2, <3>1 DEF next, after
  <2>3. CASE after = next + 1
    <3>1. next .. after - 1 = {next}
      BY ONLY <2>1, <2>3
    <3>2. CASE first <= next
      <4>1. (first .. next - 1) \cup {next} = first .. after - 1
        BY ONLY <2>1, <2>3, <3>2, first \in Nat
      <4>2. QED
        BY ONLY <2>1, <3>1, <4>1 DEF next, after
    <3>3. CASE ~ (first <= next)
      <4>1. first .. next - 1 = {}
        BY ONLY <2>1, <3>3, first \in Nat
      <4>2. QED
        BY ONLY <2>1, <4>1 DEF next, after
    <3>4. QED
      BY <3>2, <3>3
  <2>4. QED
    BY <2>1, <2>2, <2>3
<1>5. Consecutive(numbers, nextSequence') /\ numbers \subseteq Nat
  BY <1>1, <1>4 DEF Consecutive
<1> HIDE DEF numbers
<1>6. batch' = [batch EXCEPT ![c].left = batch[c].left - 1, ![c].sent = numbers]
  BY DEF Entry, numbers
<1>7. /\ batch' \in [Caller -> Request \cup {NoBatch}]
      /\ batch'[c].stage = "running" /\ batch'[c].sent = numbers
      /\ \A d \in Caller \ {c} : batch'[d] = batch[d]
  <2>0. batch[c].left - 1 \in 0 .. 10
    BY <1>1
  <2>1. [batch[c] EXCEPT !.left = batch[c].left - 1, !.sent = numbers] \in Request
    BY <1>1, <1>5, <2>0 DEF Request
  <2>2. /\ [batch[c] EXCEPT !.left = batch[c].left - 1, !.sent = numbers].stage = "running"
        /\ [batch[c] EXCEPT !.left = batch[c].left - 1, !.sent = numbers].sent = numbers
    BY <1>1 DEF Request
  <2>3. batch'[c] = [batch[c] EXCEPT !.left = batch[c].left - 1, !.sent = numbers]
    BY <1>1, <1>6 DEF Request
  <2>4. \A d \in Caller \ {c} : batch'[d] = batch[d]
    BY <1>1, <1>6
  <2>5. DOMAIN batch' = Caller /\ batch' = [d \in Caller |-> batch'[d]]
    BY <1>1, <1>6
  <2>6. QED
    BY <1>1, <2>1, <2>2, <2>3, <2>4, <2>5
<1>8. QED
  BY <1>1, <1>2, <1>5, <1>7 DEF BatchInv

(* The other steps of batches leave the store alone.                       *)
LEMMA BatchBeside ==
    ASSUME BatchInv, QueueStoreAssumption, UNCHANGED vars, NEW c \in Caller,
           \/ Lock(c) \/ Refuse(c) \/ Unlock(c)
           \/ \E action \in {"Send", "Delete", "ChangeVisibility"},
                 q \in Sendable, n \in EntryCounts : ReadClock(c, action, q, n)
    PROVE  BatchInv'
<1>1. /\ batch \in [Caller -> Request \cup {NoBatch}] /\ TypeOK /\ now \in Nat
      /\ nextSequence \in Nat \ {0} /\ UNCHANGED <<tx, nextSequence>>
  BY DEF BatchInv, TypeOK, vars
<1>2. TypeOK'
  BY <1>1, TypeStep
<1>3. ASSUME NEW b \in Request \cup {NoBatch}, batch' = [batch EXCEPT ![c] = b],
             b.stage = "running" =>
                /\ tx = Idle /\ Consecutive(b.sent, nextSequence)
                /\ \A d \in Caller : batch[d].stage # "running",
             b.stage = "waiting" => b.sent = {}
      PROVE  BatchInv'
  <2>1. /\ batch' \in [Caller -> Request \cup {NoBatch}] /\ batch'[c] = b
        /\ \A d \in Caller \ {c} : batch'[d] = batch[d]
    BY <1>1, <1>3
  <2>2. QED
    BY <1>1, <1>2, <1>3, <2>1 DEF BatchInv
<1>4. CASE batch' = [batch EXCEPT ![c] = NoBatch]
  BY <1>3, <1>4 DEF NoBatch
<1>5. ASSUME NEW action \in {"Send", "Delete", "ChangeVisibility"}, NEW q \in Sendable,
             NEW n \in EntryCounts, ReadClock(c, action, q, n)
      PROVE  BatchInv'
  <2> DEFINE b == [stage |-> "waiting", action |-> action, queue |-> q, at |-> now,
                   left |-> n, sent |-> {}]
  <2>1. n \in 0 .. 10 /\ q \in Queue
    BY QueueStoreAssumption, BatchAssumption DEF QueueStoreAssumption, BatchAssumption
  <2>2. b \in Request /\ b.stage = "waiting" /\ b.sent = {}
    BY <1>1, <2>1 DEF Request
  <2>3. batch' = [batch EXCEPT ![c] = b]
    BY <1>5 DEF ReadClock
  <2> HIDE DEF b
  <2>4. QED
    BY <1>3, <2>2, <2>3
<1>6. CASE Lock(c)
  <2> DEFINE b == [batch[c] EXCEPT !.stage = "running"]
  <2>1. batch[c] \in Request /\ batch[c].sent = {}
    BY <1>1, <1>6 DEF Lock, BatchInv, NoBatch
  <2>2. b \in Request /\ b.stage = "running" /\ b.sent = {}
    BY <2>1 DEF Request
  <2>3. batch' = [batch EXCEPT ![c] = b]
    BY <1>1, <1>6 DEF Lock
  <2> HIDE DEF b
  <2>4. {} = nextSequence .. nextSequence - 1
    BY <1>1
  <2>5. Consecutive({}, nextSequence)
    BY <1>1, <2>4 DEF Consecutive
  <2>6. tx = Idle /\ \A d \in Caller : batch[d].stage # "running"
    BY <1>6 DEF Lock, MutexFree
  <2>7. QED
    BY <1>3, <2>2, <2>3, <2>5, <2>6
<1>7. QED
  BY <1>4, <1>5, <1>6 DEF Refuse, Unlock

(* A batch that holds the mutex has the numbers up to the counter for      *)
(* itself.                                                                 *)
LEMMA BatchStep ==
    ASSUME BatchInv, QueueStoreAssumption, [BatchNext]_batchVars
    PROVE  BatchInv'
<1>1. TypeOK /\ batch \in [Caller -> Request \cup {NoBatch}]
  BY DEF BatchInv
<1>2. ASSUME NEW c \in Caller, Lock(c) \/ Refuse(c) \/ Unlock(c)
             \/ \E action \in {"Send", "Delete", "ChangeVisibility"},
                   q \in Sendable, n \in EntryCounts : ReadClock(c, action, q, n)
      PROVE  BatchInv'
  <2>1. UNCHANGED vars
    BY <1>2 DEF Lock, Refuse, Unlock, ReadClock
  <2>2. QED
    BY <1>2, <2>1, BatchBeside
<1>3. CASE Crash
  <2>1. [Next]_vars
    BY <1>3 DEF Crash, Operation, Next
  <2>2. TypeOK'
    BY <1>1, <2>1, TypeStep
  <2>3. QED
    BY <1>3, <2>2 DEF Crash, BatchInv, NoBatch
<1>4. CASE SingleRequest
  <2>1. TypeOK'
    BY <1>1, <1>4, TypeStep DEF SingleRequest, Next
  <2>2. \A c \in Caller : batch'[c] = batch[c] /\ batch[c].stage # "running"
    BY <1>4 DEF SingleRequest, MutexFree
  <2>3. QED
    BY <1>4, <2>1, <2>2 DEF SingleRequest, BatchInv
<1>5. CASE (Tick /\ UNCHANGED batch) \/ UNCHANGED batchVars
  <2>1. [Next]_vars /\ UNCHANGED <<batch, tx, nextSequence>>
    BY <1>5 DEF Next, batchVars, vars, Tick, store, txVars
  <2>2. TypeOK'
    BY <1>1, <2>1, TypeStep
  <2>3. QED
    BY <2>1, <2>2 DEF BatchInv
<1>6. QED
  BY <1>2, <1>3, <1>4, <1>5, EntryContinues DEF BatchNext

(* No batch and an empty database.                                         *)
LEMMA BatchStarts == BatchInit => BatchInv /\ ConstraintsInv
<1>1. ASSUME Init PROVE TypeOK
  BY <1>1, EmptyIsTable, QueueStoreAssumption
     DEF Init, TypeOK, Idle, Never, QueueStoreAssumption
<1>2. ASSUME Init PROVE ConstraintsInv
  BY <1>2, ConstraintsStart
<1>3. QED
  BY <1>1, <1>2 DEF BatchInit, BatchInv, NoBatch

(* The messages of a batch have consecutive sequence numbers: for any      *)
(* number of clients that send batches and single requests, and any sizes. *)
THEOREM BatchesContiguous == BatchSpec => []BatchContiguous
<1>1. BatchInit => BatchInv
  BY BatchStarts
<1>2. BatchInv /\ [BatchNext]_batchVars => BatchInv'
  BY BatchStep, QueueStoreAssumption
<1>3. BatchInv => BatchContiguous
  <2>1. SUFFICES ASSUME BatchInv, NEW c \in Caller, batch[c] # NoBatch,
                        NEW first \in batch[c].sent, NEW last \in batch[c].sent
                 PROVE  first .. last \subseteq batch[c].sent
    BY DEF BatchContiguous
  <2>2. batch[c] \in Request /\ nextSequence \in Nat
    BY <2>1 DEF BatchInv, TypeOK
  <2>3. CASE batch[c].stage = "running"
    <3>1. PICK low \in Nat : batch[c].sent = low .. nextSequence - 1
      BY <2>1, <2>3 DEF BatchInv, Consecutive
    <3>2. QED
      BY <2>1, <2>2, <3>1
  <2>4. CASE batch[c].stage = "waiting"
    BY <2>1, <2>4 DEF BatchInv
  <2>5. QED
    BY <2>2, <2>3, <2>4 DEF Request
<1>4. QED
  BY <1>1, <1>2, <1>3, PTL DEF BatchSpec

(* An entry keeps the constraints of the store, with whatever clock        *)
(* reading its batch has taken.                                            *)
LEMMA EntryConstraints ==
    ASSUME TypeOK, ConstraintsInv, NEW b \in Request, EntryOperation(b)
    PROVE  ConstraintsInv'
<1>1. b.queue \in Queue /\ b.at \in Nat
  BY DEF Request
<1>2. CASE SendTo(b.queue, b.at)
  BY <1>1, <1>2, SendConstraints
<1>3. ASSUME NEW s \in RowsOf(messages, b.queue), Delete(s)
      PROVE  ConstraintsInv'
  BY <1>3, DeleteConstraints
<1>4. ASSUME NEW s \in RowsOf(messages, b.queue), NEW timeout \in Timeouts,
             ChangeVisibility(s, timeout, b.at)
      PROVE  ConstraintsInv'
  BY <1>4, ChangeVisibilityConstraints
<1>5. QED
  BY <1>2, <1>3, <1>4 DEF EntryOperation

(* So does every step of a server with batches: what is not an entry is a  *)
(* step of the store or leaves it alone.                                   *)
LEMMA BatchKeepsConstraints ==
    ASSUME BatchInv, ConstraintsInv, QueueStoreAssumption, [BatchNext]_batchVars
    PROVE  ConstraintsInv'
<1>1. TypeOK /\ batch \in [Caller -> Request \cup {NoBatch}]
  BY DEF BatchInv
<1>2. ASSUME [Next]_vars PROVE ConstraintsInv'
  BY <1>1, <1>2, ConstraintsStep
<1>3. ASSUME NEW c \in Caller, Entry(c) PROVE ConstraintsInv'
  <2>1. batch[c] \in Request
    BY <1>1, <1>3 DEF Entry, NoBatch
  <2>2. CASE EntryOperation(batch[c])
    BY <1>1, <2>1, <2>2, EntryConstraints
  <2>3. CASE UNCHANGED vars
    BY <1>2, <2>3
  <2>4. QED
    BY <1>3, <2>2, <2>3 DEF Entry
<1>4. ASSUME NEW c \in Caller, Lock(c) \/ Refuse(c) \/ Unlock(c)
             \/ \E action \in {"Send", "Delete", "ChangeVisibility"},
                   q \in Sendable, n \in EntryCounts : ReadClock(c, action, q, n)
      PROVE  ConstraintsInv'
  <2>1. UNCHANGED vars
    BY <1>4 DEF Lock, Refuse, Unlock, ReadClock
  <2>2. QED
    BY <1>2, <2>1
<1>5. CASE Crash \/ SingleRequest \/ (Tick /\ UNCHANGED batch) \/ UNCHANGED batchVars
  <2>1. [Next]_vars
    BY <1>5 DEF Crash, SingleRequest, Operation, Next, batchVars
  <2>2. QED
    BY <1>2, <2>1
<1>6. QED
  BY <1>3, <1>4, <1>5 DEF BatchNext

(* No UNIQUE constraint and no primary key trips under batches either,     *)
(* whose entries use clock readings of any age.                            *)
THEOREM BatchConstraintsHold == BatchSpec => []ConstraintsNeverTrip
<1>1. BatchInit => BatchInv /\ ConstraintsInv
  BY BatchStarts DEF BatchInit
<1>2. BatchInv /\ ConstraintsInv /\ [BatchNext]_batchVars
        => BatchInv' /\ ConstraintsInv'
  BY BatchStep, BatchKeepsConstraints, QueueStoreAssumption
<1>3. ConstraintsInv => ConstraintsNeverTrip
  BY DEF ConstraintsInv
<1>4. QED
  BY <1>1, <1>2, <1>3, PTL DEF BatchSpec
=============================================================================
