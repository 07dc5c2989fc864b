------------------------ MODULE QueueCatalog_proofs -------------------------
(***************************************************************************)
(* Proofs about QueueCatalogSafety, for any number of queues, messages,    *)
(* tags and attempts: no row dangles, stored answers are current, a long   *)
(* poll meets one queue only, a listing answers what it should.            *)
(***************************************************************************)
EXTENDS QueueCatalogSafety, FiniteSetTheorems, WellFoundedInduction, TLAPS

\* The types of the tables; that of a listing's answer is not needed.
TablesTyped ==
    /\ now \in Nat
    /\ queues \subseteq Name
    /\ DOMAIN tombstones \subseteq Name
    /\ \A q \in DOMAIN tombstones : tombstones[q] \in Nat
    /\ nextSequence \in Nat \ {0}
    /\ DOMAIN messages \subseteq 1 .. nextSequence - 1
    /\ \A s \in DOMAIN messages : messages[s] \in [queue : Name, receives : Nat]
    /\ attempts \subseteq Attempt

\* A member of a stored answer has been received.
MembersReceived == \A a \in attempts : \A m \in a.members : m[2] > 0

TablesInv == TablesTyped /\ NoDanglingRows /\ AnswersCurrent /\ MembersReceived
-----------------------------------------------------------------------------
(* What is left of stored attempts                                         *)

(* An attempt that stays valid was there and holds no lost row.            *)
LEMMA InvalidatedValid ==
    ASSUME NEW set, set \subseteq Attempt, NEW lost, NEW a \in Invalidated(set, lost), a.valid
    PROVE  a \in set /\ \A m \in a.members : m[1] \notin lost
<1>1. PICK b \in set :
        a = IF \E m \in b.members : m[1] \in lost THEN [b EXCEPT !.valid = FALSE] ELSE b
  BY DEF Invalidated
<1>2. b \in Attempt
  OBVIOUS
<1>3. CASE \E m \in b.members : m[1] \in lost
  BY <1>1, <1>2, <1>3 DEF Attempt
<1>4. CASE ~ \E m \in b.members : m[1] \in lost
  BY <1>1, <1>4
<1>5. QED
  BY <1>3, <1>4

(* Invalidation changes neither the queue of an attempt nor its members.   *)
LEMMA InvalidatedTyped ==
    ASSUME NEW set, set \subseteq Attempt, NEW lost, NEW a \in Invalidated(set, lost)
    PROVE  a \in Attempt /\ \E b \in set : b.queue = a.queue /\ b.members = a.members
<1>1. PICK b \in set :
        a = IF \E m \in b.members : m[1] \in lost THEN [b EXCEPT !.valid = FALSE] ELSE b
  BY DEF Invalidated
<1>2. b \in Attempt
  OBVIOUS
<1>3. a = b \/ a = [b EXCEPT !.valid = FALSE]
  BY <1>1
<1>4. QED
  BY <1>2, <1>3 DEF Attempt

\* What invalidation leaves of the attempts of a table when rows are lost.
Left(a, lost) ==
    /\ a \in Attempt
    /\ \E b \in attempts : b.queue = a.queue /\ b.members = a.members
    /\ a.valid => a \in attempts /\ \A m \in a.members : m[1] \notin lost

(* Both facts for the table of attempts.                                   *)
LEMMA InvalidatedLeft ==
    ASSUME TablesTyped, NEW lost
    PROVE  \A a \in Invalidated(attempts, lost) : Left(a, lost)
<1>1. attempts \subseteq Attempt
  BY DEF TablesTyped
<1>2. ASSUME NEW a \in Invalidated(attempts, lost)
      PROVE  Left(a, lost)
  <2>1. a \in Attempt /\ \E b \in attempts : b.queue = a.queue /\ b.members = a.members
    BY <1>1, InvalidatedTyped
  <2>2. a.valid => a \in attempts /\ \A m \in a.members : m[1] \notin lost
    BY <1>1, InvalidatedValid
  <2>3. QED
    BY <2>1, <2>2 DEF Left
<1>3. QED
  BY <1>2

(* Answers stay current when every row that changes was lost to them.      *)
LEMMA AnswersKept ==
    ASSUME AnswersCurrent, NEW lost,
           \A a \in attempts' : a.valid => a \in attempts /\ \A m \in a.members : m[1] \notin lost,
           \A s \in DOMAIN messages \ lost :
                /\ s \in DOMAIN messages'
                /\ messages'[s] = messages[s]
                /\ OriginOf(s)' = OriginOf(s)
    PROVE  AnswersCurrent'
BY DEF AnswersCurrent
-----------------------------------------------------------------------------
(* One lemma for each operation                                            *)

(* A queue that is created refers to queues that exist.                    *)
LEMMA CreateKeeps ==
    ASSUME TablesInv, NEW q \in Name, NEW d \in Name \cup {NoQueue},
           NEW keys \in SUBSET Tag, CreateQueue(q, d, keys)
    PROVE  TablesInv'
<1> USE DEF TablesInv
<1>1. UNCHANGED <<now, messages, nextSequence, origins, attempts>>
      /\ queues' = queues \cup {q} /\ tombstones' = Without(tombstones, {q})
      /\ policies' = PolicyWritten(q, d) /\ tags' = tags \cup ({q} \X keys)
      /\ q \notin queues /\ PolicyAllowed(q, d, queues \cup {q})
  BY DEF CreateQueue
<1>2. TablesTyped'
  BY <1>1 DEF TablesTyped, Without
<1>3. AnswersCurrent' /\ MembersReceived'
  BY <1>1 DEF AnswersCurrent, MembersReceived, OriginOf
<1>4. \A p \in DOMAIN policies' :
        /\ p \in queues' /\ policies'[p] \in queues'
        /\ p # policies'[p]
        /\ p \in Fifo <=> policies'[p] \in Fifo
  <2>1. CASE d = NoQueue
    BY <1>1, <2>1 DEF PolicyWritten, Without, NoDanglingRows
  <2>2. CASE d # NoQueue
    BY <1>1, <2>2 DEF PolicyWritten, With, PolicyAllowed, NoDanglingRows
  <2>3. QED
    BY <2>1, <2>2
<1>5. DOMAIN tombstones' \cap queues' = {}
  BY <1>1 DEF Without, NoDanglingRows
<1>6. \A t \in tags' : t[1] \in queues'
  BY <1>1 DEF NoDanglingRows
<1>7. NoDanglingRows'
  BY <1>1, <1>4, <1>5, <1>6 DEF NoDanglingRows
<1>8. QED
  BY <1>2, <1>3, <1>7

(* A queue that is deleted takes along every row that refers to it.        *)
LEMMA DeleteKeeps ==
    ASSUME TablesInv, NEW q \in Name, DeleteQueue(q)
    PROVE  TablesInv'
<1> USE DEF TablesInv
<1> DEFINE told == {s \in DOMAIN messages : OriginOf(s) = q /\ messages[s].receives > 0}
<1>1. /\ UNCHANGED <<now, nextSequence>>
      /\ queues' = queues \ {q} /\ tombstones' = With(tombstones, q, now)
      /\ policies' = Detached(q) /\ tags' = {t \in tags : t[1] # q}
      /\ messages' = Without(messages, RowsOf(q))
      /\ origins' = Without(origins, RowsOf(q) \cup {s \in DOMAIN origins : origins[s] = q})
      /\ attempts' = {a \in Invalidated(Invalidated(attempts, told), RowsOf(q)) : a.queue # q}
  BY DEF DeleteQueue, OriginAttempts
<1>2. Invalidated(attempts, told) \subseteq Attempt
  BY InvalidatedTyped DEF TablesTyped
<1>3. ASSUME NEW a \in attempts'
      PROVE  /\ a \in Attempt /\ a.queue # q
             /\ \E b \in attempts : b.queue = a.queue /\ b.members = a.members
             /\ a.valid => a \in attempts /\ \A m \in a.members : m[1] \notin told \cup RowsOf(q)
  <2>1. a \in Invalidated(Invalidated(attempts, told), RowsOf(q)) /\ a.queue # q
    BY <1>1
  <2>2. a \in Attempt
        /\ \E b \in Invalidated(attempts, told) : b.queue = a.queue /\ b.members = a.members
    BY <1>2, <2>1, InvalidatedTyped
  <2>3. \A b \in Invalidated(attempts, told) :
            \E c \in attempts : c.queue = b.queue /\ c.members = b.members
    BY InvalidatedTyped DEF TablesTyped
  <2>4. a.valid => a \in Invalidated(attempts, told) /\ \A m \in a.members : m[1] \notin RowsOf(q)
    BY <1>2, <2>1, InvalidatedValid
  <2>5. a.valid => a \in attempts /\ \A m \in a.members : m[1] \notin told
    BY <2>4, InvalidatedValid DEF TablesTyped
  <2>6. QED
    BY <2>1, <2>2, <2>3, <2>4, <2>5
<1>4. TablesTyped'
  <2>1. attempts' \subseteq Attempt
    BY <1>3
  <2>2. DOMAIN tombstones' \subseteq Name /\ \A n \in DOMAIN tombstones' : tombstones'[n] \in Nat
    BY <1>1 DEF With, TablesTyped
  <2>3. DOMAIN messages' \subseteq DOMAIN messages
        /\ \A s \in DOMAIN messages' : messages'[s] = messages[s]
    BY <1>1 DEF Without
  <2>4. QED
    BY <1>1, <2>1, <2>2, <2>3 DEF TablesTyped
<1>5. MembersReceived'
  BY <1>3 DEF MembersReceived
<1>6. AnswersCurrent'
  <2>1. SUFFICES ASSUME NEW a \in attempts', a.valid, NEW m \in a.members
                 PROVE  /\ m[1] \in DOMAIN messages' /\ messages'[m[1]].queue = a.queue
                        /\ messages'[m[1]].receives = m[2] /\ OriginOf(m[1])' = m[3]
    BY DEF AnswersCurrent
  <2>2. a \in attempts /\ m[1] \notin told \cup RowsOf(q)
    BY <1>3, <2>1
  <2>3. /\ m[1] \in DOMAIN messages /\ messages[m[1]].queue = a.queue
        /\ messages[m[1]].receives = m[2] /\ OriginOf(m[1]) = m[3] /\ m[2] > 0
    BY <2>1, <2>2 DEF AnswersCurrent, MembersReceived
  <2>4. OriginOf(m[1]) # q
    BY <2>2, <2>3
  <2>5. OriginOf(m[1])' = OriginOf(m[1])
    BY <1>1, <2>2, <2>4 DEF OriginOf, Without
  <2>6. QED
    BY <1>1, <2>2, <2>3, <2>5 DEF Without
<1>7. NoDanglingRows'
  <2>1. \A p \in DOMAIN policies' :
          /\ p \in queues' /\ policies'[p] \in queues'
          /\ p # policies'[p]
          /\ p \in Fifo <=> policies'[p] \in Fifo
    BY <1>1 DEF Detached, Without, NoDanglingRows
  <2>2. \A s \in DOMAIN messages' : messages'[s].queue \in queues'
    BY <1>1 DEF Without, RowsOf, NoDanglingRows
  <2>3. \A s \in DOMAIN origins' : s \in DOMAIN messages' /\ origins'[s] \in queues'
    BY <1>1 DEF Without, RowsOf, NoDanglingRows
  <2>4. \A a \in attempts' : a.queue \in queues'
    BY <1>1, <1>3 DEF NoDanglingRows
  <2>5. DOMAIN tombstones' \cap queues' = {} /\ \A t \in tags' : t[1] \in queues'
    BY <1>1 DEF With, NoDanglingRows
  <2>6. QED
    BY <2>1, <2>2, <2>3, <2>4, <2>5 DEF NoDanglingRows
<1>8. QED
  BY <1>4, <1>5, <1>6, <1>7

(* Redrive policies and tags refer to queues that exist.                   *)
LEMMA SettingsKeep ==
    ASSUME TablesInv, NEW q \in Name, NEW d \in Name \cup {NoQueue}, NEW keys \in SUBSET Tag,
           SetRedrivePolicy(q, d) \/ TagQueue(q, keys) \/ UntagQueue(q, keys)
    PROVE  TablesInv'
<1> USE DEF TablesInv
<1>1. /\ UNCHANGED <<now, queues, tombstones, messages, nextSequence, origins, attempts>>
      /\ q \in queues /\ tags' \subseteq tags \cup ({q} \X keys)
      /\ \/ policies' = policies
         \/ policies' = PolicyWritten(q, d) /\ PolicyAllowed(q, d, queues)
  BY DEF SetRedrivePolicy, TagQueue, UntagQueue, rows
<1>2. TablesTyped' /\ AnswersCurrent' /\ MembersReceived'
  BY <1>1 DEF TablesTyped, AnswersCurrent, MembersReceived, OriginOf
<1>3. \A p \in DOMAIN policies' :
        /\ p \in queues' /\ policies'[p] \in queues'
        /\ p # policies'[p]
        /\ p \in Fifo <=> policies'[p] \in Fifo
  <2>1. CASE policies' = policies
    BY <1>1, <2>1 DEF NoDanglingRows
  <2>2. CASE d = NoQueue /\ policies' = PolicyWritten(q, d)
    BY <1>1, <2>2 DEF PolicyWritten, Without, NoDanglingRows
  <2>3. CASE d # NoQueue /\ policies' = PolicyWritten(q, d) /\ PolicyAllowed(q, d, queues)
    BY <1>1, <2>3 DEF PolicyWritten, With, PolicyAllowed, NoDanglingRows
  <2>4. QED
    BY <1>1, <2>1, <2>2, <2>3
<1>4. \A t \in tags' : t[1] \in queues'
  BY <1>1 DEF NoDanglingRows
<1>5. NoDanglingRows'
  BY <1>1, <1>3, <1>4 DEF NoDanglingRows
<1>6. QED
  BY <1>2, <1>5

(* A message that is sent has a queue, and a new sequence number.          *)
LEMMA SendKeeps ==
    ASSUME TablesInv, NEW q \in Name, Send(q)
    PROVE  TablesInv'
<1> USE DEF TablesInv
<1>1. /\ UNCHANGED <<now, queues, tombstones, policies, tags, origins, attempts>>
      /\ q \in queues /\ nextSequence' = nextSequence + 1
      /\ messages' = With(messages, nextSequence, [queue |-> q, receives |-> 0])
  BY DEF Send
<1>2. nextSequence \notin DOMAIN messages /\ nextSequence \in Nat \ {0}
  BY DEF TablesTyped
<1>3. /\ DOMAIN messages' = DOMAIN messages \cup {nextSequence}
      /\ \A s \in DOMAIN messages : messages'[s] = messages[s]
      /\ messages'[nextSequence] = [queue |-> q, receives |-> 0]
  BY <1>1, <1>2 DEF With
<1>4. TablesTyped'
  <2>1. /\ DOMAIN messages' \subseteq 1 .. nextSequence' - 1 /\ nextSequence' \in Nat \ {0}
        /\ \A x \in DOMAIN messages' : messages'[x] \in [queue : Name, receives : Nat]
    BY <1>1, <1>2, <1>3 DEF TablesTyped
  <2>2. QED
    BY <1>1, <2>1 DEF TablesTyped
<1>5. AnswersCurrent'
  BY <1>1, <1>3 DEF OriginOf, AnswersCurrent
<1>6. NoDanglingRows'
  BY <1>1, <1>3 DEF NoDanglingRows
<1>7. QED
  BY <1>1, <1>4, <1>5, <1>6 DEF MembersReceived

(* A receive leaves old answers that hold none of its messages.            *)
LEMMA ReceiveKeeps ==
    ASSUME TablesInv, NEW q \in Name, NEW taken, NEW id \in AttemptId \cup {NoAttempt},
           Receive(q, taken, id)
    PROVE  TablesInv'
<1> USE DEF TablesInv
<1> DEFINE answer == [queue |-> q, id |-> id, valid |-> TRUE,
                      members |-> {<<s, messages[s].receives + 1, OriginOf(s)>> : s \in taken}]
<1>1. /\ UNCHANGED <<now, queues, tombstones, policies, tags, nextSequence, origins>>
      /\ q \in queues /\ taken \subseteq DOMAIN messages
      /\ \A s \in taken : messages[s].queue = q
      /\ attempts' = Invalidated(attempts, taken) \cup (IF id = NoAttempt THEN {} ELSE {answer})
      /\ messages' = [s \in DOMAIN messages |->
              IF s \in taken THEN [messages[s] EXCEPT !.receives = @ + 1] ELSE messages[s]]
  BY DEF Receive, RowsOf
<1>2. \A s \in DOMAIN messages : messages[s] \in [queue : Name, receives : Nat]
  BY DEF TablesTyped
<1>3. /\ DOMAIN messages' = DOMAIN messages
      /\ \A s \in DOMAIN messages \ taken : messages'[s] = messages[s]
      /\ \A s \in taken : messages'[s] = [queue |-> q, receives |-> messages[s].receives + 1]
  BY <1>1, <1>2
<1>4. \A s : OriginOf(s) \in Name \cup {NoQueue} /\ OriginOf(s)' = OriginOf(s)
  BY <1>1 DEF OriginOf, NoDanglingRows, TablesTyped
<1>5. ASSUME id # NoAttempt
      PROVE  answer \in Attempt /\ \A m \in answer.members : m[2] > 0
  <2>1. \A s \in taken : /\ s \in Nat /\ messages[s].receives + 1 \in Nat
                         /\ messages[s].receives + 1 > 0
    BY <1>1, <1>2 DEF TablesTyped
  <2>2. \A m \in answer.members :
            m \in Nat \X Nat \X (Name \cup {NoQueue}) /\ m[2] > 0
    BY <1>4, <2>1
  <2>3. QED
    BY <1>5, <2>2 DEF Attempt
<1> HIDE DEF answer
<1>6. TablesTyped' /\ MembersReceived'
  <2>1. \A a \in Invalidated(attempts, taken) : a \in Attempt /\ \A m \in a.members : m[2] > 0
    BY InvalidatedLeft DEF Left, MembersReceived
  <2>2. \A a \in attempts' : a \in Attempt /\ \A m \in a.members : m[2] > 0
    <3>1. CASE id = NoAttempt
      BY <1>1, <2>1, <3>1
    <3>2. CASE id # NoAttempt
      BY <1>1, <1>5, <2>1, <3>2
    <3>3. QED
      BY <3>1, <3>2
  <2>3. \A s \in DOMAIN messages' : messages'[s] \in [queue : Name, receives : Nat]
    <3>1. \A s \in taken : messages[s].receives + 1 \in Nat
      BY <1>1, <1>2
    <3>2. \A s \in taken : messages'[s] \in [queue : Name, receives : Nat]
      <4>1. SUFFICES ASSUME NEW s \in taken
                     PROVE  messages'[s] \in [queue : Name, receives : Nat]
        OBVIOUS
      <4>2. messages'[s] = [queue |-> q, receives |-> messages[s].receives + 1]
        BY <1>3
      <4>3. messages[s].receives + 1 \in Nat
        BY <3>1
      <4>4. QED
        BY ONLY <4>2, <4>3, q \in Name
    <3>3. ASSUME NEW s \in DOMAIN messages'
          PROVE  messages'[s] \in [queue : Name, receives : Nat]
      <4>1. s \in DOMAIN messages
        BY <1>3
      <4>2. s \notin taken => messages'[s] = messages[s]
        BY <1>3, <4>1
      <4>3. messages[s] \in [queue : Name, receives : Nat]
        BY <1>2, <4>1
      <4>4. CASE s \in taken
        BY <3>2, <4>4
      <4>5. CASE s \notin taken
        BY <4>2, <4>3, <4>5
      <4>6. QED
        BY <4>4, <4>5
    <3>4. QED
      BY <3>3
  <2>4. QED
    BY <1>1, <1>3, <2>2, <2>3 DEF TablesTyped, MembersReceived
<1>7. AnswersCurrent'
  <2>1. SUFFICES ASSUME NEW a \in attempts', a.valid, NEW m \in a.members
                 PROVE  /\ m[1] \in DOMAIN messages' /\ messages'[m[1]].queue = a.queue
                        /\ messages'[m[1]].receives = m[2] /\ OriginOf(m[1])' = m[3]
    BY DEF AnswersCurrent
  <2>2. CASE a \in Invalidated(attempts, taken)
    <3>1. a \in attempts /\ m[1] \notin taken
      BY <2>1, <2>2, InvalidatedValid DEF TablesTyped
    <3>2. QED
      BY <1>3, <1>4, <2>1, <3>1 DEF AnswersCurrent
  <2>3. CASE a = answer
    <3>1. PICK s \in taken : m = <<s, messages[s].receives + 1, OriginOf(s)>>
      BY <2>1, <2>3 DEF answer
    <3>2. a.queue = q
      BY <2>3 DEF answer
    <3>3. QED
      BY <1>1, <1>3, <1>4, <3>1, <3>2
  <2>4. QED
    BY <1>1, <2>1, <2>2, <2>3
<1>8. NoDanglingRows'
  <2>1. \A s \in DOMAIN messages' : messages'[s].queue \in queues'
    BY <1>1, <1>3 DEF NoDanglingRows
  <2>2. \A a \in attempts' : a.queue \in queues'
    <3>1. \A a \in Invalidated(attempts, taken) : a.queue \in queues
      BY InvalidatedLeft DEF Left, NoDanglingRows
    <3>2. answer.queue = q
      BY DEF answer
    <3>3. QED
      BY <1>1, <3>1, <3>2
  <2>3. QED
    BY <1>1, <1>3, <2>1, <2>2 DEF NoDanglingRows
<1>9. QED
  BY <1>6, <1>7, <1>8

(* A message that moves gets a queue that exists and a new number; answers *)
(* that hold it lose their validity.                                       *)
LEMMA MoveKeeps ==
    ASSUME TablesInv, NEW s \in DOMAIN messages, NEW q \in queues,
           NEW origin \in queues \cup {NoQueue}, Move(s, q, origin)
    PROVE  TablesInv'
<1> USE DEF TablesInv
<1>1. /\ UNCHANGED <<now, queues, tombstones, policies, tags>>
      /\ nextSequence' = nextSequence + 1
      /\ messages' = With(Without(messages, {s}), nextSequence, [queue |-> q, receives |-> 0])
      /\ origins' = IF origin = NoQueue THEN Without(origins, {s})
                    ELSE With(Without(origins, {s}), nextSequence, origin)
      /\ attempts' = Invalidated(attempts, {s})
  BY DEF Move
<1>2. nextSequence \notin DOMAIN messages /\ nextSequence \in Nat \ {0} /\ q \in Name
  BY DEF TablesTyped
<1>3. /\ DOMAIN messages' = (DOMAIN messages \ {s}) \cup {nextSequence}
      /\ \A x \in DOMAIN messages \ {s} : messages'[x] = messages[x]
      /\ messages'[nextSequence] = [queue |-> q, receives |-> 0]
  BY <1>1, <1>2 DEF With, Without
<1>4. \A a \in attempts' : Left(a, {s})
  BY <1>1, InvalidatedLeft
<1>5. TablesTyped' /\ MembersReceived'
  <2>1. DOMAIN messages' \subseteq 1 .. nextSequence' - 1 /\ nextSequence' \in Nat \ {0}
    BY <1>1, <1>2, <1>3 DEF TablesTyped
  <2>2. [queue |-> q, receives |-> 0] \in [queue : Name, receives : Nat]
    BY <1>2
  <2>3. \A x \in DOMAIN messages \ {s} : messages'[x] \in [queue : Name, receives : Nat]
    BY <1>3 DEF TablesTyped
  <2>4. \A x \in DOMAIN messages' : messages'[x] \in [queue : Name, receives : Nat]
    BY ONLY <1>3, <2>2, <2>3
  <2>5. QED
    BY <1>1, <1>4, <2>1, <2>4 DEF Left, TablesTyped, MembersReceived
<1>6. AnswersCurrent'
  <2>1. \A x \in DOMAIN messages \ {s} : OriginOf(x)' = OriginOf(x)
    BY <1>1, <1>2 DEF OriginOf, With, Without
  <2>2. QED
    BY <1>3, <1>4, <2>1, AnswersKept DEF Left
<1>7. NoDanglingRows'
  <2>1. \A x \in DOMAIN messages' : messages'[x].queue \in queues'
    <3>1. \A x \in DOMAIN messages : messages[x].queue \in queues
      BY DEF NoDanglingRows
    <3>2. messages'[nextSequence].queue \in queues
      BY <1>3
    <3>3. QED
      BY <1>1, <1>3, <3>1, <3>2
  <2>2. \A x \in DOMAIN origins' : x \in DOMAIN messages' /\ origins'[x] \in queues'
    BY <1>1, <1>3 DEF With, Without, NoDanglingRows
  <2>3. \A a \in attempts' : a.queue \in queues'
    BY <1>1, <1>4 DEF NoDanglingRows, Left
  <2>4. QED
    BY <1>1, <2>1, <2>2, <2>3 DEF NoDanglingRows
<1>8. QED
  BY <1>5, <1>6, <1>7

(* Messages that are deleted take their origins along; answers that hold   *)
(* them lose their validity.                                               *)
LEMMA RemovalKeeps ==
    ASSUME TablesInv, NEW lost,
           UNCHANGED <<now, queues, tombstones, policies, tags, nextSequence>>,
           messages' = Without(messages, lost), origins' = Without(origins, lost),
           \A a \in attempts' : Left(a, lost)
    PROVE  TablesInv'
<1> USE DEF TablesInv, Left
<1>1. /\ DOMAIN messages' = DOMAIN messages \ lost
      /\ \A x \in DOMAIN messages' : messages'[x] = messages[x]
  BY DEF Without
<1>2. TablesTyped' /\ MembersReceived'
  BY <1>1 DEF TablesTyped, MembersReceived
<1>3. AnswersCurrent'
  <2>1. \A x \in DOMAIN messages \ lost : OriginOf(x)' = OriginOf(x)
    BY DEF OriginOf, Without
  <2>2. QED
    BY <1>1, <2>1, AnswersKept
<1>4. NoDanglingRows'
  BY <1>1 DEF Without, NoDanglingRows
<1>5. QED
  BY <1>2, <1>3, <1>4

(* DeleteMessage and PurgeQueue remove messages in this way.               *)
LEMMA RemovalsKeep ==
    ASSUME TablesInv,
           \/ \E s \in DOMAIN messages : DeleteMessage(s)
           \/ \E q \in Name : PurgeQueue(q)
    PROVE  TablesInv'
<1>1. ASSUME NEW s \in DOMAIN messages, DeleteMessage(s)
      PROVE  TablesInv'
  <2>1. \A a \in Invalidated(attempts, {s}) : Left(a, {s})
    BY InvalidatedLeft DEF TablesInv
  <2>2. QED
    BY <1>1, <2>1, RemovalKeeps DEF DeleteMessage
<1>2. ASSUME NEW q \in Name, PurgeQueue(q)
      PROVE  TablesInv'
  <2>1. attempts' = {IF a.queue = q THEN [a EXCEPT !.valid = FALSE] ELSE a : a \in attempts}
    BY <1>2 DEF PurgeQueue
  <2>2. ASSUME NEW a \in attempts'
        PROVE  Left(a, RowsOf(q))
    <3>1. PICK b \in attempts : a = IF b.queue = q THEN [b EXCEPT !.valid = FALSE] ELSE b
      BY <2>1
    <3>2. b \in Attempt
      BY DEF TablesInv, TablesTyped
    <3>3. CASE b.queue = q
      BY <3>1, <3>2, <3>3 DEF Attempt, Left
    <3>4. CASE b.queue # q
      <4>1. a = b
        BY <3>1, <3>4
      <4>2. a.valid => \A m \in a.members : messages[m[1]].queue = a.queue
        BY <4>1 DEF TablesInv, AnswersCurrent
      <4>3. QED
        BY <3>2, <3>4, <4>1, <4>2 DEF RowsOf, Left
    <3>5. QED
      BY <3>3, <3>4
  <2>3. QED
    BY <1>2, <2>2, RemovalKeeps DEF PurgeQueue
<1>3. QED
  BY <1>1, <1>2
-----------------------------------------------------------------------------
(* All steps                                                               *)

(* The steps that change a table, or none.                                 *)
LEMMA TableSteps ==
    ASSUME TablesTyped, [Next]_vars
    PROVE  \/ UNCHANGED tables /\ now' \in {now, now + 1}
           \/ \E q \in Name, d \in Name \cup {NoQueue}, keys \in SUBSET Tag :
                  \/ CreateQueue(q, d, keys) \/ DeleteQueue(q) \/ SetRedrivePolicy(q, d)
                  \/ TagQueue(q, keys) \/ UntagQueue(q, keys) \/ Send(q) \/ PurgeQueue(q)
           \/ \E q \in Name, id \in AttemptId \cup {NoAttempt} :
                  \E taken : Receive(q, taken, id)
           \/ \E s \in DOMAIN messages : DeadLetter(s) \/ Redrive(s) \/ DeleteMessage(s)
<1>1. CASE Create
  BY <1>1 DEF Create
<1>2. CASE Manage
  BY <1>2, QueueCatalogAssumption DEF Manage
<1>3. CASE UseMessages
  BY <1>3, QueueCatalogAssumption DEF UseMessages
<1>4. CASE List \/ (\E q \in Name : StartPoll(q)) \/ PollEnds \/ Forget \/ Tick \/ UNCHANGED vars
  BY <1>4 DEF List, StartListing, NextPage, ListingFails, StartPoll, PollEnds, Forget, Tick,
         vars, tables, rows
<1>5. CASE PollAnswers
  <2>1. \E s \in RowsOf(client.queue) : Receive(client.queue, {s}, NoAttempt)
    BY <1>5 DEF PollAnswers
  <2>2. client.queue \in Name
    BY <2>1 DEF Receive, TablesTyped
  <2>3. QED
    BY <2>1, <2>2
<1>6. QED
  BY <1>1, <1>2, <1>3, <1>4, <1>5 DEF Next

(* What the tables promise each other is inductive.                        *)
LEMMA TablesStep ==
    ASSUME TablesInv, [Next]_vars
    PROVE  TablesInv'
<1>1. CASE UNCHANGED tables /\ now' \in {now, now + 1}
  <2>1. UNCHANGED <<queues, tombstones, policies, tags, messages, nextSequence, origins, attempts>>
        /\ now' \in Nat
    BY <1>1 DEF tables, rows, TablesInv, TablesTyped
  <2>2. QED
    BY <2>1 DEF TablesInv, TablesTyped, NoDanglingRows, AnswersCurrent, MembersReceived, OriginOf
<1>2. ASSUME NEW s \in DOMAIN messages, DeadLetter(s)
      PROVE  TablesInv'
  <2>1. PolicyOf(messages[s].queue) \in queues /\ messages[s].queue \in queues
    BY <1>2 DEF DeadLetter, PolicyOf, TablesInv, NoDanglingRows
  <2>2. QED
    BY <1>2, <2>1, MoveKeeps DEF DeadLetter
<1>3. ASSUME NEW s \in DOMAIN messages, Redrive(s)
      PROVE  TablesInv'
  BY <1>3, MoveKeeps DEF Redrive
<1>4. QED
  BY <1>1, <1>2, <1>3, TableSteps, CreateKeeps, DeleteKeeps, SettingsKeep, SendKeeps,
     ReceiveKeeps, RemovalsKeep DEF TablesInv

(* The tables start empty.                                                 *)
LEMMA TablesStart == ASSUME Init PROVE TablesInv
BY DEF Init, TablesInv, TablesTyped, NoDanglingRows, AnswersCurrent, MembersReceived

(* The invariant holds, with or without the history variable.              *)
LEMMA TablesHold == CatalogSpec => []TablesInv
<1>1. CatalogInit => TablesInv
  BY TablesStart DEF CatalogInit
<1>2. ASSUME TablesInv, [CatalogNext]_catalogVars
      PROVE  TablesInv'
  <2>1. [Next]_vars
    BY <1>2 DEF CatalogNext, catalogVars
  <2>2. QED
    BY <1>2, <2>1, TablesStep
<1>3. QED
  BY <1>1, <1>2, PTL DEF CatalogSpec

(* No sequence of operations on any queues leaves a row behind that refers *)
(* to a queue or message that is gone, so DELETE FROM queues always        *)
(* succeeds and a queue created again starts afresh.                       *)
THEOREM NoRowsDangle == CatalogSpec => []NoDanglingRows
<1>1. TablesInv => NoDanglingRows
  BY DEF TablesInv
<1>2. QED
  BY TablesHold, <1>1, PTL

(* A stored receive answer that is valid is what the rows say, the source  *)
(* queues of dead letters included.                                        *)
THEOREM AnswersStayCurrent == CatalogSpec => []AnswersCurrent
<1>1. TablesInv => AnswersCurrent
  BY DEF TablesInv
<1>2. QED
  BY TablesHold, <1>1, PTL
-----------------------------------------------------------------------------
(* Long polls                                                              *)

ClientTyped ==
    \/ client = Idle
    \/ \E q, t : client = [kind |-> "poll", queue |-> q, deadline |-> t]
    \/ \E k \in ListingKinds : \E of, scope, found :
          client = [kind |-> k, of |-> of, scope |-> scope, found |-> found]

\* A queue that is gone while a poll is about it was deleted after the poll
\* began; the deadline comes before its name is free again.
Reserved(q, deadline) ==
    q \notin queues /\ q \in DOMAIN tombstones /\ tombstones[q] + PollTime >= deadline

PollInv ==
    client.kind = "poll" =>
        /\ client.deadline \in Nat /\ now <= client.deadline
        /\ client.deadline <= now + PollTime
        /\ \/ client.queue \in queues \cap present
           \/ Reserved(client.queue, client.deadline)

\* A poll begins, or the client goes on with what it does.
ClientMoves ==
    /\ ClientTyped'
    /\ client'.kind = "poll" =>
         \/ client' = client
         \/ /\ client = Idle /\ UNCHANGED <<now, tables>>
            /\ \E q \in queues : client' = Polling(q)

(* So does every step.                                                     *)
LEMMA ClientSteps ==
    ASSUME ClientTyped, [Next]_vars
    PROVE  ClientMoves
<1>1. ASSUME client' = client
      PROVE  ClientMoves
  BY <1>1 DEF ClientTyped, ClientMoves
<1>2. ASSUME client' = Idle
      PROVE  ClientMoves
  BY <1>2 DEF ClientTyped, ClientMoves, Idle
<1>3. ASSUME NEW q \in Name, StartPoll(q)
      PROVE  ClientMoves
  BY <1>3 DEF StartPoll, Polling, ClientTyped, ClientMoves
<1>4. ASSUME NEW of, NEW scope, StartListing(of, scope)
      PROVE  ClientMoves
  <2>1. client' = [kind |-> "listing", of |-> of, scope |-> scope, found |-> <<>>]
    BY <1>4 DEF StartListing, Listing
  <2>2. QED
    BY <2>1 DEF ClientTyped, ClientMoves, ListingKinds
<1>5. ASSUME NEW max \in PageSizes \cup {NoMaximum}, NextPage(max)
      PROVE  ClientMoves
  <2>0. PICK k \in ListingKinds :
          \E f : client' = [client EXCEPT !.kind = k, !.found = f]
    BY <1>5 DEF NextPage, PageOutcome, ListingKinds
  <2>1. PICK f : client' = [client EXCEPT !.kind = k, !.found = f]
    BY <2>0
  <2>2. client.kind = "listing"
    BY <1>5 DEF NextPage
  <2>3. PICK of, scope, found :
          client = [kind |-> "listing", of |-> of, scope |-> scope, found |-> found]
    BY <2>2 DEF ClientTyped, ClientMoves, Idle
  <2>4. client' = [kind |-> k, of |-> of, scope |-> scope, found |-> f]
    BY <2>1, <2>3
  <2>5. QED
    BY <2>4 DEF ClientTyped, ClientMoves, ListingKinds
<1>6. CASE List
  BY <1>2, <1>4, <1>5, <1>6 DEF List, ListingFails
<1>7. CASE PollAnswers \/ PollEnds \/ Forget
  BY <1>2, <1>7 DEF PollAnswers, PollEnds, Forget
<1>8. CASE UNCHANGED client
  BY <1>1, <1>8
<1>9. CASE Next
  <2>1. CASE \E q \in Name : StartPoll(q)
    BY <1>3, <2>1
  <2>2. \/ List \/ (PollAnswers \/ PollEnds \/ Forget) \/ UNCHANGED client
        \/ \E q \in Name : StartPoll(q)
    BY <1>9 DEF Next, Tick
  <2>3. QED
    BY <1>6, <1>7, <1>8, <2>1, <2>2
<1>10. CASE UNCHANGED vars
  BY <1>8, <1>10 DEF vars
<1>11. QED
  BY <1>9, <1>10

(* How a step changes the queues and their tombstones.                     *)
LEMMA QueueSteps ==
    ASSUME TablesTyped, [Next]_vars, NEW q \in Name
    PROVE  /\ q \in queues /\ q \notin queues' => DeleteQueue(q)
           /\ q \notin queues /\ q \in queues' => ~DeletedRecently(q)
           /\ q \notin queues /\ q \notin queues' /\ q \in DOMAIN tombstones =>
                q \in DOMAIN tombstones' /\ tombstones'[q] = tombstones[q]
<1> DEFINE Goal ==
        /\ q \in queues /\ q \notin queues' => DeleteQueue(q)
        /\ q \notin queues /\ q \in queues' => ~DeletedRecently(q)
        /\ q \notin queues /\ q \notin queues' /\ q \in DOMAIN tombstones =>
             q \in DOMAIN tombstones' /\ tombstones'[q] = tombstones[q]
<1>1. ASSUME UNCHANGED <<queues, tombstones>>
      PROVE  Goal
  BY <1>1
<1>2. ASSUME NEW n \in Name, NEW d, NEW keys, CreateQueue(n, d, keys)
      PROVE  Goal
  <2>1. /\ queues' = queues \cup {n} /\ ~DeletedRecently(n)
        /\ tombstones' = Without(tombstones, {n})
    BY <1>2 DEF CreateQueue
  <2>2. QED
    BY <2>1 DEF Without
<1>3. ASSUME NEW n \in Name, DeleteQueue(n)
      PROVE  Goal
  <2>1. queues' = queues \ {n} /\ tombstones' = With(tombstones, n, now) /\ n \in queues
    BY <1>3 DEF DeleteQueue
  <2>2. QED
    BY <1>3, <2>1 DEF With
<1>4. ASSUME NEW n \in Name, NEW d, NEW keys, NEW taken, NEW id,
             \/ SetRedrivePolicy(n, d) \/ TagQueue(n, keys) \/ UntagQueue(n, keys) \/ Send(n)
             \/ PurgeQueue(n) \/ Receive(n, taken, id)
      PROVE  UNCHANGED <<queues, tombstones>>
  BY <1>4 DEF SetRedrivePolicy, TagQueue, UntagQueue, Send, PurgeQueue, Receive
<1>5. ASSUME NEW s, DeadLetter(s) \/ Redrive(s) \/ DeleteMessage(s)
      PROVE  UNCHANGED <<queues, tombstones>>
  BY <1>5 DEF DeadLetter, Redrive, DeleteMessage, Move
<1>6. UNCHANGED tables => UNCHANGED <<queues, tombstones>>
  BY DEF tables
<1> HIDE DEF Goal
<1>7. Goal
  BY <1>1, <1>2, <1>3, <1>4, <1>5, <1>6, TableSteps
<1>8. QED
  BY <1>7 DEF Goal

(* Time stands still, or the deadline of the poll has not come.            *)
LEMMA NowSteps ==
    ASSUME TablesTyped, [Next]_vars
    PROVE  \/ now' = now
           \/ now' = now + 1 /\ client' = client /\ UNCHANGED tables
              /\ (client.kind = "poll" => now < client.deadline)
<1>1. CASE Tick
  BY <1>1 DEF Tick
<1>2. ASSUME NEW q, NEW d, NEW keys, NEW taken, NEW id,
             \/ CreateQueue(q, d, keys) \/ DeleteQueue(q)
             \/ SetRedrivePolicy(q, d) \/ TagQueue(q, keys) \/ UntagQueue(q, keys) \/ Send(q)
             \/ PurgeQueue(q) \/ Receive(q, taken, id)
      PROVE  now' = now
  BY <1>2 DEF CreateQueue, DeleteQueue, SetRedrivePolicy, TagQueue, UntagQueue, Send,
         PurgeQueue, Receive
<1>3. ASSUME NEW s, DeadLetter(s) \/ Redrive(s) \/ DeleteMessage(s)
      PROVE  now' = now
  BY <1>3 DEF DeadLetter, Redrive, DeleteMessage, Move
<1>4. CASE List \/ (\E q \in Name : StartPoll(q)) \/ PollEnds \/ Forget \/ UNCHANGED vars
  BY <1>4 DEF List, StartListing, NextPage, ListingFails, StartPoll, PollEnds, Forget, vars
<1>5. CASE Create \/ Manage \/ UseMessages \/ PollAnswers
  BY <1>2, <1>3, <1>5 DEF Create, Manage, UseMessages, PollAnswers
<1>6. QED
  BY <1>1, <1>4, <1>5 DEF Next

(* A poll goes on meeting the queue it began with, or none.                *)
LEMMA PollStep ==
    ASSUME TablesTyped, ClientTyped, PollInv, CatalogNext
    PROVE  PollInv'
<1>1. [Next]_vars /\ present' = IF client = Idle THEN Subject' ELSE present \cap Subject'
  BY DEF CatalogNext
<1>2. PollTime \in Nat /\ Cooldown \in Nat /\ PollTime < Cooldown /\ now \in Nat
  BY QueueCatalogAssumption DEF TablesTyped
<1>3. SUFFICES ASSUME client'.kind = "poll"
               PROVE  /\ client'.deadline \in Nat /\ now' <= client'.deadline
                      /\ client'.deadline <= now' + PollTime
                      /\ \/ client'.queue \in queues' \cap present'
                         \/ Reserved(client.queue, client.deadline)'
  BY DEF PollInv
<1>4. Subject' = queues' \cap {client'.queue}
  BY <1>3 DEF Subject
<1>5. CASE client = Idle /\ UNCHANGED <<now, tables>> /\ \E q \in queues : client' = Polling(q)
  <2>1. PICK q \in queues : client' = [kind |-> "poll", queue |-> q, deadline |-> now + PollTime]
    BY <1>5 DEF Polling
  <2>2. q \in queues' /\ now' = now
    BY <1>5 DEF tables
  <2>3. q \in present'
    BY <1>1, <1>4, <1>5, <2>1, <2>2
  <2>4. QED
    BY <1>2, <2>1, <2>2, <2>3
<1>6. CASE client' = client
  <2>1. PICK q, deadline : q = client.queue /\ deadline = client.deadline
    OBVIOUS
  <2>2. client # Idle /\ client.kind = "poll" /\ client'.queue = q /\ client'.deadline = deadline
    BY <1>3, <1>6, <2>1 DEF Idle
  <2>3. /\ deadline \in Nat /\ now <= deadline /\ deadline <= now + PollTime
        /\ q \in queues \cap present \/ Reserved(q, deadline)
    BY <2>1, <2>2 DEF PollInv
  <2>4. present' = present \cap queues' \cap {q}
    BY <1>1, <1>4, <1>6, <2>2
  <2>5. now' <= deadline /\ deadline <= now' + PollTime
    BY <1>1, <1>2, <2>1, <2>2, <2>3, NowSteps
  <2>6. q \in Name
    BY <2>3 DEF Reserved, TablesTyped
  <2>7. \/ q \in queues' \cap present'
        \/ q \notin queues' /\ q \in DOMAIN tombstones' /\ tombstones'[q] + PollTime >= deadline
    <3>1. CASE q \in queues \cap present
      <4>1. CASE q \in queues'
        BY <2>4, <3>1, <4>1
      <4>2. CASE q \notin queues'
        <5>1. DeleteQueue(q)
          BY <1>1, <2>6, <3>1, <4>2, QueueSteps
        <5>2. tombstones' = With(tombstones, q, now)
          BY <5>1 DEF DeleteQueue
        <5>3. q \in DOMAIN tombstones' /\ tombstones'[q] = now
          BY <5>2 DEF With
        <5>4. QED
          BY <1>2, <2>3, <4>2, <5>3
      <4>3. QED
        BY <4>1, <4>2
    <3>2. CASE Reserved(q, deadline)
      <4>1. q \notin queues /\ q \in DOMAIN tombstones /\ tombstones[q] + PollTime >= deadline
            /\ tombstones[q] \in Nat
        BY <3>2 DEF Reserved, TablesTyped
      <4>2. DeletedRecently(q)
        BY <1>2, <2>3, <4>1 DEF DeletedRecently
      <4>3. /\ q \notin queues'
            /\ q \in DOMAIN tombstones' /\ tombstones'[q] = tombstones[q]
        BY <1>1, <2>6, <4>1, <4>2, QueueSteps
      <4>4. QED
        BY <4>1, <4>3
    <3>3. QED
      BY <2>3, <3>1, <3>2
  <2>8. QED
    BY <1>6, <2>2, <2>3, <2>5, <2>7 DEF Reserved
<1>7. QED
  BY <1>1, <1>3, <1>5, <1>6, ClientSteps DEF ClientMoves

(* A long poll never reads a queue that was created after it began, for    *)
(* any cooldown that is longer than polls wait: the 60 and 20 seconds of   *)
(* the code among them.                                                    *)
THEOREM PollsMeetOneQueue == CatalogSpec => []PollMeetsOneQueue
<1> DEFINE ClientInv == ClientTyped /\ PollInv
<1>1. CatalogInit => ClientInv
  BY DEF CatalogInit, Init, ClientTyped, PollInv, Idle
<1>2. ASSUME TablesInv, ClientInv, [CatalogNext]_catalogVars
      PROVE  ClientInv'
  <2>1. CASE CatalogNext
    <3>1. [Next]_vars
      BY <2>1 DEF CatalogNext
    <3>2. QED
      BY <1>2, <2>1, <3>1, ClientSteps, PollStep DEF TablesInv, ClientMoves
  <2>2. CASE UNCHANGED catalogVars
    BY <1>2, <2>2 DEF catalogVars, vars, ClientTyped, PollInv, Reserved
  <2>3. QED
    BY <1>2, <2>1, <2>2
<1>3. ClientInv => PollMeetsOneQueue
  BY DEF PollInv, PollMeetsOneQueue, Reserved
<1>4. QED
  BY <1>1, <1>2, <1>3, TablesHold, PTL DEF CatalogSpec
-----------------------------------------------------------------------------
(* The pages of a listing                                                  *)

(* Every non-empty set of numbers has a least one: of the intervals 0 .. n *)
(* one is smallest, since inclusion of finite sets is well-founded.        *)
LEMMA LeastNatural ==
    ASSUME NEW A, A \subseteq Nat, A # {}
    PROVE  \E n \in A : \A m \in A : n <= m
<1> DEFINE T == {0 .. n : n \in A}
<1>1. IsWellFoundedOn(StrictSubsetOrdering(Nat), FiniteSubsetsOf(Nat))
  BY FS_StrictSubsetOrderingWellFounded
<1>2. T \subseteq FiniteSubsetsOf(Nat)
  <2>1. \A n \in A : 0 .. n \subseteq Nat /\ IsFiniteSet(0 .. n)
    BY FS_Interval
  <2>2. \A x \in T : x \in FiniteSubsetsOf(Nat)
    BY ONLY <2>1 DEF FiniteSubsetsOf
  <2>3. QED
    BY ONLY <2>2
<1>3. T # {}
  OBVIOUS
<1>4. PICK x \in T : \A y \in T : ~ (<<y, x>> \in StrictSubsetOrdering(Nat))
  <2> HIDE DEF T
  <2>1. QED
    BY ONLY <1>1, <1>2, <1>3, WFMin
<1>5. PICK n \in A : x = 0 .. n
  OBVIOUS
<1>6. ASSUME NEW m \in A, m < n
      PROVE  FALSE
  <2>1. /\ 0 .. m \subseteq 0 .. n /\ n \in 0 .. n /\ n \notin 0 .. m
    BY <1>6
  <2>2. <<0 .. m, 0 .. n>> \in StrictSubsetOrdering(Nat)
    BY <2>1 DEF StrictSubsetOrdering
  <2>3. QED
    BY <1>4, <1>5, <2>2
<1>7. QED
  BY <1>6

(* A rank counts the name itself, grows with the names, and ends with the  *)
(* size of the set.                                                        *)
LEMMA RankGrows ==
    ASSUME NEW S, S \subseteq Nat, IsFiniteSet(S), NEW n \in S
    PROVE  /\ Rank(S, n) \in 1 .. Cardinality(S)
           /\ \A m \in S : m < n => Rank(S, m) < Rank(S, n)
<1> DEFINE upTo(x) == {m \in S : m <= x}
<1>1. ASSUME NEW x \in S
      PROVE  IsFiniteSet(upTo(x)) /\ Rank(S, x) = Cardinality(upTo(x)) /\ Rank(S, x) \in Nat
             /\ Rank(S, x) <= Cardinality(S) /\ Cardinality(S) \in Nat
  <2>1. upTo(x) \in SUBSET S
    OBVIOUS
  <2>2. Rank(S, x) = Cardinality(upTo(x))
    BY DEF Rank
  <2> HIDE DEF upTo
  <2>3. QED
    BY <2>1, <2>2, FS_Subset, FS_CardinalityType
<1>2. Rank(S, n) # 0
  <2>1. n \in upTo(n)
    OBVIOUS
  <2> HIDE DEF upTo
  <2>2. QED
    BY <1>1, <2>1, FS_EmptySet
<1>3. ASSUME NEW m \in S, m < n
      PROVE  Rank(S, m) < Rank(S, n)
  <2>0. n \in Nat /\ m \in Nat
    OBVIOUS
  <2>1. upTo(m) \in SUBSET upTo(n) /\ n \in upTo(n) /\ n \notin upTo(m)
    <3>1. ASSUME NEW x \in S, x <= m
          PROVE  x <= n
      BY <1>3, <2>0, <3>1
    <3>2. upTo(m) \subseteq upTo(n)
      BY <3>1
    <3>3. n <= n /\ ~(n <= m)
      BY <1>3, <2>0
    <3>4. QED
      BY <3>2, <3>3
  <2> HIDE DEF upTo
  <2>2. Cardinality(upTo(m)) <= Cardinality(upTo(n))
        /\ Cardinality(upTo(m)) # Cardinality(upTo(n))
    BY <1>1, <2>1, FS_Subset
  <2>3. QED
    BY <1>1, <2>2
<1> HIDE DEF upTo
<1>4. Rank(S, n) \in 1 .. Cardinality(S)
  BY <1>1, <1>2
<1>5. QED
  BY <1>3, <1>4

(* A rank is followed by the next one.                                     *)
LEMMA RankNext ==
    ASSUME NEW S, S \subseteq Nat, IsFiniteSet(S), NEW k \in Nat, k < Cardinality(S),
           k = 0 \/ \E n \in S : Rank(S, n) = k
    PROVE  \E n \in S : Rank(S, n) = k + 1
<1>1. PICK low \in SUBSET S : /\ Cardinality(low) = k
                              /\ \A m \in S, x \in low : m <= x => m \in low
  <2>1. CASE k = 0
    BY <2>1, FS_EmptySet
  <2>2. CASE \E n \in S : Rank(S, n) = k
    <3>1. PICK n \in S : Rank(S, n) = k
      BY <2>2
    <3>2. {m \in S : m <= n} \in SUBSET S /\ Cardinality({m \in S : m <= n}) = k
      BY <3>1 DEF Rank
    <3>3. QED
      BY <3>2
  <2>3. QED
    BY <2>1, <2>2
<1>2. S \ low # {}
  <2>1. S # low
    BY <1>1
  <2>2. QED
    BY <2>1
<1>3. PICK n \in S \ low : \A m \in S \ low : n <= m
  <2>1. S \ low \subseteq Nat
    OBVIOUS
  <2>2. QED
    BY <1>2, <2>1, LeastNatural
<1>4. {m \in S : m <= n} = low \cup {n}
  <2>1. ASSUME NEW m \in S, m <= n
        PROVE  m \in low \cup {n}
    BY <1>3, <2>1
  <2>2. ASSUME NEW m \in low
        PROVE  m <= n
    <3>1. m \in Nat /\ n \in Nat /\ n \notin low
      BY <1>3
    <3>2. QED
      BY <1>1, <1>3, <3>1
  <2>3. n <= n /\ n \in S
    BY <1>3
  <2>4. QED
    BY <2>1, <2>2, <2>3
<1>5. IsFiniteSet(low)
  BY FS_Subset
<1>6. Cardinality(low \cup {n}) = k + 1
  BY <1>1, <1>3, <1>5, FS_AddElement
<1>7. QED
  BY <1>3, <1>4, <1>6 DEF Rank

(* Every rank up to the size of the set is that of some name: there is no  *)
(* first one that is missing.                                              *)
LEMMA RanksTaken ==
    ASSUME NEW S, S \subseteq Nat, IsFiniteSet(S), NEW k \in 1 .. Cardinality(S)
    PROVE  \E n \in S : Rank(S, n) = k
<1> DEFINE missing == {x \in 1 .. Cardinality(S) : ~ \E n \in S : Rank(S, n) = x}
<1>1. Cardinality(S) \in Nat
  BY FS_CardinalityType
<1>2. SUFFICES ASSUME missing # {}
               PROVE  FALSE
  OBVIOUS
<1>3. missing \subseteq Nat
  OBVIOUS
<1>4. PICK x \in missing : \A y \in missing : x <= y
  <2> HIDE DEF missing
  <2>1. QED
    BY <1>2, <1>3, LeastNatural
<1>5. x \in 1 .. Cardinality(S) /\ ~ \E n \in S : Rank(S, n) = x
  OBVIOUS
<1>6. x - 1 \in Nat /\ x - 1 < Cardinality(S)
  BY <1>1, <1>5
<1>7. x - 1 = 0 \/ \E n \in S : Rank(S, n) = x - 1
  BY <1>1, <1>4, <1>5, <1>6
<1>8. \E n \in S : Rank(S, n) = (x - 1) + 1
  BY <1>6, <1>7, RankNext
<1>9. QED
  BY <1>5, <1>8

(* A page has the first names of the set, in order; what it leaves out     *)
(* comes after its last name, and nothing is left out of a short set.      *)
LEMMA PageOrdered ==
    ASSUME NEW S, S \subseteq Nat, IsFiniteSet(S), NEW max \in Nat \ {0}
    PROVE  LET f == FirstOf(S, max)
           IN  /\ f \in Seq(S)
               /\ \A i, j \in 1 .. Len(f) : i < j => f[i] < f[j]
               /\ \A n \in S : \/ \E i \in 1 .. Len(f) : f[i] = n
                               \/ /\ Len(f) > 0 /\ n > f[Len(f)]
                                  /\ Cardinality(S) > max
               /\ Cardinality(S) > max => Len(f) = max
<1> DEFINE f == FirstOf(S, max)
           length == IF Cardinality(S) < max THEN Cardinality(S) ELSE max
<1>1. Cardinality(S) \in Nat /\ length \in Nat /\ length <= Cardinality(S)
  BY FS_CardinalityType
<1>2. \A k \in 1 .. length : f[k] \in S /\ Rank(S, f[k]) = k
  <2>1. ASSUME NEW k \in 1 .. length
        PROVE  f[k] \in S /\ Rank(S, f[k]) = k
    <3>0. k \in 1 .. Cardinality(S)
      BY <1>1
    <3>1. \E n \in S : Rank(S, n) = k
      BY <3>0, RanksTaken
    <3>2. f[k] = CHOOSE n \in S : Rank(S, n) = k
      BY DEF FirstOf
    <3>3. QED
      BY <3>1, <3>2
  <2>2. QED
    BY <2>1
<1>3. f = [k \in 1 .. length |-> f[k]]
  BY DEF FirstOf
<1> HIDE DEF f, length
<1>4. f \in Seq(S) /\ Len(f) = length
  BY <1>1, <1>2, <1>3
<1>5. ASSUME NEW m \in S, NEW n \in S, Rank(S, m) < Rank(S, n)
      PROVE  m < n
  <2>0. m \in Nat /\ n \in Nat
    OBVIOUS
  <2>1. m = n \/ n < m \/ m < n
    BY <2>0
  <2>2. n < m => Rank(S, n) < Rank(S, m)
    BY RankGrows
  <2>a. Rank(S, m) \in 1 .. Cardinality(S) /\ Rank(S, n) \in 1 .. Cardinality(S)
    BY RankGrows
  <2>3. Rank(S, m) \in Nat /\ Rank(S, n) \in Nat
    BY <1>1, <2>a
  <2>4. QED
    BY <1>5, <2>1, <2>2, <2>3
<1>6. \A i, j \in 1 .. Len(f) : i < j => f[i] < f[j]
  BY <1>2, <1>4, <1>5
<1>7. ASSUME NEW n \in S
      PROVE  \/ \E i \in 1 .. Len(f) : f[i] = n
             \/ /\ Len(f) > 0 /\ n > f[Len(f)]
                /\ Cardinality(S) > max
  <2>1. Rank(S, n) \in 1 .. Cardinality(S)
    BY RankGrows
  <2>2. CASE Rank(S, n) <= length
    <3>1. Rank(S, n) \in 1 .. length
      BY <1>1, <2>1, <2>2
    <3>2. f[Rank(S, n)] \in S /\ Rank(S, f[Rank(S, n)]) = Rank(S, n)
      BY <1>2, <3>1
    <3>3. f[Rank(S, n)] = n
      <4> DEFINE x == f[Rank(S, n)]
      <4>1. x \in S /\ Rank(S, x) = Rank(S, n)
        BY <3>2
      <4> HIDE DEF x
      <4>2. x \in Nat /\ n \in Nat /\ Rank(S, n) \in Nat
        BY <1>1, <2>1, <4>1
      <4>3. (x < n => Rank(S, x) < Rank(S, n)) /\ (n < x => Rank(S, n) < Rank(S, x))
        BY <4>1, RankGrows
      <4>4. x = n
        BY <4>1, <4>2, <4>3
      <4>5. QED
        BY <4>4 DEF x
    <3>4. QED
      BY <1>4, <3>1, <3>3
  <2>3. CASE Rank(S, n) > length
    <3>1. length = max /\ Cardinality(S) > max
      BY <1>1, <2>1, <2>3 DEF length
    <3>2. length \in 1 .. length /\ Rank(S, f[length]) < Rank(S, n) /\ f[length] \in S
      BY <1>1, <1>2, <2>1, <2>3, <3>1
    <3>3. f[length] < n
      BY <1>5, <3>2
    <3>4. QED
      BY <1>4, <3>1, <3>2, <3>3
  <2>4. QED
    BY <1>1, <2>1, <2>2, <2>3
<1>8. Cardinality(S) > max => Len(f) = max
  BY <1>1, <1>4 DEF length
<1>9. QED
  BY <1>4, <1>6, <1>7, <1>8 DEF f
-----------------------------------------------------------------------------
(* A listing among the other operations                                    *)

\* What has been answered is in order, and what has been there all the time
\* is answered or comes after the cursor.
Answered(kind, found) ==
    /\ found \in Seq(Name)
    /\ \A i, j \in DOMAIN found : i < j => found[i] < found[j]
    /\ \A n \in present : \/ n \in ToSet(found)
                          \/ kind # "listed" /\ (found = <<>> \/ n > Last(found))
    /\ kind = "cut" => Len(found) >= DefaultPageSize

ListingInv ==
    /\ client \in Client
    /\ present \subseteq Subject
    /\ IsFiniteSet(queues)
    /\ tags \subseteq Name \X Tag
    /\ client.kind \in ListingKinds => Answered(client.kind, client.found)

\* What a listing may be about.
Scoped(of, scope) ==
    \/ of = "queues" /\ scope \in PrefixSets
    \/ of = "sources" /\ scope \in Name

(* The cases of a client.                                                  *)
LEMMA ClientCases ==
    ASSUME client \in Client
    PROVE  \/ client = Idle
           \/ \E q \in Name, t \in Nat :
                client = [kind |-> "poll", queue |-> q, deadline |-> t]
           \/ \E k \in ListingKinds, found \in Seq(Name) :
                \E of, scope : Scoped(of, scope) /\
                  client = [kind |-> k, of |-> of, scope |-> scope, found |-> found]
<1>1. CASE client \in [kind : {"poll"}, queue : Name, deadline : Nat]
  BY <1>1
<1>2. CASE client \in [kind : ListingKinds, of : {"queues"}, scope : PrefixSets,
                       found : Seq(Name)]
  <2>1. /\ client = [kind |-> client.kind, of |-> client.of, scope |-> client.scope,
                     found |-> client.found]
        /\ client.kind \in ListingKinds /\ client.found \in Seq(Name)
        /\ Scoped(client.of, client.scope)
    BY <1>2 DEF Scoped
  <2>2. QED
    BY <2>1
<1>3. CASE client \in [kind : ListingKinds, of : {"sources"}, scope : Name,
                       found : Seq(Name)]
  <2>1. /\ client = [kind |-> client.kind, of |-> client.of, scope |-> client.scope,
                     found |-> client.found]
        /\ client.kind \in ListingKinds /\ client.found \in Seq(Name)
        /\ Scoped(client.of, client.scope)
    BY <1>3 DEF Scoped
  <2>2. QED
    BY <2>1
<1>4. QED
  BY <1>1, <1>2, <1>3 DEF Client

(* A client begins, ends, goes on waiting or reads a page.                 *)
LEMMA ListingSteps ==
    ASSUME TablesTyped, [Next]_vars
    PROVE  \/ client' = client
           \/ client' = Idle
           \/ \E q \in Name : client' = Polling(q)
           \/ /\ client = Idle
              /\ \E of, scope : Scoped(of, scope) /\ client' = Listing(of, scope)
           \/ \E max \in PageSizes \cup {NoMaximum} : NextPage(max)
<1>1. CASE List
  <2>1. queues \subseteq Name
    BY DEF TablesTyped
  <2>2. QED
    BY <1>1, <2>1 DEF List, StartListing, ListingFails, Scoped
<1>2. CASE PollAnswers \/ PollEnds \/ Forget \/ (\E q \in Name : StartPoll(q))
  BY <1>2 DEF PollAnswers, PollEnds, Forget, StartPoll
<1>3. CASE UNCHANGED client \/ UNCHANGED vars
  BY <1>3 DEF vars
<1>4. QED
  BY <1>1, <1>2, <1>3 DEF Next, Tick

(* The queues stay finite in number and the tags what they are.            *)
LEMMA QueuesFinite ==
    ASSUME TablesTyped, [Next]_vars, IsFiniteSet(queues), tags \subseteq Name \X Tag
    PROVE  IsFiniteSet(queues') /\ tags' \subseteq Name \X Tag
<1> DEFINE Goal == \E q \in Name, keys \in SUBSET Tag :
                      queues' \subseteq queues \cup {q} /\ tags' \subseteq tags \cup ({q} \X keys)
           Same == queues' = queues /\ tags' = tags
<1>1. ASSUME NEW q \in Name, NEW d, NEW keys \in SUBSET Tag,
             \/ CreateQueue(q, d, keys) \/ DeleteQueue(q) \/ SetRedrivePolicy(q, d)
             \/ TagQueue(q, keys) \/ UntagQueue(q, keys) \/ Send(q) \/ PurgeQueue(q)
      PROVE  Goal
  <2>1. queues' \subseteq queues \cup {q} /\ tags' \subseteq tags \cup ({q} \X keys)
    BY <1>1 DEF CreateQueue, DeleteQueue, SetRedrivePolicy, TagQueue, UntagQueue, Send,
           PurgeQueue, rows
  <2>2. QED
    BY <2>1
<1>2. ASSUME NEW q, NEW id, NEW taken, Receive(q, taken, id)
      PROVE  Same
  BY <1>2 DEF Receive
<1>3. ASSUME NEW s, DeadLetter(s) \/ Redrive(s) \/ DeleteMessage(s)
      PROVE  Same
  BY <1>3 DEF DeadLetter, Redrive, DeleteMessage, Move
<1>4. UNCHANGED tables => Same
  BY DEF tables, rows
<1> HIDE DEF Goal, Same
<1>5. Goal \/ Same
  BY <1>1, <1>2, <1>3, <1>4, TableSteps
<1>6. CASE Goal
  <2>1. PICK q \in Name, keys \in SUBSET Tag :
          queues' \subseteq queues \cup {q} /\ tags' \subseteq tags \cup ({q} \X keys)
    BY <1>6 DEF Goal
  <2>2. IsFiniteSet(queues \cup {q})
    BY FS_AddElement
  <2>3. IsFiniteSet(queues')
    BY <2>1, <2>2, FS_Subset
  <2>4. QED
    BY <2>1, <2>3
<1>7. QED
  BY <1>5, <1>6 DEF Same

(* A page that starts behind the last name continues the answer.           *)
LEMMA PageContinues ==
    ASSUME NEW found \in Seq(Name), NEW set \in SUBSET Name, IsFiniteSet(set),
           NEW max \in Nat \ {0},
           \A i, j \in DOMAIN found : i < j => found[i] < found[j]
    PROVE  LET rest == After(set, found)
               all == found \o FirstOf(rest, max)
           IN  /\ all \in Seq(Name)
               /\ \A i, j \in DOMAIN all : i < j => all[i] < all[j]
               /\ ToSet(found) \subseteq ToSet(all)
               /\ \A n \in rest : \/ n \in ToSet(all)
                                  \/ More(rest, max) /\ n > Last(all)
               /\ More(rest, max) => Len(all) >= max
<1> DEFINE rest == After(set, found)
           page == FirstOf(rest, max)
           all == found \o page
<1>1. rest \subseteq Nat /\ IsFiniteSet(rest) /\ rest \subseteq Name /\ Name \subseteq Nat
  <2>1. rest \subseteq set
    BY DEF After
  <2>2. QED
    BY <2>1, FS_Subset, QueueCatalogAssumption
<1>2. \A n \in rest : found = <<>> \/ n > found[Len(found)]
  BY DEF After, Last
<1> HIDE DEF rest
<1>3. /\ page \in Seq(rest)
      /\ \A i, j \in 1 .. Len(page) : i < j => page[i] < page[j]
      /\ \A n \in rest : \/ \E i \in 1 .. Len(page) : page[i] = n
                         \/ /\ Len(page) > 0 /\ n > page[Len(page)]
                            /\ Cardinality(rest) > max
      /\ Cardinality(rest) > max => Len(page) = max
  BY <1>1, PageOrdered
<1> HIDE DEF page
<1>4. /\ Len(found) \in Nat /\ Len(page) \in Nat
      /\ page \in Seq(Name) /\ all \in Seq(Name)
      /\ Len(all) = Len(found) + Len(page)
      /\ DOMAIN all = 1 .. Len(all) /\ DOMAIN found = 1 .. Len(found)
      /\ \A i \in 1 .. Len(found) : all[i] = found[i] /\ found[i] \in Nat
      /\ \A i \in 1 .. Len(page) : all[Len(found) + i] = page[i] /\ page[i] \in rest
  <2>0. page \in Seq(rest) /\ rest \subseteq Name
    BY <1>1, <1>3
  <2>1. page \in Seq(Name) /\ \A i \in 1 .. Len(page) : page[i] \in rest
    <3>1. \A i \in 1 .. Len(page) : page[i] \in rest
      BY ONLY <2>0
    <3>2. page \in Seq(Name)
      BY ONLY <2>0
    <3>3. QED
      BY <3>1, <3>2
  <2>2. /\ Len(found) \in Nat /\ Len(page) \in Nat
        /\ all \in Seq(Name)
        /\ Len(all) = Len(found) + Len(page)
        /\ DOMAIN all = 1 .. Len(all) /\ DOMAIN found = 1 .. Len(found)
    BY <2>1
  <2>3. \A i \in 1 .. Len(found) : all[i] = found[i] /\ found[i] \in Nat
    <3>1. \A i \in 1 .. Len(found) : found[i] \in Name
      OBVIOUS
    <3>2. \A i \in 1 .. Len(found) : all[i] = found[i]
      BY <2>1
    <3>3. QED
      BY <1>1, <3>1, <3>2
  <2>4. \A i \in 1 .. Len(page) : all[Len(found) + i] = page[i]
    BY <2>1
  <2>5. QED
    BY <2>1, <2>2, <2>3, <2>4
<1> HIDE DEF all
<1>5. ASSUME NEW i \in 1 .. Len(all), NEW j \in 1 .. Len(all), i < j
      PROVE  all[i] < all[j]
  <2>1. CASE j <= Len(found)
    <3>1. i \in 1 .. Len(found) /\ j \in 1 .. Len(found)
      BY <1>4, <1>5, <2>1
    <3>2. QED
      BY <1>4, <1>5, <3>1
  <2>2. CASE i > Len(found)
    <3>1. PICK a \in 1 .. Len(page), b \in 1 .. Len(page) :
            i = Len(found) + a /\ j = Len(found) + b
      <4>1. i - Len(found) \in 1 .. Len(page) /\ j - Len(found) \in 1 .. Len(page)
        BY <1>4, <1>5, <2>2
      <4>2. i = Len(found) + (i - Len(found)) /\ j = Len(found) + (j - Len(found))
        BY <1>4
      <4>3. QED
        BY <4>1, <4>2
    <3>2. a < b
      BY <1>4, <1>5, <3>1
    <3>3. QED
      BY <1>3, <1>4, <3>1, <3>2
  <2>3. CASE i <= Len(found) /\ j > Len(found)
    <3>1. i \in 1 .. Len(found) /\ Len(found) \in 1 .. Len(found)
      BY <1>4, <1>5, <2>3
    <3>2. PICK b \in 1 .. Len(page) : j = Len(found) + b
      <4>1. j - Len(found) \in 1 .. Len(page) /\ j = Len(found) + (j - Len(found))
        BY <1>4, <1>5, <2>3
      <4>2. QED
        BY <4>1
    <3>3. found # <<>>
      BY <1>4, <3>1
    <3>4. all[j] \in rest /\ all[j] \in Nat
      BY <1>1, <1>4, <3>2
    <3>5. all[j] > found[Len(found)]
      BY <1>2, <3>3, <3>4
    <3>6. i = Len(found) \/ found[i] < found[Len(found)]
      <4>0. i <= Len(found) /\ i \in Int /\ Len(found) \in Int
        BY <1>4, <2>3
      <4>1. i # Len(found) => i < Len(found)
        BY <4>0
      <4>2. QED
        BY <1>4, <3>1, <4>1
    <3>7. /\ found[i] \in Nat /\ found[Len(found)] \in Nat
          /\ all[i] = found[i]
      BY <1>4, <3>1
    <3>8. found[i] <= found[Len(found)]
      BY <3>6, <3>7
    <3>9. QED
      BY <3>4, <3>5, <3>7, <3>8
  <2>4. QED
    BY <1>4, <1>5, <2>1, <2>2, <2>3
<1>6. ToSet(found) \subseteq ToSet(all)
  <2>1. \A i \in 1 .. Len(found) : i \in 1 .. Len(all)
    BY <1>4
  <2>2. QED
    BY <1>4, <2>1 DEF ToSet
<1>7. ASSUME NEW n \in rest
      PROVE  n \in ToSet(all) \/ (More(rest, max) /\ n > Last(all))
  <2>1. CASE \E i \in 1 .. Len(page) : page[i] = n
    <3>1. PICK i \in 1 .. Len(page) : page[i] = n
      BY <2>1
    <3>2. Len(found) + i \in 1 .. Len(all) /\ all[Len(found) + i] = n
      BY <1>4, <3>1
    <3>3. QED
      BY <1>4, <3>2 DEF ToSet
  <2>2. CASE Len(page) > 0 /\ n > page[Len(page)] /\ Cardinality(rest) > max
    <3>1. Len(page) \in 1 .. Len(page)
      BY <1>4, <2>2
    <3>2. all[Len(all)] = page[Len(page)]
      BY <1>4, <3>1
    <3>3. QED
      BY <2>2, <3>2 DEF More, Last
  <2>3. QED
    BY <1>3, <2>1, <2>2
<1>8. More(rest, max) => Len(all) >= max
  BY <1>3, <1>4 DEF More
<1>9. QED
  BY <1>4, <1>5, <1>6, <1>7, <1>8 DEF all, page, rest

(* A page keeps the promise of the listing.                                *)
LEMMA PageKeeps ==
    ASSUME TablesInv, ListingInv, NEW max \in PageSizes \cup {NoMaximum}, NextPage(max),
           present' = IF client = Idle THEN Subject' ELSE present \cap Subject'
    PROVE  client' \in Client /\ Answered(client.kind, client.found)'
<1>1. PICK found \in Seq(Name) : \E of, scope : Scoped(of, scope) /\
        client = [kind |-> "listing", of |-> of, scope |-> scope, found |-> found]
  <2>1. client.kind = "listing"
    BY DEF NextPage
  <2>2. QED
    BY <2>1, ClientCases DEF ListingInv, Idle
<1>2. PICK of, scope : Scoped(of, scope) /\
        client = [kind |-> "listing", of |-> of, scope |-> scope, found |-> found]
  BY <1>1
<1> DEFINE set == Listed(of, scope)
           rest == After(set, found)
           limit == PageLimit(max)
           all == found \o FirstOf(rest, limit)
           kind == PageOutcome(rest, max)
<1>3. client' = [kind |-> kind, of |-> of, scope |-> scope, found |-> all]
  <2>1. client.of = of /\ client.scope = scope /\ client.found = found
    BY <1>2
  <2>2. client' = [client EXCEPT !.kind = kind, !.found = @ \o FirstOf(rest, limit)]
    BY <2>1 DEF NextPage
  <2> HIDE DEF kind, rest, limit
  <2>3. QED
    BY <1>2, <2>2
<1>4. set \subseteq queues /\ queues \subseteq Name
  BY DEF Listed, TablesInv, TablesTyped, NoDanglingRows
<1>5. set \in SUBSET Name /\ IsFiniteSet(set)
  BY <1>4, FS_Subset DEF ListingInv
<1>6. limit \in Nat \ {0} /\ (max = NoMaximum => limit = DefaultPageSize)
  BY QueueCatalogAssumption DEF PageLimit
<1>7. /\ \A i, j \in DOMAIN found : i < j => found[i] < found[j]
      /\ \A n \in present : n \in ToSet(found) \/ found = <<>> \/ n > Last(found)
      /\ present \subseteq set
  <2>1. client.kind = "listing" /\ client.found = found /\ client.of = of /\ client.scope = scope
    BY <1>2
  <2>2. Answered("listing", found)
    BY <2>1 DEF ListingInv, ListingKinds
  <2>3. Subject = set
    BY <2>1 DEF Subject, ListingKinds
  <2>4. QED
    BY <2>2, <2>3 DEF Answered, ListingInv
<1>8. \A n \in present : n \in ToSet(found) \/ n \in rest
  BY <1>7 DEF After
<1> HIDE DEF set, limit
<1>9. /\ all \in Seq(Name)
      /\ \A i, j \in DOMAIN all : i < j => all[i] < all[j]
      /\ ToSet(found) \subseteq ToSet(all)
      /\ \A n \in rest : n \in ToSet(all) \/ (More(rest, limit) /\ n > Last(all))
      /\ More(rest, limit) => Len(all) >= limit
  BY <1>5, <1>6, <1>7, PageContinues
<1>10. present' \subseteq present
  <2>1. client # Idle
    BY <1>2 DEF Idle
  <2>2. QED
    BY <2>1
<1> HIDE DEF rest, all
<1>11. /\ kind \in ListingKinds /\ (More(rest, limit) => kind # "listed")
       /\ kind = "cut" => More(rest, limit) /\ max = NoMaximum
  BY DEF PageOutcome, ListingKinds, limit
<1> HIDE DEF kind
<1>12. client' \in Client
  BY <1>2, <1>3, <1>9, <1>11 DEF Client, Scoped
<1>13. client'.kind = kind /\ client'.found = all
  BY <1>3
<1>14. \A n \in present' : n \in ToSet(all) \/ (kind # "listed" /\ n > Last(all))
  BY <1>8, <1>9, <1>10, <1>11
<1>15. QED
  <2>1. kind = "cut" => Len(all) >= DefaultPageSize
    BY <1>6, <1>9, <1>11
  <2>2. QED
    BY <2>1, <1>9, <1>12, <1>13, <1>14 DEF Answered

(* Every step keeps it.                                                    *)
LEMMA ListingStep ==
    ASSUME TablesInv, ListingInv, CatalogNext
    PROVE  ListingInv'
<1>1. [Next]_vars /\ present' = IF client = Idle THEN Subject' ELSE present \cap Subject'
  BY DEF CatalogNext
<1>2. IsFiniteSet(queues') /\ tags' \subseteq Name \X Tag
  BY <1>1, QueuesFinite DEF TablesInv, ListingInv
<1>3. present' \subseteq Subject'
  BY <1>1
<1>4. SUFFICES /\ client' \in Client
               /\ client'.kind \in ListingKinds => Answered(client.kind, client.found)'
  BY <1>2, <1>3 DEF ListingInv
<1>5. CASE client' = client
  <2>1. client' \in Client
    BY <1>5 DEF ListingInv
  <2>2. ASSUME client.kind \in ListingKinds
        PROVE  Answered(client.kind, client.found)'
    <3>1. client # Idle
      BY <2>2 DEF Idle, ListingKinds
    <3>2. present' \subseteq present
      BY <1>1, <3>1
    <3>3. QED
      BY <1>5, <2>2, <3>2 DEF Answered, ListingInv
  <2>3. QED
    BY <1>5, <2>1, <2>2
<1>6. CASE client' = Idle
  BY <1>6 DEF Client, Idle, ListingKinds
<1>7. CASE \E q \in Name : client' = Polling(q)
  <2>1. now + PollTime \in Nat
    BY QueueCatalogAssumption DEF TablesInv, TablesTyped
  <2>2. QED
    BY <1>7, <2>1 DEF Polling, Client, ListingKinds
<1>8. CASE \E of, scope : Scoped(of, scope) /\ client' = Listing(of, scope)
  <2>1. PICK of, scope : Scoped(of, scope) /\
          client' = [kind |-> "listing", of |-> of, scope |-> scope, found |-> <<>>]
    BY <1>8 DEF Listing
  <2>2. client' \in Client
    BY <2>1 DEF Scoped, Client, ListingKinds
  <2>3. client'.kind = "listing" /\ client'.found = <<>> /\ <<>> \in Seq(Name)
    BY <2>1
  <2>4. QED
    BY <2>2, <2>3 DEF Answered
<1>9. CASE \E max \in PageSizes \cup {NoMaximum} : NextPage(max)
  BY <1>1, <1>9, PageKeeps
<1>10. QED
  BY <1>1, <1>5, <1>6, <1>7, <1>8, <1>9, ListingSteps DEF TablesInv

(* What a listing relies on always holds.                                  *)
LEMMA ListingHolds == CatalogSpec => [](TablesInv /\ ListingInv)
<1>1. CatalogInit => ListingInv
  <2>1. ASSUME CatalogInit
        PROVE  ListingInv
    <3>1. client = Idle /\ present = {} /\ queues = {} /\ tags = {}
      BY <2>1 DEF CatalogInit, Init
    <3>2. QED
      BY <3>1, FS_EmptySet DEF ListingInv, Client, Idle, ListingKinds
  <2>2. QED
    BY <2>1
<1>2. ASSUME TablesInv, ListingInv, [CatalogNext]_catalogVars
      PROVE  ListingInv'
  <2>1. CASE UNCHANGED catalogVars
    <3>1. UNCHANGED <<client, present, queues, policies, tags>>
      BY <2>1 DEF catalogVars, vars
    <3>2. Subject' = Subject
      BY <3>1 DEF Subject, Listed
    <3>3. Answered(client.kind, client.found)' <=> Answered(client.kind, client.found)
      BY <3>1 DEF Answered
    <3>4. QED
      BY <1>2, <3>1, <3>2, <3>3 DEF ListingInv
  <2>2. QED
    BY <1>2, <2>1, ListingStep
<1>3. QED
  BY <1>1, <1>2, TablesHold, PTL DEF CatalogSpec

(* Every table has its type, and so has the request of several             *)
(* transactions that is under way.                                         *)
THEOREM TablesTypeOK == CatalogSpec => []CatalogTypeOK
<1>1. TablesInv /\ ListingInv => CatalogTypeOK
  <2>1. ASSUME TablesInv, ListingInv
        PROVE  CatalogTypeOK
    <3>1. /\ DOMAIN policies \subseteq Name /\ \A q \in DOMAIN policies : policies[q] \in Name
          /\ \A s \in DOMAIN origins : origins[s] \in Name
      BY <2>1 DEF TablesInv, TablesTyped, NoDanglingRows
    <3>2. QED
      BY <2>1, <3>1 DEF TablesInv, TablesTyped, ListingInv, CatalogTypeOK
  <2>2. QED
    BY <2>1
<1>2. QED
  BY <1>1, ListingHolds, PTL

(* A listing answers names in order and once, and has answered, up to its  *)
(* last name, every queue that was there all the time; all of them, if it  *)
(* ended for want of names, and at least DefaultPageSize names, if it was  *)
(* cut off: for any number of queues, any page sizes, and any operations   *)
(* between its pages.                                                      *)
THEOREM ListingsExact == CatalogSpec => []ListingExact
<1>1. TablesInv /\ ListingInv => ListingExact
  <2> SUFFICES ASSUME TablesInv, ListingInv, client.kind \in ListingKinds
               PROVE  ListingExact
    BY DEF ListingExact
  <2>1. Answered(client.kind, client.found)
    BY DEF ListingInv
  <2>2. present \subseteq Nat
    <3>1. present \subseteq Listed(client.of, client.scope)
      BY DEF ListingInv, Subject, ListingKinds
    <3>2. Listed(client.of, client.scope) \subseteq queues /\ queues \subseteq Name
      BY DEF Listed, TablesInv, TablesTyped, NoDanglingRows
    <3>3. QED
      BY <3>1, <3>2, QueueCatalogAssumption
  <2>3. ASSUME client.found # <<>>, NEW n \in present, n <= Last(client.found)
        PROVE  n \in ToSet(client.found)
    <3>1. client.found \in Seq(Name) /\ Name \subseteq Nat
      BY <2>1, QueueCatalogAssumption DEF Answered
    <3>2. ASSUME NEW f \in Seq(Name), f # <<>>
          PROVE  f[Len(f)] \in Name
      BY <3>2
    <3>3. Last(client.found) \in Nat
      BY <2>3, <3>1, <3>2 DEF Last
    <3>4. QED
      BY <2>1, <2>2, <2>3, <3>3 DEF Answered
  <2>4. QED
    BY <2>1, <2>3 DEF ListingExact, Answered
<1>2. QED
  BY <1>1, ListingHolds, PTL
=============================================================================
