------------------------ MODULE QueueCatalogSafety -------------------------
(***************************************************************************)
(* What QueueCatalog promises.  The history variable present holds what a  *)
(* listing or a poll can be judged by: the queues it is about that have    *)
(* been there ever since it began.                                         *)
(***************************************************************************)
EXTENDS QueueCatalog

VARIABLE present

catalogVars == <<vars, present>>

\* The queues the request of the client is about, as they are now.
Subject ==
    CASE client.kind \in ListingKinds -> Listed(client.of, client.scope)
      [] client.kind = "poll" -> queues \cap {client.queue}
      [] OTHER -> {}

CatalogInit == Init /\ present = {}

CatalogNext ==
    /\ Next
    /\ present' = IF client = Idle THEN Subject' ELSE present \cap Subject'

CatalogSpec == CatalogInit /\ [][CatalogNext]_catalogVars
-----------------------------------------------------------------------------
(* Every table has its type.                                               *)
CatalogTypeOK ==
    /\ now \in Nat
    /\ queues \subseteq Name
    /\ DOMAIN tombstones \subseteq Name
    /\ \A q \in DOMAIN tombstones : tombstones[q] \in Nat
    /\ DOMAIN policies \subseteq Name
    /\ \A q \in DOMAIN policies : policies[q] \in Name
    /\ tags \subseteq Name \X Tag
    /\ nextSequence \in Nat \ {0}
    /\ DOMAIN messages \subseteq 1 .. nextSequence - 1
    /\ \A s \in DOMAIN messages : messages[s] \in [queue : Name, receives : Nat]
    /\ \A s \in DOMAIN origins : origins[s] \in Name
    /\ attempts \subseteq Attempt
    /\ client \in Client

(* No row refers to a queue or message that is gone, so the foreign keys   *)
(* without ON DELETE CASCADE never make DELETE FROM queues fail and a      *)
(* queue created again under an old name starts without policies, tags,    *)
(* messages, attempts or dead letters of its predecessor (delete_queue,    *)
(* management.rs:262-281; write_redrive_policy; move_message).             *)
NoDanglingRows ==
    /\ \A p \in DOMAIN policies :
        /\ p \in queues /\ policies[p] \in queues
        /\ p # policies[p]
        /\ p \in Fifo <=> policies[p] \in Fifo
    /\ \A t \in tags : t[1] \in queues
    /\ \A s \in DOMAIN messages : messages[s].queue \in queues
    /\ \A s \in DOMAIN origins : s \in DOMAIN messages /\ origins[s] \in queues
    /\ \A a \in attempts : a.queue \in queues
    /\ DOMAIN tombstones \cap queues = {}

(* A stored receive attempt that is still valid answers what the rows say: *)
(* each member is the last delivery of a message of its queue, and the     *)
(* DeadLetterQueueSourceArn in the stored response is the message's origin *)
(* even after the source queue was deleted, and perhaps created again      *)
(* (management.rs:272; the triggers of fifo.rs:167-174).                   *)
AnswersCurrent ==
    \A a \in attempts : a.valid =>
        \A m \in a.members :
            /\ m[1] \in DOMAIN messages
            /\ messages[m[1]].queue = a.queue
            /\ messages[m[1]].receives = m[2]
            /\ OriginOf(m[1]) = m[3]

(* A listing never passes over a queue that was there all the time,        *)
(* whichever queues were created and deleted between its pages: it has     *)
(* answered each of them up to the last name it answered.  If it comes to  *)
(* an end for want of names, it has answered all of them; if it ends       *)
(* without a token because its last page had no MaxResults, that page was  *)
(* full (list_queues, management.rs:114-161; list_dead_letter_source_      *)
(* queues, http_server.rs:1492-1538; docs/compatibility.md:135).  It       *)
(* answers the names in order and none twice, although a queue that has    *)
(* been answered may be deleted and created again.                         *)
ListingExact ==
    client.kind \in ListingKinds =>
        /\ client.kind = "listed" => present \subseteq ToSet(client.found)
        /\ client.found # <<>> =>
            \A n \in present : n <= Last(client.found) => n \in ToSet(client.found)
        /\ client.kind = "cut" => Len(client.found) >= DefaultPageSize
        /\ \A i, j \in DOMAIN client.found : i < j => client.found[i] < client.found[j]

(* A long poll never reads a queue that was created after it began: the    *)
(* name stays reserved for longer than a poll can last (the tombstone of   *)
(* delete_queue against the pages of poll_receive, http_server.rs:1658).   *)
PollMeetsOneQueue ==
    client.kind = "poll" /\ client.queue \in queues => client.queue \in present
=============================================================================
