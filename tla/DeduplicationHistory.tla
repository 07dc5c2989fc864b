------------------------ MODULE DeduplicationHistory ------------------------
(***************************************************************************)
(* QueueStore with a history variable: when a message with a deduplication *)
(* id was last enqueued, per queue and group.  The code keeps no such      *)
(* record; the table deduplication_keys is its bounded memory of it.       *)
(***************************************************************************)
EXTENDS QueueStoreSafety

VARIABLE lastAccepted

historyVars == <<vars, lastAccepted>>

HistoryInit ==
    /\ Init
    /\ lastAccepted = [k \in Queue \X Group \X DedupId |-> Never]

\* Only send takes one sequence number outside a receive or redrive.
Accepted(q, g, d) ==
    /\ tx = Idle /\ tx' = Idle
    /\ nextSequence' # nextSequence
    /\ messages'[nextSequence].queue = q
    /\ messages'[nextSequence].group = g
    /\ messages'[nextSequence].dedup = d

HistoryNext ==
    /\ Next
    /\ lastAccepted' = [k \in Queue \X Group \X DedupId |->
                          IF Accepted(k[1], k[2], k[3]) THEN now ELSE lastAccepted[k]]

HistorySpec == HistoryInit /\ [][HistoryNext]_historyVars
-----------------------------------------------------------------------------
(* A key remembers the moment its message was enqueued, whatever retries,  *)
(* deletions and purges followed, and a key younger than the window is     *)
(* never lost (find_duplicate and insert_message, sqlite_lqs.rs:1172-1218).*)
KeysRememberAcceptance ==
    /\ \A k \in keys : k.seen = lastAccepted[<<k.queue, k.group, k.dedup>>]
    /\ \A q \in Queue, d \in DedupId, g \in Group :
        /\ lastAccepted[<<q, g, d>>] # Never
        /\ lastAccepted[<<q, g, d>>] > now - DeduplicationWindow
        => \E k \in keys : k.queue = q /\ k.dedup = d /\ k.group = g

(* Exactly-once acceptance: a message with a deduplication id is enqueued  *)
(* only when no message with that id was enqueued within the window, on    *)
(* the whole queue or in its group as the deduplication scope says.        *)
DeduplicationHolds ==
    [][\A q \in Queue, d \in DedupId, g \in Group :
        lastAccepted'[<<q, g, d>>] # lastAccepted[<<q, g, d>>] =>
            \A h \in Group :
                \/ settings[q].perGroup /\ h # g
                \/ lastAccepted[<<q, h, d>>] = Never
                \/ lastAccepted'[<<q, g, d>>]
                     >= lastAccepted[<<q, h, d>>] + DeduplicationWindow]_historyVars
=============================================================================
