------------------------- MODULE MCDatabaseOpening -------------------------
(***************************************************************************)
(* An instance of DatabaseOpening for TLC, with a file of each release: a  *)
(* message that has been received, perhaps after it went to the dead-      *)
(* letter queue, its deduplication key, and the key of a deleted message   *)
(* of the other group.                                                     *)
(***************************************************************************)
EXTENDS PlaintextMigration, TLC

CONSTANTS q1, q2, g1, g2, d1, d2, closed

\* The features of the releases, the oldest first.
Releases ==
    LET base == {"base"}
        attributes == base \cup {"delivery", "dedupIds", "totals"}
        fifo == attributes \cup {"groups"}
        management == fifo \cup {"wideCheck", "stamps"}
    IN  {base, base \cup {"delivery"}, attributes, fifo, management,
         management \cup {"security"}}

FileOf(features, queue) ==
    LET has(feature, value) == IF feature \in features THEN value ELSE NoColumn
    IN  [features |-> features, queues |-> {q1, q2},
         oldWindows |-> IF "groups" \in features THEN {} ELSE {q1},
         perGroup |-> {},
         messages |-> (3 :> [queue |-> queue, group |-> g1, received |-> 1,
                             total |-> has("totals", IF queue = q1 THEN 1 ELSE 2),
                             dedup |-> has("dedupIds", d1)]),
         keys |-> {[queue |-> q1, dedup |-> d1, message |-> 3, group |-> has("groups", g1)],
                   [queue |-> q1, dedup |-> d2, message |-> 2, group |-> has("groups", g2)]},
         security |-> IF "security" \in features
                      THEN (q1 :> closed @@ q2 :> NoPolicy) ELSE NoRows]

\* Somebody deleted a queue with a tool that does not enforce foreign keys.
Damaged == [FileOf({"base"}, q1) EXCEPT !.queues = {q2}]

Left ==
    {[file |-> f,
      history |-> {[queue |-> q1, dedup |-> d1, group |-> g1],
                   [queue |-> q1, dedup |-> d2, group |-> g2]}]
        : f \in {FileOf(r, q) : r \in Releases, q \in {q1, q2}} \cup {Damaged}}
=============================================================================
