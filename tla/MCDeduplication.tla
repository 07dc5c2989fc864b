-------------------------- MODULE MCDeduplication --------------------------
(***************************************************************************)
(* An instance of DeduplicationHistory for TLC: one FIFO queue whose       *)
(* deduplication scope and delay change.                                   *)
(***************************************************************************)
EXTENDS DeduplicationHistory, TLC

CONSTANT Source

Symmetry == Permutations(Group)

Plain == [visibility |-> 2, delay |-> 0, retention |-> 2, maxInFlight |-> 10,
          perGroup |-> TRUE, policy |-> NoPolicy]

PlainQueue == [q \in Queue |-> Plain]
ScopeChanges ==
    [q \in Queue |-> {Plain, [Plain EXCEPT !.perGroup = FALSE, !.delay = 1],
                      [Plain EXCEPT !.delay = 2, !.retention = 3]}]
===========================================================================
