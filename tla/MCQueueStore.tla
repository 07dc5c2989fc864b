--------------------------- MODULE MCQueueStore ---------------------------
(***************************************************************************)
(* Instances of QueueStore for TLC.  Source is the queue under test and    *)
(* DeadLetter, in the runs that have a second queue, its dead-letter queue.*)
(***************************************************************************)
EXTENDS QueueStoreRefinement, TLC

CONSTANTS Source, DeadLetter

Symmetry == Permutations(Group)
ContentSymmetry == Permutations(DedupId)

\* Messages that are sent to the dead-letter queue directly are not combined with
\* a third message, nor with stored attempts; with three messages, nothing is
\* explored beyond the last sequence number.
SentDirectly == \E k \in keys : k.queue = DeadLetter
FewSends ==
    /\ SentDirectly => Cardinality(keys) <= 2 /\ attempts = {}
    /\ Cardinality(keys) > 2 => nextSequence < MaxSequence + 1

Plain == [visibility |-> 2, delay |-> 0, retention |-> 10, maxInFlight |-> 10,
          perGroup |-> TRUE, policy |-> NoPolicy]

NoUpdates == [q \in Queue |-> {}]

\* A queue whose retention outlives the run.
PlainQueue == [q \in Queue |-> Plain]

\* At most two leases, and rows that expire during the run.
TightQueue == [q \in Queue |-> [Plain EXCEPT !.maxInFlight = 2, !.retention = 3]]

\* The same with leases shorter than the attempt window.
BriefQueue == [q \in Queue |-> [TightQueue[q] EXCEPT !.visibility = 1]]

\* The same with rows that expire before the attempts do.
FleetingQueue == [q \in Queue |-> [BriefQueue[q] EXCEPT !.retention = 2]]

\* The limit is lowered to one lease while there may be two.
Tightenings ==
    [q \in Queue |-> {[TightQueue[q] EXCEPT !.visibility = 1, !.maxInFlight = 1]}]

\* One lease at most, and brief.
SingleLease ==
    [q \in Queue |-> [Plain EXCEPT !.maxInFlight = 1, !.visibility = 1]]

Redriving(max) == [deadLetter |-> DeadLetter, max |-> max]

\* Source dead-letters what it delivered max times; DeadLetter keeps longer.
Chain(max) ==
    [q \in Queue |->
        IF q = Source
        THEN [Plain EXCEPT !.visibility = 1, !.retention = 3,
                           !.policy = Redriving(max)]
        ELSE [Plain EXCEPT !.visibility = 1]]
AfterOneReceive == Chain(1)
AfterTwoReceives == Chain(2)

\* The chain with room for two leases at the source.
TightChain == [Chain(1) EXCEPT ![Source].maxInFlight = 2]
===========================================================================
