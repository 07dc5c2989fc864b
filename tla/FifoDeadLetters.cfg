\* A FIFO queue, its dead-letter queue, to which messages are sent directly too,
\* and the way back, with retried receives: order and conservation.
CONSTANTS
    NoQueue = NoQueue
    NoGroup = NoGroup
    NoAttempt = NoAttempt
    NoDedupId = NoDedupId
    UseDefault = UseDefault
    Source = Source
    DeadLetter = DeadLetter
    Queue = {Source, DeadLetter}
    Fifo = {Source, DeadLetter}
    Group = {g1}
    DedupId = {d1, d2, d3}
    AttemptId = {a1}
    Delays = {}
    BatchSizes = {2}
    Visibilities = {UseDefault}
    Timeouts = {}
    MoveSizes = {1, 2}
    Sendable = {Source, DeadLetter}
    Purgeable = {}
    Initial <- AfterTwoReceives
    Updates <- NoUpdates
    DeduplicationWindow = 5
    AttemptWindow = 2
    PurgeCooldown = 2
    MaxTime = 3
    MaxSequence = 6
    MaxReceives = 3
SPECIFICATION Spec
INVARIANT TypeOK
INVARIANT EarlierReceivedMore
PROPERTY GroupOrder
PROPERTY ImplementsLines
PROPERTY ReceiveConserves
PROPERTY RedriveReturns
SYMMETRY ContentSymmetry
CONSTRAINT FewSends
