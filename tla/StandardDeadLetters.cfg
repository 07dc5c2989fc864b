\* A Standard queue with room for two leases, its dead-letter queue and the way
\* back: delays, zero visibility, extension, expiry, the limit.
CONSTANTS
    NoQueue = NoQueue
    NoGroup = NoGroup
    NoAttempt = NoAttempt
    NoDedupId = NoDedupId
    UseDefault = UseDefault
    Source = Source
    DeadLetter = DeadLetter
    Queue = {Source, DeadLetter}
    Fifo = {}
    Group = {g1}
    DedupId = {}
    AttemptId = {}
    Delays = {1}
    BatchSizes = {2}
    Visibilities = {0, UseDefault}
    Timeouts = {2}
    MoveSizes = {1}
    Sendable = {Source, DeadLetter}
    Purgeable = {}
    Initial <- TightChain
    Updates <- NoUpdates
    DeduplicationWindow = 1
    AttemptWindow = 2
    PurgeCooldown = 2
    MaxTime = 3
    MaxSequence = 3
    MaxReceives = 2
SPECIFICATION Spec
PROPERTY InFlightBound
PROPERTY OnlyLiveRowsMove
