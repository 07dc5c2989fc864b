\* The promise that one group is never out with two calls at once.
CONSTANTS
    NoQueue = NoQueue
    NoGroup = NoGroup
    NoAttempt = NoAttempt
    NoDedupId = NoDedupId
    UseDefault = UseDefault
    Source = Source
    DeadLetter = DeadLetter
    Queue = {Source}
    Fifo = {Source}
    Group = {g1}
    DedupId = {d1}
    AttemptId = {}
    Delays = {}
    BatchSizes = {1, 2}
    Visibilities = {UseDefault}
    Timeouts = {0}
    MoveSizes = {}
    Sendable = {Source}
    Purgeable = {}
    Initial <- PlainQueue
    Updates <- NoUpdates
    DeduplicationWindow = 1
    AttemptWindow = 2
    PurgeCooldown = 2
    MaxTime = 4
    MaxSequence = 3
    MaxReceives = 2
SPECIFICATION Spec
PROPERTY GroupExclusive
