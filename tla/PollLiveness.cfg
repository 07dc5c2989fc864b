\* Long polls that compete for the only lease of a Standard queue.
CONSTANTS
    NoQueue = NoQueue
    NoGroup = NoGroup
    NoAttempt = NoAttempt
    NoDedupId = NoDedupId
    UseDefault = UseDefault
    Source = Source
    DeadLetter = DeadLetter
    Queue = {Source}
    Fifo = {}
    Group = {g1}
    DedupId = {}
    AttemptId = {}
    Delays = {}
    BatchSizes = {1}
    Visibilities = {UseDefault}
    Timeouts = {}
    MoveSizes = {}
    Sendable = {Source}
    Purgeable = {}
    Initial <- SingleLease
    Updates <- NoUpdates
    DeduplicationWindow = 1
    AttemptWindow = 2
    PurgeCooldown = 2
    MaxTime = 3
    MaxSequence = 1
    MaxReceives = 5
    Waits = {0, 2}
    PollInterval = 1
    Poller = {c1, c2}
SPECIFICATION PollSpec
PROPERTY PollsEnd
PROPERTY EmptyOnlyAtDeadline
