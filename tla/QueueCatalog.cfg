\* Three FIFO queues that are created, linked, deleted and created again, under
\* listings, long polls and stored receive attempts.
CONSTANTS
    NoQueue = NoQueue
    NoAttempt = NoAttempt
    Name = {1, 2, 3}
    Fifo = {1, 2, 3}
    Sources = {1, 2}
    Tag = {t1, t2}
    MaxTags = 1
    AttemptId = {a1}
    PrefixSets <- AllAndLast
    PageSizes = {1, 2}
    NoMaximum = NoMaximum
    DefaultPageSize = 2
    Cooldown = 2
    PollTime = 1
    MaxTime = 2
    MaxSequence = 3
    MaxReceives = 2
SPECIFICATION CatalogSpec
INVARIANT CatalogTypeOK
INVARIANT NoDanglingRows
INVARIANT AnswersCurrent
INVARIANT PollMeetsOneQueue
INVARIANT ListingExact
CONSTRAINT OneThingAtATime
