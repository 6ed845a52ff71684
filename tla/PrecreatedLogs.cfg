SPECIFICATION FairSpec
CONSTANTS
    Consumers = {c1, c2, c3}
    Producer = producer
    PRECREATED_MAX = 3
    MaxRequests = 7
INVARIANTS
    TypeOK
    NoLostWakeup
    EachLogTakenOnce
PROPERTY
    EveryRequestServed
