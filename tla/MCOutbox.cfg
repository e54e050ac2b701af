SPECIFICATION FairSpec
CONSTANTS
    e1 = e1
    e2 = e2
    w1 = w1
    w2 = w2
    NoId = NoId
    NoEvent = NoEvent
    Event = {e1, e2}
    Worker = {w1, w2}
    Id = {"id1", "id2"}
    IdOf <- IdOfDistinct
    Consumer = {"c1"}
    ConsumerOf <- OneConsumer
    MaxAttempts = 2
    BatchSize = 2
    MaxReplays = 1
INVARIANTS
    TypeOK
    EffectsExactlyOnce
PROPERTIES
    DeliverySpec
    EveryEventSettles
    RunOnceReturns
CHECK_DEADLOCK FALSE
