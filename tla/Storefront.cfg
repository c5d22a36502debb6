\* Room for two, two queueing tiers between two others.
SPECIFICATION ShopSpec
CONSTANTS
    w1 = w1
    w2 = w2
    w3 = w3
    Writes <- MCWrites
    Orders <- MCOrders
    Mode <- MCMode
    MaxDepth = 2
    TTL = 2
    N = 4
    QueueTiers = {2, 3}
INVARIANTS
    ShopTypeOK
    AcceptedInOrder
    StrandedWasOvertaken
    AnswersMatchFates
    ConfirmedByMode
PROPERTIES
    ExpiredIsNotDrained
    QueuedLeaves
