CONSTANTS
    p1 = p1
    s1 = s1
    w1 = w1
    f1 = f1
    f2 = f2
    Triggers <- PollAndSocket
    Polling = {p1}
    Workflows = {w1}
    WorkflowOf <- OneWorkflow
    Feeds = {f1, f2}
    FeedOf <- FeedOfTrigger
    Invalid <- LastRejected
    Filtered <- FirstFiltered
    PendingCap = 1
    MaxPosition = 3
    FeedLength <- LengthOfFeed
    MaxUpsets = 1
    Aged <- EveryItem
SPECIFICATION Spec
INVARIANTS TypeOK CapRespected ReceiptsMatchQueue DeliveredAtMostOnce NothingSkipped
PROPERTIES AcceptedInOrder ImplementsDelivery
CHECK_DEADLOCK FALSE
