CONSTANTS
    p1 = p1
    s1 = s1
    w1 = w1
    f1 = f1
    f2 = f2
    Triggers <- PollOnly
    Polling = {p1}
    Workflows = {w1}
    WorkflowOf <- OneWorkflow
    Feeds = {f1}
    FeedOf <- FeedOfTrigger
    Invalid <- NoItems
    Filtered <- NoItems
    PendingCap = 1
    MaxPosition = 2
    FeedLength <- LengthOfFeed
    MaxUpsets = 2
    Aged <- NoItems
SPECIFICATION FairSpec
PROPERTIES PendingIsRetried
CHECK_DEADLOCK FALSE
