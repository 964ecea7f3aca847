CONSTANTS
    p1 = p1
    p2 = p2
    s1 = s1
    s2 = s2
    f1 = f1
    f2 = f2
    Triggers = {p1, p2, s1, s2}
    Sockets = {s1, s2}
    Feeds = {f1, f2}
    FeedOf <- FeedOfTrigger
    PollPermits = 1
    SocketPermits = 2
    RescanTicks = 2
    MaxWrites = 2
    MaxResets = 1
SPECIFICATION FairSpec
INVARIANTS TypeOK InFlightIsTasks IdleCacheIsTrue OldTasksAreCancelled
PROPERTIES EnabledIsAttempted
