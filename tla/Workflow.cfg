SPECIFICATION FairSpec
CONSTANTS
    Tasks = {t1, t2, t3}
    Pre = pre
    Post = post
    Carried = carried
    Raised = raised
INVARIANT FailureStopsOrIsHandled
INVARIANT TasksAreJoined
INVARIANT NilMeansSuppressed
PROPERTY Returns
CHECK_DEADLOCK FALSE
