SPECIFICATION FairSpec
CONSTANTS
    u1 = u1
    u2 = u2
    w1 = w1
    w2 = w2
    sched = sched
    Uploads = {u1}
    NoUpload = none
    Replies <- AllReplies
    Threads = {w1}
    Scheduler = sched
    Watched = {}
    Crashes = TRUE
INVARIANTS ValidatedWasSaid
PROPERTIES ValidatedIsShown
