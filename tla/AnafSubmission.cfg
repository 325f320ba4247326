SPECIFICATION Spec
CONSTANTS
    u1 = u1
    u2 = u2
    w1 = w1
    w2 = w2
    sched = sched
    Uploads = {u1, u2}
    NoUpload = none
    Replies <- PlainReplies
    Threads = {w1,w2}
    Scheduler = w1
    Watched = {"invoice_rejected"}
    Crashes = TRUE
SYMMETRY Symmetry
INVARIANTS ValidatedWasSaid ProblemIsRaised
PROPERTIES UploadIdIsKept
