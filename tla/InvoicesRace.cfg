SPECIFICATION Spec
CONSTANTS
    i1 = i1
    i2 = i2
    w1 = w1
    w2 = w2
    sched = sched
    Scheduler = sched
    Invoices = {i1}
    Threads = {w1, w2}
    Files <- FewFiles
    Crashes = TRUE
SYMMETRY ThreadSymmetry
INVARIANTS DuplicatesAreFew
PROPERTIES VerdictIsKept
