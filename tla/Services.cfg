SPECIFICATION Spec
CONSTANTS
    v1 = v1
    v2 = v2
    v3 = v3
    c1 = c1
    c2 = c2
    r1 = r1
    k1 = k1
    s1 = s1
    s2 = s2
    t1 = t1
    t2 = t2
    t3 = t3
    Words = {"ok", "nok", "nevalid", "nepreluat", "in_prelucrare", "factura"}
    Tags = {"stare", "@stare", "mesaj", "eroare", "altul"}
    MaxElements = 3
    MaxFiles = 3
    ResetTokens = {r1}
    ApiKeys = {k1}
    Sessions = {t1, t2, t3}
    Horizon = 20
    MaxGap = 3
    Thresholds = {0, 5, 15}
    Clients = {c1, c2}
    SettingsThreads = {s1, s2}
    MaxRuns = 1
    MaxMails = 1
    Window = 4
    PerWindow = 3
    MaxBurst = 4
    Views = {v1, v2, v3}
    ViewThreads = {t1, t2}
    p1 = p1
    p2 = p2
    p3 = p3
    w1 = w1
    w2 = w2
    Loop = loop
    Organizations = {1, 2, 3}
    Home = 1
    Plans <- TwoPlans
    MaxOrganizations <- FewOrganizations
    MaxInvoices <- FewInvoices
    MaxDocuments <- FewDocuments
    Documents = {1, 2, 3}
    Paths = {p1, p2, p3}
    Threads = {w1, w2}
    MaxBatch = 2
    MaxApi = 1
SYMMETRY Symmetry
CHECK_DEADLOCK FALSE
INVARIANTS OrderDoesNotMatter ReadersAgree DeadlineIsFifthWorkday DefaultsAreFew
    ResetsAreFew LateCallsAreFew EnabledAreServed AuditsFollowMails WindowIsKept
    UploadsWithinPlan OrganizationsAreFew DocumentsCanBeRead
PROPERTIES RefusalStays WarnedBeforeLate RefusedOnlyWhenFull
