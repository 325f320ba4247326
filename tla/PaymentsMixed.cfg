SPECIFICATION Spec
CONSTANTS
    o1 = o1
    o2 = o2
    w1 = w1
    w2 = w2
    loop = loop
    none = none
    no_plan = no_plan
    Orders = {o1}
    Texts <- MixedTexts
    Buttons = {"paid", "failed"}
    Threads = {w1, w2}
    EventLoop = loop
    NoOrder = none
    NoPlan = no_plan
    Plans <- TwoPlans
    DefaultPlan = "one"
    ManualPlans = {"one"}
    V2Enabled = TRUE
    MockEnabled = TRUE
    SignatureRequired = FALSE
    Crashes = TRUE
SYMMETRY ThreadSymmetry
INVARIANTS TypeOK PaidWasReported PaidIffActivated
PROPERTIES PaymentIsKept StalePendingIsHarmless ImplementsLedger
