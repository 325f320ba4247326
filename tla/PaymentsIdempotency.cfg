SPECIFICATION Spec
CONSTANTS
    o1 = o1
    o2 = o2
    w1 = w1
    w2 = w2
    loop = loop
    none = none
    no_plan = no_plan
    Orders = {o1}
    Texts <- PaidTexts
    Buttons = {"paid"}
    Threads = {w1}
    EventLoop = loop
    NoOrder = none
    NoPlan = no_plan
    Plans <- TwoPlans
    DefaultPlan = "one"
    ManualPlans = {}
    V2Enabled = TRUE
    MockEnabled = FALSE
    SignatureRequired = TRUE
    Crashes = FALSE
PROPERTIES PaidIpnIsIdempotent
