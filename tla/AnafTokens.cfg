SPECIFICATION Spec
CONSTANTS
    a1 = a1
    a2 = a2
    a3 = a3
    w1 = w1
    w2 = w2
    Authorizations = {a1, a2, a3}
    Threads = {w1, w2}
    MaxAnswers = 3
    Crashes = TRUE
SYMMETRY Symmetry
INVARIANTS TokensBelongTogether AuthorizationsAreFew
PROPERTIES RevocationSticks
