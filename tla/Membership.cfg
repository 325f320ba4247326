SPECIFICATION Spec
CONSTANTS
    owner = owner
    u1 = u1
    u2 = u2
    m1 = m1
    m2 = m2
    m3 = m3
    m4 = m4
    i1 = i1
    i2 = i2
    w1 = w1
    w2 = w2
    Owner = owner
    Users = {owner, u1}
    Roles = {"accountant_owner", "client_viewer"}
    Members = {m1, m2, m3, m4}
    Invitations = {i1}
    Threads = {w1, w2}
SYMMETRY Symmetry
INVARIANTS RolesAreGranted MembershipsAreFew
PROPERTIES AcceptanceSticks
CHECK_DEADLOCK FALSE
