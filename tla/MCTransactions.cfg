SPECIFICATION TxnSpec
CONSTANTS
    Orders = {o1, o2, o3}
    Admins = {a1}
    Tasks = {t1, t2}
    Idle = Idle
    Kinds = {"confirm", "withdraw", "expire", "cancel", "reissue", "leave", "return"}
    Clients = {c1, c2, c3}
    Limits = {0, 1, 2}
    LastDate = 1
SYMMETRY TxnSymmetry
INVARIANTS
    ReadsHold
    OrderlyKindsNeverCircle
    IntakeOK
PROPERTY PlaceSoldOnce
