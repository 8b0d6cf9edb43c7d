SPECIFICATION LocksSpec
CONSTANTS
    Orders = {o1, o2, o3}
    Admins = {a1}
    Tasks = {t1, t2}
    Idle = Idle
    Kinds = {"confirm", "cancel"}
SYMMETRY LockSymmetry
INVARIANTS
    NoCircularWait
