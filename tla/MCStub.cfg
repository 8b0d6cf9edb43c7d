SPECIFICATION Spec
CONSTANTS
    Orders = {o1}
    Payments = {p1, p2}
    Admins = {a1}
    Idle = Idle
    OrderOf <- OneOrder
    Modes = {"stub"}
    MaxSwitches = 0
INVARIANT MoneyAccounted
