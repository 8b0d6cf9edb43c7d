SPECIFICATION FairSpec
CONSTANTS
    Orders = {o1}
    Payments = {p1, p2, p3}
    Admins = {a1}
    Idle = Idle
    OrderOf <- OneOrder
    Modes = {"test", "prod"}
    MaxSwitches = 2
PROPERTY ChargeRecorded
