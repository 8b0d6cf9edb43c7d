SPECIFICATION MoneySpec
CONSTANTS
    Orders = {o1, o2}
    Payments = {p1, p2, p3}
    Admins = {a1}
    Idle = Idle
    OrderOf <- TwoOrders
    Modes = {"stub", "prod"}
    MaxSwitches = 2
    Tries = 2
    Baskets <- TheOrders
    Rouble = 1
    Contours = {"stub", "test", "prod"}
    Older <- TheOlder
    MaxTurns = 2
SYMMETRY AttemptSymmetry
INVARIANTS
    WorkHasMoney
    WorkNotRefunded
    ReportedOnce
    LinesMakeAmount
    MoneyIsOurs
PROPERTIES
    BoardSpec
CHECK_DEADLOCK FALSE
