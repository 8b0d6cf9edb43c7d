SPECIFICATION BotSpec
CONSTANTS
    Orders = {o1}
    Payments = {p1, p2}
    Admins = {a1, a2}
    Idle = Idle
    OrderOf <- OneOrder
    Modes = {"test", "prod"}
    MaxSwitches = 1
    Users = {"one", "other"}
    Updates = {u1, u2, u3, u4}
    UserOf <- Whose
    Gone = Gone
    Spots = {1, 2, 3, 4}
    CarrierOf <- TheCarriers
    WordsOf <- TheWords
    KeyOf <- TheKeys
    Km <- TheKm
    Radii <- TheRadii
    Cut <- TheCut
    Queries <- TheQueries
    PageSize = 2
INVARIANTS
    MoneyAccounted
    WorkIsPaid
    OneEntryWhileBusy
    PagesCover
PROPERTIES
    ChargeRecorded
    WaitingEnds
    OneByOne
    NearestListed
