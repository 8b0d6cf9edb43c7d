SPECIFICATION PanelSpec
CONSTANTS
    Orders = {o1, o2, o3, o4}
    Admins = {a1}
    Idle = Idle
    Calendars <- TheCalendars
    FirstCalendar <- TheFirst
    Baskets <- TheBaskets
    LeadDays = {0, 1}
    Lookahead = 10
    MaxLine = 3
    LastDay = 1
SYMMETRY OrderSymmetry
INVARIANTS
    TypeOK
    QueueDense
    QueueFitsDays
    FreeSlotIsFirst
    PlanIsTheBoards
    LateForAReason
    OthersDelayNobody
PROPERTIES
    LegalSteps
    FirstComeFirstServed
