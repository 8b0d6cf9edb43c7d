SPECIFICATION BoardSpec
CONSTANTS
    Orders = {o1}
    Admins = {a1, a2}
    Idle = Idle
SYMMETRY BoardSymmetry
PROPERTY LegalSteps
