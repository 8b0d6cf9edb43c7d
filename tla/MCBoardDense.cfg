SPECIFICATION BoardSpec
CONSTANTS
    Orders = {o1, o2}
    Admins = {a1, a2}
    Idle = Idle
SYMMETRY BoardSymmetry
INVARIANT QueueDense
