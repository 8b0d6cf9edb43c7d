SPECIFICATION CheckoutSpec
CONSTANTS
    small = small
    big = big
    one = one
    two = two
    Menu <- TwoSizes
    MaxBoxes = 2
    MaxOrders = 2
    MaxItems = 2
    MaxUpsets = 1
    None = None
SYMMETRY SizeSymmetry
INVARIANT TotalAddsUp
PROPERTIES PlacedAsOffered OneBoxPerPass StaleChangesNothing
