SPECIFICATION CheckoutSpec
CONSTANTS
    small = small
    big = big
    one = one
    two = two
    Menu <- TwoProducts
    MaxBoxes = 2
    MaxOrders = 1
    MaxItems = 2
    MaxUpsets = 1
    None = None
INVARIANT BoxesPricedAsChosen
