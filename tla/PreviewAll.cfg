SPECIFICATION PreviewSpec
CONSTANTS
    a = a
    b = b
    Items = {a, b}
    Categories = {"x", "y"}
    NameOf <- OneName
    Ops = {"move", "classify", "delete"}
    Requests = {p, q}
    Threshold = 1
    MaxAsks = 2
    MaxEvents = 1
SYMMETRY Symmetry
INVARIANTS
    NothingOverwritten
    ClaimsHaveOwners
PROPERTIES
    KeepsPromise
    MovedAsShown
CHECK_DEADLOCK FALSE
