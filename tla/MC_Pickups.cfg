SPECIFICATION Spec
CONSTANTS
    r1 = r1
    r2 = r2
    s1 = s1
    p1 = p1
    p2 = p2
    c1 = c1
    Requests = {r1, r2}
    Shipments = {s1}
    Parcels = {p1, p2}
    ShipmentOf <- OneShipment
    Calls = {c1}
    MaxAttempts = 2
CONSTRAINT Undisturbed
SYMMETRY Symmetry
INVARIANTS ChargedInHand NobodyLeftBehind
CHECK_DEADLOCK FALSE
