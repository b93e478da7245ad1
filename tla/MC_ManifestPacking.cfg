SPECIFICATION Spec
CONSTANTS
    m1 = m1
    m2 = m2
    s1 = s1
    p1 = p1
    p2 = p2
    w1 = w1
    w2 = w2
    Manifests = {m1, m2}
    Shipments = {s1}
    Parcels = {p1, p2}
    ShipmentOf <- OneShipment
    Weight <- UnitWeight
    MaxWeight = 1
    Stations = {w1, w2}
    MaxBags = 2
    MaxCorrections = 2
SYMMETRY Symmetry
INVARIANTS PackingTypeOK SealedAsPacked
PROPERTIES SealHolds
CHECK_DEADLOCK FALSE
