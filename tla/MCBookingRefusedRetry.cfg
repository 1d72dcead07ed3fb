SPECIFICATION Spec
CONSTANTS
    UnitsPerMinute = 1
    MinutesPerDay = 12
    OpenMinutes = 2
    CloseMinutes = 7
    ServiceCatalog <- SmallCatalog
    SlotStep = 2
    SearchSpan = 8
    NoSlot = NoSlot
    p1 = p1  p2 = p2  p3 = p3  b1 = b1  b2 = b2  t1 = t1  t2 = t2  c1 = c1  d1 = d1  d2 = d2  key1 = key1
    Requests = {p1, p2}
    Bays = {b1}
    Technicians = {t1, t2}
    Dealerships = {d1, d2}
    Customers = {c1}
    HomeOf <- OneDealership
    Skills <- OneSpecialist
    Keys = {key1}
    EmptyKey = EmptyKey
    NoKey = NoKey
    Nobody = Nobody
    Inputs <- RetriedInput
    Instants <- AtOnce
    Newcomers = {}
    Removable = {}
INVARIANT RetryNeverRefused
