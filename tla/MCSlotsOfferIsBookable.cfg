SPECIFICATION Spec
CONSTANTS
    UnitsPerMinute = 2
    MinutesPerDay = 12
    OpenMinutes = 2
    CloseMinutes = 7
    ServiceCatalog <- SmallCatalog
    SlotStep = 4
    SearchSpan = 16
    NoSlot = NoSlot
    Bays = {b1, b2}
    Technicians = {t1, t2}
    Froms = {28, 30, 31}
    JobStarts = {24, 28, 30, 32, 38}
    MaxJobs = 3
    Zones = {}
SYMMETRY Symmetry
INVARIANT OfferIsBookable
