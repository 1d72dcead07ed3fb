SPECIFICATION FairSpec
CONSTANTS
    NumEvents = 3
    Subject <- TwoAppointments
    Malformed = {3}
    Polls = {w1, w2}
    BatchSize = 2
    MaxRollbacks = 2
INVARIANTS
    DeliveryInv LineInv HeldByOnePoll RedeliveryNeedsRollback FirstSeenInOrder LastSeenIsLatest
    DeliveredAtLeastOnce
PROPERTIES EventuallySettled DeliveryPromise
