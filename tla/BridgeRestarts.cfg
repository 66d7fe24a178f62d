CONSTANTS
    Updates = {"u1", "u2", "u3", "u4"}
    QueueCapacity = 2
    DedupeCapacity = 3
    Attempts = 2
    Hazards = {"answer", "expiry", "stop", "crash"}
    MaxFaults = 2
    None = None
SPECIFICATION FairSpec
INVARIANTS InOrder AtMostOnce
PROPERTIES EverySettled
CHECK_DEADLOCK FALSE
