CONSTANTS
    Clients = {"c1", "c2"}
    Hosts = 2
    MaxRounds = 2
    Hazards = {"resolve", "connect", "time", "statement", "lost", "other"}
    MaxFaults = 2
    All <- MCAll
    Checkouts <- MCCheckouts
    None = None
SPECIFICATION FairSpec
INVARIANTS OneSession LedgerTellsSchema
PROPERTIES Migrated
