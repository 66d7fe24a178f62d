SPECIFICATION FairSpec
CONSTANTS
  Hazards = {"crash", "io", "edit"}
  MaxFaults = 3
INVARIANTS AllOrRecoverable
PROPERTIES ReportsTrue ForeignKept TodoRepaired
