CONSTANTS
  N = 4
  Legacy = {1, 3}
  Hazards = {"crash", "tear", "io", "edit"}
  MaxFaults = 3
  None = None
SPECIFICATION FairSpec
INVARIANTS AllOrNothing
PROPERTIES ReportsTrue ForeignKept RecoveryEnds
