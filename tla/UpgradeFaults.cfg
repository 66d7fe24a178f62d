CONSTANTS
  Files = {f1, f2}
  Hazards = {"crash", "power", "io", "edit"}
  MaxFaults = 3
  None = None
SPECIFICATION FairSpec
INVARIANTS TargetWhole
PROPERTIES ReportsTrue ForeignKept Upgraded
