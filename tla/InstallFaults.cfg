CONSTANTS
  Target = "linux"
  Targets = {"linux", "macos"}
  ValidPaths <- Names
  Mandatory <- Core
  Optional <- Extra
  Setups = {s1, s2}
  Locks <- AllLocks
  Served <- Addresses
  Manifest <- Announced
  Archive <- Published
  Machines <- SomeMachines
  MaxFaults = 1
  MaxSwitches = 1
SPECIFICATION FairSpec
INVARIANTS SelectedIsLocked TruthfulReport
PROPERTIES PriorKept RerunInstalls
