CONSTANTS
  Setups = {s1, s2}
  Inodes <- Numbers
  Builds <- SomeBuilds
  VersionOf <- Printed
  Supported <- Recent
  Helping <- Able
  MaxChanges = 2
  MaxFaults = 1
SPECIFICATION EFairSpec
INVARIANTS TrustedWasQualified EnrolledIsDurable
PROPERTIES RerunEnrolls
