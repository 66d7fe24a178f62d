CONSTANTS
  Own = {x, y}
  Foreign = {a, b, c}
  Clash = {c}
  Threads = {t1}
  Stamps = {1}
  RaceLimit = 2
  Hazards = {"crash", "network", "branch", "stray"}
  MaxFaults = 2
  None = None
SPECIFICATION Spec
SYMMETRY Interchangeable
INVARIANTS NothingLost TruthfulReport TodoAgreesOnMain
PROPERTIES ForgottenOnlyWhenDurable ImplementsKnowledgeLog
