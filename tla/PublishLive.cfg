CONSTANTS
  Own = {x, y}
  Foreign = {b}
  Clash = {b}
  Threads = {t1}
  Stamps = {1}
  RaceLimit = 3
  Hazards = {"network"}
  MaxFaults = 1
  None = None
SPECIFICATION FairSpec
PROPERTIES EverySettled
