SPECIFICATION Spec
CONSTANTS
  i1 = i1
  i2 = i2
  p1 = p1
  p2 = p2
  r1 = r1
  r2 = r2
  here = here
  there = there
  None = None
  Instances = {here, there}
  Remote = {there}
  Configurations <- MCConfigurations
  Items = {i1, i2}
  Falsy = {}
  Writers <- MCWriters
  Requests = {r1, r2}
  Processes = {p1, p2}
  MaxRequests = 2
  MaxCacheFaults = 1
  MaxFaults = 1
  MaxStops = 1
INVARIANTS
  EndedMeansClosed
  SharingIsReported
  StaleEntriesExplained
PROPERTIES
  RefusedSettingsTouchNothing
  AllServeInTheEnd
CHECK_DEADLOCK FALSE
