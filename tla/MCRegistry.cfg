\* Two machines, instances renamed to a host name and to another, pages of one instance.
SPECIFICATION FairSpec
CONSTANTS
  h1 = h1  h2 = h2  a = a  b = b
  Hosts = {h1, h2}
  HostName <- MCHostName
  NewNames = {b, c}
  Slots = {s1, s2}
  PageSize = 1
  NoToken = NoToken
  MaxRows = 3
  MaxFaults = 1
INVARIANTS
  RegistryInv
  NamesAreUnique
  WalkIsComplete
PROPERTIES
  ComesOnline
CHECK_DEADLOCK FALSE
