SPECIFICATION Spec
CONSTANTS
  None = None
  p1 = p1
  p2 = p2
  a1 = a1
  a2 = a2
  m1 = m1
  m2 = m2
  m3 = m3
  Procs = {p1, p2}
  Names = {a1, a2}
  Addresses = {a1}
  MachineIds = {m1, m2}
  MaxKey = 2
  MaxHosts = 2
SYMMETRY Symmetry
INVARIANTS
  HostsDistinct
  CachesBelong
  NeverUnderOlderPin
PROPERTIES
  PinsMoveOn
  ImplementsTable
