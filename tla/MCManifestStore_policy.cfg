SPECIFICATION Spec
CONSTANTS
  None = None
  s1 = s1
  s2 = s2
  init = init
  u1 = u1
  low = low
  high = high
  old = old
  new = new
  Servers = {s1}
  Inits = {}
  Setups = {u1}
  Policies = {low, high}
  Facts = {old, new}
  MaxIds = 3
  MaxEdits = 2
PROPERTIES
  PolicyIsTheOperators
