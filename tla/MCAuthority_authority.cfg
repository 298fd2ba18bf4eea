SPECIFICATION PartsSpec
CONSTANTS
  None = None
  s1 = s1
  s2 = s2
  init = init
  u1 = u1
  low = low
  high = high
  old = old
  new = new
  Servers = {s1, s2}
  Inits = {init}
  Setups = {u1}
  Policies = {low, high}
  Facts = {old, new}
  MaxIds = 3
  MaxEdits = 2
  Parents = {p1, p2}
  Scopes = {p1, p2}
  Children = {c1, c2}
  Elevatable = {"a", "b"}
  Plans <- TwoPlans
  Lifetime = 1
  MaxTime = 1
  MaxAsks = 2
  MaxChildren = 2
  MaxTroubles = 2
  AskCosts = 2
  MaxText = 3
  Texts <- ShortTexts
  Accounts <- ThreeAccounts
  Callers <- AllCallers
  Origins <- AllOrigins
  Postures <- AllPostures
  MaxOthers = 2
  MaxFaults = 2
SYMMETRY Symmetry
INVARIANTS
  OneIdentity
  AuthorizedOnce
  UserPhaseIsTheUsers
  ArgumentsArrive
  WindowsCreation
PROPERTIES
  RepairOnlyAddsId
CHECK_DEADLOCK FALSE
