SPECIFICATION Spec
CONSTANTS
  None = None
  dir = dir
  file = file
  tool = tool
  card = card
  k1 = k1
  k2 = k2
  p1 = p1
  p2 = p2
  Procs = {p1}
  Actions = {dir, file, tool, card}
  Directories = {dir}
  Virtual = {tool, card}
  Card = card
  Params = {k1, k2}
  Plans <- FaultPlans
  Drafts = {"generated"}
  EditedDraft = "edited"
  MaxIds = 5
  MaxFaults = 2
  MaxCrashes = 1
  MaxInterference = 2
  MaxEdits = 1
INVARIANTS
  OwnershipIsEarned
  NoMutationForgotten
  OneIntent
  NoOrphanEvidence
PROPERTIES
  MachineIdStable
  ThirdManifestStays
CHECK_DEADLOCK FALSE
