SPECIFICATION RerunSpec
CONSTANTS
  None = None
  dir = dir
  file = file
  tool = tool
  card = card
  k1 = k1
  k2 = k2
  p1 = p1
  p2 = p2
  Procs = {p1, p2}
  Actions = {dir, file, tool, card}
  Directories = {dir}
  Virtual = {tool, card}
  Card = card
  Params = {k1, k2}
  Plans <- SamePlan
  Drafts = {"generated"}
  EditedDraft = "edited"
  MaxIds = 30
  MaxFaults = 1
  MaxCrashes = 1
  MaxInterference = 0
  MaxEdits = 0
PROPERTIES
  RunsEnd
  RerunsConverge
CHECK_DEADLOCK FALSE
