SPECIFICATION RerunSpec
CONSTANTS
  None = None
  dir = dir
  file = file
  tool = tool
  card = card
  k1 = k1
  k2 = k2
  p1 = p1
  p2 = p2
  Procs = {p1}
  Actions = {dir, file, tool, card}
  Directories = {dir}
  Virtual = {tool, card}
  Card = card
  Params = {k1, k2}
  Plans <- OnlyDir
  Drafts = {"generated"}
  EditedDraft = "edited"
  MaxIds = 30
  MaxFaults = 0
  MaxCrashes = 1
  MaxInterference = 1
  MaxEdits = 0
PROPERTIES
  PublicationResumes
CHECK_DEADLOCK FALSE
