SPECIFICATION PartsSpec
CONSTANTS
  None = None
  CaptureLimit = 1
  PipeSize = 1
  MaxOutput = 1
  ProtocolMin = 1
  ProtocolMax = 2
  Scripts <- AllScripts
  Workers <- AllReleases
  MaxChanges = 0
INVARIANTS
  UnreadIsUnknown
