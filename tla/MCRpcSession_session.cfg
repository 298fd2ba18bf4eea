SPECIFICATION PartsSpec
CONSTANTS
  None = None
  CaptureLimit = 1
  PipeSize = 2
  MaxOutput = 2
  ProtocolMin = 1
  ProtocolMax = 2
  Scripts <- AllScripts
  Workers <- AllReleases
  MaxChanges = 1
INVARIANTS
  ExecIsComplete
  CallsAtMostOnce
  OnlyCompatible
  
PROPERTIES
  SessionEnds
