CONSTANTS
  Scripts <- MCScripts
  HeaderBuffer = 3
  LargeBuffer = 2
  LargeBuffers = 1
  MaxBody = 2
  KeepaliveRequests = 2
  Pieces = 2
  Faults = 1
SPECIFICATION Spec
INVARIANTS FramingKept RestSound
PROPERTY EventuallyClosed
