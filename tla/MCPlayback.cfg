SPECIFICATION PlaybackSpec
CONSTANTS
  Notes = {60, 62, 64, 65}
  MaxVoices = 3
  Frames = 2
  VoiceLatency = 1
  FxLatency = 3
  QueueSize = 3
  MaxChunks = 3
  Padding = 1
  UnknownLatency = 0
  MaxParameters = 1
  Parameters = {1, 2}
  Early = 1
  LastTime = 5
  Scripts <- MCScripts
INVARIANT TypeOK
INVARIANT VoiceListOrdered
INVARIANT KeysAreFollowed
INVARIANT ParametersCarry
INVARIANT DurationsCount
INVARIANT FxHearsNewNotes
PROPERTY ImplementsPolicy
CHECK_DEADLOCK FALSE
