CONSTANTS
  NativeModules <- CoreNativeModules
  RemainActive = 99
  Accepts <- CoreAccepts
  ModuleLatency <- CoreLatency
  RunModule <- RunCore
  Rules <- CoreRules
  ModuleMeaning <- CoreMeaning
  InputSignal <- MCSignal
  Period = 3
  MaxModuleCallDepth = 5
  Programs <- KeptAlive
  Unshared <- CoreUnshared
  InChannels = 2
  OutChannels = 2
  Workers = 2
SPECIFICATION Spec
INVARIANT NeverOutOfBuffers
