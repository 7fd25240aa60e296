SPECIFICATION FairSpec
CONSTANTS
  Sounds = {s1}
  File = File
  NoVoice = NoVoice
  GenerationMod = 5
  MaxPlays = 3
INVARIANTS
  HandleReachesOwn
  VoicesHeld
  NothingLeftAtExit
PROPERTIES
  Refines
  StoppedIsReaped
CHECK_DEADLOCK FALSE
