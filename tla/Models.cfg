SPECIFICATION Spec
CONSTANTS
  Whisper = {"whisper"}
  Llama = {"llama"}
  VoicePairs <- MCVoicePairs
  Modes = {"local", "cloud", "hybrid"}
  InitFiles = {"short", "corrupt", "good"}
  MaxClicks = 2
CHECK_DEADLOCK FALSE
INVARIANTS OnlyVerifiedLoaded DoneIsOnDisk QueuedIsPending NothingSurvivesDisable NoLostWakeup
