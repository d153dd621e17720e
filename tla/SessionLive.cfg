SPECIFICATION FairSpec
CONSTANTS
  NoJob = NoJob
  w1 = w1
  w2 = w2
  w3 = w3
  a = a
  b = b
  Slots <- ThreeSlots
  AtcVals <- OneVal
  Radios <- TunedOrNot
  ReadyConfigs <- Loaded
  EnvBudget = 2
  kMaxTtsTries = 2
  kDialogRetryDelay = 1
  kAtisCooldown = 1
  kAtisRetryDelay = 1
  kAtisTuneDelay = 0
  RetuneInFlight = TRUE
  ToggleInFlight = TRUE
INVARIANTS NeverWedged
PROPERTIES PushToTalkReturns
