SPECIFICATION Spec
CONSTANTS
  NoJob = NoJob
  w1 = w1
  w2 = w2
  w3 = w3
  a = a
  b = b
  Slots <- TwoSlots
  AtcVals <- TwoVals
  Radios <- NoAtis
  ReadyConfigs <- Loaded
  EnvBudget = 2
  kMaxTtsTries = 2
  kDialogRetryDelay = 1
  kAtisCooldown = 2
  kAtisRetryDelay = 1
  kAtisTuneDelay = 1
  RetuneInFlight = FALSE
  ToggleInFlight = FALSE
SYMMETRY SlotSymmetry
PROPERTIES RollbackLosesNothing
