SPECIFICATION LiveSpec
CONSTANTS
  Aircraft = {"DEABC", "DEXYZ"}
  Stages <- MCStages
  Course <- MCCourse
  FirstStages <- MCFirst
  Geometries <- MCGeometries
  UserDistances = {5, 30}
  GoAroundCooldown = 1
  GlobalCooldown = 1
  PerTargetCooldown = 3
  VisualAckLockout = 4
  GroundGlobalCooldown = 1
  GroundPerTargetCooldown = 2
  UserStates <- MCUserStates
  Airports = {"EDNY", "EDMK", "LSPO"}
  Table <- MCTable
  WithRunway = {"EDNY", "EDMK", "LSPO"}
  Places = {"friedrichshafen", "kempten", "olten", "sea"}
  NearestAt <- MCNearestAt
  DistanceNm <- MCDistanceNm
  Tunings = {118201, 126005, 126500}
  Throttle = 2
  Weathers <- MCWeathers
  Runways = {"06", "24"}
  Cooldown = 2
  Letters = 3
  Samples <- MCSamples
  Durations = {1, 2, 7}
  Thresholds <- MCThresholds
INVARIANTS PendingIsLastIssued OneAirport
PROPERTIES GoAroundRepeats EveryTargetCalled ChangeIsTold BounceIgnored PhaseSettles
CHECK_DEADLOCK FALSE
