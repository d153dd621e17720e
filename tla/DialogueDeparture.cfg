CONSTANTS
    None = None
    home = home
    away = away
    r1 = r1
    r2 = r2
    cs = cs
    Runways <- OneRunway
    Callsigns <- OneCallsign
    Airports <- OneField
    HistoryCap = 2
    German = TRUE
    BzfStrict = TRUE
    Templates <- DeTemplates
    TowerOnlyTemplates <- DeTowerOnlyTemplates
    InfoTemplates <- DeInfoTemplates
    UncontrolledTemplates <- DeUncontrolledTemplates
    RadioTemplates <- DeRadioTemplates
    Preconditions <- DePreconditions
    IntentFrequency <- DeIntentFrequency
    FrequencyValidity <- DeFrequencyValidity
    FrequencyAutoCorrections <- DeFrequencyAutoCorrections
    IdleRedirects <- DeIdleRedirects
    StateReverts <- DeStateReverts
    TowerOnlyAutoAdvance <- DeTowerOnlyAutoAdvance
    AutoCorrections <- DeAutoCorrections
    StartModes <- BothModes
    Calls <- DepartureCalls
    Surroundings <- GroundAndTower
    Repairs <- SomeRepairs
    FlownPhases <- DeparturePhases
    MaxOps = 3
    MaxClock = 0
SPECIFICATION Spec
INVARIANT ArmedWithClearance
PROPERTIES
    XcHonoured
    StrictHolds
    DialogueKeepsPromise
