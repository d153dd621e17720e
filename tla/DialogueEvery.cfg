CONSTANTS
    None = None
    home = home
    away = away
    r1 = r1
    r2 = r2
    cs = cs
    Runways <- TwoRunways
    Callsigns <- OneCallsign
    Airports <- Fields
    HistoryCap = 2
    German = TRUE
    BzfStrict = TRUE
    Templates <- DeTemplates
    TowerOnlyTemplates <- DeTowerOnlyTemplates
    InfoTemplates <- DeInfoTemplates
    UncontrolledTemplates <- DeUncontrolledTemplates
    RadioTemplates <- DeRadioTemplates
    Preconditions <- DePreconditions
    IntentFrequency <- DeIntentFrequency
    FrequencyValidity <- DeFrequencyValidity
    FrequencyAutoCorrections <- DeFrequencyAutoCorrections
    IdleRedirects <- DeIdleRedirects
    StateReverts <- DeStateReverts
    TowerOnlyAutoAdvance <- DeTowerOnlyAutoAdvance
    AutoCorrections <- DeAutoCorrections
    StartModes <- BothModes
    Calls <- EveryCall
    Surroundings <- EverySurrounding
    Repairs <- SomeRepairs
    FlownPhases <- EveryPhase
    MaxOps = 1
    MaxClock = 1
SPECIFICATION Spec
PROPERTIES
    ClearedByTower
