CONSTANTS
    None = None
    home = home
    away = away
    r1 = r1
    r2 = r2
    cs = cs
    Runways <- OneRunway
    Callsigns <- OneCallsign
    Airports <- Fields
    HistoryCap = 2
    German = TRUE
    BzfStrict = TRUE
    Templates <- DeTemplates
    TowerOnlyTemplates <- DeTowerOnlyTemplates
    InfoTemplates <- DeInfoTemplates
    UncontrolledTemplates <- DeUncontrolledTemplates
    RadioTemplates <- DeRadioTemplates
    Preconditions <- DePreconditions
    IntentFrequency <- DeIntentFrequency
    FrequencyValidity <- DeFrequencyValidity
    FrequencyAutoCorrections <- DeFrequencyAutoCorrections
    IdleRedirects <- DeIdleRedirects
    StateReverts <- DeStateReverts
    TowerOnlyAutoAdvance <- DeTowerOnlyAutoAdvance
    AutoCorrections <- DeAutoCorrections
    StartModes <- AtRunway
    Calls <- PatternCalls
    Surroundings <- TowerFrequencies
    Repairs <- NoRepairs
    FlownPhases <- PatternPhases
    MaxOps = 3
    MaxClock = 0
SPECIFICATION LiveSpec
INVARIANTS
    HistoryChain
PROPERTIES
    PhaseWins
