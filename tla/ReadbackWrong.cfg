SPECIFICATION Spec
CONSTANTS
    MaxPresses = 2
    MaxSounds = 4
    MaxTests = 1
    MaxChunks = 3
    MinChunks = 1
    Rates = {16000, 48000}
    Catalogs <- MCCatalogs
    OldFiles <- MCOldFiles
    MaxEdits = 3
    MaxStarts = 3
    Entries <- MCEntries
    MaxWrites = 4
    MaxMinutes = 2
    MaxFaults = 2
    verdict <- match
    Rules <- DeRules
    Adjustments <- DeAdjustments
    Normalizations <- DeNormalizations
    Needles <- DeNeedles
    Facilities <- DeFacilities
    Points = {"whiskey", "echo"}
    PilotCallsign <- MCCallsign
    Utterances <- MCUtterances
    Circumstances <- MCCircumstances
    Triggers = {"REQUEST_TAXI", "READY_FOR_DEPARTURE", "REPORT_POSITION"}
    IssuedRunways <- MCRunways
    IssuedQnhs <- MCQnhs
    Registrations <- MCRegistrations
INVARIANT WrongIsCorrected
CHECK_DEADLOCK FALSE
