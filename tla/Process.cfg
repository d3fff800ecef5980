SPECIFICATION ProgramSpec
CONSTANTS
    NumberOfReconnects = 2
    Files <- MCFiles
    WithOTLPGRPC = FALSE
    IniFiles <- MCIniFiles
    Unreadable = Unreadable
INVARIANTS
    ProgramTypeOK
    GivesUpOnlyWhenExhausted
    RetriesAreBounded
    ThreadsEndFirst
    AcceptedOptionsAreUsable
    StartUpNeverCrashes
    QuietAfterCleanUp
PROPERTIES
    StopEndsAcquisition
    SignalEndsServingProcess
    DeadFeedEndsProcess
\* The process ends.
CHECK_DEADLOCK FALSE
