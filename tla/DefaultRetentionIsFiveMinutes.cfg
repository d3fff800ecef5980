SPECIFICATION ProgramSpec
CONSTANTS
    NumberOfReconnects = 0
    Files <- MCFiles
    WithOTLPGRPC = TRUE
    IniFiles <- MCIniFiles
    Unreadable = Unreadable
INVARIANT
    DefaultRetentionIsFiveMinutes
\* The process ends.
CHECK_DEADLOCK FALSE
