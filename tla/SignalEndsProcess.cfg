SPECIFICATION Spec
CONSTANTS
    NumberOfReconnects = 0
PROPERTIES
    SignalEndsProcess
\* The process ends.
CHECK_DEADLOCK FALSE
