SPECIFICATION Spec
CONSTANTS
    Workers = {w1}
    MaxFaults = 1
PROPERTIES
    JournaledBeforeSend
CHECK_DEADLOCK FALSE
