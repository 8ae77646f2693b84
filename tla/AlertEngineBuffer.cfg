\* Is an alert that waits in a buffer ever sent?
SPECIFICATION FairSpec
CONSTANTS
    Equipment = {e1}
    Severity <- OneSeverity
    Cooldown <- OneCooldown
    Window = 1
    Maintenance = {}
    MaintenanceEnd = 0
    Attempts = 2
    MaxTime = 4
    MaxPredictions = 2
    MaxRequests = 0
    MaxFaults = 0
PROPERTIES BufferedAlertsSent
CHECK_DEADLOCK FALSE
