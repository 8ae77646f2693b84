\* Both threads evaluate predictions while an operator changes one alert.
SPECIFICATION FairSpec
CONSTANTS
    Equipment = {e1}
    Severity <- TwoSeverities
    Cooldown <- TwoCooldowns
    Window = 1
    Maintenance = {e1}
    MaintenanceEnd = 1
    Attempts = 2
    MaxTime = 3
    MaxPredictions = 3
    MaxRequests = 1
    MaxFaults = 1
INVARIANTS TypeOK CooldownNeedsOverlap AlertConserved RowFollowsAlert
PROPERTIES NotificationsSpaced CallsReturn
\* The bounds end the clock and the requests.
CHECK_DEADLOCK FALSE
