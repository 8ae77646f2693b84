\* Does a monitor raise after load has warned that it would?
SPECIFICATION HealthSpec
CONSTANTS
    Sensor = {t24}
    Unit = 2
    MinWeight = 1
    Threshold = 2
    Errors = {0, 2}
    Directory = {monitor}
    MaxWeights = 2
    MaxModels = 1
PROPERTIES WarnedMonitorRaises
CHECK_DEADLOCK FALSE
