\* Does a rollback restore the version the current one replaced?
SPECIFICATION RegistrySpec
CONSTANTS
    Deployer = {d1}
    MaxVersions = 3
    MaxRollbacks = 2
    MaxOutages = 0
PROPERTIES RollbackRestoresPrevious
CHECK_DEADLOCK FALSE
