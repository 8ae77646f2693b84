\* Is a version in Production the one requests are answered with?
SPECIFICATION FairSpec
CONSTANTS
    Layouts <- ShippedLayouts
    Deployer = {d1}
    MaxVersions = 1
    MaxRollbacks = 0
    MaxOutages = 0
    Normalization = "minmax"
    MaxReloads = 1
    MaxPredictions = 1
PROPERTIES PromotedModelServed
CHECK_DEADLOCK FALSE
