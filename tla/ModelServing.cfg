\* Promotions and a rollback while the poller, a reload and predictions run.
SPECIFICATION FairSpec
CONSTANTS
    Layouts <- AllLayouts
    Deployer = {d1, d2}
    MaxVersions = 2
    MaxRollbacks = 1
    MaxOutages = 1
    Normalization = "minmax"
    MaxReloads = 1
    MaxPredictions = 2
INVARIANTS TypeOK OneProduction GapNeedsPromotion MetadataNamesModel
PROPERTIES PredictionNamesModel KeepsServing MetadataFollowsRegistry
\* The bounds end the promotions and the requests.
CHECK_DEADLOCK FALSE
