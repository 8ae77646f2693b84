SPECIFICATION PartsSpec
CONSTANTS
  MaxRul = 5
  EarlyLifeRul = 2
  FailureWindow = 0
  Machines = 2
  MaxReadings = 4
  MaxBatches = 2
  MaxStoreFaults = 1
  FetchLimit = 3
  SequenceLength = 2
  Fleet = 7
  Lifetimes = {1, 5}
  WindowLength = 2
  MaxTrainings = 2
  MaxTrainingFaults = 1
  Samples = 7
  Units = 5
  Cycles = 5
  Splits = 2
  Gap = 1
  Trials = 3
  TrialScores = {1, 2, 3}
  Warm = FALSE
  Deployer = {d1, d2}
  MaxVersions = 3
  MaxRollbacks = 1
  MaxOutages = 1
  Scores = {0, 2, 3}
  LowerIsBetter = TRUE
  MinImprovement = 50
  LogsModel = TRUE
  AutoDeploy = TRUE
  RequireApproval = TRUE
  Features = {t50}
  MeanErrors = {0, 2, 3}
  ConceptThreshold = 15
  MaxKills = 1
  Simulated = 2
  TotalRuls = {1, 2}
  MaxRounds = 3
  MaxPublishFaults = 1
  Engine = {1, 2}
  MaxEngineCycle = 2
  FinalRuls = {1}
  MaxPasses = 2
  MaxSlow = 1
  MaxSendFaults = 1
  Normalization = "minmax"
  SequenceSteps = 2
  Readings = {1}
  Predictions <- MCPredictions
  MaxSequence = 3
  FeatureLog <- MCFeatureLog
  MaxBatch = 2
  MaxCrashes = 1
  MaxShutdowns = 1
  MaxFaults = 1
  Sensor = {t24, t30}
  Unit = 3
  MinWeight = 1
  Threshold = 2
  Errors = {0, 1, 3}
  Directory = {monitor, backup}
  MaxWeights = 2
  MaxModels = 2
INVARIANTS ComponentsTypeOK ReadersNotMisled MeasuredForestNeverRegistered
INVARIANTS LabelBoundsReadings StampsTellReadingsApart WeightsAreFair
INVARIANTS CommittedHandled RowsNeedCrash StoredArePublished
PROPERTIES OutageIsPermanent PromotedBeatsChampion BacklogHandled
CHECK_DEADLOCK FALSE
