--------------------------- MODULE Components_proofs ---------------------------
(***************************************************************************)
(* Proofs about the components that run alone, each for every value of its *)
(* constants: the answers of the API, the folds and the search of training,*)
(* the weights that health scores give to channels, the two generators of  *)
(* readings, the training and the retraining pipelines.                    *)
(***************************************************************************)
EXTENDS MCComponents, ModelRegistry_proofs, FeatureStore_proofs, PredictionFlow_proofs,
        FiniteSetTheorems, TLAPS

-------------------------------------------------------------------------------
(* InferenceApi *)

(* With the scaler nothing ever fits, no request gets a prediction.        *)
THEOREM ShippedApiSilent == InferenceSpec => []ShippedApiPredictsNothing
  <1>1. InferenceInit => ShippedApiPredictsNothing
    BY DEF InferenceInit, ShippedApiPredictsNothing, Failed
  <1>2. ASSUME ShippedApiPredictsNothing, [InferenceNext]_inferenceVars
        PROVE  ShippedApiPredictsNothing'
    <2>1. CASE answer' = answer
      BY <1>2, <2>1 DEF ShippedApiPredictsNothing
    <2>2. ASSUME NEW rows, NEW prediction, NEW raises, PredictRul(rows, prediction, raises)
          PROVE  ShippedApiPredictsNothing'
      BY <2>2 DEF PredictRul, Scales, Failed, ShippedApiPredictsNothing
    <2>3. ASSUME NEW code, NEW raises, PredictHealth(code, raises)
          PROVE  ShippedApiPredictsNothing'
      BY <2>3 DEF PredictHealth, Scales, Failed, ShippedApiPredictsNothing
    <2>4. ASSUME NEW size, NEW broken, PredictBatch(size, broken)
          PROVE  ShippedApiPredictsNothing'
      BY <2>4 DEF PredictBatch, Scales, Failed, ShippedApiPredictsNothing
    <2>5. ASSUME NEW down, NEW other, NEW running, HealthCheck(down, other, running)
          PROVE  ShippedApiPredictsNothing'
      BY <2>5 DEF HealthCheck, ShippedApiPredictsNothing
    <2>6. ASSUME NEW modelType, TriggerTraining(modelType)
          PROVE  ShippedApiPredictsNothing'
      BY <2>6 DEF TriggerTraining, Failed, ShippedApiPredictsNothing
    <2>. QED
      BY <1>2, <2>1, <2>2, <2>3, <2>4, <2>5, <2>6
      DEF InferenceNext, ModelsChange, inferenceVars
  <1>. QED BY <1>1, <1>2, PTL DEF InferenceSpec

(* Every code but that of unknown is named back to itself. *)
LEMMA CodesAndNames ==
    ASSUME NEW code \in Code
    PROVE  IF code = -1 THEN PredictedClass(code) = "imminent_failure"
           ELSE CodeOf(PredictedClass(code)) = code
  <1>1. \A i, j \in 1 .. 4 : HealthClass[i] = HealthClass[j] => i = j
    BY DEF HealthClass
  <1>2. \A i \in 1 .. 4 : HealthClass[i] # "unknown"
    BY DEF HealthClass
  <1>3. CASE code = -1
    BY <1>3 DEF PredictedClass, HealthClass
  <1>4. CASE code # -1
    <2>1. code + 1 \in 1 .. 4 /\ PredictedClass(code) = HealthClass[code + 1]
      BY <1>4 DEF Code, PredictedClass
    <2>2. (CHOOSE i \in 1 .. 4 : HealthClass[i] = HealthClass[code + 1]) = code + 1
      BY <1>1, <2>1
    <2>3. CodeOf(HealthClass[code + 1]) = (code + 1) - 1
      BY <1>2, <2>1, <2>2, Zenon DEF CodeOf
    <2>4. (code + 1) - 1 = code
      BY DEF Code
    <2>. QED BY <1>4, <2>1, <2>3, <2>4
  <1>. QED BY <1>3, <1>4

(* The name in an answer is that of the class the forest predicted.        *)
THEOREM NamesAlwaysFollowCodes == InferenceSpec => []NamesFollowCodes
  <1>1. InferenceInit => NamesFollowCodes
    BY DEF InferenceInit, NamesFollowCodes, Failed
  <1>2. ASSUME NamesFollowCodes, [InferenceNext]_inferenceVars
        PROVE  NamesFollowCodes'
    <2>1. CASE answer' = answer
      BY <1>2, <2>1 DEF NamesFollowCodes
    <2>2. ASSUME NEW code \in Code, NEW raises, PredictHealth(code, raises)
          PROVE  NamesFollowCodes'
      <3>1. answer'.of = "forest" => answer'.code = code /\ answer'.class = PredictedClass(code)
        BY <2>2 DEF PredictHealth, Failed
      <3>. QED BY <3>1, CodesAndNames DEF NamesFollowCodes
    <2>3. CASE answer'.of # "forest"
      BY <2>3 DEF NamesFollowCodes
    <2>4. ASSUME ~(\E code \in Code, raises \in BOOLEAN : PredictHealth(code, raises)),
                 answer' # answer
          PROVE  answer'.of # "forest"
      BY <1>2, <2>4 DEF InferenceNext, ModelsChange, PredictRul, PredictBatch, HealthCheck,
                        TriggerTraining, Failed, inferenceVars
    <2>. QED BY <2>1, <2>2, <2>3, <2>4
  <1>. QED BY <1>1, <1>2, PTL DEF InferenceSpec

(* The types of the answers: a sequence of the length the LSTM expects,    *)
(* whatever the length of the request, a prediction within its clip, and   *)
(* batch results of sequences that were sent.                              *)
THEOREM InferenceTypeCorrect == InferenceSpec => []InferenceTypeOK
  <1>1. InferenceInit => InferenceTypeOK
    BY DEF InferenceInit, InferenceTypeOK, Failed
  <1>2. ASSUME InferenceTypeOK, [InferenceNext]_inferenceVars PROVE InferenceTypeOK'
    <2>1. CASE UNCHANGED inferenceVars
      BY <1>2, <2>1 DEF InferenceTypeOK, inferenceVars
    <2>2. ASSUME NEW classes \in SUBSET Code, ModelsChange(classes) PROVE InferenceTypeOK'
      BY <1>2, <2>2 DEF ModelsChange, InferenceTypeOK
    <2>3. ASSUME NEW rows \in Sequence, NEW prediction \in Predictions, NEW raises,
                 PredictRul(rows, prediction, raises)
          PROVE  InferenceTypeOK'
      <3>1. PreprocessSequence(rows) \in [1 .. SequenceSteps -> Readings \cup {0}]
        <4>1. PICK n \in 1 .. MaxSequence : rows \in [1 .. n -> Readings]
          BY DEF Sequence
        <4>2. n \in Nat /\ Len(rows) = n
          BY <4>1, InferenceAssumption
        <4>3. ASSUME NEW i \in 1 .. SequenceSteps, i + n - SequenceSteps >= 1
              PROVE  rows[i + n - SequenceSteps] \in Readings
          BY <4>1, <4>2, <4>3, InferenceAssumption
        <4>. QED BY <4>2, <4>3 DEF PreprocessSequence
      <3>2. Clip(prediction) \in 0 .. 200
        BY InferenceAssumption DEF Clip
      <3>. QED BY <1>2, <2>3, <3>1, <3>2 DEF PredictRul, InferenceTypeOK, Failed
    <2>4. ASSUME NEW code \in Code, NEW raises, PredictHealth(code, raises)
          PROVE  InferenceTypeOK'
      BY <1>2, <2>4 DEF PredictHealth, InferenceTypeOK, Failed
    <2>5. ASSUME NEW size \in 0 .. MaxSequence, NEW broken, PredictBatch(size, broken)
          PROVE  InferenceTypeOK'
      <3>1. 1 .. size \subseteq 1 .. MaxSequence
        BY InferenceAssumption
      <3>. QED BY <1>2, <2>5, <3>1 DEF PredictBatch, InferenceTypeOK, Failed
    <2>6. ASSUME NEW down, NEW other, NEW running, HealthCheck(down, other, running)
          PROVE  InferenceTypeOK'
      BY <1>2, <2>6 DEF HealthCheck, InferenceTypeOK
    <2>7. ASSUME NEW modelType, TriggerTraining(modelType) PROVE InferenceTypeOK'
      BY <1>2, <2>7 DEF TriggerTraining, InferenceTypeOK, Failed
    <2>. QED BY <1>2, <2>1, <2>2, <2>3, <2>4, <2>5, <2>6, <2>7 DEF InferenceNext
  <1>. QED BY <1>1, <1>2, PTL DEF InferenceSpec

-------------------------------------------------------------------------------
(* ModelSelection *)

LEMMA Divides ==
    ASSUME NEW n \in Nat, NEW k \in Nat \ {0}
    PROVE  n \div k \in Nat
  OBVIOUS

LEMMA SplitsApart ==
    ASSUME NEW i \in Fold, method \in {"time_series", "equipment_based", "combined"}
    PROVE  Split(i).train \cap Split(i).test = {}
  <1>1. CASE method = "time_series"
    <2>1. TestSize \in Nat
      BY SelectionAssumption, Divides DEF TestSize
    <2>2. TestStart(i) \in Int
      BY <2>1, SelectionAssumption DEF TestStart, Fold
    <2>3. /\ Split(i).train = 0 .. TestStart(i) - Gap - 1
          /\ Split(i).test = TestStart(i) .. TestStart(i) + TestSize - 1
      BY <1>1 DEF Split, TimeSeriesSplit
    <2>. QED BY <2>1, <2>2, <2>3, SelectionAssumption
  <1>2. CASE method # "time_series"
    <2>1. /\ Split(i).test = TestUnits(i) \X (0 .. Cycles - 1)
          /\ \E early : Split(i).train = TrainUnits(i) \X early
      BY <1>2 DEF Split, EquipmentBasedSplit, CombinedSplit, AllCycles
    <2>2. TestUnits(i) \cap TrainUnits(i) = {}
      BY DEF TrainUnits
    <2>. QED BY <2>1, <2>2
  <1>. QED BY <1>1, <1>2

(* What the folds do needs one of the methods in use, the search numbers   *)
(* that can be compared.                                                   *)
SelectionInv ==
    /\ method \in {"none", "time_series", "equipment_based", "combined"}
    /\ ScoredUnseen
    /\ bestScore \in TrialScores \cup {Unscored} /\ results \subseteq TrialScores
    /\ BestIsBest

LEMMA SelectionInitially == SelectionInit => SelectionInv
  BY DEF SelectionInit, SelectionInv, ScoredUnseen, BestIsBest, Unscored

LEMMA ValidationStep ==
    ASSUME SelectionInv,
           \/ \E how \in {"time_series", "equipment_based", "combined"} : BeginValidation(how)
           \/ SkipFold \/ ScoreFold \/ EndValidation
    PROVE  SelectionInv'
  <1>1. UNCHANGED searchVars
    BY DEF BeginValidation, SkipFold, ScoreFold, EndValidation
  <1>2. method' \in {"none", "time_series", "equipment_based", "combined"} /\ ScoredUnseen'
    <2>1. CASE ScoreFold
      <3>1. fold \in Fold
        BY <2>1 DEF ScoreFold, Folds, TimeSeriesFolds
      <3>2. Split(fold).train \cap Split(fold).test = {}
        BY <2>1, <3>1, SplitsApart DEF ScoreFold, SelectionInv
      <3>. QED BY <2>1, <3>2 DEF ScoreFold, SelectionInv, ScoredUnseen
    <2>2. CASE ~ScoreFold
      BY <2>2 DEF BeginValidation, SkipFold, EndValidation, SelectionInv, ScoredUnseen
    <2>. QED BY <2>1, <2>2
  <1>. QED BY <1>1, <1>2 DEF SelectionInv, BestIsBest, Better, searchVars

LEMMA TrialStep ==
    ASSUME SelectionInv, (\E s \in TrialScores : Trial(s)) \/ TrialFails
    PROVE  SelectionInv'
  <1>1. UNCHANGED <<method, leaked, goal>>
    BY DEF Trial, TrialFails, validationVars
  <1>2. CASE TrialFails
    BY <1>1, <1>2 DEF TrialFails, SelectionInv, ScoredUnseen, BestIsBest, Better
  <1>3. ASSUME NEW s \in TrialScores, Trial(s) PROVE SelectionInv'
    <2>1. TrialScores \subseteq Nat /\ Unscored \notin TrialScores
      BY SelectionAssumption DEF Unscored
    <2>2. /\ results' = results \cup {s}
          /\ bestScore' = IF bestScore = Unscored \/ Better(s, bestScore) THEN s ELSE bestScore
      BY <1>3 DEF Trial
    <2>3. /\ bestScore' \in TrialScores /\ results' \subseteq TrialScores
          /\ bestScore' \in results'
      BY <2>1, <2>2 DEF SelectionInv, BestIsBest
    <2>4. \A r \in results' : ~Better(r, bestScore')
      <3>1. ASSUME NEW r \in results' PROVE ~Better(r, bestScore')
        <4>1. r \in Nat /\ s \in Nat /\ bestScore' \in Nat
          BY <2>1, <2>3
        <4>2. CASE bestScore = Unscored
          BY <2>2, <4>1, <4>2 DEF SelectionInv, BestIsBest, Better
        <4>3. CASE bestScore # Unscored
          <5>1. bestScore \in Nat /\ (r \in results => ~Better(r, bestScore))
            BY <2>1, <4>3 DEF SelectionInv, BestIsBest
          <5>. QED BY <2>2, <4>1, <4>3, <5>1 DEF Better
        <4>. QED BY <4>2, <4>3
      <3>. QED BY <3>1
    <2>. QED BY <1>1, <2>1, <2>3, <2>4 DEF SelectionInv, ScoredUnseen, BestIsBest, Better
  <1>. QED BY <1>2, <1>3

LEMMA AlwaysSelectionInv == SelectionSpec => []SelectionInv
  <1>1. ASSUME SelectionInv, [SelectionNext]_selectionVars PROVE SelectionInv'
    <2>1. CASE UNCHANGED selectionVars
      <3>1. UNCHANGED <<method, leaked, goal, results, bestScore>>
        BY <2>1 DEF selectionVars, validationVars, searchVars
      <3>. QED BY <1>1, <3>1 DEF SelectionInv, ScoredUnseen, BestIsBest, Better
    <2>. QED BY <1>1, <2>1, ValidationStep, TrialStep DEF SelectionNext
  <1>. QED BY <1>1, SelectionInitially, PTL DEF SelectionSpec

(* Folds by machine share the machines out, folds by time keep the gap.    *)
THEOREM FoldsAlwaysApart == FoldsKeepApart
  <1> DEFINE n == Splits - 1
  <1>1. FoldSize \in Nat /\ n \in Nat /\ Units \in Nat /\ Splits = n + 1
    BY SelectionAssumption, Divides DEF FoldSize
  <1>2. ASSUME NEW u \in 0 .. Units - 1 PROVE \E i \in Fold : u \in TestUnits(i)
    <2>1. CASE n * FoldSize <= u
      <3>1. n \in Fold /\ u \in TestUnits(n)
        BY <1>1, <2>1 DEF Fold, TestUnits
      <3>. QED BY <3>1
    <2>2. CASE u < n * FoldSize
      <3> DEFINE i == u \div FoldSize
      <3>1. FoldSize \in Nat \ {0}
        BY <1>1, <2>2
      <3>2. i \in Nat /\ i * FoldSize <= u /\ u < (i + 1) * FoldSize
        BY <3>1, <1>1
      <3>3. i < n
        BY <1>1, <2>2, <3>1, <3>2
      <3>4. i \in Fold /\ u \in TestUnits(i)
        BY <1>1, <3>2, <3>3 DEF Fold, TestUnits
      <3>. QED BY <3>4
    <2>. QED BY <1>1, <2>1, <2>2
  <1>3. ASSUME NEW i \in Fold, NEW j \in Fold, i < j
        PROVE  TestUnits(i) \cap TestUnits(j) = {}
    <2>1. (i + 1) * FoldSize <= j * FoldSize
      BY <1>1, <1>3 DEF Fold
    <2>2. i < Splits - 1
      BY <1>1, <1>3 DEF Fold
    <2>. QED BY <1>1, <2>1, <2>2 DEF TestUnits, Fold
  <1>4. ASSUME NEW i \in Fold, NEW t \in TimeSeriesSplit(i).train, NEW s \in TimeSeriesSplit(i).test
        PROVE  t + Gap < s
    <2>1. TestSize \in Nat
      BY SelectionAssumption, Divides DEF TestSize
    <2>2. TestStart(i) \in Int
      BY <2>1, SelectionAssumption DEF TestStart, Fold
    <2>. QED BY <2>1, <2>2, SelectionAssumption DEF TimeSeriesSplit
  <1>. QED BY <1>2, <1>3, <1>4 DEF FoldsKeepApart, Fold

(* A model whose fit starts afresh is never scored on rows it was fitted   *)
(* on, whatever the number of rows, machines and folds.                    *)
THEOREM NeverScoredOnSeen == SelectionSpec => []ScoredUnseen
  <1>1. SelectionInv => ScoredUnseen
    BY DEF SelectionInv
  <1>. QED BY <1>1, AlwaysSelectionInv, PTL

(* The search keeps the best of its trials, for a loss and for a score.    *)
THEOREM SearchKeepsBest == SelectionSpec => []BestIsBest
  <1>1. SelectionInv => BestIsBest
    BY DEF SelectionInv
  <1>. QED BY <1>1, AlwaysSelectionInv, PTL

(* The types of the folds and of the search: fold stays within the splits, *)
(* since a step that moves it on starts at one of them.                    *)
THEOREM SelectionTypeCorrect == SelectionSpec => []SelectionTypeOK
  <1>0. 0 \in 0 .. Splits /\ 0 \in 0 .. Trials
    BY SelectionAssumption
  <1>1. SelectionInit => SelectionTypeOK
    BY <1>0 DEF SelectionInit, SelectionTypeOK
  <1>2. ASSUME SelectionTypeOK, [SelectionNext]_selectionVars PROVE SelectionTypeOK'
    <2>1. CASE UNCHANGED selectionVars
      BY <1>2, <2>1 DEF SelectionTypeOK, selectionVars, validationVars, searchVars
    <2>2. ASSUME NEW how \in {"time_series", "equipment_based", "combined"}, BeginValidation(how)
          PROVE  SelectionTypeOK'
      BY <1>0, <1>2, <2>2 DEF BeginValidation, SelectionTypeOK, searchVars
    <2>3. CASE SkipFold \/ ScoreFold
      <3>1. fold \in Fold /\ fold' = fold + 1 /\ fold' \in 0 .. Splits
        <4>1. fold \in Fold /\ fold' = fold + 1
          BY <2>3 DEF SkipFold, ScoreFold, Folds, TimeSeriesFolds
        <4>. QED BY <4>1, SelectionAssumption DEF Fold
      <3>2. UNCHANGED <<method, searchVars>> /\ leaked' \in BOOLEAN /\ scored' \subseteq Fold
        BY <1>2, <2>3, <3>1 DEF SkipFold, ScoreFold, SelectionTypeOK
      <3>. QED BY <1>2, <3>1, <3>2 DEF SelectionTypeOK, searchVars
    <2>4. CASE EndValidation
      BY <1>2, <2>4 DEF EndValidation, SelectionTypeOK, searchVars
    <2>5. CASE (\E s \in TrialScores : Trial(s)) \/ TrialFails
      <3>1. trial' \in 0 .. Trials
        BY <1>2, <2>5, SelectionAssumption DEF Trial, TrialFails, SelectionTypeOK
      <3>2. results' \subseteq TrialScores /\ bestScore' \in TrialScores \cup {Unscored}
        BY <1>2, <2>5 DEF Trial, TrialFails, SelectionTypeOK
      <3>3. UNCHANGED <<goal, method, fold, leaked, scored>>
        BY <2>5 DEF Trial, TrialFails, validationVars
      <3>. QED BY <1>2, <3>1, <3>2, <3>3 DEF SelectionTypeOK
    <2>. QED BY <1>2, <2>1, <2>2, <2>3, <2>4, <2>5 DEF SelectionNext
  <1>. QED BY <1>1, <1>2, PTL DEF SelectionSpec

-------------------------------------------------------------------------------
(* SensorHealth *)

(* The sum over a function is a fold over its domain, an element at a time *)

Taken(s) == CHOOSE x \in s : TRUE

(* What a sum over the subsets of S is to satisfy: the definition of the   *)
(* fold, on the sets h is given for.                                       *)
SumsUp(h, g) ==
    \A s \in DOMAIN h : h[s] = IF s = {} THEN 0 ELSE g[Taken(s)] + h[s \ {Taken(s)}]

LEMMA TakenFromSet ==
    ASSUME NEW S, IsFiniteSet(S), NEW s \in SUBSET S, s # {}
    PROVE  /\ IsFiniteSet(s) /\ Taken(s) \in s /\ s \ {Taken(s)} \in SUBSET S
           /\ Cardinality(s) \in Nat \ {0} /\ Cardinality(s \ {Taken(s)}) = Cardinality(s) - 1
  <1>1. Taken(s) \in s
    BY DEF Taken
  <1>2. IsFiniteSet(s)
    BY FS_Subset
  <1>3. Cardinality(s) \in Nat /\ Cardinality(s) # 0
    BY <1>2, FS_CardinalityType, FS_EmptySet
  <1>4. Cardinality(s \ {Taken(s)}) = Cardinality(s) - 1
    BY <1>1, <1>2, FS_RemoveElement
  <1>. QED BY <1>1, <1>2, <1>3, <1>4

(* The sums of the sets of at most n elements exist, whatever n is. *)
LEMMA SumsExist ==
    ASSUME NEW S, IsFiniteSet(S), NEW g \in [S -> Nat]
    PROVE  \E h \in [SUBSET S -> Nat] : SumsUp(h, g)
  <1> DEFINE Level(n) == {s \in SUBSET S : Cardinality(s) <= n}
             Good(n) == \E h \in [Level(n) -> Nat] : SumsUp(h, g)
             Bad == {n \in Nat : ~Good(n)}
  <1>1. Good(0)
    <2>1. \A s \in Level(0) : s = {}
      <3>1. SUFFICES ASSUME NEW s \in SUBSET S, Cardinality(s) <= 0, s # {} PROVE FALSE
        OBVIOUS
      <3>2. Cardinality(s) \in Nat \ {0}
        BY <3>1, TakenFromSet
      <3>. QED BY <3>1, <3>2
    <2>2. [s \in Level(0) |-> 0] \in [Level(0) -> Nat] /\ SumsUp([s \in Level(0) |-> 0], g)
      BY <2>1 DEF SumsUp
    <2>. QED BY <2>2
  <1>2. ASSUME NEW n \in Nat, Good(n) PROVE Good(n + 1)
    <2>1. PICK h \in [Level(n) -> Nat] : SumsUp(h, g)
      BY <1>2
    <2> DEFINE k == [s \in Level(n + 1) |-> IF s = {} THEN 0 ELSE g[Taken(s)] + h[s \ {Taken(s)}]]
    <2>2. \A s \in Level(n + 1) : s # {} =>
             s \ {Taken(s)} \in Level(n) /\ Taken(s) \in S
      BY TakenFromSet
    <2>3. \A s \in Level(n) : s \in Level(n + 1) /\ k[s] = h[s]
      <3>1. SUFFICES ASSUME NEW s \in Level(n) PROVE s \in Level(n + 1) /\ k[s] = h[s]
        OBVIOUS
      <3>2. IsFiniteSet(s) /\ Cardinality(s) \in Nat
        BY FS_Subset, FS_CardinalityType
      <3>3. s \in Level(n + 1)
        BY <3>2
      <3>. QED BY <2>1, <3>3 DEF SumsUp
    <2>4. k \in [Level(n + 1) -> Nat]
      <3>1. ASSUME NEW s \in Level(n + 1), s # {} PROVE g[Taken(s)] + h[s \ {Taken(s)}] \in Nat
        BY <2>2, <3>1
      <3>. QED BY <3>1
    <2>5. SumsUp(k, g)
      <3>1. ASSUME NEW s \in Level(n + 1)
            PROVE  k[s] = IF s = {} THEN 0 ELSE g[Taken(s)] + k[s \ {Taken(s)}]
        <4>1. CASE s = {}
          BY <4>1
        <4>2. CASE s # {}
          <5>1. k[s \ {Taken(s)}] = h[s \ {Taken(s)}]
            BY <2>2, <2>3, <4>2
          <5>. QED BY <4>2, <5>1
        <4>. QED BY <4>1, <4>2
      <3>2. DOMAIN k = Level(n + 1)
        OBVIOUS
      <3>. HIDE DEF k, Level
      <3>. QED BY <3>1, <3>2 DEF SumsUp
    <2>. HIDE DEF k
    <2>. QED BY <2>4, <2>5
  <1>3. Bad = {}
    <2>1. SUFFICES ASSUME Bad # {} PROVE FALSE
      OBVIOUS
    <2>2. PICK n \in Bad : \A j \in Bad : n <= j
      <3>. HIDE DEF Good
      <3>. QED BY <2>1, LeastNat
    <2>3. n # 0
      BY <1>1, <2>2
    <2>4. n - 1 \in Nat /\ n - 1 \notin Bad
      <3>. HIDE DEF Good
      <3>. QED BY <2>2, <2>3
    <2>5. Good((n - 1) + 1)
      <3>. HIDE DEF Good
      <3>. QED BY <1>2, <2>4
    <2>6. (n - 1) + 1 = n
      BY <2>4
    <2>. HIDE DEF Good
    <2>. QED BY <2>2, <2>5, <2>6
  <1>4. Cardinality(S) \in Nat /\ Level(Cardinality(S)) = SUBSET S
    BY FS_Subset, FS_CardinalityType
  <1>5. Good(Cardinality(S))
    <2>. HIDE DEF Good
    <2>. QED BY <1>3, <1>4
  <1>. QED BY <1>4, <1>5

(* The fold of the community modules is one of these sums.                 *)
LEMMA FoldIsSum ==
    ASSUME NEW S, IsFiniteSet(S), NEW g \in [S -> Nat]
    PROVE  \E h : DOMAIN h = SUBSET S /\ SumsUp(h, g) /\ FoldFunction(+, 0, g) = h[S]
  <1> DEFINE Folded(h) == h = [s \in SUBSET S |->
                                 IF s = {} THEN 0
                                 ELSE LET x == CHOOSE y \in s : TRUE IN g[x] + h[s \ {x}]]
  <1>1. FoldFunction(+, 0, g) = (CHOOSE h : Folded(h))[S]
    BY DEF FoldFunction, FoldFunctionOnSet, MapThenFoldSet
  <1>2. PICK k \in [SUBSET S -> Nat] : SumsUp(k, g)
    BY SumsExist
  <1>3. Folded(k)
    <2>1. \A s \in SUBSET S : k[s] = IF s = {} THEN 0 ELSE g[Taken(s)] + k[s \ {Taken(s)}]
      BY <1>2 DEF SumsUp
    <2>. QED BY <2>1 DEF Taken
  <1>4. PICK h : h = (CHOOSE f : Folded(f))
    OBVIOUS
  <1>5. Folded(h)
    <2>. HIDE DEF Folded
    <2>. QED BY <1>3, <1>4
  <1>6. DOMAIN h = SUBSET S /\ SumsUp(h, g)
    BY <1>5 DEF SumsUp, Taken
  <1>. QED BY <1>1, <1>4, <1>6

(* A sum of numbers between low and high: at least each of them, and       *)
(* between as many times low and as many times high as there are.          *)
LEMMA SumBounds ==
    ASSUME NEW S, IsFiniteSet(S), NEW g \in [S -> Nat], NEW low \in Nat, NEW high \in Nat,
           \A x \in S : low <= g[x] /\ g[x] <= high
    PROVE  LET sum == FoldFunction(+, 0, g)
           IN  /\ sum \in Nat /\ Cardinality(S) \in Nat
               /\ Cardinality(S) * low <= sum /\ sum <= Cardinality(S) * high
               /\ \A x \in S : g[x] <= sum
  <1>1. PICK h : DOMAIN h = SUBSET S /\ SumsUp(h, g) /\ FoldFunction(+, 0, g) = h[S]
    BY FoldIsSum
  <1> DEFINE Bounded(s) == /\ h[s] \in Nat
                           /\ Cardinality(s) * low <= h[s] /\ h[s] <= Cardinality(s) * high
                           /\ \A x \in s : g[x] <= h[s]
             Bad == {n \in Nat : \E s \in SUBSET S : Cardinality(s) = n /\ ~Bounded(s)}
  <1>2. Bounded({})
    <2>1. h[{}] = 0 /\ Cardinality({}) = 0
      BY <1>1, FS_EmptySet DEF SumsUp
    <2>. QED BY <2>1
  <1>3. ASSUME NEW s \in SUBSET S, s # {}, Bounded(s \ {Taken(s)}) PROVE Bounded(s)
    <2> DEFINE t == s \ {Taken(s)}
    <2>1. /\ Taken(s) \in s /\ t \in SUBSET S
          /\ Cardinality(s) \in Nat \ {0} /\ Cardinality(t) = Cardinality(s) - 1
      BY <1>3, TakenFromSet
    <2>2. h[s] = g[Taken(s)] + h[t]
      BY <1>1, <1>3 DEF SumsUp
    <2>3. /\ g[Taken(s)] \in Nat /\ low <= g[Taken(s)] /\ g[Taken(s)] <= high
          /\ \A x \in s : g[x] \in Nat /\ (x = Taken(s) \/ x \in t)
      BY <2>1
    <2>4. /\ h[t] \in Nat /\ Cardinality(t) * low <= h[t] /\ h[t] <= Cardinality(t) * high
          /\ \A x \in t : g[x] <= h[t]
      BY <1>3
    <2>5. /\ Cardinality(s) * low = Cardinality(t) * low + low
          /\ Cardinality(s) * high = Cardinality(t) * high + high
          /\ Cardinality(t) * low \in Nat /\ Cardinality(t) * high \in Nat
      <3>1. \A n \in Nat \ {0}, b \in Nat : n * b = (n - 1) * b + b /\ (n - 1) * b \in Nat
        OBVIOUS
      <3>. QED BY <2>1, <3>1
    <2>. HIDE DEF t
    <2>. QED BY <2>2, <2>3, <2>4, <2>5
  <1>4. Bad = {}
    <2>. HIDE DEF Bounded
    <2>1. SUFFICES ASSUME Bad # {} PROVE FALSE
      OBVIOUS
    <2>2. PICK n \in Bad : \A j \in Bad : n <= j
      BY <2>1, LeastNat
    <2>3. PICK s \in SUBSET S : Cardinality(s) = n /\ ~Bounded(s)
      BY <2>2
    <2>4. s # {}
      BY <1>2, <2>3
    <2>5. /\ s \ {Taken(s)} \in SUBSET S /\ Cardinality(s \ {Taken(s)}) = n - 1
          /\ n \in Nat \ {0}
      BY <2>3, <2>4, TakenFromSet
    <2>6. n - 1 \in Nat /\ n - 1 \notin Bad
      BY <2>2, <2>5
    <2>7. Bounded(s \ {Taken(s)})
      BY <2>5, <2>6
    <2>. QED BY <1>3, <2>3, <2>4, <2>7
  <1>5. Cardinality(S) \in Nat /\ S \in SUBSET S
    BY FS_CardinalityType
  <1>6. Bounded(S)
    <2>. HIDE DEF Bounded
    <2>. QED BY <1>4, <1>5
  <1>. QED BY <1>1, <1>5, <1>6

(* The channels of a reading with legal scores.                            *)
ScoresOK(scores) == scores \in [Sensor -> 0 .. Unit]

LEMMA FlooredScores ==
    ASSUME NEW scores, ScoresOK(scores)
    PROVE  /\ Floored(scores) \in [Sensor -> MinWeight .. Unit]
           /\ Floored(scores) \in [Sensor -> Nat]
           /\ \A s \in Sensor : scores[s] \in 0 .. Unit
           /\ \A s \in Sensor : Floored(scores)[s] =
                 IF scores[s] < MinWeight THEN MinWeight ELSE scores[s]
  <1>1. /\ Unit \in Nat \ {0} /\ MinWeight \in Nat /\ MinWeight <= Unit
        /\ \A s \in Sensor : scores[s] \in 0 .. Unit
    BY HealthAssumption DEF ScoresOK
  <1>. QED BY <1>1 DEF Floored

LEMMA FairWeights ==
    ASSUME NEW scores, ScoresOK(scores), NEW s \in Sensor, NEW t \in Sensor
    PROVE  LET w == ChannelWeights(scores)
           IN  /\ w[s][1] * Unit >= MinWeight * w[s][2]
               /\ s \in Degraded(scores) /\ t \notin Degraded(scores) /\ 2 * MinWeight < Unit
                     => w[s][1] < w[t][1]
               /\ (\A u \in Sensor : scores[u] = scores[s]) => w[s][1] = w[s][2]
  <1> DEFINE n == Cardinality(Sensor)
             f == Floored(scores)
             sum == Total(scores)
  <1>1. Unit \in Nat \ {0} /\ MinWeight \in Nat /\ MinWeight <= Unit
    BY HealthAssumption
  <1>2. n \in Nat \ {0}
    BY HealthAssumption, FS_CardinalityType, FS_EmptySet
  <1>3. /\ \A u \in Sensor : f[u] \in Nat /\ MinWeight <= f[u] /\ f[u] <= Unit
        /\ f \in [Sensor -> Nat]
    BY FlooredScores, <1>1
  <1>4. /\ sum \in Nat /\ sum <= n * Unit /\ \A u \in Sensor : f[u] <= sum
    <2>. HIDE DEF f
    <2>1. Total(scores) = FoldFunction(+, 0, f)
      BY DEF Total, f
    <2>. QED BY <1>1, <1>3, <2>1, HealthAssumption, SumBounds
  <1>5. \A u \in Sensor : f[u] = IF scores[u] < MinWeight THEN MinWeight ELSE scores[u]
    BY FlooredScores
  <1>6. \A u \in Sensor : scores[u] \in Nat
    BY FlooredScores
  <1>7. s \in Degraded(scores) /\ t \notin Degraded(scores) /\ 2 * MinWeight < Unit => f[s] < f[t]
    BY <1>1, <1>5, <1>6 DEF Degraded
  <1>8. CASE sum = 0
    <2>1. ChannelWeights(scores)[s] = <<1, 1>> /\ ChannelWeights(scores)[t] = <<1, 1>>
      BY <1>8 DEF ChannelWeights
    <2>2. ~(f[s] < f[t])
      BY <1>3, <1>4, <1>8
    <2>. HIDE DEF f, sum, n
    <2>. QED BY <1>1, <1>7, <2>1, <2>2
  <1>9. CASE sum # 0
    <2>1. /\ ChannelWeights(scores)[s][1] = f[s] * n /\ ChannelWeights(scores)[s][2] = sum
          /\ ChannelWeights(scores)[t][1] = f[t] * n
      BY <1>9 DEF ChannelWeights
    <2>2. f[s] * n * Unit >= MinWeight * sum
      <3>. HIDE DEF f, sum, n
      <3>1. \A a, b, c, d \in Nat : a >= b /\ c >= d => a * c >= b * d
        OBVIOUS
      <3>2. n * Unit \in Nat /\ f[s] * n * Unit = f[s] * (n * Unit)
        BY <1>1, <1>2, <1>3
      <3>. QED BY <1>1, <1>3, <1>4, <3>1, <3>2
    <2>3. f[s] < f[t] => f[s] * n < f[t] * n
      <3>. HIDE DEF f, sum, n
      <3>1. \A a, b \in Nat, c \in Nat \ {0} : a < b => a * c < b * c
        OBVIOUS
      <3>. QED BY <1>2, <1>3, <3>1
    <2>4. ASSUME \A u \in Sensor : scores[u] = scores[s] PROVE f[s] * n = sum
      <3>1. \A u \in Sensor : f[s] <= f[u] /\ f[u] <= f[s]
        BY <1>3, <1>5, <2>4
      <3>2. Total(scores) = FoldFunction(+, 0, f)
        BY DEF Total
      <3>3. n * f[s] <= sum /\ sum <= n * f[s]
        <4>. HIDE DEF f
        <4>. QED BY <1>3, <3>1, <3>2, HealthAssumption, SumBounds
      <3>. HIDE DEF f, sum, n
      <3>. QED BY <1>2, <1>3, <1>4, <3>3
    <2>. HIDE DEF f, sum, n
    <2>. QED BY <1>7, <2>1, <2>2, <2>3, <2>4
  <1>. QED BY <1>8, <1>9

(* The monitor, with the types of what it saves. *)
MonitorInv ==
    /\ made \in Nat /\ autoencoder \in Weights \ {None} /\ thresholds \in Weights
    /\ savedEncoder \in [Directory -> Weights] /\ savedThresholds \in [Directory -> Weights]
    /\ warned \in BOOLEAN

(* The engine: its LSTM is one the model manager has loaded.               *)
EngineInv ==
    /\ served \in Nat /\ engine \in 0 .. served
    /\ estimate.lstm \in 0 .. served /\ ScoresOK(estimate.scores)
    /\ estimate.by \in {"nobody", "caller", "monitor"} /\ estimate.status \in {200, 422, 500, 503}

LEMMA MonitorStep ==
    ASSUME MonitorInv, BuildMonitor \/ Fit \/ FitBreaks
    PROVE  MonitorInv'
  <1>1. /\ made' = made + 1 /\ autoencoder' = made + 1 /\ warned' = FALSE
        /\ UNCHANGED <<savedEncoder, savedThresholds>>
        /\ thresholds' \in {None, made + 1, thresholds}
    BY DEF BuildMonitor, Fit, FitBreaks, NewWeights
  <1>2. made \in Nat /\ Weights \subseteq Weights' /\ made + 1 \in Weights' \ {None} /\ None \in Weights'
    BY <1>1 DEF MonitorInv, Weights, None
  <1>3. made' \in Nat
    BY <1>1 DEF MonitorInv
  <1>4. warned' \in BOOLEAN
    BY <1>1, Zenon
  <1>5. thresholds' \in Weights' /\ autoencoder' \in Weights' \ {None}
    BY <1>1, <1>2 DEF MonitorInv
  <1>6. savedEncoder' \in [Directory -> Weights'] /\ savedThresholds' \in [Directory -> Weights']
    BY <1>1, <1>2 DEF MonitorInv
  <1>. QED BY <1>3, <1>4, <1>5, <1>6 DEF MonitorInv

LEMMA DirectoryStep ==
    ASSUME MonitorInv, NEW d \in Directory,
           Save(d) \/ SaveBreaks(d) \/ \E new \in BOOLEAN : Load(d, new)
    PROVE  MonitorInv'
  <1>. USE DEF MonitorInv, None
  <1>0. UNCHANGED made /\ Weights' = Weights
    BY DEF Save, SaveBreaks, Load, Weights
  <1>1. CASE Save(d)
    <2>1. /\ savedEncoder' = [savedEncoder EXCEPT ![d] = autoencoder]
          /\ \/ savedThresholds' = savedThresholds
             \/ savedThresholds' = [savedThresholds EXCEPT ![d] = thresholds]
          /\ UNCHANGED <<autoencoder, thresholds, made, warned>>
      BY <1>1 DEF Save
    <2>. QED BY <1>0, <2>1
  <1>2. CASE SaveBreaks(d)
    BY <1>0, <1>2 DEF SaveBreaks
  <1>3. ASSUME NEW new \in BOOLEAN, Load(d, new) PROVE MonitorInv'
    BY <1>0, <1>3 DEF Load
  <1>. QED BY <1>1, <1>2, <1>3

(* A score is the part of Unit that the error leaves of it.                *)
LEMMA MonitorScores ==
    ASSUME NEW errors \in [Sensor -> Errors]
    PROVE  ScoresOK(HealthScores(errors))
  <1>1. Unit \in Nat \ {0} /\ Threshold \in Nat \ {0}
    BY HealthAssumption
  <1>2. ASSUME NEW s \in Sensor
        PROVE  Unit - Least(Unit, (Unit * errors[s]) \div Threshold) \in 0 .. Unit
    <2>1. errors[s] \in Nat
      BY HealthAssumption
    <2>2. Unit * errors[s] \in Nat
      BY <1>1, <2>1
    <2>3. (Unit * errors[s]) \div Threshold \in Nat
      BY <1>1, <2>2
    <2>. QED BY <1>1, <2>3 DEF Least
  <1>. QED BY <1>2 DEF ScoresOK, HealthScores

LEMMA UniformScores == ScoresOK(Uniform)
  BY HealthAssumption DEF ScoresOK, Uniform

LEMMA EngineStep ==
    ASSUME EngineInv,
           \/ ServeModel \/ MakeEngine
           \/ \E scores \in [Sensor -> 0 .. Unit] : Estimate(scores, "caller")
           \/ \E errors \in [Sensor -> Errors] : EstimateByMonitor(errors)
           \/ Estimate(Uniform, "nobody")
           \/ \E problem \in Problem : Refuse(problem)
    PROVE  EngineInv'
  <1>. USE DEF EngineInv
  <1>1. CASE ServeModel \/ MakeEngine
    BY <1>1 DEF ServeModel, MakeEngine
  <1>2. ASSUME NEW scores, NEW by \in {"nobody", "caller", "monitor"},
               ScoresOK(scores), Estimate(scores, by)
        PROVE  EngineInv'
    BY <1>2 DEF Estimate
  <1>3. ASSUME NEW problem, Refuse(problem) PROVE EngineInv'
    BY <1>3, UniformScores DEF Refuse, None
  <1>. QED BY <1>1, <1>2, <1>3, MonitorScores, UniformScores DEF EstimateByMonitor, ScoresOK

HealthInv == MonitorInv /\ EngineInv

LEMMA HealthInitially == HealthInit => HealthInv
  <1>. SUFFICES ASSUME HealthInit PROVE HealthInv
    OBVIOUS
  <1>1. /\ made = 1 /\ autoencoder = 1 /\ thresholds = 0 /\ warned = FALSE
        /\ savedEncoder = [d \in Directory |-> 0] /\ savedThresholds = [d \in Directory |-> 0]
    BY DEF HealthInit, None
  <1>2. MonitorInv
    <2>1. Weights = 0 .. 1 /\ 0 \in Weights /\ 1 \in Weights \ {0} /\ made \in Nat
      BY <1>1 DEF Weights
    <2>2. [d \in Directory |-> 0] \in [Directory -> Weights]
      BY <2>1
    <2>. QED BY <1>1, <2>1, <2>2 DEF MonitorInv, None
  <1>3. EngineInv
    BY UniformScores DEF EngineInv, HealthInit, None
  <1>. QED BY <1>2, <1>3 DEF HealthInv

LEMMA HealthStep == HealthInv /\ [HealthNext]_healthVars => HealthInv'
  <1>. SUFFICES ASSUME HealthInv, [HealthNext]_healthVars PROVE HealthInv'
    OBVIOUS
  <1>1. CASE BuildMonitor \/ Fit \/ FitBreaks
             \/ \E d \in Directory : Save(d) \/ SaveBreaks(d) \/ \E new \in BOOLEAN : Load(d, new)
    <2>1. MonitorInv'
      BY <1>1, MonitorStep, DirectoryStep DEF HealthInv
    <2>2. UNCHANGED <<served, engine, estimate>>
      BY <1>1 DEF BuildMonitor, Fit, FitBreaks, Save, SaveBreaks, Load, engineVars
    <2>3. EngineInv'
      BY <2>2 DEF HealthInv, EngineInv, ScoresOK
    <2>. QED BY <2>1, <2>3 DEF HealthInv
  <1>2. CASE UNCHANGED monitorVars
    <2>1. UNCHANGED <<autoencoder, thresholds, savedEncoder, savedThresholds, made, warned>>
      BY <1>2 DEF monitorVars
    <2>2. MonitorInv'
      BY <2>1 DEF HealthInv, MonitorInv, Weights
    <2>3. CASE UNCHANGED healthVars
      <3>1. UNCHANGED <<served, engine, estimate>>
        BY <2>3 DEF healthVars, engineVars
      <3>. QED BY <2>2, <3>1 DEF HealthInv, EngineInv, ScoresOK
    <2>4. CASE ~UNCHANGED healthVars /\ ~(BuildMonitor \/ Fit \/ FitBreaks
             \/ \E d \in Directory : Save(d) \/ SaveBreaks(d) \/ \E new \in BOOLEAN : Load(d, new))
      BY <2>2, <2>4, EngineStep DEF HealthNext, HealthInv
    <2>. QED BY <1>1, <2>3, <2>4
  <1>3. CASE HealthNext /\ ~UNCHANGED monitorVars
    BY <1>1, <1>3 DEF HealthNext, ServeModel, MakeEngine, Estimate, EstimateByMonitor, Refuse
  <1>. QED BY <1>2, <1>3 DEF healthVars

LEMMA HealthImplied == HealthInv => HealthTypeOK /\ WeightsAreFair
  <1>. SUFFICES ASSUME HealthInv PROVE HealthTypeOK /\ WeightsAreFair
    OBVIOUS
  <1>1. ScoresOK(estimate.scores)
    BY DEF HealthInv, EngineInv
  <1>2. WeightsAreFair
    BY <1>1, FairWeights DEF WeightsAreFair
  <1>. QED BY <1>1, <1>2 DEF HealthInv, MonitorInv, EngineInv, HealthTypeOK, ScoresOK

LEMMA AlwaysHealthInv == HealthSpec => []HealthInv
  BY HealthInitially, HealthStep, PTL DEF HealthSpec

(* The engine keeps to an LSTM that was loaded, and scores to their range. *)
THEOREM HealthTypeCorrect == HealthSpec => []HealthTypeOK
  BY AlwaysHealthInv, HealthImplied, PTL

(* The weights of channels are fair, whatever scores the caller or the     *)
(* monitor gives, for any number of sensors, any scale and any floor.      *)
THEOREM WeightsAlwaysFair == HealthSpec => []WeightsAreFair
  BY AlwaysHealthInv, HealthImplied, PTL

-------------------------------------------------------------------------------
(* DataGenerator *)

MachineReading == [machine : Equipment, cycle : Nat, rul : Life,
            stage : {"healthy", "early", "middle", "late", "critical"}]

(* What the readings of a machine say of its life, counted from the last   *)
(* one backwards.                                                          *)
Counted(m) ==
    \A i \in 1 .. Len(sent[m]) :
        IF rul_remaining[m] = NoMode THEN sent[m][i].rul = NoMode
        ELSE /\ sent[m][i].rul # NoMode
             /\ sent[m][i].rul >= rul_remaining[m] + (Len(sent[m]) - i)

(* A machine that is still to be visited has life left. *)
MachineOK(m) ==
    /\ current_cycle[m] = Len(sent[m])
    /\ \A i \in 1 .. Len(sent[m]) : sent[m][i].machine = m /\ sent[m][i].cycle = i - 1
    /\ ~is_failed[m] => rul_remaining[m] # 0
    /\ m \in todo => ~is_failed[m]
    /\ Counted(m)

TypesOK ==
    /\ current_cycle \in [Equipment -> Nat] /\ rul_remaining \in [Equipment -> Life]
    /\ is_failed \in [Equipment -> BOOLEAN] /\ total \in [Equipment -> Life]
    /\ sent \in [Equipment -> Seq(MachineReading)]
    /\ producer \in BOOLEAN /\ signalled \in BOOLEAN
    /\ generating \in {"loop", "round", "closing", "closed"}
    /\ todo \subseteq Equipment
    /\ rounds \in Nat /\ publishFaults \in Nat

GeneratorInv == TypesOK /\ \A m \in Equipment : MachineOK(m)

LEMMA LifeClosed ==
    ASSUME NEW rul \in Life
    PROVE  /\ rul \in Int /\ (rul # NoMode => rul \in Nat)
           /\ UpdateRul(rul) \in Life
           /\ (UpdateRul(rul) = NoMode) <=> (rul = NoMode)
           /\ rul # NoMode /\ rul # 0 => UpdateRul(rul) = rul - 1
  <1>1. CASE rul = NoMode
    BY <1>1 DEF UpdateRul, Life, NoMode
  <1>2. CASE rul # NoMode
    <2>1. PICK r \in TotalRuls : rul \in 0 .. r
      BY <1>2 DEF Life
    <2>2. r \in Nat
      BY GeneratorAssumption
    <2>3. UpdateRul(rul) \in 0 .. r
      BY <1>2, <2>1, <2>2 DEF UpdateRul
    <2>4. UpdateRul(rul) \in Life
      BY <2>1, <2>3 DEF Life
    <2>5. rul # 0 => UpdateRul(rul) = rul - 1
      BY <1>2, <2>1, <2>2 DEF UpdateRul
    <2>. QED BY <1>2, <2>1, <2>2, <2>3, <2>4, <2>5 DEF NoMode
  <1>. QED BY <1>1, <1>2

LEMMA GeneratorInitially == GeneratorInit => GeneratorInv
  <1> SUFFICES ASSUME GeneratorInit PROVE GeneratorInv
    OBVIOUS
  <1>1. {NoMode} \cup TotalRuls \subseteq Life
    <2>1. \A r \in TotalRuls : r \in 0 .. r
      BY GeneratorAssumption
    <2>. QED BY <2>1 DEF Life
  <1>2. TypesOK
    <2>1. sent \in [Equipment -> Seq(MachineReading)] /\ current_cycle \in [Equipment -> Nat]
      BY DEF GeneratorInit
    <2>2. rul_remaining \in [Equipment -> Life] /\ total = rul_remaining
      BY <1>1 DEF GeneratorInit
    <2>. QED BY <2>1, <2>2 DEF GeneratorInit, TypesOK
  <1>3. ASSUME NEW m \in Equipment PROVE MachineOK(m)
    <2>1. /\ sent[m] = <<>> /\ Len(<<>>) = 0 /\ current_cycle[m] = 0 /\ todo = {}
          /\ rul_remaining[m] \in {NoMode} \cup TotalRuls
      BY DEF GeneratorInit
    <2>2. rul_remaining[m] # 0
      BY <2>1, GeneratorAssumption DEF NoMode
    <2>. QED BY <2>1, <2>2 DEF MachineOK, Counted
  <1>. QED BY <1>2, <1>3 DEF GeneratorInv

(* A step that leaves the machines alone. *)
LEMMA MachinesKept ==
    ASSUME GeneratorInv, TypesOK', UNCHANGED machineVars,
           todo' \subseteq todo \/ todo' = Active
    PROVE  GeneratorInv'
  BY DEF GeneratorInv, MachineOK, Counted, machineVars, Active

LEMMA VisitStep ==
    ASSUME GeneratorInv, NEW m \in Equipment, NEW accepted \in BOOLEAN,
           GenerateAndPublish(m, accepted)
    PROVE  GeneratorInv'
  <1> DEFINE rul == UpdateRul(rul_remaining[m])
             reading == [machine |-> m, cycle |-> current_cycle[m], rul |-> rul,
                         stage |-> Stage(rul, total[m])]
  <1>1. /\ rul_remaining' = [rul_remaining EXCEPT ![m] = rul]
        /\ is_failed' = [is_failed EXCEPT ![m] = IsFailed(rul)]
        /\ IF accepted
           THEN /\ sent' = [sent EXCEPT ![m] = Append(@, reading)]
                /\ current_cycle' = [current_cycle EXCEPT ![m] = @ + 1]
           ELSE UNCHANGED <<sent, current_cycle>>
        /\ m \in todo /\ todo' = todo \ {m}
        /\ UNCHANGED <<total, producer, generating, rounds, signalled>>
        /\ publishFaults' \in {publishFaults, publishFaults + 1}
    BY DEF GenerateAndPublish, PublishFault
  <1>2. /\ rul_remaining[m] \in Life /\ rul_remaining[m] # 0
        /\ sent[m] \in Seq(MachineReading) /\ current_cycle[m] = Len(sent[m])
        /\ Counted(m)
    BY <1>1 DEF GeneratorInv, TypesOK, MachineOK
  <1>3. /\ rul_remaining[m] \in Int /\ rul \in Life /\ rul \in Int
        /\ (rul = NoMode) <=> (rul_remaining[m] = NoMode)
        /\ rul # NoMode => rul = rul_remaining[m] - 1 /\ rul \in Nat
    BY <1>2, LifeClosed
  <1>4. Stage(rul, total[m]) \in {"healthy", "early", "middle", "late", "critical"}
    BY DEF Stage
  <1>5. reading \in MachineReading
    <2>1. current_cycle[m] \in Nat
      BY DEF GeneratorInv, TypesOK
    <2>. QED BY <1>3, <1>4, <2>1 DEF MachineReading
  <1>6. IsFailed(rul) \in BOOLEAN /\ (~IsFailed(rul) => rul # 0)
    BY <1>3 DEF IsFailed, NoMode
  <1>7. Append(sent[m], reading) \in Seq(MachineReading)
    BY <1>2, <1>5
  <1>8. reading.rul = rul /\ reading.machine = m /\ reading.cycle = current_cycle[m]
    OBVIOUS
  <1>. HIDE DEF rul, reading
  <1>9. TypesOK'
    <2>1. TypesOK
      BY DEF GeneratorInv
    <2>2. rul_remaining' \in [Equipment -> Life] /\ is_failed' \in [Equipment -> BOOLEAN]
      BY <1>1, <1>3, <1>6, <2>1 DEF TypesOK
    <2>3. sent' \in [Equipment -> Seq(MachineReading)] /\ current_cycle' \in [Equipment -> Nat]
      <3>1. sent \in [Equipment -> Seq(MachineReading)] /\ current_cycle \in [Equipment -> Nat]
        BY <2>1 DEF TypesOK
      <3>2. CASE accepted
        <4>1. sent' = [sent EXCEPT ![m] = Append(sent[m], reading)]
          BY <1>1, <3>2
        <4>2. current_cycle' = [current_cycle EXCEPT ![m] = current_cycle[m] + 1]
          BY <1>1, <3>2
        <4>. QED BY <1>7, <3>1, <4>1, <4>2
      <3>. QED BY <1>1, <3>1, <3>2
    <2>. QED BY <1>1, <2>1, <2>2, <2>3 DEF TypesOK
  <1>10. MachineOK(m)'
    <2>1. /\ rul_remaining'[m] = rul /\ is_failed'[m] = IsFailed(rul) /\ m \notin todo'
      BY <1>1 DEF GeneratorInv, TypesOK
    <2>2. CASE ~accepted
      <3>1. sent'[m] = sent[m] /\ current_cycle'[m] = current_cycle[m]
        BY <1>1, <2>2
      <3>2. Counted(m)'
        <4>1. ASSUME NEW i \in 1 .. Len(sent[m])
              PROVE  IF rul = NoMode THEN sent[m][i].rul = NoMode
                     ELSE /\ sent[m][i].rul # NoMode
                          /\ sent[m][i].rul >= rul + (Len(sent[m]) - i)
          <5>1. sent[m][i].rul \in Int /\ Len(sent[m]) \in Nat
            <6>1. sent[m][i] \in MachineReading
              BY <1>2
            <6>2. sent[m][i].rul \in Life
              BY <6>1 DEF MachineReading
            <6>. QED BY <1>2, <6>2, LifeClosed
          <5>. QED BY <1>2, <1>3, <5>1, SMTT(30) DEF Counted
        <4>. QED BY <2>1, <3>1, <4>1 DEF Counted
      <3>. QED BY <1>6, <2>1, <3>1, <3>2 DEF MachineOK, GeneratorInv
    <2>3. CASE accepted
      <3>1. /\ sent'[m] = Append(sent[m], reading) /\ current_cycle'[m] = current_cycle[m] + 1
            /\ Len(sent'[m]) = Len(sent[m]) + 1 /\ Len(sent[m]) \in Nat
            /\ \A i \in 1 .. Len(sent[m]) : sent'[m][i] = sent[m][i]
            /\ sent'[m][Len(sent[m]) + 1] = reading
        BY <1>1, <1>2, <2>3 DEF GeneratorInv, TypesOK
      <3>2. ASSUME NEW i \in 1 .. Len(sent'[m])
            PROVE  /\ sent'[m][i].machine = m /\ sent'[m][i].cycle = i - 1
                   /\ IF rul = NoMode THEN sent'[m][i].rul = NoMode
                      ELSE /\ sent'[m][i].rul # NoMode
                           /\ sent'[m][i].rul >= rul + (Len(sent'[m]) - i)
        <4>1. CASE i = Len(sent[m]) + 1
          BY <1>2, <1>3, <1>8, <3>1, <4>1
        <4>2. CASE i # Len(sent[m]) + 1
          <5>1. i \in 1 .. Len(sent[m]) /\ sent'[m][i] = sent[m][i]
            BY <3>1, <4>2
          <5>2. sent[m][i].rul \in Int
            <6>1. sent[m][i] \in MachineReading
              BY <1>2, <5>1
            <6>2. sent[m][i].rul \in Life
              BY <6>1 DEF MachineReading
            <6>. QED BY <6>2, LifeClosed
          <5>3. sent[m][i].machine = m /\ sent[m][i].cycle = i - 1
            BY <5>1 DEF GeneratorInv, MachineOK
          <5>4. IF rul_remaining[m] = NoMode THEN sent[m][i].rul = NoMode
                ELSE /\ sent[m][i].rul # NoMode
                     /\ sent[m][i].rul >= rul_remaining[m] + (Len(sent[m]) - i)
            BY <1>2, <5>1 DEF Counted
          <5>. QED BY <1>3, <3>1, <5>1, <5>2, <5>3, <5>4, SMTT(30)
        <4>. QED BY <4>1, <4>2
      <3>3. Counted(m)'
        BY <2>1, <3>2 DEF Counted
      <3>. QED BY <1>2, <1>6, <2>1, <3>1, <3>2, <3>3 DEF MachineOK
    <2>. QED BY <2>2, <2>3
  <1>11. ASSUME NEW n \in Equipment, n # m PROVE MachineOK(n)'
    <2>1. /\ rul_remaining'[n] = rul_remaining[n] /\ is_failed'[n] = is_failed[n]
          /\ sent'[n] = sent[n] /\ current_cycle'[n] = current_cycle[n]
          /\ n \in todo' => n \in todo
      BY <1>1, <1>11 DEF GeneratorInv, TypesOK
    <2>. QED BY <2>1 DEF GeneratorInv, MachineOK, Counted
  <1>. QED BY <1>9, <1>10, <1>11 DEF GeneratorInv

LEMMA GeneratorStep ==
    ASSUME GeneratorInv, [GeneratorNext]_generatorVars
    PROVE  GeneratorInv'
  <1>1. CASE UNCHANGED generatorVars
    <2>1. UNCHANGED machineVars /\ TypesOK' /\ todo' = todo
      BY <1>1 DEF generatorVars, machineVars, kafkaVars, GeneratorInv, TypesOK
    <2>. QED BY <2>1, MachinesKept
  <1>2. CASE Signal \/ BeginRound \/ EndRound \/ Close
    <2>1. TypesOK'
      <3>1. /\ UNCHANGED <<current_cycle, rul_remaining, is_failed, total, sent, producer,
                           publishFaults>>
            /\ rounds' \in {rounds, rounds + 1}
        BY <1>2 DEF Signal, BeginRound, EndRound, Close, machineVars, kafkaVars
      <3>2. /\ signalled' \in {signalled, TRUE} /\ todo' \in {todo, Active}
            /\ generating' \in {generating, "loop", "round", "closing", "closed"}
        BY <1>2 DEF Signal, BeginRound, EndRound, Close
      <3>3. TypesOK
        BY DEF GeneratorInv
      <3>4. signalled' \in BOOLEAN /\ todo' \subseteq Equipment
        BY <3>2, <3>3 DEF Active, TypesOK
      <3>5. generating' \in {"loop", "round", "closing", "closed"} /\ rounds' \in Nat
        BY <3>1, <3>2, <3>3 DEF TypesOK
      <3>. QED BY <3>1, <3>3, <3>4, <3>5 DEF TypesOK
    <2>2. UNCHANGED machineVars /\ (todo' \subseteq todo \/ todo' = Active)
      BY <1>2 DEF Signal, BeginRound, EndRound, Close
    <2>. QED BY <2>1, <2>2, MachinesKept
  <1>3. ASSUME NEW outcome, Send(outcome) PROVE GeneratorInv'
    <2>1. UNCHANGED machineVars /\ TypesOK' /\ todo' = todo
      BY <1>3 DEF Send, PublishFault, machineVars, GeneratorInv, TypesOK
    <2>. QED BY <2>1, MachinesKept
  <1>. QED
    BY <1>1, <1>2, <1>3, VisitStep DEF GeneratorNext

LEMMA AlwaysGeneratorInv == GeneratorSpec => []GeneratorInv
  BY GeneratorInitially, GeneratorStep, PTL DEF GeneratorSpec

(* The readings of a machine are numbered without a gap, also when sends   *)
(* were refused.                                                           *)
THEOREM GeneratorTypeCorrect == GeneratorSpec => []GeneratorTypeOK
  <1>1. GeneratorInv => GeneratorTypeOK
    <2> SUFFICES ASSUME GeneratorInv, NEW m \in Equipment, NEW i \in DOMAIN sent[m]
                 PROVE  /\ sent[m][i].machine = m /\ sent[m][i].cycle = i - 1
                        /\ sent[m][i].rul \in Life
      BY DEF GeneratorTypeOK, GeneratorInv, TypesOK
    <2>1. sent[m] \in Seq(MachineReading) /\ i \in 1 .. Len(sent[m])
      BY DEF GeneratorInv, TypesOK
    <2>2. sent[m][i] \in MachineReading
      BY <2>1
    <2>. QED BY <2>1, <2>2 DEF GeneratorInv, MachineOK, MachineReading
  <1>. QED BY <1>1, AlwaysGeneratorInv, PTL

(* The remaining life in a reading bounds the readings that follow it.     *)
THEOREM LabelAlwaysBounds == GeneratorSpec => []LabelBoundsReadings
  <1>1. GeneratorInv => LabelBoundsReadings
    <2> SUFFICES ASSUME GeneratorInv, NEW m \in Equipment, NEW i \in DOMAIN sent[m],
                        sent[m][i].rul # NoMode
                 PROVE  Len(sent[m]) - i <= sent[m][i].rul
      BY DEF LabelBoundsReadings
    <2>1. sent[m] \in Seq(MachineReading) /\ i \in 1 .. Len(sent[m]) /\ Len(sent[m]) \in Nat
      BY DEF GeneratorInv, TypesOK
    <2>2. sent[m][i] \in MachineReading
      BY <2>1
    <2>3. sent[m][i].rul \in Int /\ rul_remaining[m] \in Int
          /\ (rul_remaining[m] # NoMode => rul_remaining[m] \in Nat)
      BY <2>2, LifeClosed DEF MachineReading, GeneratorInv, TypesOK
    <2>4. rul_remaining[m] # NoMode /\ sent[m][i].rul >= rul_remaining[m] + (Len(sent[m]) - i)
      BY <2>1 DEF GeneratorInv, MachineOK, Counted
    <2>. QED BY <2>1, <2>3, <2>4
  <1>. QED BY <1>1, AlwaysGeneratorInv, PTL
-------------------------------------------------------------------------------
(* EngineStreamer *)

Stamped == [unit : Engine, cycle : Nat, pass : Nat, rul : Int, stamp : Nat]

Known == ToSet(arrived) \cup late

(* Two readings that can be told apart. *)
Apart(x, y) ==
    x.unit = y.unit /\ x # y =>
        /\ x.stamp # y.stamp
        /\ x.pass = y.pass => (x.stamp < y.stamp <=> x.rul > y.rul)

(* A reading of this pass is stamped by its cycle, and its engine has been *)
(* visited if the cycle is the present one; those of earlier passes are    *)
(* not stamped later than this pass began.                                 *)
PlacedOK(x) ==
    /\ x.pass <= pass
    /\ x.pass = pass =>
          /\ x.cycle <= cycle
          /\ x.cycle = cycle /\ streaming = "cycle" => x.unit \notin engines
          /\ x.rul = RulOf(x.unit, x.cycle)
          /\ x.stamp = start_time + (IF only = All THEN x.cycle ELSE x.cycle - 1)
    /\ x.pass < pass => only = All /\ x.stamp <= start_time

StreamTypes ==
    /\ cycles \in [Engine -> Nat] /\ final \in [Engine -> Nat]
    /\ only \in {All} \cup Engine /\ (again => only = All)
    /\ pass \in Nat /\ cycle \in Nat \ {0} /\ clock \in Nat /\ start_time \in Nat
    /\ engines \subseteq Engine
    /\ arrived \in Seq(Stamped) /\ late \subseteq Stamped

StreamerInv ==
    /\ StreamTypes
    /\ begun = start_time
    /\ streaming = "sleep" /\ only = All => clock >= start_time + cycle
    /\ \A x \in Known : PlacedOK(x)
    /\ \A x, y \in Known : Apart(x, y)

LEMMA KnownStamped ==
    ASSUME StreamTypes
    PROVE  Known \subseteq Stamped
  BY DEF StreamTypes, Known, ToSet

LEMMA AppendKnown ==
    ASSUME NEW q \in Seq(Stamped), NEW x \in Stamped
    PROVE  ToSet(Append(q, x)) = ToSet(q) \cup {x} /\ Append(q, x) \in Seq(Stamped)
  <1>1. /\ Len(q) \in Nat /\ Len(Append(q, x)) = Len(q) + 1
        /\ Append(q, x) \in Seq(Stamped)
        /\ \A k \in 1 .. Len(q) : Append(q, x)[k] = q[k]
        /\ Append(q, x)[Len(q) + 1] = x
    OBVIOUS
  <1>2. DOMAIN Append(q, x) = 1 .. Len(q) + 1 /\ DOMAIN q = 1 .. Len(q)
    BY <1>1
  <1>3. 1 .. Len(q) + 1 = (1 .. Len(q)) \cup {Len(q) + 1}
    BY <1>1
  <1>4. ToSet(Append(q, x)) = {Append(q, x)[k] : k \in 1 .. Len(q)} \cup {x}
    BY <1>1, <1>2, <1>3 DEF ToSet
  <1>5. {Append(q, x)[k] : k \in 1 .. Len(q)} = ToSet(q)
    BY <1>1, <1>2 DEF ToSet
  <1>. QED BY <1>1, <1>4, <1>5

LEMMA StreamerInitially == StreamerInit => StreamerInv
  <1> SUFFICES ASSUME StreamerInit PROVE StreamerInv
    OBVIOUS
  <1>1. StreamTypes
    <2>1. cycles \in [Engine -> Nat] /\ final \in [Engine -> Nat]
      <3>1. cycles \in [Engine -> Nat]
        BY DEF StreamerInit
      <3>2. final \in [Engine -> {0}] \/ final \in [Engine -> FinalRuls]
        BY DEF StreamerInit
      <3>3. {0} \subseteq Nat /\ FinalRuls \subseteq Nat
        BY StreamerAssumption
      <3>4. \A S : S \subseteq Nat => [Engine -> S] \subseteq [Engine -> Nat]
        OBVIOUS
      <3>. QED BY <3>1, <3>2, <3>3, <3>4
    <2>2. engines \subseteq Engine
      BY DEF StreamerInit, RecordedAt, Streamed, All
    <2>. QED BY <2>1, <2>2 DEF StreamerInit, StreamTypes
  <1>2. Known = {}
    BY DEF StreamerInit, Known, ToSet
  <1>. QED BY <1>1, <1>2 DEF StreamerInit, StreamerInv

(* A step that brings no new reading and stays in its pass. *)
LEMMA KnownKept ==
    ASSUME StreamerInv, StreamTypes', Known' \subseteq Known,
           UNCHANGED <<dataVars, timeVars, pass>>,
           \/ UNCHANGED <<cycle, streaming, engines>>
           \/ streaming = "cycle" /\ cycle' = cycle + 1 /\ streaming' = streaming
           \/ streaming' = "closed" /\ cycle' = cycle
           \/ /\ streaming' = "sleep" /\ cycle' = cycle
              /\ only = All => clock' >= start_time + cycle,
           streaming = "sleep" => clock' = clock \/ streaming' = "closed",
           streaming = "cycle" => streaming' \in {"cycle", "sleep", "closed"}
    PROVE  StreamerInv'
  <1>1. UNCHANGED <<cycles, final, only, again, start_time, begun, pass>>
    BY DEF dataVars, timeVars
  <1>2. /\ cycle \in Nat /\ cycle' \in Nat
        /\ Known \subseteq Stamped
    BY KnownStamped DEF StreamerInv, StreamTypes
  <1>3. ASSUME NEW x \in Known' PROVE PlacedOK(x)'
    <2>1. x \in Known /\ PlacedOK(x) /\ x.cycle \in Nat
      BY <1>2 DEF StreamerInv, Stamped
    <2>2. RulOf(x.unit, x.cycle)' = RulOf(x.unit, x.cycle)
      BY <1>1 DEF RulOf
    <2>. QED BY <1>1, <1>2, <2>1, <2>2 DEF PlacedOK
  <1>4. \A x, y \in Known' : Apart(x, y)
    BY DEF StreamerInv
  <1>5. streaming' = "sleep" /\ only' = All => clock' >= start_time' + cycle'
    BY <1>1, <1>2 DEF StreamerInv
  <1>. QED BY <1>1, <1>3, <1>4, <1>5 DEF StreamerInv, Apart

LEMMA SendStep ==
    ASSUME StreamerInv, NEW u \in Engine, NEW outcome, NEW takes \in 0 .. 1,
           SendRow(u, outcome, takes)
    PROVE  StreamerInv'
  <1> DEFINE m == Message(u)
  <1>1. /\ UNCHANGED <<cycles, final, only, again, start_time, begun, pass, cycle, streaming>>
        /\ streaming = "cycle" /\ u \in engines /\ engines' = engines \ {u}
        /\ clock' = clock + takes
        /\ arrived' \in {arrived, Append(arrived, m)} /\ late' \in {late, late \cup {m}}
    BY DEF SendRow, dataVars, timeVars
  <1>2. StreamTypes
    BY DEF StreamerInv
  <1>3. /\ m.unit = u /\ m.cycle = cycle /\ m.pass = pass /\ m.rul = RulOf(u, cycle)
        /\ m.stamp = start_time + (IF only = All THEN cycle ELSE cycle - 1)
    BY DEF Message, Stamp
  <1>4. m \in Stamped
    <2>1. RulOf(u, cycle) \in Int /\ Stamp \in Nat
      BY <1>2 DEF StreamTypes, RulOf, Stamp
    <2>. QED BY <1>2, <2>1 DEF Message, Stamped, StreamTypes
  <1>. HIDE DEF m
  <1>5. ToSet(arrived') \subseteq ToSet(arrived) \cup {m} /\ arrived' \in Seq(Stamped)
    BY <1>1, <1>2, <1>4, AppendKnown DEF StreamTypes
  <1>6. Known' \subseteq Known \cup {m}
    BY <1>1, <1>5 DEF Known
  <1>7. StreamTypes'
    BY <1>1, <1>2, <1>4, <1>5 DEF StreamTypes
  <1>8. Known \subseteq Stamped
    BY <1>2, KnownStamped
  <1>9. ASSUME NEW x \in Known'
        PROVE  PlacedOK(x)'
    <2>1. CASE x \in Known
      <3>1. PlacedOK(x) /\ RulOf(x.unit, x.cycle)' = RulOf(x.unit, x.cycle)
        BY <1>1, <2>1 DEF StreamerInv, RulOf
      <3>. QED BY <1>1, <3>1 DEF PlacedOK
    <2>2. CASE x = m
      <3>1. RulOf(u, cycle)' = RulOf(u, cycle)
        BY <1>1 DEF RulOf
      <3>. QED BY <1>1, <1>2, <1>3, <2>2, <3>1 DEF PlacedOK, StreamTypes
    <2>. QED BY <1>6, <2>1, <2>2
  <1>10. ASSUME NEW x \in Known PROVE Apart(x, m) /\ Apart(m, x)
    <2> SUFFICES ASSUME x.unit = u
                 PROVE  /\ x.stamp < m.stamp
                        /\ x.pass = m.pass => x.rul > m.rul
      <3>1. x.stamp \in Nat /\ m.stamp \in Nat /\ x.rul \in Int /\ m.rul \in Int
        BY <1>4, <1>8 DEF Stamped
      <3>. QED BY <1>3, <3>1 DEF Apart
    <2>1. /\ PlacedOK(x) /\ x.cycle \in Nat /\ x.pass \in Nat /\ x.stamp \in Nat
          /\ start_time \in Nat /\ cycle \in Nat \ {0} /\ pass \in Nat
      BY <1>2, <1>8 DEF StreamerInv, StreamTypes, Stamped
    <2>2. CASE x.pass = pass
      <3>1. x.cycle < cycle
        BY <1>1, <2>1, <2>2 DEF PlacedOK
      <3>2. x.stamp < m.stamp
        BY <1>3, <2>1, <2>2, <3>1 DEF PlacedOK
      <3>3. x.rul = final[u] + cycles[u] - x.cycle /\ m.rul = final[u] + cycles[u] - cycle
        BY <1>3, <2>1, <2>2 DEF PlacedOK, RulOf
      <3>4. final[u] \in Nat /\ cycles[u] \in Nat
        BY <1>2 DEF StreamTypes
      <3>. QED BY <2>1, <3>1, <3>2, <3>3, <3>4
    <2>3. CASE x.pass < pass
      BY <1>3, <2>1, <2>3 DEF PlacedOK
    <2>. QED BY <2>1, <2>2, <2>3 DEF PlacedOK
  <1>11. \A x, y \in Known' : Apart(x, y)
    <2>1. Apart(m, m)
      BY DEF Apart
    <2>. QED BY <1>6, <1>10, <2>1 DEF StreamerInv
  <1>12. begun' = start_time' /\ streaming' # "sleep"
    BY <1>1 DEF StreamerInv
  <1>. QED BY <1>7, <1>9, <1>11, <1>12 DEF StreamerInv, Apart

LEMMA NextPass ==
    ASSUME StreamerInv, Restart
    PROVE  StreamerInv'
  <1>1. /\ UNCHANGED <<cycles, final, only, again, clock, late, arrived>>
        /\ streaming = "sleep" /\ streaming' = "cycle" /\ pass' = pass + 1
        /\ start_time' = clock /\ begun' = clock /\ cycle' = 1 /\ only = All
        /\ engines' \subseteq Engine
    BY DEF Restart, dataVars, StreamerInv, StreamTypes, RecordedAt, Streamed, All
  <1>2. StreamTypes'
    BY <1>1 DEF StreamerInv, StreamTypes
  <1>3. Known' = Known /\ Known \subseteq Stamped
    BY <1>1, KnownStamped DEF Known, StreamerInv
  <1>4. ASSUME NEW x \in Known PROVE PlacedOK(x)'
    <2>1. /\ PlacedOK(x) /\ x.pass \in Nat /\ x.stamp \in Nat /\ x.cycle \in Nat
          /\ clock >= start_time + cycle
          /\ clock \in Nat /\ start_time \in Nat /\ cycle \in Nat /\ pass \in Nat
      BY <1>1, <1>3 DEF StreamerInv, StreamTypes, Stamped
    <2>2. x.pass < pass' /\ x.stamp <= clock
      BY <1>1, <2>1 DEF PlacedOK
    <2>. QED BY <1>1, <2>1, <2>2 DEF PlacedOK
  <1>. QED BY <1>1, <1>2, <1>3, <1>4 DEF StreamerInv, Apart

LEMMA StreamerStep ==
    ASSUME StreamerInv, [StreamerNext]_streamerVars
    PROVE  StreamerInv'
  <1>1. StreamTypes
    BY DEF StreamerInv
  <1>2. CASE UNCHANGED streamerVars
    <2>1. /\ UNCHANGED <<cycles, final, only, again, start_time, begun, pass, cycle, streaming,
                       engines, clock, late, arrived>>
      BY <1>2 DEF streamerVars, dataVars, timeVars
    <2>2. StreamTypes' /\ Known' = Known
      BY <1>1, <2>1 DEF StreamTypes, Known
    <2>. QED BY <2>1, <2>2, KnownKept DEF dataVars, timeVars
  <1>3. ASSUME NEW message \in late, ArrivesLate(message) PROVE StreamerInv'
    <2>1. /\ UNCHANGED <<dataVars, timeVars, pass, cycle, streaming, engines, clock>>
          /\ late' = late \ {message} /\ arrived' = Append(arrived, message)
      BY <1>3 DEF ArrivesLate
    <2>2. /\ ToSet(arrived') = ToSet(arrived) \cup {message} /\ arrived' \in Seq(Stamped)
      BY <1>1, <2>1, AppendKnown DEF StreamTypes
    <2>3. StreamTypes' /\ Known' \subseteq Known
      BY <1>1, <2>1, <2>2 DEF StreamTypes, Known, dataVars, timeVars
    <2>. QED BY <2>1, <2>3, KnownKept
  <1>4. CASE Pace
    <2>1. /\ UNCHANGED <<dataVars, timeVars, pass, late, arrived>> /\ streaming = "cycle"
          /\ clock' = IF only = All THEN MaxOf({clock, begun + cycle}) ELSE clock + 1
          /\ \/ cycle' = cycle + 1 /\ engines' = RecordedAt(cycle + 1) /\ streaming' = streaming
             \/ cycle' = cycle /\ engines' = engines /\ streaming' = "sleep"
      BY <1>4 DEF Pace
    <2>2. clock' \in Nat /\ (only = All => clock' >= start_time + cycle)
      <3>1. clock \in Nat /\ begun + cycle \in Nat /\ begun = start_time
        BY <1>1 DEF StreamerInv, StreamTypes
      <3>2. \E n \in {clock, begun + cycle} : \A k \in {clock, begun + cycle} : k <= n
        BY <3>1
      <3>3. /\ MaxOf({clock, begun + cycle}) \in {clock, begun + cycle}
            /\ \A k \in {clock, begun + cycle} : k <= MaxOf({clock, begun + cycle})
        BY <3>2 DEF MaxOf
      <3>. QED BY <2>1, <3>1, <3>3
    <2>3. engines' \subseteq Engine
      BY <1>1, <2>1 DEF StreamTypes, RecordedAt, Streamed, All
    <2>4. StreamTypes' /\ Known' = Known
      BY <1>1, <2>1, <2>2, <2>3 DEF StreamTypes, Known, dataVars, timeVars
    <2>. QED BY <2>1, <2>2, <2>4, KnownKept
  <1>5. CASE CloseStream
    <2>1. /\ UNCHANGED <<dataVars, timeVars, pass, cycle, engines, clock, late, arrived>>
          /\ streaming' = "closed"
      BY <1>5 DEF CloseStream
    <2>2. StreamTypes' /\ Known' = Known
      BY <1>1, <2>1 DEF StreamTypes, Known, dataVars, timeVars
    <2>. QED BY <2>1, <2>2, KnownKept
  <1>. QED
    BY <1>2, <1>3, <1>4, <1>5, SendStep, NextPass DEF StreamerNext

(* No two readings of an engine share a stamp, and within a pass the later *)
(* stamp has the smaller remaining life, whatever is lost, slow or late.   *)
THEOREM StampsAlwaysApart == StreamerSpec => []StampsTellReadingsApart
  <1>1. StreamerInv => StampsTellReadingsApart
    BY DEF StreamerInv, StampsTellReadingsApart, Known, Apart
  <1>. QED BY <1>1, StreamerInitially, StreamerStep, PTL DEF StreamerSpec

(* The cycle streamed is one that was recorded: it moves on only before    *)
(* the last cycle of the engines streamed.                                 *)
StreamerBounds ==
    /\ cycles \in [Engine -> 1 .. MaxEngineCycle] /\ cycle \in 1 .. MaxEngineCycle
    /\ streaming \in {"cycle", "sleep", "closed"} /\ again \in BOOLEAN
    /\ slow \in Nat /\ sendFaults \in Nat

LEMMA LastCycleRecorded ==
    ASSUME cycles \in [Engine -> 1 .. MaxEngineCycle], only \in {All} \cup Engine
    PROVE  LastCycle \in 1 .. MaxEngineCycle
  <1> DEFINE lasts == {cycles[u] : u \in Streamed}
  <1>1. Streamed \subseteq Engine /\ Streamed # {} /\ MaxEngineCycle \in Nat
    BY StreamerAssumption DEF Streamed
  <1>2. lasts # {} /\ lasts \subseteq 1 .. MaxEngineCycle
    BY <1>1
  <1>. HIDE DEF lasts
  <1>3. lasts \subseteq 0 .. MaxEngineCycle
    BY <1>1, <1>2
  <1>4. \E n \in lasts : \A k \in lasts : k <= n
    BY <1>1, <1>2, <1>3, GreatestNat
  <1>5. MaxOf(lasts) \in lasts
    BY <1>4 DEF MaxOf
  <1>. QED BY <1>2, <1>5 DEF LastCycle, lasts

LEMMA BoundsKept ==
    ASSUME StreamerInv, StreamerBounds, [StreamerNext]_streamerVars
    PROVE  StreamerBounds'
  <1>1. UNCHANGED <<cycles, again>>
    BY DEF StreamerNext, SendRow, ArrivesLate, Pace, Restart, CloseStream, streamerVars, dataVars
  <1>2. slow' \in Nat /\ sendFaults' \in Nat
    BY StreamerAssumption DEF StreamerBounds, StreamerNext, SendRow, ArrivesLate, Pace, Restart,
       CloseStream, streamerVars, SendFault
  <1>3. streaming' \in {"cycle", "sleep", "closed"}
    BY DEF StreamerBounds, StreamerNext, SendRow, ArrivesLate, Pace, Restart, CloseStream, streamerVars
  <1>4. cycle' \in 1 .. MaxEngineCycle
    <2>1. LastCycle \in 1 .. MaxEngineCycle /\ MaxEngineCycle \in Nat /\ 1 \in 1 .. MaxEngineCycle
      BY LastCycleRecorded, StreamerAssumption DEF StreamerInv, StreamTypes, StreamerBounds
    <2>2. \/ cycle' = cycle \/ cycle' = 1
          \/ cycle < LastCycle /\ cycle' = cycle + 1
      BY DEF StreamerNext, SendRow, ArrivesLate, Pace, Restart, CloseStream, streamerVars
    <2>. QED BY <2>1, <2>2 DEF StreamerBounds
  <1>. QED BY <1>1, <1>2, <1>3, <1>4 DEF StreamerBounds

(* Types: the cycle streamed is a recorded one, in every pass.             *)
THEOREM StreamerTypeCorrect == StreamerSpec => []StreamerTypeOK
  <1>1. StreamerInit => StreamerBounds
    <2>1. 1 \in 1 .. MaxEngineCycle
      BY StreamerAssumption
    <2>. QED BY <2>1 DEF StreamerInit, StreamerBounds
  <1>2. StreamerInv /\ StreamerBounds => StreamerTypeOK
    BY DEF StreamerInv, StreamTypes, StreamerBounds, StreamerTypeOK
  <1>. QED BY <1>1, <1>2, BoundsKept, StreamerInitially, StreamerStep, PTL DEF StreamerSpec

-------------------------------------------------------------------------------
(* Training *)

StagesOK ==
    /\ queue \in Plans \cup {<<>>} /\ source \in {"table", "frame"} /\ held \in BOOLEAN
    /\ pos \in Nat /\ evaluated \in BOOLEAN
    /\ litter \subseteq {"config", "plot", "confusion", "importance"}
    /\ lifetime \in [1 .. Fleet -> Lifetimes]
    /\ trainings \in Nat /\ trainingFaults \in Nat

(* Outside a training nothing runs; within one the tracking server knows   *)
(* of the run that is open.                                                *)
RunsMatch ==
    /\ queue = <<>> => pos = 0
    /\ activeRun \in BOOLEAN /\ (activeRun <=> pos # 0)
    /\ openRuns \in Nat /\ (activeRun => openRuns > 0)

(* A model is registered after its file was saved. *)
FilesFirst ==
    /\ versions \in [Kind -> Nat] /\ measured \in [Kind -> Nat] /\ saved \in [Kind -> Nat]
    /\ \A k \in Kind : versions[k] <= saved[k]
    /\ queue # <<>> /\ Running /\ Step = "register" => versions[Current] < saved[Current]

TrainingInv == StagesOK /\ RunsMatch /\ FilesFirst

LEMMA ScriptFacts ==
    ASSUME queue \in Plans, pos \in Nat
    PROVE  /\ Current \in Kind /\ Tail(queue) \in Plans \cup {<<>>}
           /\ Len(Script(Current)) \in {9, 10}
           /\ Running /\ Step = "save" => pos + 1 = Len(Script(Current))
           /\ Running => (Step = "register" <=> pos = Len(Script(Current)))
  <1>1. queue \in {<<"lstm", "forest">>, <<"lstm">>, <<"forest">>}
    BY DEF Plans
  <1>2. Current \in Kind /\ Tail(queue) \in Plans \cup {<<>>}
    <2>1. CASE queue = <<"lstm", "forest">>
      <3>1. Head(queue) = "lstm" /\ Tail(queue) = <<"forest">>
        BY <2>1
      <3>. QED BY <3>1 DEF Current, Kind, Plans
    <2>2. CASE queue = <<"lstm">>
      <3>1. Head(queue) = "lstm" /\ Tail(queue) = <<>>
        BY <2>2
      <3>. QED BY <3>1 DEF Current, Kind, Plans
    <2>3. CASE queue = <<"forest">>
      <3>1. Head(queue) = "forest" /\ Tail(queue) = <<>>
        BY <2>3
      <3>. QED BY <3>1 DEF Current, Kind, Plans
    <2>. QED BY <1>1, <2>1, <2>2, <2>3
  <1>3. CASE Current = "lstm"
    <2>1. Script(Current) = LstmScript /\ Len(LstmScript) = 10
      BY <1>3 DEF Script, LstmScript
    <2>2. Running => pos \in 1 .. 10 /\ Step = LstmScript[pos]
      BY <2>1 DEF Running, Step
    <2>3. /\ \A i \in 1 .. 10 : LstmScript[i] = "save" => i = 9
          /\ \A i \in 1 .. 10 : LstmScript[i] = "register" <=> i = 10
      <3>1. /\ LstmScript[1] = "config" /\ LstmScript[2] = "tags" /\ LstmScript[3] = "build"
            /\ LstmScript[4] = "params" /\ LstmScript[5] = "fit" /\ LstmScript[6] = "history"
            /\ LstmScript[7] = "evaluate" /\ LstmScript[8] = "plot" /\ LstmScript[9] = "save"
            /\ LstmScript[10] = "register"
        BY DEF LstmScript
      <3>2. \A i \in 1 .. 10 : i = 1 \/ i = 2 \/ i = 3 \/ i = 4 \/ i = 5 \/ i = 6 \/ i = 7 \/ i = 8 \/ i = 9 \/ i = 10
        OBVIOUS
      <3>. QED BY <3>1, <3>2
    <2>. QED BY <1>2, <2>1, <2>2, <2>3
  <1>4. CASE Current = "forest"
    <2>1. Script(Current) = ForestScript /\ Len(ForestScript) = 9
      BY <1>4 DEF Script, ForestScript
    <2>2. Running => pos \in 1 .. 9 /\ Step = ForestScript[pos]
      BY <2>1 DEF Running, Step
    <2>3. /\ \A i \in 1 .. 9 : ForestScript[i] = "save" => i = 8
          /\ \A i \in 1 .. 9 : ForestScript[i] = "register" <=> i = 9
      <3>1. /\ ForestScript[1] = "tags" /\ ForestScript[2] = "build" /\ ForestScript[3] = "params"
            /\ ForestScript[4] = "fit" /\ ForestScript[5] = "evaluate" /\ ForestScript[6] = "confusion"
            /\ ForestScript[7] = "importance" /\ ForestScript[8] = "save" /\ ForestScript[9] = "register"
        BY DEF ForestScript
      <3>2. \A i \in 1 .. 9 : i = 1 \/ i = 2 \/ i = 3 \/ i = 4 \/ i = 5 \/ i = 6 \/ i = 7 \/ i = 8 \/ i = 9
        OBVIOUS
      <3>. QED BY <3>1, <3>2
    <2>. QED BY <1>2, <2>1, <2>2, <2>3
  <1>. QED BY <1>2, <1>3, <1>4 DEF Kind
LEMMA TrainingStarts == TrainingInit => TrainingInv
  <1> SUFFICES ASSUME TrainingInit PROVE TrainingInv
    OBVIOUS
  <1>1. StagesOK
    BY DEF TrainingInit, StagesOK
  <1>2. RunsMatch
    BY DEF TrainingInit, RunsMatch
  <1>3. FilesFirst
    BY DEF TrainingInit, FilesFirst
  <1>. QED BY <1>1, <1>2, <1>3 DEF TrainingInv

LEMMA TrainingBegins ==
    ASSUME TrainingInv, NEW kinds \in Plans, NEW from \in {"table", "frame"}, NEW withTest \in BOOLEAN,
           BeginTraining(kinds, from, withTest)
    PROVE  TrainingInv'
  <1>1. pos = 0 /\ pos' = pos /\ queue' = kinds /\ kinds # <<>>
    BY DEF BeginTraining, TrainingInv, RunsMatch, Plans
  <1>2. ~Running'
    BY <1>1 DEF Running
  <1>. QED BY <1>1, <1>2 DEF BeginTraining, TrainingInv, StagesOK, RunsMatch, FilesFirst, jobVars,
                             runVars, modelVars

LEMMA TrainingRunStarts ==
    ASSUME TrainingInv, NEW fails \in BOOLEAN, StartRun(fails)
    PROVE  TrainingInv'
  <1>1. queue \in Plans /\ pos = 0 /\ ~activeRun
    BY DEF StartRun, TrainingInv, StagesOK, RunsMatch
  <1>2. UNCHANGED <<jobVars, modelVars, litter, trainings>>
    BY DEF StartRun
  <1>3. CASE fails
    BY <1>1, <1>2, <1>3
       DEF StartRun, TrainingFault, TrainingInv, StagesOK, RunsMatch, FilesFirst, jobVars, modelVars, runVars
  <1>4. CASE ~fails
    <2>1. pos' = 1 /\ queue' = queue /\ activeRun' = TRUE /\ openRuns' = openRuns + 1
          /\ evaluated' = FALSE /\ trainingFaults' = trainingFaults
      BY <1>1, <1>4 DEF StartRun
    <2>2. Current' = Current /\ Script(Current)' = Script(Current)
      BY <2>1 DEF Current, Script
    <2>3. Running' => Step' # "register"
      <3>1. Len(Script(Current)) \in {9, 10}
        BY <1>1, ScriptFacts
      <3>2. queue' \in Plans /\ pos' \in Nat
        BY <1>1, <2>1
      <3>. QED BY <1>1, <2>1, <2>2 DEF Step, Current, Script, LstmScript, ForestScript, Running, Plans
    <2>4. StagesOK'
      BY <1>2, <2>1 DEF TrainingInv, StagesOK, jobVars
    <2>5. RunsMatch'
      BY <1>1, <2>1 DEF TrainingInv, RunsMatch, Plans
    <2>6. FilesFirst'
      BY <1>2, <2>3 DEF TrainingInv, FilesFirst, modelVars
    <2>. QED BY <2>4, <2>5, <2>6 DEF TrainingInv
  <1>. QED BY <1>3, <1>4

LEMMA TrainingRunEnds ==
    ASSUME TrainingInv, NEW fails \in BOOLEAN, EndRun(fails)
    PROVE  TrainingInv'
  <1>1. queue \in Plans /\ pos > Len(Script(Current)) /\ pos \in Nat
    BY DEF EndRun, TrainingInv, StagesOK
  <1>2. Tail(queue) \in Plans \cup {<<>>} /\ activeRun
    BY <1>1, ScriptFacts DEF TrainingInv, RunsMatch
  <1>3. pos' = 0 /\ activeRun' = FALSE /\ queue' \in Plans \cup {<<>>}
        /\ openRuns' \in {openRuns, openRuns - 1}
    BY <1>2 DEF EndRun
  <1>4. ~Running'
    BY <1>3 DEF Running
  <1>5. trainingFaults' \in Nat /\ openRuns' \in Nat
    BY <1>2, <1>3 DEF EndRun, TrainingFault, TrainingInv, StagesOK, RunsMatch
  <1>6. UNCHANGED <<jobVars, evaluated, modelVars, litter, trainings>>
    BY DEF EndRun
  <1>7. StagesOK'
    BY <1>3, <1>5, <1>6 DEF TrainingInv, StagesOK, jobVars
  <1>8. RunsMatch'
    BY <1>3, <1>5 DEF RunsMatch
  <1>9. FilesFirst'
    BY <1>4, <1>6 DEF TrainingInv, FilesFirst, modelVars
  <1>. QED BY <1>7, <1>8, <1>9 DEF TrainingInv

(* A step of the script, done or not. *)
LEMMA TrainingGoesOn ==
    ASSUME TrainingInv, TrainingStep \/ \E applied \in BOOLEAN : TrainingStepFails(applied)
    PROVE  TrainingInv'
  <1>1. queue \in Plans /\ pos \in Nat /\ Running /\ queue # <<>>
    BY DEF TrainingStep, TrainingStepFails, TrainingInv, StagesOK
  <1> DEFINE length == Len(Script(Current))
  <1>2. /\ Current \in Kind /\ length \in {9, 10} /\ pos \in 1 .. length
        /\ Step = "save" => pos + 1 = length
        /\ Step = "register" <=> pos = length
    BY <1>1, ScriptFacts DEF Running
  <1>3. queue' = queue /\ Current' = Current /\ Script(Current)' = Script(Current)
        /\ UNCHANGED <<jobVars, runVars, trainings>>
    BY DEF TrainingStep, TrainingStepFails, Current, Script
  <1>4. \/ TrainingStep /\ pos' = pos + 1
        \/ (\E applied \in BOOLEAN : TrainingStepFails(applied)) /\ pos' = length + 2
    BY DEF TrainingStep, TrainingStepFails
  <1>5. pos' \in Nat \ {0}
    BY <1>2, <1>4
  <1>6. /\ versions' \in [Kind -> Nat] /\ measured' \in [Kind -> Nat] /\ saved' \in [Kind -> Nat]
        /\ Step = "register" \/ versions' = versions
        /\ versions' = versions \/ versions' = [versions EXCEPT ![Current] = @ + 1]
        /\ saved' = saved \/ saved' = [saved EXCEPT ![Current] = @ + 1]
        /\ TrainingStep /\ Step = "save" => saved' = [saved EXCEPT ![Current] = @ + 1]
    <2>1. versions \in [Kind -> Nat] /\ measured \in [Kind -> Nat] /\ saved \in [Kind -> Nat]
      BY DEF TrainingInv, FilesFirst
    <2>2. /\ \/ versions' = versions /\ measured' = measured
             \/ Step = "register" /\ Registers
          /\ saved' = saved \/ saved' = [saved EXCEPT ![Current] = @ + 1]
          /\ TrainingStep /\ Step = "save" => saved' = [saved EXCEPT ![Current] = @ + 1]
      BY DEF TrainingStep, TrainingStepFails
    <2>3. saved' \in [Kind -> Nat]
      BY <2>1, <2>2
    <2>4. CASE versions' = versions /\ measured' = measured
      BY <2>1, <2>2, <2>3, <2>4
    <2>5. CASE Step = "register" /\ Registers
      <3>1. /\ versions' = [versions EXCEPT ![Current] = @ + 1]
            /\ measured' = measured \/ measured' = [measured EXCEPT ![Current] = @ + 1]
        BY <2>5 DEF Registers
      <3>2. versions' \in [Kind -> Nat] /\ measured' \in [Kind -> Nat]
        BY <1>2, <2>1, <3>1
      <3>. QED BY <2>2, <2>3, <2>5, <3>1, <3>2
    <2>. QED BY <2>2, <2>4, <2>5
  <1>7. Step = "register" => versions[Current] < saved[Current]
    BY <1>1 DEF TrainingInv, FilesFirst
  <1>8. \A k \in Kind : versions'[k] <= saved'[k]
    <2>1. \A k \in Kind : versions[k] <= saved[k] /\ versions[k] \in Nat /\ saved[k] \in Nat
      BY DEF TrainingInv, FilesFirst
    <2>2. versions \in [Kind -> Nat] /\ saved \in [Kind -> Nat]
      BY DEF TrainingInv, FilesFirst
    <2>3. \A k \in Kind : saved[k] <= saved'[k] /\ saved'[k] \in Nat
      BY <1>6, <2>1, <2>2
    <2>4. ASSUME NEW k \in Kind
          PROVE  versions'[k] <= saved[k]
      <3>1. CASE versions' = versions
        BY <2>1, <3>1
      <3>2. CASE versions' = [versions EXCEPT ![Current] = @ + 1] /\ Step = "register"
        <4>1. CASE k = Current
          BY <1>7, <2>1, <2>2, <3>2, <4>1
        <4>2. CASE k # Current
          BY <2>1, <2>2, <3>2, <4>2
        <4>. QED BY <4>1, <4>2
      <3>. QED BY <1>6, <3>1, <3>2
    <2>5. \A k \in Kind : versions'[k] \in Nat
      BY <1>6
    <2>. QED BY <2>1, <2>3, <2>4, <2>5
  <1>9. Running' /\ Step' = "register" => versions'[Current] < saved'[Current]
    <2>1. ASSUME Running', Step' = "register"
          PROVE  TrainingStep /\ Step = "save"
      <3>1. pos' = length
        <4>1. CASE Current = "lstm"
          BY <1>2, <1>3, <2>1, <4>1 DEF Running, Step, Script, LstmScript
        <4>2. CASE Current = "forest"
          BY <1>2, <1>3, <2>1, <4>2 DEF Running, Step, Script, ForestScript
        <4>. QED BY <1>2, <4>1, <4>2 DEF Kind
      <3>2. TrainingStep /\ pos + 1 = length
        BY <1>2, <1>4, <3>1
      <3>3. Step = "save"
        <4>1. CASE Current = "lstm"
          BY <1>2, <3>2, <4>1 DEF Step, Script, LstmScript
        <4>2. CASE Current = "forest"
          BY <1>2, <3>2, <4>2 DEF Step, Script, ForestScript
        <4>. QED BY <1>2, <4>1, <4>2 DEF Kind
      <3>. QED BY <3>2, <3>3
    <2>2. ASSUME TrainingStep, Step = "save"
          PROVE  versions'[Current] < saved'[Current]
      <3>1. versions' = versions
        BY <1>6, <2>2
      <3>2. saved'[Current] = saved[Current] + 1
        BY <1>2, <1>6, <2>2 DEF TrainingInv, FilesFirst
      <3>3. versions[Current] <= saved[Current] /\ versions[Current] \in Nat /\ saved[Current] \in Nat
        BY <1>2 DEF TrainingInv, FilesFirst
      <3>. QED BY <3>1, <3>2, <3>3
    <2>. QED BY <2>1, <2>2
  <1>10. FilesFirst'
    BY <1>3, <1>6, <1>8, <1>9 DEF FilesFirst
  <1>11. RunsMatch'
    BY <1>1, <1>2, <1>3, <1>5 DEF RunsMatch, TrainingInv, runVars
  <1>12. StagesOK'
    <2>1. litter' \subseteq {"config", "plot", "confusion", "importance"}
      BY DEF TrainingStep, TrainingStepFails, LeavesFile, TrainingInv, StagesOK
    <2>2. evaluated' \in BOOLEAN
      <3>1. CASE TrainingStep
        BY <3>1 DEF TrainingStep, TrainingInv, StagesOK
      <3>2. CASE \E applied \in BOOLEAN : TrainingStepFails(applied)
        BY <3>2 DEF TrainingStepFails, TrainingInv, StagesOK
      <3>. QED BY <3>1, <3>2
    <2>3. trainingFaults' \in Nat
      BY DEF TrainingStep, TrainingStepFails, TrainingFault, TrainingInv, StagesOK
    <2>. QED BY <1>3, <1>5, <2>1, <2>2, <2>3 DEF StagesOK, TrainingInv, jobVars
  <1>. QED BY <1>10, <1>11, <1>12 DEF TrainingInv

LEMMA TrainingKeepsInv == TrainingInv /\ [TrainingNext]_trainingVars => TrainingInv'
  <1> SUFFICES ASSUME TrainingInv, [TrainingNext]_trainingVars PROVE TrainingInv'
    OBVIOUS
  <1>1. CASE UNCHANGED trainingVars
    BY <1>1 DEF trainingVars, jobVars, runVars, modelVars, TrainingInv, StagesOK, RunsMatch,
                FilesFirst, Running, Step, Current
  <1>2. CASE TrainingNext
    BY <1>2, TrainingBegins, TrainingRunStarts, TrainingRunEnds, TrainingGoesOn DEF TrainingNext
  <1>. QED BY <1>1, <1>2

(* Types: every variable of the training pipeline has its type.            *)
THEOREM TrainingTypeCorrect == TrainingSpec => []TrainingTypeOK
  <1>1. TrainingInv => TrainingTypeOK
    BY DEF TrainingInv, StagesOK, RunsMatch, FilesFirst, TrainingTypeOK
  <1>. QED BY <1>1, TrainingStarts, TrainingKeepsInv, PTL DEF TrainingSpec

(* However its steps fail, a training ends its run, so that the next can   *)
(* start one, and a version is registered with a file of its own.          *)
THEOREM TrainingsAlwaysEnd == TrainingSpec => [](RunsEnd /\ VersionsHaveFiles)
  <1>1. TrainingInv => RunsEnd /\ VersionsHaveFiles
    BY DEF TrainingInv, RunsMatch, FilesFirst, RunsEnd, VersionsHaveFiles
  <1>. QED BY <1>1, TrainingStarts, TrainingKeepsInv, PTL DEF TrainingSpec
(* No label is above the one of early life.                                *)
LEMMA LabelsAreEarly ==
    ASSUME 2 * EarlyLifeRul < MaxRul, NEW lot \in SUBSET (1 .. Fleet),
           lifetime \in [1 .. Fleet -> Lifetimes]
    PROVE  Classes(lot) \subseteq {"imminent_failure", "critical"}
  <1> SUFFICES ASSUME NEW m \in lot, NEW r \in 0 .. lifetime[m] - 1
               PROVE  HealthStatus(RulLabel(r)) \in {"imminent_failure", "critical"}
    BY DEF Classes
  <1>1. lifetime[m] \in Nat \ {0} /\ r \in Nat /\ MaxRul \in Nat /\ EarlyLifeRul \in Nat
    <2>1. m \in 1 .. Fleet /\ MaxRul \in Nat /\ EarlyLifeRul \in Nat /\ Lifetimes \subseteq Nat \ {0}
      BY TrainingAssumption, LabelsAssumption
    <2>2. lifetime[m] \in Nat \ {0}
      BY <2>1
    <2>. QED BY <2>1, <2>2
  <1> DEFINE label == RulLabel(r)
  <1>2. label \in Nat /\ label <= EarlyLifeRul
    BY <1>1 DEF RulLabel, Lower
  <1>. HIDE DEF label
  <1>3. 100 * label < 50 * MaxRul
    BY <1>1, <1>2
  <1>4. ASSUME 100 * label < 20 * MaxRul
        PROVE  HealthStatus(label) \in {"imminent_failure", "critical"}
    <2>1. ~(20 * MaxRul <= 100 * label) /\ ~(50 * MaxRul <= 100 * label)
          /\ ~(80 * MaxRul <= 100 * label)
      BY <1>1, <1>2, <1>4
    <2>. QED BY <1>4, <2>1 DEF HealthStatus
  <1>5. ASSUME ~(100 * label < 20 * MaxRul)
        PROVE  HealthStatus(label) \in {"imminent_failure", "critical"}
    <2>1. 20 * MaxRul <= 100 * label
      BY <1>1, <1>2, <1>5
    <2>2. ~(50 * MaxRul <= 100 * label) /\ ~(80 * MaxRul <= 100 * label)
      BY <1>1, <1>2, <1>3
    <2>. QED BY <1>3, <1>5, <2>1, <2>2 DEF HealthStatus
  <1>. QED BY <1>4, <1>5 DEF label

LEMMA PairIsSmall ==
    ASSUME NEW a, NEW b
    PROVE  IsFiniteSet({a, b}) /\ Cardinality({a, b}) <= 2
  <1>1. IsFiniteSet({a}) /\ Cardinality({a}) = 1
    BY FS_Singleton
  <1>2. {a, b} = {a} \cup {b}
    OBVIOUS
  <1>3. /\ IsFiniteSet({a} \cup {b})
        /\ Cardinality({a} \cup {b}) = IF b \in {a} THEN Cardinality({a}) ELSE Cardinality({a}) + 1
    BY <1>1, FS_AddElement
  <1>. QED BY <1>1, <1>2, <1>3

LEMMA NeverFourClasses ==
    ASSUME 2 * EarlyLifeRul < MaxRul, lifetime \in [1 .. Fleet -> Lifetimes]
    PROVE  ~FourClasses
  <1>1. TrainPart \subseteq 1 .. Fleet /\ TestPart \subseteq 1 .. Fleet
    BY TrainingAssumption DEF TrainPart, TestPart, Share
  <1> SUFFICES ASSUME NEW guessed \in SUBSET Classes(TrainPart)
               PROVE  Cardinality(Classes(TestPart) \cup guessed) # 4
    BY DEF FourClasses
  <1> DEFINE both  == Classes(TestPart) \cup guessed
             early == {"imminent_failure", "critical"}
  <1>2. both \subseteq early
    BY <1>1, LabelsAreEarly
  <1>3. IsFiniteSet(early) /\ Cardinality(early) <= 2
    BY PairIsSmall
  <1>. HIDE DEF both, early
  <1>4. Cardinality(both) <= Cardinality(early) /\ Cardinality(both) \in Nat
        /\ Cardinality(early) \in Nat
    BY <1>2, <1>3, FS_Subset, FS_CardinalityType
  <1>5. Cardinality(both) # 4
    BY <1>3, <1>4
  <1>. QED BY <1>5 DEF both

(* With such labels a forest is never measured. *)
UnmeasuredForest ==
    /\ measured["forest"] = 0
    /\ queue # <<>> /\ pos # 0 /\ Current = "forest" => ~evaluated

LEMMA StepKeepsForest ==
    ASSUME 2 * EarlyLifeRul < MaxRul, TrainingInv, UnmeasuredForest,
           [TrainingNext]_trainingVars
    PROVE  UnmeasuredForest'
  <1>0. measured \in [Kind -> Nat] /\ lifetime \in [1 .. Fleet -> Lifetimes]
    BY DEF TrainingInv, FilesFirst, StagesOK
  <1>1. CASE UNCHANGED trainingVars
    BY <1>1 DEF trainingVars, runVars, modelVars, UnmeasuredForest, Current
  <1>2. ASSUME NEW kinds \in Plans, NEW from \in {"table", "frame"}, NEW withTest \in BOOLEAN,
               BeginTraining(kinds, from, withTest)
        PROVE  UnmeasuredForest'
    <2>1. pos' = 0 /\ measured' = measured
      BY <1>2 DEF BeginTraining, TrainingInv, RunsMatch, modelVars
    <2>. QED BY <2>1 DEF UnmeasuredForest
  <1>3. ASSUME NEW fails \in BOOLEAN, StartRun(fails) \/ EndRun(fails)
        PROVE  UnmeasuredForest'
    <2>1. measured' = measured
      BY <1>3 DEF StartRun, EndRun, modelVars
    <2>2. queue' = <<>> \/ pos' = 0 \/ evaluated' = FALSE
      BY <1>3 DEF StartRun, EndRun
    <2>. QED BY <2>1, <2>2 DEF UnmeasuredForest
  <1>4. ASSUME TrainingStep \/ \E applied \in BOOLEAN : TrainingStepFails(applied)
        PROVE  UnmeasuredForest'
    <2>1. queue # <<>> /\ pos # 0 /\ queue' = queue /\ Current' = Current
      BY <1>4 DEF TrainingStep, TrainingStepFails, Running, Current
    <2>2. Current = "forest" => ~evaluated
      BY <2>1 DEF UnmeasuredForest
    <2>3. Current = "forest" => ~evaluated'
      <3>1. CASE TrainingStep
        <4>1. Current = "forest" => ~(Step = "evaluate" /\ held)
          BY <1>0, <3>1, NeverFourClasses DEF TrainingStep, CanDo
        <4>. QED BY <2>2, <3>1, <4>1 DEF TrainingStep
      <3>2. CASE \E applied \in BOOLEAN : TrainingStepFails(applied)
        BY <2>2, <3>2 DEF TrainingStepFails
      <3>. QED BY <1>4, <3>1, <3>2
    <2>4. measured'["forest"] = 0
      <3>1. measured' = measured \/ Registers
        BY <1>4 DEF TrainingStep, TrainingStepFails
      <3>2. CASE measured' = measured
        BY <3>2 DEF UnmeasuredForest
      <3>3. CASE Registers /\ measured' # measured
        <4>1. evaluated /\ measured' = [measured EXCEPT ![Current] = @ + 1]
          BY <3>3 DEF Registers
        <4>2. Current # "forest"
          BY <2>2, <4>1
        <4>. QED BY <1>0, <4>1, <4>2 DEF UnmeasuredForest, Kind
      <3>. QED BY <3>1, <3>2, <3>3
    <2>. QED BY <2>1, <2>3, <2>4 DEF UnmeasuredForest
  <1>. QED BY <1>1, <1>2, <1>3, <1>4 DEF TrainingNext

(* With label settings like the shipped ones, where early life is labelled *)
(* below half of max_rul, a forest that was measured on a test set is      *)
(* never registered, whatever machines there are.                          *)
THEOREM MeasuredForestUnregistered ==
    ASSUME 2 * EarlyLifeRul < MaxRul
    PROVE  TrainingSpec => []MeasuredForestNeverRegistered
  <1>1. TrainingInit => UnmeasuredForest
    BY DEF TrainingInit, UnmeasuredForest, Kind
  <1>2. TrainingInv /\ UnmeasuredForest /\ [TrainingNext]_trainingVars => UnmeasuredForest'
    BY StepKeepsForest
  <1>3. UnmeasuredForest => MeasuredForestNeverRegistered
    BY DEF UnmeasuredForest, MeasuredForestNeverRegistered
  <1>. QED BY <1>1, <1>2, <1>3, TrainingStarts, TrainingKeepsInv, PTL DEF TrainingSpec

-------------------------------------------------------------------------------
(* Retraining *)

Phase == {"idle", "train", "compare", "deploy", "promoting", "log"}

PipelineTypes ==
    /\ phase \in [Deployer -> Phase]
    /\ trained \in [Deployer -> Scores \cup {NoScore}]
    /\ champion \in [Deployer -> Version \cup {Nothing}]
    /\ overtaken \in [Deployer -> BOOLEAN]
    /\ score \in [Version -> Scores \cup {NoScore}]
    /\ kills \in Nat

(* A pipeline that is about to replace the champion still has it in        *)
(* Production, if anything, and a better model in hand, unless another one *)
(* was faster; the version it registered carries the score of that model.  *)
Justified(d) ==
    phase[d] \in {"deploy", "promoting"} /\ ~overtaken[d] =>
        /\ champion[d] \in Version /\ stage[champion[d]] # "unregistered"
        /\ Production \subseteq {champion[d]}
        /\ ShouldPromote(score[champion[d]], trained[d])

InStep(d) ==
    /\ at[d] \in {"register", "archive", "transition"} => phase[d] = "promoting"
    /\ at[d] \in {"pick", "restore"} => phase[d] = "idle"
    /\ at[d] \in {"archive", "transition"} => score[candidate[d]] = trained[d]

PipelineInv ==
    /\ RegistryInv /\ PipelineTypes
    /\ \A d \in Deployer : Justified(d) /\ InStep(d)

-------------------------------------------------------------------------------
(* The registry below the pipelines *)

(* A step that leaves the registry alone, but for a deployer that dies.    *)
LEMMA RegistryQuiet ==
    ASSUME RegistryInv,
           UNCHANGED <<stage, last, before, rollbacks>>, outages' \in {outages, outages + 1},
           \/ UNCHANGED <<deployerVars, abandoned>>
           \/ \E d \in Deployer : Report(d) /\ abandoned' = (abandoned \/ at[d] = "transition")
    PROVE  RegistryInv'
  <1>1. /\ \A s : In(s)' = In(s)
        /\ \A v \in Version : stage'[v] = stage[v]
    BY DEF In
  <1>2. CASE UNCHANGED <<deployerVars, abandoned>>
    <2>1. UNCHANGED <<at, previous, candidate, abandoned>>
      BY <1>2 DEF deployerVars
    <2>2. RegistryTypeOK'
      BY <2>1 DEF RegistryInv, RegistryTypeOK
    <2>3. KnownRegistered' /\ Single' /\ GapNeedsPromotion'
      BY <1>1, <2>1 DEF RegistryInv, KnownRegistered, Single, Production, GapNeedsPromotion
    <2>4. Registering' \subseteq Registering
      BY <2>1 DEF Registering
    <2>. QED BY <1>1, <2>2, <2>3, <2>4, RoomUnless DEF RegistryInv
  <1>3. ASSUME NEW d \in Deployer, Report(d), abandoned' = (abandoned \/ at[d] = "transition")
        PROVE  RegistryInv'
    <2>1. /\ at' = [at EXCEPT ![d] = "idle"]
          /\ previous' = [previous EXCEPT ![d] = Nothing]
          /\ candidate' = [candidate EXCEPT ![d] = Nothing]
      BY <1>3 DEF Report, Move
    <2>2. RegistryTypeOK
      BY DEF RegistryInv
    <2>3. abandoned' \in BOOLEAN
      BY <1>3, <2>2 DEF RegistryTypeOK
    <2>4. /\ \A e \in Deployer : e # d => /\ at'[e] = at[e] /\ previous'[e] = previous[e]
                                          /\ candidate'[e] = candidate[e]
          /\ at'[d] = "idle" /\ previous'[d] = Nothing /\ candidate'[d] = Nothing
      BY <2>1, <2>2 DEF RegistryTypeOK
    <2>5. RegistryTypeOK'
      BY <2>1, <2>2, <2>3, <2>4 DEF RegistryTypeOK
    <2>6. KnownRegistered' /\ Single'
      BY <1>1, <2>4 DEF RegistryInv, KnownRegistered, Single, Production
    <2>7. GapNeedsPromotion'
      BY <1>1, <1>3, <2>4 DEF RegistryInv, GapNeedsPromotion, Production
    <2>8. Registering' \subseteq Registering
      BY <2>4 DEF Registering
    <2>. QED BY <1>1, <2>5, <2>6, <2>7, <2>8, RoomUnless DEF RegistryInv
  <1>. QED BY <1>2, <1>3

LEMMA RegistryBelow ==
    ASSUME RegistryInv, [RetrainingNext]_retrainingVars
    PROVE  RegistryInv'
  <1>1. ASSUME [RegistryNext]_registryVars PROVE RegistryInv'
    BY <1>1, TypeKept, RoomKept, SingleKept, GapKept DEF RegistryInv
  <1>2. CASE UNCHANGED retrainingVars
    BY <1>1, <1>2 DEF retrainingVars
  <1>3. ASSUME NEW d \in Deployer,
               \/ \E enough, affected, reference, current :
                      Check(d, enough, affected, reference, current)
               \/ Trigger(d) \/ LogWorkflow(d)
               \/ (\E s : Train(d, s)) \/ Compare(d)
        PROVE  RegistryInv'
    <2>1. UNCHANGED registryVars
      BY <1>3 DEF Check, Trigger, LogWorkflow, Train, Compare
    <2>. QED BY <1>1, <2>1
  <1>4. ASSUME NEW d \in Deployer,
               \/ \E fails \in BOOLEAN : Deploy(d, fails)
               \/ RegistryStep(d) \/ RollBack(d)
        PROVE  RegistryInv'
    BY <1>1, <1>4 DEF Deploy, RegistryStep, RollBack, RegistryNext
  <1>5. ASSUME NEW d \in Deployer, TrainFails(d) \/ CompareFails(d)
        PROVE  RegistryInv'
    <2>1. /\ UNCHANGED <<stage, deployerVars, last, before, abandoned, rollbacks>>
          /\ outages' \in {outages, outages + 1}
      BY <1>5 DEF TrainFails, CompareFails, Outage, past
    <2>. QED BY <2>1, RegistryQuiet
  <1>6. ASSUME NEW d \in Deployer, Kill(d) PROVE RegistryInv'
    <2>1. /\ UNCHANGED <<stage, last, before, rollbacks, outages>>
          /\ Report(d) /\ abandoned' = (abandoned \/ at[d] = "transition")
      BY <1>6 DEF Kill, bounds
    <2>. QED BY <2>1, RegistryQuiet
  <1>. QED BY <1>2, <1>3, <1>4, <1>5, <1>6 DEF RetrainingNext
-------------------------------------------------------------------------------
(* The pipelines *)

(* A pipeline whose surroundings stay as they are stays justified.         *)
LEMMA StaysJustified ==
    ASSUME NEW d \in Deployer, Justified(d), RegistryTypeOK,
           UNCHANGED <<stage, score>>,
           phase'[d] = phase[d] \/ (phase[d] = "deploy" /\ phase'[d] = "promoting")
                                \/ phase'[d] \notin {"deploy", "promoting"},
           champion'[d] = champion[d] \/ phase'[d] \notin {"deploy", "promoting"},
           trained'[d] = trained[d] \/ phase'[d] \notin {"deploy", "promoting"},
           overtaken'[d] = overtaken[d] \/ phase'[d] \notin {"deploy", "promoting"}
    PROVE  Justified(d)'
  BY DEF Justified, Production, In, ShouldPromote, Gain

LEMMA PipelineInitially == RetrainingInit => PipelineInv
  <1> SUFFICES ASSUME RetrainingInit PROVE PipelineInv
    OBVIOUS
  <1>1. PICK first \in {"unregistered", "Production"} :
          /\ stage = [v \in Version |-> IF v = 1 THEN first ELSE "unregistered"]
          /\ last = IF first = "Production" THEN 1 ELSE Nothing
    BY DEF RetrainingInit
  <1>2. 1 \in Version /\ Nothing \notin Version
    BY RegistryAssumption, RetrainingAssumption DEF Version, Nothing
  <1>3. RegistryTypeOK
    BY <1>1, <1>2 DEF RetrainingInit, RegistryTypeOK
  <1>4. /\ \A d \in Deployer : /\ at[d] = "idle" /\ phase[d] = "idle"
                               /\ previous[d] = Nothing /\ candidate[d] = Nothing
    BY DEF RetrainingInit
  <1>5. Room
    <2>1. Registering = {}
      BY <1>4 DEF Registering
    <2>. QED BY <2>1, Finite, FS_EmptySet DEF Room
  <1>6. Single /\ KnownRegistered
    BY <1>1, <1>4 DEF Single, Production, In, KnownRegistered
  <1>7. GapNeedsPromotion
    BY <1>1, <1>2 DEF GapNeedsPromotion, Production, In
  <1>8. PipelineTypes
    <2>1. PICK s \in Scores : score = [v \in Version |-> IF stage[v] = "Production" THEN s ELSE NoScore]
      BY DEF RetrainingInit
    <2>2. score \in [Version -> Scores \cup {NoScore}]
      BY <2>1
    <2>. QED BY <2>2 DEF RetrainingInit, PipelineTypes, Phase
  <1>. QED BY <1>3, <1>4, <1>5, <1>6, <1>7, <1>8 DEF PipelineInv, RegistryInv, Justified, InStep

(* The steps of one pipeline that do not move a version. *)
LEMMA OwnStep ==
    ASSUME PipelineInv, NEW d \in Deployer,
           \/ \E enough, affected, reference, current :
                  Check(d, enough, affected, reference, current)
           \/ Trigger(d) \/ LogWorkflow(d) \/ TrainFails(d) \/ CompareFails(d)
           \/ (\E s \in Scores : Train(d, s))
           \/ (\E fails \in BOOLEAN : Deploy(d, fails))
           \/ RollBack(d) \/ Kill(d)
    PROVE  PipelineTypes' /\ \A e \in Deployer : Justified(e)' /\ InStep(e)'
  <1>. PipelineTypes /\ RegistryTypeOK
    BY DEF PipelineInv, RegistryInv
  <1>1. /\ UNCHANGED <<stage, score>>
        /\ kills' \in {kills, kills + 1}
    BY DEF Check, Trigger, LogWorkflow, TrainFails, CompareFails, Train, Deploy, BeginPromotion,
           RollBack, BeginRollback, Kill, registryVars
  <1>2. /\ \E where \in Phase : phase' = [phase EXCEPT ![d] = where]
        /\ \A e \in Deployer : e # d => phase'[e] = phase[e]
        /\ phase'[d] = phase[d] \/ (phase[d] = "deploy" /\ phase'[d] = "promoting")
                                \/ phase'[d] \notin {"deploy", "promoting"}
    <2>1. CASE RollBack(d)
      <3>1. phase' = phase /\ phase' = [phase EXCEPT ![d] = phase[d]] /\ phase[d] \in Phase
        BY <2>1 DEF RollBack, pipelineVars, PipelineTypes
      <3>. QED BY <3>1
    <2>2. CASE ~RollBack(d)
      <3>1. PICK where \in {"train", "compare", "idle", "log", "promoting"} :
                phase' = [phase EXCEPT ![d] = where] /\ (where = "promoting" => phase[d] = "deploy")
        BY <2>2 DEF Check, Trigger, LogWorkflow, TrainFails, CompareFails, Train, Deploy, Kill,
                    Enter, Leave
      <3>. QED BY <3>1 DEF PipelineTypes, Phase
    <2>. QED BY <2>1, <2>2
  <1>3. /\ trained' = trained \/ \E s \in Scores \cup {NoScore} : trained' = [trained EXCEPT ![d] = s]
        /\ champion' = champion \/ champion' = [champion EXCEPT ![d] = Nothing]
        /\ overtaken' = overtaken \/ overtaken' = [overtaken EXCEPT ![d] = FALSE]
        /\ phase'[d] \in {"deploy", "promoting"} \/ (at'[d] \in {"archive", "transition"}) =>
               UNCHANGED <<trained, champion, overtaken>>
    BY <1>2, SMTT(30)
    DEF Check, Trigger, LogWorkflow, TrainFails, CompareFails, Train, Deploy, RollBack, Kill,
           Enter, Leave, Report, Move, registryVars, deployerVars, pipelineVars, PipelineTypes,
           RegistryTypeOK, PipelineInv, InStep
  <1>4. /\ \A e \in Deployer : e # d => at'[e] = at[e] /\ candidate'[e] = candidate[e]
        /\ \/ at'[d] = "idle"
           \/ at'[d] = "register" /\ phase'[d] = "promoting"
           \/ at'[d] = "pick" /\ phase'[d] = "idle"
    <2>. at \in [Deployer -> {"idle", "register", "archive", "transition", "pick", "restore"}]
         /\ candidate \in [Deployer -> Version \cup {Nothing}]
      BY DEF RegistryTypeOK
    <2>1. CASE \E fails \in BOOLEAN : Deploy(d, fails)
      BY <2>1, <1>2 DEF Deploy, BeginPromotion, Enter, Move, PipelineTypes
    <2>2. CASE RollBack(d)
      BY <2>2, <1>2 DEF RollBack, BeginRollback, Move, pipelineVars
    <2>3. CASE Kill(d)
      BY <2>3 DEF Kill, Report, Move
    <2>4. CASE \/ \E enough, affected, reference, current :
                     Check(d, enough, affected, reference, current)
               \/ Trigger(d) \/ LogWorkflow(d) \/ TrainFails(d) \/ CompareFails(d)
               \/ \E s \in Scores : Train(d, s)
      <3>1. UNCHANGED <<at, candidate>>
        BY <2>4 DEF Check, Trigger, LogWorkflow, TrainFails, CompareFails, Train, registryVars,
                    deployerVars
      <3>2. at[d] = "idle" \/ phase[d] \in {"train", "compare", "log"}
        BY <2>4 DEF Check, Trigger, LogWorkflow, TrainFails, CompareFails, Train
      <3>3. at[d] = "idle"
        BY <3>2 DEF PipelineInv, InStep
      <3>. QED BY <3>1, <3>3
    <2>. QED BY <2>1, <2>2, <2>3, <2>4
  <1>5. PipelineTypes'
    <2>1. phase' \in [Deployer -> Phase]
      BY <1>2 DEF PipelineTypes
    <2>2. trained' \in [Deployer -> Scores \cup {NoScore}]
      BY <1>3 DEF PipelineTypes
    <2>3. champion' \in [Deployer -> Version \cup {Nothing}]
      BY <1>3 DEF PipelineTypes
    <2>4. overtaken' \in [Deployer -> BOOLEAN]
      BY <1>3 DEF PipelineTypes
    <2>. QED BY <1>1, <2>1, <2>2, <2>3, <2>4 DEF PipelineTypes
  <1>6. ASSUME NEW e \in Deployer, e # d PROVE Justified(e)' /\ InStep(e)'
    <2>1. /\ phase'[e] = phase[e] /\ trained'[e] = trained[e] /\ champion'[e] = champion[e]
          /\ overtaken'[e] = overtaken[e]
      BY <1>2, <1>3, <1>6 DEF PipelineTypes
    <2>2. Justified(e) /\ InStep(e)
      BY DEF PipelineInv
    <2>. QED BY <1>1, <1>4, <1>6, <2>1, <2>2, StaysJustified DEF InStep
  <1>7. Justified(d)'
    <2>1. Justified(d)
      BY DEF PipelineInv
    <2>. QED BY <1>1, <1>2, <1>3, <2>1, StaysJustified
  <1>8. InStep(d)'
    BY <1>4 DEF InStep
  <1>. QED BY <1>5, <1>6, <1>7, <1>8
LEMMA CompareStep ==
    ASSUME PipelineInv, NEW d \in Deployer, Compare(d)
    PROVE  PipelineTypes' /\ \A e \in Deployer : Justified(e)' /\ InStep(e)'
  <1> DEFINE best == Latest("Production")
  <1>. PipelineTypes /\ RegistryTypeOK
    BY DEF PipelineInv, RegistryInv
  <1>1. /\ UNCHANGED <<stage, at, candidate, score, kills>> /\ phase[d] = "compare"
        /\ at[d] = "idle"
    BY DEF Compare, registryVars, deployerVars, PipelineInv, InStep, RegistryTypeOK
  <1>2. best \in Version /\ stage[best] = "Production" /\ Production \subseteq {best}
    BY LatestIsOne DEF Compare, Production, In, PipelineInv, RegistryInv, Single
  <1>3. \/ Leave(d)
        \/ /\ Deploys(score[best], trained[d]) /\ Enter(d, "deploy")
           /\ champion' = [champion EXCEPT ![d] = best]
           /\ overtaken' = [overtaken EXCEPT ![d] = FALSE] /\ trained' = trained
        \/ /\ Enter(d, "log")
           /\ champion' = [champion EXCEPT ![d] = best]
           /\ overtaken' = [overtaken EXCEPT ![d] = FALSE] /\ trained' = trained
    BY DEF Compare
  <1>. HIDE DEF best
  <1>4. /\ \A e \in Deployer : e # d => /\ phase'[e] = phase[e] /\ trained'[e] = trained[e]
                                        /\ champion'[e] = champion[e] /\ overtaken'[e] = overtaken[e]
        /\ PipelineTypes'
    BY <1>1, <1>2, <1>3 DEF Leave, Enter, PipelineTypes, Phase
  <1>5. ASSUME NEW e \in Deployer, e # d PROVE Justified(e)' /\ InStep(e)'
    <2>1. Justified(e) /\ InStep(e)
      BY DEF PipelineInv
    <2>. QED BY <1>1, <1>4, <1>5, <2>1, StaysJustified DEF InStep
  <1>6. Justified(d)'
    <2>1. CASE phase'[d] # "deploy"
      <3>1. phase'[d] \in {"idle", "log", "deploy"}
        BY <1>3 DEF Leave, Enter, PipelineTypes
      <3>. QED BY <2>1, <3>1 DEF Justified
    <2>2. CASE phase'[d] = "deploy"
      <3>1. /\ Deploys(score[best], trained[d]) /\ champion'[d] = best /\ trained' = trained
        BY <1>3, <2>2 DEF Leave, Enter, PipelineTypes
      <3>2. ShouldPromote(score'[champion'[d]], trained'[d])
        BY <1>1, <3>1 DEF Deploys
      <3>. QED BY <1>1, <1>2, <3>1, <3>2 DEF Justified, Production, In, ShouldPromote, Gain
    <2>. QED BY <2>1, <2>2
  <1>7. InStep(d)'
    BY <1>1 DEF InStep
  <1>. QED BY <1>4, <1>5, <1>6, <1>7

(* What a step of a deployer does to the versions. *)
LEMMA VersionsMove ==
    ASSUME RegistryInv, NEW d \in Deployer, DeployerStep(d)
    PROVE  /\ \A v \in Version : stage[v] # "unregistered" => stage'[v] # "unregistered"
           /\ at'[d] # "idle" => Production' \subseteq Production
           /\ \A e \in Deployer : e # d => at'[e] = at[e] /\ candidate'[e] = candidate[e]
           /\ at[d] = "register" => at'[d] \in {"idle", "archive", "transition"}
           /\ at[d] = "archive" => at'[d] = "transition"
           /\ at[d] = "archive" => candidate'[d] = candidate[d]
           /\ at[d] \in {"transition", "restore"} => at'[d] = "idle"
           /\ at[d] = "pick" => at'[d] \in {"idle", "restore"}
           /\ at[d] # "idle"
           /\ at[d] = "register" =>
                 \/ at'[d] = "idle" /\ candidate'[d] = Nothing
                 \/ candidate'[d] \in Version /\ stage[candidate'[d]] = "unregistered"
  <1>. RegistryTypeOK
    BY DEF RegistryInv
  <1>1. CASE Register(d)
    <2>1. NextVersion \in Version /\ stage[NextVersion] = "unregistered"
      BY <1>1, RoomToRegister DEF Register, In, RegistryInv
    <2>2. /\ at[d] = "register" /\ stage' = [stage EXCEPT ![NextVersion] = "None"]
          /\ candidate' = [candidate EXCEPT ![d] = NextVersion]
          /\ at' = [at EXCEPT ![d] = IF previous[d] = Nothing THEN "transition" ELSE "archive"]
      BY <1>1 DEF Register, Move
    <2>. HIDE DEF NextVersion
    <2>. QED BY <2>1, <2>2 DEF RegistryTypeOK, Production, In
  <1>2. CASE \E applied \in BOOLEAN : Archive(d, applied)
    BY <1>2 DEF Archive, Move, RegistryTypeOK, Production, In
  <1>3. CASE Transition(d)
    BY <1>3 DEF Transition, TransitionTo, Report, Move, RegistryTypeOK, Production, In
  <1>4. CASE RegisterFails(d) \/ TransitionFails(d) \/ PickArchived(d) \/ PickFails(d)
    BY <1>4 DEF RegisterFails, TransitionFails, PickArchived, PickFails, Report, Move,
                RegistryTypeOK, Production, In
  <1>. QED BY <1>1, <1>2, <1>3, <1>4 DEF DeployerStep

LEMMA RegistryStepKeeps ==
    ASSUME PipelineInv, RegistryTypeOK', NEW d \in Deployer, RegistryStep(d)
    PROVE  PipelineTypes' /\ \A e \in Deployer : Justified(e)' /\ InStep(e)'
  <1>. PipelineTypes /\ RegistryTypeOK /\ RegistryInv
    BY DEF PipelineInv, RegistryInv
  <1>1. /\ DeployerStep(d) /\ UNCHANGED <<trained, champion, kills>>
        /\ phase' = [phase EXCEPT ![d] = IF phase[d] = "promoting" /\ at'[d] = "idle"
                                         THEN "log" ELSE phase[d]]
        /\ overtaken' = [e \in Deployer |->
                            overtaken[e] \/ (e # d /\ Production' # Production)]
        /\ score' = IF at[d] = "register" /\ candidate'[d] # Nothing
                    THEN [score EXCEPT ![candidate'[d]] = trained[d]] ELSE score
    BY DEF RegistryStep, Enter, Production
  <1>2. /\ phase'[d] = IF phase[d] = "promoting" /\ at'[d] = "idle" THEN "log" ELSE phase[d]
        /\ \A e \in Deployer : e # d => phase'[e] = phase[e]
        /\ phase' \in [Deployer -> Phase]
    BY <1>1 DEF PipelineTypes, Phase
  <1>3. /\ \A v \in Version : stage[v] # "unregistered" => score'[v] = score[v]
        /\ score' \in [Version -> Scores \cup {NoScore}]
    BY <1>1, VersionsMove DEF PipelineTypes
  <1>4. overtaken' \in [Deployer -> BOOLEAN]
    BY <1>1 DEF PipelineTypes
  <1>5. PipelineTypes'
    BY <1>1, <1>2, <1>3, <1>4 DEF PipelineTypes
  <1>6. ASSUME NEW e \in Deployer, e # d PROVE Justified(e)' /\ InStep(e)'
    <2>1. Justified(e) /\ InStep(e)
      BY DEF PipelineInv
    <2>2. at'[e] = at[e] /\ candidate'[e] = candidate[e] /\ phase'[e] = phase[e]
      BY <1>1, <1>2, <1>6, VersionsMove
    <2>3. InStep(e)'
      <3>1. at[e] \in {"archive", "transition"} =>
                candidate[e] \in Version /\ stage[candidate[e]] # "unregistered"
        BY DEF RegistryInv, RegistryTypeOK, KnownRegistered
      <3>. QED BY <1>1, <1>3, <2>1, <2>2, <3>1 DEF InStep
    <2>4. ~overtaken'[e] => ~overtaken[e] /\ Production' = Production
      BY <1>1, <1>6
    <2>5. Justified(e)'
      <3> SUFFICES ASSUME phase'[e] \in {"deploy", "promoting"}, ~overtaken'[e]
                   PROVE  /\ champion'[e] \in Version /\ stage'[champion'[e]] # "unregistered"
                          /\ Production' \subseteq {champion'[e]}
                          /\ ShouldPromote(score'[champion'[e]], trained'[e])
        BY DEF Justified, ShouldPromote, Gain
      <3>1. /\ champion[e] \in Version /\ stage[champion[e]] # "unregistered"
            /\ Production \subseteq {champion[e]}
            /\ ShouldPromote(score[champion[e]], trained[e])
        BY <2>1, <2>2, <2>4 DEF Justified
      <3>. QED BY <1>1, <1>3, <2>4, <3>1, VersionsMove
    <2>. QED BY <2>3, <2>5
  <1>7. InStep(d)'
    <2>1. InStep(d)
      BY DEF PipelineInv
    <2>2. at[d] = "register" /\ at'[d] # "idle" => score'[candidate'[d]] = trained'[d]
      <3> SUFFICES ASSUME at[d] = "register", at'[d] # "idle"
                   PROVE  score'[candidate'[d]] = trained'[d]
        OBVIOUS
      <3>1. candidate'[d] \in Version /\ candidate'[d] # Nothing
        BY <1>1, VersionsMove DEF Version, Nothing
      <3>. QED BY <1>1, <3>1 DEF PipelineTypes
    <2>3. at[d] = "archive" => score'[candidate'[d]] = trained'[d]
      <3>1. at[d] = "archive" =>
                candidate[d] \in Version /\ stage[candidate[d]] # "unregistered"
        BY DEF RegistryInv, RegistryTypeOK, KnownRegistered
      <3>. QED BY <1>1, <1>3, <2>1, <3>1, VersionsMove DEF InStep
    <2>4. at[d] \in {"idle", "register", "archive", "transition", "pick", "restore"}
      BY DEF RegistryTypeOK
    <2>. QED BY <1>1, <1>2, <2>1, <2>2, <2>3, <2>4, VersionsMove DEF InStep
  <1>8. Justified(d)'
    <2> SUFFICES ASSUME phase'[d] \in {"deploy", "promoting"}, ~overtaken'[d]
                 PROVE  /\ champion'[d] \in Version /\ stage'[champion'[d]] # "unregistered"
                        /\ Production' \subseteq {champion'[d]}
                        /\ ShouldPromote(score'[champion'[d]], trained'[d])
      BY DEF Justified, ShouldPromote, Gain
    <2>1. InStep(d) /\ Justified(d)
      BY DEF PipelineInv
    <2>2. at[d] # "idle" /\ at[d] \in {"register", "archive", "transition", "pick", "restore"}
      BY <1>1, VersionsMove DEF RegistryTypeOK
    <2>3. phase[d] = "promoting" /\ at'[d] # "idle"
      BY <1>2, <2>1, <2>2 DEF InStep
    <2>4. ~overtaken[d]
      BY <1>1
    <2>5. /\ champion[d] \in Version /\ stage[champion[d]] # "unregistered"
          /\ Production \subseteq {champion[d]}
          /\ ShouldPromote(score[champion[d]], trained[d])
      BY <2>1, <2>3, <2>4 DEF Justified
    <2>. QED BY <1>1, <1>3, <2>3, <2>5, VersionsMove
  <1>. QED BY <1>5, <1>6, <1>7, <1>8

LEMMA PipelineStep ==
    ASSUME PipelineInv, [RetrainingNext]_retrainingVars
    PROVE  PipelineInv'
  <1>1. RegistryInv' /\ RegistryTypeOK'
    BY RegistryBelow DEF PipelineInv, RegistryInv
  <1>2. CASE UNCHANGED retrainingVars
    <2>1. UNCHANGED <<stage, at, candidate, phase, trained, champion, overtaken, score, kills>>
      BY <1>2 DEF retrainingVars, registryVars, deployerVars, pipelineVars
    <2>2. ASSUME NEW d \in Deployer PROVE Justified(d)' /\ InStep(d)'
      <3>1. Justified(d) /\ InStep(d) /\ RegistryTypeOK
        BY DEF PipelineInv, RegistryInv
      <3>. QED BY <2>1, <3>1, StaysJustified DEF InStep
    <2>. QED BY <1>1, <2>1, <2>2 DEF PipelineInv, PipelineTypes
  <1>. QED
    BY <1>1, <1>2, OwnStep, CompareStep, RegistryStepKeeps DEF RetrainingNext, PipelineInv

LEMMA AlwaysPipelineInv == RetrainingSpec => []PipelineInv
  BY PipelineInitially, PipelineStep, PTL DEF RetrainingSpec

(* Every variable of the pipelines and of the registry below has its type. *)
THEOREM RetrainingTypeCorrect == RetrainingSpec => []RetrainingTypeOK
  <1>1. PipelineInv => RetrainingTypeOK
    BY DEF PipelineInv, RegistryInv, PipelineTypes, RetrainingTypeOK, Phase
  <1>. QED BY <1>1, AlwaysPipelineInv, PTL

(* A promotion replaces a model by one that beat it, unless Production     *)
(* moved in between: PromotedBeatsChampion.                                *)
THEOREM PromotedAlwaysBetter == RetrainingSpec => PromotedBeatsChampion
  <1>1. ASSUME PipelineInv, NEW d \in Deployer, at[d] = "transition", ~overtaken[d]
        PROVE  /\ In("Production") \subseteq {champion[d]}
               /\ ShouldPromote(score[champion[d]], score[candidate[d]])
    BY <1>1 DEF PipelineInv, Justified, InStep, Production
  <1>2. PipelineInv /\ [RetrainingNext]_retrainingVars =>
            [\A d \in Deployer :
                at[d] = "transition" /\ stage' # stage /\ ~overtaken[d]
                    => /\ In("Production") \subseteq {champion[d]}
                       /\ ShouldPromote(score[champion[d]], score[candidate[d]])]_retrainingVars
    BY <1>1
  <1>. QED BY <1>2, AlwaysPipelineInv, PTL DEF RetrainingSpec, PromotedBeatsChampion

(* However pipelines, operators and kills interleave, the registry below   *)
(* keeps at most one version in Production, and none only in a promotion   *)
(* or after one was abandoned.                                             *)
THEOREM OneProductionBelowPipelines ==
    RetrainingSpec => [](OneProduction /\ GapNeedsPromotion)
  <1>1. PipelineInv => OneProduction /\ GapNeedsPromotion
    BY SingleProduction DEF PipelineInv, RegistryInv
  <1>. QED BY <1>1, AlwaysPipelineInv, PTL

(* A deployer that dies where it is: its locals are gone. *)
Killed(d) ==
    /\ Report(d) /\ abandoned' = (abandoned \/ at[d] = "transition")
    /\ UNCHANGED <<stage, rollbacks, last, before>>

(* The pipelines move the registry by the steps of ModelRegistry alone, or *)
(* they die in one of them.                                                *)
THEOREM PipelinesMoveByRegistry ==
    RetrainingSpec =>
        [][RegistryNext \/ \E d \in Deployer : Killed(d)]_<<stage, deployerVars, rollbacks, past>>
  <1>1. ASSUME [RetrainingNext]_retrainingVars
        PROVE  [RegistryNext \/ \E d \in Deployer : Killed(d)]_<<stage, deployerVars, rollbacks, past>>
    <2>1. CASE UNCHANGED registryVars
      BY <2>1 DEF registryVars, bounds
    <2>2. ASSUME NEW d \in Deployer, TrainFails(d) \/ CompareFails(d)
          PROVE  UNCHANGED <<stage, deployerVars, rollbacks, past>>
      BY <2>2 DEF TrainFails, CompareFails
    <2>3. ASSUME NEW d \in Deployer,
                 (\E fails \in BOOLEAN : Deploy(d, fails)) \/ RegistryStep(d) \/ RollBack(d)
          PROVE  RegistryNext
      BY <2>3 DEF Deploy, RegistryStep, RollBack, RegistryNext
    <2>4. ASSUME NEW d \in Deployer, Kill(d) PROVE Killed(d)
      BY <2>4 DEF Kill, Killed, bounds
    <2>5. ASSUME NEW d \in Deployer, Trigger(d) \/ Compare(d) \/ LogWorkflow(d)
          PROVE  UNCHANGED registryVars
      BY <2>5 DEF Trigger, Compare, LogWorkflow
    <2>6. ASSUME NEW d \in Deployer, NEW s \in Scores, Train(d, s) PROVE UNCHANGED registryVars
      BY <2>6 DEF Train
    <2>7. ASSUME NEW d \in Deployer, NEW enough, NEW affected, NEW reference, NEW current,
                 Check(d, enough, affected, reference, current)
          PROVE  UNCHANGED registryVars
      BY <2>7 DEF Check
    <2>8. CASE UNCHANGED retrainingVars
      BY <2>1, <2>8 DEF retrainingVars
    <2>. QED
      BY <1>1, <2>1, <2>2, <2>3, <2>4, <2>5, <2>6, <2>7, <2>8 DEF RetrainingNext
  <1>. QED BY <1>1, PTL DEF RetrainingSpec

(* Without a Production version, and nobody about to make one, the         *)
(* registry stays without one: OutageIsPermanent.                          *)
THEOREM OutageAlwaysPermanent == RetrainingSpec => OutageIsPermanent
  <1>1. ASSUME PipelineInv, Stranded, [RetrainingNext]_retrainingVars
        PROVE  Stranded'
    <2>. PipelineTypes /\ RegistryTypeOK
      BY <1>1 DEF PipelineInv, RegistryInv
    <2>1. CASE UNCHANGED retrainingVars
      BY <1>1, <2>1 DEF retrainingVars, registryVars, deployerVars, pipelineVars, Stranded,
                        Production, In
    <2>2. ASSUME NEW d \in Deployer,
                 \/ \E enough, affected, reference, current :
                        Check(d, enough, affected, reference, current)
                 \/ Trigger(d) \/ LogWorkflow(d) \/ TrainFails(d) \/ CompareFails(d)
                 \/ (\E s \in Scores : Train(d, s))
                 \/ Kill(d)
          PROVE  Stranded'
      <3>1. /\ stage' = stage
            /\ \A e \in Deployer : at'[e] = "idle"
            /\ \A e \in Deployer : phase'[e] # "deploy"
        BY <1>1, <2>2 DEF Check, Trigger, LogWorkflow, TrainFails, CompareFails, Train, Kill,
                          Enter, Leave, Report, Move, Stranded, registryVars, deployerVars,
                          PipelineTypes, RegistryTypeOK
      <3>. QED BY <1>1, <3>1 DEF Stranded, Production, In
    <2>3. ASSUME NEW d \in Deployer,
                 \/ \E fails \in BOOLEAN : Deploy(d, fails)
                 \/ RegistryStep(d) \/ RollBack(d) \/ Compare(d)
          PROVE  FALSE
      BY <1>1, <2>3, VersionsMove
      DEF Deploy, RegistryStep, RollBack, BeginRollback, Compare, Stranded, PipelineInv
    <2>. QED BY <1>1, <2>1, <2>2, <2>3 DEF RetrainingNext
  <1>2. PipelineInv /\ [RetrainingNext]_retrainingVars => [Stranded => Stranded']_retrainingVars
    BY <1>1
  <1>. QED BY <1>2, AlwaysPipelineInv, PTL DEF RetrainingSpec, OutageIsPermanent

-------------------------------------------------------------------------------
(* The parts together (MCComponents) *)

(* Each part takes steps of its own specification and leaves the variables *)
(* of the others alone.                                                    *)
LEMMA PartsStart ==
    PartsInit => /\ FeatureStoreInit /\ TrainingInit /\ SelectionInit /\ RetrainingInit
                 /\ GeneratorInit /\ StreamerInit /\ InferenceInit /\ FlowInit /\ HealthInit
  BY DEF PartsInit

LEMMA PartsStep ==
    ASSUME [PartsNext]_partVars
    PROVE  /\ [FeatureStoreNext]_storeVars /\ [TrainingNext]_trainingVars
           /\ [SelectionNext]_selectionVars /\ [RetrainingNext]_retrainingVars
           /\ [GeneratorNext]_generatorVars /\ [StreamerNext]_streamerVars
           /\ [InferenceNext]_inferenceVars /\ [FlowNext]_flowVars /\ [HealthNext]_healthVars
  BY DEF PartsNext, partVars

(* The run of the parts shows each of them as it runs alone.               *)
THEOREM PartsRunAlone ==
    PartsSpec => /\ FeatureStoreSpec /\ TrainingSpec /\ SelectionSpec /\ RetrainingSpec
                 /\ GeneratorSpec /\ StreamerSpec /\ InferenceSpec /\ FlowSpec /\ HealthSpec
  BY PartsStart, PartsStep, PTL
  DEF PartsSpec, FeatureStoreSpec, TrainingSpec, SelectionSpec, RetrainingSpec, GeneratorSpec,
      StreamerSpec, InferenceSpec, FlowSpec, HealthSpec

(* Types: in that run every variable of every part has its type.           *)
THEOREM ComponentsTypeCorrect == PartsSpec => []ComponentsTypeOK
  BY PartsRunAlone, StoreTypeCorrect, TrainingTypeCorrect, SelectionTypeCorrect,
     RetrainingTypeCorrect, GeneratorTypeCorrect, StreamerTypeCorrect, InferenceTypeCorrect,
     FlowTypeCorrect, HealthTypeCorrect, PTL
  DEF ComponentsTypeOK

(* And the parts keep beside each other what each promises alone: with     *)
(* label settings like the shipped ones, every safety property of that run.*)
THEOREM PartsKeepPromises ==
    ASSUME 2 * EarlyLifeRul < MaxRul
    PROVE  PartsSpec => /\ [](/\ ReadersNotMisled /\ MeasuredForestNeverRegistered
                              /\ LabelBoundsReadings /\ StampsTellReadingsApart
                              /\ WeightsAreFair /\ CommittedHandled /\ RowsNeedCrash
                              /\ StoredArePublished)
                        /\ OutageIsPermanent /\ PromotedBeatsChampion
  <1>1. TrainingSpec => []MeasuredForestNeverRegistered
    BY MeasuredForestUnregistered
  <1>. QED
    BY <1>1, PartsRunAlone, ReadersNeverMisled, LabelAlwaysBounds, StampsAlwaysApart,
       WeightsAlwaysFair, CommittedAlwaysHandled, RowsAlwaysNeedCrash, StoredAlwaysPublished,
       OutageAlwaysPermanent, PromotedAlwaysBetter, PTL
===============================================================================
