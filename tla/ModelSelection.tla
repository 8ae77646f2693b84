---------------------------- MODULE ModelSelection ----------------------------
(***************************************************************************)
(* TimeSeriesCrossValidator and HyperparameterTuner (ml_pipeline/train):   *)
(* the folds a model is scored on, the cross-validation that fits one      *)
(* model on them in turn, and the search that keeps the best of its        *)
(* trials.  An array is the set of its indices; the machines are numbered  *)
(* in their shuffled order.                                                *)
(***************************************************************************)
EXTENDS Integers, FiniteSets

CONSTANTS Samples, Units, Cycles,   \* rows, machines, cycles of a machine
          Splits, Gap,              \* cross_validation of the config
          Trials, TrialScores,      \* trials of a search, and what they score
          Warm                      \* whether fit goes on from the last weights

ASSUME SelectionAssumption ==
    /\ Samples \in Nat /\ Units \in Nat /\ Cycles \in Nat
    /\ Splits \in Nat \ {0} /\ Gap \in Nat
    /\ Trials \in Nat /\ TrialScores \subseteq Nat /\ Warm \in BOOLEAN

Fold == 0 .. Splits - 1

VARIABLES
    method,    \* the folds in use, or "none" between calls
    fold,      \* the next fold
    seen,      \* the rows the weights of the model come from
    leaked,    \* history: folds scored on rows the model had been fitted on
    scored,    \* the folds with a score
    goal,      \* "least": the loss of an LSTM; "most": the f1 of a forest
    trial,     \* trials made
    results,   \* the scores of those that succeeded
    bestScore  \* the best so far, or Unscored

validationVars == <<method, fold, seen, leaked, scored>>
searchVars     == <<goal, trial, results, bestScore>>
selectionVars  == <<validationVars, searchVars>>

Unscored == -1

-------------------------------------------------------------------------------
(* The folds *)

TestSize  == Samples \div (Splits + 1)
TestStart(i) == (i + 1) * TestSize

TimeSeriesSplit(i) == [train |-> 0 .. TestStart(i) - Gap - 1,
                       test  |-> TestStart(i) .. TestStart(i) + TestSize - 1]

(* Folds that do not fit are left out. *)
TimeSeriesFolds == {i \in Fold : TestStart(i) - Gap > 0 /\ TestStart(i) + TestSize <= Samples}

FoldSize == Units \div Splits

(* The last fold takes the machines the division leaves over. *)
TestUnits(i) == {u \in 0 .. Units - 1 :
                     i * FoldSize <= u /\ (i < Splits - 1 => u < (i + 1) * FoldSize)}
TrainUnits(i) == (0 .. Units - 1) \ TestUnits(i)

AllCycles(units) == units \X (0 .. Cycles - 1)

EquipmentBasedSplit(i) == [train |-> AllCycles(TrainUnits(i)), test |-> AllCycles(TestUnits(i))]

(* The first 80% of the cycles of the machines trained on. *)
CombinedSplit(i) == [train |-> TrainUnits(i) \X (0 .. (Cycles * 80) \div 100 - 1),
                     test  |-> AllCycles(TestUnits(i))]

Split(i) == CASE method = "time_series"     -> TimeSeriesSplit(i)
              [] method = "equipment_based" -> EquipmentBasedSplit(i)
              [] method = "combined"        -> CombinedSplit(i)

Folds == IF method = "time_series" THEN TimeSeriesFolds ELSE Fold

-------------------------------------------------------------------------------

SelectionInit ==
    /\ method = "none" /\ fold = 0 /\ seen = {} /\ leaked = FALSE /\ scored = {}
    /\ goal \in {"least", "most"} /\ trial = 0 /\ results = {} /\ bestScore = Unscored

(* cross_validate: one model for all folds. *)
BeginValidation(how) ==
    /\ method = "none"
    /\ method' = how /\ fold' = 0
    /\ seen' = {} /\ leaked' = FALSE /\ scored' = {}
    /\ UNCHANGED searchVars

SkipFold ==
    /\ method # "none" /\ fold \in Fold \ Folds
    /\ fold' = fold + 1
    /\ UNCHANGED <<method, seen, leaked, scored, searchVars>>

ScoreFold ==
    /\ method # "none" /\ fold \in Folds
    /\ Split(fold).train # {} /\ Split(fold).test # {}
    /\ seen' = IF Warm THEN seen \cup Split(fold).train ELSE Split(fold).train
    /\ leaked' = (leaked \/ seen' \cap Split(fold).test # {})
    /\ scored' = scored \cup {fold}
    /\ fold' = fold + 1
    /\ UNCHANGED <<method, searchVars>>

(* A fold without rows to fit on or to predict raises, and so may a fit.   *)
(* After the last fold the mean is returned, NaN if no fold was used.      *)
EndValidation ==
    /\ method # "none"
    /\ method' = "none"
    /\ UNCHANGED <<fold, seen, leaked, scored, searchVars>>

Better(a, b) == IF goal = "least" THEN a < b ELSE a > b

(* tune_random_forest, tune_lstm and grid_search_lstm_manual: one trial *)
Trial(score) ==
    /\ trial < Trials /\ trial' = trial + 1
    /\ results' = results \cup {score}
    /\ bestScore' = IF bestScore = Unscored \/ Better(score, bestScore) THEN score ELSE bestScore
    /\ UNCHANGED <<goal, validationVars>>

(* It is logged or scored NaN, and the search goes on. *)
TrialFails ==
    /\ trial < Trials /\ trial' = trial + 1
    /\ UNCHANGED <<goal, results, bestScore, validationVars>>

SelectionNext ==
    \/ \E how \in {"time_series", "equipment_based", "combined"} : BeginValidation(how)
    \/ SkipFold \/ ScoreFold \/ EndValidation
    \/ \E score \in TrialScores : Trial(score)
    \/ TrialFails

SelectionSpec == SelectionInit /\ [][SelectionNext]_selectionVars

-------------------------------------------------------------------------------
(* Properties *)

(* Every variable has its type. *)
SelectionTypeOK ==
    /\ method \in {"none", "time_series", "equipment_based", "combined"}
    /\ fold \in 0 .. Splits /\ leaked \in BOOLEAN /\ scored \subseteq Fold
    /\ goal \in {"least", "most"} /\ trial \in 0 .. Trials
    /\ results \subseteq TrialScores /\ bestScore \in TrialScores \cup {Unscored}

(* Each machine is tested in exactly one fold, and no fold trains on what  *)
(* it tests; folds by time keep the gap between them.                      *)
FoldsKeepApart ==
    /\ \A u \in 0 .. Units - 1 : \E i \in Fold : u \in TestUnits(i)
    /\ \A i, j \in Fold : i # j => TestUnits(i) \cap TestUnits(j) = {}
    /\ \A i \in Fold : \A t \in TimeSeriesSplit(i).train, s \in TimeSeriesSplit(i).test : t + Gap < s

(* "Prevents data leakage across equipment" (cross_validator.py:75): no    *)
(* score is of rows the model was fitted on, provided fit starts afresh.   *)
ScoredUnseen == ~Warm => ~leaked

(* A search returns the best score of its trials, and none only if none    *)
(* succeeded.                                                              *)
BestIsBest ==
    IF bestScore = Unscored THEN results = {}
    ELSE bestScore \in results /\ \A score \in results : ~Better(score, bestScore)
===============================================================================
