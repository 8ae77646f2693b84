----------------------------- MODULE FeatureStore -----------------------------
(***************************************************************************)
(* FeatureStorePipeline (feature_store/pipeline.py) with its extractor,    *)
(* label generator, table and Redis cache.  Machines report readings; a    *)
(* caller hands a stretch of them to process_and_store, which labels the   *)
(* rows, upserts them and caches the latest row of each machine.  A data   *)
(* set for training is cut into windows from what the table holds.         *)
(*                                                                         *)
(* A data frame is a sequence of rows; a row is the time of its reading.   *)
(* The features of a row are left out: lags and rolling values read rows   *)
(* of other machines, cycle_normalized and the frequency features read     *)
(* rows that come later, and no label depends on them.                     *)
(***************************************************************************)
EXTENDS Labels, Sequences, FiniteSets, SequencesExt

CONSTANTS Machines,        \* number of machines, ordered by their identifier
          MaxReadings,     \* bound: readings of all machines
          MaxBatches,      \* bound: calls of process_and_store
          MaxStoreFaults,  \* bound: failed statements and cache calls
          FetchLimit,      \* limit of fetch_features
          SequenceLength   \* rows of one window

ASSUME FeatureStoreAssumption ==
    /\ Machines \in Nat \ {0} /\ MaxReadings \in Nat /\ MaxBatches \in Nat
    /\ MaxStoreFaults \in Nat
    /\ FetchLimit \in Nat \ {0} /\ SequenceLength \in Nat \ {0}

Machine == 1 .. Machines
Row     == 1 .. MaxReadings

VARIABLES
    readings,    \* the machine and the cycle of each reading, in order of time
    frame,       \* the frame being processed
    storing,     \* where process_and_store is
    uncached,    \* machines whose latest row is still to be cached
    table,       \* the label of each row in feature_store, or NoLabel
    cached,      \* the rows in Redis, with their label
    redis,       \* whether Redis answered when the cache was made
    batches, storeFaults,
    misplaced    \* history: rows given the label of another row

storeVars == <<readings, frame, storing, uncached, table, cached, redis,
               batches, storeFaults, misplaced>>

NoLabel == -1
StoreFault == storeFaults < MaxStoreFaults /\ storeFaults' = storeFaults + 1

-------------------------------------------------------------------------------
(* label_generator.py *)

MachineOf(r) == readings[r].machine
CycleOf(r)   == readings[r].cycle

GroupBefore(a, b) ==
    \/ MachineOf(a) < MachineOf(b)
    \/ MachineOf(a) = MachineOf(b) /\ CycleOf(a) < CycleOf(b)

(* groupby("equipment_id"), each group sorted by cycle: a row has its      *)
(* place after the rows before it.                                         *)
InGroupOrder(rows) ==
    [p \in 1 .. Cardinality(rows) |->
        CHOOSE r \in rows : Cardinality({q \in rows : GroupBefore(q, r)}) = p - 1]

Grouped(f) == InGroupOrder(ToSet(f))

RemainingCycles(rows, r) ==
    LET cycles == {CycleOf(q) : q \in {q \in rows : MachineOf(q) = MachineOf(r)}}
    IN (CHOOSE c \in cycles : \A d \in cycles : d <= c) - CycleOf(r)

(* A slip a change to this code could make; the specification does not use it. *)
LabelsByFrameEnd(f) ==
    LET order == Grouped(f)
        cycles == {CycleOf(r) : r \in ToSet(f)}
        end == CHOOSE c \in cycles : \A d \in cycles : d <= c
    IN [p \in DOMAIN f |-> RulLabel(end - CycleOf(order[p]))]

(* The labels are listed group by group, and the list becomes the column:  *)
(* the row at a position gets the label computed for that place in the     *)
(* grouped order.                                                          *)
GenerateRulLabels(f) ==
    LET order == Grouped(f)
    IN [p \in DOMAIN f |-> RulLabel(RemainingCycles(ToSet(f), order[p]))]

(* The rows whose place in the frame is another one in the grouped order.  *)
Misplaced(f) == {f[p] : p \in {p \in DOMAIN f : Grouped(f)[p] # f[p]}}

(* failure_event: groups in their own order, the row of the highest cycle. *)
FailureEvents(f) ==
    LET order == Grouped(f)
    IN [p \in DOMAIN f |-> RemainingCycles(ToSet(f), order[p]) = 0]

-------------------------------------------------------------------------------

(* A Redis that does not answer now is never tried again. *)
CacheInit == redis \in BOOLEAN /\ cached = [r \in Row |-> NoLabel]

FeatureStoreInit ==
    /\ readings = <<>> /\ frame = <<>> /\ storing = "idle" /\ uncached = {}
    /\ table = [r \in Row |-> NoLabel]
    /\ CacheInit
    /\ batches = 0 /\ storeFaults = 0 /\ misplaced = {}

(* A machine runs one more cycle and reports it. *)
MachineReports(m) ==
    /\ Len(readings) < MaxReadings
    /\ readings' = Append(readings, [machine |-> m, cycle |->
                       1 + Cardinality({r \in DOMAIN readings : MachineOf(r) = m})])
    /\ UNCHANGED <<frame, storing, uncached, table, cached, redis, batches,
                   storeFaults, misplaced>>

(* process_equipment_data: the rows are sorted by time, not by machine. *)
ProcessBatch(first, final) ==
    /\ storing = "idle"
    /\ batches < MaxBatches /\ batches' = batches + 1
    /\ first \in 1 .. final /\ final \in DOMAIN readings
    /\ frame' = [p \in 1 .. final - first + 1 |-> first + p - 1]
    /\ storing' = "insert"
    /\ UNCHANGED <<readings, uncached, table, cached, redis, storeFaults, misplaced>>

PositionOf(r) == CHOOSE p \in DOMAIN frame : frame[p] = r

(* The upsert, in one transaction.  An error, also one of a commit that    *)
(* took effect, is logged, and the rows are cached all the same.           *)
InsertFeatures(applied) ==
    /\ storing = "insert"
    /\ (applied /\ UNCHANGED storeFaults) \/ StoreFault
    /\ table' = IF applied
                THEN [r \in Row |-> IF r \in ToSet(frame)
                                    THEN GenerateRulLabels(frame)[PositionOf(r)] ELSE table[r]]
                ELSE table
    /\ misplaced' = misplaced \cup Misplaced(frame)
    /\ storing' = "cache"
    /\ uncached' = {MachineOf(r) : r \in ToSet(frame)}
    /\ UNCHANGED <<readings, frame, cached, redis, batches>>

LatestRow(m) ==
    CHOOSE r \in ToSet(frame) :
        MachineOf(r) = m /\ \A q \in ToSet(frame) : MachineOf(q) = m => CycleOf(q) <= CycleOf(r)

(* cache_features: without Redis nothing is done, an error is logged. *)
CacheLatest(m) ==
    /\ storing = "cache" /\ m \in uncached
    /\ \/ /\ redis /\ UNCHANGED storeFaults
          /\ cached' = [cached EXCEPT ![LatestRow(m)] =
                            GenerateRulLabels(frame)[PositionOf(LatestRow(m))]]
       \/ /\ UNCHANGED cached
          /\ (~redis /\ UNCHANGED storeFaults) \/ StoreFault
    /\ uncached' = uncached \ {m}
    /\ storing' = IF uncached = {m} THEN "idle" ELSE "cache"
    /\ UNCHANGED <<readings, frame, table, redis, batches, misplaced>>

(* The time to live of an entry ends, or delete or clear is called. *)
Expire(rows) ==
    /\ \E r \in rows : cached[r] # NoLabel
    /\ cached' = [r \in Row |-> IF r \in rows THEN NoLabel ELSE cached[r]]
    /\ UNCHANGED <<readings, frame, storing, uncached, table, redis, batches,
                   storeFaults, misplaced>>

(* get_cached_features, when Redis answers. *)
CachedLabel(r) == IF redis THEN cached[r] ELSE NoLabel

Stored == {r \in Row : table[r] # NoLabel}

(* fetch_features: the latest rows, up to the limit. *)
Fetched == {r \in Stored : Cardinality({q \in Stored : q > r}) < FetchLimit}

(* generate_sequences_per_equipment; a window is the rows it covers. *)
Windows(rows) ==
    UNION {LET group == InGroupOrder({r \in rows : MachineOf(r) = m})
           IN {SubSeq(group, i, i + SequenceLength - 1) :
                   i \in 1 .. Len(group) - SequenceLength + 1} : m \in Machine}

(* create_training_dataset; without rows it is empty. *)
TrainingDataset == Windows(Fetched)

FeatureStoreNext ==
    \/ \E m \in Machine : MachineReports(m) \/ CacheLatest(m)
    \/ \E first, final \in Row : ProcessBatch(first, final)
    \/ \E applied \in BOOLEAN : InsertFeatures(applied)
    \/ \E r \in Row : Expire({r})
    \/ Expire(Row)

FeatureStoreSpec == FeatureStoreInit /\ [][FeatureStoreNext]_storeVars

-------------------------------------------------------------------------------
(* Properties *)

(* Every variable has its type. *)
FeatureStoreTypeOK ==
    /\ readings \in Seq([machine : Machine, cycle : 1 .. MaxReadings])
    /\ Len(readings) <= MaxReadings
    /\ frame \in Seq(DOMAIN readings)
    /\ storing \in {"idle", "insert", "cache"}
    /\ uncached \subseteq Machine
    /\ table \in [Row -> {NoLabel} \cup 0 .. Lower(EarlyLifeRul, MaxRul)]
    /\ cached \in [Row -> {NoLabel} \cup 0 .. Lower(EarlyLifeRul, MaxRul)]
    /\ misplaced \subseteq Row
    /\ redis \in BOOLEAN /\ batches \in Nat /\ storeFaults \in Nat

(* A label in the table or the cache promises no more cycles than its      *)
(* machine has run since, in whatever stretches and how often its row was  *)
(* processed, in a frame with other machines too, unless the row was once  *)
(* given the label of another row: in a frame that is not in groups the    *)
(* list of the labels is not in the order of the rows, but a row that has  *)
(* the same place in both gets its own.                                    *)
LabelsNeverOptimistic ==
    \A r \in Row \ misplaced : \A label \in {table[r], CachedLabel(r)} \ {NoLabel} :
        label <= RemainingCycles(DOMAIN readings, r)

(* A window of the data set holds one machine in the order of its cycles,  *)
(* and skips a cycle only if the table lacks it.                           *)
WindowsSkipOnlyLostRows ==
    \A w \in TrainingDataset : \A i \in 1 .. Len(w) - 1 :
        /\ MachineOf(w[i]) = MachineOf(w[i + 1])
        /\ \A r \in DOMAIN readings :
              MachineOf(r) = MachineOf(w[i]) /\ CycleOf(w[i]) < CycleOf(r)
                  /\ CycleOf(r) < CycleOf(w[i + 1]) => table[r] = NoLabel

(* The row marked as a failure is labelled as near one, in whatever order  *)
(* the machines come, and of the rows with a label of their own it is the  *)
(* last of each machine that is marked.                                    *)
FrameAgrees ==
    \A p \in DOMAIN frame :
        /\ FailureEvents(frame)[p] => FailureImminent(GenerateRulLabels(frame)[p])
        /\ frame[p] \notin Misplaced(frame) =>
              (FailureEvents(frame)[p] <=> frame[p] = LatestRow(MachineOf(frame[p])))

(* What the store tells its readers. *)
ReadersNotMisled == LabelsNeverOptimistic /\ WindowsSkipOnlyLostRows /\ FrameAgrees
===============================================================================
