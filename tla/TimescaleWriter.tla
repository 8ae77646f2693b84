---------------------------- MODULE TimescaleWriter ----------------------------
(***************************************************************************)
(* TimescaleDBWriter (stream_processor/writer/timescaledb_writer.py): two  *)
(* row buffers that the worker threads, the writer thread and the main     *)
(* thread share without a lock, and the flush that copies a buffer into    *)
(* its table and then clears it.                                           *)
(*                                                                         *)
(* A step of the model is what runs between two points at which another    *)
(* thread can take over: each call to the database or the pool, and the    *)
(* separate list operations append, len, iterate and clear.                *)
(***************************************************************************)
EXTENDS Integers, Sequences, FiniteSets

CONSTANTS Workers,     \* the worker threads, which append rows
          Flushers,    \* the threads that flush everything: the writer thread and main
          MaxRows,     \* bound: rows appended to the two tables together
          BatchSize,   \* batch_size: flush threshold and page_size of execute_values
          MaxConn,     \* pool_max_conn: connections of the pool
          MaxFaults    \* bound: database failures in a behaviour

ASSUME WriterAssumption ==
    /\ Workers \cap Flushers = {}
    /\ IsFiniteSet(Workers) /\ IsFiniteSet(Flushers)
    /\ MaxRows \in Nat
    /\ BatchSize \in Nat \ {0}
    /\ MaxConn \in Nat \ {0}
    /\ MaxFaults \in Nat

Table  == {"sensor_readings", "engineered_features"}
Row    == 1 .. MaxRows               \* the n-th row appended to a table is row n
Thread == Workers \cup Flushers

VARIABLES
    buffer,     \* the two lists: rows waiting for a flush
    written,    \* how many rows were appended to each list so far
    db,         \* copies of each row that are committed in each table
    free,       \* connections in the pool
    poolOpen,   \* closeall has not run
    pc,         \* where each thread is inside the writer
    todo,       \* what the running call still flushes, the current table first
    cursor,     \* how far the list iterator of execute_values has come
    txn,        \* rows inserted by the open transaction
    faults,     \* database failures so far
    seen,       \* history: rows written when the running flush found its buffer non-empty
    disturbed   \* history: tables on which a flush overlapped another thread's call,
                \* or whose commit took effect and was reported as failed

tableVars  == <<buffer, written, db>>
poolVars   == <<free, poolOpen>>
threadVars == <<pc, todo, cursor, txn>>
vars == <<tableVars, poolVars, threadVars, faults, seen, disturbed>>

Init ==
    /\ buffer = [tb \in Table |-> <<>>]
    /\ written = [tb \in Table |-> 0]
    /\ db = [tb \in Table |-> [r \in Row |-> 0]]
    /\ free = MaxConn
    /\ poolOpen = TRUE
    /\ pc = [t \in Thread |-> "idle"]
    /\ todo = [t \in Thread |-> <<>>]
    /\ cursor = [t \in Thread |-> 0]
    /\ txn = [t \in Thread |-> {}]
    /\ faults = 0
    /\ seen = [t \in Thread |-> 0]
    /\ disturbed = {}

-------------------------------------------------------------------------------
(* Shared parts of the steps *)

Current(t) == Head(todo[t])

(* Thread t is between the emptiness test and the clear of its flush of tb. *)
Flushing(t, tb) ==
    /\ pc[t] \in {"connect", "insert", "commit", "clear"}
    /\ Current(t) = tb

Goto(t, where) == pc' = [pc EXCEPT ![t] = where]

(* The flush in progress is over, its locals are gone: go on with the next *)
(* one of this call.                                                       *)
NextFlush(t) ==
    /\ todo' = [todo EXCEPT ![t] = Tail(@)]
    /\ Goto(t, IF Len(todo[t]) = 1 THEN "idle" ELSE "test")
    /\ cursor' = [cursor EXCEPT ![t] = 0]
    /\ txn' = [txn EXCEPT ![t] = {}]
    /\ seen' = [seen EXCEPT ![t] = 0]

Disturb(t, tb) ==
    disturbed' = IF \E u \in Thread \ {t} : Flushing(u, tb)
                 THEN disturbed \cup {tb} ELSE disturbed

Rows(seq) == {seq[i] : i \in 1 .. Len(seq)}

(* A transaction's rows become visible in the table. *)
Committed(t) == [db EXCEPT ![Current(t)] =
                    [r \in Row |-> IF r \in txn[t] THEN @[r] + 1 ELSE @[r]]]

(* A slip a change to this code could make; the specification does not use it. *)
PageShort(t) ==
    LET left == Len(buffer[Current(t)]) - cursor[t]
    IN  IF left < 0 THEN 0 ELSE IF left < BatchSize THEN left ELSE BatchSize - 1

(* execute_values reads the list page by page through one iterator: a page *)
(* is at most BatchSize rows from where the iterator stands, in the list   *)
(* as it is now.                                                           *)
PageSize(t) ==
    LET left == Len(buffer[Current(t)]) - cursor[t]
    IN  IF left < 0 THEN 0 ELSE IF left < BatchSize THEN left ELSE BatchSize

Page(t) == {buffer[Current(t)][i] : i \in cursor[t] + 1 .. cursor[t] + PageSize(t)}

-------------------------------------------------------------------------------
(* Calls that enter the writer *)

(* write_sensor_reading, write_engineered_features: append, then test the length. *)
WriteRow(t, tb) ==
    /\ pc[t] = "idle"
    /\ written["sensor_readings"] + written["engineered_features"] < MaxRows
    /\ buffer' = [buffer EXCEPT ![tb] = Append(@, written[tb] + 1)]
    /\ written' = [written EXCEPT ![tb] = @ + 1]
    /\ Goto(t, "room")
    /\ todo' = [todo EXCEPT ![t] = <<tb>>]
    /\ Disturb(t, tb)
    /\ UNCHANGED <<db, poolVars, cursor, txn, faults, seen>>

TestRoom(t) ==
    /\ pc[t] = "room"
    /\ IF Len(buffer[Current(t)]) >= BatchSize
       THEN Goto(t, "test") /\ UNCHANGED todo
       ELSE Goto(t, "idle") /\ todo' = [todo EXCEPT ![t] = <<>>]
    /\ UNCHANGED <<tableVars, poolVars, cursor, txn, faults, seen, disturbed>>

(* A slip a change to this code could make; the specification does not use it. *)
FlushReadingsOnly == <<"sensor_readings">>

FlushOrder == <<"sensor_readings", "engineered_features">>

(* flush_all, by the writer thread every five seconds and by stop(). *)
FlushAll(t) ==
    /\ pc[t] = "idle"
    /\ todo' = [todo EXCEPT ![t] = FlushOrder]
    /\ Goto(t, "test")
    /\ UNCHANGED <<tableVars, poolVars, cursor, txn, faults, seen, disturbed>>

(* close(): flush_all, then closeall. *)
Close(t) ==
    /\ pc[t] = "idle"
    /\ poolOpen
    /\ todo' = [todo EXCEPT ![t] = Append(FlushOrder, "closeall")]
    /\ Goto(t, "test")
    /\ UNCHANGED <<tableVars, poolVars, cursor, txn, faults, seen, disturbed>>

-------------------------------------------------------------------------------
(* One flush *)

(* "if not self.<buffer>: return" *)
TestEmpty(t) ==
    /\ pc[t] = "test"
    /\ Current(t) \in Table
    /\ IF buffer[Current(t)] = <<>>
       THEN NextFlush(t) /\ UNCHANGED disturbed
       ELSE /\ Goto(t, "connect")
            /\ seen' = [seen EXCEPT ![t] = written[Current(t)]]
            /\ Disturb(t, Current(t))
            /\ UNCHANGED <<todo, cursor, txn>>
    /\ UNCHANGED <<tableVars, poolVars, faults>>

(* Slips a change to this code could make; the specification uses none of them. *)
ConnectUncounted(t) ==
    /\ pc[t] = "connect"
    /\ free' = free - 1
    /\ Goto(t, "insert")
    /\ UNCHANGED <<tableVars, poolOpen, todo, cursor, txn, faults, seen, disturbed>>

ConnectBlocks(t) ==
    /\ pc[t] = "connect"
    /\ poolOpen /\ free > 0
    /\ free' = free - 1
    /\ Goto(t, "insert")
    /\ UNCHANGED <<tableVars, poolOpen, todo, cursor, txn, faults, seen, disturbed>>

(* get_connection: an exhausted or closed pool raises, the flush logs it and returns. *)
Connect(t) ==
    /\ pc[t] = "connect"
    /\ IF poolOpen /\ free > 0
       THEN /\ free' = free - 1
            /\ Goto(t, "insert")
            /\ UNCHANGED <<todo, cursor, txn, seen>>
       ELSE NextFlush(t) /\ UNCHANGED free
    /\ UNCHANGED <<tableVars, poolOpen, faults, disturbed>>

(* One page of execute_values; a page that is not full is the last one. *)
InsertPage(t) ==
    /\ pc[t] = "insert"
    /\ poolOpen
    /\ txn' = [txn EXCEPT ![t] = @ \cup Page(t)]
    /\ cursor' = [cursor EXCEPT ![t] = @ + PageSize(t)]
    /\ Goto(t, IF PageSize(t) = BatchSize THEN "insert" ELSE "commit")
    /\ UNCHANGED <<tableVars, poolVars, todo, faults, seen, disturbed>>

(* A slip a change to this code could make; the specification does not use it. *)
CommitKeepsList(t) ==
    /\ pc[t] = "commit"
    /\ poolOpen
    /\ db' = Committed(t)
    /\ Goto(t, "release")
    /\ UNCHANGED <<buffer, written, poolVars, todo, cursor, txn, faults, seen, disturbed>>

Commit(t) ==
    /\ pc[t] = "commit"
    /\ poolOpen
    /\ db' = Committed(t)
    /\ Goto(t, "clear")
    /\ UNCHANGED <<buffer, written, poolVars, todo, cursor, txn, faults, seen, disturbed>>

Clear(t) ==
    /\ pc[t] = "clear"
    /\ buffer' = [buffer EXCEPT ![Current(t)] = <<>>]
    /\ Goto(t, "release")
    /\ UNCHANGED <<written, db, poolVars, todo, cursor, txn, faults, seen, disturbed>>

(* A statement or the commit raises.  A commit may raise after it took     *)
(* effect (the connection broke before the answer came).                   *)
DatabaseFails(t, applied) ==
    /\ pc[t] \in {"insert", "commit"}
    /\ poolOpen => faults < MaxFaults
    /\ applied => pc[t] = "commit" /\ poolOpen
    /\ faults' = IF poolOpen THEN faults + 1 ELSE faults
    /\ db' = IF applied THEN Committed(t) ELSE db
    /\ disturbed' = IF applied THEN disturbed \cup {Current(t)} ELSE disturbed
    /\ Goto(t, "rollback")
    /\ UNCHANGED <<buffer, written, poolVars, todo, cursor, txn, seen>>

(* Slips a change to this code could make; the specification uses none of them. *)
RollbackSkipsFinally(t, raises) ==
    /\ pc[t] = "rollback"
    /\ ~poolOpen => raises
    /\ IF raises
       THEN todo' = [todo EXCEPT ![t] = <<>>] /\ Goto(t, "idle")
       ELSE UNCHANGED todo /\ Goto(t, "release")
    /\ UNCHANGED <<tableVars, poolVars, cursor, txn, faults, seen, disturbed>>

RollbackThenClear(t, raises) ==
    /\ pc[t] = "rollback"
    /\ ~poolOpen => raises
    /\ Goto(t, "clear")
    /\ UNCHANGED <<tableVars, poolVars, todo, cursor, txn, faults, seen, disturbed>>

(* conn.rollback() in the except block; on a broken connection it raises   *)
(* itself, and the exception leaves the whole call once finally has run.   *)
Rollback(t, raises) ==
    /\ pc[t] = "rollback"
    /\ ~poolOpen => raises
    /\ todo' = IF raises THEN [todo EXCEPT ![t] = <<Head(@)>>] ELSE todo
    /\ Goto(t, "release")
    /\ UNCHANGED <<tableVars, poolVars, cursor, txn, faults, seen, disturbed>>

(* return_connection in the finally block; putconn on a closed pool is only logged. *)
Release(t) ==
    /\ pc[t] = "release"
    /\ free' = IF poolOpen THEN free + 1 ELSE free
    /\ NextFlush(t)
    /\ UNCHANGED <<tableVars, poolOpen, faults, disturbed>>

CloseAll(t) ==
    /\ pc[t] = "test"
    /\ Current(t) = "closeall"
    /\ poolOpen' = FALSE
    /\ NextFlush(t)
    /\ UNCHANGED <<tableVars, free, faults, disturbed>>

-------------------------------------------------------------------------------
(* The steps of a call once it has begun *)
Continue(t) ==
    \/ TestRoom(t)
    \/ TestEmpty(t)
    \/ Connect(t)
    \/ InsertPage(t)
    \/ Commit(t)
    \/ Clear(t)
    \/ \E applied \in BOOLEAN : DatabaseFails(t, applied)
    \/ \E raises \in BOOLEAN : Rollback(t, raises)
    \/ Release(t)
    \/ CloseAll(t)

Next ==
    \/ \E w \in Workers, tb \in Table : WriteRow(w, tb)
    \/ \E t \in Flushers : FlushAll(t) \/ Close(t)
    \/ \E t \in Thread : Continue(t)

(* A thread that is inside the writer keeps running, and the writer thread *)
(* comes back every five seconds.                                          *)
Fairness ==
    /\ \A t \in Thread : WF_vars(Continue(t))
    /\ \A t \in Flushers : WF_vars(FlushAll(t))

Spec == Init /\ [][Next]_vars
FairSpec == Spec /\ Fairness

-------------------------------------------------------------------------------
(* Properties *)

(* Every variable has its type. *)
TypeOK ==
    /\ buffer \in [Table -> Seq(Row)]
    /\ written \in [Table -> 0 .. MaxRows]
    /\ db \in [Table -> [Row -> Nat]]
    /\ free \in 0 .. MaxConn
    /\ poolOpen \in BOOLEAN
    /\ pc \in [Thread -> {"idle", "room", "test", "connect", "insert", "commit",
                          "clear", "rollback", "release"}]
    /\ todo \in [Thread -> Seq(Table \cup {"closeall"})]
    /\ cursor \in [Thread -> Nat]
    /\ txn \in [Thread -> SUBSET Row]
    /\ faults \in Nat
    /\ seen \in [Thread -> 0 .. MaxRows]
    /\ disturbed \in SUBSET Table

Holders == {t \in Thread : pc[t] \in {"insert", "commit", "clear", "rollback", "release"}}

(* No path through a flush, failed, rolled back or raising out of the      *)
(* call, leaks a connection of the pool or returns one twice.              *)
PoolAccounting == poolOpen => free + Cardinality(Holders) = MaxConn

(* A row that a clear removes from a list without its being committed was  *)
(* appended while the flush that cleared it was running: what a flush saw  *)
(* when it started, it never drops, whatever other threads append, flush   *)
(* or clear meanwhile and however the pages fall.                          *)
LossNeedsOverlap ==
    [][\A tb \in Table : \A r \in Rows(buffer[tb]) \ Rows(buffer'[tb]) :
          \/ db[tb][r] > 0
          \/ \E t \in Thread : /\ pc[t] = "clear" /\ pc'[t] = "release"
                               /\ Current(t) = tb
                               /\ r > seen[t]]_vars

Clearing(tb) == \E t \in Thread : pc[t] = "clear" /\ Current(t) = tb
Waiting(tb)  == IF Clearing(tb) THEN {} ELSE Rows(buffer[tb])

(* As long as no flush of a table overlapped another thread's call and no  *)
(* applied commit was reported as failed, every row handed over is either  *)
(* waiting or in the table exactly once, through any failed flushes,       *)
(* rollbacks and retries.                                                  *)
ExactlyOnceUndisturbed ==
    \A tb \in Table \ disturbed : \A r \in 1 .. written[tb] :
        db[tb][r] = IF r \in Waiting(tb) THEN 0 ELSE 1

(* Up to the first disturbance each table behaves as BatchStore promises. *)
Store(tb) == INSTANCE BatchStore WITH pending <- Waiting(tb), stored <- db[tb]

KeepsPromise(tb) ==
    \/ tb \in disturbed'
    \/ Store(tb)!Next
    \/ Waiting(tb)' = Waiting(tb) /\ db'[tb] = db[tb]

StoreUndisturbed ==
    /\ \A tb \in Table : Store(tb)!Init
    /\ [][\A tb \in Table : KeepsPromise(tb)]_vars

(* Every call into the writer returns: no page, failure, rollback or race  *)
(* leaves a thread inside it.                                              *)
CallsReturn == \A t \in Thread : pc[t] # "idle" ~> pc[t] = "idle"

(* While the pool is open, the writer thread's periodic flush empties a    *)
(* buffer that has rows in it, after finitely many database failures.      *)
BufferDrains ==
    \A tb \in Table : buffer[tb] # <<>> ~> (buffer[tb] = <<>> \/ ~poolOpen)

(* "7. Raw reading + computed features written to TimescaleDB"             *)
(* (docs/expected-behaviour.md): a row handed to the writer is in its      *)
(* buffer until it is in the table.                                        *)
EveryRowKept ==
    \A tb \in Table : \A r \in 1 .. written[tb] :
        r \in Rows(buffer[tb]) \/ db[tb][r] > 0
===============================================================================
