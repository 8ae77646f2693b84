------------------------------ MODULE AlertEngine ------------------------------
(***************************************************************************)
(* The alert engine (alerting/): AlertManager with its AlertRuleEngine and *)
(* its DatabaseNotifier, shared by two threads: the Kafka consumer, which  *)
(* feeds predictions in, and the event loop of the API, which evaluates,   *)
(* acknowledges and resolves.  Cooldowns and alerts are not locked; the    *)
(* aggregation buffers are, and the lock is held while an aggregated alert *)
(* is being sent.                                                          *)
(*                                                                         *)
(* A rule is its position in the configuration.  A prediction is the set   *)
(* of rules whose condition it meets: a condition that raises is not met.  *)
(* Only the database among the notifiers keeps state.  The clock does not  *)
(* tick within a step, so last_triggered and the id of an alert agree.     *)
(***************************************************************************)
EXTENDS Integers, Sequences, FiniteSets

CONSTANTS Equipment,
          Severity,        \* the rules' severities, in the order of the configuration
          Cooldown,        \* the rules' cooldowns, in clock ticks
          Window,          \* window_seconds of the aggregation, in clock ticks
          Maintenance,     \* equipment with a maintenance window ...
          MaintenanceEnd,  \* ... which lasts from the start to this tick
          Attempts,        \* MAX_RETRIES of the database notifier
          MaxTime,         \* bound: the last tick of the clock
          MaxPredictions,  \* bound: predictions evaluated
          MaxRequests,     \* bound: acknowledge and resolve requests
          MaxFaults        \* bound: failed statements, messages that cannot be made

ASSUME EngineAssumption ==
    /\ IsFiniteSet(Equipment)
    /\ Severity \in Seq({"info", "warning", "critical"})
    /\ Cooldown \in [DOMAIN Severity -> Nat \ {0}]
    /\ Window \in Nat \ {0}
    /\ Maintenance \subseteq Equipment /\ MaintenanceEnd \in Nat
    /\ Attempts \in Nat \ {0}
    /\ MaxTime \in Nat \ {0} /\ MaxPredictions \in Nat /\ MaxRequests \in Nat /\ MaxFaults \in Nat

Rule   == DOMAIN Severity
Thread == {"consumer", "api"}
Time   == 1 .. MaxTime
Never  == 0
NoOne  == "nobody"
Status == {"triggered", "acknowledged", "resolved"}
Id     == Rule \X Equipment \X Time      \* {rule_id}_{equipment_id}_{epoch seconds}

VARIABLES
    now,            \* the clock
    lastTriggered,  \* last_triggered of each rule
    alerts,         \* the alert objects, in the order in which they became active
    buffer,         \* _agg_buffer
    windowStart,    \* _agg_timestamps
    lock,           \* who holds _agg_lock
    row,            \* the alerts table: the status of each row
    pc,             \* where each thread is
    job,            \* the prediction a thread evaluates
    rule,           \* the rule it has come to
    found,          \* triggered_alerts of its call
    sending,        \* the representative a thread sends, 0 if none
    record,         \* what it is writing to the database
    attempt,        \* its attempt at that
    covered,        \* history: alerts a flush took out of the buffers
    lastFlush,      \* history: when a flush last took some of an equipment
    stale,          \* history: alerts whose row and object a failure or an
                    \* overlap may have driven apart
    predictions, requests, faults

engineVars == <<lastTriggered, alerts>>
bufferVars == <<buffer, windowStart, lock>>
callVars   == <<job, rule, found, sending>>
dbVars     == <<row, record, attempt>>
history    == <<covered, lastFlush, stale>>
counters   == <<predictions, requests, faults>>
vars == <<now, engineVars, bufferVars, callVars, dbVars, pc, history, counters>>

(* seen is how many alerts were active when the rule was last checked.     *)
NoJob    == [equipment |-> NoOne, holds |-> {}, seen |-> 0]
NoRecord == [id |-> <<>>, status |-> "none"]

Init ==
    /\ now = 1
    /\ lastTriggered = [r \in Rule |-> [e \in Equipment |-> Never]]
    /\ alerts = <<>>
    /\ buffer = [e \in Equipment |-> <<>>]
    /\ windowStart = [e \in Equipment |-> Never]
    /\ lock = NoOne
    /\ row = [i \in Id |-> "absent"]
    /\ pc = [t \in Thread |-> "idle"]
    /\ job = [t \in Thread |-> NoJob]
    /\ rule = [t \in Thread |-> 1]
    /\ found = [t \in Thread |-> <<>>]
    /\ sending = [t \in Thread |-> 0]
    /\ record = [t \in Thread |-> NoRecord]
    /\ attempt = [t \in Thread |-> 1]
    /\ covered = {} /\ stale = {}
    /\ lastFlush = [e \in Equipment |-> Never]
    /\ predictions = 0 /\ requests = 0 /\ faults = 0

Tick ==
    /\ now < MaxTime
    /\ now' = now + 1
    /\ UNCHANGED <<engineVars, bufferVars, callVars, dbVars, pc, history, counters>>

Goto(t, where) == pc' = [pc EXCEPT ![t] = where]

AlertId(a) == <<a.rule, a.equipment, a.time>>

-------------------------------------------------------------------------------
(* process_prediction, called by either thread *)

Receive(t, e, holds) ==
    /\ pc[t] = "idle"
    /\ predictions < MaxPredictions
    /\ predictions' = predictions + 1
    /\ job' = [job EXCEPT ![t] = [equipment |-> e, holds |-> holds, seen |-> 0]]
    /\ rule' = [rule EXCEPT ![t] = 1]
    /\ found' = [found EXCEPT ![t] = <<>>]
    /\ Goto(t, "check")
    /\ UNCHANGED <<now, engineVars, bufferVars, sending, dbVars, history, requests, faults>>

CoolingDown(r, e) ==
    lastTriggered[r][e] # Never /\ now - lastTriggered[r][e] < Cooldown[r]

(* AlertRule.evaluate up to the result: the cooldown, then the condition. *)
CheckRule(t) ==
    /\ pc[t] = "check"
    /\ rule[t] \in Rule
    /\ IF CoolingDown(rule[t], job[t].equipment) \/ rule[t] \notin job[t].holds
       THEN rule' = [rule EXCEPT ![t] = @ + 1] /\ UNCHANGED <<pc, job>>
       ELSE /\ job' = [job EXCEPT ![t].seen = Len(alerts)]
            /\ Goto(t, "trigger")
            /\ UNCHANGED rule
    /\ UNCHANGED <<now, engineVars, bufferVars, found, sending, dbVars, history, counters>>

(* _is_suppressed: a maintenance window of the configuration.  Incident    *)
(* mode is off: it silences a rule as a window that never ends does.       *)
Suppressed(e) == e \in Maintenance /\ now <= MaintenanceEnd

NewAlert(t) == [rule |-> rule[t], equipment |-> job[t].equipment, time |-> now,
                status |-> "triggered", seen |-> job[t].seen]

(* A slip a change to this code could make; the specification does not use it. *)
TriggerWithoutCooldown(t) ==
    /\ pc[t] = "trigger"
    /\ alerts' = Append(alerts, NewAlert(t))
    /\ found' = [found EXCEPT ![t] = Append(@, Len(alerts) + 1)]
    /\ rule' = [rule EXCEPT ![t] = @ + 1]
    /\ Goto(t, "check")
    /\ UNCHANGED <<now, lastTriggered, bufferVars, job, sending, dbVars, history, counters>>

(* The condition holds: the cooldown starts, and the alert becomes active  *)
(* unless it is suppressed or the prediction lacks what its message names. *)
Trigger(t) ==
    /\ pc[t] = "trigger"
    /\ lastTriggered' = [lastTriggered EXCEPT ![rule[t]][job[t].equipment] = now]
    /\ \/ UNCHANGED <<alerts, found, faults>> /\ Suppressed(job[t].equipment)
       \/ UNCHANGED <<alerts, found>> /\ faults < MaxFaults /\ faults' = faults + 1
       \/ /\ ~Suppressed(job[t].equipment)
          /\ alerts' = Append(alerts, NewAlert(t))
          /\ found' = [found EXCEPT ![t] = Append(@, Len(alerts) + 1)]
          /\ UNCHANGED faults
    /\ rule' = [rule EXCEPT ![t] = @ + 1]
    /\ Goto(t, "check")
    /\ UNCHANGED <<now, bufferVars, job, sending, dbVars, history, predictions, requests>>

(* Every rule has been evaluated. *)
EndEvaluation(t) ==
    /\ pc[t] = "check"
    /\ rule[t] \notin Rule
    /\ rule' = [rule EXCEPT ![t] = 1]
    /\ IF found[t] = <<>>
       THEN Goto(t, "idle") /\ job' = [job EXCEPT ![t] = NoJob]
       ELSE Goto(t, "buffer") /\ UNCHANGED job
    /\ UNCHANGED <<now, engineVars, bufferVars, found, sending, dbVars, history, counters>>

-------------------------------------------------------------------------------
(* _buffer_alerts and _flush_buffer, under _agg_lock *)

Rank(severity) == CASE severity = "critical" -> 3 [] severity = "warning" -> 2 [] OTHER -> 1

(* The stable sort puts the first of the gravest alerts in front. *)
Representative(group) ==
    CHOOSE k \in DOMAIN group :
        LET rankOf(i) == Rank(Severity[alerts[group[i]].rule])
        IN  \A j \in DOMAIN group : /\ rankOf(k) >= rankOf(j)
                                    /\ j < k => rankOf(k) > rankOf(j)

AlertsOf(group) == {group[k] : k \in DOMAIN group}

Expired(e) == windowStart[e] # Never /\ now - windowStart[e] >= Window

(* The alerts of the call join the buffer of their equipment. *)
Hold(e, group) ==
    /\ buffer' = [buffer EXCEPT ![e] = group]
    /\ windowStart' = [windowStart EXCEPT ![e] = IF @ = Never THEN now ELSE @]

(* A slip a change to this code could make; the specification does not use it. *)
FlushUnlocked(t, e, group) ==
    /\ UNCHANGED lock
    /\ sending' = [sending EXCEPT ![t] = group[Representative(group)]]
    /\ covered' = covered \cup AlertsOf(group)
    /\ lastFlush' = [lastFlush EXCEPT ![e] = now]
    /\ Goto(t, "notify")

(* The group leaves its buffer, and the lock is kept while its             *)
(* representative is sent.                                                 *)
FlushBuffer(t, e, group) ==
    /\ lock' = t
    /\ sending' = [sending EXCEPT ![t] = group[Representative(group)]]
    /\ covered' = covered \cup AlertsOf(group)
    /\ lastFlush' = [lastFlush EXCEPT ![e] = now]
    /\ Goto(t, "notify")

(* Slips a change to this code could make; the specification uses neither. *)
BufferKeepsGroup(t) ==
    LET e == job[t].equipment  group == buffer[e] \o found[t]
    IN  /\ pc[t] = "buffer" /\ lock = NoOne
        /\ buffer' = [buffer EXCEPT ![e] = group]
        /\ \/ /\ ~Expired(e) /\ Hold(e, group) /\ Goto(t, "idle")
              /\ UNCHANGED <<lock, sending, covered, lastFlush>>
           \/ /\ Expired(e) /\ FlushBuffer(t, e, group)
              /\ windowStart' = [windowStart EXCEPT ![e] = Never]
        /\ found' = [found EXCEPT ![t] = <<>>]
        /\ job' = [job EXCEPT ![t] = NoJob]
        /\ UNCHANGED <<now, engineVars, rule, dbVars, stale, counters>>

BufferKeepsWindow(t) ==
    LET e == job[t].equipment  group == buffer[e] \o found[t]
    IN  /\ pc[t] = "buffer" /\ lock = NoOne
        /\ \/ /\ ~Expired(e) /\ Hold(e, group) /\ Goto(t, "idle")
              /\ UNCHANGED <<lock, sending, covered, lastFlush>>
           \/ /\ Expired(e) /\ FlushBuffer(t, e, group)
              /\ buffer' = [buffer EXCEPT ![e] = <<>>]
              /\ UNCHANGED windowStart
        /\ found' = [found EXCEPT ![t] = <<>>]
        /\ job' = [job EXCEPT ![t] = NoJob]
        /\ UNCHANGED <<now, engineVars, rule, dbVars, stale, counters>>

(* The first alert of a window opens it and waits; one that comes after    *)
(* the window has expired takes the group out.                             *)
BufferAlerts(t) ==
    LET e == job[t].equipment  group == buffer[e] \o found[t]
    IN  /\ pc[t] = "buffer" /\ lock = NoOne
        /\ \/ /\ ~Expired(e) /\ Hold(e, group) /\ Goto(t, "idle")
              /\ UNCHANGED <<lock, sending, covered, lastFlush>>
           \/ /\ Expired(e) /\ FlushBuffer(t, e, group)
              /\ buffer' = [buffer EXCEPT ![e] = <<>>]
              /\ windowStart' = [windowStart EXCEPT ![e] = Never]
        /\ found' = [found EXCEPT ![t] = <<>>]
        /\ job' = [job EXCEPT ![t] = NoJob]
        /\ UNCHANGED <<now, engineVars, rule, dbVars, stale, counters>>
-------------------------------------------------------------------------------
(* DatabaseNotifier, the last of the notifiers *)

(* A slip a change to this code could make; the specification does not use it. *)
SnapshotAsTriggered(t) ==
    /\ pc[t] = "notify"
    /\ record' = [record EXCEPT ![t] = [id |-> AlertId(alerts[sending[t]]),
                                        status |-> "triggered"]]
    /\ attempt' = [attempt EXCEPT ![t] = 1]
    /\ Goto(t, "insert")
    /\ UNCHANGED <<now, engineVars, bufferVars, callVars, row, history, counters>>

(* Email and Slack have been tried; the alert is made into a record. *)
Snapshot(t) ==
    /\ pc[t] = "notify"
    /\ record' = [record EXCEPT ![t] = [id |-> AlertId(alerts[sending[t]]),
                                        status |-> alerts[sending[t]].status]]
    /\ attempt' = [attempt EXCEPT ![t] = 1]
    /\ Goto(t, "insert")
    /\ UNCHANGED <<now, engineVars, bufferVars, callVars, row, history, counters>>

(* The insert overwrites the row there is; the update needs one. *)
Apply(t) ==
    row' = [row EXCEPT ![record[t].id] =
               IF pc[t] = "update" /\ @ = "absent" THEN @ ELSE record[t].status]

Writing(t) == pc[t] \in {"insert", "update"}

Unlock(t) == IF lock = t THEN NoOne ELSE lock

(* The call returns, and _agg_lock is released if it was held. *)
Return(t) ==
    /\ lock' = Unlock(t)
    /\ sending' = [sending EXCEPT ![t] = 0]
    /\ record' = [record EXCEPT ![t] = NoRecord]
    /\ attempt' = [attempt EXCEPT ![t] = 1]
    /\ Goto(t, "idle")

Execute(t) ==
    /\ Writing(t)
    /\ Apply(t)
    /\ Return(t)
    /\ UNCHANGED <<now, engineVars, buffer, windowStart, job, rule, found, history, counters>>

(* A connection error, before the statement or after its commit took       *)
(* effect: the call sleeps, with the lock it holds, and tries again.       *)
Retry(t, applied) ==
    /\ Writing(t)
    /\ faults < MaxFaults /\ faults' = faults + 1
    /\ attempt[t] < Attempts
    /\ attempt' = [attempt EXCEPT ![t] = @ + 1]
    /\ IF applied THEN Apply(t) ELSE UNCHANGED row
    /\ UNCHANGED <<now, engineVars, bufferVars, callVars, record, pc, history,
                   predictions, requests>>

(* A slip a change to this code could make; the specification does not use it. *)
GiveUpLocked(t, applied) ==
    /\ Writing(t)
    /\ faults < MaxFaults /\ faults' = faults + 1
    /\ IF applied THEN Apply(t) ELSE UNCHANGED row
    /\ stale' = IF pc[t] = "update" THEN stale \cup {record[t].id} ELSE stale
    /\ sending' = [sending EXCEPT ![t] = 0]
    /\ record' = [record EXCEPT ![t] = NoRecord]
    /\ attempt' = [attempt EXCEPT ![t] = 1]
    /\ Goto(t, "idle")
    /\ UNCHANGED <<now, engineVars, bufferVars, job, rule, found,
                   covered, lastFlush, predictions, requests>>

(* The last attempt, or an error that is not of the connection: the        *)
(* notifier logs it and returns.                                           *)
GiveUp(t, applied) ==
    /\ Writing(t)
    /\ faults < MaxFaults /\ faults' = faults + 1
    /\ applied => attempt[t] = Attempts
    /\ IF applied THEN Apply(t) ELSE UNCHANGED row
    /\ stale' = IF pc[t] = "update" THEN stale \cup {record[t].id} ELSE stale
    /\ Return(t)
    /\ UNCHANGED <<now, engineVars, buffer, windowStart, job, rule, found,
                   covered, lastFlush, predictions, requests>>

-------------------------------------------------------------------------------
(* The requests of operators, served by the API's event loop *)

ActiveWith(i) == {k \in DOMAIN alerts : AlertId(alerts[k]) = i}

(* The first alert with this id changes, whatever its status, and then its *)
(* row is to be updated.  An insert already under way has the old status.  *)
(* An id of an earlier process has only a row, which is not one of these:  *)
(* it is updated and the answer is 404.                                    *)
SetStatus(i, status) ==
    LET k == CHOOSE k \in ActiveWith(i) : \A j \in ActiveWith(i) : k <= j
    IN  /\ pc["api"] = "idle"
        /\ requests < MaxRequests /\ requests' = requests + 1
        /\ alerts' = [alerts EXCEPT ![k].status = status]
        /\ record' = [record EXCEPT !["api"] = [id |-> i, status |-> status]]
        /\ Goto("api", "update")
        /\ stale' = IF \E t \in Thread : pc[t] = "insert" /\ record[t].id = i
                    THEN stale \cup {i} ELSE stale
        /\ UNCHANGED <<now, lastTriggered, bufferVars, callVars, row, attempt,
                       covered, lastFlush, predictions, faults>>

Acknowledge(i) == SetStatus(i, "acknowledged")
Resolve(i)     == SetStatus(i, "resolved")

-------------------------------------------------------------------------------

ThreadStep(t) ==
    \/ CheckRule(t) \/ Trigger(t) \/ EndEvaluation(t)
    \/ BufferAlerts(t) \/ Snapshot(t) \/ Execute(t)
    \/ \E applied \in BOOLEAN : Retry(t, applied) \/ GiveUp(t, applied)

Next ==
    \/ Tick
    \/ \E t \in Thread : ThreadStep(t)
    \/ \E t \in Thread, e \in Equipment, holds \in SUBSET Rule \ {{}} : Receive(t, e, holds)
    \/ \E k \in DOMAIN alerts : Acknowledge(AlertId(alerts[k])) \/ Resolve(AlertId(alerts[k]))

(* Time passes and threads that can run do; predictions and requests need  *)
(* not come.                                                               *)
Fairness == WF_vars(Tick) /\ \A t \in Thread : WF_vars(ThreadStep(t))

Spec == Init /\ [][Next]_vars
FairSpec == Spec /\ Fairness

-------------------------------------------------------------------------------
(* Properties *)

(* Every variable has its type; a thread that sends holds the lock.        *)
TypeOK ==
    /\ now \in Time
    /\ lastTriggered \in [Rule -> [Equipment -> Time \cup {Never}]]
    /\ alerts \in Seq([rule : Rule, equipment : Equipment, time : Time,
                       status : Status, seen : Nat])
    /\ buffer \in [Equipment -> Seq(DOMAIN alerts)]
    /\ windowStart \in [Equipment -> Time \cup {Never}]
    /\ lock \in Thread \cup {NoOne}
    /\ row \in [Id -> Status \cup {"absent"}]
    /\ pc \in [Thread -> {"idle", "check", "trigger", "buffer", "notify", "insert", "update"}]
    /\ job \in [Thread -> [equipment : Equipment \cup {NoOne}, holds : SUBSET Rule, seen : Nat]]
    /\ rule \in [Thread -> 1 .. Len(Severity) + 1]
    /\ found \in [Thread -> Seq(DOMAIN alerts)]
    /\ sending \in [Thread -> {0} \cup DOMAIN alerts]
    /\ record \in [Thread -> [id : Id, status : Status] \cup {NoRecord}]
    /\ attempt \in [Thread -> 1 .. Attempts]
    /\ covered \subseteq DOMAIN alerts
    /\ lastFlush \in [Equipment -> Time \cup {Never}]
    /\ stale \subseteq Id
    /\ predictions \in Nat /\ requests \in Nat /\ faults \in Nat
    /\ \A t \in Thread : pc[t] \in {"notify", "insert"} => lock = t

(* "rule is not in cooldown period for this equipment": an alert inside    *)
(* the cooldown of an earlier one had its rule checked before that one was *)
(* triggered, so only two threads evaluating at once can make it.          *)
CooldownNeedsOverlap ==
    \A j, k \in DOMAIN alerts :
        /\ j < k
        /\ alerts[j].rule = alerts[k].rule /\ alerts[j].equipment = alerts[k].equipment
        /\ alerts[k].time - alerts[j].time < Cooldown[alerts[k].rule]
        => alerts[k].seen < j

(* An active alert is with the call that found it, in the buffer of its    *)
(* equipment, or covered by a flush, and in one of them once.              *)
AlertConserved ==
    \A k \in DOMAIN alerts :
        LET calls   == UNION {{t} \X {p \in DOMAIN found[t] : found[t][p] = k} : t \in Thread}
            buffers == UNION {{e} \X {p \in DOMAIN buffer[e] : buffer[e][p] = k} : e \in Equipment}
        IN  /\ Cardinality(calls) + Cardinality(buffers)
                   + (IF k \in covered THEN 1 ELSE 0) = 1
            /\ \A b \in buffers : b[1] = alerts[k].equipment

(* An alert's row has its status, unless its status changed while its      *)
(* insert was under way, an update was given up or is still running, or    *)
(* another alert of the same second has its id.                            *)
RowFollowsAlert ==
    \A k \in DOMAIN alerts :
        LET i == AlertId(alerts[k])
        IN  /\ ActiveWith(i) = {k}
            /\ row[i] # "absent"
            /\ i \notin stale
            /\ \A t \in Thread : pc[t] = "update" => record[t].id # i
            => row[i] = alerts[k].status

(* "a single aggregated notification is sent per window"                   *)
(* (alert_manager.py:119): two flushes of an equipment are at least a      *)
(* window apart.                                                           *)
NotificationsSpaced ==
    [][\A k \in covered' \ covered :
          LET e == alerts[k].equipment
          IN  lastFlush[e] # Never => now - lastFlush[e] >= Window]_vars

(* No call hangs: neither the lock held while an alert is sent nor the     *)
(* retries of the database keep a thread from its next prediction.         *)
CallsReturn == \A t \in Thread : []<>(pc[t] = "idle")

(* "Buffer alerts per-equipment.  Flush when the window expires."          *)
(* (alert_manager.py:155): a buffered alert is sent once its window ends.  *)
BufferedAlertsSent ==
    \A e \in Equipment : (buffer[e] # <<>> /\ Expired(e)) ~> buffer[e] = <<>>
===============================================================================
