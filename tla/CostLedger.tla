----------------------------- MODULE CostLedger -----------------------------
(***************************************************************************)
(* CostTracker (services/ai/model/cost.py): one list of records per        *)
(* tenant, trimmed when it grows too long, totals read from it by day and  *)
(* by month, and budget alerts sent once per tenant, kind and period.  A   *)
(* caller reads the totals with awaited queries and checks the budgets     *)
(* with what it read, so records can be added, trimmed or reset, and the   *)
(* day can change, in between.  A record weighs the same in tokens and in  *)
(* money here; the two kinds of alert keep keys of their own.              *)
(***************************************************************************)
EXTENDS Naturals, Sequences, SequencesExt, FiniteSets

CONSTANTS
    Payers,             \* bound: tenants
    MAX_RECORDS,        \* a longer list is trimmed (10000)
    KEEP_RECORDS,       \* to its newest records (5000)
    DAYS,               \* bound: days in a month
    MaxDay,             \* bound: days that pass
    MaxRecords,         \* bound: records a tenant gets
    DAILY_LIMIT,        \* amount at which the daily alert is due, as a budget times a share
    MONTHLY_LIMIT,      \* the same for a month
    MaxResets           \* bound: reset calls

ASSUME LedgerAssumption ==
    /\ MAX_RECORDS \in Nat /\ KEEP_RECORDS \in 1..MAX_RECORDS
    /\ DAYS \in Nat \ {0} /\ MaxDay \in Nat /\ MaxResets \in Nat

VARIABLES
    cost_records,       \* payer -> the days of its kept records, oldest first
    alerts_sent,        \* _alerts_sent: <<payer, kind, period>>
    today,              \* the clock, in days
    totals,             \* payer -> what its monitor read last, or Unread
    emitted,            \* alerts emitted since the last reset_alerts, each with its count
    tracked,            \* payer -> the days of all its records since the last reset_records
    resets

ledgerVars == <<cost_records, alerts_sent, today, totals, emitted, tracked, resets>>

AlertKinds == {"daily_token", "monthly_token", "daily_cost", "monthly_cost"}
Unread == [day |-> 0, month |-> 0, read |-> FALSE]
MonthOf(d) == d \div DAYS
IsDaily(kind) == kind \in {"daily_token", "daily_cost"}
PeriodOf(kind) == IF IsDaily(kind) THEN today ELSE MonthOf(today)

LedgerInit ==
    /\ cost_records = [p \in Payers |-> <<>>]
    /\ tracked = [p \in Payers |-> <<>>]
    /\ alerts_sent = {} /\ emitted = [a \in {} |-> 0]
    /\ today = 0 /\ resets = 0
    /\ totals = [p \in Payers |-> Unread]
-----------------------------------------------------------------------------
\* The newest records of a list that has grown too long.
Trimmed(records) ==
    IF Len(records) > MAX_RECORDS
    THEN SubSeq(records, Len(records) - KEEP_RECORDS + 1, Len(records))
    ELSE records

\* track: append and trim under the lock.
Track(p) ==
    /\ Len(tracked[p]) < MaxRecords
    /\ cost_records' = [cost_records EXCEPT ![p] = Trimmed(Append(@, today))]
    /\ tracked' = [tracked EXCEPT ![p] = Append(@, today)]
    /\ UNCHANGED <<alerts_sent, today, totals, emitted, resets>>

\* get_daily_cost and get_daily_tokens of today; the monthly ones.
DayTotal(records, d) == Cardinality({i \in DOMAIN records : records[i] = d})
MonthTotal(records, m) == Cardinality({i \in DOMAIN records : MonthOf(records[i]) = m})

\* A monitor reads a tenant's four totals: none of the awaited queries suspends.
ReadTotals(p) ==
    /\ totals' = [totals EXCEPT ![p] = [day |-> DayTotal(cost_records[p], today),
                                        month |-> MonthTotal(cost_records[p], MonthOf(today)),
                                        read |-> TRUE]]
    /\ UNCHANGED <<cost_records, alerts_sent, today, emitted, tracked, resets>>

\* The kinds of alert due for the totals a monitor read.
Due(t) == {kind \in AlertKinds : IF IsDaily(kind) THEN t.day >= DAILY_LIMIT
                                                  ELSE t.month >= MONTHLY_LIMIT}

\* check_and_emit_alert with the totals read before: an alert whose key was not sent
\* yet is emitted; the keys name the period of the check, not of the totals.
CheckAndEmitAlert(p) ==
    LET new == {<<p, kind, PeriodOf(kind)>> : kind \in Due(totals[p])} \ alerts_sent
    IN /\ totals[p].read
       /\ alerts_sent' = alerts_sent \cup new
       /\ emitted' = [a \in DOMAIN emitted \cup new |->
             (IF a \in DOMAIN emitted THEN emitted[a] ELSE 0) + (IF a \in new THEN 1 ELSE 0)]
       /\ totals' = [totals EXCEPT ![p] = Unread]
       /\ UNCHANGED <<cost_records, today, tracked, resets>>

ResetAlerts(ps) ==
    /\ resets < MaxResets /\ resets' = resets + 1
    /\ alerts_sent' = {a \in alerts_sent : a[1] \notin ps}
    /\ emitted' = [a \in {b \in DOMAIN emitted : b[1] \notin ps} |-> emitted[a]]
    /\ UNCHANGED <<cost_records, today, totals, tracked>>

ResetRecords(ps) ==
    /\ resets < MaxResets /\ resets' = resets + 1
    /\ cost_records' = [p \in Payers |-> IF p \in ps THEN <<>> ELSE cost_records[p]]
    /\ tracked' = [p \in Payers |-> IF p \in ps THEN <<>> ELSE tracked[p]]
    /\ UNCHANGED <<alerts_sent, today, totals, emitted>>

\* reset_all: the records and then the alerts.
ResetAll(ps) ==
    /\ resets < MaxResets /\ resets' = resets + 1
    /\ cost_records' = [p \in Payers |-> IF p \in ps THEN <<>> ELSE cost_records[p]]
    /\ tracked' = [p \in Payers |-> IF p \in ps THEN <<>> ELSE tracked[p]]
    /\ alerts_sent' = {a \in alerts_sent : a[1] \notin ps}
    /\ emitted' = [a \in {b \in DOMAIN emitted : b[1] \notin ps} |-> emitted[a]]
    /\ UNCHANGED <<today, totals>>

DayPasses ==
    /\ today < MaxDay /\ today' = today + 1
    /\ UNCHANGED <<cost_records, alerts_sent, totals, emitted, tracked, resets>>

LedgerNext ==
    \/ \E p \in Payers : Track(p) \/ ReadTotals(p) \/ CheckAndEmitAlert(p)
    \/ \E ps \in {{p} : p \in Payers} \cup {Payers} :
           ResetAlerts(ps) \/ ResetRecords(ps) \/ ResetAll(ps)
    \/ DayPasses
-----------------------------------------------------------------------------
LedgerTypeOK ==
    /\ cost_records \in [Payers -> Seq(0..MaxDay)] /\ tracked \in [Payers -> Seq(0..MaxDay)]
    /\ \A p \in Payers : Len(cost_records[p]) <= MAX_RECORDS
    /\ alerts_sent \subseteq Payers \X AlertKinds \X (0..MaxDay)
    /\ today \in 0..MaxDay /\ resets \in 0..MaxResets

\* The totals speak of the newest records: nothing is counted that was not tracked,
\* and a record is missing from its day's total only if at least KEEP_RECORDS newer
\* ones were tracked (track, cost.py:130).
TotalsMissOnlyTheOldest ==
    \A p \in Payers :
        LET lost == Len(tracked[p]) - Len(cost_records[p])
            Early(d) == DayTotal(SubSeq(tracked[p], 1, lost), d)
        IN /\ lost > 0 => Len(tracked[p]) >= lost + KEEP_RECORDS
           /\ \A d \in 0..today :
                 DayTotal(cost_records[p], d) = DayTotal(tracked[p], d) - Early(d)

\* However monitors read, wait and check, a tenant gets one alert of a kind for one
\* day or month until reset_alerts (cost.py:254, "to avoid duplicates").
OneAlertPerPeriod ==
    \A a \in DOMAIN emitted : emitted[a] = 1
=============================================================================
