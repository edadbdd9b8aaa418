----------------------- MODULE PlatformServicesProofs -----------------------
(***************************************************************************)
(* Proofs about the parts of MCPlatformServices, for any number of twins,  *)
(* calls, tenants, points and documents and any limits.  Each part has an  *)
(* inductive invariant of its own; a step of the composition is a step of  *)
(* one part and leaves the variables of the others alone.                  *)
(***************************************************************************)
EXTENDS MCPlatformServices, DataInduction, FiniteSetTheorems, SequenceTheorems, TLAPS

(* What a step of the composition is for each part. *)
LEMMA PartSteps ==
  ASSUME [Next]_vars
  PROVE  /\ GraphNext \/ UNCHANGED graphVars
         /\ HistoryNext \/ UNCHANGED historyVars
         /\ RetrievalNext \/ UNCHANGED retrievalVars
         /\ LedgerNext \/ UNCHANGED ledgerVars
         /\ WorkflowNext \/ UNCHANGED workflowVars
BY DEF Next, vars, Serving

-----------------------------------------------------------------------------
(* The cost ledger.  What a tenant's list keeps is the end of all it got,  *)
(* and whatever was cut off left at least KEEP_RECORDS records behind.     *)

EndOf(kept, all) ==
  /\ Len(kept) <= Len(all)
  /\ \A i \in 1..Len(kept) : kept[i] = all[Len(all) - Len(kept) + i]
  /\ Len(kept) < Len(all) => Len(kept) >= KEEP_RECORDS

(* Each alert sent since the last reset was emitted, once. *)
AlertsAreKeyed == DOMAIN emitted = alerts_sent /\ \A a \in alerts_sent : emitted[a] = 1

LedgerInv == LedgerTypeOK /\ AlertsAreKeyed /\ \A p \in Payers : EndOf(cost_records[p], tracked[p])

LEMMA MonthIsBounded == ASSUME NEW d \in Nat PROVE MonthOf(d) \in 0..d
<1>1. DAYS \in Nat /\ DAYS >= 1
  BY LedgerAssumption
<1>2. d \div DAYS \in 0..d
  BY <1>1
<1> QED BY <1>2 DEF MonthOf

(* track: what is left after an append and the trim is still the end. *)
LEMMA TrimKeepsEnd ==
  ASSUME NEW S, NEW kept \in Seq(S), NEW all \in Seq(S), NEW d \in S,
         EndOf(kept, all), Len(kept) <= MAX_RECORDS
  PROVE  /\ Trimmed(Append(kept, d)) \in Seq(S)
         /\ Len(Trimmed(Append(kept, d))) <= MAX_RECORDS
         /\ EndOf(Trimmed(Append(kept, d)), Append(all, d))
<1> DEFINE k == Append(kept, d)
           a == Append(all, d)
<1> SUFFICES /\ Trimmed(k) \in Seq(S) /\ Len(Trimmed(k)) <= MAX_RECORDS
             /\ EndOf(Trimmed(k), a)
  OBVIOUS
<1>1. /\ k \in Seq(S) /\ Len(k) = Len(kept) + 1 /\ Len(k) \in Nat
      /\ a \in Seq(S) /\ Len(a) = Len(all) + 1 /\ Len(a) \in Nat
  OBVIOUS
<1>2. Len(k) <= Len(a) /\ \A i \in 1..Len(k) : k[i] = a[Len(a) - Len(k) + i]
  <2>1. ASSUME NEW i \in 1..Len(k) PROVE k[i] = a[Len(a) - Len(k) + i]
    <3>1. CASE i = Len(k)
      BY <1>1, <3>1
    <3>2. CASE i # Len(k)
      <4>1. i \in 1..Len(kept) /\ k[i] = kept[i]
        BY <1>1, <3>2
      <4>2. kept[i] = all[Len(all) - Len(kept) + i]
        BY <4>1 DEF EndOf
      <4>3. Len(all) - Len(kept) + i \in 1..Len(all) /\ Len(a) - Len(k) + i = Len(all) - Len(kept) + i
        BY <1>1, <4>1 DEF EndOf
      <4> QED BY <1>1, <4>1, <4>2, <4>3
    <3> QED BY <3>1, <3>2
  <2>2. Len(k) <= Len(a)
    <3>1. Len(kept) <= Len(all)
      BY DEF EndOf
    <3> QED BY <1>1, <3>1
  <2> QED BY <2>1, <2>2
<1>3. MAX_RECORDS \in Nat /\ KEEP_RECORDS \in Nat /\ 1 <= KEEP_RECORDS /\ KEEP_RECORDS <= MAX_RECORDS
  BY LedgerAssumption
<1>4. CASE Len(k) > MAX_RECORDS
  <2> DEFINE from == Len(k) - KEEP_RECORDS + 1
             c == SubSeq(k, from, Len(k))
  <2>1. from \in 1..Len(k) /\ Len(k) - from + 1 = KEEP_RECORDS
    BY <1>1, <1>3, <1>4
  <2>2. /\ c \in Seq(S) /\ Len(c) = KEEP_RECORDS
        /\ \A i \in 1..KEEP_RECORDS : c[i] = k[from + i - 1]
    <3>1. from \in 1..(Len(k) + 1) /\ Len(k) \in (from - 1)..Len(k)
      BY <1>1, <2>1
    <3> HIDE DEF k, from
    <3> QED BY <1>1, <2>1, <3>1, SubSeqProperties
  <2>3. \A i \in 1..KEEP_RECORDS : c[i] = a[Len(a) - KEEP_RECORDS + i]
    <3> SUFFICES ASSUME NEW i \in 1..KEEP_RECORDS PROVE c[i] = a[Len(a) - KEEP_RECORDS + i]
      OBVIOUS
    <3> HIDE DEF c, k, a
    <3>1. from + i - 1 \in 1..Len(k) /\ Len(a) - Len(k) + (from + i - 1) = Len(a) - KEEP_RECORDS + i
      BY <1>1, <1>3, <1>4
    <3>2. c[i] = k[from + i - 1] /\ k[from + i - 1] = a[Len(a) - Len(k) + (from + i - 1)]
      BY <1>2, <2>2, <3>1
    <3> QED BY <3>1, <3>2
  <2>4. Trimmed(k) = c
    BY <1>4 DEF Trimmed
  <2> HIDE DEF c, k, a, from
  <2>5. KEEP_RECORDS <= Len(a)
    BY <1>1, <1>2, <1>3, <1>4
  <2>6. EndOf(c, a)
    BY <1>1, <1>3, <2>2, <2>3, <2>5 DEF EndOf
  <2> QED BY <1>3, <2>2, <2>4, <2>6
<1>5. CASE ~(Len(k) > MAX_RECORDS)
  <2>1. Trimmed(k) = k
    BY <1>5 DEF Trimmed
  <2>2. Len(k) < Len(a) => Len(k) >= KEEP_RECORDS
    BY <1>1, <1>3 DEF EndOf
  <2> HIDE DEF k, a
  <2>3. EndOf(k, a)
    BY <1>2, <2>2 DEF EndOf
  <2> QED BY <1>1, <1>3, <1>5, <2>1, <2>3
<1> QED BY <1>4, <1>5

Behind(n, kept, all) ==
  Len(all) = n + Len(kept) /\ \A i \in 1..Len(kept) : kept[i] = all[n + i]

(* A day's records are those among the first n and those behind them. *)
LEMMA TotalSplits ==
  ASSUME NEW S, NEW kept \in Seq(S), NEW all \in Seq(S), NEW n \in Nat, NEW d, Behind(n, kept, all)
  PROVE  /\ DayTotal(kept, d) \in Nat /\ DayTotal(SubSeq(all, 1, n), d) \in Nat
         /\ DayTotal(all, d) = DayTotal(SubSeq(all, 1, n), d) + DayTotal(kept, d)
<1> DEFINE A == {i \in 1..Len(all) : all[i] = d}
           E == {i \in 1..n : all[i] = d}
           L == {i \in (n + 1)..Len(all) : all[i] = d}
           K == {i \in 1..Len(kept) : kept[i] = d}
<1>1. /\ Len(kept) \in Nat /\ Len(all) \in Nat
      /\ Len(all) = n + Len(kept) /\ \A i \in 1..Len(kept) : kept[i] = all[n + i]
  BY DEF Behind
<1>2. IsFiniteSet(E) /\ IsFiniteSet(L) /\ IsFiniteSet(K)
  <2>1. 1 \in Int /\ n \in Int /\ n + 1 \in Int /\ Len(all) \in Int /\ Len(kept) \in Int
    BY <1>1
  <2>2. IsFiniteSet(1..n) /\ IsFiniteSet((n + 1)..Len(all)) /\ IsFiniteSet(1..Len(kept))
    BY <2>1, FS_Interval
  <2>3. E \in SUBSET (1..n) /\ L \in SUBSET ((n + 1)..Len(all)) /\ K \in SUBSET (1..Len(kept))
    OBVIOUS
  <2> QED BY <2>2, <2>3, FS_Subset
<1>3. A = E \cup L /\ E \cap L = {}
  BY <1>1
<1>4. Cardinality(L) = Cardinality(K)
  <2> DEFINE f == [i \in K |-> n + i]
  <2>1. f \in Bijection(K, L)
    <3>1. f \in [K -> L]
      BY <1>1
    <3>2. \A i, j \in K : f[i] = f[j] => i = j
      BY <1>1
    <3>3. \A l \in L : \E i \in K : f[i] = l
      <4> SUFFICES ASSUME NEW l \in L PROVE \E i \in K : f[i] = l
        OBVIOUS
      <4>1. l - n \in 1..Len(kept) /\ n + (l - n) = l
        BY <1>1
      <4>2. l - n \in K
        <5>1. kept[l - n] = all[n + (l - n)]
          BY <1>1, <4>1
        <5> QED BY <4>1, <5>1
      <4> QED BY <4>1, <4>2
    <3> QED BY <3>1, <3>2, <3>3 DEF Bijection, Injection, Surjection, IsInjective
  <2> HIDE DEF f, K, L
  <2> QED BY <1>2, <2>1, FS_Bijection DEF ExistsBijection
<1>5. Cardinality(A) = Cardinality(E) + Cardinality(K) /\ Cardinality(E) \in Nat /\ Cardinality(K) \in Nat
  <2> HIDE DEF A, E, L, K
  <2>1. Cardinality(E \cup L) = Cardinality(E) + Cardinality(L) - Cardinality(E \cap L)
    BY <1>2, FS_Union
  <2>2. Cardinality(E) \in Nat /\ Cardinality(K) \in Nat
    BY <1>2, FS_CardinalityType
  <2>3. Cardinality(E \cap L) = 0
    BY <1>3, FS_EmptySet
  <2> QED BY <1>3, <1>4, <2>1, <2>2, <2>3
<1>6. DayTotal(kept, d) = Cardinality(K) /\ DayTotal(all, d) = Cardinality(A)
  <2>1. DOMAIN kept = 1..Len(kept) /\ DOMAIN all = 1..Len(all)
    BY LenProperties, Zenon
  <2> QED BY <2>1, Zenon DEF DayTotal
<1>7. DayTotal(SubSeq(all, 1, n), d) = Cardinality(E)
  <2>1. /\ DOMAIN SubSeq(all, 1, n) = 1..n
        /\ \A i \in 1..n : SubSeq(all, 1, n)[i] = all[i]
    BY <1>1
  <2>2. {i \in DOMAIN SubSeq(all, 1, n) : SubSeq(all, 1, n)[i] = d} = E
    BY <2>1
  <2> QED BY <2>2 DEF DayTotal
<1> HIDE DEF A, E, K
<1> QED BY <1>5, <1>6, <1>7

LEMMA LedgerStarts == LedgerInit => LedgerInv
<1> SUFFICES ASSUME LedgerInit PROVE LedgerInv
  OBVIOUS
<1>1. /\ \A p \in Payers : cost_records[p] = <<>> /\ tracked[p] = <<>>
      /\ Len(<<>>) = 0 /\ <<>> \in Seq(0..MaxDay)
      /\ MAX_RECORDS \in Nat /\ 0 \in 0..MaxDay /\ 0 \in 0..MaxResets
  BY LedgerAssumption DEF LedgerInit
<1>2. LedgerTypeOK
  BY <1>1 DEF LedgerInit, LedgerTypeOK
<1>3. AlertsAreKeyed
  BY DEF LedgerInit, AlertsAreKeyed
<1>4. \A p \in Payers : EndOf(cost_records[p], tracked[p])
  <2>1. EndOf(<<>>, <<>>)
    BY DEF EndOf
  <2> QED BY <1>1, <2>1
<1> QED BY <1>2, <1>3, <1>4 DEF LedgerInv

LEMMA TrackKeeps == ASSUME LedgerInv, NEW p \in Payers, Track(p) PROVE LedgerInv'
<1>1. /\ cost_records[p] \in Seq(0..MaxDay) /\ tracked[p] \in Seq(0..MaxDay) /\ today \in 0..MaxDay
      /\ Len(cost_records[p]) <= MAX_RECORDS /\ EndOf(cost_records[p], tracked[p])
  BY DEF LedgerInv, LedgerTypeOK
<1>2. /\ Trimmed(Append(cost_records[p], today)) \in Seq(0..MaxDay)
      /\ Len(Trimmed(Append(cost_records[p], today))) <= MAX_RECORDS
      /\ EndOf(Trimmed(Append(cost_records[p], today)), Append(tracked[p], today))
  BY <1>1, TrimKeepsEnd, Zenon
<1>3. /\ cost_records' = [cost_records EXCEPT ![p] = Trimmed(Append(cost_records[p], today))]
      /\ tracked' = [tracked EXCEPT ![p] = Append(tracked[p], today)]
      /\ alerts_sent' = alerts_sent /\ today' = today /\ totals' = totals
      /\ emitted' = emitted /\ resets' = resets
  BY DEF Track
<1>4. Append(tracked[p], today) \in Seq(0..MaxDay)
  BY <1>1
<1>5. LedgerTypeOK'
  BY <1>2, <1>3, <1>4 DEF LedgerInv, LedgerTypeOK
<1>6. AlertsAreKeyed'
  BY <1>3, Zenon DEF LedgerInv, AlertsAreKeyed
<1>7. \A q \in Payers : EndOf(cost_records'[q], tracked'[q])
  BY <1>2, <1>3 DEF LedgerInv, LedgerTypeOK
<1> QED BY <1>5, <1>6, <1>7 DEF LedgerInv

LEMMA CheckKeeps == ASSUME LedgerInv, NEW p \in Payers, CheckAndEmitAlert(p) PROVE LedgerInv'
<1> DEFINE new == {<<p, kind, PeriodOf(kind)>> : kind \in Due(totals[p])} \ alerts_sent
<1>1. /\ alerts_sent' = alerts_sent \cup new
      /\ emitted' = [a \in DOMAIN emitted \cup new |->
            (IF a \in DOMAIN emitted THEN emitted[a] ELSE 0) + (IF a \in new THEN 1 ELSE 0)]
      /\ cost_records' = cost_records /\ today' = today /\ tracked' = tracked /\ resets' = resets
  BY DEF CheckAndEmitAlert
<1>2. new \subseteq Payers \X AlertKinds \X (0..MaxDay)
  <2>1. today \in 0..MaxDay /\ today \in Nat /\ MaxDay \in Nat
    BY LedgerAssumption DEF LedgerInv, LedgerTypeOK
  <2>2. MonthOf(today) \in 0..MaxDay
    <3>1. MonthOf(today) \in 0..today
      BY <2>1, MonthIsBounded
    <3> QED BY <2>1, <3>1
  <2>3. \A kind \in AlertKinds : PeriodOf(kind) \in 0..MaxDay
    BY <2>1, <2>2 DEF PeriodOf
  <2>4. Due(totals[p]) \subseteq AlertKinds
    BY DEF Due
  <2> QED BY <2>3, <2>4
<1>3. AlertsAreKeyed'
  <2> HIDE DEF new
  <2>1. DOMAIN emitted = alerts_sent /\ new \cap alerts_sent = {} /\ \A a \in alerts_sent : emitted[a] = 1
    BY DEF LedgerInv, AlertsAreKeyed, new
  <2>2. DOMAIN emitted' = alerts_sent'
    BY <1>1, <2>1
  <2>3. ASSUME NEW a \in alerts_sent' PROVE emitted'[a] = 1
    <3>1. CASE a \in new
      BY <1>1, <2>1, <3>1
    <3>2. CASE a \in alerts_sent
      BY <1>1, <2>1, <3>2
    <3> QED BY <1>1, <3>1, <3>2
  <2> QED BY <2>2, <2>3 DEF AlertsAreKeyed
<1> HIDE DEF new
<1>4. LedgerTypeOK' /\ \A q \in Payers : EndOf(cost_records'[q], tracked'[q])
  BY <1>1, <1>2 DEF LedgerInv, LedgerTypeOK
<1> QED BY <1>3, <1>4 DEF LedgerInv

(* What the reset calls do to the two halves of the ledger. *)
ForgetsAlerts(ps) ==
  /\ alerts_sent' = {a \in alerts_sent : a[1] \notin ps}
  /\ emitted' = [a \in {b \in DOMAIN emitted : b[1] \notin ps} |-> emitted[a]]

ForgetsRecords(ps) ==
  /\ cost_records' = [p \in Payers |-> IF p \in ps THEN <<>> ELSE cost_records[p]]
  /\ tracked' = [p \in Payers |-> IF p \in ps THEN <<>> ELSE tracked[p]]

LEMMA ResetsKeep ==
  ASSUME LedgerInv, NEW ps, resets' \in 0..MaxResets, today' \in 0..MaxDay,
         ForgetsAlerts(ps) \/ UNCHANGED <<alerts_sent, emitted>>,
         ForgetsRecords(ps) \/ UNCHANGED <<cost_records, tracked>>
  PROVE  LedgerInv'
<1>1. AlertsAreKeyed' /\ alerts_sent' \subseteq alerts_sent
  <2>1. CASE ForgetsAlerts(ps)
    BY <2>1 DEF LedgerInv, AlertsAreKeyed, ForgetsAlerts
  <2>2. CASE UNCHANGED <<alerts_sent, emitted>>
    BY <2>2 DEF LedgerInv, AlertsAreKeyed
  <2> QED BY <2>1, <2>2
<1>2. /\ cost_records' \in [Payers -> Seq(0..MaxDay)] /\ tracked' \in [Payers -> Seq(0..MaxDay)]
      /\ \A p \in Payers : Len(cost_records'[p]) <= MAX_RECORDS /\ EndOf(cost_records'[p], tracked'[p])
  <2>1. CASE ForgetsRecords(ps)
    <3>1. <<>> \in Seq(0..MaxDay) /\ Len(<<>>) <= MAX_RECORDS /\ EndOf(<<>>, <<>>)
      BY LedgerAssumption DEF EndOf
    <3>2. ASSUME NEW p \in Payers
          PROVE  \/ cost_records'[p] = <<>> /\ tracked'[p] = <<>>
                 \/ cost_records'[p] = cost_records[p] /\ tracked'[p] = tracked[p]
      BY <2>1 DEF ForgetsRecords
    <3>3. ASSUME NEW p \in Payers
          PROVE  /\ cost_records'[p] \in Seq(0..MaxDay) /\ tracked'[p] \in Seq(0..MaxDay)
                 /\ Len(cost_records'[p]) <= MAX_RECORDS /\ EndOf(cost_records'[p], tracked'[p])
      BY <3>1, <3>2 DEF LedgerInv, LedgerTypeOK
    <3> QED BY <2>1, <3>3 DEF ForgetsRecords
  <2>2. CASE UNCHANGED <<cost_records, tracked>>
    BY <2>2 DEF LedgerInv, LedgerTypeOK
  <2> QED BY <2>1, <2>2
<1> QED BY <1>1, <1>2 DEF LedgerInv, LedgerTypeOK

LEMMA LedgerStep == LedgerInv /\ (LedgerNext \/ UNCHANGED ledgerVars) => LedgerInv'
<1> SUFFICES ASSUME LedgerInv, LedgerNext \/ UNCHANGED ledgerVars PROVE LedgerInv'
  OBVIOUS
<1>0. today \in 0..MaxDay /\ resets \in 0..MaxResets /\ MaxDay \in Nat /\ MaxResets \in Nat
  BY LedgerAssumption DEF LedgerInv, LedgerTypeOK
<1>1. ASSUME NEW p \in Payers, Track(p) PROVE LedgerInv'
  BY <1>1, TrackKeeps
<1>2. ASSUME NEW p \in Payers, ReadTotals(p) PROVE LedgerInv'
  BY <1>0, <1>2, ResetsKeep, Zenon DEF ReadTotals
<1>3. ASSUME NEW p \in Payers, CheckAndEmitAlert(p) PROVE LedgerInv'
  BY <1>3, CheckKeeps
<1>4. ASSUME NEW ps, ResetAlerts(ps) \/ ResetRecords(ps) \/ ResetAll(ps) PROVE LedgerInv'
  <2>1. resets' \in 0..MaxResets /\ today' \in 0..MaxDay
    BY <1>0, <1>4 DEF ResetAlerts, ResetRecords, ResetAll
  <2>2. ForgetsAlerts(ps) \/ UNCHANGED <<alerts_sent, emitted>>
    BY <1>4, Zenon DEF ResetAlerts, ResetRecords, ResetAll, ForgetsAlerts
  <2>3. ForgetsRecords(ps) \/ UNCHANGED <<cost_records, tracked>>
    BY <1>4, Zenon DEF ResetAlerts, ResetRecords, ResetAll, ForgetsRecords
  <2> QED BY <2>1, <2>2, <2>3, ResetsKeep
<1>5. CASE DayPasses
  <2>1. resets' \in 0..MaxResets /\ today' \in 0..MaxDay
    BY <1>0, <1>5 DEF DayPasses
  <2>2. UNCHANGED <<alerts_sent, emitted>> /\ UNCHANGED <<cost_records, tracked>>
    BY <1>5, Zenon DEF DayPasses
  <2> QED BY <2>1, <2>2, ResetsKeep
<1>6. CASE UNCHANGED ledgerVars
  <2>1. resets' \in 0..MaxResets /\ today' \in 0..MaxDay
    BY <1>0, <1>6 DEF ledgerVars
  <2>2. UNCHANGED <<alerts_sent, emitted>> /\ UNCHANGED <<cost_records, tracked>>
    BY <1>6, Zenon DEF ledgerVars
  <2> QED BY <2>1, <2>2, ResetsKeep
<1> QED BY <1>1, <1>2, <1>3, <1>4, <1>5, <1>6 DEF LedgerNext

CountsTheEnd(kept, all) ==
  LET lost == Len(all) - Len(kept) IN
  /\ lost > 0 => Len(all) >= lost + KEEP_RECORDS
  /\ \A d \in 0..today : DayTotal(kept, d) = DayTotal(all, d) - DayTotal(SubSeq(all, 1, lost), d)

LEMMA EndCounts ==
  ASSUME NEW S, NEW kept \in Seq(S), NEW all \in Seq(S), EndOf(kept, all)
  PROVE  CountsTheEnd(kept, all)
<1> DEFINE lost == Len(all) - Len(kept)
<1>1. /\ Len(kept) \in Nat /\ Len(all) \in Nat /\ Len(kept) <= Len(all)
      /\ \A i \in 1..Len(kept) : kept[i] = all[lost + i]
      /\ Len(kept) < Len(all) => Len(kept) >= KEEP_RECORDS
  BY DEF EndOf
<1>2. lost \in Nat /\ Len(all) = lost + Len(kept)
  BY <1>1
<1>3. lost > 0 => Len(all) >= lost + KEEP_RECORDS
  BY <1>1, LedgerAssumption
<1>4. Behind(lost, kept, all)
  BY <1>1, <1>2 DEF Behind
<1> HIDE DEF lost
<1>5. ASSUME NEW d PROVE DayTotal(kept, d) = DayTotal(all, d) - DayTotal(SubSeq(all, 1, lost), d)
  <2>1. /\ DayTotal(kept, d) \in Nat /\ DayTotal(SubSeq(all, 1, lost), d) \in Nat
        /\ DayTotal(all, d) = DayTotal(SubSeq(all, 1, lost), d) + DayTotal(kept, d)
    <3>1. \A D : /\ DayTotal(kept, D) \in Nat /\ DayTotal(SubSeq(all, 1, lost), D) \in Nat
                 /\ DayTotal(all, D) = DayTotal(SubSeq(all, 1, lost), D) + DayTotal(kept, D)
      BY <1>2, <1>4, TotalSplits
    <3> QED BY <3>1
  <2> QED BY <2>1
<1> QED BY <1>3, <1>5, Zenon DEF CountsTheEnd, lost

LEMMA LedgerCounts == LedgerInv => TotalsMissOnlyTheOldest /\ OneAlertPerPeriod
<1> SUFFICES ASSUME LedgerInv PROVE TotalsMissOnlyTheOldest /\ OneAlertPerPeriod
  OBVIOUS
<1>1. OneAlertPerPeriod
  BY DEF LedgerInv, AlertsAreKeyed, OneAlertPerPeriod
<1>2. ASSUME NEW p \in Payers PROVE CountsTheEnd(cost_records[p], tracked[p])
  BY EndCounts DEF LedgerInv, LedgerTypeOK
<1>3. TotalsMissOnlyTheOldest
  BY <1>2, Zenon DEF TotalsMissOnlyTheOldest, CountsTheEnd
<1> QED BY <1>1, <1>3

-----------------------------------------------------------------------------
(* The telemetry history.  A batch on its way has looked up the owner of   *)
(* whatever is no longer on its list.  A reading client has every old      *)
(* point with an event time of its own, or at least as many newer points   *)
(* are stored as it has paged over: the point is still to come.            *)

Point == [device : Devices, datapoint : DataPoints, time : 1..MaxTime, tenant : HistoryTenants, from : Ingests]

UnderWay ==
  [pc : {"checking", "flushed", "committed"}, tenant : HistoryTenants, batch : Seq(Samples),
   todo : SUBSET (Devices \cup DataPoints)]

Reader ==
  [pc : {"reading", "ended"}, tenant : HistoryTenants, id : Devices \cup DataPoints \cup {"any"},
   start : Nat, end : Nat, offset : Nat, got : SUBSET Nat, before : Nat]

HistoryShape ==
  /\ stored \in Seq(Point)
  /\ ingest \in [Ingests -> {Unsent, Settled, Acknowledged} \cup UnderWay]
  /\ pager = [pc |-> "ready"] \/ (pager \in Reader /\ pager.before <= Len(stored))

LookedUp(c) ==
  /\ ingest[c].pc = "flushed" => ingest[c].todo = {}
  /\ ingest[c].pc \in {"checking", "flushed"} =>
      \A i \in DOMAIN ingest[c].batch : \A id \in {ingest[c].batch[i].device, ingest[c].batch[i].datapoint} :
        id \in ingest[c].todo \/ Owner[id] = ingest[c].tenant

Alone(i) == \A j \in DOMAIN stored \ {i} : stored[j].time # stored[i].time

Newer(i) == {j \in Hits : stored[j].time > stored[i].time}

StillToCome ==
  pager.pc = "reading" =>
    \A i \in 1..pager.before :
      Matches(stored[i]) /\ Alone(i) => i \in pager.got \/ Cardinality(Newer(i)) >= pager.offset

HistoryInv ==
  /\ HistoryShape /\ \A c \in Ingests : LookedUp(c)
  /\ StoredPointsAreOwned /\ BatchIsAtomic
  /\ StillToCome /\ PagesMissNothing

LEMMA HistoryStarts == HistoryInit => HistoryInv
<1> SUFFICES ASSUME HistoryInit PROVE HistoryInv
  OBVIOUS
<1>1. /\ stored = <<>> /\ pager = [pc |-> "ready"] /\ pager.pc = "ready"
      /\ ingest = [c \in Ingests |-> Unsent] /\ \A c \in Ingests : ingest[c].pc = "ready"
      /\ DOMAIN stored = {}
  BY DEF HistoryInit, Unsent
<1>2. HistoryShape
  BY <1>1 DEF HistoryShape
<1>3. StillToCome /\ PagesMissNothing /\ StoredPointsAreOwned /\ \A c \in Ingests : LookedUp(c)
  BY <1>1 DEF StillToCome, PagesMissNothing, StoredPointsAreOwned, LookedUp
<1>4. BatchIsAtomic
  BY <1>1, FS_EmptySet DEF BatchIsAtomic
<1> QED BY <1>2, <1>3, <1>4 DEF HistoryInv

LEMMA FiniteHits == ASSUME HistoryShape PROVE IsFiniteSet(Hits) /\ \A i : IsFiniteSet(Newer(i))
<1>1. DOMAIN stored = 1..Len(stored) /\ Len(stored) \in Int /\ 1 \in Int
  BY DEF HistoryShape
<1>2. IsFiniteSet(DOMAIN stored)
  BY <1>1, FS_Interval
<1>3. IsFiniteSet(Hits)
  BY <1>2, FS_Subset DEF Hits
<1> QED BY <1>3, FS_Subset DEF Newer

(* In every order the database may answer in, exactly the newer points     *)
(* stand before a point that has its event time for itself.                *)
LEMMA PlaceOfPoint ==
  ASSUME HistoryShape, NEW order \in NewestFirst, NEW i \in Hits, Alone(i)
  PROVE  \E p \in 1..Len(order) : order[p] = i /\ p = Cardinality(Newer(i)) + 1
<1> DEFINE n == Cardinality(Hits)
<1>1. n \in Nat /\ IsFiniteSet(Hits)
  BY FiniteHits, FS_CardinalityType
<1>2. /\ order \in [1..n -> Hits]
      /\ \A a, b \in 1..n : order[a] = order[b] => a = b
      /\ \A a, b \in 1..n : a < b => stored[order[a]].time >= stored[order[b]].time
  BY DEF NewestFirst, SetToSeqs
<1>3. Len(order) = n /\ Hits \subseteq DOMAIN stored
  BY <1>1, <1>2 DEF Hits
<1>4. order \in Surjection(1..n, Hits)
  <2>1. order \in Injection(1..n, Hits)
    BY <1>2 DEF Injection, IsInjective
  <2>2. Cardinality(1..n) = n
    <3>1. 1 \in Int /\ n \in Int
      BY <1>1
    <3>2. Cardinality(1..n) = IF 1 > n THEN 0 ELSE n - 1 + 1
      BY <3>1, FS_Interval
    <3> HIDE DEF n
    <3> QED BY <1>1, <3>2
  <2> QED BY <1>1, <2>1, <2>2, FS_Injection
<1> HIDE DEF n
<1>5. PICK p \in 1..n : order[p] = i
  BY <1>4 DEF Surjection
<1>6. \A j \in Hits : stored[j].time \in Int /\ (j # i => stored[j].time # stored[i].time)
  <2>1. \A j \in DOMAIN stored : stored[j] \in Point
    BY DEF HistoryShape
  <2>2. \A j \in DOMAIN stored : stored[j].time \in Int
    BY <2>1 DEF Point
  <2> QED BY <1>3, <2>2, Zenon DEF Alone
<1>7. \A q \in 1..n : order[q] \in Newer(i) <=> q < p
  <2> SUFFICES ASSUME NEW q \in 1..n PROVE order[q] \in Newer(i) <=> q < p
    OBVIOUS
  <2>1. order[q] \in Hits /\ order[p] = i
    BY <1>2, <1>5
  <2>2. CASE q < p
    <3>1. stored[order[q]].time >= stored[i].time /\ order[q] # i
      BY <1>2, <1>5, <2>2
    <3> QED BY <1>6, <2>1, <2>2, <3>1 DEF Newer
  <2>3. CASE q > p
    <3>1. stored[i].time >= stored[order[q]].time
      BY <1>2, <1>5, <2>3
    <3> QED BY <1>6, <2>1, <2>3, <3>1 DEF Newer
  <2>4. CASE q = p
    BY <1>5, <1>6, <2>4 DEF Newer
  <2> QED BY <2>2, <2>3, <2>4
<1>8. Cardinality(Newer(i)) = p - 1
  <2> DEFINE f == [q \in 1..(p - 1) |-> order[q]]
  <2>1. f \in Bijection(1..(p - 1), Newer(i))
    <3>0. \A q \in 1..(p - 1) : q \in 1..n /\ q < p /\ f[q] = order[q]
      BY <1>1
    <3>1. f \in [1..(p - 1) -> Newer(i)]
      <4>1. \A q \in 1..(p - 1) : order[q] \in Newer(i)
        BY <1>7, <3>0
      <4> QED BY <4>1
    <3>2. \A a, b \in 1..(p - 1) : f[a] = f[b] => a = b
      BY <1>2, <3>0
    <3>3. \A j \in Newer(i) : \E q \in 1..(p - 1) : f[q] = j
      <4> SUFFICES ASSUME NEW j \in Newer(i) PROVE \E q \in 1..(p - 1) : f[q] = j
        OBVIOUS
      <4>1. PICK q \in 1..n : order[q] = j
        BY <1>4 DEF Surjection, Newer
      <4>2. q \in 1..(p - 1)
        BY <1>7, <4>1
      <4> QED BY <4>1, <4>2
    <3> QED BY <3>1, <3>2, <3>3 DEF Bijection, Injection, Surjection, IsInjective
  <2> HIDE DEF f
  <2>2. 1 \in Int /\ p - 1 \in Int
    OBVIOUS
  <2>3. IsFiniteSet(1..(p - 1)) /\ Cardinality(1..(p - 1)) = IF 1 > p - 1 THEN 0 ELSE p - 1 - 1 + 1
    BY <2>2, FS_Interval
  <2>4. Cardinality(Newer(i)) = Cardinality(1..(p - 1))
    BY <2>1, <2>3, FS_Bijection DEF ExistsBijection
  <2> QED BY <2>3, <2>4
<1> QED BY <1>3, <1>5, <1>8

(* Nothing was stored and nothing read. *)
LEMMA ReadersRest ==
  ASSUME HistoryInv, stored' = stored, pager' = pager
  PROVE  StillToCome' /\ PagesMissNothing' /\ StoredPointsAreOwned'
<1>1. \A p : Matches(p)' <=> Matches(p)
  BY DEF Matches, QueryByDevice, QueryByDatapoint, QueryRange, InRange
<1>2. Hits' = Hits
  BY <1>1 DEF Hits
<1>3. \A i : (Alone(i)' <=> Alone(i)) /\ Newer(i)' = Newer(i)
  BY <1>2 DEF Alone, Newer
<1>4. \A i : Matches(stored[i])' <=> Matches(stored[i])
  BY DEF Matches, QueryByDevice, QueryByDatapoint, QueryRange, InRange
<1>5. StillToCome'
  BY <1>3, <1>4 DEF HistoryInv, StillToCome
<1>6. PagesMissNothing'
  BY <1>4 DEF HistoryInv, PagesMissNothing
<1> QED BY <1>5, <1>6 DEF HistoryInv, StoredPointsAreOwned

(* A call moves on without storing anything. *)
LEMMA CallMoves ==
  ASSUME HistoryInv, NEW c \in Ingests, NEW state \in {Unsent, Settled, Acknowledged} \cup UnderWay,
         ingest' = [ingest EXCEPT ![c] = state], ingest[c].pc # "committed", state.pc # "committed",
         LookedUp(c)', stored' = stored, pager' = pager
  PROVE  HistoryInv'
<1>1. HistoryShape'
  BY DEF HistoryInv, HistoryShape
<1>2. \A d \in Ingests : d # c => ingest'[d] = ingest[d]
  BY DEF HistoryInv, HistoryShape
<1>3. ingest'[c].pc # "committed"
  BY DEF HistoryInv, HistoryShape
<1>4. \A d \in Ingests : LookedUp(d)'
  <2> SUFFICES ASSUME NEW d \in Ingests, d # c PROVE LookedUp(d)'
    OBVIOUS
  <2>1. ingest'[d] = ingest[d] /\ LookedUp(d)
    BY <1>2 DEF HistoryInv
  <2> QED BY <2>1 DEF LookedUp
<1>5. BatchIsAtomic'
  <2> SUFFICES ASSUME NEW d \in Ingests
               PROVE  Cardinality({i \in DOMAIN stored' : stored'[i].from = d})
                        = IF ingest'[d].pc = "committed" THEN Len(ingest'[d].batch) ELSE 0
    BY DEF BatchIsAtomic
  <2>1. Cardinality({i \in DOMAIN stored : stored[i].from = d})
          = IF ingest[d].pc = "committed" THEN Len(ingest[d].batch) ELSE 0
    BY Zenon DEF HistoryInv, BatchIsAtomic
  <2>2. CASE d = c
    BY <1>3, <2>1, <2>2, Zenon
  <2>3. CASE d # c
    BY <1>2, <2>1, <2>3, Zenon
  <2> QED BY <2>2, <2>3
<1> QED BY <1>1, <1>4, <1>5, ReadersRest DEF HistoryInv

LEMMA IngestKeeps ==
  ASSUME HistoryInv, NEW c \in Ingests, NEW tenant \in HistoryTenants, NEW batch \in Seq(Samples),
         IngestBatch(c, tenant, batch)
  PROVE  HistoryInv'
<1> DEFINE ids == {batch[i].device : i \in DOMAIN batch} \cup {batch[i].datapoint : i \in DOMAIN batch}
           begun == [pc |-> "checking", tenant |-> tenant, batch |-> batch, todo |-> ids]
<1>1. ingest[c].pc = "ready" /\ c \in DOMAIN ingest /\ stored' = stored /\ pager' = pager
  BY DEF IngestBatch, Unsent, HistoryInv, HistoryShape
<1>2. \A i \in DOMAIN batch : batch[i].device \in Devices /\ batch[i].datapoint \in DataPoints
  BY HistoryAssumption
<1>3. ids \in SUBSET (Devices \cup DataPoints)
  BY <1>2
<1>4. CASE \E i \in DOMAIN batch : ~batch[i].valid
  <2>1. ingest' = [ingest EXCEPT ![c] = Settled]
    BY <1>4 DEF IngestBatch
  <2>2. Settled.pc = "settled" /\ ingest'[c] = Settled
    BY <1>1, <2>1 DEF Settled
  <2>3. LookedUp(c)'
    BY <2>2 DEF LookedUp
  <2> QED BY <1>1, <2>1, <2>2, <2>3, CallMoves
<1>5. CASE ~\E i \in DOMAIN batch : ~batch[i].valid
  <2>1. ingest' = [ingest EXCEPT ![c] = begun]
    BY <1>5 DEF IngestBatch
  <2>2. begun \in UnderWay
    <3> HIDE DEF ids
    <3> QED BY <1>3 DEF UnderWay
  <2>3. ingest'[c] = begun
    BY <1>1, <2>1
  <2>4. LookedUp(c)'
    BY <2>3 DEF LookedUp
  <2>5. begun.pc = "checking"
    OBVIOUS
  <2> HIDE DEF begun
  <2> QED BY <1>1, <2>1, <2>2, <2>4, <2>5, CallMoves
<1> QED BY <1>4, <1>5

LEMMA VerifyKeeps ==
  ASSUME HistoryInv, NEW c \in Ingests, NEW id, VerifyOwner(c, id) PROVE HistoryInv'
<1>1. /\ ingest[c].pc = "checking" /\ ingest[c] \in {Unsent, Settled, Acknowledged} \cup UnderWay
      /\ c \in DOMAIN ingest /\ stored' = stored /\ pager' = pager /\ LookedUp(c)
  BY DEF VerifyOwner, HistoryInv, HistoryShape
<1>2. ingest[c] \in UnderWay
  BY <1>1 DEF Unsent, Settled, Acknowledged
<1>3. CASE id \in gone \/ Owner[id] # ingest[c].tenant
  <2>1. ingest' = [ingest EXCEPT ![c] = Settled]
    BY <1>3 DEF VerifyOwner
  <2>2. Settled.pc = "settled" /\ ingest'[c] = Settled
    BY <1>1, <2>1 DEF Settled
  <2>3. LookedUp(c)'
    BY <2>2 DEF LookedUp
  <2> QED BY <1>1, <2>1, <2>2, <2>3, CallMoves
<1>4. CASE ~(id \in gone \/ Owner[id] # ingest[c].tenant)
  <2> DEFINE now == [ingest[c] EXCEPT !.todo = ingest[c].todo \ {id}]
  <2>1. ingest' = [ingest EXCEPT ![c] = now]
    <3>1. ingest' = [ingest EXCEPT ![c] = IF id \in gone \/ Owner[id] # ingest[c].tenant THEN Settled ELSE now]
      BY <1>1 DEF VerifyOwner
    <3> HIDE DEF now
    <3> QED BY <1>4, <3>1
  <2>2. /\ now.pc = "checking" /\ now.tenant = ingest[c].tenant /\ now.batch = ingest[c].batch
        /\ now.todo = ingest[c].todo \ {id} /\ now \in UnderWay
    BY <1>1, <1>2 DEF UnderWay
  <2>3. ingest'[c] = now
    BY <1>1, <2>1
  <2> HIDE DEF now
  <2>4. LookedUp(c)'
    BY <1>1, <1>4, <2>2, <2>3 DEF LookedUp
  <2> QED BY <1>1, <2>1, <2>2, <2>4, CallMoves
<1> QED BY <1>3, <1>4

LEMMA FailsKeeps == ASSUME HistoryInv, NEW c \in Ingests, SaveFails(c) PROVE HistoryInv'
<1>1. /\ ingest' = [ingest EXCEPT ![c] = Settled] /\ ingest[c].pc \in {"checking", "flushed"}
      /\ c \in DOMAIN ingest /\ stored' = stored /\ pager' = pager
  BY DEF SaveFails, HistoryInv, HistoryShape
<1>2. Settled.pc = "settled" /\ ingest'[c] = Settled
  BY <1>1 DEF Settled
<1>3. LookedUp(c)'
  BY <1>2 DEF LookedUp
<1> QED BY <1>1, <1>2, <1>3, CallMoves

LEMMA IntervalSize ==
  ASSUME NEW n \in Int, NEW k \in Nat
  PROVE  IsFiniteSet((n + 1)..(n + k)) /\ Cardinality((n + 1)..(n + k)) = k
<1>1. \A a, b \in Int : IsFiniteSet(a..b) /\ Cardinality(a..b) = IF a > b THEN 0 ELSE b - a + 1
  BY FS_Interval
<1>2. PICK a \in Int, b \in Int : a = n + 1 /\ b = n + k
  OBVIOUS
<1>3. Cardinality(a..b) = IF a > b THEN 0 ELSE b - a + 1
  BY <1>1
<1>4. Cardinality(a..b) = k /\ IsFiniteSet(a..b)
  BY <1>1, <1>2, <1>3
<1> QED BY <1>2, <1>4

(* The flush, and the end of a route: nothing is stored. *)
LEMMA SaveKeeps ==
  ASSUME HistoryInv, NEW c \in Ingests, SaveBatch(c) \/ CloseRoute(c) PROVE HistoryInv'
<1>1. /\ c \in DOMAIN ingest /\ stored' = stored /\ pager' = pager /\ LookedUp(c)
      /\ ingest[c].pc \in {"checking", "flushed"}
  BY DEF SaveBatch, CloseRoute, HistoryInv, HistoryShape
<1>2. ingest[c] \in UnderWay
  BY <1>1 DEF HistoryInv, HistoryShape, Unsent, Settled, Acknowledged
<1>3. CASE SaveBatch(c)
  <2>1. PICK k \in UnderWay : k = ingest[c] /\ k.pc = "checking" /\ k.todo = {}
    BY <1>2, <1>3 DEF SaveBatch
  <2>2. PICK now : now = [k EXCEPT !.pc = "flushed"]
    OBVIOUS
  <2>3. /\ now \in UnderWay /\ now.pc = "flushed" /\ now.batch = k.batch
        /\ now.tenant = k.tenant /\ now.todo = {}
    BY <2>1, <2>2 DEF UnderWay
  <2>4. ingest' = [ingest EXCEPT ![c] = now] /\ ingest'[c] = now
    BY <1>1, <1>3, <2>1, <2>2 DEF SaveBatch
  <2>5. LookedUp(c)'
    BY <1>1, <2>1, <2>3, <2>4 DEF LookedUp
  <2>6. ingest[c].pc # "committed" /\ now.pc # "committed"
    BY <1>1, <2>3
  <2> QED BY <1>1, <2>3, <2>4, <2>5, <2>6, CallMoves
<1>4. CASE CloseRoute(c)
  <2>1. ingest' = [ingest EXCEPT ![c] = Acknowledged] /\ ingest'[c] = Acknowledged
    BY <1>1, <1>4 DEF CloseRoute
  <2>2. Acknowledged.pc = "answered"
    BY DEF Acknowledged
  <2>3. LookedUp(c)'
    BY <2>1, <2>2 DEF LookedUp
  <2>4. ingest[c].pc # "committed" /\ Acknowledged.pc # "committed"
    BY <1>1, <2>2
  <2> QED BY <1>1, <2>1, <2>3, <2>4, CallMoves
<1> QED BY <1>3, <1>4

LEMMA CommitKeeps == ASSUME HistoryInv, NEW c \in Ingests, CommitBatch(c) PROVE HistoryInv'
<1> DEFINE batch == ingest[c].batch
           new == [i \in DOMAIN batch |-> PointOf(c, i)]
           n == Len(stored)
           k == Len(batch)
<1>1. /\ ingest[c].pc = "flushed" /\ ingest[c].todo = {} /\ pager' = pager
      /\ stored' = stored \o new /\ ingest' = [ingest EXCEPT ![c].pc = "committed"]
  BY DEF CommitBatch, HistoryInv, LookedUp
<1>2. ingest[c] \in UnderWay /\ c \in DOMAIN ingest
  BY <1>1 DEF HistoryInv, HistoryShape, Unsent, Settled, Acknowledged
<1>3. batch \in Seq(Samples) /\ k \in Nat /\ DOMAIN batch = 1..k /\ ingest[c].tenant \in HistoryTenants
  BY <1>2 DEF UnderWay
<1>4. ASSUME NEW i \in 1..k
      PROVE  /\ new[i] \in Point /\ new[i].from = c
             /\ Owner[new[i].device] = new[i].tenant /\ Owner[new[i].datapoint] = new[i].tenant
  <2>1. batch[i] \in [device : Devices, datapoint : DataPoints, time : 1..MaxTime, valid : BOOLEAN]
    BY <1>3, HistoryAssumption
  <2>2. new[i] = [device |-> batch[i].device, datapoint |-> batch[i].datapoint,
                  time |-> batch[i].time, tenant |-> ingest[c].tenant, from |-> c]
    BY <1>3 DEF PointOf
  <2>3. new[i] \in Point
    BY <1>3, <2>1, <2>2 DEF Point
  <2>4. LookedUp(c)
    BY DEF HistoryInv
  <2>5. Owner[batch[i].device] = ingest[c].tenant /\ Owner[batch[i].datapoint] = ingest[c].tenant
    BY <1>1, <1>3, <2>4 DEF LookedUp
  <2> QED BY <2>2, <2>3, <2>5
<1>5. new \in Seq(Point) /\ Len(new) = k
  <2>1. new \in [1..k -> Point]
    BY <1>3, <1>4
  <2> HIDE DEF new, k
  <2> QED BY <1>3, <2>1
<1>6. stored \in Seq(Point) /\ n \in Nat /\ DOMAIN stored = 1..n
  BY DEF HistoryInv, HistoryShape
<1> HIDE DEF new, batch, k
<1>7. /\ stored' \in Seq(Point) /\ Len(stored') = n + k /\ DOMAIN stored' = 1..(n + k)
      /\ \A i \in 1..n : stored'[i] = stored[i]
      /\ \A i \in 1..k : stored'[n + i] = new[i]
  BY <1>1, <1>3, <1>5, <1>6
<1>8. \A i \in 1..(n + k) : i \in 1..n \/ (i - n \in 1..k /\ stored'[i] = new[i - n])
  <2> SUFFICES ASSUME NEW i \in 1..(n + k), i \notin 1..n PROVE i - n \in 1..k /\ stored'[i] = new[i - n]
    OBVIOUS
  <2>1. i - n \in 1..k /\ n + (i - n) = i
    BY <1>3, <1>6
  <2> QED BY <1>7, <2>1
<1>9. ingest'[c] \in UnderWay /\ ingest'[c].pc = "committed" /\ ingest'[c].batch = batch
  BY <1>1, <1>2 DEF UnderWay, batch
<1>10. \A d \in Ingests : d # c => ingest'[d] = ingest[d]
  BY <1>1 DEF HistoryInv, HistoryShape
<1>11. HistoryShape'
  <2>1. ingest' \in [Ingests -> {Unsent, Settled, Acknowledged} \cup UnderWay]
    BY <1>1, <1>9, <1>10 DEF HistoryInv, HistoryShape
  <2>2. pager = [pc |-> "ready"] \/ (pager \in Reader /\ pager.before <= n + k)
    <3>1. CASE pager \in Reader /\ pager.before <= n
      <4>1. pager.before \in Nat
        BY <3>1 DEF Reader
      <4> QED BY <1>3, <1>6, <3>1, <4>1
    <3> QED BY <3>1 DEF HistoryInv, HistoryShape
  <2> QED BY <1>1, <1>7, <2>1, <2>2 DEF HistoryShape
<1>12. \A d \in Ingests : LookedUp(d)'
  <2> SUFFICES ASSUME NEW d \in Ingests PROVE LookedUp(d)'
    OBVIOUS
  <2>1. CASE d = c
    BY <1>9, <2>1 DEF LookedUp
  <2>2. CASE d # c
    <3>1. ingest'[d] = ingest[d] /\ LookedUp(d)
      BY <1>10, <2>2 DEF HistoryInv
    <3> QED BY <3>1 DEF LookedUp
  <2> QED BY <2>1, <2>2
<1>13. StoredPointsAreOwned'
  <2> SUFFICES ASSUME NEW i \in DOMAIN stored'
               PROVE  Owner[stored'[i].device] = stored'[i].tenant /\ Owner[stored'[i].datapoint] = stored'[i].tenant
    BY DEF StoredPointsAreOwned
  <2>1. CASE i \in 1..n
    BY <1>6, <1>7, <2>1 DEF HistoryInv, StoredPointsAreOwned
  <2>2. CASE i \notin 1..n
    BY <1>4, <1>7, <1>8, <2>2
  <2> QED BY <2>1, <2>2
<1>14. BatchIsAtomic'
  <2> DEFINE Of(d) == {i \in DOMAIN stored : stored[i].from = d}
             OfNew(d) == {i \in DOMAIN stored' : stored'[i].from = d}
  <2> SUFFICES ASSUME NEW d \in Ingests
               PROVE  Cardinality(OfNew(d)) = IF ingest'[d].pc = "committed" THEN Len(ingest'[d].batch) ELSE 0
    BY DEF BatchIsAtomic
  <2>1. Cardinality(Of(d)) = IF ingest[d].pc = "committed" THEN Len(ingest[d].batch) ELSE 0
    BY Zenon DEF HistoryInv, BatchIsAtomic
  <2>2. CASE d # c
    <3>1. \A i \in 1..(n + k) : i \notin 1..n => stored'[i].from # d
      BY <1>4, <1>8, <2>2
    <3>2. OfNew(d) = Of(d)
      BY <1>3, <1>6, <1>7, <3>1
    <3> HIDE DEF Of, OfNew
    <3> QED BY <1>10, <2>1, <2>2, <3>2, Zenon
  <2>3. CASE d = c
    <3>1. Cardinality(Of(d)) = 0
      <4>1. ~(ingest[d].pc = "committed")
        BY <1>1, <2>3
      <4> HIDE DEF Of
      <4> QED BY <2>1, <4>1, Zenon
    <3>2. IsFiniteSet(Of(d))
      <4>1. 1 \in Int /\ n \in Int
        BY <1>6
      <4>2. IsFiniteSet(1..n)
        BY <4>1, FS_Interval
      <4> QED BY <1>6, <4>2, FS_Subset
    <3>3. Of(d) = {}
      <4> HIDE DEF Of
      <4> QED BY <3>1, <3>2, FS_EmptySet
    <3>4. \A i \in 1..n : stored'[i].from # d
      BY <1>6, <1>7, <3>3
    <3>5. \A i \in 1..(n + k) : i \notin 1..n => stored'[i].from = d
      BY <1>4, <1>8, <2>3
    <3>6. OfNew(d) = (n + 1)..(n + k)
      BY <1>3, <1>6, <1>7, <3>4, <3>5
    <3>7. Cardinality((n + 1)..(n + k)) = k
      <4>1. n \in Int /\ k \in Nat
        BY <1>3, <1>6
      <4> QED BY <4>1, IntervalSize, Zenon
    <3>8. ingest'[d].pc = "committed" /\ Len(ingest'[d].batch) = k
      BY <1>9, <2>3 DEF k
    <3> HIDE DEF OfNew
    <3> QED BY <3>6, <3>7, <3>8
  <2> QED BY <2>2, <2>3
<1>15. \A i \in 1..n : (Matches(stored[i])' <=> Matches(stored[i])) /\ (Alone(i)' => Alone(i))
  <2> SUFFICES ASSUME NEW i \in 1..n
               PROVE  (Matches(stored[i])' <=> Matches(stored[i])) /\ (Alone(i)' => Alone(i))
    OBVIOUS
  <2>1. Matches(stored[i])' <=> Matches(stored[i])
    BY <1>1, <1>7 DEF Matches, QueryByDevice, QueryByDatapoint, QueryRange, InRange
  <2>2. Alone(i)' => Alone(i)
    BY <1>3, <1>6, <1>7 DEF Alone
  <2> QED BY <2>1, <2>2
<1>16. \A i \in 1..n : Cardinality(Newer(i)) <= Cardinality(Newer(i)') /\ Cardinality(Newer(i)) \in Nat
                       /\ Cardinality(Newer(i)') \in Nat
  <2> SUFFICES ASSUME NEW i \in 1..n
               PROVE  Cardinality(Newer(i)) <= Cardinality(Newer(i)') /\ Cardinality(Newer(i)) \in Nat
                      /\ Cardinality(Newer(i)') \in Nat
    OBVIOUS
  <2>1. Hits \subseteq Hits'
    BY <1>3, <1>6, <1>7, <1>15 DEF Hits
  <2>2. Newer(i) \subseteq Newer(i)'
    BY <1>6, <1>7, <2>1 DEF Newer, Hits
  <2>3. IsFiniteSet(Newer(i)) /\ IsFiniteSet(Newer(i)')
    <3>1. IsFiniteSet(Newer(i))
      BY FiniteHits DEF HistoryInv
    <3>2. IsFiniteSet(Hits')
      <4>1. 1 \in Int /\ n + k \in Int
        BY <1>3, <1>6
      <4>2. IsFiniteSet(1..(n + k))
        BY <4>1, FS_Interval
      <4>3. Hits' \in SUBSET (1..(n + k))
        BY <1>7 DEF Hits
      <4> QED BY <4>2, <4>3, FS_Subset
    <3>3. Newer(i)' \in SUBSET (Hits')
      BY DEF Newer
    <3> QED BY <3>1, <3>2, <3>3, FS_Subset
  <2> QED BY <2>2, <2>3, FS_Subset, FS_CardinalityType
<1>17. ASSUME pager.pc # "ready" PROVE pager \in Reader /\ pager.before \in Nat /\ pager.before <= n /\ pager.offset \in Nat
  BY <1>17 DEF HistoryInv, HistoryShape, Reader
<1>18. StillToCome'
  <2> SUFFICES ASSUME pager.pc = "reading", NEW i \in 1..pager.before, Matches(stored[i])', Alone(i)'
               PROVE  i \in pager.got \/ Cardinality(Newer(i)') >= pager.offset
    BY <1>1 DEF StillToCome
  <2>1. i \in 1..n
    BY <1>6, <1>17
  <2>2. i \in pager.got \/ Cardinality(Newer(i)) >= pager.offset
    BY <1>15, <2>1 DEF HistoryInv, StillToCome
  <2> QED BY <1>16, <1>17, <2>1, <2>2
<1>19. PagesMissNothing'
  <2> SUFFICES ASSUME pager.pc = "ended", NEW i \in 1..pager.before, Matches(stored[i])', Alone(i)'
               PROVE  i \in pager.got
    BY <1>1 DEF PagesMissNothing, Alone
  <2>1. i \in 1..n
    BY <1>6, <1>17
  <2> QED BY <1>15, <2>1 DEF HistoryInv, PagesMissNothing, Alone
<1> QED BY <1>11, <1>12, <1>13, <1>14, <1>18, <1>19 DEF HistoryInv

LEMMA OpenKeeps ==
  ASSUME HistoryInv, NEW tenant \in HistoryTenants, NEW id \in Devices \cup DataPoints \cup {"any"},
         NEW start \in Nat, OpenHistory(tenant, id, start, MaxTime)
  PROVE  HistoryInv'
<1>1. /\ pager' = [pc |-> "reading", tenant |-> tenant, id |-> id, start |-> start, end |-> MaxTime,
                   offset |-> 0, got |-> {}, before |-> Len(stored)]
      /\ stored' = stored /\ ingest' = ingest
  BY DEF OpenHistory
<1>2. Len(stored) \in Nat /\ stored \in Seq(Point)
  BY DEF HistoryInv, HistoryShape
<1>3. pager' \in Reader
  BY <1>1, <1>2, HistoryAssumption DEF Reader
<1>4. HistoryShape'
  BY <1>1, <1>2, <1>3 DEF HistoryInv, HistoryShape
<1>5. \A i : Cardinality(Newer(i)') >= 0
  <2>1. 1 \in Int /\ Len(stored) \in Int /\ DOMAIN stored = 1..Len(stored)
    BY <1>2
  <2>2. IsFiniteSet(DOMAIN stored)
    BY <2>1, FS_Interval
  <2>3. \A i : Newer(i)' \in SUBSET (DOMAIN stored)
    BY <1>1 DEF Newer, Hits
  <2>4. \A i : Cardinality(Newer(i)') \in Nat
    BY <2>2, <2>3, FS_Subset, FS_CardinalityType
  <2> QED BY <2>4
<1>6. StillToCome' /\ PagesMissNothing'
  BY <1>1, <1>5 DEF StillToCome, PagesMissNothing
<1>7. StoredPointsAreOwned' /\ BatchIsAtomic' /\ \A c \in Ingests : LookedUp(c)'
  BY <1>1, Zenon DEF HistoryInv, StoredPointsAreOwned, BatchIsAtomic, LookedUp
<1> QED BY <1>4, <1>6, <1>7 DEF HistoryInv

LEMMA ReadKeeps == ASSUME HistoryInv, ReadPage PROVE HistoryInv'
<1>1. /\ pager.pc = "reading" /\ pager \in Reader /\ pager.before <= Len(stored)
      /\ stored' = stored /\ ingest' = ingest
  BY DEF ReadPage, HistoryInv, HistoryShape
<1> DEFINE off == pager.offset
           upto(o) == IF off + PageSize <= Len(o) THEN off + PageSize ELSE Len(o)
<1>2. PICK order \in NewestFirst :
        LET page == SubSeq(order, off + 1, upto(order)) IN
        pager' = [pager EXCEPT !.got = @ \cup ToSet(page), !.offset = @ + PageSize,
                               !.pc = IF Len(page) < PageSize THEN "ended" ELSE "reading"]
  BY Zenon DEF ReadPage
<1> DEFINE last == upto(order)
           page == SubSeq(order, off + 1, last)
           L == Len(order)
<1>3. off \in Nat /\ PageSize \in Nat /\ pager.got \in SUBSET Nat /\ pager.before \in Nat
  BY <1>1, HistoryAssumption DEF Reader
<1>4. L \in Nat /\ order \in Seq(Nat) /\ \A i \in 1..L : order[i] \in Nat
  <2>1. Cardinality(Hits) \in Nat
    BY FiniteHits, FS_CardinalityType DEF HistoryInv
  <2>2. order \in [1..Cardinality(Hits) -> Hits]
    BY DEF NewestFirst, SetToSeqs
  <2>3. Hits \subseteq Nat
    BY DEF Hits, HistoryInv, HistoryShape
  <2>4. L = Cardinality(Hits)
    BY <2>1, <2>2
  <2>5. \A i \in 1..L : order[i] \in Nat
    BY <2>2, <2>3, <2>4
  <2>6. order \in Seq(Nat)
    <3>1. order \in [1..L -> Nat]
      BY <2>2, <2>3, <2>4
    <3> QED BY <2>1, <2>4, <3>1
  <2> QED BY <2>1, <2>4, <2>5, <2>6
<1>5. last \in Nat /\ last <= L /\ (last < L => last = off + PageSize)
  BY <1>3, <1>4
<1>6. /\ Len(page) = IF off + 1 <= last THEN last - off ELSE 0
      /\ \A i \in 1..Len(page) : page[i] = order[off + i]
      /\ page \in Seq(Nat)
  <2> HIDE DEF last, off, L
  <2>1. off + 1 \in Int /\ last \in Int /\ \A i \in (off + 1)..last : order[i] \in Nat
    BY <1>3, <1>4, <1>5 DEF L
  <2>2. /\ page \in Seq(Nat) /\ Len(page) = IF off + 1 <= last THEN last - (off + 1) + 1 ELSE 0
        /\ \A i \in 1..(last - (off + 1) + 1) : page[i] = order[off + 1 + i - 1]
    BY <2>1, SubSeqProperties
  <2> HIDE DEF page
  <2>3. last \in Nat /\ off \in Nat
    BY <1>3, <1>5
  <2>4. last - (off + 1) + 1 = last - off
    BY <2>3
  <2>5. Len(page) = IF off + 1 <= last THEN last - off ELSE 0
    BY <2>2, <2>4
  <2>6. ASSUME NEW i \in 1..Len(page) PROVE page[i] = order[off + i]
    <3>1. i \in 1..(last - (off + 1) + 1)
      BY <2>2, <2>3, <2>6
    <3>2. off + 1 + i - 1 = off + i
      BY <2>3, <3>1
    <3> QED BY <2>2, <3>1, <3>2
  <2> QED BY <2>2, <2>5, <2>6
<1>7. /\ pager' = [pager EXCEPT !.got = pager.got \cup ToSet(page), !.offset = off + PageSize,
                                !.pc = IF Len(page) < PageSize THEN "ended" ELSE "reading"]
      /\ ToSet(page) \in SUBSET Nat
  <2>1. DOMAIN page = 1..Len(page) /\ Len(page) \in Nat
    BY <1>6, LenProperties
  <2>2. ToSet(page) \in SUBSET Nat
    <3> HIDE DEF page
    <3> QED BY <1>6, <2>1 DEF ToSet
  <2> QED BY <1>2, <2>2
<1> HIDE DEF page, last, off, upto
<1>8. /\ pager'.tenant = pager.tenant /\ pager'.id = pager.id
      /\ pager'.start = pager.start /\ pager'.end = pager.end /\ pager'.before = pager.before
      /\ pager'.got = pager.got \cup ToSet(page) /\ pager'.offset = off + PageSize
      /\ pager'.pc = IF Len(page) < PageSize THEN "ended" ELSE "reading"
      /\ pager' \in Reader
  <2>1. DOMAIN pager = {"pc", "tenant", "id", "start", "end", "offset", "got", "before"}
    BY <1>1 DEF Reader
  <2>2. off + PageSize \in Nat
    BY <1>3
  <2>3. pager.got \cup ToSet(page) \in SUBSET Nat
    BY <1>3, <1>7
  <2> QED BY <1>1, <1>7, <2>1, <2>2, <2>3 DEF Reader
<1>9. HistoryShape'
  BY <1>1, <1>8 DEF HistoryInv, HistoryShape
<1>10. /\ \A p : Matches(p)' <=> Matches(p)
       /\ \A i : Matches(stored[i])' <=> Matches(stored[i])
  BY <1>1, <1>8 DEF Matches, QueryByDevice, QueryByDatapoint, QueryRange, InRange
<1>11. Hits' = Hits /\ \A i : Newer(i)' = Newer(i) /\ (Alone(i)' <=> Alone(i))
  <2>1. Hits' = Hits
    BY <1>1, <1>10 DEF Hits
  <2> QED BY <1>1, <2>1 DEF Newer, Alone
<1>12. ASSUME NEW i \in 1..pager.before, Matches(stored[i]), Alone(i)
       PROVE  \/ i \in pager'.got
              \/ Cardinality(Newer(i)) >= pager'.offset /\ pager'.pc = "reading"
  <2>1. i \in pager.got \/ Cardinality(Newer(i)) >= off
    BY <1>1, <1>12 DEF HistoryInv, StillToCome, off
  <2>2. i \in Hits
    BY <1>1, <1>12, <1>3 DEF Hits, HistoryInv, HistoryShape
  <2>3. PICK p \in 1..L : order[p] = i /\ p = Cardinality(Newer(i)) + 1
    BY <1>12, <2>2, PlaceOfPoint DEF HistoryInv
  <2>4. CASE i \in pager.got
    BY <1>8, <2>4
  <2>5. Cardinality(Newer(i)) \in Nat
    BY FiniteHits, FS_CardinalityType DEF HistoryInv
  <2>6. CASE Cardinality(Newer(i)) >= off /\ p <= last
    <3>1. p - off \in 1..Len(page) /\ off + (p - off) = p
      <4>1. off + 1 <= p /\ off + 1 <= last
        BY <1>3, <1>4, <1>5, <2>3, <2>5, <2>6
      <4>2. Len(page) = last - off
        BY <1>6, <4>1
      <4> QED BY <1>3, <1>4, <1>5, <2>6, <4>1, <4>2
    <3>2. page[p - off] = i
      BY <1>6, <2>3, <3>1
    <3>3. DOMAIN page = 1..Len(page)
      BY <1>6, LenProperties
    <3> QED BY <1>8, <3>1, <3>2, <3>3 DEF ToSet
  <2>7. CASE Cardinality(Newer(i)) >= off /\ p > last
    <3>1. last = off + PageSize /\ Cardinality(Newer(i)) >= off + PageSize
      BY <1>3, <1>4, <1>5, <2>3, <2>5, <2>7
    <3>2. ~(Len(page) < PageSize)
      BY <1>3, <1>6, <3>1
    <3> QED BY <1>8, <3>1, <3>2
  <2>8. p <= last \/ p > last
    BY <1>4, <1>5, <2>3
  <2> QED BY <2>1, <2>4, <2>6, <2>7, <2>8
<1>13. StillToCome'
  BY <1>8, <1>10, <1>11, <1>12 DEF StillToCome
<1>14. PagesMissNothing'
  <2> SUFFICES ASSUME pager'.pc = "ended", NEW i \in 1..pager.before, Matches(stored[i])', Alone(i)'
               PROVE  i \in pager'.got
    BY <1>1, <1>8 DEF PagesMissNothing, Alone
  <2> QED BY <1>10, <1>11, <1>12
<1>15. StoredPointsAreOwned' /\ BatchIsAtomic' /\ \A c \in Ingests : LookedUp(c)'
  BY <1>1, Zenon DEF HistoryInv, StoredPointsAreOwned, BatchIsAtomic, LookedUp
<1> QED BY <1>9, <1>13, <1>14, <1>15 DEF HistoryInv

LEMMA HistoryStep == HistoryInv /\ (HistoryNext \/ UNCHANGED historyVars) => HistoryInv'
<1> SUFFICES ASSUME HistoryInv, HistoryNext \/ UNCHANGED historyVars PROVE HistoryInv'
  OBVIOUS
<1>1. ASSUME NEW c \in Ingests, NEW t \in HistoryTenants, NEW b \in SampleBatches, IngestBatch(c, t, b)
      PROVE  HistoryInv'
  <2>1. PICK n \in 2..MaxBatch : b \in [1..n -> Samples]
    BY DEF SampleBatches
  <2>2. n \in Nat
    BY <2>1, HistoryAssumption
  <2>3. b \in Seq(Samples)
    BY <2>1, <2>2
  <2> QED BY <1>1, <2>3, IngestKeeps
<1>2. ASSUME NEW c \in Ingests, NEW t \in HistoryTenants, NEW s \in Samples, IngestPoint(c, t, s)
      PROVE  HistoryInv'
  <2>1. <<s>> \in Seq(Samples)
    OBVIOUS
  <2> QED BY <1>2, <2>1, IngestKeeps DEF IngestPoint
<1>3. ASSUME NEW c \in Ingests, SaveBatch(c) \/ CommitBatch(c) \/ CloseRoute(c) \/ SaveFails(c)
      PROVE  HistoryInv'
  BY <1>3, SaveKeeps, CommitKeeps, FailsKeeps
<1>4. ASSUME NEW c \in Ingests, NEW id, VerifyOwner(c, id) PROVE HistoryInv'
  BY <1>4, VerifyKeeps
<1>5. ASSUME NEW t \in HistoryTenants, NEW id \in Devices \cup DataPoints \cup {"any"},
             OpenHistory(t, id, 1, MaxTime) \/ OpenHistory(t, id, 2, MaxTime)
      PROVE  HistoryInv'
  <2>1. 1 \in Nat /\ 2 \in Nat
    OBVIOUS
  <2> QED BY <1>5, <2>1, OpenKeeps
<1>6. CASE ReadPage
  BY <1>6, ReadKeeps
<1>7. ASSUME stored' = stored, ingest' = ingest, pager' = pager PROVE HistoryInv'
  <2>1. HistoryShape'
    BY <1>7 DEF HistoryInv, HistoryShape
  <2>2. BatchIsAtomic' /\ \A c \in Ingests : LookedUp(c)'
    BY <1>7, Zenon DEF HistoryInv, BatchIsAtomic, LookedUp
  <2> QED BY <1>7, <2>1, <2>2, ReadersRest DEF HistoryInv
<1>8. ASSUME NEW id, RemoveDevice(id) PROVE HistoryInv'
  BY <1>7, <1>8 DEF RemoveDevice
<1>9. CASE UNCHANGED historyVars
  BY <1>7, <1>9 DEF historyVars
<1> QED BY <1>1, <1>2, <1>3, <1>4, <1>5, <1>6, <1>8, <1>9 DEF HistoryNext

LEMMA HistoryTypes == HistoryInv => HistoryTypeOK
<1> SUFFICES ASSUME HistoryInv PROVE HistoryTypeOK
  OBVIOUS
<1>1. \A i \in DOMAIN stored : stored[i].tenant \in HistoryTenants /\ stored[i].time \in 1..MaxTime
  <2>1. \A i \in DOMAIN stored : stored[i] \in Point
    BY DEF HistoryInv, HistoryShape
  <2> QED BY <2>1 DEF Point
<1>2. \A c \in Ingests : ingest[c].pc \in {"ready", "checking", "flushed", "committed", "answered", "settled"}
  BY DEF HistoryInv, HistoryShape, Unsent, Settled, Acknowledged, UnderWay
<1>3. pager.pc \in {"ready", "reading", "ended"}
  BY DEF HistoryInv, HistoryShape, Reader
<1> QED BY <1>1, <1>2, <1>3 DEF HistoryTypeOK

(* For any numbers of tenants, calls, points and pages and any limits:      *)
(* stored telemetry belongs to its owner, in whole batches of callers that  *)
(* committed, and nothing a route answered is stored; a client that paged   *)
(* to the end has every old point with an event time of its own; the        *)
(* ledger's totals miss only what the trim may cut off; and an alert is     *)
(* emitted once per tenant, kind and period until it is reset.             *)
THEOREM RecordsComplete == Spec => []RecordsAreComplete
<1> DEFINE I == HistoryInv /\ LedgerInv
<1>1. Init => I
  BY HistoryStarts, LedgerStarts DEF Init
<1>2. I /\ [Next]_vars => I'
  BY PartSteps, HistoryStep, LedgerStep
<1>3. I => RecordsAreComplete
  BY HistoryTypes, LedgerCounts DEF RecordsAreComplete, HistoryInv, LedgerInv
<1> QED BY <1>1, <1>2, <1>3, PTL DEF Spec

-----------------------------------------------------------------------------
(* The twin graph.  Every queued path is a real one over relationships     *)
(* that existed during the search.  On a graph that stays as it is, the    *)
(* queue is in order of length, each path is a shortest one to its last    *)
(* twin, and a visited twin is still queued, has only visited neighbours,  *)
(* or is too far away to matter.                                           *)

Neighbours(L, a, b) == <<a, b>> \in L \/ <<b, a>> \in L

RealPath(p, L) ==
  /\ p \in Seq(Twins) /\ p # <<>> /\ p[1] = Source /\ IsInjective(p)
  /\ \A i \in 1..(Len(p) - 1) : Neighbours(L, p[i], p[i + 1])

EndOfPath(p) == p[Len(p)]

Searching ==
  [pc : {"out", "in"}, queue : Seq(Seq(Twins)), visited : SUBSET Twins, steady : BOOLEAN,
   during : SUBSET Pairs]

Answer == [pc : {"done"}, path : Seq(Twins), steady : BOOLEAN, during : SUBSET Pairs]

Sound(s) ==
  /\ \A i \in DOMAIN s.queue :
        RealPath(s.queue[i], s.during) /\ Range(s.queue[i]) \subseteq s.visited /\ Len(s.queue[i]) <= MaxDepth + 1
  /\ Source \in s.visited /\ Target \notin s.visited
  /\ s.pc = "in" => s.queue # <<>> /\ Len(s.queue[1]) <= MaxDepth

InOrder(q) == \A i, j \in DOMAIN q : i <= j => Len(q[i]) <= Len(q[j]) /\ Len(q[j]) <= Len(q[i]) + 1

Nearest(p, L) ==
  /\ EndOfPath(p) \in Ball(L)[Len(p) - 1]
  /\ \A d \in 0..(Len(p) - 2) : EndOfPath(p) \notin Ball(L)[d]

Dealt(v, s) ==
  \/ \E i \in DOMAIN s.queue : EndOfPath(s.queue[i]) = v
  \/ \A t \in Twins : Neighbours(s.during, v, t) => t \in s.visited
  \/ \A d \in 0..(MaxDepth - 1) : v \notin Ball(s.during)[d]

Thorough(s) ==
  /\ InOrder(s.queue)
  /\ \A i \in DOMAIN s.queue : Nearest(s.queue[i], s.during)
  /\ \A v \in s.visited : Dealt(v, s)
  /\ s.pc = "in" => \A t \in Twins : <<EndOfPath(s.queue[1]), t>> \in s.during => t \in s.visited

Undisputed(s) == s.steady /\ ~Crowded(s.during)

Right(a) ==
  /\ a.path # NoPath => RealPath(a.path, a.during) /\ EndOfPath(a.path) = Target
  /\ Undisputed(a) =>
        IF a.path = NoPath THEN Target \notin Ball(a.during)[MaxDepth]
        ELSE /\ Len(a.path) - 1 \in 0..MaxDepth
             /\ Target \in Ball(a.during)[Len(a.path) - 1]
             /\ Len(a.path) > 1 => Target \notin Ball(a.during)[Len(a.path) - 2]

Relating ==
  relate \in [Relators -> {[pc |-> "ready"], [pc |-> "done"]} \cup [pc : {"checked", "flushed"}, pair : Pairs]]

SearchHolds ==
  \/ search = [pc |-> "ready"]
  \/ /\ search \in Searching /\ Sound(search) /\ (Undisputed(search) => Thorough(search))
     /\ links \subseteq search.during /\ (search.steady => search.during = links)
  \/ search \in Answer /\ Right(search)

GraphInv == links \subseteq Pairs /\ Relating /\ SearchHolds

LEMMA Orders ==
  ASSUME NEW S, IsFiniteSet(S), NEW f \in SetToSeqs(S)
  PROVE  f \in Seq(S) /\ IsInjective(f) /\ Range(f) = S /\ DOMAIN f = 1..Cardinality(S)
<1>1. Cardinality(S) \in Nat
  BY FS_CardinalityType
<1>2. /\ f \in [1..Cardinality(S) -> S]
      /\ \A i, j \in 1..Cardinality(S) : i # j => f[i] # f[j]
  BY DEF SetToSeqs
<1>3. f \in Seq(S) /\ DOMAIN f = 1..Cardinality(S)
  BY <1>1, <1>2
<1>4. IsInjective(f)
  BY <1>2 DEF IsInjective
<1>5. \A i \in 1..Cardinality(S) : f[i] \in S
  BY <1>2
<1>6. ASSUME NEW x \in S, x \notin Range(f) PROVE FALSE
  <2>1. f \in [1..Cardinality(S) -> S \ {x}]
    BY <1>2, <1>6 DEF Range
  <2>2. IsFiniteSet(S \ {x}) /\ Cardinality(S \ {x}) = Cardinality(S) - 1
    BY FS_RemoveElement
  <2>3. IsFiniteSet(1..Cardinality(S)) /\ Cardinality(1..Cardinality(S)) = Cardinality(S)
    BY <1>1, FS_Interval
  <2>4. Cardinality(S \ {x}) < Cardinality(1..Cardinality(S))
    BY <1>1, <2>2, <2>3
  <2>5. \E i, j \in 1..Cardinality(S) : i # j /\ f[i] = f[j]
    <3> DEFINE D == 1..Cardinality(S)
               T == S \ {x}
    <3>1. IsFiniteSet(D) /\ IsFiniteSet(T) /\ Cardinality(T) < Cardinality(D) /\ f \in [D -> T]
      BY <2>1, <2>2, <2>3, <2>4
    <3> HIDE DEF D, T
    <3>2. \E i, j \in D : i # j /\ f[i] = f[j]
      BY <3>1, FS_PigeonHole
    <3> QED BY <3>2 DEF D
  <2> QED BY <1>2, <2>5
<1>7. Range(f) = S
  BY <1>3, <1>5, <1>6 DEF Range
<1> QED BY <1>3, <1>4, <1>7

(* The balls around the source, whatever the relationships. *)
LEMMA Balls ==
  ASSUME NEW L
  PROVE  /\ Ball(L)[0] = {Source}
         /\ \A i \in 1..MaxDepth : Ball(L)[i] = Nearby(Ball(L)[i - 1], L)
         /\ \A i \in 0..MaxDepth : Ball(L)[i] \subseteq Twins
<1> DEFINE T == SUBSET Twins
           start == {Source}
           turn == [p \in T \X (1..MaxDepth) |-> Nearby(p[1], L)]
           Rings(f) == f = [n \in 0..MaxDepth |-> IF n = 0 THEN start ELSE Nearby(f[n - 1], L)]
<1>1. MaxDepth \in Nat /\ start \in T
  BY GraphAssumption
<1>2. turn \in Turns(MaxDepth, T)
  <2>1. \A S \in T : Nearby(S, L) \in T
    BY DEF Nearby
  <2> QED BY <2>1 DEF Turns
<1> HIDE DEF turn, start, T
<1>3. PICK f : LoopRuns(f, MaxDepth, T, start, turn)
  BY <1>1, <1>2, LoopExists
<1>4. \A i \in 1..MaxDepth : f[i] = Nearby(f[i - 1], L)
  <2> SUFFICES ASSUME NEW i \in 1..MaxDepth PROVE f[i] = Nearby(f[i - 1], L)
    OBVIOUS
  <2>1. f[i - 1] \in T
    BY <1>1, <1>3 DEF LoopRuns
  <2> QED BY <1>3, <2>1 DEF turn, LoopRuns
<1>5. Rings(f)
  BY <1>1, <1>3, <1>4 DEF LoopRuns
<1>6. Ball(L) = CHOOSE g : Rings(g)
  BY DEF Ball, start
<1> DEFINE g == Ball(L)
<1>7. Rings(g)
  BY <1>5, <1>6
<1> HIDE DEF g
<1>8. \A i \in 0..MaxDepth : g[i] = IF i = 0 THEN start ELSE Nearby(g[i - 1], L)
  BY <1>7, Zenon
<1>9. g[0] = start /\ \A i \in 1..MaxDepth : g[i] = Nearby(g[i - 1], L)
  BY <1>1, <1>8
<1> DEFINE S == {i \in 0..MaxDepth : g[i] \in T}
<1>10. 0 \in S
  BY <1>1, <1>9
<1>11. ASSUME NEW i \in 0..(MaxDepth - 1), i \in S PROVE i + 1 \in S
  <2>1. i + 1 \in 1..MaxDepth /\ i + 1 \in 0..MaxDepth /\ (i + 1) - 1 = i
    BY <1>1
  <2>2. g[i + 1] = Nearby(g[i], L)
    BY <1>9, <2>1
  <2>3. Nearby(g[i], L) \in T
    BY <1>11 DEF Nearby, T
  <2> QED BY <2>1, <2>2, <2>3
<1> HIDE DEF S
<1>12. 0..MaxDepth \subseteq S
  BY <1>1, <1>10, <1>11, SetInduction
<1> QED BY <1>9, <1>12 DEF S, g, T, start

LEMMA NextBall ==
  ASSUME NEW L, NEW d \in 0..(MaxDepth - 1), NEW u \in Ball(L)[d], NEW t \in Twins, Neighbours(L, u, t)
  PROVE  t \in Ball(L)[d + 1]
<1>1. d + 1 \in 1..MaxDepth /\ (d + 1) - 1 = d
  BY GraphAssumption
<1>2. Ball(L)[d + 1] = Nearby(Ball(L)[d], L)
  BY <1>1, Balls
<1> QED BY <1>2 DEF Nearby, Neighbours

(* While every queued path has at least d relationships, the twins within d
   of the source have been visited. *)
LEMMA VisitedBall ==
  ASSUME NEW s \in Searching, Source \in s.visited, \A v \in s.visited : Dealt(v, s),
         \A i \in DOMAIN s.queue : Nearest(s.queue[i], s.during),
         NEW d \in 0..MaxDepth, \A i \in DOMAIN s.queue : Len(s.queue[i]) - 1 >= d
  PROVE  \A e \in 0..d : Ball(s.during)[e] \subseteq s.visited
<1> DEFINE B == Ball(s.during)
           S == {e \in 0..d : B[e] \subseteq s.visited}
<1>0. d \in Nat /\ d <= MaxDepth /\ MaxDepth \in Nat
  BY GraphAssumption
<1>1. /\ B[0] = {Source} /\ \A i \in 1..MaxDepth : B[i] = Nearby(B[i - 1], s.during)
  BY Balls
<1>2. 0 \in S
  BY <1>0, <1>1
<1>3. ASSUME NEW e \in 0..(d - 1), e \in S PROVE e + 1 \in S
  <2>1. e + 1 \in 0..d /\ e + 1 \in 1..MaxDepth /\ (e + 1) - 1 = e /\ e \in 0..(MaxDepth - 1)
    BY <1>0
  <2>2. B[e + 1] = Nearby(B[e], s.during)
    BY <1>1, <2>1
  <2>3. ASSUME NEW t \in Twins, NEW u \in B[e], Neighbours(s.during, u, t) PROVE t \in s.visited
    <3>1. u \in s.visited
      BY <1>3
    <3>2. ~\E i \in DOMAIN s.queue : EndOfPath(s.queue[i]) = u
      <4> SUFFICES ASSUME NEW i \in DOMAIN s.queue, EndOfPath(s.queue[i]) = u PROVE FALSE
        OBVIOUS
      <4>1. Len(s.queue[i]) - 1 >= d /\ Len(s.queue[i]) \in Nat
        BY DEF Searching
      <4>2. e \in 0..(Len(s.queue[i]) - 2)
        BY <1>0, <4>1
      <4> QED BY <4>2 DEF Nearest
    <3>3. ~\A k \in 0..(MaxDepth - 1) : u \notin Ball(s.during)[k]
      BY <2>1
    <3> QED BY <2>3, <3>1, <3>2, <3>3 DEF Dealt
  <2>4. B[e + 1] \subseteq s.visited
    <3> SUFFICES ASSUME NEW t \in B[e + 1] PROVE t \in s.visited
      OBVIOUS
    <3>1. t \in B[e] \/ (t \in Twins /\ \E u \in B[e] : Neighbours(s.during, u, t))
      BY <2>2 DEF Nearby, Neighbours
    <3> QED BY <1>3, <2>3, <3>1
  <2> QED BY <2>1, <2>4
<1> HIDE DEF S
<1>4. 0..d \subseteq S
  BY <1>0, <1>2, <1>3, SetInduction
<1> QED BY <1>4 DEF S

(* A real path grows by a neighbour of its end that is not on it. *)
LEMMA PathGrows ==
  ASSUME NEW L, NEW p, RealPath(p, L), NEW n \in Twins, n \notin Range(p), Neighbours(L, EndOfPath(p), n)
  PROVE  /\ RealPath(Append(p, n), L) /\ EndOfPath(Append(p, n)) = n
         /\ Len(Append(p, n)) = Len(p) + 1 /\ Range(Append(p, n)) = Range(p) \cup {n}
<1>1. /\ p \in Seq(Twins) /\ Len(p) \in Nat /\ Len(p) >= 1 /\ DOMAIN p = 1..Len(p)
      /\ p[1] = Source /\ IsInjective(p)
      /\ \A i \in 1..(Len(p) - 1) : Neighbours(L, p[i], p[i + 1])
  BY DEF RealPath
<1> DEFINE q == Append(p, n)
<1>2. /\ q \in Seq(Twins) /\ Len(q) = Len(p) + 1 /\ q[Len(p) + 1] = n
      /\ \A i \in 1..Len(p) : q[i] = p[i]
  BY <1>1
<1> HIDE DEF q
<1>3. DOMAIN q = 1..(Len(p) + 1)
  BY <1>2
<1>4. \A i \in 1..Len(p) : p[i] \in Range(p)
  BY <1>1 DEF Range
<1>5. IsInjective(q)
  <2> SUFFICES ASSUME NEW i \in 1..(Len(p) + 1), NEW j \in 1..(Len(p) + 1), q[i] = q[j] PROVE i = j
    BY <1>3 DEF IsInjective
  <2>1. CASE i \in 1..Len(p) /\ j \in 1..Len(p)
    BY <1>1, <1>2, <2>1 DEF IsInjective
  <2>2. CASE i \in 1..Len(p) /\ j = Len(p) + 1
    BY <1>2, <1>4, <2>2
  <2>3. CASE i = Len(p) + 1 /\ j \in 1..Len(p)
    BY <1>2, <1>4, <2>3
  <2>4. CASE i = Len(p) + 1 /\ j = Len(p) + 1
    BY <2>4
  <2> QED BY <1>1, <2>1, <2>2, <2>3, <2>4
<1>6. ASSUME NEW i \in 1..Len(p) PROVE Neighbours(L, q[i], q[i + 1])
  <2>1. CASE i = Len(p)
    BY <1>2, <1>6, <2>1 DEF EndOfPath
  <2>2. CASE i # Len(p)
    <3>1. \A k \in Nat : \A j \in 1..k : j # k => j \in 1..(k - 1) /\ j + 1 \in 1..k
      OBVIOUS
    <3>2. i \in 1..(Len(p) - 1) /\ i + 1 \in 1..Len(p)
      BY <1>1, <1>6, <2>2, <3>1, Zenon
    <3> QED BY <1>1, <1>2, <3>2
  <2> QED BY <2>1, <2>2
<1>7. q # <<>> /\ q[1] = Source
  <2>1. 1 \in 1..Len(p)
    BY <1>1
  <2> QED BY <1>1, <1>2, <2>1
<1>8. Len(q) - 1 = Len(p)
  BY <1>1, <1>2
<1>9. RealPath(q, L)
  BY <1>2, <1>5, <1>6, <1>7, <1>8 DEF RealPath
<1>10. \A i \in DOMAIN q : q[i] \in Range(p) \cup {n}
  <2> SUFFICES ASSUME NEW i \in DOMAIN q PROVE q[i] \in Range(p) \cup {n}
    OBVIOUS
  <2>1. i \in 1..Len(p) \/ i = Len(p) + 1
    BY <1>1, <1>3
  <2> QED BY <1>2, <1>4, <2>1
<1>11. \A i \in DOMAIN p : i \in DOMAIN q /\ q[i] = p[i]
  BY <1>1, <1>2, <1>3
<1>12. Len(p) + 1 \in DOMAIN q
  BY <1>1, <1>3
<1>13. Range(q) = Range(p) \cup {n}
  BY <1>2, <1>10, <1>11, <1>12 DEF Range
<1> QED BY <1>2, <1>9, <1>13 DEF q, EndOfPath

(* Loop turns: the queue and the visited twins grow by what an answer adds. *)
Queued(t, s, p, fresh) ==
  /\ Len(t.queue) = Len(s.queue) + Len(fresh)
  /\ \A i \in 1..Len(s.queue) : t.queue[i] = s.queue[i]
  /\ \A i \in 1..Len(fresh) : t.queue[Len(s.queue) + i] = Append(p, fresh[i])
  /\ t.visited = s.visited \cup Range(fresh) /\ t.steady = s.steady /\ t.during = s.during

Reached(fresh, p, s) ==
  /\ fresh \in Seq(Twins)
  /\ \A n \in Range(fresh) : n \in Twins /\ n \notin s.visited /\ Neighbours(s.during, EndOfPath(p), n)

Next1(s, p) == s.queue # <<>> /\ p = s.queue[1] /\ Len(p) <= MaxDepth

LEMMA QueueFacts ==
  ASSUME NEW s \in Searching
  PROVE  /\ Len(s.queue) \in Nat /\ DOMAIN s.queue = 1..Len(s.queue)
         /\ \A i \in 1..Len(s.queue) : s.queue[i] \in Seq(Twins) /\ Len(s.queue[i]) \in Nat
         /\ s.queue # <<>> => 1 \in DOMAIN s.queue /\ Head(s.queue) = s.queue[1]
<1>1. s.queue \in Seq(Seq(Twins))
  BY DEF Searching
<1>2. Len(s.queue) \in Nat /\ DOMAIN s.queue = 1..Len(s.queue)
  BY <1>1
<1>3. \A i \in 1..Len(s.queue) : s.queue[i] \in Seq(Twins)
  BY <1>1
<1>4. s.queue # <<>> => 1 \in 1..Len(s.queue) /\ Head(s.queue) = s.queue[1]
  BY <1>1
<1> QED BY <1>2, <1>3, <1>4

LEMMA HeadIsReal ==
  ASSUME NEW s \in Searching, Sound(s), s.queue # <<>>, NEW p, p = s.queue[1]
  PROVE  /\ RealPath(p, s.during) /\ Range(p) \subseteq s.visited /\ p \in Seq(Twins)
         /\ Len(p) \in Nat /\ Len(p) >= 1 /\ EndOfPath(p) \in s.visited /\ EndOfPath(p) \in Twins
<1>1. RealPath(p, s.during) /\ Range(p) \subseteq s.visited
  BY QueueFacts DEF Sound
<1>2. p \in Seq(Twins) /\ Len(p) \in Nat /\ Len(p) >= 1
  BY <1>1 DEF RealPath
<1>3. EndOfPath(p) \in Range(p) /\ EndOfPath(p) \in Twins
  <2>1. Len(p) \in DOMAIN p
    BY <1>2
  <2> QED BY <1>2, <2>1 DEF Range, EndOfPath
<1> QED BY <1>1, <1>2, <1>3

LEMMA NewIsNearest ==
  ASSUME NEW s \in Searching, Sound(s), Thorough(s), NEW p, Next1(s, p),
         NEW n \in Twins, n \notin s.visited, Neighbours(s.during, EndOfPath(p), n)
  PROVE  Nearest(Append(p, n), s.during)
<1>1. RealPath(p, s.during) /\ Range(p) \subseteq s.visited /\ Len(p) \in Nat /\ Len(p) >= 1
  BY HeadIsReal DEF Next1
<1>2. EndOfPath(Append(p, n)) = n /\ Len(Append(p, n)) = Len(p) + 1
  BY <1>1, PathGrows
<1>3. MaxDepth \in Nat /\ Len(p) <= MaxDepth /\ Len(p) - 1 \in 0..(MaxDepth - 1) /\ Len(p) - 1 \in 0..MaxDepth
  BY <1>1, GraphAssumption DEF Next1
<1>4. EndOfPath(p) \in Ball(s.during)[Len(p) - 1]
  BY QueueFacts DEF Thorough, Nearest, Next1
<1>5. n \in Ball(s.during)[(Len(p) - 1) + 1]
  BY <1>3, <1>4, NextBall
<1>6. \A i \in DOMAIN s.queue : Len(s.queue[i]) - 1 >= Len(p) - 1
  <2> SUFFICES ASSUME NEW i \in DOMAIN s.queue PROVE Len(s.queue[i]) - 1 >= Len(p) - 1
    OBVIOUS
  <2>1. 1 <= i /\ 1 \in DOMAIN s.queue /\ Len(s.queue[i]) \in Nat
    BY QueueFacts
  <2>2. Len(p) <= Len(s.queue[i])
    BY <2>1 DEF Thorough, InOrder, Next1
  <2> QED BY <1>1, <2>1, <2>2
<1>7. \A e \in 0..(Len(p) - 1) : Ball(s.during)[e] \subseteq s.visited
  <2>1. Source \in s.visited /\ \A v \in s.visited : Dealt(v, s)
    BY DEF Sound, Thorough
  <2>2. \A i \in DOMAIN s.queue : Nearest(s.queue[i], s.during)
    BY DEF Thorough
  <2> QED BY <1>3, <1>6, <2>1, <2>2, VisitedBall
<1>8. (Len(p) - 1) + 1 = (Len(p) + 1) - 1 /\ (Len(p) + 1) - 2 = Len(p) - 1
  BY <1>1
<1> QED BY <1>2, <1>5, <1>7, <1>8 DEF Nearest

LEMMA GrownIsSound ==
  ASSUME NEW s \in Searching, Sound(s), NEW p, Next1(s, p), NEW fresh, Reached(fresh, p, s),
         Target \notin Range(fresh), NEW t \in Searching, Queued(t, s, p, fresh)
  PROVE  Sound(t) /\ Next1(t, p)
<1>1. /\ Len(s.queue) \in Nat /\ DOMAIN s.queue = 1..Len(s.queue) /\ Len(t.queue) \in Nat
      /\ DOMAIN t.queue = 1..Len(t.queue) /\ 1 \in DOMAIN s.queue
  BY QueueFacts DEF Next1
<1>2. /\ Len(fresh) \in Nat /\ DOMAIN fresh = 1..Len(fresh)
      /\ \A i \in 1..Len(fresh) : fresh[i] \in Range(fresh)
  BY DEF Reached, Range
<1>3. RealPath(p, s.during) /\ Range(p) \subseteq s.visited /\ Len(p) \in Nat /\ Len(p) <= MaxDepth
  BY HeadIsReal DEF Next1
<1>4. Next1(t, p)
  <2>1. 1 \in 1..Len(s.queue) /\ t.queue[1] = p
    BY <1>1 DEF Queued, Next1
  <2>2. 1 \in 1..Len(t.queue)
    BY <1>1, <1>2 DEF Queued
  <2>3. t.queue # <<>>
    BY <2>2
  <2> QED BY <1>3, <2>1, <2>3 DEF Next1
<1>5. ASSUME NEW i \in DOMAIN t.queue
      PROVE  /\ RealPath(t.queue[i], t.during) /\ Range(t.queue[i]) \subseteq t.visited
             /\ Len(t.queue[i]) <= MaxDepth + 1
  <2>1. CASE i \in 1..Len(s.queue)
    BY <1>1, <2>1 DEF Sound, Queued
  <2>2. CASE i \notin 1..Len(s.queue)
    <3>1. PICK k \in 1..Len(fresh) : i = Len(s.queue) + k
      <4>1. i - Len(s.queue) \in 1..Len(fresh) /\ i = Len(s.queue) + (i - Len(s.queue))
        BY <1>1, <1>2, <1>5, <2>2 DEF Queued
      <4> QED BY <4>1
    <3>2. PICK n : n = fresh[k]
      OBVIOUS
    <3>3. n \in Twins /\ n \notin s.visited /\ Neighbours(s.during, EndOfPath(p), n) /\ n \in Range(fresh)
      BY <1>2, <3>2 DEF Reached
    <3>4. t.queue[i] = Append(p, n)
      BY <3>1, <3>2 DEF Queued
    <3>5. /\ RealPath(Append(p, n), s.during) /\ Len(Append(p, n)) = Len(p) + 1
          /\ Range(Append(p, n)) = Range(p) \cup {n}
      BY <1>3, <3>3, PathGrows
    <3>6. Len(p) + 1 <= MaxDepth + 1
      BY <1>3, GraphAssumption
    <3> QED BY <1>3, <3>3, <3>4, <3>5, <3>6 DEF Queued
  <2> QED BY <2>1, <2>2
<1> QED BY <1>4, <1>5 DEF Sound, Queued, Next1

LEMMA GrownIsThorough ==
  ASSUME NEW s \in Searching, Sound(s), Thorough(s), NEW p, Next1(s, p), NEW fresh, Reached(fresh, p, s),
         NEW t \in Searching, Queued(t, s, p, fresh),
         t.pc = "in" => \A n \in Twins : <<EndOfPath(p), n>> \in s.during => n \in t.visited
  PROVE  Thorough(t)
<1>1. /\ Len(s.queue) \in Nat /\ DOMAIN s.queue = 1..Len(s.queue) /\ Len(t.queue) \in Nat
      /\ DOMAIN t.queue = 1..Len(t.queue) /\ 1 \in 1..Len(s.queue) /\ p = s.queue[1]
  BY QueueFacts DEF Next1
<1>2. /\ Len(fresh) \in Nat /\ DOMAIN fresh = 1..Len(fresh)
      /\ \A i \in 1..Len(fresh) : fresh[i] \in Range(fresh)
  BY DEF Reached, Range
<1>3. RealPath(p, s.during) /\ Range(p) \subseteq s.visited /\ Len(p) \in Nat
  BY HeadIsReal DEF Next1
<1>4. ASSUME NEW i \in DOMAIN t.queue, i \notin 1..Len(s.queue)
      PROVE  \E k \in 1..Len(fresh) : i = Len(s.queue) + k
  <2>1. i - Len(s.queue) \in 1..Len(fresh) /\ i = Len(s.queue) + (i - Len(s.queue))
    BY <1>1, <1>2, <1>4 DEF Queued
  <2> QED BY <2>1
<1>5. ASSUME NEW k \in 1..Len(fresh)
      PROVE  /\ Len(s.queue) + k \in DOMAIN t.queue
             /\ EndOfPath(t.queue[Len(s.queue) + k]) = fresh[k]
             /\ Len(t.queue[Len(s.queue) + k]) = Len(p) + 1
             /\ Nearest(t.queue[Len(s.queue) + k], t.during)
  <2>1. PICK n : n = fresh[k]
    OBVIOUS
  <2>2. n \in Twins /\ n \notin s.visited /\ Neighbours(s.during, EndOfPath(p), n)
    BY <1>2, <1>5, <2>1 DEF Reached
  <2>3. n \notin Range(p)
    BY <1>3, <2>2
  <2>4. EndOfPath(Append(p, n)) = n /\ Len(Append(p, n)) = Len(p) + 1
    BY <1>3, <2>2, <2>3, PathGrows
  <2>5. Nearest(Append(p, n), s.during)
    BY <2>2, NewIsNearest
  <2>6. t.queue[Len(s.queue) + k] = Append(p, n)
    BY <1>5, <2>1 DEF Queued
  <2>7. Len(s.queue) + k \in 1..Len(t.queue)
    BY <1>1, <1>2, <1>5 DEF Queued
  <2> QED BY <1>1, <2>1, <2>4, <2>5, <2>6, <2>7 DEF Queued
<1>6. \A i \in 1..Len(s.queue) : t.queue[i] = s.queue[i] /\ i \in DOMAIN t.queue
  BY <1>1, <1>2 DEF Queued
<1>7. \A i \in DOMAIN t.queue : Nearest(t.queue[i], t.during)
  <2> SUFFICES ASSUME NEW i \in DOMAIN t.queue PROVE Nearest(t.queue[i], t.during)
    OBVIOUS
  <2>1. CASE i \in 1..Len(s.queue)
    BY <1>1, <1>6, <2>1 DEF Thorough, Queued
  <2>2. CASE i \notin 1..Len(s.queue)
    BY <1>4, <1>5, <2>2
  <2> QED BY <2>1, <2>2
<1>8. \A v \in t.visited : Dealt(v, t)
  <2> SUFFICES ASSUME NEW v \in t.visited PROVE Dealt(v, t)
    OBVIOUS
  <2>1. CASE v \in s.visited
    <3>1. Dealt(v, s)
      BY <2>1 DEF Thorough
    <3>2. CASE \E i \in DOMAIN s.queue : EndOfPath(s.queue[i]) = v
      BY <1>1, <1>6, <3>2 DEF Dealt
    <3>3. CASE \A n \in Twins : Neighbours(s.during, v, n) => n \in s.visited
      BY <3>3 DEF Dealt, Queued
    <3>4. CASE \A d \in 0..(MaxDepth - 1) : v \notin Ball(s.during)[d]
      BY <3>4 DEF Dealt, Queued
    <3> QED BY <3>1, <3>2, <3>3, <3>4 DEF Dealt
  <2>2. CASE v \in Range(fresh)
    <3>1. PICK k \in 1..Len(fresh) : fresh[k] = v
      BY <1>2, <2>2 DEF Range
    <3> QED BY <1>5, <3>1 DEF Dealt
  <2> QED BY <2>1, <2>2 DEF Queued
<1>9. InOrder(t.queue)
  <2> SUFFICES ASSUME NEW i \in DOMAIN t.queue, NEW j \in DOMAIN t.queue, i <= j
               PROVE  Len(t.queue[i]) <= Len(t.queue[j]) /\ Len(t.queue[j]) <= Len(t.queue[i]) + 1
    BY DEF InOrder
  <2>1. Len(t.queue[i]) \in Nat /\ Len(t.queue[j]) \in Nat
    BY <1>1, QueueFacts
  <2>2. CASE i \in 1..Len(s.queue) /\ j \in 1..Len(s.queue)
    BY <1>1, <1>6, <2>2 DEF Thorough, InOrder
  <2>3. CASE i \in 1..Len(s.queue) /\ j \notin 1..Len(s.queue)
    <3>1. Len(t.queue[j]) = Len(p) + 1
      BY <1>4, <1>5, <2>3
    <3>2. 1 <= i
      BY <1>1
    <3>3. Len(p) <= Len(t.queue[i]) /\ Len(t.queue[i]) <= Len(p) + 1
      BY <1>1, <1>6, <2>3, <3>2 DEF Thorough, InOrder
    <3> QED BY <1>3, <2>1, <3>1, <3>3
  <2>4. CASE i \notin 1..Len(s.queue) /\ j \notin 1..Len(s.queue)
    <3>1. Len(t.queue[i]) = Len(p) + 1 /\ Len(t.queue[j]) = Len(p) + 1
      BY <1>4, <1>5, <2>4
    <3> QED BY <1>3, <3>1
  <2>5. ~(i \notin 1..Len(s.queue) /\ j \in 1..Len(s.queue))
    BY <1>1
  <2> QED BY <2>2, <2>3, <2>4, <2>5
<1>10. t.pc = "in" => \A n \in Twins : <<EndOfPath(t.queue[1]), n>> \in t.during => n \in t.visited
  BY <1>1, <1>6 DEF Queued
<1> QED BY <1>7, <1>8, <1>9, <1>10 DEF Thorough

(* The head of the queue has been dealt with and goes. *)
Dropped(t, s) == s.queue # <<>> /\ t = [s EXCEPT !.queue = Tail(s.queue)] /\ t.pc = "out"

HeadDealt(s) ==
  \/ Len(s.queue[1]) - 1 >= MaxDepth
  \/ \A n \in Twins : Neighbours(s.during, EndOfPath(s.queue[1]), n) => n \in s.visited

LEMMA DropKeeps ==
  ASSUME NEW s \in Searching, Sound(s), NEW t, Dropped(t, s)
  PROVE  /\ t \in Searching /\ Sound(t) /\ t.steady = s.steady /\ t.during = s.during
         /\ Thorough(s) /\ HeadDealt(s) => Thorough(t)
<1>0. s.queue # <<>> /\ t = [s EXCEPT !.queue = Tail(s.queue)] /\ t.pc = "out"
  BY DEF Dropped
<1> DEFINE p == s.queue[1]
<1>1. s.queue \in Seq(Seq(Twins)) /\ Tail(s.queue) \in Seq(Seq(Twins))
  BY <1>0 DEF Searching
<1>2. /\ t \in Searching /\ t.queue = Tail(s.queue) /\ t.visited = s.visited /\ t.steady = s.steady
      /\ t.during = s.during
  BY <1>0, <1>1 DEF Searching
<1>3. /\ Len(s.queue) \in Nat /\ DOMAIN s.queue = 1..Len(s.queue) /\ 1 \in 1..Len(s.queue)
  BY <1>0, QueueFacts
<1>4. /\ DOMAIN t.queue = 1..(Len(s.queue) - 1)
      /\ \A i \in 1..(Len(s.queue) - 1) : t.queue[i] = s.queue[i + 1]
  BY <1>1, <1>2, <1>3
<1>5. \A i \in 1..(Len(s.queue) - 1) : i + 1 \in 1..Len(s.queue)
  BY <1>3
<1>6. Sound(t)
  BY <1>0, <1>2, <1>3, <1>4, <1>5 DEF Sound
<1>7. ASSUME Thorough(s), HeadDealt(s) PROVE Thorough(t)
  <2>1. InOrder(t.queue)
    <3>1. \A i, j \in 1..(Len(s.queue) - 1) : i <= j => i + 1 <= j + 1
      BY <1>3
    <3> QED BY <1>3, <1>4, <1>5, <1>7, <3>1 DEF Thorough, InOrder
  <2>2. \A i \in DOMAIN t.queue : Nearest(t.queue[i], t.during)
    BY <1>2, <1>3, <1>4, <1>5, <1>7 DEF Thorough
  <2>3. \A v \in t.visited : Dealt(v, t)
    <3> SUFFICES ASSUME NEW v \in s.visited PROVE Dealt(v, t)
      BY <1>2
    <3>1. Dealt(v, s)
      BY <1>7 DEF Thorough
    <3>2. CASE \E i \in DOMAIN s.queue : EndOfPath(s.queue[i]) = v
      <4>1. PICK i \in 1..Len(s.queue) : EndOfPath(s.queue[i]) = v
        BY <1>3, <3>2
      <4>2. CASE i = 1 /\ Len(p) - 1 >= MaxDepth
        <5>1. Len(p) \in Nat /\ MaxDepth \in Nat
          BY <1>3, QueueFacts, GraphAssumption
        <5>2. \A d \in 0..(MaxDepth - 1) : d \in 0..(Len(p) - 2)
          BY <4>2, <5>1
        <5>3. \A d \in 0..(Len(p) - 2) : v \notin Ball(s.during)[d]
          BY <1>3, <1>7, <4>1, <4>2 DEF Thorough, Nearest
        <5> QED BY <1>2, <5>2, <5>3 DEF Dealt
      <4>3. CASE i = 1 /\ \A n \in Twins : Neighbours(s.during, EndOfPath(p), n) => n \in s.visited
        BY <1>2, <4>1, <4>3 DEF Dealt
      <4>4. CASE i # 1
        <5>1. i - 1 \in 1..(Len(s.queue) - 1) /\ (i - 1) + 1 = i
          BY <1>3, <4>4
        <5>2. EndOfPath(t.queue[i - 1]) = v
          BY <1>4, <4>1, <5>1
        <5> QED BY <1>4, <5>1, <5>2 DEF Dealt
      <4> QED BY <1>7, <4>2, <4>3, <4>4 DEF HeadDealt
    <3>3. CASE \A n \in Twins : Neighbours(s.during, v, n) => n \in s.visited
      BY <1>2, <3>3 DEF Dealt
    <3>4. CASE \A d \in 0..(MaxDepth - 1) : v \notin Ball(s.during)[d]
      BY <1>2, <3>4 DEF Dealt
    <3> QED BY <3>1, <3>2, <3>3, <3>4 DEF Dealt
  <2> QED BY <1>0, <1>2, <2>1, <2>2, <2>3 DEF Thorough
<1> QED BY <1>2, <1>6, <1>7

LEMMA FreshFacts ==
  ASSUME NEW S, S \subseteq Twins, NEW fresh \in Fresh(S)
  PROVE  /\ fresh \in Seq(Twins) /\ Range(fresh) \subseteq S /\ Range(fresh) \cap search.visited = {}
         /\ Cardinality(S) <= LIMIT => S \subseteq search.visited \cup Range(fresh)
<1>1. PICK T \in Answers(S) : fresh \in SetToSeqs(T \ search.visited)
  BY DEF Fresh
<1>2. IsFiniteSet(S) /\ IsFiniteSet(T) /\ T \subseteq S
  BY GraphAssumption, FS_Subset DEF Answers
<1>3. PICK U : U = T \ search.visited
  OBVIOUS
<1>4. IsFiniteSet(U)
  BY <1>2, <1>3, FS_Subset
<1>5. fresh \in Seq(U) /\ Range(fresh) = U /\ DOMAIN fresh = 1..Cardinality(U)
  BY <1>1, <1>3, <1>4, Orders
<1>6. U \subseteq Twins
  BY <1>2, <1>3
<1>7. fresh \in Seq(Twins)
  <2>1. fresh \in [1..Len(fresh) -> U] /\ Len(fresh) \in Nat
    BY <1>5
  <2>2. fresh \in [1..Len(fresh) -> Twins]
    BY <1>6, <2>1
  <2> QED BY <2>1, <2>2
<1>8. ASSUME Cardinality(S) <= LIMIT PROVE T = S
  <2>1. Cardinality(T) = Cardinality(S)
    BY <1>8 DEF Answers
  <2> QED BY <1>2, <2>1, FS_Subset
<1> QED BY <1>2, <1>3, <1>5, <1>7, <1>8

LEMMA ExpandGrows ==
  ASSUME search \in Searching, NEW p, p \in Seq(Twins), NEW fresh, Reached(fresh, p, search),
         NEW next \in {"out", "in"}, Target \notin Range(fresh)
  PROVE  /\ Expand(fresh, p, next) \in Searching /\ Expand(fresh, p, next).pc = next
         /\ Queued(Expand(fresh, p, next), search, p, fresh)
<1> DEFINE added == [i \in DOMAIN fresh |-> Append(p, fresh[i])]
           queue == search.queue \o added
           t == [search EXCEPT !.queue = queue, !.visited = search.visited \cup Range(fresh), !.pc = next]
<1>1. Range(fresh) = ToSet(fresh)
  BY DEF Range, ToSet
<1>2. Expand(fresh, p, next) = t
  BY <1>1 DEF Expand
<1>3. Len(fresh) \in Nat /\ DOMAIN fresh = 1..Len(fresh) /\ \A i \in 1..Len(fresh) : fresh[i] \in Twins
  BY DEF Reached
<1>4. /\ added \in Seq(Seq(Twins)) /\ Len(added) = Len(fresh)
      /\ \A i \in 1..Len(fresh) : added[i] = Append(p, fresh[i])
  <2>1. \A i \in 1..Len(fresh) : Append(p, fresh[i]) \in Seq(Twins)
    BY <1>3
  <2>2. added \in [1..Len(fresh) -> Seq(Twins)]
    BY <1>3, <2>1
  <2> QED BY <1>3, <2>2
<1>5. search.queue \in Seq(Seq(Twins)) /\ Len(search.queue) \in Nat
  BY DEF Searching
<1> HIDE DEF added
<1>6. /\ queue \in Seq(Seq(Twins)) /\ Len(queue) = Len(search.queue) + Len(fresh)
      /\ \A i \in 1..(Len(search.queue) + Len(fresh)) :
            queue[i] = IF i <= Len(search.queue) THEN search.queue[i] ELSE added[i - Len(search.queue)]
  <2>1. PICK q \in Seq(Seq(Twins)) : q = search.queue
    BY <1>5
  <2>2. PICK more \in Seq(Seq(Twins)) : more = added
    BY <1>4
  <2>3. /\ q \o more \in Seq(Seq(Twins)) /\ Len(q \o more) = Len(q) + Len(more)
        /\ \A i \in 1..(Len(q) + Len(more)) :
              (q \o more)[i] = IF i <= Len(q) THEN q[i] ELSE more[i - Len(q)]
    BY ConcatProperties
  <2>4. queue = q \o more /\ Len(more) = Len(fresh)
    BY <1>4, <2>1, <2>2
  <2> QED BY <2>1, <2>2, <2>3, <2>4
<1>7. \A i \in 1..Len(search.queue) : queue[i] = search.queue[i]
  <2>1. \A i \in 1..Len(search.queue) : i \in 1..(Len(search.queue) + Len(fresh)) /\ i <= Len(search.queue)
    BY <1>3, <1>5
  <2> QED BY <1>6, <2>1
<1>8. \A i \in 1..Len(fresh) : queue[Len(search.queue) + i] = Append(p, fresh[i])
  <2>1. \A i \in 1..Len(fresh) : /\ Len(search.queue) + i \in 1..(Len(search.queue) + Len(fresh))
                                 /\ ~(Len(search.queue) + i <= Len(search.queue))
                                 /\ Len(search.queue) + i - Len(search.queue) = i
    BY <1>3, <1>5
  <2> QED BY <1>4, <1>6, <2>1
<1> HIDE DEF queue
<1>9. Range(fresh) \subseteq Twins
  BY DEF Reached
<1>10. /\ t \in Searching /\ t.pc = next /\ t.queue = queue /\ t.visited = search.visited \cup Range(fresh)
       /\ t.steady = search.steady /\ t.during = search.during
  BY <1>6, <1>9 DEF Searching
<1> HIDE DEF t
<1> QED BY <1>2, <1>6, <1>7, <1>8, <1>10 DEF Queued

LEMMA ExpandAnswers ==
  ASSUME search \in Searching, Sound(search), Undisputed(search) => Thorough(search), NEW p, Next1(search, p),
         NEW fresh, Reached(fresh, p, search), NEW next, Target \in Range(fresh)
  PROVE  Expand(fresh, p, next) \in Answer /\ Right(Expand(fresh, p, next))
<1> DEFINE path == Append(p, Target)
           a == [pc |-> "done", path |-> path, steady |-> search.steady, during |-> search.during]
<1>1. Range(fresh) = ToSet(fresh)
  BY DEF Range, ToSet
<1>2. Expand(fresh, p, next) = a
  BY <1>1 DEF Expand, Answered
<1>3. RealPath(p, search.during) /\ Range(p) \subseteq search.visited /\ Len(p) \in Nat /\ p \in Seq(Twins) /\ Len(p) >= 1
  BY HeadIsReal DEF Next1
<1>4. Target \in Twins /\ Target \notin search.visited /\ Neighbours(search.during, EndOfPath(p), Target)
  BY DEF Reached
<1>5. RealPath(path, search.during) /\ EndOfPath(path) = Target /\ Len(path) = Len(p) + 1
  <2>1. Target \notin Range(p)
    BY <1>3, <1>4
  <2> QED BY <1>3, <1>4, <2>1, PathGrows
<1>6. Undisputed(search) => Nearest(path, search.during)
  BY <1>4, NewIsNearest
<1>7. path # NoPath /\ path \in Seq(Twins)
  BY <1>5 DEF RealPath, NoPath
<1> HIDE DEF path
<1>8. /\ a \in Answer /\ a.path = path /\ a.steady = search.steady /\ a.during = search.during
  BY <1>7 DEF Answer, Searching
<1>9. Undisputed(a) <=> Undisputed(search)
  BY <1>8 DEF Undisputed
<1> HIDE DEF a
<1>10. Len(path) - 1 \in 0..MaxDepth /\ Len(path) - 2 \in 0..(Len(path) - 2)
  BY <1>3, <1>5, GraphAssumption DEF Next1
<1>11. Right(a)
  BY <1>5, <1>6, <1>7, <1>8, <1>9, <1>10 DEF Right, Nearest
<1> QED BY <1>2, <1>8, <1>11

LEMMA GraphStarts == GraphInit => GraphInv
<1> SUFFICES ASSUME GraphInit PROVE GraphInv
  OBVIOUS
<1>1. links \subseteq Pairs /\ relate = [r \in Relators |-> [pc |-> "ready"]] /\ search = [pc |-> "ready"]
  BY DEF GraphInit
<1> QED BY <1>1 DEF GraphInv, Relating, SearchHolds

LEMMA CheckRelationKeeps ==
  ASSUME GraphInv, NEW r \in Relators, NEW p \in Pairs, CheckRelation(r, p)
  PROVE  GraphInv'
<1>1. /\ relate' = [relate EXCEPT ![r] = IF p \in links THEN [pc |-> "done"] ELSE [pc |-> "checked", pair |-> p]]
      /\ links' = links /\ search' = search
  BY DEF CheckRelation
<1>2. Relating'
  BY <1>1 DEF GraphInv, Relating
<1> QED BY <1>1, <1>2 DEF GraphInv, SearchHolds

(* A relationship comes or goes. *)
LEMMA DisturbKeeps ==
  ASSUME GraphInv, NEW p \in Pairs, links' \in {links \cup {p}, links \ {p}}, search' = Disturb(search, p)
  PROVE  SearchHolds'
<1>1. CASE search = [pc |-> "ready"]
  <2>1. search' = search
    BY <1>1 DEF Disturb
  <2> QED BY <1>1, <2>1 DEF SearchHolds
<1>2. CASE search \in Answer /\ Right(search)
  <2>1. search' = search
    BY <1>2 DEF Disturb, Answer
  <2>2. search' \in Answer /\ Right(search')
    BY <1>2, <2>1
  <2> QED BY <2>2 DEF SearchHolds, Right, Undisputed
<1>3. CASE search \in Searching /\ Sound(search) /\ links \subseteq search.during
  <2>1. PICK s \in Searching : s = search
    BY <1>3
  <2>2. PICK t : t = [s EXCEPT !.steady = FALSE, !.during = s.during \cup {p}]
    OBVIOUS
  <2>3. search' = t
    BY <2>1, <2>2 DEF Disturb, Searching
  <2>4. /\ t \in Searching /\ t.steady = FALSE /\ t.during = s.during \cup {p} /\ t.queue = s.queue
        /\ t.visited = s.visited /\ t.pc = s.pc
    BY <2>2 DEF Searching
  <2>5. \A q : RealPath(q, s.during) => RealPath(q, t.during)
    BY <2>4 DEF RealPath, Neighbours
  <2>6. Sound(t)
    BY <1>3, <2>1, <2>4, <2>5 DEF Sound
  <2>7. ~Undisputed(t)
    BY <2>4 DEF Undisputed
  <2>8. links' \subseteq t.during
    BY <1>3, <2>1, <2>4
  <2> QED BY <2>3, <2>4, <2>6, <2>7, <2>8 DEF SearchHolds
<1> QED BY <1>1, <1>2, <1>3 DEF GraphInv, SearchHolds

LEMMA RelationKeeps ==
  ASSUME GraphInv, NEW r, (r \in Relators /\ CommitRelation(r)) \/ (r \in Pairs /\ RemoveRelation(r))
  PROVE  GraphInv'
<1>1. CASE r \in Relators /\ CommitRelation(r)
  <2>1. relate[r].pc = "flushed"
    BY <1>1 DEF CommitRelation
  <2>2. relate[r].pair \in Pairs
    BY <1>1, <2>1 DEF GraphInv, Relating
  <2>3. PICK p \in Pairs : p = relate[r].pair
    BY <2>2
  <2>4. links' = links \cup {p} /\ search' = Disturb(search, p) /\ relate' = [relate EXCEPT ![r] = [pc |-> "done"]]
    BY <1>1, <2>3 DEF CommitRelation
  <2>5. links' \subseteq Pairs /\ Relating'
    BY <2>4 DEF GraphInv, Relating
  <2> QED BY <2>4, <2>5, DisturbKeeps DEF GraphInv
<1>2. CASE r \in Pairs /\ RemoveRelation(r)
  <2>1. links' = links \ {r} /\ search' = Disturb(search, r) /\ relate' = relate
    BY <1>2 DEF RemoveRelation
  <2>2. links' \subseteq Pairs /\ Relating'
    BY <2>1 DEF GraphInv, Relating
  <2> QED BY <1>2, <2>1, <2>2, DisturbKeeps DEF GraphInv
<1> QED BY <1>1, <1>2

(* A flush, and the end of a session without a commit. *)
LEMMA PendingKeeps ==
  ASSUME GraphInv, NEW r \in Relators, InsertRelation(r) \/ CloseSession(r)
  PROVE  GraphInv'
<1>1. links' = links /\ search' = search
  BY DEF InsertRelation, CloseSession
<1>2. Relating'
  <2>1. CASE InsertRelation(r)
    <3>1. relate[r] \in [pc : {"checked", "flushed"}, pair : Pairs]
      BY <2>1 DEF InsertRelation, GraphInv, Relating
    <3>2. relate' = [relate EXCEPT ![r].pc = "flushed"]
      BY <2>1 DEF InsertRelation
    <3> QED BY <3>1, <3>2 DEF GraphInv, Relating
  <2>2. CASE CloseSession(r)
    BY <2>2 DEF CloseSession, GraphInv, Relating
  <2> QED BY <2>1, <2>2
<1> QED BY <1>1, <1>2 DEF GraphInv, SearchHolds

LEMMA FindPathKeeps == ASSUME GraphInv, FindPath PROVE GraphInv'
<1>1. links' = links /\ relate' = relate /\ links \subseteq Pairs
  BY DEF FindPath, GraphInv
<1>2. PICK here : here = <<Source>>
  OBVIOUS
<1>3. Source \in Twins /\ MaxDepth \in Nat
  BY GraphAssumption
<1>4. here \in Seq(Twins) /\ Len(here) = 1 /\ here[1] = Source /\ here # <<>> /\ DOMAIN here = {1}
  BY <1>2, <1>3
<1>5. RealPath(here, links) /\ EndOfPath(here) = Source /\ Range(here) = {Source}
  BY <1>4 DEF RealPath, EndOfPath, IsInjective, Range
<1>6. Ball(links)[0] = {Source}
  BY Balls
<1>7. CASE Source = Target
  <2>1. PICK a : a = [pc |-> "done", path |-> here, steady |-> TRUE, during |-> links]
    OBVIOUS
  <2>2. search' = a
    BY <1>2, <1>7, <2>1 DEF FindPath
  <2>3. a \in Answer /\ a.path = here /\ a.during = links
    BY <1>1, <1>4, <2>1 DEF Answer
  <2>4. Right(a)
    <3>0. a.path # NoPath /\ Len(a.path) = 1
      BY <1>4, <2>3, Zenon DEF NoPath
    <3>1. Len(a.path) - 1 = 0 /\ ~(Len(a.path) > 1) /\ 0 \in 0..MaxDepth /\ a.path # NoPath
      BY <1>3, <3>0
    <3>2. Target \in Ball(a.during)[Len(a.path) - 1]
      BY <1>6, <1>7, <2>3, <3>1
    <3>3. RealPath(a.path, a.during) /\ EndOfPath(a.path) = Target
      BY <1>5, <1>7, <2>3
    <3> QED BY <3>1, <3>2, <3>3 DEF Right
  <2>5. SearchHolds'
    BY <2>2, <2>3, <2>4 DEF SearchHolds
  <2> QED BY <1>1, <2>5 DEF GraphInv, Relating
<1>8. CASE Source # Target
  <2>1. PICK s : s = [pc |-> "out", queue |-> <<here>>, visited |-> {Source}, steady |-> TRUE, during |-> links]
    OBVIOUS
  <2>2. search' = s
    BY <1>2, <1>8, <2>1 DEF FindPath
  <2>3. <<here>> \in Seq(Seq(Twins))
    BY <1>4
  <2>4. /\ s \in Searching /\ s.queue = <<here>> /\ s.visited = {Source} /\ s.during = links /\ s.pc = "out"
        /\ s.steady = TRUE
    BY <1>1, <1>3, <2>1, <2>3 DEF Searching
  <2>5. DOMAIN s.queue = {1} /\ s.queue[1] = here
    BY <2>4
  <2>6. Sound(s)
    <3>1. /\ RealPath(s.queue[1], s.during) /\ Range(s.queue[1]) \subseteq s.visited
          /\ Len(s.queue[1]) <= MaxDepth + 1
      <4>1. 1 <= MaxDepth + 1
        BY <1>3
      <4>2. Len(s.queue[1]) <= MaxDepth + 1
        BY <1>4, <2>5, <4>1, Zenon
      <4>3. RealPath(s.queue[1], s.during) /\ Range(s.queue[1]) \subseteq s.visited
        BY <1>5, <2>4, <2>5, Zenon
      <4> QED BY <4>2, <4>3
    <3>2. Source \in s.visited /\ Target \notin s.visited /\ s.pc # "in"
      BY <1>8, <2>4
    <3> QED BY <2>5, <3>1, <3>2 DEF Sound
  <2>7. Thorough(s)
    <3>1. InOrder(s.queue)
      BY <1>4, <2>5 DEF InOrder
    <3>2. Nearest(here, links)
      <4>1. Len(here) - 1 = 0 /\ 0..(Len(here) - 2) = {}
        BY <1>4
      <4> QED BY <1>5, <1>6, <4>1 DEF Nearest
    <3>3. Dealt(Source, s)
      BY <1>5, <2>5 DEF Dealt
    <3> QED BY <2>4, <2>5, <3>1, <3>2, <3>3 DEF Thorough
  <2>8. SearchHolds'
    BY <1>1, <2>2, <2>4, <2>6, <2>7 DEF SearchHolds
  <2> QED BY <1>1, <2>8 DEF GraphInv, Relating
<1> QED BY <1>7, <1>8

(* What a turn of the loop has behind it. *)
LEMMA TurnFacts ==
  ASSUME GraphInv, search.pc \in {"out", "in"}
  PROVE  /\ search \in Searching /\ Sound(search) /\ (Undisputed(search) => Thorough(search))
         /\ links \subseteq search.during /\ (search.steady => search.during = links) /\ links \subseteq Pairs
BY DEF GraphInv, SearchHolds, Answer

(* The rows of one query, seen from the end of the path. *)
LEMMA RowsFacts ==
  ASSUME GraphInv, search.pc \in {"out", "in"}, NEW p, Next1(search, p), NEW S, S \subseteq Twins,
         \A n \in S : Neighbours(links, EndOfPath(p), n), NEW fresh \in Fresh(S)
  PROVE  /\ Reached(fresh, p, search)
         /\ Cardinality(S) <= LIMIT => S \subseteq search.visited \cup Range(fresh)
<1>1. /\ fresh \in Seq(Twins) /\ Range(fresh) \subseteq S /\ Range(fresh) \cap search.visited = {}
      /\ Cardinality(S) <= LIMIT => S \subseteq search.visited \cup Range(fresh)
  BY FreshFacts
<1>2. links \subseteq search.during
  BY TurnFacts
<1>3. \A n \in S : Neighbours(search.during, EndOfPath(p), n)
  BY <1>2 DEF Neighbours
<1> QED BY <1>1, <1>3 DEF Reached

LEMMA OutgoingKeeps == ASSUME GraphInv, ReadOutgoing PROVE GraphInv'
<1>1. search.pc = "out" /\ links' = links /\ relate' = relate
  BY DEF ReadOutgoing
<1>2. /\ search \in Searching /\ Sound(search) /\ (Undisputed(search) => Thorough(search))
      /\ links \subseteq search.during /\ (search.steady => search.during = links) /\ links \subseteq Pairs
  BY <1>1, TurnFacts
<1>3. MaxDepth \in Nat
  BY GraphAssumption
<1>4. SearchHolds'
  <2>1. CASE search.queue = <<>>
    <3>1. PICK a : a = [pc |-> "done", path |-> NoPath, steady |-> search.steady, during |-> search.during]
      OBVIOUS
    <3>2. search' = a
      BY <1>1, <2>1, <3>1 DEF ReadOutgoing, Answered
    <3>3. a \in Answer /\ a.path = NoPath /\ a.steady = search.steady /\ a.during = search.during
      BY <1>2, <3>1 DEF Answer, Searching, NoPath
    <3>4. ASSUME Undisputed(search) PROVE Target \notin Ball(search.during)[MaxDepth]
      <4>1. DOMAIN search.queue = {}
        BY <2>1
      <4>2. Source \in search.visited /\ \A v \in search.visited : Dealt(v, search)
        BY <1>2, <3>4 DEF Sound, Thorough
      <4>3. MaxDepth \in 0..MaxDepth
        BY <1>3
      <4>4. \A e \in 0..MaxDepth : Ball(search.during)[e] \subseteq search.visited
        BY <1>2, <4>1, <4>2, <4>3, VisitedBall
      <4> QED BY <1>2, <4>3, <4>4 DEF Sound
    <3>5. Right(a)
      BY <3>3, <3>4 DEF Right, Undisputed
    <3> QED BY <3>2, <3>3, <3>5 DEF SearchHolds
  <2>2. CASE search.queue # <<>>
    <3>1. PICK p : p = search.queue[1]
      OBVIOUS
    <3>2. Head(search.queue) = p /\ p \in Seq(Twins) /\ Len(p) \in Nat
      BY <1>2, <2>2, <3>1, QueueFacts
    <3>3. CASE Len(p) - 1 >= MaxDepth
      <4>1. PICK s \in Searching : s = search
        BY <1>2
      <4>2. PICK t : t = [s EXCEPT !.queue = Tail(s.queue)]
        OBVIOUS
      <4>3. search' = t
        BY <2>2, <3>2, <3>3, <4>1, <4>2 DEF ReadOutgoing
      <4>4. t.pc = "out"
        BY <1>1, <4>1, <4>2 DEF Searching
      <4>5. /\ t \in Searching /\ Sound(t) /\ t.steady = s.steady /\ t.during = s.during
            /\ Thorough(s) => Thorough(t)
        <5>1. Sound(s) /\ Dropped(t, s) /\ p = s.queue[1]
          BY <1>2, <2>2, <3>1, <4>1, <4>2, <4>4 DEF Dropped
        <5>2. HeadDealt(s)
          BY <3>3, <5>1 DEF HeadDealt
        <5> QED BY <5>1, <5>2, DropKeeps
      <4>6. Undisputed(t) => Thorough(t)
        BY <1>2, <4>1, <4>5 DEF Undisputed
      <4>7. links' \subseteq t.during /\ (t.steady => t.during = links')
        BY <1>1, <1>2, <4>1, <4>5
      <4> QED BY <4>3, <4>5, <4>6, <4>7 DEF SearchHolds
    <3>4. CASE ~(Len(p) - 1 >= MaxDepth)
      <4>1. Next1(search, p)
        BY <1>3, <2>2, <3>1, <3>2, <3>4 DEF Next1
      <4>2. PICK S : S = {n \in Twins : <<EndOfPath(p), n>> \in links}
        OBVIOUS
      <4>3. PICK fresh \in Fresh(S) : search' = Expand(fresh, p, "in")
        BY <2>2, <3>2, <3>4, <4>2 DEF ReadOutgoing, Last, EndOfPath
      <4>4. Reached(fresh, p, search) /\ (Cardinality(S) <= LIMIT => S \subseteq search.visited \cup Range(fresh))
        <5>1. S \subseteq Twins /\ \A n \in S : Neighbours(links, EndOfPath(p), n)
          BY <4>2 DEF Neighbours
        <5> QED BY <1>1, <4>1, <5>1, RowsFacts
      <4>5. CASE Target \in Range(fresh)
        BY <1>2, <4>1, <4>3, <4>4, <4>5, ExpandAnswers DEF SearchHolds
      <4>6. CASE Target \notin Range(fresh)
        <5>1. PICK t : t = Expand(fresh, p, "in")
          OBVIOUS
        <5>2. t \in Searching /\ t.pc = "in" /\ Queued(t, search, p, fresh)
          BY <1>2, <3>2, <4>4, <4>6, <5>1, ExpandGrows
        <5>3. Sound(t)
          BY <1>2, <4>1, <4>4, <4>6, <5>2, GrownIsSound
        <5>4. t.steady = search.steady /\ t.during = search.during /\ t.visited = search.visited \cup Range(fresh)
          BY <5>2 DEF Queued
        <5>5. ASSUME Undisputed(t) PROVE Thorough(t)
          <6>1. Undisputed(search) /\ search.during = links
            BY <1>2, <5>4, <5>5 DEF Undisputed
          <6>2. EndOfPath(p) \in Twins
            BY <1>2, <2>2, <3>1, HeadIsReal
          <6>3. Cardinality(S) <= LIMIT
            <7>1. IsFiniteSet(S) /\ Cardinality(S) \in Nat /\ LIMIT \in Nat
              BY <4>2, GraphAssumption, FS_Subset, FS_CardinalityType
            <7>2. ~(Cardinality(S) > LIMIT)
              BY <4>2, <6>1, <6>2 DEF Undisputed, Crowded
            <7> QED BY <7>1, <7>2
          <6>4. \A n \in Twins : <<EndOfPath(p), n>> \in search.during => n \in t.visited
            BY <4>2, <4>4, <5>4, <6>1, <6>3
          <6> QED BY <1>2, <4>1, <4>4, <5>2, <6>1, <6>4, GrownIsThorough
        <5>6. links' \subseteq t.during /\ (t.steady => t.during = links')
          BY <1>1, <1>2, <5>4
        <5> QED BY <4>3, <5>1, <5>2, <5>3, <5>5, <5>6 DEF SearchHolds
      <4> QED BY <4>5, <4>6
    <3> QED BY <3>3, <3>4
  <2> QED BY <2>1, <2>2
<1> QED BY <1>1, <1>4 DEF GraphInv, Relating

LEMMA IncomingKeeps == ASSUME GraphInv, ReadIncoming PROVE GraphInv'
<1>1. search.pc = "in" /\ links' = links /\ relate' = relate
  BY DEF ReadIncoming
<1>2. /\ search \in Searching /\ Sound(search) /\ (Undisputed(search) => Thorough(search))
      /\ links \subseteq search.during /\ (search.steady => search.during = links) /\ links \subseteq Pairs
  BY <1>1, TurnFacts
<1>3. search.queue # <<>> /\ Len(search.queue[1]) <= MaxDepth
  BY <1>1, <1>2 DEF Sound
<1>4. PICK p : p = search.queue[1]
  OBVIOUS
<1>5. Head(search.queue) = p /\ p \in Seq(Twins) /\ Next1(search, p) /\ EndOfPath(p) \in Twins
  BY <1>2, <1>3, <1>4, QueueFacts, HeadIsReal DEF Next1
<1>6. PICK S : S = {n \in Twins : <<n, EndOfPath(p)>> \in links}
  OBVIOUS
<1>7. PICK fresh \in Fresh(S) : search' = DropHead(Expand(fresh, p, "out"))
  BY <1>5, <1>6 DEF ReadIncoming, Last, EndOfPath
<1>8. Reached(fresh, p, search) /\ (Cardinality(S) <= LIMIT => S \subseteq search.visited \cup Range(fresh))
  <2>1. S \subseteq Twins /\ \A n \in S : Neighbours(links, EndOfPath(p), n)
    BY <1>6 DEF Neighbours
  <2> QED BY <1>1, <1>5, <2>1, RowsFacts
<1>9. PICK t : t = Expand(fresh, p, "out")
  OBVIOUS
<1>10. SearchHolds'
  <2>1. CASE Target \in Range(fresh)
    <3>1. t \in Answer /\ Right(t)
      BY <1>2, <1>5, <1>8, <1>9, <2>1, ExpandAnswers
    <3>2. search' = t
      BY <1>7, <1>9, <3>1 DEF DropHead, Answer
    <3> QED BY <3>1, <3>2 DEF SearchHolds
  <2>2. CASE Target \notin Range(fresh)
    <3>1. t \in Searching /\ t.pc = "out" /\ Queued(t, search, p, fresh)
      BY <1>2, <1>5, <1>8, <1>9, <2>2, ExpandGrows
    <3>2. Sound(t) /\ Next1(t, p)
      BY <1>2, <1>5, <1>8, <2>2, <3>1, GrownIsSound
    <3>3. t.steady = search.steady /\ t.during = search.during /\ t.visited = search.visited \cup Range(fresh)
      BY <3>1 DEF Queued
    <3>4. PICK u : u = [t EXCEPT !.queue = Tail(t.queue)]
      OBVIOUS
    <3>5. search' = u
      BY <1>7, <1>9, <3>1, <3>4 DEF DropHead
    <3>6. u.pc = "out"
      BY <3>1, <3>4 DEF Searching
    <3>7. t.queue # <<>> /\ p = t.queue[1]
      BY <3>2 DEF Next1
    <3>8. /\ u \in Searching /\ Sound(u) /\ u.steady = t.steady /\ u.during = t.during
          /\ Thorough(t) /\ (\A n \in Twins : Neighbours(t.during, EndOfPath(p), n) => n \in t.visited) => Thorough(u)
      <4>1. Dropped(u, t)
        BY <3>4, <3>6, <3>7 DEF Dropped
      <4>2. (\A n \in Twins : Neighbours(t.during, EndOfPath(p), n) => n \in t.visited) => HeadDealt(t)
        BY <3>7 DEF HeadDealt
      <4> QED BY <3>1, <3>2, <4>1, <4>2, DropKeeps
    <3>9. ASSUME Undisputed(u) PROVE Thorough(u)
      <4>1. Undisputed(search) /\ search.during = links
        BY <1>2, <3>3, <3>8, <3>9 DEF Undisputed
      <4>2. Cardinality(S) <= LIMIT
        <5>1. IsFiniteSet(S) /\ Cardinality(S) \in Nat /\ LIMIT \in Nat
          BY <1>6, GraphAssumption, FS_Subset, FS_CardinalityType
        <5>2. ~(Cardinality(S) > LIMIT)
          BY <1>5, <1>6, <4>1 DEF Undisputed, Crowded
        <5> QED BY <5>1, <5>2
      <4>3. Thorough(search)
        BY <1>2, <4>1
      <4>4. \A n \in Twins : <<EndOfPath(p), n>> \in search.during => n \in search.visited
        BY <1>1, <1>4, <4>3 DEF Thorough
      <4>5. \A n \in Twins : <<n, EndOfPath(p)>> \in search.during => n \in t.visited
        BY <1>6, <1>8, <3>3, <4>1, <4>2
      <4>6. \A n \in Twins : Neighbours(t.during, EndOfPath(p), n) => n \in t.visited
        BY <3>3, <4>4, <4>5 DEF Neighbours
      <4>7. Thorough(t)
        BY <1>2, <1>5, <1>8, <3>1, <4>3, GrownIsThorough
      <4> QED BY <3>8, <4>6, <4>7
    <3>10. links' \subseteq u.during /\ (u.steady => u.during = links')
      BY <1>1, <1>2, <3>3, <3>8
    <3> QED BY <3>5, <3>8, <3>9, <3>10 DEF SearchHolds
  <2> QED BY <2>1, <2>2
<1> QED BY <1>1, <1>2, <1>10 DEF GraphInv, Relating

LEMMA GraphStep == GraphInv /\ (GraphNext \/ UNCHANGED graphVars) => GraphInv'
<1> SUFFICES ASSUME GraphInv, GraphNext \/ UNCHANGED graphVars PROVE GraphInv'
  OBVIOUS
<1>1. ASSUME NEW r \in Relators, NEW p \in Pairs, CheckRelation(r, p) PROVE GraphInv'
  BY <1>1, CheckRelationKeeps
<1>2. ASSUME NEW r \in Relators, InsertRelation(r) \/ CommitRelation(r) \/ CloseSession(r)
      PROVE  GraphInv'
  BY <1>2, RelationKeeps, PendingKeeps
<1>3. ASSUME NEW p \in Pairs, RemoveRelation(p) PROVE GraphInv'
  BY <1>3, RelationKeeps
<1>4. CASE FindPath
  BY <1>4, FindPathKeeps
<1>5. CASE ReadOutgoing
  BY <1>5, OutgoingKeeps
<1>6. CASE ReadIncoming
  BY <1>6, IncomingKeeps
<1>7. CASE UNCHANGED graphVars
  <2>1. links' = links /\ relate' = relate /\ search' = search
    BY <1>7 DEF graphVars
  <2>2. SearchHolds'
    BY <2>1 DEF GraphInv, SearchHolds
  <2> QED BY <2>1, <2>2 DEF GraphInv, Relating
<1> QED BY <1>1, <1>2, <1>3, <1>4, <1>5, <1>6, <1>7 DEF GraphNext

LEMMA GraphFollows == GraphInv => GraphTypeOK /\ PathWasReal /\ PathIsShortest
<1> SUFFICES ASSUME GraphInv PROVE GraphTypeOK /\ PathWasReal /\ PathIsShortest
  OBVIOUS
<1>1. GraphTypeOK
  <2>1. search.pc \in {"ready", "out", "in", "done"}
    BY DEF GraphInv, SearchHolds, Searching, Answer
  <2>2. search.pc \in {"out", "in"} => search.queue \in Seq(Seq(Twins))
    BY TurnFacts DEF Searching
  <2>3. search.pc \in {"out", "in"} => \A i \in DOMAIN search.queue : search.queue[i] \in Seq(Twins)
    BY <2>2
  <2> QED BY <2>1, <2>3 DEF GraphInv, GraphTypeOK
<1>2. search.pc = "done" => search \in Answer /\ Right(search)
  BY DEF GraphInv, SearchHolds, Searching
<1>3. PathIsShortest
  <2> SUFFICES ASSUME search.pc = "done", search.steady, ~Crowded(links), search.during = links
               PROVE  IF search.path = NoPath THEN Target \notin Ball(links)[MaxDepth]
                      ELSE /\ Len(search.path) - 1 \in 0..MaxDepth
                           /\ Target \in Ball(links)[Len(search.path) - 1]
                           /\ Len(search.path) > 1 => Target \notin Ball(links)[Len(search.path) - 2]
    BY DEF PathIsShortest
  <2>1. Undisputed(search) /\ Right(search)
    BY <1>2 DEF Undisputed
  <2> QED BY <2>1 DEF Right
<1>4. PathWasReal
  <2> SUFFICES ASSUME search.pc = "done", search.path # NoPath
               PROVE  /\ Head(search.path) = Source /\ Last(search.path) = Target
                      /\ \A i, j \in DOMAIN search.path : search.path[i] = search.path[j] => i = j
                      /\ \A i \in 1..(Len(search.path) - 1) :
                            \/ <<search.path[i], search.path[i + 1]>> \in search.during
                            \/ <<search.path[i + 1], search.path[i]>> \in search.during
    BY DEF PathWasReal
  <2>1. RealPath(search.path, search.during) /\ EndOfPath(search.path) = Target
    BY <1>2 DEF Right
  <2>2. Head(search.path) = search.path[1] /\ Last(search.path) = EndOfPath(search.path)
    BY <2>1 DEF RealPath, Last, EndOfPath
  <2> QED BY <2>1, <2>2 DEF RealPath, IsInjective, Neighbours
<1> QED BY <1>1, <1>3, <1>4

(* For any twins, calls, depth and query limit, whatever is committed or    *)
(* rolled back while a search runs: an answered path is one that existed,   *)
(* and a shortest one if the graph stayed as it was and no query was cut    *)
(* short.                                                                   *)
THEOREM PathsFollow == Spec => []PathsFollowLinks
<1>1. Init => GraphInv
  BY GraphStarts DEF Init
<1>2. GraphInv /\ [Next]_vars => GraphInv'
  BY PartSteps, GraphStep
<1>3. GraphInv => PathsFollowLinks
  BY GraphFollows DEF PathsFollowLinks
<1> QED BY <1>1, <1>2, <1>3, PTL DEF Spec

-----------------------------------------------------------------------------
(* Retrieval.  A document above another in every answer that has the other *)
(* scores more, because 1 / (RRF_K + rank) falls with the rank.            *)

RetrievalShape ==
  /\ stage \in {"query", "answered", "fused", "reranked", "context"}
  /\ \A s \in Signals : answers[s] \in Rankings
  /\ fused \in Seq(Documents) /\ IsInjective(fused)
  /\ reranked \in Seq(Documents) /\ IsInjective(reranked)
  /\ context \in Seq(Documents)

RetrievalInv == RetrievalShape /\ FusionRespectsAgreement /\ ContextIsGreedy

LEMMA SignalsAre ==
  /\ Signals = {"dense", "sparse", "graph"}
  /\ Weights["dense"] = 5 /\ Weights["sparse"] = 3 /\ Weights["graph"] = 2
BY DEF Signals, Weights

LEMMA DocumentsFinite == IsFiniteSet(Documents) /\ Cardinality(Documents) \in Nat
BY RetrievalAssumption, FS_CardinalityType

LEMMA RankingIs ==
  ASSUME NEW r \in Rankings
  PROVE  r \in Seq(Documents) /\ IsInjective(r) /\ DOMAIN r \subseteq 1..Cardinality(Documents)
<1>1. PICK n \in 0..Cardinality(Documents) : r \in [1..n -> Documents] /\ IsInjective(r)
  BY DEF Rankings
<1>2. n \in Nat /\ n <= Cardinality(Documents)
  BY <1>1, DocumentsFinite
<1> QED BY <1>1, <1>2, DocumentsFinite

LEMMA RankIs ==
  ASSUME RetrievalShape, NEW s \in Signals, NEW d \in ToSet(answers[s])
  PROVE  Rank(s, d) \in 1..Cardinality(Documents) /\ answers[s][Rank(s, d)] = d /\ d \in Documents
<1>1. \E i \in DOMAIN answers[s] : answers[s][i] = d
  BY DEF ToSet
<1>2. Rank(s, d) \in DOMAIN answers[s] /\ answers[s][Rank(s, d)] = d
  BY <1>1 DEF Rank
<1>3. answers[s] \in Seq(Documents) /\ DOMAIN answers[s] \subseteq 1..Cardinality(Documents)
  BY RankingIs DEF RetrievalShape
<1> QED BY <1>2, <1>3

Reciprocal(i) == Scale \div (RRF_K + i)

LEMMA Quotient ==
  ASSUME NEW a \in Nat \ {0}, NEW m \in Nat \ {0}, a % m = 0
  PROVE  a \div m \in Nat /\ a \div m > 0 /\ a = m * (a \div m)
<1>1. a = m * (a \div m) + (a % m) /\ a \div m \in Int
  OBVIOUS
<1>2. a = m * (a \div m)
  BY <1>1
<1> DEFINE q == a \div m
<1>3. q \in Int /\ a = m * q
  BY <1>1, <1>2
<1> HIDE DEF q
<1>4. ~(q <= 0)
  <2>1. ASSUME q <= 0 PROVE m * q <= 0
    BY <1>3, <2>1
  <2> QED BY <1>3, <2>1
<1> QED BY <1>3, <1>4 DEF q

LEMMA Product ==
  ASSUME NEW m \in Nat, NEW n \in Nat, NEW p \in Nat, NEW q \in Nat, m < n, p <= q, q > 0
  PROVE  m * p < n * q
<1>1. m * p <= m * q
  OBVIOUS
<1>2. n * q = m * q + (n - m) * q
  OBVIOUS
<1>3. (n - m) * q > 0
  <2>1. PICK e \in Nat : e = n - m /\ e > 0
    OBVIOUS
  <2>2. e * q > 0
    BY <2>1
  <2> QED BY <2>1, <2>2
<1>4. m * p \in Nat /\ m * q \in Nat /\ (n - m) * q \in Int
  OBVIOUS
<1> QED BY <1>1, <1>2, <1>3, <1>4

LEMMA ReciprocalFalls ==
  ASSUME NEW i \in 1..Cardinality(Documents), NEW j \in 1..Cardinality(Documents)
  PROVE  Reciprocal(i) \in Nat /\ Reciprocal(i) > 0 /\ (i < j => Reciprocal(i) > Reciprocal(j))
<1>1. /\ RRF_K + i \in Nat \ {0} /\ RRF_K + j \in Nat \ {0}
      /\ Scale \in Nat \ {0} /\ Scale % (RRF_K + i) = 0 /\ Scale % (RRF_K + j) = 0
  BY RetrievalAssumption, DocumentsFinite
<1>2. /\ Reciprocal(i) \in Nat /\ Reciprocal(i) > 0 /\ Scale = (RRF_K + i) * Reciprocal(i)
      /\ Reciprocal(j) \in Nat /\ Reciprocal(j) > 0 /\ Scale = (RRF_K + j) * Reciprocal(j)
  BY <1>1, Quotient DEF Reciprocal
<1>3. ASSUME i < j, ~(Reciprocal(i) > Reciprocal(j)) PROVE FALSE
  <2>1. RRF_K + i < RRF_K + j /\ Reciprocal(i) <= Reciprocal(j)
    BY <1>2, <1>3, RetrievalAssumption, DocumentsFinite
  <2>2. (RRF_K + i) * Reciprocal(i) < (RRF_K + j) * Reciprocal(j)
    BY <1>1, <1>2, <2>1, Product
  <2> QED BY <1>1, <1>2, <2>2
<1> QED BY <1>2, <1>3

LEMMA SharesFall ==
  ASSUME RetrievalShape, NEW a, NEW b, Above(a, b), NEW s \in Signals
  PROVE  /\ Share(s, a) \in Nat /\ Share(s, b) \in Nat /\ Share(s, b) <= Share(s, a)
         /\ b \in ToSet(answers[s]) => Share(s, b) < Share(s, a)
<1>0. PICK w \in {2, 3, 5} : w = Weights[s]
  BY SignalsAre
<1>1. CASE b \in ToSet(answers[s])
  <2>1. a \in ToSet(answers[s]) /\ Rank(s, a) < Rank(s, b)
    BY <1>1 DEF Above
  <2>2. Rank(s, a) \in 1..Cardinality(Documents) /\ Rank(s, b) \in 1..Cardinality(Documents)
    BY <1>1, <2>1, RankIs
  <2>3. PICK q \in Nat, r \in Nat : q = Reciprocal(Rank(s, a)) /\ r = Reciprocal(Rank(s, b)) /\ q > r
    BY <2>1, <2>2, ReciprocalFalls
  <2>4. Share(s, a) = w * q /\ Share(s, b) = w * r
    BY <1>0, <1>1, <2>1, <2>3 DEF Share, Reciprocal
  <2>5. w * q \in Nat /\ w * r \in Nat /\ w * r < w * q
    BY <1>0, <2>3
  <2> QED BY <2>4, <2>5
<1>2. CASE b \notin ToSet(answers[s])
  <2>1. Share(s, b) = 0
    BY <1>2 DEF Share
  <2>2. Share(s, a) \in Nat
    <3>1. CASE a \in ToSet(answers[s])
      <4>1. Rank(s, a) \in 1..Cardinality(Documents)
        BY <3>1, RankIs
      <4>2. PICK q \in Nat : q = Reciprocal(Rank(s, a))
        BY <4>1, ReciprocalFalls
      <4>3. Share(s, a) = w * q
        BY <1>0, <3>1, <4>2 DEF Share, Reciprocal
      <4> QED BY <1>0, <4>2, <4>3
    <3>2. CASE a \notin ToSet(answers[s])
      BY <3>2 DEF Share
    <3> QED BY <3>1, <3>2
  <2> QED BY <1>2, <2>1, <2>2
<1> QED BY <1>1, <1>2

LEMMA AboveScoresMore ==
  ASSUME RetrievalShape, NEW a, NEW b \in Found, Above(a, b)
  PROVE  RrfScore(a) \in Nat /\ RrfScore(b) \in Nat /\ RrfScore(b) < RrfScore(a)
<1>1. PICK s \in Signals : b \in ToSet(answers[s])
  BY DEF Found
<1>2. s \in {"dense", "sparse", "graph"} /\ "dense" \in Signals /\ "sparse" \in Signals /\ "graph" \in Signals
  BY SignalsAre
<1>3. /\ Share("dense", a) \in Nat /\ Share("dense", b) \in Nat /\ Share("dense", b) <= Share("dense", a)
      /\ b \in ToSet(answers["dense"]) => Share("dense", b) < Share("dense", a)
  BY <1>2, SharesFall
<1>4. /\ Share("sparse", a) \in Nat /\ Share("sparse", b) \in Nat /\ Share("sparse", b) <= Share("sparse", a)
      /\ b \in ToSet(answers["sparse"]) => Share("sparse", b) < Share("sparse", a)
  BY <1>2, SharesFall
<1>5. /\ Share("graph", a) \in Nat /\ Share("graph", b) \in Nat /\ Share("graph", b) <= Share("graph", a)
      /\ b \in ToSet(answers["graph"]) => Share("graph", b) < Share("graph", a)
  BY <1>2, SharesFall
<1>6. \/ Share("dense", b) < Share("dense", a) \/ Share("sparse", b) < Share("sparse", a)
      \/ Share("graph", b) < Share("graph", a)
  BY <1>1, <1>2, <1>3, <1>4, <1>5
<1> QED BY <1>3, <1>4, <1>5, <1>6 DEF RrfScore

LEMMA FoundIs == ASSUME RetrievalShape PROVE Found \subseteq Documents /\ IsFiniteSet(Found)
<1>1. ASSUME NEW d \in Found PROVE d \in Documents
  <2>1. PICK s \in Signals : d \in ToSet(answers[s])
    BY DEF Found
  <2> QED BY <2>1, RankIs
<1> QED BY <1>1, DocumentsFinite, FS_Subset

LEMMA TopIs ==
  ASSUME NEW S, NEW s \in Seq(S), NEW k \in Nat
  PROVE  /\ TopOf(s, k) \in Seq(S) /\ Len(TopOf(s, k)) <= Len(s)
         /\ \A i \in 1..Len(TopOf(s, k)) : TopOf(s, k)[i] = s[i]
         /\ IsInjective(s) => IsInjective(TopOf(s, k))
<1>1. PICK n \in 0..Len(s) : TopOf(s, k) = SubSeq(s, 1, n)
  BY DEF TopOf
<1>2. /\ TopOf(s, k) \in Seq(S) /\ Len(TopOf(s, k)) = n
      /\ \A i \in 1..n : TopOf(s, k)[i] = s[i]
  <2>1. n \in Nat /\ n <= Len(s) /\ Len(s) \in Nat /\ 1 \in 1..(Len(s) + 1) /\ n \in (1 - 1)..Len(s)
    BY <1>1
  <2>2. /\ SubSeq(s, 1, n) \in Seq(S) /\ Len(SubSeq(s, 1, n)) = n - 1 + 1
        /\ \A i \in 1..(n - 1 + 1) : SubSeq(s, 1, n)[i] = s[1 + i - 1]
    BY <2>1, SubSeqProperties
  <2> QED BY <1>1, <2>1, <2>2
<1>3. ASSUME IsInjective(s) PROVE IsInjective(TopOf(s, k))
  <2>1. DOMAIN TopOf(s, k) = 1..n /\ 1..n \subseteq DOMAIN s
    BY <1>1, <1>2
  <2> QED BY <1>2, <1>3, <2>1 DEF IsInjective
<1> QED BY <1>1, <1>2, <1>3

LEMMA RetrievalStarts == RetrievalInit => RetrievalInv
<1> SUFFICES ASSUME RetrievalInit PROVE RetrievalInv
  OBVIOUS
<1>1. /\ answers = [s \in Signals |-> <<>>] /\ fused = <<>> /\ reranked = <<>> /\ context = <<>>
      /\ stage = "query"
  BY DEF RetrievalInit
<1>2. <<>> \in Seq(Documents) /\ IsInjective(<<>>)
  BY DEF IsInjective
<1>3. <<>> \in Rankings
  <2>1. <<>> \in [1..0 -> Documents] /\ 0 \in 0..Cardinality(Documents)
    BY DocumentsFinite
  <2> QED BY <1>2, <2>1 DEF Rankings
<1>4. RetrievalShape
  BY <1>1, <1>2, <1>3 DEF RetrievalShape
<1> QED BY <1>1, <1>4 DEF RetrievalInv, FusionRespectsAgreement, ContextIsGreedy

LEMMA AnswersKeep ==
  ASSUME RetrievalInv, NEW dense \in Rankings, NEW sparse \in Rankings, NEW graph \in Rankings,
         RetrieveSignals(dense, sparse, graph)
  PROVE  RetrievalInv'
<1>1. /\ answers' = [dense |-> dense, sparse |-> sparse, graph |-> graph] /\ stage' = "answered"
      /\ fused' = fused /\ reranked' = reranked /\ context' = context
  BY DEF RetrieveSignals
<1>2. \A s \in Signals : answers'[s] \in Rankings
  BY <1>1, SignalsAre
<1>3. RetrievalShape'
  BY <1>1, <1>2 DEF RetrievalInv, RetrievalShape
<1> QED BY <1>1, <1>3 DEF RetrievalInv, FusionRespectsAgreement, ContextIsGreedy

(* sorted puts what is above first, and the cut leaves a beginning. *)
LEMMA FuseKeeps == ASSUME RetrievalInv, FuseRanks PROVE RetrievalInv'
<1>1. /\ stage' = "fused" /\ answers' = answers /\ reranked' = reranked /\ context' = context
      /\ \E order \in FusedOrders(Found) : fused' = TopOf(order, 2 * TOP_K)
  BY DEF FuseRanks
<1>2. PICK order : order \in FusedOrders(Found) /\ fused' = TopOf(order, 2 * TOP_K)
  BY <1>1
<1>3. /\ order \in SetToSeqs(Found)
      /\ \A i, j \in DOMAIN order : i < j => RrfScore(order[i]) >= RrfScore(order[j])
  BY <1>2 DEF FusedOrders, SortedBy
<1>4. RetrievalShape
  BY DEF RetrievalInv
<1>5. Found \subseteq Documents /\ IsFiniteSet(Found)
  BY <1>4, FoundIs
<1>6. order \in Seq(Found) /\ IsInjective(order) /\ Range(order) = Found
  BY <1>3, <1>5, Orders
<1>7. order \in Seq(Documents) /\ 2 * TOP_K \in Nat
  BY <1>5, <1>6, RetrievalAssumption
<1>8. /\ fused' \in Seq(Documents) /\ IsInjective(fused') /\ Len(fused') <= Len(order)
      /\ \A i \in 1..Len(fused') : fused'[i] = order[i]
  BY <1>2, <1>6, <1>7, TopIs
<1>9. RetrievalShape'
  BY <1>1, <1>4, <1>8 DEF RetrievalShape
<1>10. Found' = Found /\ \A a, b : Above(a, b)' <=> Above(a, b)
  BY <1>1 DEF Found, Above, Rank
<1>11. ASSUME NEW i \in DOMAIN fused', NEW a \in Found, Above(a, fused'[i])
       PROVE  \E j \in 1..(i - 1) : fused'[j] = a
  <2>1. i \in 1..Len(order) /\ fused'[i] = order[i] /\ i \in 1..Len(fused') /\ Len(order) \in Nat
    BY <1>7, <1>8
  <2>2. order[i] \in Found
    BY <1>6, <2>1
  <2>3. RrfScore(a) \in Nat /\ RrfScore(order[i]) \in Nat /\ RrfScore(order[i]) < RrfScore(a)
    BY <1>4, <1>11, <2>1, <2>2, AboveScoresMore
  <2>4. PICK j \in DOMAIN order : order[j] = a
    BY <1>6 DEF Range
  <2>5. DOMAIN order = 1..Len(order)
    BY <1>7
  <2>6. ~(i < j)
    BY <1>3, <2>1, <2>3, <2>4, <2>5
  <2>7. j # i
    BY <2>3, <2>4
  <2>8. j \in 1..(i - 1) /\ j \in 1..Len(fused')
    BY <1>8, <2>1, <2>4, <2>5, <2>6, <2>7
  <2> QED BY <1>8, <2>4, <2>8
<1>12. FusionRespectsAgreement'
  <2>1. FusionRespectsAgreement' <=> (stage' \in {"fused", "reranked"} =>
           \A i \in DOMAIN fused', a \in Found' : Above(a, fused[i])' => \E j \in 1..(i - 1) : fused'[j] = a)
    BY DEF FusionRespectsAgreement
  <2> QED BY <1>10, <1>11, <2>1
<1>13. ContextIsGreedy'
  BY <1>1 DEF ContextIsGreedy
<1> QED BY <1>9, <1>12, <1>13 DEF RetrievalInv

LEMMA RerankKeeps == ASSUME RetrievalInv, NEW scores, Rerank(scores) PROVE RetrievalInv'
<1>1. /\ stage = "fused" /\ stage' = "reranked" /\ answers' = answers /\ fused' = fused /\ context' = context
      /\ \E p \in RerankedPlaces(scores) : reranked' = TopOf([i \in DOMAIN p |-> fused[p[i]]], TOP_K)
  BY DEF Rerank
<1>2. PICK p : p \in SetToSeqs(DOMAIN fused) /\ reranked' = TopOf([i \in DOMAIN p |-> fused[p[i]]], TOP_K)
  BY <1>1 DEF RerankedPlaces
<1>3. fused \in Seq(Documents) /\ IsInjective(fused) /\ Len(fused) \in Nat /\ DOMAIN fused = 1..Len(fused)
  BY DEF RetrievalInv, RetrievalShape
<1>4. p \in Seq(DOMAIN fused) /\ IsInjective(p) /\ DOMAIN p = 1..Len(p) /\ Len(p) \in Nat
  <2>1. IsFiniteSet(DOMAIN fused)
    BY <1>3, FS_Interval
  <2> QED BY <1>2, <2>1, Orders
<1> DEFINE s == [i \in DOMAIN p |-> fused[p[i]]]
<1>5. /\ s \in Seq(Documents) /\ IsInjective(s)
  <2>1. \A i \in DOMAIN p : p[i] \in DOMAIN fused /\ fused[p[i]] \in Documents
    BY <1>3, <1>4
  <2>2. s \in [1..Len(p) -> Documents]
    BY <1>4, <2>1
  <2>3. IsInjective(s)
    BY <1>3, <1>4, <2>1 DEF IsInjective
  <2> QED BY <1>4, <2>2, <2>3
<1> HIDE DEF s
<1>6. reranked' \in Seq(Documents) /\ IsInjective(reranked')
  <2>1. reranked' = TopOf(s, TOP_K)
    BY <1>2 DEF s
  <2> QED BY <1>5, <2>1, TopIs, RetrievalAssumption
<1>7. RetrievalShape'
  BY <1>1, <1>6 DEF RetrievalInv, RetrievalShape
<1>8. FusionRespectsAgreement'
  <2>1. Found' = Found /\ \A a, b : Above(a, b)' <=> Above(a, b)
    BY <1>1 DEF Found, Above, Rank
  <2>2. \A i \in DOMAIN fused, a \in Found : Above(a, fused[i]) => \E j \in 1..(i - 1) : fused[j] = a
    BY <1>1 DEF RetrievalInv, FusionRespectsAgreement
  <2>3. FusionRespectsAgreement' <=> (stage' \in {"fused", "reranked"} =>
           \A i \in DOMAIN fused', a \in Found' : Above(a, fused[i])' => \E j \in 1..(i - 1) : fused'[j] = a)
    BY DEF FusionRespectsAgreement
  <2>4. \A i \in DOMAIN fused, a \in Found : Above(a, fused[i])' => Above(a, fused[i])
    BY <1>1 DEF Above, Rank
  <2> QED BY <1>1, <2>1, <2>2, <2>3, <2>4
<1> QED BY <1>1, <1>7, <1>8 DEF RetrievalInv, ContextIsGreedy

(* What the documents of a list take together. *)
LEMMA SpentIs ==
  ASSUME NEW docs \in Seq(Documents)
  PROVE  /\ Spent(docs)[0] = 0
         /\ \A n \in 1..Len(docs) : Spent(docs)[n] = Spent(docs)[n - 1] + Tokens[docs[n]]
         /\ \A n \in 0..Len(docs) : Spent(docs)[n] \in Nat
<1> DEFINE m == Len(docs)
           turn == [p \in Nat \X (1..m) |-> p[1] + Tokens[docs[p[2]]]]
           Sums(f) == f = [n \in 0..m |-> IF n = 0 THEN 0 ELSE f[n - 1] + Tokens[docs[n]]]
<1>1. m \in Nat /\ 0 \in Nat /\ \A n \in 1..m : Tokens[docs[n]] \in Nat
  <2>1. \A n \in 1..Len(docs) : docs[n] \in Documents
    OBVIOUS
  <2> QED BY <2>1, RetrievalAssumption
<1>2. turn \in Turns(m, Nat)
  <2>1. \A p \in Nat \X (1..m) : p[1] + Tokens[docs[p[2]]] \in Nat
    BY <1>1
  <2> QED BY <2>1 DEF Turns
<1>3. PICK f : LoopRuns(f, m, Nat, 0, turn)
  <2> HIDE DEF turn, m
  <2> QED BY <1>1, <1>2, LoopExists
<1>4. \A n \in 1..m : f[n - 1] \in Nat /\ f[n] = f[n - 1] + Tokens[docs[n]]
  <2> SUFFICES ASSUME NEW n \in 1..m PROVE f[n - 1] \in Nat /\ f[n] = f[n - 1] + Tokens[docs[n]]
    OBVIOUS
  <2>1. n - 1 \in 0..m /\ f \in [0..m -> Nat]
    BY <1>1, <1>3 DEF LoopRuns
  <2>2. f[n - 1] \in Nat /\ <<f[n - 1], n>> \in Nat \X (1..m)
    BY <2>1
  <2> QED BY <1>3, <2>2 DEF LoopRuns
<1>5. Sums(f)
  <2>1. f \in [0..m -> Nat] /\ f[0] = 0
    BY <1>3 DEF LoopRuns
  <2>2. \A n \in 0..m : f[n] = IF n = 0 THEN 0 ELSE f[n - 1] + Tokens[docs[n]]
    BY <1>1, <1>4, <2>1
  <2> QED BY <2>1, <2>2
<1>6. Spent(docs) = CHOOSE g : Sums(g)
  BY DEF Spent
<1> DEFINE g == Spent(docs)
<1>7. Sums(g)
  BY <1>5, <1>6
<1> HIDE DEF g
<1>8. \A n \in 0..m : g[n] = IF n = 0 THEN 0 ELSE g[n - 1] + Tokens[docs[n]]
  BY <1>7, Zenon
<1>9. g[0] = 0 /\ \A n \in 1..m : g[n] = g[n - 1] + Tokens[docs[n]]
  BY <1>1, <1>8
<1> DEFINE S == {n \in 0..m : g[n] \in Nat}
<1>10. 0 \in S
  BY <1>1, <1>9
<1>11. ASSUME NEW n \in 0..(m - 1), n \in S PROVE n + 1 \in S
  <2>1. n + 1 \in 1..m /\ n + 1 \in 0..m /\ (n + 1) - 1 = n
    BY <1>1
  <2>2. g[n + 1] = g[n] + Tokens[docs[n + 1]] /\ Tokens[docs[n + 1]] \in Nat
    BY <1>1, <1>9, <2>1
  <2> QED BY <1>11, <2>1, <2>2
<1> HIDE DEF S
<1>12. 0..m \subseteq S
  <2> HIDE DEF m
  <2> QED BY <1>1, <1>10, <1>11, SetInduction
<1> QED BY <1>9, <1>12 DEF S, g

LEMMA OneMoreSpent ==
  ASSUME NEW docs \in Seq(Documents), NEW d \in Documents
  PROVE  /\ \A n \in 0..Len(docs) : Spent(Append(docs, d))[n] = Spent(docs)[n]
         /\ Spent(Append(docs, d))[Len(docs) + 1] = Spent(docs)[Len(docs)] + Tokens[d]
<1> DEFINE k == Append(docs, d)
           m == Len(docs)
<1>1. /\ k \in Seq(Documents) /\ Len(k) = m + 1 /\ m \in Nat /\ k[m + 1] = d
      /\ \A n \in 1..m : k[n] = docs[n]
  OBVIOUS
<1> HIDE DEF k, m
<1>2. /\ Spent(k)[0] = 0
      /\ \A n \in 1..(m + 1) : Spent(k)[n] = Spent(k)[n - 1] + Tokens[k[n]]
  BY <1>1, SpentIs
<1>3. /\ Spent(docs)[0] = 0
      /\ \A n \in 1..m : Spent(docs)[n] = Spent(docs)[n - 1] + Tokens[docs[n]]
  BY SpentIs DEF m
<1> DEFINE S == {n \in 0..m : Spent(k)[n] = Spent(docs)[n]}
<1>4. 0 \in S
  BY <1>1, <1>2, <1>3
<1>5. ASSUME NEW n \in 0..(m - 1), n \in S PROVE n + 1 \in S
  <2>1. n + 1 \in 1..m /\ n + 1 \in 1..(m + 1) /\ n + 1 \in 0..m /\ (n + 1) - 1 = n
    BY <1>1
  <2>2. Spent(k)[n + 1] = Spent(k)[n] + Tokens[k[n + 1]] /\ Spent(docs)[n + 1] = Spent(docs)[n] + Tokens[docs[n + 1]]
    BY <1>2, <1>3, <2>1
  <2> QED BY <1>1, <1>5, <2>1, <2>2
<1> HIDE DEF S
<1>6. 0..m \subseteq S
  BY <1>1, <1>4, <1>5, SetInduction
<1>7. \A n \in 0..m : Spent(k)[n] = Spent(docs)[n]
  BY <1>6 DEF S
<1>8. Spent(k)[m + 1] = Spent(docs)[m] + Tokens[d]
  <2>1. m + 1 \in 1..(m + 1) /\ (m + 1) - 1 = m /\ m \in 0..m
    BY <1>1
  <2> QED BY <1>1, <1>2, <1>7, <2>1
<1> QED BY <1>7, <1>8 DEF k, m

TakenUpTo(i, docs) == {j \in 1..i : reranked[j] \in ToSet(docs)}

(* What is so after i turns of the loop of build_context. *)
GreedyAt(i, t) ==
  /\ t.taken \in Seq(Documents) /\ t.remaining \in Nat
  /\ \A d \in ToSet(t.taken) : \E j \in 1..i : reranked[j] = d
  /\ Spent(t.taken)[Len(t.taken)] + t.remaining = BUDGET
  /\ Cardinality(TakenUpTo(i, t.taken)) = Len(t.taken)
  /\ \A j \in 1..i : reranked[j] \notin ToSet(t.taken) =>
        Spent(t.taken)[Cardinality(TakenUpTo(j - 1, t.taken))] + Tokens[reranked[j]] > BUDGET

LEMMA TakenFinite ==
  ASSUME NEW i \in Nat, NEW docs, NEW j \in 0..i
  PROVE  /\ IsFiniteSet(TakenUpTo(i, docs)) /\ Cardinality(TakenUpTo(i, docs)) \in Nat
         /\ Cardinality(TakenUpTo(j, docs)) \in Nat
         /\ Cardinality(TakenUpTo(j, docs)) <= Cardinality(TakenUpTo(i, docs))
<1>1. IsFiniteSet(1..i)
  BY FS_Interval
<1>2. TakenUpTo(i, docs) \subseteq 1..i /\ TakenUpTo(j, docs) \subseteq TakenUpTo(i, docs)
  BY DEF TakenUpTo
<1>3. IsFiniteSet(TakenUpTo(i, docs))
  BY <1>1, <1>2, FS_Subset
<1>4. IsFiniteSet(TakenUpTo(j, docs)) /\ Cardinality(TakenUpTo(j, docs)) <= Cardinality(TakenUpTo(i, docs))
  BY <1>2, <1>3, FS_Subset
<1> QED BY <1>3, <1>4, FS_CardinalityType

LEMMA GreedyTurn ==
  ASSUME RetrievalShape, NEW i \in 0..(Len(reranked) - 1), NEW t, GreedyAt(i, t)
  PROVE  GreedyAt(i + 1, TakeIfFits(t, reranked[i + 1]))
<1>1. /\ reranked \in Seq(Documents) /\ Len(reranked) \in Nat /\ DOMAIN reranked = 1..Len(reranked)
      /\ IsInjective(reranked)
  BY DEF RetrievalShape
<1>2. i \in Nat /\ i + 1 \in 1..Len(reranked) /\ 1..(i + 1) = 1..i \cup {i + 1} /\ 1..i \subseteq 1..Len(reranked)
      /\ (i + 1) - 1 = i /\ i + 1 \notin 1..i
  BY <1>1
<1>3. PICK d \in Documents : d = reranked[i + 1]
  BY <1>1, <1>2
<1>4. PICK docs \in Seq(Documents), left \in Nat : docs = t.taken /\ left = t.remaining
  BY DEF GreedyAt
<1>5. /\ \A x \in ToSet(docs) : \E j \in 1..i : reranked[j] = x
      /\ Spent(docs)[Len(docs)] + left = BUDGET
      /\ Cardinality(TakenUpTo(i, docs)) = Len(docs)
      /\ \A j \in 1..i : reranked[j] \notin ToSet(docs) =>
            Spent(docs)[Cardinality(TakenUpTo(j - 1, docs))] + Tokens[reranked[j]] > BUDGET
  BY <1>4 DEF GreedyAt
<1>6. \A j \in 1..i : reranked[j] # d
  <2> SUFFICES ASSUME NEW j \in 1..i, reranked[j] = d PROVE FALSE
    OBVIOUS
  <2>1. j \in 1..Len(reranked) /\ j # i + 1
    BY <1>2
  <2> QED BY <1>1, <1>2, <1>3, <2>1 DEF IsInjective
<1>7. d \notin ToSet(docs)
  BY <1>5, <1>6
<1>8. Tokens[d] \in Nat /\ Len(docs) \in Nat /\ Spent(docs)[Len(docs)] \in Nat /\ BUDGET \in Nat
  <2>1. Len(docs) \in 0..Len(docs) /\ Len(docs) \in Nat
    OBVIOUS
  <2> QED BY <2>1, SpentIs, RetrievalAssumption
<1>9. CASE Tokens[d] > left
  <2>1. TakeIfFits(t, d) = t
    BY <1>4, <1>9 DEF TakeIfFits
  <2>2. TakenUpTo(i + 1, docs) = TakenUpTo(i, docs)
    BY <1>2, <1>3, <1>7 DEF TakenUpTo
  <2>3. Spent(docs)[Cardinality(TakenUpTo(i, docs))] + Tokens[d] > BUDGET
    BY <1>5, <1>8, <1>9
  <2>4. ASSUME NEW j \in 1..(i + 1), reranked[j] \notin ToSet(docs)
        PROVE  Spent(docs)[Cardinality(TakenUpTo(j - 1, docs))] + Tokens[reranked[j]] > BUDGET
    <3>1. CASE j \in 1..i
      BY <1>5, <2>4, <3>1
    <3>2. CASE j = i + 1
      BY <1>2, <1>3, <2>3, <3>2
    <3> QED BY <1>2, <3>1, <3>2
  <2>5. \A x \in ToSet(docs) : \E j \in 1..(i + 1) : reranked[j] = x
    BY <1>2, <1>5
  <2>6. Cardinality(TakenUpTo(i + 1, docs)) = Len(docs)
    BY <1>5, <2>2
  <2>7. GreedyAt(i + 1, t)
    BY <1>4, <1>5, <2>4, <2>5, <2>6 DEF GreedyAt
  <2> QED BY <1>3, <2>1, <2>7
<1>10. CASE ~(Tokens[d] > left)
  <2>1. PICK k : k = Append(docs, d)
    OBVIOUS
  <2>2. /\ k \in Seq(Documents) /\ Len(k) = Len(docs) + 1 /\ k[Len(docs) + 1] = d
        /\ \A n \in 1..Len(docs) : k[n] = docs[n]
    BY <2>1
  <2>3. ToSet(k) = ToSet(docs) \cup {d}
    <3>1. DOMAIN k = 1..(Len(docs) + 1) /\ DOMAIN docs = 1..Len(docs)
          /\ 1..(Len(docs) + 1) = 1..Len(docs) \cup {Len(docs) + 1}
      BY <1>8, <2>2
    <3> QED BY <2>2, <3>1 DEF ToSet
  <2>4. PICK u : u = [taken |-> k, remaining |-> left - Tokens[d]] /\ u = TakeIfFits(t, d)
    BY <1>4, <1>10, <2>1 DEF TakeIfFits
  <2>5. u.taken = k /\ u.remaining = left - Tokens[d] /\ u.remaining \in Nat
    BY <1>8, <1>10, <2>4
  <2>6. ASSUME NEW j \in 0..i PROVE TakenUpTo(j, k) = TakenUpTo(j, docs)
    <3>1. \A h \in 1..j : h \in 1..i
      BY <1>2
    <3> QED BY <1>6, <2>3, <3>1 DEF TakenUpTo
  <2>7. i \in 0..i /\ \A j \in 1..i : j - 1 \in 0..i
    BY <1>2
  <2>8. Cardinality(TakenUpTo(i + 1, k)) = Len(k)
    <3>1. TakenUpTo(i + 1, k) = TakenUpTo(i, k) \cup {i + 1}
      BY <1>2, <1>3, <2>3 DEF TakenUpTo
    <3>2. TakenUpTo(i, k) = TakenUpTo(i, docs)
      BY <2>6, <2>7
    <3>3. i + 1 \notin TakenUpTo(i, docs) /\ IsFiniteSet(TakenUpTo(i, docs))
      BY <1>2, <2>7, TakenFinite DEF TakenUpTo
    <3>4. Cardinality(TakenUpTo(i, docs) \cup {i + 1}) = Cardinality(TakenUpTo(i, docs)) + 1
      BY <3>3, FS_AddElement
    <3> QED BY <1>5, <2>2, <3>1, <3>2, <3>4
  <2>9. /\ \A n \in 0..Len(docs) : Spent(k)[n] = Spent(docs)[n]
        /\ Spent(k)[Len(docs) + 1] = Spent(docs)[Len(docs)] + Tokens[d]
    BY <2>1, OneMoreSpent
  <2>10. ASSUME NEW j \in 1..(i + 1), reranked[j] \notin ToSet(k)
         PROVE  Spent(k)[Cardinality(TakenUpTo(j - 1, k))] + Tokens[reranked[j]] > BUDGET
    <3>1. j \in 1..i /\ reranked[j] \notin ToSet(docs)
      BY <1>2, <1>3, <2>3, <2>10
    <3>2. TakenUpTo(j - 1, k) = TakenUpTo(j - 1, docs)
      BY <2>6, <2>7, <3>1
    <3>3. Cardinality(TakenUpTo(j - 1, docs)) \in 0..Len(docs)
      <4>1. j - 1 \in 0..i
        BY <2>7, <3>1
      <4>2. Cardinality(TakenUpTo(j - 1, docs)) \in Nat
            /\ Cardinality(TakenUpTo(j - 1, docs)) <= Cardinality(TakenUpTo(i, docs))
        BY <1>2, <4>1, TakenFinite
      <4> QED BY <1>5, <1>8, <4>2
    <3> QED BY <1>5, <2>9, <3>1, <3>2, <3>3
  <2>11. \A x \in ToSet(k) : \E j \in 1..(i + 1) : reranked[j] = x
    BY <1>2, <1>3, <1>5, <2>3
  <2>12. Spent(k)[Len(k)] + (left - Tokens[d]) = BUDGET
    BY <1>5, <1>8, <2>2, <2>9
  <2>13. GreedyAt(i + 1, u)
    BY <2>2, <2>5, <2>8, <2>10, <2>11, <2>12 DEF GreedyAt
  <2> QED BY <1>3, <2>4, <2>13
<1> QED BY <1>9, <1>10

LEMMA EndOfContext ==
  ASSUME RetrievalShape
  PROVE  GreedyAt(Len(reranked), AfterTurn[Len(reranked)])
<1> DEFINE m == Len(reranked)
           T == [taken : Seq(Documents), remaining : Int]
           start == [taken |-> <<>>, remaining |-> BUDGET]
           turn == [p \in T \X (1..m) |-> TakeIfFits(p[1], reranked[p[2]])]
           Turning(f) == f = [i \in 0..m |-> IF i = 0 THEN start ELSE TakeIfFits(f[i - 1], reranked[i])]
<1>1. m \in Nat /\ start \in T /\ \A i \in 1..m : reranked[i] \in Documents
  BY RetrievalAssumption DEF RetrievalShape
<1>2. turn \in Turns(m, T)
  <2>1. ASSUME NEW t \in T, NEW d \in Documents PROVE TakeIfFits(t, d) \in T
    <3>1. t.taken \in Seq(Documents) /\ t.remaining \in Int /\ Tokens[d] \in Nat
      BY RetrievalAssumption
    <3>2. Append(t.taken, d) \in Seq(Documents) /\ t.remaining - Tokens[d] \in Int
      BY <3>1
    <3> QED BY <2>1, <3>2 DEF TakeIfFits
  <2>2. \A p \in T \X (1..m) : TakeIfFits(p[1], reranked[p[2]]) \in T
    BY <1>1, <2>1
  <2> QED BY <2>2 DEF Turns
<1> HIDE DEF turn, start, T
<1>3. PICK f : LoopRuns(f, m, T, start, turn)
  <2> HIDE DEF m
  <2> QED BY <1>1, <1>2, LoopExists
<1>4. Turning(f)
  <2>1. f \in [0..m -> T] /\ f[0] = start
    BY <1>3 DEF LoopRuns
  <2>2. ASSUME NEW i \in 1..m PROVE f[i] = TakeIfFits(f[i - 1], reranked[i])
    <3>1. i - 1 \in 0..m
      BY <1>1
    <3>2. f[i - 1] \in T
      BY <2>1, <3>1
    <3> QED BY <1>3, <3>2 DEF LoopRuns, turn
  <2>3. \A i \in 0..m : f[i] = IF i = 0 THEN start ELSE TakeIfFits(f[i - 1], reranked[i])
    BY <1>1, <2>1, <2>2
  <2> QED BY <2>1, <2>3
<1>5. AfterTurn = CHOOSE g : Turning(g)
  BY DEF AfterTurn, start
<1> DEFINE g == AfterTurn
<1>6. Turning(g)
  BY <1>4, <1>5
<1> HIDE DEF g
<1>7. \A i \in 0..m : g[i] = IF i = 0 THEN start ELSE TakeIfFits(g[i - 1], reranked[i])
  BY <1>6, Zenon
<1> DEFINE S == {i \in 0..m : GreedyAt(i, g[i])}
<1>8. 0 \in S
  <2>1. 0 \in 0..m /\ g[0] = start
    BY <1>1, <1>7
  <2>2. start.taken = <<>> /\ start.remaining = BUDGET /\ <<>> \in Seq(Documents) /\ Len(<<>>) = 0
    BY DEF start
  <2>3. TakenUpTo(0, <<>>) = {} /\ Cardinality({}) = 0
    BY FS_EmptySet DEF TakenUpTo
  <2>4. Spent(<<>>)[0] = 0
    BY <2>2, SpentIs
  <2>5. GreedyAt(0, start)
    <3>1. ToSet(start.taken) = {} /\ 1..0 = {}
      BY <2>2 DEF ToSet
    <3>2. /\ start.taken \in Seq(Documents) /\ start.remaining \in Nat
          /\ Spent(start.taken)[Len(start.taken)] + start.remaining = BUDGET
      BY <2>2, <2>4, RetrievalAssumption
    <3>3. Cardinality(TakenUpTo(0, start.taken)) = Len(start.taken)
      BY <2>2, <2>3
    <3> QED BY <3>1, <3>2, <3>3 DEF GreedyAt
  <2> QED BY <2>1, <2>5
<1>9. ASSUME NEW i \in 0..(m - 1), i \in S PROVE i + 1 \in S
  <2>1. i + 1 \in 0..m /\ i + 1 # 0 /\ (i + 1) - 1 = i
    BY <1>1
  <2>2. g[i + 1] = TakeIfFits(g[i], reranked[i + 1])
    BY <1>7, <2>1
  <2>3. GreedyAt(i + 1, g[i + 1])
    BY <1>9, <2>2, GreedyTurn
  <2> QED BY <2>1, <2>3
<1> HIDE DEF S
<1>10. 0..m \subseteq S
  <2> HIDE DEF m
  <2> QED BY <1>1, <1>8, <1>9, SetInduction
<1>11. m \in S
  BY <1>1, <1>10
<1> QED BY <1>11 DEF S, g

LEMMA ContextKeeps == ASSUME RetrievalInv, BuildContext PROVE RetrievalInv'
<1>1. /\ stage' = "context" /\ context' = AfterTurn[Len(reranked)].taken
      /\ answers' = answers /\ fused' = fused /\ reranked' = reranked
  BY DEF BuildContext
<1>2. RetrievalShape /\ Len(reranked) \in Nat /\ DOMAIN reranked = 1..Len(reranked)
  BY DEF RetrievalInv, RetrievalShape
<1>3. PICK t : t = AfterTurn[Len(reranked)] /\ GreedyAt(Len(reranked), t)
  BY <1>2, EndOfContext
<1>4. PICK docs \in Seq(Documents), left \in Nat : docs = t.taken /\ left = t.remaining /\ context' = docs
  BY <1>1, <1>3 DEF GreedyAt
<1>5. RetrievalShape'
  BY <1>1, <1>4 DEF RetrievalInv, RetrievalShape
<1>6. Spent(docs)[Len(docs)] <= BUDGET
  <2>1. Len(docs) \in 0..Len(docs)
    OBVIOUS
  <2>2. Spent(docs)[Len(docs)] \in Nat /\ Spent(docs)[Len(docs)] + left = BUDGET
    BY <1>3, <1>4, <2>1, SpentIs DEF GreedyAt
  <2> QED BY <2>2, RetrievalAssumption
<1>7. ASSUME NEW i \in DOMAIN reranked, reranked[i] \notin ToSet(docs)
      PROVE  Spent(docs)[Cardinality({j \in 1..(i - 1) : reranked[j] \in ToSet(docs)})] + Tokens[reranked[i]] > BUDGET
  <2>1. i \in 1..Len(reranked)
    BY <1>2
  <2>2. Spent(docs)[Cardinality(TakenUpTo(i - 1, docs))] + Tokens[reranked[i]] > BUDGET
    BY <1>3, <1>4, <1>7, <2>1 DEF GreedyAt
  <2> QED BY <2>2 DEF TakenUpTo
<1>8. ContextIsGreedy'
  <2>1. Spent(context') = Spent(docs) /\ Spent(context)' = Spent(context')
    BY <1>4 DEF Spent
  <2> QED BY <1>1, <1>4, <1>6, <1>7, <2>1 DEF ContextIsGreedy
<1>9. FusionRespectsAgreement'
  BY <1>1 DEF FusionRespectsAgreement
<1> QED BY <1>5, <1>8, <1>9 DEF RetrievalInv

LEMMA RetrievalStep == RetrievalInv /\ (RetrievalNext \/ UNCHANGED retrievalVars) => RetrievalInv'
<1> SUFFICES ASSUME RetrievalInv, RetrievalNext \/ UNCHANGED retrievalVars PROVE RetrievalInv'
  OBVIOUS
<1>1. ASSUME NEW dense \in Rankings, NEW sparse \in Rankings, NEW graph \in Rankings,
             RetrieveSignals(dense, sparse, graph)
      PROVE  RetrievalInv'
  BY <1>1, AnswersKeep
<1>2. CASE FuseRanks
  BY <1>2, FuseKeeps
<1>3. CASE BuildContext
  BY <1>3, ContextKeeps
<1>4. ASSUME NEW scores, Rerank(scores) PROVE RetrievalInv'
  BY <1>4, RerankKeeps
<1>5. CASE UNCHANGED retrievalVars
  <2>1. /\ answers' = answers /\ fused' = fused /\ reranked' = reranked
        /\ context' = context /\ relevance' = relevance /\ stage' = stage
    BY <1>5 DEF retrievalVars
  <2>2. RetrievalShape'
    BY <2>1 DEF RetrievalInv, RetrievalShape
  <2>3. FusionRespectsAgreement' <=> FusionRespectsAgreement
    BY <2>1 DEF FusionRespectsAgreement, Found, Above, Rank
  <2>4. ContextIsGreedy' <=> ContextIsGreedy
    BY <2>1 DEF ContextIsGreedy
  <2> QED BY <2>2, <2>3, <2>4 DEF RetrievalInv
<1> QED BY <1>1, <1>2, <1>3, <1>4, <1>5 DEF RetrievalNext

LEMMA RetrievalFollows == RetrievalInv => RetrievalTypeOK /\ FusionRespectsAgreement /\ ContextIsGreedy
<1> SUFFICES ASSUME RetrievalInv PROVE RetrievalTypeOK
  BY DEF RetrievalInv
<1>1. /\ stage \in {"query", "answered", "fused", "reranked", "context"}
      /\ fused \in Seq(Documents) /\ context \in Seq(Documents)
  BY DEF RetrievalInv, RetrievalShape
<1>2. /\ \A i \in DOMAIN fused : fused[i] \in Documents
      /\ \A i \in DOMAIN context : context[i] \in Documents
  BY <1>1
<1> QED BY <1>1, <1>2 DEF RetrievalTypeOK, ToSet

(* For any documents, answers, scores, sizes and budget: a fused ranking    *)
(* respects what all signals agree on, and the context is filled greedily   *)
(* within its budget.                                                       *)
THEOREM DocumentsServed == Spec => []DocumentsAreServed
<1>1. Init => RetrievalInv
  BY RetrievalStarts DEF Init
<1>2. RetrievalInv /\ [Next]_vars => RetrievalInv'
  BY PartSteps, RetrievalStep
<1>3. RetrievalInv => DocumentsAreServed
  BY RetrievalFollows DEF DocumentsAreServed
<1> QED BY <1>1, <1>2, <1>3, PTL DEF Spec

=============================================================================
