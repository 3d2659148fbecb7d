--------------------------- MODULE BalancesProofs ---------------------------
(***************************************************************************)
(* For any swaps, movements, prices, faults and restarts: that the guess   *)
(* whether the reconstruction has been done loses no history, and that     *)
(* rewinding is exact wherever the events that were read were complete.    *)
(***************************************************************************)
EXTENDS Balances, SumLemmas

AsbEntry ==
  [state : Outcomes \cup {"active"}, started : Times, ended : Times \cup {0}]

\* The times of the events that a reconstruction finds now.
EventTimes == {asb[s].started : s \in swaps} \cup {m.at : m \in capital}

\* What is mirrored has ended and stays as it is.
WorldInv ==
  /\ now \in Times
  /\ asb \in [Swaps -> AsbEntry \cup {Null}]
  /\ \A s \in Swaps : asb[s] # Null =>
       asb[s].ended <= now /\ (asb[s].state = "active" => asb[s].ended = 0)
  /\ swaps \subseteq EndedBy(now)
  /\ \A m \in moves : m.at \in Times
  /\ capital \subseteq moves

Reconstructed == {t \in DOMAIN rows : ~rows[t].live}

\* A reconstructed row lies at a full hour and not before the hour of some event.
RowsInv ==
  /\ DOMAIN rows \subseteq 0 .. MaxNow
  /\ Reconstructed \subseteq FullHours
  /\ \A t \in Reconstructed : \E u \in EventTimes : Hour(u) <= t

ReconShape ==
  recon = [pc |-> recon.pc, timeline |-> recon.timeline, prices |-> recon.prices,
           btc |-> recon.btc, earliest |-> recon.earliest, until |-> recon.until,
           pending |-> recon.pending]

\* An earlier reconstruction reached back no further than the events that this
\* one has read, or is about to read, ...
ReadsBack ==
  recon.pc = "capital" =>
    /\ \A e \in recon.timeline : e.at \in EventTimes
    /\ \A t \in Reconstructed :
         \E u \in {e.at : e \in recon.timeline} \cup {m.at : m \in capital} : Hour(u) <= t

\* ... so that no reconstructed row is older than the earliest of them.
EarliestHolds ==
  recon.pc \in {"gate", "prices", "btc", "xmr", "insert", "filled", "skipped"} =>
    /\ recon.earliest \in EventTimes
    /\ \A t \in Reconstructed : Hour(recon.earliest) <= t

ValuedHours == Valued(recon.prices, recon.earliest, recon.until)

PendingHolds ==
  recon.pc = "insert" =>
    /\ \A h \in DOMAIN recon.pending : h \in ValuedHours /\ ~recon.pending[h].live
    /\ ValuedHours \subseteq DOMAIN recon.pending \cup DOMAIN rows

ReconInv == ReconShape /\ ReadsBack /\ EarliestHolds /\ PendingHolds

HistoryInv == WorldInv /\ RowsInv /\ ReconInv /\ HistoryReachesBack

-----------------------------------------------------------------------------
\* Events are stamped with times the console can read off a clock.
LEMMA EventTimesOK == WorldInv => EventTimes \subseteq Times
BY DEF WorldInv, EventTimes, EndedBy, AsbEntry

\* At the start nothing is mirrored, entered or stored.
LEMMA HistoryInvInit == Init => HistoryInv
<1> SUFFICES ASSUME Init PROVE HistoryInv
  OBVIOUS
<1> USE BalancesAssumption
<1>1. WorldInv
  <2>1. \A s \in Swaps : asb[s] # Null =>
          /\ asb[s] \in [state : Outcomes, started : {t \in Times : t < FirstNow},
                         ended : {t \in Times : t < FirstNow}]
    BY DEF Init
  <2>2. "active" \notin Outcomes
    BY DEF Outcomes
  <2>3. asb \in [Swaps -> AsbEntry \cup {Null}]
    BY <2>1 DEF Init, AsbEntry
  <2>4. \A s \in Swaps : asb[s] # Null =>
          asb[s].ended <= now /\ (asb[s].state = "active" => asb[s].ended = 0)
    BY <2>1, <2>2 DEF Init, Times
  <2> QED BY <2>3, <2>4 DEF Init, WorldInv
<1>2. RowsInv
  BY DEF Init, RowsInv, Reconstructed
<1>3. recon.pc = "start" /\ ReconShape
  BY DEF Init, NoRecon, ReconShape
<1> QED
  BY <1>1, <1>2, <1>3
     DEF HistoryInv, ReconInv, ReadsBack, EarliestHolds, PendingHolds, HistoryReachesBack

\* What happens outside the reconstruction only adds events and live rows.
LEMMA OutsideKeeps ==
  ASSUME HistoryInv, WorldInv', recon' = recon,
         EventTimes \subseteq EventTimes', capital \subseteq capital',
         DOMAIN rows \subseteq DOMAIN rows', DOMAIN rows' \subseteq 0 .. MaxNow,
         \A t \in DOMAIN rows : rows'[t] = rows[t],
         \A t \in DOMAIN rows' \ DOMAIN rows : rows'[t].live
  PROVE  HistoryInv'
<1>1. Reconstructed' = Reconstructed
  BY DEF Reconstructed
<1>2. RowsInv'
  BY <1>1 DEF HistoryInv, RowsInv
<1>3. ReconShape' /\ EarliestHolds'
  BY <1>1 DEF HistoryInv, ReconInv, ReconShape, EarliestHolds
<1>4. ReadsBack'
  BY <1>1 DEF HistoryInv, ReconInv, ReadsBack
<1>5. PendingHolds'
  BY DEF HistoryInv, ReconInv, PendingHolds, ValuedHours
<1>6. HistoryReachesBack'
  BY DEF HistoryInv, HistoryReachesBack
<1> QED BY <1>2, <1>3, <1>4, <1>5, <1>6 DEF HistoryInv, ReconInv

\* Time, swaps, movements, the mirror and the operator leave ended swaps alone.
LEMMA WorldKeeps ==
  ASSUME HistoryInv,
         \/ Tick \/ Move \/ Mirror
         \/ \E s \in Swaps : SwapStarts(s) \/ SwapEnds(s)
         \/ \E step \in DOMAIN StepGain : KrakenStep(step)
         \/ \E m \in moves : Record(m)
  PROVE  HistoryInv'
<1> USE BalancesAssumption
<1>1. recon' = recon /\ rows' = rows
  BY DEF Tick, Move, Mirror, SwapStarts, SwapEnds, KrakenStep, Record
<1>2. WorldInv /\ DOMAIN rows \subseteq 0 .. MaxNow
  BY DEF HistoryInv, RowsInv
<1>3. CASE Tick
  <2>1. now' \in Times /\ now <= now'
    BY <1>2, <1>3 DEF Tick, WorldInv, Times, HOUR
  <2>2. EndedBy(now) \subseteq EndedBy(now)' /\ UNCHANGED <<asb, moves, swaps, capital>>
    BY <1>2, <1>3, <2>1 DEF Tick, WorldInv, EndedBy, Times, AsbEntry
  <2>3. WorldInv'
    <3>1. \A s \in Swaps : asb[s] # Null => asb[s].ended <= now'
      BY <1>2, <2>1 DEF WorldInv, Times, AsbEntry
    <3> QED BY <1>2, <2>1, <2>2, <3>1 DEF WorldInv
  <2> QED BY <1>1, <1>2, <2>2, <2>3, OutsideKeeps DEF EventTimes
<1>4. CASE Move
  <2>1. UNCHANGED <<now, asb, swaps, capital>> /\ moves \subseteq moves'
    BY <1>4 DEF Move
  <2>2. \A m \in moves' : m.at \in Times
    BY <1>2, <1>4 DEF Move, WorldInv
  <2>3. WorldInv'
    BY <1>2, <2>1, <2>2 DEF WorldInv, EndedBy
  <2> QED BY <1>1, <1>2, <2>1, <2>3, OutsideKeeps DEF EventTimes
<1>5. CASE Mirror
  <2>1. UNCHANGED <<now, asb, moves, capital>> /\ swaps' = EndedBy(now)
    BY <1>5 DEF Mirror
  <2>2. WorldInv' /\ swaps \subseteq swaps'
    BY <1>2, <2>1 DEF WorldInv, EndedBy
  <2> QED BY <1>1, <1>2, <2>1, <2>2, OutsideKeeps DEF EventTimes
<1>6. ASSUME NEW s \in Swaps, SwapStarts(s) PROVE HistoryInv'
  <2>1. /\ asb[s] = Null /\ UNCHANGED <<now, moves, swaps, capital>>
        /\ asb' = [asb EXCEPT ![s] = [state |-> "active", started |-> now, ended |-> 0]]
    BY <1>6 DEF SwapStarts
  <2>2. asb'[s] \in AsbEntry /\ \A t \in Swaps \ {s} : asb'[t] = asb[t]
    BY <1>2, <2>1 DEF WorldInv, AsbEntry
  <2>3. \A t \in swaps : asb'[t] = asb[t] /\ t # s
    BY <1>2, <2>1, <2>2 DEF WorldInv, EndedBy
  <2>4. swaps' \subseteq EndedBy(now)'
    BY <1>2, <2>1, <2>3 DEF WorldInv, EndedBy
  <2>5. asb'[s].ended = 0 /\ 0 <= now
    BY <1>2, <2>1 DEF WorldInv, Times
  <2>6. WorldInv'
    BY <1>2, <2>1, <2>2, <2>4, <2>5 DEF WorldInv
  <2> QED BY <1>1, <1>2, <2>1, <2>3, <2>6, OutsideKeeps DEF EventTimes
<1>7. ASSUME NEW s \in Swaps, SwapEnds(s) PROVE HistoryInv'
  <2>1. PICK outcome \in Outcomes :
          asb' = [asb EXCEPT ![s].state = outcome, ![s].ended = now]
    BY <1>7 DEF SwapEnds
  <2>2. /\ asb[s] # Null /\ asb[s].state = "active" /\ asb[s] \in AsbEntry
        /\ UNCHANGED <<now, moves, swaps, capital>>
    BY <1>2, <1>7 DEF SwapEnds, WorldInv
  <2>3. /\ asb'[s] = [asb[s] EXCEPT !.state = outcome, !.ended = now]
        /\ \A t \in Swaps \ {s} : asb'[t] = asb[t]
    BY <1>2, <2>1 DEF WorldInv
  <2>4. asb'[s] \in AsbEntry /\ asb'[s].ended = now /\ asb'[s].state # "active"
    BY <1>2, <2>2, <2>3 DEF WorldInv, AsbEntry, Outcomes
  <2>5. \A t \in swaps : asb'[t] = asb[t] /\ t # s
    BY <1>2, <2>2, <2>3 DEF WorldInv, EndedBy
  <2>6. swaps' \subseteq EndedBy(now)'
    BY <1>2, <2>2, <2>5 DEF WorldInv, EndedBy
  <2>7. asb' \in [Swaps -> AsbEntry \cup {Null}]
    BY <1>2, <2>1, <2>4 DEF WorldInv
  <2>8. now' <= now'
    BY <1>2, <2>2 DEF WorldInv, Times
  <2>9. WorldInv'
    BY <1>2, <2>2, <2>3, <2>4, <2>6, <2>7, <2>8 DEF WorldInv
  <2> QED BY <1>1, <1>2, <2>2, <2>5, <2>9, OutsideKeeps DEF EventTimes
<1>8. ASSUME NEW m \in moves, Record(m) PROVE HistoryInv'
  <2>1. UNCHANGED <<now, asb, moves, swaps>> /\ capital' = capital \cup {m}
    BY <1>8 DEF Record
  <2>2. WorldInv'
    BY <1>2, <2>1 DEF WorldInv, EndedBy
  <2> QED BY <1>1, <1>2, <2>1, <2>2, OutsideKeeps DEF EventTimes
<1>9. ASSUME NEW step, KrakenStep(step) PROVE HistoryInv'
  <2>1. UNCHANGED <<now, asb, moves, swaps, capital>>
    BY <1>9 DEF KrakenStep
  <2>2. WorldInv'
    BY <1>2, <2>1 DEF WorldInv, EndedBy
  <2> QED BY <1>1, <1>2, <2>1, <2>2, OutsideKeeps DEF EventTimes
<1> QED BY <1>3, <1>4, <1>5, <1>6, <1>7, <1>8, <1>9

\* A snapshot adds a live row.
LEMMA LiveSnapshotKeeps == ASSUME HistoryInv, LiveSnapshot PROVE HistoryInv'
<1>1. UNCHANGED <<now, asb, moves, swaps, capital, recon>>
  BY DEF LiveSnapshot, world
<1>2. PICK row : row.live /\ rows' = Inserted([t \in {now} |-> row])
  <2>1. PICK seen : \/ rows' = Inserted([t \in {now} |-> LiveRow(seen)])
                    \/ rows' = Inserted([t \in {now} |-> [LiveRow(seen) EXCEPT !.kraken = NoKraken]])
    BY DEF LiveSnapshot
  <2>2. LiveRow(seen).live /\ [LiveRow(seen) EXCEPT !.kraken = NoKraken].live
    BY DEF LiveRow
  <2> QED BY <2>1, <2>2
<1>3. /\ DOMAIN rows' = DOMAIN rows \cup {now}
      /\ \A t \in DOMAIN rows : rows'[t] = rows[t]
      /\ \A t \in DOMAIN rows' \ DOMAIN rows : rows'[t] = row
  BY <1>2 DEF Inserted
<1>4. WorldInv' /\ now \in 0 .. MaxNow
  BY <1>1 DEF HistoryInv, WorldInv, EndedBy, Times
<1>5. DOMAIN rows' \subseteq 0 .. MaxNow
  BY <1>3, <1>4 DEF HistoryInv, RowsInv
<1>6. EventTimes' = EventTimes
  BY <1>1 DEF EventTimes
<1> QED BY <1>1, <1>2, <1>3, <1>4, <1>5, <1>6, OutsideKeeps

-----------------------------------------------------------------------------
\* The least of some times is one of them.
LEMMA MinOfTimes ==
  ASSUME NEW T, T \subseteq Times, T # {}
  PROVE  Min(T) \in T /\ \A t \in T : Min(T) <= t
<1>1. T \subseteq Nat
  BY DEF Times
<1>2. \E n \in T : \A m \in T : n <= m
  BY <1>1, LeastOfNat
<1> QED BY <1>2 DEF Min

\* A step of the reconstruction before its inserts leaves the rows.
LEMMA SameSnapshots ==
  ASSUME HistoryInv, UNCHANGED <<world, rows>>
  PROVE  WorldInv' /\ RowsInv' /\ Reconstructed' = Reconstructed /\ EventTimes' = EventTimes
<1>1. UNCHANGED <<now, asb, moves, swaps, capital, rows>>
  BY DEF world
<1>2. Reconstructed' = Reconstructed /\ EventTimes' = EventTimes
  BY <1>1 DEF Reconstructed, EventTimes
<1> QED BY <1>1, <1>2 DEF HistoryInv, WorldInv, RowsInv, EndedBy

\* With the swaps read, the events of every older row are in the timeline or yet
\* to be read.
LEMMA ReconSwapsKeeps == ASSUME HistoryInv, ReconSwaps PROVE HistoryInv'
<1>1. /\ UNCHANGED <<world, rows>> /\ capital' = capital
      /\ recon' = [recon EXCEPT !.pc = "capital", !.timeline = SwapEvents]
  BY DEF ReconSwaps, world
<1>2. recon'.pc = "capital" /\ recon'.timeline = SwapEvents /\ ReconShape'
  BY <1>1 DEF HistoryInv, ReconInv, ReconShape
<1>3. {e.at : e \in SwapEvents} = {asb[s].started : s \in swaps}
  <2>1. \A s \in swaps : SwapEvent(s).at = asb[s].started
    BY DEF SwapEvent
  <2> QED BY <2>1, Zenon DEF SwapEvents
<1>4. ReadsBack'
  BY <1>1, <1>2, <1>3, SameSnapshots DEF HistoryInv, RowsInv, ReadsBack, EventTimes
<1> QED
  BY <1>1, <1>2, <1>4, SameSnapshots
     DEF HistoryInv, ReconInv, EarliestHolds, PendingHolds, HistoryReachesBack

\* The earliest event of the timeline is not younger than the event of any row.
LEMMA ReconCapitalKeeps == ASSUME HistoryInv, ReconCapital PROVE HistoryInv'
<1> DEFINE timeline == recon.timeline \cup CapitalEvents
           times == {e.at : e \in timeline}
<1>1. UNCHANGED <<world, rows>> /\ recon.pc = "capital"
  BY DEF ReconCapital
<1>2. CASE timeline = {}
  <2>1. recon' = [NoRecon EXCEPT !.pc = "empty"]
    BY <1>2 DEF ReconCapital
  <2>2. recon'.pc = "empty" /\ ReconShape'
    BY <2>1 DEF NoRecon, ReconShape
  <2> QED
    BY <1>1, <2>2, SameSnapshots
       DEF HistoryInv, ReconInv, ReadsBack, EarliestHolds, PendingHolds, HistoryReachesBack
<1>3. CASE timeline # {}
  <2>1. recon' = [recon EXCEPT !.pc = "gate", !.timeline = timeline, !.earliest = Min(times)]
    BY <1>3 DEF ReconCapital
  <2>2. recon'.pc = "gate" /\ recon'.earliest = Min(times) /\ ReconShape'
    BY <2>1 DEF HistoryInv, ReconInv, ReconShape
  <2>3. times = {e.at : e \in recon.timeline} \cup {m.at : m \in capital}
    <3>1. \A m \in capital : CapitalEvent(m).at = m.at
      BY DEF CapitalEvent
    <3>2. {e.at : e \in CapitalEvents} = {m.at : m \in capital}
      BY <3>1, Zenon DEF CapitalEvents
    <3>3. times = {e.at : e \in recon.timeline} \cup {e.at : e \in CapitalEvents}
      OBVIOUS
    <3> QED BY <3>2, <3>3
  <2>4. times \subseteq EventTimes /\ times # {}
    <3>1. \A e \in recon.timeline : e.at \in EventTimes
      BY <1>1 DEF HistoryInv, ReconInv, ReadsBack
    <3>2. {m.at : m \in capital} \subseteq EventTimes
      BY DEF EventTimes
    <3>3. times \subseteq EventTimes
      BY <2>3, <3>1, <3>2
    <3>4. PICK e \in timeline : TRUE
      BY <1>3
    <3>5. e.at \in times
      BY <3>4
    <3> QED BY <3>3, <3>5
  <2>5. times \subseteq Times
    BY <2>4, EventTimesOK DEF HistoryInv
  <2>6. Min(times) \in times /\ \A t \in times : Min(times) <= t
    BY <2>4, <2>5, MinOfTimes
  <2> HIDE DEF timeline, times
  <2>7. \A t \in Reconstructed : Hour(Min(times)) <= t
    <3> SUFFICES ASSUME NEW t \in Reconstructed PROVE Hour(Min(times)) <= t
      OBVIOUS
    <3>1. PICK u \in times : Hour(u) <= t
      BY <1>1, <2>3 DEF HistoryInv, ReconInv, ReadsBack
    <3>2. Min(times) <= u /\ Min(times) \in Times /\ u \in Times
      BY <2>5, <2>6
    <3>3. t \in Int
      BY DEF HistoryInv, RowsInv, FullHours
    <3> QED BY <3>1, <3>2, <3>3 DEF Hour, Times
  <2>8. EarliestHolds'
    BY <1>1, <2>2, <2>4, <2>6, <2>7, SameSnapshots DEF EarliestHolds
  <2> QED
    BY <1>1, <2>2, <2>8, SameSnapshots
       DEF HistoryInv, ReconInv, ReadsBack, PendingHolds, HistoryReachesBack
<1> QED BY <1>2, <1>3

\* A set of two things has at most two members.
LEMMA PairIsSmall ==
  ASSUME NEW a, NEW b PROVE IsFiniteSet({a, b}) /\ Cardinality({a, b}) <= 2
<1> DEFINE A == {a}
<1>1. IsFiniteSet(A) /\ Cardinality(A) = 1
  BY FS_Singleton
<1>2. {a, b} = A \cup {b}
  OBVIOUS
<1> HIDE DEF A
<1>3. IsFiniteSet(A \cup {b}) /\ Cardinality(A \cup {b}) <= 2
  BY <1>1, FS_AddElement
<1> QED BY <1>2, <1>3

\* Before an hour after the earliest event there is room for two reconstructed
\* rows: more rows than that are live ones.
LEMMA ReconGateKeeps == ASSUME HistoryInv, ReconGate PROVE HistoryInv'
<1> USE BalancesAssumption
<1> DEFINE e == recon.earliest
<1>1. UNCHANGED <<world, rows>> /\ recon.pc = "gate"
  BY DEF ReconGate
<1>2. PICK pc \in {"skipped", "prices"} :
        /\ recon' = [recon EXCEPT !.pc = pc]
        /\ pc = "skipped" => Cardinality(RowsBefore(e + HOUR)) > Threshold
  BY DEF ReconGate
<1>3. recon'.pc = pc /\ recon'.earliest = e /\ ReconShape'
  BY <1>2 DEF HistoryInv, ReconInv, ReconShape
<1>4. e \in EventTimes /\ e \in Times /\ \A t \in Reconstructed : Hour(e) <= t
  BY <1>1, EventTimesOK DEF HistoryInv, ReconInv, EarliestHolds
<1>5. ASSUME pc = "skipped" PROVE \E t \in DOMAIN rows : rows[t].live /\ t < e + HOUR
  <2> SUFFICES ASSUME \A t \in RowsBefore(e + HOUR) : t \in Reconstructed PROVE FALSE
    BY DEF RowsBefore, Reconstructed
  <2>1. RowsBefore(e + HOUR) \subseteq {e - 1, e + 1}
    BY <1>4 DEF HistoryInv, RowsInv, RowsBefore, FullHours, Times, Hour, HOUR
  <2>2. IsFiniteSet({e - 1, e + 1}) /\ Cardinality({e - 1, e + 1}) <= 2
    BY PairIsSmall
  <2>3. Cardinality(RowsBefore(e + HOUR)) <= 2
    BY <2>1, <2>2, FS_Subset, FS_CardinalityType
  <2>4. Cardinality(RowsBefore(e + HOUR)) \in Nat
    BY <2>1, <2>2, FS_Subset, FS_CardinalityType
  <2> QED BY <1>2, <1>5, <2>3, <2>4
<1>6. HistoryReachesBack'
  BY <1>1, <1>2, <1>3, <1>5 DEF HistoryReachesBack
<1> QED
  BY <1>1, <1>3, <1>4, <1>6, SameSnapshots
     DEF HistoryInv, ReconInv, ReadsBack, EarliestHolds, PendingHolds

\* Prices and balances are read.
LEMMA ReconReadsKeep == ASSUME HistoryInv, ReconPrices \/ ReconBtc PROVE HistoryInv'
<1>1. UNCHANGED <<world, rows>> /\ recon.pc \in {"prices", "btc"}
  BY DEF ReconPrices, ReconBtc
<1>2. recon'.pc \in {"btc", "xmr"} /\ recon'.earliest = recon.earliest /\ ReconShape'
  BY DEF ReconPrices, ReconBtc, HistoryInv, ReconInv, ReconShape
<1>3. EarliestHolds'
  BY <1>1, <1>2, SameSnapshots DEF HistoryInv, ReconInv, EarliestHolds
<1> QED
  BY <1>1, <1>2, <1>3, SameSnapshots
     DEF HistoryInv, ReconInv, ReadsBack, PendingHolds, HistoryReachesBack

\* What is pending is the hours with prices.
LEMMA ReconXmrKeeps == ASSUME HistoryInv, ReconXmr PROVE HistoryInv'
<1>1. UNCHANGED <<world, rows>> /\ recon.pc = "xmr"
  BY DEF ReconXmr
<1>2. PICK pending :
        /\ recon' = [recon EXCEPT !.pc = "insert", !.until = now, !.pending = pending]
        /\ DOMAIN pending = Valued(recon.prices, recon.earliest, now)
        /\ \A h \in DOMAIN pending : ~pending[h].live
  <2> DEFINE pending ==
        [h \in Valued(recon.prices, recon.earliest, now) |->
           [live |-> FALSE, BTC |-> Rewound("BTC", recon.btc, h),
            XMR |-> Rewound("XMR", WalletAt("XMR", now), h), kraken |-> NoKraken]]
  <2>1. recon' = [recon EXCEPT !.pc = "insert", !.until = now, !.pending = pending]
    BY DEF ReconXmr
  <2>2. /\ DOMAIN pending = Valued(recon.prices, recon.earliest, now)
        /\ \A h \in DOMAIN pending : ~pending[h].live
    OBVIOUS
  <2> QED BY <2>1, <2>2
<1>3. /\ recon'.pc = "insert" /\ recon'.earliest = recon.earliest
      /\ recon'.prices = recon.prices /\ recon'.until = now /\ recon'.pending = pending
      /\ ReconShape'
  BY <1>2 DEF HistoryInv, ReconInv, ReconShape
<1>4. EarliestHolds'
  BY <1>1, <1>3, SameSnapshots DEF HistoryInv, ReconInv, EarliestHolds
<1>5. ValuedHours' = DOMAIN pending
  BY <1>2, <1>3 DEF ValuedHours, Valued
<1>6. PendingHolds'
  BY <1>2, <1>3, <1>5 DEF PendingHolds
<1> QED
  BY <1>1, <1>3, <1>4, <1>6, SameSnapshots
     DEF HistoryInv, ReconInv, ReadsBack, HistoryReachesBack

\* A chunk is stored, unless a row is there already, and no longer pending.
LEMMA ReconInsertKeeps == ASSUME HistoryInv, ReconInsert PROVE HistoryInv'
<1> USE BalancesAssumption
<1> DEFINE left == DOMAIN recon.pending \ Chunk
<1>1. /\ UNCHANGED <<now, asb, moves, swaps, capital>> /\ recon.pc = "insert"
      /\ rows' = Inserted(Restrict(recon.pending, Chunk))
      /\ recon' = [recon EXCEPT !.pc = IF left = {} THEN "filled" ELSE "insert",
                                !.pending = Restrict(recon.pending, left)]
  BY DEF ReconInsert, world
<1>2. Chunk \subseteq DOMAIN recon.pending
  BY DEF Chunk
<1> HIDE DEF left
<1>3. /\ recon'.pc = IF left = {} THEN "filled" ELSE "insert"
      /\ recon'.earliest = recon.earliest /\ recon'.prices = recon.prices
      /\ recon'.until = recon.until /\ recon'.pending = Restrict(recon.pending, left)
      /\ ReconShape'
  BY <1>1 DEF HistoryInv, ReconInv, ReconShape
<1>4. /\ DOMAIN rows' = DOMAIN rows \cup Chunk
      /\ \A t \in DOMAIN rows : rows'[t] = rows[t]
      /\ \A t \in Chunk \ DOMAIN rows : rows'[t] = recon.pending[t]
  BY <1>1 DEF Inserted, Restrict
<1>5. \A t \in Chunk : t \in ValuedHours /\ ~recon.pending[t].live
  BY <1>1, <1>2 DEF HistoryInv, ReconInv, PendingHolds
<1>6. \A t \in Chunk : t \in FullHours /\ Hour(recon.earliest) <= t
  BY <1>5 DEF ValuedHours, Valued
<1>7. Reconstructed' \subseteq Reconstructed \cup Chunk
  BY <1>4 DEF Reconstructed
<1>8. WorldInv' /\ EventTimes' = EventTimes /\ ValuedHours' = ValuedHours
  BY <1>1, <1>3 DEF HistoryInv, WorldInv, EndedBy, EventTimes, ValuedHours, Valued
<1>9. recon.earliest \in EventTimes /\ \A t \in Reconstructed : Hour(recon.earliest) <= t
  BY <1>1 DEF HistoryInv, ReconInv, EarliestHolds
<1>10. EarliestHolds'
  BY <1>3, <1>6, <1>7, <1>8, <1>9 DEF EarliestHolds, Hour
<1>11. RowsInv'
  <2>1. DOMAIN rows' \subseteq 0 .. MaxNow /\ Reconstructed' \subseteq FullHours
    BY <1>4, <1>6, <1>7 DEF HistoryInv, RowsInv, FullHours
  <2>2. \A t \in Reconstructed' : Hour(recon.earliest) <= t
    BY <1>6, <1>7, <1>9
  <2> QED BY <1>8, <1>9, <2>1, <2>2 DEF RowsInv, Hour
<1>12. DOMAIN recon'.pending = left /\ \A h \in left : recon'.pending[h] = recon.pending[h]
  BY <1>3 DEF Restrict
<1>13. ValuedHours \subseteq DOMAIN recon.pending \cup DOMAIN rows
  BY <1>1 DEF HistoryInv, ReconInv, PendingHolds
<1>14. ValuedHours' \subseteq left \cup DOMAIN rows'
  BY <1>4, <1>8, <1>13 DEF left
<1>15. \A h \in left : h \in ValuedHours /\ ~recon.pending[h].live
  BY <1>1 DEF HistoryInv, ReconInv, PendingHolds, left
<1>16. PendingHolds'
  BY <1>8, <1>12, <1>14, <1>15 DEF PendingHolds
<1>17. HistoryReachesBack'
  BY <1>3, <1>14 DEF HistoryReachesBack, ValuedHours
<1> QED
  BY <1>3, <1>8, <1>10, <1>11, <1>16, <1>17 DEF HistoryInv, ReconInv, ReadsBack

\* A fault, or a restart, leaves what was stored.
LEMMA FaultsKeep == ASSUME HistoryInv, ReconFails \/ Restart PROVE HistoryInv'
<1>1. UNCHANGED <<world, rows>> /\ recon' \in {NoRecon, [NoRecon EXCEPT !.pc = "failed"]}
  BY DEF ReconFails, Restart
<1>2. recon'.pc \in {"start", "failed"} /\ ReconShape'
  BY <1>1 DEF NoRecon, ReconShape
<1> QED
  BY <1>1, <1>2, SameSnapshots
     DEF HistoryInv, ReconInv, ReadsBack, EarliestHolds, PendingHolds, HistoryReachesBack

-----------------------------------------------------------------------------
\* The whole of it.
LEMMA HistoryInvNext == HistoryInv /\ [Next]_vars => HistoryInv'
<1> SUFFICES ASSUME HistoryInv, [Next]_vars PROVE HistoryInv'
  OBVIOUS
<1>1. CASE Next
  BY <1>1, WorldKeeps, LiveSnapshotKeeps, ReconSwapsKeeps, ReconCapitalKeeps,
     ReconGateKeeps, ReconReadsKeep, ReconXmrKeeps, ReconInsertKeeps, FaultsKeep
     DEF Next, ReconStep
<1>2. CASE UNCHANGED vars
  <2>1. UNCHANGED <<world, rows>> /\ recon' = recon /\ capital' = capital
    BY <1>2 DEF vars, world
  <2>2. DOMAIN rows \subseteq 0 .. MaxNow
    BY DEF HistoryInv, RowsInv
  <2> QED BY <2>1, <2>2, SameSnapshots, OutsideKeeps
<1> QED BY <1>1, <1>2

\* The reconstruction is skipped only when the console was already running
\* within an hour of the earliest event, and every hour with prices has its row
\* when it is done (snapshot_backfill.rs:88-102, 176-258), whatever failed or
\* was repeated before, in whatever order events were entered.
THEOREM NoHistoryIsLost == Spec => []HistoryReachesBack
<1>1. HistoryInv => HistoryReachesBack
  BY DEF HistoryInv
<1> QED BY <1>1, HistoryInvInit, HistoryInvNext, PTL DEF Spec

-----------------------------------------------------------------------------
(* What was owned at a time                                                *)

SwapSum(asset, E) == SumFunction([s \in E |-> SwapGain(asb[s].state, asset)])
MoveSum(asset, M) == SumFunction([m \in M |-> MoveGain(m, asset)])

\* The balance after these swaps and movements.
Owned(asset, E, M) == Opening + SwapSum(asset, E) + MoveSum(asset, M)

\* The wallet's balance as a sum over what has happened.
LEMMA WalletHolds ==
  ASSUME NEW a, NEW t PROVE WalletAt(a, t) = Owned(a, EndedBy(t), MovedBy(t))
BY DEF WalletAt, Owned, SwapSum, MoveSum

\* Time does not go back, an ended swap stays as it is, movements stay, and what
\* is added is of this hour.
LEMMA WorldSteps ==
  ASSUME HistoryInv, [Next]_vars
  PROVE  /\ now' \in Times /\ now <= now'
         /\ moves \subseteq moves' /\ swaps \subseteq swaps' /\ capital \subseteq capital'
         /\ \A m \in moves' \ moves : m.at = now
         /\ IsFiniteSet(moves) => IsFiniteSet(moves')
         /\ \A s \in Swaps : asb'[s] # asb[s] =>
              /\ asb[s] = Null \/ asb[s].state = "active"
              /\ asb'[s].ended \in {0, now}
<1> USE BalancesAssumption
<1>1. WorldInv
  BY DEF HistoryInv
<1>2. now \in Times /\ now <= now
  BY <1>1 DEF WorldInv, Times
<1>3. CASE UNCHANGED world
  BY <1>2, <1>3 DEF world
<1>4. CASE Tick
  <2>1. now' \in Times /\ now <= now'
    BY <1>1, <1>4 DEF Tick, WorldInv, Times, HOUR
  <2> QED BY <1>4, <2>1 DEF Tick
<1>5. CASE Move
  <2>1. PICK k \in MoveKinds :
          moves' = moves \cup {[asset |-> k.asset, direction |-> k.direction,
                                recycle |-> k.recycle, at |-> now]}
    BY <1>5 DEF Move
  <2>2. IsFiniteSet(moves) => IsFiniteSet(moves')
    BY <2>1, FS_AddElement
  <2> QED BY <1>2, <1>5, <2>1, <2>2 DEF Move
<1>6. CASE Mirror
  BY <1>1, <1>2, <1>6 DEF Mirror, WorldInv
<1>7. ASSUME NEW s \in Swaps, SwapStarts(s) \/ SwapEnds(s)
      PROVE  /\ UNCHANGED <<now, moves, swaps, capital>>
             /\ asb[s] = Null \/ asb[s].state = "active"
             /\ asb'[s].ended \in {0, now}
             /\ \A t \in Swaps \ {s} : asb'[t] = asb[t]
  <2>1. CASE SwapStarts(s)
    BY <1>1, <2>1 DEF SwapStarts, WorldInv
  <2>2. CASE SwapEnds(s)
    <3>1. asb[s] \in AsbEntry
      BY <1>1, <2>2 DEF SwapEnds, WorldInv
    <3>2. PICK outcome \in Outcomes :
            asb' = [asb EXCEPT ![s].state = outcome, ![s].ended = now]
      BY <2>2 DEF SwapEnds
    <3>3. /\ asb'[s] = [asb[s] EXCEPT !.state = outcome, !.ended = now]
          /\ \A t \in Swaps \ {s} : asb'[t] = asb[t]
      BY <1>1, <3>2 DEF WorldInv
    <3> QED BY <2>2, <3>1, <3>3 DEF SwapEnds, AsbEntry
  <2> QED BY <1>7, <2>1, <2>2
<1>8. CASE \E s \in Swaps : SwapStarts(s) \/ SwapEnds(s)
  BY <1>2, <1>7, <1>8
<1>9. CASE \E m \in moves : Record(m)
  BY <1>2, <1>9 DEF Record
<1>11. CASE \E step \in DOMAIN StepGain : KrakenStep(step)
  BY <1>2, <1>11 DEF KrakenStep
<1>10. CASE UNCHANGED vars \/ LiveSnapshot \/ ReconStep \/ ReconFails \/ Restart
  <2>1. UNCHANGED world
    BY <1>10 DEF vars, world, LiveSnapshot, ReconStep, ReconSwaps, ReconCapital, ReconGate,
         ReconPrices, ReconBtc, ReconXmr, ReconInsert, ReconFails, Restart
  <2> QED BY <1>3, <2>1
<1> QED BY <1>4, <1>5, <1>6, <1>8, <1>9, <1>10, <1>11 DEF Next

\* What has ended by a time has ended by a later one and stays as it is.
LEMMA EndedStays ==
  ASSUME HistoryInv, [Next]_vars, NEW t \in Int, NEW u \in Int, t <= u
  PROVE  /\ EndedBy(t) \subseteq EndedBy(u)'
         /\ \A s \in EndedBy(t) : asb'[s] = asb[s]
         /\ MovedBy(t) \subseteq MovedBy(u)'
<1>1. WorldInv
  BY DEF HistoryInv
<1>2. \A s \in EndedBy(t) : asb'[s] = asb[s]
  <2> SUFFICES ASSUME NEW s \in EndedBy(t), asb'[s] # asb[s] PROVE FALSE
    OBVIOUS
  <2>1. s \in Swaps /\ asb[s] # Null /\ asb[s].ended \in 1 .. t
    BY DEF EndedBy
  <2>2. asb[s].state = "active"
    BY <2>1, WorldSteps
  <2> QED BY <1>1, <2>1, <2>2 DEF WorldInv
<1>3. EndedBy(t) \subseteq EndedBy(u)'
  BY <1>2 DEF EndedBy
<1>4. MovedBy(t) \subseteq MovedBy(u)'
  <2>1. \A m \in moves : m.at \in Int
    BY <1>1 DEF WorldInv, Times
  <2>2. moves \subseteq moves'
    BY WorldSteps
  <2> QED BY <2>1, <2>2 DEF MovedBy
<1> QED BY <1>2, <1>3, <1>4

-----------------------------------------------------------------------------
(* Rows                                                                    *)

\* What is known of the past: movements and steps at Kraken are few, movements
\* are behind us, and so are the live rows.
PastInv ==
  /\ IsFiniteSet(moves)
  /\ \A m \in moves : m.at <= now
  /\ IsFiniteSet(account) /\ account \subseteq [step : DOMAIN StepGain, at : Times]
  /\ \A t \in DOMAIN rows : rows[t].live => t \in Times /\ t <= now

\* A step leaves the rows, or adds a snapshot, or a chunk that was reconstructed.
LEMMA RowSteps ==
  ASSUME HistoryInv, [Next]_vars
  PROVE  \/ rows' = rows
         \/ LiveSnapshot
         \/ /\ now' = now
            /\ \A t \in DOMAIN rows : t \in DOMAIN rows' /\ rows'[t] = rows[t]
            /\ \A t \in DOMAIN rows' \ DOMAIN rows : ~rows'[t].live
<1>1. CASE ReconInsert
  <2>1. /\ recon.pc = "insert" /\ now' = now
        /\ rows' = Inserted(Restrict(recon.pending, Chunk)) /\ Chunk \subseteq DOMAIN recon.pending
    BY <1>1 DEF ReconInsert, world, Chunk
  <2>2. \A h \in DOMAIN recon.pending : ~recon.pending[h].live
    BY <2>1 DEF HistoryInv, ReconInv, PendingHolds
  <2> QED BY <2>1, <2>2 DEF Inserted, Restrict
<1>2. CASE ~ReconInsert /\ ~LiveSnapshot
  BY <1>2 DEF Next, vars, Tick, Move, Mirror, SwapStarts, SwapEnds, KrakenStep, Record, ReconStep,
     ReconSwaps, ReconCapital, ReconGate, ReconPrices, ReconBtc, ReconXmr, ReconFails, Restart
<1> QED BY <1>1, <1>2

\* Movements and live rows stay behind the clock.
LEMMA PastInvNext == HistoryInv /\ PastInv /\ [Next]_vars => PastInv'
<1> SUFFICES ASSUME HistoryInv, PastInv, [Next]_vars PROVE PastInv'
  OBVIOUS
<1>1. now \in Times /\ now' \in Times /\ now <= now' /\ WorldInv
  BY WorldSteps DEF HistoryInv, WorldInv
<1>2. IsFiniteSet(moves')
  BY WorldSteps DEF PastInv
<1>3. \A m \in moves' : m.at <= now'
  <2>1. \A m \in moves : m.at \in Times /\ m.at <= now
    BY <1>1 DEF WorldInv, PastInv
  <2>2. \A m \in moves' \ moves : m.at = now
    BY WorldSteps
  <2> QED BY <1>1, <2>1, <2>2 DEF Times
<1>4. \A t \in DOMAIN rows' : rows'[t].live => t \in Times /\ t <= now'
  <2> SUFFICES ASSUME NEW t \in DOMAIN rows', rows'[t].live PROVE t \in Times /\ t <= now
    BY <1>1 DEF Times
  <2>1. CASE t \in DOMAIN rows /\ rows'[t] = rows[t]
    BY <2>1 DEF PastInv
  <2>2. CASE LiveSnapshot
    <3>1. DOMAIN rows' = DOMAIN rows \cup {now} /\ \A u \in DOMAIN rows : rows'[u] = rows[u]
      BY <2>2 DEF LiveSnapshot, Inserted
    <3>2. now <= now
      BY <1>1 DEF Times
    <3> QED BY <1>1, <2>1, <3>1, <3>2
  <2> QED BY <2>1, <2>2, RowSteps
<1>5. IsFiniteSet(account') /\ account' \subseteq [step : DOMAIN StepGain, at : Times]
  <2>1. ASSUME NEW step \in DOMAIN StepGain, KrakenStep(step)
        PROVE  IsFiniteSet(account') /\ account' \subseteq [step : DOMAIN StepGain, at : Times]
    <3>1. account' = account \cup {[step |-> step, at |-> now]}
      BY <2>1 DEF KrakenStep
    <3>2. IsFiniteSet(account')
      BY <3>1, FS_AddElement DEF PastInv
    <3> QED BY <1>1, <3>1, <3>2 DEF PastInv
  <2>2. CASE account' = account
    BY <2>2 DEF PastInv
  <2> QED
    BY <2>1, <2>2 DEF Next, vars, world, Tick, Move, Mirror, SwapStarts, SwapEnds, Record,
       LiveSnapshot, ReconStep, ReconSwaps, ReconCapital, ReconGate, ReconPrices, ReconBtc,
       ReconXmr, ReconInsert, ReconFails, Restart
<1> QED BY <1>2, <1>3, <1>4, <1>5 DEF PastInv

-----------------------------------------------------------------------------
(* What the reconstruction has read                                        *)

TimelineSwaps == {s \in swaps : SwapEvent(s) \in recon.timeline}
TimelineMoves == {m \in capital : CapitalEvent(m) \in recon.timeline}

\* The timeline is of swaps and movements that are stored.
TimelineInv ==
  recon.timeline \subseteq SwapEvents \cup CapitalEvents

\* Swaps and movements up to a time, all those of the timeline among them.
Covers(E, M, t) ==
  /\ TimelineSwaps \subseteq E /\ E \subseteq EndedBy(t)
  /\ TimelineMoves \subseteq M /\ M \subseteq MovedBy(t)

\* The pending rows have what these swaps and movements had left, rewound.
RewoundFrom(a, E, M) ==
  \A h \in DOMAIN recon.pending : recon.pending[h][a] = Rewound(a, Owned(a, E, M), h)

\* The bitcoin that was read is what some such swaps and movements had left, ...
BtcInv ==
  recon.pc = "xmr" =>
    \E E \in SUBSET Swaps, M \in SUBSET moves :
      Covers(E, M, now) /\ recon.btc = Owned("BTC", E, M)

\* ... and each coin of a pending row is that, rewound to its hour.
PendingInv ==
  recon.pc = "insert" =>
    /\ recon.until \in Times /\ recon.until <= now
    /\ \A a \in Assets : \E E \in SUBSET Swaps, M \in SUBSET moves :
         Covers(E, M, recon.until) /\ RewoundFrom(a, E, M)

ReadInv == TimelineInv /\ BtcInv /\ PendingInv

\* The events of stored swaps and movements stay as they are.
LEMMA EventsStay ==
  ASSUME HistoryInv, [Next]_vars
  PROVE  /\ \A s \in swaps : SwapEvent(s)' = SwapEvent(s)
         /\ SwapEvents \subseteq SwapEvents' /\ CapitalEvents \subseteq CapitalEvents'
<1>1. WorldInv /\ now \in Int
  BY DEF HistoryInv, WorldInv, Times
<1>2. \A s \in swaps : asb'[s] = asb[s]
  BY <1>1, EndedStays DEF WorldInv
<1>3. \A s \in swaps : SwapEvent(s)' = SwapEvent(s)
  BY <1>2 DEF SwapEvent
<1>4. swaps \subseteq swaps' /\ capital \subseteq capital'
  BY WorldSteps
<1>5. SwapEvents \subseteq SwapEvents'
  BY <1>3, <1>4 DEF SwapEvents
<1>6. CapitalEvents \subseteq CapitalEvents'
  BY <1>4 DEF CapitalEvents, CapitalEvent
<1> QED BY <1>3, <1>5, <1>6

\* So that a timeline stays the timeline of the same swaps and movements.
LEMMA TimelineStays ==
  ASSUME HistoryInv, [Next]_vars, TimelineInv, recon'.timeline = recon.timeline
  PROVE  /\ TimelineInv'
         /\ TimelineSwaps' = TimelineSwaps /\ TimelineMoves' = TimelineMoves
<1>1. TimelineInv'
  BY EventsStay DEF TimelineInv
<1>2. swaps \subseteq swaps' /\ capital \subseteq capital'
  BY WorldSteps
<1>3. ASSUME NEW s \in swaps', SwapEvent(s)' \in recon.timeline
      PROVE  s \in swaps /\ SwapEvent(s) \in recon.timeline
  <2>1. SwapEvent(s)' \in SwapEvents \cup CapitalEvents
    BY <1>3 DEF TimelineInv
  <2>2. SwapEvent(s)'.kind = "swap" /\ SwapEvent(s)'.id = s
    BY DEF SwapEvent
  <2>3. \A m \in capital : CapitalEvent(m).kind = "capital"
    BY DEF CapitalEvent
  <2>4. PICK u \in swaps : SwapEvent(s)' = SwapEvent(u)
    BY <2>1, <2>2, <2>3 DEF SwapEvents, CapitalEvents
  <2>5. SwapEvent(u).id = u
    BY DEF SwapEvent
  <2> QED BY <1>3, <2>2, <2>4, <2>5
<1>4. TimelineSwaps' = TimelineSwaps
  BY <1>2, <1>3, EventsStay DEF TimelineSwaps
<1>5. ASSUME NEW m \in capital', CapitalEvent(m)' \in recon.timeline
      PROVE  m \in capital /\ CapitalEvent(m) \in recon.timeline
  <2>1. CapitalEvent(m)' = CapitalEvent(m)
    BY DEF CapitalEvent
  <2>2. CapitalEvent(m) \in SwapEvents \cup CapitalEvents
    BY <1>5, <2>1 DEF TimelineInv
  <2>3. CapitalEvent(m).kind = "capital" /\ CapitalEvent(m).id = m
    BY DEF CapitalEvent
  <2>4. \A s \in swaps : SwapEvent(s).kind = "swap"
    BY DEF SwapEvent
  <2>5. PICK k \in capital : CapitalEvent(m) = CapitalEvent(k)
    BY <2>2, <2>3, <2>4 DEF SwapEvents, CapitalEvents
  <2>6. CapitalEvent(k).id = k
    BY DEF CapitalEvent
  <2> QED BY <1>5, <2>1, <2>3, <2>5, <2>6
<1>6. TimelineMoves' = TimelineMoves
  <2>1. \A m \in capital : CapitalEvent(m)' = CapitalEvent(m)
    BY DEF CapitalEvent
  <2> QED BY <1>2, <1>5, <2>1 DEF TimelineMoves
<1> QED BY <1>1, <1>4, <1>6

\* What was read of the balances stays true of the same swaps and movements.
LEMMA CoversStay ==
  ASSUME HistoryInv, [Next]_vars, TimelineInv, recon'.timeline = recon.timeline,
         NEW t \in Int, NEW u \in Int, t <= u,
         NEW E \in SUBSET Swaps, NEW M \in SUBSET moves, Covers(E, M, t)
  PROVE  /\ Covers(E, M, u)' /\ M \in SUBSET moves'
         /\ \A a \in Assets : Owned(a, E, M)' = Owned(a, E, M)
<1>1. /\ EndedBy(t) \subseteq EndedBy(u)' /\ MovedBy(t) \subseteq MovedBy(u)'
      /\ \A s \in EndedBy(t) : asb'[s] = asb[s]
  BY EndedStays
<1>2. Covers(E, M, u)'
  BY <1>1, TimelineStays DEF Covers
<1>3. M \subseteq moves'
  BY WorldSteps
<1>4. ASSUME NEW a \in Assets PROVE Owned(a, E, M)' = Owned(a, E, M)
  <2>1. [s \in E |-> SwapGain(asb'[s].state, a)] = [s \in E |-> SwapGain(asb[s].state, a)]
    BY <1>1 DEF Covers
  <2> QED BY <2>1 DEF Owned, SwapSum, MoveSum
<1> QED BY <1>2, <1>3, <1>4

\* What is read now covers the timeline.
LEMMA ReadingCovers ==
  ASSUME HistoryInv, PastInv
  PROVE  /\ EndedBy(now) \in SUBSET Swaps /\ MovedBy(now) \in SUBSET moves
         /\ Covers(EndedBy(now), MovedBy(now), now)
<1>1. swaps \subseteq EndedBy(now) /\ capital \subseteq moves
  BY DEF HistoryInv, WorldInv
<1>2. moves = MovedBy(now)
  BY DEF PastInv, MovedBy
<1>3. TimelineSwaps \subseteq swaps /\ TimelineMoves \subseteq capital
  BY DEF TimelineSwaps, TimelineMoves
<1> QED BY <1>1, <1>2, <1>3 DEF Covers, EndedBy

\* Outside its steps nothing that the reconstruction has read is lost.
LEMMA ReadStays ==
  ASSUME HistoryInv, PastInv, ReadInv, [Next]_vars, recon' = recon
  PROVE  ReadInv'
<1>1. TimelineInv' /\ TimelineInv
  BY TimelineStays DEF ReadInv
<1>2. now \in Int /\ now' \in Int /\ now <= now'
  BY WorldSteps DEF HistoryInv, WorldInv, Times
<1>3. BtcInv'
  <2> SUFFICES ASSUME recon.pc = "xmr"
               PROVE  \E E \in SUBSET Swaps, M \in SUBSET moves' :
                        Covers(E, M, now)' /\ recon'.btc = Owned("BTC", E, M)'
    BY DEF BtcInv
  <2>1. PICK E \in SUBSET Swaps, M \in SUBSET moves :
          Covers(E, M, now) /\ recon.btc = Owned("BTC", E, M)
    BY DEF ReadInv, BtcInv
  <2>2. \A u \in Int : now <= u =>
          /\ Covers(E, M, u)' /\ M \in SUBSET moves'
          /\ \A a \in Assets : Owned(a, E, M)' = Owned(a, E, M)
    BY <1>1, <1>2, <2>1, CoversStay
  <2>3. Covers(E, M, now)' /\ M \in SUBSET moves'
    BY <1>2, <2>2 DEF Covers, EndedBy, MovedBy
  <2>4. Owned("BTC", E, M)' = Owned("BTC", E, M)
    BY <1>2, <2>2 DEF Assets
  <2> QED BY <2>1, <2>3, <2>4
<1>4. PendingInv'
  <2> SUFFICES ASSUME recon.pc = "insert"
               PROVE  /\ recon.until \in Times /\ recon.until <= now'
                      /\ \A a \in Assets : \E E \in SUBSET Swaps, M \in SUBSET moves' :
                           Covers(E, M, recon.until)' /\ RewoundFrom(a, E, M)'
    BY DEF PendingInv
  <2>1. recon.until \in Times /\ recon.until \in Int /\ recon.until <= now'
    BY <1>2 DEF ReadInv, PendingInv, Times
  <2>2. ASSUME NEW a \in Assets
        PROVE  \E E \in SUBSET Swaps, M \in SUBSET moves' :
                 Covers(E, M, recon.until)' /\ RewoundFrom(a, E, M)'
    <3>1. PICK E \in SUBSET Swaps, M \in SUBSET moves :
            Covers(E, M, recon.until) /\ RewoundFrom(a, E, M)
      BY <2>2 DEF ReadInv, PendingInv
    <3>2. /\ Covers(E, M, recon.until)' /\ M \in SUBSET moves'
          /\ Owned(a, E, M)' = Owned(a, E, M)
      <4>1. recon.until <= recon.until
        BY <2>1
      <4>2. \A u \in Int : recon.until <= u =>
              /\ Covers(E, M, u)' /\ M \in SUBSET moves'
              /\ \A b \in Assets : Owned(b, E, M)' = Owned(b, E, M)
        BY <1>1, <2>1, <3>1, CoversStay
      <4>3. Covers(E, M, recon.until)'
        BY <2>1, <4>1, <4>2 DEF Covers, EndedBy, MovedBy
      <4> QED BY <2>1, <2>2, <4>1, <4>2, <4>3
    <3>3. RewoundFrom(a, E, M)'
      BY <3>1, <3>2 DEF RewoundFrom, Rewound, Later
    <3> QED BY <3>1, <3>2, <3>3
  <2> QED BY <2>1, <2>2
<1> QED BY <1>1, <1>3, <1>4 DEF ReadInv

\* Reading the events.
LEMMA EventsAreRead ==
  ASSUME HistoryInv, ReadInv, [Next]_vars,
         ReconSwaps \/ ReconCapital \/ ReconGate \/ ReconPrices \/ ReconFails \/ Restart
  PROVE  ReadInv'
<1>1. ReconShape /\ SwapEvents \subseteq SwapEvents' /\ CapitalEvents \subseteq CapitalEvents'
  BY EventsStay DEF HistoryInv, ReconInv
<1>2. /\ recon'.pc \notin {"xmr", "insert"}
      /\ recon'.timeline \subseteq recon.timeline \cup SwapEvents \cup CapitalEvents
  <2>1. CASE ReconSwaps
    BY <1>1, <2>1 DEF ReconShape, ReconSwaps
  <2>2. CASE ReconCapital
    <3> DEFINE timeline == recon.timeline \cup CapitalEvents
               earliest == Min({e.at : e \in timeline})
    <3>1. recon' = IF timeline = {} THEN [NoRecon EXCEPT !.pc = "empty"]
                   ELSE [recon EXCEPT !.pc = "gate", !.timeline = timeline,
                                      !.earliest = earliest]
      BY <2>2 DEF ReconCapital
    <3> HIDE DEF earliest
    <3> QED BY <1>1, <3>1 DEF ReconShape, NoRecon
  <2>3. CASE ReconGate
    BY <1>1, <2>3 DEF ReconShape, ReconGate
  <2>4. CASE ReconPrices
    BY <1>1, <2>4 DEF ReconShape, ReconPrices
  <2>5. CASE ReconFails \/ Restart
    BY <2>5 DEF ReconFails, Restart, NoRecon
  <2> QED BY <2>1, <2>2, <2>3, <2>4, <2>5
<1>4. TimelineInv'
  BY <1>1, <1>2 DEF ReadInv, TimelineInv
<1> QED BY <1>2, <1>4 DEF ReadInv, BtcInv, PendingInv

\* Reading the bitcoin.
LEMMA BitcoinIsRead ==
  ASSUME HistoryInv, PastInv, ReadInv, [Next]_vars, ReconBtc
  PROVE  ReadInv'
<1>1. ReconShape /\ UNCHANGED <<now, asb, moves, swaps, capital>>
  BY DEF HistoryInv, ReconInv, ReconBtc, world
<1>2. /\ recon'.pc = "xmr" /\ recon'.btc = WalletAt("BTC", now)
      /\ recon'.timeline = recon.timeline
  BY <1>1 DEF ReconShape, ReconBtc
<1>3. TimelineInv'
  BY <1>2, TimelineStays DEF ReadInv
<1> DEFINE E == EndedBy(now)
           M == MovedBy(now)
<1>4. /\ E \in SUBSET Swaps /\ M \in SUBSET moves /\ Covers(E, M, now)
      /\ recon'.btc = Owned("BTC", E, M)
  BY <1>2, ReadingCovers, WalletHolds
<1> HIDE DEF E, M
<1>5. PICK F \in SUBSET Swaps, N \in SUBSET moves :
        Covers(F, N, now) /\ recon'.btc = Owned("BTC", F, N)
  BY <1>4
<1>6. now \in Int /\ now <= now
  BY DEF HistoryInv, WorldInv, Times
<1>7. \A u \in Int : now <= u =>
        Covers(F, N, u)' /\ \A a \in Assets : Owned(a, F, N)' = Owned(a, F, N)
  BY <1>2, <1>5, <1>6, CoversStay DEF ReadInv
<1>8. Covers(F, N, now)'
  BY <1>1, <1>6, <1>7 DEF Covers, EndedBy, MovedBy
<1>9. Owned("BTC", F, N)' = Owned("BTC", F, N)
  BY <1>6, <1>7 DEF Assets
<1>10. BtcInv'
  BY <1>1, <1>5, <1>8, <1>9 DEF BtcInv
<1> QED BY <1>2, <1>3, <1>10 DEF ReadInv, PendingInv

\* Reading the monero, and rewinding both.
LEMMA MoneroIsRead ==
  ASSUME HistoryInv, PastInv, ReadInv, [Next]_vars, ReconXmr
  PROVE  ReadInv'
<1>1. ReconShape /\ UNCHANGED <<now, asb, moves, swaps, capital>> /\ recon.pc = "xmr"
  BY DEF HistoryInv, ReconInv, ReconXmr, world
<1>2. /\ recon'.pc = "insert" /\ recon'.until = now /\ recon'.timeline = recon.timeline
      /\ \A h \in DOMAIN recon'.pending :
           /\ recon'.pending[h]["BTC"] = Rewound("BTC", recon.btc, h)
           /\ recon'.pending[h]["XMR"] = Rewound("XMR", WalletAt("XMR", now), h)
  <2> DEFINE Pending ==
        [h \in Valued(recon.prices, recon.earliest, now) |->
           [live |-> FALSE, BTC |-> Rewound("BTC", recon.btc, h),
            XMR |-> Rewound("XMR", WalletAt("XMR", now), h), kraken |-> NoKraken]]
  <2>1. recon' = [recon EXCEPT !.pc = "insert", !.until = now, !.pending = Pending]
    BY DEF ReconXmr
  <2>2. \A h \in DOMAIN Pending :
          /\ Pending[h]["BTC"] = Rewound("BTC", recon.btc, h)
          /\ Pending[h]["XMR"] = Rewound("XMR", WalletAt("XMR", now), h)
    OBVIOUS
  <2> HIDE DEF Pending
  <2> QED BY <1>1, <2>1, <2>2 DEF ReconShape
<1>3. TimelineInv'
  BY <1>2, TimelineStays DEF ReadInv
<1>4. now \in Times /\ now \in Int /\ now <= now
  BY DEF HistoryInv, WorldInv, Times
<1>5. ASSUME NEW a \in Assets
      PROVE  \E E \in SUBSET Swaps, M \in SUBSET moves :
               /\ Covers(E, M, now)
               /\ \A h \in DOMAIN recon'.pending :
                    recon'.pending[h][a] = Rewound(a, Owned(a, E, M), h)
  <2>1. CASE a = "BTC"
    BY <1>1, <1>2, <2>1 DEF ReadInv, BtcInv
  <2>2. CASE a = "XMR"
    <3>1. WalletAt("XMR", now) = Owned("XMR", EndedBy(now), MovedBy(now))
      BY WalletHolds
    <3> QED BY <1>2, <2>2, <3>1, ReadingCovers
  <2> QED BY <1>5, <2>1, <2>2 DEF Assets
<1>6. ASSUME NEW a \in Assets
      PROVE  \E E \in SUBSET Swaps, M \in SUBSET moves' :
               Covers(E, M, recon.until)' /\ RewoundFrom(a, E, M)'
  <2>1. PICK E \in SUBSET Swaps, M \in SUBSET moves :
          /\ Covers(E, M, now)
          /\ \A h \in DOMAIN recon'.pending :
               recon'.pending[h][a] = Rewound(a, Owned(a, E, M), h)
    BY <1>5, <1>6
  <2>2. \A u \in Int : now <= u =>
          Covers(E, M, u)' /\ \A b \in Assets : Owned(b, E, M)' = Owned(b, E, M)
    BY <1>2, <1>4, <2>1, CoversStay DEF ReadInv
  <2>3. Covers(E, M, recon.until)'
    BY <1>2, <1>4, <2>2 DEF Covers, EndedBy, MovedBy
  <2>4. Owned(a, E, M)' = Owned(a, E, M)
    BY <1>4, <1>6, <2>2
  <2>5. RewoundFrom(a, E, M)'
    BY <1>2, <2>1, <2>4 DEF RewoundFrom, Rewound, Later
  <2> QED BY <1>1, <2>1, <2>3, <2>5
<1>7. PendingInv'
  BY <1>1, <1>2, <1>4, <1>6 DEF PendingInv
<1> QED BY <1>2, <1>3, <1>7 DEF ReadInv, BtcInv

\* Storing some of the pending rows leaves the others as they are.
LEMMA ChunksAreStored ==
  ASSUME HistoryInv, PastInv, ReadInv, [Next]_vars, ReconInsert
  PROVE  ReadInv'
<1>1. ReconShape /\ UNCHANGED <<now, asb, moves, swaps, capital>> /\ recon.pc = "insert"
  BY DEF HistoryInv, ReconInv, ReconInsert, world
<1>2. /\ recon'.pc # "xmr" /\ recon'.until = recon.until
      /\ recon'.timeline = recon.timeline
      /\ \A h \in DOMAIN recon'.pending :
           h \in DOMAIN recon.pending /\ recon'.pending[h] = recon.pending[h]
  BY <1>1 DEF ReconShape, ReconInsert, Restrict
<1>3. TimelineInv'
  BY <1>2, TimelineStays DEF ReadInv
<1>4. recon.until \in Times /\ recon.until \in Int /\ recon.until <= now
  BY <1>1 DEF ReadInv, PendingInv, Times
<1>5. ASSUME NEW a \in Assets
      PROVE  \E E \in SUBSET Swaps, M \in SUBSET moves' :
               Covers(E, M, recon.until)' /\ RewoundFrom(a, E, M)'
  <2>1. PICK E \in SUBSET Swaps, M \in SUBSET moves :
          Covers(E, M, recon.until) /\ RewoundFrom(a, E, M)
    BY <1>1, <1>5 DEF ReadInv, PendingInv
  <2>2. \A u \in Int : recon.until <= u =>
          Covers(E, M, u)' /\ \A b \in Assets : Owned(b, E, M)' = Owned(b, E, M)
    BY <1>2, <1>4, <2>1, CoversStay DEF ReadInv
  <2>3. recon.until <= recon.until
    BY <1>4
  <2>4. Covers(E, M, recon.until)'
    BY <1>2, <1>4, <2>2, <2>3 DEF Covers, EndedBy, MovedBy
  <2>5. Owned(a, E, M)' = Owned(a, E, M)
    BY <1>4, <1>5, <2>2, <2>3
  <2>6. RewoundFrom(a, E, M)'
    BY <1>2, <2>1, <2>5 DEF RewoundFrom, Rewound, Later
  <2> QED BY <1>1, <2>1, <2>4, <2>6
<1>6. PendingInv'
  BY <1>1, <1>2, <1>4, <1>5 DEF PendingInv
<1> QED BY <1>2, <1>3, <1>6 DEF ReadInv, BtcInv

\* The whole of it.
LEMMA ReadInvNext == HistoryInv /\ PastInv /\ ReadInv /\ [Next]_vars => ReadInv'
<1> SUFFICES ASSUME HistoryInv, PastInv, ReadInv, [Next]_vars PROVE ReadInv'
  OBVIOUS
<1>1. CASE recon' = recon
  BY <1>1, ReadStays
<1>2. CASE recon' # recon
  <2>1. ReconStep \/ ReconFails \/ Restart
    BY <1>2 DEF Next, vars, Tick, Move, Mirror, SwapStarts, SwapEnds, KrakenStep, Record,
       LiveSnapshot
  <2> QED
    BY <2>1, EventsAreRead, BitcoinIsRead, MoneroIsRead, ChunksAreStored DEF ReconStep
<1> QED BY <1>1, <1>2

-----------------------------------------------------------------------------
(* The rewinding                                                           *)

\* A sum over some swaps, and over some of these and the others.
LEMMA SwapSumParts ==
  ASSUME NEW a, NEW E \in SUBSET Swaps, NEW F \in SUBSET E
  PROVE  /\ SwapSum(a, E) \in Int /\ SwapSum(a, F) \in Int
         /\ SwapSum(a, E) = SwapSum(a, E \ F) + SwapSum(a, F)
<1> USE BalancesAssumption
<1> DEFINE f == [s \in E |-> SwapGain(asb[s].state, a)]
           g(T) == [s \in T |-> SwapGain(asb[s].state, a)]
<1>1. \A T \in SUBSET E : IsFiniteSet(T)
  BY FS_Subset
<1>2. \A s \in E : f[s] \in Int
  BY DEF SwapGain
<1>3. ASSUME NEW T \in SUBSET E PROVE SumFunctionOnSet(f, T) = SwapSum(a, T)
  <2>1. \A s \in T : f[s] \in Int /\ g(T)[s] = f[s]
    BY <1>2
  <2> HIDE DEF f
  <2>2. SumFunctionOnSet(g(T), T) = SumFunctionOnSet(f, T)
    <3> HIDE DEF g
    <3> QED BY <1>1, <2>1, SumSame
  <2>3. DOMAIN g(T) = T
    OBVIOUS
  <2> QED BY <2>2, <2>3 DEF SwapSum, SumFunction
<1> HIDE DEF f
<1>4. SumFunctionOnSet(f, E)
        = SumFunctionOnSet(f, E \ F) + SumFunctionOnSet(f, E \ (E \ F))
  BY <1>1, <1>2, SumParts
<1>5. E \ (E \ F) = F
  OBVIOUS
<1>6. \A T \in SUBSET E : SumFunctionOnSet(f, T) \in Int
  BY <1>1, <1>2, SumType
<1> QED BY <1>3, <1>4, <1>5, <1>6

\* The same for movements.
LEMMA MoveSumParts ==
  ASSUME NEW a, NEW M, IsFiniteSet(M), NEW N \in SUBSET M
  PROVE  /\ MoveSum(a, M) \in Int /\ MoveSum(a, N) \in Int
         /\ MoveSum(a, M) = MoveSum(a, M \ N) + MoveSum(a, N)
<1> DEFINE f == [m \in M |-> MoveGain(m, a)]
           g(T) == [m \in T |-> MoveGain(m, a)]
<1>1. \A T \in SUBSET M : IsFiniteSet(T)
  BY FS_Subset
<1>2. \A m \in M : f[m] \in Int
  BY DEF MoveGain
<1>3. ASSUME NEW T \in SUBSET M PROVE SumFunctionOnSet(f, T) = MoveSum(a, T)
  <2>1. \A m \in T : f[m] \in Int /\ g(T)[m] = f[m]
    BY <1>2
  <2> HIDE DEF f
  <2>2. SumFunctionOnSet(g(T), T) = SumFunctionOnSet(f, T)
    <3> HIDE DEF g
    <3> QED BY <1>1, <2>1, SumSame
  <2>3. DOMAIN g(T) = T
    OBVIOUS
  <2> QED BY <2>2, <2>3 DEF MoveSum, SumFunction
<1> HIDE DEF f
<1>4. SumFunctionOnSet(f, M)
        = SumFunctionOnSet(f, M \ N) + SumFunctionOnSet(f, M \ (M \ N))
  BY <1>1, <1>2, SumParts
<1>5. M \ (M \ N) = N
  OBVIOUS
<1>6. \A T \in SUBSET M : SumFunctionOnSet(f, T) \in Int
  BY <1>1, <1>2, SumType
<1> QED BY <1>3, <1>4, <1>5, <1>6

EventsOf(E, M) == {SwapEvent(s) : s \in E} \cup {CapitalEvent(m) : m \in M}

\* The gains of events add up to those of their swaps and movements.
LEMMA EventsAddUp ==
  ASSUME NEW a \in Assets,
         NEW E \in SUBSET Swaps, \A s \in E : asb[s].state # "refunded",
         NEW M, IsFiniteSet(M)
  PROVE  SumFunction([e \in EventsOf(E, M) |-> e.gain[a]]) = SwapSum(a, E) + MoveSum(a, M)
<1> USE BalancesAssumption
<1> DEFINE g == [e \in EventsOf(E, M) |-> e.gain[a]]
           S == {SwapEvent(s) : s \in E}
           C == {CapitalEvent(m) : m \in M}
           fs == [s \in E |-> SwapGain(asb[s].state, a)]
           fc == [m \in M |-> MoveGain(m, a)]
           hs == [s \in E |-> SwapEvent(s)]
           hc == [m \in M |-> CapitalEvent(m)]
<1>1. IsFiniteSet(E) /\ IsFiniteSet(S) /\ IsFiniteSet(C)
  <2>1. IsFiniteSet(E)
    BY FS_Subset
  <2>2. hs \in Surjection(E, S)
    BY DEF Surjection
  <2>3. hc \in Surjection(M, C)
    BY DEF Surjection
  <2> HIDE DEF hs, hc, S, C
  <2> QED BY <2>1, <2>2, <2>3, FS_Surjection
<1>2. /\ \A s \in E : SwapEvent(s).gain[a] = SwapGain(asb[s].state, a)
      /\ \A s \in E : SwapEvent(s).id = s /\ SwapEvent(s).kind = "swap"
  BY DEF SwapEvent, SwapRewinds
<1>3. /\ \A m \in M : CapitalEvent(m).gain[a] = MoveGain(m, a)
      /\ \A m \in M : CapitalEvent(m).id = m /\ CapitalEvent(m).kind = "capital"
  BY DEF CapitalEvent
<1>4. /\ \A s \in E : fs[s] \in Int /\ SwapEvent(s) \in S /\ g[SwapEvent(s)] = fs[s]
      /\ \A m \in M : fc[m] \in Int /\ CapitalEvent(m) \in C /\ g[CapitalEvent(m)] = fc[m]
  BY <1>2, <1>3 DEF EventsOf, SwapGain, MoveGain
<1>5. SumFunctionOnSet(g, S) = SumFunctionOnSet(fs, E)
  <2>1. /\ hs \in [E -> S] /\ (\A s, t \in E : hs[s] = hs[t] => s = t)
        /\ (\A e \in S : \E s \in E : hs[s] = e)
        /\ (\A s \in E : g[hs[s]] = fs[s]) /\ \A s \in E : fs[s] \in Int
    <3> HIDE DEF g, fs
    <3> QED BY <1>2, <1>4
  <2> HIDE DEF g, fs, hs, S
  <2> QED BY <1>1, <2>1, SumRenamed
<1>6. SumFunctionOnSet(g, C) = SumFunctionOnSet(fc, M)
  <2>1. /\ hc \in [M -> C] /\ (\A s, t \in M : hc[s] = hc[t] => s = t)
        /\ (\A e \in C : \E s \in M : hc[s] = e)
        /\ (\A s \in M : g[hc[s]] = fc[s]) /\ \A s \in M : fc[s] \in Int
    <3> HIDE DEF g, fc
    <3> QED BY <1>3, <1>4
  <2> HIDE DEF g, fc, hc, C
  <2> QED BY <1>1, <2>1, SumRenamed
<1>7. S \cap C = {}
  BY <1>2, <1>3
<1>8. \A e \in S \cup C : g[e] \in Int
  <2> HIDE DEF g, fs, fc
  <2> QED BY <1>4
<1>9. SumFunctionOnSet(g, S \cup C) = SumFunctionOnSet(g, S) + SumFunctionOnSet(g, C)
  <2> HIDE DEF g, S, C
  <2> QED BY <1>1, <1>7, <1>8, SumSplit
<1>10. DOMAIN g = S \cup C
  BY DEF EventsOf
<1>11. SumFunctionOnSet(fs, E) = SwapSum(a, E)
  BY DEF SwapSum, SumFunction
<1>12. SumFunctionOnSet(fc, M) = MoveSum(a, M)
  BY DEF MoveSum, SumFunction
<1> HIDE DEF g, S, C, fs, fc
<1>13. SumFunction(g) = SwapSum(a, E) + MoveSum(a, M)
  BY <1>5, <1>6, <1>9, <1>10, <1>11, <1>12 DEF SumFunction
<1> QED BY <1>13 DEF g

\* The later events of a complete timeline are those of what ended or moved
\* after the end of the hour.
LEMMA LaterEvents ==
  ASSUME HistoryInv, ReadInv, recon.pc = "insert", TimelineComplete,
         TimelineSwaps = EndedBy(recon.until), TimelineMoves = MovedBy(recon.until),
         NEW h \in FullHours
  PROVE  Later(h) = EventsOf(EndedBy(recon.until) \ EndedBy(h + 1),
                             MovedBy(recon.until) \ MovedBy(h + 1))
<1> DEFINE E == EndedBy(recon.until)
           M == MovedBy(recon.until)
<1>1. WorldInv /\ h \in Int /\ h % 2 = 0
  BY DEF HistoryInv, FullHours
<1>2. recon.timeline = EventsOf(E, M)
  <2>1. recon.timeline \subseteq SwapEvents \cup CapitalEvents
    BY DEF ReadInv, TimelineInv
  <2>2. \A e \in SwapEvents : e \in recon.timeline => \E s \in E : e = SwapEvent(s)
    BY DEF SwapEvents, TimelineSwaps
  <2>3. \A e \in CapitalEvents : e \in recon.timeline => \E m \in M : e = CapitalEvent(m)
    BY DEF CapitalEvents, TimelineMoves
  <2>4. /\ \A s \in E : SwapEvent(s) \in recon.timeline
        /\ \A m \in M : CapitalEvent(m) \in recon.timeline
    BY DEF TimelineComplete
  <2> QED BY <2>1, <2>2, <2>3, <2>4 DEF EventsOf
<1>3. \A s \in E : Hour(SwapEvent(s).at) > h <=> s \notin EndedBy(h + 1)
  <2> SUFFICES ASSUME NEW s \in E PROVE Hour(SwapEvent(s).at) > h <=> s \notin EndedBy(h + 1)
    OBVIOUS
  <2>1. s \in Swaps /\ asb[s] # Null /\ asb[s].ended \in Times /\ asb[s].ended \in Nat \ {0}
    BY <1>1 DEF WorldInv, EndedBy, AsbEntry, Times
  <2>2. Hour(SwapEvent(s).at) = Hour(asb[s].ended)
    BY DEF TimelineComplete, SwapEvent
  <2>3. Hour(asb[s].ended) = asb[s].ended - 1
    BY <2>1 DEF Hour, Times
  <2>4. asb[s].ended - 1 > h <=> ~(asb[s].ended <= h + 1)
    BY <1>1, <2>1
  <2>5. s \in EndedBy(h + 1) <=> asb[s].ended <= h + 1
    BY <1>1, <2>1 DEF EndedBy
  <2> QED BY <2>2, <2>3, <2>4, <2>5
<1>4. \A m \in M : Hour(CapitalEvent(m).at) > h <=> m \notin MovedBy(h + 1)
  <2> SUFFICES ASSUME NEW m \in M
               PROVE  Hour(CapitalEvent(m).at) > h <=> m \notin MovedBy(h + 1)
    OBVIOUS
  <2>1. m \in moves /\ m.at \in Times /\ m.at \in Nat
    BY <1>1 DEF WorldInv, MovedBy, Times
  <2>2. Hour(CapitalEvent(m).at) = m.at - 1
    BY <2>1 DEF Hour, Times, CapitalEvent
  <2>3. m.at - 1 > h <=> ~(m.at <= h + 1)
    BY <1>1, <2>1
  <2>4. m \in MovedBy(h + 1) <=> m.at <= h + 1
    BY <2>1 DEF MovedBy
  <2> QED BY <2>2, <2>3, <2>4
<1> HIDE DEF E, M
<1>5. Later(h) = EventsOf(E \ EndedBy(h + 1), M \ MovedBy(h + 1))
  <2>1. \A e : e \in EventsOf(E \ EndedBy(h + 1), M \ MovedBy(h + 1)) <=>
          \/ \E s \in E : e = SwapEvent(s) /\ s \notin EndedBy(h + 1)
          \/ \E m \in M : e = CapitalEvent(m) /\ m \notin MovedBy(h + 1)
    BY DEF EventsOf
  <2>2. \A e : e \in Later(h) <=>
          \/ \E s \in E : e = SwapEvent(s) /\ Hour(SwapEvent(s).at) > h
          \/ \E m \in M : e = CapitalEvent(m) /\ Hour(CapitalEvent(m).at) > h
    BY <1>2 DEF Later, EventsOf
  <2> QED BY <1>3, <1>4, <2>1, <2>2
<1> QED BY <1>5 DEF E, M

\* What the rewinding says of an hour is what the wallet held at its end.
LEMMA RewindingMeets ==
  ASSUME HistoryInv, PastInv, ReadInv, recon.pc = "insert", TimelineComplete,
         NEW h \in DOMAIN recon.pending, NEW a \in Assets
  PROVE  recon.pending[h][a] = WalletAt(a, h + 1)
<1> DEFINE until == recon.until
           E == EndedBy(until)
           M == MovedBy(until)
           F == EndedBy(h + 1)
           N == MovedBy(h + 1)
<1>1. WorldInv /\ until \in Times
  BY DEF HistoryInv, ReadInv, PendingInv
<1>2. h \in FullHours /\ h \in Int /\ h + 1 <= until
  <2>1. h \in FullHours /\ h <= Hour(until)
    BY DEF HistoryInv, ReconInv, PendingHolds, ValuedHours, Valued
  <2> QED BY <1>1, <2>1 DEF FullHours, Hour, Times
<1>3. PICK G \in SUBSET Swaps, O \in SUBSET moves :
        Covers(G, O, until) /\ RewoundFrom(a, G, O)
  BY DEF ReadInv, PendingInv
<1>4. E \subseteq TimelineSwaps /\ M \subseteq TimelineMoves
  <2>1. \A s \in E : SwapEvent(s) \in SwapEvents
    <3>1. \A s \in E : SwapEvent(s) \in recon.timeline
      BY DEF TimelineComplete
    <3>2. \A s \in E : SwapEvent(s).kind = "swap"
      BY DEF SwapEvent
    <3>3. \A m \in capital : CapitalEvent(m).kind = "capital"
      BY DEF CapitalEvent
    <3> QED BY <3>1, <3>2, <3>3 DEF ReadInv, TimelineInv, CapitalEvents
  <2>2. \A s \in E : s \in swaps
    <3>1. \A s \in E : \E u \in swaps : SwapEvent(s) = SwapEvent(u)
      BY <2>1 DEF SwapEvents
    <3>2. \A s : SwapEvent(s).id = s
      BY DEF SwapEvent
    <3> QED BY <3>1, <3>2
  <2>3. \A m \in M : CapitalEvent(m) \in CapitalEvents
    <3>1. \A m \in M : CapitalEvent(m) \in recon.timeline
      BY DEF TimelineComplete
    <3>2. \A m \in M : CapitalEvent(m).kind = "capital"
      BY DEF CapitalEvent
    <3>3. \A s \in swaps : SwapEvent(s).kind = "swap"
      BY DEF SwapEvent
    <3> QED BY <3>1, <3>2, <3>3 DEF ReadInv, TimelineInv, SwapEvents
  <2>4. \A m \in M : m \in capital
    <3>1. \A m \in M : \E k \in capital : CapitalEvent(m) = CapitalEvent(k)
      BY <2>3 DEF CapitalEvents
    <3>2. \A m : CapitalEvent(m).id = m
      BY DEF CapitalEvent
    <3> QED BY <3>1, <3>2
  <2> QED BY <2>2, <2>4 DEF TimelineSwaps, TimelineMoves, TimelineComplete
<1>5. G = E /\ O = M /\ TimelineSwaps = E /\ TimelineMoves = M
  BY <1>3, <1>4 DEF Covers
<1>6. E \in SUBSET Swaps /\ F \in SUBSET E /\ IsFiniteSet(M) /\ N \in SUBSET M
  <2>1. F \subseteq E
    BY <1>1, <1>2 DEF EndedBy, Times
  <2>2. N \subseteq M
    BY <1>1, <1>2 DEF MovedBy, Times, WorldInv
  <2>3. IsFiniteSet(M)
    BY FS_Subset DEF PastInv, MovedBy
  <2> QED BY <1>3, <1>5, <2>1, <2>2, <2>3
<1>7. Later(h) = EventsOf(E \ F, M \ N)
  BY <1>2, <1>5, LaterEvents
<1>8. SumFunction([e \in Later(h) |-> e.gain[a]]) = SwapSum(a, E \ F) + MoveSum(a, M \ N)
  <2>1. \A s \in E \ F : asb[s].state # "refunded"
    BY DEF TimelineComplete
  <2>2. IsFiniteSet(M \ N)
    BY <1>6, FS_Subset
  <2>3. E \ F \in SUBSET Swaps
    BY <1>6
  <2> HIDE DEF E, F, M, N
  <2>4. SumFunction([e \in EventsOf(E \ F, M \ N) |-> e.gain[a]])
          = SwapSum(a, E \ F) + MoveSum(a, M \ N)
    BY <2>1, <2>2, <2>3, EventsAddUp
  <2> QED BY <1>7, <2>4
<1>9. recon.pending[h][a] = Rewound(a, Owned(a, E, M), h)
  BY <1>3, <1>5 DEF RewoundFrom
<1>10. WalletAt(a, h + 1) = Owned(a, F, N)
  BY WalletHolds
<1> HIDE DEF E, F, M, N
<1>11. /\ SwapSum(a, E) = SwapSum(a, E \ F) + SwapSum(a, F)
       /\ SwapSum(a, E \ F) \in Int /\ SwapSum(a, F) \in Int
  <2>1. E \ F \in SUBSET E
    OBVIOUS
  <2> QED BY <1>6, <2>1, SwapSumParts
<1>12. /\ MoveSum(a, M) = MoveSum(a, M \ N) + MoveSum(a, N)
       /\ MoveSum(a, M \ N) \in Int /\ MoveSum(a, N) \in Int
  <2>1. M \ N \in SUBSET M
    OBVIOUS
  <2> QED BY <1>6, <2>1, MoveSumParts
<1>13. Rewound(a, Owned(a, E, M), h)
         = Owned(a, E, M) - (SwapSum(a, E \ F) + MoveSum(a, M \ N))
  BY <1>8 DEF Rewound
<1>14. Owned(a, E, M) - (SwapSum(a, E \ F) + MoveSum(a, M \ N)) = Owned(a, F, N)
  BY <1>11, <1>12 DEF Owned, Opening
<1> QED BY <1>9, <1>10, <1>13, <1>14

\* What the rewinding says of an hour is what the wallet held at its end, for
\* any mixture and order of swaps and capital events and whatever happens while
\* it runs, as long as the events it had read were complete when the balances
\* were read (snapshot_backfill.rs:122-174).
THEOREM RewindingIsExact == Spec => []ReconstructionMeetsHistory
<1> DEFINE Inv == HistoryInv /\ PastInv /\ ReadInv
<1>1. Init => Inv
  <2> SUFFICES ASSUME Init PROVE Inv
    OBVIOUS
  <2>1. PastInv
    BY FS_EmptySet DEF Init, PastInv
  <2>2. ReadInv
    BY DEF Init, NoRecon, ReadInv, TimelineInv, BtcInv, PendingInv
  <2> QED BY <2>1, <2>2, HistoryInvInit
<1>2. Inv /\ [Next]_vars => Inv'
  BY HistoryInvNext, PastInvNext, ReadInvNext
<1>3. Inv => ReconstructionMeetsHistory
  BY RewindingMeets DEF ReconstructionMeetsHistory
<1> QED BY <1>1, <1>2, <1>3, PTL DEF Spec

-----------------------------------------------------------------------------
(* Types                                                                   *)

\* Balances are integers.
LEMMA BalancesAreInt ==
  ASSUME PastInv, NEW a \in Holdings, NEW t
  PROVE  WalletAt(a, t) \in Int /\ ExchangeAt(a, t) \in Int
<1> DEFINE D == DoneBy(t)
           steps == [e \in D |-> StepGain[e.step][a]]
           dollars == {m \in MovedBy(t) : m.asset = "USD"}
<1>1. SwapSum(a, EndedBy(t)) \in Int
  <2>1. EndedBy(t) \in SUBSET Swaps
    BY DEF EndedBy
  <2> QED BY <2>1, SwapSumParts
<1>2. IsFiniteSet(MovedBy(t)) /\ IsFiniteSet(dollars)
  <2>1. IsFiniteSet(MovedBy(t))
    BY FS_Subset DEF PastInv, MovedBy
  <2> QED BY <2>1, FS_Subset
<1>3. MoveSum(a, MovedBy(t)) \in Int /\ MoveSum(a, dollars) \in Int
  BY <1>2, MoveSumParts
<1>4. WalletAt(a, t) = Owned(a, EndedBy(t), MovedBy(t))
  BY WalletHolds
<1>5. SumFunction(steps) \in Int
  <2>1. IsFiniteSet(D) /\ D \subseteq account
    BY FS_Subset DEF PastInv, DoneBy
  <2>2. DOMAIN steps = D
    OBVIOUS
  <2>3. \A e \in D : StepGain[e.step][a] \in Int
    <3>1. \A e \in D : e.step \in {"credit", "sell", "buy", "send"}
      BY <2>1 DEF PastInv, StepGain
    <3> QED BY <3>1 DEF StepGain, Holdings, Assets
  <2>4. \A e \in D : steps[e] \in Int
    BY <2>3
  <2> HIDE DEF D, steps
  <2> QED BY <2>1, <2>2, <2>4, SumType DEF SumFunction
<1>6. ExchangeAt(a, t) = Opening + SumFunction(steps) + MoveSum(a, dollars)
  BY DEF ExchangeAt, MoveSum
<1> HIDE DEF steps, dollars
<1> QED BY <1>1, <1>3, <1>4, <1>5, <1>6 DEF Owned, Opening

\* And so are the rewound ones.
LEMMA RewoundIsInt ==
  ASSUME HistoryInv, PastInv, TimelineInv, NEW a \in Assets, NEW b \in Int, NEW h
  PROVE  Rewound(a, b, h) \in Int
<1> USE BalancesAssumption
<1> DEFINE L == Later(h)
           g == [e \in L |-> e.gain[a]]
           hs == [s \in swaps |-> SwapEvent(s)]
           hc == [m \in capital |-> CapitalEvent(m)]
<1>1. L \subseteq SwapEvents \cup CapitalEvents
  BY DEF Later, TimelineInv
<1>2. IsFiniteSet(SwapEvents) /\ IsFiniteSet(CapitalEvents)
  <2>1. IsFiniteSet(swaps) /\ IsFiniteSet(capital)
    <3>1. swaps \subseteq Swaps /\ capital \subseteq moves
      BY DEF HistoryInv, WorldInv, EndedBy
    <3> QED BY <3>1, FS_Subset DEF PastInv
  <2>2. hs \in Surjection(swaps, SwapEvents)
    BY DEF Surjection, SwapEvents
  <2>3. hc \in Surjection(capital, CapitalEvents)
    BY DEF Surjection, CapitalEvents
  <2> HIDE DEF hs, hc
  <2> QED BY <2>1, <2>2, <2>3, FS_Surjection
<1>3. IsFiniteSet(L)
  <2>1. IsFiniteSet(SwapEvents \cup CapitalEvents)
    BY <1>2, FS_Union
  <2> QED BY <1>1, <2>1, FS_Subset
<1>4. \A e \in L : g[e] \in Int
  <2>1. \A s \in swaps : SwapEvent(s).gain[a] \in Int
    BY DEF SwapEvent, SwapRewinds, SwapGain
  <2>2. \A m \in capital : CapitalEvent(m).gain[a] \in Int
    BY DEF CapitalEvent, MoveGain
  <2>3. \A e \in L : e.gain[a] \in Int
    BY <1>1, <2>1, <2>2 DEF SwapEvents, CapitalEvents
  <2> QED BY <2>3
<1>5. DOMAIN g = L
  OBVIOUS
<1>6. Rewound(a, b, h) = b - SumFunction(g)
  BY DEF Rewound
<1> HIDE DEF g, L
<1>7. SumFunction(g) \in Int
  BY <1>3, <1>4, <1>5, SumType DEF SumFunction
<1> QED BY <1>6, <1>7

\* What the types need beyond the invariants above.
TypeInv == TypeOK /\ recon.btc \in Int

\* A step of the reconstruction keeps the types of what it has.
LEMMA ReconTypes ==
  ASSUME HistoryInv, PastInv, ReadInv, TypeInv,
         ReconStep \/ ReconFails \/ Restart
  PROVE  /\ recon'.pc \in {"start", "capital", "gate", "prices", "btc", "xmr", "insert",
                           "empty", "skipped", "filled", "failed"}
         /\ \A h \in DOMAIN recon'.pending : recon'.pending[h] \in Row
         /\ recon'.btc \in Int
<1>1. ReconShape
  BY DEF HistoryInv, ReconInv
<1>2. (\A h \in DOMAIN recon.pending : recon.pending[h] \in Row) /\ recon.btc \in Int
  BY DEF TypeInv, TypeOK
<1>3. CASE ReconSwaps
  BY <1>1, <1>2, <1>3 DEF ReconShape, ReconSwaps
<1>4. CASE ReconCapital
  <2> DEFINE timeline == recon.timeline \cup CapitalEvents
             earliest == Min({e.at : e \in timeline})
  <2>1. recon' = IF timeline = {} THEN [NoRecon EXCEPT !.pc = "empty"]
                 ELSE [recon EXCEPT !.pc = "gate", !.timeline = timeline,
                                    !.earliest = earliest]
    BY <1>4 DEF ReconCapital
  <2> HIDE DEF earliest, timeline
  <2> QED BY <1>1, <1>2, <2>1 DEF ReconShape, NoRecon
<1>5. CASE ReconGate
  BY <1>1, <1>2, <1>5 DEF ReconShape, ReconGate
<1>6. CASE ReconPrices
  BY <1>1, <1>2, <1>6 DEF ReconShape, ReconPrices
<1>7. CASE ReconBtc
  <2>1. WalletAt("BTC", now) \in Int
    BY BalancesAreInt DEF Holdings, Assets
  <2> QED BY <1>1, <1>2, <1>7, <2>1 DEF ReconShape, ReconBtc
<1>8. CASE ReconXmr
  <2> DEFINE Pending ==
        [h \in Valued(recon.prices, recon.earliest, now) |->
           [live |-> FALSE, BTC |-> Rewound("BTC", recon.btc, h),
            XMR |-> Rewound("XMR", WalletAt("XMR", now), h), kraken |-> NoKraken]]
  <2>1. recon' = [recon EXCEPT !.pc = "insert", !.until = now, !.pending = Pending]
    BY <1>8 DEF ReconXmr
  <2>2. \A h : Rewound("BTC", recon.btc, h) \in Int
    BY <1>2, RewoundIsInt DEF ReadInv, Assets
  <2>3. \A h : Rewound("XMR", WalletAt("XMR", now), h) \in Int
    <3>1. WalletAt("XMR", now) \in Int
      BY BalancesAreInt DEF Holdings, Assets
    <3> QED BY <3>1, RewoundIsInt DEF ReadInv, Assets
  <2>4. NoKraken \in [Holdings -> Int]
    BY DEF NoKraken, Holdings, Assets
  <2>5. \A h \in DOMAIN Pending : Pending[h] \in Row
    BY <2>2, <2>3, <2>4 DEF Row
  <2> HIDE DEF Pending
  <2> QED BY <1>1, <1>2, <2>1, <2>5 DEF ReconShape
<1>9. CASE ReconInsert
  <2>1. /\ recon'.pc \in {"filled", "insert"} /\ recon'.btc = recon.btc
        /\ \A h \in DOMAIN recon'.pending :
             h \in DOMAIN recon.pending /\ recon'.pending[h] = recon.pending[h]
    BY <1>1, <1>9 DEF ReconShape, ReconInsert, Restrict
  <2> QED BY <1>2, <2>1
<1>10. CASE ReconFails \/ Restart
  BY <1>10 DEF ReconFails, Restart, NoRecon
<1> QED BY <1>3, <1>4, <1>5, <1>6, <1>7, <1>8, <1>9, <1>10 DEF ReconStep

\* The rows keep theirs.
LEMMA RowTypes ==
  ASSUME HistoryInv, PastInv, TypeInv, [Next]_vars
  PROVE  DOMAIN rows' \subseteq Times \cup FullHours /\ \A t \in DOMAIN rows' : rows'[t] \in Row
<1>1. /\ DOMAIN rows \subseteq Times \cup FullHours /\ (\A t \in DOMAIN rows : rows[t] \in Row)
      /\ now \in Times
  BY DEF TypeInv, TypeOK
<1>2. CASE rows' = rows
  BY <1>1, <1>2
<1>3. CASE LiveSnapshot
  <2>1. PICK seen \in [{"BTC", "XMR", "kraken"} -> {now, now - HOUR}] :
          \E row \in {LiveRow(seen), [LiveRow(seen) EXCEPT !.kraken = NoKraken]} :
             rows' = Inserted([t \in {now} |-> row])
    BY <1>3 DEF LiveSnapshot
  <2>2. PICK row \in {LiveRow(seen), [LiveRow(seen) EXCEPT !.kraken = NoKraken]} :
          rows' = Inserted([t \in {now} |-> row])
    BY <2>1
  <2>3. \A a \in Holdings : \A t : WalletAt(a, t) \in Int /\ ExchangeAt(a, t) \in Int
    BY BalancesAreInt
  <2>4. NoKraken \in [Holdings -> Int] /\ KrakenBalances(seen.kraken) \in [Holdings -> Int]
    BY <2>3 DEF NoKraken, KrakenBalances, Holdings, Assets
  <2>5. LiveRow(seen) \in Row
    BY <2>3, <2>4 DEF LiveRow, Row, Holdings, Assets
  <2>6. [LiveRow(seen) EXCEPT !.kraken = NoKraken] \in Row
    BY <2>4, <2>5 DEF Row
  <2>7. row \in Row
    BY <2>2, <2>5, <2>6
  <2> QED BY <1>1, <2>2, <2>7 DEF Inserted
<1>4. CASE ReconInsert
  <2>1. rows' = Inserted(Restrict(recon.pending, Chunk)) /\ Chunk \subseteq DOMAIN recon.pending
    BY <1>4 DEF ReconInsert, Chunk
  <2>2. \A h \in DOMAIN recon.pending : h \in FullHours /\ recon.pending[h] \in Row
    BY <1>4 DEF ReconInsert, HistoryInv, ReconInv, PendingHolds, ValuedHours, Valued,
       TypeInv, TypeOK
  <2> QED BY <1>1, <2>1, <2>2 DEF Inserted, Restrict
<1> QED
  BY <1>2, <1>3, <1>4 DEF Next, vars, Tick, Move, Mirror, SwapStarts, SwapEnds, KrakenStep, Record,
     ReconStep, ReconSwaps, ReconCapital, ReconGate, ReconPrices, ReconBtc, ReconXmr,
     ReconFails, Restart

\* Every variable keeps its type; that the balances are integers at all is a
\* statement about finite sums.
THEOREM BalancesTypes == Spec => []TypeOK
<1> DEFINE Inv == HistoryInv /\ PastInv /\ ReadInv /\ TypeInv
<1>1. Init => Inv
  <2> SUFFICES ASSUME Init PROVE Inv
    OBVIOUS
  <2>1. PastInv
    BY FS_EmptySet DEF Init, PastInv
  <2>2. ReadInv
    BY DEF Init, NoRecon, ReadInv, TimelineInv, BtcInv, PendingInv
  <2>3. TypeInv
    <3>1. \A s \in Swaps : asb[s] = Null \/ asb[s].started \in Times
      BY DEF Init
    <3>2. now \in Times /\ faults \in 0 .. MaxFaults
      BY BalancesAssumption DEF Init
    <3> QED BY <3>1, <3>2 DEF Init, NoRecon, TypeInv, TypeOK
  <2> QED BY <2>1, <2>2, <2>3, HistoryInvInit
<1>2. Inv /\ [Next]_vars => Inv'
  <2> SUFFICES ASSUME Inv, [Next]_vars PROVE Inv'
    OBVIOUS
  <2>1. HistoryInv' /\ PastInv' /\ ReadInv'
    BY HistoryInvNext, PastInvNext, ReadInvNext
  <2>2. /\ now' \in Times /\ swaps' \subseteq Swaps /\ capital' \subseteq moves'
        /\ \A s \in Swaps : asb'[s] = Null \/ asb'[s].started \in Times
        /\ \A m \in moves' : m.at \in Times
    BY <2>1 DEF HistoryInv, WorldInv, EndedBy, AsbEntry
  <2>3. DOMAIN rows' \subseteq Times \cup FullHours /\ \A t \in DOMAIN rows' : rows'[t] \in Row
    BY RowTypes
  <2>4. /\ recon'.pc \in {"start", "capital", "gate", "prices", "btc", "xmr", "insert",
                          "empty", "skipped", "filled", "failed"}
        /\ \A h \in DOMAIN recon'.pending : recon'.pending[h] \in Row
        /\ recon'.btc \in Int
    <3>1. CASE ReconStep \/ ReconFails \/ Restart
      BY <3>1, ReconTypes
    <3>2. CASE recon' = recon
      BY <3>2 DEF TypeInv, TypeOK
    <3> QED
      BY <3>1, <3>2 DEF Next, vars, Tick, Move, Mirror, SwapStarts, SwapEnds, KrakenStep, Record,
         LiveSnapshot
  <2>5. faults' \in 0 .. MaxFaults
    <3>1. faults' = faults \/ (faults < MaxFaults /\ faults' = faults + 1)
      BY DEF Next, vars, Tick, Move, Mirror, SwapStarts, SwapEnds, KrakenStep,
         Record, LiveSnapshot,
         ReconStep, ReconSwaps, ReconCapital, ReconGate, ReconPrices, ReconBtc, ReconXmr,
         ReconInsert, ReconFails, Restart
    <3> QED BY <3>1, BalancesAssumption DEF TypeInv, TypeOK
  <2>6. account' \subseteq [step : DOMAIN StepGain, at : Times]
    BY <2>1 DEF PastInv
  <2> QED BY <2>1, <2>2, <2>3, <2>4, <2>5, <2>6 DEF TypeInv, TypeOK
<1>3. Inv => TypeOK
  BY DEF TypeInv
<1> QED BY <1>1, <1>2, <1>3, PTL DEF Spec
=============================================================================
