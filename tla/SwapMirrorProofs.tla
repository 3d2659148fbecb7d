-------------------------- MODULE SwapMirrorProofs --------------------------
(***************************************************************************)
(* What SwapMirror promises for any swaps, any price history and any       *)
(* faults; that profits are stored once faults stop, assuming the fair     *)
(* steps possible where their guards hold (SyncGoesOn).                    *)
(***************************************************************************)
EXTENDS SwapMirror, TLAPS

\* An entry that the sync has read as ended is what asb still says, because
\* a swap that has ended does not change ...
EntriesHold ==
  \A s \in Swaps :
    s \in DOMAIN sync.entries =>
      /\ sync.entries[s] \in Entry
      /\ sync.entries[s].state \in Outcomes => asb[s] = sync.entries[s]

\* ... so a row that counts as completed has the final state ...
RowHolds(s) ==
  rows[s] # Null /\ rows[s].completed_at # Null =>
    asb[s] \in Entry /\ asb[s].state \in Outcomes /\ rows[s].state = asb[s].state

\* ... and its profit, stored at some time after, follows from that state.
ProfitHolds(s) ==
  rows[s] # Null /\ rows[s].profit # Null =>
    asb[s] \in Entry /\ asb[s].state \in Outcomes /\ rows[s].profit.rule = Rule(asb[s].state)

MirrorInv ==
  /\ now \in Times
  /\ asb \in [Swaps -> Entry \cup {Null}]
  /\ rows = [s \in Swaps |-> rows[s]]
  /\ EntriesHold
  /\ \A s \in Swaps : RowHolds(s) /\ ProfitHolds(s)

\* Nothing is mirrored at the start.
LEMMA MirrorInvInit == Init => MirrorInv
BY SwapMirrorAssumption DEF Init, MirrorInv, EntriesHold, RowHolds, ProfitHolds

\* Every step keeps the invariant.
LEMMA MirrorInvStep == MirrorInv /\ [Next]_vars => MirrorInv'
<1> SUFFICES ASSUME MirrorInv, [Next]_vars PROVE MirrorInv'
  OBVIOUS
<1> USE SwapMirrorAssumption
<1>1. ASSUME NEW s \in Swaps, SwapStarts(s) PROVE MirrorInv'
  <2>1. asb[s] = Null /\ UNCHANGED <<rows, sync>> /\ now \in Times
        /\ asb' = [asb EXCEPT ![s] = [state |-> "active", started |-> now]]
    BY <1>1 DEF SwapStarts, MirrorInv
  <2>2. now' = now
    BY <1>1 DEF SwapStarts
  <2> QED BY <2>1, <2>2 DEF MirrorInv, EntriesHold, RowHolds, ProfitHolds, Entry
<1>2. ASSUME NEW s \in Swaps, SwapEnds(s) PROVE MirrorInv'
  <2>1. PICK outcome \in Outcomes : asb' = [asb EXCEPT ![s].state = outcome]
    BY <1>2 DEF SwapEnds
  <2>2. asb[s] \in Entry /\ asb[s].state = "active" /\ UNCHANGED <<now, rows, sync>>
    BY <1>2 DEF SwapEnds, MirrorInv
  <2>3. asb'[s] \in Entry
    BY <2>1, <2>2 DEF MirrorInv, Entry
  <2>4. "active" \notin Outcomes
    BY DEF Outcomes
  <2> QED BY <2>1, <2>2, <2>3, <2>4 DEF MirrorInv, EntriesHold, RowHolds, ProfitHolds
<1>3. CASE SyncFetch
  <2>1. UNCHANGED <<now, asb, rows>>
    BY <1>3 DEF SyncFetch
  <2>2. EntriesHold'
    BY <1>3 DEF SyncFetch, MirrorInv, EntriesHold
  <2> QED BY <2>1, <2>2 DEF MirrorInv, RowHolds, ProfitHolds
<1>4. ASSUME NEW s \in Swaps, Upsert(s) PROVE MirrorInv'
  <2> DEFINE e == sync.entries[s]
             row == RowOf(s)
  <2>1. /\ s \in DOMAIN sync.entries /\ rows' = [rows EXCEPT ![s] = row]
        /\ sync'.entries = Remaining(s) /\ asb' = asb /\ now' = now
    BY <1>4 DEF Upsert, Store
  <2>2. e \in Entry /\ (e.state \in Outcomes => asb[s] = e)
    BY <2>1 DEF MirrorInv, EntriesHold
  <2>3. EntriesHold'
    BY <2>1 DEF MirrorInv, EntriesHold, Remaining
  <2>4. /\ row.state = e.state
        /\ row.completed_at # Null => e.state \in Outcomes
        /\ row.profit # Null => rows[s] # Null /\ row.profit = rows[s].profit
    BY DEF RowOf, Known
  <2> HIDE DEF e, row
  <2>5. rows'[s] = row /\ \A t \in Swaps \ {s} : rows'[t] = rows[t]
    BY <2>1 DEF MirrorInv
  <2>6. RowHolds(s)' /\ ProfitHolds(s)'
    BY <2>1, <2>2, <2>4, <2>5 DEF MirrorInv, RowHolds, ProfitHolds
  <2> QED BY <2>1, <2>3, <2>5, <2>6 DEF MirrorInv, RowHolds, ProfitHolds
<1>5. CASE SyncPrice
  <2>1. PICK profit :
          /\ \A s \in Unpriced : profit[s] \in Profits(rows[s])
          /\ rows' = [s \in Swaps |->
                        IF s \in Unpriced THEN [rows[s] EXCEPT !.profit = profit[s]]
                        ELSE rows[s]]
    BY <1>5 DEF SyncPrice
  <2>2. asb' = asb /\ now' = now /\ EntriesHold'
    BY <1>5 DEF SyncPrice, MirrorInv, EntriesHold
  <2>3. ASSUME NEW s \in Unpriced PROVE RowHolds(s)' /\ ProfitHolds(s)'
    <3>1. rows'[s] = [rows[s] EXCEPT !.profit = profit[s]] /\ s \in Swaps
      BY <2>1, <2>3 DEF Unpriced
    <3>2. profit[s] # Null =>
            profit[s].rule = Rule(rows[s].state) /\ rows[s].completed_at # Null
      <4>1. profit[s] \in Profits(rows[s]) /\ rows[s].completed_at # Null
        BY <2>1, <2>3 DEF Unpriced
      <4>2. CASE Rule(rows[s].state) = "zero"
        BY <4>1, <4>2 DEF Profits
      <4>3. CASE Rule(rows[s].state) # "zero" /\ samples # {}
        <5>1. PICK p : profit[s] = [rule |-> Rule(rows[s].state), at |-> p]
          BY <4>1, <4>3, Zenon DEF Profits
        <5> QED BY <4>1, <5>1
      <4>4. CASE Rule(rows[s].state) # "zero" /\ samples = {}
        BY <4>1, <4>4 DEF Profits
      <4> QED BY <4>2, <4>3, <4>4
    <3>3. rows[s].profit = Null /\ rows[s] # Null
      BY <2>3 DEF Unpriced
    <3> QED BY <2>2, <3>1, <3>2, <3>3 DEF MirrorInv, RowHolds, ProfitHolds
  <2> QED BY <2>1, <2>2, <2>3 DEF MirrorInv, RowHolds, ProfitHolds
<1>6. CASE SyncFails \/ Restart
  BY <1>6 DEF SyncFails, Restart, MirrorInv, EntriesHold, RowHolds, ProfitHolds
<1>7. CASE Tick
  <2>1. now' \in Times
    BY <1>7 DEF Tick, MirrorInv, Times, HOUR
  <2> QED BY <1>7, <2>1 DEF Tick, MirrorInv, EntriesHold, RowHolds, ProfitHolds
<1>8. CASE Sample \/ BackfillStart \/ BackfillFetch \/ BackfillInsert
             \/ BackfillFails \/ UNCHANGED vars
  BY <1>8 DEF Sample, BackfillStart, BackfillFetch, BackfillInsert, BackfillFails,
              vars, MirrorInv, EntriesHold, RowHolds, ProfitHolds
<1> QED
  BY <1>1, <1>2, <1>3, <1>4, <1>5, <1>6, <1>7, <1>8 DEF Next, SyncStep

\* Every stored profit belongs to a swap that has ended and follows the rule
\* of its outcome, for any swaps, prices, failures and restarts.
THEOREM StoredProfitsMatchOutcomes == Spec => []ProfitMatchesOutcome
<1>1. MirrorInv => ProfitMatchesOutcome
  BY DEF MirrorInv, ProfitHolds, ProfitMatchesOutcome, Mirrored
<1> QED BY <1>1, MirrorInvInit, MirrorInvStep, PTL DEF Spec

-----------------------------------------------------------------------------
(* Which prices a profit uses, when the console samples every hour from the *)
(* first one on.                                                            *)

\* Every hour gone by has its sample, and there is none of the future.
SamplesHold ==
  /\ samples \subseteq 0 .. now
  /\ backfill.candles \subseteq 0 .. now
  /\ \A t \in Times : t < now => t \in samples

\* The start of a swap is the same wherever it is known.
StartsAgree ==
  \A s \in Swaps :
    /\ asb[s] # Null => asb[s].started <= now
    /\ s \in DOMAIN sync.entries => asb[s] # Null /\ sync.entries[s].started = asb[s].started
    /\ rows[s] # Null => asb[s] # Null
    /\ rows[s] # Null /\ s \notin Undated => rows[s].completed_at \in {Null, asb[s].started}

RowShape ==
  \A s \in Swaps : rows[s] # Null =>
    rows[s] = [state |-> rows[s].state, started |-> rows[s].started,
               profit |-> rows[s].profit, completed_at |-> rows[s].completed_at]

\* A swap with a profit was completed, is read as ended ever after, and its
\* profit uses a price of its hour.
PricedNear(s) ==
  rows[s] # Null /\ rows[s].profit # Null =>
    /\ rows[s].completed_at = asb[s].started
    /\ s \in DOMAIN sync.entries => sync.entries[s].state \in Outcomes
    /\ rows[s].profit.at # Null => Distance(rows[s].profit.at, asb[s].started) <= HOUR

PriceInv ==
  MirrorInv /\ SamplesHold /\ RowShape /\ StartsAgree /\ \A s \in Swaps \ Undated : PricedNear(s)

\* The sample nearest to a time that has come is at most an hour away from it.
LEMMA NearestIsNear ==
  ASSUME SamplesHold, now \in Times, NEW t \in Times, t <= now, NEW p \in Nearest(t)
  PROVE  Distance(p, t) <= HOUR
<1>1. p \in samples /\ p \in 0 .. now /\ \A q \in samples : Distance(p, t) <= Distance(q, t)
  BY DEF Nearest, SamplesHold
<1>2. CASE t < now
  <2>1. Distance(p, t) <= Distance(t, t)
    BY <1>1, <1>2 DEF SamplesHold
  <2> QED BY <1>1, <2>1 DEF Distance, Times, HOUR
<1>3. CASE t = now /\ now >= 2
  <2>1. now - 2 \in Times
    BY <1>3, SwapMirrorAssumption DEF Times
  <2>2. Distance(p, t) <= Distance(now - 2, t)
    BY <1>1, <1>3, <2>1 DEF SamplesHold, Times
  <2> QED BY <1>1, <1>3, <2>1, <2>2 DEF Distance, Times, HOUR
<1>4. CASE t = now /\ now < 2
  BY <1>1, <1>4 DEF Distance, Times, HOUR
<1> QED BY <1>2, <1>3, <1>4 DEF Times

\* A console that starts at the first hour finds no swap.
LEMMA PriceInvInit == ASSUME FirstNow = 1, Init PROVE PriceInv
<1> USE SwapMirrorAssumption
<1>1. MirrorInv
  BY MirrorInvInit
<1>2. SamplesHold
  BY DEF Init, SamplesHold, Times
<1>3. \A s \in Swaps : asb[s] = Null /\ rows[s] = Null /\ s \notin DOMAIN sync.entries
  BY DEF Init, Entry, Times
<1> QED BY <1>1, <1>2, <1>3 DEF PriceInv, RowShape, StartsAgree, PricedNear

\* Samples are only added, one an hour at least.
LEMMA SamplesStep ==
  ASSUME Sampled, PriceInv, [Next]_vars PROVE SamplesHold'
<1> USE SwapMirrorAssumption
<1>1. SamplesHold /\ now \in Times
  BY DEF PriceInv, MirrorInv
<1>2. CASE Tick
  BY <1>1, <1>2 DEF Tick, SamplesHold, Times, HOUR
<1>3. CASE Sample
  BY <1>1, <1>3 DEF Sample, SamplesHold, Times
<1>4. CASE BackfillStart
  <2>1. backfill'.candles = backfill.candles \/ backfill'.candles = {}
    BY <1>4 DEF BackfillStart
  <2> QED BY <1>1, <1>4, <2>1 DEF BackfillStart, SamplesHold
<1>5. CASE BackfillFetch
  BY <1>1, <1>5 DEF BackfillFetch, SamplesHold, FullHours, Times
<1>6. CASE BackfillInsert
  BY <1>1, <1>6 DEF BackfillInsert, BackfillEnds, SamplesHold
<1>7. CASE BackfillFails
  BY <1>1, <1>7 DEF BackfillFails, BackfillEnds, SamplesHold
<1>8. CASE Restart
  BY <1>1, <1>8 DEF Restart, SamplesHold
<1>9. CASE SyncStep \/ SyncFails \/ (\E s \in Swaps : SwapStarts(s) \/ SwapEnds(s))
             \/ UNCHANGED vars
  BY <1>1, <1>9
     DEF SyncStep, SyncFetch, Upsert, Store, SyncPrice, SyncFails, SwapStarts, SwapEnds,
         vars, SamplesHold
<1> QED
  BY <1>2, <1>3, <1>4, <1>5, <1>6, <1>7, <1>8, <1>9 DEF Next

\* Every row keeps its shape.
LEMMA ShapeStep == ASSUME PriceInv, [Next]_vars PROVE RowShape'
<1>1. RowShape /\ rows = [s \in Swaps |-> rows[s]]
  BY DEF PriceInv, MirrorInv
<1>2. ASSUME NEW s \in Swaps, Upsert(s) PROVE RowShape'
  <2>1. rows' = [rows EXCEPT ![s] = RowOf(s)]
    BY <1>2 DEF Upsert, Store
  <2>2. \A t \in Swaps : rows'[t] = rows[t] \/ rows'[t] = RowOf(s)
    BY <1>1, <2>1
  <2>3. RowOf(s) = [state |-> RowOf(s).state, started |-> RowOf(s).started,
                    profit |-> RowOf(s).profit, completed_at |-> RowOf(s).completed_at]
    BY DEF RowOf
  <2> QED BY <1>1, <2>2, <2>3 DEF RowShape
<1>3. CASE SyncPrice
  <2>1. PICK profit :
          rows' = [t \in Swaps |->
                     IF t \in Unpriced THEN [rows[t] EXCEPT !.profit = profit[t]]
                     ELSE rows[t]]
    BY <1>3 DEF SyncPrice
  <2> SUFFICES ASSUME NEW t \in Swaps, rows'[t] # Null
               PROVE  rows'[t] = [state |-> rows'[t].state, started |-> rows'[t].started,
                                  profit |-> rows'[t].profit,
                                  completed_at |-> rows'[t].completed_at]
    BY DEF RowShape
  <2>2. CASE t \in Unpriced
    <3>1. rows[t] # Null
      BY <2>2 DEF Unpriced
    <3>2. rows'[t] = [rows[t] EXCEPT !.profit = profit[t]]
      BY <2>1, <2>2
    <3> QED BY <1>1, <3>1, <3>2 DEF RowShape
  <2>3. CASE t \notin Unpriced
    BY <1>1, <2>1, <2>3 DEF RowShape
  <2> QED BY <2>2, <2>3
<1>4. CASE rows' = rows
  BY <1>1, <1>4 DEF RowShape
<1> QED
  BY <1>2, <1>3, <1>4
     DEF Next, SyncStep, SwapStarts, SwapEnds, SyncFetch, Tick, Sample, BackfillStart,
         BackfillFetch, BackfillInsert, SyncFails, BackfillFails, Restart, vars

\* What was read of a swap's start stays what asb says of it.
LEMMA StartsStep == ASSUME PriceInv, [Next]_vars PROVE StartsAgree'
<1> USE SwapMirrorAssumption
<1>1. MirrorInv /\ StartsAgree /\ RowShape
  BY DEF PriceInv
<1>2. ASSUME NEW s \in Swaps, SwapStarts(s) PROVE StartsAgree'
  <2>1. /\ asb[s] = Null /\ UNCHANGED <<now, rows, sync>>
        /\ asb' = [asb EXCEPT ![s] = [state |-> "active", started |-> now]]
    BY <1>2 DEF SwapStarts
  <2>2. asb'[s].started = now /\ now <= now /\ \A t \in Swaps \ {s} : asb'[t] = asb[t]
    BY <1>1, <2>1 DEF MirrorInv, Times
  <2> QED BY <1>1, <2>1, <2>2 DEF StartsAgree
<1>3. ASSUME NEW s \in Swaps, SwapEnds(s) PROVE StartsAgree'
  <2>1. PICK outcome \in Outcomes : asb' = [asb EXCEPT ![s].state = outcome]
    BY <1>3 DEF SwapEnds
  <2>2. asb[s] # Null /\ asb[s] \in Entry /\ UNCHANGED <<now, rows, sync>>
    BY <1>1, <1>3 DEF SwapEnds, MirrorInv
  <2>3. /\ asb'[s] = [asb[s] EXCEPT !.state = outcome]
        /\ \A t \in Swaps \ {s} : asb'[t] = asb[t]
    BY <1>1, <2>1 DEF MirrorInv
  <2>4. asb'[s] \in Entry /\ asb'[s].started = asb[s].started
    BY <2>2, <2>3 DEF Entry
  <2> QED BY <1>1, <2>2, <2>3, <2>4 DEF StartsAgree
<1>4. CASE SyncFetch
  BY <1>1, <1>4 DEF SyncFetch, StartsAgree
<1>5. ASSUME NEW s \in Swaps, Upsert(s) PROVE StartsAgree'
  <2> DEFINE e == sync.entries[s]
             row == RowOf(s)
  <2>1. /\ s \in DOMAIN sync.entries /\ rows' = [rows EXCEPT ![s] = row]
        /\ sync'.entries = Remaining(s) /\ asb' = asb /\ now' = now
    BY <1>5 DEF Upsert, Store
  <2>2. /\ s \notin Undated => row.completed_at \in {Null, asb[s].started}
        /\ asb[s] # Null
    BY <1>1, <2>1 DEF StartsAgree, RowOf, Started
  <2>3. \A t \in DOMAIN sync'.entries :
          t \in DOMAIN sync.entries /\ sync'.entries[t] = sync.entries[t]
    BY <2>1 DEF Remaining
  <2> HIDE DEF e, row
  <2>4. rows'[s] = row /\ \A t \in Swaps \ {s} : rows'[t] = rows[t]
    BY <1>1, <2>1 DEF MirrorInv
  <2> QED BY <1>1, <2>1, <2>2, <2>3, <2>4 DEF StartsAgree
<1>6. CASE SyncPrice
  <2>1. PICK profit :
          rows' = [s \in Swaps |->
                     IF s \in Unpriced THEN [rows[s] EXCEPT !.profit = profit[s]]
                     ELSE rows[s]]
    BY <1>6 DEF SyncPrice
  <2>2. UNCHANGED <<now, asb>>
    BY <1>6 DEF SyncPrice
  <2>3. ASSUME NEW s \in Swaps, rows'[s] # Null
        PROVE  rows[s] # Null /\ rows'[s].completed_at = rows[s].completed_at
    <3>1. CASE s \in Unpriced
      <4>1. rows'[s] = [rows[s] EXCEPT !.profit = profit[s]] /\ rows[s] # Null
        BY <2>1, <3>1 DEF Unpriced
      <4> QED BY <1>1, <4>1 DEF RowShape
    <3>2. CASE s \notin Unpriced
      BY <2>1, <2>3, <3>2
    <3> QED BY <3>1, <3>2
  <2>4. DOMAIN sync'.entries = {}
    BY <1>6 DEF SyncPrice
  <2> QED BY <1>1, <2>2, <2>3, <2>4 DEF StartsAgree
<1>7. CASE SyncFails \/ Restart
  <2>1. UNCHANGED <<now, asb, rows>> /\ DOMAIN sync'.entries = {}
    BY <1>7 DEF SyncFails, Restart
  <2> QED BY <1>1, <2>1 DEF StartsAgree
<1>8. CASE Tick
  <2>1. UNCHANGED <<asb, rows, sync>> /\ now <= now'
    BY <1>1, <1>8 DEF Tick, MirrorInv, Times, HOUR
  <2>2. \A s \in Swaps : asb[s] # Null => asb[s].started <= now'
    BY <1>1, <1>8 DEF Tick, MirrorInv, StartsAgree, Entry, Times, HOUR
  <2> QED BY <1>1, <2>1, <2>2 DEF StartsAgree
<1>9. CASE Sample \/ BackfillStart \/ BackfillFetch \/ BackfillInsert
             \/ BackfillFails \/ UNCHANGED vars
  BY <1>1, <1>9 DEF Sample, BackfillStart, BackfillFetch, BackfillInsert, BackfillFails,
                    vars, StartsAgree
<1> QED
  BY <1>2, <1>3, <1>4, <1>5, <1>6, <1>7, <1>8, <1>9 DEF Next, SyncStep

\* A price is taken from a sample within the hour.
LEMMA PricedStep ==
  ASSUME PriceInv, [Next]_vars, NEW s \in Swaps \ Undated PROVE PricedNear(s)'
<1> USE SwapMirrorAssumption
<1>1. MirrorInv /\ StartsAgree /\ SamplesHold /\ RowShape /\ PricedNear(s)
  BY DEF PriceInv
<1>2. ASSUME NEW t \in Swaps, SwapStarts(t) PROVE PricedNear(s)'
  <2>1. /\ asb[t] = Null /\ UNCHANGED <<rows, sync>>
        /\ asb' = [asb EXCEPT ![t] = [state |-> "active", started |-> now]]
    BY <1>2 DEF SwapStarts
  <2>2. rows[s] # Null => asb'[s] = asb[s]
    BY <1>1, <2>1 DEF StartsAgree, MirrorInv
  <2> QED BY <1>1, <2>1, <2>2 DEF PricedNear
<1>3. ASSUME NEW t \in Swaps, SwapEnds(t) PROVE PricedNear(s)'
  <2>1. PICK outcome \in Outcomes : asb' = [asb EXCEPT ![t].state = outcome]
    BY <1>3 DEF SwapEnds
  <2>2. asb[t] # Null /\ asb[t] \in Entry /\ UNCHANGED <<rows, sync>>
    BY <1>1, <1>3 DEF SwapEnds, MirrorInv
  <2>3. asb'[t] = [asb[t] EXCEPT !.state = outcome] /\ (s # t => asb'[s] = asb[s])
    BY <1>1, <2>1 DEF MirrorInv
  <2>4. asb'[t].started = asb[t].started
    BY <2>2, <2>3 DEF Entry
  <2> QED BY <1>1, <2>2, <2>3, <2>4 DEF PricedNear
<1>4. CASE SyncFetch
  <2>1. UNCHANGED <<asb, rows>> /\ (s \in DOMAIN sync'.entries => sync'.entries[s] = asb[s])
    BY <1>4 DEF SyncFetch
  <2>2. rows[s] # Null /\ rows[s].profit # Null => asb[s].state \in Outcomes
    BY <1>1 DEF MirrorInv, ProfitHolds
  <2> QED BY <1>1, <2>1, <2>2 DEF PricedNear
<1>5. ASSUME NEW t \in Swaps, Upsert(t) PROVE PricedNear(s)'
  <2> DEFINE e == sync.entries[t]
             row == RowOf(t)
  <2>1. /\ t \in DOMAIN sync.entries /\ rows' = [rows EXCEPT ![t] = row]
        /\ sync'.entries = Remaining(t) /\ asb' = asb
    BY <1>5 DEF Upsert, Store
  <2>2. /\ row.profit # Null => rows[t] # Null /\ row.profit = rows[t].profit
        /\ e.state \in Outcomes /\ t \notin Undated => row.completed_at = asb[t].started
    BY <1>1, <2>1 DEF StartsAgree, RowOf, Known, Started
  <2>3. s \in DOMAIN sync'.entries =>
          s \in DOMAIN sync.entries /\ sync'.entries[s] = sync.entries[s] /\ s # t
    BY <2>1 DEF Remaining
  <2>4. CASE s = t
    <3>1. rows'[s] = row
      BY <1>1, <2>1, <2>4 DEF MirrorInv
    <3> HIDE DEF row
    <3> QED BY <1>1, <2>1, <2>2, <2>3, <2>4, <3>1 DEF PricedNear
  <2>5. CASE s # t
    <3>1. rows'[s] = rows[s]
      BY <1>1, <2>1, <2>5 DEF MirrorInv
    <3> QED BY <1>1, <2>1, <2>3, <3>1 DEF PricedNear
  <2> QED BY <2>4, <2>5
<1>6. CASE SyncPrice
  <2>1. PICK profit :
          /\ \A t \in Unpriced : profit[t] \in Profits(rows[t])
          /\ rows' = [t \in Swaps |->
                        IF t \in Unpriced THEN [rows[t] EXCEPT !.profit = profit[t]]
                        ELSE rows[t]]
    BY <1>6 DEF SyncPrice
  <2>2. asb' = asb /\ DOMAIN sync'.entries = {}
    BY <1>6 DEF SyncPrice
  <2>3. CASE s \in Unpriced
    <3>1. rows'[s] = [rows[s] EXCEPT !.profit = profit[s]] /\ profit[s] \in Profits(rows[s])
      BY <2>1, <2>3
    <3>2. /\ rows[s].completed_at = asb[s].started /\ asb[s] \in Entry
          /\ asb[s].started \in Times /\ asb[s].started <= now /\ now \in Times
      BY <1>1, <2>3 DEF Unpriced, StartsAgree, MirrorInv, Entry
    <3>3. profit[s] # Null /\ profit[s].at # Null => profit[s].at \in Nearest(asb[s].started)
      <4>1. CASE Rule(rows[s].state) = "zero"
        BY <3>1, <4>1 DEF Profits
      <4>2. CASE Rule(rows[s].state) # "zero" /\ samples # {}
        <5>1. PICK p \in Nearest(rows[s].completed_at) :
                profit[s] = [rule |-> Rule(rows[s].state), at |-> p]
          BY <3>1, <4>2, Zenon DEF Profits
        <5>2. profit[s].at = p
          BY <5>1
        <5> QED BY <3>2, <5>1, <5>2
      <4>3. CASE Rule(rows[s].state) # "zero" /\ samples = {}
        BY <3>1, <4>3 DEF Profits
      <4> QED BY <4>1, <4>2, <4>3
    <3>4. profit[s] # Null /\ profit[s].at # Null => Distance(profit[s].at, asb[s].started) <= HOUR
      BY <1>1, <3>2, <3>3, NearestIsNear
    <3>5. rows'[s].profit = profit[s] /\ rows'[s].completed_at = rows[s].completed_at
      BY <1>1, <2>3, <3>1 DEF RowShape, Unpriced
    <3> QED BY <2>2, <3>2, <3>4, <3>5 DEF PricedNear
  <2>4. CASE s \notin Unpriced
    <3>1. rows'[s] = rows[s]
      BY <2>1, <2>4
    <3> QED BY <1>1, <2>2, <3>1 DEF PricedNear
  <2> QED BY <2>3, <2>4
<1>7. CASE SyncFails \/ Restart
  <2>1. UNCHANGED <<asb, rows>> /\ DOMAIN sync'.entries = {}
    BY <1>7 DEF SyncFails, Restart
  <2> QED BY <1>1, <2>1 DEF PricedNear
<1>8. CASE Tick \/ Sample \/ BackfillStart \/ BackfillFetch \/ BackfillInsert
             \/ BackfillFails \/ UNCHANGED vars
  BY <1>1, <1>8 DEF Tick, Sample, BackfillStart, BackfillFetch, BackfillInsert,
                    BackfillFails, vars, PricedNear
<1> QED
  BY <1>2, <1>3, <1>4, <1>5, <1>6, <1>7, <1>8 DEF Next, SyncStep

\* A console that samples every hour from the first one on stores no profit from
\* prices more than an hour away from the time taken as the completion, for any
\* dated swaps of any length, failures and restarts, and whatever is backfilled beside
\* (swap_sync.rs:79-117).
THEOREM ProfitsArePricedNear ==
  ASSUME Sampled, FirstNow = 1 PROVE Spec => []PricedWithinTheHour
<1>1. PriceInv => PricedWithinTheHour
  BY DEF PriceInv, PricedNear, PricedWithinTheHour, Mirrored
<1>2. Init => PriceInv
  BY PriceInvInit
<1>3. PriceInv /\ [Next]_vars => PriceInv'
  BY MirrorInvStep, SamplesStep, ShapeStep, StartsStep, PricedStep DEF PriceInv
<1> QED BY <1>1, <1>2, <1>3, PTL DEF Spec

-----------------------------------------------------------------------------
(* Ended swaps are booked                                                  *)

\* Rows, profits and samples are of their kinds.
BookInv ==
  /\ MirrorInv
  /\ samples \subseteq Nat /\ backfill.candles \subseteq Nat
  /\ \A s \in Swaps : rows[s] # Null => rows[s] \in Row
  /\ sync.pc \in {"idle", "upsert", "price"}
  /\ faults \in Nat

\* What a row is worth is a profit, and one as soon as there is a sample.
LEMMA ProfitsKnown ==
  ASSUME BookInv, NEW s \in Unpriced, NEW p \in Profits(rows[s])
  PROVE  p \in Profit \cup {Null} /\ (samples # {} => p # Null)
<1> USE SwapMirrorAssumption
<1>1. Rule(rows[s].state) \in {"btc_less_xmr", "btc", "zero"}
  BY DEF Rule
<1>2. CASE Rule(rows[s].state) = "zero"
  <2>1. p = [rule |-> "zero", at |-> Null]
    BY <1>2 DEF Profits
  <2> QED BY <2>1 DEF Profit
<1>3. CASE Rule(rows[s].state) # "zero" /\ samples # {}
  <2>1. PICK at \in Nearest(rows[s].completed_at) :
          p = [rule |-> Rule(rows[s].state), at |-> at]
    BY <1>3, Zenon DEF Profits
  <2>2. at \in Nat
    BY <2>1 DEF Nearest, BookInv
  <2> QED BY <1>1, <2>1, <2>2 DEF Profit
<1>4. CASE Rule(rows[s].state) # "zero" /\ samples = {}
  BY <1>4 DEF Profits
<1> QED BY <1>2, <1>3, <1>4

\* The row that an entry makes is one, complete if the entry's swap has ended.
LEMMA RowOfKnown ==
  ASSUME BookInv, NEW s \in Swaps, Upsert(s)
  PROVE  /\ rows'[s] \in Row /\ rows'[s] # Null
         /\ sync.entries[s].state \in Outcomes => rows'[s].completed_at # Null
         /\ \A t \in Swaps \ {s} : rows'[t] = rows[t]
         /\ sync'.entries = Remaining(s)
<1> USE SwapMirrorAssumption
<1>1. /\ rows = [t \in Swaps |-> rows[t]] /\ rows' = [rows EXCEPT ![s] = RowOf(s)]
      /\ sync.entries[s] \in Entry /\ sync'.entries = Remaining(s) /\ now \in Times
  BY DEF BookInv, MirrorInv, EntriesHold, Upsert, Store
<1>2. rows[s] # Null => rows[s].profit \in Profit \cup {Null} /\ rows[s].started \in Times
  BY DEF BookInv, Row
<1>3. Started(s) \in Times
  BY <1>1 DEF Started, Entry
<1>4. /\ RowOf(s) \in Row
      /\ sync.entries[s].state \in Outcomes => RowOf(s).completed_at = Started(s)
  BY <1>1, <1>2, <1>3 DEF RowOf, Known, Row, Entry
<1>5. Started(s) \in Int
  BY <1>3 DEF Times
<1> QED BY <1>1, <1>4, <1>5

\* What the pricing stores are rows, and with a sample every complete row gets a
\* profit.
LEMMA PriceKnown ==
  ASSUME BookInv, SyncPrice, NEW s \in Swaps, rows[s] # Null
  PROVE  /\ rows'[s] \in Row /\ rows'[s] # Null
         /\ rows[s].completed_at # Null /\ samples # {} => rows'[s].profit # Null
<1> USE SwapMirrorAssumption
<1>1. PICK profit :
        /\ \A t \in Unpriced : profit[t] \in Profits(rows[t])
        /\ rows' = [t \in Swaps |->
                      IF t \in Unpriced THEN [rows[t] EXCEPT !.profit = profit[t]]
                      ELSE rows[t]]
  BY DEF SyncPrice
<1>2. rows[s] \in Row
  BY DEF BookInv
<1>3. CASE s \in Unpriced
  <2>1. profit[s] \in Profit \cup {Null} /\ (samples # {} => profit[s] # Null)
    BY <1>1, <1>3, ProfitsKnown
  <2>2. rows'[s] = [rows[s] EXCEPT !.profit = profit[s]]
    BY <1>1, <1>3
  <2>3. rows'[s] \in Row /\ rows'[s].profit = profit[s]
    BY <1>2, <2>1, <2>2 DEF Row
  <2> QED BY <2>1, <2>3
<1>4. CASE s \notin Unpriced
  BY <1>1, <1>2, <1>4 DEF Unpriced
<1> QED BY <1>3, <1>4

\* Every step keeps them so.
LEMMA BookInvStep == BookInv /\ [Next]_vars => BookInv'
<1> SUFFICES ASSUME BookInv, [Next]_vars PROVE BookInv'
  OBVIOUS
<1> USE SwapMirrorAssumption
<1>1. /\ MirrorInv /\ samples \subseteq Nat /\ backfill.candles \subseteq Nat
      /\ \A s \in Swaps : rows[s] # Null => rows[s] \in Row
      /\ sync.pc \in {"idle", "upsert", "price"} /\ faults \in Nat
  BY DEF BookInv
<1>2. MirrorInv'
  BY <1>1, MirrorInvStep
<1>3. ASSUME NEW s \in Swaps, Upsert(s) PROVE BookInv'
  <2>1. /\ UNCHANGED <<samples, backfill, faults>>
        /\ sync'.pc \in {"idle", "upsert", "price"}
    BY <1>3 DEF Upsert, Store
  <2>2. \A t \in Swaps : rows'[t] # Null => rows'[t] \in Row
    BY <1>1, <1>3, RowOfKnown
  <2> QED BY <1>1, <1>2, <2>1, <2>2 DEF BookInv
<1>4. CASE SyncPrice
  <2>1. /\ UNCHANGED <<samples, backfill, faults>>
        /\ sync'.pc \in {"idle", "upsert", "price"}
    BY <1>4 DEF SyncPrice
  <2>2. ASSUME NEW t \in Swaps, rows'[t] # Null PROVE rows'[t] \in Row
    <3>1. rows[t] = Null => rows'[t] = rows[t]
      BY <1>4 DEF SyncPrice, Unpriced
    <3> QED BY <1>4, <2>2, <3>1, PriceKnown
  <2> QED BY <1>1, <1>2, <2>1, <2>2 DEF BookInv
<1>5. CASE SyncFetch \/ SyncFails \/ Restart
  <2>1. UNCHANGED <<rows, samples>> /\ sync'.pc \in {"idle", "upsert", "price"}
    BY <1>5 DEF SyncFetch, SyncFails, Restart
  <2>2. backfill'.candles \in {backfill.candles, {}} /\ faults' \in {faults, faults + 1}
    BY <1>5 DEF SyncFetch, SyncFails, Restart
  <2> QED BY <1>1, <1>2, <2>1, <2>2 DEF BookInv
<1>6. CASE Tick \/ Sample \/ (\E s \in Swaps : SwapStarts(s) \/ SwapEnds(s)) \/ UNCHANGED vars
  <2>1. now \in Nat
    BY <1>1 DEF MirrorInv, Times
  <2> QED BY <1>1, <1>2, <1>6, <2>1 DEF Tick, Sample, SwapStarts, SwapEnds, vars, BookInv
<1>7. CASE BackfillStart
  <2>1. backfill'.candles \in {backfill.candles, {}} /\ faults' \in {faults, faults + 1}
    BY <1>1, <1>7 DEF BackfillStart
  <2> QED BY <1>1, <1>2, <1>7, <2>1 DEF BackfillStart, BookInv
<1>8. CASE BackfillFetch
  <2>1. backfill'.candles \subseteq Nat
    BY <1>8 DEF BackfillFetch, FullHours
  <2> QED BY <1>1, <1>2, <1>8, <2>1 DEF BackfillFetch, BookInv
<1>9. CASE BackfillInsert \/ BackfillFails
  <2>1. /\ UNCHANGED <<rows, sync>> /\ backfill'.candles = {}
        /\ samples' \subseteq samples \cup backfill.candles
        /\ faults' \in {faults, faults + 1}
    BY <1>9 DEF BackfillInsert, BackfillFails, BackfillEnds
  <2> QED BY <1>1, <1>2, <2>1 DEF BookInv
<1> QED BY <1>3, <1>4, <1>5, <1>6, <1>7, <1>8, <1>9 DEF Next, SyncStep

\* The sync can go on when it prices, and when it is to fetch what asb has; the
\* live poller can when the hour lacks its sample.
SyncGoesOn ==
  /\ sync.pc = "price" \/ (sync.pc = "idle" /\ \E s \in Swaps : asb[s] # Null) =>
       ENABLED <<SyncStep>>_vars
  /\ now \notin samples => ENABLED <<Sample>>_vars

SyncAt(pc) == sync.pc = pc

\* A cycle gets through the entries that it has fetched.
CyclesEnd == SyncAt("upsert") ~> ~SyncAt("upsert")

\* From some time on nothing fails and the console does not restart.
FaultsStop == <>[][FALSE]_faults

Over(s) == asb[s] # Null /\ asb[s].state \in Outcomes

\* The swap's end is to be stored in this cycle; it is stored and will be priced.
Queued(s) ==
  sync.pc = "upsert" /\ s \in DOMAIN sync.entries /\ sync.entries[s].state \in Outcomes
Stored(s) ==
  /\ sync.pc \in {"upsert", "price"} /\ s \notin DOMAIN sync.entries
  /\ rows[s] # Null /\ rows[s].completed_at # Null
Booked(s) == rows[s] # Null /\ rows[s].profit # Null

Priceable == samples # {}

\* A cycle that nothing interrupts fetches, stores and prices in this order.
LEMMA CycleInOrder ==
  ASSUME BookInv, [Next]_vars, [FALSE]_faults
  PROVE  /\ SyncAt("upsert") => SyncAt("upsert")' \/ SyncAt("price")'
         /\ SyncAt("price") => SyncAt("price")' \/ SyncAt("idle")'
         /\ Priceable => Priceable'
<1>1. faults' = faults /\ faults \in Nat
  BY DEF BookInv
<1>2. ~SyncFails /\ ~BackfillFails /\ ~Restart
  BY <1>1 DEF SyncFails, BackfillFails, Restart
<1> QED BY <1>2 DEF Next, SyncStep, SyncFetch, Upsert, Store, SyncPrice, Tick, Sample,
                    SwapStarts, SwapEnds, BackfillStart, BackfillFetch, BackfillInsert,
                    BackfillEnds, vars, SyncAt, Priceable

\* It takes the ended swap s along.
LEMMA SwapGoesAlong ==
  ASSUME BookInv, [Next]_vars, [FALSE]_faults, NEW s \in Swaps, Over(s)
  PROVE  /\ Over(s)'
         /\ SyncAt("idle") => SyncAt("idle")' \/ Queued(s)'
         /\ Queued(s) => Queued(s)' \/ Stored(s)'
         /\ Stored(s) /\ Priceable => Stored(s)' \/ Booked(s)'
<1>1. /\ faults' = faults /\ faults \in Nat /\ MirrorInv
      /\ rows = [t \in Swaps |-> rows[t]]
      /\ asb \in [Swaps -> Entry \cup {Null}]
  BY DEF BookInv, MirrorInv
<1>2. ~SyncFails /\ ~BackfillFails /\ ~Restart
  BY <1>1 DEF SyncFails, BackfillFails, Restart
<1> USE DEF SyncAt, Queued, Stored, Booked, Over
<1>3. ASSUME UNCHANGED <<asb, rows, sync>>
      PROVE  /\ Over(s)' /\ (SyncAt("idle") => SyncAt("idle")')
             /\ (Queued(s) => Queued(s)') /\ (Stored(s) => Stored(s)')
  BY <1>3
<1>4. CASE \E t \in Swaps : SwapStarts(t) \/ SwapEnds(t)
  <2>1. PICK t \in Swaps : SwapStarts(t) \/ SwapEnds(t)
    BY <1>4
  <2>2. t # s
    BY <2>1 DEF SwapStarts, SwapEnds, Outcomes
  <2>3. asb'[s] = asb[s] /\ UNCHANGED <<rows, sync>>
    BY <1>1, <2>1, <2>2 DEF SwapStarts, SwapEnds
  <2> QED BY <2>3
<1>5. CASE SyncFetch
  BY <1>5 DEF SyncFetch
<1>6. ASSUME NEW t \in Swaps, Upsert(t)
      PROVE  /\ Over(s)'
             /\ SyncAt("upsert")
             /\ Queued(s) => Queued(s)' \/ Stored(s)'
             /\ Stored(s) => Stored(s)'
  <2>1. /\ asb' = asb /\ sync.pc = "upsert" /\ t \in DOMAIN sync.entries
        /\ sync'.pc = IF DOMAIN sync.entries = {t} THEN "price" ELSE "upsert"
    BY <1>6 DEF Upsert, Store
  <2>2. /\ DOMAIN sync'.entries = DOMAIN sync.entries \ {t}
        /\ \A u \in DOMAIN sync.entries \ {t} : sync'.entries[u] = sync.entries[u]
    BY <1>6, RowOfKnown DEF Remaining
  <2>3. CASE s = t
    BY <1>6, <2>1, <2>2, <2>3, RowOfKnown
  <2>4. CASE s # t
    <3>1. rows'[s] = rows[s]
      BY <1>6, <2>4, RowOfKnown
    <3> QED BY <2>1, <2>2, <2>4, <3>1
  <2> QED BY <2>3, <2>4
<1>7. CASE SyncPrice
  <2>1. asb' = asb /\ sync.pc = "price"
    BY <1>7 DEF SyncPrice
  <2>2. Stored(s) /\ Priceable => Booked(s)'
    BY <1>7, PriceKnown DEF Priceable
  <2> QED BY <2>1, <2>2
<1>8. Tick \/ Sample \/ BackfillStart \/ BackfillFetch \/ BackfillInsert \/ UNCHANGED vars
      => UNCHANGED <<asb, rows, sync>>
  BY DEF Tick, Sample, BackfillStart, BackfillFetch, BackfillInsert, vars
<1> HIDE DEF SyncAt, Queued, Stored, Booked, Over
<1>9. SyncAt("upsert") => ~SyncAt("idle")
  BY DEF SyncAt
<1> QED BY <1>2, <1>3, <1>4, <1>5, <1>6, <1>7, <1>8, <1>9 DEF Next, SyncStep

\* A step of the sync ends the fetching and the pricing, and a sample is one.
LEMMA SyncMoves ==
  /\ SyncStep => /\ SyncAt("idle") => ~SyncAt("idle")'
                 /\ SyncAt("price") => ~SyncAt("price")'
  /\ Sample => Priceable'
<1>1. SyncStep => /\ SyncAt("idle") => ~SyncAt("idle")'
                  /\ SyncAt("price") => ~SyncAt("price")'
  BY DEF SyncStep, SyncFetch, Upsert, Store, SyncPrice, SyncAt
<1>2. Sample => Priceable'
  BY DEF Sample, Priceable
<1> QED BY <1>1, <1>2

\* A swap that has ended is booked at some time.
LEMMA SwapIsBooked ==
  ASSUME NEW s \in Swaps
  PROVE  FairSpec /\ []SyncGoesOn /\ CyclesEnd /\ FaultsStop => (Over(s) ~> Booked(s))
<1>1. Init => BookInv
  <2>1. Init => /\ samples \subseteq Nat /\ backfill.candles \subseteq Nat
                /\ \A t \in Swaps : rows[t] # Null => rows[t] \in Row
                /\ sync.pc \in {"idle", "upsert", "price"} /\ faults \in Nat
    BY DEF Init
  <2> QED BY <2>1, MirrorInvInit DEF BookInv
<1>2. BookInv /\ [Next]_vars => BookInv'
  BY BookInvStep
<1>3. ASSUME BookInv, [Next]_vars, [FALSE]_faults
      PROVE  /\ SyncAt("upsert") => SyncAt("upsert")' \/ SyncAt("price")'
             /\ SyncAt("price") => SyncAt("price")' \/ SyncAt("idle")'
             /\ Priceable => Priceable'
  BY <1>3, CycleInOrder
<1>4. ASSUME BookInv, [Next]_vars, [FALSE]_faults, Over(s)
      PROVE  /\ Over(s)'
             /\ SyncAt("idle") => SyncAt("idle")' \/ Queued(s)'
             /\ Queued(s) => Queued(s)' \/ Stored(s)'
             /\ Stored(s) /\ Priceable => Stored(s)' \/ Booked(s)'
  BY <1>4, SwapGoesAlong
<1>5. ASSUME <<SyncStep>>_vars
      PROVE  /\ SyncAt("idle") => ~SyncAt("idle")'
             /\ SyncAt("price") => ~SyncAt("price")'
  BY <1>5, SyncMoves
<1>6. ASSUME <<Sample>>_vars PROVE Priceable'
  BY <1>6, SyncMoves
<1>7. BookInv => SyncAt("idle") \/ SyncAt("upsert") \/ SyncAt("price")
  BY DEF BookInv, SyncAt
<1>8. /\ Queued(s) => SyncAt("upsert")
      /\ Stored(s) => SyncAt("upsert") \/ SyncAt("price")
      /\ ~(SyncAt("price") /\ SyncAt("upsert")) /\ ~(SyncAt("idle") /\ SyncAt("upsert"))
      /\ ~(SyncAt("price") /\ SyncAt("idle"))
  BY DEF Queued, Stored, SyncAt
<1>9. SyncGoesOn =>
        /\ SyncAt("price") \/ (SyncAt("idle") /\ Over(s)) => ENABLED <<SyncStep>>_vars
        /\ ~Priceable => ENABLED <<Sample>>_vars
  BY DEF SyncGoesOn, SyncAt, Over, Priceable
<1>10. MirrorInv /\ Over(s) /\ [Next]_vars => Over(s)'
  <2> SUFFICES ASSUME MirrorInv, Over(s), [Next]_vars PROVE Over(s)'
    OBVIOUS
  <2>1. asb \in [Swaps -> Entry \cup {Null}]
    BY DEF MirrorInv
  <2>2. ASSUME NEW t \in Swaps, SwapStarts(t) \/ SwapEnds(t) PROVE asb'[s] = asb[s]
    <3>1. t # s
      BY <2>2 DEF SwapStarts, SwapEnds, Over, Outcomes
    <3> QED BY <2>1, <2>2, <3>1 DEF SwapStarts, SwapEnds
  <2>3. asb'[s] = asb[s]
    BY <2>2 DEF Next, SyncStep, SyncFetch, Upsert, Store, SyncPrice, Tick, Sample,
                BackfillStart, BackfillFetch, BackfillInsert, BackfillFails, SyncFails,
                Restart, vars
  <2> QED BY <2>3 DEF Over
<1>11. BookInv => MirrorInv
  BY DEF BookInv
<1> QED BY <1>1, <1>2, <1>3, <1>4, <1>5, <1>6, <1>7, <1>8, <1>9, <1>10, <1>11, PTL
        DEF FairSpec, Spec, CyclesEnd, FaultsStop

\* Every swap that ends is mirrored and gets its profit (swap_sync.rs:34-117),
\* whenever in a cycle it ends and whatever failed or restarted before, once
\* cycles get through and nothing fails any more.
THEOREM EndedSwapsGetProfits ==
  FairSpec /\ []SyncGoesOn /\ CyclesEnd /\ FaultsStop => EndedSwapsAreBooked
<1>1. ASSUME NEW s \in Swaps
      PROVE  FairSpec /\ []SyncGoesOn /\ CyclesEnd /\ FaultsStop =>
               ((asb[s] # Null /\ asb[s].state \in Outcomes)
                  ~> (rows[s] # Null /\ rows[s].profit # Null))
  <2>1. FairSpec /\ []SyncGoesOn /\ CyclesEnd /\ FaultsStop => (Over(s) ~> Booked(s))
    BY SwapIsBooked
  <2>2. /\ Over(s) <=> asb[s] # Null /\ asb[s].state \in Outcomes
        /\ Booked(s) <=> rows[s] # Null /\ rows[s].profit # Null
    BY DEF Over, Booked
  <2> QED BY <2>1, <2>2, PTL
<1> QED BY <1>1 DEF EndedSwapsAreBooked
=============================================================================
