------------------------------ MODULE Balances ------------------------------
(***************************************************************************)
(* The value history of the console: the live snapshots of what the        *)
(* operator owns (src/src/server/pollers/balance_snapshot.rs, with         *)
(* clients/kraken_private.rs) and the reconstruction of the time before    *)
(* them, by rewinding swaps and capital events from today's balances       *)
(* (pollers/snapshot_backfill.rs).                                         *)
(*                                                                         *)
(* Time advances by the hour and is odd; an even time is a full hour, at   *)
(* which only reconstructed rows lie.  A swap brings the wallet one        *)
(* bitcoin and costs two monero; other movements are of one coin or dollar.*)
(* asb, Kraken and the operator are external.  A transfer between the      *)
(* wallet and Kraken takes an hour or more to be confirmed.                *)
(***************************************************************************)
EXTENDS Integers, FiniteSets, FiniteSetsExt, Functions

CONSTANTS
  Swaps,
  Null,            \* no value
  FirstNow,        \* the time at which the console first starts
  MaxNow,          \* bound on time
  MoveKinds,       \* the movements other than swaps that happen
  MaxEvents,       \* bound on swaps, movements and steps at Kraken
  MaxFaults,       \* bound on faults and restarts
  Threshold,       \* ALREADY_BACKFILLED_THRESHOLD
  ChunkSize,       \* rows per insert of the reconstruction
  PriceHistories   \* the hourly prices that may be found

HOUR == 2

Times     == {t \in 0 .. MaxNow : t % 2 = 1}
FullHours == {t \in 0 .. MaxNow : t % 2 = 0}

Assets   == {"BTC", "XMR"}
Outcomes == {"redeemed", "refunded", "punished"}

Holdings == Assets \cup {"USD"}

\* What Kraken answers when it cannot be asked.
NoKraken == [BTC |-> 0, XMR |-> 0, USD |-> 0]

\* The steps of a recycle at Kraken (docs/RECYCLE.md) and what they change of
\* its account: bitcoin is credited and sold, monero is bought and sent.
StepGain ==
  [credit |-> [BTC |-> 1, USD |-> 0, XMR |-> 0], sell |-> [BTC |-> -1, USD |-> 1, XMR |-> 0],
   buy |-> [BTC |-> 0, USD |-> -1, XMR |-> 1], send |-> [BTC |-> 0, USD |-> 0, XMR |-> -1]]

\* A recycle takes bitcoin from the wallet and brings monero to it; dollars go
\* to Kraken.
MoveKind ==
  [asset : Holdings, direction : {"deposit", "withdraw"}, recycle : {FALSE}]
    \cup {[asset |-> "BTC", direction |-> "withdraw", recycle |-> TRUE],
          [asset |-> "XMR", direction |-> "deposit", recycle |-> TRUE]}

ASSUME BalancesAssumption ==
  /\ IsFiniteSet(Swaps)
  /\ FirstNow \in Times
  /\ MaxNow \in Nat /\ MaxEvents \in Nat /\ MaxFaults \in Nat
  /\ Threshold \in Nat /\ Threshold >= 2
  /\ ChunkSize \in Nat \ {0}
  /\ MoveKinds \subseteq MoveKind
  /\ PriceHistories \subseteq [FullHours -> {"whole", "void", "none"}]

VARIABLES
  now,
  asb,     \* asb's swaps: outcome, start and end (0 while active)
  moves,   \* other movements of the wallet, and of dollars to Kraken
  account, \* steps of recycles at Kraken
  swaps,   \* the swaps table, reduced to what is completed
  capital, \* capital_events: the movements that the operator entered
  rows,    \* balance_snapshots, by taken_at
  recon,   \* the reconstruction: where it is and its locals
  faults

vars == <<now, asb, moves, account, swaps, capital, rows, recon, faults>>

world == <<now, asb, moves, account, swaps, capital>>

-----------------------------------------------------------------------------
(* What the operator owns                                                  *)

Opening == 3

SwapGain(state, asset) ==
  IF state = "refunded" THEN 0 ELSE IF asset = "BTC" THEN 1 ELSE -2

MoveGain(m, asset) ==
  IF m.asset # asset THEN 0 ELSE IF m.direction = "deposit" THEN 1 ELSE -1

EndedBy(t) == {s \in Swaps : asb[s] # Null /\ asb[s].ended \in 1 .. t}
MovedBy(t) == {m \in moves : m.at <= t}

WalletAt(asset, t) ==
  Opening + SumFunction([s \in EndedBy(t) |-> SwapGain(asb[s].state, asset)])
          + SumFunction([m \in MovedBy(t) |-> MoveGain(m, asset)])

DoneBy(t) == {e \in account : e.at <= t}

ExchangeAt(asset, t) ==
  Opening + SumFunction([e \in DoneBy(t) |-> StepGain[e.step][asset]])
          + SumFunction([m \in {m \in MovedBy(t) : m.asset = "USD"} |-> MoveGain(m, asset)])

StepsDone(step, t) == Cardinality({e \in DoneBy(t) : e.step = step})
Recycled(asset, t) == Cardinality({m \in MovedBy(t) : m.recycle /\ m.asset = asset})

\* On its way between the wallet and Kraken.
TransitAt(asset, t) ==
  CASE asset = "BTC" -> Recycled("BTC", t) - StepsDone("credit", t)
    [] asset = "XMR" -> StepsDone("send", t) - Recycled("XMR", t)
    [] OTHER -> 0

\* Slip: asked for at the start and kept.
KrakenAtStart(t) == [a \in Holdings |-> ExchangeAt(a, FirstNow - HOUR)]

KrakenBalances(t) == [a \in Holdings |-> ExchangeAt(a, t)]

-----------------------------------------------------------------------------
NoRecon ==
  [pc |-> "start", timeline |-> {}, prices |-> Null, btc |-> 0,
   earliest |-> 0, until |-> 0, pending |-> <<>>]

Init ==
  /\ now = FirstNow
  /\ asb \in [Swaps -> {Null} \cup
               [state : Outcomes, started : {t \in Times : t < FirstNow},
                ended : {t \in Times : t < FirstNow}]]
  /\ \A s \in Swaps : asb[s] # Null => asb[s].started <= asb[s].ended
  /\ moves = {}
  /\ account = {}
  /\ swaps = {}
  /\ capital = {}
  /\ rows = <<>>
  /\ recon = NoRecon
  /\ faults = 0

Tick ==
  /\ now + HOUR <= MaxNow
  /\ now' = now + HOUR
  /\ UNCHANGED <<asb, moves, account, swaps, capital, rows, recon, faults>>

Events ==
  Cardinality(moves) + Cardinality(account) + Cardinality({s \in Swaps : asb[s] # Null})

SwapStarts(s) ==
  /\ Events < MaxEvents
  /\ asb[s] = Null
  /\ asb' = [asb EXCEPT ![s] = [state |-> "active", started |-> now, ended |-> 0]]
  /\ UNCHANGED <<now, moves, account, swaps, capital, rows, recon, faults>>

SwapEnds(s) ==
  /\ asb[s] # Null /\ asb[s].state = "active"
  /\ \E outcome \in Outcomes :
       asb' = [asb EXCEPT ![s].state = outcome, ![s].ended = now]
  /\ UNCHANGED <<now, moves, account, swaps, capital, rows, recon, faults>>

\* Monero that is recycled arrives at some time after it was sent ...
Move ==
  /\ Events < MaxEvents
  /\ \E k \in MoveKinds :
       /\ k.recycle /\ k.asset = "XMR" => Recycled("XMR", now) < StepsDone("send", now - HOUR)
       /\ moves' = moves \cup
            {[asset |-> k.asset, direction |-> k.direction, recycle |-> k.recycle, at |-> now]}
  /\ UNCHANGED <<now, asb, account, swaps, capital, rows, recon, faults>>

\* ... as bitcoin is credited after it left; Kraken sells and sends what is there.
KrakenStep(step) ==
  /\ Events < MaxEvents
  /\ step = "credit" => StepsDone("credit", now) < Recycled("BTC", now - HOUR)
  /\ \A a \in Holdings : ExchangeAt(a, now) + StepGain[step][a] >= 0
  /\ account' = account \cup {[step |-> step, at |-> now]}
  /\ UNCHANGED <<now, asb, moves, swaps, capital, rows, recon, faults>>

\* The operator enters a movement as a capital event, now or later.
Record(m) ==
  /\ m \notin capital
  /\ capital' = capital \cup {m}
  /\ UNCHANGED <<now, asb, moves, account, swaps, rows, recon, faults>>

\* The sync of SwapMirror: ended swaps get their completed_at.
Mirror ==
  /\ swaps # EndedBy(now)
  /\ swaps' = EndedBy(now)
  /\ UNCHANGED <<now, asb, moves, account, capital, rows, recon, faults>>

-----------------------------------------------------------------------------
(* The live poller                                                         *)

\* ON CONFLICT DO NOTHING.
Inserted(new) ==
  [t \in DOMAIN rows \cup DOMAIN new |->
     IF t \in DOMAIN rows THEN rows[t] ELSE new[t]]

LiveRow(seen) ==
  [live |-> TRUE, BTC |-> WalletAt("BTC", seen.BTC), XMR |-> WalletAt("XMR", seen.XMR),
   kraken |-> KrakenBalances(seen.kraken)]

\* The three balances are asked for concurrently, so that of a movement of this
\* hour each answer may or may not know.  A failed exchange counts as an empty
\* account; a failed asb, or missing prices, leave the hour without a row.
LiveSnapshot ==
  /\ now \notin DOMAIN rows
  /\ \E seen \in [{"BTC", "XMR", "kraken"} -> {now, now - HOUR}] :
       \/ /\ rows' = Inserted([t \in {now} |-> LiveRow(seen)])
          /\ UNCHANGED faults
       \/ /\ faults < MaxFaults
          /\ rows' = Inserted([t \in {now} |-> [LiveRow(seen) EXCEPT !.kraken = NoKraken]])
          /\ faults' = faults + 1
  /\ UNCHANGED <<world, recon>>

-----------------------------------------------------------------------------
(* The reconstruction: once per start                                      *)

Hour(t) == IF t % 2 = 0 THEN t ELSE t - 1

\* What the rewinding takes for the gain of an event.  A refund, which moves
\* nothing, is taken for a loss of the bitcoin.
SwapRewinds(state, asset) ==
  IF state = "refunded" THEN IF asset = "BTC" THEN -1 ELSE 0
  ELSE SwapGain(state, asset)

SwapEvent(s) ==
  [kind |-> "swap", id |-> s, at |-> asb[s].started,
   gain |-> [a \in Assets |-> SwapRewinds(asb[s].state, a)]]

CapitalEvent(m) ==
  [kind |-> "capital", id |-> m, at |-> m.at, gain |-> [a \in Assets |-> MoveGain(m, a)]]

SwapEvents    == {SwapEvent(s) : s \in swaps}
CapitalEvents == {CapitalEvent(m) : m \in capital}

ReconSwaps ==
  /\ recon.pc = "start"
  /\ recon' = [recon EXCEPT !.pc = "capital", !.timeline = SwapEvents]
  /\ UNCHANGED <<world, rows, faults>>

\* Nothing is reconstructed without an event.
ReconCapital ==
  /\ recon.pc = "capital"
  /\ LET timeline == recon.timeline \cup CapitalEvents
     IN  recon' = IF timeline = {} THEN [NoRecon EXCEPT !.pc = "empty"]
                  ELSE [recon EXCEPT !.pc = "gate", !.timeline = timeline,
                                     !.earliest = Min({e.at : e \in timeline})]
  /\ UNCHANGED <<world, rows, faults>>

\* Slip: every row counts, whatever its time.
RowsAtAll(cutoff) == DOMAIN rows

RowsBefore(cutoff) == {t \in DOMAIN rows : t < cutoff}

\* Many rows up to an hour after the earliest event are taken for a
\* reconstruction that was done already.
ReconGate ==
  /\ recon.pc = "gate"
  /\ recon' = [recon EXCEPT !.pc =
       IF Cardinality(RowsBefore(recon.earliest + HOUR)) > Threshold
       THEN "skipped" ELSE "prices"]
  /\ UNCHANGED <<world, rows, faults>>

ReconPrices ==
  /\ recon.pc = "prices"
  /\ \E p \in PriceHistories : recon' = [recon EXCEPT !.pc = "btc", !.prices = p]
  /\ UNCHANGED <<world, rows, faults>>

ReconBtc ==
  /\ recon.pc = "btc"
  /\ recon' = [recon EXCEPT !.pc = "xmr", !.btc = WalletAt("BTC", now)]
  /\ UNCHANGED <<world, rows, faults>>

\* The price bucket of an hour, or else of the hour before or after it.
PriceOf(prices, h) ==
  LET found == {k \in {h, h - HOUR, h + HOUR} \cap FullHours : prices[k] # "none"}
  IN  IF h \in found THEN prices[h]
      ELSE IF h - HOUR \in found THEN prices[h - HOUR]
      ELSE IF h + HOUR \in found THEN prices[h + HOUR] ELSE "none"

\* Slip: an event counts for its own hour only from the next one on.
LaterInclusive(h) == {e \in recon.timeline : Hour(e.at) >= h}

\* The events that the holdings of an hour are before.
Later(h) == {e \in recon.timeline : Hour(e.at) > h}

Rewound(asset, balance, h) ==
  balance - SumFunction([e \in Later(h) |-> e.gain[asset]])

\* The hours that get a row: those with prices.
Valued(prices, earliest, until) ==
  {h \in FullHours : /\ Hour(earliest) <= h /\ h <= Hour(until)
                     /\ PriceOf(prices, h) = "whole"}

ReconXmr ==
  /\ recon.pc = "xmr"
  /\ recon' = [recon EXCEPT
       !.pc = "insert", !.until = now,
       !.pending = [h \in Valued(recon.prices, recon.earliest, now) |->
                      [live |-> FALSE, BTC |-> Rewound("BTC", recon.btc, h),
                       XMR |-> Rewound("XMR", WalletAt("XMR", now), h),
                       kraken |-> NoKraken]]]
  /\ UNCHANGED <<world, rows, faults>>

\* The next rows in the order of time, as many as one statement takes.
Chunk ==
  {h \in DOMAIN recon.pending :
     Cardinality({k \in DOMAIN recon.pending : k < h}) < ChunkSize}

ReconInsert ==
  /\ recon.pc = "insert"
  /\ rows' = Inserted(Restrict(recon.pending, Chunk))
  /\ recon' = LET left == DOMAIN recon.pending \ Chunk
              IN  [recon EXCEPT !.pc = IF left = {} THEN "filled" ELSE "insert",
                                !.pending = Restrict(recon.pending, left)]
  /\ UNCHANGED <<world, faults>>

-----------------------------------------------------------------------------
(* Faults                                                                  *)

ReconFails ==
  /\ faults < MaxFaults
  /\ recon.pc \in {"start", "capital", "gate", "prices", "btc", "xmr", "insert"}
  /\ recon' = [NoRecon EXCEPT !.pc = "failed"]
  /\ faults' = faults + 1
  /\ UNCHANGED <<world, rows>>

Restart ==
  /\ faults < MaxFaults
  /\ recon' = NoRecon
  /\ faults' = faults + 1
  /\ UNCHANGED <<world, rows>>

ReconStep ==
  \/ ReconSwaps \/ ReconCapital \/ ReconGate \/ ReconPrices \/ ReconBtc \/ ReconXmr
  \/ ReconInsert

Next ==
  \/ Tick \/ Move \/ Mirror
  \/ \E s \in Swaps : SwapStarts(s) \/ SwapEnds(s)
  \/ \E step \in DOMAIN StepGain : KrakenStep(step)
  \/ \E m \in moves : Record(m)
  \/ LiveSnapshot \/ ReconStep
  \/ ReconFails \/ Restart

Spec == Init /\ [][Next]_vars
-----------------------------------------------------------------------------
(* Properties                                                              *)

Row == [live : BOOLEAN, BTC : Int, XMR : Int, kraken : [Holdings -> Int]]

TypeOK ==
  /\ now \in Times
  /\ \A s \in Swaps : asb[s] = Null \/ asb[s].started \in Times
  /\ \A m \in moves : m.at \in Times
  /\ account \subseteq [step : DOMAIN StepGain, at : Times]
  /\ swaps \subseteq Swaps
  /\ capital \subseteq moves
  /\ DOMAIN rows \subseteq Times \cup FullHours
  /\ \A t \in DOMAIN rows : rows[t] \in Row
  /\ recon.pc \in {"start", "capital", "gate", "prices", "btc", "xmr", "insert",
                   "empty", "skipped", "filled", "failed"}
  /\ \A h \in DOMAIN recon.pending : recon.pending[h] \in Row
  /\ faults \in 0 .. MaxFaults

\* The events that were read are all there was until the balances were read: no
\* swap was refunded, or begun in an earlier hour than it ended in.
TimelineComplete ==
  /\ \A s \in EndedBy(recon.until) :
       /\ SwapEvent(s) \in recon.timeline
       /\ asb[s].state # "refunded"
       /\ Hour(asb[s].started) = Hour(asb[s].ended)
  /\ \A m \in MovedBy(recon.until) : CapitalEvent(m) \in recon.timeline

\* What the rewinding says of an hour is what the wallet held at its end, for
\* any mixture and order of swaps and capital events, as long as the events
\* were complete when the balances were read (snapshot_backfill.rs:122-174).
ReconstructionMeetsHistory ==
  recon.pc = "insert" /\ TimelineComplete =>
    \A h \in DOMAIN recon.pending, a \in Assets :
      recon.pending[h][a] = WalletAt(a, h + 1)

\* The guess whether the reconstruction has been done never loses history: it
\* is skipped only when the console was already running within an hour of the
\* earliest event, and otherwise, even after inserts that stopped half-way,
\* every hour with prices has its row (snapshot_backfill.rs:88-102).
HistoryReachesBack ==
  /\ recon.pc = "skipped" =>
       \E t \in DOMAIN rows : rows[t].live /\ t < recon.earliest + HOUR
  /\ recon.pc = "filled" =>
       Valued(recon.prices, recon.earliest, recon.until) \subseteq DOMAIN rows

\* Nothing but steps of recycles happened at this time.
OnlyRecycled(t) ==
  /\ \A m \in moves : m.at = t => m.recycle
  /\ \A s \in Swaps : asb[s] # Null => asb[s].ended # t

OwnedAt(asset, t) ==
  ExchangeAt(asset, t) + IF asset \in Assets THEN WalletAt(asset, t) + TransitAt(asset, t) ELSE 0

Shown(asset, row) == row.kraken[asset] + IF asset \in Assets THEN row[asset] ELSE 0

Worth(amount) == SumFunction(amount)   \* each coin is traded for one dollar

\* Sent by t, and not yet arrived an hour before.
OnTheWay(t) ==
  Recycled("BTC", t) - StepsDone("credit", t - HOUR) + StepsDone("send", t) - Recycled("XMR", t - HOUR)

\* However the three answers fall among the steps of recycles, a live row never
\* shows a coin twice, at asb and at Kraken or before and after a trade; and it
\* misses no more than was on its way, unless Kraken failed to answer
\* (balance_snapshot.rs:31-40).
LiveRowsCountOnce ==
  \A t \in DOMAIN rows : rows[t].live /\ OnlyRecycled(t) =>
    LET owned == Worth([a \in Holdings |-> OwnedAt(a, t)])
        shown == Worth([a \in Holdings |-> Shown(a, rows[t])])
    IN  shown <= owned /\ (rows[t].kraken # NoKraken => owned <= shown + OnTheWay(t))
=============================================================================
