----------------------------- MODULE Accounting -----------------------------
(***************************************************************************)
(* What the console says of the account's value: the series and their      *)
(* attribution to market, trades and capital                               *)
(* (src/src/server/api/charts.rs), the lifetime ROI (api/roi.rs), the      *)
(* capital events both count (api/capital.rs), and what the charts show at *)
(* the cursor (components/chart.rs, pages/charts.rs, pages/overview.rs).   *)
(*                                                                         *)
(* Rows of balance_snapshots are written while a page is being answered,   *)
(* by queries that see the tables at different moments.  A row holds the   *)
(* prices p of Bitcoin and q of Monero and the holdings, asb's and         *)
(* Kraken's together; its total is derived from them, as where it is made. *)
(***************************************************************************)
EXTENDS Integers, Sequences, FiniteSets, FiniteSetsExt, Functions

CONSTANTS
  NoValue,     \* no value
  Values,      \* the contents of snapshots
  EventKinds,  \* the capital events that there are
  Periods,     \* the periods asked for
  FirstDay,    \* the snapshots and events before this time are given
  LastDay,     \* bound on time
  MaxCapital,  \* bound on capital events
  MaxWrites    \* bound on writes while a page is answered

Days == 0 .. LastDay

Value == [p : Int, q : Int, btc : Int, xmr : Int, usd : Int]

\* usd: the value at the event, if known; amount: what was moved, in USD for a
\* USD event.
EventKind == [asset : {"BTC", "XMR", "USD"}, direction : {"deposit", "withdraw"},
              usd : Nat \cup {NoValue}, amount : Nat]

ASSUME AccountingAssumption ==
  /\ Values \subseteq Value /\ EventKinds \subseteq EventKind
  /\ Periods \subseteq Nat
  /\ FirstDay \in Nat /\ LastDay \in Nat /\ FirstDay <= LastDay
  /\ MaxCapital \in Nat /\ MaxWrites \in Nat
  /\ NoValue \notin Int

VARIABLES
  today,
  snapshots, \* balance_snapshots, by taken_at
  events,    \* capital_events
  writes,    \* writes made since the page was opened
  page       \* the page: what it asks for, where it is and what it was answered

accountingVars == <<today, snapshots, events, writes, page>>

Opened(kind, period) ==
  [kind |-> kind, period |-> period, pc |-> "open", series |-> <<>>, markers |-> {}, since |-> 0, snaps |-> <<>>,
   capital |-> {}, deployed |-> {}, current |-> NoValue, failed |-> FALSE]

AccountingInit ==
  /\ today = FirstDay
  /\ \E times \in SUBSET (0 .. FirstDay) : snapshots \in [times -> Values]
  /\ events \in {E \in SUBSET [kind : EventKinds, at : 0 .. FirstDay] :
                   IsFiniteSet(E) /\ Cardinality(E) <= MaxCapital}
  /\ writes = 0
  /\ \E k \in {"overview", "lifetime"}, p \in Periods :
       page = Opened(k, p)

-----------------------------------------------------------------------------
(* The writers                                                             *)

NextDay ==
  /\ today < LastDay
  /\ today' = today + 1
  /\ UNCHANGED <<snapshots, events, writes, page>>

Write == writes < MaxWrites /\ writes' = writes + 1

\* The live poller at today, the reconstruction at any earlier time.
WriteRow(t) ==
  /\ Write
  /\ t \notin DOMAIN snapshots
  /\ \E v \in Values :
       snapshots' = [u \in DOMAIN snapshots \cup {t} |-> IF u = t THEN v ELSE snapshots[u]]
  /\ UNCHANGED <<today, events, page>>

\* The value of an event is given, or taken from the day's price when the
\* event is recent, or missing; dollars are entered with SQL.
AddEvent(k, t) ==
  /\ Write
  /\ Cardinality(events) < MaxCapital
  /\ events' = events \cup {[kind |-> k, at |-> t]}
  /\ UNCHANGED <<today, snapshots, page>>

-----------------------------------------------------------------------------
(* Series and attribution                                                  *)

Total(v) == v.btc * v.p + v.xmr * v.q + v.usd

Since == today - page.period

\* The snapshots at some times, in the order of time: each has as many before it
\* as its place says.
Ordered(times) ==
  [i \in 1 .. Cardinality(times) |->
     LET at == CHOOSE t \in times : Cardinality({u \in times : u < t}) = i - 1
     IN  [t |-> at, v |-> snapshots[at]]]

account_value(since) == Ordered({t \in DOMAIN snapshots : t >= since /\ Total(snapshots[t]) > 0})

Snapshots(since) ==
  Ordered({t \in DOMAIN snapshots :
             /\ t >= since
             /\ snapshots[t].p # 0 /\ snapshots[t].q # 0 /\ Total(snapshots[t]) # 0})

Signed(e, usd) == IF e.kind.direction = "deposit" THEN usd ELSE -usd

\* Only dollars count as capital; an event without a value counts as its amount.
UsdOf(e) == Signed(e, IF e.kind.usd # NoValue THEN e.kind.usd ELSE e.kind.amount)

UsdEvents(E) == {e \in E : e.kind.asset = "USD"}

Flow(E) == SumFunction([e \in E |-> UsdOf(e)])

\* Slip: the holdings after the price move.
StepOnNew(prev, cur) == cur.btc * (cur.p - prev.p) + cur.xmr * (cur.q - prev.q)

MarketStep(prev, cur) == prev.btc * (cur.p - prev.p) + prev.xmr * (cur.q - prev.q)

\* Slip: an event at a snapshot is counted before and after it.
CapitalStepBoth(snaps, capital, i) ==
  Flow({e \in capital : snaps[i - 1].t <= e.at /\ e.at <= snaps[i].t})

CapitalStep(snaps, capital, i) ==
  Flow({e \in capital : snaps[i - 1].t < e.at /\ e.at <= snaps[i].t})

\* The three cumulative series at each snapshot.
attribution(snaps, capital) ==
  LET cum[i \in DOMAIN snaps] ==
        IF i = 1 THEN [market |-> 0, trade |-> 0, capital |-> 0]
        ELSE LET market == cum[i - 1].market + MarketStep(snaps[i - 1].v, snaps[i].v)
                 flow   == cum[i - 1].capital + CapitalStep(snaps, capital, i)
             IN  [market |-> market, capital |-> flow,
                  trade |-> Total(snaps[i].v) - Total(snaps[1].v) - market - flow]
  IN  cum

-----------------------------------------------------------------------------
(* Answering a page: each query sees the tables of its moment              *)

ReadSeries ==
  /\ page.kind = "overview" /\ page.pc = "open"
  /\ page' = [page EXCEPT !.pc = "markers", !.series = account_value(Since)]
  /\ UNCHANGED <<today, snapshots, events, writes>>

ReadMarkers ==
  /\ page.pc = "markers"
  /\ page' = [page EXCEPT !.pc = "snapshots",
                          !.markers = {e \in events : e.at >= Since}]
  /\ UNCHANGED <<today, snapshots, events, writes>>

Deployed == {e \in UsdEvents(events) : e.kind.usd # NoValue}

LifetimeEvents ==
  /\ page.kind = "lifetime" /\ page.pc = "open"
  /\ page' = [page EXCEPT !.pc = "current", !.deployed = Deployed]
  /\ UNCHANGED <<today, snapshots, events, writes>>

\* The newest row with a value.
LifetimeCurrent ==
  /\ page.pc = "current"
  /\ LET valued == {t \in DOMAIN snapshots : Total(snapshots[t]) > 0}
     IN  page' = [page EXCEPT !.pc = "snapshots",
                    !.current = IF valued = {} THEN NoValue ELSE Max(valued)]
  /\ UNCHANGED <<today, snapshots, events, writes>>

\* The lifetime tile asks for the longest period.
ReadSnapshots ==
  /\ page.pc = "snapshots"
  /\ LET since == IF page.kind = "lifetime" THEN 0 ELSE Since
     IN  page' = [page EXCEPT !.pc = "capital", !.since = since,
                              !.snaps = Snapshots(since)]
  /\ UNCHANGED <<today, snapshots, events, writes>>

ReadCapital ==
  /\ page.pc = "capital"
  /\ page' = [page EXCEPT !.pc = "shown",
                          !.capital = {e \in UsdEvents(events) : e.at >= page.since}]
  /\ UNCHANGED <<today, snapshots, events, writes>>

\* Without an attribution the rest is shown all the same.
AttributionFails ==
  /\ page.pc \in {"snapshots", "capital"}
  /\ page' = [page EXCEPT !.pc = "shown", !.snaps = <<>>, !.failed = TRUE]
  /\ UNCHANGED <<today, snapshots, events, writes>>

AccountingNext ==
  \/ NextDay
  \/ \E t \in 0 .. today : WriteRow(t)
  \/ \E k \in EventKinds, t \in 0 .. today : AddEvent(k, t)
  \/ ReadSeries \/ ReadMarkers \/ LifetimeEvents \/ LifetimeCurrent
  \/ ReadSnapshots \/ ReadCapital \/ AttributionFails

AccountingSpec == AccountingInit /\ [][AccountingNext]_accountingVars

-----------------------------------------------------------------------------
(* What is shown                                                           *)

Attributed == attribution(page.snaps, page.capital)

\* Two samples are needed for an attribution to be shown.
PnlKnown == ~page.failed /\ Len(page.snaps) >= 2

\* Slip: whatever its length.
UnalignedPnl == PnlKnown

\* The chart takes the cumulative series only if they are as long as its own.
AlignedPnl == PnlKnown /\ Len(page.snaps) = Len(page.series)

\* The change and the basis of its percentage at the cursor's sample.
Readout(i) ==
  LET start == Total(page.series[1].v)
  IN  IF AlignedPnl
      THEN [delta |-> Attributed[i].market + Attributed[i].trade,
            basis |-> start + Attributed[i].capital]
      ELSE [delta |-> Total(page.series[i].v) - start, basis |-> start]

\* The sample nearest to a time, the earlier one of two.
NearestSample(samples, t) ==
  CHOOSE i \in DOMAIN samples :
    \A j \in DOMAIN samples :
      LET d(k) == IF samples[k].t < t THEN t - samples[k].t ELSE samples[k].t - t
      IN  d(i) < d(j) \/ (d(i) = d(j) /\ i <= j)

\* The cards of the attribution page: at the sample under the cursor, or
\* of the whole period.
Cards(hovered) ==
  LET i == IF hovered = NoValue THEN Len(page.snaps)
           ELSE NearestSample(page.snaps, hovered)
  IN  [at |-> i, now |-> Total(page.snaps[i].v), market |-> Attributed[i].market,
       trade |-> Attributed[i].trade, capital |-> Attributed[i].capital]

\* The lifetime tile: P&L in USD.
LifetimePnl ==
  (IF page.current = NoValue THEN 0 ELSE Total(snapshots[page.current])) - Flow(page.deployed)

-----------------------------------------------------------------------------
(* Properties                                                              *)

AccountingTypeOK ==
  /\ today \in Days /\ writes \in 0 .. MaxWrites
  /\ DOMAIN snapshots \subseteq Days
  /\ \A t \in DOMAIN snapshots : snapshots[t] \in Values
  /\ events \subseteq [kind : EventKinds, at : Days]
  /\ page.pc \in {"open", "markers", "current", "snapshots", "capital", "shown"}
  /\ page.capital \subseteq events /\ page.markers \subseteq events

\* What changes of the holdings brought, at the prices after each change.
Gain(prev, cur) ==
  (cur.btc - prev.btc) * cur.p + (cur.xmr - prev.xmr) * cur.q + (cur.usd - prev.usd)

CapitalIn(i) ==
  Flow({e \in page.capital : page.snaps[1].t < e.at /\ e.at <= page.snaps[i].t})

\* What the trades card shows at any point is the sum of what changes of the
\* holdings brought, those of the dollars included, less the capital that came
\* in: though it is computed as what remains of the change in value
\* (charts.rs:299-303).
TradesAreTheGains ==
  page.pc = "shown" /\ PnlKnown =>
    \A hovered \in Days \cup {NoValue} :
      LET card == Cards(hovered)
      IN  card.trade = SumFunction([k \in 2 .. card.at |->
                                      Gain(page.snaps[k - 1].v, page.snaps[k].v)])
                         - CapitalIn(card.at)

\* The overview chart joins two answers by position.  At every sample, what it
\* shows as P&L and the capital it excludes add up to the change of the series
\* it draws, whatever is written between the queries, as long as the window
\* begins with the same row in both (charts.rs:402-404, chart.rs:235-252).
ReadoutMatchesSeries ==
  page.pc = "shown" /\ page.kind = "overview" =>
    \A i \in DOMAIN page.series :
      ~PnlKnown \/ page.series[1].t = page.snaps[1].t =>
        LET shown    == Readout(i)
            start    == Total(page.series[1].v)
            excluded == shown.basis - start
        IN  shown.delta + excluded = Total(page.series[i].v) - start

\* The lifetime P&L and the attribution over all time count every dollar that
\* came in once: they differ by the value at the first snapshot and by the
\* capital outside the snapshots, if nothing was written in between
\* (roi.rs:90-94, charts.rs:166-167).
LifetimeAgreesWithAttribution ==
  /\ page.pc = "shown" /\ page.kind = "lifetime" /\ PnlKnown
  /\ page.deployed = page.capital
  /\ page.current = page.snaps[Len(page.snaps)].t
  => LET last  == Attributed[Len(page.snaps)]
         first == page.snaps[1]
         outside == {e \in page.capital : e.at <= first.t \/ e.at > page.current}
     IN  LifetimePnl = Total(first.v) + last.market + last.trade - Flow(outside)
=============================================================================
