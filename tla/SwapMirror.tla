----------------------------- MODULE SwapMirror -----------------------------
(***************************************************************************)
(* asb's swaps as the console mirrors and prices them: the sync            *)
(* (src/src/server/pollers/swap_sync.rs), the price history it reads, as   *)
(* the live poller (pollers/cex_prices.rs) and the one-shot Kraken         *)
(* backfill (pollers/kraken_backfill.rs) write it, and the profit column   *)
(* of the swap list (api/swaps.rs).                                        *)
(*                                                                         *)
(* Time advances by the hour and is always odd, so that an even time is    *)
(* the full hour between: candles are labelled with full hours, live       *)
(* samples and swaps never fall on one.  A price is known by the time it   *)
(* was sampled at; samples that lack one of the two prices count as none.  *)
(* asb and the exchanges are external.                                     *)
(***************************************************************************)
EXTENDS Integers, FiniteSets, FiniteSetsExt

CONSTANTS
  Swaps,
  Undated,       \* swaps whose start date does not parse
  Null,          \* no value
  FirstNow,      \* the time at which the console first starts
  MaxNow,        \* bound on time
  MaxFaults,     \* bound on faults and restarts
  HoursPerDay,   \* 24
  KrakenHours,   \* how far back Kraken's candles go
  Sampled        \* TRUE: the live poller records a sample every hour

HOUR == 2

Outcomes == {"redeemed", "refunded", "punished"}

Times     == {t \in 0 .. MaxNow : t % 2 = 1}
FullHours == {t \in 0 .. MaxNow : t % 2 = 0}

\* A swap as asb reports it, once it knows it.
Entry == [state : Outcomes \cup {"active"}, started : Times]

\* A profit is known by the rule it follows and the prices it uses.
Profit == [rule : {"btc_less_xmr", "btc", "zero"}, at : Nat \cup {Null}]

Row ==
  [state : Outcomes \cup {"active"}, started : Times,
   completed_at : Times \cup {Null}, profit : Profit \cup {Null}]

ASSUME SwapMirrorAssumption ==
  /\ Undated \subseteq Swaps
  /\ FirstNow \in Times
  /\ MaxNow \in Nat /\ MaxFaults \in Nat
  /\ HoursPerDay \in Nat \ {0} /\ KrakenHours \in Nat
  /\ Sampled \in BOOLEAN
  /\ Null \notin Int \cup Entry \cup Profit \cup Row

VARIABLES
  now,
  asb,       \* asb's swaps
  rows,      \* the swaps table
  samples,   \* cex_prices: when its rows were sampled
  sync,      \* the sync task: where it is and the entries it has yet to store
  backfill,  \* the backfill task: where it is, the oldest swap, its candles
  faults

vars == <<now, asb, rows, samples, sync, backfill, faults>>

-----------------------------------------------------------------------------
(* asb and the exchanges                                                   *)

Init ==
  /\ now = FirstNow
  /\ asb \in [Swaps -> {Null} \cup
               {e \in Entry : e.started < FirstNow /\ e.state \in Outcomes}]
  /\ rows = [s \in Swaps |-> Null]
  /\ samples = {}
  /\ sync = [pc |-> "idle", entries |-> <<>>]
  /\ backfill = [pc |-> "start", earliest |-> Null, candles |-> {}]
  /\ faults = 0

Tick ==
  /\ now + HOUR <= MaxNow
  /\ Sampled => now \in samples
  /\ now' = now + HOUR
  /\ UNCHANGED <<asb, rows, samples, sync, backfill, faults>>

\* None starts in the last hour (bound).
SwapStarts(s) ==
  /\ now < MaxNow
  /\ asb[s] = Null
  /\ asb' = [asb EXCEPT ![s] = [state |-> "active", started |-> now]]
  /\ UNCHANGED <<now, rows, samples, sync, backfill, faults>>

SwapEnds(s) ==
  /\ asb[s] # Null /\ asb[s].state = "active"
  /\ \E outcome \in Outcomes : asb' = [asb EXCEPT ![s].state = outcome]
  /\ UNCHANGED <<now, rows, samples, sync, backfill, faults>>

\* The live poller stores what it fetched.
Sample ==
  /\ now \notin samples
  /\ samples' = samples \cup {now}
  /\ UNCHANGED <<now, asb, rows, sync, backfill, faults>>

-----------------------------------------------------------------------------
(* The sync: one task, one cycle after the other                           *)

Distance(t, u) == IF t < u THEN u - t ELSE t - u

\* Slip: the newest sample.
Newest(t) == {p \in samples : \A q \in samples : p >= q}

\* ORDER BY abs(sampled_at - completed_at) LIMIT 1; ties go either way.
Nearest(t) == {p \in samples : \A q \in samples : Distance(p, t) <= Distance(q, t)}

\* Which prices enter a profit: both, Bitcoin's, or none.
Rule(state) ==
  CASE state = "redeemed" -> "btc_less_xmr"
    [] state = "punished" -> "btc"
    [] OTHER -> "zero"

\* Nothing is stored as long as a price is missing.
Profits(row) ==
  IF Rule(row.state) = "zero" THEN {[rule |-> "zero", at |-> Null]}
  ELSE IF samples = {} THEN {Null}
  ELSE {[rule |-> Rule(row.state), at |-> p] : p \in Nearest(row.completed_at)}

\* get_swaps lists active and past swaps; none means there is nothing to do,
\* and an error is one more moment in which nothing happens.
SyncFetch ==
  /\ sync.pc = "idle"
  /\ LET known == {s \in Swaps : asb[s] # Null}
     IN  /\ known # {}
         /\ sync' = [pc |-> "upsert", entries |-> [s \in known |-> asb[s]]]
  /\ UNCHANGED <<now, asb, rows, samples, backfill, faults>>

Remaining(s) == [t \in DOMAIN sync.entries \ {s} |-> sync.entries[t]]

Store(s, row) ==
  /\ sync.pc = "upsert"
  /\ s \in DOMAIN sync.entries
  /\ rows' = [rows EXCEPT ![s] = row]
  /\ sync' = [pc |-> IF DOMAIN sync.entries = {s} THEN "price" ELSE "upsert",
              entries |-> Remaining(s)]
  /\ UNCHANGED <<now, asb, samples, backfill, faults>>

\* A start date that does not parse counts as the time of the sync.
Started(s) == IF s \in Undated THEN now ELSE sync.entries[s].started

Known(s) == rows[s] # Null

\* The start of a completed swap is taken as the time of its completion.  The
\* row of a known swap keeps its start and its profit (on_conflict).
RowOf(s) ==
  [state |-> sync.entries[s].state,
   started |-> IF Known(s) THEN rows[s].started ELSE Started(s),
   completed_at |-> IF sync.entries[s].state \in Outcomes THEN Started(s) ELSE Null,
   profit |-> IF Known(s) THEN rows[s].profit ELSE Null]

\* Slip: every entry counts as completed.
UpsertCompleted(s) == Store(s, [RowOf(s) EXCEPT !.completed_at = Started(s)])

\* Slip: ON CONFLICT DO NOTHING.
UpsertNew(s) == Store(s, IF Known(s) THEN rows[s] ELSE RowOf(s))

\* One statement per entry.
Upsert(s) == Store(s, RowOf(s))

Unpriced ==
  {s \in Swaps : rows[s] # Null /\ rows[s].completed_at # Null /\ rows[s].profit = Null}

\* One statement for all completed swaps without a profit.
SyncPrice ==
  /\ sync.pc = "price"
  /\ \E profit \in [Unpriced -> UNION {Profits(rows[s]) : s \in Unpriced}] :
       /\ \A s \in Unpriced : profit[s] \in Profits(rows[s])
       /\ rows' = [s \in Swaps |->
                     IF s \in Unpriced THEN [rows[s] EXCEPT !.profit = profit[s]]
                     ELSE rows[s]]
  /\ sync' = [pc |-> "idle", entries |-> <<>>]
  /\ UNCHANGED <<now, asb, samples, backfill, faults>>

SyncStep == SyncFetch \/ (\E s \in Swaps : Upsert(s)) \/ SyncPrice

-----------------------------------------------------------------------------
(* The backfill: once per start                                            *)

Mirrored == {s \in Swaps : rows[s] # Null}

\* The oldest start, over rows that exist.
Earliest == Min({rows[s].started : s \in Mirrored})

Backfilled == samples \cap FullHours

Days == Max({1, ((now - Earliest) \div HOUR) \div HoursPerDay})

\* Nothing is fetched without a swap, or when four fifths of the hours are
\* covered already; none are if they cannot be counted.
BackfillStart ==
  /\ backfill.pc = "start"
  /\ \E counted \in {Cardinality(Backfilled)} \cup (IF faults < MaxFaults THEN {0} ELSE {}) :
       /\ backfill' =
            IF Mirrored = {} \/ 10 * counted > 8 * HoursPerDay * Days
            THEN [backfill EXCEPT !.pc = "skipped"]
            ELSE [backfill EXCEPT !.pc = "fetch", !.earliest = Earliest]
       /\ faults' = faults + IF counted = Cardinality(Backfilled) THEN 0 ELSE 1
  /\ UNCHANGED <<now, asb, rows, samples, sync>>

\* The candles after the oldest swap, as far back as Kraken has them.
BackfillFetch ==
  /\ backfill.pc = "fetch"
  /\ backfill' =
       [pc |-> "insert", earliest |-> Null,
        candles |-> {t \in FullHours : /\ backfill.earliest < t /\ t < now
                                       /\ now - t <= KrakenHours * HOUR}]
  /\ UNCHANGED <<now, asb, rows, samples, sync, faults>>

BackfillEnds(pc) == backfill' = [pc |-> pc, earliest |-> Null, candles |-> {}]

\* Stored beside what the live poller has stored.
BackfillInsert ==
  /\ backfill.pc = "insert"
  /\ samples' = samples \cup backfill.candles
  /\ BackfillEnds("filled")
  /\ UNCHANGED <<now, asb, rows, sync, faults>>

-----------------------------------------------------------------------------
(* Faults                                                                  *)

\* A statement fails; the rest of the cycle is left to the next one.
SyncFails ==
  /\ faults < MaxFaults
  /\ sync.pc # "idle"
  /\ sync' = [pc |-> "idle", entries |-> <<>>]
  /\ faults' = faults + 1
  /\ UNCHANGED <<now, asb, rows, samples, backfill>>

\* Kraken or the database fails, possibly after some chunks were inserted.
BackfillFails ==
  /\ faults < MaxFaults
  /\ backfill.pc \in {"start", "fetch", "insert"}
  /\ \E stored \in SUBSET backfill.candles : samples' = samples \cup stored
  /\ BackfillEnds("skipped")
  /\ faults' = faults + 1
  /\ UNCHANGED <<now, asb, rows, sync>>

\* The console restarts: both tasks begin anew.
Restart ==
  /\ faults < MaxFaults
  /\ sync' = [pc |-> "idle", entries |-> <<>>]
  /\ backfill' = [pc |-> "start", earliest |-> Null, candles |-> {}]
  /\ faults' = faults + 1
  /\ UNCHANGED <<now, asb, rows, samples>>

Next ==
  \/ Tick \/ Sample
  \/ \E s \in Swaps : SwapStarts(s) \/ SwapEnds(s)
  \/ SyncStep
  \/ BackfillStart \/ BackfillFetch \/ BackfillInsert
  \/ SyncFails \/ BackfillFails \/ Restart

Spec == Init /\ [][Next]_vars

\* The sync's interval ticks on, and exchanges answer now and then.
FairSpec == Spec /\ WF_vars(SyncStep) /\ WF_vars(Sample)

-----------------------------------------------------------------------------
(* Reading                                                                 *)

\* The times whose prices may be behind the profit that the swap list shows:
\* of the stored profit, else (for redeemed swaps) of the nearest sample.
ShownAt(s) ==
  LET row == rows[s]
  IN  IF row = Null \/ row.completed_at = Null THEN {}
      ELSE IF row.profit # Null THEN {row.profit.at} \ {Null}
      ELSE IF row.state = "redeemed" THEN Nearest(row.completed_at)
      ELSE {}

-----------------------------------------------------------------------------
(* Properties                                                              *)

TypeOK ==
  /\ now \in Times
  /\ asb \in [Swaps -> Entry \cup {Null}]
  /\ \A s \in Mirrored : rows[s] \in Row
  /\ samples \subseteq Times \cup FullHours
  /\ sync.pc \in {"idle", "upsert", "price"}
  /\ \A s \in DOMAIN sync.entries : sync.entries[s] \in Entry
  /\ backfill.pc \in {"start", "fetch", "insert", "filled", "skipped"}
  /\ faults \in 0 .. MaxFaults

\* A profit is stored once and for all, so it must come from a swap that has
\* ended and follow the rule of the outcome it ended with, however the sync's
\* reading of asb, its statements, failures and restarts interleave
\* (swap_sync.rs:71-77).
ProfitMatchesOutcome ==
  \A s \in Mirrored :
    rows[s].profit # Null =>
      /\ asb[s].state \in Outcomes
      /\ rows[s].profit.rule = Rule(asb[s].state)

\* With a sample every hour, no profit is computed from prices more than an
\* hour away from the time taken as its completion, however long swaps last.
\* A swap without a date is stamped anew by every sync (swap_sync.rs:40-43),
\* and its profit stays.
PricedWithinTheHour ==
  \A s \in Mirrored \ Undated :
    rows[s].profit # Null /\ rows[s].profit.at # Null =>
      Distance(rows[s].profit.at, rows[s].completed_at) <= HOUR

\* Every swap that ends is mirrored and gets its profit.
EndedSwapsAreBooked ==
  \A s \in Swaps :
    (asb[s] # Null /\ asb[s].state \in Outcomes)
      ~> (rows[s] # Null /\ rows[s].profit # Null)

\* Once the backfill has stored its candles, no swap is shown with a profit
\* from prices more than an hour away (kraken_backfill.rs:3-9, "snap every
\* ancient swap to the same stale price. To fix that we backfill").
BackfillEndsStalePrices ==
  backfill.pc = "filled" =>
    \A s \in Swaps : \A t \in ShownAt(s) : Distance(t, rows[s].completed_at) <= HOUR
=============================================================================
