-------------------------- MODULE SpreadOptimizer --------------------------
(***************************************************************************)
(* The auto-spread optimizer: how a recommendation is computed             *)
(* (src/src/server/api/spread_optimizer.rs) and what a sequence of         *)
(* recommendations, applied by the poller                                  *)
(* (src/src/server/pollers/spread_optimizer.rs) or by the operator, does   *)
(* to asb's ask_spread.                                                    *)
(*                                                                         *)
(* Spreads are whole basis points, the resolution at which the code rounds *)
(* what it records and writes; that the step cap compares a current spread *)
(* not yet rounded (:266) is below that resolution.  USD amounts are whole *)
(* dollars.  How the awaits of an apply interleave with other handlers is  *)
(* the subject of Maker; here an apply is one step that takes asb down.    *)
(***************************************************************************)
EXTENDS Integers

CONSTANTS
  Configs,       \* rows of spread_optimizer_config an operator may save
  Markets,       \* what the database says about swaps, prices and competitors
  Drifts,        \* asb's quote against our mid, minus its ask_spread
  MaxDrift,      \* bound on the drifts
  NoTier,        \* fewer than three competitors are reachable
  NoRec,         \* run_once holds no recommendation
  InitialAsks,   \* the ask_spread at the start
  MarketMoves,   \* may the market change?
  ConfigMoves,   \* may the operator save another configuration?
  Outages,       \* may the CEX prices be missing?
  QuotesMissed   \* may asb be down when a recommendation asks for its quote?

\* What recommend loads from spread_optimizer_config: any numbers.
Config == [min_spread : Int, max_spread : Int, step_size_max : Int,
           target_profit : Int, recycle_cost : Int, chain_fees : Int,
           auto_apply : BOOLEAN]

\* gamma * sigma, gamma * |skew| * sigma * 2, the third cheapest competitor's
\* spread, and the average swap size in USD.
Market == [vol_term : Int, inventory_term : Int, tier1 : Int \cup {NoTier},
           avg_swap_usd : Nat]

\* A row of spread_recommendations, as its writer reads it again.
Rec == [current : Int, recommended : Int]

AbsDiff(a, b) == IF a <= b THEN b - a ELSE a - b

ASSUME OptimizerAssumption ==
  /\ Configs \subseteq Config
  /\ NoTier \notin Int
  /\ NoRec \notin Rec
  /\ Markets \subseteq Market
  /\ Drifts \subseteq Int
  /\ MaxDrift \in Nat
  /\ \A d \in Drifts : AbsDiff(d, 0) <= MaxDrift
  /\ InitialAsks \subseteq Int
  /\ {MarketMoves, ConfigMoves, Outages, QuotesMissed} \subseteq BOOLEAN

VARIABLES
  cfg,      \* the row of spread_optimizer_config
  market,   \* the inputs recommend reads
  ask,      \* ask_spread in the ConfigMap
  up,       \* is asb up, running that ask_spread?
  priced,   \* does the price cache hold a BTC/XMR mid?
  held      \* the recommendation run_once saved and has not decided on

vars == <<cfg, market, ask, up, priced, held>>

-----------------------------------------------------------------------------
(* The formula                                                             *)

Higher(a, b) == IF a <= b THEN b ELSE a
Lower(a, b)  == IF a <= b THEN a ELSE b

\* Decimal::round_dp of a quotient, b > 0: to nearest, ties to even.
RoundedQuotient(a, b) ==
  LET q == a \div b
      twice == 2 * (a % b)
  IN  IF twice < b \/ (twice = b /\ q % 2 = 0) THEN q ELSE q + 1

\* A cost in USD as a spread on the average swap.
SpreadOf(usd, mk) == RoundedQuotient(10000 * usd, mk.avg_swap_usd)

Floor(c, mk) ==
  IF mk.avg_swap_usd = 0 THEN c.min_spread
  ELSE SpreadOf(c.chain_fees + c.recycle_cost + c.target_profit, mk)

MarginTerm(c, mk) ==
  IF mk.avg_swap_usd = 0 THEN 0 ELSE SpreadOf(c.target_profit, mk)

\* Half of the headroom below the tier-1 cutoff.
CompetitorTerm(mk) ==
  IF mk.tier1 = NoTier THEN 0
  ELSE LET headroom == mk.tier1 - mk.vol_term - mk.inventory_term
       IN  IF mk.tier1 > 0 /\ headroom > 0 THEN RoundedQuotient(headroom, 2) ELSE 0

Raw(c, mk) ==
  Higher(Floor(c, mk),
         mk.vol_term + mk.inventory_term + CompetitorTerm(mk) + MarginTerm(c, mk))

\* Slip: only the ceiling is enforced.
ClampedAbove(c, raw) == Lower(raw, c.max_spread)

Clamped(c, raw) == Lower(Higher(raw, c.min_spread), c.max_spread)

\* Slip: the step is added when tightening too.
StepCappedUp(c, clamped, current) ==
  IF AbsDiff(clamped, current) <= c.step_size_max THEN clamped
  ELSE current + c.step_size_max

StepCapped(c, clamped, current) ==
  IF AbsDiff(clamped, current) <= c.step_size_max THEN clamped
  ELSE IF clamped > current THEN current + c.step_size_max
  ELSE current - c.step_size_max

\* Where the recommendations head as long as nothing changes.
Target(c, mk) == Clamped(c, Raw(c, mk))

Recommended(c, mk, current) == StepCapped(c, Target(c, mk), current)

\* Slip: the noise floor swallows changes up to the whole step.
MeaningfulStep(c, r) == AbsDiff(r.recommended, r.current) > c.step_size_max

\* The poller skips changes of less than a tenth of the step.
Meaningful(c, r) == 10 * AbsDiff(r.recommended, r.current) >= c.step_size_max

-----------------------------------------------------------------------------
(* The cycle                                                               *)

\* current_spread: asb's quote against the mid, and 0 when either is missing.
Currents == IF up /\ priced THEN {ask + d : d \in Drifts} ELSE {0}

Recommendation(current) ==
  [current |-> current, recommended |-> Recommended(cfg, market, current)]

Init ==
  /\ cfg \in Configs
  /\ market \in Markets
  /\ ask \in InitialAsks
  /\ up = TRUE
  /\ priced = TRUE
  /\ held = NoRec

Deciding == held # NoRec

\* run_once computes and saves a recommendation.
TickRecommend ==
  /\ ~Deciding
  /\ up \/ QuotesMissed
  /\ \E current \in Currents : held' = Recommendation(current)
  /\ UNCHANGED <<cfg, market, ask, up, priced>>

\* The configuration is read a second time to decide.
Wanted == cfg.auto_apply /\ Meaningful(cfg, held)

TickSkip ==
  /\ Deciding
  /\ ~Wanted
  /\ held' = NoRec
  /\ UNCHANGED <<cfg, market, ask, up, priced>>

\* A recent apply or a swap in flight puts the apply off.
TickDefer ==
  /\ Deciding
  /\ Wanted
  /\ held' = NoRec
  /\ UNCHANGED <<cfg, market, ask, up, priced>>

\* apply_recommendation: the ConfigMap is rewritten and asb restarted.
Apply(recommended) ==
  /\ ask' = recommended
  /\ up' = FALSE

\* The poller applies the recommendation it holds, by the id of its row.
TickApply ==
  /\ Deciding
  /\ Wanted
  /\ Apply(held.recommended)
  /\ held' = NoRec
  /\ UNCHANGED <<cfg, market, priced>>

\* The "Apply now" button: recommend, save and apply, without any check, and
\* whatever the poller is doing.
ManualApply ==
  /\ up \/ QuotesMissed
  /\ \E current \in Currents : Apply(Recommendation(current).recommended)
  /\ UNCHANGED <<cfg, market, priced, held>>

\* Any numbers are accepted.
SaveConfig ==
  /\ ConfigMoves
  /\ cfg' \in Configs
  /\ UNCHANGED <<market, ask, up, priced, held>>

AsbComesUp ==
  /\ ~up
  /\ up' = TRUE
  /\ UNCHANGED <<cfg, market, ask, priced, held>>

\* asb goes down, or stops answering, by itself.
AsbGoesDown ==
  /\ QuotesMissed
  /\ up
  /\ up' = FALSE
  /\ UNCHANGED <<cfg, market, ask, priced, held>>

MarketChanges ==
  /\ MarketMoves
  /\ market' \in Markets
  /\ UNCHANGED <<cfg, ask, up, priced, held>>

PricesComeAndGo ==
  /\ Outages
  /\ priced' = ~priced
  /\ UNCHANGED <<cfg, market, ask, up, held>>

Next ==
  \/ TickRecommend
  \/ TickSkip
  \/ TickDefer
  \/ TickApply
  \/ ManualApply
  \/ SaveConfig
  \/ AsbComesUp
  \/ AsbGoesDown
  \/ MarketChanges
  \/ PricesComeAndGo

Spec == Init /\ [][Next]_vars

\* The poller keeps ticking and Kubernetes brings asb back up.  An apply is
\* not put off for ever: the cooldown passes, and the wallet is quiet at some
\* of the ticks.  The operator need not do anything.
FairSpec ==
  /\ Spec
  /\ WF_vars(TickRecommend)
  /\ WF_vars(TickSkip \/ TickDefer \/ TickApply)
  /\ SF_vars(TickApply)
  /\ WF_vars(AsbComesUp)

-----------------------------------------------------------------------------
(* Properties                                                              *)

TypeOK ==
  /\ cfg \in Configs
  /\ market \in Markets
  /\ ask \in Int
  /\ up \in BOOLEAN
  /\ priced \in BOOLEAN
  /\ held \in Rec \cup {NoRec}

\* save_config does not check that the bounds make a band, nor that the step
\* is positive.
HasBand(c) == c.min_spread <= c.max_spread

\* How far a spread is from the band an operator configured.
OutsideBy(c, spread) ==
  IF spread < c.min_spread THEN c.min_spread - spread
  ELSE IF spread > c.max_spread THEN spread - c.max_spread
  ELSE 0

\* A move by the step at most and never away from the band: inside it stays
\* inside, outside it gets nearer.
TowardBand(from, to) ==
  cfg.step_size_max >= 0 =>
    /\ AbsDiff(to, from) <= cfg.step_size_max
    /\ HasBand(cfg) => OutsideBy(cfg, to) <= OutsideBy(cfg, from)

\* Whatever is saved, missing or down, a recommendation moves toward the band
\* of the configuration it is made with, measured from the current spread it
\* was told (spread_optimizer.rs:260-272).
RecommendationTowardBand ==
  [][/\ TickRecommend => TowardBand(held'.current, held'.recommended)
     /\ ManualApply => \E current \in Currents : TowardBand(current, ask')]_vars

\* While asb answers and its quote is within a step of the console's mid,
\* applying recommendations never takes ask_spread out of the configured band,
\* however the market moves and whoever applies what was recommended earlier
\* (up.sql:11, "Hard floor / ceiling").  The run opt_rolling shows that it does
\* while asb is away.
AskInBand == HasBand(cfg) => ask \in cfg.min_spread .. cfg.max_spread

\* How far ask_spread is from the clamped formula.
Gap == AbsDiff(ask, Target(cfg, market))

\* As near as the noise floor and the drift let the poller get.
NearTarget == 10 * Gap < cfg.step_size_max + 10 * MaxDrift

Recommends == TickRecommend \/ ManualApply

\* Once the configuration and the prices stay and asb answers when it is asked
\* for its quote, automatic applies end up at the clamped formula, up to the
\* changes the poller deems too small to make and to what asb's price differs
\* from the console's, as long as that is less than a step (pollers/
\* spread_optimizer.rs:58-62).
Settles ==
  <>[][FALSE]_<<cfg, priced>> /\ <>[][Recommends => up]_vars =>
    <>[](cfg.auto_apply /\ priced /\ cfg.step_size_max > MaxDrift => NearTarget)
=============================================================================
