----------------------- MODULE SpreadOptimizerProofs -----------------------
(***************************************************************************)
(* What SpreadOptimizer promises for every configuration, market, drift    *)
(* and spread, not only for those TLC enumerates.  That the applies settle *)
(* is proved assuming the fair steps possible where their guards hold      *)
(* (PollerGoesOn).                                                         *)
(***************************************************************************)
EXTENDS SpreadOptimizer, TLAPS

-----------------------------------------------------------------------------
(* The formula                                                             *)

\* Decimal::round_dp of a quotient is a number again.
LEMMA RoundedQuotientType ==
  ASSUME NEW a \in Int, NEW b \in Nat, b > 0
  PROVE  RoundedQuotient(a, b) \in Int
<1>1. a \div b \in Int
  OBVIOUS
<1> QED BY <1>1 DEF RoundedQuotient

\* Every term of the formula is a number, so the unclamped spread is one.
LEMMA RawType ==
  ASSUME NEW c \in Config, NEW mk \in Market
  PROVE  Raw(c, mk) \in Int
<1> USE DEF Config, Market
<1>1. ASSUME mk.avg_swap_usd # 0, NEW usd \in Int
      PROVE  SpreadOf(usd, mk) \in Int
  BY <1>1, RoundedQuotientType DEF SpreadOf
<1>2. Floor(c, mk) \in Int
  BY <1>1 DEF Floor
<1>3. MarginTerm(c, mk) \in Int
  BY <1>1 DEF MarginTerm
<1>4. CompetitorTerm(mk) \in Int
  <2>1. CASE mk.tier1 = NoTier
    BY <2>1 DEF CompetitorTerm
  <2>2. CASE mk.tier1 # NoTier
    <3> DEFINE headroom == mk.tier1 - mk.vol_term - mk.inventory_term
    <3>1. headroom \in Int
      BY <2>2
    <3>2. headroom > 0 => RoundedQuotient(headroom, 2) \in Int
      BY <3>1, RoundedQuotientType
    <3> QED BY <2>2, <3>1, <3>2 DEF CompetitorTerm
  <2> QED BY <2>1, <2>2
<1> QED BY <1>2, <1>3, <1>4 DEF Raw, Higher

\* The clamp ends between the bounds, whatever goes in.
LEMMA TargetInBand ==
  ASSUME NEW c \in Config, NEW mk \in Market
  PROVE  /\ Target(c, mk) \in Int
         /\ HasBand(c) => Target(c, mk) \in c.min_spread .. c.max_spread
BY RawType DEF Target, Clamped, Higher, Lower, HasBand, Config

\* The step cap bounds the move and never leads away from the band.
LEMMA StepTowardBand ==
  ASSUME NEW c \in Config, NEW mk \in Market, NEW current \in Int
  PROVE  /\ Recommended(c, mk, current) \in Int
         /\ c.step_size_max >= 0 =>
              /\ AbsDiff(Recommended(c, mk, current), current) <= c.step_size_max
              /\ HasBand(c) =>
                   OutsideBy(c, Recommended(c, mk, current)) <= OutsideBy(c, current)
<1> DEFINE target == Target(c, mk)
<1>1. /\ target \in Int
      /\ HasBand(c) => target \in c.min_spread .. c.max_spread
  BY TargetInBand
<1>2. c.step_size_max \in Int /\ c.min_spread \in Int /\ c.max_spread \in Int
  BY DEF Config
<1> HIDE DEF target
<1>3. /\ StepCapped(c, target, current) \in Int
      /\ c.step_size_max >= 0 =>
           AbsDiff(StepCapped(c, target, current), current) <= c.step_size_max
  BY <1>1, <1>2 DEF StepCapped, AbsDiff
<1>4. c.step_size_max >= 0 /\ HasBand(c) =>
        OutsideBy(c, StepCapped(c, target, current)) <= OutsideBy(c, current)
  BY <1>1, <1>2 DEF StepCapped, AbsDiff, OutsideBy, HasBand
<1> QED BY <1>3, <1>4 DEF Recommended, target

\* From at most a step outside the band, a recommendation is inside.
LEMMA StepIntoBand ==
  ASSUME NEW c \in Config, NEW mk \in Market, NEW current \in Int, HasBand(c),
         OutsideBy(c, current) <= c.step_size_max
  PROVE  Recommended(c, mk, current) \in c.min_spread .. c.max_spread
<1> DEFINE target == Target(c, mk)
<1>1. target \in c.min_spread .. c.max_spread /\ target \in Int
  BY TargetInBand
<1>2. c.step_size_max \in Int /\ c.min_spread \in Int /\ c.max_spread \in Int
  BY DEF Config
<1> HIDE DEF target
<1>3. StepCapped(c, target, current) \in c.min_spread .. c.max_spread
  BY <1>1, <1>2 DEF StepCapped, AbsDiff, OutsideBy, HasBand
<1> QED BY <1>3 DEF Recommended, target

-----------------------------------------------------------------------------
(* Types and recommendations, with no assumption on the environment        *)

\* What recommend returns has its type and moves toward the band.
LEMMA RecommendationSound ==
  ASSUME TypeOK, NEW current \in Currents
  PROVE  /\ current \in Int
         /\ Recommendation(current) \in Rec
         /\ Recommendation(current).current = current
         /\ Recommendation(current).recommended = Recommended(cfg, market, current)
         /\ TowardBand(current, Recommendation(current).recommended)
<1>1. current \in Int
  BY OptimizerAssumption DEF TypeOK, Currents
<1>2. cfg \in Config /\ market \in Market
  BY OptimizerAssumption DEF TypeOK
<1> QED BY <1>1, <1>2, StepTowardBand DEF Recommendation, TowardBand, Rec

\* A step either makes a recommendation or leaves what is held alone or drops
\* it.
LEMMA StepTypeOK == TypeOK /\ [Next]_vars => TypeOK'
<1> SUFFICES ASSUME TypeOK, [Next]_vars PROVE TypeOK'
  OBVIOUS
<1>1. CASE TickRecommend
  BY <1>1, RecommendationSound DEF TickRecommend, TypeOK
<1>2. CASE TickSkip \/ TickDefer
  BY <1>2 DEF TickSkip, TickDefer, TypeOK
<1>3. CASE TickApply
  BY <1>3 DEF TickApply, Apply, TypeOK, Deciding, Rec
<1>4. CASE ManualApply
  BY <1>4, RecommendationSound DEF ManualApply, Apply, TypeOK, Rec
<1>5. CASE SaveConfig \/ AsbComesUp \/ AsbGoesDown
  BY <1>5 DEF SaveConfig, AsbComesUp, AsbGoesDown, TypeOK
<1>6. CASE MarketChanges \/ PricesComeAndGo
  BY <1>6 DEF MarketChanges, PricesComeAndGo, TypeOK
<1>7. CASE UNCHANGED vars
  BY <1>7 DEF vars, TypeOK
<1> QED BY <1>1, <1>2, <1>3, <1>4, <1>5, <1>6, <1>7 DEF Next

LEMMA TypesHold == Spec => []TypeOK
<1>1. Init => TypeOK
  BY OptimizerAssumption DEF Init, TypeOK
<1> QED BY <1>1, StepTypeOK, PTL DEF Spec

\* Whatever the market, the configuration and asb do, a recommendation is
\* within a step of the current spread and no farther from the band
\* (spread_optimizer.rs:260-272).
THEOREM RecommendationsHeadForTheBand == Spec => RecommendationTowardBand
<1> DEFINE Toward == /\ TickRecommend => TowardBand(held'.current, held'.recommended)
                     /\ ManualApply => \E current \in Currents : TowardBand(current, ask')
<1>1. TypeOK => Toward
  <2>1. ASSUME TypeOK, TickRecommend
        PROVE  TowardBand(held'.current, held'.recommended)
    BY <2>1, RecommendationSound DEF TickRecommend
  <2>2. ASSUME TypeOK, ManualApply
        PROVE  \E current \in Currents : TowardBand(current, ask')
    BY <2>2, RecommendationSound DEF ManualApply, Apply
  <2> QED BY <2>1, <2>2
<1> QED BY <1>1, TypesHold, PTL DEF RecommendationTowardBand

-----------------------------------------------------------------------------
(* With asb's quote within a step of its ask_spread on the console's mid   *)

\* The console has a quote and a mid whenever it recommends, and they are off
\* by no more than the step.  The configuration stays, and asb starts within
\* its bounds.
QuoteNearMid ==
  /\ ~ConfigMoves /\ ~Outages /\ ~QuotesMissed
  /\ \A c \in Configs : MaxDrift <= c.step_size_max
  /\ \A c \in Configs, a \in InitialAsks : HasBand(c) => a \in c.min_spread .. c.max_spread

\* ask_spread and the recommendation the poller holds are in the band.
BandInv ==
  /\ TypeOK
  /\ priced = TRUE
  /\ HasBand(cfg) =>
       /\ ask \in cfg.min_spread .. cfg.max_spread
       /\ Deciding => held.recommended \in cfg.min_spread .. cfg.max_spread

\* A quote within a step of a spread in the band leads into the band.
LEMMA NextRecommendation ==
  ASSUME QuoteNearMid, BandInv, up, HasBand(cfg), NEW current \in Currents
  PROVE  Recommendation(current).recommended \in cfg.min_spread .. cfg.max_spread
<1>1. cfg \in Config /\ market \in Market /\ ask \in Int
  BY OptimizerAssumption DEF BandInv, TypeOK
<1>2. PICK d \in Drifts : current = ask + d
  BY DEF BandInv, Currents
<1>3. d \in Int /\ MaxDrift \in Nat /\ AbsDiff(d, 0) <= MaxDrift
  BY OptimizerAssumption
<1>4. MaxDrift <= cfg.step_size_max
  BY DEF QuoteNearMid, BandInv, TypeOK
<1>5. OutsideBy(cfg, current) <= cfg.step_size_max
  BY <1>1, <1>2, <1>3, <1>4 DEF OutsideBy, AbsDiff, BandInv, Config
<1>6. Recommended(cfg, market, current) \in cfg.min_spread .. cfg.max_spread
  BY <1>1, <1>2, <1>3, <1>5, StepIntoBand
<1> QED BY <1>6, RecommendationSound DEF BandInv

\* Every apply writes a recommendation made from within a step of the band.
LEMMA BandInvStep ==
  ASSUME QuoteNearMid
  PROVE  BandInv /\ [Next]_vars => BandInv'
<1> SUFFICES ASSUME BandInv, [Next]_vars PROVE BandInv'
  OBVIOUS
<1>0. TypeOK /\ TypeOK'
  BY StepTypeOK DEF BandInv
<1>1. CASE TickRecommend
  <2>1. up
    BY <1>0, <1>1, OptimizerAssumption DEF TickRecommend, QuoteNearMid, TypeOK
  <2>2. HasBand(cfg) => held'.recommended \in cfg.min_spread .. cfg.max_spread
    BY <1>1, <2>1, NextRecommendation DEF TickRecommend
  <2> QED BY <1>0, <1>1, <2>2 DEF TickRecommend, BandInv
<1>2. CASE TickSkip \/ TickDefer
  BY <1>0, <1>2 DEF TickSkip, TickDefer, BandInv, Deciding
<1>3. CASE TickApply
  BY <1>0, <1>3 DEF TickApply, Apply, BandInv, Deciding
<1>4. CASE ManualApply
  <2>1. up
    BY <1>0, <1>4, OptimizerAssumption DEF ManualApply, QuoteNearMid, TypeOK
  <2>2. HasBand(cfg) => ask' \in cfg.min_spread .. cfg.max_spread
    BY <1>4, <2>1, NextRecommendation DEF ManualApply, Apply
  <2> QED BY <1>0, <1>4, <2>2 DEF ManualApply, BandInv, Deciding
<1>5. CASE SaveConfig \/ PricesComeAndGo \/ AsbGoesDown
  BY <1>5 DEF SaveConfig, PricesComeAndGo, AsbGoesDown, QuoteNearMid
<1>6. CASE AsbComesUp \/ MarketChanges
  BY <1>0, <1>6 DEF AsbComesUp, MarketChanges, BandInv, Deciding
<1>7. CASE UNCHANGED vars
  BY <1>0, <1>7 DEF vars, BandInv, Deciding
<1> QED BY <1>1, <1>2, <1>3, <1>4, <1>5, <1>6, <1>7 DEF Next

\* As long as asb answers and its quote is within a step of its ask_spread on
\* the console's mid, no sequence of applies takes ask_spread out of the band
\* (up.sql:11), for any market and whoever applies when.  A quote
\* farther off does: with the spread at 150 and a quote of 120, a step of 25
\* leads to 145.
THEOREM AppliesStayInBand ==
  ASSUME QuoteNearMid
  PROVE  Spec => []AskInBand
<1>1. BandInv => AskInBand
  BY DEF BandInv, AskInBand
<1>2. Init => BandInv
  BY OptimizerAssumption DEF QuoteNearMid, Init, BandInv, TypeOK, Deciding
<1>3. BandInv /\ [Next]_vars => BandInv'
  BY BandInvStep
<1> QED BY <1>1, <1>2, <1>3, PTL DEF Spec

-----------------------------------------------------------------------------
(* The applies end                                                         *)

\* The poller can go on: recommend while asb is up (or is not asked), decide,
\* apply what it wants, and asb can come back.
PollerGoesOn ==
  /\ ~Deciding /\ (up \/ QuotesMissed) => ENABLED <<TickRecommend>>_vars
  /\ Deciding => ENABLED <<TickSkip \/ TickDefer \/ TickApply>>_vars
  /\ Deciding /\ Wanted => ENABLED <<TickApply>>_vars
  /\ ~up => ENABLED <<AsbComesUp>>_vars

\* How far from the clamped formula what the poller holds would lead, and how
\* far the spread in force or what is held is at most.
HeldGap == AbsDiff(held.recommended, Target(cfg, market))
Reach == IF Deciding THEN Higher(Gap, HeldGap) ELSE Gap

\* A natural number that only gets smaller stops changing.
ReachStops == <>[][Reach' < Reach]_Reach => <>[][FALSE]_Reach

\* Automatic applies are on and move by more than the drift.
Applying == cfg.auto_apply /\ priced /\ cfg.step_size_max > MaxDrift

NearReach == 10 * Reach < cfg.step_size_max + 10 * MaxDrift

\* What is held would be applied and lead nearer.
Timely == Deciding => Meaningful(cfg, held) /\ HeldGap < Reach

CanTick == up \/ QuotesMissed

\* The distances are natural numbers, as ReachStops needs them.
LEMMA ReachIsNatural ==
  ASSUME TypeOK
  PROVE  /\ Gap \in Nat /\ Reach \in Nat /\ Gap <= Reach
         /\ Deciding => HeldGap \in Nat /\ HeldGap <= Reach
<1>1. cfg \in Config /\ market \in Market /\ ask \in Int
  BY OptimizerAssumption DEF TypeOK
<1>2. Target(cfg, market) \in Int
  BY <1>1, TargetInBand
<1>3. Gap \in Nat
  BY <1>1, <1>2 DEF Gap, AbsDiff
<1>4. Deciding => HeldGap \in Nat
  BY <1>2 DEF TypeOK, Deciding, Rec, HeldGap, AbsDiff
<1> QED BY <1>3, <1>4 DEF Reach, Higher

\* What the step cap makes of a target seen from a spread that is off by less
\* than the step: nearer than before or at the target, and wanted where the
\* target is far.
LEMMA StepApproaches ==
  ASSUME NEW step \in Int, NEW c \in Config, c.step_size_max = step,
         NEW drift \in Nat, step > drift,
         NEW target \in Int, NEW spread \in Int, NEW current \in Int,
         AbsDiff(current, spread) <= drift
  PROVE  LET next == StepCapped(c, target, current) IN
           /\ next \in Int
           /\ AbsDiff(next, target) <= AbsDiff(spread, target)
           /\ 10 * AbsDiff(spread, target) >= step + 10 * drift =>
                /\ AbsDiff(next, target) < AbsDiff(spread, target)
                /\ 10 * AbsDiff(next, current) >= step
<1> DEFINE next == StepCapped(c, target, current)
<1>1. CASE AbsDiff(target, current) <= step
  <2>1. next = target
    BY <1>1 DEF StepCapped
  <2> QED BY <2>1 DEF AbsDiff
<1>2. CASE ~(AbsDiff(target, current) <= step) /\ target > current
  <2>1. next = current + step
    BY <1>2 DEF StepCapped
  <2> QED BY <1>2, <2>1 DEF AbsDiff
<1>3. CASE ~(AbsDiff(target, current) <= step) /\ ~(target > current)
  <2>1. next = current - step
    BY <1>3 DEF StepCapped
  <2> QED BY <1>3, <2>1 DEF AbsDiff
<1> QED BY <1>1, <1>2, <1>3

\* A recommendation made while asb answers leads no farther, and nearer where
\* the formula is far.
LEMMA RecommendationApproaches ==
  ASSUME TypeOK, Applying, up, NEW current \in Currents
  PROVE  LET r == Recommendation(current) IN
           /\ AbsDiff(r.recommended, Target(cfg, market)) \in Nat
           /\ AbsDiff(r.recommended, Target(cfg, market)) <= Gap
           /\ ~NearTarget => /\ AbsDiff(r.recommended, Target(cfg, market)) < Gap
                             /\ Meaningful(cfg, r)
<1>1. cfg \in Config /\ market \in Market /\ ask \in Int
  BY OptimizerAssumption DEF TypeOK
<1>2. Target(cfg, market) \in Int /\ cfg.step_size_max \in Int
  BY <1>1, TargetInBand DEF Config
<1>3. PICK d \in Drifts : current = ask + d
  BY DEF Currents, Applying
<1>4. /\ d \in Int /\ MaxDrift \in Nat /\ AbsDiff(d, 0) <= MaxDrift
      /\ cfg.step_size_max > MaxDrift
  BY OptimizerAssumption DEF Applying
<1>5. current \in Int /\ AbsDiff(current, ask) <= MaxDrift
  BY <1>1, <1>3, <1>4 DEF AbsDiff
<1> DEFINE target == Target(cfg, market)
           next == StepCapped(cfg, target, current)
<1>6. /\ next \in Int
      /\ AbsDiff(next, target) <= AbsDiff(ask, target)
      /\ 10 * AbsDiff(ask, target) >= cfg.step_size_max + 10 * MaxDrift =>
           /\ AbsDiff(next, target) < AbsDiff(ask, target)
           /\ 10 * AbsDiff(next, current) >= cfg.step_size_max
  BY <1>1, <1>2, <1>4, <1>5, StepApproaches
<1>7. Recommendation(current).recommended = next /\ Recommendation(current).current = current
  BY DEF Recommendation, Recommended
<1>8. AbsDiff(next, target) \in Nat /\ AbsDiff(ask, target) \in Nat
  BY <1>1, <1>2, <1>6 DEF AbsDiff
<1> HIDE DEF next, target
<1> QED BY <1>2, <1>4, <1>6, <1>7, <1>8 DEF NearTarget, Gap, Meaningful, target

\* While configuration and prices stay, applies are on and asb answers, the
\* reach does not grow; and while it stays and is not near, only timely
\* recommendations are held and none is applied.
LEMMA ApplyingInOrder ==
  ASSUME ~MarketMoves, TypeOK, [Next]_vars, [FALSE]_<<cfg, priced>>,
         Recommends => up, Applying
  PROVE  /\ Applying'
         /\ [Reach' < Reach]_Reach
         /\ [FALSE]_Reach => (NearReach <=> NearReach')
         /\ [FALSE]_Reach /\ Timely /\ ~NearReach =>
              Timely' /\ ~TickApply /\ (CanTick => CanTick')
<1>1. cfg' = cfg /\ priced' = priced /\ market' = market
  BY DEF Next, TickRecommend, TickSkip, TickDefer, TickApply, ManualApply, SaveConfig,
         AsbComesUp, AsbGoesDown, MarketChanges, PricesComeAndGo, vars
<1>2. Applying' /\ ([FALSE]_Reach => (NearReach <=> NearReach'))
  BY <1>1 DEF Applying, NearReach
<1>3. /\ Gap \in Nat /\ Reach \in Nat /\ Gap <= Reach
      /\ Deciding => HeldGap \in Nat /\ HeldGap <= Reach
  BY ReachIsNatural
<1>4. Target(cfg, market)' = Target(cfg, market)
  BY <1>1
<1>5. CASE TickRecommend
  <2>1. PICK current \in Currents : held' = Recommendation(current)
    BY <1>5 DEF TickRecommend
  <2>2. up /\ ~Deciding /\ Deciding' /\ ask' = ask /\ Reach = Gap /\ Gap' = Gap
    <3>1. held' \in Rec
      BY <2>1, RecommendationSound
    <3> QED BY <1>4, <1>5, <3>1, OptimizerAssumption
            DEF TickRecommend, Recommends, Deciding, Reach, Gap
  <2>3. HeldGap' = AbsDiff(Recommendation(current).recommended, Target(cfg, market))
    BY <1>4, <2>1 DEF HeldGap
  <2>4. HeldGap' \in Nat /\ HeldGap' <= Gap /\ (~NearTarget => HeldGap' < Gap /\ Meaningful(cfg, held'))
    BY <2>1, <2>2, <2>3, RecommendationApproaches
  <2>5. Reach' = Reach
    BY <1>3, <2>2, <2>4 DEF Reach, Higher
  <2>6. NearTarget <=> NearReach
    BY <2>2 DEF NearTarget, NearReach
  <2>7. ~NearReach => Timely'
    BY <1>1, <2>2, <2>4, <2>5, <2>6 DEF Timely, Meaningful
  <2> QED BY <1>2, <1>5, <2>5, <2>7 DEF TickRecommend, TickApply, CanTick
<1>6. CASE TickApply
  <2>1. Deciding /\ ~Deciding' /\ Gap' = HeldGap
    BY <1>4, <1>6 DEF TickApply, Apply, Gap, HeldGap, Deciding
  <2>2. Reach' = HeldGap
    BY <2>1 DEF Reach
  <2>3. Reach' = Reach => ~Timely
    BY <1>3, <2>1, <2>2 DEF Timely
  <2> QED BY <1>2, <1>3, <2>1, <2>2, <2>3
<1>7. CASE ManualApply
  <2>1. PICK current \in Currents : ask' = Recommendation(current).recommended
    BY <1>7 DEF ManualApply, Apply
  <2>2. up /\ held' = held /\ Deciding' = Deciding /\ HeldGap' = HeldGap
    BY <1>4, <1>7 DEF ManualApply, Recommends, Deciding, HeldGap
  <2>3. Gap' = AbsDiff(Recommendation(current).recommended, Target(cfg, market))
    BY <1>4, <2>1 DEF Gap
  <2>4. Gap' \in Nat /\ Gap' <= Gap /\ (~NearTarget => Gap' < Gap)
    BY <2>2, <2>3, RecommendationApproaches
  <2>5. Reach' \in Nat /\ Reach' <= Reach
    BY <1>3, <2>2, <2>4 DEF Reach, Higher
  <2>6. ASSUME Timely, ~NearReach PROVE Reach' < Reach
    <3>1. Reach = Gap /\ (Deciding => HeldGap < Reach)
      BY <1>3, <2>6 DEF Timely, Reach, Higher
    <3>2. Gap' < Gap
      BY <2>4, <2>6, <3>1 DEF NearTarget, NearReach
    <3> QED BY <1>3, <2>2, <2>4, <3>1, <3>2 DEF Reach, Higher
  <2> QED BY <1>2, <1>3, <2>5, <2>6
<1>8. CASE TickSkip \/ TickDefer
  <2>1. ~Deciding' /\ ask' = ask /\ up' = up /\ Gap' = Gap
    BY <1>4, <1>8 DEF TickSkip, TickDefer, Deciding, Gap
  <2>2. Reach' = Gap
    BY <2>1 DEF Reach
  <2>3. TickApply /\ Timely => Reach' # Reach
    <3>1. TickApply => Gap' = HeldGap
      BY <1>4 DEF TickApply, Apply, Gap, HeldGap
    <3> QED BY <1>3, <2>1, <2>2, <3>1 DEF Timely, TickApply
  <2> QED BY <1>2, <1>3, <2>1, <2>2, <2>3 DEF Timely, CanTick
<1>9. CASE SaveConfig \/ AsbComesUp \/ AsbGoesDown \/ MarketChanges
             \/ PricesComeAndGo \/ UNCHANGED vars
  <2>1. /\ ask' = ask /\ held' = held
        /\ up => up' \/ QuotesMissed
    BY <1>9 DEF SaveConfig, AsbComesUp, AsbGoesDown, MarketChanges, PricesComeAndGo, vars
  <2>2. Deciding' = Deciding /\ Gap' = Gap /\ HeldGap' = HeldGap
    BY <1>4, <2>1 DEF Deciding, Gap, HeldGap
  <2>3. Reach' = Reach /\ (Timely => Timely')
    BY <1>1, <2>1, <2>2 DEF Reach, Timely, Meaningful
  <2>4. ~TickApply
    BY <2>1 DEF TickApply, Deciding
  <2> QED BY <1>2, <2>1, <2>3, <2>4 DEF CanTick
<1> QED BY <1>5, <1>6, <1>7, <1>8, <1>9 DEF Next

\* In a market that stays, automatic applies end up at the clamped formula, up
\* to the noise floor and the drift, once the configuration and the prices stay
\* and asb answers (pollers/spread_optimizer.rs:58-62), whatever was saved,
\* missing, down or clicked before.
THEOREM AppliesSettle ==
  ASSUME ~MarketMoves
  PROVE  FairSpec /\ []PollerGoesOn /\ ReachStops => Settles
<1>1. Spec => []TypeOK
  BY TypesHold
<1>2. ASSUME TypeOK, [Next]_vars, [FALSE]_<<cfg, priced>>, [Recommends => up]_vars, Applying
      PROVE  /\ Applying'
             /\ [Reach' < Reach]_Reach
             /\ [FALSE]_Reach => (NearReach <=> NearReach')
             /\ [FALSE]_Reach /\ Timely /\ ~NearReach =>
                  Timely' /\ ~<<TickApply>>_vars /\ (CanTick => CanTick')
  <2>1. CASE UNCHANGED vars
    <3>1. UNCHANGED <<cfg, market, ask, up, priced, held>>
      BY <2>1 DEF vars
    <3>2. Applying' = Applying /\ Reach' = Reach /\ NearReach' = NearReach
      BY <3>1 DEF Applying, Reach, NearReach, Gap, HeldGap, Deciding
    <3>3. Timely' = Timely /\ CanTick' = CanTick
      BY <3>1, <3>2 DEF Timely, HeldGap, Deciding, Meaningful, CanTick
    <3> QED BY <1>2, <2>1, <3>2, <3>3
  <2>2. CASE Recommends => up
    BY <1>2, <2>2, ApplyingInOrder
  <2> QED BY <1>2, <2>1, <2>2
<1>3. ~Deciding => Timely
  BY DEF Timely
<1>4. Timely /\ Applying /\ Deciding => Wanted
  BY DEF Timely, Applying, Wanted
<1>5. <<TickSkip \/ TickDefer \/ TickApply>>_vars => ~Deciding'
  BY DEF TickSkip, TickDefer, TickApply, Deciding
<1>6. /\ TypeOK /\ <<TickRecommend>>_vars => Deciding'
      /\ <<AsbComesUp>>_vars => CanTick'
  <2>1. TypeOK /\ TickRecommend => held' \in Rec
    BY RecommendationSound DEF TickRecommend
  <2> QED BY <2>1, OptimizerAssumption DEF AsbComesUp, Deciding, CanTick
<1>7. PollerGoesOn =>
        /\ ~Deciding /\ CanTick => ENABLED <<TickRecommend>>_vars
        /\ Deciding => ENABLED <<TickSkip \/ TickDefer \/ TickApply>>_vars
        /\ Deciding /\ Wanted => ENABLED <<TickApply>>_vars
        /\ ~CanTick => ENABLED <<AsbComesUp>>_vars
  BY DEF PollerGoesOn, CanTick
<1>8. Applying <=> cfg.auto_apply /\ priced /\ cfg.step_size_max > MaxDrift
  BY DEF Applying
<1>9. ASSUME [FALSE]_<<cfg, priced>>, ~Applying PROVE ~Applying'
  BY <1>9 DEF Applying
<1>10. TypeOK /\ NearReach /\ Applying => NearTarget
  <2> SUFFICES ASSUME TypeOK, NearReach, Applying PROVE NearTarget
    OBVIOUS
  <2>1. Gap \in Nat /\ Reach \in Nat /\ Gap <= Reach
    BY ReachIsNatural
  <2>2. cfg.step_size_max \in Int /\ MaxDrift \in Nat
    BY OptimizerAssumption DEF TypeOK, Config
  <2> QED BY <2>1, <2>2 DEF NearTarget, NearReach
<1> QED BY <1>1, <1>2, <1>3, <1>4, <1>5, <1>6, <1>7, <1>8, <1>9, <1>10, PTL
        DEF FairSpec, Spec, Settles, ReachStops
=============================================================================
