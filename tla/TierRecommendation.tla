------------------------- MODULE TierRecommendation -------------------------
(***************************************************************************)
(* The spread recommended from the latest competitor scan                  *)
(* (src/src/server/api/spread.rs, src/src/server/api/market.rs).           *)
(*                                                                         *)
(* A spread is an integer in hundredths of a percent, as the code rounds   *)
(* it.  Every row of a scan is valued at the same mid, so a scan is a      *)
(* function from its reachable peers to their spreads.                     *)
(***************************************************************************)
EXTENDS Integers, FiniteSets

CONSTANTS
  Us,      \* our own peer id
  NoTier,  \* fewer than TIER_N rows
  Unknown  \* our spread is not known: asb or the mid is missing

TIER_N            == 3
STAY_BAND_PCT     == 50
SAFETY_MARGIN_PCT == 10

ASSUME TierAssumption ==
  /\ NoTier \notin Int
  /\ Unknown \notin Int

\* competitors::latest puts our current quote among the rows of a scan that
\* does not list us, if both asb and the mid answer.
WithUs(quotes, us) ==
  IF Us \in DOMAIN quotes \/ us = Unknown THEN quotes
  ELSE [p \in DOMAIN quotes \cup {Us} |-> IF p = Us THEN us ELSE quotes[p]]

Cheaper(rows, x)    == {p \in DOMAIN rows : rows[p] < x}
NotDearer(rows, x)  == {p \in DOMAIN rows : rows[p] <= x}

\* comps.sort() and comps[TIER_N - 1]: the TIER_N-th cheapest spread.
IsTier1(rows, x) ==
  /\ Cardinality(Cheaper(rows, x)) < TIER_N
  /\ Cardinality(NotDearer(rows, x)) >= TIER_N

Cutoffs(rows) == {x \in {rows[p] : p \in DOMAIN rows} : IsTier1(rows, x)}

Tier1(rows) ==
  IF Cutoffs(rows) = {} THEN NoTier ELSE CHOOSE x \in Cutoffs(rows) : TRUE

\* Slip: the margin is added to the cutoff.
RecommendedAbove(rows, us) ==
  LET t1 == Tier1(rows)
  IN  IF us = Unknown THEN Unknown
      ELSE IF t1 = NoTier \/ us \in t1 - STAY_BAND_PCT .. t1 THEN us
      ELSE t1 + SAFETY_MARGIN_PCT

\* Stay inside the band below the cutoff; otherwise go just below the cutoff,
\* be it tighter or wider.
Recommended(rows, us) ==
  LET t1 == Tier1(rows)
  IN  IF us = Unknown THEN Unknown
      ELSE IF t1 = NoTier \/ us \in t1 - STAY_BAND_PCT .. t1 THEN us
      ELSE t1 - SAFETY_MARGIN_PCT

\* rank_by_price of market.rs and our_rank of spread.rs, which also count our
\* own row.
OurRank(rows, us) == Cardinality(Cheaper(rows, us)) + 1

-----------------------------------------------------------------------------
(* What the recommendation promises                                        *)

Rivals(quotes) == DOMAIN quotes \ {Us}

\* Where a taker who sorts by price finds us among the others.
RankAmongRivals(quotes, us) ==
  Cardinality({p \in Rivals(quotes) : quotes[p] < us}) + 1

\* With a tier to enter, the recommended spread is in it
\* (spread.rs:44-52, "to enter the top {TIER_N}").
EntersTier(quotes, us) ==
  LET rows == WithUs(quotes, us)
  IN  us # Unknown /\ Tier1(rows) # NoTier
        => RankAmongRivals(quotes, Recommended(rows, us)) <= TIER_N

\* Once it is applied and the same scan is looked at again, the advice is to
\* stay (spread.rs:53-56).
IsStable(quotes, us) ==
  LET r == Recommended(WithUs(quotes, us), us)
  IN  Recommended(WithUs(quotes, r), r) = r
=============================================================================
