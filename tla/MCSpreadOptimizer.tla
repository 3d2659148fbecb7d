------------------------- MODULE MCSpreadOptimizer -------------------------
(* Small instances of SpreadOptimizer for TLC.                             *)
EXTENDS SpreadOptimizer

DefaultConfig ==
  [min_spread |-> 150, max_spread |-> 800, step_size_max |-> 25,
   target_profit |-> 5, recycle_cost |-> 8, chain_fees |-> 5, auto_apply |-> TRUE]

DefaultOnly == {DefaultConfig}

\* A wide step, a narrow band, no automatic applies, and bounds that exclude
\* each other; in tens, to keep the spreads that can be reached few.
WideStep == [DefaultConfig EXCEPT !.max_spread = 400, !.step_size_max = 60]
SavedConfigs == {WideStep,
                 [WideStep EXCEPT !.min_spread = 300, !.max_spread = 310],
                 [WideStep EXCEPT !.step_size_max = 30, !.auto_apply = FALSE],
                 [WideStep EXCEPT !.min_spread = 300, !.max_spread = 200]}

\* A quiet market, one whose inventory and rivals push the spread up, one
\* without swaps to divide by, and one in between.
FewMarkets ==
  {[vol_term |-> 50, inventory_term |-> 0, tier1 |-> 90, avg_swap_usd |-> 3000],
   [vol_term |-> 120, inventory_term |-> 35, tier1 |-> 613, avg_swap_usd |-> 200],
   [vol_term |-> 50, inventory_term |-> 0, tier1 |-> -40, avg_swap_usd |-> 0],
   [vol_term |-> 50, inventory_term |-> 0, tier1 |-> NoTier, avg_swap_usd |-> 900]}

\* asb quotes ask_spread on its own price, which need not be the console's:
\* the same, or up to the default step off.
NoDrift    == {0}
StepDrifts == {-25, 0, 20}
FewDrifts  == {-10, 0}

InsideAsks == {150, 163, 400, 800}
FewAsks    == {0, 150, 500}
=============================================================================
