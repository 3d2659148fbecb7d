------------------------------ MODULE MCMaker ------------------------------
(* Small instances of Maker for TLC.                                       *)
EXTENDS MakerRefinement, TLC

\* The configuration in force at the start, and the ones operators submit.
InitialConfig == [ask_spread |-> 2, max_buy_btc |-> 1]
OperatorForms == {[ask_spread |-> s, max_buy_btc |-> 1] : s \in AskSpreads}

\* Invocations differ by their ids only.
Symmetry == Permutations(Requests)
=============================================================================
