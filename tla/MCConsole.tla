------------------------------ MODULE MCConsole ------------------------------
(***************************************************************************)
(* The books and the services of the console, on small instances for TLC.  *)
(* They share no state that they write, apart from balance_snapshots, and  *)
(* call none of each other, so that their interleavings add nothing: a     *)
(* behaviour is of one of them, its scene, in which the others rest.       *)
(***************************************************************************)
EXTENDS Balances, Accounting, ConnectionPool, Health, Releases, Login, WalletRules, Prices

VARIABLE scene  \* the component that runs

Scenes == {"balances", "accounting", "pool", "health", "releases", "rules", "login", "prices"}

-----------------------------------------------------------------------------
(* Instances                                                               *)

\* A recycle, bitcoin sent to Kraken and monero coming back, and dollars that
\* the operator adds.
SomeMoves ==
  {[asset |-> "BTC", direction |-> "withdraw", recycle |-> TRUE],
   [asset |-> "XMR", direction |-> "deposit", recycle |-> TRUE],
   [asset |-> "USD", direction |-> "deposit", recycle |-> FALSE]}

\* An hour with prices, one that finds those of the hour before, and one without
\* the price of one coin.
SomePrices == {[h \in FullHours |-> CASE h = 2 -> "none" [] h = 4 -> "void" [] OTHER -> "whole"]}

\* Prices and holdings that both differ, one holding below zero as in a row
\* that was reconstructed.
SomeValues ==
  {[p |-> 1, q |-> 1, btc |-> 2, xmr |-> 1, usd |-> 0],
   [p |-> 2, q |-> 3, btc |-> -1, xmr |-> 2, usd |-> 1]}

\* With a value and without, and a coin.
SomeEvents ==
  {[asset |-> "USD", direction |-> "deposit", usd |-> 2, amount |-> 2],
   [asset |-> "USD", direction |-> "withdraw", usd |-> NoValue, amount |-> 1],
   [asset |-> "BTC", direction |-> "deposit", usd |-> 1, amount |-> 1]}

\* Two versions, the later one with a suffix, and no version.
SomeTags ==
  {[parts |-> <<4, 5>>, suffix |-> FALSE], [parts |-> <<4, 5, 1>>, suffix |-> TRUE],
   [parts |-> Absent, suffix |-> FALSE]}

\* Prices by both, Bitcoin's missing, or one of them zero.
SomeAnswers ==
  {[btc |-> 4, xmr |-> 1, cross |-> NoPrice], [btc |-> NoPrice, xmr |-> 1, cross |-> 1],
   [btc |-> 0, xmr |-> 2, cross |-> NoPrice], [btc |-> 3, xmr |-> 0, cross |-> NoPrice]}

-----------------------------------------------------------------------------
(* One scene at a time                                                     *)

\* Outside its scene a component rests in one of its initial states.
ConsoleInit ==
  /\ scene \in Scenes
  /\ Init /\ (scene # "balances" => asb = [s \in Swaps |-> Null])
  /\ AccountingInit
  /\ scene # "accounting" =>
       snapshots = <<>> /\ events = {} /\ page = Opened("overview", 2)
  /\ PoolInit
  /\ HealthInit
  /\ ReleasesInit
  /\ scene # "releases" =>
       \A tag \in SomeTags : published[tag] # Absent <=> tag = [parts |-> <<4, 5>>, suffix |-> FALSE]
  /\ RulesInit /\ (scene # "rules" => configMap = "absent")
  /\ LoginInit
  /\ PricesInit

ConsoleNext ==
  /\ UNCHANGED scene
  /\ \/ /\ scene = "balances" /\ Next
        /\ UNCHANGED <<accountingVars, poolVars, healthVars, releasesVars, rulesVars,
                       loginVars, pricesVars>>
     \/ /\ scene = "accounting" /\ AccountingNext
        /\ UNCHANGED <<vars, poolVars, healthVars, releasesVars, rulesVars,
                       loginVars, pricesVars>>
     \/ /\ scene = "pool" /\ PoolNext
        /\ UNCHANGED <<vars, accountingVars, healthVars, releasesVars, rulesVars,
                       loginVars, pricesVars>>
     \/ /\ scene = "health" /\ HealthNext
        /\ UNCHANGED <<vars, accountingVars, poolVars, releasesVars, rulesVars,
                       loginVars, pricesVars>>
     \/ /\ scene = "releases" /\ ReleasesNext
        /\ UNCHANGED <<vars, accountingVars, poolVars, healthVars, rulesVars,
                       loginVars, pricesVars>>
     \/ /\ scene = "rules" /\ RulesNext
        /\ UNCHANGED <<vars, accountingVars, poolVars, healthVars, releasesVars,
                       loginVars, pricesVars>>
     \/ /\ scene = "login" /\ LoginNext
        /\ UNCHANGED <<vars, accountingVars, poolVars, healthVars, releasesVars,
                       rulesVars, pricesVars>>
     \/ /\ scene = "prices" /\ PricesNext
        /\ UNCHANGED <<vars, accountingVars, poolVars, healthVars, releasesVars,
                       rulesVars, loginVars>>

consoleVars ==
  <<scene, vars, accountingVars, poolVars, healthVars, releasesVars, rulesVars, loginVars,
    pricesVars>>

\* A handler that holds a connection goes on; the two tasks keep running.
ConsoleFairness ==
  /\ \A c \in Callers : WF_poolVars(scene = "pool" /\ PoolStep(c))
  /\ WF_rulesVars(scene = "rules" /\ load_rules)
  /\ WF_rulesVars(scene = "rules" /\ StoreRules)
  /\ WF_pricesVars(scene = "prices" /\ FeedStep)

ConsoleSpec == ConsoleInit /\ [][ConsoleNext]_consoleVars /\ ConsoleFairness

-----------------------------------------------------------------------------
(* Properties                                                              *)

\* The types of all the variables of the console's components.
ConsoleTypeOK ==
  /\ TypeOK /\ AccountingTypeOK /\ PoolTypeOK /\ HealthTypeOK /\ ReleasesTypeOK
  /\ LoginTypeOK /\ RulesTypeOK /\ PricesTypeOK
=============================================================================
