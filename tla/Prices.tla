-------------------------------- MODULE Prices --------------------------------
(***************************************************************************)
(* The live prices (src/src/server/clients/cex.rs, pollers/cex_prices.rs): *)
(* a loop that asks two exchanges, caches the medians of what they answer  *)
(* and stores a row a minute.                                              *)
(***************************************************************************)
EXTENDS Integers, FiniteSets

CONSTANTS
  Answers,  \* what an exchange may answer: prices, each possibly missing
  NoPrice,     \* no value
  Minute    \* fetches per stored row

Exchanges == {"kraken", "kucoin"}

\* cross: the price of Monero in Bitcoin, which only Kraken quotes.
Answer == [btc : Nat \cup {NoPrice}, xmr : Nat \cup {NoPrice}, cross : Nat \cup {NoPrice}]

ASSUME PricesAssumption ==
  /\ NoPrice \notin Nat
  /\ Answers \subseteq Answer
  /\ Minute \in Nat \ {0}

Unknown == [btc |-> NoPrice, xmr |-> NoPrice, cross |-> NoPrice]

VARIABLES
  quotes,   \* what each exchange answers now
  feed,     \* the loop: where it is and what it was answered
  cached,   \* the newest fetch
  unstored  \* fetches since a row was due, up to Minute

pricesVars == <<quotes, feed, cached, unstored>>

FeedStart == [pc |-> "kraken", kraken |-> Unknown, kucoin |-> Unknown]

PricesInit ==
  /\ quotes = [e \in Exchanges |-> Unknown]
  /\ feed = FeedStart
  /\ cached = Unknown
  /\ unstored = Minute

\* An exchange that cannot be asked answers nothing.
Market ==
  /\ \E e \in Exchanges, a \in Answers \cup {Unknown} : quotes' = [quotes EXCEPT ![e] = a]
  /\ UNCHANGED <<feed, cached, unstored>>

AskKraken ==
  /\ feed.pc = "kraken"
  /\ feed' = [feed EXCEPT !.pc = "kucoin", !.kraken = quotes["kraken"]]
  /\ UNCHANGED <<quotes, cached, unstored>>

AskKucoin ==
  /\ feed.pc = "kucoin"
  /\ feed' = [feed EXCEPT !.pc = "cache", !.kucoin = [quotes["kucoin"] EXCEPT !.cross = NoPrice]]
  /\ UNCHANGED <<quotes, cached, unstored>>

\* The median of at most two samples, twice over so that it is an integer.
Median(a, b) ==
  IF a # NoPrice /\ b # NoPrice THEN a + b
  ELSE IF a # NoPrice THEN 2 * a ELSE IF b # NoPrice THEN 2 * b ELSE NoPrice

BtcUsd == Median(feed.kraken.btc, feed.kucoin.btc)
XmrUsd == Median(feed.kraken.xmr, feed.kucoin.xmr)

\* The cross rate is Kraken's or the quotient of the medians.
Quotient == feed.kraken.cross = NoPrice /\ BtcUsd # NoPrice /\ XmrUsd \notin {NoPrice, 0}

\* Dividing by a price of zero ends the task; nothing restarts it.
Panics == Quotient /\ BtcUsd = 0

CacheFetch ==
  /\ feed.pc = "cache"
  /\ IF Panics
     THEN /\ feed' = [feed EXCEPT !.pc = "ended"]
          /\ UNCHANGED <<cached, unstored>>
     ELSE /\ cached' = [btc |-> BtcUsd, xmr |-> XmrUsd,
                        cross |-> IF Quotient THEN XmrUsd \div BtcUsd ELSE feed.kraken.cross]
          /\ IF unstored = Minute
             THEN unstored' = 1 /\ feed' = [feed EXCEPT !.pc = "store"]
             ELSE unstored' = unstored + 1 /\ feed' = FeedStart
  /\ UNCHANGED quotes

\* Slip: a row that cannot be stored ends the loop.
RowOrEnd ==
  /\ feed.pc = "store"
  /\ feed' \in {FeedStart, [feed EXCEPT !.pc = "ended"]}
  /\ UNCHANGED <<quotes, cached, unstored>>

\* Stored or not: a failure is logged, and the next row is due a minute later.
StoreRow ==
  /\ feed.pc = "store"
  /\ feed' = FeedStart
  /\ UNCHANGED <<quotes, cached, unstored>>

FeedStep == AskKraken \/ AskKucoin \/ CacheFetch \/ StoreRow

PricesNext == Market \/ FeedStep

\* The loop has no end but Panics, and each of its awaits times out.
PricesFairness == WF_pricesVars(FeedStep)

PricesSpec == PricesInit /\ [][PricesNext]_pricesVars /\ PricesFairness

-----------------------------------------------------------------------------
(* Properties                                                              *)

PricesTypeOK ==
  /\ quotes \in [Exchanges -> Answers \cup {Unknown}]
  /\ feed.pc \in {"kraken", "kucoin", "cache", "store", "ended"}
  /\ cached \in Answer
  /\ unstored \in 1 .. Minute

Priced(e) == quotes[e].btc # NoPrice /\ quotes[e].xmr # NoPrice

\* Once an exchange keeps quoting both prices, all three are in the cache from
\* some time on, whatever failed before: the optimizer and the snapshots wait
\* for no other source.  Only a Bitcoin that costs nothing on every exchange that
\* quotes it ends that (cex.rs:31-79, cex_prices.rs:21-36).
PricesComeBack ==
  \A e \in Exchanges :
    <>[](Priced(e) /\ quotes[e].xmr # 0) =>
      \/ <>[](cached.btc # NoPrice /\ cached.xmr # NoPrice /\ cached.cross # NoPrice)
      \/ <>[](feed.pc = "ended" /\ Panics)
=============================================================================
