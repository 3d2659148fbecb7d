--------------------------- MODULE AccountingProofs ---------------------------
(***************************************************************************)
(* What the console says of the account's value adds up.  The series of a  *)
(* page are the rows of their times in order, and rows are not written     *)
(* over, so that an answer stays true while others are read; the           *)
(* cumulative series are sums over the snapshots, by induction over their  *)
(* positions.                                                              *)
(***************************************************************************)
EXTENDS Accounting, SumLemmas, SequenceTheorems

-----------------------------------------------------------------------------
(* The snapshots in the order of time                                      *)

Sample == [t : Nat, v : Values]

TimesOf(samples) == {samples[i].t : i \in DOMAIN samples}

\* Times of rows are put in their order, each once and with its row.
LEMMA OrderedIs ==
  ASSUME snapshots \in [DOMAIN snapshots -> Values], NEW T, IsFiniteSet(T),
         T \subseteq DOMAIN snapshots, T \subseteq Nat
  PROVE  LET s == Ordered(T)
             n == Cardinality(T)
         IN  /\ n \in Nat /\ s \in Seq(Sample) /\ Len(s) = n /\ DOMAIN s = 1 .. n
             /\ \A i \in 1 .. n : s[i].t \in T /\ s[i].v = snapshots[s[i].t]
             /\ \A i, j \in 1 .. n : i < j => s[i].t < s[j].t
             /\ TimesOf(s) = T
<1> DEFINE s == Ordered(T)
           n == Cardinality(T)
           at(i) == CHOOSE t \in T : Cardinality({u \in T : u < t}) = i - 1
<1>1. n \in Nat
  BY FS_CardinalityType
<1>2. \A i \in 1 .. n : at(i) \in T /\ Rank(T, at(i)) = i - 1
  <2> TAKE i \in 1 .. n
  <2>1. \E t \in T : Cardinality({u \in T : u < t}) = i - 1
    BY EveryRank DEF Rank
  <2> QED BY <2>1 DEF Rank
<1>3. s = [i \in 1 .. n |-> [t |-> at(i), v |-> snapshots[at(i)]]]
  BY DEF Ordered
<1> HIDE DEF at, s
<1>4. \A i \in 1 .. n : s[i].t = at(i) /\ s[i].v = snapshots[at(i)] /\ s[i] \in Sample
  <2> TAKE i \in 1 .. n
  <2>1. at(i) \in T /\ at(i) \in Nat /\ snapshots[at(i)] \in Values
    BY <1>2
  <2>2. s[i] = [t |-> at(i), v |-> snapshots[at(i)]]
    BY <1>3
  <2> QED BY <2>1, <2>2 DEF Sample
<1>5. DOMAIN s = 1 .. n /\ s \in [1 .. n -> Sample]
  BY <1>3, <1>4
<1>6. s \in Seq(Sample) /\ Len(s) = n
  BY <1>1, <1>5, SeqDef
<1>7. ASSUME NEW i \in 1 .. n, NEW j \in 1 .. n, i < j PROVE at(i) < at(j)
  <2>1. /\ at(i) \in T /\ at(j) \in T /\ at(i) \in Nat /\ at(j) \in Nat
        /\ Rank(T, at(i)) = i - 1 /\ Rank(T, at(j)) = j - 1
    BY <1>2
  <2>2. T \subseteq Int
    OBVIOUS
  <2>3. at(j) < at(i) => Rank(T, at(j)) < Rank(T, at(i))
    BY <2>1, <2>2, RankGrows
  <2>4. at(i) # at(j) /\ ~(at(j) < at(i))
    BY <1>1, <1>7, <2>1, <2>3
  <2> QED BY <2>1, <2>4
<1>8. ASSUME NEW t \in T PROVE \E i \in 1 .. n : at(i) = t
  <2>1. T \subseteq Int
    OBVIOUS
  <2>2. Rank(T, t) \in Nat /\ Rank(T, t) < n
    BY <2>1, RankGrows
  <2> DEFINE i == Rank(T, t) + 1
  <2>3. i \in 1 .. n /\ i - 1 = Rank(T, t)
    BY <1>1, <2>2
  <2> HIDE DEF i
  <2>4. at(i) \in T /\ Rank(T, at(i)) = Rank(T, t)
    BY <1>2, <2>3
  <2>5. ~(at(i) < t) /\ ~(t < at(i))
    BY <2>1, <2>2, <2>4, RankGrows
  <2>6. at(i) \in Nat /\ t \in Nat
    BY <2>4
  <2> QED BY <2>3, <2>5, <2>6
<1>9. TimesOf(s) = T
  BY <1>2, <1>4, <1>5, <1>8 DEF TimesOf
<1> QED BY <1>1, <1>2, <1>4, <1>5, <1>6, <1>7, <1>9 DEF s

\* A finite set of numbers that has elements has a greatest.
LEMMA GreatestOfFinite ==
  ASSUME NEW S, IsFiniteSet(S), S \subseteq Nat, S # {}
  PROVE  Max(S) \in S /\ \A x \in S : x <= Max(S)
<1>1. Cardinality(S) \in Nat /\ Cardinality(S) # 0
  BY FS_CardinalityType, FS_EmptySet
<1>2. PICK m \in S : Rank(S, m) = Cardinality(S) - 1
  <2>1. Cardinality(S) \in 1 .. Cardinality(S)
    BY <1>1
  <2> QED BY <2>1, EveryRank
<1>3. \A x \in S : x <= m
  <2> TAKE x \in S
  <2>1. S \subseteq Int /\ x \in Nat /\ m \in Nat
    OBVIOUS
  <2>2. Rank(S, x) \in Nat /\ Rank(S, x) < Cardinality(S)
    BY <2>1, RankGrows
  <2>3. m < x => Rank(S, m) < Rank(S, x)
    BY <2>1, RankGrows
  <2> QED BY <1>1, <1>2, <2>1, <2>2, <2>3
<1> QED BY <1>3 DEF Max

-----------------------------------------------------------------------------
(* The cumulative series                                                   *)

\* What a snapshot adds to the series of the one before it.
CumStep(before, snaps, capital, i) ==
  LET market == before.market + MarketStep(snaps[i - 1].v, snaps[i].v)
      flow   == before.capital + CapitalStep(snaps, capital, i)
  IN  [market |-> market, capital |-> flow,
       trade |-> Total(snaps[i].v) - Total(snaps[1].v) - market - flow]

CumEntry(f, snaps, capital, i) ==
  IF i = 1 THEN [market |-> 0, trade |-> 0, capital |-> 0]
  ELSE CumStep(f[i - 1], snaps, capital, i)

IsCum(f, snaps, capital) == f = [i \in DOMAIN snaps |-> CumEntry(f, snaps, capital, i)]

\* The series are defined at every snapshot: those up to a number are, whatever
\* the number.
LEMMA CumExists ==
  ASSUME NEW snaps, NEW capital, NEW n \in Nat, DOMAIN snaps = 1 .. n
  PROVE  IsCum(attribution(snaps, capital), snaps, capital)
<1> DEFINE Right(g, m) == \A i \in 1 .. m : g[i] = CumEntry(g, snaps, capital, i)
           A == {m \in Nat : \E g : Right(g, m)}
<1>1. 0 \in A
  OBVIOUS
<1>2. ASSUME NEW m \in Nat, m \in A PROVE m + 1 \in A
  <2>1. PICK g : Right(g, m)
    BY <1>2
  <2> DEFINE h == [i \in 1 .. m + 1 |-> IF i = m + 1 THEN CumEntry(g, snaps, capital, m + 1)
                                        ELSE g[i]]
  <2>2. \A i \in 1 .. m : h[i] = g[i]
    OBVIOUS
  <2>3. h[m + 1] = CumEntry(g, snaps, capital, m + 1)
    OBVIOUS
  <2> HIDE DEF h
  <2>4. ASSUME NEW i \in 1 .. m + 1
        PROVE  CumEntry(h, snaps, capital, i) = CumEntry(g, snaps, capital, i)
    <3>1. CASE i = 1
      BY <3>1 DEF CumEntry
    <3>2. CASE i # 1
      <4>1. i - 1 \in 1 .. m
        BY <3>2
      <4> QED BY <2>2, <3>2, <4>1 DEF CumEntry
    <3> QED BY <3>1, <3>2
  <2>5. Right(h, m + 1)
    <3> SUFFICES ASSUME NEW i \in 1 .. m + 1 PROVE h[i] = CumEntry(h, snaps, capital, i)
      OBVIOUS
    <3>1. CASE i = m + 1
      BY <2>3, <2>4, <3>1
    <3>2. CASE i # m + 1
      <4>1. i \in 1 .. m
        BY <3>2
      <4> QED BY <2>1, <2>2, <2>4, <4>1
    <3> QED BY <3>1, <3>2
  <2> QED BY <2>5
<1>3. n \in A
  <2> HIDE DEF A
  <2> QED BY <1>1, <1>2, NatSetInduction
<1>4. PICK g : Right(g, n)
  BY <1>3
<1> DEFINE f == [i \in 1 .. n |-> g[i]]
<1>5. \A i \in 1 .. n : f[i] = CumEntry(f, snaps, capital, i)
  <2> TAKE i \in 1 .. n
  <2>1. CumEntry(f, snaps, capital, i) = CumEntry(g, snaps, capital, i)
    <3>1. CASE i = 1
      BY <3>1 DEF CumEntry
    <3>2. CASE i # 1
      <4>1. i - 1 \in 1 .. n
        BY <3>2
      <4>2. f[i - 1] = g[i - 1]
        BY <4>1
      <4> HIDE DEF f
      <4> QED BY <3>2, <4>2 DEF CumEntry
    <3> QED BY <3>1, <3>2
  <2> QED BY <1>4, <2>1
<1>6. f = [i \in 1 .. n |-> f[i]]
  OBVIOUS
<1> HIDE DEF f
<1>7. IsCum(f, snaps, capital)
  BY <1>5, <1>6 DEF IsCum
<1>8. attribution(snaps, capital) = CHOOSE cum : IsCum(cum, snaps, capital)
  BY DEF attribution, IsCum, CumEntry, CumStep
<1> QED BY <1>7, <1>8

\* A change of a product, split between its two factors.
LEMMA ProductsSplit ==
  ASSUME NEW a \in Int, NEW b \in Int, NEW p \in Int, NEW q \in Int
  PROVE  b * q - a * p = a * (q - p) + (b - a) * q
OBVIOUS

\* The change of a total is what the market did to what was held, and what the
\* change of the holdings brought.
LEMMA TotalsChange ==
  ASSUME NEW v \in Values, NEW w \in Values
  PROVE  /\ Total(v) \in Int /\ Total(w) \in Int
         /\ MarketStep(v, w) \in Int /\ Gain(v, w) \in Int
         /\ Total(w) - Total(v) = MarketStep(v, w) + Gain(v, w)
<1>1. /\ v.p \in Int /\ v.q \in Int /\ v.btc \in Int /\ v.xmr \in Int /\ v.usd \in Int
      /\ w.p \in Int /\ w.q \in Int /\ w.btc \in Int /\ w.xmr \in Int /\ w.usd \in Int
  BY AccountingAssumption DEF Value
<1>2. /\ w.btc * w.p - v.btc * v.p = v.btc * (w.p - v.p) + (w.btc - v.btc) * w.p
      /\ w.xmr * w.q - v.xmr * v.q = v.xmr * (w.q - v.q) + (w.xmr - v.xmr) * w.q
  BY <1>1, ProductsSplit
<1>3. /\ v.btc * v.p \in Int /\ v.xmr * v.q \in Int /\ w.btc * w.p \in Int /\ w.xmr * w.q \in Int
      /\ v.btc * (w.p - v.p) \in Int /\ v.xmr * (w.q - v.q) \in Int
      /\ (w.btc - v.btc) * w.p \in Int /\ (w.xmr - v.xmr) * w.q \in Int
  BY <1>1
<1>4. /\ Total(v) \in Int /\ Total(w) \in Int
      /\ MarketStep(v, w) \in Int /\ Gain(v, w) \in Int
  BY <1>1, <1>3 DEF Total, MarketStep, Gain
<1>5. ASSUME NEW a \in Int, NEW b \in Int, NEW c \in Int, NEW d \in Int,
             NEW e \in Int, NEW f \in Int, NEW g \in Int, NEW h \in Int,
             NEW y \in Int, NEW z \in Int, c - a = e + g, d - b = f + h
      PROVE  (c + d + z) - (a + b + y) = (e + f) + (g + h + (z - y))
  BY <1>5
<1>6. Total(w) - Total(v) = MarketStep(v, w) + Gain(v, w)
  BY <1>1, <1>2, <1>3, <1>5 DEF Total, MarketStep, Gain
<1> QED BY <1>4, <1>6

Event == [kind : EventKinds, at : Nat]

\* The flow of events: an integer, and the sum of its parts.
LEMMA FlowParts ==
  ASSUME NEW E, IsFiniteSet(E), E \subseteq Event, NEW D \in SUBSET E
  PROVE  /\ Flow(E) \in Int /\ Flow(D) \in Int
         /\ Flow(E) = Flow(D) + Flow(E \ D)
         /\ Flow({}) = 0
<1>1. \A e \in E : UsdOf(e) \in Int
  <2> TAKE e \in E
  <2>1. e.kind \in EventKind
    BY AccountingAssumption DEF Event
  <2>2. (e.kind.usd # NoValue => e.kind.usd \in Nat) /\ e.kind.amount \in Nat
    BY <2>1 DEF EventKind
  <2> QED BY <2>2 DEF UsdOf, Signed
<1>2. ASSUME NEW S \in SUBSET E
      PROVE  /\ Flow(S) = SumFunctionOnSet([e \in E |-> UsdOf(e)], S)
             /\ Flow(S) \in Int
  <2> DEFINE f == [e \in S |-> UsdOf(e)]
             g == [e \in E |-> UsdOf(e)]
  <2>1. IsFiniteSet(S) /\ DOMAIN f = S
    BY FS_Subset
  <2>2. \A e \in S : f[e] \in Int /\ g[e] = f[e]
    BY <1>1
  <2>3. Flow(S) = SumFunctionOnSet(f, S)
    BY <2>1 DEF Flow, SumFunction
  <2> HIDE DEF f, g
  <2> QED BY <2>1, <2>2, <2>3, SumSame, SumType DEF g
<1>3. E \ D \in SUBSET E /\ E \in SUBSET E /\ {} \in SUBSET E
  OBVIOUS
<1>4. Flow(E) = Flow(D) + Flow(E \ D)
  <2> DEFINE g == [e \in E |-> UsdOf(e)]
  <2>1. \A e \in E : g[e] \in Int
    BY <1>1
  <2> HIDE DEF g
  <2>2. SumFunctionOnSet(g, E) = SumFunctionOnSet(g, D) + SumFunctionOnSet(g, E \ D)
    BY <2>1, SumParts
  <2> QED BY <1>2, <1>3, <2>2 DEF g
<1>5. Flow({}) = 0
  BY <1>2, <1>3, SumEmpty
<1> QED BY <1>2, <1>3, <1>4, <1>5

-----------------------------------------------------------------------------
(* What the cumulative series add up to                                    *)

InOrder(snaps) ==
  /\ snaps \in Seq(Sample)
  /\ \A i, j \in DOMAIN snaps : i < j => snaps[i].t < snaps[j].t

Gains(snaps) == [k \in 2 .. Len(snaps) |-> Gain(snaps[k - 1].v, snaps[k].v)]

Between(snaps, capital, i) == {e \in capital : snaps[1].t < e.at /\ e.at <= snaps[i].t}

\* The entry at a snapshot adds up.
EntryAddsUp(entry, snaps, capital, i) ==
  /\ entry.market \in Int /\ entry.trade \in Int /\ entry.capital \in Int
  /\ entry.capital = Flow(Between(snaps, capital, i))
  /\ entry.trade = Total(snaps[i].v) - Total(snaps[1].v) - entry.market - entry.capital
  /\ entry.trade + entry.capital = SumFunctionOnSet(Gains(snaps), 2 .. i)

\* What a snapshot has, as the sums need it.
LEMMA SampleTypes ==
  ASSUME NEW snaps, InOrder(snaps)
  PROVE  /\ Len(snaps) \in Nat /\ DOMAIN snaps = 1 .. Len(snaps)
         /\ \A i \in 1 .. Len(snaps) : snaps[i].t \in Nat /\ snaps[i].v \in Values
         /\ \A i \in 2 .. Len(snaps) : Gains(snaps)[i] = Gain(snaps[i - 1].v, snaps[i].v)
         /\ \A i \in 2 .. Len(snaps) : Gains(snaps)[i] \in Int
<1>1. /\ Len(snaps) \in Nat /\ DOMAIN snaps = 1 .. Len(snaps)
      /\ \A i \in 1 .. Len(snaps) : snaps[i] \in Sample
  BY LenProperties, ElementOfSeq DEF InOrder
<1>2. \A i \in 1 .. Len(snaps) : snaps[i].t \in Nat /\ snaps[i].v \in Values
  BY <1>1 DEF Sample
<1>3. \A i \in 2 .. Len(snaps) : Gains(snaps)[i] = Gain(snaps[i - 1].v, snaps[i].v)
  BY DEF Gains
<1>4. ASSUME NEW i \in 2 .. Len(snaps) PROVE Gain(snaps[i - 1].v, snaps[i].v) \in Int
  <2>1. i \in 1 .. Len(snaps) /\ i - 1 \in 1 .. Len(snaps)
    BY <1>1
  <2> QED BY <1>2, <2>1, TotalsChange
<1> QED BY <1>1, <1>2, <1>3, <1>4

\* At the first snapshot nothing has changed.
LEMMA FirstAddsUp ==
  ASSUME NEW snaps, InOrder(snaps), 1 <= Len(snaps), NEW capital,
         IsFiniteSet(capital), capital \subseteq Event
  PROVE  EntryAddsUp([market |-> 0, trade |-> 0, capital |-> 0], snaps, capital, 1)
<1>1. snaps[1].t \in Nat /\ Total(snaps[1].v) \in Int
  BY SampleTypes, TotalsChange
<1>2. Between(snaps, capital, 1) = {}
  <2>1. \A e \in capital : ~(snaps[1].t < e.at /\ e.at <= snaps[1].t)
    BY <1>1 DEF Event
  <2> QED BY <2>1 DEF Between
<1>3. Flow({}) = 0
  BY FlowParts, {} \in SUBSET capital
<1>4. SumFunctionOnSet(Gains(snaps), 2 .. 1) = 0
  <2>1. 2 .. 1 = {}
    OBVIOUS
  <2> QED BY <2>1, SumEmpty
<1> DEFINE entry == [market |-> 0, trade |-> 0, capital |-> 0]
<1>5. entry.market = 0 /\ entry.trade = 0 /\ entry.capital = 0
  OBVIOUS
<1>6. 0 = Total(snaps[1].v) - Total(snaps[1].v) - 0 - 0 /\ 0 + 0 = 0
  BY <1>1
<1> HIDE DEF entry
<1>7. EntryAddsUp(entry, snaps, capital, 1)
  <2>1. entry.market \in Int /\ entry.trade \in Int /\ entry.capital \in Int
    BY <1>5
  <2>2. entry.capital = Flow(Between(snaps, capital, 1))
    BY <1>2, <1>3, <1>5
  <2>3. entry.trade = Total(snaps[1].v) - Total(snaps[1].v) - entry.market - entry.capital
    BY <1>5, <1>6
  <2>4. entry.trade + entry.capital = SumFunctionOnSet(Gains(snaps), 2 .. 1)
    BY <1>4, <1>5, <1>6
  <2> QED BY <2>1, <2>2, <2>3, <2>4 DEF EntryAddsUp
<1> QED BY <1>7 DEF entry

\* The sums of a step: what was, what the step brings, and what remains.
LEMMA StepAddsUp ==
  ASSUME NEW market \in Int, NEW trade \in Int, NEW capital \in Int, NEW flow \in Int,
         NEW step \in Int, NEW gain \in Int, NEW v \in Int, NEW w \in Int, NEW first \in Int,
         w - v = step + gain, trade = v - first - market - capital
  PROVE  /\ market + step \in Int /\ capital + flow \in Int
         /\ w - first - (market + step) - (capital + flow) \in Int
         /\ (w - first - (market + step) - (capital + flow)) + (capital + flow)
              = gain + (trade + capital)
OBVIOUS

\* If it adds up at a snapshot, it does at the next: its events lie after that
\* one, and its gain is one more.
LEMMA NextAddsUp ==
  ASSUME NEW snaps, InOrder(snaps), NEW capital, IsFiniteSet(capital),
         capital \subseteq Event, NEW i \in Nat, 1 <= i, i + 1 <= Len(snaps),
         NEW before, EntryAddsUp(before, snaps, capital, i)
  PROVE  EntryAddsUp(CumStep(before, snaps, capital, i + 1), snaps, capital, i + 1)
<1> DEFINE v == snaps[i].v
           w == snaps[i + 1].v
           flow == CapitalStep(snaps, capital, i + 1)
           new == {e \in capital : snaps[i].t < e.at /\ e.at <= snaps[i + 1].t}
           after == Between(snaps, capital, i + 1)
           entry == CumStep(before, snaps, capital, i + 1)
           first == Total(snaps[1].v)
<1>1. /\ Len(snaps) \in Nat /\ 1 \in 1 .. Len(snaps) /\ i \in 1 .. Len(snaps)
      /\ i + 1 \in 1 .. Len(snaps) /\ i + 1 \in 2 .. Len(snaps) /\ (i + 1) - 1 = i
  BY SampleTypes
<1>2. /\ snaps[1].t \in Nat /\ snaps[i].t \in Nat /\ snaps[i + 1].t \in Nat
      /\ snaps[1].v \in Values /\ v \in Values /\ w \in Values
  BY <1>1, SampleTypes
<1>3. snaps[1].t <= snaps[i].t /\ snaps[i].t < snaps[i + 1].t
  <2>1. i < i + 1 /\ (i = 1 \/ 1 < i)
    OBVIOUS
  <2>2. DOMAIN snaps = 1 .. Len(snaps)
    BY SampleTypes
  <2>3. snaps[i].t < snaps[i + 1].t
    BY <1>1, <2>1, <2>2 DEF InOrder
  <2>4. 1 < i => snaps[1].t < snaps[i].t
    BY <1>1, <2>2 DEF InOrder
  <2> QED BY <1>2, <2>1, <2>3, <2>4
<1>4. flow = Flow(new)
  BY <1>1 DEF CapitalStep
<1>5. Flow(after) = before.capital + flow /\ flow \in Int /\ before.capital \in Int
  <2>1. \A e \in capital : e.at \in Nat
    BY DEF Event
  <2>2. \A e \in capital :
          /\ snaps[i].t < e.at => snaps[1].t < e.at
          /\ e.at <= snaps[i].t => e.at <= snaps[i + 1].t
          /\ ~(snaps[i].t < e.at) <=> e.at <= snaps[i].t
    BY <1>2, <1>3, <2>1
  <2>3. /\ Between(snaps, capital, i) \in SUBSET after
        /\ after \ Between(snaps, capital, i) = new
        /\ after \subseteq capital
    BY <2>2 DEF Between
  <2> HIDE DEF after, new
  <2>4. IsFiniteSet(after) /\ after \subseteq Event
    BY <2>3, FS_Subset
  <2>5. /\ Flow(after) = Flow(Between(snaps, capital, i)) + Flow(new)
        /\ Flow(Between(snaps, capital, i)) \in Int
    BY <2>3, <2>4, FlowParts
  <2>6. new \in SUBSET after
    BY <2>3
  <2>7. Flow(new) \in Int
    BY <2>4, <2>6, FlowParts
  <2> QED BY <1>4, <2>5, <2>7 DEF EntryAddsUp
<1>6. /\ Total(v) \in Int /\ Total(w) \in Int /\ first \in Int
      /\ MarketStep(v, w) \in Int /\ Gain(v, w) \in Int
      /\ Total(w) - Total(v) = MarketStep(v, w) + Gain(v, w)
  BY <1>2, TotalsChange
<1>7. /\ entry.market = before.market + MarketStep(v, w)
      /\ entry.capital = before.capital + flow
      /\ entry.trade = Total(w) - first - (before.market + MarketStep(v, w)) - (before.capital + flow)
  BY <1>1 DEF CumStep
<1>8. SumFunctionOnSet(Gains(snaps), 2 .. i + 1)
        = Gain(v, w) + SumFunctionOnSet(Gains(snaps), 2 .. i)
  <2>1. 2 .. i + 1 = (2 .. i) \cup {i + 1} /\ i + 1 \notin 2 .. i
    BY <1>1
  <2>2. IsFiniteSet(2 .. i)
    BY FS_Interval
  <2>3. \A k \in (2 .. i) \cup {i + 1} : Gains(snaps)[k] \in Int
    <3> TAKE k \in (2 .. i) \cup {i + 1}
    <3>1. k \in 2 .. Len(snaps)
      BY <1>1
    <3> QED BY <3>1, SampleTypes
  <2>4. Gains(snaps)[i + 1] = Gain(v, w)
    BY <1>1, SampleTypes
  <2> DEFINE gains == Gains(snaps)
             S == 2 .. i
             e == i + 1
  <2>5. IsFiniteSet(S) /\ e \notin S /\ \A k \in S \cup {e} : gains[k] \in Int
    BY <2>1, <2>2, <2>3
  <2> HIDE DEF gains, S, e
  <2>6. SumFunctionOnSet(gains, S \cup {e}) = gains[e] + SumFunctionOnSet(gains, S)
    BY <2>5, SumAdd
  <2> QED BY <2>1, <2>4, <2>6 DEF gains, S, e
<1>9. /\ before.market \in Int /\ before.trade \in Int /\ before.capital \in Int
      /\ before.trade = Total(v) - first - before.market - before.capital
      /\ before.trade + before.capital = SumFunctionOnSet(Gains(snaps), 2 .. i)
  BY DEF EntryAddsUp
<1> HIDE DEF v, w, flow, new, after, entry, first
<1> DEFINE market == before.market
           trade == before.trade
           came == before.capital
           tv == Total(v)
           tw == Total(w)
           step == MarketStep(v, w)
           gain == Gain(v, w)
<1>10. /\ market + step \in Int /\ came + flow \in Int
       /\ tw - first - (market + step) - (came + flow) \in Int
       /\ (tw - first - (market + step) - (came + flow)) + (came + flow)
              = gain + (trade + came)
  <2>1. /\ market \in Int /\ trade \in Int /\ came \in Int /\ flow \in Int
        /\ step \in Int /\ gain \in Int /\ tv \in Int /\ tw \in Int /\ first \in Int
        /\ tw - tv = step + gain /\ trade = tv - first - market - came
    BY <1>5, <1>6, <1>9
  <2> HIDE DEF market, trade, came, tv, tw, step, gain
  <2> QED BY <2>1, StepAddsUp
<1>11. entry.market \in Int /\ entry.trade \in Int /\ entry.capital \in Int
  BY <1>7, <1>10
<1>12. entry.trade = Total(w) - first - entry.market - entry.capital
  BY <1>7
<1>13. entry.trade + entry.capital = Gain(v, w) + (before.trade + before.capital)
  BY <1>7, <1>10
<1>14. EntryAddsUp(entry, snaps, capital, i + 1)
  BY <1>5, <1>7, <1>8, <1>9, <1>11, <1>12, <1>13 DEF EntryAddsUp, after, w, first
<1> QED BY <1>14 DEF entry

\* It does at every snapshot.
LEMMA AttributionAddsUp ==
  ASSUME NEW snaps, InOrder(snaps), NEW capital, IsFiniteSet(capital),
         capital \subseteq Event, NEW i \in 1 .. Len(snaps)
  PROVE  EntryAddsUp(attribution(snaps, capital)[i], snaps, capital, i)
<1> DEFINE cum == attribution(snaps, capital)
           n == Len(snaps)
           A == {k \in Nat : k + 1 <= n => EntryAddsUp(cum[k + 1], snaps, capital, k + 1)}
<1>1. n \in Nat /\ DOMAIN snaps = 1 .. n
  BY SampleTypes
<1> HIDE DEF cum
<1>2. \A k \in 1 .. n : cum[k] = CumEntry(cum, snaps, capital, k)
  <2>1. IsCum(cum, snaps, capital)
    BY <1>1, CumExists DEF cum
  <2> QED BY <1>1, <2>1 DEF IsCum
<1>3. 0 \in A
  <2> SUFFICES ASSUME 1 <= n PROVE EntryAddsUp(cum[1], snaps, capital, 1)
    OBVIOUS
  <2>1. cum[1] = [market |-> 0, trade |-> 0, capital |-> 0]
    BY <1>1, <1>2 DEF CumEntry
  <2> QED BY <2>1, FirstAddsUp
<1>4. ASSUME NEW k \in Nat, k \in A PROVE k + 1 \in A
  <2> SUFFICES ASSUME (k + 1) + 1 <= n
               PROVE  EntryAddsUp(cum[(k + 1) + 1], snaps, capital, (k + 1) + 1)
    OBVIOUS
  <2>1. EntryAddsUp(cum[k + 1], snaps, capital, k + 1)
    BY <1>1, <1>4
  <2>2. /\ k + 1 \in Nat /\ 1 <= k + 1 /\ (k + 1) + 1 # 1 /\ ((k + 1) + 1) - 1 = k + 1
        /\ (k + 1) + 1 \in 1 .. n
    BY <1>1
  <2>3. cum[(k + 1) + 1] = CumStep(cum[k + 1], snaps, capital, (k + 1) + 1)
    BY <1>2, <2>2 DEF CumEntry
  <2> QED BY <2>1, <2>2, <2>3, NextAddsUp
<1>5. Nat \subseteq A
  <2> HIDE DEF A
  <2> QED BY <1>3, <1>4, NatSetInduction
<1>6. i - 1 \in Nat /\ (i - 1) + 1 = i /\ i <= n
  BY <1>1
<1>7. EntryAddsUp(cum[i], snaps, capital, i)
  BY <1>5, <1>6
<1> QED BY <1>7 DEF cum

-----------------------------------------------------------------------------
(* What is shown                                                           *)

\* There is a nearest sample: the first of those at the least distance.
LEMMA NearestIsOne ==
  ASSUME NEW samples, InOrder(samples), 1 <= Len(samples), NEW t \in Int
  PROVE  NearestSample(samples, t) \in 1 .. Len(samples)
<1> DEFINE D == DOMAIN samples
           d(k) == IF samples[k].t < t THEN t - samples[k].t ELSE samples[k].t - t
           Distances == {d(k) : k \in D}
<1>1. D = 1 .. Len(samples) /\ D \subseteq Nat /\ D # {} /\ \A k \in D : d(k) \in Nat
  <2>1. D = 1 .. Len(samples) /\ Len(samples) \in Nat
    BY SampleTypes
  <2>2. \A k \in D : samples[k].t \in Nat
    BY <2>1, SampleTypes
  <2> QED BY <2>1, <2>2
<1> HIDE DEF D
<1>2. Distances \subseteq Nat /\ Distances # {}
  BY <1>1
<1> HIDE DEF d
<1>3. PICK m \in Distances : \A x \in Distances : m <= x
  <2> HIDE DEF Distances
  <2> QED BY <1>2, LeastOfNat
<1> DEFINE Nearest == {k \in D : d(k) = m}
<1>4. PICK i \in Nearest : \A k \in Nearest : i <= k
  <2>1. Nearest \subseteq Nat /\ Nearest # {}
    BY <1>1, <1>3
  <2> HIDE DEF Nearest
  <2> QED BY <2>1, LeastOfNat
<1>5. i \in D /\ \A j \in D : d(i) < d(j) \/ (d(i) = d(j) /\ i <= j)
  <2>1. i \in D /\ d(i) = m
    BY <1>4
  <2>2. ASSUME NEW j \in D PROVE d(i) < d(j) \/ (d(i) = d(j) /\ i <= j)
    <3>1. m <= d(j) /\ m \in Nat /\ d(j) \in Nat
      BY <1>1, <1>2, <1>3
    <3>2. d(j) = m => i <= j
      BY <1>4
    <3> QED BY <2>1, <3>1, <3>2
  <2> QED BY <2>1, <2>2
<1>6. NearestSample(samples, t) \in D
  BY <1>5 DEF NearestSample, D, d
<1> QED BY <1>1, <1>6

\* The series of a page as the attribution needs them.
Attributable ==
  /\ InOrder(page.snaps)
  /\ IsFiniteSet(page.capital) /\ page.capital \subseteq Event

\* The trades card is what the changes of the holdings brought, less the capital.
LEMMA CardsAreTheGains == Attributable => TradesAreTheGains
<1> SUFFICES ASSUME Attributable, PnlKnown, NEW hovered \in Days \cup {NoValue}
             PROVE  LET card == Cards(hovered)
                    IN  card.trade = SumFunction([k \in 2 .. card.at |->
                                         Gain(page.snaps[k - 1].v, page.snaps[k].v)])
                                       - CapitalIn(card.at)
  BY DEF TradesAreTheGains
<1> DEFINE i == Cards(hovered).at
           n == Len(page.snaps)
           gained == [k \in 2 .. i |-> Gain(page.snaps[k - 1].v, page.snaps[k].v)]
           entry == attribution(page.snaps, page.capital)[i]
<1>1. n \in Nat /\ 2 <= n /\ DOMAIN page.snaps = 1 .. n
  BY SampleTypes DEF Attributable, PnlKnown
<1>2. i \in 1 .. n
  <2>1. CASE hovered = NoValue
    BY <1>1, <2>1 DEF Cards
  <2>2. CASE hovered # NoValue
    <3>1. hovered \in Int
      BY <2>2 DEF Days
    <3>2. NearestSample(page.snaps, hovered) \in 1 .. n
      BY <1>1, <3>1, NearestIsOne DEF Attributable
    <3> QED BY <2>2, <3>2 DEF Cards
  <2> QED BY <2>1, <2>2
<1>3. Cards(hovered).trade = entry.trade
  BY DEF Cards, Attributed
<1> HIDE DEF i, entry, gained
<1>4. EntryAddsUp(entry, page.snaps, page.capital, i)
  BY <1>2, AttributionAddsUp DEF Attributable, entry
<1>5. SumFunction(gained) = SumFunctionOnSet(Gains(page.snaps), 2 .. i)
  <2>1. IsFiniteSet(2 .. i) /\ DOMAIN gained = 2 .. i
    BY <1>1, <1>2, FS_Interval DEF gained
  <2>2. ASSUME NEW k \in 2 .. i
        PROVE Gains(page.snaps)[k] \in Int /\ gained[k] = Gains(page.snaps)[k]
    <3>1. k \in 2 .. n
      BY <1>1, <1>2
    <3>2. gained[k] = Gain(page.snaps[k - 1].v, page.snaps[k].v)
      BY DEF gained
    <3> QED BY <3>1, <3>2, SampleTypes DEF Attributable
  <2>3. SumFunction(gained) = SumFunctionOnSet(gained, 2 .. i)
    BY <2>1 DEF SumFunction
  <2>4. SumFunctionOnSet(gained, 2 .. i) = SumFunctionOnSet(Gains(page.snaps), 2 .. i)
    BY <2>1, <2>2, SumSame
  <2> QED BY <2>3, <2>4
<1>6. entry.trade = SumFunction(gained) - Flow(Between(page.snaps, page.capital, i))
  <2>1. entry.trade \in Int /\ entry.capital \in Int
        /\ entry.capital = Flow(Between(page.snaps, page.capital, i))
        /\ entry.trade + entry.capital = SumFunction(gained)
    BY <1>4, <1>5 DEF EntryAddsUp
  <2> QED BY <2>1
<1> QED BY <1>3, <1>6 DEF Between, CapitalIn, gained, i

-----------------------------------------------------------------------------
(* The invariant                                                           *)

PageRecord ==
  [kind : {"overview", "lifetime"}, period : Nat,
   pc : {"open", "markers", "current", "snapshots", "capital", "shown"},
   series : Seq(Sample), markers : SUBSET events, since : Int, snaps : Seq(Sample),
   capital : SUBSET events, deployed : SUBSET events,
   current : Nat \cup {NoValue}, failed : BOOLEAN]

\* The rows of some times in order, as they still are.
Kept(samples) ==
  TimesOf(samples) \subseteq DOMAIN snapshots /\ samples = Ordered(TimesOf(samples))

TablesOK ==
  /\ today \in Days /\ writes \in 0 .. MaxWrites
  /\ DOMAIN snapshots \subseteq 0 .. today
  /\ snapshots \in [DOMAIN snapshots -> Values]
  /\ IsFiniteSet(events) /\ events \subseteq [kind : EventKinds, at : Days]

\* What was answered of the snapshots.
AnswersOK(pg) ==
  /\ Kept(pg.series) /\ Kept(pg.snaps)
  /\ \A t \in TimesOf(pg.series) : Total(snapshots[t]) > 0
  /\ \A t \in TimesOf(pg.snaps) : t >= pg.since

\* The series' rows that are in the window of the attribution are in it, if a
\* row has both prices.
WindowsMeet(pg) ==
  pg.pc \in {"capital", "shown"} /\ ~pg.failed =>
    \A t \in TimesOf(pg.series) :
      t >= pg.since /\ snapshots[t].p # 0 /\ snapshots[t].q # 0 => t \in TimesOf(pg.snaps)

AccountingInv == TablesOK /\ page \in PageRecord /\ AnswersOK(page) /\ WindowsMeet(page)

\* Rows that may be answered are finitely many.
LEMMA RowsAreTimes ==
  ASSUME TablesOK, NEW T, T \subseteq DOMAIN snapshots
  PROVE  IsFiniteSet(T) /\ T \subseteq Nat /\ Kept(Ordered(T)) /\ TimesOf(Ordered(T)) = T
         /\ Ordered(T) \in Seq(Sample) /\ InOrder(Ordered(T))
<1>1. IsFiniteSet(0 .. today) /\ T \subseteq 0 .. today /\ today \in Int
  <2>1. today \in Int
    BY AccountingAssumption DEF TablesOK, Days
  <2>2. IsFiniteSet(0 .. today)
    BY <2>1, FS_Interval
  <2> QED BY <2>1, <2>2 DEF TablesOK
<1>2. IsFiniteSet(T) /\ T \subseteq Nat
  BY <1>1, FS_Subset
<1>3. TimesOf(Ordered(T)) = T /\ Ordered(T) \in Seq(Sample) /\ InOrder(Ordered(T))
  BY <1>2, OrderedIs DEF TablesOK, InOrder
<1> QED BY <1>2, <1>3 DEF Kept

\* Rows that do not change stay in order.
LEMMA KeptStays ==
  ASSUME TablesOK, NEW samples, Kept(samples),
         DOMAIN snapshots \subseteq DOMAIN snapshots',
         \A t \in DOMAIN snapshots : snapshots'[t] = snapshots[t]
  PROVE  Kept(samples)'
<1> DEFINE T == TimesOf(samples)
           at(i) == CHOOSE t \in T : Cardinality({u \in T : u < t}) = i - 1
<1>1. IsFiniteSet(T) /\ T \subseteq Nat /\ T \subseteq DOMAIN snapshots
  BY RowsAreTimes DEF Kept
<1>2. \A i \in 1 .. Cardinality(T) : at(i) \in T
  <2> TAKE i \in 1 .. Cardinality(T)
  <2>1. \E t \in T : Cardinality({u \in T : u < t}) = i - 1
    BY <1>1, EveryRank DEF Rank
  <2> QED BY <2>1
<1>3. \A i \in 1 .. Cardinality(T) : snapshots'[at(i)] = snapshots[at(i)]
  BY <1>1, <1>2
<1>4. /\ Ordered(T) = [i \in 1 .. Cardinality(T) |-> [t |-> at(i), v |-> snapshots[at(i)]]]
      /\ Ordered(T)' = [i \in 1 .. Cardinality(T) |-> [t |-> at(i), v |-> snapshots'[at(i)]]]
  BY DEF Ordered, TimesOf
<1> HIDE DEF at
<1>5. Ordered(T)' = Ordered(T)
  BY <1>3, <1>4
<1> QED BY <1>1, <1>5 DEF Kept, TimesOf

\* Nothing answered.
LEMMA NothingKept == ASSUME TablesOK PROVE Kept(<<>>) /\ TimesOf(<<>>) = {}
<1>1. TimesOf(<<>>) = {}
  BY DEF TimesOf
<1>2. Ordered({}) \in Seq(Sample) /\ Len(Ordered({})) = Cardinality({})
  BY FS_EmptySet, OrderedIs DEF TablesOK
<1>3. Len(Ordered({})) = 0
  BY <1>2, FS_EmptySet
<1>4. Ordered({}) = <<>>
  BY <1>2, <1>3, EmptySeq
<1> QED BY <1>1, <1>4 DEF Kept

\* A page that was just opened.
LEMMA OpenedIs ==
  ASSUME TablesOK, NEW k \in {"overview", "lifetime"}, NEW p \in Periods, page = Opened(k, p)
  PROVE  AccountingInv
<1>1. p \in Nat /\ <<>> \in Seq(Sample) /\ {} \in SUBSET events
  BY AccountingAssumption, EmptySeq
<1>2. page \in PageRecord
  BY <1>1 DEF Opened, PageRecord
<1>3. page.series = <<>> /\ page.snaps = <<>> /\ page.pc = "open"
  BY DEF Opened
<1> QED BY <1>2, <1>3, NothingKept DEF AccountingInv, AnswersOK, WindowsMeet

\* Initially the page is opened.
LEMMA AccountingInvInit == AccountingInit => AccountingInv
<1> SUFFICES ASSUME AccountingInit PROVE AccountingInv
  OBVIOUS
<1> USE AccountingAssumption
<1>1. TablesOK
  <2>1. PICK times \in SUBSET (0 .. FirstDay) : snapshots \in [times -> Values]
    BY DEF AccountingInit
  <2>2. today = FirstDay /\ writes = 0 /\ IsFiniteSet(events)
        /\ events \subseteq [kind : EventKinds, at : 0 .. FirstDay]
    BY DEF AccountingInit
  <2>3. 0 .. FirstDay \subseteq Days /\ FirstDay \in Days /\ 0 \in 0 .. MaxWrites
    BY DEF Days
  <2>4. events \subseteq [kind : EventKinds, at : Days]
    BY <2>2, <2>3
  <2> QED BY <2>1, <2>2, <2>3, <2>4 DEF TablesOK
<1>2. PICK k \in {"overview", "lifetime"}, p \in Periods : page = Opened(k, p)
  BY DEF AccountingInit
<1> QED BY <1>1, <1>2, OpenedIs

\* Writes: no row changes, and no event goes.
LEMMA WritersKeep ==
  ASSUME AccountingInv, TablesOK', page' = page,
         DOMAIN snapshots \subseteq DOMAIN snapshots',
         \A t \in DOMAIN snapshots : snapshots'[t] = snapshots[t],
         events \subseteq events'
  PROVE  AccountingInv'
<1>1. page \in PageRecord /\ page' \in PageRecord'
  <2>1. page \in PageRecord
    BY DEF AccountingInv
  <2>2. SUBSET events \subseteq SUBSET events'
    OBVIOUS
  <2> QED BY <2>1, <2>2 DEF PageRecord
<1>2. Kept(page.series)' /\ Kept(page.snaps)'
  <2>1. PICK series, snaps : series = page.series /\ snaps = page.snaps
    OBVIOUS
  <2>2. Kept(series) /\ Kept(snaps)
    BY <2>1 DEF AccountingInv, AnswersOK
  <2>3. Kept(series)' /\ Kept(snaps)'
    BY <2>2, KeptStays DEF AccountingInv
  <2> QED BY <2>1, <2>3 DEF Kept
<1>3. /\ TimesOf(page.series) \subseteq DOMAIN snapshots
      /\ TimesOf(page.snaps) \subseteq DOMAIN snapshots
  BY DEF AccountingInv, AnswersOK, Kept
<1>4. AnswersOK(page)'
  BY <1>2, <1>3 DEF AccountingInv, AnswersOK, TimesOf, Total
<1>5. WindowsMeet(page)'
  BY <1>3 DEF AccountingInv, WindowsMeet, TimesOf
<1> QED BY <1>1, <1>4, <1>5 DEF AccountingInv

\* No row or event is of a later day than today.
LEMMA NextDayKeeps == ASSUME AccountingInv, NextDay PROVE AccountingInv'
<1>1. TablesOK'
  <2>1. today \in Int /\ today' = today + 1 /\ today' <= LastDay /\ LastDay \in Nat /\ today >= 0
    BY AccountingAssumption DEF AccountingInv, TablesOK, NextDay, Days
  <2>2. today' \in Days /\ 0 .. today \subseteq 0 .. today'
    BY <2>1 DEF Days
  <2> QED BY <2>2 DEF AccountingInv, TablesOK, NextDay
<1> QED BY <1>1, WritersKeep DEF NextDay

\* A row is written where there was none.
LEMMA WriteRowKeeps ==
  ASSUME AccountingInv, NEW t \in 0 .. today, WriteRow(t) PROVE AccountingInv'
<1>1. PICK v \in Values :
        snapshots' = [u \in DOMAIN snapshots \cup {t} |-> IF u = t THEN v ELSE snapshots[u]]
  BY DEF WriteRow
<1>2. DOMAIN snapshots' = DOMAIN snapshots \cup {t}
  BY <1>1
<1>3. \A u \in DOMAIN snapshots : snapshots'[u] = snapshots[u]
  BY <1>1 DEF WriteRow
<1>4. snapshots' \in [DOMAIN snapshots' -> Values]
  BY <1>1, <1>2 DEF AccountingInv, TablesOK
<1>5. writes' \in 0 .. MaxWrites
  BY AccountingAssumption DEF AccountingInv, TablesOK, WriteRow, Write
<1>6. TablesOK'
  BY <1>2, <1>4, <1>5 DEF AccountingInv, TablesOK, WriteRow
<1> QED BY <1>2, <1>3, <1>6, WritersKeep DEF WriteRow

\* An event is added.
LEMMA AddEventKeeps ==
  ASSUME AccountingInv, NEW k \in EventKinds, NEW t \in 0 .. today, AddEvent(k, t)
  PROVE  AccountingInv'
<1>1. events' = events \cup {[kind |-> k, at |-> t]} /\ UNCHANGED <<today, snapshots, page>>
  BY DEF AddEvent
<1>2. IsFiniteSet(events')
  BY <1>1, FS_AddElement DEF AccountingInv, TablesOK
<1>3. t \in Days
  BY AccountingAssumption DEF AccountingInv, TablesOK, Days
<1>4. events' \subseteq [kind : EventKinds, at : Days]
  BY <1>1, <1>3 DEF AccountingInv, TablesOK
<1>5. writes' \in 0 .. MaxWrites
  BY AccountingAssumption DEF AccountingInv, TablesOK, AddEvent, Write
<1>6. TablesOK'
  BY <1>1, <1>2, <1>4, <1>5 DEF AccountingInv, TablesOK
<1> QED BY <1>1, <1>6, WritersKeep

\* A step of the page itself.
LEMMA PageGoes ==
  ASSUME AccountingInv, UNCHANGED <<today, snapshots, events, writes>>,
         NEW pg \in PageRecord, page' = pg, AnswersOK(pg), WindowsMeet(pg)
  PROVE  AccountingInv'
<1>1. TablesOK' /\ PageRecord' = PageRecord
  BY DEF AccountingInv, TablesOK, PageRecord
<1>2. \A samples : Kept(samples)' = Kept(samples)
  BY DEF Kept, Ordered, TimesOf
<1>3. AnswersOK(page)'
  BY <1>2 DEF AnswersOK, Total, TimesOf
<1>4. WindowsMeet(page)'
  BY DEF WindowsMeet, TimesOf
<1> QED BY <1>1, <1>3, <1>4 DEF AccountingInv

\* The rows of the chart's series have a value.
LEMMA ReadSeriesKeeps == ASSUME AccountingInv, ReadSeries PROVE AccountingInv'
<1> DEFINE T == {t \in DOMAIN snapshots : t >= Since /\ Total(snapshots[t]) > 0}
           pg == [page EXCEPT !.pc = "markers", !.series = account_value(Since)]
<1>1. /\ page \in PageRecord /\ UNCHANGED <<today, snapshots, events, writes>> /\ page' = pg
      /\ account_value(Since) = Ordered(T)
  BY DEF AccountingInv, ReadSeries, account_value
<1>2. /\ Kept(Ordered(T)) /\ TimesOf(Ordered(T)) = T /\ Ordered(T) \in Seq(Sample)
  BY RowsAreTimes DEF AccountingInv
<1>3. pg \in PageRecord
  BY <1>1, <1>2, Zenon DEF PageRecord
<1>4. /\ pg.pc = "markers" /\ pg.series = Ordered(T) /\ pg.snaps = page.snaps
      /\ pg.since = page.since
  BY <1>1 DEF PageRecord
<1>5. AnswersOK(pg) /\ WindowsMeet(pg)
  <2> HIDE DEF pg
  <2>1. \A t \in T : Total(snapshots[t]) > 0
    OBVIOUS
  <2> HIDE DEF T
  <2> QED BY <1>2, <1>4, <2>1 DEF AccountingInv, AnswersOK, WindowsMeet
<1> HIDE DEF pg
<1> QED BY <1>1, <1>3, <1>5, PageGoes

\* Answers about events, and about the newest value.
LEMMA OtherAnswersKeep ==
  ASSUME AccountingInv, ReadMarkers \/ LifetimeEvents \/ LifetimeCurrent \/ ReadCapital
  PROVE  AccountingInv'
<1>1. /\ page \in PageRecord /\ UNCHANGED <<today, snapshots, events, writes>>
      /\ AnswersOK(page) /\ WindowsMeet(page) /\ TablesOK
  BY DEF AccountingInv, ReadMarkers, LifetimeEvents, LifetimeCurrent, ReadCapital
<1>2. CASE ReadMarkers
  <2> DEFINE E == {e \in events : e.at >= Since}
             pg == [page EXCEPT !.pc = "snapshots", !.markers = E]
  <2>1. page' = pg /\ E \in SUBSET events
    BY <1>2 DEF ReadMarkers
  <2> HIDE DEF E
  <2>2. pg \in PageRecord
    BY <1>1, <2>1, Zenon DEF PageRecord
  <2>3. pg.pc = "snapshots" /\ pg.series = page.series /\ pg.snaps = page.snaps
        /\ pg.since = page.since
    BY <1>1 DEF PageRecord
  <2> HIDE DEF pg
  <2>4. AnswersOK(pg) /\ WindowsMeet(pg)
    BY <1>1, <2>3 DEF AnswersOK, WindowsMeet
  <2> QED BY <1>1, <2>1, <2>2, <2>4, PageGoes
<1>3. CASE LifetimeEvents
  <2> DEFINE pg == [page EXCEPT !.pc = "current", !.deployed = Deployed]
  <2>1. page' = pg /\ Deployed \in SUBSET events
    BY <1>3 DEF LifetimeEvents, Deployed, UsdEvents
  <2>2. pg \in PageRecord
    BY <1>1, <2>1, Zenon DEF PageRecord
  <2>3. pg.pc = "current" /\ pg.series = page.series /\ pg.snaps = page.snaps
        /\ pg.since = page.since
    BY <1>1 DEF PageRecord
  <2> HIDE DEF pg
  <2>4. AnswersOK(pg) /\ WindowsMeet(pg)
    BY <1>1, <2>3 DEF AnswersOK, WindowsMeet
  <2> QED BY <1>1, <2>1, <2>2, <2>4, PageGoes
<1>4. CASE LifetimeCurrent
  <2> DEFINE valued == {t \in DOMAIN snapshots : Total(snapshots[t]) > 0}
             newest == IF valued = {} THEN NoValue ELSE Max(valued)
             pg == [page EXCEPT !.pc = "snapshots", !.current = newest]
  <2>1. page' = pg /\ newest \in Nat \cup {NoValue}
    <3>1. CASE valued = {}
      BY <1>4, <3>1 DEF LifetimeCurrent
    <3>2. CASE valued # {}
      <4>1. IsFiniteSet(valued) /\ valued \subseteq Nat
        BY <1>1, RowsAreTimes
      <4>2. Max(valued) \in valued
        <5> HIDE DEF valued
        <5> QED BY <3>2, <4>1, GreatestOfFinite
      <4> QED BY <1>4, <3>2, <4>1, <4>2 DEF LifetimeCurrent
    <3> QED BY <3>1, <3>2
  <2> HIDE DEF newest
  <2>2. pg \in PageRecord
    BY <1>1, <2>1, Zenon DEF PageRecord
  <2>3. pg.pc = "snapshots" /\ pg.series = page.series /\ pg.snaps = page.snaps
        /\ pg.since = page.since
    BY <1>1 DEF PageRecord
  <2> HIDE DEF pg
  <2>4. AnswersOK(pg) /\ WindowsMeet(pg)
    BY <1>1, <2>3 DEF AnswersOK, WindowsMeet
  <2> QED BY <1>1, <2>1, <2>2, <2>4, PageGoes
<1>5. CASE ReadCapital
  <2> DEFINE E == {e \in UsdEvents(events) : e.at >= page.since}
             pg == [page EXCEPT !.pc = "shown", !.capital = E]
  <2>1. page.pc = "capital" /\ page' = pg /\ E \in SUBSET events
    BY <1>5 DEF ReadCapital, UsdEvents
  <2> HIDE DEF E
  <2>2. pg \in PageRecord
    BY <1>1, <2>1, Zenon DEF PageRecord
  <2>3. pg.series = page.series /\ pg.snaps = page.snaps
        /\ pg.since = page.since /\ pg.failed = page.failed
    BY <1>1 DEF PageRecord
  <2> HIDE DEF pg
  <2>4. AnswersOK(pg) /\ WindowsMeet(pg)
    BY <1>1, <2>1, <2>3 DEF AnswersOK, WindowsMeet
  <2> QED BY <1>1, <2>1, <2>2, <2>4, PageGoes
<1> QED BY <1>2, <1>3, <1>4, <1>5

\* The snapshots of the attribution: every row of the window that has both
\* prices and a value.
LEMMA ReadSnapshotsKeeps == ASSUME AccountingInv, ReadSnapshots PROVE AccountingInv'
<1> DEFINE since == IF page.kind = "lifetime" THEN 0 ELSE Since
           T == {t \in DOMAIN snapshots :
                   /\ t >= since
                   /\ snapshots[t].p # 0 /\ snapshots[t].q # 0 /\ Total(snapshots[t]) # 0}
           pg == [page EXCEPT !.pc = "capital", !.since = since, !.snaps = Snapshots(since)]
<1>1. /\ page \in PageRecord /\ UNCHANGED <<today, snapshots, events, writes>> /\ page' = pg
      /\ Snapshots(since) = Ordered(T)
  BY DEF AccountingInv, ReadSnapshots, Snapshots
<1>2. Kept(Ordered(T)) /\ TimesOf(Ordered(T)) = T /\ Ordered(T) \in Seq(Sample)
  BY RowsAreTimes DEF AccountingInv
<1>3. since \in Int
  <2>1. today \in Int
    BY AccountingAssumption DEF AccountingInv, TablesOK, Days
  <2>2. page.period \in Nat
    BY <1>1 DEF PageRecord
  <2> QED BY <2>1, <2>2 DEF Since
<1>4. pg \in PageRecord
  <2> HIDE DEF since, T
  <2> QED BY <1>1, <1>2, <1>3, Zenon DEF PageRecord
<1>5. /\ pg.series = page.series /\ pg.snaps = Ordered(T) /\ pg.since = since
  <2> HIDE DEF since, T
  <2> QED BY <1>1 DEF PageRecord
<1>6. AnswersOK(pg)
  <2>1. \A t \in T : t >= since
    OBVIOUS
  <2> HIDE DEF pg, T, since
  <2> QED BY <1>2, <1>5, <2>1 DEF AccountingInv, AnswersOK
<1>7. \A t \in TimesOf(page.series) :
        t >= since /\ snapshots[t].p # 0 /\ snapshots[t].q # 0 => t \in T
  <2> TAKE t \in TimesOf(page.series)
  <2>1. t \in DOMAIN snapshots /\ Total(snapshots[t]) > 0
    BY DEF AccountingInv, AnswersOK, Kept
  <2>2. Total(snapshots[t]) # 0
    BY <2>1
  <2> HIDE DEF since
  <2> QED BY <2>1, <2>2
<1>8. WindowsMeet(pg)
  <2> HIDE DEF pg, T, since
  <2> QED BY <1>2, <1>5, <1>7 DEF WindowsMeet
<1> HIDE DEF pg, T, since
<1> QED BY <1>1, <1>4, <1>6, <1>8, PageGoes

\* Without an attribution nothing of it is kept.
LEMMA AttributionFailsKeeps == ASSUME AccountingInv, AttributionFails PROVE AccountingInv'
<1> DEFINE pg == [page EXCEPT !.pc = "shown", !.snaps = <<>>, !.failed = TRUE]
<1>1. /\ page \in PageRecord /\ UNCHANGED <<today, snapshots, events, writes>> /\ page' = pg
      /\ <<>> \in Seq(Sample) /\ TablesOK /\ AnswersOK(page)
  BY EmptySeq DEF AccountingInv, AttributionFails
<1>2. pg \in PageRecord
  BY <1>1, Zenon DEF PageRecord
<1>3. pg.series = page.series /\ pg.snaps = <<>> /\ pg.failed = TRUE
  BY <1>1 DEF PageRecord
<1> HIDE DEF pg
<1>4. AnswersOK(pg) /\ WindowsMeet(pg)
  BY <1>1, <1>3, NothingKept DEF AnswersOK, WindowsMeet
<1> QED BY <1>1, <1>2, <1>4, PageGoes

\* The invariant holds of every behaviour.
THEOREM AccountingInvariant == AccountingSpec => []AccountingInv
<1>1. AccountingInit => AccountingInv
  BY AccountingInvInit
<1>2. AccountingInv /\ [AccountingNext]_accountingVars => AccountingInv'
  <2> SUFFICES ASSUME AccountingInv, [AccountingNext]_accountingVars PROVE AccountingInv'
    OBVIOUS
  <2>1. CASE NextDay
    BY <2>1, NextDayKeeps
  <2>2. ASSUME NEW t \in 0 .. today, WriteRow(t) PROVE AccountingInv'
    BY <2>2, WriteRowKeeps
  <2>3. ASSUME NEW k \in EventKinds, NEW t \in 0 .. today, AddEvent(k, t) PROVE AccountingInv'
    BY <2>3, AddEventKeeps
  <2>4. CASE ReadSeries
    BY <2>4, ReadSeriesKeeps
  <2>5. CASE ReadMarkers \/ LifetimeEvents \/ LifetimeCurrent \/ ReadCapital
    BY <2>5, OtherAnswersKeep
  <2>6. CASE ReadSnapshots
    BY <2>6, ReadSnapshotsKeeps
  <2>7. CASE AttributionFails
    BY <2>7, AttributionFailsKeeps
  <2>8. CASE UNCHANGED accountingVars
    <3>1. UNCHANGED <<today, snapshots, events, writes>> /\ page' = page
      BY <2>8 DEF accountingVars
    <3> QED BY <3>1, PageGoes DEF AccountingInv
  <2> QED BY <2>1, <2>2, <2>3, <2>4, <2>5, <2>6, <2>7, <2>8 DEF AccountingNext
<1> QED BY <1>1, <1>2, PTL DEF AccountingSpec

\* The types of the accounting's state.
THEOREM AccountingTypes == AccountingSpec => []AccountingTypeOK
<1>1. AccountingInv => AccountingTypeOK
  <2> SUFFICES ASSUME AccountingInv PROVE AccountingTypeOK
    OBVIOUS
  <2>1. DOMAIN snapshots \subseteq Days
    <3>1. today \in Int /\ today <= LastDay
      BY AccountingAssumption DEF AccountingInv, TablesOK, Days
    <3>2. 0 .. today \subseteq 0 .. LastDay
      BY <3>1, AccountingAssumption
    <3> QED BY <3>2 DEF AccountingInv, TablesOK, Days
  <2>2. /\ page.pc \in {"open", "markers", "current", "snapshots", "capital", "shown"}
        /\ page.capital \subseteq events /\ page.markers \subseteq events
    BY DEF AccountingInv, PageRecord
  <2>3. \A t \in DOMAIN snapshots : snapshots[t] \in Values
    BY DEF AccountingInv, TablesOK
  <2> QED BY <2>1, <2>2, <2>3 DEF AccountingInv, TablesOK, AccountingTypeOK
<1> QED BY <1>1, AccountingInvariant, PTL

\* What the page was answered adds up: its snapshots are in order and its
\* capital is finite.
LEMMA PageIsAttributable == AccountingInv => Attributable
<1> SUFFICES ASSUME AccountingInv PROVE Attributable
  OBVIOUS
<1>1. Kept(page.snaps) /\ TablesOK /\ page \in PageRecord
  BY DEF AccountingInv, AnswersOK
<1>2. InOrder(page.snaps)
  BY <1>1, RowsAreTimes DEF Kept
<1>3. page.capital \in SUBSET events
  BY <1>1 DEF PageRecord
<1>4. IsFiniteSet(page.capital)
  BY <1>1, <1>3, FS_Subset DEF TablesOK
<1>5. page.capital \subseteq Event
  <2>1. Days \subseteq Nat
    BY AccountingAssumption DEF Days
  <2> QED BY <1>1, <1>3, <2>1 DEF TablesOK, Event
<1> QED BY <1>2, <1>4, <1>5 DEF Attributable

\* What the trades card shows at any point is the sum of what changes of the
\* holdings brought, those of the dollars included, less the capital that came
\* in: though it is computed as what remains of the change in value
\* (charts.rs:299-303).
THEOREM CardsAddUp == AccountingSpec => []TradesAreTheGains
BY AccountingInvariant, PageIsAttributable, CardsAreTheGains, PTL

-----------------------------------------------------------------------------
(* The chart and the lifetime tile                                         *)

\* If the series and the attribution are as long as each other and begin with
\* the same row, they are the same rows: each row of the series has a value and
\* both prices, so that the attribution has it as well.
LEMMA SameRows ==
  ASSUME AccountingInv, page.pc = "shown", AlignedPnl, page.series # <<>>,
         page.series[1].t = page.snaps[1].t,
         \A v \in Values : v.p # 0 /\ v.q # 0
  PROVE  page.series = page.snaps
<1> DEFINE S == TimesOf(page.series)
           T == TimesOf(page.snaps)
<1>1. /\ TablesOK /\ page \in PageRecord /\ Kept(page.series) /\ Kept(page.snaps)
      /\ ~page.failed /\ Len(page.snaps) = Len(page.series) /\ Len(page.snaps) >= 2
  BY DEF AccountingInv, AnswersOK, AlignedPnl, PnlKnown
<1>2. /\ InOrder(page.series) /\ InOrder(page.snaps) /\ IsFiniteSet(S) /\ IsFiniteSet(T)
      /\ S \subseteq Nat /\ T \subseteq Nat
      /\ S \subseteq DOMAIN snapshots /\ T \subseteq DOMAIN snapshots
      /\ page.series = Ordered(S) /\ page.snaps = Ordered(T)
  BY <1>1, RowsAreTimes DEF Kept
<1>3. /\ Len(page.series) = Cardinality(S) /\ Len(page.snaps) = Cardinality(T)
  BY <1>1, <1>2, OrderedIs DEF TablesOK
<1>4. Len(page.series) \in Nat /\ DOMAIN page.series = 1 .. Len(page.series)
      /\ DOMAIN page.snaps = 1 .. Len(page.snaps) /\ Len(page.series) >= 2
  BY <1>1, <1>2, SampleTypes
<1>5. page.series[1].t >= page.since
  <2>1. page.snaps[1].t \in T
    BY <1>1, <1>4 DEF TimesOf
  <2> QED BY <2>1 DEF AccountingInv, AnswersOK
<1>6. page.since \in Int /\ page.series[1].t \in Nat
  BY <1>1, <1>2, <1>4, SampleTypes DEF PageRecord
<1>7. S \subseteq T
  <2> SUFFICES ASSUME NEW i \in DOMAIN page.series PROVE page.series[i].t \in T
    BY DEF TimesOf
  <2> DEFINE t == page.series[i].t
  <2>1. t \in S /\ t \in Nat /\ t \in DOMAIN snapshots
    BY <1>2 DEF TimesOf
  <2>2. page.series[1].t <= t
    <3>1. i = 1 \/ 1 < i
      BY <1>4
    <3>2. 1 < i => page.series[1].t < t
      BY <1>2, <1>4 DEF InOrder
    <3> QED BY <1>6, <2>1, <3>1, <3>2
  <2>3. t >= page.since
    BY <1>5, <1>6, <2>1, <2>2
  <2>4. snapshots[t] \in Values
    BY <1>1, <2>1 DEF TablesOK
  <2> HIDE DEF t
  <2>5. t \in T
    BY <1>1, <2>1, <2>3, <2>4 DEF AccountingInv, WindowsMeet
  <2> QED BY <2>5 DEF t
<1>8. S = T
  <2> HIDE DEF S, T
  <2>1. Cardinality(S) = Cardinality(T)
    BY <1>1, <1>3
  <2> QED BY <1>2, <1>7, <2>1, FS_Subset
<1> QED BY <1>2, <1>8

\* What the chart shows at its samples follows the series it draws.
LEMMA ReadoutFollows ==
  ASSUME \A v \in Values : v.p # 0 /\ v.q # 0, AccountingInv
  PROVE  ReadoutMatchesSeries
<1> SUFFICES ASSUME page.pc = "shown", NEW i \in DOMAIN page.series,
                    ~PnlKnown \/ page.series[1].t = page.snaps[1].t
             PROVE  LET shown    == Readout(i)
                        start    == Total(page.series[1].v)
                        excluded == shown.basis - start
                    IN  shown.delta + excluded = Total(page.series[i].v) - start
  BY DEF ReadoutMatchesSeries
<1> DEFINE start == Total(page.series[1].v)
           now == Total(page.series[i].v)
<1>1. InOrder(page.series) /\ DOMAIN page.series = 1 .. Len(page.series)
      /\ Len(page.series) \in Nat
  BY RowsAreTimes, SampleTypes DEF AccountingInv, AnswersOK, Kept
<1>2. start \in Int /\ now \in Int
  <2>1. i \in 1 .. Len(page.series) /\ 1 \in 1 .. Len(page.series)
    BY <1>1
  <2>2. page.series[i].v \in Values /\ page.series[1].v \in Values
    BY <1>1, <2>1, SampleTypes
  <2> QED BY <2>2, TotalsChange
<1>3. CASE ~AlignedPnl
  <2>1. Readout(i).delta = now - start /\ Readout(i).basis = start
    BY <1>3 DEF Readout
  <2> HIDE DEF start, now
  <2>2. Readout(i).delta + (Readout(i).basis - start) = now - start
    BY <1>2, <2>1
  <2> QED BY <2>2 DEF start, now
<1>4. CASE AlignedPnl
  <2>1. page.series = page.snaps
    <3>1. page.series # <<>> /\ page.series[1].t = page.snaps[1].t
      BY <1>4 DEF AlignedPnl
    <3> QED BY <1>4, <3>1, SameRows
  <2> DEFINE entry == attribution(page.snaps, page.capital)[i]
  <2>2. EntryAddsUp(entry, page.snaps, page.capital, i)
    <3>1. i \in 1 .. Len(page.snaps)
      BY <1>1, <2>1
    <3> QED BY <3>1, PageIsAttributable, AttributionAddsUp DEF Attributable
  <2>3. /\ Readout(i).delta = entry.market + entry.trade
        /\ Readout(i).basis = start + entry.capital
    BY <1>4 DEF Readout, Attributed
  <2> HIDE DEF entry
  <2>4. /\ entry.market \in Int /\ entry.trade \in Int /\ entry.capital \in Int
        /\ entry.trade = now - start - entry.market - entry.capital
    BY <2>1, <2>2 DEF EntryAddsUp
  <2> HIDE DEF start, now
  <2> DEFINE market == entry.market
             trade == entry.trade
             came == entry.capital
  <2>5. market \in Int /\ trade \in Int /\ came \in Int /\ trade = now - start - market - came
    BY <2>4
  <2>6. Readout(i).delta = market + trade /\ Readout(i).basis = start + came
    BY <2>3
  <2> HIDE DEF market, trade, came
  <2>7. (market + trade) + ((start + came) - start) = now - start
    BY <1>2, <2>5
  <2>8. Readout(i).delta + (Readout(i).basis - start) = now - start
    BY <2>6, <2>7
  <2> QED BY <2>8 DEF start, now
<1> QED BY <1>3, <1>4

\* The overview chart joins two answers by position.  At every sample, what it
\* shows as P&L and the capital it excludes add up to the change of the series
\* it draws, whatever is written between the queries, as long as the window
\* begins with the same row in both (charts.rs:402-404, chart.rs:235-252).  Every
\* row has both prices: the live poller and the reconstruction leave out a row
\* without (balance_snapshot.rs:56-62, snapshot_backfill.rs:180-189).
THEOREM ChartAddsUp ==
  ASSUME \A v \in Values : v.p # 0 /\ v.q # 0
  PROVE  AccountingSpec => []ReadoutMatchesSeries
<1>1. AccountingInv => ReadoutMatchesSeries
  BY ReadoutFollows
<1> QED BY <1>1, AccountingInvariant, PTL

\* The lifetime P&L and the attribution over all time count every dollar that
\* came in once: they differ by the value at the first snapshot and by the
\* capital outside the snapshots, if nothing was written in between
\* (roi.rs:90-94, charts.rs:166-167).
THEOREM LifetimeAddsUp == AccountingSpec => []LifetimeAgreesWithAttribution
<1> DEFINE n == Len(page.snaps)
           first == page.snaps[1]
           entry == attribution(page.snaps, page.capital)[n]
           outside == {e \in page.capital : e.at <= first.t \/ e.at > page.current}
           inside == Between(page.snaps, page.capital, n)
<1>1. ASSUME AccountingInv, PnlKnown, page.deployed = page.capital,
             page.current = page.snaps[n].t
      PROVE  LifetimePnl = Total(first.v) + entry.market + entry.trade - Flow(outside)
  <2>1. Attributable
    BY <1>1, PageIsAttributable
  <2>2. n \in Nat /\ n >= 2 /\ 1 \in 1 .. n /\ n \in 1 .. n /\ DOMAIN page.snaps = 1 .. n
    BY <1>1, <2>1, SampleTypes DEF Attributable, PnlKnown
  <2>3. /\ first.t \in Nat /\ first.v \in Values
        /\ page.snaps[n].t \in Nat /\ page.snaps[n].v \in Values
    BY <2>1, <2>2, SampleTypes DEF Attributable
  <2>4. Total(first.v) \in Int /\ Total(page.snaps[n].v) \in Int
    BY <2>3, TotalsChange
  <2>5. EntryAddsUp(entry, page.snaps, page.capital, n)
    BY <2>1, <2>2, AttributionAddsUp DEF Attributable
  <2>6. page.snaps[n].v = snapshots[page.current]
    <3>1. Kept(page.snaps) /\ TablesOK
      BY <1>1 DEF AccountingInv, AnswersOK
    <3> DEFINE T == TimesOf(page.snaps)
    <3>2. IsFiniteSet(T) /\ T \subseteq Nat /\ T \subseteq DOMAIN snapshots
          /\ page.snaps = Ordered(T)
      BY <3>1, RowsAreTimes DEF Kept
    <3> HIDE DEF T
    <3>3. /\ Len(Ordered(T)) = Cardinality(T)
          /\ \A i \in 1 .. Cardinality(T) : Ordered(T)[i].v = snapshots[Ordered(T)[i].t]
      BY <3>1, <3>2, OrderedIs DEF TablesOK
    <3> QED BY <1>1, <2>2, <3>2, <3>3
  <2>7. Flow(page.capital) = Flow(inside) + Flow(outside)
        /\ Flow(inside) \in Int /\ Flow(outside) \in Int
    <3>1. \A e \in page.capital : e.at \in Nat
      BY <2>1 DEF Attributable, Event
    <3>2. \A e \in page.capital :
            (e.at <= first.t \/ e.at > page.current)
              <=> ~(page.snaps[1].t < e.at /\ e.at <= page.snaps[n].t)
      BY <1>1, <2>3, <3>1
    <3>3. outside = page.capital \ inside /\ inside \in SUBSET page.capital
          /\ outside \in SUBSET page.capital
      BY <3>2 DEF Between
    <3> HIDE DEF inside, outside
    <3>4. Flow(page.capital) = Flow(inside) + Flow(page.capital \ inside)
          /\ Flow(inside) \in Int
      BY <2>1, <3>3, FlowParts DEF Attributable
    <3>5. Flow(outside) \in Int
      BY <2>1, <3>3, FlowParts DEF Attributable
    <3> QED BY <3>3, <3>4, <3>5
  <2>8. LifetimePnl = Total(page.snaps[n].v) - Flow(page.capital)
    <3>1. page.current # NoValue
      BY <1>1, <2>3, AccountingAssumption
    <3> QED BY <1>1, <2>6, <3>1 DEF LifetimePnl
  <2> DEFINE market == entry.market
             trade == entry.trade
             came == entry.capital
             then == Total(first.v)
             now == Total(page.snaps[n].v)
             out == Flow(outside)
  <2>9. /\ market \in Int /\ trade \in Int /\ came \in Int /\ then \in Int /\ now \in Int
        /\ out \in Int /\ trade = now - then - market - came /\ LifetimePnl = now - (came + out)
    BY <2>4, <2>5, <2>7, <2>8 DEF EntryAddsUp
  <2> HIDE DEF market, trade, came, then, now, out
  <2>10. LifetimePnl = then + market + trade - out
    BY <2>9
  <2> QED BY <2>10 DEF market, trade, then, out
<1>2. AccountingInv => LifetimeAgreesWithAttribution
  BY <1>1 DEF LifetimeAgreesWithAttribution, Attributed
<1> QED BY <1>2, AccountingInvariant, PTL
=============================================================================
