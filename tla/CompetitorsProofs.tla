------------------------- MODULE CompetitorsProofs -------------------------
(***************************************************************************)
(* What Competitors and TierRecommendation promise for any number of       *)
(* scans, any listings and any faults; that scans end is proved assuming   *)
(* the fair steps possible where their guards hold (ScansGoOn).            *)
(***************************************************************************)
EXTENDS Competitors, TLAPS, FiniteSetTheorems

-----------------------------------------------------------------------------
(* The advice                                                              *)

\* What is at most the cutoff has fewer than TIER_N rows below it.
LEMMA CutoffRank ==
  ASSUME NEW S, IsFiniteSet(S), NEW rows \in [S -> Int],
         Tier1(rows) # NoTier
  PROVE  /\ Tier1(rows) \in Int
         /\ IsFiniteSet(Cheaper(rows, Tier1(rows)))
         /\ Cardinality(Cheaper(rows, Tier1(rows))) < TIER_N
<1>1. Tier1(rows) \in Cutoffs(rows)
  BY DEF Tier1
<1>2. IsTier1(rows, Tier1(rows)) /\ Tier1(rows) \in Int
  BY <1>1 DEF Cutoffs
<1>3. Cheaper(rows, Tier1(rows)) \subseteq S
  BY DEF Cheaper
<1> QED BY <1>2, <1>3, FS_Subset DEF IsTier1

\* Going to the cutoff or below it leaves at most TIER_N - 1 rivals cheaper
\* (spread.rs:44-64): following the advice leads into the tier, for every
\* scan and every spread of ours.
THEOREM AdviceEntersTier ==
  ASSUME NEW S, IsFiniteSet(S), NEW quotes_ \in [S -> Int],
         NEW us \in Int \cup {Unknown}
  PROVE  EntersTier(quotes_, us)
<1> DEFINE rows == WithUs(quotes_, us)
           t1 == Tier1(rows)
           r == Recommended(rows, us)
           cheaper == {p \in Rivals(quotes_) : quotes_[p] < r}
<1> SUFFICES ASSUME us # Unknown, t1 # NoTier
             PROVE  Cardinality(cheaper) + 1 <= TIER_N
  BY DEF EntersTier, RankAmongRivals
<1>1. PICK T : /\ IsFiniteSet(T)
               /\ rows \in [T -> Int]
               /\ \A p \in Rivals(quotes_) : p \in T /\ rows[p] = quotes_[p]
  <2>1. CASE Us \in S
    BY <2>1 DEF WithUs, Rivals
  <2>2. CASE Us \notin S
    <3>1. IsFiniteSet(S \cup {Us})
      BY FS_AddElement
    <3>2. rows \in [S \cup {Us} -> Int]
      BY <2>2 DEF WithUs
    <3>3. \A p \in Rivals(quotes_) : rows[p] = quotes_[p]
      BY <2>2 DEF WithUs, Rivals
    <3> QED BY <3>1, <3>2, <3>3 DEF Rivals
  <2> QED BY <2>1, <2>2
<1>2. /\ t1 \in Int
      /\ IsFiniteSet(Cheaper(rows, t1))
      /\ Cardinality(Cheaper(rows, t1)) < TIER_N
  BY <1>1, CutoffRank
<1> HIDE DEF rows, t1
<1>3. r \in Int /\ r <= t1
  BY <1>2 DEF Recommended, t1, SAFETY_MARGIN_PCT, STAY_BAND_PCT
<1> HIDE DEF r
<1>4. cheaper \subseteq Cheaper(rows, t1)
  BY <1>1, <1>2, <1>3 DEF Cheaper, Rivals
<1>5. /\ IsFiniteSet(cheaper)
      /\ Cardinality(cheaper) <= Cardinality(Cheaper(rows, t1))
  BY <1>2, <1>4, FS_Subset
<1>6. Cardinality(cheaper) \in Nat /\ Cardinality(Cheaper(rows, t1)) \in Nat
  BY <1>2, <1>5, FS_CardinalityType
<1> QED BY <1>2, <1>5, <1>6 DEF TIER_N

\* Our own row counts beside those of the rivals.
LEMMA CountedWithUs ==
  ASSUME NEW S, IsFiniteSet(S), Us \notin S, NEW q \in [S -> Int],
         NEW u \in Int, u # Unknown, NEW x \in Int
  PROVE  LET rows == WithUs(q, u)
         IN  /\ Cardinality(Cheaper(q, x)) \in Nat /\ Cardinality(NotDearer(q, x)) \in Nat
             /\ Cardinality(Cheaper(rows, x)) =
                  Cardinality(Cheaper(q, x)) + IF u < x THEN 1 ELSE 0
             /\ Cardinality(NotDearer(rows, x)) =
                  Cardinality(NotDearer(q, x)) + IF u <= x THEN 1 ELSE 0
<1> DEFINE rows == WithUs(q, u)
           below == Cheaper(q, x)
           upTo == NotDearer(q, x)
<1>1. rows = [p \in S \cup {Us} |-> IF p = Us THEN u ELSE q[p]]
  BY DEF WithUs
<1>2. below \subseteq S /\ upTo \subseteq S
  BY DEF Cheaper, NotDearer
<1>3. IsFiniteSet(below) /\ IsFiniteSet(upTo)
  BY <1>2, FS_Subset
<1>4. /\ Cardinality(below) \in Nat /\ Cardinality(upTo) \in Nat
      /\ Cardinality(below \cup {Us}) = Cardinality(below) + 1
      /\ Cardinality(upTo \cup {Us}) = Cardinality(upTo) + 1
  BY <1>2, <1>3, FS_CardinalityType, FS_AddElement
<1>5. /\ Cheaper(rows, x) = IF u < x THEN below \cup {Us} ELSE below
      /\ NotDearer(rows, x) = IF u <= x THEN upTo \cup {Us} ELSE upTo
  BY <1>1 DEF Cheaper, NotDearer
<1> HIDE DEF rows, below, upTo
<1>6. /\ Cardinality(Cheaper(rows, x)) = Cardinality(below) + IF u < x THEN 1 ELSE 0
      /\ Cardinality(NotDearer(rows, x)) = Cardinality(upTo) + IF u <= x THEN 1 ELSE 0
  BY <1>4, <1>5
<1> QED BY <1>4, <1>6 DEF rows, below, upTo

\* When we go just below the cutoff t1, the new cutoff t2 lies between our new
\* spread and the old cutoff: a higher one would leave two rivals too few up to
\* t1, a lower one three rivals below it.
LEMMA CutoffMoves ==
  ASSUME NEW S, IsFiniteSet(S), Us \notin S, NEW q \in [S -> Int], NEW us \in Int,
         NEW t1 \in Int, IsTier1(WithUs(q, us), t1),
         NEW r \in Int, r < t1,
         NEW t2 \in Int, IsTier1(WithUs(q, r), t2)
  PROVE  r <= t2 /\ t2 <= t1
<1>1. us # Unknown /\ r # Unknown
  BY TierAssumption
<1>2. ASSUME NEW x \in Int, NEW y \in Int, x < y
      PROVE  Cardinality(NotDearer(q, x)) <= Cardinality(Cheaper(q, y))
  <2>1. NotDearer(q, x) \subseteq Cheaper(q, y)
    BY <1>2 DEF NotDearer, Cheaper
  <2>2. IsFiniteSet(Cheaper(q, y))
    <3>1. Cheaper(q, y) \subseteq S
      BY DEF Cheaper
    <3> QED BY <3>1, FS_Subset
  <2> QED BY <2>1, <2>2, FS_Subset
<1>3. /\ Cardinality(Cheaper(q, t1)) \in Nat /\ Cardinality(NotDearer(q, t1)) \in Nat
      /\ Cardinality(Cheaper(q, t1)) < 3 /\ Cardinality(NotDearer(q, t1)) + 1 >= 3
  BY <1>1, CountedWithUs DEF IsTier1, TIER_N
<1>4. /\ Cardinality(Cheaper(q, t2)) \in Nat /\ Cardinality(NotDearer(q, t2)) \in Nat
      /\ r < t2 => Cardinality(Cheaper(q, t2)) + 1 < 3
      /\ t2 < r => Cardinality(NotDearer(q, t2)) >= 3
  BY <1>1, CountedWithUs DEF IsTier1, TIER_N
<1>5. CASE t1 < t2
  <2>1. Cardinality(NotDearer(q, t1)) <= Cardinality(Cheaper(q, t2))
    BY <1>2, <1>5
  <2> QED BY <1>3, <1>4, <1>5, <2>1
<1>6. CASE t2 < r
  <2>1. Cardinality(NotDearer(q, t2)) <= Cardinality(Cheaper(q, t1))
    BY <1>2, <1>6
  <2> QED BY <1>3, <1>4, <1>6, <2>1
<1> QED BY <1>5, <1>6

\* Once the advice is followed, the advice is to stay (spread.rs:53-56), for
\* every scan and every spread of ours.
THEOREM AdviceIsStable ==
  ASSUME NEW S, IsFiniteSet(S), NEW quotes_ \in [S -> Int],
         NEW us \in Int \cup {Unknown}
  PROVE  IsStable(quotes_, us)
<1> USE TierAssumption
<1> DEFINE rows == WithUs(quotes_, us)
           t1 == Tier1(rows)
           r == Recommended(rows, us)
           rows2 == WithUs(quotes_, r)
           t2 == Tier1(rows2)
<1> SUFFICES Recommended(rows2, r) = r
  BY DEF IsStable
<1>1. CASE us = Unknown
  BY <1>1 DEF Recommended
<1>2. CASE r = us
  BY <1>2
<1>3. CASE us # Unknown /\ r # us
  <2>1. t1 # NoTier /\ r = t1 - SAFETY_MARGIN_PCT
    BY <1>3 DEF Recommended
  <2>2. PICK T : IsFiniteSet(T) /\ rows \in [T -> Int]
    <3>1. CASE Us \in S
      BY <3>1 DEF WithUs
    <3>2. CASE Us \notin S
      <4>1. IsFiniteSet(S \cup {Us}) /\ rows \in [S \cup {Us} -> Int]
        BY <1>3, <3>2, FS_AddElement DEF WithUs
      <4> QED BY <4>1
    <3> QED BY <3>1, <3>2
  <2>3. t1 \in Int /\ IsTier1(rows, t1)
    <3>1. t1 \in Cutoffs(rows)
      BY <2>1 DEF Tier1
    <3> QED BY <2>2, <3>1 DEF Cutoffs
  <2>4. r \in Int /\ r < t1 /\ t1 - STAY_BAND_PCT <= r
    BY <2>1, <2>3 DEF SAFETY_MARGIN_PCT, STAY_BAND_PCT
  <2>5. CASE Us \in S
    <3>1. t2 = t1
      BY <2>5 DEF WithUs
    <3>2. r \in t2 - STAY_BAND_PCT .. t2
      BY <2>3, <2>4, <3>1 DEF STAY_BAND_PCT
    <3> QED BY <2>4, <3>2 DEF Recommended
  <2>6. CASE Us \notin S
    <3>1. CASE t2 = NoTier
      BY <2>4, <3>1 DEF Recommended
    <3>2. CASE t2 # NoTier
      <4>1. t2 \in Cutoffs(rows2)
        BY <3>2 DEF Tier1
      <4>2. rows2 \in [S \cup {Us} -> Int]
        BY <2>4, <2>6 DEF WithUs
      <4>3. t2 \in Int /\ IsTier1(rows2, t2)
        BY <4>1, <4>2 DEF Cutoffs
      <4> HIDE DEF rows2, t2, r, t1, rows
      <4>4. r <= t2 /\ t2 <= t1
        BY <1>3, <2>3, <2>4, <2>6, <4>3, CutoffMoves DEF rows, rows2
      <4>5. r \in t2 - STAY_BAND_PCT .. t2
        BY <2>3, <2>4, <4>3, <4>4 DEF STAY_BAND_PCT
      <4> QED BY <2>4, <4>5 DEF Recommended, t2
    <3> QED BY <3>1, <3>2
  <2> QED BY <2>5, <2>6
<1> QED BY <1>1, <1>2, <1>3

-----------------------------------------------------------------------------
(* Scans                                                                   *)

\* Which stage a watcher has reached says what is stored: its Job has ended
\* before it reads the logs, and its quotes are stored before it completes.
StageOf(s) ==
  /\ s > started => watcher[s] = "none"
  /\ watcher[s] \in {"none", "create", "poll"} => polls[s] < PollLimit
  /\ watcher[s] \in {"persist", "complete", "done"} =>
       job[s] = "ended" /\ logs[s] \in {output[s], Nothing}
  /\ watcher[s] \in {"complete", "done"} => quotes[s] = Rows(logs[s])

Stages == \A s \in Scans : StageOf(s)

\* The complete scans are those whose watchers are done.
CompletedAreDone ==
  \A s \in Scans : (\E i \in DOMAIN completed : completed[i] = s) <=> watcher[s] = "done"

CompletedOnce == \A i, j \in DOMAIN completed : i # j => completed[i] # completed[j]

ScanInv == TypeOK /\ Stages /\ CompletedAreDone /\ CompletedOnce

\* Before the first scan there is nothing to be wrong about.
LEMMA ScanInvInit == Init => ScanInv
BY CompetitorsAssumption
   DEF Init, ScanInv, TypeOK, Stages, StageOf,
       CompletedAreDone, CompletedOnce, Scans, Watchers

\* Every variable keeps its type.
LEMMA TypeStep == TypeOK /\ Stages /\ [Next]_vars => TypeOK'
<1> SUFFICES ASSUME TypeOK, Stages, [Next]_vars PROVE TypeOK'
  OBVIOUS
<1> USE CompetitorsAssumption DEF TypeOK, Watchers, Goto
<1>1. CASE Trigger
  BY <1>1 DEF Trigger, Scans
<1>2. ASSUME NEW s \in Scans, CreateJob(s) PROVE TypeOK'
  BY <1>2 DEF CreateJob
<1>3. ASSUME NEW s \in Scans, PollAgain(s) PROVE TypeOK'
  <2>1. polls[s] + 1 \in 0 .. PollLimit
    BY <1>3 DEF PollAgain, Stages, StageOf
  <2> QED BY <1>3, <2>1 DEF PollAgain
<1>4. ASSUME NEW s \in Scans, ReadLogs(s) PROVE TypeOK'
  BY <1>4 DEF ReadLogs
<1>5. ASSUME NEW s \in Scans, Persist(s) PROVE TypeOK'
  <2>1. Rows(logs[s]) \in Listings \cup {<<>>}
    BY DEF Rows
  <2> QED BY <1>5, <2>1 DEF Persist
<1>6. ASSUME NEW s \in Scans, JobEnds(s) PROVE TypeOK'
  BY <1>6 DEF JobEnds
<1>7. ASSUME NEW s \in Scans, CallFails(s) PROVE TypeOK'
  BY <1>7 DEF CallFails
<1>8. ASSUME NEW s \in Scans, Complete(s) PROVE TypeOK'
  BY <1>8 DEF Complete
<1>9. CASE Crash
  BY <1>9 DEF Crash
<1>10. CASE Finished \/ UNCHANGED vars
  BY <1>10 DEF Finished, vars
<1> QED
  BY <1>1, <1>2, <1>3, <1>4, <1>5, <1>6, <1>7, <1>8, <1>9, <1>10 DEF Next, WatcherStep

\* What is stored of a scan follows its watcher from stage to stage.
LEMMA StagesStep == ScanInv /\ [Next]_vars => Stages'
<1> SUFFICES ASSUME TypeOK, Stages, [Next]_vars, NEW t \in Scans
             PROVE  StageOf(t)'
  BY DEF ScanInv, Stages, Scans
<1> USE CompetitorsAssumption DEF TypeOK, Stages, StageOf, Goto
<1>1. CASE Trigger
  BY <1>1 DEF Trigger, Scans
<1>2. ASSUME NEW s \in Scans, CreateJob(s) PROVE StageOf(t)'
  BY <1>2 DEF CreateJob, Scans
<1>3. ASSUME NEW s \in Scans, PollAgain(s) PROVE StageOf(t)'
  BY <1>3 DEF PollAgain, Scans
<1>4. ASSUME NEW s \in Scans, ReadLogs(s) PROVE StageOf(t)'
  <2>1. PICK read \in {output[s], Nothing} : logs' = [logs EXCEPT ![s] = read]
    BY <1>4 DEF ReadLogs
  <2> QED BY <1>4, <2>1 DEF ReadLogs
<1>5. ASSUME NEW s \in Scans, Persist(s) PROVE StageOf(t)'
  BY <1>5 DEF Persist, Scans
<1>6. ASSUME NEW s \in Scans, JobEnds(s) PROVE StageOf(t)'
  BY <1>6 DEF JobEnds, Scans
<1>7. ASSUME NEW s \in Scans, CallFails(s) PROVE StageOf(t)'
  BY <1>7 DEF CallFails, Scans
<1>8. ASSUME NEW s \in Scans, Complete(s) PROVE StageOf(t)'
  BY <1>8 DEF Complete, Scans
<1>9. CASE Crash
  BY <1>9 DEF Crash, Alive
<1>10. CASE Finished \/ UNCHANGED vars
  BY <1>10 DEF Finished, vars
<1> QED
  BY <1>1, <1>2, <1>3, <1>4, <1>5, <1>6, <1>7, <1>8, <1>9, <1>10 DEF Next, WatcherStep

\* Only a watcher that is done has completed its scan, and no scan twice.
LEMMA CompletedStep == ScanInv /\ [Next]_vars => CompletedAreDone' /\ CompletedOnce'
<1> SUFFICES ASSUME TypeOK, Stages, CompletedAreDone, CompletedOnce, [Next]_vars
             PROVE  CompletedAreDone' /\ CompletedOnce'
  BY DEF ScanInv
<1> USE DEF TypeOK, CompletedAreDone, CompletedOnce
<1>1. ASSUME NEW s \in Scans, Complete(s)
      PROVE  CompletedAreDone' /\ CompletedOnce'
  <2>1. /\ watcher[s] = "complete"
        /\ watcher' = [watcher EXCEPT ![s] = "done"]
        /\ completed' = Append(completed, s)
    BY <1>1 DEF Complete, Goto
  <2>2. /\ DOMAIN completed' = DOMAIN completed \cup {Len(completed) + 1}
        /\ Len(completed) + 1 \notin DOMAIN completed
        /\ \A i \in DOMAIN completed : completed'[i] = completed[i]
        /\ completed'[Len(completed) + 1] = s
    BY <2>1
  <2>3. \A i \in DOMAIN completed : completed[i] # s
    BY <2>1
  <2>4. ASSUME NEW t \in Scans
        PROVE  (\E i \in DOMAIN completed' : completed'[i] = t) <=> watcher'[t] = "done"
    <3>1. CASE t = s
      BY <2>1, <2>2, <3>1
    <3>2. CASE t # s
      <4>1. watcher'[t] = watcher[t]
        BY <2>1, <3>2
      <4>2. (\E i \in DOMAIN completed' : completed'[i] = t)
              <=> (\E i \in DOMAIN completed : completed[i] = t)
        BY <2>2, <3>2, Zenon
      <4> QED BY <4>1, <4>2
    <3> QED BY <3>1, <3>2
  <2>5. CompletedOnce'
    BY <2>2, <2>3
  <2> QED BY <2>4, <2>5
<1>2. CASE ~\E s \in Scans : Complete(s)
  <2>1. completed' = completed
    BY <1>2 DEF Next, WatcherStep, Trigger, CreateJob, PollAgain, ReadLogs, Persist,
                JobEnds, CallFails, Crash, Finished, vars
  <2>2. ASSUME NEW t \in Scans PROVE (watcher'[t] = "done") <=> (watcher[t] = "done")
    <3>1. CASE Trigger
      BY <3>1, CompetitorsAssumption DEF Trigger, Goto, Stages, StageOf, Scans
    <3>2. CASE Crash
      BY <3>2 DEF Crash, Alive
    <3>3. CASE Finished \/ UNCHANGED vars
      BY <3>3 DEF Finished, vars
    <3>4. ASSUME NEW s \in Scans,
                 CreateJob(s) \/ PollAgain(s) \/ ReadLogs(s) \/ Persist(s)
                   \/ JobEnds(s) \/ CallFails(s)
          PROVE  (watcher'[t] = "done") <=> (watcher[t] = "done")
      BY <3>4 DEF CreateJob, PollAgain, ReadLogs, Persist, JobEnds, CallFails, Goto
    <3> QED BY <1>2, <3>1, <3>2, <3>3, <3>4 DEF Next, WatcherStep
  <2> QED BY <2>1, <2>2
<1> QED BY <1>1, <1>2

\* However scans overlap, fail or lose their watchers, a scan that is shown
\* has the quotes its watcher read, and none is completed twice.
THEOREM ScansShownAreWhole == Spec => []CompletedScansAreWhole
<1>1. ScanInv => CompletedScansAreWhole
  BY DEF ScanInv, TypeOK, Stages, StageOf, CompletedAreDone, CompletedOnce,
         CompletedScansAreWhole, Rows
<1>2. ScanInv /\ [Next]_vars => ScanInv'
  BY TypeStep, StagesStep, CompletedStep DEF ScanInv
<1> QED BY <1>1, <1>2, ScanInvInit, PTL DEF Spec

\* Whatever the latest scan says, however it was cut short, following the advice
\* leads into the tier, and the next advice is to stay (spread.rs:44-64).
THEOREM AdviceAlwaysHolds == Spec => []AdviceHolds
<1>1. TypeOK => AdviceHolds
  <2> SUFFICES ASSUME TypeOK, completed # <<>>, NEW us \in OurSpreads \cup {Unknown}
               PROVE  EntersTier(Offers(Latest), us) /\ IsStable(Offers(Latest), us)
    BY DEF AdviceHolds
  <2> USE CompetitorsAssumption
  <2>1. Latest \in Scans
    BY DEF TypeOK, Latest
  <2>2. quotes[Latest] \in Listings \cup {<<>>}
    BY <2>1 DEF TypeOK
  <2>3. /\ IsFiniteSet(DOMAIN quotes[Latest])
        /\ \A p \in DOMAIN quotes[Latest] : quotes[Latest][p] \in Int \cup {Disabled}
    BY <2>2, FS_EmptySet
  <2> DEFINE S == {p \in DOMAIN quotes[Latest] : quotes[Latest][p] # Disabled}
  <2>4. IsFiniteSet(S)
    BY <2>3, FS_Subset
  <2>5. Offers(Latest) \in [S -> Int]
    BY <2>3 DEF Offers
  <2>6. us \in Int \cup {Unknown}
    OBVIOUS
  <2> HIDE DEF S
  <2> QED BY <2>4, <2>5, <2>6, AdviceEntersTier, AdviceIsStable
<1>2. ScanInv /\ [Next]_vars => ScanInv'
  BY TypeStep, StagesStep, CompletedStep DEF ScanInv
<1>3. ScanInv => TypeOK
  BY DEF ScanInv
<1> QED BY <1>1, <1>2, <1>3, ScanInvInit, PTL DEF Spec

-----------------------------------------------------------------------------
(* Scans end                                                               *)

PollsRunning(s) == watcher[s] = "poll" /\ job[s] = "running"
PollsEnded(s)   == watcher[s] = "poll" /\ job[s] = "ended"
WatcherAt(s, pc) == watcher[s] = pc
ScanIsOver(s)   == watcher[s] \in {"done", "lost"}
GaveUp(s)       == watcher[s] = "gave_up"

\* A Job that is polled can end, and a watcher that does not wait for one can go
\* on.
ScansGoOn ==
  \A s \in Scans :
    /\ PollsRunning(s) => ENABLED <<JobEnds(s)>>_vars
    /\ PollsEnded(s) \/ WatcherAt(s, "persist") \/ WatcherAt(s, "complete") =>
         ENABLED <<WatcherStep(s)>>_vars

\* A watcher polls a Job that was created.
PollsAJob == \A s \in Scans : watcher[s] = "poll" => PollsRunning(s) \/ PollsEnded(s)

\* It keeps doing so.
LEMMA PollsAJobStep == ScanInv /\ PollsAJob /\ [Next]_vars => PollsAJob'
<1> SUFFICES ASSUME ScanInv, PollsAJob, [Next]_vars, NEW t \in Scans, watcher'[t] = "poll"
             PROVE  job'[t] \in {"running", "ended"}
  BY DEF PollsAJob, PollsRunning, PollsEnded
<1> USE DEF Goto
<1>1. /\ watcher \in [Scans -> Watchers] /\ job \in [Scans -> {"none", "running", "ended"}]
      /\ watcher[t] = "poll" => job[t] \in {"running", "ended"}
  BY DEF ScanInv, TypeOK, PollsAJob, PollsRunning, PollsEnded
<1>2. CASE Trigger
  BY <1>1, <1>2 DEF Trigger
<1>3. ASSUME NEW s \in Scans, CreateJob(s) PROVE job'[t] \in {"running", "ended"}
  BY <1>1, <1>3 DEF CreateJob
<1>4. ASSUME NEW s \in Scans, PollAgain(s) PROVE job'[t] \in {"running", "ended"}
  BY <1>1, <1>4 DEF PollAgain
<1>5. ASSUME NEW s \in Scans, ReadLogs(s) \/ Persist(s) \/ Complete(s) \/ CallFails(s)
      PROVE  job'[t] \in {"running", "ended"}
  <2>1. PICK pc : pc # "poll" /\ watcher' = [watcher EXCEPT ![s] = pc] /\ job' = job
    BY <1>5 DEF ReadLogs, Persist, Complete, CallFails
  <2> QED BY <1>1, <2>1
<1>6. ASSUME NEW s \in Scans, JobEnds(s) PROVE job'[t] \in {"running", "ended"}
  BY <1>1, <1>6 DEF JobEnds
<1>7. CASE Crash
  BY <1>1, <1>7 DEF Crash, Alive
<1>8. CASE Finished \/ UNCHANGED vars
  BY <1>1, <1>8 DEF Finished, vars
<1> QED BY <1>2, <1>3, <1>4, <1>5, <1>6, <1>7, <1>8 DEF Next, WatcherStep

\* A watcher gives up only a Job that runs: one that has ended takes it from
\* stage to stage, unless it is lost.
LEMMA ScanInOrder ==
  ASSUME ScanInv, PollsAJob, [Next]_vars, NEW t \in Scans
  PROVE  /\ PollsRunning(t) =>
              PollsRunning(t)' \/ PollsEnded(t)' \/ ScanIsOver(t)' \/ GaveUp(t)'
         /\ PollsEnded(t) => PollsEnded(t)' \/ WatcherAt(t, "persist")' \/ ScanIsOver(t)'
         /\ WatcherAt(t, "persist") =>
              WatcherAt(t, "persist")' \/ WatcherAt(t, "complete")' \/ ScanIsOver(t)'
         /\ WatcherAt(t, "complete") => WatcherAt(t, "complete")' \/ ScanIsOver(t)'
<1> USE CompetitorsAssumption DEF Goto, PollsRunning, PollsEnded, WatcherAt, ScanIsOver, GaveUp
<1>1. /\ watcher \in [Scans -> Watchers] /\ job \in [Scans -> {"none", "running", "ended"}]
      /\ polls \in [Scans -> 0 .. PollLimit]
      /\ t > started => watcher[t] = "none"
      /\ started \in Nat /\ t \in Nat
  BY DEF ScanInv, TypeOK, Stages, StageOf, Scans
<1>2. CASE Trigger
  <2>1. watcher[started + 1] = "none" \/ t # started + 1
    BY <1>1
  <2> QED BY <1>1, <1>2, <2>1 DEF Trigger
<1>3. ASSUME NEW s \in Scans, CreateJob(s)
      PROVE  watcher[t] = "create" \/ (watcher'[t] = watcher[t] /\ job'[t] = job[t])
  BY <1>1, <1>3 DEF CreateJob
<1>4. ASSUME NEW s \in Scans, PollAgain(s)
      PROVE  /\ job' = job
             /\ PollsRunning(s)
             /\ s = t => watcher'[t] \in {"poll", "gave_up"}
             /\ s # t => watcher'[t] = watcher[t]
  BY <1>1, <1>4 DEF PollAgain
<1>5. ASSUME NEW s \in Scans, JobEnds(s)
      PROVE  watcher' = watcher /\ job'[t] \in {job[t], "ended"}
  BY <1>1, <1>5 DEF JobEnds
<1>6. ASSUME NEW s \in Scans, ReadLogs(s)
      PROVE  /\ job' = job
             /\ watcher'[t] = IF s = t THEN "persist" ELSE watcher[t]
             /\ PollsEnded(s)
  BY <1>1, <1>6 DEF ReadLogs
<1>7. ASSUME NEW s \in Scans, Persist(s)
      PROVE  /\ job' = job
             /\ watcher'[t] = IF s = t THEN "complete" ELSE watcher[t]
             /\ WatcherAt(s, "persist")
  BY <1>1, <1>7 DEF Persist
<1>8. ASSUME NEW s \in Scans, Complete(s)
      PROVE  /\ job' = job
             /\ watcher'[t] = IF s = t THEN "done" ELSE watcher[t]
             /\ WatcherAt(s, "complete")
  BY <1>1, <1>8 DEF Complete
<1>9. ASSUME NEW s \in Scans, CallFails(s)
      PROVE  job' = job /\ watcher'[t] \in {watcher[t], "lost"}
  BY <1>1, <1>9 DEF CallFails
<1>10. CASE Crash
  BY <1>1, <1>10 DEF Crash
<1>11. CASE Finished \/ UNCHANGED vars
  BY <1>11 DEF Finished, vars
<1> QED BY <1>1, <1>2, <1>3, <1>4, <1>5, <1>6, <1>7, <1>8, <1>9, <1>10, <1>11
        DEF Next, WatcherStep

\* The end of a Job and a step of its watcher change where the scan is.
LEMMA ScanMoves ==
  ASSUME ScanInv, NEW t \in Scans
  PROVE  /\ JobEnds(t) => ~PollsRunning(t)'
         /\ WatcherStep(t) => /\ PollsEnded(t) => ~PollsEnded(t)'
                              /\ WatcherAt(t, "persist") => ~WatcherAt(t, "persist")'
                              /\ WatcherAt(t, "complete") => ~WatcherAt(t, "complete")'
<1> USE DEF Goto, PollsRunning, PollsEnded, WatcherAt
<1>1. watcher \in [Scans -> Watchers] /\ job \in [Scans -> {"none", "running", "ended"}]
  BY DEF ScanInv, TypeOK
<1>2. JobEnds(t) => ~PollsRunning(t)'
  BY <1>1 DEF JobEnds
<1>3. ASSUME CreateJob(t) \/ PollAgain(t)
      PROVE  /\ ~PollsEnded(t)
             /\ ~WatcherAt(t, "persist") /\ ~WatcherAt(t, "complete")
  BY <1>3 DEF CreateJob, PollAgain
<1>4. ASSUME ReadLogs(t) PROVE watcher'[t] = "persist" /\ watcher[t] = "poll"
  BY <1>1, <1>4 DEF ReadLogs
<1>5. ASSUME Persist(t) PROVE watcher'[t] = "complete" /\ watcher[t] = "persist"
  BY <1>1, <1>5 DEF Persist
<1>6. ASSUME Complete(t) PROVE watcher'[t] = "done" /\ watcher[t] = "complete"
  BY <1>1, <1>6 DEF Complete
<1> QED BY <1>2, <1>3, <1>4, <1>5, <1>6 DEF WatcherStep

\* A scan whose Job was created is over or given up at some time, and over if
\* its watcher still polls when the Job has ended.
LEMMA ScanEnds ==
  ASSUME NEW s \in Scans
  PROVE  Spec /\ ScanFairness(s) /\ []ScansGoOn =>
           /\ watcher[s] = "poll" ~> ScanIsOver(s) \/ GaveUp(s)
           /\ PollsEnded(s) ~> ScanIsOver(s)
<1>1. Init => ScanInv /\ PollsAJob
  <2>1. Init => PollsAJob
    BY DEF Init, PollsAJob
  <2> QED BY <2>1, ScanInvInit
<1>2. ScanInv /\ PollsAJob /\ [Next]_vars => ScanInv' /\ PollsAJob'
  <2>1. ScanInv /\ [Next]_vars => ScanInv'
    BY TypeStep, StagesStep, CompletedStep DEF ScanInv
  <2> QED BY <2>1, PollsAJobStep
<1>3. ASSUME ScanInv, PollsAJob, [Next]_vars
      PROVE  /\ PollsRunning(s) =>
                  PollsRunning(s)' \/ PollsEnded(s)' \/ ScanIsOver(s)' \/ GaveUp(s)'
             /\ PollsEnded(s) => PollsEnded(s)' \/ WatcherAt(s, "persist")' \/ ScanIsOver(s)'
             /\ WatcherAt(s, "persist") =>
                  WatcherAt(s, "persist")' \/ WatcherAt(s, "complete")' \/ ScanIsOver(s)'
             /\ WatcherAt(s, "complete") => WatcherAt(s, "complete")' \/ ScanIsOver(s)'
  BY <1>3, ScanInOrder
<1>4. ASSUME ScanInv, <<JobEnds(s)>>_vars PROVE PollsRunning(s) => ~PollsRunning(s)'
  BY <1>4, ScanMoves
<1>5. ASSUME ScanInv, <<WatcherStep(s)>>_vars
      PROVE  /\ PollsEnded(s) => ~PollsEnded(s)'
             /\ WatcherAt(s, "persist") => ~WatcherAt(s, "persist")'
             /\ WatcherAt(s, "complete") => ~WatcherAt(s, "complete")'
  BY <1>5, ScanMoves
<1>6. ScansGoOn => /\ PollsRunning(s) => ENABLED <<JobEnds(s)>>_vars
                   /\ PollsEnded(s) \/ WatcherAt(s, "persist") \/ WatcherAt(s, "complete") =>
                        ENABLED <<WatcherStep(s)>>_vars
  BY DEF ScansGoOn
<1>7. PollsAJob => (watcher[s] = "poll" => PollsRunning(s) \/ PollsEnded(s))
  BY DEF PollsAJob
<1> QED BY <1>1, <1>2, <1>3, <1>4, <1>5, <1>6, <1>7, PTL DEF Spec, ScanFairness

\* No Job is watched for ever, and every Job that ends before its watcher gives
\* up leads to a completed scan, unless a fault takes the watcher away
\* (competitors.rs:183-201).
THEOREM ScansAreCompleted == FairSpec /\ []ScansGoOn => ScansEnd
<1> DEFINE P(s) == watcher[s] = "poll" ~> watcher[s] \in {"done", "gave_up", "lost"}
           Q(s) == watcher[s] = "poll" /\ job[s] = "ended" ~> watcher[s] \in {"done", "lost"}
<1>1. ASSUME NEW s \in Scans
      PROVE  Spec /\ ScanFairness(s) /\ []ScansGoOn => P(s) /\ Q(s)
  <2>1. Spec /\ ScanFairness(s) /\ []ScansGoOn =>
          /\ watcher[s] = "poll" ~> ScanIsOver(s) \/ GaveUp(s)
          /\ PollsEnded(s) ~> ScanIsOver(s)
    BY ScanEnds
  <2>2. /\ ScanIsOver(s) <=> watcher[s] \in {"done", "lost"}
        /\ ScanIsOver(s) \/ GaveUp(s) <=> watcher[s] \in {"done", "gave_up", "lost"}
        /\ PollsEnded(s) <=> watcher[s] = "poll" /\ job[s] = "ended"
    BY DEF ScanIsOver, GaveUp, PollsEnded
  <2> QED BY <2>1, <2>2, PTL
<1>2. FairSpec => Spec /\ \A s \in Scans : ScanFairness(s)
  BY DEF FairSpec
<1>3. (\A s \in Scans : P(s) /\ Q(s)) => ScansEnd
  BY DEF ScansEnd
<1> HIDE DEF P, Q
<1> QED BY <1>1, <1>2, <1>3
=============================================================================
