--------------------------- MODULE ConsoleProofs ----------------------------
(***************************************************************************)
(* The services beside the maker.  Connections: none is lost or made up,   *)
(* everyone waits on everyone only when as many applies as there are       *)
(* connections have each taken their first, and every call ends.  Health:  *)
(* the tile's verdict follows from what the checks met.  Password: one set *)
(* without another setting in progress is the only one that login accepts. *)
(* Releases: what is shown is recent, and updates are offered.  Rules and  *)
(* prices follow their sources.  Each for any number of callers, changes,  *)
(* setters, readers, texts and answers; and the console as a whole, whose  *)
(* behaviours are behaviours of each of its components.                    *)
(*                                                                         *)
(* The theorems about what eventually happens assume the steps that are    *)
(* fair to be possible where their guards hold ([]NobodyHangs, ...): the   *)
(* provers do not evaluate ENABLED.                                        *)
(***************************************************************************)
EXTENDS MCConsole, BalancesProofs, AccountingProofs

(* Connections                                                             *)

At(stages) == {c \in Callers : caller[c] \in stages}

\* Every connection is in the pool or with a caller.
Conserved == free + Cardinality(At(HoldsOne)) + Cardinality(At(HoldsTwo)) = PoolSize

ApplyStages == {"second", "writing", "marking"}

PoolInvariant ==
  /\ PoolTypeOK
  /\ Conserved
  /\ At(ApplyStages) \subseteq Applies

One(b) == IF b THEN 1 ELSE 0

-----------------------------------------------------------------------------
\* A caller's move changes the number of callers in a set of stages by the
\* caller alone.
LEMMA MoveCounted ==
  ASSUME caller \in [Callers -> Stages], NEW c \in Callers, NEW stage, NEW stages,
         caller' = [caller EXCEPT ![c] = stage]
  PROVE  /\ Cardinality(At(stages)) \in Nat
         /\ Cardinality(At(stages)') =
              Cardinality(At(stages)) - One(caller[c] \in stages) + One(stage \in stages)
<1> DEFINE Others == {d \in Callers \ {c} : caller[d] \in stages}
<1>1. IsFiniteSet(Others)
  BY FS_Subset, PoolAssumption, Others \subseteq Callers
<1>2. Cardinality(Others) \in Nat /\ Cardinality(Others \cup {c}) = Cardinality(Others) + 1
  BY <1>1, FS_CardinalityType, FS_AddElement, c \notin Others
<1>3. At(stages) = IF caller[c] \in stages THEN Others \cup {c} ELSE Others
  BY DEF At
<1>4. At(stages)' = IF stage \in stages THEN Others \cup {c} ELSE Others
  BY DEF At
<1> HIDE DEF Others
<1> QED BY <1>2, <1>3, <1>4 DEF One

\* A caller that proceeds to a stage it may be at, with a connection there for
\* what it needs more, keeps the invariant.
LEMMA ProceedKeeps ==
  ASSUME PoolInvariant, NEW c \in Callers, NEW stage \in Stages, Proceed(c, stage),
         stage \in ApplyStages => c \in Applies,
         Held(stage) - Held(caller[c]) <= free,
         calls' \in 0 .. MaxCalls
  PROVE  PoolInvariant'
<1>1. /\ caller \in [Callers -> Stages] /\ free \in Int
      /\ caller' = [caller EXCEPT ![c] = stage]
      /\ free' = free + Held(caller[c]) - Held(stage)
  BY DEF PoolInvariant, PoolTypeOK, Proceed
<1>2. /\ Cardinality(At(HoldsOne)) \in Nat
      /\ Cardinality(At(HoldsOne)') =
           Cardinality(At(HoldsOne)) - One(caller[c] \in HoldsOne) + One(stage \in HoldsOne)
  BY <1>1, MoveCounted
<1>3. /\ Cardinality(At(HoldsTwo)) \in Nat
      /\ Cardinality(At(HoldsTwo)') =
           Cardinality(At(HoldsTwo)) - One(caller[c] \in HoldsTwo) + One(stage \in HoldsTwo)
  BY <1>1, MoveCounted
<1>4. \A s \in {stage, caller[c]} :
        /\ Held(s) = One(s \in HoldsOne) + One(s \in HoldsTwo)
        /\ One(s \in HoldsOne) \in 0 .. 1 /\ One(s \in HoldsTwo) \in 0 .. 1
  BY DEF Held, One
<1>5. caller' \in [Callers -> Stages]
  BY <1>1
<1>6. Cardinality(At(HoldsOne)') \in Nat /\ Cardinality(At(HoldsTwo)') \in Nat
  <2>1. IsFiniteSet(At(HoldsOne)') /\ IsFiniteSet(At(HoldsTwo)')
    BY FS_Subset, PoolAssumption, At(HoldsOne)' \subseteq Callers,
       At(HoldsTwo)' \subseteq Callers DEF At
  <2> QED BY <2>1, FS_CardinalityType
<1>7. free' + Cardinality(At(HoldsOne)') + Cardinality(At(HoldsTwo)') = PoolSize
  BY <1>1, <1>2, <1>3, <1>4, PoolAssumption DEF PoolInvariant, Conserved
<1>8. free' \in 0 .. PoolSize
  BY <1>1, <1>4, <1>6, <1>7, PoolAssumption
<1>9. At(ApplyStages)' \subseteq Applies
  BY <1>1 DEF PoolInvariant, At
<1>10. Conserved'
  BY <1>7, PoolAssumption DEF Conserved, HoldsOne, HoldsTwo
<1> QED BY <1>5, <1>8, <1>9, <1>10 DEF PoolInvariant, PoolTypeOK

\* At the start the pool has all connections.
LEMMA PoolInvariantInit == PoolInit => PoolInvariant
<1> SUFFICES ASSUME PoolInit PROVE PoolInvariant
  OBVIOUS
<1>1. At(HoldsOne) = {} /\ At(HoldsTwo) = {} /\ At(ApplyStages) = {}
  BY DEF PoolInit, At, HoldsOne, HoldsTwo, ApplyStages
<1>2. PoolTypeOK
  BY PoolAssumption DEF PoolInit, PoolTypeOK, Stages
<1>3. Conserved
  BY <1>1, FS_EmptySet, PoolAssumption DEF PoolInit, Conserved
<1> QED BY <1>1, <1>2, <1>3 DEF PoolInvariant

\* So does every step of a caller.
LEMMA CallerKeeps ==
  ASSUME PoolInvariant, NEW c \in Callers, Call(c) \/ PoolStep(c) \/ CallEnds(c)
  PROVE  PoolInvariant'
<1>1. /\ caller[c] \in Stages /\ free \in Nat /\ calls \in 0 .. MaxCalls
      /\ caller[c] \in ApplyStages => c \in Applies
  BY PoolAssumption DEF PoolInvariant, PoolTypeOK, At
<1>2. /\ Held("idle") = 0 /\ Held("first") = 0 /\ Held("using") = 1
      /\ Held("second") = 1 /\ Held("writing") = 2 /\ Held("marking") = 1
      /\ Held(caller[c]) \in 0 .. 2
  BY DEF Held, HoldsOne, HoldsTwo
<1> USE <1>1, <1>2, PoolAssumption DEF Stages, ApplyStages
<1>3. CASE Call(c)
  <2>1. Proceed(c, "first") /\ calls' \in 0 .. MaxCalls /\ Held("first") - Held(caller[c]) <= free
    BY <1>3 DEF Call
  <2> QED BY <2>1, ProceedKeeps
<1>4. CASE Checkout(c)
  <2>1. CASE caller[c] = "first" /\ Proceed(c, "using")
    <3>1. calls' \in 0 .. MaxCalls /\ Held("using") - Held(caller[c]) <= free
      BY <1>4, <2>1 DEF Checkout
    <3> QED BY <2>1, <3>1, ProceedKeeps
  <2>2. CASE caller[c] = "second" /\ Proceed(c, "writing")
    <3>1. calls' \in 0 .. MaxCalls /\ Held("writing") - Held(caller[c]) <= free
      BY <1>4, <2>2 DEF Checkout
    <3> QED BY <2>2, <3>1, ProceedKeeps
  <2> QED BY <1>4, <2>1, <2>2 DEF Checkout
<1>5. CASE ApplyConfig(c)
  <2>1. /\ Proceed(c, "second") /\ calls' \in 0 .. MaxCalls /\ c \in Applies
        /\ Held("second") - Held(caller[c]) <= free
    BY <1>5 DEF ApplyConfig
  <2> QED BY <2>1, ProceedKeeps
<1>6. CASE WriteHistory(c)
  <2>1. /\ Proceed(c, "marking") /\ calls' \in 0 .. MaxCalls /\ c \in Applies
        /\ Held("marking") - Held(caller[c]) <= free
    BY <1>6 DEF WriteHistory
  <2> QED BY <2>1, ProceedKeeps
<1>7. CASE Finish(c) \/ MarkApplied(c) \/ Timeout(c) \/ CallEnds(c)
  <2>1. /\ Proceed(c, "idle") /\ calls' \in 0 .. MaxCalls
        /\ Held("idle") - Held(caller[c]) <= free
    BY <1>7 DEF Finish, MarkApplied, Timeout, CallEnds
  <2> QED BY <2>1, ProceedKeeps
<1> QED BY <1>3, <1>4, <1>5, <1>6, <1>7 DEF PoolStep

-----------------------------------------------------------------------------
\* No connection is lost or made up, whatever is dropped, fails or times out at
\* whatever stage (db.rs:8-14), and only applies hold one while they wait.
THEOREM ConnectionsConserved == PoolSpec => []PoolInvariant
<1>1. PoolInit => PoolInvariant
  BY PoolInvariantInit
<1>2. PoolInvariant /\ [PoolNext]_poolVars => PoolInvariant'
  <2> SUFFICES ASSUME PoolInvariant, [PoolNext]_poolVars PROVE PoolInvariant'
    OBVIOUS
  <2>1. CASE PoolNext
    BY <2>1, CallerKeeps DEF PoolNext
  <2>2. CASE UNCHANGED poolVars
    BY <2>2 DEF poolVars, PoolInvariant, PoolTypeOK, Conserved, At
  <2> QED BY <2>1, <2>2
<1> QED BY <1>1, <1>2, PTL DEF PoolSpec

\* Everyone waits on everyone only when as many applies as there are
\* connections have each taken their first (spread_optimizer.rs:348,
\* maker.rs:125).
THEOREM OnlyAppliesGetStuck == PoolSpec => []StuckNeedsApplies
<1>1. PoolInvariant => StuckNeedsApplies
  <2> SUFFICES ASSUME PoolInvariant, Working = {}, free = 0
               PROVE  Halfway \subseteq Applies /\ Cardinality(Halfway) = PoolSize
    BY DEF StuckNeedsApplies
  <2>1. At(HoldsOne) = Halfway /\ At(HoldsTwo) = {}
    BY DEF At, HoldsOne, HoldsTwo, Halfway, Working
  <2>2. Cardinality(Halfway) = PoolSize
    <3>1. Cardinality(Halfway) \in Nat
      BY FS_Subset, FS_CardinalityType, PoolAssumption, Halfway \subseteq Callers DEF Halfway
    <3> QED BY <2>1, <3>1, FS_EmptySet DEF PoolInvariant, Conserved
  <2>3. Halfway \subseteq Applies
    BY DEF PoolInvariant, At, ApplyStages, Halfway
  <2> QED BY <2>2, <2>3
<1> QED BY <1>1, ConnectionsConserved, PTL

-----------------------------------------------------------------------------
(* Every call ends                                                         *)

\* Whoever is in the middle of a call can go on: with what it has, with a
\* connection of the pool, or because its wait is over.
NobodyHangs == \A c \in Callers : caller[c] # "idle" => ENABLED <<PoolStep(c)>>_poolVars

GoesOn(c) == WF_poolVars(PoolStep(c))

\* The executor runs every handler on.
HandlersRun == \A c \in Callers : GoesOn(c)

Is(c, stage) == caller[c] = stage

\* A call goes from stage to stage in this order, or ends, and no step leaves
\* it where it is.
LEMMA StagesInOrder ==
  ASSUME NEW c \in Callers, PoolTypeOK, [PoolNext]_poolVars
  PROVE  /\ Is(c, "first")   => Is(c, "first")'   \/ Is(c, "using")'   \/ Is(c, "idle")'
         /\ Is(c, "using")   => Is(c, "using")'   \/ Is(c, "second")'  \/ Is(c, "idle")'
         /\ Is(c, "second")  => Is(c, "second")'  \/ Is(c, "writing")' \/ Is(c, "idle")'
         /\ Is(c, "writing") => Is(c, "writing")' \/ Is(c, "marking")' \/ Is(c, "idle")'
         /\ Is(c, "marking") => Is(c, "marking")' \/ Is(c, "idle")'
         /\ PoolStep(c) => caller'[c] # caller[c]
<1> USE DEF Is
<1>1. caller[c] \in Stages
  BY DEF PoolTypeOK
<1>2. CASE UNCHANGED poolVars /\ ~PoolStep(c)
  BY <1>2 DEF poolVars
<1>3. ASSUME NEW d \in Callers, Call(d) \/ PoolStep(d) \/ CallEnds(d)
      PROVE  /\ d # c => caller'[c] = caller[c] /\ caller'[d] # caller[d]
             /\ d = c => caller'[c] \in Stages /\ caller'[c] # caller[c]
  BY <1>3 DEF PoolTypeOK, Stages, Call, PoolStep, CallEnds, Proceed, Checkout, Finish,
              ApplyConfig, WriteHistory, MarkApplied, Timeout
<1>4. CASE PoolNext
  <2>1. PICK d \in Callers : Call(d) \/ PoolStep(d) \/ CallEnds(d)
    BY <1>4 DEF PoolNext
  <2>2. CASE d # c
    BY <1>3, <2>1, <2>2
  <2>3. CASE d = c
    BY <1>1, <1>3, <2>1, <2>3
       DEF PoolTypeOK, Stages, Call, PoolStep, CallEnds, Proceed, Checkout, Finish,
           ApplyConfig, WriteHistory, MarkApplied, Timeout
  <2> QED BY <2>2, <2>3
<1>5. PoolStep(c) => PoolNext
  BY DEF PoolNext
<1> QED BY <1>2, <1>4, <1>5

\* A call that is run on and never hangs ends.
LEMMA CallerReturns ==
  ASSUME NEW c \in Callers
  PROVE  PoolSpec /\ HandlersRun /\ []NobodyHangs => []<>(caller[c] = "idle")
<1>1. PoolSpec => []PoolTypeOK
  BY ConnectionsConserved, PTL DEF PoolInvariant
<1>2. HandlersRun => GoesOn(c)
  BY DEF HandlersRun
<1>3. NobodyHangs /\ ~Is(c, "idle") => ENABLED <<PoolStep(c)>>_poolVars
  BY DEF NobodyHangs, Is
<1>4. PoolTypeOK => \/ Is(c, "idle") \/ Is(c, "first") \/ Is(c, "using")
                    \/ Is(c, "second") \/ Is(c, "writing") \/ Is(c, "marking")
  BY DEF PoolTypeOK, Stages, Is
<1>5. ASSUME PoolTypeOK, [PoolNext]_poolVars
      PROVE  /\ Is(c, "first")   => Is(c, "first")'   \/ Is(c, "using")'   \/ Is(c, "idle")'
             /\ Is(c, "using")   => Is(c, "using")'   \/ Is(c, "second")'  \/ Is(c, "idle")'
             /\ Is(c, "second")  => Is(c, "second")'  \/ Is(c, "writing")' \/ Is(c, "idle")'
             /\ Is(c, "writing") => Is(c, "writing")' \/ Is(c, "marking")' \/ Is(c, "idle")'
             /\ Is(c, "marking") => Is(c, "marking")' \/ Is(c, "idle")'
  BY <1>5, StagesInOrder
<1>6. ASSUME PoolTypeOK, [PoolNext]_poolVars, <<PoolStep(c)>>_poolVars
      PROVE  /\ Is(c, "first")   => ~Is(c, "first")'
             /\ Is(c, "using")   => ~Is(c, "using")'
             /\ Is(c, "second")  => ~Is(c, "second")'
             /\ Is(c, "writing") => ~Is(c, "writing")'
             /\ Is(c, "marking") => ~Is(c, "marking")'
  BY <1>6, StagesInOrder DEF Is
<1>7. Is(c, "idle") <=> caller[c] = "idle"
  BY DEF Is
<1> QED BY <1>1, <1>2, <1>3, <1>4, <1>5, <1>6, <1>7, PTL DEF PoolSpec, GoesOn

\* Every call ends, whatever the others do and however long they hold their
\* connections (db.rs:10-14): five stages at most lie before its end.
THEOREM CallsEnd == PoolSpec /\ HandlersRun /\ []NobodyHangs => EveryCallEnds
<1>1. ASSUME NEW c \in Callers
      PROVE  PoolSpec /\ HandlersRun /\ []NobodyHangs => []<>(caller[c] = "idle")
  BY CallerReturns
<1> QED BY <1>1 DEF EveryCallEnds

-----------------------------------------------------------------------------
(* Health                                                                  *)

Verdicts == {"ok", "degraded", "unknown", "down"}

\* What the i-th check, if it passes, has found to be well.
FoundWell ==
  <<{}, {"electrs"}, {"monerod"}, {"electrs"}, {"tor"}, {"asb", "peers"}, {"rendezvous"},
    {"db"}>>

\* What was met explains a verdict that is not "ok".
Explained(v) ==
  \E w \in met, part \in Parts :
    /\ ~Well(part, w)
    /\ v = "down" => part # "peers" /\ w[part] \notin {"syncing", "bootstrapping", "partly"}

Justified(i, v) ==
  /\ v \in Verdicts
  /\ v = "ok" => \A part \in FoundWell[i] : \E w \in met : Well(part, w)
  /\ v # "ok" => Explained(v)

HealthInv ==
  /\ \A part \in Parts : services[part] \in Conditions[part]
  /\ services = [part \in Parts |-> services[part]]
  /\ services \in met
  /\ fetch # NoFetch =>
       /\ fetch \in Seq(Verdicts) /\ Len(fetch) <= 8
       /\ \A i \in 1 .. Len(fetch) : Justified(i, fetch[i])

-----------------------------------------------------------------------------
\* Every part is covered by one of the eight checks.
LEMMA PartsKnown ==
  Parts = {"asb", "electrs", "monerod", "tor", "peers", "rendezvous", "db"}
BY DEF Parts, Conditions

\* A verdict agrees with the conditions of the moment of its check.
LEMMA CheckJustified ==
  ASSUME HealthInv, NEW i \in 1 .. 8 PROVE Justified(i, Checks[i])
<1> USE PartsKnown DEF Justified, Explained, Well, Verdicts
<1>1. services \in met
  BY DEF HealthInv
<1>2. /\ services["asb"] \in {"up", "old", "down"} /\ services["electrs"] \in {"up", "down"}
      /\ services["monerod"] \in {"up", "syncing", "down"}
      /\ services["tor"] \in {"up", "bootstrapping", "down"}
      /\ services["peers"] \in {"up", "none"}
      /\ services["rendezvous"] \in {"up", "partly", "refused", "unlisted"}
      /\ services["db"] \in {"up", "exhausted", "failing", "down"}
  BY DEF HealthInv, Conditions
<1>3. Justified(1, check_asb)
  BY DEF check_asb, FoundWell
<1>4. Justified(2, check_electrs) /\ Justified(4, check_electrs)
  BY <1>1, <1>2 DEF check_electrs, FoundWell
<1>5. Justified(3, check_monerod)
  BY <1>1, <1>2 DEF check_monerod, FoundWell
<1>6. Justified(5, check_tor)
  BY <1>1, <1>2 DEF check_tor, AsbAnswers, FoundWell
<1>7. Justified(6, check_peers)
  BY <1>1, <1>2 DEF check_peers, AsbAnswers, FoundWell
<1>8. Justified(7, check_rendezvous)
  BY <1>1, <1>2 DEF check_rendezvous, AsbAnswers, FoundWell
<1>9. Justified(8, check_admin_db)
  BY <1>1, <1>2 DEF check_admin_db, FoundWell
<1>10. /\ Checks[1] = check_asb /\ Checks[2] = check_electrs /\ Checks[3] = check_monerod
       /\ Checks[4] = check_electrs /\ Checks[5] = check_tor /\ Checks[6] = check_peers
       /\ Checks[7] = check_rendezvous /\ Checks[8] = check_admin_db
  BY DEF Checks, check_bitcoind_via_electrs
<1>11. \/ i = 1 \/ i = 2 \/ i = 3 \/ i = 4 \/ i = 5 \/ i = 6 \/ i = 7 \/ i = 8
  OBVIOUS
<1> HIDE DEF Justified
<1> QED BY <1>3, <1>4, <1>5, <1>6, <1>7, <1>8, <1>9, <1>10, <1>11

\* What was met stays met as long as a fetch runs.
LEMMA JustifiedStays ==
  ASSUME met \subseteq met', NEW i, NEW v, Justified(i, v) PROVE Justified(i, v)'
BY DEF Justified, Explained, Well

\* No fetch is running at the start.
LEMMA HealthInvInit == HealthInit => HealthInv
<1> SUFFICES ASSUME HealthInit PROVE HealthInv
  OBVIOUS
<1>1. services = [part \in Parts |-> "up"]
  BY DEF HealthInit
<1>2. \A part \in Parts : "up" \in Conditions[part]
  BY PartsKnown DEF Conditions
<1> QED BY <1>1, <1>2 DEF HealthInit, HealthInv

\* Each verdict keeps a moment of the fetch at which it was true.
LEMMA HealthInvStep == HealthInv /\ [HealthNext]_healthVars => HealthInv'
<1> SUFFICES ASSUME HealthInv, [HealthNext]_healthVars PROVE HealthInv'
  OBVIOUS
<1>1. CASE Change
  <2>1. PICK part \in Parts :
          \E condition \in Conditions[part] :
            services' = [services EXCEPT ![part] = condition]
    BY <1>1 DEF Change
  <2>2. met' = met \cup {services'} /\ fetch' = fetch
    BY <1>1 DEF Change
  <2>3. /\ \A p \in Parts : services'[p] \in Conditions[p]
        /\ services' = [p \in Parts |-> services'[p]]
    BY <2>1 DEF HealthInv
  <2> QED BY <2>2, <2>3, JustifiedStays DEF HealthInv
<1>2. CASE Start
  BY <1>2 DEF Start, HealthInv
<1>3. CASE Check
  <2>1. /\ fetch # NoFetch /\ Len(fetch) < 8 /\ UNCHANGED <<services, met>>
        /\ fetch' = Append(fetch, Checks[Len(fetch) + 1])
    BY <1>3 DEF Check, Checks
  <2>2. fetch \in Seq(Verdicts) /\ \A i \in 1 .. Len(fetch) : Justified(i, fetch[i])
    BY <2>1 DEF HealthInv
  <2>3. Len(fetch) + 1 \in 1 .. 8
    BY <2>1, <2>2
  <2>4. Justified(Len(fetch) + 1, Checks[Len(fetch) + 1])
    BY <2>3, CheckJustified
  <2>5. Checks[Len(fetch) + 1] \in Verdicts
    BY <2>4 DEF Justified
  <2>6. fetch' \in Seq(Verdicts) /\ Len(fetch') = Len(fetch) + 1
    BY <2>1, <2>2, <2>5
  <2>7. ASSUME NEW i \in 1 .. Len(fetch') PROVE Justified(i, fetch'[i])
    <3>1. CASE i \in 1 .. Len(fetch)
      BY <2>1, <2>2, <3>1
    <3>2. CASE i = Len(fetch) + 1
      BY <2>1, <2>2, <2>4, <3>2
    <3> QED BY <2>2, <2>6, <3>1, <3>2
  <2>8. ASSUME NEW i \in 1 .. Len(fetch') PROVE Justified(i, fetch[i])'
    <3>1. Justified(i, fetch'[i])
      BY <2>7
    <3> QED BY <2>1, <3>1 DEF Justified, Explained
  <2>9. Len(fetch') <= 8
    BY <2>1, <2>2, <2>6
  <2>10. services' = services /\ met' = met
    BY <2>1
  <2> QED BY <2>6, <2>8, <2>9, <2>10 DEF HealthInv
<1>4. CASE UNCHANGED healthVars
  BY <1>4 DEF healthVars, HealthInv, Justified, Explained
<1> QED BY <1>1, <1>2, <1>3, <1>4 DEF HealthNext

\* Of the verdicts of a whole fetch there is a worst one, which one of them is
\* and which none exceeds.
LEMMA WorstIsWorst ==
  ASSUME HealthInv, Done
  PROVE  /\ \E i \in 1 .. 8 : fetch[i] = Worst
         /\ Worst = "ok" => \A i \in 1 .. 8 : fetch[i] = "ok"
<1>1. fetch \in Seq(Verdicts) /\ Len(fetch) = 8 /\ DOMAIN fetch = 1 .. 8
  BY DEF HealthInv, Done, Checks
<1>2. \A i \in 1 .. 8 : fetch[i] \in Verdicts
  <2>1. \A i \in 1 .. 8 : Justified(i, fetch[i])
    BY <1>1 DEF HealthInv, Done
  <2> QED BY <2>1 DEF Justified
<1>3. /\ DOMAIN Severity = Verdicts
      /\ Severity["ok"] = 0 /\ Severity["degraded"] = 1 /\ Severity["unknown"] = 2
      /\ Severity["down"] = 3
  BY DEF Severity, Verdicts
<1> DEFINE IsWorst(v) == /\ \E i \in 1 .. 8 : fetch[i] = v
                         /\ \A i \in 1 .. 8 : Severity[fetch[i]] <= Severity[v]
<1>4. \E v \in Verdicts : IsWorst(v)
  <2>1. CASE \E i \in 1 .. 8 : fetch[i] = "down"
    BY <1>2, <1>3, <2>1 DEF Verdicts
  <2>2. CASE (\E i \in 1 .. 8 : fetch[i] = "unknown") /\ \A i \in 1 .. 8 : fetch[i] # "down"
    BY <1>2, <1>3, <2>2 DEF Verdicts
  <2>3. CASE /\ \E i \in 1 .. 8 : fetch[i] = "degraded"
             /\ \A i \in 1 .. 8 : fetch[i] \notin {"down", "unknown"}
    BY <1>2, <1>3, <2>3 DEF Verdicts
  <2>4. CASE \A i \in 1 .. 8 : fetch[i] = "ok"
    BY <1>2, <1>3, <2>4 DEF Verdicts
  <2> QED BY <1>2, <2>1, <2>2, <2>3, <2>4 DEF Verdicts
<1>5. Worst = CHOOSE v \in Verdicts : IsWorst(v)
  BY <1>1, <1>3 DEF Worst
<1>6. IsWorst(Worst)
  BY <1>4, <1>5
<1> QED BY <1>2, <1>3, <1>6 DEF Verdicts

-----------------------------------------------------------------------------
\* "Healthy" is shown only if everything answered well at some moment of the
\* fetch (health.rs:9-30, overview.rs:177-192), whatever changed meanwhile.
THEOREM HealthyIsWell == HealthSpec => []HealthyMeansWell
<1>1. HealthInv => HealthyMeansWell
  <2> SUFFICES ASSUME HealthInv, Done, Worst = "ok", NEW part \in Parts
               PROVE  \E w \in met : Well(part, w)
    BY DEF HealthyMeansWell
  <2>1. \A i \in 1 .. 8 : fetch[i] = "ok"
    BY WorstIsWorst
  <2>2. \A i \in 1 .. 8 : Justified(i, fetch[i])
    BY DEF HealthInv, Done, Checks
  <2>3. \A i \in 1 .. 8 : \A p \in FoundWell[i] : \E w \in met : Well(p, w)
    BY <2>1, <2>2 DEF Justified
  <2>4. /\ FoundWell[3] = {"monerod"} /\ FoundWell[4] = {"electrs"} /\ FoundWell[5] = {"tor"}
        /\ FoundWell[6] = {"asb", "peers"} /\ FoundWell[7] = {"rendezvous"} /\ FoundWell[8] = {"db"}
    BY DEF FoundWell
  <2>5. \E i \in 1 .. 8 : part \in FoundWell[i]
    BY <2>4, PartsKnown
  <2> QED BY <2>3, <2>5
<1> QED BY <1>1, HealthInvInit, HealthInvStep, PTL DEF HealthSpec

\* Any other verdict has a cause that was met while the fetch ran, and "Down" one
\* that stops the service or hides it.
THEOREM AlarmsHaveCauses == HealthSpec => []AlarmHasCause
<1>1. HealthInv => AlarmHasCause
  <2> SUFFICES ASSUME HealthInv, Done, Worst # "ok" PROVE Explained(Worst)
    BY DEF AlarmHasCause, Explained
  <2>1. PICK i \in 1 .. 8 : fetch[i] = Worst
    BY WorstIsWorst
  <2>2. Justified(i, fetch[i])
    BY DEF HealthInv, Done, Checks
  <2> QED BY <2>1, <2>2 DEF Justified
<1> QED BY <1>1, HealthInvInit, HealthInvStep, PTL DEF HealthSpec

-----------------------------------------------------------------------------
(* The password                                                            *)

SetterRecord ==
  [busy : BOOLEAN, password : Passwords \cup {NoPassword}, found : BOOLEAN, alone : BOOLEAN]

SetterOK ==
  /\ setter \in [Setters -> SetterRecord]
  /\ \A c \in Busy : setter[c].password \in Passwords

\* Who set out alone, and still is, found what is still there.
AloneSaw ==
  \A c \in Busy : setter[c].alone => Busy = {c} /\ (setter[c].found <=> Rows # {})

\* A decided password is the one of every row.
DecidedEverywhere ==
  decided # NoPassword => Rows # {} /\ \A r \in Rows : credentials[r] = decided

LoginInv == SetterOK /\ AloneSaw /\ DecidedEverywhere

-----------------------------------------------------------------------------
\* At the start there is no row, nobody sets a password, and none is decided.
LEMMA LoginInvInit == LoginInit => LoginInv
<1> SUFFICES ASSUME LoginInit PROVE LoginInv
  OBVIOUS
<1>1. \A c \in Setters : setter[c] = Resting
  BY DEF LoginInit
<1>2. Busy = {}
  BY <1>1 DEF Busy, Resting
<1>3. SetterOK
  BY <1>2 DEF LoginInit, SetterOK, SetterRecord, Resting
<1> QED BY <1>2, <1>3 DEF LoginInit, LoginInv, AloneSaw, DecidedEverywhere

\* Who looks for a row is alone only if nobody else is busy, and ends the
\* others' being alone.
LEMMA LookForRowKeeps ==
  ASSUME LoginInv, NEW c \in Setters, LookForRow(c) PROVE LoginInv'
<1>1. PICK p \in Passwords :
        setter' = [d \in Setters |->
          IF d = c THEN [busy |-> TRUE, password |-> p, found |-> Rows # {},
                         alone |-> Busy = {}]
          ELSE [setter[d] EXCEPT !.alone = FALSE]]
  BY DEF LookForRow
<1>2. /\ setter'[c] = [busy |-> TRUE, password |-> p, found |-> Rows # {},
                       alone |-> Busy = {}]
      /\ \A d \in Setters \ {c} : setter'[d] = [setter[d] EXCEPT !.alone = FALSE]
  BY <1>1
<1>3. \A d \in Setters \ {c} :
        /\ setter'[d] \in SetterRecord
        /\ setter'[d].busy = setter[d].busy
        /\ setter'[d].password = setter[d].password
        /\ setter'[d].alone = FALSE
  <2> SUFFICES ASSUME NEW d \in Setters \ {c}
               PROVE  /\ setter'[d] \in SetterRecord
                      /\ setter'[d].busy = setter[d].busy
                      /\ setter'[d].password = setter[d].password
                      /\ setter'[d].alone = FALSE
    OBVIOUS
  <2>1. setter[d] \in SetterRecord
    BY DEF LoginInv, SetterOK
  <2>2. setter'[d] = [setter[d] EXCEPT !.alone = FALSE]
    BY <1>2
  <2> QED BY <2>1, <2>2 DEF SetterRecord
<1>4. Busy' = Busy \cup {c}
  BY <1>2, <1>3 DEF Busy
<1>5. SetterOK'
  <2>1. setter'[c] \in SetterRecord
    BY <1>2 DEF SetterRecord
  <2>2. setter' \in [Setters -> SetterRecord]
    BY <1>1, <1>2, <1>3, <2>1
  <2>3. \A d \in Busy' : setter'[d].password \in Passwords
    BY <1>2, <1>3, <1>4 DEF LoginInv, SetterOK, Busy
  <2> QED BY <2>2, <2>3 DEF SetterOK
<1>6. Rows' = Rows /\ credentials' = credentials /\ decided' = decided
  BY DEF LookForRow, Rows
<1>7. AloneSaw'
  <2> SUFFICES ASSUME NEW d \in Busy', setter'[d].alone
               PROVE  Busy' = {d} /\ (setter'[d].found <=> Rows' # {})
    BY DEF AloneSaw
  <2>1. d = c
    BY <1>3 DEF Busy
  <2>2. setter'[c].alone = (Busy = {}) /\ setter'[c].found = (Rows # {})
    BY <1>2
  <2>3. Busy = {}
    BY <2>1, <2>2
  <2> QED BY <1>4, <1>6, <2>1, <2>2, <2>3
<1> QED BY <1>5, <1>6, <1>7 DEF LoginInv, DecidedEverywhere

\* A setter that rests again leaves the others' locals as they were.
LEMMA RestingKeeps ==
  ASSUME SetterOK, NEW c \in Busy, setter' = [setter EXCEPT ![c] = Resting]
  PROVE  /\ SetterOK'
         /\ Busy' = Busy \ {c}
         /\ \A d \in Busy' : setter'[d] = setter[d]
<1>1. c \in Setters
  BY DEF Busy
<1>2. /\ setter'[c] = Resting
      /\ \A d \in Setters \ {c} : setter'[d] = setter[d]
  BY <1>1 DEF SetterOK
<1>3. Busy' = Busy \ {c}
  BY <1>1, <1>2 DEF Busy, Resting
<1>4. Resting \in SetterRecord
  BY DEF Resting, SetterRecord
<1>5. SetterOK'
  BY <1>2, <1>3, <1>4 DEF SetterOK, Busy
<1> QED BY <1>2, <1>3, <1>5 DEF Busy

\* What is stored is decided only if the storer was alone, and then it is in
\* every row: in those that it found, or in the only one.
LEMMA StorePasswordKeeps ==
  ASSUME LoginInv, NEW c \in Setters, StorePassword(c) PROVE LoginInv'
<1> DEFINE p == setter[c].password
<1>1. /\ c \in Busy
      /\ credentials' = IF setter[c].found THEN Updated(p) ELSE WithRowOf(c, p)
      /\ decided' = IF setter[c].alone THEN p ELSE NoPassword
      /\ setter' = [setter EXCEPT ![c] = Resting]
  BY DEF StorePassword
<1>2. SetterOK' /\ Busy' = Busy \ {c} /\ \A d \in Busy' : setter'[d] = setter[d]
  BY <1>1, RestingKeeps DEF LoginInv
<1>3. AloneSaw'
  <2> SUFFICES ASSUME NEW d \in Busy', setter'[d].alone PROVE FALSE
    BY DEF AloneSaw
  <2>1. d \in Busy /\ d # c /\ setter[d].alone
    BY <1>2
  <2> QED BY <1>1, <2>1 DEF LoginInv, AloneSaw
<1>4. ASSUME decided' # NoPassword
      PROVE  Rows' # {} /\ \A r \in Rows' : credentials'[r] = decided'
  <2>1. setter[c].alone /\ decided' = p
    BY <1>1, <1>4
  <2>2. setter[c].found <=> Rows # {}
    BY <1>1, <2>1 DEF LoginInv, AloneSaw
  <2>3. CASE setter[c].found
    BY <1>1, <2>1, <2>2, <2>3 DEF Rows, Updated
  <2>4. CASE ~setter[c].found
    <3>1. credentials' = [r \in Rows \cup {c} |-> IF r = c THEN p ELSE credentials[r]]
      BY <1>1, <2>4 DEF WithRowOf
    <3>2. Rows = {}
      BY <2>2, <2>4
    <3>3. Rows' = {c} /\ credentials'[c] = p
      BY <3>1, <3>2 DEF Rows
    <3> QED BY <2>1, <3>3
  <2> QED BY <2>3, <2>4
<1> QED BY <1>2, <1>3, <1>4 DEF LoginInv, DecidedEverywhere

\* A setting that fails leaves the rows and the decision.
LEMMA SettingFailsKeeps ==
  ASSUME LoginInv, NEW c \in Setters, SettingFails(c) PROVE LoginInv'
<1>1. c \in Busy /\ setter' = [setter EXCEPT ![c] = Resting]
  BY DEF SettingFails
<1>2. SetterOK' /\ Busy' = Busy \ {c} /\ \A d \in Busy' : setter'[d] = setter[d]
  BY <1>1, RestingKeeps DEF LoginInv
<1>3. AloneSaw'
  <2> SUFFICES ASSUME NEW d \in Busy', setter'[d].alone PROVE FALSE
    BY DEF AloneSaw
  <2>1. d \in Busy /\ d # c /\ setter[d].alone
    BY <1>2
  <2> QED BY <1>1, <2>1 DEF LoginInv, AloneSaw
<1>4. Rows' = Rows /\ credentials' = credentials /\ decided' = decided
  BY DEF SettingFails, Rows
<1> QED BY <1>2, <1>3, <1>4 DEF LoginInv, DecidedEverywhere

-----------------------------------------------------------------------------
\* The invariant holds of every behaviour.
THEOREM LoginInvariant == LoginSpec => []LoginInv
<1>1. LoginInit => LoginInv
  BY LoginInvInit
<1>2. LoginInv /\ [LoginNext]_loginVars => LoginInv'
  <2> SUFFICES ASSUME LoginInv, [LoginNext]_loginVars PROVE LoginInv'
    OBVIOUS
  <2>1. CASE LoginNext
    <3>1. PICK c \in Setters : LookForRow(c) \/ StorePassword(c) \/ SettingFails(c)
      BY <2>1 DEF LoginNext
    <3> QED BY <3>1, LookForRowKeeps, StorePasswordKeeps, SettingFailsKeeps
  <2>2. CASE UNCHANGED loginVars
    BY <2>2 DEF loginVars, LoginInv, SetterOK, AloneSaw, DecidedEverywhere, Busy, Rows
  <2> QED BY <2>1, <2>2
<1> QED BY <1>1, <1>2, PTL DEF LoginSpec

\* After a setting that met no other, login accepts its password and no other
\* (auth.rs:39-92), also when two first settings had left a row each.
THEOREM PasswordDecides == LoginSpec => []RotationDecides
<1>1. LoginInv => RotationDecides
  <2> SUFFICES ASSUME LoginInv, decided # NoPassword, NEW p \in Passwords
               PROVE  verify_password(p) = {p = decided}
    BY DEF RotationDecides
  <2>1. Rows # {} /\ \A r \in Rows : credentials[r] = decided
    BY DEF LoginInv, DecidedEverywhere
  <2>2. verify_password(p) = {credentials[r] = p : r \in Rows}
    BY <2>1 DEF verify_password
  <2>3. \A r \in Rows : (credentials[r] = p) = (p = decided)
    BY <2>1
  <2> QED BY <2>1, <2>2, <2>3
<1> QED BY <1>1, LoginInvariant, PTL

-----------------------------------------------------------------------------
(* Releases                                                                *)

\* A version is less than a second only if it is less than a third, or the third
\* is less than the second: where the first two come apart, or where the third
\* leaves them before, decides.
LEMMA LessThroughAny ==
  ASSUME NEW a \in Seq(Nat), NEW b \in Seq(Nat), NEW c \in Seq(Nat), Less(a, b)
  PROVE  Less(a, c) \/ Less(c, b)
<1>1. PICK i \in DOMAIN b :
        /\ \A j \in 1 .. i - 1 : j \in DOMAIN a /\ a[j] = b[j]
        /\ i \in DOMAIN a => a[i] < b[i]
  BY DEF Less
<1>2. /\ DOMAIN a = 1 .. Len(a) /\ DOMAIN b = 1 .. Len(b) /\ DOMAIN c = 1 .. Len(c)
      /\ Len(a) \in Nat /\ Len(b) \in Nat /\ Len(c) \in Nat
      /\ \A k \in DOMAIN a : a[k] \in Nat
      /\ \A k \in DOMAIN b : b[k] \in Nat
      /\ \A k \in DOMAIN c : c[k] \in Nat
  OBVIOUS
<1> DEFINE Apart == {j \in 1 .. i - 1 : ~(j \in DOMAIN c /\ c[j] = b[j])}
<1>3. CASE Apart = {}
  <2>1. \A j \in 1 .. i - 1 : j \in DOMAIN c /\ c[j] = b[j] /\ a[j] = c[j]
    BY <1>1, <1>3
  <2>2. CASE i \in DOMAIN c => c[i] < b[i]
    BY <1>1, <2>1, <2>2 DEF Less
  <2>3. CASE i \in DOMAIN c /\ ~(c[i] < b[i])
    <3>1. i \in DOMAIN a => a[i] < c[i]
      BY <1>1, <1>2, <2>3
    <3>2. \A j \in 1 .. i - 1 : j \in DOMAIN a /\ a[j] = c[j]
      BY <1>1, <2>1
    <3> QED BY <2>3, <3>1, <3>2 DEF Less
  <2> QED BY <2>2, <2>3
<1>4. CASE Apart # {}
  <2>1. PICK j \in Apart : \A k \in Apart : j <= k
    <3>1. Apart \subseteq Nat
      BY <1>2
    <3> HIDE DEF Apart
    <3> QED BY <1>4, <3>1, LeastOfNat
  <2>2. j \in 1 .. i - 1 /\ ~(j \in DOMAIN c /\ c[j] = b[j]) /\ j \in Nat
    BY <1>2, <2>1
  <2>3. \A k \in 1 .. j - 1 : k \in DOMAIN c /\ c[k] = b[k] /\ k \in DOMAIN a /\ a[k] = c[k]
    <3> SUFFICES ASSUME NEW k \in 1 .. j - 1
                 PROVE  k \in DOMAIN c /\ c[k] = b[k] /\ k \in DOMAIN a /\ a[k] = c[k]
      OBVIOUS
    <3>1. k \in 1 .. i - 1 /\ k \notin Apart
      BY <1>2, <2>1, <2>2
    <3> QED BY <1>1, <3>1
  <2>4. j \in DOMAIN b /\ j \in DOMAIN a /\ a[j] = b[j]
    BY <1>1, <1>2, <2>2
  <2>5. CASE j \in DOMAIN c => c[j] < b[j]
    BY <2>3, <2>4, <2>5 DEF Less
  <2>6. CASE j \in DOMAIN c /\ ~(c[j] < b[j])
    <3>1. b[j] < c[j]
      BY <1>2, <2>2, <2>4, <2>6
    <3>2. a[j] < c[j]
      BY <2>4, <3>1
    <3>3. \A k \in 1 .. j - 1 : k \in DOMAIN a /\ a[k] = c[k]
      BY <2>3
    <3> QED BY <2>6, <3>2, <3>3 DEF Less
  <2> QED BY <2>5, <2>6
<1> QED BY <1>3, <1>4

\* It was the greatest of the published versions at some time of these.
BestWithin(tag, from, to) == \E t \in from .. to : tag \in BestOf(ListedBy(t))

\* What a request knows when it is where it is.
ReaderKnows(rd) ==
  /\ rd.pc \in {"start", "cache", "fetch"} => rd.latest = Absent
  /\ rd.pc # "start" => rd.failed \/ rd.current = running
  /\ rd.current \in {running, Absent}
  /\ rd.pc = "start" => ~rd.failed
  /\ rd.pc \in {"fetch", "store"} => clock <= rd.asked + FetchTimeout
  /\ rd.pc = "store" => BestWithin(rd.latest, rd.asked, clock)
  /\ rd.pc = "shown" =>
       /\ rd.latest # Absent =>
            BestWithin(rd.latest, rd.asked - CacheTtl - FetchTimeout, rd.asked)
       /\ rd.failed \/ rd.latest # Absent

ReaderRecord ==
  [pc : {"start", "cache", "fetch", "store", "shown"}, current : Tags \cup {Absent},
   latest : Tags \cup {Absent}, asked : Int, failed : BOOLEAN]

\* What is cached was the greatest version not longer before than a fetch takes.
ReleasesInv ==
  /\ clock \in Nat /\ clock <= LastClock
  /\ published \in [Tags -> Nat \cup {Absent}]
  /\ \A tag \in Tags : published[tag] # Absent => published[tag] <= clock
  /\ running \in Tags
  /\ cache.data \in Tags \cup {Absent} /\ cache.at \in Nat /\ cache.at <= clock
  /\ cache.data # Absent => BestWithin(cache.data, cache.at - FetchTimeout, cache.at)
  /\ reader \in [Readers -> ReaderRecord]
  /\ \A r \in Readers : reader[r].asked <= clock /\ ReaderKnows(reader[r])

\* Initially nothing is cached and every request starts.
LEMMA ReleasesInvInit == ReleasesInit => ReleasesInv
<1> SUFFICES ASSUME ReleasesInit PROVE ReleasesInv
  OBVIOUS
<1>1. Asking \in ReaderRecord /\ Asking.asked <= clock
  BY DEF ReleasesInit, Asking, ReaderRecord
<1>2. ReaderKnows(Asking)
  BY DEF ReaderKnows, Asking
<1>3. reader \in [Readers -> ReaderRecord] /\ \A r \in Readers : reader[r] = Asking
  BY <1>1 DEF ReleasesInit
<1>4. cache.data = Absent /\ cache.at = 0
  BY DEF ReleasesInit
<1>5. clock = 0 /\ 0 <= LastClock
  BY ReleasesAssumption DEF ReleasesInit
<1> QED BY <1>1, <1>2, <1>3, <1>4, <1>5 DEF ReleasesInit, ReleasesInv

\* A tag is published later than everything before: what was listed by a time
\* stays so.
LEMMA TimePassesKeeps == ASSUME ReleasesInv, TimePasses PROVE ReleasesInv'
<1> USE ReleasesAssumption
<1>1. clock \in Nat /\ clock' = clock + 1 /\ UNCHANGED <<running, cache, reader>>
  BY DEF ReleasesInv, TimePasses
<1>2. /\ published' \in [Tags -> Nat \cup {Absent}]
      /\ \A tag \in Tags : published'[tag] # published[tag] =>
           published[tag] = Absent /\ published'[tag] = clock'
  BY <1>1 DEF ReleasesInv, TimePasses
<1>3. \A tag \in Tags : published[tag] # Absent => published[tag] \in Nat /\ published[tag] <= clock
  BY DEF ReleasesInv
<1>4. \A tag \in Tags : published'[tag] # Absent => published'[tag] <= clock'
  <2> SUFFICES ASSUME NEW tag \in Tags, published'[tag] # Absent
               PROVE  published'[tag] <= clock'
    OBVIOUS
  <2>1. CASE published'[tag] = published[tag]
    BY <1>1, <1>3, <2>1
  <2>2. CASE published'[tag] = clock'
    BY <1>1, <2>2
  <2> QED BY <1>2, <2>1, <2>2
<1>5. ASSUME NEW t \in Int, t <= clock PROVE ListedBy(t)' = ListedBy(t)
  <2>1. \A tag \in Tags : (published'[tag] # Absent /\ published'[tag] <= t)
                            <=> (published[tag] # Absent /\ published[tag] <= t)
    <3> SUFFICES ASSUME NEW tag \in Tags
                 PROVE (published'[tag] # Absent /\ published'[tag] <= t)
                            <=> (published[tag] # Absent /\ published[tag] <= t)
      OBVIOUS
    <3>1. CASE published'[tag] = published[tag]
      BY <3>1
    <3>2. CASE published'[tag] # published[tag]
      <4>1. published[tag] = Absent /\ published'[tag] = clock + 1
        BY <1>1, <1>2, <3>2
      <4>2. ~(clock + 1 <= t)
        BY <1>1, <1>5
      <4> QED BY <4>1, <4>2
    <3> QED BY <3>1, <3>2
  <2> QED BY <2>1 DEF ListedBy
<1>6. ASSUME NEW tag, NEW from \in Int, NEW to \in Int, to <= clock, BestWithin(tag, from, to)
      PROVE  BestWithin(tag, from, to)'
  <2>1. PICK t \in from .. to : tag \in BestOf(ListedBy(t))
    BY <1>6 DEF BestWithin
  <2>2. t \in Int /\ t <= clock
    BY <1>1, <1>6, <2>1
  <2>3. BestOf(ListedBy(t)') = BestOf(ListedBy(t))
    BY <1>5, <2>2
  <2>4. tag \in BestOf(ListedBy(t))'
    BY <1>5, <2>1, <2>2 DEF BestOf
  <2> QED BY <2>1, <2>4 DEF BestWithin
<1>7. cache.data # Absent => BestWithin(cache.data, cache.at - FetchTimeout, cache.at)'
  BY <1>1, <1>6 DEF ReleasesInv
<1>8. ASSUME NEW r \in Readers PROVE reader[r].asked <= clock' /\ ReaderKnows(reader[r])'
  <2>1. /\ reader[r].asked \in Int /\ reader[r].asked <= clock /\ ReaderKnows(reader[r])
        /\ reader[r].pc \in {"fetch", "store"} => clock < reader[r].asked + FetchTimeout
    BY DEF ReleasesInv, ReaderRecord, TimePasses, Fetching
  <2>2. reader[r].pc \in {"fetch", "store"} => clock' <= reader[r].asked + FetchTimeout
    BY <1>1, <2>1
  <2>3. reader[r].pc = "store" => BestWithin(reader[r].latest, reader[r].asked, clock)'
    <3> SUFFICES ASSUME reader[r].pc = "store"
                 PROVE  BestWithin(reader[r].latest, reader[r].asked, clock)'
      OBVIOUS
    <3>1. PICK t \in reader[r].asked .. clock : reader[r].latest \in BestOf(ListedBy(t))
      BY <2>1 DEF ReaderKnows, BestWithin
    <3>2. t \in Int /\ t <= clock /\ t \in reader[r].asked .. clock'
      BY <1>1, <2>1, <3>1
    <3>3. reader[r].latest \in BestOf(ListedBy(t))'
      BY <1>5, <3>1, <3>2 DEF BestOf
    <3> QED BY <1>1, <3>2, <3>3 DEF BestWithin
  <2>4. reader[r].pc = "shown" /\ reader[r].latest # Absent =>
          BestWithin(reader[r].latest, reader[r].asked - CacheTtl - FetchTimeout, reader[r].asked)'
    BY <1>1, <1>6, <2>1 DEF ReaderKnows
  <2>5. reader[r].asked <= clock'
    BY <1>1, <2>1
  <2> QED BY <1>1, <2>1, <2>2, <2>3, <2>4, <2>5 DEF ReaderKnows
<1>9. cache.at <= clock' /\ clock' \in Nat /\ clock' <= LastClock
  BY <1>1 DEF ReleasesInv, TimePasses
<1> QED BY <1>1, <1>2, <1>4, <1>7, <1>8, <1>9 DEF ReleasesInv

\* A request that goes on, and what it may cache, change nothing that the others
\* know.
LEMMA ReaderGoes ==
  ASSUME ReleasesInv, UNCHANGED <<clock, published, running>>,
         NEW r \in Readers, NEW rd \in ReaderRecord, Goes(r, rd),
         rd.asked <= clock, ReaderKnows(rd),
         \/ cache' = cache
         \/ /\ cache'.data \in Tags \cup {Absent} /\ cache'.at = clock
            /\ BestWithin(cache'.data, clock - FetchTimeout, clock)
  PROVE  ReleasesInv'
<1>1. /\ clock \in Nat /\ clock' = clock /\ running' = running /\ published' = published
      /\ reader \in [Readers -> ReaderRecord]
      /\ reader' = [reader EXCEPT ![r] = rd]
  BY DEF ReleasesInv, Goes
<1>2. \A tag, from, to : BestWithin(tag, from, to)' = BestWithin(tag, from, to)
  BY <1>1 DEF BestWithin, BestOf, ListedBy
<1>3. reader' \in [Readers -> ReaderRecord]
  BY <1>1
<1>4. ASSUME NEW other \in Readers
      PROVE  reader'[other].asked <= clock' /\ ReaderKnows(reader[other])'
  <2>1. CASE other = r
    <3>1. reader'[other] = rd
      BY <1>1, <2>1
    <3> QED BY <1>1, <1>2, <3>1 DEF ReaderKnows
  <2>2. CASE other # r
    <3>1. reader'[other] = reader[other]
      BY <1>1, <2>2
    <3>2. reader[other].asked <= clock /\ ReaderKnows(reader[other])
      BY DEF ReleasesInv
    <3> QED BY <1>1, <1>2, <3>1, <3>2 DEF ReaderKnows
  <2> QED BY <2>1, <2>2
<1>5. /\ cache'.data \in Tags \cup {Absent} /\ cache'.at \in Nat /\ cache'.at <= clock'
      /\ cache'.data # Absent => BestWithin(cache'.data, cache'.at - FetchTimeout, cache'.at)
  BY <1>1 DEF ReleasesInv
<1>6. cache'.data # Absent => BestWithin(cache.data, cache.at - FetchTimeout, cache.at)'
  BY <1>1, <1>5 DEF BestWithin, BestOf, ListedBy
<1> QED BY <1>1, <1>3, <1>4, <1>5, <1>6 DEF ReleasesInv

\* A request of which one part is replaced.
LEMMA RequestChanges ==
  ASSUME NEW rd \in ReaderRecord
  PROVE  /\ \A pc \in {"start", "cache", "fetch", "store", "shown"} :
              [rd EXCEPT !.pc = pc] \in ReaderRecord
         /\ \A tag \in Tags \cup {Absent} : [rd EXCEPT !.latest = tag] \in ReaderRecord
         /\ \A t \in Int : [rd EXCEPT !.asked = t] \in ReaderRecord
BY DEF ReaderRecord

\* A request of which a few are.
LEMMA RequestGoesOn ==
  ASSUME NEW rd \in ReaderRecord, NEW t \in Int, NEW tag \in Tags \cup {Absent},
         NEW pc \in {"start", "cache", "fetch", "store", "shown"}
  PROVE  /\ [rd EXCEPT !.pc = pc, !.asked = t] \in ReaderRecord
         /\ [rd EXCEPT !.pc = pc, !.latest = tag, !.asked = t] \in ReaderRecord
<1> DEFINE first == [rd EXCEPT !.pc = pc]
<1>1. first \in ReaderRecord
  BY RequestChanges
<1>2. [first EXCEPT !.asked = t] \in ReaderRecord
  <2> HIDE DEF first
  <2> QED BY <1>1, RequestChanges
<1> DEFINE second == [first EXCEPT !.latest = tag]
<1>3. second \in ReaderRecord
  <2> HIDE DEF first
  <2> QED BY <1>1, RequestChanges
<1>4. [second EXCEPT !.asked = t] \in ReaderRecord
  <2> HIDE DEF second
  <2> QED BY <1>3, RequestChanges
<1> QED BY <1>2, <1>4

\* What every request starts with.
LEMMA AskingKnows == Asking \in ReaderRecord /\ Asking.asked = 0 /\ ReaderKnows(Asking)
BY DEF Asking, ReaderRecord, ReaderKnows

\* The version that runs is known, or that it is not.
LEMMA ReadCurrentKeeps ==
  ASSUME ReleasesInv, NEW r \in Readers, ReadCurrent(r) PROVE ReleasesInv'
<1>1. reader[r] \in ReaderRecord /\ reader[r].asked <= clock /\ ReaderKnows(reader[r])
  BY DEF ReleasesInv
<1> DEFINE known == [reader[r] EXCEPT !.pc = "cache", !.current = running]
           unknown == [reader[r] EXCEPT !.pc = "cache", !.failed = TRUE]
<1>2. /\ reader[r].pc = "start" /\ (Goes(r, known) \/ Goes(r, unknown))
      /\ UNCHANGED <<clock, published, running, cache>>
  BY DEF ReadCurrent
<1>3. reader[r].latest = Absent /\ running \in Tags
  BY <1>1, <1>2 DEF ReaderKnows, ReleasesInv
<1>4. CASE Goes(r, known)
  <2>1. known \in ReaderRecord /\ known.asked <= clock /\ known.pc = "cache"
        /\ known.latest = Absent /\ known.current = running
    BY <1>1, <1>3 DEF ReaderRecord
  <2>2. ReaderKnows(known)
    BY <2>1 DEF ReaderKnows
  <2> HIDE DEF known
  <2> QED BY <1>2, <1>4, <2>1, <2>2, ReaderGoes
<1>5. CASE Goes(r, unknown)
  <2>1. unknown \in ReaderRecord /\ unknown.asked <= clock /\ unknown.pc = "cache"
        /\ unknown.latest = Absent /\ unknown.failed = TRUE
        /\ unknown.current = reader[r].current
    BY <1>1, <1>3 DEF ReaderRecord
  <2>2. ReaderKnows(unknown)
    BY <1>1, <1>2, <2>1 DEF ReaderKnows
  <2> HIDE DEF unknown
  <2> QED BY <1>2, <1>5, <2>1, <2>2, ReaderGoes
<1> QED BY <1>2, <1>4, <1>5

\* A time to live is not over: what is served was the greatest a time to live and
\* a fetch ago, or since.
LEMMA ReadCacheKeeps ==
  ASSUME ReleasesInv, NEW r \in Readers, ReadCache(r) PROVE ReleasesInv'
<1>1. /\ reader[r] \in ReaderRecord /\ ReaderKnows(reader[r]) /\ reader[r].pc = "cache"
      /\ clock \in Nat /\ clock \in Int /\ cache.at \in Int /\ cache.at <= clock
      /\ cache.data \in Tags \cup {Absent}
      /\ UNCHANGED <<clock, published, running, cache>>
  BY DEF ReleasesInv, ReadCache
<1> DEFINE served == [reader[r] EXCEPT !.pc = "shown", !.latest = cache.data, !.asked = clock]
           asking == [reader[r] EXCEPT !.pc = "fetch", !.asked = clock]
<1>2. CASE is_fresh
  <2>1. Goes(r, served)
    BY <1>2 DEF ReadCache
  <2>2. /\ served \in ReaderRecord /\ served.asked = clock /\ served.pc = "shown"
        /\ served.latest = cache.data /\ served.current = reader[r].current
        /\ served.failed = reader[r].failed
    <3>1. served \in ReaderRecord
      BY <1>1, Zenon, RequestGoesOn
    <3> QED BY <1>1, <3>1 DEF ReaderRecord
  <2>3. cache.data # Absent /\ clock - cache.at < CacheTtl
    BY <1>2 DEF is_fresh
  <2>4. PICK t \in cache.at - FetchTimeout .. cache.at : cache.data \in BestOf(ListedBy(t))
    BY <2>3 DEF ReleasesInv, BestWithin
  <2>5. t \in clock - CacheTtl - FetchTimeout .. clock
    BY <1>1, <2>3, <2>4, ReleasesAssumption
  <2>6. BestWithin(cache.data, clock - CacheTtl - FetchTimeout, clock)
    BY <2>4, <2>5 DEF BestWithin
  <2>7. ReaderKnows(served)
    BY <1>1, <2>2, <2>3, <2>6 DEF ReaderKnows
  <2> HIDE DEF served
  <2> QED BY <1>1, <2>1, <2>2, <2>7, ReaderGoes
<1>3. CASE ~is_fresh
  <2>1. Goes(r, asking)
    BY <1>3 DEF ReadCache
  <2>2. /\ asking \in ReaderRecord /\ asking.asked = clock /\ asking.pc = "fetch"
        /\ asking.latest = reader[r].latest /\ asking.current = reader[r].current
        /\ asking.failed = reader[r].failed
    <3>1. asking \in ReaderRecord
      BY <1>1, Zenon, RequestGoesOn
    <3> QED BY <1>1, <3>1 DEF ReaderRecord
  <2>3. clock <= asking.asked + FetchTimeout
    BY <1>1, <2>2, ReleasesAssumption
  <2>4. ReaderKnows(asking)
    BY <1>1, <2>2, <2>3 DEF ReaderKnows
  <2> HIDE DEF asking
  <2> QED BY <1>1, <2>1, <2>2, <2>4, ReaderGoes
<1> QED BY <1>2, <1>3

\* GitHub lists what is published now.
LEMMA FetchLatestKeeps ==
  ASSUME ReleasesInv, NEW r \in Readers, FetchLatest(r) PROVE ReleasesInv'
<1>1. /\ reader[r] \in ReaderRecord /\ ReaderKnows(reader[r]) /\ reader[r].pc = "fetch"
      /\ reader[r].asked <= clock /\ reader[r].asked \in Int /\ clock \in Nat
      /\ UNCHANGED <<clock, published, running, cache>>
  BY DEF ReleasesInv, FetchLatest, ReaderRecord
<1>2. {t \in Tags : published[t] # Absent} = ListedBy(clock)
  BY DEF ReleasesInv, ListedBy
<1>3. PICK tag \in BestOf(ListedBy(clock)) :
        Goes(r, [reader[r] EXCEPT !.pc = "store", !.latest = tag])
  BY <1>2 DEF FetchLatest
<1>4. tag \in Tags
  BY <1>3 DEF BestOf, ListedBy
<1> DEFINE answered == [reader[r] EXCEPT !.pc = "store", !.latest = tag]
<1>5. /\ answered \in ReaderRecord /\ answered.asked = reader[r].asked
      /\ answered.pc = "store" /\ answered.latest = tag
      /\ answered.current = reader[r].current /\ answered.failed = reader[r].failed
  BY <1>1, <1>4 DEF ReaderRecord
<1>6. BestWithin(tag, reader[r].asked, clock)
  BY <1>1, <1>3 DEF BestWithin
<1>7. ReaderKnows(answered)
  BY <1>1, <1>5, <1>6 DEF ReaderKnows
<1> HIDE DEF answered
<1>8. Goes(r, answered)
  BY <1>3 DEF answered
<1> QED BY <1>1, <1>5, <1>7, <1>8, ReaderGoes

\* A request that fails shows no release.
LEMMA FetchFailsKeeps ==
  ASSUME ReleasesInv, NEW r \in Readers, FetchFails(r) PROVE ReleasesInv'
<1>1. /\ reader[r] \in ReaderRecord /\ ReaderKnows(reader[r]) /\ reader[r].pc = "fetch"
      /\ reader[r].asked <= clock /\ UNCHANGED <<clock, published, running, cache>>
  BY DEF ReleasesInv, FetchFails
<1> DEFINE failing == [reader[r] EXCEPT !.pc = "shown", !.failed = TRUE]
<1>2. /\ failing \in ReaderRecord /\ failing.asked = reader[r].asked
      /\ failing.pc = "shown" /\ failing.latest = reader[r].latest
      /\ failing.current = reader[r].current /\ failing.failed = TRUE
  BY <1>1 DEF ReaderRecord
<1>3. ReaderKnows(failing)
  BY <1>1, <1>2 DEF ReaderKnows
<1>4. Goes(r, failing)
  BY DEF FetchFails
<1> HIDE DEF failing
<1> QED BY <1>1, <1>2, <1>3, <1>4, ReaderGoes

\* An answer is stored not later than a fetch may take.
LEMMA StoreLatestKeeps ==
  ASSUME ReleasesInv, NEW r \in Readers, StoreLatest(r) PROVE ReleasesInv'
<1>1. /\ reader[r] \in ReaderRecord /\ ReaderKnows(reader[r]) /\ reader[r].pc = "store"
      /\ reader[r].asked <= clock /\ reader[r].asked \in Int /\ clock \in Int
      /\ cache' = [data |-> reader[r].latest, at |-> clock]
      /\ UNCHANGED <<clock, published, running>>
  BY DEF ReleasesInv, StoreLatest, ReaderRecord
<1> DEFINE shown == [reader[r] EXCEPT !.pc = "shown", !.asked = clock]
<1>2. /\ shown \in ReaderRecord /\ shown.asked = clock /\ shown.pc = "shown"
      /\ shown.latest = reader[r].latest /\ shown.current = reader[r].current
      /\ shown.failed = reader[r].failed
  <2>1. shown \in ReaderRecord
    BY <1>1, Zenon, RequestGoesOn
  <2> QED BY <1>1, <2>1 DEF ReaderRecord
<1>3. PICK t \in reader[r].asked .. clock : reader[r].latest \in BestOf(ListedBy(t))
  BY <1>1 DEF ReaderKnows, BestWithin
<1>4. clock <= reader[r].asked + FetchTimeout
  BY <1>1 DEF ReaderKnows
<1>5. t \in clock - FetchTimeout .. clock /\ t \in clock - CacheTtl - FetchTimeout .. clock
  BY <1>1, <1>3, <1>4, ReleasesAssumption
<1>6. /\ BestWithin(reader[r].latest, clock - FetchTimeout, clock)
      /\ BestWithin(reader[r].latest, clock - CacheTtl - FetchTimeout, clock)
  BY <1>3, <1>5 DEF BestWithin
<1>7. reader[r].latest \in Tags /\ reader[r].latest # Absent
  BY <1>3, ReleasesAssumption DEF BestOf, ListedBy
<1>8. ReaderKnows(shown)
  BY <1>1, <1>2, <1>6, <1>7 DEF ReaderKnows
<1>9. /\ cache'.data \in Tags \cup {Absent} /\ cache'.at = clock
      /\ BestWithin(cache'.data, clock - FetchTimeout, clock)
  BY <1>1, <1>6, <1>7
<1>10. Goes(r, shown)
  BY DEF StoreLatest
<1> HIDE DEF shown
<1> QED BY <1>1, <1>2, <1>8, <1>9, <1>10, ReaderGoes

\* The page starts over.
LEMMA ReloadKeeps ==
  ASSUME ReleasesInv, NEW r \in Readers, Reload(r) PROVE ReleasesInv'
<1>1. clock \in Nat /\ Goes(r, Asking) /\ UNCHANGED <<clock, published, running, cache>>
  BY DEF ReleasesInv, Reload
<1> QED BY <1>1, AskingKnows, ReaderGoes

\* The invariant holds of every behaviour.
THEOREM ReleasesInvariant == ReleasesSpec => []ReleasesInv
<1>1. ReleasesInit => ReleasesInv
  BY ReleasesInvInit
<1>2. ReleasesInv /\ [ReleasesNext]_releasesVars => ReleasesInv'
  <2> SUFFICES ASSUME ReleasesInv, [ReleasesNext]_releasesVars PROVE ReleasesInv'
    OBVIOUS
  <2>1. CASE TimePasses
    BY <2>1, TimePassesKeeps
  <2>2. ASSUME NEW r \in Readers,
               \/ ReadCurrent(r) \/ ReadCache(r) \/ FetchLatest(r) \/ FetchFails(r)
               \/ StoreLatest(r) \/ Reload(r)
        PROVE  ReleasesInv'
    BY <2>2, ReadCurrentKeeps, ReadCacheKeeps, FetchLatestKeeps, FetchFailsKeeps,
       StoreLatestKeeps, ReloadKeeps
  <2>3. CASE UNCHANGED releasesVars
    BY <2>3 DEF releasesVars, ReleasesInv, ReaderKnows, BestWithin, BestOf, ListedBy
  <2> QED BY <2>1, <2>2, <2>3 DEF ReleasesNext
<1> QED BY <1>1, <1>2, PTL DEF ReleasesSpec

\* The types of the release check's state.
THEOREM ReleasesTypes == ReleasesSpec => []ReleasesTypeOK
<1>1. ReleasesInv => ReleasesTypeOK
  <2> SUFFICES ASSUME ReleasesInv PROVE ReleasesTypeOK
    OBVIOUS
  <2>1. clock \in 0 .. LastClock /\ LastClock \in Nat
    BY ReleasesAssumption DEF ReleasesInv
  <2>2. \A tag \in Tags : published[tag] \in (0 .. LastClock) \cup {Absent}
    <3> SUFFICES ASSUME NEW tag \in Tags, published[tag] # Absent
                 PROVE  published[tag] \in 0 .. LastClock
      OBVIOUS
    <3>1. published[tag] \in Nat /\ published[tag] <= clock
      BY DEF ReleasesInv
    <3> QED BY <2>1, <3>1
  <2>3. published \in [Tags -> (0 .. LastClock) \cup {Absent}]
    BY <2>2 DEF ReleasesInv
  <2>4. ASSUME NEW r \in Readers
        PROVE  /\ reader[r].pc \in {"start", "cache", "fetch", "store", "shown"}
               /\ reader[r].latest \in Tags \cup {Absent} /\ reader[r].current \in {running, Absent}
    BY DEF ReleasesInv, ReaderRecord, ReaderKnows
  <2> QED BY <2>1, <2>3, <2>4 DEF ReleasesInv, ReleasesTypeOK
<1> QED BY <1>1, ReleasesInvariant, PTL

\* A release that is shown was the greatest one at some moment not longer ago
\* than the time to live and one fetch, however requests overlap
\* (version.rs:130-147).
THEOREM ReleasesAreRecent == ReleasesSpec => []ServedIsRecent
<1>1. ReleasesInv => ServedIsRecent
  BY DEF ReleasesInv, ServedIsRecent, ReaderKnows, BestWithin
<1> QED BY <1>1, ReleasesInvariant, PTL

\* An update is offered only to a published version that is greater than the
\* running one, and, without failures, whenever one has been published for longer
\* than the cache lives and a fetch lasts (version.rs:74-77).  The release that
\* is shown is not less than that one, so that it is greater than the version
\* that runs as well.
THEOREM UpdatesAreFound == ReleasesSpec => []UpdatesAreOffered
<1> USE ReleasesAssumption
<1>1. ASSUME ReleasesInv, NEW r \in Readers, reader[r].pc = "shown",
             reader[r].latest # Absent
      PROVE  \E t \in Int :
               /\ reader[r].asked - CacheTtl - FetchTimeout <= t /\ t <= clock
               /\ reader[r].latest \in BestOf(ListedBy(t))
  <2>1. /\ reader[r].asked \in Int /\ reader[r].asked <= clock /\ clock \in Nat
        /\ BestWithin(reader[r].latest, reader[r].asked - CacheTtl - FetchTimeout, reader[r].asked)
    BY <1>1 DEF ReleasesInv, ReaderKnows, ReaderRecord
  <2> QED BY <2>1 DEF BestWithin
<1>2. ASSUME ReleasesInv, NEW s \in Int, NEW t \in Int, s <= t
      PROVE  ListedBy(s) \subseteq ListedBy(t)
  BY <1>2 DEF ListedBy, ReleasesInv
<1>3. ASSUME ReleasesInv, NEW r \in Readers, reader[r].pc = "shown", Offered(r)
      PROVE  /\ reader[r].latest \in ListedBy(clock) /\ reader[r].latest.parts # Absent
             /\ compare_versions(reader[r].current, reader[r].latest)
  <2>1. reader[r].latest # Absent /\ compare_versions(reader[r].current, reader[r].latest)
    BY <1>3 DEF Offered
  <2>2. PICK t \in Int : t <= clock /\ reader[r].latest \in BestOf(ListedBy(t))
    BY <1>1, <1>3, <2>1
  <2>3. reader[r].latest \in ListedBy(t) /\ reader[r].latest.parts # Absent /\ clock \in Int
    BY <1>3, <2>2 DEF BestOf, ReleasesInv
  <2> QED BY <1>2, <1>3, <2>1, <2>2, <2>3
<1>4. ASSUME ReleasesInv, NEW r \in Readers, reader[r].pc = "shown", ~reader[r].failed,
             NEW tag \in ListedBy(reader[r].asked - CacheTtl - FetchTimeout),
             tag.parts # Absent, compare_versions(reader[r].current, tag)
      PROVE  Offered(r)
  <2>1. reader[r].latest # Absent /\ reader[r].asked \in Int
    BY <1>4 DEF ReleasesInv, ReaderKnows, ReaderRecord
  <2>2. PICK t \in Int : /\ reader[r].asked - CacheTtl - FetchTimeout <= t
                         /\ reader[r].latest \in BestOf(ListedBy(t))
    BY <1>1, <1>4, <2>1
  <2>3. tag \in ListedBy(t) /\ tag \in Tags
    BY <1>2, <1>4, <2>1, <2>2 DEF ListedBy
  <2>4. reader[r].latest.parts # Absent /\ reader[r].latest \in Tags
        /\ ~Less(reader[r].latest.parts, tag.parts)
    BY <1>4, <2>2, <2>3 DEF BestOf, ListedBy
  <2>5. /\ reader[r].current # Absent /\ reader[r].current.parts # Absent
        /\ Less(reader[r].current.parts, tag.parts)
        /\ reader[r].current \in Tags
    BY <1>4 DEF compare_versions, ReleasesInv, ReaderRecord
  <2>6. /\ reader[r].current.parts \in Seq(Nat) /\ tag.parts \in Seq(Nat)
        /\ reader[r].latest.parts \in Seq(Nat)
    BY <1>4, <2>3, <2>4, <2>5 DEF Tag
  <2>7. Less(reader[r].current.parts, reader[r].latest.parts)
    BY <2>4, <2>5, <2>6, LessThroughAny
  <2> QED BY <1>4, <2>1, <2>5, <2>7 DEF Offered, compare_versions
<1>5. ReleasesInv => UpdatesAreOffered
  BY <1>3, <1>4 DEF UpdatesAreOffered
<1> QED BY <1>5, ReleasesInvariant, PTL

-----------------------------------------------------------------------------
(* The registry of rules                                                   *)

\* What was loaded is what some text of the registry means, or the failure.
RulesInv ==
  /\ RulesTypeOK
  /\ refresh.pc = "loaded" => refresh.loaded \in RuleSets \cup {NoRules, Failed}

\* What is loaded is no more than that.
LEMMA MeaningKnown ==
  \A content \in Contents : Meaning(content) \in RuleSets \cup {NoRules, Failed}
BY DEF Contents, Meaning

\* The copy of the registry keeps its kind, whatever is edited and fails.
THEOREM RulesInvariant == RulesInit /\ [][RulesNext]_rulesVars => []RulesInv
<1> USE RulesAssumption DEF RulesInv, RulesTypeOK, Contents
<1>1. RulesInit => RulesInv
  BY DEF RulesInit
<1>2. RulesInv /\ [RulesNext]_rulesVars => RulesInv'
  <2> SUFFICES ASSUME RulesInv, [RulesNext]_rulesVars PROVE RulesInv'
    OBVIOUS
  <2>1. CASE Edit
    BY <2>1 DEF Edit
  <2>2. CASE load_rules
    BY <2>2, MeaningKnown DEF load_rules
  <2>3. CASE StoreRules
    BY <2>3 DEF StoreRules
  <2>4. CASE UNCHANGED rulesVars
    BY <2>4 DEF rulesVars
  <2> QED BY <2>1, <2>2, <2>3, <2>4 DEF RulesNext
<1> QED BY <1>1, <1>2, PTL

\* The task can always go on: to load at a tick, to store what was loaded.
RulesGoOn ==
  /\ refresh.pc = "tick" => ENABLED <<load_rules>>_rulesVars
  /\ refresh.pc = "loaded" => ENABLED <<StoreRules>>_rulesVars

\* From some time on no load fails.
LoadsRecover == <>[][FALSE]_failures

Says(content) == configMap = content

Ticks == refresh.pc = "tick"

\* What was loaded is what the text says.
Ripe(content) == refresh.pc = "loaded" /\ refresh.loaded = Meaning(content)

Tells(content) ==
  IF Meaning(content) = Failed THEN registry.error
  ELSE registry.rules = Meaning(content) /\ ~registry.error

Settled(content) == Tells(content) /\ (Ticks \/ Ripe(content))

\* While the text stays and no load fails, a tick loads what it says, which is
\* stored at once and stays.
LEMMA LoadsInOrder ==
  ASSUME NEW content \in Contents, RulesInv, [RulesNext]_rulesVars, [FALSE]_failures,
         Says(content)
  PROVE  /\ Ticks => Ticks' \/ Ripe(content)'
         /\ Ripe(content) => Ripe(content)' \/ Settled(content)'
         /\ Settled(content) => Settled(content)'
         /\ <<load_rules>>_rulesVars => ~Ticks'
         /\ <<StoreRules>>_rulesVars => Ticks' /\ (Ripe(content) => Settled(content)')
<1> USE DEF RulesInv, RulesTypeOK, Says, Ticks, Ripe, Tells, Settled
<1>1. CASE Edit
  BY <1>1 DEF Edit, load_rules, StoreRules
<1>2. CASE load_rules
  BY <1>2 DEF load_rules, StoreRules
<1>3. CASE StoreRules
  BY <1>3 DEF load_rules, StoreRules
<1>4. CASE UNCHANGED rulesVars
  BY <1>4 DEF rulesVars
<1> QED BY <1>1, <1>2, <1>3, <1>4 DEF RulesNext

\* A text that stays is the one that is shown from some time on.
LEMMA TextIsTold ==
  ASSUME NEW content \in Contents
  PROVE  RulesSpec /\ []RulesGoOn /\ LoadsRecover =>
           (<>[]Says(content) => <>[]Tells(content))
<1>1. RulesSpec => []RulesInv
  BY RulesInvariant, PTL DEF RulesSpec
<1>2. ASSUME RulesInv, [RulesNext]_rulesVars, [FALSE]_failures, Says(content)
      PROVE  /\ Ticks => Ticks' \/ Ripe(content)'
             /\ Ripe(content) => Ripe(content)' \/ Settled(content)'
             /\ Settled(content) => Settled(content)'
             /\ <<load_rules>>_rulesVars => ~Ticks'
             /\ <<StoreRules>>_rulesVars => Ticks' /\ (Ripe(content) => Settled(content)')
  BY <1>2, LoadsInOrder
<1>3. Ripe(content) => ~Ticks
  BY DEF Ripe, Ticks
<1>4. RulesInv /\ RulesGoOn => /\ Ticks => ENABLED <<load_rules>>_rulesVars
                               /\ ~Ticks => ENABLED <<StoreRules>>_rulesVars
  BY DEF RulesInv, RulesTypeOK, RulesGoOn, Ticks
<1>5. Settled(content) => Tells(content)
  BY DEF Settled
<1> QED BY <1>1, <1>2, <1>3, <1>4, <1>5, PTL DEF RulesSpec, RulesFairness, LoadsRecover

\* The page ends up showing what the registry says, without a restart and
\* whatever failed before, and that a malformed text is malformed
\* (wallet_rules.rs:27-28, 109-127), once no load fails any more.
THEOREM RulesAreFollowed == RulesSpec /\ []RulesGoOn /\ LoadsRecover => RulesFollow
<1>1. ASSUME NEW content \in Contents, Meaning(content) = Failed
      PROVE  RulesSpec /\ []RulesGoOn /\ LoadsRecover =>
               (<>[](configMap = content) => <>[](registry.error))
  <2>1. Tells(content) <=> registry.error
    BY <1>1 DEF Tells
  <2>2. Says(content) <=> configMap = content
    BY DEF Says
  <2>3. RulesSpec /\ []RulesGoOn /\ LoadsRecover =>
          (<>[]Says(content) => <>[]Tells(content))
    BY TextIsTold
  <2> QED BY <2>1, <2>2, <2>3, PTL
<1>2. ASSUME NEW content \in Contents, Meaning(content) # Failed
      PROVE  RulesSpec /\ []RulesGoOn /\ LoadsRecover =>
               (<>[](configMap = content) =>
                 <>[](registry.rules = Meaning(content) /\ ~registry.error))
  <2>1. Tells(content) <=> registry.rules = Meaning(content) /\ ~registry.error
    BY <1>2 DEF Tells
  <2>2. Says(content) <=> configMap = content
    BY DEF Says
  <2>3. RulesSpec /\ []RulesGoOn /\ LoadsRecover =>
          (<>[]Says(content) => <>[]Tells(content))
    BY TextIsTold
  <2> QED BY <2>1, <2>2, <2>3, PTL
<1> QED BY <1>1, <1>2 DEF RulesFollow

-----------------------------------------------------------------------------
(* Prices                                                                  *)

\* What is asked and cached are answers, and only a price of zero ends the feed.
PricesInv ==
  /\ PricesTypeOK
  /\ feed \in [pc : {"kraken", "kucoin", "cache", "store", "ended"},
               kraken : Answer, kucoin : Answer]
  /\ feed.pc = "ended" => Panics

\* The medians of answers are prices, or none.
LEMMA MediansKnown ==
  ASSUME feed.kraken \in Answer, feed.kucoin \in Answer
  PROVE  BtcUsd \in Nat \cup {NoPrice} /\ XmrUsd \in Nat \cup {NoPrice}
BY PricesAssumption DEF Answer, BtcUsd, XmrUsd, Median

\* The feed and the cache keep their kind, whatever the exchanges answer.
THEOREM PricesInvariant == PricesInit /\ [][PricesNext]_pricesVars => []PricesInv
<1> USE PricesAssumption
<1>1. Unknown \in Answer /\ NoPrice \notin Nat /\ FeedStart.pc = "kraken"
      /\ FeedStart \in [pc : {"kraken", "kucoin", "cache", "store", "ended"},
                        kraken : Answer, kucoin : Answer]
  BY DEF Unknown, Answer, FeedStart
<1>2. PricesInit => PricesInv
  BY <1>1 DEF PricesInit, PricesInv, PricesTypeOK, FeedStart
<1>3. PricesInv /\ [PricesNext]_pricesVars => PricesInv'
  <2> SUFFICES ASSUME PricesInv, [PricesNext]_pricesVars PROVE PricesInv'
    OBVIOUS
  <2>1. /\ feed \in [pc : {"kraken", "kucoin", "cache", "store", "ended"},
                     kraken : Answer, kucoin : Answer]
        /\ quotes \in [Exchanges -> Answers \cup {Unknown}]
        /\ quotes["kraken"] \in Answer /\ quotes["kucoin"] \in Answer
        /\ cached \in Answer /\ unstored \in 1 .. Minute
        /\ feed.pc = "ended" => Panics
    BY <1>1 DEF PricesInv, PricesTypeOK, Exchanges
  <2>2. UNCHANGED feed => (Panics <=> Panics')
    BY DEF Panics, Quotient, BtcUsd, XmrUsd
  <2>3. CASE Market
    BY <2>1, <2>2, <2>3 DEF Market, PricesInv, PricesTypeOK
  <2>4. CASE AskKraken
    BY <2>1, <2>4 DEF AskKraken, PricesInv, PricesTypeOK
  <2>5. CASE AskKucoin
    <3>1. [quotes["kucoin"] EXCEPT !.cross = NoPrice] \in Answer
      BY <2>1 DEF Answer
    <3> QED BY <2>1, <2>5, <3>1 DEF AskKucoin, PricesInv, PricesTypeOK
  <2>6. CASE CacheFetch
    <3>1. CASE Panics
      <4>1. /\ feed' = [feed EXCEPT !.pc = "ended"] /\ UNCHANGED <<quotes, cached, unstored>>
        BY <2>6, <3>1 DEF CacheFetch
      <4>2. Panics'
        BY <2>1, <3>1, <4>1 DEF Panics, Quotient, BtcUsd, XmrUsd
      <4> QED BY <2>1, <4>1, <4>2 DEF PricesInv, PricesTypeOK
    <3>2. CASE ~Panics
      <4>1. BtcUsd \in Nat \cup {NoPrice} /\ XmrUsd \in Nat \cup {NoPrice}
            /\ feed.kraken.cross \in Nat \cup {NoPrice}
        BY <2>1, MediansKnown DEF Answer
      <4>2. Quotient => XmrUsd \in Nat /\ BtcUsd \in Nat \ {0}
        BY <3>2, <4>1 DEF Panics, Quotient
      <4>3. Quotient => XmrUsd \div BtcUsd \in Nat
        BY <4>2
      <4>4. cached' = [btc |-> BtcUsd, xmr |-> XmrUsd,
                       cross |-> IF Quotient THEN XmrUsd \div BtcUsd ELSE feed.kraken.cross]
        BY <2>6, <3>2 DEF CacheFetch
      <4>5. cached' \in Answer
        BY <4>1, <4>3, <4>4 DEF Answer
      <4>6. /\ unstored' \in 1 .. Minute /\ quotes' = quotes
            /\ feed' \in {[feed EXCEPT !.pc = "store"], FeedStart}
        BY <2>1, <2>6, <3>2 DEF CacheFetch
      <4> QED BY <1>1, <2>1, <4>5, <4>6 DEF PricesInv, PricesTypeOK
    <3> QED BY <3>1, <3>2
  <2>7. CASE StoreRow
    BY <1>1, <2>1, <2>7 DEF StoreRow, PricesInv, PricesTypeOK
  <2>8. CASE UNCHANGED pricesVars
    BY <2>1, <2>2, <2>8 DEF pricesVars, PricesInv, PricesTypeOK
  <2> QED BY <2>3, <2>4, <2>5, <2>6, <2>7, <2>8 DEF PricesNext, FeedStep
<1> QED BY <1>2, <1>3, PTL

\* The feed can always go on until it ends.
FeedGoesOn == feed.pc # "ended" => ENABLED <<FeedStep>>_pricesVars

FeedAt(stage) == feed.pc = stage

Quotes(e) == Priced(e) /\ quotes[e].xmr # 0

AllKnown == cached.btc # NoPrice /\ cached.xmr # NoPrice /\ cached.cross # NoPrice

Crashed == feed.pc = "ended" /\ Panics

\* What the feed was answered by e in this round is a price of both coins.
Heard(e) ==
  LET a == feed[e] IN
  feed.pc = "cache" \/ (feed.pc = "kucoin" /\ e = "kraken") =>
    a.btc # NoPrice /\ a.xmr \notin {NoPrice, 0}

\* With prices of one exchange the fetch fills the cache or ends the feed.
LEMMA HeardIsKnown ==
  ASSUME PricesInv, NEW e \in Exchanges, Heard(e), CacheFetch
  PROVE  AllKnown' \/ FeedAt("ended")'
<1> USE PricesAssumption
<1>1. /\ feed.kraken \in Answer /\ feed.kucoin \in Answer /\ e \in {"kraken", "kucoin"}
      /\ feed[e].btc # NoPrice /\ feed[e].xmr \notin {NoPrice, 0}
      /\ feed["kraken"] = feed.kraken /\ feed["kucoin"] = feed.kucoin
  BY DEF PricesInv, Heard, CacheFetch, Exchanges
<1>2. /\ feed.kraken.btc \in Nat \cup {NoPrice} /\ feed.kucoin.btc \in Nat \cup {NoPrice}
      /\ feed.kraken.xmr \in Nat \cup {NoPrice} /\ feed.kucoin.xmr \in Nat \cup {NoPrice}
      /\ feed.kraken.cross \in Nat \cup {NoPrice}
  BY <1>1 DEF Answer
<1>3. BtcUsd \in Nat
  BY <1>1, <1>2 DEF BtcUsd, Median
<1>4. XmrUsd \in Nat \ {0}
  BY <1>1, <1>2 DEF XmrUsd, Median
<1>5. CASE Panics
  <2>1. feed' = [feed EXCEPT !.pc = "ended"]
    BY <1>5 DEF CacheFetch
  <2> QED BY <2>1 DEF FeedAt, PricesInv
<1>6. CASE ~Panics
  <2>1. cached' = [btc |-> BtcUsd, xmr |-> XmrUsd,
                   cross |-> IF Quotient THEN XmrUsd \div BtcUsd ELSE feed.kraken.cross]
    BY <1>6 DEF CacheFetch
  <2>2. Quotient => BtcUsd \in Nat \ {0}
    BY <1>3, <1>6 DEF Panics
  <2>3. Quotient => XmrUsd \div BtcUsd \in Nat
    BY <1>4, <2>2
  <2>4. ~Quotient => feed.kraken.cross # NoPrice
    BY <1>3, <1>4 DEF Quotient
  <2> QED BY <1>3, <1>4, <2>1, <2>3, <2>4 DEF AllKnown
<1> QED BY <1>5, <1>6

\* The feed goes round in this order, and hears what e quotes.
LEMMA FeedInOrder ==
  ASSUME NEW e \in Exchanges, PricesInv, [PricesNext]_pricesVars, Quotes(e), Quotes(e)'
  PROVE  /\ FeedAt("kraken") => FeedAt("kraken")' \/ FeedAt("kucoin")'
         /\ FeedAt("kucoin") => FeedAt("kucoin")' \/ FeedAt("cache")'
         /\ FeedAt("cache")  => \/ FeedAt("cache")' \/ FeedAt("store")'
                                \/ FeedAt("kraken")' \/ FeedAt("ended")'
         /\ FeedAt("store")  => FeedAt("store")' \/ FeedAt("kraken")'
         /\ FeedAt("ended")  => FeedAt("ended")'
         /\ Heard(e) => Heard(e)'
         /\ Heard(e) /\ FeedAt("cache") => FeedAt("cache")' \/ AllKnown' \/ FeedAt("ended")'
         /\ Heard(e) /\ AllKnown => AllKnown' \/ FeedAt("ended")'
         /\ AllKnown /\ FeedAt("ended")' => AllKnown'
<1> USE PricesAssumption
<1>1. /\ feed \in [pc : {"kraken", "kucoin", "cache", "store", "ended"},
                   kraken : Answer, kucoin : Answer]
      /\ e \in {"kraken", "kucoin"}
      /\ quotes[e].btc # NoPrice /\ quotes[e].xmr \notin {NoPrice, 0}
      /\ quotes["kucoin"] \in Answer
  BY DEF PricesInv, PricesTypeOK, Quotes, Priced, Exchanges, Unknown, Answer
<1> USE DEF FeedAt
<1>2. CASE Market \/ UNCHANGED pricesVars
  <2>1. feed' = feed /\ cached' = cached
    BY <1>2 DEF Market, pricesVars
  <2> QED BY <2>1 DEF Heard, AllKnown
<1>3. CASE AskKraken
  BY <1>1, <1>3 DEF AskKraken, Heard, AllKnown
<1>4. CASE AskKucoin
  <2>1. [quotes["kucoin"] EXCEPT !.cross = NoPrice].btc = quotes["kucoin"].btc
        /\ [quotes["kucoin"] EXCEPT !.cross = NoPrice].xmr = quotes["kucoin"].xmr
    BY <1>1 DEF Answer
  <2> QED BY <1>1, <1>4, <2>1 DEF AskKucoin, Heard, AllKnown
<1>5. CASE CacheFetch
  <2>1. Heard(e) => AllKnown' \/ FeedAt("ended")'
    BY <1>5, HeardIsKnown
  <2>2. feed.pc = "cache" /\ feed'.pc \in {"kraken", "store", "ended"}
        /\ (feed'.pc = "ended" => cached' = cached)
    BY <1>1, <1>5 DEF CacheFetch, FeedStart
  <2>3. Heard(e)'
    BY <2>2 DEF Heard
  <2> QED BY <2>1, <2>2, <2>3 DEF AllKnown
<1>6. CASE StoreRow
  BY <1>1, <1>6 DEF StoreRow, Heard, AllKnown, FeedStart
<1> QED BY <1>2, <1>3, <1>4, <1>5, <1>6 DEF PricesNext, FeedStep

\* Every step of the feed leaves the stage.
LEMMA FeedMoves ==
  ASSUME PricesInv, <<FeedStep>>_pricesVars
  PROVE  \A stage \in {"kraken", "kucoin", "cache", "store", "ended"} :
           FeedAt(stage) => ~FeedAt(stage)'
<1>1. feed \in [pc : {"kraken", "kucoin", "cache", "store", "ended"},
                kraken : Answer, kucoin : Answer]
  BY DEF PricesInv
<1>2. CASE AskKraken
  BY <1>1, <1>2 DEF AskKraken, FeedAt
<1>3. CASE AskKucoin
  BY <1>1, <1>3 DEF AskKucoin, FeedAt
<1>4. CASE CacheFetch
  BY <1>1, <1>4 DEF CacheFetch, FeedStart, FeedAt
<1>5. CASE StoreRow
  BY <1>5 DEF StoreRow, FeedStart, FeedAt
<1> QED BY <1>2, <1>3, <1>4, <1>5 DEF FeedStep

\* An exchange that keeps quoting both prices fills the cache for good, or the
\* feed has ended.
LEMMA QuotesAreCached ==
  ASSUME NEW e \in Exchanges
  PROVE  PricesSpec /\ []FeedGoesOn => (<>[]Quotes(e) => <>[]AllKnown \/ <>[]Crashed)
<1>1. PricesSpec => []PricesInv
  BY PricesInvariant, PTL DEF PricesSpec
<1>2. ASSUME PricesInv, [PricesNext]_pricesVars, Quotes(e), Quotes(e)'
      PROVE  /\ FeedAt("kraken") => FeedAt("kraken")' \/ FeedAt("kucoin")'
             /\ FeedAt("kucoin") => FeedAt("kucoin")' \/ FeedAt("cache")'
             /\ FeedAt("cache")  => \/ FeedAt("cache")' \/ FeedAt("store")'
                                    \/ FeedAt("kraken")' \/ FeedAt("ended")'
             /\ FeedAt("store")  => FeedAt("store")' \/ FeedAt("kraken")'
             /\ FeedAt("ended")  => FeedAt("ended")'
             /\ Heard(e) => Heard(e)'
             /\ Heard(e) /\ FeedAt("cache") => FeedAt("cache")' \/ AllKnown' \/ FeedAt("ended")'
             /\ Heard(e) /\ AllKnown => AllKnown' \/ FeedAt("ended")'
             /\ AllKnown /\ FeedAt("ended")' => AllKnown'
  BY <1>2, FeedInOrder
<1>3. ASSUME PricesInv, <<FeedStep>>_pricesVars
      PROVE  /\ FeedAt("kraken") => ~FeedAt("kraken")'
             /\ FeedAt("kucoin") => ~FeedAt("kucoin")'
             /\ FeedAt("cache")  => ~FeedAt("cache")'
             /\ FeedAt("store")  => ~FeedAt("store")'
  BY <1>3, FeedMoves
<1>4. PricesInv => /\ \/ FeedAt("kraken") \/ FeedAt("kucoin") \/ FeedAt("cache")
                      \/ FeedAt("store") \/ FeedAt("ended")
                   /\ FeedAt("kraken") \/ FeedAt("store") => Heard(e)
                   /\ FeedAt("ended") => Crashed
  BY DEF PricesInv, FeedAt, Heard, Crashed
<1>5. FeedGoesOn /\ ~FeedAt("ended") => ENABLED <<FeedStep>>_pricesVars
  BY DEF FeedGoesOn, FeedAt
<1> QED BY <1>1, <1>2, <1>3, <1>4, <1>5, PTL DEF PricesSpec, PricesFairness

\* Once an exchange keeps quoting both prices, all three are in the cache from
\* some time on, unless a Bitcoin that costs nothing ended the feed
\* (cex.rs:31-79, cex_prices.rs:21-36).
THEOREM PricesReturn == PricesSpec /\ []FeedGoesOn => PricesComeBack
<1>1. ASSUME NEW e \in Exchanges
      PROVE  PricesSpec /\ []FeedGoesOn => (<>[]Quotes(e) => <>[]AllKnown \/ <>[]Crashed)
  BY QuotesAreCached
<1> QED BY <1>1 DEF PricesComeBack, Quotes, AllKnown, Crashed

-----------------------------------------------------------------------------
(* The console                                                             *)

\* The health checks' verdicts are verdicts, and changes and fetches bounded.
THEOREM HealthTypes == HealthSpec => []HealthTypeOK
<1> DEFINE Counted == changes \in 0 .. MaxChanges /\ fetches \in 0 .. MaxFetches
<1>1. HealthInit => HealthInv /\ Counted
  <2>1. HealthInit => Counted
    BY HealthAssumption DEF HealthInit
  <2> QED BY <2>1, HealthInvInit
<1>2. HealthInv /\ Counted /\ [HealthNext]_healthVars => HealthInv' /\ Counted'
  <2>1. Counted /\ [HealthNext]_healthVars => Counted'
    BY HealthAssumption DEF HealthNext, Change, Start, Check, healthVars
  <2> QED BY <2>1, HealthInvStep
<1>3. HealthInv /\ Counted => HealthTypeOK
  <2> SUFFICES ASSUME HealthInv, Counted PROVE HealthTypeOK
    OBVIOUS
  <2>1. services \in [Parts -> UNION {Conditions[part] : part \in Parts}]
    BY DEF HealthInv
  <2>2. ASSUME fetch # NoFetch, NEW i \in DOMAIN fetch PROVE fetch[i] \in DOMAIN Severity
    <3>1. fetch[i] \in Verdicts
      BY <2>2 DEF HealthInv
    <3> QED BY <3>1 DEF Verdicts, Severity
  <2> QED BY <2>1, <2>2 DEF HealthInv, HealthTypeOK
<1> QED BY <1>1, <1>2, <1>3, PTL DEF HealthSpec

\* The rows, the setters and the decision hold passwords that were set.
THEOREM LoginTypes == LoginSpec => []LoginTypeOK
<1> USE LoginAssumption
<1> DEFINE Stored == /\ Rows \subseteq Setters
                     /\ \A r \in Rows : credentials[r] \in Passwords
                     /\ decided \in Passwords \cup {NoPassword}
                     /\ sets \in 0 .. MaxSets
<1>1. LoginInit => Stored
  BY DEF LoginInit, Rows
<1>2. LoginInv /\ Stored /\ [LoginNext]_loginVars => Stored'
  <2> SUFFICES ASSUME LoginInv, Stored, [LoginNext]_loginVars PROVE Stored'
    OBVIOUS
  <2>1. ASSUME NEW c \in Setters, LookForRow(c) PROVE Stored'
    BY <2>1 DEF LookForRow, Rows
  <2>2. ASSUME NEW c \in Setters, StorePassword(c) PROVE Stored'
    <3> DEFINE p == setter[c].password
    <3>1. /\ p \in Passwords /\ sets' = sets
          /\ credentials' = IF setter[c].found THEN Updated(p) ELSE WithRowOf(c, p)
          /\ decided' = IF setter[c].alone THEN p ELSE NoPassword
      BY <2>2 DEF StorePassword, LoginInv, SetterOK
    <3>2. /\ DOMAIN Updated(p) = Rows /\ \A r \in Rows : Updated(p)[r] = p
      BY DEF Updated
    <3>3. /\ DOMAIN WithRowOf(c, p) = Rows \cup {c} /\ WithRowOf(c, p)[c] = p
          /\ \A r \in Rows \ {c} : WithRowOf(c, p)[r] = credentials[r]
      BY DEF WithRowOf
    <3> HIDE DEF p
    <3>4. Rows' = DOMAIN credentials'
      BY DEF Rows
    <3> QED BY <3>1, <3>2, <3>3, <3>4
  <2>3. ASSUME NEW c \in Setters, SettingFails(c) PROVE Stored'
    BY <2>3 DEF SettingFails, Rows
  <2>4. CASE UNCHANGED loginVars
    BY <2>4 DEF loginVars, Rows
  <2> QED BY <2>1, <2>2, <2>3, <2>4 DEF LoginNext
<1>3. LoginInv /\ Stored => LoginTypeOK
  BY DEF LoginInv, SetterOK, SetterRecord, LoginTypeOK
<1> HIDE DEF Stored
<1> QED BY <1>1, <1>2, <1>3, LoginInvariant, PTL DEF LoginSpec

\* The console runs each of its components as its own specification says, the
\* others resting, so that what is proved of one holds of it in the console.
LEMMA ComponentsRun ==
  ConsoleSpec =>
    /\ Spec /\ AccountingSpec /\ PoolSpec /\ HealthSpec /\ ReleasesSpec /\ LoginSpec
    /\ RulesInit /\ [][RulesNext]_rulesVars
    /\ PricesInit /\ [][PricesNext]_pricesVars
<1>1. ConsoleInit => /\ Init /\ AccountingInit /\ PoolInit /\ HealthInit
                     /\ ReleasesInit /\ LoginInit /\ RulesInit /\ PricesInit
  BY DEF ConsoleInit
<1>2. [ConsoleNext]_consoleVars =>
        /\ [Next]_vars /\ [AccountingNext]_accountingVars /\ [PoolNext]_poolVars
        /\ [HealthNext]_healthVars /\ [ReleasesNext]_releasesVars /\ [LoginNext]_loginVars
        /\ [RulesNext]_rulesVars /\ [PricesNext]_pricesVars
  BY DEF ConsoleNext, consoleVars
<1> QED BY <1>1, <1>2, PTL
        DEF ConsoleSpec, Spec, AccountingSpec, PoolSpec, HealthSpec, ReleasesSpec, LoginSpec

\* All the variables of the console keep their types.
THEOREM ConsoleTypes == ConsoleSpec => []ConsoleTypeOK
<1>1. PoolInvariant => PoolTypeOK
  BY DEF PoolInvariant
<1>2. RulesInv => RulesTypeOK
  BY DEF RulesInv
<1>3. PricesInv => PricesTypeOK
  BY DEF PricesInv
<1>4. /\ TypeOK /\ AccountingTypeOK /\ PoolTypeOK /\ HealthTypeOK /\ ReleasesTypeOK
      /\ LoginTypeOK /\ RulesTypeOK /\ PricesTypeOK
      => ConsoleTypeOK
  BY DEF ConsoleTypeOK
<1> QED BY <1>1, <1>2, <1>3, <1>4, ComponentsRun, BalancesTypes, AccountingTypes,
           ConnectionsConserved, HealthTypes, ReleasesTypes, LoginTypes, RulesInvariant,
           PricesInvariant, PTL
=============================================================================
