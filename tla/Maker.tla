------------------------------- MODULE Maker -------------------------------
(***************************************************************************)
(* The maker controls of the admin console: every handler that rewrites    *)
(* the `config.toml` of the asb-config ConfigMap.                          *)
(*                                                                         *)
(*   pause, resume, write_config   src/src/server/api/maker.rs             *)
(*   apply_recommendation          src/src/server/api/spread_optimizer.rs  *)
(*   run_once                      src/src/server/pollers/spread_optimizer *)
(*                                                                         *)
(* A handler is an async function: it gives up control at every await      *)
(* (ConfigMap read, ConfigMap write, Deployment patch, SQL statement), so  *)
(* each stretch between two awaits is one action here and any other        *)
(* handler may run in between.  Nothing in the code serialises handlers:   *)
(* the ConfigMap is written with a forced server-side apply that carries   *)
(* no resourceVersion, hence the last writer wins.                         *)
(*                                                                         *)
(* The asb Deployment (strategy Recreate; asb reads its configuration only *)
(* when it starts) is external to the repository and modelled from how     *)
(* the code relies on it.                                                  *)
(***************************************************************************)
EXTENDS Integers, Sequences

CONSTANTS
  Requests,     \* ids of the handler invocations, each used at most once (bound)
  Ops,          \* the operations invoked, a subset of AllOps
  AskSpreads,   \* ask_spread values of an on-market configuration
  MaxBuys,      \* max_buy_btc values of an on-market configuration
  PauseSpread,  \* PAUSE_ASK_SPREAD
  PauseBuy,     \* PAUSE_MAX_BUY_BTC
  NoToml,       \* a TOML text not read yet
  InitialToml,  \* the ConfigMap's content at the start
  Forms,        \* what an operator may submit in the [maker] form
  Overlap,      \* may two handlers be in progress at once?
  SwapAtStart,  \* may a swap be in flight at the start? (a set of answers)
  Takers,       \* may takers start new swaps?
  Faults,       \* which faults happen, a subset of FaultKinds
  Cooldown,     \* cooldown_seconds of the optimizer configuration
  MaxClock      \* bound on time, in seconds

AllOps     == {"pause", "resume", "save", "tick", "apply"}
\* "handler": a handler ends at an await, by an error of the awaited call, by
\*            the client disconnecting or by the admin process crashing;
\* "read":    the optimizer's pause or swap query fails and is defaulted;
\* "pod":     the asb pod restarts by itself.
FaultKinds == {"handler", "read", "pod"}

\* config.toml, reduced to the two [maker] keys the handlers decide on.
Toml == [ask_spread : AskSpreads \cup {PauseSpread},
         max_buy_btc : MaxBuys \cup {PauseBuy}]

ASSUME MakerAssumption ==
  /\ Ops \subseteq AllOps
  /\ PauseSpread \notin AskSpreads
  /\ PauseBuy \notin MaxBuys
  /\ NoToml \notin Toml
  /\ InitialToml \in Toml
  /\ Forms \subseteq Toml
  /\ Overlap \in BOOLEAN
  /\ SwapAtStart \subseteq BOOLEAN
  /\ Takers \in BOOLEAN
  /\ Faults \subseteq FaultKinds
  /\ Cooldown \in Nat
  /\ MaxClock \in Nat

VARIABLES
  cm,           \* data["config.toml"] of the asb-config ConfigMap
  annotation,   \* the Deployment's config-version annotation
  rolling,      \* is asb down, its replacement pod not started yet?
  rolledAt,     \* second of the last rollout the Deployment began
  running,      \* the configuration the last started asb pod read
  swap,         \* is a swap in flight at asb?
  history,      \* maker_config_history, oldest row first
  lastApplied,  \* newest spread_recommendations.applied_at, 0 if none
  clock,        \* Utc::now() in whole seconds
  req           \* the handler invocations: where each is and its locals

vars == <<cm, annotation, rolling, rolledAt, running, swap, history,
          lastApplied, clock, req>>

cluster == <<annotation, rolling, rolledAt, running, swap>>

-----------------------------------------------------------------------------
(* maker_config_history                                                    *)

PAUSE_MARKER  == "paused-by-admin"
RESUME_MARKER == "resumed-by-admin"
NoNotes       == "untagged"

Row == [previous_toml : Toml, new_toml : Toml,
        notes : {PAUSE_MARKER, RESUME_MARKER, NoNotes}]

\* get_pause_state: the newest tagged row is a pause row.
is_paused ==
  \E i \in DOMAIN history :
    /\ history[i].notes = PAUSE_MARKER
    /\ \A j \in i + 1 .. Len(history) : history[j].notes # RESUME_MARKER

\* The index i of the newest row tagged as a pause.
IsLatestPause(i) ==
  /\ i \in DOMAIN history
  /\ history[i].notes = PAUSE_MARKER
  /\ \A j \in i + 1 .. Len(history) : history[j].notes # PAUSE_MARKER

\* What pause makes of the TOML it read.
OffMarket(toml) ==
  [toml EXCEPT !.ask_spread = PauseSpread, !.max_buy_btc = PauseBuy]

-----------------------------------------------------------------------------
(* Handler invocations                                                     *)

PCs == {"idle", "load_pause", "check_paused", "recommend", "cooldown",
        "in_flight", "read_config", "read_cm", "write_cm", "bump", "insert",
        "mark", "done"}

\* alive is FALSE once the handler was cut short; its pc says at which await.
\* Two history variables: wroteAt is the second of its ConfigMap write, 0
\* before it, and seen the number of audit rows there were when a tick asked
\* for the pause state.
Request == [op : AllOps \cup {"none"}, pc : PCs, alive : BOOLEAN,
            prev : Toml \cup {NoToml}, new : Toml \cup {NoToml},
            wroteAt : Nat, seen : Nat]

Fresh == [op |-> "none", pc |-> "idle", alive |-> TRUE,
          prev |-> NoToml, new |-> NoToml, wroteAt |-> 0, seen |-> 0]

Active(r) == req[r].alive /\ req[r].pc \notin {"idle", "done"}

At(r, op, pc) == req[r].alive /\ req[r].pc = pc /\ req[r].op = op

Goto(r, pc) == req' = [req EXCEPT ![r].pc = pc]

Init ==
  /\ cm = InitialToml
  /\ annotation = 0
  /\ rolling = FALSE
  /\ rolledAt = 0
  /\ running = InitialToml
  /\ swap \in SwapAtStart
  /\ history = <<>>
  /\ lastApplied = 0
  /\ clock = 1
  /\ req = [r \in Requests |-> Fresh]

\* A call of one of the server functions, or a tick of the optimizer's timer.
\* The poller awaits run_once before its next tick, so ticks never overlap.
Arrive(r, op) ==
  /\ op \in Ops
  /\ req[r].pc = "idle"
  /\ clock < MaxClock
  /\ Overlap \/ \A q \in Requests : ~Active(q)
  /\ op = "tick" => \A q \in Requests : Active(q) => req[q].op # "tick"
  /\ UNCHANGED <<cm, cluster, history, lastApplied, clock>>

ArrivePause(r) ==
  /\ Arrive(r, "pause")
  /\ req' = [req EXCEPT ![r].op = "pause", ![r].pc = "check_paused"]

ArriveResume(r) ==
  /\ Arrive(r, "resume")
  /\ req' = [req EXCEPT ![r].op = "resume", ![r].pc = "load_pause"]

\* The form posts every field, with the values the page showed.
ArriveSave(r) ==
  /\ Arrive(r, "save")
  /\ \E form \in Forms :
       req' = [req EXCEPT ![r].op = "save", ![r].pc = "read_cm", ![r].new = form]

ArriveTick(r) ==
  /\ Arrive(r, "tick")
  /\ req' = [req EXCEPT ![r].op = "tick", ![r].pc = "check_paused"]

ArriveApply(r) ==
  /\ Arrive(r, "apply")
  /\ req' = [req EXCEPT ![r].op = "apply", ![r].pc = "recommend"]

\* Slip: the check is forgotten.
PauseTwice(r) ==
  /\ At(r, "pause", "check_paused")
  /\ Goto(r, "read_cm")
  /\ UNCHANGED <<cm, cluster, history, lastApplied, clock>>

\* pause refuses to pause twice.
PauseCheck(r) ==
  /\ At(r, "pause", "check_paused")
  /\ Goto(r, IF is_paused THEN "done" ELSE "read_cm")
  /\ UNCHANGED <<cm, cluster, history, lastApplied, clock>>

\* Slip: the wrong column of the pause row is restored.
ResumeLoadNew(r) ==
  /\ At(r, "resume", "load_pause")
  /\ \/ /\ ~ \E i \in DOMAIN history : IsLatestPause(i)
        /\ Goto(r, "done")
     \/ \E i \in DOMAIN history :
          /\ IsLatestPause(i)
          /\ req' = [req EXCEPT ![r].pc = "check_paused",
                                ![r].new = history[i].new_toml]
  /\ UNCHANGED <<cm, cluster, history, lastApplied, clock>>

\* resume first loads the newest pause row, whose previous_toml it will
\* write back ...
ResumeLoad(r) ==
  /\ At(r, "resume", "load_pause")
  /\ \/ /\ ~ \E i \in DOMAIN history : IsLatestPause(i)
        /\ Goto(r, "done")
     \/ \E i \in DOMAIN history :
          /\ IsLatestPause(i)
          /\ req' = [req EXCEPT ![r].pc = "check_paused",
                                ![r].new = history[i].previous_toml]
  /\ UNCHANGED <<cm, cluster, history, lastApplied, clock>>

\* ... and then asks whether the maker is paused at all.
ResumeCheck(r) ==
  /\ At(r, "resume", "check_paused")
  /\ Goto(r, IF is_paused THEN "read_cm" ELSE "done")
  /\ UNCHANGED <<cm, cluster, history, lastApplied, clock>>

\* Slip: run_once does not ask whether the maker is paused.
TickHeedless(r) ==
  /\ At(r, "tick", "check_paused")
  /\ req' = [req EXCEPT ![r].pc = "recommend", ![r].seen = Len(history)]
  /\ UNCHANGED <<cm, cluster, history, lastApplied, clock>>

\* run_once bails while the maker is paused; a failed query counts as "not
\* paused" (unwrap_or(false)).
TickCheckPaused(r) ==
  /\ At(r, "tick", "check_paused")
  /\ \/ is_paused /\ Goto(r, "done")
     \/ /\ ~is_paused \/ "read" \in Faults
        /\ req' = [req EXCEPT ![r].pc = "recommend", ![r].seen = Len(history)]
  /\ UNCHANGED <<cm, cluster, history, lastApplied, clock>>

\* A recommendation is computed and saved.  run_once stops here when
\* auto_apply is off or the change is below the noise floor.
TickRecommend(r) ==
  /\ At(r, "tick", "recommend")
  /\ \E pc \in {"done", "cooldown"} : Goto(r, pc)
  /\ UNCHANGED <<cm, cluster, history, lastApplied, clock>>

\* The "Apply now" button applies a fresh recommendation unconditionally.
ApplyRecommend(r) ==
  /\ At(r, "apply", "recommend")
  /\ Goto(r, "read_config")
  /\ UNCHANGED <<cm, cluster, history, lastApplied, clock>>

\* Slip: the last second of the cooldown does not count.
CoolingDownShort == lastApplied # 0 /\ clock - lastApplied < Cooldown - 1

CoolingDown == lastApplied # 0 /\ clock - lastApplied < Cooldown

TickCooldown(r) ==
  /\ At(r, "tick", "cooldown")
  /\ Goto(r, IF CoolingDown THEN "done" ELSE "in_flight")
  /\ UNCHANGED <<cm, cluster, history, lastApplied, clock>>

\* A failed get_swaps counts as "no swap in flight" (unwrap_or(false)).
TickInFlight(r) ==
  /\ At(r, "tick", "in_flight")
  /\ \/ swap /\ Goto(r, "done")
     \/ (~swap \/ "read" \in Faults) /\ Goto(r, "read_config")
  /\ UNCHANGED <<cm, cluster, history, lastApplied, clock>>

\* apply_recommendation takes the spread from the saved recommendation and
\* every other field from the configuration it reads.
ReadConfig(r) ==
  /\ \E op \in {"tick", "apply"} : At(r, op, "read_config")
  /\ \E recommended \in AskSpreads :
       req' = [req EXCEPT ![r].pc = "read_cm",
                          ![r].new = [cm EXCEPT !.ask_spread = recommended]]
  /\ UNCHANGED <<cm, cluster, history, lastApplied, clock>>

\* Slip: pause forgets to build the text it writes.
ReadCmOnly(r) ==
  /\ req[r].alive
  /\ req[r].pc = "read_cm"
  /\ req' = [req EXCEPT ![r].pc = "write_cm", ![r].prev = cm]
  /\ UNCHANGED <<cm, cluster, history, lastApplied, clock>>

\* The ConfigMap is read once more for the audit row.  write_config sets
\* every key its update carries, pause two keys of the text it read, resume
\* none.
ReadCm(r) ==
  /\ req[r].alive
  /\ req[r].pc = "read_cm"
  /\ req' = [req EXCEPT ![r].pc = "write_cm",
                        ![r].prev = cm,
                        ![r].new = IF req[r].op = "pause" THEN OffMarket(cm) ELSE @]
  /\ UNCHANGED <<cm, cluster, history, lastApplied, clock>>

WriteCm(r) ==
  /\ req[r].alive
  /\ req[r].pc = "write_cm"
  /\ cm' = req[r].new
  /\ req' = [req EXCEPT ![r].pc = "bump", ![r].wroteAt = clock]
  /\ UNCHANGED <<cluster, history, lastApplied, clock>>

\* Slip: the stamp is coarser than the time asb takes to roll.
BumpCoarse(r) ==
  /\ req[r].alive
  /\ req[r].pc = "bump"
  /\ \E stamp \in req[r].wroteAt \div 2 .. clock \div 2 :
       /\ annotation' = stamp
       /\ \/ stamp = annotation /\ UNCHANGED <<rolling, rolledAt>>
          \/ stamp # annotation /\ rolling' = TRUE /\ rolledAt' = clock
  /\ Goto(r, "insert")
  /\ UNCHANGED <<cm, running, swap, history, lastApplied, clock>>

\* The stamp is taken at some second between the ConfigMap write and the
\* patch.  A patch that leaves the pod template unchanged rolls nothing.
Bump(r) ==
  /\ req[r].alive
  /\ req[r].pc = "bump"
  /\ \E stamp \in req[r].wroteAt .. clock :
       /\ annotation' = stamp
       /\ \/ stamp = annotation /\ UNCHANGED <<rolling, rolledAt>>
          \/ stamp # annotation /\ rolling' = TRUE /\ rolledAt' = clock
  /\ Goto(r, "insert")
  /\ UNCHANGED <<cm, running, swap, history, lastApplied, clock>>

NotesOf(op) ==
  CASE op = "pause"  -> PAUSE_MARKER
    [] op = "resume" -> RESUME_MARKER
    [] OTHER         -> NoNotes

\* Slip: the two texts of the row are swapped.
InsertSwapped(r) ==
  /\ req[r].alive
  /\ req[r].pc = "insert"
  /\ history' = Append(history, [previous_toml |-> req[r].new,
                                 new_toml |-> req[r].prev,
                                 notes |-> NotesOf(req[r].op)])
  /\ req' = [req EXCEPT ![r].pc = IF req[r].op \in {"tick", "apply"}
                                    THEN "mark" ELSE "done",
                        ![r].prev = NoToml, ![r].new = NoToml]
  /\ UNCHANGED <<cm, cluster, lastApplied, clock>>

InsertHistory(r) ==
  /\ req[r].alive
  /\ req[r].pc = "insert"
  /\ history' = Append(history, [previous_toml |-> req[r].prev,
                                 new_toml |-> req[r].new,
                                 notes |-> NotesOf(req[r].op)])
  /\ req' = [req EXCEPT ![r].pc = IF req[r].op \in {"tick", "apply"}
                                    THEN "mark" ELSE "done",
                        ![r].prev = NoToml, ![r].new = NoToml]
  /\ UNCHANGED <<cm, cluster, lastApplied, clock>>

\* applied_at orders the applied rows, and time never runs backwards.
MarkApplied(r) ==
  /\ req[r].alive
  /\ req[r].pc = "mark"
  /\ lastApplied' = clock
  /\ Goto(r, "done")
  /\ UNCHANGED <<cm, cluster, history, clock>>

\* The handler ends where it is: what it did stays done, the rest is not.
Abort(r) ==
  /\ "handler" \in Faults
  /\ Active(r)
  /\ req' = [req EXCEPT ![r].alive = FALSE]
  /\ UNCHANGED <<cm, cluster, history, lastApplied, clock>>

Arrivals(r) ==
  ArrivePause(r) \/ ArriveResume(r) \/ ArriveSave(r) \/ ArriveTick(r) \/ ArriveApply(r)

\* The next stretch of an invocation in progress.
Step(r) ==
  \/ PauseCheck(r)
  \/ ResumeLoad(r)
  \/ ResumeCheck(r)
  \/ TickCheckPaused(r)
  \/ TickRecommend(r)
  \/ ApplyRecommend(r)
  \/ TickCooldown(r)
  \/ TickInFlight(r)
  \/ ReadConfig(r)
  \/ ReadCm(r)
  \/ WriteCm(r)
  \/ Bump(r)
  \/ InsertHistory(r)
  \/ MarkApplied(r)

-----------------------------------------------------------------------------
(* asb, its Deployment, takers and time: external                          *)

\* A replacement pod takes at least a second to come up ("~30-60s" in the
\* handlers' messages), and reads its configuration once.
StartPod ==
  /\ rolling
  /\ clock > rolledAt
  /\ running' = cm
  /\ rolling' = FALSE
  /\ UNCHANGED <<cm, annotation, rolledAt, swap, history, lastApplied, clock, req>>

PodRestarts ==
  /\ "pod" \in Faults
  /\ ~rolling
  /\ rolling' = TRUE
  /\ UNCHANGED <<cm, annotation, rolledAt, running, swap, history, lastApplied, clock, req>>

\* asb quotes a zero size while max_buy_btc is zero.
SwapStarts ==
  /\ Takers
  /\ ~swap
  /\ ~rolling
  /\ running.max_buy_btc # PauseBuy
  /\ swap' = TRUE
  /\ UNCHANGED <<cm, annotation, rolling, rolledAt, running, history, lastApplied, clock, req>>

SwapCompletes ==
  /\ swap
  /\ ~rolling
  /\ swap' = FALSE
  /\ UNCHANGED <<cm, annotation, rolling, rolledAt, running, history, lastApplied, clock, req>>

Quiet == \A r \in Requests : ~Active(r)

\* MaxClock is reached only when no handler is in progress, and none starts
\* then: the bound cuts no handler short and leaves asb time to roll.
Elapse ==
  /\ clock < MaxClock
  /\ clock + 1 = MaxClock => Quiet
  /\ clock' = clock + 1
  /\ UNCHANGED <<cm, cluster, history, lastApplied, req>>

\* Nothing is left to do within the bounds.
Finished ==
  /\ clock = MaxClock
  /\ Quiet
  /\ ~rolling
  /\ UNCHANGED vars

Next ==
  \/ \E r \in Requests : Arrivals(r) \/ Step(r) \/ Abort(r)
  \/ StartPod
  \/ PodRestarts
  \/ SwapStarts
  \/ SwapCompletes
  \/ Elapse
  \/ Finished

Spec == Init /\ [][Next]_vars

\* The executor runs a handler on when its await completes, Kubernetes
\* replaces a pod it took down, and time passes.  Nobody has to call anything.
Fairness ==
  /\ \A r \in Requests : WF_vars(Step(r))
  /\ WF_vars(StartPod)
  /\ WF_vars(Elapse)

FairSpec == Spec /\ Fairness

\* Every swap ends: redeemed, refunded or punished once its timelocks expire.
DrainSpec == FairSpec /\ WF_vars(SwapCompletes)

-----------------------------------------------------------------------------
(* Properties                                                              *)

TypeOK ==
  /\ cm \in Toml
  /\ annotation \in Nat
  /\ rolling \in BOOLEAN
  /\ rolledAt \in Nat
  /\ running \in Toml
  /\ swap \in BOOLEAN
  /\ history \in Seq(Row)
  /\ lastApplied \in Nat
  /\ clock \in Nat
  /\ req \in [Requests -> Request]

\* An asb that is up and runs something else than the ConfigMap says is
\* always the doing of a handler that wrote the ConfigMap after asb started
\* and has not patched the Deployment: it is about to, or it was cut short
\* there and told its caller so.  In particular a patch never goes unnoticed
\* because two stamps fall into the same second (maker.rs:119-122).
StaleAsbAccounted ==
  running # cm /\ ~rolling =>
    \E r \in Requests : req[r].pc = "bump" /\ req[r].wroteAt > annotation

\* The audit trail explains the ConfigMap: its content was there at the start,
\* is the new_toml of a row, or was written by a handler that has not reached
\* its audit row, however handlers interleave (maker.rs:116-133).
ConfigAudited ==
  \/ cm = InitialToml
  \/ \E i \in DOMAIN history : history[i].new_toml = cm
  \/ \E r \in Requests : req[r].pc \in {"bump", "insert"} /\ req[r].new = cm

\* What a handler holds when it is at an await: the texts it is going to use
\* have been read, and its ConfigMap write lies in the past.
LocalsRead ==
  \A r \in Requests :
    /\ req[r].pc \in {"write_cm", "bump", "insert"} =>
         req[r].prev \in Toml /\ req[r].new \in Toml
    /\ req[r].pc = "read_cm" /\ req[r].op # "pause" => req[r].new \in Toml
    /\ req[r].pc = "check_paused" /\ req[r].op = "resume" => req[r].new \in Toml
    /\ req[r].wroteAt <= clock

\* The annotation is never younger than the last rollout, and asb comes up
\* only in a later second.
RolloutsInThePast ==
  /\ annotation <= rolledAt
  /\ rolledAt <= clock
  /\ ~rolling => rolledAt < clock

\* The inductive invariant behind TypeOK and StaleAsbAccounted.
MakerInv ==
  /\ TypeOK
  /\ LocalsRead
  /\ RolloutsInThePast
  /\ StaleAsbAccounted

\* Pause and resume rows alternate, whatever edits lie between them: pause
\* refuses a paused maker (maker.rs:191), resume one that is not (:263).
PauseResumeAlternate ==
  \A i, j \in DOMAIN history :
    /\ i < j
    /\ history[i].notes = history[j].notes
    /\ history[i].notes # NoNotes
    => \E k \in i + 1 .. j - 1 : history[k].notes \notin {history[i].notes, NoNotes}

\* Resume never puts the maker back off-market: what it restores is a
\* configuration that was live before the pause (maker.rs:236-238, 267-269).
\* It holds for handlers one after the other that run to their ends; the run
\* maker_retried_pause shows what a pause that is cut short makes of it.
ResumeRestoresLive ==
  \A i \in DOMAIN history :
    history[i].notes = RESUME_MARKER =>
      /\ history[i].new_toml.ask_spread # PauseSpread
      /\ history[i].new_toml.max_buy_btc # PauseBuy

\* The optimizer writes the ConfigMap of a paused maker only if the pause was
\* completed while the tick ran, after it had asked for the pause state: a
\* pause that was in force before the tick began is left alone whatever
\* pauses, resumes and applies overlap with it
\* (pollers/spread_optimizer.rs:29-37).
OldPausesRespected ==
  [][\A r \in Requests :
       /\ req[r].op = "tick" /\ req[r].pc = "write_cm" /\ req'[r].pc = "bump"
       /\ is_paused
       => \E i \in DOMAIN history : i > req[r].seen /\ history[i].notes = PAUSE_MARKER]_vars

\* The optimizer does not write the ConfigMap of a paused maker
\* (pollers/spread_optimizer.rs:29, "don't fight the operator's intentional
\* pause"): the run maker_pause_undone shows that it does.
AutoApplyRespectsPause ==
  [][\A r \in Requests :
       req[r].op = "tick" /\ req[r].pc = "write_cm" /\ req'[r].pc = "bump"
         => ~is_paused]_vars

\* Two automatic applies write the ConfigMap at least cooldown_seconds apart,
\* whatever lies between them, unless the earlier one was cut short before it
\* set its mark, which is what the later one looks for
\* (pollers/spread_optimizer.rs:64-75, spread_optimizer.rs:363-389).
CooldownRespected ==
  \A r, q \in Requests :
    /\ r # q
    /\ req[r].op = "tick" /\ req[r].wroteAt # 0
    /\ req[q].op = "tick" /\ req[q].wroteAt # 0
    /\ req[q].alive
    /\ req[q].wroteAt < req[r].wroteAt \/ req[r].alive
    => \/ req[r].wroteAt - req[q].wroteAt >= Cooldown
       \/ req[q].wroteAt - req[r].wroteAt >= Cooldown

\* Every configuration that reaches the ConfigMap is in force at asb unless
\* another one replaces it first, and asb does settle on the last one
\* (maker.rs:135-138, "asb pod will roll").
AsbConverges == <>[](running = cm)

\* Pausing makes the wallet quiet: once the maker stays paused, and nobody
\* edits the off-market configuration, the swaps in flight end and no new one
\* starts (docs/RECYCLE.md, Step 1).
PauseDrains == <>[](is_paused /\ cm = OffMarket(cm)) => <>[]~swap
=============================================================================
