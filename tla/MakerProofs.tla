---------------------------- MODULE MakerProofs ----------------------------
(***************************************************************************)
(* Theorems about Maker, for every set of requests, every bound on time    *)
(* and every combination of overlap, takers and faults; those about serial *)
(* handlers and about ticks name what they exclude.  What asb eventually  *)
(* does is proved assuming that the fair steps are possible where their    *)
(* guards hold (AsbGoesOn).                                                *)
(***************************************************************************)
EXTENDS MakerRefinement, TLAPS

\* The texts the handlers derive are TOML texts ...
LEMMA DerivedToml ==
  ASSUME NEW toml \in Toml, NEW recommended \in AskSpreads
  PROVE  /\ OffMarket(toml) \in Toml
         /\ [toml EXCEPT !.ask_spread = recommended] \in Toml
  BY DEF OffMarket, Toml

\* ... and a row's note is one of the three the code writes.
LEMMA NotesInRow ==
  ASSUME NEW op
  PROVE  NotesOf(op) \in {PAUSE_MARKER, RESUME_MARKER, NoNotes}
  BY DEF NotesOf

\* No handler has been invoked at the start.
LEMMA AtRest ==
  Init => \A r \in Requests : /\ req[r].alive /\ req[r].op = "none"
                              /\ req[r].pc = "idle" /\ req[r].wroteAt = 0
  <1>1. Fresh.alive
    BY Zenon DEF Fresh
  <1>2. Fresh.op = "none" /\ Fresh.pc = "idle" /\ Fresh.wroteAt = 0
    BY DEF Fresh
  <1>3. Init => \A r \in Requests : req[r] = Fresh
    BY Zenon DEF Init
  <1> QED
    BY <1>1, <1>2, <1>3

\* The state the console starts in satisfies the invariant.
LEMMA InitMakerInv == Init => MakerInv
  <1> SUFFICES ASSUME Init PROVE MakerInv
    OBVIOUS
  <1> USE MakerAssumption
  <1>1. TypeOK
    <2>1. Fresh \in Request
      BY DEF Fresh, Request, PCs
    <2>2. history \in Seq(Row)
      BY DEF Init
    <2> QED
      BY <2>1, <2>2 DEF Init, TypeOK
  <1>2. LocalsRead
    <2>1. Fresh.pc = "idle" /\ Fresh.wroteAt = 0
      BY DEF Fresh
    <2>2. clock = 1 /\ \A r \in Requests : req[r] = Fresh
      BY DEF Init
    <2>3. ASSUME NEW r \in Requests
          PROVE  req[r].pc = "idle" /\ req[r].wroteAt <= clock
      BY <2>1, <2>2
    <2> QED
      BY <2>3 DEF LocalsRead
  <1>3. RolloutsInThePast
    BY DEF Init, RolloutsInThePast
  <1>4. StaleAsbAccounted
    BY DEF Init, StaleAsbAccounted
  <1> QED
    BY <1>1, <1>2, <1>3, <1>4 DEF MakerInv

\* A handler that only moves on to another await, with the locals it then
\* holds, disturbs nothing else.
LEMMA LocalStep ==
  ASSUME MakerInv, NEW r \in Requests, NEW next \in Request,
         UNCHANGED <<cm, cluster, history, lastApplied, clock>>,
         req' = [req EXCEPT ![r] = next],
         next.wroteAt = req[r].wroteAt,
         req[r].pc = "bump" => next.pc = "bump",
         next.pc = "bump" => next.prev \in Toml /\ next.new \in Toml,
         next.pc \in {"write_cm", "insert"} => next.prev \in Toml /\ next.new \in Toml,
         next.pc = "read_cm" /\ next.op # "pause" => next.new \in Toml,
         next.pc = "check_paused" /\ next.op = "resume" => next.new \in Toml
  PROVE  MakerInv'
  <1>1. TypeOK'
    BY DEF MakerInv, TypeOK, cluster
  <1>2. LocalsRead'
    BY DEF MakerInv, TypeOK, LocalsRead, Request
  <1>3. RolloutsInThePast'
    BY DEF MakerInv, RolloutsInThePast, cluster
  <1>4. StaleAsbAccounted'
    <2> SUFFICES ASSUME running # cm, ~rolling
                 PROVE  \E q \in Requests : req'[q].pc = "bump" /\ req'[q].wroteAt > annotation
      BY DEF StaleAsbAccounted, cluster
    <2>1. PICK q \in Requests : req[q].pc = "bump" /\ req[q].wroteAt > annotation
      BY DEF MakerInv, StaleAsbAccounted
    <2>2. req'[q].pc = "bump" /\ req'[q].wroteAt = req[q].wroteAt
      BY <2>1 DEF MakerInv, TypeOK
    <2> QED
      BY <2>1, <2>2
  <1> QED
    BY <1>1, <1>2, <1>3, <1>4 DEF MakerInv

\* Moving on without new locals.
LEMMA GotoStep ==
  ASSUME MakerInv, NEW r \in Requests, NEW pc \in PCs, Goto(r, pc),
         UNCHANGED <<cm, cluster, history, lastApplied, clock>>,
         req[r].pc # "bump",
         pc \notin {"write_cm", "bump", "insert", "check_paused"},
         pc = "read_cm" /\ req[r].op # "pause" => req[r].new \in Toml
  PROVE  MakerInv'
  <1> DEFINE next == [req[r] EXCEPT !.pc = pc]
  <1>1. req[r] \in Request
    BY DEF MakerInv, TypeOK
  <1>2. /\ next \in Request
        /\ next.pc = pc /\ next.op = req[r].op /\ next.new = req[r].new
        /\ next.wroteAt = req[r].wroteAt
    BY <1>1 DEF Request
  <1>3. req' = [req EXCEPT ![r] = next]
    BY DEF Goto
  <1> QED
    BY <1>2, <1>3, LocalStep

\* A new invocation holds nothing but, for an edit, the submitted form.
LEMMA ArrivalsStep ==
  ASSUME MakerInv, NEW r \in Requests, Arrivals(r)
  PROVE  MakerInv'
  <1>1. req[r] \in Request /\ req[r].pc = "idle"
    BY DEF MakerInv, TypeOK, Arrivals, ArrivePause, ArriveResume, ArriveSave,
           ArriveTick, ArriveApply, Arrive
  <1>2. UNCHANGED <<cm, cluster, history, lastApplied, clock>>
    BY DEF Arrivals, ArrivePause, ArriveResume, ArriveSave, ArriveTick,
           ArriveApply, Arrive
  <1>3. CASE ArriveResume(r)
    <2> DEFINE next == [req[r] EXCEPT !.op = "resume", !.pc = "load_pause"]
    <2>1. next \in Request /\ next.pc = "load_pause" /\ next.wroteAt = req[r].wroteAt
      BY <1>1 DEF Request, AllOps, PCs
    <2>2. req' = [req EXCEPT ![r] = next]
      BY <1>3 DEF ArriveResume
    <2> QED
      BY <1>1, <1>2, <2>1, <2>2, LocalStep
  <1>4. CASE ArriveSave(r)
    <2>1. PICK form \in Forms :
            req' = [req EXCEPT ![r].op = "save", ![r].pc = "read_cm", ![r].new = form]
      BY <1>4 DEF ArriveSave
    <2> DEFINE next == [req[r] EXCEPT !.op = "save", !.pc = "read_cm", !.new = form]
    <2>2. form \in Toml
      BY MakerAssumption
    <2>3. /\ next \in Request /\ next.pc = "read_cm" /\ next.new = form
          /\ next.wroteAt = req[r].wroteAt
      BY <1>1, <2>2 DEF Request, AllOps, PCs
    <2>4. req' = [req EXCEPT ![r] = next]
      BY <2>1
    <2> QED
      BY <1>1, <1>2, <2>2, <2>3, <2>4, LocalStep
  <1>5. ASSUME NEW op \in {"pause", "tick", "apply"},
               NEW pc \in {"check_paused", "recommend"},
               req' = [req EXCEPT ![r].op = op, ![r].pc = pc]
        PROVE  MakerInv'
    <2> DEFINE next == [req[r] EXCEPT !.op = op, !.pc = pc]
    <2>1. /\ next \in Request /\ next.pc = pc /\ next.op = op
          /\ next.wroteAt = req[r].wroteAt
      BY <1>1 DEF Request, AllOps, PCs
    <2>2. req' = [req EXCEPT ![r] = next]
      BY <1>5
    <2> QED
      BY <1>1, <1>2, <2>1, <2>2, LocalStep
  <1>6. CASE ArrivePause(r)
    BY <1>5, <1>6 DEF ArrivePause
  <1>7. CASE ArriveTick(r)
    BY <1>5, <1>7 DEF ArriveTick
  <1>8. CASE ArriveApply(r)
    BY <1>5, <1>8 DEF ArriveApply
  <1> QED
    BY <1>3, <1>4, <1>6, <1>7, <1>8 DEF Arrivals

\* The checks of pause, resume and run_once, up to the point where the text
\* to write is known.
LEMMA ChecksStep ==
  ASSUME MakerInv, NEW r \in Requests,
         \/ PauseCheck(r) \/ ResumeCheck(r) \/ TickCheckPaused(r)
         \/ TickRecommend(r) \/ ApplyRecommend(r) \/ TickCooldown(r)
         \/ TickInFlight(r)
  PROVE  MakerInv'
  <1> USE DEF At, PCs
  <1>1. CASE PauseCheck(r)
    BY <1>1, GotoStep DEF PauseCheck
  <1>2. CASE ResumeCheck(r)
    <2>1. req[r].new \in Toml
      BY <1>2 DEF MakerInv, LocalsRead, ResumeCheck
    <2> QED
      BY <1>2, <2>1, GotoStep DEF ResumeCheck
  <1>3. CASE TickCheckPaused(r)
    <2>1. CASE Goto(r, "done")
      BY <1>3, <2>1, GotoStep DEF TickCheckPaused
    <2>2. CASE req' = [req EXCEPT ![r].pc = "recommend", ![r].seen = Len(history)]
      <3> DEFINE next == [req[r] EXCEPT !.pc = "recommend", !.seen = Len(history)]
      <3>1. req[r] \in Request /\ Len(history) \in Nat
        BY DEF MakerInv, TypeOK
      <3>2. next \in Request /\ next.pc = "recommend" /\ next.wroteAt = req[r].wroteAt
        BY <3>1 DEF Request
      <3>3. req' = [req EXCEPT ![r] = next] /\ req[r].pc = "check_paused"
        BY <1>3, <2>2 DEF TickCheckPaused
      <3> QED
        BY <1>3, <3>2, <3>3, LocalStep DEF TickCheckPaused
    <2> QED
      BY <1>3, <2>1, <2>2 DEF TickCheckPaused
  <1>4. CASE TickRecommend(r)
    BY <1>4, GotoStep DEF TickRecommend
  <1>5. CASE ApplyRecommend(r)
    BY <1>5, GotoStep DEF ApplyRecommend
  <1>6. CASE TickCooldown(r)
    BY <1>6, GotoStep DEF TickCooldown
  <1>7. CASE TickInFlight(r)
    BY <1>7, GotoStep DEF TickInFlight
  <1> QED
    BY <1>1, <1>2, <1>3, <1>4, <1>5, <1>6, <1>7

\* The steps that read a text: the stash, the configuration, the ConfigMap.
LEMMA ReadsStep ==
  ASSUME MakerInv, NEW r \in Requests, ResumeLoad(r) \/ ReadConfig(r) \/ ReadCm(r)
  PROVE  MakerInv'
  <1>0. req[r] \in Request /\ cm \in Toml /\ history \in Seq(Row)
    BY DEF MakerInv, TypeOK
  <1>1. CASE ResumeLoad(r)
    <2>1. CASE Goto(r, "done")
      BY <1>1, <2>1, GotoStep DEF ResumeLoad, At, PCs
    <2>2. CASE ~ Goto(r, "done")
      <3>1. PICK i \in DOMAIN history :
              req' = [req EXCEPT ![r].pc = "check_paused",
                                 ![r].new = history[i].previous_toml]
        BY <1>1, <2>2 DEF ResumeLoad
      <3> DEFINE stash == history[i].previous_toml
                 next == [req[r] EXCEPT !.pc = "check_paused", !.new = stash]
      <3>2. stash \in Toml
        <4>1. i \in 1 .. Len(history)
          BY <1>0, <3>1
        <4>2. history[i] \in Row
          BY <1>0, <4>1
        <4> QED
          BY <4>2 DEF Row
      <3> HIDE DEF stash
      <3>3. /\ next \in Request /\ next.pc = "check_paused" /\ next.new = stash
            /\ next.wroteAt = req[r].wroteAt
        BY <1>0, <3>2 DEF Request, PCs
      <3>4. req' = [req EXCEPT ![r] = next]
        BY <3>1 DEF stash
      <3> QED
        BY <1>1, <3>2, <3>3, <3>4, LocalStep DEF ResumeLoad, At
    <2> QED
      BY <2>1, <2>2
  <1>2. CASE ReadConfig(r)
    <2>1. PICK recommended \in AskSpreads :
            req' = [req EXCEPT ![r].pc = "read_cm",
                               ![r].new = [cm EXCEPT !.ask_spread = recommended]]
      BY <1>2 DEF ReadConfig
    <2> DEFINE text == [cm EXCEPT !.ask_spread = recommended]
               next == [req[r] EXCEPT !.pc = "read_cm", !.new = text]
    <2>2. text \in Toml
      BY <1>0, DerivedToml
    <2>3. req' = [req EXCEPT ![r] = next]
      BY <2>1
    <2> HIDE DEF text
    <2>4. /\ next \in Request /\ next.pc = "read_cm" /\ next.new = text
          /\ next.wroteAt = req[r].wroteAt
      BY <1>0, <2>2 DEF Request, PCs
    <2> QED
      BY <1>2, <2>2, <2>3, <2>4, LocalStep DEF ReadConfig, At
  <1>3. CASE ReadCm(r)
    <2> DEFINE text == IF req[r].op = "pause" THEN OffMarket(cm) ELSE req[r].new
               next == [req[r] EXCEPT !.pc = "write_cm", !.prev = cm, !.new = text]
    <2>1. text \in Toml
      <3>1. CASE req[r].op = "pause"
        <4>1. OffMarket(cm) \in Toml
          BY <1>0 DEF OffMarket, Toml
        <4> QED
          BY <3>1, <4>1
      <3>2. CASE req[r].op # "pause"
        BY <1>3, <3>2 DEF MakerInv, LocalsRead, ReadCm
      <3> QED
        BY <3>1, <3>2
    <2>2. req' = [req EXCEPT ![r] = next]
      BY <1>3 DEF ReadCm
    <2> HIDE DEF text
    <2>3. /\ next \in Request /\ next.pc = "write_cm" /\ next.new = text
          /\ next.prev = cm /\ next.wroteAt = req[r].wroteAt
      BY <1>0, <2>1 DEF Request, PCs
    <2>4. req[r].pc = "read_cm" /\ UNCHANGED <<cm, cluster, history, lastApplied, clock>>
      BY <1>3 DEF ReadCm
    <2> HIDE DEF next
    <2> QED
      BY <1>0, <2>1, <2>2, <2>3, <2>4, LocalStep
  <1> QED
    BY <1>1, <1>2, <1>3

\* The ConfigMap write makes its author the handler that accounts for a
\* stale asb: an asb that is up came up in an earlier second.
LEMMA WriteCmStep ==
  ASSUME MakerInv, NEW r \in Requests, WriteCm(r)
  PROVE  MakerInv'
  <1>1. /\ req[r] \in Request /\ req[r].pc = "write_cm"
        /\ req[r].prev \in Toml /\ req[r].new \in Toml
        /\ clock \in Nat
    BY DEF MakerInv, TypeOK, LocalsRead, WriteCm
  <1> DEFINE next == [req[r] EXCEPT !.pc = "bump", !.wroteAt = clock]
  <1>2. /\ next \in Request /\ next.pc = "bump" /\ next.wroteAt = clock
        /\ next.prev = req[r].prev /\ next.new = req[r].new
    BY <1>1 DEF Request, PCs
  <1>3. /\ cm' = req[r].new
        /\ req' = [req EXCEPT ![r] = next]
        /\ UNCHANGED <<cluster, history, lastApplied, clock>>
    BY DEF WriteCm
  <1> HIDE DEF next
  <1>4. TypeOK'
    BY <1>1, <1>2, <1>3 DEF MakerInv, TypeOK, cluster
  <1>5. LocalsRead'
    BY <1>1, <1>2, <1>3 DEF MakerInv, TypeOK, LocalsRead
  <1>6. RolloutsInThePast'
    BY <1>3 DEF MakerInv, RolloutsInThePast, cluster
  <1>7. StaleAsbAccounted'
    <2> SUFFICES ASSUME ~rolling
                 PROVE  \E q \in Requests : req'[q].pc = "bump" /\ req'[q].wroteAt > annotation
      BY <1>3 DEF StaleAsbAccounted, cluster
    <2>1. req'[r].pc = "bump" /\ req'[r].wroteAt = clock
      BY <1>2, <1>3 DEF MakerInv, TypeOK
    <2>2. clock > annotation
      BY DEF MakerInv, TypeOK, RolloutsInThePast
    <2> QED
      BY <2>1, <2>2
  <1> QED
    BY <1>4, <1>5, <1>6, <1>7 DEF MakerInv

\* A patch either rolls asb or, its stamp being the annotation already,
\* belongs to a handler that accounts for nothing.
LEMMA BumpStep ==
  ASSUME MakerInv, NEW r \in Requests, Bump(r)
  PROVE  MakerInv'
  <1>1. PICK stamp \in req[r].wroteAt .. clock :
          /\ annotation' = stamp
          /\ \/ stamp = annotation /\ UNCHANGED <<rolling, rolledAt>>
             \/ stamp # annotation /\ rolling' = TRUE /\ rolledAt' = clock
    BY DEF Bump
  <1>2. /\ req[r] \in Request /\ req[r].pc = "bump"
        /\ req[r].prev \in Toml /\ req[r].new \in Toml
        /\ clock \in Nat /\ req[r].wroteAt \in Nat /\ req[r].wroteAt <= clock
    BY DEF MakerInv, TypeOK, LocalsRead, Bump, Request
  <1> DEFINE next == [req[r] EXCEPT !.pc = "insert"]
  <1>3. /\ next \in Request /\ next.pc = "insert" /\ next.wroteAt = req[r].wroteAt
        /\ next.prev = req[r].prev /\ next.new = req[r].new
    BY <1>2 DEF Request, PCs
  <1>4. /\ req' = [req EXCEPT ![r] = next]
        /\ UNCHANGED <<cm, running, swap, history, lastApplied, clock>>
    BY DEF Bump, Goto
  <1> HIDE DEF next
  <1>5. stamp \in Nat /\ req[r].wroteAt <= stamp /\ stamp <= clock
    BY <1>1, <1>2
  <1>6. TypeOK'
    BY <1>1, <1>2, <1>3, <1>4, <1>5 DEF MakerInv, TypeOK
  <1>7. LocalsRead'
    BY <1>2, <1>3, <1>4 DEF MakerInv, TypeOK, LocalsRead
  <1>8. RolloutsInThePast'
    BY <1>1, <1>4, <1>5 DEF MakerInv, TypeOK, RolloutsInThePast
  <1>9. StaleAsbAccounted'
    <2> SUFFICES ASSUME running # cm, ~rolling'
                 PROVE  \E q \in Requests : req'[q].pc = "bump" /\ req'[q].wroteAt > annotation'
      BY <1>4 DEF StaleAsbAccounted
    <2>1. stamp = annotation /\ annotation' = annotation /\ ~rolling
      BY <1>1
    <2>2. PICK q \in Requests : req[q].pc = "bump" /\ req[q].wroteAt > annotation
      BY <2>1 DEF MakerInv, StaleAsbAccounted
    <2>3. q # r
      BY <1>2, <1>5, <2>1, <2>2
    <2>4. req'[q] = req[q]
      BY <1>4, <2>3 DEF MakerInv, TypeOK
    <2> QED
      BY <2>1, <2>2, <2>4
  <1> QED
    BY <1>6, <1>7, <1>8, <1>9 DEF MakerInv

\* Recording what was done touches neither the cluster nor a pending patch.
LEMMA RecordStep ==
  ASSUME MakerInv, NEW r \in Requests, InsertHistory(r) \/ MarkApplied(r)
  PROVE  MakerInv'
  <1>1. /\ req[r] \in Request /\ req[r].pc \in {"insert", "mark"}
        /\ history \in Seq(Row) /\ clock \in Nat
    BY DEF MakerInv, TypeOK, InsertHistory, MarkApplied
  <1>2. PICK next \in Request :
          /\ req' = [req EXCEPT ![r] = next]
          /\ next.pc \in {"mark", "done"}
          /\ next.wroteAt = req[r].wroteAt
    <2>1. CASE InsertHistory(r)
      <3> DEFINE pc == IF req[r].op \in {"tick", "apply"} THEN "mark" ELSE "done"
                 next == [req[r] EXCEPT !.pc = pc, !.prev = NoToml, !.new = NoToml]
      <3>1. pc \in {"mark", "done"}
        OBVIOUS
      <3>2. req' = [req EXCEPT ![r] = next]
        BY <2>1 DEF InsertHistory
      <3> HIDE DEF pc
      <3>3. next \in Request /\ next.pc = pc /\ next.wroteAt = req[r].wroteAt
        BY <1>1, <3>1 DEF Request, PCs
      <3> QED
        BY <3>1, <3>2, <3>3
    <2>2. CASE MarkApplied(r)
      <3> DEFINE next == [req[r] EXCEPT !.pc = "done"]
      <3>1. next \in Request /\ next.pc = "done" /\ next.wroteAt = req[r].wroteAt
        BY <1>1 DEF Request, PCs
      <3>2. req' = [req EXCEPT ![r] = next]
        BY <2>2 DEF MarkApplied, Goto
      <3> QED
        BY <3>1, <3>2
    <2> QED
      BY <2>1, <2>2
  <1>3. UNCHANGED <<cm, cluster, clock>>
    BY DEF InsertHistory, MarkApplied
  <1>4. history' \in Seq(Row) /\ lastApplied' \in Nat
    <2>1. CASE InsertHistory(r)
      <3> DEFINE row == [previous_toml |-> req[r].prev, new_toml |-> req[r].new,
                         notes |-> NotesOf(req[r].op)]
      <3>1. req[r].prev \in Toml /\ req[r].new \in Toml
        BY <2>1 DEF MakerInv, LocalsRead, InsertHistory
      <3>2. row \in Row
        BY <3>1, NotesInRow DEF Row
      <3> HIDE DEF row
      <3>3. history' = Append(history, row) /\ lastApplied' = lastApplied
        BY <2>1 DEF InsertHistory, row
      <3> QED
        BY <1>1, <3>2, <3>3 DEF MakerInv, TypeOK
    <2>2. CASE MarkApplied(r)
      BY <1>1, <2>2 DEF MarkApplied
    <2> QED
      BY <2>1, <2>2
  <1>5. TypeOK'
    BY <1>2, <1>3, <1>4 DEF MakerInv, TypeOK, cluster
  <1>6. LocalsRead'
    BY <1>2, <1>3 DEF MakerInv, TypeOK, LocalsRead
  <1>7. RolloutsInThePast'
    BY <1>3 DEF MakerInv, RolloutsInThePast, cluster
  <1>8. StaleAsbAccounted'
    <2> SUFFICES ASSUME running # cm, ~rolling
                 PROVE  \E q \in Requests : req'[q].pc = "bump" /\ req'[q].wroteAt > annotation
      BY <1>3 DEF StaleAsbAccounted, cluster
    <2>1. PICK q \in Requests : req[q].pc = "bump" /\ req[q].wroteAt > annotation
      BY DEF MakerInv, StaleAsbAccounted
    <2>2. req'[q] = req[q]
      BY <1>1, <1>2, <2>1 DEF MakerInv, TypeOK
    <2> QED
      BY <2>1, <2>2
  <1> QED
    BY <1>5, <1>6, <1>7, <1>8 DEF MakerInv

\* A handler that is cut short keeps its place and its locals.
LEMMA AbortStep ==
  ASSUME MakerInv, NEW r \in Requests, Abort(r)
  PROVE  MakerInv'
  <1> DEFINE next == [req[r] EXCEPT !.alive = FALSE]
  <1>1. req[r] \in Request
    BY DEF MakerInv, TypeOK
  <1>2. /\ next \in Request
        /\ next.pc = req[r].pc /\ next.op = req[r].op /\ next.prev = req[r].prev
        /\ next.new = req[r].new /\ next.wroteAt = req[r].wroteAt
    BY <1>1 DEF Request
  <1>3. /\ req' = [req EXCEPT ![r] = next]
        /\ UNCHANGED <<cm, cluster, history, lastApplied, clock>>
    BY DEF Abort
  <1> HIDE DEF next
  <1> QED
    BY <1>2, <1>3, LocalStep DEF MakerInv, LocalsRead

\* asb, its takers and time.
LEMMA EnvironmentStep ==
  ASSUME MakerInv, StartPod \/ PodRestarts \/ SwapStarts \/ SwapCompletes \/ Elapse \/ Finished
  PROVE  MakerInv'
  <1>1. TypeOK'
    <2>1. CASE StartPod
      BY <2>1 DEF MakerInv, TypeOK, StartPod
    <2>2. CASE PodRestarts
      BY <2>2 DEF MakerInv, TypeOK, PodRestarts
    <2>3. CASE SwapStarts
      BY <2>3 DEF MakerInv, TypeOK, SwapStarts
    <2>4. CASE SwapCompletes
      BY <2>4 DEF MakerInv, TypeOK, SwapCompletes
    <2>5. CASE Elapse
      BY <2>5 DEF MakerInv, TypeOK, Elapse, cluster
    <2>6. CASE Finished
      BY <2>6 DEF MakerInv, TypeOK, Finished, vars
    <2> QED
      BY <2>1, <2>2, <2>3, <2>4, <2>5, <2>6
  <1>2. LocalsRead'
    <2>1. req' = req /\ clock' \in Nat /\ clock <= clock'
      BY DEF MakerInv, TypeOK, StartPod, PodRestarts, SwapStarts, SwapCompletes,
             Elapse, Finished, vars
    <2>2. \A r \in Requests : req[r].wroteAt \in Nat
      BY DEF MakerInv, TypeOK, Request
    <2> QED
      BY <2>1, <2>2 DEF MakerInv, TypeOK, LocalsRead
  <1>3. RolloutsInThePast'
    BY DEF MakerInv, TypeOK, RolloutsInThePast, StartPod, PodRestarts, SwapStarts,
           SwapCompletes, Elapse, Finished, vars, cluster
  <1>4. StaleAsbAccounted'
    BY DEF MakerInv, StaleAsbAccounted, StartPod, PodRestarts, SwapStarts,
           SwapCompletes, Elapse, Finished, vars, cluster
  <1> QED
    BY <1>1, <1>2, <1>3, <1>4 DEF MakerInv

\* Every step keeps the invariant.
LEMMA NextMakerInv == MakerInv /\ [Next]_vars => MakerInv'
  <1> SUFFICES ASSUME MakerInv, [Next]_vars PROVE MakerInv'
    OBVIOUS
  <1>1. ASSUME NEW r \in Requests, Step(r) PROVE MakerInv'
    BY <1>1, ChecksStep, ReadsStep, WriteCmStep, BumpStep, RecordStep DEF Step
  <1>2. CASE UNCHANGED vars
    BY <1>2 DEF vars, MakerInv, TypeOK, LocalsRead, RolloutsInThePast, StaleAsbAccounted
  <1> QED
    BY <1>1, <1>2, ArrivalsStep, AbortStep, EnvironmentStep DEF Next

\* The inductive invariant holds in every reachable state.
THEOREM MakerInvariant == Spec => []MakerInv
  BY InitMakerInv, NextMakerInv, PTL DEF Spec

\* Every variable keeps its type: no handler writes a text it has not read
\* or built (maker.rs:74-299).
THEOREM MakerTypeCorrect == Spec => []TypeOK
  BY MakerInvariant, PTL DEF MakerInv

\* An asb that is up with another configuration than the ConfigMap's is
\* always accounted for by a handler that has written and not patched,
\* whatever overlaps or fails (maker.rs:116-122, 212-216, 279-283).
THEOREM MakerStaleAsbAccounted == Spec => []StaleAsbAccounted
  BY MakerInvariant, PTL DEF MakerInv

\* Only WriteCm and InsertHistory bear on the audit trail: any other step
\* leaves the ConfigMap, the rows and the texts waiting for their row alone.
LEMMA AuditUndisturbed ==
  ASSUME MakerInv, ConfigAudited,
         UNCHANGED <<cm, history>>,
         \A q \in Requests : req[q].pc \in {"bump", "insert"} =>
           req'[q].pc \in {"bump", "insert"} /\ req'[q].new = req[q].new
  PROVE  ConfigAudited'
  BY DEF ConfigAudited

\* A text leaves its author only for the ConfigMap or for a row.
LEMMA AuditedStep == MakerInv /\ ConfigAudited /\ [Next]_vars => ConfigAudited'
  <1> SUFFICES ASSUME MakerInv, ConfigAudited, [Next]_vars PROVE ConfigAudited'
    OBVIOUS
  <1>0. req \in [Requests -> Request] /\ history \in Seq(Row)
    BY DEF MakerInv, TypeOK
  <1>1. ASSUME NEW r \in Requests, WriteCm(r) PROVE ConfigAudited'
    <2>1. req'[r].pc = "bump" /\ req'[r].new = req[r].new /\ cm' = req[r].new
      BY <1>0, <1>1 DEF WriteCm, Request
    <2> QED
      BY <2>1 DEF ConfigAudited
  <1>2. ASSUME NEW r \in Requests, InsertHistory(r) PROVE ConfigAudited'
    <2> DEFINE row == [previous_toml |-> req[r].prev, new_toml |-> req[r].new,
                       notes |-> NotesOf(req[r].op)]
    <2>1. row.new_toml = req[r].new
      OBVIOUS
    <2> HIDE DEF row
    <2>2. cm' = cm /\ history' = Append(history, row)
      BY <1>2 DEF InsertHistory, row
    <2>3. row \in Row
      BY <1>2, NotesInRow DEF MakerInv, LocalsRead, InsertHistory, row, Row
    <2>4. /\ \A i \in DOMAIN history : i \in DOMAIN history' /\ history'[i] = history[i]
          /\ Len(history) + 1 \in DOMAIN history'
          /\ history'[Len(history) + 1] = row
      BY <1>0, <2>2, <2>3
    <2>5. CASE \E i \in DOMAIN history : history[i].new_toml = cm
      BY <2>2, <2>4, <2>5 DEF ConfigAudited
    <2>6. CASE req[r].new = cm
      BY <2>1, <2>2, <2>4, <2>6 DEF ConfigAudited
    <2>7. ASSUME NEW q \in Requests, q # r,
                 req[q].pc \in {"bump", "insert"}, req[q].new = cm
          PROVE  ConfigAudited'
      <3>1. req'[q] = req[q]
        BY <1>0, <1>2, <2>7 DEF InsertHistory
      <3> QED
        BY <2>2, <2>7, <3>1 DEF ConfigAudited
    <2>8. CASE cm = InitialToml
      BY <2>2, <2>8 DEF ConfigAudited
    <2> QED
      BY <2>5, <2>6, <2>7, <2>8 DEF ConfigAudited
  <1>3. ASSUME NEW r \in Requests,
               \/ Arrivals(r) \/ Abort(r) \/ Bump(r) \/ MarkApplied(r)
               \/ ResumeLoad(r) \/ ReadConfig(r) \/ ReadCm(r)
               \/ PauseCheck(r) \/ ResumeCheck(r) \/ TickCheckPaused(r)
               \/ TickRecommend(r) \/ ApplyRecommend(r) \/ TickCooldown(r)
               \/ TickInFlight(r)
        PROVE  ConfigAudited'
    <2>1. UNCHANGED <<cm, history>>
      BY <1>3 DEF Arrivals, ArrivePause, ArriveResume, ArriveSave, ArriveTick,
             ArriveApply, Arrive, Abort, Bump, MarkApplied, ResumeLoad,
             ReadConfig, ReadCm, PauseCheck, ResumeCheck, TickCheckPaused,
             TickRecommend, ApplyRecommend, TickCooldown, TickInFlight
    <2>2. \A q \in Requests : q # r => req'[q] = req[q]
      BY <1>0, <1>3 DEF Arrivals, ArrivePause, ArriveResume, ArriveSave,
             ArriveTick, ArriveApply, Arrive, Abort, Bump, MarkApplied,
             ResumeLoad, ReadConfig, ReadCm, PauseCheck, ResumeCheck,
             TickCheckPaused, TickRecommend, ApplyRecommend, TickCooldown,
             TickInFlight, Goto
    <2>3. req[r].pc \in {"bump", "insert"} => Abort(r) \/ Bump(r)
      BY <1>3 DEF Arrivals, ArrivePause, ArriveResume, ArriveSave, ArriveTick,
             ArriveApply, Arrive, MarkApplied, ResumeLoad, ReadConfig, ReadCm,
             PauseCheck, ResumeCheck, TickCheckPaused, TickRecommend,
             ApplyRecommend, TickCooldown, TickInFlight, At
    <2>4. Abort(r) => req'[r].pc = req[r].pc /\ req'[r].new = req[r].new
      BY <1>0 DEF Abort, Request
    <2>5. Bump(r) => req'[r].pc = "insert" /\ req'[r].new = req[r].new
      BY <1>0 DEF Bump, Goto, Request
    <2> QED
      BY <2>1, <2>2, <2>3, <2>4, <2>5, AuditUndisturbed
  <1>4. CASE \/ StartPod \/ PodRestarts \/ SwapStarts \/ SwapCompletes
             \/ Elapse \/ Finished \/ UNCHANGED vars
    BY <1>4, AuditUndisturbed DEF StartPod, PodRestarts, SwapStarts,
       SwapCompletes, Elapse, Finished, vars
  <1> QED
    BY <1>1, <1>2, <1>3, <1>4 DEF Next, Step

\* The audit trail explains the ConfigMap, whatever overlaps or fails
\* (maker.rs:116-133, 212-226, 279-293).
THEOREM MakerConfigAudited == Spec => []ConfigAudited
  <1>1. Init => ConfigAudited
    BY DEF Init, ConfigAudited
  <1>2. MakerInv /\ ConfigAudited /\ [Next]_vars => ConfigAudited'
    BY AuditedStep
  <1> QED
    BY <1>1, <1>2, MakerInvariant, PTL DEF Spec

-----------------------------------------------------------------------------
(* Handlers that run one after the other                                   *)

\* At most one handler is in progress.
Serial == \A r, q \in Requests : Active(r) /\ Active(q) => r = q

\* Past the check of the pause state, up to the row.
Committed == {"recommend", "cooldown", "in_flight", "read_config",
              "read_cm", "write_cm", "bump", "insert"}

\* What a handler has found out about the pause state still holds until it
\* inserts its row; a tick may have defaulted it.
Checked ==
  \A r \in Requests :
    Active(r) /\ req[r].pc \in Committed =>
      /\ req[r].op = "pause" => ~is_paused
      /\ req[r].op = "resume" => is_paused
      /\ req[r].op = "tick" => ~is_paused \/ "read" \in Faults

SerialInv == Serial /\ Checked /\ PauseResumeAlternate

\* A step of one handler that inserts no row leaves the pause state alone, and
\* passes its check only as the pause state allows.
LEMMA QuietStep ==
  ASSUME SerialInv, NEW r \in Requests, UNCHANGED history,
         \A q \in Requests : q # r => req'[q] = req[q],
         Active(r)' => req'[r].op = req[r].op /\ Active(r),
         Active(r)' /\ req'[r].pc \in Committed =>
           \/ req[r].pc \in Committed
           \/ req[r].op = "pause" /\ ~is_paused
           \/ req[r].op = "resume" /\ is_paused
           \/ req[r].op = "tick" /\ (~is_paused \/ "read" \in Faults)
           \/ req[r].op \notin {"pause", "resume", "tick"}
  PROVE  SerialInv'
  <1>1. is_paused' = is_paused /\ PauseResumeAlternate'
    BY DEF SerialInv, is_paused, PauseResumeAlternate
  <1>2. \A q \in Requests : Active(q)' => Active(q)
    BY DEF Active
  <1>3. Serial'
    BY <1>2 DEF SerialInv, Serial
  <1>4. Checked'
    <2> SUFFICES ASSUME NEW q \in Requests, Active(q)', req'[q].pc \in Committed
                 PROVE  /\ req'[q].op = "pause" => ~is_paused
                        /\ req'[q].op = "resume" => is_paused
                        /\ req'[q].op = "tick" => ~is_paused \/ "read" \in Faults
      BY <1>1 DEF Checked
    <2>1. CASE q # r
      BY <1>2, <2>1 DEF SerialInv, Checked
    <2>2. CASE q = r
      BY <2>2 DEF SerialInv, Checked
    <2> QED
      BY <2>1, <2>2
  <1> QED
    BY <1>1, <1>3, <1>4 DEF SerialInv

\* A row is only inserted where it alternates with the rows before it.
LEMMA RowAlternates ==
  ASSUME TypeOK, SerialInv, NEW r \in Requests, InsertHistory(r),
         NEW i \in DOMAIN history', NEW j \in DOMAIN history', i < j,
         history'[i].notes = history'[j].notes, history'[i].notes # NoNotes
  PROVE  \E k \in i + 1 .. j - 1 : history'[k].notes \notin {history'[i].notes, NoNotes}
  <1> DEFINE row == [previous_toml |-> req[r].prev, new_toml |-> req[r].new,
                     notes |-> NotesOf(req[r].op)]
             n == Len(history)
  <1>1. history' = Append(history, row) /\ row.notes = NotesOf(req[r].op)
    BY DEF InsertHistory
  <1>2. Active(r) /\ req[r].pc \in Committed
    BY DEF InsertHistory, Active, Committed
  <1> HIDE DEF row
  <1>3. /\ n \in Nat /\ DOMAIN history = 1 .. n /\ DOMAIN history' = 1 .. n + 1
        /\ \A k \in 1 .. n : history'[k] = history[k]
        /\ history'[n + 1] = row
    BY <1>1 DEF TypeOK
  <1> HIDE DEF n
  <1>4. CASE j <= n
    <2>1. i \in 1 .. n /\ j \in 1 .. n
      BY <1>3, <1>4
    <2>2. PICK k \in i + 1 .. j - 1 : history[k].notes \notin {history[i].notes, NoNotes}
      BY <1>3, <2>1 DEF SerialInv, PauseResumeAlternate
    <2>3. k \in 1 .. n
      BY <1>3, <2>1, <2>2
    <2> QED
      BY <1>3, <2>1, <2>2, <2>3
  <1>5. CASE j = n + 1
    <2>1. i \in 1 .. n /\ history[i].notes = NotesOf(req[r].op) /\ NotesOf(req[r].op) # NoNotes
      BY <1>1, <1>3, <1>5
    <2>2. CASE req[r].op = "pause"
      <3>1. ~is_paused /\ history[i].notes = PAUSE_MARKER
        BY <1>2, <2>1, <2>2 DEF SerialInv, Checked, NotesOf
      <3>2. PICK k \in i + 1 .. Len(history) : history[k].notes = RESUME_MARKER
        BY <1>3, <2>1, <3>1 DEF is_paused
      <3>3. k \in i + 1 .. j - 1 /\ k \in 1 .. n
        BY <1>3, <1>5, <2>1, <3>2 DEF n
      <3> QED
        BY <1>3, <2>1, <3>1, <3>2, <3>3 DEF PAUSE_MARKER, RESUME_MARKER, NoNotes
    <2>3. CASE req[r].op = "resume"
      <3>1. is_paused /\ history[i].notes = RESUME_MARKER
        BY <1>2, <2>1, <2>3 DEF SerialInv, Checked, NotesOf
      <3>2. PICK k \in DOMAIN history :
              /\ history[k].notes = PAUSE_MARKER
              /\ \A l \in k + 1 .. Len(history) : history[l].notes # RESUME_MARKER
        BY <3>1 DEF is_paused
      <3>3. i # k
        BY <3>1, <3>2 DEF PAUSE_MARKER, RESUME_MARKER
      <3>4. ~ (k < i)
        BY <1>3, <2>1, <3>1, <3>2 DEF n
      <3>5. k \in i + 1 .. j - 1 /\ k \in 1 .. n
        BY <1>3, <1>5, <2>1, <3>2, <3>3, <3>4
      <3> QED
        BY <1>3, <2>1, <3>1, <3>2, <3>5 DEF PAUSE_MARKER, RESUME_MARKER, NoNotes
    <2> QED
      BY <2>1, <2>2, <2>3 DEF NotesOf
  <1> QED
    BY <1>3, <1>4, <1>5

\* Every step keeps the handlers one after the other, their checks valid and
\* the rows alternating.
LEMMA SerialStep ==
  ~Overlap /\ MakerInv /\ SerialInv /\ [Next]_vars => SerialInv'
  <1> SUFFICES ASSUME ~Overlap, MakerInv, SerialInv, [Next]_vars PROVE SerialInv'
    OBVIOUS
  <1>0. TypeOK /\ req \in [Requests -> Request]
    BY DEF MakerInv, TypeOK
  <1>1. ASSUME NEW r \in Requests, Arrivals(r) PROVE SerialInv'
    <2>1. history' = history /\ \A q \in Requests : ~Active(q)
      BY <1>1 DEF Arrivals, ArrivePause, ArriveResume, ArriveSave, ArriveTick,
             ArriveApply, Arrive
    <2>2. \A q \in Requests : q # r => req'[q] = req[q]
      BY <1>0, <1>1 DEF Arrivals, ArrivePause, ArriveResume, ArriveSave,
             ArriveTick, ArriveApply
    <2>3. req'[r].pc \notin Committed \/ req'[r].op \in {"save", "apply"}
      BY <1>0, <1>1 DEF Arrivals, ArrivePause, ArriveResume, ArriveSave,
             ArriveTick, ArriveApply, Committed, Request
    <2>4. \A q \in Requests : Active(q)' => q = r
      BY <2>1, <2>2 DEF Active
    <2>5. Serial' /\ Checked'
      BY <2>3, <2>4 DEF Serial, Checked
    <2> QED
      BY <2>1, <2>5 DEF SerialInv, PauseResumeAlternate
  <1>2. ASSUME NEW r \in Requests,
               \/ PauseCheck(r) \/ ResumeLoad(r) \/ ResumeCheck(r)
               \/ TickCheckPaused(r) \/ TickRecommend(r) \/ ApplyRecommend(r)
               \/ TickCooldown(r) \/ TickInFlight(r) \/ ReadConfig(r)
        PROVE  SerialInv'
    <2>1. history' = history /\ req[r].alive /\ req[r].pc \notin {"idle", "done"}
      BY <1>2 DEF PauseCheck, ResumeLoad, ResumeCheck, TickCheckPaused,
             TickRecommend, ApplyRecommend, TickCooldown, TickInFlight, ReadConfig, At
    <2>2. \A q \in Requests : q # r => req'[q] = req[q]
      BY <1>0, <1>2 DEF PauseCheck, ResumeLoad, ResumeCheck, TickCheckPaused,
             TickRecommend, ApplyRecommend, TickCooldown, TickInFlight, ReadConfig, Goto
    <2>3. req'[r].op = req[r].op
      BY <1>0, <1>2 DEF PauseCheck, ResumeLoad, ResumeCheck, TickCheckPaused,
             TickRecommend, ApplyRecommend, TickCooldown, TickInFlight, ReadConfig,
             Goto, Request
    <2>4. req'[r].pc \in Committed =>
            \/ req[r].op = "pause" /\ ~is_paused
            \/ req[r].op = "resume" /\ is_paused
            \/ req[r].op = "tick" /\ (~is_paused \/ "read" \in Faults)
            \/ req[r].op \notin {"pause", "resume", "tick"}
            \/ req[r].pc \in Committed
      BY <1>0, <1>2 DEF PauseCheck, ResumeLoad, ResumeCheck, TickCheckPaused,
             TickRecommend, ApplyRecommend, TickCooldown, TickInFlight, ReadConfig,
             Goto, At, Request, Committed
    <2> QED
      BY <2>1, <2>2, <2>3, <2>4, QuietStep DEF Active
  <1>3. ASSUME NEW r \in Requests, ReadCm(r) \/ WriteCm(r) \/ Bump(r)
        PROVE  SerialInv'
    <2>1. history' = history /\ Active(r) /\ req[r].pc \in Committed
      BY <1>3 DEF ReadCm, WriteCm, Bump, Active, Committed
    <2>2. /\ \A q \in Requests : q # r => req'[q] = req[q]
          /\ req'[r].op = req[r].op
      BY <1>0, <1>3 DEF ReadCm, WriteCm, Bump, Goto, Request
    <2> QED
      BY <2>1, <2>2, QuietStep
  <1>4. ASSUME NEW r \in Requests, InsertHistory(r) PROVE SerialInv'
    <2>1. Active(r) /\ \A q \in Requests : q # r => req'[q] = req[q]
      BY <1>0, <1>4 DEF InsertHistory, Active
    <2>2. req'[r].pc \in {"mark", "done"}
      BY <1>0, <1>4 DEF InsertHistory, Request
    <2>3. \A q \in Requests : Active(q)' => q = r
      BY <2>1 DEF SerialInv, Serial, Active
    <2>4. Serial' /\ Checked'
      BY <2>2, <2>3 DEF Serial, Checked, Committed
    <2>5. PauseResumeAlternate'
      BY <1>0, <1>4, RowAlternates DEF PauseResumeAlternate
    <2> QED
      BY <2>4, <2>5 DEF SerialInv
  <1>5. ASSUME NEW r \in Requests, MarkApplied(r) \/ Abort(r) PROVE SerialInv'
    <2>1. history' = history /\ \A q \in Requests : q # r => req'[q] = req[q]
      BY <1>0, <1>5 DEF MarkApplied, Abort, Goto
    <2>2. ~Active(r)'
      BY <1>0, <1>5 DEF MarkApplied, Abort, Goto, Active, Request
    <2> QED
      BY <2>1, <2>2, QuietStep
  <1>6. CASE \/ StartPod \/ PodRestarts \/ SwapStarts \/ SwapCompletes
             \/ Elapse \/ Finished \/ UNCHANGED vars
    <2>1. history' = history /\ req' = req
      BY <1>6 DEF StartPod, PodRestarts, SwapStarts, SwapCompletes, Elapse, Finished, vars
    <2> QED
      BY <2>1 DEF SerialInv, Serial, Checked, Active, is_paused, PauseResumeAlternate
  <1> QED
    BY <1>1, <1>2, <1>3, <1>4, <1>5, <1>6 DEF Next, Step

\* The invariant of serial handlers holds in every reachable state.
LEMMA SerialHolds ==
  ASSUME ~Overlap
  PROVE  Spec => []SerialInv
  <1>1. Init => SerialInv
    BY DEF Init, SerialInv, Serial, Checked, Active, Fresh, PauseResumeAlternate, Committed
  <1>2. MakerInv /\ SerialInv /\ [Next]_vars => SerialInv'
    BY SerialStep
  <1> QED
    BY <1>1, <1>2, MakerInvariant, PTL DEF Spec

\* Pause and resume rows alternate as long as handlers do not overlap,
\* whatever cuts them short and whatever edits lie between (maker.rs:191, 263).
THEOREM MakerRowsAlternate ==
  ASSUME ~Overlap
  PROVE  Spec => []PauseResumeAlternate
  <1>1. SerialInv => PauseResumeAlternate
    BY DEF SerialInv
  <1> QED
    BY <1>1, SerialHolds, PTL

-----------------------------------------------------------------------------
(* Automatic applies                                                       *)

\* A step of one handler leaves the others where they are.
LEMMA OthersStay ==
  ASSUME TypeOK, NEW r \in Requests, Arrivals(r) \/ Step(r) \/ Abort(r)
  PROVE  \A q \in Requests : q # r => req'[q] = req[q]
  BY DEF TypeOK, Arrivals, ArrivePause, ArriveResume, ArriveSave, ArriveTick,
     ArriveApply, Step, PauseCheck, ResumeLoad, ResumeCheck, TickCheckPaused,
     TickRecommend, ApplyRecommend, TickCooldown, TickInFlight, ReadConfig,
     ReadCm, WriteCm, Bump, InsertHistory, MarkApplied, Abort, Goto

\* Of the rows a tick had seen, no pause is still in force once it is past its
\* check.
SawNoPause(r) ==
  \A i \in DOMAIN history :
    i <= req[r].seen /\ history[i].notes = PAUSE_MARKER =>
      \E j \in i + 1 .. Len(history) : history[j].notes = RESUME_MARKER

TicksSaw ==
  \A r \in Requests :
    req[r].op = "tick" /\ req[r].pc \in Committed =>
      req[r].seen \in 0 .. Len(history) /\ SawNoPause(r)

\* Rows are only appended, so what a tick saw stays so while it holds on.
LEMMA TicksSawStep ==
  "read" \notin Faults /\ MakerInv /\ TicksSaw /\ [Next]_vars => TicksSaw'
  <1> SUFFICES ASSUME "read" \notin Faults, MakerInv, TicksSaw, [Next]_vars
               PROVE  TicksSaw'
    OBVIOUS
  <1>0. TypeOK /\ req \in [Requests -> Request] /\ history \in Seq(Row)
    BY DEF MakerInv, TypeOK
  <1>1. ASSUME NEW r \in Requests, Arrivals(r) PROVE TicksSaw'
    <2>1. history' = history /\ \A q \in Requests : q # r => req'[q] = req[q]
      BY <1>0, <1>1, OthersStay DEF Arrivals, ArrivePause, ArriveResume, ArriveSave,
             ArriveTick, ArriveApply, Arrive
    <2>2. req'[r].op = "tick" => req'[r].pc \notin Committed
      BY <1>0, <1>1 DEF Arrivals, ArrivePause, ArriveResume, ArriveSave, ArriveTick,
             ArriveApply, Committed, Request
    <2> QED
      BY <2>1, <2>2 DEF TicksSaw, SawNoPause
  <1>2. ASSUME NEW r \in Requests, Step(r) \/ Abort(r), ~InsertHistory(r) PROVE TicksSaw'
    <2>1. history' = history /\ req'[r].op = req[r].op
      BY <1>0, <1>2 DEF Step, PauseCheck, ResumeLoad, ResumeCheck, TickCheckPaused,
             TickRecommend, ApplyRecommend, TickCooldown, TickInFlight, ReadConfig,
             ReadCm, WriteCm, Bump, MarkApplied, Abort, Goto, Request
    <2>2. \A q \in Requests : q # r => req'[q] = req[q]
      BY <1>0, <1>2, OthersStay
    <2>3. req[r].op = "tick" /\ req'[r].pc \in Committed =>
            \/ req[r].pc \in Committed /\ req'[r].seen = req[r].seen
            \/ ~is_paused /\ req'[r].seen = Len(history)
      <3>1. CASE TickCheckPaused(r)
        BY <1>0, <3>1 DEF TickCheckPaused, Goto, Request, Committed
      <3>2. CASE ~TickCheckPaused(r)
        BY <1>0, <1>2, <3>2 DEF Step, PauseCheck, ResumeLoad, ResumeCheck,
             TickRecommend, ApplyRecommend, TickCooldown, TickInFlight, ReadConfig,
             ReadCm, WriteCm, Bump, MarkApplied, Abort, Goto, At, Request, Committed
      <3> QED
        BY <3>1, <3>2
    <2>4. ASSUME ~is_paused, NEW i \in DOMAIN history, history[i].notes = PAUSE_MARKER
          PROVE  \E j \in i + 1 .. Len(history) : history[j].notes = RESUME_MARKER
      BY <2>4 DEF is_paused
    <2>5. Len(history) \in 0 .. Len(history)
      BY <1>0
    <2> QED
      BY <2>1, <2>2, <2>3, <2>4, <2>5 DEF TicksSaw, SawNoPause
  <1>3. ASSUME NEW r \in Requests, InsertHistory(r) PROVE TicksSaw'
    <2>1. PICK row : history' = Append(history, row)
      BY <1>3 DEF InsertHistory
    <2>2. /\ Len(history') = Len(history) + 1
          /\ \A i \in DOMAIN history : history'[i] = history[i]
          /\ DOMAIN history = 1 .. Len(history) /\ DOMAIN history' = 1 .. Len(history')
          /\ Len(history) \in Nat
      BY <1>0, <2>1
    <2>3. ASSUME NEW q \in Requests, req'[q].op = "tick", req'[q].pc \in Committed
          PROVE  req'[q].seen \in 0 .. Len(history') /\ SawNoPause(q)'
      <3>1. q # r
        BY <1>0, <1>3, <2>3 DEF InsertHistory, Request, Committed
      <3>2. req'[q] = req[q]
        BY <1>0, <1>3, <3>1 DEF InsertHistory
      <3>3. req[q].seen \in 0 .. Len(history) /\ SawNoPause(q)
        BY <2>3, <3>2 DEF TicksSaw
      <3>4. ASSUME NEW i \in DOMAIN history', i <= req[q].seen,
                   history'[i].notes = PAUSE_MARKER
            PROVE  \E j \in i + 1 .. Len(history') : history'[j].notes = RESUME_MARKER
        <4>1. i \in DOMAIN history /\ history[i].notes = PAUSE_MARKER
          BY <2>2, <3>3, <3>4
        <4>2. PICK j \in i + 1 .. Len(history) : history[j].notes = RESUME_MARKER
          BY <3>3, <3>4, <4>1 DEF SawNoPause
        <4>3. j \in i + 1 .. Len(history') /\ history'[j] = history[j]
          BY <2>2, <4>1, <4>2
        <4> QED
          BY <4>2, <4>3
      <3> QED
        BY <2>2, <3>2, <3>3, <3>4 DEF SawNoPause
    <2> QED
      BY <2>3 DEF TicksSaw
  <1>4. CASE \/ StartPod \/ PodRestarts \/ SwapStarts \/ SwapCompletes
             \/ Elapse \/ Finished \/ UNCHANGED vars
    <2>1. history' = history /\ req' = req
      BY <1>4 DEF StartPod, PodRestarts, SwapStarts, SwapCompletes, Elapse, Finished, vars
    <2> QED
      BY <2>1 DEF TicksSaw, SawNoPause
  <1> QED
    BY <1>1, <1>2, <1>3, <1>4 DEF Next

\* A pause that was in force before a tick began is left alone by it, whatever
\* overlaps or is cut short, as long as the query of the pause state answers
\* (pollers/spread_optimizer.rs:29-37); the run maker_pause_undone shows what
\* becomes of a pause made while the tick runs.
THEOREM MakerOldPausesRespected ==
  ASSUME "read" \notin Faults
  PROVE  Spec => OldPausesRespected
  <1> DEFINE Respects == \A r \in Requests :
               /\ req[r].op = "tick" /\ req[r].pc = "write_cm" /\ req'[r].pc = "bump"
               /\ is_paused
               => \E i \in DOMAIN history : i > req[r].seen /\ history[i].notes = PAUSE_MARKER
  <1>1. Init => TicksSaw
    <2>1. Init => \A r \in Requests : req[r].pc = "idle"
      BY AtRest
    <2> QED
      BY <2>1 DEF TicksSaw, Committed
  <1>2. MakerInv /\ TicksSaw /\ [Next]_vars => TicksSaw'
    BY TicksSawStep
  <1>3. MakerInv /\ TicksSaw /\ [Next]_vars => [Respects]_vars
    <2> SUFFICES ASSUME MakerInv, TicksSaw, NEW r \in Requests, req[r].op = "tick",
                        req[r].pc = "write_cm", is_paused
                 PROVE  \E i \in DOMAIN history :
                          i > req[r].seen /\ history[i].notes = PAUSE_MARKER
      OBVIOUS
    <2>1. req[r].seen \in Nat /\ SawNoPause(r)
      BY DEF TicksSaw, Committed
    <2>2. PICK i \in DOMAIN history :
            /\ history[i].notes = PAUSE_MARKER
            /\ \A j \in i + 1 .. Len(history) : history[j].notes # RESUME_MARKER
      BY DEF is_paused
    <2>3. i \in Nat
      BY DEF MakerInv, TypeOK
    <2> QED
      BY <2>1, <2>2, <2>3 DEF SawNoPause
  <1>4. Spec => [][Respects]_vars
    BY <1>1, <1>2, <1>3, MakerInvariant, PTL DEF Spec
  <1> QED
    BY <1>4 DEF OldPausesRespected

Ticking(r) == Active(r) /\ req[r].op = "tick"

\* A tick that passed the cooldown and has not written yet.
Cooled == {"in_flight", "read_config", "read_cm", "write_cm"}

Unwritten == Cooled \cup {"idle", "load_pause", "check_paused", "recommend", "cooldown"}

\* The ConfigMap writes of the other ticks that were not cut short lie a
\* cooldown back.
LongAgo(r) ==
  \A q \in Requests :
    q # r /\ req[q].alive /\ req[q].op = "tick" /\ req[q].wroteAt # 0 =>
      clock - req[q].wroteAt >= Cooldown

\* Ticks run one after the other, and one that is past the cooldown has seen
\* the marks of those before it.
TicksInv ==
  /\ \A r, q \in Requests : Ticking(r) /\ Ticking(q) => r = q
  /\ \A r \in Requests : req[r].pc \in Unwritten => req[r].wroteAt = 0
  /\ \A r \in Requests :
       req[r].op = "tick" /\ req[r].pc = "done" => req[r].wroteAt <= lastApplied
  /\ \A r \in Requests : Ticking(r) /\ req[r].pc \in Cooled => LongAgo(r)
  /\ CooldownRespected

\* A handler that moves on and writes no ConfigMap disturbs no other tick.
LEMMA TickMoves ==
  ASSUME TypeOK, TicksInv, NEW r \in Requests, UNCHANGED <<clock, lastApplied>>,
         \A q \in Requests : q # r => req'[q] = req[q],
         req'[r].alive, Active(r), req'[r].op = req[r].op,
         req'[r].wroteAt = req[r].wroteAt,
         req'[r].pc \in Unwritten => req[r].pc \in Unwritten,
         req[r].op = "tick" /\ req'[r].pc = "done" => req[r].wroteAt <= lastApplied,
         req[r].op = "tick" /\ req'[r].pc \in Cooled => req[r].pc \in Cooled \/ LongAgo(r)
  PROVE  TicksInv'
  <1>1. \A q \in Requests : /\ req'[q].op = req[q].op
                            /\ req'[q].wroteAt = req[q].wroteAt
                            /\ req'[q].alive = req[q].alive
    BY DEF TypeOK, Request, Active
  <1>2. CooldownRespected' /\ \A q \in Requests : LongAgo(q)' = LongAgo(q)
    BY <1>1 DEF TicksInv, CooldownRespected, LongAgo
  <1>3. \A q \in Requests : Ticking(q)' => Ticking(q)
    BY DEF Ticking, Active
  <1>5. \A q \in Requests : req'[q].pc \in Unwritten => req'[q].wroteAt = 0
    BY <1>1 DEF TicksInv
  <1>6. \A q \in Requests :
          req'[q].op = "tick" /\ req'[q].pc = "done" => req'[q].wroteAt <= lastApplied'
    BY <1>1 DEF TicksInv
  <1>7. \A q \in Requests : Ticking(q)' /\ req'[q].pc \in Cooled => LongAgo(q)'
    BY <1>1, <1>2, <1>3 DEF TicksInv, Ticking
  <1> QED
    BY <1>2, <1>3, <1>5, <1>6, <1>7 DEF TicksInv

\* A tick that begins is the only one, and has written nothing.
LEMMA TickArrives ==
  ASSUME TypeOK, TicksInv, NEW r \in Requests, Arrivals(r)
  PROVE  TicksInv'
  <1>1. /\ req[r].pc = "idle" /\ UNCHANGED <<clock, lastApplied>>
        /\ \A q \in Requests : q # r => req'[q] = req[q]
    BY OthersStay DEF Arrivals, Arrive, ArrivePause, ArriveResume, ArriveSave,
       ArriveTick, ArriveApply
  <1>2. /\ req'[r].wroteAt = req[r].wroteAt /\ req'[r].alive = req[r].alive
        /\ req'[r].op = "tick" => req'[r].pc = "check_paused"
        /\ req'[r].pc # "done"
    BY DEF TypeOK, Request, Arrivals, ArrivePause, ArriveResume, ArriveSave,
       ArriveTick, ArriveApply
  <1>3. req'[r].op = "tick" => \A q \in Requests : ~Ticking(q)
    BY DEF TypeOK, Request, Ticking, Arrivals, Arrive, ArrivePause, ArriveResume,
       ArriveSave, ArriveTick, ArriveApply
  <1>4. req'[r].wroteAt = 0
    BY <1>1, <1>2 DEF TicksInv, Unwritten
  <1>5. \A q \in Requests : q # r => Ticking(q)' = Ticking(q)
    BY <1>1 DEF Ticking, Active
  <1>6. CooldownRespected'
    BY <1>1, <1>4 DEF TicksInv, CooldownRespected
  <1>7. ASSUME NEW q \in Requests, Ticking(q)', req'[q].pc \in Cooled
        PROVE  LongAgo(q)'
    <2>1. q # r
      BY <1>2, <1>7 DEF Cooled, Ticking
    <2> QED
      BY <1>1, <1>4, <1>5, <1>7, <2>1 DEF TicksInv, LongAgo
  <1>8. \A p, q \in Requests : Ticking(p)' /\ Ticking(q)' => p = q
    BY <1>3, <1>5 DEF TicksInv, Ticking
  <1>9. \A q \in Requests : /\ req'[q].pc \in Unwritten => req'[q].wroteAt = 0
                            /\ req'[q].op = "tick" /\ req'[q].pc = "done"
                                 => req'[q].wroteAt <= lastApplied'
    BY <1>1, <1>2, <1>4 DEF TicksInv
  <1> QED
    BY <1>6, <1>7, <1>8, <1>9 DEF TicksInv

\* A write of a tick comes a cooldown after those of the ticks before it.
LEMMA TickWrites ==
  ASSUME MakerInv, TicksInv, NEW r \in Requests, WriteCm(r)
  PROVE  TicksInv'
  <1>0. /\ TypeOK /\ clock \in Nat
        /\ \A q \in Requests : req[q].wroteAt \in Nat /\ req[q].wroteAt <= clock
    BY DEF MakerInv, TypeOK, LocalsRead, Request
  <1>1. /\ req[r].alive /\ req[r].pc = "write_cm" /\ UNCHANGED <<clock, lastApplied>>
        /\ \A q \in Requests : q # r => req'[q] = req[q]
        /\ req'[r].pc = "bump" /\ req'[r].wroteAt = clock
        /\ req'[r].op = req[r].op /\ req'[r].alive
    BY <1>0 DEF TypeOK, Request, WriteCm
  <1>2. req[r].op = "tick" => LongAgo(r) /\ Ticking(r)
    BY <1>1 DEF TicksInv, Cooled, Ticking, Active
  <1>3. \A q \in Requests : Ticking(q)' => Ticking(q)
    BY <1>1 DEF Ticking, Active
  <1>4. CooldownRespected'
    <2> SUFFICES ASSUME NEW p \in Requests, NEW q \in Requests, p # q,
                        req'[p].op = "tick", req'[p].wroteAt # 0,
                        req'[q].op = "tick", req'[q].wroteAt # 0, req'[q].alive,
                        req'[q].wroteAt < req'[p].wroteAt \/ req'[p].alive
                 PROVE  \/ req'[p].wroteAt - req'[q].wroteAt >= Cooldown
                        \/ req'[q].wroteAt - req'[p].wroteAt >= Cooldown
      BY DEF CooldownRespected
    <2>1. CASE p = r
      BY <1>1, <1>2, <2>1 DEF LongAgo
    <2>2. CASE q = r
      <3>1. req'[p] = req[p] /\ req[p].wroteAt <= clock /\ req'[q].wroteAt = clock
        BY <1>0, <1>1, <2>2
      <3>2. req[p].alive
        BY <1>0, <3>1
      <3> QED
        BY <1>1, <1>2, <2>2, <3>1, <3>2 DEF LongAgo
    <2>3. CASE p # r /\ q # r
      BY <1>1, <2>3 DEF TicksInv, CooldownRespected
    <2> QED
      BY <2>1, <2>2, <2>3
  <1>5. ASSUME NEW q \in Requests, Ticking(q)', req'[q].pc \in Cooled
        PROVE  LongAgo(q)'
    <2>1. q # r /\ req'[q] = req[q] /\ Ticking(q)
      BY <1>1, <1>3, <1>5 DEF Cooled
    <2>2. req[r].op # "tick"
      BY <1>2, <2>1 DEF TicksInv
    <2> QED
      BY <1>1, <1>5, <2>1, <2>2 DEF TicksInv, LongAgo
  <1>6. \A q \in Requests : /\ req'[q].pc \in Unwritten => req'[q].wroteAt = 0
                            /\ req'[q].op = "tick" /\ req'[q].pc = "done"
                                 => req'[q].wroteAt <= lastApplied'
    BY <1>1 DEF TicksInv, Unwritten, Cooled
  <1> QED
    BY <1>3, <1>4, <1>5, <1>6 DEF TicksInv

\* Every step keeps it: a tick ends with its mark, and the cooldown is
\* measured from the last one.
LEMMA TicksStep ==
  MakerInv /\ TicksInv /\ [Next]_vars => TicksInv'
  <1> SUFFICES ASSUME MakerInv, TicksInv, [Next]_vars
               PROVE  TicksInv'
    OBVIOUS
  <1>0. /\ TypeOK /\ req \in [Requests -> Request] /\ clock \in Nat /\ lastApplied \in Nat
        /\ \A q \in Requests : req[q].wroteAt \in Nat /\ req[q].wroteAt <= clock
    BY DEF MakerInv, TypeOK, LocalsRead, Request
  <1>1. ASSUME NEW r \in Requests,
               \/ PauseCheck(r) \/ ResumeLoad(r) \/ ResumeCheck(r)
               \/ TickCheckPaused(r) \/ TickRecommend(r) \/ ApplyRecommend(r)
               \/ TickCooldown(r) \/ TickInFlight(r) \/ ReadConfig(r) \/ ReadCm(r)
        PROVE  TicksInv'
    <2> USE DEF PauseCheck, ResumeLoad, ResumeCheck, TickCheckPaused, TickRecommend,
                ApplyRecommend, TickCooldown, TickInFlight, ReadConfig, ReadCm, At
    <2>1. /\ UNCHANGED <<clock, lastApplied>> /\ Active(r) /\ req[r].pc \in Unwritten
          /\ \A q \in Requests : q # r => req'[q] = req[q]
      BY <1>0, <1>1, OthersStay DEF Step, Active, Unwritten, Cooled
    <2>2. /\ req'[r].alive /\ req'[r].op = req[r].op /\ req'[r].wroteAt = req[r].wroteAt
      BY <1>0, <1>1 DEF Request, Goto
    <2>3. req[r].wroteAt = 0
      BY <2>1 DEF TicksInv
    <2>4. req[r].op = "tick" /\ req'[r].pc \in Cooled =>
            req[r].pc \in Cooled \/ TickCooldown(r)
      BY <1>0, <1>1 DEF Goto, Request, Cooled
    <2>5. TickCooldown(r) /\ req'[r].pc \in Cooled => ~CoolingDown
      BY <1>0 DEF Goto, Request, Cooled
    <2>6. ASSUME TickCooldown(r), ~CoolingDown PROVE LongAgo(r)
      <3> SUFFICES ASSUME NEW q \in Requests, q # r, req[q].alive,
                          req[q].op = "tick", req[q].wroteAt # 0
                   PROVE  clock - req[q].wroteAt >= Cooldown
        BY DEF LongAgo
      <3>1. ~Ticking(q)
        BY <2>6, <2>1 DEF TicksInv, Ticking
      <3>2. req[q].pc = "done"
        BY <3>1 DEF Ticking, Active, TicksInv, Unwritten
      <3>3. req[q].wroteAt <= lastApplied
        BY <3>2 DEF TicksInv
      <3> QED
        BY <1>0, <2>6, <3>3, MakerAssumption DEF CoolingDown
    <2> QED
      BY <1>0, <2>1, <2>2, <2>3, <2>4, <2>5, <2>6, TickMoves
  <1>2. ASSUME NEW r \in Requests, Bump(r) \/ InsertHistory(r) PROVE TicksInv'
    <2>1. /\ UNCHANGED <<clock, lastApplied>> /\ Active(r)
          /\ \A q \in Requests : q # r => req'[q] = req[q]
      BY <1>0, <1>2, OthersStay DEF Step, Active, Bump, InsertHistory
    <2>2. /\ req'[r].alive /\ req'[r].op = req[r].op /\ req'[r].wroteAt = req[r].wroteAt
          /\ req'[r].pc \in {"insert", "mark", "done"}
          /\ req[r].op = "tick" => req'[r].pc # "done"
      BY <1>0, <1>2 DEF Request, Goto, Bump, InsertHistory
    <2> QED
      BY <1>0, <2>1, <2>2, TickMoves DEF Unwritten, Cooled
  <1>3. ASSUME NEW r \in Requests, MarkApplied(r) PROVE TicksInv'
    <2>1. /\ clock' = clock /\ lastApplied' = clock /\ req[r].pc = "mark"
          /\ \A q \in Requests : q # r => req'[q] = req[q]
      BY <1>0, <1>3, OthersStay DEF Step, MarkApplied
    <2>2. /\ req'[r].alive = req[r].alive /\ req'[r].alive
          /\ req'[r].op = req[r].op /\ req'[r].wroteAt = req[r].wroteAt
          /\ req'[r].pc = "done"
      BY <1>0, <1>3 DEF Request, Goto, MarkApplied
    <2>3. \A q \in Requests : /\ req'[q].op = req[q].op /\ req'[q].wroteAt = req[q].wroteAt
                              /\ req'[q].alive = req[q].alive
                              /\ Ticking(q)' => Ticking(q)
      BY <2>1, <2>2 DEF Ticking, Active
    <2>4. CooldownRespected' /\ \A q \in Requests : LongAgo(q)' = LongAgo(q)
      BY <2>1, <2>3 DEF TicksInv, CooldownRespected, LongAgo
    <2>5. \A q \in Requests : /\ req'[q].pc \in Unwritten => req'[q].wroteAt = 0
                              /\ req'[q].wroteAt <= lastApplied'
                              /\ req'[q].pc \in Cooled => req[q].pc \in Cooled
      BY <1>0, <2>1, <2>2, <2>3 DEF TicksInv, Unwritten, Cooled
    <2> QED
      BY <2>3, <2>4, <2>5 DEF TicksInv
  <1>4. CASE \/ StartPod \/ PodRestarts \/ SwapStarts \/ SwapCompletes
             \/ Elapse \/ Finished \/ UNCHANGED vars
    <2>1. req' = req /\ lastApplied' = lastApplied /\ clock' \in Nat /\ clock <= clock'
      BY <1>0, <1>4 DEF StartPod, PodRestarts, SwapStarts, SwapCompletes, Elapse, Finished, vars
    <2>2. CooldownRespected' /\ \A q \in Requests : Ticking(q)' = Ticking(q)
      BY <2>1 DEF TicksInv, CooldownRespected, Ticking, Active
    <2>3. \A q \in Requests : LongAgo(q) => LongAgo(q)'
      BY <1>0, <2>1, MakerAssumption DEF LongAgo
    <2> QED
      BY <2>1, <2>2, <2>3 DEF TicksInv
  <1>5. ASSUME NEW r \in Requests, Abort(r) PROVE TicksInv'
    <2>1. /\ UNCHANGED <<clock, lastApplied>> /\ req'[r].alive = FALSE
          /\ \A q \in Requests : /\ q # r => req'[q] = req[q]
                                 /\ req'[q].op = req[q].op /\ req'[q].pc = req[q].pc
                                 /\ req'[q].wroteAt = req[q].wroteAt
      BY <1>0, <1>5 DEF Request, Abort
    <2>2. \A q \in Requests : req'[q].alive => req[q].alive
      BY <2>1
    <2>3. CooldownRespected'
      BY <2>1, <2>2 DEF TicksInv, CooldownRespected
    <2>4. \A q \in Requests : (LongAgo(q) => LongAgo(q)') /\ (Ticking(q)' => Ticking(q))
      BY <2>1, <2>2 DEF LongAgo, Ticking, Active
    <2> QED
      BY <2>1, <2>3, <2>4 DEF TicksInv
  <1> QED
    BY <1>0, <1>1, <1>2, <1>3, <1>4, <1>5, TickArrives, TickWrites DEF Next, Step

\* Two automatic applies write the ConfigMap a cooldown apart, whatever
\* overlaps and whatever fails, unless the earlier one was cut short before
\* its mark (pollers/spread_optimizer.rs:64-75).
THEOREM MakerCooldownRespected == Spec => []CooldownRespected
  <1>1. Init => TicksInv
    <2>1. Init => \A r \in Requests :
            req[r].alive /\ req[r].op = "none" /\ req[r].pc = "idle" /\ req[r].wroteAt = 0
      BY AtRest
    <2> QED
      BY <2>1 DEF TicksInv, Ticking, CooldownRespected
  <1>2. MakerInv /\ TicksInv /\ [Next]_vars => TicksInv'
    BY TicksStep
  <1>3. TicksInv => CooldownRespected
    BY DEF TicksInv
  <1> QED
    BY <1>1, <1>2, <1>3, MakerInvariant, PTL DEF Spec

-----------------------------------------------------------------------------
(* The atomic specification                                                *)

\* While handlers run one after the other, each to its end, the ConfigMap is
\* what was last logged or what the handler in progress is about to log; a
\* handler holds what the rows said when it read them.
LogInv ==
  /\ SerialInv
  /\ is_paused => \E i \in DOMAIN history : IsLatestPause(i)
  /\ (\A r \in Requests : req[r].pc \notin {"bump", "insert"}) => cm = LoggedConfig
  /\ \A r \in Requests :
       /\ req[r].alive
       /\ req[r].pc \in {"bump", "insert"} => cm = req[r].new
       /\ req[r].pc \in {"write_cm", "bump", "insert"} =>
            /\ req[r].prev = LoggedConfig
            /\ req[r].op = "pause" => req[r].new = OffMarket(LoggedConfig)
       /\ req[r].op = "resume" /\ req[r].pc \in {"read_cm", "write_cm", "bump", "insert"} =>
            req[r].new = StashedConfig
       /\ req[r].op = "resume" /\ req[r].pc = "check_paused" /\ is_paused =>
            req[r].new = StashedConfig

\* There is one newest pause row, and it holds the stash.
LEMMA StashIsLatest ==
  ASSUME is_paused, NEW i \in DOMAIN history, IsLatestPause(i), history \in Seq(Row)
  PROVE  StashedConfig = history[i].previous_toml
  <1> DEFINE n == Len(history)
  <1>1. n \in Nat /\ DOMAIN history = 1 .. n
    OBVIOUS
  <1>2. ASSUME NEW j \in DOMAIN history, IsLatestPause(j) PROVE j = i
    <2>1. j \in 1 .. n /\ i \in 1 .. n
      BY <1>1
    <2>2. ~ (i < j) /\ ~ (j < i)
      BY <1>2, <2>1 DEF IsLatestPause
    <2> QED
      BY <2>1, <2>2
  <1>3. (CHOOSE j \in DOMAIN history : IsLatestPause(j)) = i
    BY <1>2
  <1> QED
    BY <1>3 DEF StashedConfig

\* A step of one handler that inserts no row keeps the rows and what they say.
LEMMA LogMoves ==
  ASSUME LogInv, SerialInv', NEW r \in Requests, UNCHANGED history,
         \A q \in Requests : q # r => req'[q] = req[q],
         req'[r].alive,
         (\A q \in Requests : req'[q].pc \notin {"bump", "insert"}) => cm' = LoggedConfig,
         \A q \in Requests : req'[q].pc \in {"bump", "insert"} => cm' = req'[q].new,
         req'[r].pc \in {"write_cm", "bump", "insert"} =>
           /\ req'[r].prev = LoggedConfig
           /\ req'[r].op = "pause" => req'[r].new = OffMarket(LoggedConfig),
         req'[r].op = "resume" /\ req'[r].pc \in {"read_cm", "write_cm", "bump", "insert"} =>
           req'[r].new = StashedConfig,
         req'[r].op = "resume" /\ req'[r].pc = "check_paused" /\ is_paused =>
           req'[r].new = StashedConfig
  PROVE  LogInv'
  <1>1. /\ is_paused' = is_paused /\ LoggedConfig' = LoggedConfig
        /\ StashedConfig' = StashedConfig
        /\ \A i : IsLatestPause(i)' = IsLatestPause(i)
    BY DEF is_paused, LoggedConfig, StashedConfig, IsLatestPause
  <1>2. \A t : OffMarket(t)' = OffMarket(t)
    OBVIOUS
  <1>3. ASSUME NEW q \in Requests, q # r
        PROVE  /\ req'[q].alive
               /\ req'[q].pc \in {"write_cm", "bump", "insert"} =>
                    /\ req'[q].prev = LoggedConfig
                    /\ req'[q].op = "pause" => req'[q].new = OffMarket(LoggedConfig)
               /\ req'[q].op = "resume" /\ req'[q].pc \in {"read_cm", "write_cm", "bump", "insert"} =>
                    req'[q].new = StashedConfig
               /\ req'[q].op = "resume" /\ req'[q].pc = "check_paused" /\ is_paused =>
                    req'[q].new = StashedConfig
    BY <1>3 DEF LogInv
  <1>4. is_paused' => \E i \in DOMAIN history' : IsLatestPause(i)'
    BY <1>1 DEF LogInv
  <1> QED
    BY <1>1, <1>2, <1>3, <1>4 DEF LogInv

\* What inserting a row does to the rows and to what they say.
LEMMA RowLogged ==
  ASSUME MakerInv, LogInv, NEW r \in Requests, InsertHistory(r)
  PROVE  /\ LoggedConfig' = req[r].new
         /\ is_paused' => \E i \in DOMAIN history' : IsLatestPause(i)'
         /\ req[r].op = "pause" => is_paused' /\ StashedConfig' = req[r].prev
         /\ req[r].op = "resume" => ~is_paused' /\ StashedConfig' = NoToml
         /\ req[r].op \notin {"pause", "resume"} =>
              is_paused' = is_paused /\ StashedConfig' = StashedConfig
  <1> DEFINE row == [previous_toml |-> req[r].prev, new_toml |-> req[r].new,
                     notes |-> NotesOf(req[r].op)]
  <1>0. PICK n : n = Len(history)
    OBVIOUS
  <1>1. /\ row \in Row /\ row.notes = NotesOf(req[r].op)
        /\ row.previous_toml = req[r].prev /\ row.new_toml = req[r].new
    BY NotesInRow DEF MakerInv, LocalsRead, InsertHistory, Row
  <1>2. history' = Append(history, row)
    BY DEF InsertHistory
  <1> HIDE DEF row
  <1>3. history \in Seq(Row)
    BY DEF MakerInv, TypeOK
  <1>4. /\ n \in Nat /\ DOMAIN history = 1 .. n /\ DOMAIN history' = 1 .. n + 1
        /\ \A k \in 1 .. n : history'[k] = history[k]
        /\ history'[n + 1] = row /\ Len(history') = n + 1
        /\ history' \in Seq(Row) /\ history' # <<>>
    BY <1>0, <1>1, <1>2, <1>3
  <1>5. LoggedConfig' = req[r].new
    BY <1>1, <1>4 DEF LoggedConfig
  <1>6. CASE req[r].op = "pause"
    <2>1. row.notes = PAUSE_MARKER
      BY <1>1, <1>6 DEF NotesOf
    <2>2. n + 1 \in DOMAIN history' /\ IsLatestPause(n + 1)' /\ is_paused'
      BY <1>4, <2>1 DEF IsLatestPause, is_paused
    <2>3. StashedConfig' = history'[n + 1].previous_toml
      <3>1. \A i \in DOMAIN history' : IsLatestPause(i)' => i = n + 1
        BY <1>4, <2>1 DEF IsLatestPause
      <3>2. (CHOOSE i \in DOMAIN history' : IsLatestPause(i)') = n + 1
        BY <2>2, <3>1
      <3> QED
        BY <2>2, <3>2 DEF StashedConfig
    <2> QED
      BY <1>1, <1>4, <1>5, <1>6, <2>2, <2>3
  <1>7. CASE req[r].op = "resume"
    <2>1. row.notes = RESUME_MARKER /\ RESUME_MARKER # PAUSE_MARKER
      BY <1>1, <1>7 DEF NotesOf, RESUME_MARKER, PAUSE_MARKER
    <2>2. ~is_paused'
      BY <1>4, <2>1 DEF is_paused
    <2> QED
      BY <1>5, <1>7, <2>2 DEF StashedConfig
  <1>8. CASE req[r].op \notin {"pause", "resume"}
    <2>1. row.notes \notin {PAUSE_MARKER, RESUME_MARKER}
      BY <1>1, <1>8 DEF NotesOf, RESUME_MARKER, PAUSE_MARKER, NoNotes
    <2>2. \A i : i \in DOMAIN history' /\ IsLatestPause(i)' <=>
                 i \in DOMAIN history /\ IsLatestPause(i)
      BY <1>0, <1>4, <2>1 DEF IsLatestPause
    <2>3. is_paused' = is_paused
      BY <1>0, <1>4, <2>1 DEF is_paused
    <2>4. CASE is_paused
      <3>1. PICK i \in DOMAIN history : IsLatestPause(i)
        BY <2>4 DEF LogInv
      <3>2. i \in DOMAIN history' /\ IsLatestPause(i)'
        BY <2>2, <3>1
      <3>3. StashedConfig = history[i].previous_toml
        BY <1>3, <2>4, <3>1, StashIsLatest
      <3>4. \A j \in DOMAIN history' : IsLatestPause(j)' => j = i
        BY <1>4, <3>2 DEF IsLatestPause
      <3>5. (CHOOSE j \in DOMAIN history' : IsLatestPause(j)') = i
        BY <3>2, <3>4
      <3>6. StashedConfig' = history'[i].previous_toml
        BY <2>3, <2>4, <3>5 DEF StashedConfig
      <3> QED
        BY <1>4, <1>5, <1>8, <2>3, <3>1, <3>2, <3>3, <3>6
    <2>5. CASE ~is_paused
      BY <1>5, <1>8, <2>3, <2>5 DEF StashedConfig
    <2> QED
      BY <2>4, <2>5
  <1> QED
    BY <1>6, <1>7, <1>8

\* With one handler in progress, none of the others holds anything.
LEMMA OthersRest ==
  ASSUME LogInv, NEW r \in Requests, req[r].pc \notin {"idle", "done"}
  PROVE  \A q \in Requests : q # r => req[q].pc \in {"idle", "done"}
  BY DEF LogInv, SerialInv, Serial, Active

\* A serial step that is not an insertion keeps the log invariant.
LEMMA LogStepHandler ==
  ASSUME ~Overlap, MakerInv, LogInv, SerialInv', NEW r \in Requests,
         Arrivals(r) \/ Step(r), ~InsertHistory(r)
  PROVE  LogInv'
  <1>0. /\ req \in [Requests -> Request] /\ TypeOK
        /\ \A q \in Requests : q # r => req'[q] = req[q]
    BY OthersStay DEF MakerInv, TypeOK
  <1>1. CASE Arrivals(r)
    <2>1. /\ UNCHANGED <<cm, history>> /\ \A q \in Requests : ~Active(q)
          /\ req[r].pc = "idle"
      BY <1>1 DEF Arrivals, ArrivePause, ArriveResume, ArriveSave, ArriveTick,
             ArriveApply, Arrive
    <2>2. \A q \in Requests : req[q].alive /\ req[q].pc \in {"idle", "done"}
      BY <2>1 DEF LogInv, Active
    <2>3. /\ req'[r].alive
          /\ req'[r].pc \in {"load_pause", "check_paused", "read_cm", "recommend"}
          /\ req'[r].op = "resume" => req'[r].pc = "load_pause"
      BY <1>0, <1>1, <2>2 DEF Arrivals, ArrivePause, ArriveResume, ArriveSave,
             ArriveTick, ArriveApply, Request
    <2>4. cm = LoggedConfig /\ \A q \in Requests : req'[q].pc \notin {"bump", "insert"}
      BY <1>0, <2>2, <2>3 DEF LogInv
    <2> QED
      BY <1>0, <2>1, <2>3, <2>4, LogMoves
  <1>2. CASE \/ PauseCheck(r) \/ ResumeLoad(r) \/ ResumeCheck(r)
             \/ TickCheckPaused(r) \/ TickRecommend(r) \/ ApplyRecommend(r)
             \/ TickCooldown(r) \/ TickInFlight(r) \/ ReadConfig(r) \/ MarkApplied(r)
    <2> USE DEF PauseCheck, ResumeLoad, ResumeCheck, TickCheckPaused, TickRecommend,
                ApplyRecommend, TickCooldown, TickInFlight, ReadConfig, MarkApplied, At
    <2>1. /\ UNCHANGED <<cm, history>> /\ req[r].alive
          /\ req[r].pc \notin {"idle", "done", "bump", "insert"}
      BY <1>2
    <2>2. /\ req'[r].alive /\ req'[r].op = req[r].op
          /\ req'[r].pc \notin {"write_cm", "bump", "insert"}
      BY <1>0, <1>2 DEF Request, Goto
    <2>3. cm = LoggedConfig /\ \A q \in Requests : req'[q].pc \notin {"bump", "insert"}
      BY <1>0, <2>1, <2>2, OthersRest DEF LogInv
    <2>4. req'[r].op = "resume" /\ req'[r].pc = "read_cm" => req'[r].new = StashedConfig
      <3> SUFFICES ASSUME req'[r].op = "resume", req'[r].pc = "read_cm"
                   PROVE  req'[r].new = StashedConfig
        OBVIOUS
      <3>1. ResumeCheck(r) /\ is_paused /\ req'[r].new = req[r].new
        BY <1>0, <1>2, <2>2 DEF Goto, Request
      <3> QED
        BY <3>1 DEF LogInv
    <2>5. req'[r].op = "resume" /\ req'[r].pc = "check_paused" /\ is_paused =>
            req'[r].new = StashedConfig
      <3> SUFFICES ASSUME req'[r].op = "resume", req'[r].pc = "check_paused", is_paused
                   PROVE  req'[r].new = StashedConfig
        OBVIOUS
      <3>1. ResumeLoad(r)
        BY <1>0, <1>2, <2>2 DEF Goto, Request
      <3>2. PICK i \in DOMAIN history :
              IsLatestPause(i) /\ req'[r].new = history[i].previous_toml
        BY <1>0, <3>1 DEF Goto, Request
      <3> QED
        BY <3>2, <1>0, StashIsLatest DEF TypeOK
    <2> QED
      BY <1>0, <2>1, <2>2, <2>3, <2>4, <2>5, LogMoves
  <1>3. CASE ReadCm(r)
    <2>1. /\ UNCHANGED <<cm, history>> /\ req[r].alive /\ req[r].pc = "read_cm"
      BY <1>3 DEF ReadCm
    <2>2. /\ req'[r].alive /\ req'[r].op = req[r].op /\ req'[r].pc = "write_cm"
          /\ req'[r].prev = cm
          /\ req'[r].new = IF req[r].op = "pause" THEN OffMarket(cm) ELSE req[r].new
      BY <1>0, <1>3 DEF ReadCm, Request
    <2>3. cm = LoggedConfig /\ \A q \in Requests : req'[q].pc \notin {"bump", "insert"}
      BY <1>0, <2>1, <2>2, OthersRest DEF LogInv
    <2>4. req[r].op = "resume" => req[r].new = StashedConfig
      BY <2>1 DEF LogInv
    <2>5. req'[r].op = "resume" => req'[r].new = StashedConfig
      BY <2>2, <2>4
    <2>6. req'[r].op = "pause" => req'[r].new = OffMarket(LoggedConfig)
      BY <2>2, <2>3
    <2> QED
      BY <1>0, <2>1, <2>2, <2>3, <2>5, <2>6, LogMoves
  <1>4. CASE WriteCm(r) \/ Bump(r)
    <2>1. /\ UNCHANGED history /\ req[r].alive /\ req[r].pc \in {"write_cm", "bump"}
      BY <1>4 DEF WriteCm, Bump
    <2>2. /\ req'[r].alive /\ req'[r].op = req[r].op /\ req'[r].pc \in {"bump", "insert"}
          /\ req'[r].prev = req[r].prev /\ req'[r].new = req[r].new
      BY <1>0, <1>4 DEF WriteCm, Bump, Goto, Request
    <2>3. cm' = req[r].new
      BY <1>4 DEF WriteCm, Bump, LogInv
    <2>4. \A q \in Requests : req'[q].pc \in {"bump", "insert"} => q = r
      BY <1>0, <2>1, OthersRest
    <2>5. /\ req[r].prev = LoggedConfig
          /\ req[r].op = "pause" => req[r].new = OffMarket(LoggedConfig)
          /\ req[r].op = "resume" => req[r].new = StashedConfig
      BY <2>1 DEF LogInv
    <2> QED
      BY <1>0, <2>1, <2>2, <2>3, <2>4, <2>5, LogMoves
  <1> QED
    BY <1>1, <1>2, <1>3, <1>4 DEF Step

\* The log invariant is inductive as long as no handler is cut short.
LEMMA LogStep ==
  ~Overlap /\ "handler" \notin Faults /\ MakerInv /\ LogInv /\ [Next]_vars => LogInv'
  <1> SUFFICES ASSUME ~Overlap, "handler" \notin Faults, MakerInv, LogInv, [Next]_vars
               PROVE  LogInv'
    OBVIOUS
  <1>0. SerialInv' /\ TypeOK /\ req \in [Requests -> Request]
    BY SerialStep DEF LogInv, MakerInv, TypeOK
  <1>1. ASSUME NEW r \in Requests, InsertHistory(r) PROVE LogInv'
    <2>1. /\ cm' = cm /\ req[r].pc = "insert"
          /\ \A q \in Requests : q # r => req'[q] = req[q]
      BY <1>0, <1>1, OthersStay DEF InsertHistory, Step
    <2>2. req'[r].alive /\ req'[r].pc \in {"mark", "done"}
      BY <1>0, <1>1 DEF InsertHistory, Request
    <2>3. \A q \in Requests : req'[q].alive /\ req'[q].pc \in {"idle", "mark", "done"}
      BY <2>1, <2>2, OthersRest DEF LogInv
    <2>4. cm' = LoggedConfig'
      BY <1>1, <2>1, RowLogged DEF LogInv
    <2>5. is_paused' => \E i \in DOMAIN history' : IsLatestPause(i)'
      BY <1>1, RowLogged
    <2> QED
      BY <1>0, <2>3, <2>4, <2>5 DEF LogInv
  <1>2. CASE \/ StartPod \/ PodRestarts \/ SwapStarts \/ SwapCompletes
             \/ Elapse \/ Finished \/ UNCHANGED vars
    <2>1. UNCHANGED <<cm, history, req>>
      BY <1>2 DEF StartPod, PodRestarts, SwapStarts, SwapCompletes, Elapse, Finished, vars
    <2> QED
      BY <1>0, <2>1 DEF LogInv, is_paused, IsLatestPause, LoggedConfig, StashedConfig
  <1> QED
    BY <1>0, <1>1, <1>2, LogStepHandler DEF Next, Abort

\* Every insertion is one atomic operation, every other step a stutter.
LEMMA AtomicStep ==
  MakerInv /\ LogInv /\ LogInv' /\ [Next]_vars => [Atomic!Next]_(Atomic!atomicVars)
  <1> SUFFICES ASSUME MakerInv, LogInv, [Next]_vars
               PROVE  Atomic!Next \/ UNCHANGED Atomic!atomicVars
    OBVIOUS
  <1>1. ASSUME NEW r \in Requests, InsertHistory(r) PROVE Atomic!Next
    <2>1. /\ req[r].prev = LoggedConfig /\ req[r].new \in Toml
          /\ req[r].op = "pause" => req[r].new = OffMarket(LoggedConfig) /\ ~is_paused
          /\ req[r].op = "resume" => req[r].new = StashedConfig
      BY <1>1 DEF InsertHistory, LogInv, SerialInv, Checked, Committed, Active,
             MakerInv, LocalsRead
    <2>2. CASE req[r].op = "pause"
      BY <1>1, <2>1, <2>2, RowLogged
         DEF Atomic!Next, Atomic!Pause, Atomic!Paused, StashedConfig
    <2>3. CASE req[r].op = "resume"
      BY <1>1, <2>1, <2>3, RowLogged, MakerAssumption
         DEF Atomic!Next, Atomic!Resume, Atomic!Paused
    <2>4. CASE req[r].op \notin {"pause", "resume"}
      BY <1>1, <2>1, <2>4, RowLogged DEF Atomic!Next, Atomic!Edit
    <2> QED
      BY <2>2, <2>3, <2>4
  <1>2. ASSUME UNCHANGED history PROVE UNCHANGED Atomic!atomicVars
    BY <1>2 DEF Atomic!atomicVars, LoggedConfig, StashedConfig, is_paused, IsLatestPause
  <1>3. ASSUME NEW r \in Requests, Arrivals(r) \/ Step(r) \/ Abort(r), ~InsertHistory(r)
        PROVE  UNCHANGED history
    BY <1>3 DEF Arrivals, ArrivePause, ArriveResume, ArriveSave, ArriveTick,
       ArriveApply, Arrive, Step, PauseCheck, ResumeLoad, ResumeCheck,
       TickCheckPaused, TickRecommend, ApplyRecommend, TickCooldown, TickInFlight,
       ReadConfig, ReadCm, WriteCm, Bump, MarkApplied, Abort
  <1>4. CASE \/ StartPod \/ PodRestarts \/ SwapStarts \/ SwapCompletes
             \/ Elapse \/ Finished \/ UNCHANGED vars
    BY <1>2, <1>4 DEF StartPod, PodRestarts, SwapStarts, SwapCompletes, Elapse,
       Finished, vars
  <1> QED
    BY <1>1, <1>2, <1>3, <1>4 DEF Next

\* The state at the start has logged nothing.
LEMMA LogInit == Init => LogInv
  <1> SUFFICES ASSUME Init PROVE LogInv
    OBVIOUS
  <1>1. SerialInv
    BY DEF Init, SerialInv, Serial, Checked, Active, Fresh, PauseResumeAlternate, Committed
  <1>2. \A r \in Requests : req[r].alive /\ req[r].op = "none" /\ req[r].pc = "idle"
    BY AtRest
  <1>3. ~is_paused /\ cm = LoggedConfig
    BY DEF Init, is_paused, LoggedConfig
  <1> QED
    BY <1>1, <1>2, <1>3 DEF LogInv

\* Handlers that run one after the other, each to its end, implement the
\* atomic maker controls, whatever asb, time and failing reads do
\* (maker.rs:150-153, 178-181, 236-238).
THEOREM MakerImplementsAtomic ==
  ASSUME ~Overlap, "handler" \notin Faults
  PROVE  Spec => ImplementsAtomic
  <1>1. Init => LogInv
    BY LogInit
  <1>2. MakerInv /\ LogInv /\ [Next]_vars => LogInv'
    BY LogStep
  <1>3. Init => Atomic!Init
    BY DEF Init, Atomic!Init, LoggedConfig, StashedConfig, is_paused
  <1>4. MakerInv /\ LogInv /\ LogInv' /\ [Next]_vars => [Atomic!Next]_(Atomic!atomicVars)
    BY AtomicStep
  <1> QED
    BY <1>1, <1>2, <1>3, <1>4, MakerInvariant, PTL
       DEF Spec, ImplementsAtomic, Atomic!Spec

-----------------------------------------------------------------------------
(* What a resume brings back                                               *)

Live(toml) == toml.ask_spread # PauseSpread /\ toml.max_buy_btc # PauseBuy

\* Whatever is in force while not paused, and whatever is set aside while
\* paused, is live; so is what an edit of a running maker is about to write.
LiveInv ==
  /\ ~is_paused => Live(LoggedConfig)
  /\ is_paused => Live(StashedConfig)
  /\ \A r \in Requests :
       /\ req[r].op \notin {"pause", "resume"}
       /\ req[r].pc \in {"read_cm", "write_cm", "bump", "insert"}
       /\ ~is_paused
       => Live(req[r].new)
  /\ ResumeRestoresLive

\* A step that inserts no row leaves what the rows say; the text of an edit is
\* a submitted form, or a recommended spread in a configuration that is live.
LEMMA LiveMoves ==
  ASSUME LiveInv, NEW r \in Requests, UNCHANGED history,
         \A q \in Requests : q # r => req'[q] = req[q],
         /\ req'[r].op \notin {"pause", "resume"}
         /\ req'[r].pc \in {"read_cm", "write_cm", "bump", "insert"}
         /\ ~is_paused
         => Live(req'[r].new)
  PROVE  LiveInv'
  <1>1. /\ is_paused' = is_paused /\ LoggedConfig' = LoggedConfig
        /\ StashedConfig' = StashedConfig /\ ResumeRestoresLive'
    BY DEF is_paused, LoggedConfig, StashedConfig, IsLatestPause, LiveInv, ResumeRestoresLive
  <1>2. ASSUME NEW q \in Requests,
               req'[q].op \notin {"pause", "resume"},
               req'[q].pc \in {"read_cm", "write_cm", "bump", "insert"},
               ~is_paused
        PROVE  Live(req'[q].new)
    BY <1>2 DEF LiveInv
  <1> QED
    BY <1>1, <1>2 DEF LiveInv, Live

\* The live texts stay where they belong.
LEMMA LiveStep ==
  ASSUME \A form \in Forms : Live(form),
         MakerInv, LogInv, LiveInv, [Next]_vars
  PROVE  LiveInv'
  <1>0. TypeOK /\ req \in [Requests -> Request]
    BY DEF MakerInv, TypeOK
  <1>1. ASSUME NEW r \in Requests, Arrivals(r) PROVE LiveInv'
    <2>1. history' = history
      BY <1>1 DEF Arrivals, Arrive, ArrivePause, ArriveResume, ArriveSave, ArriveTick, ArriveApply
    <2>2. req'[r].pc = "read_cm" => req'[r].new \in Forms
      BY <1>0, <1>1 DEF Arrivals, ArrivePause, ArriveResume, ArriveSave, ArriveTick,
             ArriveApply, Request
    <2>3. req'[r].pc \notin {"write_cm", "bump", "insert"}
      BY <1>0, <1>1 DEF Arrivals, ArrivePause, ArriveResume, ArriveSave, ArriveTick,
             ArriveApply, Request
    <2> QED
      BY <1>0, <1>1, <2>1, <2>2, <2>3, OthersStay, LiveMoves
  <1>2. ASSUME NEW r \in Requests, Step(r) \/ Abort(r), ~InsertHistory(r), ~ReadConfig(r)
        PROVE  LiveInv'
    <2>1. history' = history /\ req'[r].op = req[r].op
      BY <1>0, <1>2 DEF Step, PauseCheck, ResumeLoad, ResumeCheck, TickCheckPaused,
             TickRecommend, ApplyRecommend, TickCooldown, TickInFlight, ReadCm,
             WriteCm, Bump, MarkApplied, Abort, Goto, Request
    <2>2. req[r].op \notin {"pause", "resume"} /\ req'[r].pc \in {"read_cm", "write_cm", "bump", "insert"} =>
            /\ req[r].pc \in {"read_cm", "write_cm", "bump", "insert"}
            /\ req'[r].new = req[r].new
      BY <1>0, <1>2 DEF Step, PauseCheck, ResumeLoad, ResumeCheck, TickCheckPaused,
             TickRecommend, ApplyRecommend, TickCooldown, TickInFlight, ReadCm,
             WriteCm, Bump, MarkApplied, Abort, Goto, At, Request
    <2> QED
      BY <1>0, <1>2, <2>1, <2>2, OthersStay, LiveMoves DEF LiveInv
  <1>3. ASSUME NEW r \in Requests, ReadConfig(r) PROVE LiveInv'
    <2>1. history' = history /\ req[r].pc = "read_config"
      BY <1>3 DEF ReadConfig, At
    <2>2. cm = LoggedConfig
      BY <2>1, OthersRest DEF LogInv
    <2>3. PICK recommended \in AskSpreads :
            req'[r].new = [cm EXCEPT !.ask_spread = recommended]
      BY <1>0, <1>3 DEF ReadConfig, Request
    <2>4. ~is_paused => Live(req'[r].new)
      BY <1>0, <2>2, <2>3, MakerAssumption DEF LiveInv, Live, TypeOK, Toml
    <2> QED
      BY <1>0, <1>3, <2>1, <2>4, OthersStay, LiveMoves DEF Step
  <1>4. ASSUME NEW r \in Requests, InsertHistory(r) PROVE LiveInv'
    <2> DEFINE row == [previous_toml |-> req[r].prev, new_toml |-> req[r].new,
                       notes |-> NotesOf(req[r].op)]
    <2>1. /\ history' = Append(history, row) /\ req[r].pc = "insert" /\ req[r].alive
          /\ row.new_toml = req[r].new /\ row.notes = NotesOf(req[r].op)
      BY <1>4 DEF InsertHistory
    <2> HIDE DEF row
    <2>2. /\ req[r].prev = LoggedConfig
          /\ req[r].op = "pause" => ~is_paused
          /\ req[r].op = "resume" => req[r].new = StashedConfig /\ is_paused
      BY <2>1 DEF LogInv, SerialInv, Checked, Committed, Active
    <2>3. req[r].op \notin {"pause", "resume"} /\ ~is_paused => Live(req[r].new)
      BY <2>1 DEF LiveInv
    <2>4. \A q \in Requests : req'[q].pc \in {"idle", "mark", "done"}
      <3>1. \A q \in Requests : q # r => req'[q].pc \in {"idle", "done"}
        BY <1>0, <1>4, <2>1, OthersStay, OthersRest DEF Step
      <3>2. req'[r].pc \in {"mark", "done"}
        BY <1>0, <1>4 DEF InsertHistory, Request
      <3> QED
        BY <3>1, <3>2
    <2>5. req[r].op = "resume" => Live(req[r].new)
      BY <2>2 DEF LiveInv
    <2>6. ResumeRestoresLive'
      <3>1. history \in Seq(Row)
        BY <1>0 DEF TypeOK
      <3>2. row.notes = RESUME_MARKER => Live(row.new_toml)
        BY <2>1, <2>5 DEF NotesOf, RESUME_MARKER, PAUSE_MARKER, NoNotes
      <3>3. row \in Row
        BY <2>1, NotesInRow DEF MakerInv, LocalsRead, row, Row
      <3>4. \A i \in DOMAIN history' : history'[i] = row \/ (i \in DOMAIN history /\ history'[i] = history[i])
        BY <2>1, <3>1, <3>3
      <3> QED
        BY <3>2, <3>4 DEF LiveInv, ResumeRestoresLive, Live
    <2>7. /\ LoggedConfig' = req[r].new
          /\ req[r].op = "pause" => is_paused' /\ StashedConfig' = LoggedConfig
          /\ req[r].op = "resume" => ~is_paused'
          /\ req[r].op \notin {"pause", "resume"} => StashedConfig' = StashedConfig
      BY <1>4, <2>2, RowLogged
    <2>8. req[r].op \notin {"pause", "resume"} => is_paused' = is_paused
      BY <1>4, RowLogged
    <2> QED
      BY <2>2, <2>3, <2>4, <2>5, <2>6, <2>7, <2>8 DEF LiveInv, Live
  <1>5. CASE \/ StartPod \/ PodRestarts \/ SwapStarts \/ SwapCompletes
             \/ Elapse \/ Finished \/ UNCHANGED vars
    <2>1. UNCHANGED <<history, req>>
      BY <1>5 DEF StartPod, PodRestarts, SwapStarts, SwapCompletes, Elapse, Finished, vars
    <2> QED
      BY <2>1 DEF LiveInv, Live, is_paused, IsLatestPause, LoggedConfig, StashedConfig,
                  ResumeRestoresLive
  <1> QED
    BY <1>1, <1>2, <1>3, <1>4, <1>5 DEF Next, Step

\* Resume never puts the maker back off-market, as long as handlers neither
\* overlap nor are cut short and the operator submits live configurations
\* (maker.rs:236-238, 267-269); the run maker_retried_pause shows a cut one.
THEOREM MakerResumeRestoresLive ==
  ASSUME ~Overlap, "handler" \notin Faults,
         Live(InitialToml), \A form \in Forms : Live(form)
  PROVE  Spec => []ResumeRestoresLive
  <1>1. Init => LiveInv
    <2> SUFFICES ASSUME Init PROVE LiveInv
      OBVIOUS
    <2>1. history = <<>> /\ \A r \in Requests : req[r].pc = "idle"
      BY AtRest DEF Init
    <2> QED
      BY <2>1 DEF LiveInv, is_paused, LoggedConfig, ResumeRestoresLive
  <1>2. MakerInv /\ LogInv /\ [Next]_vars => LogInv'
    BY LogStep
  <1>3. MakerInv /\ LogInv /\ LiveInv /\ [Next]_vars => LiveInv'
    BY LiveStep
  <1>4. LiveInv => ResumeRestoresLive
    BY DEF LiveInv
  <1> QED
    BY <1>1, <1>2, <1>3, <1>4, LogInit, MakerInvariant, PTL DEF Spec

-----------------------------------------------------------------------------
(* asb settles                                                             *)

\* Handlers are not cut short, and none is in progress when time runs out, so
\* that asb always has a later second to come up in.
SettleInv ==
  /\ MakerInv
  /\ \A r \in Requests : req[r].alive
  /\ \A r \in Requests : Active(r) => clock < MaxClock
  /\ rolledAt < clock \/ clock < MaxClock

\* A step of a handler is the step of one that is active.
LEMMA StepIsActive ==
  ASSUME NEW r \in Requests, Step(r) \/ Abort(r) PROVE Active(r)
  BY DEF Step, PauseCheck, ResumeLoad, ResumeCheck, TickCheckPaused, TickRecommend,
         ApplyRecommend, TickCooldown, TickInFlight, ReadConfig, ReadCm, WriteCm, Bump,
         InsertHistory, MarkApplied, Abort, At, Active

\* Every step leaves asb that second.
LEMMA SettleStep ==
  ASSUME "handler" \notin Faults, SettleInv, [Next]_vars PROVE SettleInv'
  <1> USE MakerAssumption
  <1>1. /\ MakerInv /\ MakerInv' /\ req \in [Requests -> Request]
        /\ clock \in Nat /\ rolledAt \in Nat /\ rolledAt <= clock
    BY NextMakerInv DEF SettleInv, MakerInv, TypeOK, RolloutsInThePast
  <1>2. ASSUME NEW r \in Requests, Arrivals(r) PROVE SettleInv'
    <2>1. /\ clock' = clock /\ rolledAt' = rolledAt /\ clock < MaxClock
          /\ \A q \in Requests : req'[q].alive = req[q].alive
      BY <1>1, <1>2 DEF Arrivals, Arrive, ArrivePause, ArriveResume, ArriveSave, ArriveTick,
             ArriveApply, cluster, Request
    <2> QED
      BY <1>1, <2>1 DEF SettleInv
  <1>3. ASSUME NEW r \in Requests, Step(r) PROVE SettleInv'
    <2>1. clock' = clock /\ rolledAt' \in {rolledAt, clock}
      BY <1>3 DEF Step, PauseCheck, ResumeLoad, ResumeCheck, TickCheckPaused,
             TickRecommend, ApplyRecommend, TickCooldown, TickInFlight, ReadConfig,
             ReadCm, WriteCm, Bump, InsertHistory, MarkApplied, cluster
    <2>3. ASSUME NEW q \in Requests PROVE req'[q].alive
      <3>1. req[q].alive
        BY DEF SettleInv
      <3>2. CASE PauseCheck(r) \/ ResumeLoad(r) \/ ResumeCheck(r)
        BY <1>1, <3>1, <3>2 DEF PauseCheck, ResumeLoad, ResumeCheck, Goto, Request
      <3>3. CASE TickRecommend(r) \/ TickCooldown(r) \/ TickInFlight(r)
        BY <1>1, <3>1, <3>3 DEF TickRecommend, TickCooldown, TickInFlight, Goto, Request
      <3>4. CASE TickCheckPaused(r)
        <4>1. CASE Goto(r, "done")
          BY <1>1, <3>1, <4>1 DEF Goto, Request
        <4>2. CASE req' = [req EXCEPT ![r].pc = "recommend", ![r].seen = Len(history)]
          BY <1>1, <3>1, <4>2 DEF Request
        <4> QED
          BY <3>4, <4>1, <4>2 DEF TickCheckPaused
      <3>5. CASE ApplyRecommend(r) \/ ReadConfig(r) \/ ReadCm(r)
        BY <1>1, <3>1, <3>5 DEF ApplyRecommend, ReadConfig, ReadCm, Goto, Request
      <3>6. CASE WriteCm(r) \/ Bump(r) \/ MarkApplied(r)
        BY <1>1, <3>1, <3>6 DEF WriteCm, Bump, MarkApplied, Goto, Request
      <3>7. CASE InsertHistory(r)
        BY <1>1, <3>1, <3>7 DEF InsertHistory, Request
      <3> QED
        BY <1>3, <3>2, <3>3, <3>4, <3>5, <3>6, <3>7 DEF Step
    <2>2. clock < MaxClock
      BY <1>3, StepIsActive DEF SettleInv
    <2> QED
      BY <1>1, <2>1, <2>2, <2>3 DEF SettleInv
  <1>4. CASE Elapse
    <2>1. /\ clock' = clock + 1 /\ req' = req /\ rolledAt' = rolledAt
          /\ clock < MaxClock /\ (clock + 1 = MaxClock => Quiet)
      BY <1>4 DEF Elapse, cluster
    <2>2. (\E r \in Requests : Active(r)) => clock + 1 < MaxClock
      BY <1>1, <2>1 DEF Quiet
    <2> QED
      BY <1>1, <2>1, <2>2 DEF SettleInv, Active
  <1>5. CASE StartPod \/ PodRestarts \/ SwapStarts \/ SwapCompletes \/ Finished
             \/ UNCHANGED vars
    <2>1. UNCHANGED <<req, clock, rolledAt>>
      BY <1>5 DEF StartPod, PodRestarts, SwapStarts, SwapCompletes, Finished, vars, cluster
    <2> QED
      BY <1>1, <2>1 DEF SettleInv, Active
  <1>6. ASSUME NEW r \in Requests PROVE ~Abort(r)
    BY DEF Abort
  <1> QED
    BY <1>2, <1>3, <1>4, <1>5, <1>6 DEF Next

\* At the start no handler was called.
LEMMA SettleInit == Init => SettleInv
  <1> SUFFICES ASSUME Init PROVE SettleInv
    OBVIOUS
  <1>1. \A r \in Requests : req[r].alive /\ req[r].pc = "idle"
    BY DEF Init, Fresh
  <1>2. rolledAt < clock
    BY DEF Init
  <1> QED
    BY <1>1, <1>2, InitMakerInv DEF SettleInv, Active

\* What asb still has to do it can do: come up, in a later second, and end the
\* swaps that it has.
AsbGoesOn ==
  /\ rolling /\ rolledAt < clock => ENABLED <<StartPod>>_vars
  /\ Quiet /\ clock < MaxClock => ENABLED <<Elapse>>_vars
  /\ swap /\ ~rolling => ENABLED <<SwapCompletes>>_vars

Synced == running = cm
TimeUp == rolledAt < clock

\* While no handler is in progress, the configuration stays, an asb that runs
\* another one is coming up, and one that has come up runs it for good.
LEMMA QuietInOrder ==
  ASSUME SettleInv, [Next]_vars, Quiet, Quiet'
  PROVE  /\ cm' = cm
         /\ ~Synced => rolling
         /\ Synced => Synced'
         /\ TimeUp => TimeUp'
         /\ ~TimeUp => clock < MaxClock
         /\ "pod" \notin Faults => (~rolling => ~rolling')
         /\ running.max_buy_btc = PauseBuy /\ ~swap => ~swap'
  <1>1. /\ clock \in Nat /\ rolledAt \in Nat /\ req \in [Requests -> Request]
        /\ MakerInv /\ \A r \in Requests : req[r].alive
    BY DEF SettleInv, MakerInv, TypeOK
  <1>2. ~TimeUp => clock < MaxClock
    BY DEF SettleInv, TimeUp
  <1>3. ~Synced => rolling
    <2>1. \A r \in Requests : req[r].pc # "bump"
      BY <1>1 DEF Quiet, Active
    <2> QED
      BY <1>1, <2>1 DEF MakerInv, StaleAsbAccounted, Synced
  <1>4. ASSUME NEW r \in Requests PROVE ~Step(r) /\ ~Abort(r)
    BY StepIsActive DEF Quiet
  <1>5. ASSUME NEW r \in Requests PROVE ~Arrivals(r)
    <2> SUFFICES ASSUME Arrivals(r) PROVE FALSE
      OBVIOUS
    <2>1. req'[r].alive /\ req'[r].pc \notin {"idle", "done"}
      BY <1>1 DEF Arrivals, ArrivePause, ArriveResume, ArriveSave, ArriveTick,
             ArriveApply, Request
    <2> QED
      BY <2>1 DEF Quiet, Active
  <1> USE DEF Synced, TimeUp
  <1>6. CASE Elapse
    BY <1>1, <1>2, <1>3, <1>6 DEF Elapse, cluster
  <1>7. CASE StartPod
    BY <1>1, <1>2, <1>3, <1>7 DEF StartPod
  <1>8. CASE PodRestarts
    BY <1>1, <1>2, <1>3, <1>8 DEF PodRestarts
  <1>9. CASE SwapStarts \/ SwapCompletes \/ Finished \/ UNCHANGED vars
    BY <1>1, <1>2, <1>3, <1>9 DEF SwapStarts, SwapCompletes, Finished, vars, cluster
  <1> QED
    BY <1>4, <1>5, <1>6, <1>7, <1>8, <1>9 DEF Next

\* What time, Kubernetes and asb do when they do it.
LEMMA AsbMoves ==
  ASSUME SettleInv
  PROVE  /\ StartPod => Synced' /\ ~rolling'
         /\ Elapse => TimeUp'
         /\ SwapCompletes => ~swap'
  <1>1. clock \in Nat /\ rolledAt \in Nat /\ rolledAt <= clock
    BY DEF SettleInv, MakerInv, TypeOK, RolloutsInThePast
  <1> QED
    BY <1>1 DEF StartPod, Elapse, SwapCompletes, Synced, TimeUp, cluster

\* Once the calls have been answered, asb settles on the configuration that the
\* last of them left, however they overlapped (maker.rs:135-138), also if its pod
\* restarts by itself now and then: no handler that runs to its end leaves a
\* configuration behind that asb never reads.
THEOREM MakerAsbConverges ==
  ASSUME "handler" \notin Faults
  PROVE  FairSpec /\ []AsbGoesOn /\ <>[]Quiet => AsbConverges
  <1>1. Init => SettleInv
    BY SettleInit
  <1>2. SettleInv /\ [Next]_vars => SettleInv'
    BY SettleStep
  <1>3. ASSUME SettleInv, [Next]_vars, Quiet, Quiet'
        PROVE  /\ ~Synced => rolling
               /\ Synced => Synced'
               /\ TimeUp => TimeUp'
               /\ ~TimeUp => clock < MaxClock
    BY <1>3, QuietInOrder
  <1>4. ASSUME SettleInv, <<StartPod>>_vars PROVE Synced'
    BY <1>4, AsbMoves
  <1>5. ASSUME SettleInv, <<Elapse>>_vars PROVE TimeUp'
    BY <1>5, AsbMoves
  <1>6. AsbGoesOn => /\ rolling /\ TimeUp => ENABLED <<StartPod>>_vars
                     /\ Quiet /\ clock < MaxClock => ENABLED <<Elapse>>_vars
    BY DEF AsbGoesOn, TimeUp
  <1>7. Synced <=> running = cm
    BY DEF Synced
  <1> QED
    BY <1>1, <1>2, <1>3, <1>4, <1>5, <1>6, <1>7, PTL
       DEF FairSpec, Spec, Fairness, AsbConverges

\* Once the calls have been answered and the maker stays paused with the
\* off-market configuration, every swap ends and no new one starts
\* (docs/RECYCLE.md, Step 1), when asb does not restart for ever.
THEOREM MakerPauseDrains ==
  ASSUME "handler" \notin Faults, "pod" \notin Faults
  PROVE  DrainSpec /\ []AsbGoesOn /\ <>[]Quiet => PauseDrains
  <1> DEFINE Off == cm = OffMarket(cm)
             NoOffer == running.max_buy_btc = PauseBuy
             PausedOff == is_paused /\ cm = OffMarket(cm)
  <1>1. Init => SettleInv
    BY SettleInit
  <1>2. SettleInv /\ [Next]_vars => SettleInv'
    BY SettleStep
  <1>3. ASSUME SettleInv, [Next]_vars, Quiet, Quiet'
        PROVE  /\ Synced => Synced'
               /\ TimeUp => TimeUp'
               /\ ~TimeUp => clock < MaxClock
               /\ ~rolling => ~rolling'
               /\ NoOffer /\ ~swap => ~swap'
    BY <1>3, QuietInOrder
  <1>4. ASSUME SettleInv, <<StartPod>>_vars PROVE ~rolling'
    BY <1>4, AsbMoves
  <1>5. ASSUME SettleInv, <<SwapCompletes>>_vars PROVE ~swap'
    BY <1>5, AsbMoves
  <1>6. AsbGoesOn => /\ rolling /\ TimeUp => ENABLED <<StartPod>>_vars
                     /\ swap /\ ~rolling => ENABLED <<SwapCompletes>>_vars
    BY DEF AsbGoesOn, TimeUp
  <1>7. SettleInv /\ Synced /\ Off => NoOffer
    <2>1. SettleInv => cm \in Toml
      BY DEF SettleInv, MakerInv, TypeOK
    <2> QED
      BY <2>1 DEF Synced, OffMarket, Toml
  <1>8. FairSpec /\ []AsbGoesOn /\ <>[]Quiet => <>[](running = cm)
    BY MakerAsbConverges DEF AsbConverges
  <1>9. Synced <=> running = cm
    BY DEF Synced
  <1>10. ASSUME SettleInv, <<Elapse>>_vars PROVE TimeUp'
    BY <1>10, AsbMoves
  <1>11. AsbGoesOn => (Quiet /\ clock < MaxClock => ENABLED <<Elapse>>_vars)
    BY DEF AsbGoesOn
  <1>12. PausedOff => Off
    OBVIOUS
  <1> HIDE DEF Off, NoOffer
  <1> QED
    BY <1>1, <1>2, <1>3, <1>4, <1>5, <1>6, <1>7, <1>8, <1>9, <1>10, <1>11, <1>12, PTL
       DEF DrainSpec, FairSpec, Spec, Fairness, PauseDrains
=============================================================================
