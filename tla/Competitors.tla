---------------------------- MODULE Competitors ----------------------------
(***************************************************************************)
(* Competitor scans (src/src/server/api/competitors.rs): a Kubernetes Job  *)
(* per scan, watched by a task that lives in the console's memory.         *)
(*                                                                         *)
(* Scans are numbered in the order their rows are inserted, by the poller  *)
(* (every tick, src/src/server/pollers/competitor_scan.rs) or by "Scan     *)
(* now".  A watcher polls its Job at a fixed pace, so that polls also      *)
(* count time.  What list-sellers finds is external.                       *)
(***************************************************************************)
EXTENDS TierRecommendation, Sequences

CONSTANTS
  MaxScans,   \* bound on the scans
  PollLimit,  \* polls of a Job before its watcher gives up
  Listings,   \* what a Job may list: functions from peers to spreads or Disabled
  OurSpreads, \* spreads asb may quote for us
  Disabled,   \* a seller without an offer
  Nothing,    \* a Job's output without a list
  Faults      \* which faults happen, a subset of FaultKinds

\* "kube": an API call fails; "db": a statement fails; "crash": the console
\* restarts.
FaultKinds == {"kube", "db", "crash"}

Scans == 1 .. MaxScans

ASSUME CompetitorsAssumption ==
  /\ MaxScans \in Nat /\ PollLimit \in Nat \ {0}
  /\ Nothing \notin Listings
  /\ \A l \in Listings :
       IsFiniteSet(DOMAIN l) /\ \A p \in DOMAIN l : l[p] \in Int \cup {Disabled}
  /\ OurSpreads \subseteq Int
  /\ Disabled \notin Int
  /\ Faults \subseteq FaultKinds

VARIABLES
  started,    \* the number of rows in competitor_scans
  watcher,    \* where the task of each scan is
  job,        \* each scan's Job: "none", "running" or "ended"
  output,     \* what it listed
  polls,      \* polls done by each watcher
  logs,       \* what each watcher read
  quotes,     \* rows of competitor_quotes of each scan
  completed   \* scans with completed_at, in its order

vars == <<started, watcher, job, output, polls, logs, quotes, completed>>

\* "gave_up": the polls are used up; "lost": the task has ended by a fault.
Watchers == {"none", "create", "poll", "persist", "complete", "done", "gave_up", "lost"}

-----------------------------------------------------------------------------

Init ==
  /\ started = 0
  /\ watcher = [s \in Scans |-> "none"]
  /\ job = [s \in Scans |-> "none"]
  /\ output = [s \in Scans |-> Nothing]
  /\ polls = [s \in Scans |-> 0]
  /\ logs = [s \in Scans |-> Nothing]
  /\ quotes = [s \in Scans |-> <<>>]
  /\ completed = <<>>

Goto(s, pc) == watcher' = [watcher EXCEPT ![s] = pc]

\* trigger inserts a row, whatever ran recently ...
Trigger ==
  /\ started < MaxScans
  /\ started' = started + 1
  /\ Goto(started', "create")
  /\ UNCHANGED <<job, output, polls, logs, quotes, completed>>

\* ... creates the Job, and spawns a watcher.
CreateJob(s) ==
  /\ watcher[s] = "create"
  /\ job' = [job EXCEPT ![s] = "running"]
  /\ Goto(s, "poll")
  /\ UNCHANGED <<started, output, polls, logs, quotes, completed>>

JobEnds(s) ==
  /\ job[s] = "running"
  /\ job' = [job EXCEPT ![s] = "ended"]
  /\ \E listing \in Listings \cup {Nothing} : output' = [output EXCEPT ![s] = listing]
  /\ UNCHANGED <<started, watcher, polls, logs, quotes, completed>>

\* The Job has not ended: poll again, up to the limit.  Its deadline
\* (kube_client.rs:191) is as long as all polls together, so that it may end
\* after the last one.
PollAgain(s) ==
  /\ watcher[s] = "poll"
  /\ job[s] = "running"
  /\ polls' = [polls EXCEPT ![s] = @ + 1]
  /\ Goto(s, IF polls'[s] = PollLimit THEN "gave_up" ELSE "poll")
  /\ UNCHANGED <<started, job, output, logs, quotes, completed>>

\* Slip: only a Job that succeeded counts as ended.
ReadLogsOfSuccess(s) ==
  /\ watcher[s] = "poll"
  /\ job[s] = "ended"
  /\ output[s] # Nothing
  /\ logs' = [logs EXCEPT ![s] = output[s]]
  /\ Goto(s, "persist")
  /\ UNCHANGED <<started, job, output, polls, quotes, completed>>

\* The Job has ended, well or not: its logs are read, and unreadable ones
\* count as empty.
ReadLogs(s) ==
  /\ watcher[s] = "poll"
  /\ job[s] = "ended"
  /\ \E read \in {output[s]} \cup (IF "kube" \in Faults THEN {Nothing} ELSE {}) :
       logs' = [logs EXCEPT ![s] = read]
  /\ Goto(s, "persist")
  /\ UNCHANGED <<started, job, output, polls, quotes, completed>>

Rows(read) == IF read = Nothing THEN <<>> ELSE read

\* Slip: the scan is completed first and its quotes are stored later.
PersistLater(s) ==
  /\ watcher[s] = "persist"
  /\ completed' = Append(completed, s)
  /\ Goto(s, "complete")
  /\ UNCHANGED <<started, job, output, polls, logs, quotes>>

\* parse_and_persist inserts all rows at once, or none.
Persist(s) ==
  /\ watcher[s] = "persist"
  /\ quotes' = [quotes EXCEPT ![s] = Rows(logs[s])]
  /\ Goto(s, "complete")
  /\ UNCHANGED <<started, job, output, polls, logs, completed>>

Complete(s) ==
  /\ watcher[s] = "complete"
  /\ completed' = Append(completed, s)
  /\ Goto(s, "done")
  /\ UNCHANGED <<started, job, output, polls, logs, quotes>>

Alive(s) == watcher[s] \in {"create", "poll", "persist", "complete"}

\* An error ends a trigger or a watcher; its row stays open.
CallFails(s) ==
  /\ \/ "kube" \in Faults /\ watcher[s] \in {"create", "poll"}
     \/ "db" \in Faults /\ watcher[s] \in {"persist", "complete"}
  /\ Goto(s, "lost")
  /\ UNCHANGED <<started, job, output, polls, logs, quotes, completed>>

\* Watchers live in memory.  Jobs run on.
Crash ==
  /\ "crash" \in Faults
  /\ \E s \in Scans : Alive(s)
  /\ watcher' = [s \in Scans |-> IF Alive(s) THEN "lost" ELSE watcher[s]]
  /\ UNCHANGED <<started, job, output, polls, logs, quotes, completed>>

WatcherStep(s) ==
  CreateJob(s) \/ PollAgain(s) \/ ReadLogs(s) \/ Persist(s) \/ Complete(s)

\* Nothing is left to do within the bounds.
Finished ==
  /\ started = MaxScans
  /\ \A s \in Scans : ~Alive(s) /\ job[s] # "running"
  /\ UNCHANGED vars

Next ==
  \/ Trigger
  \/ \E s \in Scans : WatcherStep(s) \/ JobEnds(s) \/ CallFails(s)
  \/ Crash
  \/ Finished

Spec == Init /\ [][Next]_vars

\* The executor runs the watchers on, and Jobs end.
ScanFairness(s) == WF_vars(WatcherStep(s)) /\ WF_vars(JobEnds(s))

FairSpec == Spec /\ \A s \in Scans : ScanFairness(s)

-----------------------------------------------------------------------------
(* Reading                                                                 *)

\* competitors::latest: the scan completed last.
Latest == completed[Len(completed)]

\* Its reachable rows.
Offers(s) ==
  [p \in {q \in DOMAIN quotes[s] : quotes[s][q] # Disabled} |-> quotes[s][p]]

-----------------------------------------------------------------------------
(* Properties                                                              *)

TypeOK ==
  /\ started \in 0 .. MaxScans
  /\ watcher \in [Scans -> Watchers]
  /\ job \in [Scans -> {"none", "running", "ended"}]
  /\ output \in [Scans -> Listings \cup {Nothing}]
  /\ polls \in [Scans -> 0 .. PollLimit]
  /\ logs \in [Scans -> Listings \cup {Nothing}]
  /\ quotes \in [Scans -> Listings \cup {<<>>}]
  /\ completed \in Seq(Scans)

\* A scan that is shown is whole, whenever its watcher stopped or failed:
\* every seller its Job listed is stored before the scan counts as complete,
\* and a scan completes once (competitors.rs:187-198).
CompletedScansAreWhole ==
  /\ \A i \in DOMAIN completed :
       LET s == completed[i]
       IN  quotes[s] \in {Rows(output[s]), <<>>} /\ quotes[s] = Rows(logs[s])
  /\ \A i, j \in DOMAIN completed : i # j => completed[i] # completed[j]

\* No Job is watched for ever, and one that has ended before its watcher gives
\* up leads to a completed scan, also when it failed or its logs cannot be read,
\* unless a fault takes the watcher away (competitors.rs:183-201).
ScansEnd ==
  \A s \in Scans :
    /\ watcher[s] = "poll" ~> watcher[s] \in {"done", "gave_up", "lost"}
    /\ watcher[s] = "poll" /\ job[s] = "ended" ~> watcher[s] \in {"done", "lost"}

\* Whatever the latest scan says and wherever our spread is, following the
\* advice leads into the tier and the next advice is to stay.
AdviceHolds ==
  completed # <<>> =>
    \A us \in OurSpreads \cup {Unknown} :
      EntersTier(Offers(Latest), us) /\ IsStable(Offers(Latest), us)
=============================================================================
