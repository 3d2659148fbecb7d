-------------------------------- MODULE Health --------------------------------
(***************************************************************************)
(* The health checks (src/src/server/api/health.rs, with the clients of    *)
(* asb, electrs and monerod) and the tile that sums them up                *)
(* (src/src/pages/overview.rs).  The checks run one after the other, each  *)
(* an await, while what they ask about changes.                            *)
(***************************************************************************)
EXTENDS Naturals, Sequences

CONSTANTS
  NoFetch,     \* no value
  MaxChanges,  \* bound on changes
  MaxFetches   \* bound on fetches

ASSUME HealthAssumption == MaxChanges \in Nat /\ MaxFetches \in Nat

\* What there is to ask about.  asb may be too old to know of its onion
\* service; the database may be up while its pool of connections is exhausted.
Conditions ==
  [asb |-> {"up", "old", "down"}, electrs |-> {"up", "down"},
   monerod |-> {"up", "syncing", "down"},
   tor |-> {"up", "bootstrapping", "down"}, peers |-> {"up", "none"},
   rendezvous |-> {"up", "partly", "refused", "unlisted"},
   db |-> {"up", "exhausted", "failing", "down"}]

Parts == DOMAIN Conditions

VARIABLES
  services, \* the condition of each part
  fetch,    \* the verdicts so far, in the order of the checks
  met,      \* the conditions since the fetch began
  changes,
  fetches

healthVars == <<services, fetch, met, changes, fetches>>

HealthInit ==
  /\ services = [part \in Parts |-> "up"]
  /\ fetch = NoFetch
  /\ met = {services}
  /\ changes = 0
  /\ fetches = 0

Change ==
  /\ changes < MaxChanges
  /\ changes' = changes + 1
  /\ \E part \in Parts : \E condition \in Conditions[part] \ {services[part]} :
       services' = [services EXCEPT ![part] = condition]
  /\ met' = met \cup {services'}
  /\ UNCHANGED <<fetch, fetches>>

-----------------------------------------------------------------------------
(* The checks                                                              *)

AsbAnswers == services.asb # "down"

\* The client takes an error of the call for its null, which means success.
check_asb == "ok"

check_electrs == IF services.electrs = "up" THEN "ok" ELSE "down"

\* bitcoind's tip is asked of electrs.
check_bitcoind_via_electrs == check_electrs

\* Slip: an error is taken for an answer, as in the check of asb.
MonerodAssumed == IF services.monerod = "syncing" THEN "degraded" ELSE "ok"

check_monerod ==
  CASE services.monerod = "up" -> "ok"
    [] services.monerod = "syncing" -> "degraded"
    [] OTHER -> "down"

\* Without a status the published addresses decide, and a failed call publishes
\* none.
check_tor ==
  IF services.asb = "up"
  THEN CASE services.tor = "up" -> "ok"
         [] services.tor = "bootstrapping" -> "degraded"
         [] OTHER -> "down"
  ELSE IF AsbAnswers /\ services.tor = "up" THEN "ok" ELSE "degraded"

check_peers ==
  IF ~AsbAnswers THEN "unknown" ELSE IF services.peers = "up" THEN "ok" ELSE "degraded"

\* Slip: registered at all of them is not registered at more than all.
RendezvousBeyond ==
  IF ~AsbAnswers \/ services.rendezvous = "unlisted" THEN "unknown"
  ELSE IF services.rendezvous = "refused" THEN "down" ELSE "degraded"

check_rendezvous ==
  IF ~AsbAnswers \/ services.rendezvous = "unlisted" THEN "unknown"
  ELSE CASE services.rendezvous = "up" -> "ok"
         [] services.rendezvous = "partly" -> "degraded"
         [] OTHER -> "down"

check_admin_db == IF services.db = "up" THEN "ok" ELSE "down"

Checks ==
  <<check_asb, check_bitcoind_via_electrs, check_monerod, check_electrs, check_tor,
    check_peers, check_rendezvous, check_admin_db>>

Start ==
  /\ fetches < MaxFetches
  /\ fetches' = fetches + 1
  /\ fetch' = <<>>
  /\ met' = {services}
  /\ UNCHANGED <<services, changes>>

Check ==
  /\ fetch # NoFetch /\ Len(fetch) < Len(Checks)
  /\ fetch' = Append(fetch, Checks[Len(fetch) + 1])
  /\ UNCHANGED <<services, met, changes, fetches>>

HealthNext == Change \/ Start \/ Check

HealthSpec == HealthInit /\ [][HealthNext]_healthVars

-----------------------------------------------------------------------------
(* The tile                                                                *)

Done == fetch # NoFetch /\ Len(fetch) = Len(Checks)

Severity == [ok |-> 0, degraded |-> 1, unknown |-> 2, down |-> 3]

\* The worst verdict of all.
Worst ==
  CHOOSE v \in DOMAIN Severity :
    /\ \E i \in DOMAIN fetch : fetch[i] = v
    /\ \A i \in DOMAIN fetch : Severity[fetch[i]] <= Severity[v]

-----------------------------------------------------------------------------
(* Properties                                                              *)

HealthTypeOK ==
  /\ services \in [Parts -> UNION {Conditions[part] : part \in Parts}]
  /\ services \in met
  /\ fetch = NoFetch \/ \A i \in DOMAIN fetch : fetch[i] \in DOMAIN Severity
  /\ changes \in 0 .. MaxChanges /\ fetches \in 0 .. MaxFetches

Well(part, w) == w[part] = "up" \/ (part = "asb" /\ w[part] = "old")

\* "Healthy" is shown only if everything answered well at some moment of the
\* fetch: an outage that lasts is seen, also that of asb, of which its own check
\* says nothing (health.rs:32-48, overview.rs:177-192).
HealthyMeansWell ==
  Done /\ Worst = "ok" => \A part \in Parts : \E w \in met : Well(part, w)

\* Anything but "Healthy" has a cause, and "Down" one that stops the service
\* or hides it: some part was not well while the fetch ran (health.rs:9-30).
AlarmHasCause ==
  Done /\ Worst # "ok" =>
    \E w \in met, part \in Parts :
      /\ ~Well(part, w)
      /\ Worst = "down" => part # "peers" /\ w[part] \notin {"syncing", "bootstrapping", "partly"}
=============================================================================
