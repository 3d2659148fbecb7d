----------------------------- MODULE WalletRules -----------------------------
(***************************************************************************)
(* The registry of known addresses: a ConfigMap that the operator edits    *)
(* and the copy of it that the console keeps                               *)
(* (src/src/server/wallet_rules.rs, api/wallet_rules.rs), in a cluster:    *)
(* without one there are no rules.                                         *)
(***************************************************************************)
EXTENDS Naturals

CONSTANTS
  RuleSets,    \* what the ConfigMap may list
  Unread,      \* no value
  MaxEdits,    \* bound on edits of the ConfigMap
  MaxFailures  \* bound on failing calls

ASSUME RulesAssumption ==
  /\ RuleSets \cap {"absent", "blank", "malformed", "none", "failed"} = {}
  /\ MaxEdits \in Nat /\ MaxFailures \in Nat

\* The texts that the ConfigMap may hold besides a list, and what a failing
\* load answers.
Contents == RuleSets \cup {"absent", "blank", "malformed"}

NoRules == "none"
Failed  == "failed"

VARIABLES
  configMap,
  refresh,   \* the task: where it is and what it loaded
  registry,  \* the cache: rules, whether they were ever loaded, last error
  edits,
  failures

rulesVars == <<configMap, refresh, registry, edits, failures>>

RulesInit ==
  /\ configMap \in Contents
  /\ refresh = [pc |-> "tick", loaded |-> Unread]
  /\ registry = [rules |-> NoRules, loaded |-> FALSE, error |-> FALSE]
  /\ edits = 0
  /\ failures = 0

Edit ==
  /\ edits < MaxEdits
  /\ configMap' \in Contents
  /\ edits' = edits + 1
  /\ UNCHANGED <<refresh, registry, failures>>

\* A missing ConfigMap, or none of its text, means no rules and is no error.
Meaning(content) ==
  IF content \in {"absent", "blank"} THEN NoRules
  ELSE IF content = "malformed" THEN Failed ELSE content

load_rules ==
  /\ refresh.pc = "tick"
  /\ \/ /\ refresh' = [pc |-> "loaded", loaded |-> Meaning(configMap)]
        /\ UNCHANGED failures
     \/ /\ failures < MaxFailures
        /\ refresh' = [pc |-> "loaded", loaded |-> Failed]
        /\ failures' = failures + 1
  /\ UNCHANGED <<configMap, registry, edits>>

\* Slip: a failed load ends the task.
RulesOrEnd ==
  /\ refresh.pc = "loaded"
  /\ registry' = IF refresh.loaded = Failed THEN [registry EXCEPT !.error = TRUE]
                 ELSE [rules |-> refresh.loaded, loaded |-> TRUE, error |-> FALSE]
  /\ refresh' = [pc |-> IF refresh.loaded = Failed THEN "ended" ELSE "tick", loaded |-> Unread]
  /\ UNCHANGED <<configMap, edits, failures>>

\* A failed load keeps the rules of the last good one.
StoreRules ==
  /\ refresh.pc = "loaded"
  /\ registry' = IF refresh.loaded = Failed THEN [registry EXCEPT !.error = TRUE]
                 ELSE [rules |-> refresh.loaded, loaded |-> TRUE, error |-> FALSE]
  /\ refresh' = [pc |-> "tick", loaded |-> Unread]
  /\ UNCHANGED <<configMap, edits, failures>>

RulesNext == Edit \/ load_rules \/ StoreRules

\* The task ticks every minute.
RulesFairness == WF_rulesVars(load_rules) /\ WF_rulesVars(StoreRules)

RulesSpec == RulesInit /\ [][RulesNext]_rulesVars /\ RulesFairness

-----------------------------------------------------------------------------
(* Properties                                                              *)

RulesTypeOK ==
  /\ configMap \in Contents
  /\ refresh \in [pc : {"tick", "loaded"}, loaded : RuleSets \cup {NoRules, Failed, Unread}]
  /\ registry \in [rules : RuleSets \cup {NoRules}, loaded : BOOLEAN, error : BOOLEAN]
  /\ edits \in 0 .. MaxEdits /\ failures \in 0 .. MaxFailures

\* The page ends up showing what the ConfigMap says, without a restart and
\* whatever failed in between; when the text is malformed, it ends up saying so
\* (wallet_rules.rs:27-28, 109-127).
RulesFollow ==
  \A content \in Contents :
    <>[](configMap = content) =>
      IF Meaning(content) = Failed THEN <>[](registry.error)
      ELSE <>[](registry.rules = Meaning(content) /\ ~registry.error)
=============================================================================
