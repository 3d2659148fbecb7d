--------------------------- MODULE ConnectionPool ---------------------------
(***************************************************************************)
(* The console's database connections (src/src/server/db.rs, mod.rs): a    *)
(* bounded pool from which every handler and poller takes a connection and *)
(* waits, up to a timeout, when there is none.                             *)
(*                                                                         *)
(* Almost every caller needs one connection at a time.  Applying a         *)
(* recommendation (api/spread_optimizer.rs) keeps one while write_config   *)
(* (api/maker.rs) takes another.                                           *)
(***************************************************************************)
EXTENDS Integers, FiniteSets

CONSTANTS
  Callers,
  Applies,   \* the callers that apply a recommendation
  PoolSize,
  MaxCalls   \* bound on calls

ASSUME PoolAssumption ==
  /\ IsFiniteSet(Callers) /\ Applies \subseteq Callers
  /\ PoolSize \in Nat /\ MaxCalls \in Nat

VARIABLES
  free,     \* connections in the pool
  caller,   \* where each caller is
  calls     \* calls made

poolVars == <<free, caller, calls>>

\* first, second: waiting for that connection; using, writing, marking: working
\* with the first, with both, and with the first again.
Stages == {"idle", "first", "using", "second", "writing", "marking"}

\* How many connections a caller holds.
HoldsOne == {"using", "second", "writing", "marking"}
HoldsTwo == {"writing"}

Held(stage) == (IF stage \in HoldsOne THEN 1 ELSE 0) + (IF stage \in HoldsTwo THEN 1 ELSE 0)

PoolInit ==
  /\ free = PoolSize
  /\ caller = [c \in Callers |-> "idle"]
  /\ calls = 0

\* A caller goes on to another stage with what it holds there.
Proceed(c, stage) ==
  /\ caller' = [caller EXCEPT ![c] = stage]
  /\ free' = free + Held(caller[c]) - Held(stage)

Call(c) ==
  /\ caller[c] = "idle"
  /\ calls < MaxCalls
  /\ calls' = calls + 1
  /\ Proceed(c, "first")

Checkout(c) ==
  /\ free > 0
  /\ \/ caller[c] = "first"  /\ Proceed(c, "using")
     \/ caller[c] = "second" /\ Proceed(c, "writing")
  /\ UNCHANGED calls

Finish(c) ==
  /\ caller[c] = "using" /\ c \notin Applies
  /\ Proceed(c, "idle")
  /\ UNCHANGED calls

\* The ConfigMap is written with the first connection in hand; the history row
\* needs the second.
ApplyConfig(c) ==
  /\ caller[c] = "using" /\ c \in Applies
  /\ Proceed(c, "second")
  /\ UNCHANGED calls

WriteHistory(c) ==
  /\ caller[c] = "writing"
  /\ Proceed(c, "marking")
  /\ UNCHANGED calls

MarkApplied(c) ==
  /\ caller[c] = "marking"
  /\ Proceed(c, "idle")
  /\ UNCHANGED calls

\* Slip: the second wait ends without giving the first connection back.
TimeoutKeeps(c) ==
  /\ caller[c] \in {"first", "second"}
  /\ caller' = [caller EXCEPT ![c] = "idle"]
  /\ UNCHANGED <<free, calls>>

\* Slip: a wait that ends gives back a connection, taken or not.
TimeoutReturns(c) ==
  /\ caller[c] \in {"first", "second"}
  /\ caller' = [caller EXCEPT ![c] = "idle"]
  /\ free' = free + 1
  /\ UNCHANGED calls

\* Slip: only the first wait is bounded.
TimeoutFirst(c) ==
  /\ caller[c] = "first"
  /\ Proceed(c, "idle")
  /\ UNCHANGED calls

\* No connection within the pool's time.
Timeout(c) ==
  /\ caller[c] \in {"first", "second"}
  /\ free = 0
  /\ Proceed(c, "idle")
  /\ UNCHANGED calls

\* A statement or a call of the handler fails, or its client disconnects.
CallEnds(c) ==
  /\ caller[c] # "idle"
  /\ Proceed(c, "idle")
  /\ UNCHANGED calls

PoolStep(c) ==
  \/ Checkout(c) \/ Finish(c) \/ ApplyConfig(c) \/ WriteHistory(c) \/ MarkApplied(c)
  \/ Timeout(c)

PoolNext == \E c \in Callers : Call(c) \/ PoolStep(c) \/ CallEnds(c)

PoolSpec == PoolInit /\ [][PoolNext]_poolVars

-----------------------------------------------------------------------------
(* Properties                                                              *)

PoolTypeOK ==
  /\ free \in 0 .. PoolSize
  /\ caller \in [Callers -> Stages]
  /\ calls \in 0 .. MaxCalls

Waiting == {c \in Callers : caller[c] \in {"first", "second"}}
Working == {c \in Callers : caller[c] \in {"using", "writing", "marking"}}
Halfway == {c \in Callers : caller[c] = "second"}

\* Everyone waits on everyone, until a timeout, only when as many applies as
\* there are connections have each taken their first: any other wait ends with
\* a connection that someone returns (spread_optimizer.rs:348, maker.rs:125).
StuckNeedsApplies ==
  Waiting # {} /\ Working = {} /\ free = 0 =>
    Halfway \subseteq Applies /\ Cardinality(Halfway) = PoolSize

\* No caller waits for ever, not even then: the pool's timeout ends a wait for
\* either connection (db.rs:10-14).
EveryCallEnds ==
  \A c \in Callers : []<>(caller[c] = "idle")
=============================================================================
