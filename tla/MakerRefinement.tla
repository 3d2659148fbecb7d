-------------------------- MODULE MakerRefinement --------------------------
(***************************************************************************)
(* Maker implements MakerAtomic as long as handlers do not overlap and     *)
(* none is cut short: the step at which an operation takes effect is the   *)
(* insertion of its maker_config_history row, and the abstract state is    *)
(* what the rows say.                                                      *)
(***************************************************************************)
EXTENDS Maker

LoggedConfig ==
  IF history = <<>> THEN InitialToml ELSE history[Len(history)].new_toml

StashedConfig ==
  IF is_paused
    THEN history[CHOOSE i \in DOMAIN history : IsLatestPause(i)].previous_toml
    ELSE NoToml

Atomic == INSTANCE MakerAtomic WITH
  Configs <- Toml,
  NoConfig <- NoToml,
  InitialConfig <- InitialToml,
  OffMarketOf <- OffMarket,
  config <- LoggedConfig,
  stash <- StashedConfig

\* Every audit row is one of the three atomic operations applied to the
\* configuration the row before it left: the ConfigMap a handler reads is the
\* one last logged, a pause row stashes it, a resume row restores the stash
\* (maker.rs:178-181, 236-238).
ImplementsAtomic == Atomic!Spec
=============================================================================
