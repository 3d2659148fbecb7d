---------------------------- MODULE MakerAtomic ----------------------------
(***************************************************************************)
(* What the maker controls promise when every operation is one step: the   *)
(* maker has one configuration in force, pausing sets it aside, and        *)
(* resuming brings back exactly what was set aside, whatever was edited in *)
(* between (comments of src/src/server/api/maker.rs:150-153, 178-181,      *)
(* 236-238, realised by the markers of maker_config_history).              *)
(***************************************************************************)
CONSTANTS
  Configs,        \* the configurations
  NoConfig,       \* nothing is set aside
  InitialConfig,
  OffMarketOf(_)  \* the off-market form of a configuration

VARIABLES
  config,   \* the configuration of the last operation
  stash     \* what the pause in force set aside, NoConfig while not paused

atomicVars == <<config, stash>>

Paused == stash # NoConfig

Init ==
  /\ config = InitialConfig
  /\ stash = NoConfig

\* Editing is allowed at any time and does not end a pause.
Edit ==
  /\ config' \in Configs
  /\ UNCHANGED stash

Pause ==
  /\ ~Paused
  /\ stash' = config
  /\ config' = OffMarketOf(config)

Resume ==
  /\ Paused
  /\ config' = stash
  /\ stash' = NoConfig

Next == Edit \/ Pause \/ Resume

Spec == Init /\ [][Next]_atomicVars
=============================================================================
