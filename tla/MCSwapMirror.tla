---------------------------- MODULE MCSwapMirror ----------------------------
(* Small instances of SwapMirror for TLC.                                  *)
EXTENDS SwapMirror
=============================================================================
