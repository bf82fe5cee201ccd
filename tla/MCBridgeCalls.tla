--------------------------- MODULE MCBridgeCalls ---------------------------
(***************************************************************************)
(* Instances of BridgeCalls for TLC.                                       *)
(***************************************************************************)
EXTENDS BridgeCalls, TLC

\* Calls are alike, and so are listeners.
Interchangeable == Permutations(Calls) \cup Permutations(Listeners)
=============================================================================
