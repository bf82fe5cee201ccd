--------------------------- MODULE MCLaunchIntents ---------------------------
(***************************************************************************)
(* Instances of LaunchIntents for TLC.                                     *)
(***************************************************************************)
EXTENDS LaunchIntents, TLC

CONSTANTS home, away, kept, shared  \* members of Environments and Connections

\* One connection belongs to one environment, the other to none.
OneHome == kept :> {home} @@ shared :> {}
=============================================================================
