---------------------------- MODULE MCStateFile ----------------------------
(***************************************************************************)
(* Instances of StateFile for TLC.                                         *)
(***************************************************************************)
EXTENDS StateFile, TLC

\* The inodes of an instance never hold a writer back.
InodesSuffice == tmp # None \/ Unused # {}

\* Writers are alike.
WritersAlike == Permutations(Writers)
=============================================================================
