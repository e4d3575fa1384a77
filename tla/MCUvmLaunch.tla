---------------------------- MODULE MCUvmLaunch ----------------------------
(* Instances of UvmLaunch for TLC. *)
EXTENDS UvmLaunch, TLC

LaunchSymmetry == Permutations(Threads) \cup Permutations(Pairs)
=============================================================================
