---------------------------- MODULE MCUvmChannel ----------------------------
(* Instances of UvmChannel for TLC. *)
EXTENDS UvmChannel, TLC

ThreadSymmetry == Permutations(Threads)
=============================================================================
