----------------------- MODULE MCUvmTrackingSemaphore -----------------------
(* Instances of UvmTrackingSemaphore for TLC. *)
EXTENDS UvmTrackingSemaphore, TLC

ThreadSymmetry == Permutations(Threads)
=============================================================================
