-------------------------- MODULE MCUvmPushbuffer ---------------------------
(* Instances of UvmPushbuffer for TLC. *)
EXTENDS UvmPushbuffer, TLC
=============================================================================
