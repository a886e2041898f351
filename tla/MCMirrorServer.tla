---------------------------- MODULE MCMirrorServer ----------------------------
(* MirrorServer for TLC: streams are interchangeable. *)
EXTENDS MirrorServer, TLC

StreamSymmetry == Permutations(Stream)
=============================================================================
