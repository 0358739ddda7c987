---------------------------- MODULE MCBrainQueue ----------------------------
(* Instances of BrainQueue for TLC. *)
EXTENDS BrainQueue, TLC

\* The uploaders run the same loop.  Used in runs without liveness properties.
Interchangeable == Permutations(Uploaders)
=============================================================================
