------------------------------- MODULE MCCache -------------------------------
(* A finite instance of CacheVolume: interchangeable creates. *)
EXTENDS CacheVolume, TLC

AttemptSymmetry == Permutations(Attempt)
=============================================================================
