-------------------------------- MODULE MCRedis --------------------------------
(* Two goroutines and two sessions of different users over a pool of one. *)
EXTENDS Redis, TLC

CONSTANTS s1, s2

MCOwner == (s1 :> "alice") @@ (s2 :> "bob")

Symmetry == Permutations(Workers)
================================================================================
