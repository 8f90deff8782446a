------------------------------ MODULE MCFailover ------------------------------
(* Small instances of the choice of an upstream for TLC.                   *)
EXTENDS Failover, TLC

CONSTANTS c1, c2, c3

\* A channel with two keys and one without a key, of equal priority, and a channel
\* of lower priority.
MCKeyCount == (c1 :> 2) @@ (c2 :> 0) @@ (c3 :> 1)
MCPriority == (c1 :> 1) @@ (c2 :> 1) @@ (c3 :> 0)

\* A channel with one key.
MCOneKey == c1 :> 1
MCOnePriority == c1 :> 1

Symmetry == Permutations(Workers)
===============================================================================
