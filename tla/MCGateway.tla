------------------------------- MODULE MCGateway -------------------------------
(* Instances of Gateway: the guard, the windows, the routes, and the proxy. *)
EXTENDS Gateway, TLC

CONSTANTS w1, w2, w3, nobody

MCLimits == [user |-> 3, rpm |-> 2, tpm |-> 3]

MCRoute(i, p) == [id |-> i, prefix |-> p, limit |-> 0, on |-> TRUE, stamp |-> 0]

MCGuard == [kinds |-> {"form", "guarded"}, requests |-> 3, ticks |-> 2, routes |-> <<>>]
MCRelay == [kinds |-> {"relay"}, requests |-> 4, ticks |-> 3, routes |-> <<>>]
MCAdmin == [kinds |-> {"admin", "hup"}, requests |-> 3, ticks |-> 0,
            routes |-> <<MCRoute(1, 1), MCRoute(2, 2)>>]
MCProxy == [kinds |-> {"admin", "proxy"}, requests |-> 3, ticks |-> 0, routes |-> <<MCRoute(1, 1)>>]

MCDeployments == {MCGuard, MCRelay, MCAdmin, MCProxy}

Symmetry == Permutations(Workers)

===============================================================================
