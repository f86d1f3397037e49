------------------------------ MODULE MCCanary ------------------------------
(* Two names of each kind, or the run's own with no guard, over no proxy, one,
   or two. *)
EXTENDS Canary

CONSTANTS p1, p2, direct

MCRoutes == {p1, p2, direct}
MCPools == {{direct}, {p1}, {p1, p2}}
=============================================================================
