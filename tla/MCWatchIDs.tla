---------------------------- MODULE MCWatchIDs ----------------------------
(* Two entries, of two names or of one, and two accounts. *)
EXTENDS WatchIDs, TLC

CONSTANTS e1, e2, x, y, a1, a2, nobody

MCNames == {x, y}
MCEntries == {e1, e2}
MCLists == {(e1 :> x) @@ (e2 :> y), (e1 :> x) @@ (e2 :> x)}
MCAccounts == {a1, a2}
MCLine == (a1 :> 1) @@ (a2 :> 2)
=============================================================================
