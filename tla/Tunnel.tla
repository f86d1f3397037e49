------------------------------- MODULE Tunnel -------------------------------
(***************************************************************************)
(* What a dial through a proxy promises to the HTTP transport that asked   *)
(* for it: it ends with a connection that nobody else will touch again, or *)
(* with an error that leaves nothing behind.  Socks.tla implements this.   *)
(***************************************************************************)
VARIABLES
    outcome,    \* "pending", "tunnel" or "error"
    socket,     \* "none", "open" or "closed"
    watched,    \* a goroutine that may set the socket's deadline is alive
    bound       \* the socket has a deadline

vars == <<outcome, socket, watched, bound>>

Init == outcome = "pending" /\ socket = "none" /\ ~watched /\ ~bound

\* Until it ends, a dial may do with its socket what it likes.
Work == outcome = "pending" /\ outcome' = "pending"

Opens ==
    /\ outcome = "pending" /\ outcome' = "tunnel"
    /\ socket' = "open" /\ ~watched' /\ ~bound'

Fails ==
    /\ outcome = "pending" /\ outcome' = "error"
    /\ socket' # "open" /\ ~watched'

\* Once it has ended, nothing changes any more.
Next == Work \/ Opens \/ Fails

Spec == Init /\ [][Next]_vars
=============================================================================
