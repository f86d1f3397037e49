------------------------------- MODULE Socks -------------------------------
(***************************************************************************)
(* One dial through a SOCKS proxy (socks.go; proxy.go, clientFor's dialers *)
(* and dialContext): the bound on the dial, the watchdog that turns the    *)
(* context into a deadline on the socket, and the two negotiations.  The   *)
(* proxy may answer anything, or nothing.  Requests come and go without    *)
(* the dial: the transport neither cancels it nor passes it a deadline.    *)
(***************************************************************************)
EXTENDS Naturals

CONSTANTS
    DomainLengths   \* the lengths of a bound domain name that proxies send

ASSUME SocksAssumption == DomainLengths \subseteq 0 .. 255

VARIABLES
    kind,       \* "socks5", "socks4a", or "socks4", which looks names up itself
    creds,      \* a user name or a password is set
    bounded,    \* -timeout is set: dialContext gives the context a deadline
    at,         \* the position in dialSOCKS5 or dialSOCKS4
    ok,         \* ok
    ctx,        \* the dial's context: "live" or "done"
    socket,     \* "none", "open" or "closed"
    deadline,   \* the socket's: "none", "ahead" or "past"
    done,       \* done is closed
    watchdog,   \* "none", "watching", "stamping" or "stopped"
    atyp,       \* the kind of address in the reply to CONNECT
    nameLen,    \* its length byte, when it is a domain
    owed,       \* bytes of the proxy's negotiation that are not read yet
    said        \* history: what the proxy has agreed to

settings == <<kind, creds, bounded>>
wire == <<atyp, nameLen, owed, said>>
guard == <<ctx, deadline, done, watchdog>>
vars == <<settings, at, ok, socket, guard, wire>>

Socks5Places == {"greeting", "choosing", "authenticating", "naming", "replying", "sizing",
                 "binding"}
Socks4Places == {"resolving", "requesting", "granting"}
\* "clearing" ends the negotiation; "leaving", "joining" and "closing" are the
\* deferred calls; "over" is after the dialer's own deferred cancel.
Places == Socks5Places \cup Socks4Places
    \cup {"connecting", "guarding", "clearing", "leaving", "joining", "closing", "returned",
          "over"}

Ended == at \in {"returned", "over"}

\* The transport's view of a dial.
Promised == INSTANCE Tunnel WITH
    outcome <- IF Ended THEN (IF ok THEN "tunnel" ELSE "error") ELSE "pending",
    socket <- socket,
    watched <- watchdog \in {"watching", "stamping"},
    bound <- deadline # "none"

Init ==
    /\ kind \in {"socks5", "socks4a", "socks4"} /\ creds \in BOOLEAN /\ bounded \in BOOLEAN
    /\ at = "connecting" /\ ok = FALSE
    /\ ctx = "live" /\ socket = "none" /\ deadline = "none"
    /\ done = FALSE /\ watchdog = "none"
    /\ atyp = "none" /\ nameLen = 0 /\ owed = 0 /\ said = {}

GoesOn(place) == at' = place /\ UNCHANGED <<settings, ok, socket, guard>>

\* A failure return runs the deferred calls.
GivesUp == GoesOn("leaving") /\ UNCHANGED wire

\* A read or write goes through while the deadline is ahead; a proxy may also hang up.
Reaches == deadline # "past"
Fails == at \in Socks5Places \cup Socks4Places /\ GivesUp
-----------------------------------------------------------------------------
\* DialContext: the proxy is reached, or it is not and there is nothing to clean up.
Connect ==
    /\ at = "connecting"
    /\ \/ at' = "guarding" /\ socket' = "open"
       \/ at' = "returned" /\ UNCHANGED socket
    /\ UNCHANGED <<settings, ok, guard, wire>>

\* Plain SOCKS4 has no field for a name, so it is looked up here.
FirstStep == CASE kind = "socks5" -> "greeting" [] kind = "socks4a" -> "requesting"
               [] kind = "socks4" -> "resolving"

\* Mutant of GuardHandshake: a context without a deadline sets none on the socket.
GuardHandshakeUnbounded ==
    /\ at = "guarding"
    /\ at' = FirstStep
    /\ deadline' = IF bounded THEN "ahead" ELSE "none"
    /\ watchdog' = "watching"
    /\ UNCHANGED <<settings, ok, socket, ctx, done, wire>>
\* guardHandshake: the context's deadline, or handshakeTimeout; if it cannot be set
\* there is no watchdog and nothing to undo but the socket.
GuardHandshake ==
    /\ at = "guarding"
    /\ \/ /\ at' = FirstStep
          /\ deadline' = "ahead" /\ watchdog' = "watching"
       \/ at' = "closing" /\ UNCHANGED <<deadline, watchdog>>
    /\ UNCHANGED <<settings, ok, socket, ctx, done, wire>>

\* SOCKS5: the greeting offers a password only if there is one.
Greet == at = "greeting" /\ Reaches /\ GoesOn("choosing") /\ UNCHANGED wire

\* The proxy picks a method; anything but these two ends the dial.
ChooseNone == at = "choosing" /\ Reaches /\ GoesOn("naming") /\ said' = {"method"}
              /\ UNCHANGED <<atyp, nameLen, owed>>
ChoosePassword == at = "choosing" /\ Reaches /\ creds /\ GoesOn("authenticating")
                  /\ UNCHANGED wire

\* Mutant of Authenticate: the status byte is not looked at.
AuthenticateUnread ==
    /\ at = "authenticating" /\ Reaches
    /\ GoesOn("naming")
    /\ said' \in {said, said \cup {"method"}}
    /\ UNCHANGED <<atyp, nameLen, owed>>
\* The password is sent and accepted; a refusal ends the dial.
Authenticate ==
    /\ at = "authenticating" /\ Reaches
    /\ GoesOn("naming") /\ said' = said \cup {"method"}
    /\ UNCHANGED <<atyp, nameLen, owed>>

\* CONNECT, with the host name for the proxy to look up.
Name == at = "naming" /\ Reaches /\ GoesOn("replying") /\ UNCHANGED wire

\* What the RFC has after the first four bytes: the address and two bytes of port.
Rest(type, n) == CASE type = "ipv4" -> 4 + 2 [] type = "ipv6" -> 16 + 2
                   [] type = "domain" -> 1 + n + 2
\* The head of the reply: granted, with an address of some kind.
ReadHead ==
    /\ at = "replying" /\ Reaches
    /\ said' = said \cup {"granted"}
    /\ atyp' \in {"ipv4", "ipv6", "domain"}
    /\ nameLen' \in DomainLengths /\ owed' = Rest(atyp', nameLen')
    /\ GoesOn(IF atyp' = "domain" THEN "sizing" ELSE "binding")

\* The length byte of a domain.
ReadLength ==
    /\ at = "sizing" /\ Reaches
    /\ owed' = owed - 1
    /\ GoesOn("binding") /\ UNCHANGED <<atyp, nameLen, said>>

\* Mutant of BoundLen: every address is taken for an IPv4 one.
BoundLenShort == 4
\* boundLen: by kind of address, a domain's being in its length byte.
BoundLen == CASE atyp = "ipv4" -> 4 [] atyp = "ipv6" -> 16 [] OTHER -> nameLen

\* The address and the port are read in full.
ReadBound ==
    /\ at = "binding" /\ Reaches
    /\ owed' = owed - (BoundLen + 2)
    /\ GoesOn("clearing") /\ UNCHANGED <<atyp, nameLen, said>>

\* The look-up ends in an address or an error; the socket's deadline does not end it.
Resolve == at = "resolving" /\ GoesOn("requesting") /\ UNCHANGED wire

\* SOCKS4: one request, and one reply of eight bytes.
Request == at = "requesting" /\ Reaches /\ GoesOn("granting") /\ UNCHANGED wire
Granted ==
    /\ at = "granting" /\ Reaches
    /\ said' = {"method", "granted"}
    /\ GoesOn("clearing") /\ UNCHANGED <<atyp, nameLen, owed>>

\* The deadline is cleared, and only then is the dial a success.
Clear ==
    /\ at = "clearing"
    /\ \/ deadline' = "none" /\ ok' = TRUE
       \/ UNCHANGED <<deadline, ok>>
    /\ at' = "leaving"
    /\ UNCHANGED <<settings, socket, ctx, done, watchdog, wire>>
-----------------------------------------------------------------------------
\* The deferred unguard tells the watchdog to go ...
Leave ==
    /\ at = "leaving"
    /\ done' = TRUE /\ at' = "joining"
    /\ UNCHANGED <<settings, ok, socket, ctx, deadline, watchdog, wire>>

\* Mutant of Join: it does not wait.
JoinUnwaited ==
    /\ at = "joining"
    /\ deadline' = "none" /\ at' = "closing"
    /\ UNCHANGED <<settings, ok, socket, ctx, done, watchdog, wire>>
\* ... waits for it, and clears the deadline once more.
Join ==
    /\ at = "joining" /\ watchdog = "stopped"
    /\ deadline' = "none" /\ at' = "closing"
    /\ UNCHANGED <<settings, ok, socket, ctx, done, watchdog, wire>>

\* The socket is closed unless all went well.
Close ==
    /\ at = "closing" /\ at' = "returned"
    /\ socket' = IF ok THEN socket ELSE "closed"
    /\ UNCHANGED <<settings, ok, guard, wire>>

\* The dialer's deferred cancel, when dialContext made the context.
CancelDeferred ==
    /\ at = "returned" /\ at' = "over"
    /\ ctx' = IF bounded THEN "done" ELSE ctx
    /\ UNCHANGED <<settings, ok, socket, deadline, done, watchdog, wire>>

\* The watchdog's select: it may see either channel when both are ready.
WatchdogSeesContext ==
    /\ watchdog = "watching" /\ ctx = "done"
    /\ watchdog' = "stamping"
    /\ UNCHANGED <<settings, at, ok, socket, ctx, deadline, done, wire>>
WatchdogSeesDone ==
    /\ watchdog = "watching" /\ done
    /\ watchdog' = "stopped"
    /\ UNCHANGED <<settings, at, ok, socket, ctx, deadline, done, wire>>
\* SetDeadline(aLongTimeAgo), and the watchdog is gone.
WatchdogStamps ==
    /\ watchdog = "stamping"
    /\ watchdog' = "stopped" /\ deadline' = "past"
    /\ UNCHANGED <<settings, at, ok, socket, ctx, done, wire>>

\* Time: the context's deadline, and the socket's.
ContextExpires ==
    /\ bounded /\ ctx = "live" /\ ~Ended
    /\ ctx' = "done"
    /\ UNCHANGED <<settings, at, ok, socket, deadline, done, watchdog, wire>>
DeadlinePasses ==
    /\ deadline = "ahead"
    /\ deadline' = "past"
    /\ UNCHANGED <<settings, at, ok, socket, ctx, done, watchdog, wire>>

\* The proxy refuses, breaks the protocol or hangs up, the name is not found, or what
\* is to be sent is too long for its field.
ProxyFails == Fails
\* A read or write past its deadline.
TimesOut == ~Reaches /\ at # "resolving" /\ Fails

Negotiates ==
    \/ Greet \/ ChooseNone \/ ChoosePassword \/ Authenticate \/ Name
    \/ ReadHead \/ ReadLength \/ ReadBound \/ Request \/ Granted \/ ProxyFails
Dialer == Connect \/ GuardHandshake \/ Resolve \/ TimesOut \/ Clear \/ Leave \/ Join \/ Close
          \/ CancelDeferred
Watchdog == WatchdogSeesContext \/ WatchdogSeesDone \/ WatchdogStamps
Time == ContextExpires \/ DeadlinePasses

Next == Negotiates \/ Dialer \/ Watchdog \/ Time

Spec == Init /\ [][Next]_vars

\* Goroutines run and time passes; the operating system gives up on a host that does
\* not answer (Connect) and on a name (Resolve).  Nothing is assumed of what the proxy says.
FairSpec == Spec /\ WF_vars(Dialer) /\ WF_vars(Watchdog) /\ WF_vars(DeadlinePasses)
-----------------------------------------------------------------------------
DialTyped ==
    /\ kind \in {"socks5", "socks4a", "socks4"} /\ creds \in BOOLEAN /\ bounded \in BOOLEAN
    /\ at \in Places /\ ok \in BOOLEAN
    /\ ctx \in {"live", "done"} /\ socket \in {"none", "open", "closed"}
    /\ deadline \in {"none", "ahead", "past"} /\ done \in BOOLEAN
    /\ watchdog \in {"none", "watching", "stamping", "stopped"}
WireTyped ==
    /\ atyp \in {"none", "ipv4", "ipv6", "domain"}
    /\ nameLen \in 0 .. 255 /\ owed \in Nat /\ said \subseteq {"method", "granted"}
TypeOK == DialTyped /\ WireTyped

\* A dial hands over a socket that has no deadline and that the watchdog will not
\* touch again, even when the context ends at that moment; a failed one leaves
\* neither socket nor watchdog (socks.go, guardHandshake and the deferred calls).
KeepsPromise == Promised!Spec

\* The first byte after the hand-over belongs to the tunnel: the proxy's reply has been
\* read to its end, whatever kind of address it carried (socks.go, dialSOCKS5).
StreamAligned == Ended /\ ok => owed = 0

\* Nobody is handed a tunnel that the proxy did not grant, or before it was satisfied
\* who is asking (socks.go, dialSOCKS5 and dialSOCKS4).
TunnelIsGranted == Ended /\ ok => said = {"method", "granted"}

\* A dial ends whatever the proxy does, with -timeout or without (socks.go,
\* handshakeTimeout).
DialEnds == <>Ended
=============================================================================
