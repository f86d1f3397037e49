---------------------------- MODULE Socks_proofs ----------------------------
(***************************************************************************)
(* Proofs about Socks, for any set of domain lengths and whatever the      *)
(* proxy says: a dial implements Tunnel, and what it hands over is a       *)
(* granted tunnel with nothing of the negotiation left in it.              *)
(***************************************************************************)
EXTENDS Socks, TLAPS

Negotiating == Socks5Places \cup Socks4Places \cup {"clearing"}

\* Who may still touch the socket at each position: the watchdog is alive only
\* between the two ends of the guard, and the deadline is gone once it has been left.
Guarded ==
    /\ at \in {"connecting", "guarding"} => watchdog = "none" /\ deadline = "none"
    /\ at \in Negotiating \cup {"guarding", "leaving", "joining", "closing"} => socket = "open"
    /\ at = "connecting" => socket = "none"
    /\ at \in {"closing", "returned", "over"}
           => watchdog \in {"none", "stopped"} /\ deadline = "none"
    /\ ok => at \in {"leaving", "joining", "closing", "returned", "over"}
    /\ Ended => (ok <=> socket = "open")

\* What the proxy has granted, and what is still to be read, at each position.
Agreed ==
    /\ at \in {"naming", "replying", "sizing", "binding"} => "method" \in said
    /\ at \in {"sizing", "binding"} => "granted" \in said
    /\ at = "sizing" => atyp = "domain" /\ owed = nameLen + 3
    /\ at = "binding" => owed = BoundLen + 2
    /\ at \in Socks4Places \cup {"connecting", "guarding"} => owed = 0
    /\ at = "clearing" \/ ok => owed = 0 /\ said = {"method", "granted"}

DialInv == TypeOK /\ Guarded /\ Agreed

LEMMA DialStart == Init => DialInv
<1> SUFFICES ASSUME Init PROVE DialInv
  OBVIOUS
<1> USE DEF Init, Socks5Places, Socks4Places
<1>1. DialTyped
  BY DEF DialTyped, Places
<1>2. WireTyped
  BY DEF WireTyped
<1>3. Guarded
  BY DEF Guarded, Negotiating, Ended
<1>4. Agreed
  BY DEF Agreed
<1> QED BY <1>1, <1>2, <1>3, <1>4 DEF DialInv, TypeOK

LEMMA DialTypedNext == DialTyped /\ [Next]_vars => DialTyped'
<1> SUFFICES ASSUME DialTyped, [Next]_vars PROVE DialTyped'
  OBVIOUS
<1> USE DEF DialTyped, Places, Socks5Places, Socks4Places, GoesOn, settings, guard
<1>1. CASE Negotiates \/ Resolve \/ TimesOut
  BY <1>1 DEF Negotiates, Greet, ChooseNone, ChoosePassword, Authenticate, Name, ReadHead,
              ReadLength, ReadBound, Request, Granted, ProxyFails, Resolve, TimesOut, Fails,
              GivesUp
<1>2. CASE Connect \/ GuardHandshake
  BY <1>2 DEF Connect, GuardHandshake, FirstStep
<1>3. CASE Clear \/ Leave \/ Join \/ Close \/ CancelDeferred
  BY <1>3 DEF Clear, Leave, Join, Close, CancelDeferred
<1>4. CASE Watchdog
  BY <1>4 DEF Watchdog, WatchdogSeesContext, WatchdogSeesDone, WatchdogStamps
<1>5. CASE Time
  BY <1>5 DEF Time, ContextExpires, DeadlinePasses
<1>6. CASE UNCHANGED vars
  BY <1>6 DEF vars
<1> QED BY <1>1, <1>2, <1>3, <1>4, <1>5, <1>6 DEF Next, Dialer

LEMMA WireTypedNext == WireTyped /\ Agreed /\ [Next]_vars => WireTyped'
<1> SUFFICES ASSUME WireTyped, Agreed, [Next]_vars PROVE WireTyped'
  OBVIOUS
<1> USE DEF WireTyped, wire
<1>1. CASE ChooseNone \/ Authenticate \/ Granted
  BY <1>1 DEF ChooseNone, Authenticate, Granted
<1>2. CASE ReadHead
  BY <1>2, SocksAssumption DEF ReadHead, Rest
<1>3. CASE ReadLength \/ ReadBound
  BY <1>3 DEF ReadLength, ReadBound, Agreed, BoundLen
<1>4. CASE Greet \/ ChoosePassword \/ Name \/ Request \/ Resolve \/ ProxyFails \/ TimesOut
  BY <1>4 DEF Greet, ChoosePassword, Name, Request, Resolve, ProxyFails, TimesOut, Fails,
              GivesUp
<1>5. CASE Connect \/ GuardHandshake \/ Clear \/ Leave \/ Join \/ Close \/ CancelDeferred
  BY <1>5 DEF Connect, GuardHandshake, Clear, Leave, Join, Close, CancelDeferred
<1>6. CASE Watchdog \/ Time \/ UNCHANGED vars
  BY <1>6 DEF Watchdog, WatchdogSeesContext, WatchdogSeesDone, WatchdogStamps, Time,
              ContextExpires, DeadlinePasses, vars
<1> QED BY <1>1, <1>2, <1>3, <1>4, <1>5, <1>6 DEF Next, Negotiates, Dialer

LEMMA GuardedNext == DialTyped /\ Guarded /\ [Next]_vars => Guarded'
<1> SUFFICES ASSUME DialTyped, Guarded, [Next]_vars PROVE Guarded'
  OBVIOUS
<1> USE DEF Guarded, Negotiating, Ended, Socks5Places, Socks4Places, GoesOn, guard
<1>1. CASE Negotiates \/ Resolve \/ TimesOut
  BY <1>1 DEF Negotiates, Greet, ChooseNone, ChoosePassword, Authenticate, Name, ReadHead,
              ReadLength, ReadBound, Request, Granted, ProxyFails, Resolve, TimesOut, Fails,
              GivesUp
<1>2. CASE Connect \/ GuardHandshake
  BY <1>2 DEF Connect, GuardHandshake, FirstStep, DialTyped
<1>3. CASE Clear \/ Leave \/ Join \/ Close \/ CancelDeferred
  BY <1>3 DEF Clear, Leave, Join, Close, CancelDeferred
<1>4. CASE Watchdog \/ Time
  BY <1>4 DEF Watchdog, WatchdogSeesContext, WatchdogSeesDone, WatchdogStamps, Time,
              ContextExpires, DeadlinePasses
<1>5. CASE UNCHANGED vars
  BY <1>5 DEF vars
<1> QED BY <1>1, <1>2, <1>3, <1>4, <1>5 DEF Next, Dialer

\* A reply is read in full: what a length byte announces is what BoundLen then asks for.
LEMMA AgreedNext == DialTyped /\ WireTyped /\ Guarded /\ Agreed /\ [Next]_vars => Agreed'
<1> SUFFICES ASSUME DialTyped, WireTyped, Guarded, Agreed, [Next]_vars PROVE Agreed'
  OBVIOUS
<1> USE DEF WireTyped, Agreed, Socks5Places, Socks4Places, GoesOn, wire
<1>1. CASE Greet \/ ChooseNone \/ ChoosePassword \/ Authenticate \/ Name \/ Request \/ Granted
           \/ Resolve
  BY <1>1 DEF Greet, ChooseNone, ChoosePassword, Authenticate, Name, Request, Granted, Resolve,
              Guarded
<1>2. CASE ReadHead
  <2>1. "method" \in said' /\ "granted" \in said' /\ ~ok'
    BY <1>2 DEF ReadHead, Guarded
  <2>2. atyp' = "domain" => at' = "sizing" /\ owed' = nameLen' + 3
    BY <1>2, SocksAssumption DEF ReadHead, Rest
  <2>3. atyp' # "domain" => at' = "binding" /\ owed' = BoundLen' + 2
    BY <1>2, SocksAssumption DEF ReadHead, Rest, BoundLen
  <2> QED BY <2>1, <2>2, <2>3
<1>3. CASE ReadLength \/ ReadBound
  BY <1>3 DEF ReadLength, ReadBound, BoundLen, Guarded
<1>4. CASE ProxyFails \/ TimesOut
  BY <1>4 DEF ProxyFails, TimesOut, Fails, GivesUp
<1>5. CASE Connect \/ GuardHandshake
  BY <1>5 DEF Connect, GuardHandshake, FirstStep, DialTyped
<1>6. CASE Clear \/ Leave \/ Join \/ Close \/ CancelDeferred
  BY <1>6 DEF Clear, Leave, Join, Close, CancelDeferred
<1>7. CASE Watchdog \/ Time \/ UNCHANGED vars
  BY <1>7 DEF Watchdog, WatchdogSeesContext, WatchdogSeesDone, WatchdogStamps, Time,
              ContextExpires, DeadlinePasses, vars, BoundLen
<1> QED BY <1>1, <1>2, <1>3, <1>4, <1>5, <1>6, <1>7 DEF Next, Negotiates, Dialer

LEMMA DialNext == DialInv /\ [Next]_vars => DialInv'
BY DialTypedNext, WireTypedNext, GuardedNext, AgreedNext DEF DialInv, TypeOK

LEMMA StepKeepsPromise ==
  ASSUME DialInv, [Next]_vars
  PROVE  [Promised!Next]_Promised!vars
<1> USE DEF DialInv, Guarded, Ended
<1>1. CASE ~Ended /\ ~Ended'
  BY <1>1 DEF Promised!Next, Promised!Work
<1>2. CASE Connect
  BY <1>2 DEF Connect, guard, Promised!Next, Promised!Work, Promised!Fails
<1>3. CASE Close
  <2>1. CASE ok
    BY <1>3, <2>1 DEF Close, guard, Promised!Next, Promised!Opens
  <2>2. CASE ~ok
    BY <1>3, <2>2 DEF Close, guard, Promised!Next, Promised!Fails
  <2> QED BY <2>1, <2>2
<1>4. CASE CancelDeferred
  BY <1>4 DEF CancelDeferred, Promised!vars
<1>5. CASE UNCHANGED vars
  BY <1>5 DEF vars, guard, Promised!vars
<1>6. ASSUME [Next]_vars, ~(UNCHANGED vars), ~Connect, ~Close, ~CancelDeferred
      PROVE  ~Ended /\ ~Ended'
  <2>1. CASE Negotiates \/ Resolve \/ TimesOut \/ Clear \/ Leave \/ Join \/ GuardHandshake
    BY <2>1 DEF Negotiates, Greet, ChooseNone, ChoosePassword, Authenticate, Name, ReadHead,
                ReadLength, ReadBound, Request, Granted, ProxyFails, Resolve, TimesOut, Fails,
                GivesUp, GoesOn, Clear, Leave, Join, GuardHandshake, FirstStep, TypeOK,
                DialTyped, Socks5Places, Socks4Places
  <2>2. CASE Watchdog \/ Time
    BY <2>2 DEF Watchdog, WatchdogSeesContext, WatchdogSeesDone, WatchdogStamps, Time,
                ContextExpires, DeadlinePasses
  <2> QED BY <1>6, <2>1, <2>2 DEF Next, Dialer
<1> QED BY <1>1, <1>2, <1>3, <1>4, <1>5, <1>6

\* A dial implements Tunnel: whatever the proxy, the clock and the scheduler do, what
\* it hands over is let go of, and what it fails at leaves nothing behind (socks.go,
\* guardHandshake, dialSOCKS5 and dialSOCKS4).
THEOREM KeepsPromiseHolds == Spec => KeepsPromise
<1>1. Init => Promised!Init
  BY DEF Init, Ended, Promised!Init
<1> QED BY DialStart, DialNext, StepKeepsPromise, <1>1, PTL
        DEF Spec, KeepsPromise, Promised!Spec

\* The types of a dial's variables hold whatever happens to it (socks.go).
THEOREM TypeCorrect == Spec => []TypeOK
<1>1. DialInv => TypeOK
  BY DEF DialInv
<1> QED BY DialStart, DialNext, <1>1, PTL DEF Spec

\* The proxy's reply has been read to its end when the connection is handed over, for
\* every length a domain can have (socks.go, dialSOCKS5).
THEOREM StreamAlignedHolds == Spec => []StreamAligned
<1>1. DialInv => StreamAligned
  BY DEF DialInv, Agreed, StreamAligned
<1> QED BY DialStart, DialNext, <1>1, PTL DEF Spec

\* A connection handed over was granted by a proxy satisfied with its client
\* (socks.go, dialSOCKS5 and dialSOCKS4).
THEOREM TunnelIsGrantedHolds == Spec => []TunnelIsGranted
<1>1. DialInv => TunnelIsGranted
  BY DEF DialInv, Agreed, TunnelIsGranted
<1> QED BY DialStart, DialNext, <1>1, PTL DEF Spec
=============================================================================
