------------------------------ MODULE Verdict ------------------------------
(***************************************************************************)
(* What a check of one name promises to those who read its result: the     *)
(* writer, which records and deletes an available name for good, and the   *)
(* contract guard, which stops the run.  Checker.tla implements this.      *)
(***************************************************************************)
CONSTANTS
    Routes      \* the ways to the endpoint: proxies, or the direct connection

VARIABLES
    noConfirm,  \* -no-confirm
    said,       \* what each route has answered about the name
    outcome     \* the result, or "pending"

vars == <<noConfirm, said, outcome>>

Answers == {"available", "taken", "unknown"}
Outcomes == {"available", "unconfirmed", "taken", "unknown", "error"}

\* The results these answers justify.  One taken outweighs everything else; a name
\* is available because two routes said so, or one with -no-confirm, and is marked
\* unconfirmed otherwise.
Says(heard, r, answer) == <<r, answer>> \in heard
SaidTaken(heard) == \E r \in Routes : Says(heard, r, "taken")
Corroborated(heard) ==
    \E r, s \in Routes :
        Says(heard, r, "available") /\ Says(heard, s, "available") /\ (r # s \/ noConfirm)
Justified(result, heard) ==
    \/ result = "taken" /\ SaidTaken(heard)
    \/ result = "available" /\ Corroborated(heard) /\ ~SaidTaken(heard)
    \/ /\ result = "unconfirmed" /\ ~SaidTaken(heard) /\ ~noConfirm
       /\ \E r \in Routes : Says(heard, r, "available")
    \/ result = "unknown" /\ heard # {} /\ ~SaidTaken(heard)
    \/ result = "error" /\ heard = {}

Init == noConfirm \in BOOLEAN /\ said = {} /\ outcome = "pending"

\* One more answer, which may decide the check.
Hear ==
    /\ outcome = "pending"
    /\ \E r \in Routes, answer \in Answers : said' = said \cup {<<r, answer>>}
    /\ outcome' = "pending" \/ Justified(outcome', said')

\* No more answers are waited for.
GiveUp == outcome = "pending" /\ said' = said /\ Justified(outcome', said)

NextName == outcome # "pending" /\ said' = {} /\ outcome' = "pending"

Next == (Hear \/ GiveUp \/ NextName) /\ UNCHANGED noConfirm

Spec == Init /\ [][Next]_vars
=============================================================================
