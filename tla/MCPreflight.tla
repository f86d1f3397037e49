---------------------------- MODULE MCPreflight ----------------------------
\* Values of the constants of Preflight for TLC.
EXTENDS Preflight

CONSTANTS p1, p2, p3, masked, broken

\* p2 and p3 have credentials and differ only in the password; masked is the line with ***.
MCShown == [p \in {p1, p2, p3, masked} |-> IF p = p1 THEN p1 ELSE masked]

MCFirstList == {p1, p2, broken}
\* The user replaces a proxy, or empties the list.
MCUserSaves == {{p2, p3, broken}, {}}
=============================================================================
