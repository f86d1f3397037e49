----------------------------- MODULE MCListSync -----------------------------
\* Values of the constants of ListSync for TLC.
EXTENDS ListSync

CONSTANTS a, b, B, c, d

\* B is another spelling of b.
MCKey == [n \in Names |-> IF n = B THEN b ELSE n]

\* The user drops a and c, spells b in two ways and adds d; spells b anew; or empties
\* the list.
MCUserSaves == {{b, B, d}, {B}, {}}
=============================================================================
