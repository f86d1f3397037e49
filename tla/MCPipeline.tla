----------------------------- MODULE MCPipeline -----------------------------
\* Values of the constants of Pipeline for TLC.
EXTENDS Pipeline

CONSTANTS a, b, c

MCStarts == {[list |-> <<a, b, c>>, cycle |-> FALSE], [list |-> <<a, b>>, cycle |-> TRUE]}
\* The edit drops a name that may be in flight.
MCEditLists == {<<b>>}
=============================================================================
