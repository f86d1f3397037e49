---------------------------- MODULE MCProxyPool ----------------------------
\* Values of the constants of ProxyPool for TLC: one proxy, or two.
EXTENDS ProxyPool

CONSTANTS p1, p2

MCPools == {<<p1>>, <<p1, p2>>}
=============================================================================
