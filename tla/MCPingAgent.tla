---------------------------- MODULE MCPingAgent ----------------------------
(* Small instances of PingAgent: the values of the parameters.             *)
EXTENDS PingAgent

CONSTANTS a, b

\* One address, two, and one address twice beside another.
AllLists == {<<a>>, <<a, b>>, <<a, b, a>>}

\* A negative retry means none; a channel of negative capacity panics, one of
\* capacity 0 blocks.
SomeRetries == {-1, 1, 2}

SomeLimits == {-1, 0, 1, 2}
=============================================================================
