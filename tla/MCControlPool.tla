--------------------------- MODULE MCControlPool ---------------------------
\* Three configured hosts, one of them twice; a ping answers in full, answers
\* two echoes of ten, or times out.
EXTENDS ControlPool
MCHosts == <<"h1", "h2", "h1", "h3">>
MCPings == {Echoes(10, 10), Echoes(10, 2), TimedOut}
=============================================================================
