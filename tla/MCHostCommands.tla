--------------------------- MODULE MCHostCommands ---------------------------
\* One preflight, one `new --commit`, the service and room for two entries.
EXTENDS HostCommands

CONSTANTS p1, c1, s1, s2

MCPreflights == {p1}
MCCommits    == {c1}
MCSetups     == {s1, s2}
==============================================================================
