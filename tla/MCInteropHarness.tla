-------------------------- MODULE MCInteropHarness --------------------------
\* Two clients that have a script and one that has none, two runs.
EXTENDS InteropHarness

MCClients == <<"go", "rust", "kotlin">>
=============================================================================
