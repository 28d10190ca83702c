----------------------------- MODULE MCStartup -----------------------------
(* Startup for TLC.                                                        *)
EXTENDS Startup

\* A wildcard and a host on one port, and a second port.
MCAddr == {<<"any", 1>>, <<"lo", 1>>, <<"lo", 2>>}
=============================================================================
