---------------------------- MODULE MCCCConnection ----------------------------
EXTENDS CCConnection, TLC

CONSTANTS x, y, dev

\* Two processes of one session: a client and its replacement, or a window
\* opened twice.
OneSession == x :> dev @@ y :> dev
=============================================================================
