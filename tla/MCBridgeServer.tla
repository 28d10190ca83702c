--------------------------- MODULE MCBridgeServer ---------------------------
(* Two TCP connections and one WebSocket connection from two addresses. *)
EXTENDS BridgeServer, TLC

CONSTANTS t1, t2, w1, a1, a2

Tcp == {t1, t2}
Ws == {w1}
Addresses == {a1, a2}
=============================================================================
