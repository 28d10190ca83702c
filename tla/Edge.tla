-------------------------------- MODULE Edge --------------------------------
(***************************************************************************)
(* A connection of one of the listeners around the PQC port (server.rs):   *)
(* TLS and QUIC, which relay HTTP to the backend (HttpEdge), and WebSocket,*)
(* which carries a PQC session (WsStream).  `kind' names the listener.     *)
(***************************************************************************)
EXTENDS HttpEdge, WsStream

edgeVars == <<httpVars, wsVars>>

EdgeInit ==
  \/ (\E k \in {"tls", "lib", "quic"} : HttpInit(k)) /\ WsInit /\ allowed = {} /\ header = {}
  \/ HttpInit("ws") /\ req = (CHOOSE r \in Request : TRUE) /\ WsInit

EdgeNext ==
  \/ kind # "ws" /\ HttpNext /\ UNCHANGED wsVars
  \/ kind = "ws" /\ WsNext /\ UNCHANGED httpVars

EdgeSpec == EdgeInit /\ [][EdgeNext]_edgeVars
=============================================================================
