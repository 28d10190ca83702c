---------------------------- MODULE BridgeServer ----------------------------
(***************************************************************************)
(* The bridge process around its sessions                                  *)
(* (latticeshield-bridge/src/server.rs): the TCP and the WebSocket accept  *)
(* loops with their per-IP caps, the life of a session task from the       *)
(* handshake to the release of its slot, key rotation requests broadcast   *)
(* on a watch channel, and shutdown: the accept loops stop, the handles of *)
(* the TCP sessions are awaited one after the other, each with a timeout   *)
(* of its own, and run returns.                                            *)
(*                                                                         *)
(* What a session relays is the subject of RelaySession.  Time is not a    *)
(* clock but the timers that run: Tick advances them all by one unit, and  *)
(* is held back while a timer that has run out, or an await that is ready, *)
(* has not been served.                                                    *)
(***************************************************************************)
EXTENDS Naturals, Sequences, FiniteSets

CONSTANTS TcpConn, WsConn,    \* connections made to the two listeners
          IP,                 \* source addresses
          TcpMaxPerIp,        \* server.max_connections_per_ip
          WsMaxPerIp,         \* websocket.max_connections_per_ip
          TcpTimeout,         \* server.handshake_timeout_secs
          WsTimeout,          \* websocket.handshake_timeout_secs
          ShutdownTimeout,    \* SHUTDOWN_TIMEOUT_SECS
          MaxRotations        \* bound: rotation requests

\* Config::validate wants positive limits for the TCP listener only.
ASSUME BridgeConfig ==
  /\ TcpMaxPerIp \in Nat \ {0} /\ WsMaxPerIp \in Nat
  /\ TcpTimeout \in Nat \ {0} /\ WsTimeout \in Nat
  /\ ShutdownTimeout \in Nat
  /\ MaxRotations \in Nat

\* A connection is made to one of the listeners, finitely often.
ASSUME ConnAssumption ==
  IsFiniteSet(TcpConn) /\ IsFiniteSet(WsConn) /\ TcpConn \cap WsConn = {}

Conn == TcpConn \cup WsConn

VARIABLES
  phase,     \* where the task of a connection is
  ip,        \* its source address
  timer,     \* what is left of its handshake timeout
  tcp_ip,    \* tcp_ip_counter: connections per address, TCP listener
  ws_ip,     \* ip_counter of the WebSocket listener
  active,    \* MetricsState::connections_active
  rotate,    \* the value of the rotate_tx watch
  seen,      \* the value a session's rotate_rx has seen
  handles,   \* session_handles
  signal,    \* the shutdown watch has been set
  server,    \* run: "accepting", "draining" or "exited"
  ws,        \* the WebSocket listener task: "accepting" or "stopped"
  left,      \* what is left of the timeout of the handle awaited
  elapsed    \* time since draining began

sessionVars == <<phase, ip, timer, tcp_ip, ws_ip, active, seen>>
serverVars == <<handles, server, ws, left, elapsed>>
vars == <<sessionVars, rotate, signal, serverVars>>

Running == server # "exited"

\* The phases in which a task exists, and holds its slot.
Live(c) == phase[c] \in {"upgrade", "handshake", "backend", "relay", "returning"}

Init ==
  /\ phase = [c \in Conn |-> "new"]
  /\ ip \in [Conn -> IP]
  /\ timer = [c \in Conn |-> 0]
  /\ tcp_ip = [a \in IP |-> 0] /\ ws_ip = [a \in IP |-> 0]
  /\ active = 0
  /\ rotate = 0 /\ seen = [c \in Conn |-> 0]
  /\ handles = <<>> /\ signal = FALSE
  /\ server = "accepting" /\ ws = "accepting"
  /\ left = 0 /\ elapsed = 0

(***************************************************************************)
(* The accept loops.  The cap is checked and the slot taken under the lock *)
(* of the map; a connection over the cap is dropped.                       *)
(***************************************************************************)
HasRoom_off_by_one(count, max) == count <= max   \* mutant: `>' for `>='

HasRoom(count, max) == count < max

HandshakeTimeout(c) == IF c \in TcpConn THEN TcpTimeout ELSE WsTimeout

Enter(c, p) ==
  /\ phase' = [phase EXCEPT ![c] = p]
  /\ timer' = [timer EXCEPT ![c] = IF p = "handshake" THEN HandshakeTimeout(c) ELSE 0]

TcpAccept(c) ==
  /\ server = "accepting" /\ phase[c] = "new"
  /\ IF HasRoom(tcp_ip[ip[c]], TcpMaxPerIp)
     THEN /\ tcp_ip' = [tcp_ip EXCEPT ![ip[c]] = @ + 1]
          /\ Enter(c, "handshake")
          /\ handles' = Append(handles, c)
     ELSE Enter(c, "rejected") /\ UNCHANGED <<tcp_ip, handles>>
  /\ UNCHANGED <<ip, ws_ip, active, seen, rotate, signal, server, ws, left, elapsed>>

\* The task of a WebSocket connection is spawned and its handle dropped; it
\* starts with the TLS handshake and the upgrade, which no timeout covers.
WsAccept(c) ==
  /\ Running /\ ws = "accepting" /\ phase[c] = "new"
  /\ IF HasRoom(ws_ip[ip[c]], WsMaxPerIp)
     THEN ws_ip' = [ws_ip EXCEPT ![ip[c]] = @ + 1] /\ Enter(c, "upgrade")
     ELSE Enter(c, "rejected") /\ UNCHANGED ws_ip
  /\ UNCHANGED <<ip, tcp_ip, active, seen, rotate, signal, serverVars>>

(***************************************************************************)
(* A session task.                                                         *)
(***************************************************************************)
Upgraded(c) ==
  /\ Running /\ phase[c] = "upgrade"
  /\ Enter(c, "handshake")
  /\ UNCHANGED <<ip, tcp_ip, ws_ip, active, seen, rotate, signal, serverVars>>

UpgradeFails(c) ==
  /\ Running /\ phase[c] = "upgrade"
  /\ Enter(c, "returning")
  /\ UNCHANGED <<ip, tcp_ip, ws_ip, active, seen, rotate, signal, serverVars>>

\* The two guards are created: the session counts as active from here on.
HandshakeDone(c) ==
  /\ Running /\ phase[c] = "handshake"
  /\ Enter(c, "backend")
  /\ active' = active + 1
  /\ UNCHANGED <<ip, tcp_ip, ws_ip, seen, rotate, signal, serverVars>>

HandshakeFails(c) ==
  /\ Running /\ phase[c] = "handshake"
  /\ Enter(c, "returning")
  /\ UNCHANGED <<ip, tcp_ip, ws_ip, active, seen, rotate, signal, serverVars>>

HandshakeTimesOut(c) ==
  /\ timer[c] = 0
  /\ HandshakeFails(c)

\* The backend is connected and the session subscribes to rotate_tx: requests
\* made so far count as seen.
BackendConnects(c) ==
  /\ Running /\ phase[c] = "backend"
  /\ Enter(c, "relay")
  /\ seen' = [seen EXCEPT ![c] = rotate]
  /\ UNCHANGED <<ip, tcp_ip, ws_ip, active, rotate, signal, serverVars>>

\* The backend connect fails or the relay loop ends: the guards are dropped.
SessionEnds(c) ==
  /\ Running /\ phase[c] \in {"backend", "relay"}
  /\ Enter(c, "returning")
  /\ active' = active - 1
  /\ UNCHANGED <<ip, tcp_ip, ws_ip, seen, rotate, signal, serverVars>>

\* IpCountGuard::drop: one slot of the address is given back.
Freed(counter, a) == [counter EXCEPT ![a] = IF @ > 0 THEN @ - 1 ELSE @]

\* The task ends.
SlotFreed(c) ==
  /\ Running /\ phase[c] = "returning"
  /\ Enter(c, "done")
  /\ tcp_ip' = IF c \in TcpConn THEN Freed(tcp_ip, ip[c]) ELSE tcp_ip
  /\ ws_ip' = IF c \in WsConn THEN Freed(ws_ip, ip[c]) ELSE ws_ip
  /\ UNCHANGED <<ip, active, seen, rotate, signal, serverVars>>

(***************************************************************************)
(* Key rotation: the admin command and the control plane's command both    *)
(* bump the watch; a session that notices rotates once, however many       *)
(* requests it has missed.                                                 *)
(***************************************************************************)
RotateRequested ==
  /\ Running /\ rotate < MaxRotations
  /\ rotate' = rotate + 1
  /\ UNCHANGED <<sessionVars, signal, serverVars>>

SessionRotates_tcp(c) ==   \* mutant: WebSocket sessions have no receiver
  /\ Running /\ phase[c] = "relay" /\ seen[c] # rotate /\ c \in TcpConn
  /\ seen' = [seen EXCEPT ![c] = rotate]
  /\ UNCHANGED <<phase, ip, timer, tcp_ip, ws_ip, active, rotate, signal, serverVars>>

SessionRotates(c) ==
  /\ Running /\ phase[c] = "relay" /\ seen[c] # rotate
  /\ seen' = [seen EXCEPT ![c] = rotate]
  /\ UNCHANGED <<phase, ip, timer, tcp_ip, ws_ip, active, rotate, signal, serverVars>>

(***************************************************************************)
(* Shutdown.  Sessions do not watch for it.                                *)
(***************************************************************************)
SignalReceived ==
  /\ Running /\ ~signal
  /\ signal' = TRUE
  /\ UNCHANGED <<sessionVars, rotate, serverVars>>

AcceptLoopStops ==
  /\ server = "accepting" /\ signal
  /\ server' = "draining"
  /\ left' = ShutdownTimeout
  /\ UNCHANGED <<sessionVars, rotate, signal, handles, ws, elapsed>>

WsLoopStops ==
  /\ Running /\ ws = "accepting" /\ signal
  /\ ws' = "stopped"
  /\ UNCHANGED <<sessionVars, rotate, signal, handles, server, left, elapsed>>

\* The await of the first handle returns: the task is over, or time is up.
HandleReady == handles # <<>> /\ (phase[Head(handles)] = "done" \/ left = 0)

DrainNext_finished ==   \* mutant: the timeout of a handle is ignored
  /\ server = "draining" /\ handles # <<>> /\ phase[Head(handles)] = "done"
  /\ handles' = Tail(handles)
  /\ left' = ShutdownTimeout
  /\ UNCHANGED <<sessionVars, rotate, signal, server, ws, elapsed>>

DrainNext_retries ==   \* mutant: a handle is awaited again after its timeout
  /\ server = "draining" /\ HandleReady
  /\ handles' = IF phase[Head(handles)] = "done" THEN Tail(handles) ELSE handles
  /\ left' = ShutdownTimeout
  /\ UNCHANGED <<sessionVars, rotate, signal, server, ws, elapsed>>

\* On to the next handle, with a fresh timeout.
DrainNext ==
  /\ server = "draining" /\ HandleReady
  /\ handles' = Tail(handles)
  /\ left' = ShutdownTimeout
  /\ UNCHANGED <<sessionVars, rotate, signal, server, ws, elapsed>>

\* All handles are awaited, then the listeners', which stop before their own
\* timeouts run out: run returns, and the runtime drops what still runs.
Exit ==
  /\ server = "draining" /\ handles = <<>> /\ ws = "stopped"
  /\ server' = "exited"
  /\ UNCHANGED <<sessionVars, rotate, signal, handles, ws, left, elapsed>>

Tick ==
  /\ Running
  /\ \A c \in Conn : phase[c] = "handshake" => timer[c] > 0
  /\ server = "draining" => handles # <<>> /\ ~HandleReady
  /\ timer' = [c \in Conn |-> IF phase[c] = "handshake" THEN timer[c] - 1 ELSE 0]
  /\ IF server = "draining"
     THEN left' = left - 1 /\ elapsed' = elapsed + 1
     ELSE UNCHANGED <<left, elapsed>>
  /\ UNCHANGED <<phase, ip, tcp_ip, ws_ip, active, seen, rotate, signal, handles,
                 server, ws>>

-----------------------------------------------------------------------------

SessionStep(c) ==
  \/ HandshakeDone(c) \/ HandshakeFails(c) \/ HandshakeTimesOut(c)
  \/ BackendConnects(c) \/ SessionRotates(c) \/ SessionEnds(c) \/ SlotFreed(c)

Next ==
  \/ \E c \in TcpConn : TcpAccept(c)
  \/ \E c \in WsConn : WsAccept(c) \/ Upgraded(c) \/ UpgradeFails(c)
  \/ \E c \in Conn : SessionStep(c)
  \/ RotateRequested \/ SignalReceived
  \/ AcceptLoopStops \/ WsLoopStops \/ DrainNext \/ Exit
  \/ Tick

Spec == Init /\ [][Next]_vars

(***************************************************************************)
(* Fairness: time passes, timers fire, tasks that are ready run, and       *)
(* select! picks at random among the ready arms, so a listener does not    *)
(* overlook the shutdown for ever.  Peers, backends and operators are      *)
(* free, except that a connect to the backend and the writes of a relay    *)
(* loop return, so that the loop gets back to its select!.                 *)
(***************************************************************************)
Fairness ==
  /\ WF_vars(Tick)
  /\ WF_vars(AcceptLoopStops) /\ WF_vars(WsLoopStops)
  /\ WF_vars(DrainNext) /\ WF_vars(Exit)
  /\ \A c \in Conn :
       /\ WF_vars(HandshakeTimesOut(c))
       /\ WF_vars(phase[c] = "backend" /\ (BackendConnects(c) \/ SessionEnds(c)))
       /\ WF_vars(SessionRotates(c))
       /\ WF_vars(SlotFreed(c))

FairSpec == Spec /\ Fairness

-----------------------------------------------------------------------------
(* Properties *)

\* On every path out of a task what it counted is taken back once: the counter
\* of an address is the number of its live tasks, and never above the cap, and
\* connections_active, which the rotate command reports, is the number of
\* sessions past their handshake, also when the backend cannot be reached.
SlotsExact ==
  /\ active = Cardinality({c \in Conn : phase[c] \in {"backend", "relay"}})
  /\ \A a \in IP :
       /\ tcp_ip[a] = Cardinality({c \in TcpConn : Live(c) /\ ip[c] = a})
       /\ ws_ip[a] = Cardinality({c \in WsConn : Live(c) /\ ip[c] = a})
       /\ tcp_ip[a] <= TcpMaxPerIp /\ ws_ip[a] <= WsMaxPerIp

\* A rotation request reaches every session relaying when it is made, on
\* either listener and also while the bridge drains: none relays for ever
\* with a request its rotate_rx has not seen.
RotationReaches ==
  \A c \in Conn :
    (phase[c] = "relay" /\ seen[c] # rotate)
      ~> (seen[c] = rotate \/ phase[c] # "relay" \/ ~Running)

\* The drain takes at most one shutdown_timeout per TCP session, and run does
\* not return while a TCP session is running that has not had that time.
DrainBounded ==
  /\ [](elapsed <= ShutdownTimeout
                     * Cardinality({c \in TcpConn : phase[c] \notin {"new", "rejected"}}))
  /\ [][server' = "exited" /\ Running =>
          \A c \in TcpConn : Live(c) => elapsed >= ShutdownTimeout]_vars

\* The drain gets nearer to its end with every step of it: no session is added
\* to the handles awaited, a handle is not awaited again, and the timeout of the
\* one that is awaited only runs down.
DrainRunsOut ==
  [][server # "accepting" /\ (handles' # handles \/ left' # left) =>
       /\ left' \in Nat
       /\ Len(handles') < Len(handles) \/ (handles' = handles /\ left' < left)]_vars

\* After the signal run returns, whatever the sessions do.
ShutdownCompletes == signal ~> server = "exited"

=============================================================================
