------------------------------ MODULE Startup ------------------------------
(***************************************************************************)
(* A program's life from its configuration file to its exit: the bridge    *)
(* (main.rs, Config::load, server::run up to the accept loop and its drain)*)
(* or the client proxy (main.rs, ClientConfig::load, server::run).         *)
(*                                                                         *)
(* validate is one call, taken here section by section: each step picks a  *)
(* section of the file.  run then loads keys, spawns a task per listener   *)
(* that is on, and binds the main port itself: the tasks bind on their own,*)
(* in any order, while run goes on.  A signal may come at any moment.      *)
(***************************************************************************)
EXTENDS Config

VARIABLES
  pc,         \* where main is
  conf,       \* what validate has accepted so far
  lis,        \* lis[l]: "off", "spawned", "up" or "refused" (address in use)
  client_vk,  \* the client's verifying key is loaded (mutual authentication)
  handler,    \* signal handling: "no", "spawned", "ready"
  sent,       \* the program was signalled and took note of it
  seen        \* run's receiver of the shutdown channel has seen it

vars == <<pc, conf, lis, client_vk, handler, sent, seen>>

Tasks == Listener \ {"server"}

\* ValidConfig and ValidClientConfig, the fields that start-up and the other
\* modules depend on; wants_auth is the file's require_client_auth, auth_section
\* is FALSE when the file has no [auth] section.
Blank ==
  [auth_section |-> TRUE,
   addr |-> [l \in Listener |-> Unparsable], on |-> [l \in Listener |-> FALSE],
   limits |-> {}, key_rotation_interval |-> 0, vk_share_max_tokens |-> 0,
   pool |-> [max_size |-> 0, warm_size |-> 0, idle_timeout_secs |-> 0],
   wants_auth |-> FALSE, client_auth_enabled |-> FALSE, client_vk_path |-> "none",
   admin_control_plane_vk_path |-> "none", client_sk_path |-> "none"]

AllOff == [l \in Listener |-> "off"]

Init ==
  /\ pc \in {"server", "client"}
  /\ \E b \in BOOLEAN : conf = [Blank EXCEPT !.auth_section = b]
  /\ lis = AllOff
  /\ client_vk = FALSE /\ handler = "no" /\ sent = FALSE /\ seen = FALSE

\* The process is gone, and all that it held.
Exit(why) ==
  /\ pc' = why /\ conf' = Blank /\ lis' = AllOff
  /\ client_vk' = FALSE /\ handler' = "no" /\ sent' = FALSE /\ seen' = FALSE

Ended == {"rejected", "exited", "killed", "panicked", "refused"}

\* ---- Config::validate -------------------------------------------------------

running == <<lis, client_vk, handler, sent, seen>>

\* The section makes validate fail, or the configuration grows by it.
Section(bails, next, c) ==
  \/ bails /\ Exit("rejected")
  \/ ~bails /\ pc' = next /\ conf' = c /\ UNCHANGED running

With(l, enabled, a, c) ==
  IF enabled THEN [c EXCEPT !.on[l] = TRUE, !.addr[l] = a] ELSE c

ValidateServer ==
  /\ pc = "server"
  /\ \E s \in ServerConfig, k \in CryptoConfig, m \in MetricsConfig :
       Section(server_bails(s, k, m), "control_plane",
               [With("metrics", TRUE, m.listen_addr, With("server", TRUE, s.listen_addr, conf))
                  EXCEPT !.limits = {s.max_frame_size, s.handshake_timeout_secs,
                                     s.max_connections_per_ip}])

ValidateControlPlane ==
  /\ pc = "control_plane"
  /\ \E p \in ControlPlaneConfig :
       Section(control_plane_bails(p), "key_rotation",
               [conf EXCEPT !.limits = @ \cup {heartbeat_interval(p)}])

ValidateKeyRotation ==
  /\ pc = "key_rotation"
  /\ \E r \in KeyRotationConfig :
       Section(key_rotation_bails(r), "tls",
               [conf EXCEPT !.limits = @ \cup {r.max_bytes_per_key},
                            !.key_rotation_interval = r.max_seconds_per_key])

ValidateTls ==
  /\ pc = "tls"
  /\ \E t \in TlsConfig :
       Section(tls_bails(t, conf), "quic", With("tls", t.enabled, t.listen_addr, conf))

ValidateQuic ==
  /\ pc = "quic"
  /\ \E q \in QuicConfig :
       Section(quic_bails(q, conf), "auth", With("quic", q.enabled, q.listen_addr, conf))

ValidateAuth ==
  /\ pc = "auth"
  /\ \E a \in IF conf.auth_section THEN AuthConfig ELSE {AuthDefault} :
       Section(auth_bails(a), "admin",
               [conf EXCEPT !.wants_auth = a.require_client_auth,
                            !.client_auth_enabled = client_auth_enabled(a),
                            !.client_vk_path = a.client_vk_path])

ValidateAdmin ==
  /\ pc = "admin"
  /\ \E a \in AdminConfig :
       Section(admin_bails(a, conf), "websocket",
               [With("admin", a.enabled, a.listen_addr, conf) EXCEPT
                  !.limits = IF a.enabled THEN @ \cup {a.rate_limit_per_second,
                                                       a.handshake_timeout_secs} ELSE @,
                  !.admin_control_plane_vk_path =
                     IF a.enabled THEN a.control_plane_vk_path ELSE @])

ValidateWebsocket ==
  /\ pc = "websocket"
  /\ \E w \in WsConfig, v \in EnvNumber :
       Section(websocket_bails(w, conf), "boot",
               [With("ws", w.enabled, w.listen_addr, conf)
                  EXCEPT !.vk_share_max_tokens = vk_share_max_tokens(v)])

\* Reading the file or parsing the TOML fails.
LoadFails == pc \in {"server", "client"} /\ Exit("rejected")

\* ---- server::run of the bridge ------------------------------------------------

Go(next) == pc' = next /\ UNCHANGED <<conf, lis, client_vk, handler, sent, seen>>

\* metrics::init, the shutdown channel, and the task that waits for a signal.
Boot ==
  /\ pc = "boot"
  /\ \/ Exit("exited")
     \/ /\ pc' = "identity" /\ handler' = "spawned"
        /\ UNCHANGED <<conf, lis, client_vk, sent, seen>>

LoadIdentity == pc = "identity" /\ (Exit("exited") \/ Go("client_vk"))

LoadClientVk_lenient ==   \* mutant: a key that does not load is left out
  /\ pc = "client_vk"
  /\ pc' = "spawn_metrics" /\ client_vk' \in {conf.client_auth_enabled, FALSE}
  /\ UNCHANGED <<conf, lis, handler, sent, seen>>

\* The expect of client_vk_path, then ClientVerifyingIdentity::load.
LoadClientVk ==
  /\ pc = "client_vk"
  /\ IF ~conf.client_auth_enabled THEN Go("spawn_metrics")
     ELSE IF conf.client_vk_path = "none" THEN Exit("panicked")
     ELSE \/ Exit("exited")
          \/ /\ pc' = "spawn_metrics" /\ client_vk' = TRUE
             /\ UNCHANGED <<conf, lis, handler, sent, seen>>

Spawned(L) == [l \in Listener |-> IF l \in L /\ conf.on[l] THEN "spawned" ELSE lis[l]]

Spawn(L, next) ==
  pc' = next /\ lis' = Spawned(L) /\ UNCHANGED <<conf, client_vk, handler, sent, seen>>

SpawnMetricsAndQuic == pc = "spawn_metrics" /\ Spawn({"metrics", "quic"}, "spawn_tls")

\* What the two PEM files of a listener may hold: the key may be of another chain.
CertFile == {"missing", "malformed", "empty", "chain"}
KeyFile == {"missing", "malformed", "empty", "key", "other"}

load_certs(f) == f = "chain"
load_key(f) == f \in {"key", "other"}
build_server_config(cert, key) == load_certs(cert) /\ load_key(key) /\ key = "key"
build_acceptor(cert, key) == build_server_config(cert, key)

\* build_acceptor runs in main: a bad certificate ends the bridge.
SpawnTls ==
  /\ pc = "spawn_tls"
  /\ IF ~conf.on["tls"] THEN Go("spawn_admin")
     ELSE \E cert \in CertFile, key \in KeyFile :
            IF build_acceptor(cert, key) THEN Spawn({"tls"}, "spawn_admin") ELSE Exit("exited")

\* The expect of admin_control_plane_vk_path, then the key's load.
SpawnAdmin ==
  /\ pc = "spawn_admin"
  /\ IF conf.on["admin"] /\ conf.admin_control_plane_vk_path = "none" THEN Exit("panicked")
     ELSE (conf.on["admin"] /\ Exit("exited")) \/ Spawn({"admin"}, "spawn_ws")

SpawnWs == pc = "spawn_ws" /\ Spawn({"ws"}, "bind")

\* bind(2): one socket per port, unless the hosts differ and none is 0.0.0.0.
Overlap(a, b) == a[2] = b[2] /\ (a[1] = b[1] \/ "any" \in {a[1], b[1]})
Tcp == Listener \ {"quic"}
InUse(l) ==
  l \in Tcp /\ \E o \in Tcp \ {l} : lis[o] = "up" /\ Overlap(conf.addr[l], conf.addr[o])

\* The main port: without it run returns the error.  The other tasks die with it.
BindServer ==
  /\ pc = "bind"
  /\ IF InUse("server")
     THEN /\ pc' = "refused" /\ lis' = [lis EXCEPT !["server"] = "refused"]
          /\ UNCHANGED <<conf, client_vk, handler, sent, seen>>
     ELSE \/ Exit("exited")
          \/ /\ pc' = "enter" /\ lis' = [lis EXCEPT !["server"] = "up"]
             /\ UNCHANGED <<conf, client_vk, handler, sent, seen>>

shutdown_rx_pqc_subscribed == sent   \* mutant: subscribe(), which has seen the past

\* shutdown_rx.clone(): it has seen what the original has, nothing.
shutdown_rx_pqc == FALSE

\* The command consumer and the control plane task are spawned (Management), the
\* accept loop is entered (BridgeServer).
EnterLoop ==
  /\ pc = "enter" /\ pc' = "serving" /\ seen' = shutdown_rx_pqc
  /\ UNCHANGED <<conf, lis, client_vk, handler, sent>>

StopAccepting == pc = "serving" /\ sent /\ ~seen /\ Go("draining")

\* Every wait of the drain is bounded by the shutdown timeout (BridgeServer).
Drain == pc = "draining" /\ Exit("exited")

\* ---- the listener tasks -------------------------------------------------------

Becomes(l, st) ==
  lis' = [lis EXCEPT ![l] = st] /\ UNCHANGED <<pc, conf, client_vk, handler, sent, seen>>

\* A listener's task binds, or logs an error and ends.
Bind(l) ==
  /\ lis[l] = "spawned" /\ pc \notin Ended
  /\ IF InUse(l) THEN Becomes(l, "refused") ELSE Becomes(l, "up") \/ Becomes(l, "off")

spawn_metrics_server == Bind("metrics")
spawn_tls_listener == Bind("tls")
spawn_admin_listener == Bind("admin")

\* The files are read by the task: an error is logged and the bridge goes on without.
spawn_ws_listener ==
  \E cert \in CertFile, key \in KeyFile :
    IF build_acceptor(cert, key) THEN Bind("ws")
    ELSE lis["ws"] = "spawned" /\ pc \notin Ended /\ Becomes("ws", "off")

\* build_server_config, then the UDP socket.
build_endpoint(cert, key) ==
  IF build_server_config(cert, key) THEN Bind("quic")
  ELSE lis["quic"] = "spawned" /\ pc \notin Ended /\ Becomes("quic", "off")

spawn_quic_listener == \E cert \in CertFile, key \in KeyFile : build_endpoint(cert, key)

StopTask(l) ==
  lis[l] = "up" /\ sent /\ pc \notin Ended /\ Becomes(l, "off")

\* ---- the client proxy ---------------------------------------------------------

ValidateClient ==
  /\ pc = "client"
  /\ \E c \in ClientSection, p \in PoolConfig, r \in ReconnectConfig :
       Section(client_bails(c, p, r), "client_keys",
               [conf EXCEPT !.limits = {c.max_frame_size, p.warm_interval_secs},
                            !.pool = [max_size |-> p.max_size, warm_size |-> p.warm_size,
                                      idle_timeout_secs |-> p.idle_timeout_secs],
                            !.client_sk_path = c.client_sk_path])

\* load_verifying_key, and ClientIdentity::load when client_sk_path is set.
LoadClientKeys == pc = "client_keys" /\ (Exit("exited") \/ Go("client_bind"))

\* The pool and its warm_loop task (ConnectionPool), then the bind.
BindClient == pc = "client_bind" /\ (Exit("exited") \/ Go("client_signal"))

\* signal() for SIGTERM; the first select! registers SIGINT.
RegisterClient ==
  /\ pc = "client_signal" /\ pc' = "client_select" /\ handler' = "ready"
  /\ UNCHANGED <<conf, lis, client_vk, sent, seen>>

\* accept: an error ends the client, a connection gets a task (ClientSession).
AcceptUser == pc = "client_select" /\ (Exit("exited") \/ Go("client_spawn"))

SpawnUser == pc = "client_spawn" /\ Go("client_select")

\* pool.shutdown() and return: the warm_loop and the sessions end with main.
StopClient == pc = "client_select" /\ sent /\ Exit("exited")

\* ---- signals --------------------------------------------------------------------

RegisterSignals ==
  /\ handler = "spawned" /\ pc \notin Ended /\ handler' = "ready"
  /\ UNCHANGED <<pc, conf, lis, client_vk, sent, seen>>

\* SIGTERM or SIGINT.  Without a handler the process is killed.  The client
\* creates its SIGINT future anew in each iteration: a SIGINT that arrives in
\* client_spawn is dropped, a step that changes nothing; its SIGTERM stream stays.
Signal ==
  /\ pc \notin Ended
  /\ IF handler = "ready"
     THEN sent' = TRUE /\ UNCHANGED <<pc, conf, lis, client_vk, handler, seen>>
     ELSE Exit("killed")

Validate ==
  \/ LoadFails
  \/ ValidateServer \/ ValidateControlPlane \/ ValidateKeyRotation \/ ValidateTls
  \/ ValidateQuic \/ ValidateAuth \/ ValidateAdmin \/ ValidateWebsocket \/ ValidateClient

Run ==
  \/ Boot \/ LoadIdentity \/ LoadClientVk \/ SpawnMetricsAndQuic \/ SpawnTls
  \/ SpawnAdmin \/ SpawnWs \/ BindServer \/ EnterLoop \/ StopAccepting \/ Drain
  \/ LoadClientKeys \/ BindClient \/ RegisterClient \/ SpawnUser

Next ==
  \/ Validate \/ Run \/ AcceptUser \/ StopClient
  \/ spawn_metrics_server \/ spawn_tls_listener \/ spawn_quic_listener
  \/ spawn_admin_listener \/ spawn_ws_listener \/ \E l \in Tasks : StopTask(l)
  \/ RegisterSignals \/ Signal

\* main runs; select! starts with a random arm, so that one that stays ready is
\* not passed over for ever.
Spec == Init /\ [][Next]_vars /\ WF_vars(Validate) /\ WF_vars(Run) /\ SF_vars(StopClient)

\* ---- properties -------------------------------------------------------------------

\* Of two listeners of an accepted configuration one finds its address taken by
\* the other only if the addresses differ as text (0.0.0.0 and a host, same port)
\* or it is the main and the metrics listener, which validate does not compare:
\* the comparisons of validate, spread over four sections, miss no other pair.
ConflictsCaught ==
  \A l \in Listener : lis[l] = "refused" =>
    \E o \in Tcp \ {l} :
      /\ Overlap(conf.addr[l], conf.addr[o])
      /\ conf.addr[l] # conf.addr[o] \/ {l, o} = {"server", "metrics"}

\* A bridge whose file asks for client authentication never accepts a connection
\* without the client's key: a missing path is refused by validate, and a file that
\* does not load ends run.
AuthNeverDropped == pc \in {"enter", "serving"} /\ conf.wants_auth => client_vk

\* What run and the other modules assume of the configuration holds of every one
\* that is accepted: the two expects of run (server.rs:93, 146), the limits of
\* VkShare, Management, BridgeServer and RelaySession, the pool sizes of
\* ConnectionPool, and an interval that tokio's timer takes.
AssumptionsHold ==
  /\ pc # "panicked"
  /\ pc \in {"boot", "client_keys"} => \A n \in conf.limits : n \in Nat \ {0}
  /\ pc = "boot" => conf.vk_share_max_tokens > 0 /\ conf.key_rotation_interval > 0
  /\ pc = "client_keys" =>
       /\ conf.pool.max_size > 0 /\ conf.pool.warm_size <= conf.pool.max_size
       /\ conf.pool.idle_timeout_secs > 0

\* A signal that the program took note of ends it, also one that comes while run is
\* still starting: every receiver is a clone of the first, so none misses it.
SignalStops == sent ~> pc \in Ended

=============================================================================
