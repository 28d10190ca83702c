------------------------------- MODULE Config -------------------------------
(***************************************************************************)
(* Config::validate of the bridge and ClientConfig::validate of the client *)
(* proxy (config.rs of both) as operators.                                 *)
(*                                                                         *)
(* A section of the TOML file is a record of the set named after its       *)
(* struct, over the values its checks tell apart: for a limit, the last    *)
(* value refused and the first accepted.  <section>_bails is TRUE when the *)
(* section makes validate return an error, given the sections before it.   *)
(* The file's order is the code's: server, control_plane, key_rotation,    *)
(* tls, quic, auth, admin, websocket.                                      *)
(***************************************************************************)
EXTENDS Integers

CONSTANT Addr    \* socket addresses <<host, port>>, host "any" (0.0.0.0) or another

Unparsable == <<"unparsable", 0>>
Addrs == Addr \cup {Unparsable}
Backend == <<"backend", 0>>

\* A path, an endpoint: "none" is Option::None.
Path == {"empty", "file"}
PathOption == {"none", "file"}

\* The listeners that validate compares and run starts.
Listener == {"server", "metrics", "tls", "quic", "admin", "ws"}

\* ---- the sections ---------------------------------------------------------

ServerConfig ==
  [listen_addr : Addrs, backend_addr : {Backend, Unparsable},
   max_frame_size : {1023, 1024, 16777217},
   handshake_timeout_secs : {0, 1}, max_connections_per_ip : {0, 1}]
CryptoConfig == [signing_key_path : Path]
MetricsConfig == [listen_addr : Addrs]
ControlPlaneConfig ==
  [enabled : BOOLEAN, endpoint : {"empty", "text", "url"}, heartbeat_interval_secs : {0, 5}]
KeyRotationConfig ==
  [max_bytes_per_key : {1048575, 1048576}, max_seconds_per_key : {59, 60}]
TlsConfig ==
  [enabled : BOOLEAN, listen_addr : Addrs, cert_path : Path, key_path : Path]
QuicConfig ==
  [enabled : BOOLEAN, listen_addr : Addrs, cert_path : PathOption, key_path : PathOption]
AuthConfig == [client_vk_path : PathOption, require_client_auth : BOOLEAN]
AuthDefault == [client_vk_path |-> "none", require_client_auth |-> TRUE]   \* no [auth] section
AdminConfig ==
  [enabled : BOOLEAN, listen_addr : Addrs, control_plane_vk_path : PathOption,
   rate_limit_per_second : {0, 1}, handshake_timeout_secs : {0, 1}]
WsConfig ==
  [enabled : BOOLEAN, listen_addr : Addrs, cert_path : PathOption, key_path : PathOption,
   allowed_origins : {"valid", "invalid"}]

\* ---- Config::validate ------------------------------------------------------

\* The configuration so far: listeners that are on and their addresses.
Taken(a, others, c) == \E l \in others : c.on[l] /\ c.addr[l] = a

\* The whole socket address is compared, and server with metrics is not.
server_bails(s, k, m) ==
  \/ Unparsable \in {s.listen_addr, s.backend_addr, m.listen_addr}
  \/ s.max_frame_size < 1024 \/ s.max_frame_size > 16 * 1024 * 1024
  \/ s.handshake_timeout_secs < 1
  \/ s.max_connections_per_ip = 0
  \/ k.signing_key_path = "empty"

control_plane_bails(p) == p.enabled /\ p.endpoint # "url"

\* max(5) of the heartbeat interval.
heartbeat_interval(p) == IF p.heartbeat_interval_secs < 5 THEN 5 ELSE p.heartbeat_interval_secs

key_rotation_bails(r) == r.max_bytes_per_key < 1048576 \/ r.max_seconds_per_key < 60

tls_bails(t, c) ==
  \/ t.listen_addr = Unparsable
  \/ /\ t.enabled
     /\ \/ t.cert_path = "empty" \/ t.key_path = "empty"
        \/ Taken(t.listen_addr, {"server", "metrics"}, c)

quic_bails(q, c) ==
  \/ q.listen_addr = Unparsable
  \/ /\ q.enabled
     /\ \/ "none" \in {q.cert_path, q.key_path}
        \/ Taken(q.listen_addr, {"server", "tls", "metrics"}, c)

auth_bails(a) == a.require_client_auth /\ a.client_vk_path = "none"

client_auth_enabled(a) == a.require_client_auth /\ a.client_vk_path # "none"

admin_bails_lax(a, c) ==   \* mutant: the key of the control plane is not asked for
  \/ a.listen_addr = Unparsable
  \/ /\ a.enabled
     /\ \/ a.rate_limit_per_second < 1 \/ a.handshake_timeout_secs < 1
        \/ Taken(a.listen_addr, {"server", "metrics", "tls", "quic"}, c)

admin_bails(a, c) ==
  \/ a.listen_addr = Unparsable
  \/ /\ a.enabled
     /\ \/ a.control_plane_vk_path = "none"
        \/ a.rate_limit_per_second < 1
        \/ a.handshake_timeout_secs < 1
        \/ Taken(a.listen_addr, {"server", "metrics", "tls", "quic"}, c)

websocket_bails_no_admin(w, c) ==   \* mutant: the comparison with admin is missing
  \/ w.listen_addr = Unparsable
  \/ /\ w.enabled
     /\ \/ "none" \in {w.cert_path, w.key_path}
        \/ Taken(w.listen_addr, {"server", "metrics", "tls", "quic"}, c)
  \/ w.allowed_origins = "invalid"

\* websocket.handshake_timeout_secs and max_connections_per_ip are not checked.
websocket_bails(w, c) ==
  \/ w.listen_addr = Unparsable
  \/ /\ w.enabled
     /\ \/ "none" \in {w.cert_path, w.key_path}
        \/ Taken(w.listen_addr, {"server", "metrics", "tls", "quic", "admin"}, c)
  \/ w.allowed_origins = "invalid"

\* The environment: a variable is unset, text, or a number.
EnvNumber == {"unset", "text", "0", "7"}
DEFAULT_TOKEN_MAX == 1000

vk_share_max_tokens(v) == IF v = "7" THEN 7 ELSE DEFAULT_TOKEN_MAX

\* ---- ClientConfig::validate -------------------------------------------------

ClientSection ==
  [listen_addr : Addrs, bridge_addr : {Backend, Unparsable}, server_vk_path : Path,
   max_frame_size : {1023, 1024, 16777217}, client_sk_path : PathOption]
PoolConfig ==
  [max_size : 0..2, idle_timeout_secs : {0, 1}, warm_size : 0..3, warm_interval_secs : {0, 1}]
ReconnectConfig == [base_delay_ms : 1..2, max_delay_ms : 1..2]

client_bails(c, p, r) ==
  \/ Unparsable \in {c.listen_addr, c.bridge_addr}
  \/ c.max_frame_size < 1024 \/ c.max_frame_size > 16 * 1024 * 1024
  \/ c.server_vk_path = "empty"
  \/ p.max_size < 1 \/ p.warm_size > p.max_size
  \/ p.idle_timeout_secs < 1 \/ p.warm_interval_secs < 1
  \/ r.base_delay_ms > r.max_delay_ms
=============================================================================
