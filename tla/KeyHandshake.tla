---------------------------- MODULE KeyHandshake ----------------------------
(***************************************************************************)
(* The long-term keys, from their generation on disk to the handshake that *)
(* uses them: the keygen commands (identity.rs of bridge and client,       *)
(* main.rs admin_keygen), the copies of the .vk files, the loaders at the  *)
(* start of a process, and the hybrid handshake (latticeshield-crypto      *)
(* handshake.rs and signing.rs) between the bridge and its three kinds of  *)
(* peer: the client proxy (client_session.rs), a browser                   *)
(* (latticeshield-wasm) and the admin CLI (latticeshield-cli main.rs).     *)
(*                                                                         *)
(* A key pair is known by its generation, a file by the generation it was  *)
(* written in and how much of it is there.  A keygen may crash between any *)
(* two of its writes, and a process may start or stop at any moment.       *)
(* Signatures are ideal: what was signed with a pair verifies under that   *)
(* pair and under no other.  One peer at a time is there.                  *)
(***************************************************************************)
EXTENDS Integers, Sequences

CONSTANTS
  MaxGen,    \* bound: generations of each owner's pair
  MaxEph     \* bound: handshakes, each with ephemerals of its own

Owner == {"server", "client", "admin"}

ASSUME KeyAssumption == MaxGen \in [Owner -> Nat \ {0}] /\ MaxEph \in Nat

VARIABLES
  sk, vk,     \* [Owner -> file]: the pair in the owner's directory
  mode,       \* [Owner -> BOOLEAN]: the .sk has mode 0600
  keygen,     \* [Owner -> "idle", "sk", "vk", "write_vk"]: the command's next write
  gen,        \* [Owner -> the generation last drawn]
  copy,       \* [Owner -> file]: the .vk where the other side reads it
  client_auth, client_sk_path, admin_on,   \* the two configurations
  bridge,     \* the keys the bridge has loaded
  proxy,      \* the kind of peer, and the keys it has loaded
  eph,        \* ephemerals drawn
  conn        \* the connection between them

keyFiles == <<sk, vk, mode, keygen, gen, copy>>
keyConf == <<client_auth, client_sk_path, admin_on>>
keyVars == <<keyFiles, keyConf, bridge, proxy, eph, conn>>

\* ---- files ----------------------------------------------------------------------

None == [gen |-> 0, st |-> "none"]
Cut(g) == [gen |-> g, st |-> "cut"]
Whole(g) == [gen |-> g, st |-> "whole"]

Down == [pc |-> "down", sk |-> 0, vk |-> 0, client_vk |-> 0, cp_vk |-> 0]
Away == [pc |-> "down", kind |-> "proxy", sk |-> 0, vk |-> 0]
Idle == [b |-> "idle", c |-> "idle", hello |-> <<>>, response |-> <<>>, bkey |-> <<>>, ckey |-> <<>>]

\* An owner may start with a pair, one whose .sk was copied into place with a wider
\* mode included.
KeyInit ==
  /\ \E old \in {{}, {"server", "client"}}, wide \in SUBSET {"server"} :
       /\ wide \subseteq old
       /\ gen = [o \in Owner |-> IF o \in old THEN 1 ELSE 0]
       /\ sk = [o \in Owner |-> IF o \in old THEN Whole(1) ELSE None]
       /\ mode = [o \in Owner |-> o \notin wide]
  /\ vk = sk /\ copy = sk
  /\ keygen = [o \in Owner |-> "idle"]
  /\ client_auth \in BOOLEAN /\ client_sk_path \in BOOLEAN /\ admin_on \in BOOLEAN
  /\ bridge = Down /\ proxy = Away /\ eph = 0 /\ conn = Idle

\* ---- keygen ---------------------------------------------------------------------

Draws(o) ==
  /\ keygen[o] = "idle" /\ gen[o] < MaxGen[o]
  /\ gen' = [gen EXCEPT ![o] = @ + 1] /\ keygen' = [keygen EXCEPT ![o] = "sk"]
  /\ sk' = [sk EXCEPT ![o] = Cut(gen'[o])]
  /\ mode' = [mode EXCEPT ![o] = IF sk[o] = None THEN TRUE ELSE @]
  /\ UNCHANGED vk

generate_and_save_vk_first(o) ==   \* mutant: the .vk is written before the .sk
  /\ UNCHANGED copy
  /\ \/ /\ keygen[o] = "idle" /\ gen[o] < MaxGen[o]
        /\ gen' = [gen EXCEPT ![o] = @ + 1] /\ keygen' = [keygen EXCEPT ![o] = "sk"]
        /\ vk' = [vk EXCEPT ![o] = Whole(gen'[o])] /\ UNCHANGED <<sk, mode>>
     \/ /\ keygen[o] = "sk" /\ keygen' = [keygen EXCEPT ![o] = "idle"]
        /\ sk' = [sk EXCEPT ![o] = Whole(gen[o])] /\ UNCHANGED <<vk, mode, gen>>
     \/ /\ keygen[o] # "idle" /\ keygen' = [keygen EXCEPT ![o] = "idle"]
        /\ UNCHANGED <<sk, vk, mode, gen>>

\* Each file is opened with truncate, then written, the .sk first.  The mode given to
\* open counts only when the file is created.  A crash leaves what is there.
generate_and_save(o) ==
  /\ UNCHANGED copy
  /\ \/ Draws(o)
     \/ /\ keygen[o] = "sk" /\ keygen' = [keygen EXCEPT ![o] = "vk"]
        /\ sk' = [sk EXCEPT ![o] = Whole(gen[o])] /\ UNCHANGED <<vk, mode, gen>>
     \/ /\ keygen[o] = "vk" /\ keygen' = [keygen EXCEPT ![o] = "write_vk"]
        /\ vk' = [vk EXCEPT ![o] = Cut(gen[o])] /\ UNCHANGED <<sk, mode, gen>>
     \/ /\ keygen[o] = "write_vk" /\ keygen' = [keygen EXCEPT ![o] = "idle"]
        /\ vk' = [vk EXCEPT ![o] = Whole(gen[o])] /\ UNCHANGED <<sk, mode, gen>>
     \/ /\ keygen[o] # "idle" /\ keygen' = [keygen EXCEPT ![o] = "idle"]
        /\ UNCHANGED <<sk, vk, mode, gen>>

Elsewhere == UNCHANGED <<keyConf, bridge, proxy, eph, conn>>

\* The control plane's pair, and the client's, matter where they are configured.
ServerKeygen == generate_and_save("server") /\ Elsewhere
ClientKeygen == (client_auth \/ client_sk_path) /\ generate_and_save("client") /\ Elsewhere
admin_keygen == admin_on /\ generate_and_save("admin") /\ Elsewhere

\* The operator copies a .vk to the other side, whatever is in it, or chmods the .sk.
Distributes ==
  /\ \E o \in Owner :
       \/ copy' = [copy EXCEPT ![o] = vk[o]] /\ UNCHANGED mode
       \/ ~mode[o] /\ mode' = [mode EXCEPT ![o] = TRUE] /\ UNCHANGED copy
  /\ UNCHANGED <<sk, vk, keygen, gen>> /\ Elsewhere

\* The VK-share hands the loaded .vk to a browser, which pins it.
Pins ==
  /\ bridge.pc = "up" /\ copy' = [copy EXCEPT !["server"] = Whole(bridge.vk)]
  /\ UNCHANGED <<sk, vk, mode, keygen, gen>> /\ Elsewhere

\* ---- loaders ----------------------------------------------------------------------

\* A file that is short, or missing, ends the start.
Loads(f, next) == bridge' = IF f.st = "whole" THEN next ELSE Down

BridgeOnly == UNCHANGED <<keyFiles, keyConf, proxy, eph, conn>>

\* The mode, the .sk, then the .vk beside it; that they are a pair is not checked.
ServerIdentity_load ==
  /\ \/ bridge.pc = "down" /\ mode["server"] /\ sk["server"].st = "whole"
        /\ bridge' = [Down EXCEPT !.pc = "vk", !.sk = sk["server"].gen]
     \/ bridge.pc = "vk"
        /\ Loads(vk["server"], [bridge EXCEPT !.pc = "client_vk", !.vk = vk["server"].gen])
  /\ BridgeOnly

ClientVerifyingIdentity_load ==
  /\ bridge.pc = "client_vk"
  /\ IF client_auth
     THEN Loads(copy["client"], [bridge EXCEPT !.pc = "cp_vk", !.client_vk = copy["client"].gen])
     ELSE bridge' = [bridge EXCEPT !.pc = "cp_vk"]
  /\ BridgeOnly

ControlPlaneVerifyingIdentity_load ==
  /\ bridge.pc = "cp_vk"
  /\ IF admin_on
     THEN Loads(copy["admin"], [bridge EXCEPT !.pc = "up", !.cp_vk = copy["admin"].gen])
     ELSE bridge' = [bridge EXCEPT !.pc = "up"]
  /\ BridgeOnly

ProxyOnly == UNCHANGED <<keyFiles, keyConf, bridge, eph, conn>>

\* The proxy and the CLI read the server's key first, then their own pair, if any.
load_verifying_key ==
  /\ proxy.pc = "down" /\ copy["server"].st = "whole"
  /\ \E k \in {"proxy"} \cup (IF admin_on THEN {"cli"} ELSE {}) :
       proxy' = [pc |-> IF k = "cli" \/ client_sk_path THEN "sk" ELSE "up", kind |-> k,
                 sk |-> 0, vk |-> copy["server"].gen]
  /\ ProxyOnly

\* As the server's; the .vk beside the .sk must be there and is not used.
LoadsPair(o) ==
  /\ proxy.pc = "sk"
  /\ proxy' = IF mode[o] /\ sk[o].st = "whole" /\ vk[o].st = "whole"
              THEN [proxy EXCEPT !.pc = "up", !.sk = sk[o].gen] ELSE Away
  /\ ProxyOnly

ClientIdentity_load == proxy.kind = "proxy" /\ LoadsPair("client")

cmd_vk_share == proxy.kind = "cli" /\ LoadsPair("admin")

\* A page brings the server's key with it, whatever is in the file.
BrowserOpens ==
  /\ proxy.pc = "down" /\ copy["server"].st # "none"
  /\ proxy' = [pc |-> "up", kind |-> "browser", sk |-> 0,
               vk |-> IF copy["server"].st = "whole" THEN copy["server"].gen ELSE 0]
  /\ ProxyOnly

\* A process stops or crashes, and its connection with it.
Stops ==
  /\ \/ bridge.pc # "down" /\ bridge' = Down /\ UNCHANGED proxy
     \/ proxy.pc # "down" /\ proxy' = Away /\ UNCHANGED bridge
  /\ conn' = Idle /\ UNCHANGED <<keyFiles, keyConf, eph>>

\* ---- the handshake ----------------------------------------------------------------

Wire == UNCHANGED <<keyFiles, keyConf, bridge, proxy>>

\* A key pair, a signature, and the response that carries none.
generate_keypair(o, g) == [owner |-> o, gen |-> g]
sign(key, msg) == [key |-> key, msg |-> msg]
verify(key, msg, sig) == sig = sign(key, msg)
Unsigned == sign(generate_keypair("none", 0), <<>>)

\* Both sides put the two secrets of the exchange and the hello's nonce into HKDF.
derive_session_key(server_eph, client_eph) == <<server_eph, client_eph>>

server_hello_signed_bytes(e) ==
  <<[eph |-> e, sig |-> sign(generate_keypair("server", bridge.sk), <<e>>)]>>

\* A connection is accepted; the bridge signs a hello with fresh ephemerals.
SendsHello ==
  /\ bridge.pc = "up" /\ proxy.pc = "up" /\ conn = Idle /\ eph < MaxEph
  /\ eph' = eph + 1
  /\ conn' = [Idle EXCEPT !.b = "hello", !.hello = server_hello_signed_bytes(eph')]
  /\ Wire

parse_server_hello_signed_lax(h) == TRUE   \* mutant: the signature is not verified

parse_server_hello_signed(h) == verify(generate_keypair("server", proxy.vk), <<h.eph>>, h.sig)

\* The response and the key, and the response signed over itself and the hello.
client_respond(h, e) ==
  [response |-> [eph |-> e, sig |-> Unsigned], session_key |-> derive_session_key(h.eph, e)]
serialize_client_response_signed(o, h, r) ==
  [eph |-> r.eph, sig |-> sign(generate_keypair(o, proxy.sk), <<r.eph, h.eph>>)]

\* The peer gives up, or draws its ephemerals, answers and goes on to its channel.
Responds(accepts, r, key) ==
  IF ~accepts THEN conn' = Idle /\ UNCHANGED eph
  ELSE /\ eph' = eph + 1
       /\ conn' = [conn EXCEPT !.c = "relay", !.ckey = key, !.response = <<r>>]

HelloRead(kind) == conn.c = "idle" /\ conn.hello # <<>> /\ proxy.kind = kind

\* The client verifies before it answers.
do_handshake ==
  /\ HelloRead("proxy")
  /\ LET h == Head(conn.hello)
         c == client_respond(h, eph + 1)
     IN  Responds(parse_server_hello_signed(h),
                  IF client_sk_path THEN serialize_client_response_signed("client", h, c.response)
                  ELSE c.response, c.session_key)
  /\ Wire

\* A key of the wrong length is refused before anything is verified.
generate_client_response(h) == proxy.vk # 0 /\ parse_server_hello_signed(h)

\* The browser's own client_respond, with the HKDF call of its derive_session_key.
wasm_client_respond(h, e) ==
  [response |-> [eph |-> e, sig |-> Unsigned], session_key |-> <<h.eph, e>>]

\* The browser does not sign.
wasm_generate_client_response ==
  /\ HelloRead("browser")
  /\ LET h == Head(conn.hello)
         c == wasm_client_respond(h, eph + 1)
     IN  Responds(generate_client_response(h), c.response, c.session_key)
  /\ Wire

\* The CLI always signs.
run_admin_command ==
  /\ HelloRead("cli")
  /\ LET h == Head(conn.hello)
         c == client_respond(h, eph + 1)
     IN  Responds(parse_server_hello_signed(h),
                  serialize_client_response_signed("admin", h, c.response), c.session_key)
  /\ Wire

complete(h, r) == derive_session_key(h.eph, r.eph)

complete_from_wire(h, r) ==
  conn' = [conn EXCEPT !.b = IF r.sig # Unsigned THEN "leftover" ELSE "relay",
                       !.bkey = complete(h, r)]

\* An unsigned response never fills the buffer with a signature: whatever follows it
\* fails to verify, if the timeout does not come first.
complete_from_wire_signed(h, r, key) ==
  conn' = IF verify(key, <<r.eph, h.eph>>, r.sig)
          THEN [conn EXCEPT !.b = "relay", !.bkey = complete(h, r)] ELSE Idle

BridgeCompletes ==
  /\ conn.b = "hello" /\ conn.response # <<>> /\ proxy.kind # "cli"
  /\ LET h == Head(conn.hello)
         r == Head(conn.response)
     IN  IF client_auth
         THEN complete_from_wire_signed(h, r, generate_keypair("client", bridge.client_vk))
         ELSE complete_from_wire(h, r)
  /\ UNCHANGED eph /\ Wire

\* The admin listener asks for a signature whatever the configuration says.
AdminCompletes ==
  /\ conn.b = "hello" /\ conn.response # <<>> /\ proxy.kind = "cli"
  /\ complete_from_wire_signed(Head(conn.hello), Head(conn.response),
                               generate_keypair("admin", bridge.cp_vk))
  /\ UNCHANGED eph /\ Wire

\* A signature nobody asked for is read as frames, which ends the session; a
\* handshake times out; a session ends.
ConnectionEnds == conn # Idle /\ conn' = Idle /\ UNCHANGED eph /\ Wire

KeyNext ==
  \/ ServerKeygen \/ ClientKeygen \/ admin_keygen \/ Distributes \/ Pins
  \/ ServerIdentity_load \/ ClientVerifyingIdentity_load \/ ControlPlaneVerifyingIdentity_load
  \/ load_verifying_key \/ ClientIdentity_load \/ cmd_vk_share \/ BrowserOpens \/ Stops
  \/ SendsHello \/ do_handshake \/ wasm_generate_client_response \/ run_admin_command
  \/ BridgeCompletes \/ AdminCompletes \/ ConnectionEnds

KeySpec == KeyInit /\ [][KeyNext]_keyVars

\* ---- properties -------------------------------------------------------------------

\* "Clients use server.vk to verify that signature" (README.md:136), over every
\* interrupted keygen, stale copy and restart: a peer that relays does so with a
\* bridge that holds the other half of the key it pinned; a bridge in the relay has
\* the peer's session key, and if it asks for client authentication, as the admin
\* listener always does, the peer holds the key whose .vk it loaded.
Authentic ==
  /\ conn.c = "relay" => bridge.sk = proxy.vk /\ proxy.vk # 0
  /\ conn.b \in {"relay", "leftover"} => conn.bkey = conn.ckey
  /\ conn.b = "relay" /\ proxy.kind # "cli" /\ client_auth => proxy.sk = bridge.client_vk
  /\ conn.b \in {"relay", "leftover"} /\ proxy.kind = "cli" => proxy.sk = bridge.cp_vk

\* Keygen saves a signing key before anyone can see its verifying key (identity.rs:
\* 109-137): a whole .vk, on disk or copied, is of no later generation than the last
\* .sk that was saved whole, whatever keygen crashed where.
BackedVk ==
  \A o \in Owner : \A f \in {vk[o], copy[o]} :
    f.st = "whole" => f.gen < sk[o].gen \/ sk[o] = f
=============================================================================
