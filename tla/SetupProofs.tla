--------------------------- MODULE SetupProofs ------------------------------
(***************************************************************************)
(* Proofs about what comes before the first byte is relayed.               *)
(*                                                                         *)
(* KeyHandshake, for every number of generations and of handshakes:        *)
(* BackedVk and Authentic hold in every reachable state.                   *)
(*                                                                         *)
(* Startup, for every set of socket addresses: what validate accepts       *)
(* section by section keeps what run and the listener tasks depend on      *)
(* later, in whatever order these bind and whenever a signal comes.        *)
(***************************************************************************)
EXTENDS Startup, KeyHandshake, TLAPS

File == [gen : Nat, st : {"none", "cut", "whole"}]

\* A verifying key of generation g is older than the signing key on disk, or its
\* other half is the one that is there, whole.
Backed(o, g) == g < sk[o].gen \/ sk[o] = Whole(g)

\* What makes BackedVk inductive: where keygen is says what it has written, and no
\* file is of a later generation than the .sk, nor the .sk than the last one drawn.
FilesInv ==
  /\ gen \in [Owner -> Nat]
  /\ sk \in [Owner -> File] /\ vk \in [Owner -> File] /\ copy \in [Owner -> File]
  /\ keygen \in [Owner -> {"idle", "sk", "vk", "write_vk"}]
  /\ \A o \in Owner :
       /\ sk[o].gen <= gen[o] /\ vk[o].gen <= sk[o].gen /\ copy[o].gen <= sk[o].gen
       /\ keygen[o] # "idle" => gen[o] # 0
       /\ keygen[o] = "sk" => sk[o] = Cut(gen[o])
       /\ keygen[o] \in {"vk", "write_vk"} => sk[o] = Whole(gen[o])
       /\ sk[o].st = "whole" => sk[o].gen # 0
       /\ vk[o].st = "whole" => vk[o].gen # 0 /\ Backed(o, vk[o].gen)
       /\ copy[o].st = "whole" => copy[o].gen # 0 /\ Backed(o, copy[o].gen)

\* A bridge has loaded a signing key, and a verifying key that is backed: VK-share
\* hands it on.
LoadedInv ==
  /\ bridge \in [pc : {"down", "vk", "client_vk", "cp_vk", "up"}, sk : Nat, vk : Nat,
                 client_vk : Nat, cp_vk : Nat]
  /\ proxy \in [pc : {"down", "sk", "up"}, kind : {"proxy", "browser", "cli"}, sk : Nat, vk : Nat]
  /\ bridge.pc # "down" => bridge.sk # 0
  /\ bridge.pc \in {"client_vk", "cp_vk", "up"} => bridge.vk # 0 /\ Backed("server", bridge.vk)

Sig == [key : [owner : {"server", "client", "admin", "none"}, gen : Nat], msg : Seq(Nat)]
Hello == [eph : Nat, sig : Sig]
Response == [eph : Nat, sig : Sig]

\* A response carries no signature, or one of the peer's key.
OwnSignature(sig) == sig = Unsigned \/ sig.key.gen = proxy.sk

ConnType ==
  [b : {"idle", "hello", "relay", "leftover"}, c : {"idle", "relay"},
   hello : Seq(Hello), response : Seq(Response), bkey : Seq(Nat), ckey : Seq(Nat)]

\* What makes Authentic inductive: a connection has both processes up, so that
\* their keys stay what they were when the hello was signed, and what it carries
\* ties the peer's key to the hello and the response.
ConnInv ==
  /\ eph \in Nat
  /\ conn \in ConnType
  /\ conn # Idle => bridge.pc = "up" /\ proxy.pc = "up"
  /\ conn.hello # <<>> => Head(conn.hello).sig.key.gen = bridge.sk
  /\ conn.c = "relay" => bridge.sk = proxy.vk
  /\ conn.response # <<>> =>
       /\ conn.c = "relay" /\ conn.hello # <<>>
       /\ conn.ckey = derive_session_key(Head(conn.hello).eph, Head(conn.response).eph)
       /\ OwnSignature(Head(conn.response).sig)
  /\ conn.b \in {"relay", "leftover"} => conn.response # <<>> /\ conn.bkey = conn.ckey
  /\ conn.b = "relay" /\ proxy.kind # "cli" /\ client_auth => proxy.sk = bridge.client_vk
  /\ conn.b \in {"relay", "leftover"} /\ proxy.kind = "cli" => proxy.sk = bridge.cp_vk

KeyInv == FilesInv /\ LoadedInv /\ ConnInv

-----------------------------------------------------------------------------
\* The invariant holds with no files, and with pairs that are there from before.
LEMMA KeyInitInv == KeyInit => KeyInv
<1>. SUFFICES ASSUME KeyInit PROVE KeyInv
  BY Zenon
<1>1. FilesInv
  BY DEF KeyInit, FilesInv, File, Whole, None, Backed, Owner
<1>2. LoadedInv
  BY Zenon DEF KeyInit, LoadedInv, Down, Away
<1>3. ConnInv
  BY DEF KeyInit, ConnInv, ConnType, Idle
<1>. QED
  BY Zenon, <1>1, <1>2, <1>3 DEF KeyInv

\* keygen, crash included: the .vk that can be seen stays backed, and so does every
\* generation that was.
LEMMA KeygenKeeps ==
  ASSUME NEW o \in Owner, generate_and_save(o), FilesInv
  PROVE  FilesInv' /\ \A p \in Owner : \A g \in Nat : Backed(p, g) => Backed(p, g)'
<1>. USE DEF FilesInv, File, Whole, Cut, None, Backed
<1>1. CASE Draws(o) /\ UNCHANGED copy
  BY <1>1 DEF Draws
<1>2. CASE /\ keygen[o] = "sk" /\ keygen' = [keygen EXCEPT ![o] = "vk"]
           /\ sk' = [sk EXCEPT ![o] = Whole(gen[o])] /\ UNCHANGED <<vk, mode, gen, copy>>
  BY SMTT(60), <1>2
<1>3. CASE /\ keygen[o] = "vk" /\ keygen' = [keygen EXCEPT ![o] = "write_vk"]
           /\ vk' = [vk EXCEPT ![o] = Cut(gen[o])] /\ UNCHANGED <<sk, mode, gen, copy>>
  BY SMTT(60), <1>3
<1>4. CASE /\ keygen[o] = "write_vk" /\ keygen' = [keygen EXCEPT ![o] = "idle"]
           /\ vk' = [vk EXCEPT ![o] = Whole(gen[o])] /\ UNCHANGED <<sk, mode, gen, copy>>
  BY SMTT(60), <1>4
<1>5. CASE /\ keygen[o] # "idle" /\ keygen' = [keygen EXCEPT ![o] = "idle"]
           /\ UNCHANGED <<sk, vk, mode, gen, copy>>
  BY <1>5
<1>. QED
  BY Zenon, <1>1, <1>2, <1>3, <1>4, <1>5 DEF generate_and_save

\* A copy, whole or cut, is of a file the invariant knows, and a pinned key is one
\* the bridge has loaded.
LEMMA CopiesKeep ==
  ASSUME FilesInv, LoadedInv, Distributes \/ Pins
  PROVE  FilesInv' /\ sk' = sk
<1>. USE DEF Backed, Whole
<1>1. CASE Distributes
  <2>1. PICK o \in Owner : copy' = [copy EXCEPT ![o] = vk[o]] \/ copy' = copy
    BY Zenon, <1>1 DEF Distributes
  <2>2. UNCHANGED <<sk, vk, keygen, gen>>
    BY Zenon, <1>1 DEF Distributes
  <2>3. copy \in [Owner -> File] /\ vk \in [Owner -> File]
    BY Zenon DEF FilesInv
  <2>4. copy' \in [Owner -> File] /\ \A p \in Owner : copy'[p] = copy[p] \/ copy'[p] = vk[p]
    BY Zenon, <2>1, <2>3
  <2>. QED
    BY SMTT(60), <2>2, <2>4 DEF FilesInv
<1>2. CASE Pins
  <2>1. bridge.vk \in Nat /\ bridge.vk # 0 /\ Backed("server", bridge.vk)
    BY Zenon, <1>2 DEF Pins, LoadedInv
  <2>2. "server" \in Owner
    BY Zenon DEF Owner
  <2>3. /\ copy' = [copy EXCEPT !["server"] = [gen |-> bridge.vk, st |-> "whole"]]
        /\ UNCHANGED <<sk, vk, keygen, gen>>
    BY Zenon, <1>2 DEF Pins
  <2>4. bridge.vk <= sk["server"].gen
    BY <2>1, <2>2 DEF FilesInv, File
  <2>. QED
    BY <2>1, <2>2, <2>3, <2>4 DEF FilesInv, File
<1>. QED
  BY ZenonT(60), <1>1, <1>2

\* The loaded keys survive a change of the files: what was backed is backed.
LEMMA LoadedStays ==
  ASSUME LoadedInv, UNCHANGED <<bridge, proxy>>,
         \A g \in Nat : Backed("server", g) => Backed("server", g)'
  PROVE  LoadedInv'
BY Zenon DEF LoadedInv

\* A start of the bridge, one file at a time: the connection is idle meanwhile.
LEMMA BridgeLoads ==
  ASSUME KeyInv,
         ServerIdentity_load \/ ClientVerifyingIdentity_load
           \/ ControlPlaneVerifyingIdentity_load
  PROVE  KeyInv'
<1>0. "server" \in Owner /\ "client" \in Owner
  BY Zenon DEF Owner
<1>1. bridge.pc # "up" /\ BridgeOnly
  BY Zenon DEF ServerIdentity_load, ClientVerifyingIdentity_load, ControlPlaneVerifyingIdentity_load
<1>2. FilesInv'
  BY ZenonT(60), <1>1 DEF KeyInv, FilesInv, BridgeOnly, keyFiles, Backed
<1>3. LoadedInv'
  <2>. USE <1>0, <1>1 DEF KeyInv, FilesInv, LoadedInv, BridgeOnly, keyFiles, Backed, Down, Loads, File
  <2>1. CASE ServerIdentity_load
    <3>1. CASE bridge.pc = "down" /\ sk["server"].st = "whole"
                 /\ bridge' = [Down EXCEPT !.pc = "vk", !.sk = sk["server"].gen]
      BY Zenon, <3>1
    <3>2. CASE bridge.pc = "vk"
                 /\ Loads(vk["server"], [bridge EXCEPT !.pc = "client_vk", !.vk = vk["server"].gen])
      BY ZenonT(60), <3>2
    <3>. QED
      BY Zenon, <2>1, <3>1, <3>2 DEF ServerIdentity_load
  <2>2. CASE ClientVerifyingIdentity_load
    <3>1. copy["client"] \in File
      BY Zenon
    <3>2. CASE bridge' = Down
      BY Zenon, <3>2
    <3>3. CASE bridge.pc = "client_vk" /\ copy["client"].gen \in Nat
                 /\ bridge' = [bridge EXCEPT !.pc = "cp_vk", !.client_vk = copy["client"].gen]
      BY Zenon, <3>3
    <3>4. CASE bridge.pc = "client_vk" /\ bridge' = [bridge EXCEPT !.pc = "cp_vk"]
      BY Zenon, <3>4
    <3>. QED
      BY Zenon, <2>2, <3>1, <3>2, <3>3, <3>4 DEF ClientVerifyingIdentity_load
  <2>3. CASE ControlPlaneVerifyingIdentity_load
    <3>1. copy["admin"] \in File
      BY Zenon DEF Owner
    <3>2. CASE bridge' = Down
      BY Zenon, <3>2
    <3>3. CASE bridge.pc = "cp_vk" /\ copy["admin"].gen \in Nat
                 /\ bridge' = [bridge EXCEPT !.pc = "up", !.cp_vk = copy["admin"].gen]
      BY Zenon, <3>3
    <3>4. CASE bridge.pc = "cp_vk" /\ bridge' = [bridge EXCEPT !.pc = "up"]
      BY Zenon, <3>4
    <3>. QED
      BY Zenon, <2>3, <3>1, <3>2, <3>3, <3>4 DEF ControlPlaneVerifyingIdentity_load
  <2>. QED
    BY Zenon, <2>1, <2>2, <2>3
<1>4. ConnInv'
  <2>1. conn = Idle
    BY Zenon, <1>1 DEF KeyInv, ConnInv
  <2>. QED
    BY Zenon, <1>1, <2>1 DEF KeyInv, ConnInv, ConnType, Idle, BridgeOnly, keyConf
<1>. QED
  BY Zenon, <1>2, <1>3, <1>4 DEF KeyInv

\* The same for the peer.
LEMMA ProxyLoads ==
  ASSUME KeyInv, load_verifying_key \/ ClientIdentity_load \/ cmd_vk_share \/ BrowserOpens
  PROVE  KeyInv'
<1>0. "server" \in Owner /\ "client" \in Owner /\ "admin" \in Owner
  BY Zenon DEF Owner
<1>1. proxy.pc # "up" /\ ProxyOnly
  BY Zenon DEF load_verifying_key, ClientIdentity_load, cmd_vk_share, LoadsPair, BrowserOpens
<1>2. FilesInv'
  BY <1>1 DEF KeyInv, FilesInv, ProxyOnly, keyFiles, Backed
<1>3. LoadedInv'
  <2>. USE <1>0, <1>1 DEF KeyInv, FilesInv, LoadedInv, ProxyOnly, keyFiles, Backed, Away, File
  <2>1. CASE load_verifying_key
    BY <2>1 DEF load_verifying_key
  <2>2. CASE ClientIdentity_load \/ cmd_vk_share
    <3>1. PICK o \in Owner : LoadsPair(o)
      BY Zenon, <2>2 DEF ClientIdentity_load, cmd_vk_share
    <3>2. CASE proxy' = Away
      BY Zenon, <3>2
    <3>3. CASE sk[o].gen \in Nat /\ proxy' = [proxy EXCEPT !.pc = "up", !.sk = sk[o].gen]
      BY Zenon, <3>3
    <3>. QED
      BY Zenon, <3>1, <3>2, <3>3 DEF LoadsPair
  <2>3. CASE BrowserOpens
    BY Zenon, <2>3 DEF BrowserOpens
  <2>. QED
    BY ZenonT(60), <2>1, <2>2, <2>3
<1>4. ConnInv'
  <2>1. conn = Idle
    BY Zenon, <1>1 DEF KeyInv, ConnInv
  <2>. QED
    BY Zenon, <1>1, <2>1 DEF KeyInv, ConnInv, ConnType, Idle, ProxyOnly, keyConf
<1>. QED
  BY Zenon, <1>2, <1>3, <1>4 DEF KeyInv

\* A process that stops takes the connection with it.
LEMMA StopKeeps == ASSUME KeyInv, Stops PROVE KeyInv'
<1>1. FilesInv'
  BY DEF KeyInv, FilesInv, Stops, keyFiles, Backed
<1>2. LoadedInv'
  BY SMTT(60) DEF KeyInv, LoadedInv, Stops, keyFiles, Backed, Down, Away
<1>3. ConnInv'
  BY DEF KeyInv, ConnInv, ConnType, Stops, Idle
<1>. QED
  BY Zenon, <1>1, <1>2, <1>3 DEF KeyInv

\* What verifies under a pair was signed with it.
LEMMA Verified ==
  ASSUME NEW o, NEW g, NEW msg, NEW sig, verify(generate_keypair(o, g), msg, sig)
  PROVE  sig.key.gen = g /\ sig.key.owner = o
BY Zenon DEF verify, sign, generate_keypair

\* A signature of an owner's pair is a signature, and none is no owner's.
LEMMA Signs ==
  ASSUME NEW o \in Owner, NEW g \in Nat, NEW msg \in Seq(Nat)
  PROVE  /\ sign(generate_keypair(o, g), msg) \in Sig /\ Unsigned \in Sig
         /\ sign(generate_keypair(o, g), msg).key.gen = g
         /\ Unsigned.key.owner \notin Owner
BY SMTT(60) DEF sign, generate_keypair, Sig, Unsigned, Owner

\* The bridge signs a hello with the key it has loaded.
LEMMA HelloKeeps == ASSUME ConnInv, LoadedInv, SendsHello PROVE ConnInv'
<1>. DEFINE h == [eph |-> eph + 1,
                  sig |-> sign(generate_keypair("server", bridge.sk), <<eph + 1>>)]
<1>2. eph \in Nat /\ bridge.sk \in Nat /\ <<eph + 1>> \in Seq(Nat) /\ "server" \in Owner
  BY DEF ConnInv, LoadedInv, Owner
<1>3. h \in Hello /\ h.sig.key.gen = bridge.sk
  <2>1. PICK g \in Sig : g = sign(generate_keypair("server", bridge.sk), <<eph + 1>>)
                          /\ g.key.gen = bridge.sk
    BY ZenonT(60), <1>2, Signs
  <2>2. h = [eph |-> eph + 1, sig |-> g]
    BY Zenon, <2>1
  <2>. HIDE DEF h
  <2>. QED
    BY <1>2, <2>1, <2>2 DEF Hello
<1>4. conn' = [Idle EXCEPT !.b = "hello", !.hello = <<h>>]
  BY Zenon DEF SendsHello, server_hello_signed_bytes
<1>. HIDE DEF h
<1>5. conn' = [b |-> "hello", c |-> "idle", hello |-> <<h>>, response |-> <<>>, bkey |-> <<>>,
               ckey |-> <<>>]
  BY Zenon, <1>4 DEF Idle
<1>6. bridge.pc = "up" /\ proxy.pc = "up" /\ eph' = eph + 1 /\ UNCHANGED <<bridge, proxy>>
  BY Zenon DEF SendsHello, Wire
<1>. QED
  BY SMTT(60), <1>2, <1>3, <1>5, <1>6 DEF ConnInv, ConnType

\* A peer answers a hello that verifies under the key it pinned.
LEMMA AnswerKeeps ==
  ASSUME ConnInv, LoadedInv, Wire, NEW k, HelloRead(k),
         NEW accepts \in BOOLEAN, NEW r \in Response,
         Responds(accepts, r, <<Head(conn.hello).eph, eph + 1>>),
         accepts => Head(conn.hello).sig.key.gen = proxy.vk,
         r.eph = eph + 1, OwnSignature(r.sig)
  PROVE  ConnInv'
<1>. DEFINE h == Head(conn.hello)
<1>1. /\ conn.c = "idle" /\ conn.hello # <<>> /\ h \in Hello /\ h.sig.key.gen = bridge.sk
      /\ bridge.pc = "up" /\ proxy.pc = "up" /\ eph \in Nat
      /\ UNCHANGED <<keyConf, bridge, proxy>>
  BY SMTT(60) DEF ConnInv, ConnType, LoadedInv, HelloRead, Wire, Idle
<1>2. conn.response = <<>> /\ conn.b \notin {"relay", "leftover"}
  BY Zenon, <1>1 DEF ConnInv
<1>3. CASE ~accepts
  BY SMTT(60), <1>1, <1>3 DEF ConnInv, ConnType, Idle, Responds
<1>4. CASE accepts
  <2>1. /\ h.sig.key.gen = proxy.vk /\ eph' = eph + 1
        /\ conn' = [conn EXCEPT !.c = "relay", !.ckey = <<h.eph, eph + 1>>, !.response = <<r>>]
    BY Zenon, <1>4 DEF Responds
  <2>2. /\ conn'.b = conn.b /\ conn'.c = "relay" /\ conn'.hello = conn.hello
        /\ conn'.response = <<r>> /\ conn'.bkey = conn.bkey /\ conn'.ckey = <<h.eph, eph + 1>>
    BY Zenon, <2>1 DEF ConnInv, ConnType
  <2>3. conn' \in ConnType
    <3>1. <<r>> \in Seq(Response) /\ <<h.eph, eph + 1>> \in Seq(Nat)
      BY <1>1 DEF Hello
    <3>. HIDE DEF h
    <3>. QED
      BY Zenon, <2>1, <3>1 DEF ConnInv, ConnType
  <2>4. conn'.ckey = derive_session_key(Head(conn'.hello).eph, Head(conn'.response).eph)
    BY SMTT(60), <2>2 DEF derive_session_key
  <2>5. OwnSignature(Head(conn.response).sig)'
    BY <1>1, <2>2 DEF OwnSignature
  <2>6. conn'.response # <<>> /\ conn'.hello # <<>>
    BY <1>1, <2>2
  <2>7. UNCHANGED <<bridge, proxy, client_auth>>
    BY Zenon, <1>1 DEF keyConf
  <2>8. eph' \in Nat
    BY <1>1, <2>1
  <2>. HIDE DEF h
  <2>9. Head(conn'.hello).sig.key.gen = bridge'.sk /\ bridge'.sk = proxy'.vk
    BY ZenonT(60), <1>1, <2>1, <2>2, <2>7 DEF h
  <2>. QED
    BY Zenon, <1>1, <1>2, <2>2, <2>3, <2>4, <2>5, <2>6, <2>7, <2>8, <2>9 DEF ConnInv
<1>. QED
  BY Zenon, <1>3, <1>4

\* The three peers: what each answers carries no signature or one of its own key.
LEMMA PeersKeep ==
  ASSUME ConnInv, LoadedInv, do_handshake \/ wasm_generate_client_response \/ run_admin_command
  PROVE  ConnInv'
<1>. DEFINE h == Head(conn.hello)
            r == [eph |-> eph + 1, sig |-> Unsigned]
            key == <<h.eph, eph + 1>>
            signed(o) == serialize_client_response_signed(o, h, r)
<1>1. conn.hello # <<>> /\ h \in Hello /\ eph \in Nat /\ proxy.sk \in Nat /\ proxy.vk \in Nat
  BY SMTT(60) DEF do_handshake, wasm_generate_client_response, run_admin_command, HelloRead, ConnInv,
         ConnType, LoadedInv
<1>2. parse_server_hello_signed(h) => h.sig.key.gen = proxy.vk
  BY Verified DEF parse_server_hello_signed
<1>3. r \in Response /\ r.eph = eph + 1 /\ OwnSignature(r.sig)
  BY <1>1 DEF Response, Sig, Unsigned, sign, generate_keypair, OwnSignature
<1>4. ASSUME NEW o \in Owner
      PROVE  signed(o) \in Response /\ signed(o).eph = eph + 1 /\ OwnSignature(signed(o).sig)
  <2>1. <<eph + 1, h.eph>> \in Seq(Nat)
    BY <1>1 DEF Hello
  <2>2. PICK g \in Sig : g = sign(generate_keypair(o, proxy.sk), <<eph + 1, h.eph>>)
                          /\ g.key.gen = proxy.sk
    BY ZenonT(60), <1>1, <2>1, Signs
  <2>3. signed(o) = [eph |-> eph + 1, sig |-> g]
    BY Zenon, <1>3, <2>2 DEF serialize_client_response_signed
  <2>. HIDE DEF signed, r, h
  <2>. QED
    BY <1>1, <2>2, <2>3 DEF Response, OwnSignature
<1>5. "client" \in Owner /\ "admin" \in Owner
  BY Zenon DEF Owner
<1>6. /\ client_respond(h, eph + 1).response = r /\ client_respond(h, eph + 1).session_key = key
      /\ wasm_client_respond(h, eph + 1).response = r
      /\ wasm_client_respond(h, eph + 1).session_key = key
  BY Zenon DEF client_respond, wasm_client_respond, derive_session_key
<1>7. CASE do_handshake
  <2>1. Wire /\ HelloRead("proxy")
    BY Zenon, <1>7 DEF do_handshake
  <2>2. PICK a \in Response : /\ a.eph = eph + 1 /\ OwnSignature(a.sig)
                             /\ a = IF client_sk_path THEN signed("client") ELSE r
    BY Zenon, <1>3, <1>4, <1>5
  <2>3. Responds(parse_server_hello_signed(h), a, key)
    BY Zenon, <1>6, <1>7, <2>2 DEF do_handshake
  <2>. HIDE DEF signed, r
  <2>. QED
    BY Zenon, <1>2, <2>1, <2>2, <2>3, AnswerKeeps DEF parse_server_hello_signed, verify
<1>8. CASE wasm_generate_client_response
  <2>1. Wire /\ HelloRead("browser") /\ Responds(generate_client_response(h), r, key)
    BY Zenon, <1>6, <1>8 DEF wasm_generate_client_response
  <2>2. generate_client_response(h) => h.sig.key.gen = proxy.vk
    BY Zenon, <1>2 DEF generate_client_response
  <2>. HIDE DEF signed, r
  <2>. QED
    BY Zenon, <1>3, <2>1, <2>2, AnswerKeeps DEF generate_client_response
<1>9. CASE run_admin_command
  <2>1. Wire /\ HelloRead("cli") /\ Responds(parse_server_hello_signed(h), signed("admin"), key)
    BY Zenon, <1>6, <1>9 DEF run_admin_command
  <2>. HIDE DEF signed, r
  <2>. QED
    BY Zenon, <1>2, <1>4, <1>5, <2>1, AnswerKeeps DEF parse_server_hello_signed, verify
<1>. QED
  BY ZenonT(60), <1>7, <1>8, <1>9

\* The bridge derives the peer's key; asked for a signature, only from a response
\* signed with the key it has loaded.
LEMMA CompleteKeeps ==
  ASSUME ConnInv, LoadedInv, BridgeCompletes \/ AdminCompletes
  PROVE  ConnInv'
<1>. DEFINE h == Head(conn.hello)
            r == Head(conn.response)
            key == IF proxy.kind = "cli" THEN generate_keypair("admin", bridge.cp_vk)
                   ELSE generate_keypair("client", bridge.client_vk)
<1>1. /\ conn.b = "hello" /\ conn.response # <<>> /\ conn.c = "relay" /\ conn.hello # <<>>
      /\ conn.ckey = derive_session_key(h.eph, r.eph) /\ OwnSignature(r.sig)
      /\ bridge.pc = "up" /\ proxy.pc = "up" /\ conn.ckey \in Seq(Nat)
      /\ UNCHANGED <<client_auth, bridge, proxy, eph>>
  BY SMTT(60) DEF ConnInv, ConnType, LoadedInv, BridgeCompletes, AdminCompletes, Wire, keyConf, Idle
<1>2. CASE conn' = Idle
  BY SMTT(60), <1>1, <1>2 DEF ConnInv, ConnType, Idle
<1>3. verify(key, <<r.eph, h.eph>>, r.sig) =>
        proxy.sk = IF proxy.kind = "cli" THEN bridge.cp_vk ELSE bridge.client_vk
  <2>1. Unsigned.key.owner = "none"
    BY Zenon DEF Unsigned, sign, generate_keypair
  <2>. QED
    BY <1>1, <2>1, Verified DEF OwnSignature
<1>4. CASE /\ client_auth \/ proxy.kind = "cli" => verify(key, <<r.eph, h.eph>>, r.sig)
           /\ \E b \in {"relay", "leftover"} :
                conn' = [conn EXCEPT !.b = b, !.bkey = derive_session_key(h.eph, r.eph)]
  <2>1. PICK b \in {"relay", "leftover"} :
          conn' = [conn EXCEPT !.b = b, !.bkey = derive_session_key(h.eph, r.eph)]
    BY Zenon, <1>4
  <2>2. conn' = [conn EXCEPT !.b = b, !.bkey = conn.ckey]
    BY Zenon, <1>1, <2>1
  <2>3. /\ conn' \in ConnType
        /\ conn'.c = conn.c /\ conn'.hello = conn.hello /\ conn'.response = conn.response
        /\ conn'.ckey = conn.ckey /\ conn'.bkey = conn.ckey
    BY Zenon, <1>1, <2>2 DEF ConnInv, ConnType
  <2>4. OwnSignature(r.sig)'
    BY Zenon, <1>1, <2>3 DEF OwnSignature
  <2>5. client_auth \/ proxy.kind = "cli" =>
          proxy.sk = IF proxy.kind = "cli" THEN bridge.cp_vk ELSE bridge.client_vk
    BY Zenon, <1>3, <1>4
  <2>. HIDE DEF key
  <2>. QED
    BY Zenon, <1>1, <2>3, <2>4, <2>5 DEF ConnInv
<1>5. CASE BridgeCompletes
  BY Zenon, <1>2, <1>4, <1>5
     DEF BridgeCompletes, complete_from_wire, complete_from_wire_signed, complete
<1>6. CASE AdminCompletes
  BY Zenon, <1>2, <1>4, <1>6 DEF AdminCompletes, complete_from_wire_signed, complete
<1>. QED
  BY ZenonT(60), <1>5, <1>6

\* Keygen and copies leave processes and connection alone.
LEMMA FilesOnly ==
  ASSUME KeyInv, FilesInv', Elsewhere,
         \A g \in Nat : Backed("server", g) => Backed("server", g)'
  PROVE  KeyInv'
<1>1. LoadedInv'
  BY Zenon, LoadedStays DEF KeyInv, Elsewhere
<1>2. ConnInv'
  BY ZenonT(60) DEF KeyInv, ConnInv, OwnSignature, Elsewhere, keyConf
<1>. QED
  BY Zenon, <1>1, <1>2 DEF KeyInv

\* The handshake leaves files, configuration and processes alone.
LEMMA WireOnly == ASSUME KeyInv, Wire, ConnInv' PROVE KeyInv'
BY DEF KeyInv, Wire, keyFiles, FilesInv, LoadedInv, Backed

\* Every step of keygen, operator, processes and handshake keeps the invariant.
LEMMA KeyStepInv == KeyInv /\ [KeyNext]_keyVars => KeyInv'
<1>. SUFFICES ASSUME KeyInv, [KeyNext]_keyVars PROVE KeyInv'
  BY Zenon
<1>0. "server" \in Owner /\ "client" \in Owner /\ "admin" \in Owner
  BY Zenon DEF Owner
<1>1. CASE ServerKeygen \/ ClientKeygen \/ admin_keygen
  <2>1. PICK o \in Owner : generate_and_save(o) /\ Elsewhere
    BY Zenon, <1>0, <1>1 DEF ServerKeygen, ClientKeygen, admin_keygen
  <2>2. FilesInv' /\ \A g \in Nat : Backed("server", g) => Backed("server", g)'
    BY Zenon, <1>0, <2>1, KeygenKeeps DEF KeyInv
  <2>. QED
    BY Zenon, <2>1, <2>2, FilesOnly
<1>2. CASE Distributes \/ Pins
  <2>1. FilesInv' /\ sk' = sk /\ Elsewhere
    BY Zenon, <1>2, CopiesKeep DEF KeyInv, Distributes, Pins
  <2>2. \A g \in Nat : Backed("server", g) => Backed("server", g)'
    BY Zenon, <2>1 DEF Backed
  <2>. QED
    BY Zenon, <2>1, <2>2, FilesOnly
<1>3. CASE ServerIdentity_load \/ ClientVerifyingIdentity_load
             \/ ControlPlaneVerifyingIdentity_load
  BY Zenon, <1>3, BridgeLoads
<1>4. CASE load_verifying_key \/ ClientIdentity_load \/ cmd_vk_share \/ BrowserOpens
  BY Zenon, <1>4, ProxyLoads
<1>5. CASE Stops
  BY Zenon, <1>5, StopKeeps
<1>6. CASE \/ SendsHello \/ do_handshake \/ wasm_generate_client_response \/ run_admin_command
           \/ BridgeCompletes \/ AdminCompletes
  <2>1. ConnInv'
    BY Zenon, <1>6, HelloKeeps, PeersKeep, CompleteKeeps DEF KeyInv
  <2>. QED
    BY Zenon, <1>6, <2>1, WireOnly
       DEF SendsHello, do_handshake, wasm_generate_client_response, run_admin_command,
           BridgeCompletes, AdminCompletes
<1>7. CASE ConnectionEnds
  <2>1. ConnInv'
    BY SMTT(60), <1>7 DEF KeyInv, ConnInv, ConnType, ConnectionEnds, Idle, Wire
  <2>. QED
    BY ZenonT(60), <1>7, <2>1, WireOnly DEF ConnectionEnds
<1>8. CASE UNCHANGED keyVars
  <2>1. /\ UNCHANGED <<sk, vk, mode, keygen, gen, copy>>
        /\ UNCHANGED <<client_auth, client_sk_path, admin_on, bridge, proxy, eph, conn>>
    BY Zenon, <1>8 DEF keyVars, keyFiles, keyConf
  <2>2. FilesInv'
    BY Zenon, <2>1 DEF KeyInv, FilesInv, Backed
  <2>3. LoadedInv'
    BY Zenon, <2>1 DEF KeyInv, LoadedInv, Backed
  <2>4. ConnInv'
    BY Zenon, <2>1 DEF KeyInv, ConnInv, OwnSignature
  <2>. QED
    BY Zenon, <2>2, <2>3, <2>4 DEF KeyInv
<1>. QED
  BY Zenon, <1>1, <1>2, <1>3, <1>4, <1>5, <1>6, <1>7, <1>8 DEF KeyNext

\* KeyInv holds of every reachable state of KeyHandshake.
THEOREM KeyCorrect == KeySpec => []KeyInv
BY KeyInitInv, KeyStepInv, PTL DEF KeySpec

\* No verifying key is seen before its signing key is saved, wherever keygen
\* crashes (identity.rs, generate_and_save).
THEOREM BackedVkHolds == KeySpec => []BackedVk
<1>1. KeyInv => BackedVk
  <2>. SUFFICES ASSUME KeyInv, NEW o \in Owner, NEW f \in {vk[o], copy[o]}, f.st = "whole"
                PROVE  f.gen < sk[o].gen \/ sk[o] = f
    BY Zenon DEF BackedVk
  <2>1. f \in File /\ Backed(o, f.gen)
    BY ZenonT(60) DEF KeyInv, FilesInv
  <2>2. f = [gen |-> f.gen, st |-> f.st]
    BY Zenon, <2>1 DEF File
  <2>. QED
    BY Zenon, <2>1, <2>2 DEF Backed, Whole
<1>. QED
  BY <1>1, KeyCorrect, PTL

\* Whoever relays does so with the holder of the key it pinned, over one session
\* key, whatever was generated, copied and restarted in between.
THEOREM AuthenticHolds == KeySpec => []Authentic
<1>1. KeyInv => Authentic
  <2>. SUFFICES ASSUME KeyInv PROVE Authentic
    BY ZenonT(60)
  <2>1. conn.c = "relay" => bridge.pc = "up"
    <3>1. Idle.c = "idle"
      BY DEF Idle
    <3>. QED
      BY Zenon, <3>1 DEF KeyInv, ConnInv
  <2>. QED
    BY Zenon, <2>1 DEF KeyInv, ConnInv, LoadedInv, Authentic
<1>. QED
  BY <1>1, KeyCorrect, PTL

-----------------------------------------------------------------------------
(* The checks of the configuration and the start of the two binaries.      *)
Sections ==
  {"server", "control_plane", "key_rotation", "tls", "quic", "auth", "admin", "websocket"}
Keys == {"boot", "identity", "client_vk"}
Up ==
  {"spawn_metrics", "spawn_tls", "spawn_admin", "spawn_ws", "bind", "enter", "serving",
   "draining", "refused"}
Client ==
  {"client", "client_keys", "client_bind", "client_signal", "client_select", "client_spawn"}

\* The bridge has been through the server section.
Bridge == (Sections \ {"server"}) \cup Keys \cup Up

Accepted ==
  [auth_section : BOOLEAN, addr : [Listener -> Addrs], on : [Listener -> BOOLEAN],
   limits : SUBSET (Nat \ {0}), key_rotation_interval : Nat, vk_share_max_tokens : Nat,
   pool : [max_size : Nat, warm_size : Nat, idle_timeout_secs : Nat],
   wants_auth : BOOLEAN, client_auth_enabled : BOOLEAN, client_vk_path : PathOption,
   admin_control_plane_vk_path : PathOption, client_sk_path : PathOption]

TypeInv ==
  /\ pc \in Sections \cup Keys \cup Up \cup Client \cup (Ended \ {"panicked"})
  /\ conf \in Accepted
  /\ lis \in [Listener -> {"off", "spawned", "up", "refused"}]
  /\ client_vk \in BOOLEAN

\* Listeners of sections that validate has yet to come to are off.
OffInv ==
  /\ pc \in {"server", "control_plane", "key_rotation", "tls"} => ~conf.on["tls"]
  /\ pc \in {"server", "control_plane", "key_rotation", "tls", "quic"} => ~conf.on["quic"]
  /\ pc \in Sections \ {"websocket"} => ~conf.on["admin"]
  /\ pc \in Sections => ~conf.on["ws"]
  /\ pc \in Bridge => conf.on["server"]

\* Two listeners that are on have different addresses, main and metrics excepted.
Distinct(c) ==
  \A l \in Listener, o \in Listener :
    l # o /\ c.on[l] /\ c.on[o] /\ {l, o} # {"server", "metrics"} => c.addr[l] # c.addr[o]

\* Only listeners that are on are started; the one that was refused met another.
LisInv ==
  /\ pc \notin Up => lis = AllOff
  /\ \A l \in Listener : lis[l] # "off" => conf.on[l]
  /\ \A l \in Listener : lis[l] = "refused" =>
       \E o \in Tcp \ {l} : conf.on[o] /\ Overlap(conf.addr[l], conf.addr[o])

AuthInv ==
  /\ conf.wants_auth => conf.client_auth_enabled
  /\ conf.client_auth_enabled => conf.client_vk_path # "none"
  /\ pc \in Up /\ conf.client_auth_enabled => client_vk

LimitInv ==
  /\ conf.on["admin"] => conf.admin_control_plane_vk_path # "none"
  /\ pc \in {"tls", "quic", "auth", "admin", "websocket", "boot"} => conf.key_rotation_interval > 0
  /\ pc = "boot" => conf.vk_share_max_tokens > 0
  /\ pc = "client_keys" =>
       /\ conf.pool.max_size > 0 /\ conf.pool.warm_size <= conf.pool.max_size
       /\ conf.pool.idle_timeout_secs > 0

StartInv == TypeInv /\ OffInv /\ Distinct(conf) /\ LisInv /\ AuthInv /\ LimitInv

\* The empty configuration is one that validate may hold.
LEMMA BlankAccepted ==
  /\ Blank \in Accepted
  /\ Blank.on = [l \in Listener |-> FALSE]
  /\ ~Blank.wants_auth /\ ~Blank.client_auth_enabled
  BY Zenon DEF Blank, Accepted, Addrs, PathOption

\* AllOff starts no listener.
LEMMA AllOffType ==
  /\ AllOff \in [Listener -> {"off", "spawned", "up", "refused"}]
  /\ \A l \in Listener : AllOff[l] = "off"
  BY Zenon DEF AllOff

\* A process that is gone satisfies the invariant, whatever it was.
LEMMA ExitKeeps ==
  ASSUME NEW why \in Ended \ {"panicked", "refused"}, Exit(why)
  PROVE  StartInv'
<1>1. /\ pc' = why /\ conf' = Blank /\ lis' = AllOff /\ client_vk' = FALSE
  BY Zenon DEF Exit
<1>2. /\ why \notin Sections /\ why \notin Bridge /\ why \notin Up
      /\ why \notin {"boot", "client_keys", "tls", "quic", "auth", "admin", "websocket"}
      /\ why \notin {"server", "control_plane", "key_rotation"}
  BY Zenon DEF Ended, Sections, Bridge, Keys, Up
<1>3. \A l \in Listener : conf'.on[l] = FALSE
  BY Zenon, <1>1, BlankAccepted
<1>4. TypeInv'
  BY Zenon, <1>1, BlankAccepted, AllOffType DEF TypeInv
<1>5. OffInv'
  BY Zenon, <1>1, <1>2 DEF OffInv
<1>6. Distinct(conf)'
  BY Zenon, <1>3 DEF Distinct
<1>7. LisInv'
  <2>1. \A l \in Listener : lis'[l] = "off"
    BY Zenon, <1>1, AllOffType
  <2>. QED
    BY Zenon, <1>1, <2>1 DEF LisInv
<1>8. AuthInv'
  BY Zenon, <1>1, BlankAccepted DEF AuthInv
<1>9. LimitInv'
  BY Zenon, <1>1, <1>2, <1>3 DEF LimitInv, Listener
<1>. QED
  BY Zenon, <1>4, <1>5, <1>6, <1>7, <1>8, <1>9 DEF StartInv

\* The program starts in the invariant.
LEMMA StartInit == Init => StartInv
<1>. SUFFICES ASSUME Init PROVE StartInv
  BY Zenon
<1>1. PICK b \in BOOLEAN : conf = [Blank EXCEPT !.auth_section = b]
  BY Zenon DEF Init
<1>2. /\ conf \in Accepted /\ conf.on = Blank.on
      /\ conf.wants_auth = Blank.wants_auth
      /\ conf.client_auth_enabled = Blank.client_auth_enabled
  BY Zenon, <1>1, BlankAccepted DEF Accepted
<1>3. \A l \in Listener : conf.on[l] = FALSE
  BY Zenon, <1>2, BlankAccepted
<1>4. pc \in {"server", "client"} /\ lis = AllOff /\ client_vk = FALSE
  BY Zenon DEF Init
<1>5. TypeInv
  BY Zenon, <1>2, <1>4, AllOffType DEF TypeInv, Sections, Client
<1>6. OffInv
  BY Zenon, <1>3, <1>4 DEF OffInv, Bridge, Sections, Keys, Up, Listener
<1>7. Distinct(conf)
  BY Zenon, <1>3 DEF Distinct
<1>8. LisInv
  BY Zenon, <1>4, AllOffType DEF LisInv
<1>9. AuthInv
  BY Zenon, <1>2, BlankAccepted DEF AuthInv
<1>10. LimitInv
  BY Zenon, <1>3, <1>4 DEF LimitInv, Listener
<1>. QED
  BY Zenon, <1>5, <1>6, <1>7, <1>8, <1>9, <1>10 DEF StartInv

\* A configuration with one more listener on.
On(l, a, c) == With(l, TRUE, a, c)

\* On turns a listener on at an address, and keeps all the rest.
LEMMA OnFields ==
  ASSUME NEW l \in Listener, NEW a \in Addrs, NEW c \in Accepted
  PROVE  /\ On(l, a, c) \in Accepted
         /\ \A x \in Listener : On(l, a, c).on[x] <=> (c.on[x] \/ x = l)
         /\ \A x \in Listener : On(l, a, c).addr[x] = IF x = l THEN a ELSE c.addr[x]
         /\ On(l, a, c).limits = c.limits
         /\ On(l, a, c).key_rotation_interval = c.key_rotation_interval
         /\ On(l, a, c).wants_auth = c.wants_auth
         /\ On(l, a, c).client_auth_enabled = c.client_auth_enabled
         /\ On(l, a, c).client_vk_path = c.client_vk_path
         /\ On(l, a, c).admin_control_plane_vk_path = c.admin_control_plane_vk_path
<1>. DEFINE d == [c EXCEPT !.on[l] = TRUE, !.addr[l] = a]
<1>1. On(l, a, c) = d
  BY Zenon DEF On, With
<1>2. /\ d \in Accepted
      /\ d.on = [c.on EXCEPT ![l] = TRUE]
      /\ d.addr = [c.addr EXCEPT ![l] = a]
      /\ d.limits = c.limits
      /\ d.key_rotation_interval = c.key_rotation_interval
      /\ d.wants_auth = c.wants_auth
      /\ d.client_auth_enabled = c.client_auth_enabled
      /\ d.client_vk_path = c.client_vk_path
      /\ d.admin_control_plane_vk_path = c.admin_control_plane_vk_path
  BY Zenon DEF Accepted
<1>. HIDE DEF d
<1>3. c.on \in [Listener -> BOOLEAN] /\ c.addr \in [Listener -> Addrs]
  BY Zenon DEF Accepted
<1>4. /\ \A x \in Listener : d.on[x] <=> (c.on[x] \/ x = l)
      /\ \A x \in Listener : d.addr[x] = IF x = l THEN a ELSE c.addr[x]
  BY Zenon, <1>2, <1>3
<1>. QED
  BY Zenon, <1>1, <1>2, <1>4

\* A listener whose address no other that is on has leaves the addresses distinct.
LEMMA DistinctOn ==
  ASSUME NEW l \in Listener, NEW a \in Addrs, NEW c \in Accepted, Distinct(c), ~c.on[l],
         \A o \in Listener \ {l} :
           c.on[o] /\ {l, o} # {"server", "metrics"} => c.addr[o] # a
  PROVE  Distinct(On(l, a, c))
<1>. DEFINE d == On(l, a, c)
<1>1. /\ \A x \in Listener : d.on[x] <=> (c.on[x] \/ x = l)
      /\ \A x \in Listener : d.addr[x] = IF x = l THEN a ELSE c.addr[x]
  BY OnFields
<1>2. SUFFICES ASSUME NEW x \in Listener, NEW y \in Listener, x # y,
                      d.on[x], d.on[y], {x, y} # {"server", "metrics"}
               PROVE  d.addr[x] # d.addr[y]
  BY Zenon DEF Distinct
<1>. HIDE DEF d
<1>3. CASE x = l
  BY Zenon, <1>1, <1>2, <1>3
<1>4. CASE y = l
  BY Zenon, <1>1, <1>2, <1>4
<1>5. CASE x # l /\ y # l
  BY Zenon, <1>1, <1>2, <1>5 DEF Distinct
<1>. QED
  BY Zenon, <1>3, <1>4, <1>5

\* A section that only main goes through: while nothing has been started, the
\* invariant holds again once it holds of the new configuration.
LEMMA SectionKeeps ==
  ASSUME StartInv, NEW next \in Sections \cup {"boot", "client_keys"}, NEW c \in Accepted,
         pc \in Sections \cup {"client"},
         pc' = next, conf' = c, UNCHANGED running,
         Distinct(c), OffInv', LimitInv',
         c.wants_auth => c.client_auth_enabled,
         c.client_auth_enabled => c.client_vk_path # "none"
  PROVE  StartInv'
<1>1. pc \notin Up /\ pc' \notin Up
  BY Zenon DEF Sections, Up
<1>2. lis' = AllOff /\ client_vk' \in BOOLEAN
  BY Zenon, <1>1 DEF StartInv, LisInv, running, TypeInv
<1>3. TypeInv'
  BY Zenon, <1>2, AllOffType DEF TypeInv, Keys, Client
<1>4. Distinct(conf)'
  BY Zenon DEF Distinct
<1>5. LisInv'
  BY Zenon, <1>2, AllOffType DEF LisInv
<1>6. AuthInv'
  BY Zenon, <1>1 DEF AuthInv
<1>. QED
  BY Zenon, <1>3, <1>4, <1>5, <1>6 DEF StartInv

\* A section whose values are refused ends the program.
LEMMA SectionSplit ==
  ASSUME NEW bails \in BOOLEAN, NEW next, NEW c, Section(bails, next, c)
  PROVE  StartInv' \/ (~bails /\ pc' = next /\ conf' = c /\ UNCHANGED running)
  BY Zenon, ExitKeeps DEF Section, Ended

\* Limits that the server section accepts are positive.
LEMMA ServerLimits ==
  ASSUME NEW s \in ServerConfig, NEW k, NEW m, ~server_bails(s, k, m)
  PROVE  {s.max_frame_size, s.handshake_timeout_secs, s.max_connections_per_ip}
           \in SUBSET (Nat \ {0})
<1>1. s.max_frame_size \in {1023, 1024, 16777217} /\ s.handshake_timeout_secs \in {0, 1}
      /\ s.max_connections_per_ip \in {0, 1}
  BY SMT DEF ServerConfig
<1>2. ~(s.handshake_timeout_secs < 1) /\ s.max_connections_per_ip # 0
  BY SMT DEF server_bails
<1>. QED
  BY <1>1, <1>2, SMT

\* The listeners' names.
LEMMA IsListener ==
  /\ "server" \in Listener /\ "metrics" \in Listener /\ "tls" \in Listener
  /\ "quic" \in Listener /\ "admin" \in Listener /\ "ws" \in Listener
  BY Zenon DEF Listener

\* The server section turns the main and the metrics listener on.
LEMMA ServerKeeps == StartInv /\ ValidateServer => StartInv'
<1>. SUFFICES ASSUME StartInv, ValidateServer PROVE StartInv'
  BY Zenon
<1>1. PICK s \in ServerConfig, k \in CryptoConfig, m \in MetricsConfig :
        Section(server_bails(s, k, m), "control_plane",
               [With("metrics", TRUE, m.listen_addr, With("server", TRUE, s.listen_addr, conf))
                  EXCEPT !.limits = {s.max_frame_size, s.handshake_timeout_secs,
                                     s.max_connections_per_ip}])
  BY Zenon DEF ValidateServer
<1>. DEFINE w == On("server", s.listen_addr, conf)
            v == On("metrics", m.listen_addr, w)
            lim == {s.max_frame_size, s.handshake_timeout_secs, s.max_connections_per_ip}
            c == [v EXCEPT !.limits = lim]
<1>2. server_bails(s, k, m) \in BOOLEAN
  BY DEF server_bails
<1>3. SUFFICES ASSUME ~server_bails(s, k, m), pc' = "control_plane", conf' = c, UNCHANGED running
               PROVE  StartInv'
  BY Zenon, <1>1, <1>2, SectionSplit DEF On
<1>. HIDE DEF w, v, lim, c
<1>4. s.listen_addr \in Addrs /\ m.listen_addr \in Addrs /\ conf \in Accepted
  BY DEF ServerConfig, MetricsConfig, StartInv, TypeInv
<1>5. lim \in SUBSET (Nat \ {0})
  BY <1>3, ServerLimits DEF lim
<1>6. pc = "server" /\ Distinct(conf) /\ AuthInv
  BY DEF ValidateServer, StartInv
<1>7. ~conf.on["tls"] /\ ~conf.on["quic"] /\ ~conf.on["admin"] /\ ~conf.on["ws"]
  BY SMTT(60), <1>6 DEF StartInv, OffInv, Sections
<1>8. /\ w \in Accepted
      /\ \A x \in Listener : w.on[x] <=> (conf.on[x] \/ x = "server")
      /\ w.wants_auth = conf.wants_auth /\ w.client_auth_enabled = conf.client_auth_enabled
      /\ w.client_vk_path = conf.client_vk_path
  BY SMTT(60), <1>4, IsListener, OnFields DEF w
<1>9. /\ v \in Accepted
      /\ \A x \in Listener : v.on[x] <=> (w.on[x] \/ x = "metrics")
      /\ v.wants_auth = w.wants_auth /\ v.client_auth_enabled = w.client_auth_enabled
      /\ v.client_vk_path = w.client_vk_path
  BY <1>4, <1>8, IsListener, OnFields DEF v
<1>10. /\ c \in Accepted /\ c.on = v.on
       /\ c.wants_auth = v.wants_auth /\ c.client_auth_enabled = v.client_auth_enabled
       /\ c.client_vk_path = v.client_vk_path
  BY SMTT(60), <1>5, <1>9 DEF Accepted, c
<1>11. c.on["server"] /\ ~c.on["tls"] /\ ~c.on["quic"] /\ ~c.on["admin"] /\ ~c.on["ws"]
  BY <1>7, <1>8, <1>9, <1>10 DEF Listener
<1>12. Distinct(c)
  BY <1>11 DEF Distinct, Listener
<1>13. OffInv'
  BY <1>3, <1>11 DEF OffInv
<1>14. LimitInv'
  BY <1>3, <1>11 DEF LimitInv
<1>15. /\ c.wants_auth => c.client_auth_enabled
       /\ c.client_auth_enabled => c.client_vk_path # "none"
  BY Zenon, <1>6, <1>8, <1>9, <1>10 DEF AuthInv
<1>. QED
  BY Zenon, <1>3, <1>6, <1>10, <1>12, <1>13, <1>14, <1>15, SectionKeeps DEF Sections

\* The control plane's heartbeat interval is raised to five seconds.
LEMMA ControlPlaneKeeps == StartInv /\ ValidateControlPlane => StartInv'
<1>. SUFFICES ASSUME StartInv, ValidateControlPlane PROVE StartInv'
  BY Zenon
<1>1. PICK p \in ControlPlaneConfig :
        Section(control_plane_bails(p), "key_rotation",
                [conf EXCEPT !.limits = @ \cup {heartbeat_interval(p)}])
  BY Zenon DEF ValidateControlPlane
<1>. DEFINE c == [conf EXCEPT !.limits = @ \cup {heartbeat_interval(p)}]
<1>2. control_plane_bails(p) \in BOOLEAN
  BY Zenon DEF control_plane_bails, ControlPlaneConfig
<1>3. SUFFICES ASSUME pc' = "key_rotation", conf' = c, UNCHANGED running
               PROVE  StartInv'
  BY Zenon, <1>1, <1>2, SectionSplit
<1>4. heartbeat_interval(p) \in Nat \ {0}
  BY DEF heartbeat_interval, ControlPlaneConfig
<1>5. /\ c \in Accepted /\ c.on = conf.on /\ c.addr = conf.addr
      /\ c.wants_auth = conf.wants_auth /\ c.client_auth_enabled = conf.client_auth_enabled
      /\ c.client_vk_path = conf.client_vk_path
      /\ c.admin_control_plane_vk_path = conf.admin_control_plane_vk_path
  BY <1>4 DEF StartInv, TypeInv, Accepted
<1>. HIDE DEF c
<1>6. pc = "control_plane" /\ Distinct(conf) /\ OffInv /\ AuthInv /\ LimitInv
  BY Zenon DEF ValidateControlPlane, StartInv
<1>7. Distinct(c)
  BY ZenonT(60), <1>5, <1>6 DEF Distinct
<1>8. OffInv'
  BY Zenon, <1>3, <1>5, <1>6 DEF OffInv, Sections, Bridge
<1>9. LimitInv'
  BY Zenon, <1>3, <1>5, <1>6 DEF LimitInv
<1>. QED
  BY Zenon, <1>3, <1>5, <1>6, <1>7, <1>8, <1>9, SectionKeeps DEF Sections, AuthInv

\* The rotation limits: at least a megabyte, at least a minute.
LEMMA KeyRotationKeeps == StartInv /\ ValidateKeyRotation => StartInv'
<1>. SUFFICES ASSUME StartInv, ValidateKeyRotation PROVE StartInv'
  BY Zenon
<1>1. PICK r \in KeyRotationConfig :
        Section(key_rotation_bails(r), "tls",
                [conf EXCEPT !.limits = @ \cup {r.max_bytes_per_key},
                             !.key_rotation_interval = r.max_seconds_per_key])
  BY Zenon DEF ValidateKeyRotation
<1>. DEFINE c == [conf EXCEPT !.limits = @ \cup {r.max_bytes_per_key},
                              !.key_rotation_interval = r.max_seconds_per_key]
<1>2. key_rotation_bails(r) \in BOOLEAN
  BY DEF key_rotation_bails
<1>3. SUFFICES ASSUME ~key_rotation_bails(r), pc' = "tls", conf' = c, UNCHANGED running
               PROVE  StartInv'
  BY <1>1, <1>2, SectionSplit
<1>4. r.max_bytes_per_key \in Nat \ {0} /\ r.max_seconds_per_key \in Nat \ {0}
  BY DEF KeyRotationConfig
<1>5. /\ c \in Accepted /\ c.on = conf.on /\ c.addr = conf.addr
      /\ c.wants_auth = conf.wants_auth /\ c.client_auth_enabled = conf.client_auth_enabled
      /\ c.client_vk_path = conf.client_vk_path
      /\ c.admin_control_plane_vk_path = conf.admin_control_plane_vk_path
      /\ c.key_rotation_interval = r.max_seconds_per_key
  BY ZenonT(60), <1>4 DEF StartInv, TypeInv, Accepted
<1>. HIDE DEF c
<1>6. pc = "key_rotation" /\ Distinct(conf) /\ OffInv /\ AuthInv /\ LimitInv
  BY DEF ValidateKeyRotation, StartInv
<1>7. Distinct(c)
  BY <1>5, <1>6 DEF Distinct
<1>8. OffInv'
  BY <1>3, <1>5, <1>6 DEF OffInv, Sections, Bridge
<1>9. LimitInv'
  BY SMTT(60), <1>3, <1>4, <1>5, <1>6 DEF LimitInv
<1>. QED
  BY Zenon, <1>3, <1>5, <1>6, <1>7, <1>8, <1>9, SectionKeeps DEF Sections, AuthInv

\* The configuration d is the one being validated, with listener l on if e.
Turned(d, l, e) ==
  /\ d \in Accepted /\ Distinct(d)
  /\ \A x \in Listener \ {l} : d.on[x] <=> conf.on[x]
  /\ d.on[l] <=> e
  /\ d.limits = conf.limits
  /\ d.key_rotation_interval = conf.key_rotation_interval
  /\ d.wants_auth = conf.wants_auth
  /\ d.client_auth_enabled = conf.client_auth_enabled
  /\ d.client_vk_path = conf.client_vk_path
  /\ d.admin_control_plane_vk_path = conf.admin_control_plane_vk_path

\* What a listener's section adds to a configuration that it does not clash with.
LEMMA WithAccepted ==
  ASSUME StartInv, NEW l \in Listener, NEW e \in BOOLEAN, NEW a \in Addrs, ~conf.on[l],
         e => \A o \in Listener \ {l} : conf.on[o] => conf.addr[o] # a
  PROVE  Turned(With(l, e, a, conf), l, e)
<1>1. conf \in Accepted /\ Distinct(conf)
  BY Zenon DEF StartInv, TypeInv
<1>2. CASE ~e
  <2>1. With(l, e, a, conf) = conf
    BY Zenon, <1>2 DEF With
  <2>2. Turned(conf, l, e)
    BY Zenon, <1>1, <1>2 DEF Turned
  <2>. QED
    BY Zenon, <2>1, <2>2
<1>3. CASE e
  <2>. DEFINE d == On(l, a, conf)
  <2>1. With(l, e, a, conf) = d
    BY Zenon, <1>3 DEF With, On
  <2>2. Distinct(d)
    BY Zenon, <1>1, <1>3, DistinctOn
  <2>3. /\ d \in Accepted
        /\ \A x \in Listener : d.on[x] <=> (conf.on[x] \/ x = l)
        /\ d.limits = conf.limits
        /\ d.key_rotation_interval = conf.key_rotation_interval
        /\ d.wants_auth = conf.wants_auth
        /\ d.client_auth_enabled = conf.client_auth_enabled
        /\ d.client_vk_path = conf.client_vk_path
        /\ d.admin_control_plane_vk_path = conf.admin_control_plane_vk_path
    <3>1. d \in Accepted /\ \A x \in Listener : d.on[x] <=> (conf.on[x] \/ x = l)
      BY ZenonT(60), <1>1, OnFields
    <3>2. /\ d.limits = conf.limits
          /\ d.key_rotation_interval = conf.key_rotation_interval
          /\ d.wants_auth = conf.wants_auth
      BY <1>1, OnFields
    <3>3. /\ d.client_auth_enabled = conf.client_auth_enabled
          /\ d.client_vk_path = conf.client_vk_path
          /\ d.admin_control_plane_vk_path = conf.admin_control_plane_vk_path
      BY <1>1, OnFields
    <3>. QED
      BY Zenon, <3>1, <3>2, <3>3
  <2>. HIDE DEF d
  <2>4. (\A x \in Listener \ {l} : d.on[x] <=> conf.on[x]) /\ (d.on[l] <=> e)
    BY Zenon, <1>3, <2>3
  <2>5. Turned(d, l, e)
    BY Zenon, <2>2, <2>3, <2>4 DEF Turned
  <2>. QED
    BY Zenon, <2>1, <2>5
<1>. QED
  BY Zenon, <1>2, <1>3

\* The TLS listener's address is neither the main one nor that of the metrics.
LEMMA TlsKeeps == StartInv /\ ValidateTls => StartInv'
<1>. SUFFICES ASSUME StartInv, ValidateTls PROVE StartInv'
  OBVIOUS
<1>1. PICK t \in TlsConfig :
        Section(tls_bails(t, conf), "quic", With("tls", t.enabled, t.listen_addr, conf))
  BY DEF ValidateTls
<1>. DEFINE c == With("tls", t.enabled, t.listen_addr, conf)
<1>2. tls_bails(t, conf) \in BOOLEAN
  BY DEF tls_bails
<1>3. SUFFICES ASSUME ~tls_bails(t, conf), pc' = "quic", conf' = c, UNCHANGED running
               PROVE  StartInv'
  BY <1>1, <1>2, SectionSplit
<1>. HIDE DEF c
<1>4. t.enabled \in BOOLEAN /\ t.listen_addr \in Addrs
  BY DEF TlsConfig
<1>5. pc = "tls" /\ OffInv /\ AuthInv /\ LimitInv
  BY DEF ValidateTls, StartInv
<1>6. ~conf.on["tls"] /\ ~conf.on["quic"] /\ ~conf.on["admin"] /\ ~conf.on["ws"]
  BY <1>5 DEF OffInv, Sections
<1>7. t.enabled => \A o \in Listener \ {"tls"} : conf.on[o] => conf.addr[o] # t.listen_addr
  BY SMTT(60), <1>3, <1>6 DEF tls_bails, Taken, Listener
<1>8. /\ c \in Accepted /\ Distinct(c)
      /\ \A x \in Listener \ {"tls"} : c.on[x] <=> conf.on[x]
      /\ c.key_rotation_interval = conf.key_rotation_interval
      /\ c.wants_auth = conf.wants_auth /\ c.client_auth_enabled = conf.client_auth_enabled
      /\ c.client_vk_path = conf.client_vk_path
      /\ c.admin_control_plane_vk_path = conf.admin_control_plane_vk_path
  <2>1. Turned(c, "tls", t.enabled)
    BY Zenon, <1>4, <1>6, <1>7, IsListener, WithAccepted DEF c
  <2>. QED
    BY Zenon, <2>1 DEF Turned
<1>9. OffInv'
  BY Zenon, <1>3, <1>5, <1>6, <1>8, IsListener DEF OffInv, Sections, Bridge
<1>10. LimitInv'
  BY Zenon, <1>3, <1>5, <1>8, IsListener DEF LimitInv
<1>. QED
  BY Zenon, <1>3, <1>5, <1>8, <1>9, <1>10, SectionKeeps DEF Sections, AuthInv

\* The QUIC listener's address is none of those before it.
LEMMA QuicKeeps == StartInv /\ ValidateQuic => StartInv'
<1>. SUFFICES ASSUME StartInv, ValidateQuic PROVE StartInv'
  BY Zenon
<1>1. PICK q \in QuicConfig :
        Section(quic_bails(q, conf), "auth", With("quic", q.enabled, q.listen_addr, conf))
  BY Zenon DEF ValidateQuic
<1>. DEFINE c == With("quic", q.enabled, q.listen_addr, conf)
<1>2. quic_bails(q, conf) \in BOOLEAN
  BY Zenon DEF quic_bails
<1>3. SUFFICES ASSUME ~quic_bails(q, conf), pc' = "auth", conf' = c, UNCHANGED running
               PROVE  StartInv'
  BY Zenon, <1>1, <1>2, SectionSplit
<1>. HIDE DEF c
<1>4. q.enabled \in BOOLEAN /\ q.listen_addr \in Addrs
  BY Zenon DEF QuicConfig
<1>5. pc = "quic" /\ OffInv /\ AuthInv /\ LimitInv
  BY Zenon DEF ValidateQuic, StartInv
<1>6. ~conf.on["quic"] /\ ~conf.on["admin"] /\ ~conf.on["ws"]
  BY Zenon, <1>5 DEF OffInv, Sections
<1>7. q.enabled => \A o \in Listener \ {"quic"} : conf.on[o] => conf.addr[o] # q.listen_addr
  BY ZenonT(60), <1>3, <1>6 DEF quic_bails, Taken, Listener
<1>8. /\ c \in Accepted /\ Distinct(c)
      /\ \A x \in Listener \ {"quic"} : c.on[x] <=> conf.on[x]
      /\ c.key_rotation_interval = conf.key_rotation_interval
      /\ c.wants_auth = conf.wants_auth /\ c.client_auth_enabled = conf.client_auth_enabled
      /\ c.client_vk_path = conf.client_vk_path
      /\ c.admin_control_plane_vk_path = conf.admin_control_plane_vk_path
  <2>1. Turned(c, "quic", q.enabled)
    BY Zenon, <1>4, <1>6, <1>7, IsListener, WithAccepted DEF c
  <2>. QED
    BY Zenon, <2>1 DEF Turned
<1>9. OffInv'
  BY Zenon, <1>3, <1>5, <1>6, <1>8, IsListener DEF OffInv, Sections, Bridge
<1>10. LimitInv'
  BY Zenon, <1>3, <1>5, <1>8, IsListener DEF LimitInv
<1>. QED
  BY Zenon, <1>3, <1>5, <1>8, <1>9, <1>10, SectionKeeps DEF Sections, AuthInv

\* Authentication that is asked for is enabled, with a key.
LEMMA AuthKeeps == StartInv /\ ValidateAuth => StartInv'
<1>. SUFFICES ASSUME StartInv, ValidateAuth PROVE StartInv'
  BY Zenon
<1>1. PICK a \in IF conf.auth_section THEN AuthConfig ELSE {AuthDefault} :
        Section(auth_bails(a), "admin",
               [conf EXCEPT !.wants_auth = a.require_client_auth,
                            !.client_auth_enabled = client_auth_enabled(a),
                            !.client_vk_path = a.client_vk_path])
  BY Zenon DEF ValidateAuth
<1>. DEFINE c == [conf EXCEPT !.wants_auth = a.require_client_auth,
                              !.client_auth_enabled = client_auth_enabled(a),
                              !.client_vk_path = a.client_vk_path]
<1>2. a \in AuthConfig
  <2>1. AuthDefault \in AuthConfig
    BY Zenon DEF AuthConfig, AuthDefault, PathOption
  <2>. QED
    BY Zenon, <2>1
<1>3. auth_bails(a) \in BOOLEAN /\ client_auth_enabled(a) \in BOOLEAN
  BY Zenon, <1>2 DEF auth_bails, client_auth_enabled, AuthConfig
<1>4. SUFFICES ASSUME ~auth_bails(a), pc' = "admin", conf' = c, UNCHANGED running
               PROVE  StartInv'
  BY Zenon, <1>1, <1>3, SectionSplit
<1>5. /\ c \in Accepted /\ c.on = conf.on /\ c.addr = conf.addr
      /\ c.wants_auth = a.require_client_auth /\ c.client_auth_enabled = client_auth_enabled(a)
      /\ c.client_vk_path = a.client_vk_path
      /\ c.admin_control_plane_vk_path = conf.admin_control_plane_vk_path
      /\ c.key_rotation_interval = conf.key_rotation_interval
  BY Zenon, <1>2, <1>3 DEF StartInv, TypeInv, Accepted, AuthConfig
<1>. HIDE DEF c
<1>6. pc = "auth" /\ Distinct(conf) /\ OffInv /\ LimitInv
  BY Zenon DEF ValidateAuth, StartInv
<1>7. /\ c.wants_auth => c.client_auth_enabled
      /\ c.client_auth_enabled => c.client_vk_path # "none"
  BY ZenonT(60), <1>2, <1>4, <1>5 DEF auth_bails, client_auth_enabled, AuthConfig
<1>8. Distinct(c)
  BY <1>5, <1>6 DEF Distinct
<1>9. OffInv'
  BY Zenon, <1>4, <1>5, <1>6 DEF OffInv, Sections, Bridge
<1>10. LimitInv'
  BY Zenon, <1>4, <1>5, <1>6 DEF LimitInv
<1>. QED
  BY Zenon, <1>4, <1>5, <1>6, <1>7, <1>8, <1>9, <1>10, SectionKeeps DEF Sections

\* The admin listener has an address of its own, the control plane's key, and
\* positive limits.
LEMMA AdminKeeps == StartInv /\ ValidateAdmin => StartInv'
<1>. SUFFICES ASSUME StartInv, ValidateAdmin PROVE StartInv'
  BY Zenon
<1>1. PICK a \in AdminConfig :
        Section(admin_bails(a, conf), "websocket",
               [With("admin", a.enabled, a.listen_addr, conf) EXCEPT
                  !.limits = IF a.enabled THEN @ \cup {a.rate_limit_per_second,
                                                       a.handshake_timeout_secs} ELSE @,
                  !.admin_control_plane_vk_path =
                     IF a.enabled THEN a.control_plane_vk_path ELSE @])
  BY Zenon DEF ValidateAdmin
<1>. DEFINE w == With("admin", a.enabled, a.listen_addr, conf)
            c == [w EXCEPT
                  !.limits = IF a.enabled THEN @ \cup {a.rate_limit_per_second,
                                                       a.handshake_timeout_secs} ELSE @,
                  !.admin_control_plane_vk_path =
                     IF a.enabled THEN a.control_plane_vk_path ELSE @]
<1>2. admin_bails(a, conf) \in BOOLEAN
  BY Zenon DEF admin_bails
<1>3. SUFFICES ASSUME ~admin_bails(a, conf), pc' = "websocket", conf' = c, UNCHANGED running
               PROVE  StartInv'
  BY Zenon, <1>1, <1>2, SectionSplit
<1>. HIDE DEF c, w
<1>4. /\ a.enabled \in BOOLEAN /\ a.listen_addr \in Addrs
      /\ a.control_plane_vk_path \in PathOption
      /\ a.rate_limit_per_second \in {0, 1} /\ a.handshake_timeout_secs \in {0, 1}
  BY Zenon DEF AdminConfig
<1>5. a.enabled => /\ a.control_plane_vk_path # "none"
                   /\ a.rate_limit_per_second = 1 /\ a.handshake_timeout_secs = 1
  BY <1>3, <1>4 DEF admin_bails
<1>6. pc = "admin" /\ OffInv /\ AuthInv /\ LimitInv
  BY Zenon DEF ValidateAdmin, StartInv
<1>7. ~conf.on["admin"] /\ ~conf.on["ws"]
  BY Zenon, <1>6 DEF OffInv, Sections
<1>8. a.enabled => \A o \in Listener \ {"admin"} : conf.on[o] => conf.addr[o] # a.listen_addr
  BY ZenonT(60), <1>3, <1>7 DEF admin_bails, Taken, Listener
<1>9. /\ w \in Accepted /\ Distinct(w)
      /\ \A x \in Listener \ {"admin"} : w.on[x] <=> conf.on[x]
      /\ w.on["admin"] <=> a.enabled
      /\ w.key_rotation_interval = conf.key_rotation_interval
      /\ w.wants_auth = conf.wants_auth /\ w.client_auth_enabled = conf.client_auth_enabled
      /\ w.client_vk_path = conf.client_vk_path
  <2>1. Turned(w, "admin", a.enabled)
    BY Zenon, <1>4, <1>7, <1>8, IsListener, WithAccepted DEF w
  <2>. QED
    BY Zenon, <2>1 DEF Turned
<1>10. /\ c \in Accepted /\ c.on = w.on /\ c.addr = w.addr
       /\ c.key_rotation_interval = w.key_rotation_interval
       /\ c.wants_auth = w.wants_auth /\ c.client_auth_enabled = w.client_auth_enabled
       /\ c.client_vk_path = w.client_vk_path
       /\ a.enabled => c.admin_control_plane_vk_path = a.control_plane_vk_path
  <2>. DEFINE lim == IF a.enabled
                     THEN w.limits \cup {a.rate_limit_per_second, a.handshake_timeout_secs}
                     ELSE w.limits
              path == IF a.enabled THEN a.control_plane_vk_path
                      ELSE w.admin_control_plane_vk_path
  <2>1. c = [w EXCEPT !.limits = lim, !.admin_control_plane_vk_path = path]
    BY Zenon DEF c
  <2>2. w.limits \in SUBSET (Nat \ {0}) /\ w.admin_control_plane_vk_path \in PathOption
    BY Zenon, <1>9 DEF Accepted
  <2>3. lim \in SUBSET (Nat \ {0}) /\ path \in PathOption
    BY <1>4, <1>5, <2>2
  <2>4. a.enabled => path = a.control_plane_vk_path
    BY Zenon
  <2>. HIDE DEF lim, path
  <2>. QED
    BY Zenon, <1>9, <2>1, <2>3, <2>4 DEF Accepted
<1>11. Distinct(c)
  BY <1>9, <1>10 DEF Distinct
<1>12. OffInv'
  BY Zenon, <1>3, <1>6, <1>7, <1>9, <1>10, IsListener DEF OffInv, Sections, Bridge
<1>13. LimitInv'
  BY Zenon, <1>3, <1>5, <1>6, <1>9, <1>10 DEF LimitInv
<1>. QED
  BY Zenon, <1>3, <1>6, <1>9, <1>10, <1>11, <1>12, <1>13, SectionKeeps DEF Sections, AuthInv

\* The WebSocket listener's address is none of the others.
LEMMA WebsocketKeeps == StartInv /\ ValidateWebsocket => StartInv'
<1>. SUFFICES ASSUME StartInv, ValidateWebsocket PROVE StartInv'
  BY Zenon
<1>1. PICK w \in WsConfig, v \in EnvNumber :
        Section(websocket_bails(w, conf), "boot",
               [With("ws", w.enabled, w.listen_addr, conf)
                  EXCEPT !.vk_share_max_tokens = vk_share_max_tokens(v)])
  BY Zenon DEF ValidateWebsocket
<1>. DEFINE d == With("ws", w.enabled, w.listen_addr, conf)
            c == [d EXCEPT !.vk_share_max_tokens = vk_share_max_tokens(v)]
<1>2. websocket_bails(w, conf) \in BOOLEAN
  BY Zenon DEF websocket_bails
<1>3. SUFFICES ASSUME ~websocket_bails(w, conf), pc' = "boot", conf' = c, UNCHANGED running
               PROVE  StartInv'
  BY Zenon, <1>1, <1>2, SectionSplit
<1>. HIDE DEF c, d
<1>4. w.enabled \in BOOLEAN /\ w.listen_addr \in Addrs
  BY Zenon DEF WsConfig
<1>5. vk_share_max_tokens(v) \in Nat \ {0}
  BY DEF vk_share_max_tokens, DEFAULT_TOKEN_MAX
<1>6. pc = "websocket" /\ OffInv /\ AuthInv /\ LimitInv
  BY Zenon DEF ValidateWebsocket, StartInv
<1>7. ~conf.on["ws"]
  BY Zenon, <1>6 DEF OffInv, Sections
<1>8. w.enabled => \A o \in Listener \ {"ws"} : conf.on[o] => conf.addr[o] # w.listen_addr
  BY ZenonT(60), <1>3, <1>7 DEF websocket_bails, Taken, Listener
<1>9. /\ d \in Accepted /\ Distinct(d)
      /\ \A x \in Listener \ {"ws"} : d.on[x] <=> conf.on[x]
      /\ d.key_rotation_interval = conf.key_rotation_interval
      /\ d.wants_auth = conf.wants_auth /\ d.client_auth_enabled = conf.client_auth_enabled
      /\ d.client_vk_path = conf.client_vk_path
      /\ d.admin_control_plane_vk_path = conf.admin_control_plane_vk_path
  <2>1. Turned(d, "ws", w.enabled)
    BY Zenon, <1>4, <1>7, <1>8, IsListener, WithAccepted DEF d
  <2>. QED
    BY Zenon, <2>1 DEF Turned
<1>10. /\ c \in Accepted /\ c.on = d.on /\ c.addr = d.addr
       /\ c.key_rotation_interval = d.key_rotation_interval
       /\ c.wants_auth = d.wants_auth /\ c.client_auth_enabled = d.client_auth_enabled
       /\ c.client_vk_path = d.client_vk_path
       /\ c.admin_control_plane_vk_path = d.admin_control_plane_vk_path
       /\ c.vk_share_max_tokens = vk_share_max_tokens(v)
  BY ZenonT(60), <1>5, <1>9 DEF Accepted, c
<1>11. Distinct(c)
  BY <1>9, <1>10 DEF Distinct
<1>12. OffInv'
  BY Zenon, <1>3, <1>6, <1>9, <1>10, IsListener DEF OffInv, Sections, Bridge
<1>13. LimitInv'
  <2>1. c.vk_share_max_tokens > 0
    BY <1>5, <1>10
  <2>2. c.on["admin"] <=> conf.on["admin"]
    BY Zenon, <1>9, <1>10, IsListener
  <2>. QED
    BY Zenon, <1>3, <1>6, <1>9, <1>10, <2>1, <2>2 DEF LimitInv
<1>. QED
  BY Zenon, <1>3, <1>6, <1>9, <1>10, <1>11, <1>12, <1>13, SectionKeeps DEF Sections, AuthInv

\* What the client's validate accepts: a pool that holds its warm connections.
LEMMA ClientKeeps == StartInv /\ ValidateClient => StartInv'
<1>. SUFFICES ASSUME StartInv, ValidateClient PROVE StartInv'
  BY Zenon
<1>1. PICK s \in ClientSection, p \in PoolConfig, r \in ReconnectConfig :
        Section(client_bails(s, p, r), "client_keys",
               [conf EXCEPT !.limits = {s.max_frame_size, p.warm_interval_secs},
                            !.pool = [max_size |-> p.max_size, warm_size |-> p.warm_size,
                                      idle_timeout_secs |-> p.idle_timeout_secs],
                            !.client_sk_path = s.client_sk_path])
  BY Zenon DEF ValidateClient
<1>. DEFINE pool == [max_size |-> p.max_size, warm_size |-> p.warm_size,
                     idle_timeout_secs |-> p.idle_timeout_secs]
            lim == {s.max_frame_size, p.warm_interval_secs}
            c == [conf EXCEPT !.limits = lim, !.pool = pool, !.client_sk_path = s.client_sk_path]
<1>2. client_bails(s, p, r) \in BOOLEAN
  BY DEF client_bails
<1>3. SUFFICES ASSUME ~client_bails(s, p, r), pc' = "client_keys", conf' = c, UNCHANGED running
               PROVE  StartInv'
  BY Zenon, <1>1, <1>2, SectionSplit
<1>. HIDE DEF c, lim, pool
<1>4. /\ p.max_size \in Nat /\ p.warm_size \in Nat /\ p.idle_timeout_secs \in Nat
      /\ p.warm_interval_secs \in Nat
  BY DEF PoolConfig
<1>5. s.max_frame_size \in Nat \ {0} /\ s.client_sk_path \in PathOption
  BY SMTT(60) DEF ClientSection
<1>6. /\ p.max_size > 0 /\ p.warm_size <= p.max_size
      /\ p.idle_timeout_secs > 0 /\ p.warm_interval_secs # 0
  BY <1>3, <1>4, SMT DEF client_bails
<1>7. lim \in SUBSET (Nat \ {0})
  BY Zenon, <1>4, <1>5, <1>6 DEF lim
<1>8. /\ pool \in [max_size : Nat, warm_size : Nat, idle_timeout_secs : Nat]
      /\ pool.max_size = p.max_size /\ pool.warm_size = p.warm_size
      /\ pool.idle_timeout_secs = p.idle_timeout_secs
  BY Zenon, <1>4 DEF pool
<1>9. /\ c \in Accepted /\ c.on = conf.on /\ c.addr = conf.addr /\ c.pool = pool
      /\ c.wants_auth = conf.wants_auth /\ c.client_auth_enabled = conf.client_auth_enabled
      /\ c.client_vk_path = conf.client_vk_path
      /\ c.admin_control_plane_vk_path = conf.admin_control_plane_vk_path
  BY Zenon, <1>5, <1>7, <1>8 DEF StartInv, TypeInv, Accepted, c
<1>10. pc = "client" /\ Distinct(conf) /\ AuthInv /\ LimitInv
  BY Zenon DEF ValidateClient, StartInv
<1>11. Distinct(c)
  BY ZenonT(60), <1>9, <1>10 DEF Distinct
<1>12. OffInv'
  BY Zenon, <1>3 DEF OffInv, Sections, Bridge, Keys, Up
<1>13. LimitInv'
  BY Zenon, <1>3, <1>6, <1>8, <1>9, <1>10 DEF LimitInv
<1>. QED
  BY Zenon, <1>3, <1>9, <1>10, <1>11, <1>12, <1>13, SectionKeeps DEF AuthInv

\* run goes on with the configuration it was given.
LEMMA RunKeeps ==
  ASSUME StartInv, conf' = conf,
         pc' \in {"identity", "client_vk"} \cup Up \cup (Client \ {"client", "client_keys"}),
         pc' \in Bridge => pc \in Bridge,
         lis' \in [Listener -> {"off", "spawned", "up", "refused"}], LisInv',
         client_vk' \in BOOLEAN, pc' \in Up /\ conf.client_auth_enabled => client_vk'
  PROVE  StartInv'
<1>1. TypeInv'
  BY Zenon DEF StartInv, TypeInv, Keys
<1>2. OffInv'
  BY Zenon DEF StartInv, OffInv, Sections, Up, Client
<1>3. Distinct(conf)'
  BY Zenon DEF StartInv, Distinct
<1>4. AuthInv'
  BY Zenon DEF StartInv, AuthInv
<1>5. LimitInv'
  BY Zenon DEF StartInv, LimitInv, Up, Client
<1>. QED
  BY Zenon, <1>1, <1>2, <1>3, <1>4, <1>5 DEF StartInv

\* The listeners of an unchanged configuration, while main goes on.
LEMMA LisKeeps ==
  ASSUME StartInv, conf' = conf, lis' = lis, pc' \in Up \/ pc \notin Up
  PROVE  /\ LisInv'
         /\ lis' \in [Listener -> {"off", "spawned", "up", "refused"}]
  BY Zenon DEF StartInv, LisInv, TypeInv

\* A step of main that leaves all but pc alone.
LEMMA GoKeeps ==
  ASSUME StartInv, NEW next, Go(next),
         next \in {"identity", "client_vk"} \cup Up \cup (Client \ {"client", "client_keys"}),
         next \in Bridge => pc \in Bridge,
         next \in Up \/ pc \notin Up,
         next \in Up /\ conf.client_auth_enabled => client_vk
  PROVE  StartInv'
<1>1. pc' = next /\ UNCHANGED <<conf, lis, client_vk>>
  BY Zenon DEF Go
<1>2. LisInv' /\ lis' \in [Listener -> {"off", "spawned", "up", "refused"}]
  BY Zenon, <1>1, LisKeeps
<1>3. client_vk' \in BOOLEAN
  BY Zenon, <1>1 DEF StartInv, TypeInv
<1>. QED
  BY Zenon, <1>1, <1>2, <1>3, RunKeeps

\* One listener's task moves while main stays where it is.
LEMMA BecomesKeeps ==
  ASSUME StartInv, NEW l \in Listener, NEW st \in {"off", "up", "refused"}, Becomes(l, st),
         lis[l] # "off", st = "refused" => InUse(l)
  PROVE  StartInv'
<1>1. lis' = [lis EXCEPT ![l] = st] /\ UNCHANGED <<pc, conf, client_vk>>
  BY Zenon DEF Becomes
<1>2. pc \in Up
  BY Zenon, AllOffType DEF StartInv, LisInv
<1>3. conf.on[l]
  BY Zenon DEF StartInv, LisInv
<1>4. lis \in [Listener -> {"off", "spawned", "up", "refused"}]
  BY Zenon DEF StartInv, TypeInv
<1>5. st = "refused" =>
        \E o \in Tcp \ {l} : conf.on[o] /\ Overlap(conf.addr[l], conf.addr[o])
  BY Zenon, <1>4 DEF InUse, StartInv, LisInv, Tcp
<1>6. LisInv'
  <2>1. \A x \in Listener : lis'[x] # "off" => conf.on[x]
    BY Zenon, <1>1, <1>3, <1>4 DEF StartInv, LisInv
  <2>2. ASSUME NEW x \in Listener, lis'[x] = "refused"
        PROVE  \E o \in Tcp \ {x} : conf.on[o] /\ Overlap(conf.addr[x], conf.addr[o])
    <3>1. CASE x = l
      BY Zenon, <1>1, <1>4, <1>5, <2>2, <3>1
    <3>2. CASE x # l
      BY Zenon, <1>1, <1>4, <2>2, <3>2 DEF StartInv, LisInv
    <3>. QED
      BY Zenon, <3>1, <3>2
  <2>. QED
    BY Zenon, <1>1, <1>2, <2>1, <2>2 DEF LisInv
<1>7. lis' \in [Listener -> {"off", "spawned", "up", "refused"}]
  BY Zenon, <1>1, <1>4
<1>8. client_vk' \in BOOLEAN /\ (conf.client_auth_enabled => client_vk')
  BY Zenon, <1>1, <1>2 DEF StartInv, TypeInv, AuthInv
<1>. QED
  BY Zenon, <1>1, <1>2, <1>6, <1>7, <1>8, RunKeeps

\* Main spawns listeners that are on.
LEMMA SpawnKeeps ==
  ASSUME StartInv, pc \in Up, NEW L \in SUBSET Listener, NEW next \in Up, Spawn(L, next)
  PROVE  StartInv'
<1>1. pc' = next /\ lis' = Spawned(L) /\ UNCHANGED <<conf, client_vk>>
  BY Zenon DEF Spawn
<1>2. lis \in [Listener -> {"off", "spawned", "up", "refused"}]
  BY Zenon DEF StartInv, TypeInv
<1>3. \A l \in Listener : lis'[l] = lis[l] \/ (lis'[l] = "spawned" /\ conf.on[l])
  BY Zenon, <1>1 DEF Spawned
<1>4. lis' \in [Listener -> {"off", "spawned", "up", "refused"}]
  BY Zenon, <1>1, <1>2 DEF Spawned
<1>5. LisInv'
  BY Zenon, <1>1, <1>3 DEF StartInv, LisInv
<1>6. client_vk' \in BOOLEAN /\ (conf.client_auth_enabled => client_vk')
  BY Zenon, <1>1 DEF StartInv, TypeInv, AuthInv
<1>. QED
  BY Zenon, <1>1, <1>4, <1>5, <1>6, RunKeeps DEF Bridge

\* A listener's task binds its address, or does not.
LEMMA BindKeeps ==
  ASSUME StartInv, NEW l \in Listener, Bind(l)
  PROVE  StartInv'
<1>1. lis[l] # "off"
  BY Zenon DEF Bind
<1>2. CASE InUse(l)
  BY Zenon, <1>1, <1>2, BecomesKeeps DEF Bind
<1>3. CASE ~InUse(l)
  <2>1. Becomes(l, "up") \/ Becomes(l, "off")
    BY Zenon, <1>3 DEF Bind
  <2>. QED
    BY Zenon, <1>1, <2>1, BecomesKeeps
<1>. QED
  BY Zenon, <1>2, <1>3

\* Steps of run before the accept loop, and of its end.
LEMMA RunStep == StartInv /\ Run => StartInv'
<1>. SUFFICES ASSUME StartInv, Run PROVE StartInv'
  BY Zenon
<1>0. ASSUME NEW why \in {"exited", "rejected", "killed"}, Exit(why) PROVE StartInv'
  BY Zenon, <1>0, ExitKeeps DEF Ended
<1>1. CASE Boot
  <2>1. CASE Exit("exited")
    BY Zenon, <1>0, <2>1
  <2>2. CASE pc = "boot" /\ pc' = "identity" /\ UNCHANGED <<conf, lis, client_vk>>
    <3>1. pc \notin Up /\ pc \in Bridge /\ pc' \notin Up
      BY Zenon, <2>2 DEF Up, Bridge, Keys
    <3>2. client_vk' \in BOOLEAN
      BY Zenon, <2>2 DEF StartInv, TypeInv
    <3>. QED
      BY Zenon, <2>2, <3>1, <3>2, LisKeeps, RunKeeps
  <2>. QED
    BY Zenon, <1>1, <2>1, <2>2 DEF Boot
<1>2. CASE LoadIdentity
  <2>1. CASE Go("client_vk") /\ pc = "identity"
    BY Zenon, <2>1, GoKeeps DEF Up, Bridge, Keys
  <2>. QED
    BY Zenon, <1>0, <1>2, <2>1 DEF LoadIdentity
<1>3. CASE LoadClientVk
  <2>1. pc = "client_vk" /\ pc \in Bridge /\ pc \notin Up
    BY Zenon, <1>3 DEF LoadClientVk, Bridge, Keys, Up
  <2>2. CASE ~conf.client_auth_enabled
    <3>1. Go("spawn_metrics")
      BY Zenon, <1>3, <2>2 DEF LoadClientVk
    <3>. QED
      BY Zenon, <2>1, <2>2, <3>1, GoKeeps DEF Up
  <2>3. CASE conf.client_auth_enabled
    <3>1. conf.client_vk_path # "none"
      BY Zenon, <2>3 DEF StartInv, AuthInv
    <3>2. CASE Exit("exited")
      BY Zenon, <1>0, <3>2
    <3>3. CASE pc' = "spawn_metrics" /\ client_vk' = TRUE /\ UNCHANGED <<conf, lis>>
      BY Zenon, <2>1, <3>3, LisKeeps, RunKeeps DEF Up
    <3>. QED
      BY Zenon, <1>3, <2>3, <3>1, <3>2, <3>3 DEF LoadClientVk
  <2>. QED
    BY Zenon, <2>2, <2>3
<1>4. CASE SpawnMetricsAndQuic
  BY Zenon, <1>4, SpawnKeeps DEF SpawnMetricsAndQuic, Up, Listener
<1>5. CASE SpawnTls
  <2>1. pc = "spawn_tls" /\ pc \in Up /\ pc \in Bridge
    BY Zenon, <1>5 DEF SpawnTls, Up, Bridge
  <2>2. conf.client_auth_enabled => client_vk
    BY Zenon, <2>1 DEF StartInv, AuthInv
  <2>3. Go("spawn_admin") \/ Spawn({"tls"}, "spawn_admin") \/ Exit("exited")
    BY Zenon, <1>5 DEF SpawnTls
  <2>4. CASE Go("spawn_admin")
    BY Zenon, <2>1, <2>2, <2>4, GoKeeps DEF Up
  <2>5. CASE Spawn({"tls"}, "spawn_admin")
    BY Zenon, <2>1, <2>5, SpawnKeeps DEF Up, Listener
  <2>. QED
    BY Zenon, <1>0, <2>3, <2>4, <2>5
<1>6. CASE SpawnAdmin
  <2>1. conf.on["admin"] => conf.admin_control_plane_vk_path # "none"
    BY Zenon DEF StartInv, LimitInv
  <2>2. Exit("exited") \/ Spawn({"admin"}, "spawn_ws")
    BY Zenon, <1>6, <2>1 DEF SpawnAdmin
  <2>3. CASE Spawn({"admin"}, "spawn_ws")
    BY Zenon, <1>6, <2>3, SpawnKeeps DEF SpawnAdmin, Up, Listener
  <2>. QED
    BY Zenon, <1>0, <2>2, <2>3
<1>7. CASE SpawnWs
  BY Zenon, <1>7, SpawnKeeps DEF SpawnWs, Up, Listener
<1>8. CASE BindServer
  <2>1. pc = "bind" /\ pc \in Up /\ pc \in Bridge
    BY Zenon, <1>8 DEF BindServer, Up, Bridge
  <2>2. CASE Exit("exited")
    BY Zenon, <1>0, <2>2
  <2>3. CASE ~Exit("exited")
    <3>1. PICK st \in {"up", "refused"} :
            /\ lis' = [lis EXCEPT !["server"] = st] /\ UNCHANGED <<conf, client_vk>>
            /\ st = "refused" => InUse("server")
            /\ pc' \in {"refused", "enter"}
      BY Zenon, <1>8, <2>3 DEF BindServer
    <3>2. lis \in [Listener -> {"off", "spawned", "up", "refused"}] /\ conf.on["server"]
      BY Zenon, <2>1 DEF StartInv, TypeInv, OffInv
    <3>3. lis' \in [Listener -> {"off", "spawned", "up", "refused"}]
      BY Zenon, <3>1, <3>2
    <3>4. st = "refused" =>
            \E o \in Tcp \ {"server"} :
              conf.on[o] /\ Overlap(conf.addr["server"], conf.addr[o])
      BY Zenon, <3>1, <3>2 DEF InUse, StartInv, LisInv, Tcp
    <3>5. \A x \in Listener : lis'[x] # "off" => conf.on[x]
      BY Zenon, <3>1, <3>2 DEF StartInv, LisInv
    <3>6. ASSUME NEW x \in Listener, lis'[x] = "refused"
          PROVE  \E o \in Tcp \ {x} : conf.on[o] /\ Overlap(conf.addr[x], conf.addr[o])
      <4>1. CASE x = "server"
        BY Zenon, <3>1, <3>2, <3>4, <3>6, <4>1
      <4>2. CASE x # "server"
        BY Zenon, <3>1, <3>2, <3>6, <4>2 DEF StartInv, LisInv
      <4>. QED
        BY Zenon, <4>1, <4>2
    <3>7. LisInv'
      BY Zenon, <3>1, <3>5, <3>6 DEF LisInv, Up
    <3>8. client_vk' \in BOOLEAN /\ (conf.client_auth_enabled => client_vk')
      BY Zenon, <2>1, <3>1 DEF StartInv, TypeInv, AuthInv
    <3>. QED
      BY Zenon, <2>1, <3>1, <3>3, <3>7, <3>8, RunKeeps DEF Up
  <2>. QED
    BY Zenon, <2>2, <2>3
<1>9. CASE EnterLoop \/ StopAccepting
  <2>1. pc \in Up /\ pc \in Bridge /\ pc' \in Up /\ UNCHANGED <<conf, lis, client_vk>>
    BY Zenon, <1>9 DEF EnterLoop, StopAccepting, Go, Up, Bridge
  <2>2. client_vk' \in BOOLEAN /\ (conf.client_auth_enabled => client_vk')
    BY Zenon, <2>1 DEF StartInv, TypeInv, AuthInv
  <2>. QED
    BY Zenon, <2>1, <2>2, LisKeeps, RunKeeps
<1>10. CASE Drain
  BY Zenon, <1>0, <1>10 DEF Drain
<1>11. CASE LoadClientKeys \/ BindClient \/ SpawnUser \/ RegisterClient
  <2>1. CASE Exit("exited")
    BY Zenon, <1>0, <2>1
  <2>2. CASE ~Exit("exited")
    <3>1. /\ pc \notin Up /\ pc' \in Client \ {"client", "client_keys"}
          /\ UNCHANGED <<conf, lis, client_vk>>
      BY Zenon, <1>11, <2>2 DEF LoadClientKeys, BindClient, SpawnUser, RegisterClient, Go, Up, Client
    <3>2. pc' \notin Up /\ pc' \notin Bridge
      BY Zenon, <3>1 DEF Up, Client, Bridge, Sections, Keys
    <3>3. client_vk' \in BOOLEAN
      BY ZenonT(60), <3>1 DEF StartInv, TypeInv
    <3>. QED
      BY Zenon, <3>1, <3>2, <3>3, LisKeeps, RunKeeps
  <2>. QED
    BY Zenon, <2>1, <2>2
<1>. QED
  BY Zenon, <1>1, <1>2, <1>3, <1>4, <1>5, <1>6, <1>7, <1>8, <1>9, <1>10, <1>11 DEF Run

\* Steps that touch only the signal's state keep the invariant.
LEMMA SignalKeeps == StartInv /\ UNCHANGED <<pc, conf, lis, client_vk>> => StartInv'
<1>. SUFFICES ASSUME StartInv, UNCHANGED <<pc, conf, lis, client_vk>> PROVE StartInv'
  BY Zenon
<1>1. pc' = pc /\ conf' = conf /\ lis' = lis /\ client_vk' = client_vk
  BY Zenon
<1>2. TypeInv'
  BY Zenon, <1>1 DEF StartInv, TypeInv
<1>3. OffInv'
  BY Zenon, <1>1 DEF StartInv, OffInv
<1>4. Distinct(conf')
  BY Zenon, <1>1 DEF StartInv
<1>5. LisInv'
  BY Zenon, <1>1 DEF StartInv, LisInv
<1>6. AuthInv'
  BY <1>1 DEF StartInv, AuthInv
<1>7. LimitInv'
  BY Zenon, <1>1 DEF StartInv, LimitInv
<1>. QED
  BY Zenon, <1>2, <1>3, <1>4, <1>5, <1>6, <1>7 DEF StartInv, Distinct

\* Every step keeps the invariant.
LEMMA StartStep == StartInv /\ [Next]_vars => StartInv'
<1>. SUFFICES ASSUME StartInv, [Next]_vars PROVE StartInv'
  BY Zenon
<1>0. ASSUME NEW why \in {"exited", "rejected", "killed"}, Exit(why) PROVE StartInv'
  BY Zenon, <1>0, ExitKeeps DEF Ended
<1>1. CASE Validate
  BY Zenon, <1>0, <1>1, ServerKeeps, ControlPlaneKeeps, KeyRotationKeeps, TlsKeeps, QuicKeeps,
     AuthKeeps, AdminKeeps, WebsocketKeeps, ClientKeeps DEF Validate, LoadFails
<1>2. CASE Run
  BY Zenon, <1>2, RunStep
<1>3. CASE AcceptUser \/ StopClient
  <2>1. pc = "client_select" /\ (Exit("exited") \/ Go("client_spawn"))
    BY Zenon, <1>3 DEF AcceptUser, StopClient
  <2>2. CASE Go("client_spawn")
    BY Zenon, <2>1, <2>2, GoKeeps DEF Client, Up, Bridge, Sections, Keys
  <2>. QED
    BY Zenon, <1>0, <2>1, <2>2
<1>4. CASE spawn_metrics_server \/ spawn_tls_listener \/ spawn_admin_listener
  BY Zenon, <1>4, BindKeeps, IsListener
     DEF spawn_metrics_server, spawn_tls_listener, spawn_admin_listener
<1>5. CASE spawn_ws_listener
  <2>1. Bind("ws") \/ (lis["ws"] = "spawned" /\ Becomes("ws", "off"))
    BY Zenon, <1>5 DEF spawn_ws_listener
  <2>. QED
    BY Zenon, <2>1, BindKeeps, BecomesKeeps, IsListener
<1>6. CASE spawn_quic_listener
  <2>1. Bind("quic") \/ (lis["quic"] = "spawned" /\ Becomes("quic", "off"))
    BY Zenon, <1>6 DEF spawn_quic_listener, build_endpoint
  <2>. QED
    BY Zenon, <2>1, BindKeeps, BecomesKeeps, IsListener
<1>7. CASE \E l \in Tasks : StopTask(l)
  BY Zenon, <1>7, BecomesKeeps DEF StopTask, Tasks
<1>8. CASE RegisterSignals
  BY Zenon, <1>8, SignalKeeps DEF RegisterSignals
<1>9. CASE Signal
  BY Zenon, <1>0, <1>9, SignalKeeps DEF Signal
<1>10. CASE UNCHANGED vars
  BY Zenon, <1>10, SignalKeeps DEF vars
<1>. QED
  BY Zenon, <1>1, <1>2, <1>3, <1>4, <1>5, <1>6, <1>7, <1>8, <1>9, <1>10 DEF Next

\* StartInv is an invariant of the bridge's and the client's life.
THEOREM StartInvariant == Spec => []StartInv
  BY StartInit, StartStep, PTL DEF Spec

\* No two listeners of a configuration that validate accepts have one address,
\* the main and the metrics listener excepted: whichever binds first, the other
\* is refused only for a wildcard host, or as one of these two.
THEOREM ConflictsAreCaught == Spec => []ConflictsCaught
<1>1. StartInv => ConflictsCaught
  <2>. SUFFICES ASSUME StartInv, NEW l \in Listener, lis[l] = "refused"
                PROVE  \E o \in Tcp \ {l} :
                         /\ Overlap(conf.addr[l], conf.addr[o])
                         /\ conf.addr[l] # conf.addr[o] \/ {l, o} = {"server", "metrics"}
    BY Zenon DEF ConflictsCaught
  <2>1. PICK o \in Tcp \ {l} : conf.on[o] /\ Overlap(conf.addr[l], conf.addr[o])
    BY Zenon DEF StartInv, LisInv
  <2>2. conf.on[l] /\ o \in Listener /\ l # o
    BY Zenon DEF StartInv, LisInv, Tcp
  <2>3. conf.addr[l] # conf.addr[o] \/ {l, o} = {"server", "metrics"}
    BY Zenon, <2>1, <2>2 DEF StartInv, Distinct
  <2>. QED
    BY Zenon, <2>1, <2>3
<1>. QED
  BY <1>1, StartInvariant, PTL

\* A file that asks for client authentication gets it, from validate to the accept
\* loop, whatever else the file says and however its keys load.
THEOREM AuthIsNeverDropped == Spec => []AuthNeverDropped
<1>1. StartInv => AuthNeverDropped
  BY Zenon DEF StartInv, AuthInv, AuthNeverDropped, Up
<1>. QED
  BY <1>1, StartInvariant, PTL

\* The two expects of server::run never panic, and every limit that the other
\* modules assume to be positive is positive in a configuration that is accepted.
THEOREM AssumptionsAlwaysHold == Spec => []AssumptionsHold
<1>1. StartInv => AssumptionsHold
  <2>. SUFFICES ASSUME StartInv PROVE AssumptionsHold
    BY Zenon
  <2>1. pc # "panicked" /\ \A n \in conf.limits : n \in Nat \ {0}
    BY Zenon DEF StartInv, TypeInv, Sections, Keys, Up, Client, Accepted
  <2>. QED
    BY Zenon, <2>1 DEF StartInv, LimitInv, AssumptionsHold
<1>. QED
  BY <1>1, StartInvariant, PTL
=============================================================================
