------------------------------ MODULE HttpEdge ------------------------------
(***************************************************************************)
(* A connection of the TLS listener (server.rs: head reader, routing, with *)
(* http_relay.rs) or a stream of the QUIC listener (quic.rs), relayed to   *)
(* the plain TCP backend.  `kind' is "tls", "quic", or "lib" for           *)
(* HttpRelay::handle, the library's entry that reads the head itself.      *)
(*                                                                         *)
(* A request is a sequence of units: "h" in the head, "e" its end          *)
(* (\r\n\r\n), "b" after it; a unit is known by its index.  tokio::io::copy*)
(* reads into a buffer of its own and writes from it: two steps, so that a *)
(* copy that is dropped may hold units it has read and not written.        *)
(***************************************************************************)
EXTENDS Integers, Sequences

CONSTANTS
  Request,    \* [units, vk (GET /vk/...), bad (httparse refuses it)]
  MaxHead,    \* MAX_HEAD_BYTES, HEAD_BUF_MAX
  Chunk,      \* size of the head reader's chunk and of a copy's buffer
  MaxResp     \* bound: units a backend answers

ASSUME HttpAssumption ==
  /\ MaxHead \in Nat \ {0} /\ Chunk \in Nat \ {0} /\ MaxResp \in Nat
  /\ Request \subseteq [units : Seq({"h", "e", "b"}), vk : BOOLEAN, bad : BOOLEAN]

VARIABLES
  kind, req,
  hpc,       \* "accept", "head", "connect", "preread", "copy", "done"
  sent,      \* units the client has sent
  c_eof,     \* the client has closed its sending side
  rd,        \* units read from the client
  held,      \* indices of the units the copy to the backend has read and not written
  fwd,       \* indices of the units written to the backend
  resp,      \* units the backend has sent
  b_eof,     \* the backend has closed
  got,       \* units read from the backend
  relayed,   \* units written to the client
  up, down,  \* the two copies: "run", "ok", "err"
  answer     \* the bridge's own answer: "none", "vk", "400", "502"

httpVars == <<kind, req, hpc, sent, c_eof, rd, held, fwd, resp, b_eof, got, relayed, up, down, answer>>

client == <<kind, req, sent, c_eof>>
backend == <<resp, b_eof>>
copies == <<held, got, relayed, up, down>>

HttpInit(k) ==
  /\ kind = k /\ req \in Request
  /\ hpc = "accept" /\ sent = 0 /\ c_eof = FALSE /\ rd = 0 /\ held = <<>> /\ fwd = <<>>
  /\ resp = 0 /\ b_eof = FALSE /\ got = 0 /\ relayed = 0
  /\ up = "run" /\ down = "run" /\ answer = "none"

Reply(a) == hpc' = "done" /\ answer' = a /\ UNCHANGED <<client, fwd, backend, copies>>

\* The TLS handshake, or the QUIC stream of a connection; it may fail.
Accepted ==
  /\ hpc = "accept"
  /\ hpc' \in {IF kind = "quic" THEN "connect" ELSE "head", "done"}
  /\ UNCHANGED <<client, rd, fwd, backend, copies, answer>>

\* ---- the head --------------------------------------------------------------

HasEnd(n) == \E i \in 1..n : req.units[i] = "e"

\* extract_vk_token: only a GET /vk/ that parses; anything else is relayed.
extract_vk_token == req.vk /\ ~req.bad

Stay == UNCHANGED <<hpc, client, fwd, backend, copies, answer>>
ToBackend == hpc' = "connect" /\ UNCHANGED <<client, fwd, backend, copies, answer>>

read_http_head_inplace_limit_first(n) ==   \* mutant: the limit is tested first
  IF n >= MaxHead THEN Reply("400")
  ELSE IF ~HasEnd(n) THEN Stay
  ELSE IF extract_vk_token THEN Reply("vk") ELSE ToBackend

\* The head of n units so far, and the routing of its result.
read_http_head_inplace(n) ==
  IF HasEnd(n) THEN IF extract_vk_token THEN Reply("vk") ELSE ToBackend
  ELSE IF n >= MaxHead THEN Reply("400")
  ELSE Stay

\* HttpRelay::handle parses after each chunk: an error may show at once.
handle(n) ==
  \/ req.bad /\ Reply("400")
  \/ ~req.bad /\ HasEnd(n) /\ ToBackend
  \/ ~HasEnd(n) /\ n >= MaxHead /\ Reply("400")
  \/ ~HasEnd(n) /\ n < MaxHead /\ Stay

ReadHead ==
  /\ hpc = "head"
  /\ \E n \in rd + 1 .. sent :
       /\ n - rd <= Chunk /\ rd' = n
       /\ IF kind = "tls" THEN read_http_head_inplace(n) ELSE handle(n)

\* EOF, or a read error, before the head is complete.
HeadEof ==
  /\ hpc = "head" /\ c_eof /\ rd = sent /\ hpc' = "done"
  /\ UNCHANGED <<client, rd, fwd, backend, copies, answer>>

\* ---- handle_with_preread and relay_stream -----------------------------------

Done == hpc' = "done" /\ UNCHANGED <<client, rd, fwd, backend, copies, answer>>

\* A backend that does not answer: 502 over TLS, an error for a QUIC stream.
Connect ==
  /\ hpc = "connect"
  /\ \/ /\ hpc' = IF kind = "quic" THEN "copy" ELSE "preread"
        /\ UNCHANGED <<client, rd, fwd, backend, copies, answer>>
     \/ kind = "quic" /\ Done
     \/ kind # "quic" /\ Reply("502") /\ UNCHANGED rd

Indices(n) == [i \in 1..n |-> i]
HeadLen == CHOOSE n \in 1..rd : req.units[n] = "e"

Preread_head_only ==   \* mutant: what was read after the head is not written
  /\ hpc = "preread" /\ hpc' = "copy" /\ fwd' = Indices(HeadLen)
  /\ UNCHANGED <<client, rd, backend, copies, answer>>

\* Everything read so far goes to the backend first.
Preread ==
  /\ hpc = "preread"
  /\ \/ /\ hpc' = "copy" /\ fwd' = Indices(rd)
        /\ UNCHANGED <<client, rd, backend, copies, answer>>
     \/ b_eof /\ Done

\* tokio::io::copy from the client: it reads, writes what it read, and is over at
\* the end of its input, or with an error once the backend is gone.
CopyUp ==
  /\ hpc = "copy" /\ up = "run"
  /\ \/ /\ rd < sent /\ Len(held) < Chunk /\ rd' = rd + 1
        /\ held' = Append(held, rd') /\ UNCHANGED <<fwd, up>>
     \/ /\ held # <<>> /\ ~b_eof /\ fwd' = Append(fwd, Head(held))
        /\ held' = Tail(held) /\ UNCHANGED <<rd, up>>
     \/ held # <<>> /\ b_eof /\ up' = "err" /\ UNCHANGED <<rd, held, fwd>>
     \/ c_eof /\ rd = sent /\ held = <<>> /\ up' = "ok" /\ UNCHANGED <<rd, held, fwd>>
  /\ UNCHANGED <<client, hpc, backend, got, relayed, down, answer>>

\* tokio::io::copy from the backend; it fails if the client has closed altogether.
CopyDown ==
  /\ hpc = "copy" /\ down = "run"
  /\ \/ got < resp /\ got - relayed < Chunk /\ got' = got + 1 /\ UNCHANGED <<relayed, down>>
     \/ relayed < got /\ relayed' = relayed + 1 /\ UNCHANGED <<got, down>>
     \/ relayed < got /\ c_eof /\ down' = "err" /\ UNCHANGED <<got, relayed>>
     \/ b_eof /\ got = resp /\ relayed = got /\ down' = "ok" /\ UNCHANGED <<got, relayed>>
  /\ UNCHANGED <<client, hpc, rd, held, fwd, backend, up, answer>>

selects == up # "run" \/ down # "run"

joins_first == selects   \* mutant: QUIC races its copies as TLS does

\* try_join!: both copies have ended, or one with an error.
joins == (up = "ok" /\ down = "ok") \/ "err" \in {up, down}

\* The relay is over and drops what it holds; QUIC finishes its send side.
Ends == hpc = "copy" /\ (IF kind = "quic" THEN joins ELSE selects) /\ Done

\* ---- the two ends (not in src/) ----------------------------------------------

ClientSends ==
  /\ hpc # "done" /\ ~c_eof /\ sent < Len(req.units) /\ sent' = sent + 1
  /\ UNCHANGED <<kind, req, c_eof, hpc, rd, fwd, backend, copies, answer>>

ClientCloses ==
  /\ hpc # "done" /\ ~c_eof /\ c_eof' = TRUE
  /\ UNCHANGED <<kind, req, sent, hpc, rd, fwd, backend, copies, answer>>

BackendSends ==
  /\ hpc = "copy" /\ ~b_eof /\ resp < MaxResp /\ resp' = resp + 1
  /\ UNCHANGED <<client, hpc, rd, fwd, b_eof, copies, answer>>

BackendCloses ==
  /\ hpc \in {"preread", "copy"} /\ ~b_eof /\ b_eof' = TRUE
  /\ UNCHANGED <<client, hpc, rd, fwd, resp, copies, answer>>

HttpNext ==
  \/ Accepted \/ ReadHead \/ HeadEof \/ Connect \/ Preread \/ CopyUp \/ CopyDown \/ Ends
  \/ ClientSends \/ ClientCloses \/ BackendSends \/ BackendCloses

\* ---- properties ----------------------------------------------------------------

\* "The backend sees a complete, unmodified HTTP request": what it has received is
\* at every moment a prefix of what the client sent, with the units that were read
\* together with the head in their place, and it receives nothing of a request that
\* the bridge answered itself.
Verbatim == fwd = Indices(Len(fwd)) /\ (answer # "none" => fwd = <<>>)

\* The head reader's limit (server.rs:395): it refuses no head that fits into
\* MaxHead, however the bytes were split into reads, and holds less than MaxHead
\* and one chunk.
HeadLimit ==
  /\ answer = "400" /\ ~req.bad => ~HasEnd(IF Len(req.units) < MaxHead THEN Len(req.units) ELSE MaxHead)
  /\ hpc = "head" => rd < MaxHead

\* A relay that ended without an error dropped nothing of a direction that had
\* ended: QUIC has delivered both, TLS the whole answer of a backend that closed,
\* unless the client closed its sending side first.
NothingDropped ==
  hpc = "done" /\ "err" \notin {up, down} =>
    /\ kind = "quic" /\ down = "ok" => Len(fwd) = sent /\ relayed = resp
    /\ kind = "quic" /\ up = "ok" => relayed = resp /\ b_eof
    /\ kind # "quic" /\ down = "ok" => relayed = resp /\ b_eof
=============================================================================
