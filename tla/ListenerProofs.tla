-------------------------- MODULE ListenerProofs ----------------------------
(***************************************************************************)
(* Proofs about the listeners of the bridge.                               *)
(*                                                                         *)
(* BridgeServer, for every number of connections and addresses, every cap  *)
(* and every timeout: the counters are exact (SlotsExact) and the drain is *)
(* bounded (DrainBounded).                                                 *)
(*                                                                         *)
(* A connection of the edge listeners (Edge), for requests, buffers        *)
(* and limits of any size: what the backend receives of a request, which   *)
(* heads are refused, what a relay drops at its end, and that a WebSocket  *)
(* stream keeps frames whole and bytes in order.                           *)
(***************************************************************************)
EXTENDS BridgeServer, Edge, FiniteSetTheorems, TLAPS

(* What SubSeq and \o return, for the buffers of bytes below.              *)
LEMMA Slice ==
  ASSUME NEW s \in Seq(Nat), NEW a \in 1 .. Len(s) + 1, NEW b \in a - 1 .. Len(s)
  PROVE  /\ SubSeq(s, a, b) \in Seq(Nat) /\ Len(SubSeq(s, a, b)) = b - a + 1
         /\ \A i \in 1 .. b - a + 1 : SubSeq(s, a, b)[i] = s[a + i - 1]
BY SMTT(60)

(* The two halves of a concatenation.                                      *)
LEMMA Joined ==
  ASSUME NEW s \in Seq(Nat), NEW t \in Seq(Nat)
  PROVE  /\ s \o t \in Seq(Nat) /\ Len(s \o t) = Len(s) + Len(t)
         /\ \A i \in 1 .. Len(s) + Len(t) :
              (s \o t)[i] = IF i <= Len(s) THEN s[i] ELSE t[i - Len(s)]
OBVIOUS

-----------------------------------------------------------------------------
(* HTTP.  Types of the relay's variables.                                  *)
HttpType ==
  /\ kind \in {"tls", "lib", "quic", "ws"} /\ req \in Request
  /\ hpc \in {"accept", "head", "connect", "preread", "copy", "done"}
  /\ sent \in Nat /\ rd \in Nat /\ resp \in Nat /\ got \in Nat /\ relayed \in Nat
  /\ c_eof \in BOOLEAN /\ b_eof \in BOOLEAN
  /\ held \in Seq(Nat) /\ fwd \in Seq(Nat)
  /\ up \in {"run", "ok", "err"} /\ down \in {"run", "ok", "err"}
  /\ answer \in {"none", "vk", "400", "502"}

(* Nothing is forwarded before the copies start, and nothing of a request  *)
(* that the bridge answers.                                                *)
HeadInv ==
  /\ rd <= sent /\ sent <= Len(req.units)
  /\ hpc = "accept" \/ (kind = "quic" /\ hpc = "connect") => rd = 0
  /\ kind = "quic" => hpc \notin {"head", "preread"}
  /\ hpc \in {"accept", "head", "connect", "preread"} =>
       fwd = <<>> /\ held = <<>> /\ up = "run" /\ down = "run"
  /\ answer # "none" => hpc = "done" /\ fwd = <<>>
  /\ HeadLimit

(* What the copy to the backend holds follows what it has written, and     *)
(* together they are all that was read; a copy that is over has reached    *)
(* the end of an input that has ended.                                     *)
CopyInv ==
  /\ \A i \in 1 .. Len(fwd) : fwd[i] = i
  /\ hpc = "copy" => /\ Len(fwd) + Len(held) = rd
                     /\ \A j \in 1 .. Len(held) : held[j] = Len(fwd) + j
  /\ up = "ok" => c_eof /\ Len(fwd) = sent
  /\ down = "ok" => b_eof /\ relayed = resp
  /\ hpc = "done" /\ kind = "quic" /\ "err" \notin {up, down} => (up = "ok" <=> down = "ok")

HttpInv == HttpType /\ HeadInv /\ CopyInv

(* The units of a request.                                                 *)
LEMMA RequestTyped ==
  ASSUME HttpType
  PROVE  req.units \in Seq({"h", "e", "b"}) /\ Len(req.units) \in Nat
BY HttpAssumption DEF HttpType

(* A head that is refused for its length has no end within the limit.      *)
LEMMA NoEndWithin ==
  ASSUME HttpType, NEW n \in Nat, n <= Len(req.units), ~HasEnd(n), n >= MaxHead
  PROVE  ~HasEnd(IF Len(req.units) < MaxHead THEN Len(req.units) ELSE MaxHead)
<1>1. Len(req.units) \in Nat /\ MaxHead \in Nat
  BY Zenon, RequestTyped, HttpAssumption
<1>. DEFINE k == IF Len(req.units) < MaxHead THEN Len(req.units) ELSE MaxHead
<1>2. k \in Nat /\ k <= n
  BY <1>1
<1>. HIDE DEF k
<1>3. ~HasEnd(k)
  BY <1>2 DEF HasEnd
<1>. QED
  BY Zenon, <1>3 DEF k

(* The relay answers by itself, for a reason that the limit allows.        *)
LEMMA ReplyStep ==
  ASSUME HttpInv, hpc \in {"head", "connect"}, NEW a \in {"vk", "400", "502"}, Reply(a),
         rd' \in Nat, rd <= rd', rd' <= sent,
         a = "400" /\ ~req.bad =>
           ~HasEnd(IF Len(req.units) < MaxHead THEN Len(req.units) ELSE MaxHead)
  PROVE  HttpInv'
<1>1. HttpType'
  BY DEF HttpInv, HttpType, Reply, client, backend, copies
<1>2. HeadLimit'
  BY Zenon DEF HeadLimit, Reply, client, HasEnd
<1>3. HeadInv'
  BY Zenon, <1>2 DEF HttpInv, HttpType, HeadInv, Reply, client, backend, copies
<1>4. CopyInv'
  BY Zenon DEF HttpInv, HeadInv, CopyInv, Reply, client, backend, copies
<1>. QED
  BY Zenon, <1>1, <1>3, <1>4 DEF HttpInv

(* A step of the head reader.                                              *)
LEMMA ReadHeadStep ==
  ASSUME HttpInv, ReadHead
  PROVE  HttpInv'
<1>1. PICK n \in rd + 1 .. sent :
        /\ n - rd <= Chunk /\ rd' = n
        /\ IF kind = "tls" THEN read_http_head_inplace(n) ELSE handle(n)
  BY Zenon DEF ReadHead
<1>2. /\ hpc = "head" /\ rd \in Nat /\ sent \in Nat /\ sent <= Len(req.units)
      /\ n \in Nat /\ rd <= n /\ n <= sent
  BY <1>1 DEF ReadHead, HttpInv, HttpType, HeadInv
<1>3. n <= Len(req.units)
  BY <1>2, RequestTyped DEF HttpInv
<1>4. CASE Reply("vk")
  BY Zenon, <1>1, <1>2, <1>4, ReplyStep
<1>5. ASSUME Reply("400"), req.bad \/ (~HasEnd(n) /\ n >= MaxHead)
      PROVE  HttpInv'
  BY Zenon, <1>1, <1>2, <1>3, <1>5, ReplyStep, NoEndWithin DEF HttpInv
<1>6. ASSUME UNCHANGED <<client, fwd, backend, copies, answer>>,
             hpc' = "connect" \/ (hpc' = hpc /\ n < MaxHead)
      PROVE  HttpInv'
  <2>1. HttpType'
    BY SMTT(60), <1>1, <1>2, <1>6 DEF HttpInv, HttpType, client, backend, copies
  <2>2. HeadLimit'
    BY Zenon, <1>1, <1>6 DEF HttpInv, HeadInv, HeadLimit, client, HasEnd
  <2>3. HeadInv'
    BY ZenonT(60), <1>1, <1>2, <1>6, <2>2 DEF HttpInv, HttpType, HeadInv, client, backend, copies
  <2>4. CopyInv'
    BY ZenonT(60), <1>2, <1>6 DEF HttpInv, HeadInv, CopyInv, client, backend, copies
  <2>. QED
    BY ZenonT(60), <2>1, <2>3, <2>4 DEF HttpInv
<1>7. n < MaxHead \/ n >= MaxHead
  BY SMTT(60), <1>2, HttpAssumption
<1>8. CASE kind = "tls"
  BY Zenon, <1>1, <1>4, <1>5, <1>6, <1>7, <1>8 DEF read_http_head_inplace, Stay, ToBackend
<1>9. CASE kind # "tls"
  BY Zenon, <1>1, <1>5, <1>6, <1>9 DEF handle, Stay, ToBackend
<1>. QED
  BY Zenon, <1>8, <1>9

(* A step of the copy to the backend.                                      *)
LEMMA CopyUpStep ==
  ASSUME HttpInv, CopyUp
  PROVE  HttpInv'
<1>0. /\ hpc = "copy" /\ up = "run" /\ answer = "none" /\ rd <= sent
      /\ rd \in Nat /\ sent \in Nat /\ held \in Seq(Nat) /\ fwd \in Seq(Nat)
      /\ UNCHANGED <<client, hpc, backend, got, relayed, down, answer>>
  BY Zenon DEF CopyUp, HttpInv, HttpType, HeadInv
<1>1. PICK h \in Nat, k \in Nat : h = Len(held) /\ k = Len(fwd)
  BY <1>0
<1>2. /\ \A i \in 1 .. k : fwd[i] = i
      /\ k + h = rd /\ \A j \in 1 .. h : held[j] = k + j
  BY Zenon, <1>0, <1>1 DEF HttpInv, CopyInv
<1>3. ASSUME rd' \in Nat, rd' <= sent, held' \in Seq(Nat), fwd' \in Seq(Nat),
             up' \in {"run", "ok", "err"},
             \A i \in 1 .. Len(fwd') : fwd'[i] = i,
             Len(fwd') + Len(held') = rd',
             \A j \in 1 .. Len(held') : held'[j] = Len(fwd') + j,
             up' = "ok" => c_eof /\ Len(fwd') = sent
      PROVE  HttpInv'
  <2>1. HttpType'
    BY Zenon, <1>0, <1>3 DEF HttpInv, HttpType, client, backend
  <2>2. HeadLimit'
    BY Zenon, <1>0 DEF HttpInv, HeadInv, HeadLimit, client, HasEnd
  <2>3. HeadInv'
    BY Zenon, <1>0, <1>3, <2>2 DEF HttpInv, HeadInv, client
  <2>4. CopyInv'
    BY ZenonT(60), <1>0, <1>3 DEF HttpInv, CopyInv, client, backend
  <2>. QED
    BY ZenonT(60), <2>1, <2>3, <2>4 DEF HttpInv
<1>4. CASE rd < sent /\ rd' = rd + 1 /\ held' = Append(held, rd') /\ UNCHANGED <<fwd, up>>
  <2>1. /\ held' \in Seq(Nat) /\ Len(held') = h + 1 /\ held'[h + 1] = rd + 1
        /\ \A j \in 1 .. h : held'[j] = held[j]
    BY SMTT(60), <1>0, <1>1, <1>4
  <2>2. \A j \in 1 .. Len(held') : held'[j] = Len(fwd') + j
    <3>0. fwd' = fwd
      BY Zenon, <1>4
    <3>1. Len(held') = h + 1 /\ Len(fwd') = k /\ held'[h + 1] = k + (h + 1)
      BY SMTT(60), <1>1, <1>2, <2>1, <3>0
    <3>2. ASSUME NEW j \in 1 .. (h + 1)
          PROVE  held'[j] = k + j
      BY SMTT(60), <1>2, <2>1, <3>1, <3>2
    <3>. QED
      BY Zenon, <3>1, <3>2
  <2>3. rd' \in Nat /\ rd' <= sent /\ Len(fwd') + Len(held') = rd'
    <3>0. fwd' = fwd /\ rd' = rd + 1 /\ rd < sent
      BY Zenon, <1>4
    <3>. QED
      BY <1>0, <1>1, <1>2, <2>1, <3>0
  <2>4. \A i \in 1 .. Len(fwd') : fwd'[i] = i
    BY Zenon, <1>1, <1>2, <1>4
  <2>. QED
    BY Zenon, <1>0, <1>3, <1>4, <2>1, <2>2, <2>3, <2>4
<1>5. CASE /\ held # <<>> /\ fwd' = Append(fwd, Head(held)) /\ held' = Tail(held)
           /\ UNCHANGED <<rd, up>>
  <2>1. h > 0 /\ Head(held) = held[1] /\ held[1] = k + 1
    BY SMTT(60), <1>0, <1>1, <1>2, <1>5
  <2>2. /\ fwd' \in Seq(Nat) /\ Len(fwd') = k + 1 /\ fwd'[k + 1] = k + 1
        /\ \A i \in 1 .. k : fwd'[i] = fwd[i]
    BY SMTT(60), <1>0, <1>1, <1>5, <2>1
  <2>3. /\ held' \in Seq(Nat) /\ Len(held') = h - 1
        /\ \A j \in 1 .. (h - 1) : held'[j] = held[j + 1]
    BY SMTT(60), <1>0, <1>1, <1>5, <2>1
  <2>4. \A i \in 1 .. Len(fwd') : fwd'[i] = i
    BY SMTT(60), <1>1, <1>2, <2>2
  <2>5. \A j \in 1 .. Len(held') : held'[j] = Len(fwd') + j
    BY <1>1, <1>2, <2>2, <2>3
  <2>6. Len(fwd') + Len(held') = rd' /\ rd' = rd
    BY SMTT(60), <1>1, <1>2, <1>5, <2>2, <2>3
  <2>. QED
    BY ZenonT(60), <1>0, <1>3, <1>5, <2>2, <2>3, <2>4, <2>5, <2>6
<1>6. CASE up' = "err" /\ UNCHANGED <<rd, held, fwd>>
  BY Zenon, <1>0, <1>1, <1>2, <1>3, <1>6
<1>7. CASE c_eof /\ rd = sent /\ held = <<>> /\ up' = "ok" /\ UNCHANGED <<rd, held, fwd>>
  <2>1. h = 0
    BY Zenon, <1>1, <1>7
  <2>. QED
    BY SMTT(60), <1>0, <1>1, <1>2, <1>3, <1>7, <2>1
<1>. QED
  BY ZenonT(60), <1>4, <1>5, <1>6, <1>7 DEF CopyUp

(* A step of the copy to the client.                                       *)
LEMMA CopyDownStep ==
  ASSUME HttpInv, CopyDown
  PROVE  HttpInv'
<1>0. /\ hpc = "copy" /\ down = "run" /\ got \in Nat /\ relayed \in Nat /\ resp \in Nat
      /\ UNCHANGED <<client, hpc, rd, held, fwd, backend, up, answer>>
  BY ZenonT(60) DEF CopyDown, HttpInv, HttpType
<1>1. /\ got' \in Nat /\ relayed' \in Nat /\ down' \in {"run", "ok", "err"}
      /\ down' = "ok" => b_eof /\ relayed' = resp
  BY <1>0 DEF CopyDown
<1>2. HttpType'
  BY ZenonT(60), <1>0, <1>1 DEF HttpInv, HttpType, client, backend
<1>3. HeadInv'
  BY Zenon, <1>0 DEF HttpInv, HeadInv, HeadLimit, client, HasEnd
<1>4. CopyInv'
  BY Zenon, <1>0, <1>1 DEF HttpInv, CopyInv, client, backend
<1>. QED
  BY ZenonT(60), <1>2, <1>3, <1>4 DEF HttpInv

(* The relay is over.                                                      *)
LEMMA DoneStep ==
  ASSUME HttpInv, Done,
         hpc = "copy" /\ kind = "quic" /\ "err" \notin {up, down} => (up = "ok" <=> down = "ok"),
         hpc # "done"
  PROVE  HttpInv'
<1>1. HttpType'
  BY DEF HttpInv, HttpType, Done, client, backend, copies
<1>2. HeadInv'
  BY Zenon DEF HttpInv, HeadInv, HeadLimit, HasEnd, Done, client, backend, copies
<1>3. hpc # "copy" => up = "run" /\ down = "run"
  BY Zenon DEF HttpInv, HttpType, HeadInv
<1>4. CopyInv'
  BY Zenon, <1>3 DEF HttpInv, CopyInv, Done, client, backend, copies
<1>. QED
  BY ZenonT(60), <1>1, <1>2, <1>4 DEF HttpInv

(* Every step of a relay keeps its invariant.                              *)
LEMMA HttpStep ==
  ASSUME HttpInv, HttpNext
  PROVE  HttpInv'
<1>0. HttpType /\ HeadInv /\ CopyInv /\ HeadLimit /\ Len(req.units) \in Nat
  BY ZenonT(60), RequestTyped DEF HttpInv, HeadInv
<1>1. ASSUME UNCHANGED <<kind, req, sent, c_eof, rd, backend, copies, answer, fwd>>,
             hpc \in {"accept", "connect"}, hpc' \in {"head", "connect", "preread"},
             hpc' = "head" => rd = 0,
             kind = "quic" => hpc' = "connect" /\ rd = 0
      PROVE  HttpInv'
  <2>1. HttpType'
    BY SMTT(60), <1>0, <1>1 DEF HttpType, backend, copies
  <2>2. HeadLimit'
    BY SMTT(60), <1>0, <1>1, HttpAssumption DEF HeadLimit, HasEnd
  <2>3. HeadInv'
    BY Zenon, <1>0, <1>1, <2>2 DEF HttpType, HeadInv, backend, copies
  <2>4. CopyInv'
    BY Zenon, <1>0, <1>1 DEF HttpType, HeadInv, CopyInv, backend, copies
  <2>. QED
    BY Zenon, <2>1, <2>3, <2>4 DEF HttpInv
<1>2. CASE Accepted
  <2>1. /\ UNCHANGED <<kind, req, sent, c_eof, rd, backend, copies, answer, fwd>>
        /\ hpc = "accept" /\ rd = 0
        /\ hpc' = "done" \/ hpc' = (IF kind = "quic" THEN "connect" ELSE "head")
    BY Zenon, <1>0, <1>2 DEF Accepted, client, HeadInv
  <2>2. CASE hpc' = "done"
    BY Zenon, <2>1, <2>2, DoneStep, <1>0 DEF Done, client
  <2>3. CASE hpc' = (IF kind = "quic" THEN "connect" ELSE "head")
    BY Zenon, <1>1, <2>1, <2>3
  <2>. QED
    BY Zenon, <2>1, <2>2, <2>3
<1>3. CASE ReadHead
  BY Zenon, <1>3, ReadHeadStep
<1>4. CASE HeadEof
  BY Zenon, <1>4, DoneStep DEF HeadEof, Done
<1>5. CASE Connect
  <2>1. hpc = "connect" /\ rd \in Nat /\ sent \in Nat /\ rd <= sent
    BY Zenon, <1>0, <1>5 DEF Connect, HttpType, HeadInv
  <2>2. CASE kind = "quic" /\ Done
    BY ZenonT(60), <2>1, <2>2, DoneStep
  <2>3. CASE Reply("502") /\ UNCHANGED rd
    BY <2>1, <2>3, ReplyStep
  <2>4. CASE /\ hpc' = (IF kind = "quic" THEN "copy" ELSE "preread")
             /\ UNCHANGED <<client, rd, fwd, backend, copies, answer>>
    <3>1. CASE kind # "quic"
      BY Zenon, <1>1, <2>1, <2>4, <3>1 DEF client
    <3>2. CASE kind = "quic"
      <4>1. rd = 0 /\ fwd = <<>> /\ held = <<>> /\ up = "run" /\ down = "run" /\ hpc' = "copy"
        BY Zenon, <1>0, <2>1, <2>4, <3>2 DEF HeadInv
      <4>2. HttpType'
        BY Zenon, <1>0, <2>4, <4>1 DEF HttpType, client, backend, copies
      <4>3. HeadInv'
        BY ZenonT(60), <1>0, <2>1, <2>4, <4>1 DEF HeadInv, HeadLimit, HasEnd, client, backend, copies
      <4>4. CopyInv'
        BY <1>0, <2>4, <4>1 DEF CopyInv, client, backend, copies
      <4>. QED
        BY Zenon, <4>2, <4>3, <4>4 DEF HttpInv
    <3>. QED
      BY Zenon, <3>1, <3>2
  <2>. QED
    BY Zenon, <1>5, <2>2, <2>3, <2>4 DEF Connect
<1>6. CASE Preread
  <2>1. /\ hpc = "preread" /\ rd \in Nat /\ held = <<>> /\ up = "run" /\ down = "run"
        /\ kind # "quic" /\ answer = "none"
    BY Zenon, <1>0, <1>6 DEF Preread, HttpType, HeadInv
  <2>2. CASE Done
    BY Zenon, <2>1, <2>2, DoneStep
  <2>3. CASE hpc' = "copy" /\ fwd' = Indices(rd) /\ UNCHANGED <<client, rd, backend, copies, answer>>
    <3>1. fwd' \in Seq(Nat) /\ Len(fwd') = rd /\ \A i \in 1 .. rd : fwd'[i] = i
      BY SMTT(60), <2>1, <2>3 DEF Indices
    <3>2. HttpType'
      BY SMTT(60), <1>0, <2>3, <3>1 DEF HttpType, client, backend, copies
    <3>3. HeadInv'
      BY ZenonT(60), <1>0, <2>1, <2>3 DEF HeadInv, HeadLimit, HasEnd, client, backend, copies
    <3>4. CopyInv'
      BY SMTT(60), <1>0, <2>1, <2>3, <3>1 DEF CopyInv, client, backend, copies
    <3>. QED
      BY Zenon, <3>2, <3>3, <3>4 DEF HttpInv
  <2>. QED
    BY Zenon, <1>6, <2>2, <2>3 DEF Preread
<1>7. CASE CopyUp
  BY Zenon, <1>7, CopyUpStep
<1>8. CASE CopyDown
  BY Zenon, <1>8, CopyDownStep
<1>9. CASE Ends
  <2>1. kind = "quic" /\ "err" \notin {up, down} => up = "ok" /\ down = "ok"
    BY ZenonT(60), <1>9 DEF Ends, joins
  <2>. QED
    BY Zenon, <1>9, <2>1, DoneStep DEF Ends
<1>10. CASE ClientSends
  <2>1. sent' \in Nat /\ sent <= sent' /\ sent' <= Len(req.units) /\ rd <= sent'
    BY SMTT(60), <1>0, <1>10 DEF ClientSends, HttpType, HeadInv
  <2>2. HttpType'
    BY SMTT(60), <1>0, <1>10, <2>1 DEF ClientSends, HttpType, backend, copies
  <2>3. HeadInv'
    BY Zenon, <1>0, <1>10, <2>1 DEF ClientSends, HeadInv, HeadLimit, HasEnd, backend, copies
  <2>4. CopyInv'
    BY ZenonT(60), <1>0, <1>10 DEF ClientSends, CopyInv, HttpType, backend, copies
  <2>. QED
    BY Zenon, <2>2, <2>3, <2>4 DEF HttpInv
<1>11. CASE ClientCloses
  <2>2. HttpType'
    BY <1>0, <1>11 DEF ClientCloses, HttpType, backend, copies
  <2>3. HeadInv'
    BY Zenon, <1>0, <1>11 DEF ClientCloses, HeadInv, HeadLimit, HasEnd, backend, copies
  <2>4. CopyInv'
    BY ZenonT(60), <1>0, <1>11 DEF ClientCloses, CopyInv, HttpType, backend, copies
  <2>. QED
    BY Zenon, <2>2, <2>3, <2>4 DEF HttpInv
<1>12. CASE BackendSends
  <2>2. HttpType'
    BY <1>0, <1>12 DEF BackendSends, HttpType, client, copies
  <2>3. HeadInv'
    BY Zenon, <1>0, <1>12 DEF BackendSends, HeadInv, HeadLimit, HasEnd, client, copies
  <2>4. CopyInv'
    BY Zenon, <1>0, <1>12 DEF BackendSends, CopyInv, HttpType, client, copies
  <2>. QED
    BY Zenon, <2>2, <2>3, <2>4 DEF HttpInv
<1>13. CASE BackendCloses
  <2>2. HttpType'
    BY <1>0, <1>13 DEF BackendCloses, HttpType, client, copies
  <2>3. HeadInv'
    BY Zenon, <1>0, <1>13 DEF BackendCloses, HeadInv, HeadLimit, HasEnd, client, copies
  <2>4. CopyInv'
    BY Zenon, <1>0, <1>13 DEF BackendCloses, CopyInv, HttpType, client, copies
  <2>. QED
    BY Zenon, <2>2, <2>3, <2>4 DEF HttpInv
<1>. QED
  BY Zenon, <1>2, <1>3, <1>4, <1>5, <1>6, <1>7, <1>8, <1>9, <1>10, <1>11, <1>12, <1>13 DEF HttpNext

(* The relay's invariant holds in every reachable state.                   *)
THEOREM HttpInvariant == EdgeSpec => []HttpInv
<1>1. EdgeInit => HttpInv
  <2>. SUFFICES ASSUME EdgeInit PROVE HttpInv
    BY Zenon
  <2>1. PICK k \in {"tls", "lib", "quic", "ws"} : HttpInit(k)
    BY Zenon DEF EdgeInit
  <2>a. held \in Seq(Nat) /\ fwd \in Seq(Nat)
    BY <2>1 DEF HttpInit
  <2>2. HttpType
    BY ZenonT(60), <2>1, <2>a DEF HttpInit, HttpType
  <2>3. HeadInv
    BY SMTT(60), <2>1, <2>2, RequestTyped DEF HttpInit, HeadInv, HeadLimit
  <2>4. CopyInv
    BY <2>1 DEF HttpInit, CopyInv
  <2>. QED
    BY Zenon, <2>2, <2>3, <2>4 DEF HttpInv
<1>2. HttpInv /\ [EdgeNext]_edgeVars => HttpInv'
  <2>1. HttpInv /\ UNCHANGED httpVars => HttpInv'
    BY DEF HttpInv, HttpType, HeadInv, CopyInv, HeadLimit, HasEnd, httpVars
  <2>. QED
    BY ZenonT(60), <2>1, HttpStep DEF EdgeNext, edgeVars
<1>. QED
  BY <1>1, <1>2, PTL DEF EdgeSpec

(* The backend receives a prefix of what the client sent, whatever was     *)
(* read together with the head, and nothing of a request the bridge        *)
(* answered itself.                                                        *)
THEOREM VerbatimHolds == EdgeSpec => []Verbatim
<1>1. HttpInv => Verbatim
  <2>. SUFFICES ASSUME HttpInv PROVE Verbatim
    BY Zenon
  <2>1. fwd \in Seq(Nat) /\ \A i \in 1 .. Len(fwd) : fwd[i] = i
    BY Zenon DEF HttpInv, HttpType, CopyInv
  <2>2. fwd = Indices(Len(fwd))
    BY SMTT(60), <2>1 DEF Indices
  <2>. QED
    BY Zenon, <2>2 DEF HttpInv, HeadInv, Verbatim
<1>. QED
  BY <1>1, HttpInvariant, PTL

(* The head reader refuses no head that fits into its limit, however its   *)
(* bytes were split into reads, and holds less than the limit.             *)
THEOREM HeadLimitHolds == EdgeSpec => []HeadLimit
<1>1. HttpInv => HeadLimit
  BY Zenon DEF HttpInv, HeadInv
<1>. QED
  BY <1>1, HttpInvariant, PTL

(* A relay that ended without an error dropped nothing of a direction that *)
(* had ended.                                                              *)
THEOREM NothingDroppedHolds == EdgeSpec => []NothingDropped
<1>1. HttpInv => NothingDropped
  BY Zenon DEF HttpInv, CopyInv, NothingDropped
<1>. QED
  BY <1>1, HttpInvariant, PTL


-----------------------------------------------------------------------------
(* WebSocket.  A part of a frame, a message, and the whole of frame f.     *)
Unit == Nat \X Nat
Message == [t : {"data", "ping", "close"}, after : Nat, n : 0 .. 2]
Whole(f) == [p \in 1 .. Parts |-> <<f, p>>]

WsType ==
  /\ frame \in Nat /\ part_no \in 0 .. Parts
  /\ write_buf \in Seq(Unit) /\ sink \in Seq(Seq(Unit)) /\ received \in Seq(Seq(Unit))
  /\ inbox \in Seq(Message) /\ asked \in Nat
  /\ read_buf \in Seq(Nat) /\ taken \in Seq(Nat)

(* Where a frame is on its way to the browser.  While it is gathered the   *)
(* sink holds only pongs (empty messages)...                               *)
Gathered ==
  /\ Len(write_buf) = part_no /\ \A p \in 1 .. part_no : write_buf[p] = <<frame, p>>
  /\ \A i \in 1 .. Len(sink) : sink[i] = <<>>
  /\ Len(received) = frame - 1

(* ... then it is the last message of the sink...                          *)
Sunk ==
  /\ part_no = Parts /\ write_buf = <<>> /\ Len(received) = frame - 1
  /\ Len(sink) > 0 /\ sink[Len(sink)] = Whole(frame)
  /\ \A i \in 1 .. (Len(sink) - 1) : sink[i] = <<>>

(* ... and then it has been transmitted, with the sink empty.              *)
Sent ==
  part_no = Parts /\ write_buf = <<>> /\ Len(received) = frame /\ sink = <<>>

WriteInv == FramePerMessage /\ (Gathered \/ Sunk \/ Sent)

(* What was read are the first units, and what is buffered goes on.        *)
ReadInv ==
  /\ \A i \in 1 .. Len(taken) : taken[i] = i
  /\ \A i \in 1 .. Len(read_buf) : read_buf[i] = Len(taken) + i
  /\ \A k \in 1 .. Len(inbox) : inbox[k].after = EndOf(k - 1)
  /\ EndOf(Len(inbox)) = asked

WsInv == WsType /\ WriteInv /\ ReadInv

(* A whole frame is a sequence of units and not empty.                     *)
LEMMA WholeFrame ==
  ASSUME NEW f \in Nat
  PROVE  /\ Whole(f) \in Seq(Unit) /\ Len(Whole(f)) = Parts /\ Whole(f) # <<>>
         /\ \A p \in 1 .. Parts : Whole(f)[p] = <<f, p>>
<1>1. Parts \in Nat /\ Parts > 0
  BY WsAssumption
<1>2. \A p \in 1 .. Parts : <<f, p>> \in Unit
  BY <1>1 DEF Unit
<1>3. Whole(f) \in Seq(Unit) /\ Len(Whole(f)) = Parts
  BY <1>1, <1>2 DEF Whole
<1>4. \A p \in 1 .. Parts : Whole(f)[p] = <<f, p>>
  BY Zenon DEF Whole
<1>. QED
  BY SMTT(60), <1>1, <1>3, <1>4

(* A write adds the next part to the frame being gathered.                 *)
LEMMA PollWriteStep ==
  ASSUME WsType, WriteInv, poll_write
  PROVE  WsType' /\ WriteInv'
<1>0. /\ frame \in Nat /\ part_no \in Nat /\ part_no < Parts /\ Parts \in Nat
      /\ write_buf \in Seq(Unit)
      /\ part_no' = part_no + 1 /\ write_buf' = Append(write_buf, <<frame, part_no + 1>>)
      /\ frame' = frame /\ sink' = sink /\ received' = received /\ UNCHANGED reading
  BY SMTT(60), WsAssumption DEF poll_write, WsType
<1>1. Gathered
  BY <1>0 DEF WriteInv, Sunk, Sent
<1>2. <<frame, part_no + 1>> \in Unit
  BY SMTT(60), <1>0 DEF Unit
<1>3. /\ write_buf' \in Seq(Unit) /\ Len(write_buf') = part_no + 1
      /\ \A p \in 1 .. part_no : write_buf'[p] = write_buf[p]
      /\ write_buf'[part_no + 1] = <<frame, part_no + 1>>
  BY SMTT(60), <1>0, <1>1, <1>2 DEF Gathered
<1>4. WsType'
  BY SMTT(60), <1>0, <1>3 DEF WsType, reading
<1>5. \A p \in 1 .. part_no' : write_buf'[p] = <<frame', p>>
  BY SMTT(60), <1>0, <1>1, <1>3 DEF Gathered
<1>6. Gathered'
  BY Zenon, <1>0, <1>1, <1>3, <1>5 DEF Gathered
<1>7. FramePerMessage'
  BY Zenon, <1>0 DEF WriteInv, FramePerMessage
<1>. QED
  BY ZenonT(60), <1>4, <1>6, <1>7 DEF WriteInv

(* A flush, polled once more, sends the frame or finds it sent.            *)
LEMMA PollFlushStep ==
  ASSUME WsType, WriteInv, poll_flush
  PROVE  WsType' /\ WriteInv'
<1>0. /\ frame \in Nat /\ part_no = Parts /\ Parts \in Nat /\ Parts > 0
      /\ write_buf \in Seq(Unit) /\ sink \in Seq(Seq(Unit))
      /\ received' = received /\ UNCHANGED reading
  BY WsAssumption DEF poll_flush, WsType
<1>f. FramePerMessage'
  BY Zenon, <1>0 DEF WriteInv, FramePerMessage
<1>1. CASE /\ write_buf # <<>> /\ sink' = Append(sink, write_buf) /\ write_buf' = <<>>
           /\ UNCHANGED <<frame, part_no>>
  <2>1. Gathered
    BY Zenon, <1>1 DEF WriteInv, Sunk, Sent
  <2>2. write_buf = Whole(frame)
    <3>1. Len(write_buf) = Parts /\ \A p \in 1 .. Parts : write_buf[p] = <<frame, p>>
      BY ZenonT(60), <1>0, <2>1 DEF Gathered
    <3>2. write_buf = [p \in 1 .. Parts |-> write_buf[p]]
      BY SMTT(60), <1>0, <3>1
    <3>. QED
      BY ZenonT(60), <3>1, <3>2 DEF Whole
  <2>3. PICK n \in Nat : n = Len(sink)
    BY SMTT(60), <1>0
  <2>4. /\ sink' \in Seq(Seq(Unit)) /\ Len(sink') = n + 1 /\ sink'[n + 1] = write_buf
        /\ \A i \in 1 .. n : sink'[i] = sink[i]
    BY SMTT(60), <1>0, <1>1, <2>3
  <2>5. Sunk'
    <3>1. frame' = frame /\ part_no' = Parts
      BY Zenon, <1>0, <1>1
    <3>2. Len(sink') > 0 /\ sink'[Len(sink')] = Whole(frame')
      <4>1. n + 1 > 0
        BY <2>3
      <4>2. sink'[n + 1] = Whole(frame')
        BY ZenonT(60), <2>2, <2>4, <3>1
      <4>. QED
        BY Zenon, <2>4, <4>1, <4>2
    <3>3. \A i \in 1 .. (Len(sink') - 1) : sink'[i] = <<>>
      <4>1. (n + 1) - 1 = n
        BY <2>3
      <4>. QED
        BY Zenon, <2>1, <2>3, <2>4, <4>1 DEF Gathered
    <3>4. Len(received') = frame' - 1
      BY ZenonT(60), <1>0, <2>1, <3>1 DEF Gathered
    <3>. QED
      BY ZenonT(60), <1>1, <3>1, <3>2, <3>3, <3>4 DEF Sunk
  <2>6. write_buf' \in Seq(Unit)
    BY <1>1
  <2>7. WsType'
    BY Zenon, <1>0, <1>1, <2>4, <2>6 DEF WsType, reading
  <2>. QED
    BY ZenonT(60), <1>f, <2>5, <2>7 DEF WriteInv
<1>2. CASE write_buf = <<>> /\ sink = <<>> /\ flushed
  <2>1. Sent
    <3>1. ~Gathered
      BY SMTT(60), <1>0, <1>2 DEF Gathered
    <3>2. ~Sunk
      BY <1>2 DEF Sunk
    <3>. QED
      BY ZenonT(60), <3>1, <3>2 DEF WriteInv
  <2>2. /\ frame' = frame + 1 /\ part_no' = 0 /\ write_buf' = write_buf /\ sink' = sink
    BY Zenon, <1>2 DEF flushed
  <2>3. Gathered'
    BY SMTT(60), <1>0, <1>2, <2>1, <2>2 DEF Gathered, Sent
  <2>4. WsType'
    BY SMTT(60), <1>0, <2>2 DEF WsType, reading
  <2>. QED
    BY Zenon, <1>f, <2>3, <2>4 DEF WriteInv
<1>. QED
  BY ZenonT(60), <1>1, <1>2 DEF poll_flush

(* A message of the sink reaches the browser, or is a pong.                *)
LEMMA TransmitStep ==
  ASSUME WsType, WriteInv, Transmit
  PROVE  WsType' /\ WriteInv'
<1>0. /\ frame \in Nat /\ sink \in Seq(Seq(Unit)) /\ received \in Seq(Seq(Unit))
      /\ sink # <<>> /\ sink' = Tail(sink)
      /\ received' = (IF Head(sink) = <<>> THEN received ELSE Append(received, Head(sink)))
      /\ frame' = frame /\ part_no' = part_no /\ write_buf' = write_buf /\ UNCHANGED reading
  BY Zenon DEF Transmit, WsType
<1>1. PICK n \in Nat : n = Len(sink) /\ n > 0
  BY <1>0
<1>2. /\ Head(sink) = sink[1] /\ sink[1] \in Seq(Unit)
      /\ sink' \in Seq(Seq(Unit)) /\ Len(sink') = n - 1
      /\ \A i \in 1 .. (n - 1) : sink'[i] = sink[i + 1]
  BY SMTT(60), <1>0, <1>1
<1>3. received' \in Seq(Seq(Unit))
  BY <1>0, <1>2
<1>4. WsType'
  BY Zenon, <1>0, <1>2, <1>3 DEF WsType, reading
<1>5. CASE sink[1] = <<>>
  <2>1. received' = received
    BY ZenonT(60), <1>0, <1>2, <1>5
  <2>2. Gathered => Gathered'
    BY SMTT(60), <1>0, <1>1, <1>2, <2>1 DEF Gathered
  <2>3. ASSUME Sunk
        PROVE  Sunk'
    <3>0. /\ sink[n] = Whole(frame) /\ Whole(frame) # <<>>
          /\ \A i \in 1 .. (n - 1) : sink[i] = <<>>
      BY Zenon, <1>0, <1>1, <2>3, WholeFrame DEF Sunk
    <3>1. n > 1
      <4>1. n # 1
        BY Zenon, <1>5, <3>0
      <4>. QED
        BY <1>1, <4>1
    <3>2. sink'[n - 1] = Whole(frame) /\ \A i \in 1 .. (n - 2) : sink'[i] = <<>>
      <4>1. /\ n - 1 \in 1 .. (n - 1) /\ (n - 1) + 1 = n
            /\ \A i \in 1 .. (n - 2) : i \in 1 .. (n - 1) /\ i + 1 \in 1 .. (n - 1)
        BY <1>1, <3>1
      <4>2. sink'[n - 1] = sink[(n - 1) + 1]
        BY Zenon, <1>2, <4>1
      <4>3. \A i \in 1 .. (n - 2) : sink'[i] = <<>>
        BY Zenon, <1>2, <3>0, <4>1
      <4>. QED
        BY ZenonT(60), <3>0, <4>1, <4>2, <4>3
    <3>. QED
      BY SMTT(60), <1>0, <1>1, <1>2, <2>1, <2>3, <3>1, <3>2 DEF Sunk, Whole
  <2>4. ~Sent
    BY Zenon, <1>0 DEF Sent
  <2>. QED
    BY Zenon, <1>4, <2>1, <2>2, <2>3, <2>4 DEF WriteInv, FramePerMessage
<1>6. CASE sink[1] # <<>>
  <2>1. Sunk /\ n = 1
    <3>1. ~Gathered
      BY <1>1, <1>6 DEF Gathered
    <3>2. ~Sent
      BY Zenon, <1>0 DEF Sent
    <3>3. Sunk
      BY Zenon, <3>1, <3>2 DEF WriteInv
    <3>. QED
      BY SMTT(60), <1>1, <1>6, <3>3 DEF Sunk
  <2>2. received' = Append(received, Whole(frame))
    BY Zenon, <1>0, <1>1, <1>2, <1>6, <2>1 DEF Sunk
  <2>3. Len(received) = frame - 1 /\ part_no = Parts /\ write_buf = <<>>
    BY Zenon, <2>1 DEF Sunk
  <2>. DEFINE w == Whole(frame)
  <2>4. w \in Seq(Unit) /\ received' = Append(received, w)
    BY ZenonT(60), <1>0, <2>2, WholeFrame
  <2>. HIDE DEF w
  <2>5. /\ Len(received') = frame /\ received'[frame] = w
        /\ \A i \in 1 .. (frame - 1) : received'[i] = received[i]
    BY <1>0, <2>3, <2>4
  <2>6. FramePerMessage'
    <3>1. ASSUME NEW i \in 1 .. frame
          PROVE  received'[i] = Whole(i)
      <4>1. CASE i = frame
        BY Zenon, <2>5, <4>1 DEF w
      <4>2. CASE i # frame
        BY SMTT(60), <1>0, <2>3, <2>5, <3>1, <4>2 DEF WriteInv, FramePerMessage, Whole
      <4>. QED
        BY Zenon, <4>1, <4>2
    <3>. QED
      BY Zenon, <2>5, <3>1 DEF FramePerMessage, Whole
  <2>7. sink' = <<>>
    BY <1>2, <2>1
  <2>8. Sent'
    BY Zenon, <1>0, <2>3, <2>5, <2>7 DEF Sent
  <2>. QED
    BY ZenonT(60), <1>4, <2>6, <2>8 DEF WriteInv
<1>. QED
  BY Zenon, <1>5, <1>6


(* Steps of the read side leave whatever is being written alone: they run  *)
(* between two frames, and add nothing to the sink but pongs.              *)
LEMMA ReadKeepsWrites ==
  ASSUME WsType, WriteInv, UNCHANGED <<frame, part_no, write_buf, received>>,
         sink' = sink \/ (part_no = 0 /\ sink' = Append(sink, <<>>))
  PROVE  WriteInv' /\ sink' \in Seq(Seq(Unit))
<1>0. sink \in Seq(Seq(Unit)) /\ Parts > 0
  BY WsAssumption DEF WsType
<1>1. CASE sink' = sink
  BY Zenon, <1>0, <1>1 DEF WriteInv, FramePerMessage, Gathered, Sunk, Sent, Whole
<1>2. CASE part_no = 0 /\ sink' = Append(sink, <<>>)
  <2>. DEFINE e == <<>>
  <2>1. e \in Seq(Unit) /\ sink' = Append(sink, e)
    BY <1>2
  <2>. HIDE DEF e
  <2>2. PICK n \in Nat : n = Len(sink)
    BY <1>0
  <2>3. /\ sink' \in Seq(Seq(Unit)) /\ Len(sink') = n + 1 /\ sink'[n + 1] = e
        /\ \A i \in 1 .. n : sink'[i] = sink[i]
    BY SMTT(60), <1>0, <2>1, <2>2
  <2>4. Gathered
    BY <1>0, <1>2 DEF WriteInv, Sunk, Sent
  <2>5. \A i \in 1 .. Len(sink') : sink'[i] = e
    <3>1. \A i \in 1 .. n : sink[i] = e
      BY Zenon, <2>2, <2>4 DEF Gathered, e
    <3>2. ASSUME NEW i \in 1 .. (n + 1)
          PROVE  sink'[i] = e
      BY SMTT(60), <2>3, <3>1, <3>2
    <3>. QED
      BY Zenon, <2>3, <3>2
  <2>6. Gathered'
    BY Zenon, <2>4, <2>5 DEF Gathered, e
  <2>. QED
    BY Zenon, <2>3, <2>6 DEF WriteInv, FramePerMessage
<1>. QED
  BY Zenon, <1>1, <1>2

(* The browser's next message continues the ones before it.                *)
LEMMA BrowserSendsStep ==
  ASSUME WsType, ReadInv, BrowserSends
  PROVE  WsType' /\ ReadInv'
<1>1. PICK t \in {"data", "ping", "close"}, n \in 0 .. 2 :
        /\ inbox' = Append(inbox, [t |-> t, after |-> asked, n |-> n])
        /\ asked' = asked + n
  BY Zenon DEF BrowserSends
<1>. DEFINE m == [t |-> t, after |-> asked, n |-> n]
<1>2. m \in Message /\ m.after = asked /\ m.n = n /\ asked \in Nat
  BY Zenon DEF Message, WsType
<1>3. inbox' = Append(inbox, m)
  BY Zenon, <1>1
<1>. HIDE DEF m
<1>4. /\ inbox \in Seq(Message) /\ UNCHANGED <<writing, read_buf, taken>>
  BY Zenon DEF BrowserSends, WsType
<1>5. PICK l \in Nat : l = Len(inbox)
  BY <1>4
<1>6. /\ inbox' \in Seq(Message) /\ Len(inbox') = l + 1 /\ inbox'[l + 1] = m
      /\ \A k \in 1 .. l : inbox'[k] = inbox[k]
  BY SMTT(60), <1>2, <1>3, <1>4, <1>5
<1>7. WsType'
  BY <1>1, <1>2, <1>4, <1>6 DEF WsType, writing
<1>8. \A k \in 0 .. l : EndOf(k)' = EndOf(k)
  <2>1. ASSUME NEW k \in 0 .. l
        PROVE  EndOf(k)' = EndOf(k)
    <3>1. CASE k = 0
      BY ZenonT(60), <1>4, <3>1 DEF EndOf
    <3>2. CASE k # 0
      BY <1>6, <3>2 DEF EndOf
    <3>. QED
      BY Zenon, <3>1, <3>2
  <2>. QED
    BY Zenon, <2>1
<1>9. \A k \in 1 .. Len(inbox') : inbox'[k].after = EndOf(k - 1)'
  <2>1. ASSUME NEW k \in 1 .. (l + 1)
        PROVE  inbox'[k].after = EndOf(k - 1)'
    <3>1. EndOf(k - 1)' = EndOf(k - 1)
      BY <1>8
    <3>2. CASE k = l + 1
      <4>1. k - 1 = l
        BY SMTT(60), <3>2
      <4>. QED
        BY ZenonT(60), <1>2, <1>5, <1>6, <3>1, <3>2, <4>1 DEF ReadInv
    <3>3. CASE k # l + 1
      BY SMTT(60), <1>5, <1>6, <3>1, <3>3 DEF ReadInv
    <3>. QED
      BY Zenon, <3>2, <3>3
  <2>. QED
    BY Zenon, <1>6, <2>1
<1>10. EndOf(Len(inbox))' = asked'
  <2>1. l + 1 # 0
    BY <1>5
  <2>. QED
    BY Zenon, <1>1, <1>2, <1>6, <2>1 DEF EndOf
<1>11. ReadInv'
  BY Zenon, <1>4, <1>9, <1>10 DEF ReadInv
<1>. QED
  BY Zenon, <1>7, <1>11

(* Part of what is buffered is handed out.                                 *)
LEMMA ReadBufferedStep ==
  ASSUME WsType, ReadInv, poll_read_buffered
  PROVE  WsType' /\ ReadInv'
<1>0. /\ taken \in Seq(Nat) /\ read_buf \in Seq(Nat) /\ read_buf # <<>>
      /\ UNCHANGED <<writing, inbox, asked>>
  BY Zenon DEF poll_read_buffered, WsType
<1>1. PICK b \in Nat, k \in Nat : b = Len(read_buf) /\ k = Len(taken) /\ b > 0
  BY <1>0
<1>2. PICK n \in 1 .. b :
        taken' = taken \o SubSeq(read_buf, 1, n) /\ read_buf' = rest(read_buf, n)
  <2>1. PICK room \in 1 .. 2 :
          LET n == IF Len(read_buf) < room THEN Len(read_buf) ELSE room
          IN  taken' = taken \o SubSeq(read_buf, 1, n) /\ read_buf' = rest(read_buf, n)
    BY Zenon DEF poll_read_buffered
  <2>. DEFINE n == IF Len(read_buf) < room THEN Len(read_buf) ELSE room
  <2>2. n \in 1 .. b
    BY <1>1
  <2>. QED
    BY Zenon, <2>1, <2>2
<1>3. /\ SubSeq(read_buf, 1, n) \in Seq(Nat) /\ Len(SubSeq(read_buf, 1, n)) = n
      /\ \A i \in 1 .. n : SubSeq(read_buf, 1, n)[i] = read_buf[i]
  BY SMTT(60), <1>0, <1>1
<1>4. /\ read_buf' \in Seq(Nat) /\ Len(read_buf') = b - n
      /\ \A i \in 1 .. (b - n) : read_buf'[i] = read_buf[n + i]
  <2>1. n \in Nat
    BY <1>1
  <2>2. read_buf' = SubSeq(read_buf, n + 1, b)
    BY Zenon, <1>1, <1>2 DEF rest
  <2>3. /\ read_buf' \in Seq(Nat)
        /\ Len(read_buf') = (IF n + 1 <= b THEN b - (n + 1) + 1 ELSE 0)
        /\ \A i \in 1 .. (b - (n + 1) + 1) : read_buf'[i] = read_buf[(n + 1) + i - 1]
    BY SMTT(60), <1>0, <1>1, <2>1, <2>2, Slice
  <2>4. \A i \in 1 .. (b - n) : i \in 1 .. (b - (n + 1) + 1) /\ (n + 1) + i - 1 = n + i
    BY <1>1, <2>1
  <2>. QED
    BY SMTT(60), <1>1, <2>1, <2>3, <2>4
<1>. DEFINE s == SubSeq(read_buf, 1, n)
<1>. HIDE DEF s
<1>5. s \in Seq(Nat) /\ Len(s) = n /\ (\A i \in 1 .. n : s[i] = read_buf[i]) /\ taken' = taken \o s
  BY Zenon, <1>2, <1>3 DEF s
<1>6. /\ taken' \in Seq(Nat) /\ Len(taken') = k + n
      /\ \A i \in 1 .. k : taken'[i] = taken[i]
      /\ \A i \in (k + 1) .. (k + n) : taken'[i] = s[i - k]
  <2>1. /\ taken' \in Seq(Nat) /\ Len(taken') = Len(taken) + Len(s)
        /\ \A i \in 1 .. (Len(taken) + Len(s)) :
             taken'[i] = IF i <= Len(taken) THEN taken[i] ELSE s[i - Len(taken)]
    BY Zenon, <1>0, <1>5, Joined
  <2>. QED
    BY SMTT(60), <1>1, <1>5, <2>1
<1>7. /\ \A i \in 1 .. k : taken[i] = i
      /\ \A i \in 1 .. b : read_buf[i] = k + i
  BY Zenon, <1>1 DEF ReadInv
<1>8. \A i \in 1 .. Len(taken') : taken'[i] = i
  <2>1. ASSUME NEW i \in 1 .. (k + n)
        PROVE  taken'[i] = i
    <3>1. CASE i <= k
      BY <1>1, <1>6, <1>7, <3>1
    <3>2. CASE i > k
      <4>1. i \in (k + 1) .. (k + n) /\ i - k \in 1 .. n /\ i - k \in 1 .. b /\ k + (i - k) = i
        BY <1>1, <3>2
      <4>. QED
        BY Zenon, <1>5, <1>6, <1>7, <4>1
    <3>. QED
      BY SMTT(60), <1>1, <3>1, <3>2
  <2>. QED
    BY Zenon, <1>6, <2>1
<1>9. \A i \in 1 .. Len(read_buf') : read_buf'[i] = Len(taken') + i
  <2>1. ASSUME NEW i \in 1 .. (b - n)
        PROVE  read_buf'[i] = (k + n) + i
    <3>1. n + i \in 1 .. b /\ k + (n + i) = (k + n) + i
      BY SMTT(60), <1>1
    <3>. QED
      BY Zenon, <1>4, <1>7, <3>1
  <2>. QED
    BY Zenon, <1>4, <1>6, <2>1
<1>10. Len(taken') + Len(read_buf') = Len(taken) + Len(read_buf)
  BY <1>1, <1>4, <1>6
<1>11. \A j : EndOf(j)' = EndOf(j)
  BY Zenon, <1>0, <1>10 DEF EndOf
<1>12. ReadInv'
  BY Zenon, <1>0, <1>8, <1>9, <1>11 DEF ReadInv
<1>13. WsType'
  BY Zenon, <1>0, <1>4, <1>6 DEF WsType, writing
<1>. QED
  BY Zenon, <1>12, <1>13


(* The next message is taken into the empty buffer.                        *)
LEMMA ReadNextStep ==
  ASSUME WsType, WriteInv, ReadInv, poll_read_next
  PROVE  WsType' /\ WriteInv' /\ ReadInv'
<1>. DEFINE m == Head(inbox)
<1>0. /\ inbox \in Seq(Message) /\ inbox # <<>> /\ read_buf = <<>> /\ part_no = 0
      /\ taken \in Seq(Nat) /\ inbox' = Tail(inbox) /\ read_buf' = payload(m)
      /\ sink' = sink \/ sink' = Append(sink, <<>>)
      /\ UNCHANGED <<upgrade, frame, part_no, write_buf, received, asked, messages, taken>>
  BY Zenon DEF poll_read_next, WsType
<1>1. PICK l \in Nat, k \in Nat : l = Len(inbox) /\ l > 0 /\ k = Len(taken)
  BY <1>0
<1>2. /\ m = inbox[1] /\ m \in Message
      /\ inbox' \in Seq(Message) /\ Len(inbox') = l - 1
      /\ \A j \in 1 .. (l - 1) : inbox'[j] = inbox[j + 1]
  BY SMTT(60), <1>0, <1>1
<1>. HIDE DEF m
<1>3. m.after \in Nat /\ m.n \in Nat
  BY <1>2 DEF Message
<1>4. /\ read_buf' \in Seq(Nat) /\ Len(read_buf') = m.n
      /\ \A i \in 1 .. m.n : read_buf'[i] = m.after + i
  <2>1. read_buf' = [i \in 1 .. m.n |-> m.after + i]
    BY Zenon, <1>0 DEF payload, m
  <2>2. PICK a \in Nat, c \in Nat : a = m.after /\ c = m.n
    BY Zenon, <1>3
  <2>3. read_buf' = [i \in 1 .. c |-> a + i]
    BY Zenon, <2>1, <2>2
  <2>. QED
    BY SMTT(60), <2>2, <2>3
<1>5. WriteInv' /\ sink' \in Seq(Seq(Unit))
  BY Zenon, <1>0, ReadKeepsWrites
<1>6. WsType'
  BY Zenon, <1>0, <1>2, <1>4, <1>5 DEF WsType
<1>7. m.after = k
  <2>1. 1 \in 1 .. Len(inbox) /\ 1 - 1 = 0
    BY <1>1
  <2>2. inbox[1].after = EndOf(0)
    BY Zenon, <2>1 DEF ReadInv
  <2>3. EndOf(0) = k
    BY <1>0, <1>1 DEF EndOf
  <2>. QED
    BY Zenon, <1>2, <2>2, <2>3
<1>8. \A j \in 0 .. (l - 1) : EndOf(j)' = EndOf(j + 1)
  <2>1. ASSUME NEW j \in 0 .. (l - 1)
        PROVE  EndOf(j)' = EndOf(j + 1)
    <3>0. EndOf(j + 1) = inbox[j + 1].after + inbox[j + 1].n
      BY DEF EndOf
    <3>1. CASE j = 0
      <4>1. EndOf(0)' = k + m.n
        BY Zenon, <1>0, <1>1, <1>4 DEF EndOf
      <4>2. j + 1 = 1
        BY <3>1
      <4>. QED
        BY Zenon, <1>2, <1>7, <3>0, <3>1, <4>1, <4>2
    <3>2. CASE j # 0
      <4>1. j \in 1 .. (l - 1)
        BY <3>2
      <4>2. EndOf(j)' = inbox'[j].after + inbox'[j].n
        BY Zenon, <3>2 DEF EndOf
      <4>. QED
        BY Zenon, <1>2, <3>0, <4>1, <4>2
    <3>. QED
      BY Zenon, <3>1, <3>2
  <2>. QED
    BY Zenon, <2>1
<1>9. \A j \in 1 .. (l - 1) : inbox'[j].after = EndOf(j - 1)'
  <2>1. ASSUME NEW j \in 1 .. (l - 1)
        PROVE  inbox'[j].after = EndOf(j - 1)'
    <3>1. j - 1 \in 0 .. (l - 1) /\ (j - 1) + 1 = j /\ j + 1 \in 1 .. l /\ (j + 1) - 1 = j
      BY <1>1
    <3>2. inbox[j + 1].after = EndOf(j)
      BY Zenon, <1>1, <3>1 DEF ReadInv
    <3>3. EndOf(j - 1)' = EndOf(j)
      BY Zenon, <1>8, <3>1
    <3>. QED
      BY Zenon, <1>2, <3>2, <3>3
  <2>. QED
    BY Zenon, <2>1
<1>10. EndOf(Len(inbox))' = asked'
  <2>1. l - 1 \in 0 .. (l - 1) /\ (l - 1) + 1 = l
    BY <1>1
  <2>2. EndOf(l - 1)' = asked
    BY Zenon, <1>1, <1>8, <2>1 DEF ReadInv
  <2>. QED
    BY Zenon, <1>0, <1>2, <2>2
<1>11. ReadInv'
  <2>1. \A i \in 1 .. Len(taken') : taken'[i] = i
    BY Zenon, <1>0 DEF ReadInv
  <2>2. \A i \in 1 .. Len(read_buf') : read_buf'[i] = Len(taken') + i
    BY Zenon, <1>0, <1>1, <1>4, <1>7
  <2>. QED
    BY Zenon, <1>2, <1>9, <1>10, <2>1, <2>2 DEF ReadInv
<1>. QED
  BY Zenon, <1>5, <1>6, <1>11

(* Every step of the WebSocket stream keeps its invariant.                 *)
LEMMA WsStep ==
  ASSUME WsInv, WsNext
  PROVE  WsInv'
<1>0. WsType /\ WriteInv /\ ReadInv
  BY Zenon DEF WsInv
<1>1. UNCHANGED reading => ReadInv'
  BY Zenon, <1>0 DEF ReadInv, reading, EndOf
<1>2. UNCHANGED writing => WriteInv'
  BY Zenon, <1>0 DEF WriteInv, FramePerMessage, Gathered, Sunk, Sent, Whole, writing
<1>3. CASE UNCHANGED <<writing, reading>>
  BY Zenon, <1>0, <1>1, <1>2, <1>3 DEF WsInv, WsType, writing, reading
<1>4. CASE Upgrade \/ WsEnds
  BY Zenon, <1>3, <1>4 DEF Upgrade, WsEnds
<1>5. CASE poll_write
  BY Zenon, <1>0, <1>1, <1>5, PollWriteStep DEF WsInv, poll_write
<1>6. CASE poll_flush
  BY Zenon, <1>0, <1>1, <1>6, PollFlushStep DEF WsInv, poll_flush
<1>7. CASE Transmit
  BY Zenon, <1>0, <1>1, <1>7, TransmitStep DEF WsInv, Transmit
<1>8. CASE BrowserSends
  BY Zenon, <1>0, <1>2, <1>8, BrowserSendsStep DEF WsInv, BrowserSends
<1>9. CASE poll_read_buffered
  BY Zenon, <1>0, <1>2, <1>9, ReadBufferedStep DEF WsInv, poll_read_buffered
<1>10. CASE poll_read_next
  BY Zenon, <1>0, <1>10, ReadNextStep DEF WsInv
<1>. QED
  BY Zenon, <1>4, <1>5, <1>6, <1>7, <1>8, <1>9, <1>10 DEF WsInv, WsNext

(* The stream's invariant holds in every reachable state.                  *)
THEOREM WsInvariant == EdgeSpec => []WsInv
<1>1. EdgeInit => WsInv
  <2>. SUFFICES ASSUME EdgeInit PROVE WsInv
    BY Zenon
  <2>1. WsInit
    BY Zenon DEF EdgeInit
  <2>2. WsType
    BY SMTT(60), <2>1, WsAssumption DEF WsInit, WsType
  <2>3. WriteInv
    BY <2>1 DEF WsInit, WriteInv, FramePerMessage, Gathered
  <2>4. ReadInv
    BY <2>1 DEF WsInit, ReadInv, EndOf
  <2>. QED
    BY Zenon, <2>2, <2>3, <2>4 DEF WsInv
<1>2. WsInv /\ [EdgeNext]_edgeVars => WsInv'
  <2>1. WsInv /\ UNCHANGED wsVars => WsInv'
    BY SMTT(60) DEF WsInv, WsType, WriteInv, ReadInv, FramePerMessage, Gathered, Sunk, Sent, Whole,
         EndOf, wsVars
  <2>. QED
    BY ZenonT(60), <2>1, WsStep DEF EdgeNext, edgeVars
<1>. QED
  BY <1>1, <1>2, PTL DEF EdgeSpec

(* Every message the browser receives is one whole frame, in the order the *)
(* session wrote them, however often a flush is polled again and however   *)
(* many pongs share the sink.                                              *)
THEOREM FramePerMessageHolds == EdgeSpec => []FramePerMessage
<1>1. WsInv => FramePerMessage
  BY Zenon DEF WsInv, WriteInv
<1>. QED
  BY <1>1, WsInvariant, PTL

(* No byte of the browser is lost, repeated or reordered, whatever the     *)
(* sizes of the messages and of the reads.                                 *)
THEOREM ReadsInOrderHolds == EdgeSpec => []ReadsInOrder
<1>1. WsInv => ReadsInOrder
  <2>. SUFFICES ASSUME WsInv PROVE ReadsInOrder
    BY Zenon
  <2>1. /\ taken \in Seq(Nat) /\ read_buf \in Seq(Nat) /\ ReadInv
    BY Zenon DEF WsInv, WsType
  <2>2. PICK k \in Nat, b \in Nat : k = Len(taken) /\ b = Len(read_buf)
    BY SMTT(60), <2>1
  <2>. DEFINE s == taken \o read_buf
  <2>3. /\ s \in Seq(Nat) /\ Len(s) = k + b
        /\ \A i \in 1 .. (k + b) : s[i] = IF i <= k THEN taken[i] ELSE read_buf[i - k]
    BY <2>1, <2>2, Joined
  <2>. HIDE DEF s
  <2>4. \A i \in 1 .. (k + b) : s[i] = i
    <3>1. ASSUME NEW i \in 1 .. (k + b)
          PROVE  s[i] = i
      <4>1. CASE i <= k
        BY SMTT(60), <2>1, <2>2, <2>3, <4>1 DEF ReadInv
      <4>2. CASE ~(i <= k)
        <5>1. i - k \in 1 .. b /\ k + (i - k) = i
          BY <2>2, <4>2
        <5>2. read_buf[i - k] = k + (i - k)
          BY Zenon, <2>1, <2>2, <5>1 DEF ReadInv
        <5>. QED
          BY Zenon, <2>3, <4>2, <5>1, <5>2
      <4>. QED
        BY Zenon, <4>1, <4>2
    <3>. QED
      BY Zenon, <3>1
  <2>5. s = [i \in 1 .. (k + b) |-> i]
    BY <2>3, <2>4
  <2>6. EndOf(0) = k + b
    BY Zenon, <2>2 DEF EndOf
  <2>. QED
    BY Zenon, <2>1, <2>5, <2>6 DEF ReadInv, ReadsInOrder, s
<1>. QED
  BY <1>1, WsInvariant, PTL

-----------------------------------------------------------------------------
(* The accept loops and the counters of BridgeServer.                      *)
Phase == {"new", "rejected", "upgrade", "handshake", "backend", "relay", "returning", "done"}

Active == {c \in Conn : phase[c] \in {"backend", "relay"}}
TcpOf(a) == {c \in TcpConn : Live(c) /\ ip[c] = a}
WsOf(a) == {c \in WsConn : Live(c) /\ ip[c] = a}

CountersOK ==
  /\ phase \in [Conn -> Phase] /\ ip \in [Conn -> IP]
  /\ tcp_ip \in [IP -> Nat] /\ ws_ip \in [IP -> Nat] /\ active \in Nat

\* SlotsExact is inductive once the counters are known to be numbers.
SlotInv == CountersOK /\ SlotsExact

-----------------------------------------------------------------------------
\* The sets that are counted are finite.
LEMMA Countable ==
  /\ IsFiniteSet(Active) /\ Cardinality(Active) \in Nat
  /\ \A a \in IP : /\ IsFiniteSet(TcpOf(a)) /\ Cardinality(TcpOf(a)) \in Nat
                   /\ IsFiniteSet(WsOf(a)) /\ Cardinality(WsOf(a)) \in Nat
<1>1. IsFiniteSet(Conn)
  BY Zenon, ConnAssumption, FS_Union DEF Conn
<1>2. IsFiniteSet(Active)
  <2>1. Active \subseteq Conn
    BY Zenon DEF Active
  <2>. QED
    BY Zenon, <1>1, <2>1, FS_Subset
<1>3. ASSUME NEW a \in IP PROVE IsFiniteSet(TcpOf(a)) /\ IsFiniteSet(WsOf(a))
  <2>1. TcpOf(a) \subseteq TcpConn /\ WsOf(a) \subseteq WsConn
    BY Zenon DEF TcpOf, WsOf
  <2>. QED
    BY Zenon, <2>1, ConnAssumption, FS_Subset
<1>. QED
  BY Zenon, <1>2, <1>3, FS_CardinalityType

\* SlotsExact in terms of these sets.
LEMMA SlotsExactSets ==
  SlotsExact <=> /\ active = Cardinality(Active)
                 /\ \A a \in IP : /\ tcp_ip[a] = Cardinality(TcpOf(a))
                                  /\ ws_ip[a] = Cardinality(WsOf(a))
                                  /\ tcp_ip[a] <= TcpMaxPerIp /\ ws_ip[a] <= WsMaxPerIp
BY Zenon DEF SlotsExact, Active, TcpOf, WsOf

\* A step keeps the invariant if it counts what it moves.
LEMMA Recount ==
  ASSUME CountersOK', active' = Cardinality(Active'),
         \A a \in IP : /\ tcp_ip'[a] = Cardinality(TcpOf(a)') /\ ws_ip'[a] = Cardinality(WsOf(a)')
                       /\ tcp_ip'[a] <= TcpMaxPerIp /\ ws_ip'[a] <= WsMaxPerIp
  PROVE  SlotInv'
BY Zenon DEF SlotInv, SlotsExact, Active, TcpOf, WsOf

\* A finite set with one element more.
LEMMA OneMore ==
  ASSUME NEW S, NEW T, NEW c, IsFiniteSet(S), c \notin S, T = S \cup {c}
  PROVE  Cardinality(T) = Cardinality(S) + 1
BY Zenon, FS_AddElement

\* A finite set with one element less.
LEMMA OneLess ==
  ASSUME NEW S, NEW T, NEW c, IsFiniteSet(S), c \in S, T = S \ {c}
  PROVE  Cardinality(T) = Cardinality(S) - 1 /\ Cardinality(S) # 0
<1>1. Cardinality(T) = Cardinality(S) - 1
  BY Zenon, FS_RemoveElement
<1>2. S # {}
  BY Zenon
<1>. QED
  BY Zenon, <1>1, <1>2, FS_EmptySet

\* The phases after Enter(c, p).
LEMMA Moves ==
  ASSUME CountersOK, NEW c \in Conn, NEW p \in Phase, phase' = [phase EXCEPT ![c] = p]
  PROVE  /\ phase' \in [Conn -> Phase]
         /\ \A d \in Conn : phase'[d] = IF d = c THEN p ELSE phase[d]
BY Zenon DEF CountersOK

\* What SlotInv gives, and the address of a connection as a constant.
LEMMA Counted ==
  ASSUME SlotInv, NEW c \in Conn
  PROVE  /\ CountersOK /\ active = Cardinality(Active)
         /\ \A b \in IP : /\ tcp_ip[b] = Cardinality(TcpOf(b)) /\ ws_ip[b] = Cardinality(WsOf(b))
                          /\ tcp_ip[b] <= TcpMaxPerIp /\ ws_ip[b] <= WsMaxPerIp
         /\ \E a \in IP : a = ip[c]
BY Zenon, SlotsExactSets DEF SlotInv, CountersOK

\* A step that leaves the phases and the counters alone.
LEMMA Untouched ==
  ASSUME SlotInv, UNCHANGED <<phase, ip, tcp_ip, ws_ip, active>>
  PROVE  SlotInv'
BY Zenon DEF SlotInv, CountersOK, SlotsExact, Live

\* A task changes its phase without taking or giving back anything.
LEMMA Passes ==
  ASSUME SlotInv, NEW c \in Conn, NEW p \in Phase, phase' = [phase EXCEPT ![c] = p],
         UNCHANGED <<ip, tcp_ip, ws_ip, active>>,
         phase[c] \in {"backend", "relay"} <=> p \in {"backend", "relay"},
         Live(c) <=> p \in {"upgrade", "handshake", "backend", "relay", "returning"}
  PROVE  SlotInv'
<1>1. /\ phase' \in [Conn -> Phase]
      /\ \A d \in Conn : phase'[d] = IF d = c THEN p ELSE phase[d]
  BY Zenon, Moves DEF SlotInv
<1>2. Active' = Active
  BY Zenon, <1>1 DEF Active
<1>3. \A d \in Conn : Live(d)' <=> Live(d)
  BY Zenon, <1>1 DEF Live
<1>4. ASSUME NEW b \in IP PROVE TcpOf(b)' = TcpOf(b) /\ WsOf(b)' = WsOf(b)
  BY Zenon, <1>3 DEF TcpOf, WsOf, Conn
<1>5. CountersOK'
  BY Zenon, <1>1 DEF CountersOK, SlotInv
<1>. QED
  BY Zenon, <1>2, <1>4, <1>5, Counted, Recount

\* A number one up and one down, and below its cap.
LEMMA Counts ==
  ASSUME NEW n \in Nat, NEW m \in Nat
  PROVE  /\ n + 1 \in Nat /\ (n < m => n + 1 <= m)
         /\ n # 0 => n - 1 \in Nat /\ (n <= m => n - 1 <= m)
OBVIOUS

\* A counter of an address one up: the accept loops.
LEMMA Raised ==
  ASSUME NEW D, NEW f \in [D -> Nat], NEW a \in D, NEW g, g = [f EXCEPT ![a] = @ + 1]
  PROVE  g \in [D -> Nat] /\ \A b \in D : g[b] = IF b = a THEN f[a] + 1 ELSE f[b]
OBVIOUS

\* A counter of an address one down, when it is not 0: Freed.
LEMMA Lowered ==
  ASSUME NEW f \in [IP -> Nat], NEW a \in IP, f[a] # 0
  PROVE  /\ Freed(f, a) \in [IP -> Nat]
         /\ \A b \in IP : Freed(f, a)[b] = IF b = a THEN f[a] - 1 ELSE f[b]
BY DEF Freed

\* The TCP accept loop takes a slot only below the cap.
LEMMA TcpAcceptKeeps == ASSUME SlotInv, NEW c \in TcpConn, TcpAccept(c) PROVE SlotInv'
<1>0. c \in Conn /\ c \notin WsConn /\ TcpConn \subseteq Conn /\ WsConn \subseteq Conn
  BY Zenon, ConnAssumption DEF Conn
<1>. PICK a \in IP : a = ip[c]
  BY Zenon, <1>0, Counted
<1>1. phase[c] = "new" /\ ip' = ip /\ active' = active /\ ws_ip' = ws_ip
  BY Zenon DEF TcpAccept
<1>3. CASE phase' = [phase EXCEPT ![c] = "rejected"] /\ tcp_ip' = tcp_ip
  BY Zenon, <1>0, <1>1, <1>3, Passes DEF Phase, Live
<1>4. CASE /\ phase' = [phase EXCEPT ![c] = "handshake"]
           /\ tcp_ip[a] < TcpMaxPerIp /\ tcp_ip' = [tcp_ip EXCEPT ![a] = @ + 1]
  <2>1. /\ phase' \in [Conn -> Phase]
        /\ \A d \in Conn : phase'[d] = IF d = c THEN "handshake" ELSE phase[d]
    BY Zenon, <1>0, <1>4, Moves DEF Phase, SlotInv
  <2>2. Active' = Active /\ \A b \in IP : WsOf(b)' = WsOf(b) /\ (b # a => TcpOf(b)' = TcpOf(b))
    BY Zenon, <1>0, <1>1, <2>1 DEF Active, TcpOf, WsOf, Live
  <2>3. c \notin TcpOf(a) /\ TcpOf(a)' = TcpOf(a) \cup {c}
    BY Zenon, <1>0, <1>1, <2>1 DEF TcpOf, Live
  <2>4. Cardinality(TcpOf(a)') = Cardinality(TcpOf(a)) + 1
    BY Zenon, <2>3, OneMore, Countable
  <2>5. CountersOK' /\ \A b \in IP : tcp_ip'[b] = IF b = a THEN tcp_ip[a] + 1 ELSE tcp_ip[b]
    BY Zenon, <1>1, <1>4, <2>1, Raised DEF CountersOK, SlotInv
  <2>6. tcp_ip[a] + 1 <= TcpMaxPerIp
    BY Zenon, <1>4, BridgeConfig, Counts DEF CountersOK, SlotInv
  <2>7. ASSUME NEW b \in IP
        PROVE  tcp_ip'[b] = Cardinality(TcpOf(b)') /\ tcp_ip'[b] <= TcpMaxPerIp
    <3>1. CASE b = a
      BY Zenon, <1>0, <2>4, <2>5, <2>6, <3>1, Counted
    <3>2. CASE b # a
      BY Zenon, <1>0, <2>2, <2>5, <3>2, Counted
    <3>. QED
      BY Zenon, <3>1, <3>2
  <2>. QED
    BY ZenonT(60), <1>0, <1>1, <2>2, <2>5, <2>7, Counted, Recount
<1>. QED
  BY Zenon, <1>3, <1>4 DEF TcpAccept, Enter, HasRoom

\* So does the WebSocket listener.
LEMMA WsAcceptKeeps == ASSUME SlotInv, NEW c \in WsConn, WsAccept(c) PROVE SlotInv'
<1>0. c \in Conn /\ c \notin TcpConn /\ TcpConn \subseteq Conn /\ WsConn \subseteq Conn
  BY Zenon, ConnAssumption DEF Conn
<1>. PICK a \in IP : a = ip[c]
  BY Zenon, <1>0, Counted
<1>1. phase[c] = "new" /\ ip' = ip /\ active' = active /\ tcp_ip' = tcp_ip
  BY Zenon DEF WsAccept
<1>3. CASE phase' = [phase EXCEPT ![c] = "rejected"] /\ ws_ip' = ws_ip
  BY Zenon, <1>0, <1>1, <1>3, Passes DEF Phase, Live
<1>4. CASE /\ phase' = [phase EXCEPT ![c] = "upgrade"]
           /\ ws_ip[a] < WsMaxPerIp /\ ws_ip' = [ws_ip EXCEPT ![a] = @ + 1]
  <2>1. /\ phase' \in [Conn -> Phase]
        /\ \A d \in Conn : phase'[d] = IF d = c THEN "upgrade" ELSE phase[d]
    BY Zenon, <1>0, <1>4, Moves DEF Phase, SlotInv
  <2>2. Active' = Active /\ \A b \in IP : TcpOf(b)' = TcpOf(b) /\ (b # a => WsOf(b)' = WsOf(b))
    BY Zenon, <1>0, <1>1, <2>1 DEF Active, TcpOf, WsOf, Live
  <2>3. c \notin WsOf(a) /\ WsOf(a)' = WsOf(a) \cup {c}
    BY Zenon, <1>0, <1>1, <2>1 DEF WsOf, Live
  <2>4. Cardinality(WsOf(a)') = Cardinality(WsOf(a)) + 1
    BY Zenon, <2>3, OneMore, Countable
  <2>5. CountersOK' /\ \A b \in IP : ws_ip'[b] = IF b = a THEN ws_ip[a] + 1 ELSE ws_ip[b]
    BY ZenonT(60), <1>1, <1>4, <2>1, Raised DEF CountersOK, SlotInv
  <2>6. ws_ip[a] + 1 <= WsMaxPerIp
    BY Zenon, <1>4, BridgeConfig, Counts DEF CountersOK, SlotInv
  <2>7. ASSUME NEW b \in IP
        PROVE  ws_ip'[b] = Cardinality(WsOf(b)') /\ ws_ip'[b] <= WsMaxPerIp
    <3>1. CASE b = a
      BY Zenon, <1>0, <2>4, <2>5, <2>6, <3>1, Counted
    <3>2. CASE b # a
      BY Zenon, <1>0, <2>2, <2>5, <3>2, Counted
    <3>. QED
      BY Zenon, <3>1, <3>2
  <2>. QED
    BY ZenonT(60), <1>0, <1>1, <2>2, <2>5, <2>7, Counted, Recount
<1>. QED
  BY Zenon, <1>3, <1>4 DEF WsAccept, Enter, HasRoom

\* The gauge follows the two guards of a session.
LEMMA GaugeKeeps ==
  ASSUME SlotInv, NEW c \in Conn, HandshakeDone(c) \/ SessionEnds(c) PROVE SlotInv'
<1>1. ip' = ip /\ tcp_ip' = tcp_ip /\ ws_ip' = ws_ip
  BY Zenon DEF HandshakeDone, SessionEnds
<1>2. ASSUME NEW p \in Phase, phase' = [phase EXCEPT ![c] = p], Live(c),
             p \in {"backend", "returning"}
      PROVE  /\ phase' \in [Conn -> Phase]
             /\ \A d \in Conn : phase'[d] = IF d = c THEN p ELSE phase[d]
             /\ \A b \in IP : TcpOf(b)' = TcpOf(b) /\ WsOf(b)' = WsOf(b)
  <2>1. /\ phase' \in [Conn -> Phase]
        /\ \A d \in Conn : phase'[d] = IF d = c THEN p ELSE phase[d]
    BY Zenon, <1>2, Moves DEF SlotInv
  <2>2. \A d \in Conn : Live(d)' <=> Live(d)
    BY Zenon, <1>2, <2>1 DEF Live
  <2>. QED
    BY Zenon, <1>1, <2>1, <2>2 DEF TcpOf, WsOf, Conn
<1>3. CASE HandshakeDone(c)
  <2>1. /\ phase[c] = "handshake" /\ phase' = [phase EXCEPT ![c] = "backend"]
        /\ active' = active + 1
    BY Zenon, <1>3 DEF HandshakeDone, Enter
  <2>2. /\ phase' \in [Conn -> Phase]
        /\ \A d \in Conn : phase'[d] = IF d = c THEN "backend" ELSE phase[d]
        /\ \A b \in IP : TcpOf(b)' = TcpOf(b) /\ WsOf(b)' = WsOf(b)
    BY Zenon, <1>2, <2>1 DEF Live, Phase
  <2>3. c \notin Active /\ Active' = Active \cup {c}
    BY Zenon, <2>1, <2>2 DEF Active
  <2>4. active' = Cardinality(Active')
    BY Zenon, <2>1, <2>3, OneMore, Countable, Counted
  <2>5. CountersOK'
    BY Zenon, <1>1, <2>1, <2>2, Counts DEF CountersOK, SlotInv
  <2>. QED
    BY Zenon, <1>1, <2>2, <2>4, <2>5, Counted, Recount
<1>4. CASE SessionEnds(c)
  <2>1. /\ phase[c] \in {"backend", "relay"} /\ phase' = [phase EXCEPT ![c] = "returning"]
        /\ active' = active - 1
    BY Zenon, <1>4 DEF SessionEnds, Enter
  <2>2. /\ phase' \in [Conn -> Phase]
        /\ \A d \in Conn : phase'[d] = IF d = c THEN "returning" ELSE phase[d]
        /\ \A b \in IP : TcpOf(b)' = TcpOf(b) /\ WsOf(b)' = WsOf(b)
    BY Zenon, <1>2, <2>1 DEF Live, Phase
  <2>3. c \in Active /\ Active' = Active \ {c}
    BY Zenon, <2>1, <2>2 DEF Active
  <2>4. active' = Cardinality(Active') /\ active # 0
    BY Zenon, <2>1, <2>3, OneLess, Countable, Counted
  <2>5. CountersOK'
    BY Zenon, <1>1, <2>1, <2>2, <2>4, Counts DEF CountersOK, SlotInv
  <2>. QED
    BY Zenon, <1>1, <2>2, <2>4, <2>5, Counted, Recount
<1>. QED
  BY Zenon, <1>3, <1>4

\* IpCountGuard::drop gives back a slot that was taken: its test for 0 never
\* decides.
LEMMA SlotFreedKeeps == ASSUME SlotInv, NEW c \in Conn, SlotFreed(c) PROVE SlotInv'
<1>. PICK a \in IP : a = ip[c]
  BY Zenon, Counted
<1>1. /\ phase[c] = "returning" /\ phase' = [phase EXCEPT ![c] = "done"]
      /\ ip' = ip /\ active' = active
  BY Zenon DEF SlotFreed, Enter
<1>2. /\ phase' \in [Conn -> Phase]
      /\ \A d \in Conn : phase'[d] = IF d = c THEN "done" ELSE phase[d]
  BY Zenon, <1>1, Moves DEF SlotInv, Phase
<1>3. Active' = Active
  BY Zenon, <1>1, <1>2 DEF Active
<1>4. TcpConn \subseteq Conn /\ WsConn \subseteq Conn
  BY Zenon DEF Conn
<1>5. CASE c \in TcpConn
  <2>1. c \notin WsConn
    BY Zenon, <1>5, ConnAssumption
  <2>2. ws_ip' = ws_ip /\ tcp_ip' = Freed(tcp_ip, a)
    BY Zenon, <1>5, <2>1 DEF SlotFreed
  <2>3. \A b \in IP : WsOf(b)' = WsOf(b) /\ (b # a => TcpOf(b)' = TcpOf(b))
    BY Zenon, <1>1, <1>2, <1>4, <2>1 DEF TcpOf, WsOf, Live
  <2>4. c \in TcpOf(a) /\ TcpOf(a)' = TcpOf(a) \ {c}
    BY Zenon, <1>1, <1>2, <1>4, <1>5 DEF TcpOf, Live
  <2>c. /\ CountersOK /\ tcp_ip[a] = Cardinality(TcpOf(a)) /\ tcp_ip[a] \in Nat
        /\ IsFiniteSet(TcpOf(a))
    BY Zenon, Counted, Countable DEF CountersOK
  <2>5. Cardinality(TcpOf(a)') = tcp_ip[a] - 1 /\ tcp_ip[a] # 0
    BY Zenon, <2>c, <2>4, OneLess
  <2>6. CountersOK' /\ \A b \in IP : tcp_ip'[b] = IF b = a THEN tcp_ip[a] - 1 ELSE tcp_ip[b]
    <3>1. /\ tcp_ip' \in [IP -> Nat]
          /\ \A b \in IP : tcp_ip'[b] = IF b = a THEN tcp_ip[a] - 1 ELSE tcp_ip[b]
      <4>1. tcp_ip \in [IP -> Nat]
        BY Zenon, <2>c DEF CountersOK
      <4>2. tcp_ip' = Freed(tcp_ip, a)
        BY Zenon, <2>2
      <4>3. tcp_ip[a] # 0
        BY Zenon, <2>5
      <4>. QED
        BY ZenonT(60), <4>1, <4>2, <4>3, Lowered
    <3>. QED
      BY Zenon, <1>1, <1>2, <2>2, <2>c, <3>1 DEF CountersOK
  <2>7. ASSUME NEW b \in IP
        PROVE  tcp_ip'[b] = Cardinality(TcpOf(b)') /\ tcp_ip'[b] <= TcpMaxPerIp
    <3>1. tcp_ip[b] <= TcpMaxPerIp /\ tcp_ip[b] = Cardinality(TcpOf(b)) /\ tcp_ip[b] \in Nat
      BY Zenon, Counted DEF CountersOK
    <3>2. CASE b = a
      BY Zenon, <2>5, <2>6, <3>1, <3>2, BridgeConfig, Counts
    <3>3. CASE b # a
      BY Zenon, <2>3, <2>6, <3>1, <3>3
    <3>. QED
      BY Zenon, <3>2, <3>3
  <2>8. /\ active' = Cardinality(Active')
        /\ \A b \in IP : ws_ip'[b] = Cardinality(WsOf(b)') /\ ws_ip'[b] <= WsMaxPerIp
    BY Zenon, <1>1, <1>3, <2>2, <2>3, Counted
  <2>. QED
    BY Zenon, <2>6, <2>7, <2>8, Recount
<1>6. CASE c \in WsConn
  <2>1. c \notin TcpConn
    BY Zenon, <1>6, ConnAssumption
  <2>2. tcp_ip' = tcp_ip /\ ws_ip' = Freed(ws_ip, a)
    BY Zenon, <1>6, <2>1 DEF SlotFreed
  <2>3. \A b \in IP : TcpOf(b)' = TcpOf(b) /\ (b # a => WsOf(b)' = WsOf(b))
    BY Zenon, <1>1, <1>2, <1>4, <2>1 DEF TcpOf, WsOf, Live
  <2>4. c \in WsOf(a) /\ WsOf(a)' = WsOf(a) \ {c}
    BY Zenon, <1>1, <1>2, <1>4, <1>6 DEF WsOf, Live
  <2>c. /\ CountersOK /\ ws_ip[a] = Cardinality(WsOf(a)) /\ ws_ip[a] \in Nat
        /\ IsFiniteSet(WsOf(a))
    BY Zenon, Counted, Countable DEF CountersOK
  <2>5. Cardinality(WsOf(a)') = ws_ip[a] - 1 /\ ws_ip[a] # 0
    BY Zenon, <2>c, <2>4, OneLess
  <2>6. CountersOK' /\ \A b \in IP : ws_ip'[b] = IF b = a THEN ws_ip[a] - 1 ELSE ws_ip[b]
    <3>1. /\ ws_ip' \in [IP -> Nat]
          /\ \A b \in IP : ws_ip'[b] = IF b = a THEN ws_ip[a] - 1 ELSE ws_ip[b]
      <4>1. ws_ip \in [IP -> Nat]
        BY Zenon, <2>c DEF CountersOK
      <4>2. ws_ip' = Freed(ws_ip, a)
        BY Zenon, <2>2
      <4>3. ws_ip[a] # 0
        BY Zenon, <2>5
      <4>. QED
        BY ZenonT(60), <4>1, <4>2, <4>3, Lowered
    <3>. QED
      BY ZenonT(60), <1>1, <1>2, <2>2, <2>c, <3>1 DEF CountersOK
  <2>7. ASSUME NEW b \in IP
        PROVE  ws_ip'[b] = Cardinality(WsOf(b)') /\ ws_ip'[b] <= WsMaxPerIp
    <3>1. ws_ip[b] <= WsMaxPerIp /\ ws_ip[b] = Cardinality(WsOf(b)) /\ ws_ip[b] \in Nat
      BY Zenon, Counted DEF CountersOK
    <3>2. CASE b = a
      BY Zenon, <2>5, <2>6, <3>1, <3>2, BridgeConfig, Counts
    <3>3. CASE b # a
      BY Zenon, <2>3, <2>6, <3>1, <3>3
    <3>. QED
      BY Zenon, <3>2, <3>3
  <2>8. /\ active' = Cardinality(Active')
        /\ \A b \in IP : tcp_ip'[b] = Cardinality(TcpOf(b)') /\ tcp_ip'[b] <= TcpMaxPerIp
    BY Zenon, <1>1, <1>3, <2>2, <2>3, Counted
  <2>. QED
    BY Zenon, <2>6, <2>7, <2>8, Recount
<1>. QED
  BY Zenon, <1>5, <1>6 DEF Conn

\* Nothing is counted in a fresh bridge.
LEMMA SlotInit == Init => SlotInv
<1>. SUFFICES ASSUME Init PROVE SlotInv
  BY Zenon
<1>1. CountersOK
  BY Zenon DEF Init, CountersOK, Phase
<1>2. Active = {} /\ \A a \in IP : TcpOf(a) = {} /\ WsOf(a) = {}
  BY Zenon DEF Init, Active, TcpOf, WsOf, Live, Conn
<1>3. Cardinality({}) = 0
  BY Zenon, FS_EmptySet
<1>4. active = 0 /\ \A a \in IP : tcp_ip[a] = 0 /\ ws_ip[a] = 0
  BY Zenon DEF Init
<1>5. 0 <= TcpMaxPerIp /\ 0 <= WsMaxPerIp
  BY BridgeConfig
<1>6. active = Cardinality(Active)
  BY Zenon, <1>2, <1>3, <1>4
<1>7. ASSUME NEW a \in IP
      PROVE  /\ tcp_ip[a] = Cardinality(TcpOf(a)) /\ ws_ip[a] = Cardinality(WsOf(a))
             /\ tcp_ip[a] <= TcpMaxPerIp /\ ws_ip[a] <= WsMaxPerIp
  BY Zenon, <1>2, <1>3, <1>4, <1>5
<1>8. SlotsExact
  BY Zenon, <1>6, <1>7, SlotsExactSets
<1>. QED
  BY Zenon, <1>1, <1>8 DEF SlotInv

\* Every step keeps the counters exact.
LEMMA SlotStep == SlotInv /\ [Next]_vars => SlotInv'
<1>. SUFFICES ASSUME SlotInv, [Next]_vars PROVE SlotInv'
  BY Zenon
<1>1. ASSUME NEW c \in TcpConn, TcpAccept(c) PROVE SlotInv'
  BY Zenon, <1>1, TcpAcceptKeeps
<1>2. ASSUME NEW c \in WsConn, WsAccept(c) PROVE SlotInv'
  BY Zenon, <1>2, WsAcceptKeeps
<1>3. ASSUME NEW c \in Conn, Upgraded(c) \/ UpgradeFails(c) \/ HandshakeFails(c) PROVE SlotInv'
  <2>1. /\ phase[c] \in {"upgrade", "handshake"}
        /\ UNCHANGED <<ip, tcp_ip, ws_ip, active>>
        /\ \E p \in {"handshake", "returning"} : phase' = [phase EXCEPT ![c] = p]
    BY Zenon, <1>3 DEF Upgraded, UpgradeFails, HandshakeFails, Enter
  <2>. QED
    BY Zenon, <2>1, Passes DEF Phase, Live
<1>4. ASSUME NEW c \in Conn, BackendConnects(c) PROVE SlotInv'
  BY Zenon, <1>4, Passes DEF BackendConnects, Enter, Phase, Live
<1>5. ASSUME NEW c \in Conn, SessionStep(c) PROVE SlotInv'
  <2>1. CASE HandshakeDone(c) \/ SessionEnds(c)
    BY Zenon, <2>1, GaugeKeeps
  <2>2. CASE SlotFreed(c)
    BY Zenon, <2>2, SlotFreedKeeps
  <2>3. CASE SessionRotates(c)
    BY Zenon, <2>3, Untouched DEF SessionRotates
  <2>4. CASE HandshakeFails(c) \/ HandshakeTimesOut(c)
    BY Zenon, <2>4, <1>3 DEF HandshakeTimesOut
  <2>. QED
    BY Zenon, <1>4, <1>5, <2>1, <2>2, <2>3, <2>4 DEF SessionStep
<1>6. CASE \/ RotateRequested \/ SignalReceived \/ AcceptLoopStops \/ WsLoopStops
           \/ DrainNext \/ Exit \/ Tick \/ UNCHANGED vars
  <2>1. UNCHANGED <<phase, ip, tcp_ip, ws_ip, active>>
    BY Zenon, <1>6 DEF RotateRequested, SignalReceived, AcceptLoopStops, WsLoopStops, DrainNext,
                Exit, Tick, vars, sessionVars
  <2>. QED
    BY Zenon, <2>1, Untouched
<1>7. ASSUME NEW c \in WsConn, Upgraded(c) \/ UpgradeFails(c) PROVE SlotInv'
  BY Zenon, <1>3, <1>7 DEF Conn
<1>. QED
  BY Zenon, <1>1, <1>2, <1>5, <1>6, <1>7 DEF Next

\* The per-address counters of both listeners and the gauge of active sessions
\* are exact, and the caps hold, whatever way the tasks of server.rs end.
THEOREM SlotsExactHolds == Spec => []SlotsExact
<1>1. SlotInv => SlotsExact
  BY Zenon DEF SlotInv
<1>. QED
  BY <1>1, SlotInit, SlotStep, PTL DEF Spec

-----------------------------------------------------------------------------
(* The drain *)

Taken == {c \in TcpConn : phase[c] \notin {"new", "rejected"}}
Awaited == {handles[i] : i \in 1..Len(handles)}
Budget == ShutdownTimeout * Cardinality(Taken)

(***************************************************************************)
(* While run accepts there is a handle for each session taken.  While it   *)
(* drains, each handle to come has its timeout in the budget, and a        *)
(* session that still runs is awaited or has had its time.                 *)
(***************************************************************************)
DrainInv ==
  /\ handles \in Seq(TcpConn) /\ left \in Nat /\ elapsed \in Nat
  /\ server \in {"accepting", "draining", "exited"}
  /\ elapsed <= Budget
  /\ server = "accepting" => /\ elapsed = 0 /\ Len(handles) = Cardinality(Taken)
                             /\ \A c \in TcpConn : Live(c) => c \in Awaited
  /\ server = "draining" =>
       /\ elapsed + left >= ShutdownTimeout
       /\ handles # <<>> => elapsed + left + ShutdownTimeout * Len(handles)
                              <= Budget + ShutdownTimeout
       /\ \A c \in TcpConn : Live(c) => c \in Awaited \/ elapsed >= ShutdownTimeout

\* The budget is a number.
LEMMA BudgetType ==
  IsFiniteSet(Taken) /\ Cardinality(Taken) \in Nat /\ Budget \in Nat
<1>1. Taken \subseteq TcpConn
  BY Zenon DEF Taken
<1>2. IsFiniteSet(Taken) /\ Cardinality(Taken) \in Nat
  BY Zenon, <1>1, ConnAssumption, FS_Subset, FS_CardinalityType
<1>. QED
  BY <1>2, BridgeConfig DEF Budget

\* A timeout more for a handle more.
LEMMA OneTimeoutMore ==
  ASSUME NEW s \in Nat, NEW n \in Nat
  PROVE  s * (n + 1) = s * n + s /\ s * n \in Nat
OBVIOUS

\* A step of a session or of the WebSocket listener leaves the drain alone.
LEMMA DrainUntouched ==
  ASSUME DrainInv, Taken' = Taken, \A c \in TcpConn : Live(c)' => Live(c),
         UNCHANGED <<handles, server, left, elapsed>>
  PROVE  DrainInv'
<1>1. Budget' = Budget /\ Awaited' = Awaited
  BY Zenon DEF Budget, Awaited
<1>. QED
  BY Zenon, <1>1 DEF DrainInv

\* A task that exists goes on, and a connection that is dropped was not taken.
LEMMA TakenStays ==
  ASSUME CountersOK, NEW c \in Conn, NEW p \in Phase, phase' = [phase EXCEPT ![c] = p],
         \/ c \notin TcpConn
         \/ phase[c] = "new" /\ p = "rejected"
         \/ Live(c) /\ p \notin {"new", "rejected"}
  PROVE  Taken' = Taken /\ \A d \in TcpConn : Live(d)' => Live(d)
<1>1. \A d \in Conn : phase'[d] = IF d = c THEN p ELSE phase[d]
  BY Zenon, Moves
<1>2. TcpConn \subseteq Conn
  BY Zenon DEF Conn
<1>3. Taken' = Taken
  BY Zenon, <1>1, <1>2 DEF Taken, Live
<1>4. \A d \in TcpConn : Live(d)' => Live(d)
  BY Zenon, <1>1, <1>2 DEF Live
<1>. QED
  BY Zenon, <1>3, <1>4

\* A TCP session that is taken has its handle pushed.
LEMMA DrainTaken ==
  ASSUME CountersOK, DrainInv, NEW c \in TcpConn, TcpAccept(c)
  PROVE  DrainInv'
<1>0. c \in Conn /\ TcpConn \subseteq Conn
  BY Zenon DEF Conn
<1>1. /\ server = "accepting" /\ phase[c] = "new"
      /\ server' = server /\ left' = left /\ elapsed' = elapsed
  BY Zenon DEF TcpAccept
<1>2. CASE phase' = [phase EXCEPT ![c] = "rejected"] /\ handles' = handles
  BY Zenon, <1>0, <1>1, <1>2, TakenStays, DrainUntouched DEF Phase
<1>3. CASE phase' = [phase EXCEPT ![c] = "handshake"] /\ handles' = Append(handles, c)
  <2>1. \A d \in Conn : phase'[d] = IF d = c THEN "handshake" ELSE phase[d]
    BY Zenon, <1>0, <1>3, Moves DEF Phase
  <2>2. c \notin Taken /\ Taken' = Taken \cup {c}
    BY Zenon, <1>0, <1>1, <2>1 DEF Taken
  <2>3. Cardinality(Taken') = Cardinality(Taken) + 1
    BY Zenon, <2>2, BudgetType, OneMore
  <2>4. /\ handles' \in Seq(TcpConn) /\ Len(handles') = Len(handles) + 1
        /\ Awaited' = Awaited \cup {c}
    <3>1. handles \in Seq(TcpConn)
      BY Zenon DEF DrainInv
    <3>2. /\ handles' \in Seq(TcpConn) /\ Len(handles') = Len(handles) + 1
          /\ Len(handles) \in Nat /\ handles'[Len(handles) + 1] = c
          /\ \A i \in 1..Len(handles) : handles'[i] = handles[i]
      BY <1>3, <3>1
    <3>. QED
      BY <3>2 DEF Awaited
  <2>5. \A d \in TcpConn : Live(d)' => Live(d) \/ d = c
    BY Zenon, <1>0, <2>1 DEF Live
  <2>6. elapsed' <= Budget'
    <3>1. elapsed' = 0
      BY Zenon, <1>1 DEF DrainInv
    <3>2. Cardinality(Taken') \in Nat
      BY SMTT(60), <2>3, BudgetType
    <3>. QED
      BY SMTT(60), <3>1, <3>2, BridgeConfig, OneTimeoutMore DEF Budget
  <2>. QED
    BY Zenon, <1>1, <2>3, <2>4, <2>5, <2>6 DEF DrainInv
<1>. QED
  BY Zenon, <1>2, <1>3 DEF TcpAccept, Enter

\* run leaves its select! loop: every handle has its timeout to come.
LEMMA DrainStarts == ASSUME DrainInv, AcceptLoopStops PROVE DrainInv'
<1>1. /\ server = "accepting" /\ server' = "draining" /\ left' = ShutdownTimeout
      /\ handles' = handles /\ elapsed' = elapsed /\ phase' = phase
  BY Zenon DEF AcceptLoopStops, sessionVars
<1>2. Taken' = Taken /\ Awaited' = Awaited /\ \A c \in TcpConn : Live(c)' = Live(c)
  BY Zenon, <1>1 DEF Taken, Awaited, Live
<1>3. Budget' = Budget
  BY Zenon, <1>2 DEF Budget
<1>4. elapsed = 0 /\ Budget = ShutdownTimeout * Len(handles)
  BY Zenon, <1>1 DEF DrainInv, Budget
<1>. QED
  BY SMTT(60), <1>1, <1>2, <1>3, <1>4, BudgetType, BridgeConfig DEF DrainInv

\* On to the next handle: the one before is done, or has had its time.
LEMMA DrainAdvances == ASSUME DrainInv, DrainNext PROVE DrainInv'
<1>1. /\ server = "draining" /\ server' = "draining" /\ left' = ShutdownTimeout
      /\ handles # <<>> /\ handles' = Tail(handles) /\ elapsed' = elapsed /\ phase' = phase
      /\ phase[Head(handles)] = "done" \/ left = 0
  BY Zenon DEF DrainNext, HandleReady, sessionVars
<1>2. Taken' = Taken /\ \A c \in TcpConn : Live(c)' = Live(c)
  BY Zenon, <1>1 DEF Taken, Live
<1>3. Budget' = Budget
  BY Zenon, <1>2 DEF Budget
<1>4. handles \in Seq(TcpConn)
  BY Zenon DEF DrainInv
<1>5. PICK n \in Nat : /\ Len(handles) = n + 1 /\ Len(handles') = n
                       /\ handles' \in Seq(TcpConn)
                       /\ \A i \in 1..n : handles'[i] = handles[i + 1]
  BY <1>1, <1>4
<1>6. ASSUME NEW c \in TcpConn, Live(c)'
      PROVE  c \in Awaited' \/ elapsed' >= ShutdownTimeout
  <2>1. Live(c)
    BY Zenon, <1>2, <1>6
  <2>2. CASE elapsed >= ShutdownTimeout
    BY Zenon, <1>1, <2>2
  <2>3. CASE c \in Awaited /\ ~(elapsed >= ShutdownTimeout)
    <3>1. PICK i \in 1..Len(handles) : handles[i] = c
      BY Zenon, <2>3 DEF Awaited
    <3>2. CASE i = 1
      <4>1. Head(handles) = c
        BY SMTT(60), <1>1, <1>4, <3>1, <3>2
      <4>2. left = 0
        BY Zenon, <1>1, <2>1, <4>1 DEF Live
      <4>. QED
        BY SMTT(60), <1>1, <2>3, <4>2, BridgeConfig DEF DrainInv
    <3>3. CASE i # 1
      <4>1. i - 1 \in 1..n /\ handles'[i - 1] = c
        BY SMTT(60), <1>5, <3>1, <3>3
      <4>. QED
        BY ZenonT(60), <1>5, <4>1 DEF Awaited
    <3>. QED
      BY Zenon, <3>2, <3>3
  <2>. QED
    BY Zenon, <1>1, <2>1, <2>2, <2>3 DEF DrainInv
<1>7. elapsed' + left' + ShutdownTimeout * Len(handles') <= Budget' + ShutdownTimeout
  <2>1. /\ ShutdownTimeout * (n + 1) = ShutdownTimeout * n + ShutdownTimeout
        /\ ShutdownTimeout * n \in Nat
    BY Zenon, OneTimeoutMore, BridgeConfig
  <2>2. /\ elapsed + left + ShutdownTimeout * (n + 1) <= Budget + ShutdownTimeout
        /\ elapsed \in Nat /\ left \in Nat
    BY Zenon, <1>1, <1>5 DEF DrainInv
  <2>. QED
    BY SMTT(60), <1>1, <1>3, <1>5, <2>1, <2>2, BudgetType, BridgeConfig
<1>8. elapsed' + left' >= ShutdownTimeout /\ left' \in Nat /\ elapsed' \in Nat /\ elapsed' <= Budget'
  BY <1>1, <1>3, BridgeConfig DEF DrainInv
<1>. QED
  BY Zenon, <1>1, <1>5, <1>6, <1>7, <1>8 DEF DrainInv

\* Time passes in the drain only while a handle is awaited that has time left.
LEMMA DrainTicks == ASSUME DrainInv, Tick PROVE DrainInv'
<1>1. server' = server /\ handles' = handles /\ phase' = phase
  BY Zenon DEF Tick
<1>2. Taken' = Taken /\ Awaited' = Awaited /\ \A c \in TcpConn : Live(c)' = Live(c)
  BY Zenon, <1>1 DEF Taken, Awaited, Live
<1>3. Budget' = Budget
  BY Zenon, <1>2 DEF Budget
<1>4. CASE server # "draining"
  BY Zenon, <1>1, <1>2, <1>4, DrainUntouched DEF Tick
<1>5. CASE server = "draining"
  <2>1. /\ handles # <<>> /\ left # 0 /\ left' = left - 1 /\ elapsed' = elapsed + 1
    BY Zenon, <1>5 DEF Tick, HandleReady
  <2>2. PICK n \in Nat : Len(handles) = n + 1
    BY SMTT(60), <2>1 DEF DrainInv
  <2>3. /\ elapsed \in Nat /\ left \in Nat /\ left' \in Nat /\ elapsed' \in Nat
        /\ elapsed' + left' = elapsed + left
    BY <2>1 DEF DrainInv
  <2>4. /\ ShutdownTimeout * Len(handles) = ShutdownTimeout * n + ShutdownTimeout
        /\ ShutdownTimeout * n \in Nat
    BY Zenon, <2>2, OneTimeoutMore, BridgeConfig
  <2>5. elapsed + left + ShutdownTimeout * Len(handles) <= Budget + ShutdownTimeout
    BY Zenon, <1>5, <2>1 DEF DrainInv
  <2>6. elapsed' <= Budget'
    BY SMTT(60), <1>3, <2>1, <2>3, <2>4, <2>5, BudgetType, BridgeConfig
  <2>7. elapsed' + left' >= ShutdownTimeout
    BY Zenon, <1>5, <2>3 DEF DrainInv
  <2>8. elapsed' + left' + ShutdownTimeout * Len(handles') <= Budget' + ShutdownTimeout
    BY ZenonT(60), <1>1, <1>3, <2>3, <2>5
  <2>9. ASSUME NEW c \in TcpConn, Live(c)'
        PROVE  c \in Awaited' \/ elapsed' >= ShutdownTimeout
    BY SMTT(60), <1>2, <1>5, <2>1, <2>3, <2>9, BridgeConfig DEF DrainInv
  <2>. QED
    BY Zenon, <1>1, <1>5, <2>3, <2>6, <2>7, <2>8, <2>9 DEF DrainInv
<1>. QED
  BY Zenon, <1>4, <1>5

\* A step of one session, on either listener.
LEMMA DrainSession ==
  ASSUME CountersOK, DrainInv, NEW c \in Conn,
         SessionStep(c) \/ Upgraded(c) \/ UpgradeFails(c) \/ (c \in WsConn /\ WsAccept(c))
  PROVE  DrainInv'
<1>0. UNCHANGED <<handles, server, left, elapsed>>
  BY Zenon DEF SessionStep, Upgraded, UpgradeFails, WsAccept, HandshakeDone, HandshakeFails,
         HandshakeTimesOut, BackendConnects, SessionRotates, SessionEnds, SlotFreed, serverVars
<1>1. CASE SessionRotates(c)
  <2>1. phase' = phase
    BY Zenon, <1>1 DEF SessionRotates
  <2>2. Taken' = Taken /\ \A d \in TcpConn : Live(d)' => Live(d)
    BY Zenon, <2>1 DEF Taken, Live
  <2>. QED
    BY Zenon, <1>0, <2>2, DrainUntouched
<1>2. CASE c \in WsConn /\ WsAccept(c)
  <2>1. c \notin TcpConn
    BY Zenon, <1>2, ConnAssumption
  <2>2. \E p \in {"upgrade", "rejected"} : phase' = [phase EXCEPT ![c] = p]
    BY Zenon, <1>2 DEF WsAccept, Enter
  <2>3. Taken' = Taken /\ \A d \in TcpConn : Live(d)' => Live(d)
    BY ZenonT(60), <2>1, <2>2, TakenStays DEF Phase
  <2>. QED
    BY Zenon, <1>0, <2>3, DrainUntouched
<1>3. CASE \/ HandshakeDone(c) \/ HandshakeFails(c) \/ HandshakeTimesOut(c)
           \/ BackendConnects(c) \/ SessionEnds(c) \/ SlotFreed(c)
           \/ Upgraded(c) \/ UpgradeFails(c)
  <2>1. /\ Live(c)
        /\ \E p \in {"handshake", "backend", "relay", "returning", "done"} :
             phase' = [phase EXCEPT ![c] = p]
    BY Zenon, <1>3 DEF HandshakeDone, HandshakeFails, HandshakeTimesOut, BackendConnects,
                SessionEnds, SlotFreed, Upgraded, UpgradeFails, Enter, Live
  <2>2. Taken' = Taken /\ \A d \in TcpConn : Live(d)' => Live(d)
    BY Zenon, <2>1, TakenStays DEF Phase
  <2>. QED
    BY Zenon, <1>0, <2>2, DrainUntouched
<1>. QED
  BY Zenon, <1>1, <1>2, <1>3 DEF SessionStep

\* Nothing is awaited in a fresh bridge.
LEMMA DrainInit == Init => DrainInv
<1>. SUFFICES ASSUME Init PROVE DrainInv
  BY Zenon
<1>1. Taken = {} /\ \A c \in TcpConn : ~Live(c)
  BY Zenon DEF Init, Taken, Live, Conn
<1>2. Cardinality(Taken) = 0
  BY Zenon, <1>1, FS_EmptySet
<1>3. handles = <<>> /\ Len(handles) = 0 /\ handles \in Seq(TcpConn)
  BY DEF Init
<1>4. left = 0 /\ elapsed = 0 /\ server = "accepting"
  BY Zenon DEF Init
<1>. QED
  BY SMTT(60), <1>1, <1>2, <1>3, <1>4, BudgetType DEF DrainInv

\* Every step keeps the drain within its budget.
LEMMA DrainStep == SlotInv /\ DrainInv /\ [Next]_vars => DrainInv'
<1>. SUFFICES ASSUME SlotInv, DrainInv, [Next]_vars PROVE DrainInv'
  BY Zenon
<1>0. CountersOK
  BY Zenon DEF SlotInv
<1>1. ASSUME NEW c \in TcpConn, TcpAccept(c) PROVE DrainInv'
  BY Zenon, <1>0, <1>1, DrainTaken
<1>2. ASSUME NEW c \in WsConn, WsAccept(c) \/ Upgraded(c) \/ UpgradeFails(c) PROVE DrainInv'
  <2>1. c \in Conn
    BY Zenon DEF Conn
  <2>. QED
    BY Zenon, <1>0, <1>2, <2>1, DrainSession
<1>3. ASSUME NEW c \in Conn, SessionStep(c) PROVE DrainInv'
  BY Zenon, <1>0, <1>3, DrainSession
<1>4. CASE RotateRequested \/ SignalReceived \/ WsLoopStops \/ UNCHANGED vars
  <2>1. UNCHANGED <<phase, handles, server, left, elapsed>>
    BY Zenon, <1>4 DEF RotateRequested, SignalReceived, WsLoopStops, vars, sessionVars, serverVars
  <2>2. Taken' = Taken /\ \A c \in TcpConn : Live(c)' => Live(c)
    BY Zenon, <2>1 DEF Taken, Live
  <2>. QED
    BY Zenon, <2>1, <2>2, DrainUntouched
<1>5. CASE Exit
  <2>1. /\ server' = "exited"
        /\ UNCHANGED <<phase, handles, left, elapsed>>
    BY Zenon, <1>5 DEF Exit, sessionVars
  <2>2. Taken' = Taken
    BY Zenon, <2>1 DEF Taken
  <2>3. Budget' = Budget
    BY Zenon, <2>2 DEF Budget
  <2>. QED
    BY Zenon, <2>1, <2>3 DEF DrainInv
<1>. QED
  BY ZenonT(60), <1>1, <1>2, <1>3, <1>4, <1>5, DrainStarts, DrainAdvances, DrainTicks DEF Next

\* run returns within one shutdown timeout per TCP session it took, and not
\* before a TCP session that still runs has had that time.
THEOREM DrainBoundedHolds == Spec => DrainBounded
<1>1. DrainInv => elapsed <= ShutdownTimeout
                               * Cardinality({c \in TcpConn : phase[c] \notin {"new", "rejected"}})
  BY Zenon DEF DrainInv, Budget, Taken
<1>2. DrainInv /\ [Next]_vars =>
        [server' = "exited" /\ Running =>
           \A c \in TcpConn : Live(c) => elapsed >= ShutdownTimeout]_vars
  <2>. SUFFICES ASSUME DrainInv, Next, server' = "exited", server # "exited",
                       NEW c \in TcpConn, Live(c)
                PROVE  elapsed >= ShutdownTimeout
    BY Zenon DEF Running
  <2>1. server = "draining" /\ handles = <<>>
    BY Zenon DEF DrainInv, Next, TcpAccept, WsAccept, Upgraded, UpgradeFails, SessionStep,
           HandshakeDone, HandshakeFails, HandshakeTimesOut, BackendConnects, SessionRotates,
           SessionEnds, SlotFreed, RotateRequested, SignalReceived, AcceptLoopStops, WsLoopStops,
           DrainNext, Exit, Tick, serverVars
  <2>2. c \notin Awaited
    BY <2>1 DEF Awaited
  <2>. QED
    BY Zenon, <2>1, <2>2 DEF DrainInv
<1>. QED
  BY <1>1, <1>2, SlotInit, SlotStep, DrainInit, DrainStep, PTL DEF Spec, DrainBounded

\* For any number of sessions and any timeout, every step of the drain that is not
\* the last takes a handle off the list or runs its timeout down, and none takes a
\* new session: the number of handles and the time left bound what run still waits.
THEOREM DrainRunsOutHolds == Spec => DrainRunsOut
<1>1. DrainInv /\ [Next]_vars =>
        [server # "accepting" /\ (handles' # handles \/ left' # left) =>
           /\ left' \in Nat
           /\ Len(handles') < Len(handles) \/ (handles' = handles /\ left' < left)]_vars
  <2>. SUFFICES ASSUME DrainInv, Next, server # "accepting", handles' # handles \/ left' # left
                PROVE  /\ left' \in Nat
                       /\ Len(handles') < Len(handles) \/ (handles' = handles /\ left' < left)
    BY Zenon
  <2>0. handles \in Seq(TcpConn) /\ left \in Nat
    BY Zenon DEF DrainInv
  <2>1. DrainNext \/ Tick
    BY Zenon DEF Next, TcpAccept, WsAccept, Upgraded, UpgradeFails, SessionStep,
           HandshakeDone, HandshakeFails, HandshakeTimesOut, BackendConnects, SessionRotates,
           SessionEnds, SlotFreed, RotateRequested, SignalReceived, AcceptLoopStops, WsLoopStops,
           Exit, serverVars
  <2>2. CASE DrainNext
    <3>1. handles # <<>> /\ handles' = Tail(handles) /\ left' = ShutdownTimeout
      BY Zenon, <2>2 DEF DrainNext, HandleReady
    <3>2. Len(Tail(handles)) < Len(handles)
      BY SMTT(60), <2>0, <3>1
    <3>. QED
      BY Zenon, <3>1, <3>2, BridgeConfig
  <2>3. CASE Tick
    <3>1. handles' = handles /\ left' = left - 1
      BY Zenon, <2>3 DEF Tick
    <3>2. left # 0
      BY Zenon, <2>3, <3>1 DEF Tick, HandleReady
    <3>. QED
      BY SMTT(60), <2>0, <3>1, <3>2
  <2>. QED
    BY Zenon, <2>1, <2>2, <2>3
<1>. QED
  BY <1>1, SlotInit, SlotStep, DrainInit, DrainStep, PTL DEF Spec, DrainRunsOut
=============================================================================
