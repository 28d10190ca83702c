---------------------------- MODULE CryptoWorker ----------------------------
(***************************************************************************)
(* The Web Worker of the browser SDK (latticeshield-js/src/worker/         *)
(* crypto.worker.ts with framing.ts) as operators on a worker record.      *)
(*                                                                         *)
(* A message is handled in two steps.  Take runs its handler up to the     *)
(* first await of crypto.subtle: the key and the counters it needs are     *)
(* read here.  Finish runs the rest.  Web Crypto promises no order, so the *)
(* operations in ops finish in any order, and between its two steps a      *)
(* handler sees the others'.                                               *)
(***************************************************************************)
EXTENDS EncryptedChannel

\* sessionKey is null until INIT is done (init = FALSE).
spawned ==
  [alive |-> TRUE, init |-> FALSE, key |-> <<>>, send_seq |-> 0, recv_seq |-> 0,
   recv_initialized |-> FALSE, key_rotate_recv_seq |-> 0,
   inbox |-> <<>>, ops |-> {}, outbox |-> <<>>]

\* worker.terminate(): nothing it holds or has posted is seen again.
terminated == [spawned EXCEPT !.alive = FALSE]

posted(w, m) == IF w.alive THEN [w EXCEPT !.inbox = Append(@, m)] ELSE w

Post(w, m) == [w EXCEPT !.outbox = Append(@, m)]

\* encodeFrame: seqToNonce leaves the epoch of the nonce at 0.
encodeFrame(key, seq) ==
  [type |-> "DATA", key |-> key, aad |-> seq, len |-> 0, nonce |-> <<seq, 0>>]

decode_rejects_no_bootstrap(w, f) ==   \* mutant: recvInitialized is ignored
  f.aad <= w.recv_seq \/ f.nonce # <<f.aad, 0>>

\* What decodeFrame checks before it decrypts: replay, and the nonce.
decode_rejects(w, f) ==
  \/ w.recv_initialized /\ f.aad <= w.recv_seq
  \/ f.nonce # <<f.aad, 0>>

Started(w, m) ==
  CASE m.t = "INIT" -> m
    [] m.t = "ENCRYPT" -> [t |-> m.t, id |-> m.id, key |-> w.key, seq |-> w.send_seq]
    [] m.t = "DECRYPT" -> [t |-> m.t, f |-> m.f, key |-> w.key]
    [] m.t = "KEY_ROTATE" -> [t |-> m.t, f |-> m.f, key |-> w.key, aad |-> w.key_rotate_recv_seq]

\* The worker's event loop takes the next message.
Take(w) ==
  LET m == Head(w.inbox)
      v == [w EXCEPT !.inbox = Tail(@)]
  IN  IF m.t = "KEY_ROTATE" /\ ~w.init THEN Post(v, [t |-> "KEY_ROTATE_ERR"])
      ELSE IF \/ m.t \in {"ENCRYPT", "DECRYPT"} /\ ~w.init
              \/ m.t = "DECRYPT" /\ decode_rejects(w, m.f)
      THEN Post(v, [t |-> "CRYPTO_ERR", of |-> m])
      ELSE [v EXCEPT !.ops = @ \cup {Started(w, m)}]

\* The handshake's key, as a Web Crypto key.
importSessionKey == <<>>

\* The key, then the counters of a fresh session.
handleInit(w, op) ==
  IF op.hello = "good"
  THEN Post([w EXCEPT !.init = TRUE, !.key = importSessionKey, !.send_seq = 0, !.recv_seq = 0,
                      !.recv_initialized = FALSE, !.key_rotate_recv_seq = 0],
            [t |-> "INIT_OK"])
  ELSE Post(w, [t |-> "INIT_ERR"])

handleEncrypt(w, op) ==
  Post([w EXCEPT !.send_seq = @ + 1],
       [t |-> "ENCRYPTED", id |-> op.id, f |-> encodeFrame(op.key, op.seq)])

handleDecrypt(w, op) ==
  IF op.f.key = op.key
  THEN Post([w EXCEPT !.recv_seq = op.f.aad, !.recv_initialized = TRUE],
            [t |-> "DECRYPTED", f |-> op.f])
  ELSE Post(w, [t |-> "CRYPTO_ERR", of |-> [t |-> "DECRYPT", f |-> op.f]])

\* processKeyRotate opens the frame with the key and the counter of its start,
\* and derives the next key from them as the bridge does.
opensRotation(op) == op.f.key = op.key /\ op.f.aad = op.aad
rotatedKey(op) == Append(op.key, op.f.rotation_nonce)

handleKeyRotate(w, op) ==
  IF opensRotation(op)
  THEN Post([w EXCEPT !.key = rotatedKey(op), !.send_seq = 0,
                      !.recv_seq = 0, !.recv_initialized = FALSE,
                      !.key_rotate_recv_seq = @ + 1],
            [t |-> "KEY_ROTATED"])
  ELSE Post(w, [t |-> "KEY_ROTATE_ERR"])

\* The await of op returns.
Finish(w, op) ==
  LET v == [w EXCEPT !.ops = @ \ {op}]
  IN  CASE op.t = "INIT" -> handleInit(v, op)
        [] op.t = "ENCRYPT" -> handleEncrypt(v, op)
        [] op.t = "DECRYPT" -> handleDecrypt(v, op)
        [] op.t = "KEY_ROTATE" -> handleKeyRotate(v, op)
=============================================================================
