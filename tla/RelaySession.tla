--------------------------- MODULE RelaySession ---------------------------
(***************************************************************************)
(* One established session: the bridge's relay loop (session.rs), the      *)
(* client's (client_session.rs, run_relay), an EncryptedChannel at each    *)
(* end and the TCP connection between them.                                *)
(*                                                                         *)
(* Both loops are a tokio::select! with `channel.read_frame` as one arm.   *)
(* read_frame awaits once per field, so a frame arrives in pieces; when    *)
(* another arm wins, the pending read_frame is dropped and the bytes it    *)
(* had taken are gone.  A frame is two pieces here, header and body, which *)
(* is where the difference shows:                                          *)
(*                                                                         *)
(*   log[x]   every frame x sealed, in order; TCP delivers its pieces in   *)
(*            order and once                                               *)
(*   part[x]  only the header of the last frame of log[x] is written       *)
(*   pos[x]   pieces x has read of what its peer wrote                     *)
(*   rd[x]    where x's read_frame is: before a header ("start"), past a   *)
(*            good header ("body"), or past bytes it took for a header     *)
(*            ("junk")                                                     *)
(*                                                                         *)
(* When pos[x] is odd and rd[x] = "start" the next read_frame begins in    *)
(* the middle of a frame.                                                  *)
(***************************************************************************)
EXTENDS EncryptedChannel, FiniteSets

CONSTANTS
  ClientFrameSize,      \* the client's max_frame_size (and read buffer)
  BridgeFrameSize,      \* the bridge's max_frame_size (and read buffer)
  KeyRotationEnabled,   \* [key_rotation].enabled of the bridge
  MaxBytesPerKey,       \* [key_rotation].max_bytes_per_key
  Window,               \* pieces the socket buffers of a direction hold
  MaxFrames,            \* bound: DATA frames per side
  MaxRotations,         \* bound: rotations by timer or request
  MaxRequests           \* bound: rotate requests (admin, control plane)

ASSUME SizeAssumption ==
  /\ ClientFrameSize \in Nat \ {0} /\ BridgeFrameSize \in Nat \ {0}
  /\ KeyRotationEnabled \in BOOLEAN
  /\ MaxBytesPerKey \in Nat \ {0} /\ Window \in Nat
  /\ MaxFrames \in Nat /\ MaxRotations \in Nat /\ MaxRequests \in Nat

VARIABLES
  ch,         \* ch[x]: x's EncryptedChannel
  log, part, pos, rd,
  pc,         \* pc[x]: where x's loop is
  out,        \* out[x]: the peer's frames x decrypted and handed on
  err,        \* err[x]: the read_frame error that ended x's loop
  cut,        \* cut[x]: a read_frame of x was dropped past a header
  bytes_this_epoch, rotate_rx, requests, rotations,
  user_eof, outcome

vars == <<ch, log, part, pos, rd, pc, out, err, cut, bytes_this_epoch,
          rotate_rx, requests, rotations, user_eof, outcome>>
readerVars == <<pos, rd, out, err>>
bridgeVars == <<bytes_this_epoch, rotate_rx, requests, rotations>>
clientVars == <<user_eof, outcome>>

Side == {"bridge", "client"}
Peer(x) == IF x = "bridge" THEN "client" ELSE "bridge"
FrameSize(x) == IF x = "bridge" THEN BridgeFrameSize ELSE ClientFrameSize

IsData(x, i) == log[x][i].type = "DATA"
LastFrame(x) == log[x][Len(log[x])]
DataFrames(x) == {i \in DOMAIN log[x] : IsData(x, i)}
KeyRotates(x) == {i \in DOMAIN log[x] : ~IsData(x, i)}
Written(x) == 2 * Len(log[x]) - (IF part[x] THEN 1 ELSE 0)

Init ==
  /\ ch = [x \in Side |-> new(FrameSize(x))]
  /\ log = [x \in Side |-> <<>>]
  /\ part = [x \in Side |-> FALSE]
  /\ pos = [x \in Side |-> 0]
  /\ rd = [x \in Side |-> "start"]
  /\ pc = [x \in Side |-> "select"]
  /\ out = [x \in Side |-> <<>>]
  /\ err = [x \in Side |-> "none"]
  /\ cut = [x \in Side |-> FALSE]
  /\ bytes_this_epoch = 0 /\ rotate_rx = FALSE /\ requests = 0 /\ rotations = 0
  /\ user_eof = FALSE /\ outcome = "none"

-----------------------------------------------------------------------------
(* Pieces of the loops.                                                    *)

(* Another arm of x's select! won: its read_frame future is dropped.       *)
DropRead(x) ==
  /\ rd' = [rd EXCEPT ![x] = "start"]
  /\ cut' = [cut EXCEPT ![x] = @ \/ rd[x] # "start"]

(* x's loop is over and its sockets close.                                 *)
Exit(x) == pc' = [pc EXCEPT ![x] = "done"]

ReadFails_goes_on(x, e) ==   \* mutant: the loop logs the error and continues
  err' = [err EXCEPT ![x] = e] /\ UNCHANGED <<pc, outcome>>

(* read_frame returned an error.  The bridge counts it and breaks; for the *)
(* client it is a clean end after the user's EOF, else a bridge error.     *)
ReadFails(x, e) ==
  /\ Exit(x)
  /\ err' = [err EXCEPT ![x] = e]
  /\ outcome' = IF x = "bridge" THEN outcome
                ELSE IF user_eof THEN "UserEof" ELSE "BridgeError"

(* x puts frame f on the wire, header first.                               *)
PutHeader(x, f) ==
  /\ log' = [log EXCEPT ![x] = Append(@, f)]
  /\ part' = [part EXCEPT ![x] = TRUE]

(* write_all blocks while the buffers are full; one place stands for all.  *)
Full(x) == Written(x) - pos[Peer(x)] > Window
PutBody(x) ==
  /\ ~Full(x)
  /\ part' = [part EXCEPT ![x] = FALSE]
  /\ UNCHANGED log

-----------------------------------------------------------------------------
(* read_frame, on either side.                                             *)

Readable_until_eof(x) ==   \* mutant: the client stops reading with its user
  /\ pc[x] = "select" /\ pos[x] < Written(Peer(x))
  /\ x = "client" => ~user_eof
Readable(x) == pc[x] = "select" /\ pos[x] < Written(Peer(x))
Aligned(x) == pos[x] % 2 = 0

ReadHeader(x) ==
  /\ Readable(x) /\ rd[x] = "start" /\ Aligned(x)
  /\ LET e == header_error(ch[x], log[Peer(x)][pos[x] \div 2 + 1])
     IN  IF e = "none"
         THEN rd' = [rd EXCEPT ![x] = "body"] /\ UNCHANGED <<pc, err, outcome>>
         ELSE ReadFails(x, e) /\ UNCHANGED rd
  /\ pos' = [pos EXCEPT ![x] = @ + 1]
  /\ UNCHANGED <<ch, log, part, out, cut, bridgeVars, user_eof>>

(* A read_frame that starts inside a frame takes ciphertext for a header.  *)
(* The bytes decide: an error at once, or a type and length that make it   *)
(* wait for more.  What it gathers never authenticates.                    *)
MisreadFails(x) ==
  /\ Readable(x)
  /\ rd[x] = "junk" \/ (rd[x] = "start" /\ ~Aligned(x))
  /\ \E e \in {"Invalid", "Replay", "AeadFailure"} : ReadFails(x, e)
  /\ pos' = [pos EXCEPT ![x] = @ + 1]
  /\ UNCHANGED <<ch, log, part, rd, out, cut, bridgeVars, user_eof>>

MisreadWaits(x) ==
  /\ Readable(x)
  /\ rd[x] = "junk" \/ (rd[x] = "start" /\ ~Aligned(x))
  /\ rd' = [rd EXCEPT ![x] = "junk"]
  /\ pos' = [pos EXCEPT ![x] = @ + 1]
  /\ UNCHANGED <<ch, log, part, pc, out, err, cut, bridgeVars, clientVars>>

(* Mutant: an end of stream between two frames goes unnoticed.             *)
ReadIo_misses_end(x) ==
  /\ pc[x] = "select" /\ rd[x] # "start"
  /\ pos[x] = Written(Peer(x)) /\ pc[Peer(x)] = "done"
  /\ ReadFails(x, "Io")
  /\ UNCHANGED <<ch, log, part, pos, rd, out, cut, bridgeVars, user_eof>>

(* The peer's end of stream, or a reset: the peer closed its socket with   *)
(* bytes of ours unread, which discards what we had not read yet.          *)
ReadIo(x) ==
  /\ pc[x] = "select"
  /\ \/ /\ pos[x] = Written(Peer(x))
        /\ pc[Peer(x)] = "done" \/ (x = "bridge" /\ user_eof)
     \/ pc[Peer(x)] = "done" /\ pos[Peer(x)] < Written(x)
  /\ ReadFails(x, "Io")
  /\ UNCHANGED <<ch, log, part, pos, rd, out, cut, bridgeVars, user_eof>>

(* The whole frame is here: the frame being read, and how it ends.         *)
BodyReady(x) == Readable(x) /\ rd[x] = "body"
Incoming(x) == log[Peer(x)][pos[x] \div 2 + 1]
TakeBody_rescans(x) ==   \* mutant: the parser is not reset after a frame
  /\ pos' = [pos EXCEPT ![x] = @ + 1]
  /\ UNCHANGED <<rd, log, part, cut, bridgeVars, user_eof>>
TakeBody(x) ==
  /\ pos' = [pos EXCEPT ![x] = @ + 1]
  /\ rd' = [rd EXCEPT ![x] = "start"]
  /\ UNCHANGED <<log, part, cut, bridgeVars, user_eof>>

BodyRejected(x) ==
  /\ BodyReady(x) /\ ~opens(ch[x], Incoming(x))
  /\ ReadFails(x, "AeadFailure")
  /\ TakeBody(x)
  /\ UNCHANGED <<ch, out>>

(* A DATA frame: written to the backend (the user), which may fail and end *)
(* the loop.  The bridge also ends on an empty frame.                      *)
DataForwarded(x) ==
  /\ BodyReady(x) /\ opens(ch[x], Incoming(x)) /\ Incoming(x).type = "DATA"
  /\ ch' = [ch EXCEPT ![x] = accept(@, Incoming(x))]
  /\ IF x = "bridge" /\ Incoming(x).len = 0
     THEN Exit(x) /\ UNCHANGED out
     ELSE out' = [out EXCEPT ![x] = Append(@, pos[x] \div 2 + 1)] /\ UNCHANGED pc
  /\ TakeBody(x)
  /\ UNCHANGED <<err, outcome>>

DataUndeliverable(x) ==
  /\ BodyReady(x) /\ opens(ch[x], Incoming(x)) /\ Incoming(x).type = "DATA"
  /\ ch' = [ch EXCEPT ![x] = accept(@, Incoming(x))]
  /\ Exit(x)
  /\ outcome' = IF x = "client" THEN "UserError" ELSE outcome
  /\ TakeBody(x)
  /\ UNCHANGED <<out, err>>

(* A KEY_ROTATE frame: the client ratchets; the bridge closes (it is the   *)
(* only side that initiates).                                              *)
KeyRotateReceived(x) ==
  /\ BodyReady(x) /\ opens(ch[x], Incoming(x)) /\ Incoming(x).type = "KEY_ROTATE"
  /\ IF x = "client"
     THEN /\ ch' = [ch EXCEPT ![x] = rotate_key(accept(@, Incoming(x)),
                                                Incoming(x).rotation_nonce)]
          /\ UNCHANGED pc
     ELSE ch' = [ch EXCEPT ![x] = accept(@, Incoming(x))] /\ Exit(x)
  /\ TakeBody(x)
  /\ UNCHANGED <<out, err, outcome>>

-----------------------------------------------------------------------------
(* The other arms, and write_frame, which runs inside an arm: x reads      *)
(* nothing until it is done.                                               *)

(* Plaintext arrived from the backend (the user): seal it and write.       *)
PlaintextRead(x, n) ==
  /\ pc[x] = "select" /\ (x = "client" => ~user_eof)
  /\ Cardinality(DataFrames(x)) < MaxFrames
  /\ PutHeader(x, data_frame(ch[x], n))
  /\ pc' = [pc EXCEPT ![x] = "write"]
  /\ DropRead(x)
  /\ UNCHANGED <<ch, pos, out, err, bridgeVars, clientVars>>

WriteDone(x) ==
  /\ pc[x] = "write"
  /\ PutBody(x)
  /\ ch' = [ch EXCEPT ![x] = write_frame(@)]
  /\ IF x = "client"
     THEN pc' = [pc EXCEPT ![x] = "select"] /\ UNCHANGED bytes_this_epoch
     ELSE /\ bytes_this_epoch' = bytes_this_epoch + LastFrame(x).len
          /\ pc' = [pc EXCEPT ![x] =
                      IF KeyRotationEnabled /\ bytes_this_epoch' >= MaxBytesPerKey
                      THEN "rotate" ELSE "select"]
  /\ UNCHANGED <<readerVars, cut, rotate_rx, requests, rotations, clientVars>>

(* Writing to a peer that is gone.                                         *)
WriteFails(x) ==
  /\ pc[x] \in {"write", "rotating"} /\ pc[Peer(x)] = "done"
  /\ Exit(x)
  /\ outcome' = IF x = "client" THEN "BridgeError" ELSE outcome
  /\ UNCHANGED <<ch, log, part, readerVars, cut, bridgeVars, user_eof>>

(* The backend closed or failed; the user's socket failed.                 *)
PlaintextEnds(x) ==
  /\ pc[x] = "select" /\ (x = "client" => ~user_eof)
  /\ Exit(x) /\ DropRead(x)
  /\ outcome' = IF x = "client" THEN "UserError" ELSE outcome
  /\ UNCHANGED <<ch, log, part, pos, out, err, bridgeVars, user_eof>>

(* The user closed its side: the client shuts down its half to the bridge  *)
(* and keeps reading.                                                      *)
UserEof ==
  /\ pc["client"] = "select" /\ ~user_eof
  /\ user_eof' = TRUE
  /\ DropRead("client")
  /\ UNCHANGED <<ch, log, part, pos, pc, out, err, bridgeVars, outcome>>

-----------------------------------------------------------------------------
(* Key rotation, always initiated by the bridge.                           *)

(* rotate_tx.send_modify, by the admin channel or the control plane.       *)
RequestRotate ==
  /\ requests < MaxRequests
  /\ requests' = requests + 1
  /\ rotate_rx' = TRUE
  /\ UNCHANGED <<ch, log, part, readerVars, pc, cut, bytes_this_epoch,
                 rotations, clientVars>>

RotateTimer ==
  /\ pc["bridge"] = "select" /\ KeyRotationEnabled
  /\ Cardinality(KeyRotates("bridge")) < MaxRotations
  /\ pc' = [pc EXCEPT !["bridge"] = "rotate"]
  /\ DropRead("bridge")
  /\ UNCHANGED <<ch, log, part, pos, out, err, bridgeVars, clientVars>>

(* rotate_rx.changed(): several requests since the last one are one.       *)
RotateRequested ==
  /\ pc["bridge"] = "select" /\ rotate_rx
  /\ rotate_rx' = FALSE
  /\ pc' = [pc EXCEPT !["bridge"] = "rotate"]
  /\ DropRead("bridge")
  /\ UNCHANGED <<ch, log, part, pos, out, err, bytes_this_epoch, requests,
                 rotations, clientVars>>

RotateStart(r) ==
  /\ pc["bridge"] = "rotate"
  /\ PutHeader("bridge", key_rotate_frame(ch["bridge"], r))
  /\ pc' = [pc EXCEPT !["bridge"] = "rotating"]
  /\ UNCHANGED <<ch, readerVars, cut, bridgeVars, clientVars>>

RotateDone ==
  /\ pc["bridge"] = "rotating"
  /\ PutBody("bridge")
  /\ ch' = [ch EXCEPT !["bridge"] =
               rotate_key(send_key_rotate(@), LastFrame("bridge").rotation_nonce)]
  /\ bytes_this_epoch' = 0
  /\ rotations' = rotations + 1
  /\ pc' = [pc EXCEPT !["bridge"] = "select"]
  /\ UNCHANGED <<readerVars, cut, rotate_rx, requests, clientVars>>

-----------------------------------------------------------------------------
Read(x) ==
  \/ ReadHeader(x) \/ MisreadFails(x) \/ MisreadWaits(x) \/ ReadIo(x)
  \/ BodyRejected(x) \/ DataForwarded(x) \/ DataUndeliverable(x)
  \/ KeyRotateReceived(x)

Write(x) ==
  \/ \E n \in 1 .. FrameSize(x) : PlaintextRead(x, n)
  \/ WriteDone(x) \/ WriteFails(x) \/ PlaintextEnds(x)

Rotate ==
  \/ RequestRotate \/ RotateTimer \/ RotateRequested
  \/ \E r \in RotationNonce : RotateStart(r)
  \/ RotateDone

Next == (\E x \in Side : Read(x) \/ Write(x)) \/ UserEof \/ Rotate

Spec == Init /\ [][Next]_vars

(* A ready arm of select! is taken in the end (tokio polls the arms in     *)
(* random order), and a write in progress goes on.  Nothing is assumed of  *)
(* the user, the backend, the rotation timer or who requests rotations.    *)
Fairness ==
  /\ \A x \in Side : WF_vars(Read(x)) /\ WF_vars(WriteDone(x) \/ WriteFails(x))
  /\ WF_vars(RotateRequested)
  /\ WF_vars(\E r \in RotationNonce : RotateStart(r))
  /\ WF_vars(RotateDone)

FairSpec == Spec /\ Fairness

-----------------------------------------------------------------------------
(* Properties.                                                             *)

TypeOK ==
  /\ ch \in [Side -> Channel]
  /\ log \in [Side -> Seq(Frame)]
  /\ part \in [Side -> BOOLEAN] /\ cut \in [Side -> BOOLEAN]
  /\ pos \in [Side -> Nat]
  /\ rd \in [Side -> {"start", "body", "junk"}]
  /\ pc \in [Side -> {"select", "write", "rotate", "rotating", "done"}]
  /\ out \in [Side -> Seq(Nat)]
  /\ err \in [Side -> FrameErrors \cup {"none"}]
  /\ bytes_this_epoch \in Nat /\ rotations \in Nat /\ requests \in Nat
  /\ rotate_rx \in BOOLEAN /\ user_eof \in BOOLEAN
  /\ outcome \in {"none", "UserEof", "UserError", "BridgeError"}

(* No endpoint seals two DATA frames under one key with one GCM nonce,     *)
(* whatever rotations reset its counter in between (channel.rs, write_frame*)
(* and rotate_key; the epoch may wrap).                                    *)
NonceUnique ==
  \A x \in Side : \A i, j \in DataFrames(x) :
    i # j => <<log[x][i].key, log[x][i].nonce>> # <<log[x][j].key, log[x][j].nonce>>

(* What an endpoint hands on are DATA frames its peer sealed, each at most *)
(* once and in the order they were sealed, even when cancelled reads made  *)
(* it parse the stream from the middle of a frame.                         *)
InOrder ==
  \A x \in Side : \A k \in DOMAIN out[x] :
    /\ out[x][k] \in DataFrames(Peer(x))
    /\ \A m \in 1 .. k - 1 : out[x][m] < out[x][k]

(* The client's key is the bridge's or one the bridge went through before: *)
(* the two ratchets never fork, wherever KEY_ROTATE frames are.            *)
KeyAgreement == Precedes(ch["client"].key, ch["bridge"].key)

(* A rotation is over for both once the client has read it: a client that  *)
(* is level with the bridge, and lost no read, has the bridge's key.       *)
KeysMeet ==
  (~cut["client"] /\ pc["client"] # "done" /\ ~part["bridge"]
     /\ pos["client"] = Written("bridge"))
    => ch["client"].key = ch["bridge"].key

(* x's counters and key after a step: under the same key none has gone     *)
(* back, and a frame handed on has moved the receive window; or the key    *)
(* has been ratcheted once.                                                *)
Forward(x) ==
  \/ /\ ch'[x].key = ch[x].key
     /\ ch[x].send_seq <= ch'[x].send_seq
     /\ ch[x].recv_initialized =>
          /\ ch'[x].recv_initialized /\ ch[x].recv_seq <= ch'[x].recv_seq
          /\ out'[x] # out[x] => ch[x].recv_seq < ch'[x].recv_seq
  \/ /\ \E r \in RotationNonce : ch'[x].key = Append(ch[x].key, r)
     /\ out'[x] = out[x]

(* Nothing takes an endpoint back, whatever is cancelled or misread: the   *)
(* header of a frame is held against the receive window before the body is *)
(* awaited (read_frame), and the window is still the same when the body    *)
(* has come and the frame is counted.                                      *)
ForwardOnly == [][\A x \in Side : Forward(x)]_vars

(* Nothing is skipped: what an endpoint handed on is everything its peer   *)
(* sealed up to there.                                                     *)
NoGap(x) ==
  \A k \in DOMAIN out[x] : \A i \in DataFrames(Peer(x)) :
    i < out[x][k] => \E m \in DOMAIN out[x] : out[x][m] = i

(* As long as no read_frame was dropped past a header, no frame is skipped *)
(* (read_frame itself accepts any larger seq).                             *)
GapFreeUnlessCut == \A x \in Side : ~cut[x] => NoGap(x)

(* With frame sizes that agree and no dropped read, the client rejects no  *)
(* frame of the bridge: KEY_ROTATE is in order with the DATA around it.    *)
ClientRejectsNothing ==
  ~cut["client"] /\ BridgeFrameSize <= ClientFrameSize
    => err["client"] \in {"none", "Io"}

(* ... and the only frames the bridge rejects are ones the client sealed   *)
(* before it had read a KEY_ROTATE of the bridge.                          *)
BridgeRejectsOnlyStaleKeys ==
  (~cut["bridge"] /\ ClientFrameSize <= BridgeFrameSize
     /\ err["bridge"] \notin {"none", "Io"})
    => /\ err["bridge"] = "AeadFailure"
       /\ LET k == log["client"][pos["bridge"] \div 2].key
          IN  k # ch["bridge"].key /\ Precedes(k, ch["bridge"].key)

(* The relay implements ordered, at-most-once delivery in each direction.  *)
IsDataFrame(f) == f.type = "DATA"
Delivery == INSTANCE OrderedDelivery WITH
  End <- Side, Other <- Peer, Deliverable <- IsDataFrame,
  sent <- log, got <- out
RefinesDelivery == Delivery!Spec

(* Once one loop is over the other one ends as well; and when the user     *)
(* closes both come to an end: the client's half close reaches the bridge, *)
(* whose close reaches the client.                                         *)
EndsTogether ==
  /\ \A x \in Side : pc[x] = "done" ~> pc[Peer(x)] = "done"
  /\ user_eof ~> \A x \in Side : pc[x] = "done"

(* Both loops wait in an arm for the other to read, and neither does.      *)
Wedged ==
  \A x \in Side : pc[x] \in {"write", "rotating"} /\ Full(x)

(* A loop is not held up for ever in write_frame or do_rotate by a peer    *)
(* that is not writing itself, whether or not its user has closed: the     *)
(* wedge of two full directions is the only way for a session to be stuck. *)
WriteEnds ==
  \A x \in Side : pc[x] \in {"write", "rotating"}
                   ~> pc[x] \notin {"write", "rotating"} \/ Wedged

-----------------------------------------------------------------------------
(* A claim of the documentation that the code does not keep.               *)

(* tests.rs:8: rotating the key does not cut the connection.  The bridge   *)
(* changes its receiving key as soon as it sent KEY_ROTATE, while frames   *)
(* under the old key are on their way.                                     *)
RotationKeepsSession == ~cut["bridge"] => err["bridge"] # "AeadFailure"

=============================================================================
