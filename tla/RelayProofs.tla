---------------------------- MODULE RelayProofs -----------------------------
(***************************************************************************)
(* Proofs about RelaySession, for any number of frames, rotations and      *)
(* epochs: its types, that no endpoint uses a nonce twice under one key,   *)
(* that what is handed on is in order and, while no read was dropped,      *)
(* without a gap, that the two key ratchets never fork, and that the       *)
(* session implements OrderedDelivery.                                     *)
(***************************************************************************)
EXTENDS RelaySession, TLAPS

(* The channel operations of channel.rs map channels to channels.          *)
LEMMA ChannelOps ==
  ASSUME NEW c \in Channel
  PROVE  /\ write_frame(c) \in Channel
         /\ send_key_rotate(c) \in Channel
         /\ \A r \in RotationNonce : rotate_key(c, r) \in Channel
         /\ \A f \in Frame : accept(c, f) \in Channel
         /\ \A n \in Nat : data_frame(c, n) \in DataFrame
         /\ \A r \in RotationNonce : key_rotate_frame(c, r) \in KeyRotateFrame
<1>1. (c.epoch + 1) % EpochMod \in 0 .. EpochMod - 1
  BY EpochAssumption DEF Channel
<1>2. \A r \in RotationNonce : Append(c.key, r) \in Key
  BY DEF Channel, Key
<1>3. write_frame(c) \in Channel /\ send_key_rotate(c) \in Channel
  BY DEF Channel, write_frame, send_key_rotate
<1>4. \A r \in RotationNonce : rotate_key(c, r) \in Channel
  BY Zenon, <1>1, <1>2 DEF Channel, rotate_key
<1>5. \A f \in Frame : accept(c, f) \in Channel
  <2>. TAKE f \in Frame
  <2>1. CASE f \in DataFrame
    <3>1. f.type = "DATA" /\ f.aad \in Nat
      BY Zenon, <2>1 DEF DataFrame
    <3>2. accept(c, f) = [c EXCEPT !.recv_seq = f.aad, !.recv_initialized = TRUE]
      BY Zenon, <3>1 DEF accept
    <3>. QED
      BY Zenon, <3>1, <3>2 DEF Channel
  <2>2. CASE f \in KeyRotateFrame
    <3>1. f.type # "DATA"
      BY Zenon, <2>2 DEF KeyRotateFrame
    <3>2. accept(c, f) = [c EXCEPT !.key_rotate_recv_seq = @ + 1]
      BY Zenon, <3>1 DEF accept
    <3>. QED
      BY <3>2 DEF Channel
  <2>. QED
    BY Zenon, <2>1, <2>2 DEF Frame
<1>6. \A n \in Nat : data_frame(c, n) \in DataFrame
  BY Zenon DEF Channel, DataFrame, data_frame
<1>7. \A r \in RotationNonce : key_rotate_frame(c, r) \in KeyRotateFrame
  BY Zenon DEF Channel, KeyRotateFrame, key_rotate_frame
<1>. QED
  BY Zenon, <1>3, <1>4, <1>5, <1>6, <1>7

(* What the operations do to the key and to the counters of the proofs.    *)
LEMMA ChannelFields ==
  ASSUME NEW c \in Channel
  PROVE  /\ c.key \in Key /\ Len(c.key) \in Nat /\ c.send_seq \in Nat
         /\ write_frame(c).key = c.key /\ write_frame(c).send_seq = c.send_seq + 1
         /\ send_key_rotate(c).key = c.key
         /\ \A f : accept(c, f).key = c.key /\ accept(c, f).send_seq = c.send_seq
         /\ \A r \in RotationNonce :
              /\ rotate_key(c, r).key = Append(c.key, r)
              /\ Len(rotate_key(c, r).key) = Len(c.key) + 1
<1>1. c.key \in Key /\ Len(c.key) \in Nat /\ c.send_seq \in Nat
  BY DEF Channel, Key
<1>2. /\ write_frame(c).key = c.key /\ write_frame(c).send_seq = c.send_seq + 1
      /\ send_key_rotate(c).key = c.key
  BY Zenon DEF Channel, write_frame, send_key_rotate
<1>3. \A f : accept(c, f).key = c.key /\ accept(c, f).send_seq = c.send_seq
  BY Zenon DEF Channel, accept
<1>4. \A r \in RotationNonce : rotate_key(c, r).key = Append(c.key, r)
  BY Zenon DEF Channel, rotate_key
<1>5. \A r \in RotationNonce : Len(Append(c.key, r)) = Len(c.key) + 1
  BY <1>1 DEF Key
<1>. QED
  BY Zenon, <1>1, <1>2, <1>3, <1>4, <1>5

-----------------------------------------------------------------------------
(* What the type invariant needs to be inductive: where an endpoint's loop *)
(* is tells which frame it is in the middle of writing.  Only the bridge   *)
(* rotates.                                                                *)
Pending(x) ==
  /\ part[x] => Len(log[x]) > 0
  /\ pc[x] \in {"select", "rotate"} => ~part[x]
  /\ pc[x] = "write" =>
       /\ part[x] /\ LastFrame(x) \in DataFrame
       /\ LastFrame(x).key = ch[x].key /\ LastFrame(x).nonce[1] = ch[x].send_seq
  /\ pc[x] = "rotating" =>
       part[x] /\ LastFrame(x) \in KeyRotateFrame /\ LastFrame(x).key = ch[x].key
  /\ pc[x] \in {"rotate", "rotating"} => x = "bridge"

TypeInv ==
  /\ TypeOK
  /\ \A x \in Side : Pending(x)
  /\ log["client"] \in Seq(DataFrame)

(* Either endpoint's channel is one, in every well-typed state.            *)
LEMMA ChannelTyped ==
  ASSUME TypeInv, NEW x \in Side
  PROVE  ch[x] \in Channel
BY Zenon DEF TypeInv, TypeOK

(* The elements of a sequence over S are in S.                             *)
LEMMA ElementTyped ==
  ASSUME NEW S, NEW s \in Seq(S), NEW i \in DOMAIN s
  PROVE  s[i] \in S
OBVIOUS

(* The frame a piece is of: piece p of m frames, two to a frame.           *)
LEMMA PieceFrame ==
  ASSUME NEW p \in Nat, NEW m \in Nat, p < 2 * m
  PROVE  /\ p \div 2 + 1 \in 1 .. m
         /\ p % 2 = 1 =>
              /\ 2 * (p \div 2 + 1) = p + 1
              /\ p < 2 * m - 1 => p \div 2 + 1 < m
<1>1. p \div 2 + 1 \in 1 .. m
  OBVIOUS
<1>2. p % 2 = 1 => 2 * (p \div 2 + 1) = p + 1
  OBVIOUS
<1>. QED
  BY <1>1, <1>2

(* A piece that can be read belongs to a frame of the peer's log, and a    *)
(* body only when the frame is wholly written.                             *)
LEMMA ReadableFrame ==
  ASSUME TypeInv, NEW x \in Side, pos[x] < Written(Peer(x))
  PROVE  /\ pos[x] \div 2 + 1 \in DOMAIN log[Peer(x)]
         /\ log[Peer(x)][pos[x] \div 2 + 1] \in Frame
         /\ pos[x] % 2 = 1 =>
              /\ 2 * (pos[x] \div 2 + 1) = pos[x] + 1
              /\ part[Peer(x)] => pos[x] \div 2 + 1 < Len(log[Peer(x)])
<1>1. Peer(x) \in Side
  BY Zenon DEF Side, Peer
<1>2. log[Peer(x)] \in Seq(Frame) /\ part[Peer(x)] \in BOOLEAN /\ pos[x] \in Nat
  BY Zenon, <1>1 DEF TypeInv, TypeOK
<1>. DEFINE n == Len(log[Peer(x)])
<1>3. n \in Nat /\ DOMAIN log[Peer(x)] = 1 .. n
  BY <1>2
<1>4. pos[x] < 2 * n /\ (part[Peer(x)] => pos[x] < 2 * n - 1)
  <2>1. CASE part[Peer(x)]
    BY <1>2, <1>3, <2>1 DEF Written
  <2>2. CASE ~part[Peer(x)]
    BY <1>2, <1>3, <2>2 DEF Written
  <2>. QED
    BY Zenon, <2>1, <2>2
<1>. HIDE DEF n
<1>5. /\ pos[x] \div 2 + 1 \in 1 .. n
      /\ pos[x] % 2 = 1 =>
           /\ 2 * (pos[x] \div 2 + 1) = pos[x] + 1
           /\ pos[x] < 2 * n - 1 => pos[x] \div 2 + 1 < n
  BY Zenon, <1>2, <1>3, <1>4, PieceFrame
<1>6. log[Peer(x)][pos[x] \div 2 + 1] \in Frame
  BY Zenon, <1>2, <1>3, <1>5, ElementTyped
<1>. QED
  BY Zenon, <1>3, <1>4, <1>5, <1>6 DEF n

(* What a read can do, whichever way it ends.                              *)
LEMMA ReadEffect ==
  ASSUME NEW x \in Side, Read(x)
  PROVE  /\ UNCHANGED <<log, part, cut, user_eof>> /\ UNCHANGED bridgeVars
         /\ pos' = pos \/ pos' = [pos EXCEPT ![x] = @ + 1]
         /\ rd' = rd \/ \E v \in {"start", "body", "junk"} : rd' = [rd EXCEPT ![x] = v]
         /\ pc[x] = "select" /\ (pc' = pc \/ pc' = [pc EXCEPT ![x] = "done"])
         /\ err' = err \/ \E e \in FrameErrors : err' = [err EXCEPT ![x] = e]
         /\ outcome' \in {outcome, "UserEof", "UserError", "BridgeError"}
<1>. USE DEF Read, ReadHeader, MisreadFails, MisreadWaits, ReadIo, BodyRejected,
             DataForwarded, DataUndeliverable, KeyRotateReceived, TakeBody
<1>1. UNCHANGED <<log, part, cut, user_eof>> /\ UNCHANGED bridgeVars
  BY Zenon DEF clientVars
<1>2. pos' = pos \/ pos' = [pos EXCEPT ![x] = @ + 1]
  BY Zenon
<1>3. rd' = rd \/ \E v \in {"start", "body", "junk"} : rd' = [rd EXCEPT ![x] = v]
  BY Zenon
<1>4. pc[x] = "select"
  BY Zenon DEF BodyReady, Readable
<1>5. pc' = pc \/ pc' = [pc EXCEPT ![x] = "done"]
  BY Zenon DEF ReadFails, Exit
<1>6. header_error(ch[x], log[Peer(x)][pos[x] \div 2 + 1]) \in {"none", "Invalid", "Replay"}
  BY Zenon DEF header_error
<1>7. err' = err \/ \E e \in FrameErrors : err' = [err EXCEPT ![x] = e]
  BY Zenon, <1>6 DEF ReadFails, FrameErrors
<1>8. outcome' \in {outcome, "UserEof", "UserError", "BridgeError"}
  BY Zenon DEF ReadFails, clientVars
<1>. QED
  BY Zenon, <1>1, <1>2, <1>3, <1>4, <1>5, <1>7, <1>8

(* A read keeps the types if it keeps those of the channel and the output. *)
LEMMA ReadTyped ==
  ASSUME TypeOK, NEW x \in Side, Read(x), ch' \in [Side -> Channel], out' \in [Side -> Seq(Nat)]
  PROVE  TypeOK'
<1>1. log' \in [Side -> Seq(Frame)] /\ part' \in [Side -> BOOLEAN] /\ cut' \in [Side -> BOOLEAN]
  BY Zenon, ReadEffect DEF TypeOK
<1>2. pos' \in [Side -> Nat]
  <2>1. pos \in [Side -> Nat] /\ (pos' = pos \/ pos' = [pos EXCEPT ![x] = @ + 1])
    BY Zenon, ReadEffect DEF TypeOK
  <2>2. CASE pos' = pos
    BY Zenon, <2>1, <2>2
  <2>3. CASE pos' = [pos EXCEPT ![x] = @ + 1]
    BY <2>1, <2>3
  <2>. QED
    BY Zenon, <2>1, <2>2, <2>3
<1>3. rd' \in [Side -> {"start", "body", "junk"}]
  <2>1. /\ rd \in [Side -> {"start", "body", "junk"}]
        /\ rd' = rd \/ \E v \in {"start", "body", "junk"} : rd' = [rd EXCEPT ![x] = v]
    BY Zenon, ReadEffect DEF TypeOK
  <2>. QED
    BY Zenon, <2>1
<1>4. pc' \in [Side -> {"select", "write", "rotate", "rotating", "done"}]
  <2>1. /\ pc \in [Side -> {"select", "write", "rotate", "rotating", "done"}]
        /\ pc' = pc \/ pc' = [pc EXCEPT ![x] = "done"]
    BY Zenon, ReadEffect DEF TypeOK
  <2>. QED
    BY Zenon, <2>1
<1>5. err' \in [Side -> FrameErrors \cup {"none"}]
  <2>1. /\ err \in [Side -> FrameErrors \cup {"none"}]
        /\ err' = err \/ \E e \in FrameErrors : err' = [err EXCEPT ![x] = e]
    BY Zenon, ReadEffect DEF TypeOK
  <2>. QED
    BY Zenon, <2>1
<1>6. /\ bytes_this_epoch' \in Nat /\ rotations' \in Nat /\ requests' \in Nat
      /\ rotate_rx' \in BOOLEAN /\ user_eof' \in BOOLEAN
  BY Zenon, ReadEffect DEF TypeOK, bridgeVars
<1>7. outcome' \in {"none", "UserEof", "UserError", "BridgeError"}
  BY Zenon, ReadEffect DEF TypeOK
<1>. QED
  BY Zenon, <1>1, <1>2, <1>3, <1>4, <1>5, <1>6, <1>7 DEF TypeOK

(* A step that writes nothing: an endpoint ends, stays where it is, or     *)
(* goes from its select to a rotation.                                     *)
LEMMA PendingKept ==
  ASSUME TypeInv, log' = log, part' = part,
         \A y \in Side : \/ pc'[y] = "done"
                         \/ pc'[y] = pc[y] /\ ch'[y] = ch[y]
                         \/ pc[y] = "select" /\ pc'[y] = "select"
                         \/ pc[y] = "select" /\ pc'[y] = "rotate" /\ y = "bridge"
  PROVE  (\A y \in Side : Pending(y)') /\ log'["client"] \in Seq(DataFrame)
<1>1. ASSUME NEW y \in Side PROVE Pending(y)'
  <2>1. Pending(y) /\ LastFrame(y)' = LastFrame(y) /\ Len(log'[y]) = Len(log[y])
    BY Zenon DEF TypeInv, LastFrame
  <2>2. CASE pc'[y] = "done"
    BY Zenon, <2>1, <2>2 DEF Pending
  <2>3. CASE pc'[y] = pc[y] /\ ch'[y] = ch[y]
    BY Zenon, <2>1, <2>3 DEF Pending
  <2>4. CASE pc[y] = "select" /\ pc'[y] = "select"
    BY Zenon, <2>1, <2>4 DEF Pending
  <2>5. CASE pc[y] = "select" /\ pc'[y] = "rotate" /\ y = "bridge"
    BY Zenon, <2>1, <2>5 DEF Pending
  <2>. QED
    BY Zenon, <2>2, <2>3, <2>4, <2>5
<1>. QED
  BY Zenon, <1>1 DEF TypeInv

(* Every step of either loop keeps the session well typed.                 *)
LEMMA TypeStep ==
  ASSUME TypeInv, [Next]_vars
  PROVE  TypeInv'
<1>0. /\ TypeOK /\ "bridge" \in Side /\ "client" \in Side
      /\ pc \in [Side -> {"select", "write", "rotate", "rotating", "done"}]
      /\ ch \in [Side -> Channel] /\ part \in [Side -> BOOLEAN]
      /\ rd \in [Side -> {"start", "body", "junk"}] /\ cut \in [Side -> BOOLEAN]
      /\ log \in [Side -> Seq(Frame)]
  BY Zenon DEF TypeInv, TypeOK, Side
<1>1. ASSUME NEW x \in Side, Read(x)
      PROVE  TypeInv'
  <2>1. CASE ch' = ch /\ out' = out
    <3>1. TypeOK'
      BY Zenon, <1>1, <2>1, ReadTyped DEF TypeInv, TypeOK
    <3>2. \A y \in Side : pc'[y] = "done" \/ (pc'[y] = pc[y] /\ ch'[y] = ch[y])
      BY ZenonT(60), <1>0, <1>1, <2>1, ReadEffect
    <3>. QED
      BY Zenon, <1>1, <3>1, <3>2, ReadEffect, PendingKept DEF TypeInv
  <2>2. ASSUME NEW c \in Channel, ch' = [ch EXCEPT ![x] = c], out' \in [Side -> Seq(Nat)]
        PROVE  TypeInv'
    <3>1. ch' \in [Side -> Channel]
      BY Zenon, <1>0, <2>2
    <3>2. TypeOK'
      BY Zenon, <1>0, <1>1, <2>2, <3>1, ReadTyped
    <3>3. ASSUME NEW y \in Side
          PROVE  \/ pc'[y] = "done"
                 \/ pc'[y] = pc[y] /\ ch'[y] = ch[y]
                 \/ pc[y] = "select" /\ pc'[y] = "select"
      <4>1. pc[x] = "select" /\ (pc' = pc \/ pc' = [pc EXCEPT ![x] = "done"])
        BY Zenon, <1>1, ReadEffect
      <4>2. CASE y = x
        BY Zenon, <1>0, <4>1, <4>2
      <4>3. CASE y # x
        BY Zenon, <1>0, <2>2, <4>1, <4>3
      <4>. QED
        BY Zenon, <4>2, <4>3
    <3>. QED
      BY Zenon, <1>1, <3>2, <3>3, ReadEffect, PendingKept DEF TypeInv
  <2>3. CASE DataForwarded(x)
    <3>. DEFINE o == Append(out[x], pos[x] \div 2 + 1)
    <3>1. Incoming(x) \in Frame
      BY Zenon, <2>3, ReadableFrame DEF DataForwarded, BodyReady, Readable, Incoming
    <3>2. accept(ch[x], Incoming(x)) \in Channel
      BY Zenon, <3>1, ChannelOps DEF TypeInv, TypeOK
    <3>3. pos[x] \in Nat /\ out[x] \in Seq(Nat) /\ out \in [Side -> Seq(Nat)]
      BY Zenon, <1>0 DEF TypeOK
    <3>4. o \in Seq(Nat)
      BY <3>3
    <3>5. out' = out \/ out' = [out EXCEPT ![x] = o]
      BY Zenon, <2>3 DEF DataForwarded
    <3>. HIDE DEF o
    <3>6. out' \in [Side -> Seq(Nat)]
      BY Zenon, <3>3, <3>4, <3>5
    <3>. QED
      BY Zenon, <2>2, <2>3, <3>2, <3>6 DEF DataForwarded
  <2>4. CASE DataUndeliverable(x)
    <3>1. Incoming(x) \in Frame
      BY Zenon, <2>4, ReadableFrame DEF DataUndeliverable, BodyReady, Readable, Incoming
    <3>2. accept(ch[x], Incoming(x)) \in Channel
      BY Zenon, <3>1, ChannelOps DEF TypeInv, TypeOK
    <3>. QED
      BY Zenon, <1>0, <2>2, <2>4, <3>2 DEF DataUndeliverable, TypeOK
  <2>5. CASE KeyRotateReceived(x)
    <3>1. Incoming(x) \in KeyRotateFrame
      BY Zenon, <2>5, ReadableFrame DEF KeyRotateReceived, BodyReady, Readable, Incoming,
           Frame, DataFrame, KeyRotateFrame
    <3>2. /\ accept(ch[x], Incoming(x)) \in Channel
          /\ rotate_key(accept(ch[x], Incoming(x)), Incoming(x).rotation_nonce)
               \in Channel
      BY Zenon, <3>1, ChannelOps DEF TypeInv, TypeOK, Frame, KeyRotateFrame
    <3>. QED
      BY Zenon, <1>0, <2>2, <2>5, <3>2 DEF KeyRotateReceived, TypeOK
  <2>. QED
    BY Zenon, <1>1, <2>1, <2>3, <2>4, <2>5 DEF Read, ReadHeader, MisreadFails, MisreadWaits,
         ReadIo, BodyRejected
<1>2. ASSUME NEW x \in Side, NEW n \in 1 .. FrameSize(x), PlaintextRead(x, n)
      PROVE  TypeInv'
  <2>0. n \in Nat
    BY SizeAssumption DEF FrameSize
  <2>1. data_frame(ch[x], n) \in DataFrame
    BY Zenon, <2>0, ChannelOps DEF TypeInv, TypeOK
  <2>2. /\ data_frame(ch[x], n).key = ch[x].key
        /\ data_frame(ch[x], n).nonce[1] = ch[x].send_seq
    BY Zenon DEF data_frame
  <2>3. /\ log'[x] = Append(log[x], data_frame(ch[x], n))
        /\ \A y \in Side : y # x => log'[y] = log[y]
    BY Zenon, <1>2 DEF TypeInv, TypeOK, PlaintextRead, PutHeader
  <2>4. TypeOK'
    <3>1. log' \in [Side -> Seq(Frame)]
      <4>. DEFINE d == data_frame(ch[x], n)
      <4>1. /\ log \in [Side -> Seq(Frame)] /\ log' = [log EXCEPT ![x] = Append(@, d)]
            /\ d \in Frame
        BY Zenon, <1>2, <2>1 DEF TypeInv, TypeOK, PlaintextRead, PutHeader, Frame
      <4>. HIDE DEF d
      <4>. QED
        BY <4>1
    <3>2. /\ part' \in [Side -> BOOLEAN]
          /\ rd' \in [Side -> {"start", "body", "junk"}]
          /\ pc' \in [Side -> {"select", "write", "rotate", "rotating", "done"}]
      BY Zenon, <1>2 DEF TypeInv, TypeOK, PlaintextRead, PutHeader, DropRead
    <3>3. cut' \in [Side -> BOOLEAN]
      BY Zenon, <1>2 DEF TypeInv, TypeOK, PlaintextRead, DropRead
    <3>. QED
      BY Zenon, <1>2, <3>1, <3>2, <3>3 DEF TypeInv, TypeOK, PlaintextRead, bridgeVars, clientVars
  <2>5. LastFrame(x)' = data_frame(ch[x], n) /\ Len(log'[x]) > 0
    BY <2>1, <2>3 DEF TypeInv, TypeOK, LastFrame
  <2>6. \A y \in Side : Pending(y)'
    <3>1. /\ part'[x] = TRUE /\ pc'[x] = "write" /\ ch' = ch
          /\ \A y \in Side : y # x => part'[y] = part[y] /\ pc'[y] = pc[y] /\ log'[y] = log[y]
      BY Zenon, <1>2, <2>3 DEF TypeInv, TypeOK, PlaintextRead, PutHeader
    <3>2. Pending(x)'
      BY Zenon, <2>1, <2>2, <2>5, <3>1 DEF Pending
    <3>3. ASSUME NEW y \in Side, y # x PROVE Pending(y)'
      <4>1. /\ Pending(y) /\ part'[y] = part[y] /\ pc'[y] = pc[y] /\ log'[y] = log[y]
            /\ ch'[y] = ch[y]
        BY Zenon, <3>1, <3>3 DEF TypeInv
      <4>. QED
        BY Zenon, <4>1 DEF Pending, LastFrame
    <3>. QED
      BY Zenon, <3>2, <3>3
  <2>7. log'["client"] \in Seq(DataFrame)
    <3>1. log["client"] \in Seq(DataFrame)
      BY Zenon DEF TypeInv
    <3>2. CASE x = "client"
      <4>. DEFINE d == data_frame(ch[x], n)
      <4>1. log'["client"] = Append(log["client"], d) /\ d \in DataFrame
        BY Zenon, <2>1, <2>3, <3>2
      <4>. HIDE DEF d
      <4>. QED
        BY <3>1, <4>1
    <3>3. CASE x # "client"
      BY Zenon, <1>0, <2>3, <3>1, <3>3
    <3>. QED
      BY Zenon, <3>2, <3>3
  <2>. QED
    BY Zenon, <2>4, <2>6, <2>7 DEF TypeInv
<1>3. ASSUME NEW x \in Side, WriteDone(x)
      PROVE  TypeInv'
  <2>1. write_frame(ch[x]) \in Channel
    BY Zenon, ChannelOps DEF TypeInv, TypeOK
  <2>2. LastFrame(x).len \in Nat
    BY Zenon, <1>3 DEF TypeInv, Pending, WriteDone, DataFrame
  <2>3. /\ part' = [part EXCEPT ![x] = FALSE] /\ log' = log
        /\ ch' = [ch EXCEPT ![x] = write_frame(@)]
        /\ \/ pc' = [pc EXCEPT ![x] = "select"]
           \/ x = "bridge" /\ pc' = [pc EXCEPT ![x] = "rotate"]
    BY Zenon, <1>3 DEF WriteDone, PutBody, Side
  <2>4. /\ part' \in [Side -> BOOLEAN] /\ ch' \in [Side -> Channel]
        /\ pc' \in [Side -> {"select", "write", "rotate", "rotating", "done"}]
    BY Zenon, <1>0, <2>1, <2>3
  <2>5. bytes_this_epoch' \in Nat
    <3>1. /\ bytes_this_epoch \in Nat
          /\ bytes_this_epoch' \in {bytes_this_epoch, bytes_this_epoch + LastFrame(x).len}
      BY Zenon, <1>0, <1>3 DEF TypeOK, WriteDone
    <3>. QED
      BY <2>2, <3>1
  <2>6. TypeOK'
    BY Zenon, <1>0, <1>3, <2>3, <2>4, <2>5 DEF TypeOK, WriteDone, readerVars, clientVars
  <2>7. ASSUME NEW y \in Side PROVE Pending(y)'
    <3>1. CASE y = x
      BY Zenon, <1>0, <2>3, <3>1 DEF Pending
    <3>2. CASE y # x
      <4>1. part'[y] = part[y] /\ ch'[y] = ch[y] /\ pc'[y] = pc[y] /\ log'[y] = log[y]
        BY Zenon, <1>0, <2>3, <3>2
      <4>. QED
        BY Zenon, <4>1 DEF TypeInv, Pending, LastFrame
    <3>. QED
      BY Zenon, <3>1, <3>2
  <2>. QED
    BY Zenon, <2>3, <2>6, <2>7 DEF TypeInv
<1>4. ASSUME NEW x \in Side, WriteFails(x)
      PROVE  TypeInv'
  <2>1. /\ pc' = [pc EXCEPT ![x] = "done"] /\ UNCHANGED <<ch, log, part, cut, user_eof>>
        /\ outcome' \in {outcome, "BridgeError"}
    BY Zenon, <1>4 DEF WriteFails, Exit
  <2>2. /\ pc' \in [Side -> {"select", "write", "rotate", "rotating", "done"}]
        /\ outcome' \in {"none", "UserEof", "UserError", "BridgeError"}
    BY Zenon, <1>0, <2>1 DEF TypeOK
  <2>3. TypeOK'
    BY ZenonT(60), <1>0, <1>4, <2>1, <2>2 DEF TypeOK, WriteFails, readerVars, bridgeVars
  <2>4. \A y \in Side : pc'[y] = "done" \/ (pc'[y] = pc[y] /\ ch'[y] = ch[y])
    BY Zenon, <1>0, <2>1
  <2>. QED
    BY Zenon, <2>1, <2>3, <2>4, PendingKept DEF TypeInv
<1>5. ASSUME NEW x \in Side, PlaintextEnds(x)
      PROVE  TypeInv'
  <2>1. /\ pc' = [pc EXCEPT ![x] = "done"] /\ UNCHANGED <<ch, log, part>>
        /\ rd' = [rd EXCEPT ![x] = "start"]
        /\ cut' = [cut EXCEPT ![x] = @ \/ rd[x] # "start"]
        /\ outcome' \in {outcome, "UserError"}
    BY Zenon, <1>5 DEF PlaintextEnds, Exit, DropRead
  <2>2. /\ pc' \in [Side -> {"select", "write", "rotate", "rotating", "done"}]
        /\ rd' \in [Side -> {"start", "body", "junk"}]
    BY Zenon, <1>0, <2>1
  <2>3. cut' \in [Side -> BOOLEAN]
    BY Zenon, <1>0, <2>1
  <2>4. outcome' \in {"none", "UserEof", "UserError", "BridgeError"}
    BY Zenon, <1>0, <2>1 DEF TypeOK
  <2>5. TypeOK'
    BY Zenon, <1>0, <1>5, <2>2, <2>3, <2>4 DEF TypeOK, PlaintextEnds, bridgeVars
  <2>6. \A y \in Side : pc'[y] = "done" \/ (pc'[y] = pc[y] /\ ch'[y] = ch[y])
    BY Zenon, <1>0, <2>1
  <2>. QED
    BY Zenon, <2>1, <2>5, <2>6, PendingKept DEF TypeInv
<1>6. CASE UserEof
  <2>1. /\ rd' = [rd EXCEPT !["client"] = "start"] /\ UNCHANGED <<ch, log, part, pc>>
        /\ cut' = [cut EXCEPT !["client"] = @ \/ rd["client"] # "start"]
    BY Zenon, <1>6 DEF UserEof, DropRead
  <2>2. rd' \in [Side -> {"start", "body", "junk"}]
    BY Zenon, <1>0, <2>1
  <2>3. cut' \in [Side -> BOOLEAN]
    BY Zenon, <1>0, <2>1
  <2>4. TypeOK'
    BY Zenon, <1>0, <1>6, <2>2, <2>3 DEF TypeOK, UserEof, bridgeVars
  <2>. QED
    BY Zenon, <2>1, <2>4, PendingKept DEF TypeInv
<1>7. CASE RequestRotate
  <2>1. requests' \in Nat
    <3>1. requests \in Nat /\ requests' = requests + 1
      BY Zenon, <1>0, <1>7 DEF TypeOK, RequestRotate
    <3>. QED
      BY <3>1
  <2>2. TypeOK'
    BY Zenon, <1>0, <1>7, <2>1 DEF TypeOK, RequestRotate, readerVars, clientVars
  <2>3. UNCHANGED <<ch, log, part, pc>>
    BY Zenon, <1>7 DEF RequestRotate
  <2>. QED
    BY Zenon, <2>2, <2>3, PendingKept DEF TypeInv
<1>8. CASE RotateTimer \/ RotateRequested
  <2>1. /\ rd' = [rd EXCEPT !["bridge"] = "start"] /\ UNCHANGED <<ch, log, part>>
        /\ cut' = [cut EXCEPT !["bridge"] = @ \/ rd["bridge"] # "start"]
        /\ pc["bridge"] = "select" /\ pc' = [pc EXCEPT !["bridge"] = "rotate"]
    BY Zenon, <1>8 DEF RotateTimer, RotateRequested, DropRead
  <2>2. /\ pc' \in [Side -> {"select", "write", "rotate", "rotating", "done"}]
        /\ rd' \in [Side -> {"start", "body", "junk"}]
    BY Zenon, <1>0, <2>1
  <2>3. cut' \in [Side -> BOOLEAN]
    BY Zenon, <1>0, <2>1
  <2>4. TypeOK'
    <3>1. CASE RotateTimer
      BY Zenon, <1>0, <2>2, <2>3, <3>1 DEF TypeOK, RotateTimer, bridgeVars, clientVars
    <3>2. CASE RotateRequested
      BY Zenon, <1>0, <2>2, <2>3, <3>2 DEF TypeOK, RotateRequested, clientVars
    <3>. QED
      BY Zenon, <1>8, <3>1, <3>2
  <2>5. ASSUME NEW y \in Side
        PROVE  \/ pc'[y] = pc[y] /\ ch'[y] = ch[y]
               \/ pc[y] = "select" /\ pc'[y] = "rotate" /\ y = "bridge"
    BY Zenon, <1>0, <2>1
  <2>. QED
    BY Zenon, <2>1, <2>4, <2>5, PendingKept DEF TypeInv
<1>9. ASSUME NEW r \in RotationNonce, RotateStart(r)
       PROVE  TypeInv'
  <2>. DEFINE f == key_rotate_frame(ch["bridge"], r)
  <2>1. f \in KeyRotateFrame /\ f \in Frame /\ f.key = ch["bridge"].key
    BY Zenon, <1>0, ChannelOps DEF key_rotate_frame, Frame
  <2>2. /\ log' = [log EXCEPT !["bridge"] = Append(@, f)]
        /\ part' = [part EXCEPT !["bridge"] = TRUE]
        /\ pc' = [pc EXCEPT !["bridge"] = "rotating"] /\ ch' = ch
    BY Zenon, <1>9 DEF RotateStart, PutHeader
  <2>. HIDE DEF f
  <2>3. /\ part' \in [Side -> BOOLEAN]
        /\ pc' \in [Side -> {"select", "write", "rotate", "rotating", "done"}]
    BY Zenon, <1>0, <2>2
  <2>4. log["bridge"] \in Seq(Frame) /\ log'["bridge"] = Append(log["bridge"], f)
    BY Zenon, <1>0, <2>2
  <2>5. /\ Append(log["bridge"], f) \in Seq(Frame) /\ Len(log'["bridge"]) > 0
        /\ log'["bridge"][Len(log'["bridge"])] = f
    BY <2>1, <2>4
  <2>6. log' \in [Side -> Seq(Frame)]
    BY Zenon, <1>0, <2>2, <2>5
  <2>7. TypeOK'
    BY Zenon, <1>0, <1>9, <2>3, <2>6 DEF TypeOK, RotateStart, readerVars, bridgeVars, clientVars
  <2>8. Pending("bridge")'
    BY Zenon, <1>0, <2>1, <2>2, <2>5 DEF Pending, LastFrame
  <2>9. /\ log'["client"] = log["client"] /\ part'["client"] = part["client"]
        /\ pc'["client"] = pc["client"]
    BY Zenon, <1>0, <2>2
  <2>10. Pending("client")'
    BY Zenon, <1>0, <2>2, <2>9 DEF TypeInv, Pending, LastFrame
  <2>. QED
    BY Zenon, <2>7, <2>8, <2>9, <2>10 DEF TypeInv, Side
<1>10. CASE RotateDone
  <2>. DEFINE c == rotate_key(send_key_rotate(ch["bridge"]), LastFrame("bridge").rotation_nonce)
  <2>1. LastFrame("bridge").rotation_nonce \in RotationNonce
    BY Zenon, <1>0, <1>10 DEF TypeInv, Pending, RotateDone, KeyRotateFrame
  <2>2. c \in Channel
    BY Zenon, <1>0, <2>1, ChannelOps
  <2>3. /\ ch' = [ch EXCEPT !["bridge"] = c] /\ log' = log
        /\ part' = [part EXCEPT !["bridge"] = FALSE]
        /\ pc' = [pc EXCEPT !["bridge"] = "select"]
    BY Zenon, <1>10 DEF RotateDone, PutBody
  <2>. HIDE DEF c
  <2>4. /\ part' \in [Side -> BOOLEAN] /\ ch' \in [Side -> Channel]
        /\ pc' \in [Side -> {"select", "write", "rotate", "rotating", "done"}]
    BY Zenon, <1>0, <2>2, <2>3
  <2>5. rotations' \in Nat /\ bytes_this_epoch' \in Nat
    <3>1. rotations \in Nat /\ rotations' = rotations + 1 /\ bytes_this_epoch' = 0
      BY Zenon, <1>0, <1>10 DEF TypeOK, RotateDone
    <3>. QED
      BY <3>1
  <2>6. TypeOK'
    BY Zenon, <1>0, <1>10, <2>3, <2>4, <2>5 DEF TypeOK, RotateDone, readerVars, clientVars
  <2>7. Pending("bridge")'
    BY Zenon, <1>0, <2>3 DEF Pending
  <2>8. /\ part'["client"] = part["client"] /\ pc'["client"] = pc["client"]
        /\ ch'["client"] = ch["client"]
    BY Zenon, <1>0, <2>3
  <2>9. Pending("client")'
    BY Zenon, <1>0, <2>3, <2>8 DEF TypeInv, Pending, LastFrame
  <2>. QED
    BY Zenon, <2>3, <2>6, <2>7, <2>9 DEF TypeInv, Side
<1>11. CASE UNCHANGED vars
  <2>1. TypeOK' /\ UNCHANGED <<ch, log, part, pc>>
    BY Zenon, <1>0, <1>11 DEF TypeOK, vars
  <2>. QED
    BY Zenon, <2>1, PendingKept DEF TypeInv
<1>. QED
  BY Zenon, <1>1, <1>2, <1>3, <1>4, <1>5, <1>6, <1>7, <1>8, <1>9, <1>10, <1>11
  DEF Next, Write, Rotate

(* Every reachable state is well typed, and an endpoint in the middle of a *)
(* write is writing the last frame of its log.                             *)
THEOREM TypeCorrect == Spec => []TypeInv
<1>1. Init => TypeInv
  <2>. SUFFICES ASSUME Init PROVE TypeInv
    BY Zenon
  <2>1. \A x \in Side : new(FrameSize(x)) \in Channel
    BY EpochAssumption, SizeAssumption DEF new, FrameSize, Channel, Key
  <2>2. ch \in [Side -> Channel]
    BY Zenon, <2>1 DEF Init
  <2>3. log \in [Side -> Seq(Frame)] /\ out \in [Side -> Seq(Nat)]
    BY DEF Init
  <2>4. TypeOK
    BY Zenon, <2>2, <2>3 DEF Init, TypeOK
  <2>. QED
    BY <2>4 DEF Init, TypeInv, Pending, Side
<1>2. TypeInv /\ [Next]_vars => TypeInv'
  BY Zenon, TypeStep
<1>. QED
  BY <1>1, <1>2, PTL DEF Spec

(* The type invariant of the runs, for all frame sizes, windows, bounds    *)
(* and sets of rotation nonces.                                            *)
THEOREM TypeOKHolds == Spec => []TypeOK
<1>1. TypeInv => TypeOK
  BY Zenon DEF TypeInv
<1>. QED
  BY <1>1, TypeCorrect, PTL

-----------------------------------------------------------------------------
(* Steps that write no frame and change no key: all but five actions.      *)
Quiet ==
  /\ log' = log /\ part' = part
  /\ \A x \in Side :
       /\ ch'[x].key = ch[x].key /\ ch'[x].send_seq = ch[x].send_seq
       /\ ch'[x].key_rotate_send_seq = ch[x].key_rotate_send_seq

ClientRotates == KeyRotateReceived("client")

(* A step is quiet or one of the five actions that write or ratchet.       *)
LEMMA StepKinds ==
  ASSUME TypeInv, [Next]_vars
  PROVE  \/ Quiet
         \/ \E x \in Side, n \in Nat : PlaintextRead(x, n)
         \/ \E x \in Side : WriteDone(x)
         \/ \E r \in RotationNonce : RotateStart(r)
         \/ RotateDone
         \/ ClientRotates
<1>. USE DEF Side
<1>1. ASSUME NEW x \in Side, NEW f, ch' = [ch EXCEPT ![x] = accept(@, f)],
             log' = log, part' = part
      PROVE  Quiet
  <2>1. /\ accept(ch[x], f).key = ch[x].key
        /\ accept(ch[x], f).send_seq = ch[x].send_seq
        /\ accept(ch[x], f).key_rotate_send_seq = ch[x].key_rotate_send_seq
    BY DEF TypeInv, TypeOK, Channel, accept
  <2>. QED
    BY Zenon, <1>1, <2>1 DEF TypeInv, TypeOK, Quiet
<1>2. ASSUME NEW x \in Side, Read(x)
      PROVE  Quiet \/ ClientRotates
  <2>1. CASE DataForwarded(x) \/ DataUndeliverable(x)
    BY Zenon, <1>1, <2>1 DEF DataForwarded, DataUndeliverable, TakeBody
  <2>2. CASE KeyRotateReceived(x)
    BY Zenon, <1>1, <2>2 DEF ClientRotates, KeyRotateReceived, TakeBody
  <2>. QED
    BY Zenon, <1>2, <2>1, <2>2 DEF Quiet, Read, ReadHeader, MisreadFails, MisreadWaits,
         ReadIo, BodyRejected, TakeBody
<1>3. ASSUME NEW x \in Side, Write(x)
      PROVE  Quiet \/ (\E n \in Nat : PlaintextRead(x, n)) \/ WriteDone(x)
  <2>1. ASSUME NEW n \in 1 .. FrameSize(x)
        PROVE  n \in Nat
    BY SizeAssumption DEF FrameSize
  <2>. QED
    BY Zenon, <1>3, <2>1 DEF Quiet, Write, WriteFails, PlaintextEnds
<1>4. CASE UserEof
  BY Zenon, <1>4 DEF Quiet, UserEof
<1>5. CASE Rotate
  BY Zenon, <1>5 DEF Quiet, Rotate, RequestRotate, RotateTimer, RotateRequested
<1>6. CASE UNCHANGED vars
  BY Zenon, <1>6 DEF Quiet, vars
<1>. QED
  BY Zenon, <1>2, <1>3, <1>4, <1>5, <1>6 DEF Next

(* What appending frame f to x's log does to the logs.                     *)
LEMMA LogGrows ==
  ASSUME TypeInv, NEW x \in Side, NEW f \in Frame, PutHeader(x, f)
  PROVE  /\ \A y \in Side : y # x => log'[y] = log[y] /\ part'[y] = part[y]
         /\ log'[x] = Append(log[x], f) /\ part'[x] = TRUE
         /\ Len(log'[x]) = Len(log[x]) + 1 /\ Len(log[x]) \in Nat
         /\ DOMAIN log[x] = 1 .. Len(log[x])
         /\ DOMAIN log'[x] = 1 .. Len(log[x]) + 1
         /\ \A i \in DOMAIN log[x] : log'[x][i] = log[x][i]
         /\ log'[x][Len(log[x]) + 1] = f
BY DEF TypeInv, TypeOK, PutHeader

-----------------------------------------------------------------------------
(* Nonces.  The DATA frames an endpoint sealed under its current key carry *)
(* sequence numbers below its send_seq (the one being written carries      *)
(* send_seq itself), and no frame was sealed under a longer key.  A        *)
(* ratchet resets send_seq, but lengthens the key.                         *)
Fresh(x) ==
  \A i \in DataFrames(x) :
    /\ Len(log[x][i].key) <= Len(ch[x].key)
    /\ log[x][i].key = ch[x].key =>
         \/ log[x][i].nonce[1] < ch[x].send_seq
         \/ part[x] /\ i = Len(log[x]) /\ log[x][i].nonce[1] = ch[x].send_seq

NonceInv == NonceUnique /\ \A x \in Side : Fresh(x)

(* What the proofs use of a DATA frame of a log.                           *)
LEMMA DataFrameFields ==
  ASSUME TypeInv, NEW x \in Side, NEW i \in DataFrames(x)
  PROVE  log[x][i].nonce[1] \in Nat /\ Len(log[x][i].key) \in Nat
<1>1. log[x] \in Seq(Frame) /\ i \in DOMAIN log[x] /\ log[x][i].type = "DATA"
  BY Zenon DEF TypeInv, TypeOK, DataFrames, IsData
<1>2. log[x][i] \in Frame
  BY <1>1
<1>3. log[x][i] \in DataFrame
  BY Zenon, <1>1, <1>2 DEF Frame, KeyRotateFrame
<1>. QED
  BY SMTT(60), <1>3 DEF DataFrame, Key

(* Every step keeps nonces unique and sequence numbers fresh.              *)
LEMMA NonceStep ==
  ASSUME TypeInv, TypeInv', NonceInv, [Next]_vars
  PROVE  NonceInv'
<1>1. CASE Quiet
  BY <1>1 DEF Quiet, NonceInv, NonceUnique, Fresh, DataFrames, IsData
<1>2. ASSUME NEW x \in Side, NEW n \in Nat, PlaintextRead(x, n)
      PROVE  NonceInv'
  <2>. DEFINE f == data_frame(ch[x], n)
  <2>1. /\ f \in Frame /\ f.type = "DATA" /\ f.key = ch[x].key
        /\ f.nonce = <<ch[x].send_seq, ch[x].epoch>>
    BY Zenon, ChannelTyped, ChannelOps DEF data_frame, Frame
  <2>. HIDE DEF f
  <2>2. PutHeader(x, f) /\ ch' = ch /\ ~part[x]
    BY Zenon, <1>2 DEF PlaintextRead, TypeInv, Pending, f
  <2>3. \A y \in Side : y # x => DataFrames(y)' = DataFrames(y)
    BY ZenonT(60), <2>1, <2>2, LogGrows DEF DataFrames, IsData
  <2>g. /\ \A y \in Side : y # x => log'[y] = log[y] /\ part'[y] = part[y]
        /\ Len(log'[x]) = Len(log[x]) + 1 /\ Len(log[x]) \in Nat
        /\ DOMAIN log[x] = 1 .. Len(log[x]) /\ DOMAIN log'[x] = 1 .. Len(log[x]) + 1
        /\ \A i \in DOMAIN log[x] : log'[x][i] = log[x][i]
        /\ log'[x][Len(log[x]) + 1] = f /\ part'[x] = TRUE
    BY Zenon, <2>1, <2>2, LogGrows
  <2>4. \A i : i \in DataFrames(x)' <=> i \in DataFrames(x) \/ i = Len(log[x]) + 1
    BY SMTT(60), <2>1, <2>g DEF DataFrames, IsData
  <2>5. \A y \in Side : Fresh(y)'
    <3>. TAKE y \in Side
    <3>1. CASE y # x
      BY SMTT(60), <2>2, <2>3, <2>g, <3>1 DEF NonceInv, Fresh
    <3>2. CASE y = x
      <4>1. \A i \in DataFrames(x) : i \in DOMAIN log[x] /\ log'[x][i] = log[x][i]
        BY Zenon, <2>g DEF DataFrames
      <4>2. Len(ch[x].key) \in Nat
        BY Zenon, ChannelFields DEF TypeInv, TypeOK
      <4>3. \A i \in DataFrames(x) :
              /\ Len(log[x][i].key) <= Len(ch[x].key)
              /\ log[x][i].key = ch[x].key => log[x][i].nonce[1] < ch[x].send_seq
        BY Zenon, <2>2 DEF NonceInv, Fresh
      <4>4. f.nonce[1] = ch[x].send_seq /\ Len(f.key) <= Len(ch[x].key)
        BY <2>1, <4>2
      <4>5. ch'[x] = ch[x] /\ part'[x] /\ Len(log'[x]) = Len(log[x]) + 1
        BY Zenon, <2>2, <2>g
      <4>6. ASSUME NEW i \in DataFrames(x)'
            PROVE  /\ Len(log'[x][i].key) <= Len(ch'[x].key)
                   /\ log'[x][i].key = ch'[x].key =>
                        \/ log'[x][i].nonce[1] < ch'[x].send_seq
                        \/ i = Len(log'[x]) /\ log'[x][i].nonce[1] = ch'[x].send_seq
        <5>1. CASE i \in DataFrames(x)
          BY Zenon, <4>1, <4>3, <4>5, <5>1
        <5>2. CASE i = Len(log[x]) + 1
          BY Zenon, <2>g, <4>4, <4>5, <5>2
        <5>. QED
          BY Zenon, <2>4, <5>1, <5>2
      <4>. QED
        BY Zenon, <3>2, <4>5, <4>6 DEF Fresh
    <3>. QED
      BY Zenon, <3>1, <3>2
  <2>6. NonceUnique'
    <3>. SUFFICES ASSUME NEW y \in Side, NEW i \in DataFrames(y)',
                         NEW j \in DataFrames(y)', i # j
                  PROVE  <<log'[y][i].key, log'[y][i].nonce>>
                           # <<log'[y][j].key, log'[y][j].nonce>>
      BY Zenon DEF NonceUnique
    <3>1. CASE y # x
      BY SMTT(60), <2>3, <2>g, <3>1 DEF NonceInv, NonceUnique
    <3>2. ASSUME y = x, NEW k \in DataFrames(x)
          PROVE  <<log'[x][k].key, log'[x][k].nonce>> # <<f.key, f.nonce>>
      <4>1. k \in DOMAIN log[x]
        BY Zenon DEF DataFrames
      <4>2. log[x][k].nonce[1] \in Nat /\ ch[x].send_seq \in Nat
        BY Zenon, DataFrameFields, ChannelFields DEF TypeInv, TypeOK
      <4>3. log[x][k].key = ch[x].key => log[x][k].nonce[1] < ch[x].send_seq
        BY Zenon, <2>2 DEF NonceInv, Fresh
      <4>4. log'[x][k] = log[x][k]
        BY Zenon, <2>g, <4>1
      <4>. QED
        BY <2>1, <4>2, <4>3, <4>4
    <3>3. CASE y = x
      <4>1. \A k \in DataFrames(x) : log'[x][k] = log[x][k]
        BY Zenon, <2>g DEF DataFrames
      <4>2. CASE i \in DataFrames(x) /\ j \in DataFrames(x)
        BY <3>3, <4>1, <4>2 DEF NonceInv, NonceUnique
      <4>3. CASE i = Len(log[x]) + 1 /\ j \in DataFrames(x)
        BY Zenon, <2>g, <3>2, <3>3, <4>3
      <4>4. CASE j = Len(log[x]) + 1 /\ i \in DataFrames(x)
        BY Zenon, <2>g, <3>2, <3>3, <4>4
      <4>. QED
        BY Zenon, <2>4, <3>3, <4>2, <4>3, <4>4
    <3>. QED
      BY Zenon, <3>1, <3>3
  <2>. QED
    BY Zenon, <2>5, <2>6 DEF NonceInv
<1>3. ASSUME NEW x \in Side, WriteDone(x)
      PROVE  NonceInv'
  <2>1. /\ log' = log /\ ch' = [ch EXCEPT ![x] = write_frame(@)]
        /\ part' = [part EXCEPT ![x] = FALSE]
    BY Zenon, <1>3 DEF WriteDone, PutBody
  <2>2. /\ ch[x].send_seq \in Nat /\ ch'[x].key = ch[x].key
        /\ ch'[x].send_seq = ch[x].send_seq + 1
    BY <2>1 DEF TypeInv, TypeOK, Channel, write_frame
  <2>3. \A i \in DataFrames(x) : log[x][i].nonce[1] \in Nat
    BY ZenonT(60), DataFrameFields
  <2>4. Fresh(x)'
    BY SMTT(60), <2>1, <2>2, <2>3 DEF NonceInv, Fresh, DataFrames, IsData
  <2>5. \A y \in Side : y # x => ch'[y] = ch[y] /\ part'[y] = part[y]
    BY <2>1 DEF TypeInv, TypeOK
  <2>6. \A y \in Side : y # x => Fresh(y)'
    BY <2>1, <2>5 DEF NonceInv, Fresh, DataFrames, IsData
  <2>. QED
    BY <2>1, <2>4, <2>6 DEF NonceInv, NonceUnique, DataFrames, IsData
<1>4. ASSUME NEW r \in RotationNonce, RotateStart(r)
      PROVE  NonceInv'
  <2>. DEFINE f == key_rotate_frame(ch["bridge"], r)
  <2>1. f \in Frame /\ f.type = "KEY_ROTATE"
    BY Zenon, ChannelTyped, ChannelOps DEF key_rotate_frame, Frame, Side
  <2>. HIDE DEF f
  <2>2. PutHeader("bridge", f) /\ ch' = ch /\ ~part["bridge"] /\ "bridge" \in Side
    BY Zenon, <1>4 DEF RotateStart, TypeInv, Pending, Side, f
  <2>g. /\ log'["client"] = log["client"] /\ part'["client"] = part["client"]
        /\ Len(log["bridge"]) \in Nat
        /\ DOMAIN log["bridge"] = 1 .. Len(log["bridge"])
        /\ DOMAIN log'["bridge"] = 1 .. Len(log["bridge"]) + 1
        /\ \A i \in DOMAIN log["bridge"] : log'["bridge"][i] = log["bridge"][i]
        /\ log'["bridge"][Len(log["bridge"]) + 1] = f
    BY Zenon, <2>1, <2>2, LogGrows DEF Side
  <2>3. \A y \in Side : \A i : i \in DataFrames(y)' <=> i \in DataFrames(y)
    BY SMTT(60), <2>1, <2>g DEF DataFrames, IsData, Side
  <2>4. \A y \in Side : \A i \in DataFrames(y) : log'[y][i] = log[y][i]
    BY Zenon, <2>g DEF DataFrames, Side
  <2>5. NonceUnique'
    BY <2>3, <2>4 DEF NonceInv, NonceUnique
  <2>6. \A y \in Side : Fresh(y)'
    <3>. TAKE y \in Side
    <3>1. Fresh(y)
      BY Zenon DEF NonceInv
    <3>2. CASE y = "client"
      BY <2>2, <2>3, <2>g, <3>1, <3>2 DEF Fresh
    <3>3. CASE y = "bridge"
      <4>1. \A i \in DataFrames(y) :
              /\ Len(log[y][i].key) <= Len(ch[y].key)
              /\ log[y][i].key = ch[y].key => log[y][i].nonce[1] < ch[y].send_seq
        BY ZenonT(60), <2>2, <3>1, <3>3 DEF Fresh
      <4>. QED
        BY Zenon, <2>2, <2>3, <2>4, <4>1 DEF Fresh
    <3>. QED
      BY Zenon, <3>2, <3>3 DEF Side
  <2>. QED
    BY Zenon, <2>5, <2>6 DEF NonceInv
<1>5. ASSUME NEW x \in Side, NEW r \in RotationNonce, NEW c \in Channel,
             c.key = ch[x].key, ch' = [ch EXCEPT ![x] = rotate_key(c, r)],
             log' = log, \A y \in Side : y # x => part'[y] = part[y]
      PROVE  NonceInv'
  <2>0. ch'[x] = rotate_key(c, r)
    BY SMTT(60), <1>5 DEF TypeInv, TypeOK
  <2>1. ch'[x].key = Append(ch[x].key, r) /\ Len(ch'[x].key) = Len(ch[x].key) + 1
    BY <1>5, <2>0, ChannelFields
  <2>2. \A y \in Side : y # x => ch'[y] = ch[y]
    BY <1>5 DEF TypeInv, TypeOK
  <2>3. \A i \in DataFrames(x) : Len(log[x][i].key) \in Nat
    BY Zenon, DataFrameFields
  <2>4. Len(ch[x].key) \in Nat
    BY ZenonT(60), ChannelFields DEF TypeInv, TypeOK
  <2>5. Fresh(x)'
    BY SMTT(60), <1>5, <2>1, <2>3, <2>4 DEF NonceInv, Fresh, DataFrames, IsData
  <2>6. \A y \in Side : y # x => Fresh(y)'
    BY <1>5, <2>2 DEF NonceInv, Fresh, DataFrames, IsData
  <2>. QED
    BY <1>5, <2>5, <2>6 DEF NonceInv, NonceUnique, DataFrames, IsData
<1>6. CASE RotateDone
  <2>1. LastFrame("bridge").rotation_nonce \in RotationNonce
    BY Zenon, <1>6 DEF TypeInv, Pending, RotateDone, KeyRotateFrame, Side
  <2>2. /\ send_key_rotate(ch["bridge"]) \in Channel
        /\ send_key_rotate(ch["bridge"]).key = ch["bridge"].key
    BY Zenon, ChannelOps, ChannelFields DEF TypeInv, TypeOK, Side
  <2>3. \A y \in Side : y # "bridge" => part'[y] = part[y]
    BY <1>6 DEF RotateDone, PutBody, TypeInv, TypeOK
  <2>. QED
    <3>1. /\ log' = log /\ "bridge" \in Side
          /\ ch' = [ch EXCEPT !["bridge"] =
                      rotate_key(send_key_rotate(ch["bridge"]),
                                 LastFrame("bridge").rotation_nonce)]
      BY Zenon, <1>6 DEF RotateDone, PutBody, Side
    <3>. QED
      BY Zenon, <1>5, <2>1, <2>2, <2>3, <3>1
<1>7. CASE ClientRotates
  <2>. DEFINE f == Incoming("client")
  <2>1. f \in KeyRotateFrame
    BY Zenon, <1>7, ReadableFrame DEF ClientRotates, KeyRotateReceived, BodyReady, Readable,
         Incoming, Frame, DataFrame, KeyRotateFrame, Side
  <2>2. /\ accept(ch["client"], f) \in Channel /\ f.rotation_nonce \in RotationNonce
        /\ accept(ch["client"], f).key = ch["client"].key
    BY ZenonT(60), <2>1, ChannelOps, ChannelFields DEF TypeInv, TypeOK, Side, Frame,
         KeyRotateFrame
  <2>. QED
    BY Zenon, <1>5, <1>7, <2>2 DEF ClientRotates, KeyRotateReceived, TakeBody, Side
<1>. QED
  BY Zenon, <1>1, <1>2, <1>3, <1>4, <1>6, <1>7, StepKinds

(* No endpoint ever seals two DATA frames with one key and nonce, for any  *)
(* number of frames and rotations and any width of the epoch.              *)
THEOREM NonceUniqueHolds == Spec => []NonceUnique
<1>1. Init => NonceInv
  BY DEF Init, NonceInv, NonceUnique, Fresh, DataFrames
<1>2. TypeInv /\ TypeInv' /\ NonceInv /\ [Next]_vars => NonceInv'
  BY Zenon, NonceStep
<1>3. NonceInv => NonceUnique
  BY Zenon DEF NonceInv
<1>. QED
  BY <1>1, <1>2, <1>3, TypeCorrect, PTL DEF Spec

-----------------------------------------------------------------------------
(* Order.  A read_frame past a good header stands in the middle of a       *)
(* frame, and everything handed on lies before the place the reader is at. *)
OrderAt(x) ==
  /\ rd[x] = "body" => pos[x] % 2 = 1
  /\ pos[x] <= Written(Peer(x))
  /\ \A k \in DOMAIN out[x] :
       /\ out[x][k] \in DataFrames(Peer(x)) /\ 2 * out[x][k] <= pos[x]
       /\ \A m \in 1 .. k - 1 : out[x][m] < out[x][k]

OrderInv == \A x \in Side : OrderAt(x)

(* The frame whose body read_frame is about to take.                       *)
LEMMA BodyFrame ==
  ASSUME TypeInv, NEW x \in Side, OrderAt(x), BodyReady(x), NEW i,
         i = pos[x] \div 2 + 1
  PROVE  /\ i \in DOMAIN log[Peer(x)] /\ i \in Nat /\ 2 * i = pos[x] + 1
         /\ Incoming(x) = log[Peer(x)][i] /\ Incoming(x) \in Frame
         /\ part[Peer(x)] => i < Len(log[Peer(x)])
<1>1. pos[x] < Written(Peer(x)) /\ pos[x] % 2 = 1
  BY Zenon DEF BodyReady, Readable, OrderAt
<1>2. /\ i \in DOMAIN log[Peer(x)] /\ log[Peer(x)][i] \in Frame
      /\ 2 * i = pos[x] + 1
      /\ part[Peer(x)] => i < Len(log[Peer(x)])
  BY Zenon, <1>1, ReadableFrame
<1>3. i \in Nat
  BY SMTT(60) DEF TypeInv, TypeOK
<1>. QED
  BY Zenon, <1>2, <1>3 DEF Incoming

(* Logs only grow.                                                         *)
Grows(y) ==
  /\ \A i \in DOMAIN log[y] : i \in DOMAIN log'[y] /\ log'[y][i] = log[y][i]
  /\ Written(y) <= Written(y)'

(* No step takes back or changes what an endpoint put on the wire.         *)
LEMMA LogMonotone ==
  ASSUME TypeInv, TypeInv', [Next]_vars, NEW y \in Side
  PROVE  /\ Written(y) \in Int /\ Written(y)' \in Int /\ Grows(y)
         /\ \A i \in DataFrames(y) : i \in DataFrames(y)'
<1>0. /\ Len(log[y]) \in Nat /\ part[y] \in BOOLEAN
      /\ Len(log'[y]) \in Nat /\ part'[y] \in BOOLEAN
  <2>1. /\ log[y] \in Seq(Frame) /\ part[y] \in BOOLEAN
        /\ log'[y] \in Seq(Frame) /\ part'[y] \in BOOLEAN
    BY ZenonT(60) DEF TypeInv, TypeOK
  <2>. QED
    BY <2>1
<1>1. Written(y) \in Int /\ Written(y)' \in Int
  BY <1>0 DEF Written
<1>2. ASSUME log'[y] = log[y], part'[y] = part[y] \/ part'[y] = FALSE
      PROVE  Grows(y)
  <2>1. CASE part'[y] = part[y]
    BY <1>1, <1>2, <2>1 DEF Grows, Written
  <2>2. CASE part'[y] = FALSE
    BY <1>0, <1>1, <1>2, <2>2 DEF Grows, Written
  <2>. QED
    BY Zenon, <1>2, <2>1, <2>2
<1>3. ASSUME NEW x \in Side, NEW f \in Frame, PutHeader(x, f), part[x] = FALSE
      PROVE  Grows(y)
  <2>1. CASE y # x
    BY ZenonT(60), <1>2, <1>3, <2>1, LogGrows
  <2>2. CASE y = x
    <3>1. /\ Len(log'[x]) = Len(log[x]) + 1 /\ part'[x] = TRUE
          /\ DOMAIN log[x] = 1 .. Len(log[x])
          /\ DOMAIN log'[x] = 1 .. Len(log[x]) + 1
          /\ \A i \in DOMAIN log[x] : log'[x][i] = log[x][i]
      BY Zenon, <1>3, LogGrows
    <3>2. Written(x) <= Written(x)'
      <4>1. Written(x) = 2 * Len(log[x]) - 0
        BY Zenon, <1>3 DEF Written
      <4>2. Written(x)' = 2 * Len(log'[x]) - 1
        BY Zenon, <3>1 DEF Written
      <4>. QED
        BY <1>0, <2>2, <3>1, <4>1, <4>2
    <3>. QED
      BY <1>0, <2>2, <3>1, <3>2 DEF Grows
  <2>. QED
    BY Zenon, <2>1, <2>2
<1>4. Grows(y)
  <2>1. CASE Quiet
    BY Zenon, <1>2, <2>1 DEF Quiet
  <2>2. ASSUME NEW x \in Side, NEW n \in Nat, PlaintextRead(x, n)
        PROVE  Grows(y)
    <3>1. data_frame(ch[x], n) \in Frame
      BY Zenon, ChannelTyped, ChannelOps DEF Frame
    <3>2. part[x] = FALSE
      <4>1. pc[x] = "select" /\ part[x] \in BOOLEAN
        BY Zenon, <2>2 DEF PlaintextRead, TypeInv, TypeOK
      <4>. QED
        BY Zenon, <4>1 DEF TypeInv, Pending
    <3>. QED
      BY Zenon, <1>3, <2>2, <3>1, <3>2 DEF PlaintextRead
  <2>3. ASSUME NEW r \in RotationNonce, RotateStart(r)
        PROVE  Grows(y)
    <3>1. key_rotate_frame(ch["bridge"], r) \in Frame
      BY Zenon, ChannelOps DEF TypeInv, TypeOK, Frame, Side
    <3>2. part["bridge"] = FALSE
      BY Zenon, <2>3 DEF RotateStart, TypeInv, TypeOK, Pending, Side
    <3>. QED
      BY Zenon, <1>3, <2>3, <3>1, <3>2 DEF RotateStart, Side
  <2>4. ASSUME NEW x \in Side, PutBody(x)
        PROVE  Grows(y)
    BY ZenonT(60), <1>2, <2>4 DEF PutBody, TypeInv, TypeOK
  <2>5. CASE ClientRotates
    BY Zenon, <1>2, <2>5 DEF ClientRotates, KeyRotateReceived, TakeBody
  <2>. QED
    BY Zenon, <2>1, <2>2, <2>3, <2>4, <2>5, StepKinds DEF WriteDone, RotateDone, Side
<1>. QED
  BY Zenon, <1>1, <1>4 DEF DataFrames, IsData, Grows

(* Order is kept by every step.                                            *)
LEMMA OrderStep ==
  ASSUME TypeInv, TypeInv', OrderInv, [Next]_vars
  PROVE  OrderInv'
<1>0. \A y \in Side : Peer(y) \in Side /\ pos[y] \in Nat
  BY Zenon DEF Side, Peer, TypeInv, TypeOK
<1>1. \A y \in Side :
        /\ Written(Peer(y)) \in Int /\ Written(Peer(y))' \in Int
        /\ Written(Peer(y)) <= Written(Peer(y))'
        /\ \A i \in DataFrames(Peer(y)) : i \in DataFrames(Peer(y))'
  BY Zenon, <1>0, LogMonotone DEF Grows
<1>2. ASSUME NEW y \in Side, pos'[y] = pos[y], out'[y] = out[y],
             rd'[y] = rd[y] \/ rd'[y] = "start"
      PROVE  OrderAt(y)'
  <2>1. OrderAt(y)
    BY Zenon DEF OrderInv
  <2>. QED
    BY <1>0, <1>1, <1>2, <2>1 DEF OrderAt
<1>3. ASSUME NEW x \in Side, pos' = [pos EXCEPT ![x] = @ + 1], out' = out,
             pos[x] < Written(Peer(x)), rd'[x] = "body" => pos[x] % 2 = 0,
             \A y \in Side : y # x => rd'[y] = rd[y]
      PROVE  OrderInv'
  <2>1. pos'[x] = pos[x] + 1 /\ \A y \in Side : y # x => pos'[y] = pos[y]
    BY SMTT(60), <1>3 DEF TypeInv, TypeOK
  <2>2. OrderAt(x)'
    <3>1. rd'[x] = "body" => pos'[x] % 2 = 1
      BY SMTT(60), <1>0, <1>3, <2>1
    <3>2. pos'[x] <= Written(Peer(x))'
      BY <1>0, <1>1, <1>3, <2>1
    <3>3. out[x] \in Seq(Nat)
      BY Zenon DEF TypeInv, TypeOK
    <3>4. \A k \in DOMAIN out[x] : out[x][k] \in Nat
      BY <3>3
    <3>. QED
      BY SMTT(60), <1>0, <1>1, <1>3, <2>1, <3>1, <3>2, <3>4 DEF OrderInv, OrderAt
  <2>. QED
    BY Zenon, <1>2, <1>3, <2>1, <2>2 DEF OrderInv
<1>4. ASSUME NEW x \in Side, Read(x)
      PROVE  OrderInv'
  <2>1. CASE ReadHeader(x)
    <3>1. /\ pos' = [pos EXCEPT ![x] = @ + 1] /\ out' = out
          /\ pos[x] < Written(Peer(x)) /\ pos[x] % 2 = 0
      BY Zenon, <2>1 DEF ReadHeader, Readable, Aligned
    <3>2. rd' = rd \/ rd' = [rd EXCEPT ![x] = "body"]
      BY Zenon, <2>1 DEF ReadHeader
    <3>3. \A y \in Side : y # x => rd'[y] = rd[y]
      BY ZenonT(60), <3>2 DEF TypeInv, TypeOK
    <3>. QED
      BY Zenon, <1>3, <3>1, <3>3
  <2>2. CASE MisreadFails(x) \/ MisreadWaits(x)
    <3>1. /\ pos' = [pos EXCEPT ![x] = @ + 1] /\ out' = out
          /\ pos[x] < Written(Peer(x)) /\ rd[x] # "body"
      BY <2>2, Zenon DEF MisreadFails, MisreadWaits, Readable
    <3>2. rd' = rd \/ rd' = [rd EXCEPT ![x] = "junk"]
      BY Zenon, <2>2 DEF MisreadFails, MisreadWaits
    <3>3. rd'[x] # "body" /\ \A y \in Side : y # x => rd'[y] = rd[y]
      BY <3>1, <3>2 DEF TypeInv, TypeOK
    <3>. QED
      BY Zenon, <1>3, <3>1, <3>3
  <2>3. CASE ReadIo(x)
    BY Zenon, <1>2, <2>3 DEF ReadIo, OrderInv
  <2>4. CASE BodyRejected(x) \/ DataUndeliverable(x) \/ KeyRotateReceived(x)
    <3>1. out' = out /\ pos[x] < Written(Peer(x)) /\ TakeBody(x)
      BY Zenon, <2>4 DEF BodyRejected, DataUndeliverable, KeyRotateReceived, BodyReady,
           Readable
    <3>2. rd'[x] = "start" /\ \A y \in Side : y # x => rd'[y] = rd[y]
      BY <3>1 DEF TakeBody, TypeInv, TypeOK
    <3>. QED
      BY Zenon, <1>3, <3>1, <3>2 DEF TakeBody
  <2>5. CASE DataForwarded(x)
    <3>. DEFINE i == pos[x] \div 2 + 1
    <3>a. BodyReady(x) /\ OrderAt(x)
      BY Zenon, <2>5 DEF DataForwarded, OrderInv
    <3>0. pos[x] < Written(Peer(x)) /\ rd[x] = "body" /\ TakeBody(x)
      BY Zenon, <2>5 DEF DataForwarded, BodyReady, Readable
    <3>1. /\ pos[x] < Written(Peer(x)) /\ rd[x] = "body" /\ rd'[x] = "start"
          /\ \A y \in Side : y # x => rd'[y] = rd[y]
          /\ pos' = [pos EXCEPT ![x] = @ + 1]
      BY <3>0 DEF TakeBody, TypeInv, TypeOK
    <3>2. /\ i \in DOMAIN log[Peer(x)] /\ 2 * i = pos[x] + 1 /\ i \in Nat
      BY Zenon, <3>a, BodyFrame
    <3>3. i \in DataFrames(Peer(x))
      <4>1. log[Peer(x)][i].type = "DATA"
        BY Zenon, <2>5 DEF DataForwarded, Incoming
      <4>. QED
        BY Zenon, <3>2, <4>1 DEF DataFrames, IsData
    <3>. HIDE DEF i
    <3>4. CASE out' = out
      BY Zenon, <1>3, <3>1, <3>4
    <3>5. CASE out' = [out EXCEPT ![x] = Append(@, i)]
      <4>1. /\ out'[x] = Append(out[x], i) /\ out[x] \in Seq(Nat)
            /\ \A y \in Side : y # x => out'[y] = out[y] /\ pos'[y] = pos[y]
            /\ pos'[x] = pos[x] + 1
        BY SMTT(60), <3>1, <3>5 DEF TypeInv, TypeOK
      <4>2. /\ DOMAIN out'[x] = 1 .. Len(out[x]) + 1 /\ Len(out[x]) \in Nat
            /\ DOMAIN out[x] = 1 .. Len(out[x])
            /\ \A k \in 1 .. Len(out[x]) : out'[x][k] = out[x][k] /\ out[x][k] \in Nat
            /\ out'[x][Len(out[x]) + 1] = i
        BY SMTT(60), <3>2, <4>1
      <4>3. \A k \in 1 .. Len(out[x]) :
              /\ out[x][k] \in DataFrames(Peer(x))' /\ 2 * out[x][k] <= pos[x]
              /\ \A m \in 1 .. k - 1 : out[x][m] < out[x][k]
        BY Zenon, <1>1, <4>2 DEF OrderInv, OrderAt
      <4>4. \A k \in 1 .. Len(out[x]) : out[x][k] < i /\ 2 * out[x][k] <= pos[x] + 1
        BY SMTT(60), <1>0, <3>2, <4>2, <4>3
      <4>5. ASSUME NEW k \in DOMAIN out'[x]
            PROVE  /\ out'[x][k] \in DataFrames(Peer(x))' /\ 2 * out'[x][k] <= pos'[x]
                   /\ \A m \in 1 .. k - 1 : out'[x][m] < out'[x][k]
        <5>1. CASE k \in 1 .. Len(out[x])
          <6>1. \A m \in 1 .. k - 1 : m \in 1 .. Len(out[x])
            BY <4>2, <5>1
          <6>2. 2 * out[x][k] <= pos'[x]
            BY Zenon, <4>1, <4>4, <5>1
          <6>. QED
            BY ZenonT(60), <4>2, <4>3, <5>1, <6>1, <6>2
        <5>2. CASE k = Len(out[x]) + 1
          <6>1. /\ out'[x][k] \in DataFrames(Peer(x))' /\ 2 * out'[x][k] <= pos'[x]
            <7>1. out'[x][k] = i
              BY Zenon, <4>2, <5>2
            <7>2. i \in DataFrames(Peer(x))'
              BY ZenonT(60), <1>1, <3>3
            <7>3. 2 * i <= pos'[x]
              BY SMTT(60), <1>0, <3>2, <4>1
            <7>. QED
              BY Zenon, <7>1, <7>2, <7>3
          <6>2. \A m \in 1 .. k - 1 : m \in 1 .. Len(out[x])
            BY SMTT(60), <4>2, <5>2
          <6>. QED
            BY Zenon, <4>2, <4>4, <5>2, <6>1, <6>2
        <5>. QED
          BY SMTT(60), <4>2, <5>1, <5>2
      <4>6. pos'[x] <= Written(Peer(x))'
        BY SMTT(60), <1>0, <1>1, <3>1, <4>1
      <4>7. OrderAt(x)'
        BY Zenon, <3>1, <4>5, <4>6 DEF OrderAt
      <4>. QED
        BY ZenonT(60), <1>2, <3>1, <4>1, <4>7 DEF OrderInv
    <3>. QED
      BY Zenon, <2>5, <3>4, <3>5 DEF DataForwarded, i
  <2>. QED
    BY Zenon, <1>4, <2>1, <2>2, <2>3, <2>4, <2>5 DEF Read
<1>5. ASSUME pos' = pos, out' = out, \A y \in Side : rd'[y] = rd[y] \/ rd'[y] = "start"
      PROVE  OrderInv'
  BY ZenonT(60), <1>2, <1>5 DEF OrderInv
<1>6. ASSUME NEW x \in Side, DropRead(x)
      PROVE  \A y \in Side : rd'[y] = rd[y] \/ rd'[y] = "start"
  BY <1>6 DEF DropRead, TypeInv, TypeOK
<1>7. ASSUME NEW x \in Side, Write(x)
      PROVE  OrderInv'
  BY Zenon, <1>5, <1>6, <1>7 DEF Write, PlaintextRead, WriteDone, WriteFails, PlaintextEnds,
       readerVars
<1>8. CASE UserEof
  BY Zenon, <1>5, <1>6, <1>8 DEF UserEof, Side
<1>9. CASE Rotate
  BY Zenon, <1>5, <1>6, <1>9 DEF Rotate, RequestRotate, RotateTimer, RotateRequested,
       RotateStart, RotateDone, readerVars, Side
<1>10. CASE UNCHANGED vars
  BY Zenon, <1>5, <1>10 DEF vars
<1>. QED
  BY Zenon, <1>4, <1>7, <1>8, <1>9, <1>10 DEF Next

(* Everything handed on lies, in order, before the place the reader is at. *)
THEOREM OrderCorrect == Spec => []OrderInv
<1>1. Init => OrderInv
  BY DEF Init, OrderInv, OrderAt, Written, Side, Peer
<1>2. TypeInv /\ TypeInv' /\ OrderInv /\ [Next]_vars => OrderInv'
  BY Zenon, OrderStep
<1>. QED
  BY <1>1, <1>2, TypeCorrect, PTL DEF Spec

(* What an endpoint hands on is in order and without repetition, however   *)
(* many reads were dropped in the middle of a frame.                       *)
THEOREM InOrderHolds == Spec => []InOrder
<1>1. OrderInv => InOrder
  BY Zenon DEF OrderInv, OrderAt, InOrder
<1>. QED
  BY <1>1, OrderCorrect, PTL

-----------------------------------------------------------------------------
(* Keys.  Every KEY_ROTATE frame the bridge finished writing leads to a    *)
(* key the bridge has or had; the client only ever ratchets with such a    *)
(* frame, and only from the key the frame was sealed under.                *)
KeyInv ==
  /\ KeyAgreement
  /\ \A i \in KeyRotates("bridge") :
       \/ part["bridge"] /\ i = Len(log["bridge"])
       \/ Precedes(Append(log["bridge"][i].key, log["bridge"][i].rotation_nonce),
                   ch["bridge"].key)

(* A key that precedes another one still does after a ratchet (rotate_key).*)
LEMMA PrecedesAppend ==
  ASSUME NEW k \in Key, NEW l \in Key, NEW r \in RotationNonce, Precedes(k, l)
  PROVE  Precedes(k, Append(l, r))
BY DEF Precedes, Key

(* Every step keeps the two ratchets on one chain of keys.                 *)
LEMMA KeyStep ==
  ASSUME TypeInv, TypeInv', OrderInv, KeyInv, [Next]_vars
  PROVE  KeyInv'
<1>. USE DEF Side
<1>0. /\ ch["bridge"].key \in Key /\ ch["client"].key \in Key
      /\ ch["bridge"] \in Channel /\ ch["client"] \in Channel
  BY Zenon, ChannelFields DEF TypeInv, TypeOK
<1>1. ASSUME log'["bridge"] = log["bridge"], part'["bridge"] = part["bridge"],
             ch'["bridge"].key = ch["bridge"].key,
             ch'["client"].key = ch["client"].key
      PROVE  KeyInv'
  BY Zenon, <1>1 DEF KeyInv, KeyAgreement, KeyRotates, IsData
<1>2. CASE Quiet
  BY Zenon, <1>1, <1>2 DEF Quiet
<1>3. ASSUME NEW x \in Side, NEW n \in Nat, PlaintextRead(x, n)
      PROVE  KeyInv'
  <2>. DEFINE f == data_frame(ch[x], n)
  <2>1. f \in Frame /\ f.type = "DATA"
    BY Zenon, ChannelTyped, ChannelOps DEF data_frame, Frame
  <2>. HIDE DEF f
  <2>2. PutHeader(x, f) /\ ch' = ch /\ ~part[x]
    BY Zenon, <1>3 DEF PlaintextRead, TypeInv, Pending, f
  <2>3. CASE x = "client"
    BY Zenon, <1>1, <2>1, <2>2, <2>3, LogGrows
  <2>4. CASE x = "bridge"
    <3>1. /\ Len(log["bridge"]) \in Nat /\ DOMAIN log["bridge"] = 1 .. Len(log["bridge"])
          /\ DOMAIN log'["bridge"] = 1 .. Len(log["bridge"]) + 1
          /\ \A i \in DOMAIN log["bridge"] : log'["bridge"][i] = log["bridge"][i]
          /\ log'["bridge"][Len(log["bridge"]) + 1] = f
      BY ZenonT(60), <2>1, <2>2, <2>4, LogGrows
    <3>2. \A i \in KeyRotates("bridge")' :
            i \in KeyRotates("bridge") /\ log'["bridge"][i] = log["bridge"][i]
      BY <2>1, <3>1 DEF KeyRotates, IsData
    <3>. QED
      BY Zenon, <2>2, <2>4, <3>2 DEF KeyInv, KeyAgreement
  <2>. QED
    BY Zenon, <2>3, <2>4
<1>4. ASSUME NEW x \in Side, WriteDone(x)
      PROVE  KeyInv'
  <2>1. /\ log' = log /\ part' = [part EXCEPT ![x] = FALSE]
        /\ ch' = [ch EXCEPT ![x] = write_frame(@)]
    BY Zenon, <1>4 DEF WriteDone, PutBody
  <2>2. ch'["bridge"].key = ch["bridge"].key /\ ch'["client"].key = ch["client"].key
    <3>1. ch \in [Side -> Channel] /\ write_frame(ch[x]).key = ch[x].key
      BY Zenon, ChannelFields DEF TypeInv, TypeOK
    <3>2. \A y \in Side : ch'[y] = IF y = x THEN write_frame(ch[x]) ELSE ch[y]
      BY Zenon, <2>1, <3>1
    <3>3. \A y \in Side : ch'[y].key = ch[y].key
      BY Zenon, <3>1, <3>2
    <3>. QED
      BY Zenon, <3>3 DEF Side
  <2>3. CASE x = "client"
    BY Zenon, <1>1, <2>1, <2>2, <2>3 DEF TypeInv, TypeOK
  <2>4. CASE x = "bridge"
    <3>1. LastFrame("bridge").type = "DATA"
      BY Zenon, <1>4, <2>4 DEF WriteDone, TypeInv, Pending, DataFrame
    <3>. QED
      BY Zenon, <2>1, <2>2, <3>1 DEF KeyInv, KeyAgreement, KeyRotates, IsData, LastFrame
  <2>. QED
    BY Zenon, <2>3, <2>4
<1>5. ASSUME NEW r \in RotationNonce, RotateStart(r)
      PROVE  KeyInv'
  <2>. DEFINE f == key_rotate_frame(ch["bridge"], r)
  <2>1. f \in Frame
    BY Zenon, <1>0, ChannelOps DEF Frame
  <2>. HIDE DEF f
  <2>2. PutHeader("bridge", f) /\ ch' = ch /\ ~part["bridge"]
    BY Zenon, <1>5 DEF RotateStart, TypeInv, Pending, f
  <2>3. /\ Len(log["bridge"]) \in Nat /\ DOMAIN log["bridge"] = 1 .. Len(log["bridge"])
        /\ DOMAIN log'["bridge"] = 1 .. Len(log["bridge"]) + 1
        /\ \A i \in DOMAIN log["bridge"] : log'["bridge"][i] = log["bridge"][i]
        /\ Len(log'["bridge"]) = Len(log["bridge"]) + 1 /\ part'["bridge"]
    <3>1. "bridge" \in Side
      BY ZenonT(60)
    <3>. QED
      BY Zenon, <2>1, <2>2, <3>1, LogGrows
  <2>4. \A i \in KeyRotates("bridge")' :
          \/ i = Len(log'["bridge"])
          \/ i \in KeyRotates("bridge") /\ log'["bridge"][i] = log["bridge"][i]
    BY <2>3 DEF KeyRotates, IsData
  <2>. QED
    BY Zenon, <2>2, <2>3, <2>4 DEF KeyInv, KeyAgreement
<1>6. CASE RotateDone
  <2>. DEFINE f == LastFrame("bridge")
  <2>1. /\ f \in KeyRotateFrame /\ f.key = ch["bridge"].key /\ part["bridge"]
        /\ f.rotation_nonce \in RotationNonce
    BY Zenon, <1>6 DEF TypeInv, Pending, RotateDone, KeyRotateFrame
  <2>2. /\ log' = log /\ ch'["client"] = ch["client"]
        /\ ch'["bridge"].key = Append(ch["bridge"].key, f.rotation_nonce)
    <3>1. send_key_rotate(ch["bridge"]) \in Channel
      BY Zenon, <1>0, ChannelOps
    <3>2. ch'["bridge"] = rotate_key(send_key_rotate(ch["bridge"]), f.rotation_nonce)
      BY Zenon, <1>6 DEF RotateDone, TypeInv, TypeOK
    <3>3. ch'["bridge"].key = Append(send_key_rotate(ch["bridge"]).key, f.rotation_nonce)
      <4>. DEFINE c == send_key_rotate(ch["bridge"])
      <4>. HIDE DEF c
      <4>1. rotate_key(c, f.rotation_nonce).key = Append(c.key, f.rotation_nonce)
        BY Zenon, <2>1, <3>1, ChannelFields DEF c
      <4>. QED
        BY Zenon, <3>2, <4>1 DEF c
    <3>4. log' = log /\ ch'["client"] = ch["client"]
      BY Zenon, <1>6 DEF RotateDone, PutBody, TypeInv, TypeOK
    <3>. QED
      BY Zenon, <1>0, <3>3, <3>4, ChannelFields
  <2>3. KeyAgreement'
    BY Zenon, <1>0, <2>1, <2>2, PrecedesAppend DEF KeyInv, KeyAgreement
  <2>4. \A i \in KeyRotates("bridge") :
          Precedes(Append(log["bridge"][i].key, log["bridge"][i].rotation_nonce),
                   ch'["bridge"].key)
    <3>. TAKE i \in KeyRotates("bridge")
    <3>1. /\ log["bridge"][i].key \in Key
          /\ log["bridge"][i].rotation_nonce \in RotationNonce
      <4>1. log["bridge"][i] \in Frame /\ log["bridge"][i].type # "DATA"
        <5>1. log["bridge"] \in Seq(Frame)
          BY Zenon, <1>0 DEF TypeInv, TypeOK
        <5>2. i \in DOMAIN log["bridge"] /\ log["bridge"][i].type # "DATA"
          BY Zenon DEF KeyRotates, IsData
        <5>. QED
          BY Zenon, <5>1, <5>2, ElementTyped
      <4>2. log["bridge"][i] \in KeyRotateFrame
        BY ZenonT(60), <4>1 DEF Frame, DataFrame
      <4>. QED
        BY Zenon, <4>2 DEF KeyRotateFrame
    <3>2. CASE i = Len(log["bridge"])
      <4>1. Append(log["bridge"][i].key, log["bridge"][i].rotation_nonce)
              = ch'["bridge"].key
        BY ZenonT(60), <2>1, <2>2, <3>2 DEF LastFrame
      <4>2. ch'["bridge"].key \in Key
        BY <1>0, <2>1, <2>2 DEF Key
      <4>. QED
        BY <4>1, <4>2 DEF Precedes, Key
    <3>3. CASE Precedes(Append(log["bridge"][i].key, log["bridge"][i].rotation_nonce),
                        ch["bridge"].key)
      <4>1. Append(log["bridge"][i].key, log["bridge"][i].rotation_nonce) \in Key
        BY <3>1 DEF Key
      <4>. QED
        BY Zenon, <1>0, <2>1, <2>2, <3>3, <4>1, PrecedesAppend
    <3>. QED
      BY Zenon, <3>2, <3>3 DEF KeyInv
  <2>. QED
    BY Zenon, <2>2, <2>3, <2>4 DEF KeyInv, KeyRotates, IsData
<1>7. CASE ClientRotates
  <2>. DEFINE f == Incoming("client")
  <2>. DEFINE i == pos["client"] \div 2 + 1
  <2>a. /\ BodyReady("client") /\ OrderAt("client") /\ Peer("client") = "bridge"
        /\ f.type = "KEY_ROTATE" /\ opens(ch["client"], f)
    BY Zenon, <1>7 DEF ClientRotates, KeyRotateReceived, OrderInv, Peer
  <2>2. /\ i \in DOMAIN log["bridge"] /\ f = log["bridge"][i] /\ f \in Frame
        /\ part["bridge"] => i < Len(log["bridge"])
    BY Zenon, <2>a, BodyFrame
  <2>1. f \in KeyRotateFrame /\ f.key = ch["client"].key
    BY Zenon, <2>a, <2>2 DEF Frame, DataFrame, opens
  <2>3. i \in KeyRotates("bridge") /\ ~(part["bridge"] /\ i = Len(log["bridge"]))
    <3>1. Len(log["bridge"]) \in Nat
      BY DEF TypeInv, TypeOK
    <3>2. f.type # "DATA"
      BY Zenon, <2>1 DEF KeyRotateFrame
    <3>. QED
      BY SMTT(60), <2>2, <3>1, <3>2 DEF KeyRotates, IsData
  <2>4. Precedes(Append(f.key, f.rotation_nonce), ch["bridge"].key)
    BY Zenon, <2>2, <2>3 DEF KeyInv
  <2>5. /\ accept(ch["client"], f) \in Channel /\ f.rotation_nonce \in RotationNonce
    BY Zenon, <1>0, <2>1, ChannelOps DEF Frame, KeyRotateFrame
  <2>6. /\ ch'["client"] = rotate_key(accept(ch["client"], f), f.rotation_nonce)
        /\ ch'["bridge"] = ch["bridge"] /\ log' = log /\ part' = part
    <3>1. /\ ch' = [ch EXCEPT !["client"] = rotate_key(accept(@, f), f.rotation_nonce)]
          /\ TakeBody("client")
      BY Zenon, <1>7 DEF ClientRotates, KeyRotateReceived
    <3>2. DOMAIN ch = Side
      BY Zenon DEF TypeInv, TypeOK
    <3>. QED
      BY Zenon, <3>1, <3>2 DEF TakeBody
  <2>. HIDE DEF i, f
  <2>7. ch'["client"].key = Append(f.key, f.rotation_nonce)
    <3>. DEFINE c == accept(ch["client"], f)
    <3>. HIDE DEF c
    <3>1. c.key = ch["client"].key
      BY Zenon, <1>0, ChannelFields DEF c
    <3>2. rotate_key(c, f.rotation_nonce).key = Append(c.key, f.rotation_nonce)
      BY Zenon, <2>5, ChannelFields DEF c
    <3>. QED
      BY Zenon, <2>1, <2>6, <3>1, <3>2 DEF c
  <2>. QED
    BY Zenon, <2>4, <2>6, <2>7 DEF KeyInv, KeyAgreement, KeyRotates, IsData
<1>. QED
  BY Zenon, <1>2, <1>3, <1>4, <1>5, <1>6, <1>7, StepKinds

(* The two ratchets of a session never fork.                               *)
THEOREM KeyAgreementHolds == Spec => []KeyAgreement
<1>1. Init => KeyInv
  <2>1. "bridge" \in Side /\ "client" \in Side
    BY Zenon DEF Side
  <2>. QED
    BY <2>1 DEF Init, KeyInv, KeyAgreement, KeyRotates, Precedes, new
<1>2. TypeInv /\ TypeInv' /\ OrderInv /\ KeyInv /\ [Next]_vars => KeyInv'
  BY Zenon, KeyStep
<1>3. KeyInv => KeyAgreement
  BY Zenon DEF KeyInv
<1>. QED
  BY <1>1, <1>2, <1>3, TypeCorrect, OrderCorrect, PTL DEF Spec

-----------------------------------------------------------------------------
(* Refinement: a step submits one item, delivers one, or does neither.     *)
LEMMA DeliveryStep ==
  ASSUME TypeInv, TypeInv', OrderInv, [Next]_vars
  PROVE  [Delivery!Next]_<<log, out>>
<1>. USE DEF Side
<1>1. ASSUME NEW x \in Side, NEW f \in Frame, PutHeader(x, f), out' = out
      PROVE  Delivery!Next
  <2>1. log' = [log EXCEPT ![x] = Append(@, f)] /\ out' = out
    BY Zenon, <1>1 DEF PutHeader
  <2>2. Delivery!Submit(x)
    <3>1. DOMAIN log = Side
      BY Zenon DEF TypeInv, TypeOK
    <3>. QED
      BY <2>1, <3>1 DEF Delivery!Submit
  <2>. QED
    BY Zenon, <2>2 DEF Delivery!Next
<1>2. ASSUME NEW x \in Side, DataForwarded(x), out' # out
      PROVE  Delivery!Next
  <2>. DEFINE i == pos[x] \div 2 + 1
  <2>0. BodyReady(x) /\ OrderAt(x)
    BY Zenon, <1>2 DEF DataForwarded, OrderInv
  <2>1. pos[x] < Written(Peer(x)) /\ rd[x] = "body" /\ pos[x] \in Nat
    BY Zenon, <1>2 DEF DataForwarded, BodyReady, Readable, TypeInv, TypeOK
  <2>2. i \in DOMAIN log[Peer(x)] /\ 2 * i = pos[x] + 1 /\ i \in Nat
    BY Zenon, <2>0, BodyFrame
  <2>3. \A k \in DOMAIN out[x] : out[x][k] \in Nat /\ 2 * out[x][k] <= pos[x]
    <3>1. out[x] \in Seq(Nat)
      BY Zenon DEF TypeInv, TypeOK
    <3>. QED
      BY SMTT(60), <3>1 DEF OrderInv, OrderAt
  <2>4. IsDataFrame(log[Peer(x)][i]) /\ out' = [out EXCEPT ![x] = Append(@, i)]
    BY Zenon, <1>2 DEF DataForwarded, Incoming, IsDataFrame
  <2>. HIDE DEF i
  <2>5. \A k \in DOMAIN out[x] : out[x][k] < i
    BY <2>1, <2>2, <2>3
  <2>6. UNCHANGED log
    BY Zenon, <1>2 DEF DataForwarded, TakeBody
  <2>7. Delivery!Deliver(x)
    BY Zenon, <2>2, <2>4, <2>5, <2>6 DEF Delivery!Deliver
  <2>. QED
    BY Zenon, <2>7 DEF Delivery!Next
<1>3. ASSUME NEW x \in Side, Read(x)
      PROVE  [Delivery!Next]_<<log, out>>
  <2>1. CASE DataForwarded(x)
    BY Zenon, <1>2, <2>1 DEF DataForwarded, TakeBody
  <2>2. CASE ~DataForwarded(x)
    <3>1. log' = log /\ out' = out
      BY Zenon, <1>3, <2>2 DEF Read, ReadHeader, MisreadFails, MisreadWaits, ReadIo,
           BodyRejected, DataUndeliverable, KeyRotateReceived, TakeBody
    <3>. QED
      BY Zenon, <3>1
  <2>. QED
    BY Zenon, <2>1, <2>2
<1>4. ASSUME NEW x \in Side, Write(x)
      PROVE  [Delivery!Next]_<<log, out>>
  <2>1. ASSUME NEW n \in 1 .. FrameSize(x), PlaintextRead(x, n)
        PROVE  Delivery!Next
    <3>1. n \in Nat
      BY SizeAssumption DEF FrameSize
    <3>2. data_frame(ch[x], n) \in Frame
      BY Zenon, <3>1, ChannelOps DEF TypeInv, TypeOK, Frame
    <3>. QED
      BY Zenon, <1>1, <2>1, <3>2 DEF PlaintextRead
  <2>. QED
    BY Zenon, <1>4, <2>1 DEF Write, WriteDone, WriteFails, PlaintextEnds, PutBody, readerVars
<1>5. CASE Rotate
  <2>1. ASSUME NEW r \in RotationNonce, RotateStart(r)
        PROVE  Delivery!Next
    <3>1. key_rotate_frame(ch["bridge"], r) \in Frame
      BY Zenon, ChannelOps DEF TypeInv, TypeOK, Frame
    <3>. QED
      BY Zenon, <1>1, <2>1, <3>1 DEF RotateStart, readerVars
  <2>. QED
    BY Zenon, <1>5, <2>1 DEF Rotate, RequestRotate, RotateTimer, RotateRequested, RotateDone,
         PutBody, readerVars
<1>6. CASE UserEof
  BY Zenon, <1>6 DEF UserEof
<1>7. CASE UNCHANGED vars
  BY Zenon, <1>7 DEF vars
<1>. QED
  BY Zenon, <1>3, <1>4, <1>5, <1>6, <1>7 DEF Next

(* The relay session implements ordered, at-most-once delivery.            *)
THEOREM RelayRefinesDelivery == Spec => RefinesDelivery
<1>1. Init => Delivery!Init
  BY Zenon DEF Init, Delivery!Init
<1>2. TypeInv /\ TypeInv' /\ OrderInv /\ [Next]_vars => [Delivery!Next]_<<log, out>>
  BY Zenon, DeliveryStep
<1>. QED
  BY <1>1, <1>2, TypeCorrect, OrderCorrect, PTL DEF Spec, RefinesDelivery, Delivery!Spec

-----------------------------------------------------------------------------
(* Gaps.  While none of its reads was dropped past a header, a reader that *)
(* goes on stands between two frames or past the header of one, and handed *)
(* on every DATA frame before that place.                                  *)
Synced(x) ==
  \/ rd[x] = "start" /\ pos[x] % 2 = 0
  \/ rd[x] = "body" /\ pos[x] % 2 = 1

Complete(x) ==
  \A i \in DataFrames(Peer(x)) : 2 * i <= pos[x] => \E m \in DOMAIN out[x] : out[x][m] = i

GapAt(x) == ~cut[x] => NoGap(x) /\ (pc[x] # "done" => Synced(x) /\ Complete(x))

GapInv == \A x \in Side : GapAt(x)

(* A frame that ends at or before an odd place ends before the even one.   *)
LEMMA Even ==
  ASSUME NEW p \in Nat, NEW i \in Nat, p % 2 = 0, 2 * i <= p + 1
  PROVE  2 * i <= p
OBVIOUS

(* A frame that a step adds to a log lies behind all that was written.     *)
LEMMA NewData ==
  ASSUME TypeInv, TypeInv', [Next]_vars, NEW z \in Side, NEW i \in DataFrames(z)'
  PROVE  i \in Nat /\ (i \in DataFrames(z) \/ 2 * i > Written(z))
<1>1. /\ log[z] \in Seq(Frame) /\ log'[z] \in Seq(Frame) /\ part[z] \in BOOLEAN
      /\ Len(log[z]) \in Nat /\ DOMAIN log[z] = 1 .. Len(log[z])
      /\ Len(log'[z]) \in Nat /\ DOMAIN log'[z] = 1 .. Len(log'[z])
  <2>1. log[z] \in Seq(Frame) /\ log'[z] \in Seq(Frame) /\ part[z] \in BOOLEAN
    BY Zenon DEF TypeInv, TypeOK
  <2>. QED
    BY <2>1
<1>2. i \in DOMAIN log'[z] /\ log'[z][i].type = "DATA" /\ i \in Nat /\ i > 0
  BY <1>1 DEF DataFrames, IsData
<1>3. CASE i \in DOMAIN log[z]
  <2>1. log'[z][i] = log[z][i]
    BY Zenon, <1>3, LogMonotone DEF Grows
  <2>. QED
    BY Zenon, <1>2, <1>3, <2>1 DEF DataFrames, IsData
<1>4. CASE i \notin DOMAIN log[z]
  <2>1. i > Len(log[z])
    BY <1>1, <1>2, <1>4
  <2>2. Written(z) <= 2 * Len(log[z])
    <3>1. CASE part[z]
      BY <1>1, <3>1 DEF Written
    <3>2. CASE ~part[z]
      BY <1>1, <3>2 DEF Written
    <3>. QED
      BY Zenon, <3>1, <3>2
  <2>3. Written(z) \in Int
    BY Zenon, LogMonotone
  <2>. QED
    BY <1>1, <1>2, <2>1, <2>2, <2>3
<1>. QED
  BY Zenon, <1>3, <1>4

(* A reader that a step leaves alone, or ends, or whose read is dropped.   *)
LEMMA GapFrame ==
  ASSUME TypeInv, TypeInv', OrderInv, [Next]_vars, NEW y \in Side, GapAt(y),
         pos'[y] = pos[y], out'[y] = out[y],
         pc[y] = "done" => pc'[y] = "done",
         cut[y] => cut'[y],
         ~cut'[y] => rd'[y] = rd[y]
  PROVE  GapAt(y)'
<1>0. Peer(y) \in Side /\ pos[y] \in Nat /\ out[y] \in Seq(Nat)
  BY Zenon DEF Side, Peer, TypeInv, TypeOK
<1>1. /\ \A i \in DataFrames(Peer(y))' :
           i \in Nat /\ (i \in DataFrames(Peer(y)) \/ 2 * i > Written(Peer(y)))
      /\ Written(Peer(y)) \in Int
  BY Zenon, <1>0, NewData, LogMonotone
<1>2. /\ pos[y] <= Written(Peer(y))
      /\ \A k \in DOMAIN out[y] : out[y][k] \in Nat /\ 2 * out[y][k] <= pos[y]
  BY <1>0 DEF OrderInv, OrderAt
<1>3. SUFFICES ASSUME ~cut'[y]
               PROVE  NoGap(y)' /\ (pc'[y] # "done" => Synced(y)' /\ Complete(y)')
  BY Zenon DEF GapAt
<1>4. NoGap(y) /\ (pc[y] # "done" => Synced(y) /\ Complete(y)) /\ rd'[y] = rd[y]
  BY Zenon, <1>3 DEF GapAt
<1>5. NoGap(y)'
  <2>1. ASSUME NEW k \in DOMAIN out[y], NEW i \in DataFrames(Peer(y))', i < out[y][k]
        PROVE  \E m \in DOMAIN out[y] : out[y][m] = i
    <3>1. i \in DataFrames(Peer(y))
      BY SMTT(60), <1>0, <1>1, <1>2, <2>1
    <3>. QED
      BY Zenon, <1>4, <2>1, <3>1 DEF NoGap
  <2>. QED
    BY ZenonT(60), <2>1 DEF NoGap
<1>6. Complete(y) => Complete(y)'
  <2>1. \A i \in DataFrames(Peer(y))' : 2 * i <= pos[y] => i \in DataFrames(Peer(y))
    BY <1>0, <1>1, <1>2
  <2>. QED
    BY Zenon, <2>1 DEF Complete
<1>7. Synced(y) => Synced(y)'
  BY Zenon, <1>4 DEF Synced
<1>. QED
  BY Zenon, <1>4, <1>5, <1>6, <1>7

(* Every step keeps readers without gaps.                                  *)
LEMMA GapStep ==
  ASSUME TypeInv, TypeInv', OrderInv, GapInv, [Next]_vars
  PROVE  GapInv'
<1>0. \A y \in Side :
        /\ Peer(y) \in Side /\ pos[y] \in Nat /\ out[y] \in Seq(Nat)
        /\ cut[y] \in BOOLEAN /\ GapAt(y)
  BY Zenon DEF Side, Peer, TypeInv, TypeOK, GapInv
<1>1. ASSUME pos' = pos, out' = out, cut' = cut, rd' = rd,
             \A y \in Side : pc[y] = "done" => pc'[y] = "done"
      PROVE  GapInv'
  BY Zenon, <1>0, <1>1, GapFrame DEF GapInv
<1>2. ASSUME NEW x \in Side, DropRead(x), pos' = pos, out' = out,
             \A y \in Side : pc[y] = "done" => pc'[y] = "done"
      PROVE  GapInv'
  <2>1. ASSUME NEW y \in Side
        PROVE  (cut[y] => cut'[y]) /\ (~cut'[y] => rd'[y] = rd[y])
    <3>1. CASE y = x
      <4>1. rd'[x] = "start" /\ (cut'[x] <=> cut[x] \/ rd[x] # "start")
        <5>1. x \in DOMAIN rd /\ x \in DOMAIN cut
          BY Zenon DEF TypeInv, TypeOK
        <5>. QED
          BY Zenon, <1>2, <5>1 DEF DropRead
      <4>. QED
        BY Zenon, <3>1, <4>1
    <3>2. CASE y # x
      BY ZenonT(60), <1>2, <3>2 DEF DropRead, TypeInv, TypeOK
    <3>. QED
      BY Zenon, <3>1, <3>2
  <2>. QED
    BY Zenon, <1>0, <1>2, <2>1, GapFrame DEF GapInv
<1>3. ASSUME NEW x \in Side, Exit(x)
      PROVE  \A y \in Side : pc[y] = "done" => pc'[y] = "done"
  BY <1>3 DEF Exit, TypeInv, TypeOK
<1>4. ASSUME NEW x \in Side, NEW st, pc[x] # "done", pc' = [pc EXCEPT ![x] = st]
      PROVE  \A y \in Side : pc[y] = "done" => pc'[y] = "done"
  BY <1>4 DEF TypeInv, TypeOK
<1>5. ASSUME NEW x \in Side, Write(x)
      PROVE  GapInv'
  <2>1. CASE \E n \in 1 .. FrameSize(x) : PlaintextRead(x, n)
    <3>1. pc[x] # "done" /\ pc' = [pc EXCEPT ![x] = "write"]
      BY Zenon, <2>1 DEF PlaintextRead
    <3>. QED
      BY Zenon, <1>2, <1>4, <2>1, <3>1 DEF PlaintextRead
  <2>2. CASE WriteDone(x)
    <3>1. PICK st : pc[x] # "done" /\ pc' = [pc EXCEPT ![x] = st]
      BY Zenon, <2>2 DEF WriteDone
    <3>. QED
      BY Zenon, <1>1, <1>4, <2>2, <3>1 DEF WriteDone, readerVars
  <2>3. CASE WriteFails(x)
    BY Zenon, <1>1, <1>3, <2>3 DEF WriteFails, readerVars
  <2>4. CASE PlaintextEnds(x)
    BY Zenon, <1>2, <1>3, <2>4 DEF PlaintextEnds
  <2>. QED
    BY Zenon, <1>5, <2>1, <2>2, <2>3, <2>4 DEF Write
<1>6. CASE UserEof
  BY Zenon, <1>2, <1>6 DEF UserEof, Side
<1>7. CASE Rotate
  <2>1. CASE RequestRotate
    BY Zenon, <1>1, <2>1 DEF RequestRotate, readerVars
  <2>2. CASE RotateTimer \/ RotateRequested
    <3>1. "bridge" \in Side /\ pc["bridge"] # "done" /\ pc' = [pc EXCEPT !["bridge"] = "rotate"]
      BY Zenon, <2>2 DEF RotateTimer, RotateRequested, Side
    <3>. QED
      BY Zenon, <1>2, <1>4, <2>2, <3>1 DEF RotateTimer, RotateRequested
  <2>3. CASE (\E r \in RotationNonce : RotateStart(r)) \/ RotateDone
    <3>1. PICK st : pc["bridge"] # "done" /\ pc' = [pc EXCEPT !["bridge"] = st]
      BY Zenon, <2>3 DEF RotateStart, RotateDone
    <3>2. "bridge" \in Side
      BY Zenon DEF Side
    <3>. QED
      BY Zenon, <1>1, <1>4, <2>3, <3>1, <3>2 DEF RotateStart, RotateDone, readerVars
  <2>. QED
    BY Zenon, <1>7, <2>1, <2>2, <2>3 DEF Rotate
<1>8. CASE UNCHANGED vars
  BY Zenon, <1>1, <1>8 DEF vars
<1>9. ASSUME NEW x \in Side, Read(x)
      PROVE  GapInv'
  <2>0. pos[x] \in Nat /\ out[x] \in Seq(Nat)
    BY Zenon, <1>0
  <2>a. ASSUME NEW i \in DataFrames(Peer(x))
        PROVE  i \in Nat
    <3>1. log[Peer(x)] \in Seq(Frame)
      BY Zenon, <1>0 DEF TypeInv, TypeOK
    <3>. QED
      BY <3>1 DEF DataFrames
  <2>1. /\ log' = log /\ cut' = cut /\ pc[x] = "select"
    BY Zenon, <1>9 DEF Read, ReadHeader, MisreadFails, MisreadWaits, ReadIo, BodyRejected,
         DataForwarded, DataUndeliverable, KeyRotateReceived, TakeBody, BodyReady, Readable
  <2>2. ASSUME NEW y \in Side, y # x
        PROVE  pos'[y] = pos[y] /\ out'[y] = out[y] /\ rd'[y] = rd[y] /\ pc'[y] = pc[y]
    <3>1. pos' = pos \/ pos' = [pos EXCEPT ![x] = @ + 1]
      BY Zenon, <1>9 DEF Read, ReadHeader, MisreadFails, MisreadWaits, ReadIo, BodyRejected,
           DataForwarded, DataUndeliverable, KeyRotateReceived, TakeBody
    <3>2. rd' = rd \/ \E st : rd' = [rd EXCEPT ![x] = st]
      BY Zenon, <1>9 DEF Read, ReadHeader, MisreadFails, MisreadWaits, ReadIo, BodyRejected,
           DataForwarded, DataUndeliverable, KeyRotateReceived, TakeBody
    <3>3. out' = out \/ \E o : out' = [out EXCEPT ![x] = o]
      BY Zenon, <1>9 DEF Read, ReadHeader, MisreadFails, MisreadWaits, ReadIo, BodyRejected,
           DataForwarded, DataUndeliverable, KeyRotateReceived
    <3>4. pc' = pc \/ pc' = [pc EXCEPT ![x] = "done"]
      BY Zenon, <1>9 DEF Read, ReadHeader, MisreadFails, MisreadWaits, ReadIo, BodyRejected,
           DataForwarded, DataUndeliverable, KeyRotateReceived, ReadFails, Exit
    <3>5. pos'[y] = pos[y] /\ pc'[y] = pc[y]
      BY ZenonT(60), <2>2, <3>1, <3>4 DEF TypeInv, TypeOK
    <3>6. rd'[y] = rd[y]
      BY Zenon, <2>2, <3>2 DEF TypeInv, TypeOK
    <3>7. out'[y] = out[y]
      BY ZenonT(60), <2>2, <3>3 DEF TypeInv, TypeOK
    <3>. QED
      BY Zenon, <3>5, <3>6, <3>7
  <2>3. \A y \in Side : y # x => GapAt(y)'
    BY Zenon, <1>0, <2>1, <2>2, GapFrame
  <2>4. SUFFICES ASSUME ~cut[x]
                 PROVE  NoGap(x)' /\ (pc'[x] # "done" => Synced(x)' /\ Complete(x)')
    BY Zenon, <2>1, <2>3 DEF GapInv, GapAt
  <2>5. NoGap(x) /\ Synced(x) /\ Complete(x)
    BY Zenon, <1>0, <2>1, <2>4 DEF GapAt
  <2>6. out'[x] = out[x] => NoGap(x)'
    BY <2>1, <2>5 DEF NoGap, DataFrames, IsData
  <2>7. CASE ReadHeader(x)
    <3>1. pos'[x] = pos[x] + 1 /\ out' = out /\ pos[x] % 2 = 0
      BY <2>7 DEF ReadHeader, Aligned, TypeInv, TypeOK
    <3>2. rd'[x] = "body" \/ pc'[x] = "done"
      BY <2>7 DEF ReadHeader, ReadFails, Exit, TypeInv, TypeOK
    <3>3. pos'[x] % 2 = 1
      BY SMTT(60), <2>0, <3>1
    <3>4. Complete(x)'
      <4>1. ASSUME NEW i \in DataFrames(Peer(x)), 2 * i <= pos[x] + 1
            PROVE  2 * i <= pos[x]
        <5>1. i \in Nat
          BY Zenon, <2>a
        <5>. QED
          BY Zenon, <2>0, <3>1, <4>1, <5>1, Even
      <4>. QED
        BY Zenon, <2>1, <2>5, <3>1, <4>1 DEF Complete, DataFrames, IsData
    <3>. QED
      BY ZenonT(60), <2>6, <3>1, <3>2, <3>3, <3>4 DEF Synced
  <2>8. CASE MisreadFails(x) \/ MisreadWaits(x)
    BY Zenon, <2>5, <2>8 DEF MisreadFails, MisreadWaits, Synced, Aligned
  <2>9. CASE ReadIo(x) \/ BodyRejected(x) \/ DataUndeliverable(x)
    <3>1. out' = out /\ pc'[x] = "done"
      BY SMTT(60), <2>9 DEF ReadIo, BodyRejected, DataUndeliverable, ReadFails, Exit, TypeInv, TypeOK
    <3>. QED
      BY Zenon, <2>6, <3>1
  <2>10. ASSUME BodyReady(x), TakeBody(x)
         PROVE  /\ Synced(x)' /\ pos'[x] = pos[x] + 1
                /\ pos[x] \div 2 + 1 \in Nat /\ 2 * (pos[x] \div 2 + 1) = pos[x] + 1
                /\ Incoming(x) = log[Peer(x)][pos[x] \div 2 + 1]
                /\ pos[x] \div 2 + 1 \in DOMAIN log[Peer(x)]
    <3>1. pos'[x] = pos[x] + 1 /\ rd'[x] = "start" /\ rd[x] = "body"
      BY <2>10 DEF TakeBody, BodyReady, TypeInv, TypeOK
    <3>2. /\ pos[x] \div 2 + 1 \in Nat /\ 2 * (pos[x] \div 2 + 1) = pos[x] + 1
          /\ Incoming(x) = log[Peer(x)][pos[x] \div 2 + 1]
          /\ pos[x] \div 2 + 1 \in DOMAIN log[Peer(x)]
      BY Zenon, <2>10, BodyFrame DEF OrderInv
    <3>3. pos'[x] % 2 = 0
      BY <1>0, <2>5, <3>1 DEF Synced
    <3>. QED
      BY Zenon, <3>1, <3>2, <3>3 DEF Synced
  <2>11. CASE KeyRotateReceived(x)
    <3>. DEFINE j == pos[x] \div 2 + 1
    <3>1. /\ Synced(x)' /\ pos'[x] = pos[x] + 1 /\ j \in Nat /\ 2 * j = pos[x] + 1
          /\ log[Peer(x)][j].type = "KEY_ROTATE" /\ out' = out
      BY Zenon, <2>10, <2>11 DEF KeyRotateReceived
    <3>. HIDE DEF j
    <3>2. ASSUME NEW i \in DataFrames(Peer(x)), 2 * i <= pos[x] + 1
          PROVE  2 * i <= pos[x]
      <4>1. i \in Nat /\ i # j
        BY Zenon, <2>a, <3>1 DEF DataFrames, IsData
      <4>. QED
        BY <1>0, <3>1, <3>2, <4>1
    <3>3. Complete(x)'
      BY Zenon, <2>1, <2>5, <3>1, <3>2 DEF Complete, DataFrames, IsData
    <3>. QED
      BY Zenon, <2>6, <3>1, <3>3
  <2>12. CASE DataForwarded(x)
    <3>. DEFINE j == pos[x] \div 2 + 1
    <3>1. /\ Synced(x)' /\ pos'[x] = pos[x] + 1 /\ j \in Nat /\ 2 * j = pos[x] + 1
      BY Zenon, <2>10, <2>12 DEF DataForwarded
    <3>2. \/ out' = out /\ pc'[x] = "done"
          \/ out'[x] = Append(out[x], j)
      BY ZenonT(60), <2>12 DEF DataForwarded, Exit, TypeInv, TypeOK
    <3>. HIDE DEF j
    <3>3. CASE out'[x] = Append(out[x], j)
      <4>1. /\ Len(out[x]) \in Nat /\ DOMAIN out[x] = 1 .. Len(out[x])
            /\ DOMAIN out'[x] = 1 .. (Len(out[x]) + 1)
            /\ \A m \in DOMAIN out[x] : out'[x][m] = out[x][m] /\ out[x][m] \in Nat
            /\ out'[x][Len(out[x]) + 1] = j
        <5>1. out[x] \in Seq(Nat) /\ j \in Nat /\ out'[x] = Append(out[x], j)
          BY Zenon, <2>0, <3>1, <3>3
        <5>. QED
          BY SMTT(60), <5>1
      <4>2. ASSUME NEW i \in DataFrames(Peer(x)), 2 * i <= pos[x] + 1
            PROVE  \E m \in DOMAIN out'[x] : out'[x][m] = i
        <5>1. i \in Nat
          BY Zenon, <2>a
        <5>2. CASE i = j
          BY <4>1, <5>2
        <5>3. CASE i # j
          <6>1. 2 * i <= pos[x]
            BY <1>0, <3>1, <4>2, <5>1, <5>3
          <6>2. PICK m \in DOMAIN out[x] : out[x][m] = i
            BY Zenon, <2>5, <6>1 DEF Complete
          <6>. QED
            BY <4>1, <6>2
        <5>. QED
          BY Zenon, <5>2, <5>3
      <4>3. Complete(x)'
        BY Zenon, <2>1, <3>1, <4>2 DEF Complete, DataFrames, IsData
      <4>4. \A k \in DOMAIN out'[x] : out'[x][k] \in Nat /\ 2 * out'[x][k] <= pos[x] + 1
        <5>1. \A k \in DOMAIN out[x] : 2 * out[x][k] <= pos[x]
          BY Zenon DEF OrderInv, OrderAt
        <5>. QED
          <6>1. PICK n \in Nat : n = Len(out[x])
            BY Zenon, <4>1
          <6>2. ASSUME NEW k \in 1 .. (n + 1)
                PROVE  out'[x][k] \in Nat /\ 2 * out'[x][k] <= pos[x] + 1
            <7>1. CASE k = n + 1
              BY <2>0, <3>1, <4>1, <6>1, <7>1
            <7>2. CASE k # n + 1
              <8>1. k \in DOMAIN out[x]
                BY <4>1, <6>1, <7>2
              <8>2. /\ out'[x][k] = out[x][k] /\ out[x][k] \in Nat /\ 2 * out[x][k] <= pos[x]
                BY Zenon, <4>1, <5>1, <8>1
              <8>. QED
                BY SMTT(60), <2>0, <8>2
            <7>. QED
              BY Zenon, <7>1, <7>2
          <6>. QED
            BY Zenon, <4>1, <6>1, <6>2
      <4>5. NoGap(x)'
        <5>1. ASSUME NEW k \in DOMAIN out'[x], NEW i \in DataFrames(Peer(x)), i < out'[x][k]
              PROVE  \E m \in DOMAIN out'[x] : out'[x][m] = i
          <6>1. i \in Nat
            BY Zenon, <2>a
          <6>2. 2 * i <= pos[x] + 1
            BY SMTT(60), <1>0, <4>4, <5>1, <6>1
          <6>. QED
            BY Zenon, <4>2, <6>2
        <5>. QED
          BY Zenon, <2>1, <5>1 DEF NoGap, DataFrames, IsData
      <4>. QED
        BY Zenon, <3>1, <4>3, <4>5
    <3>. QED
      BY Zenon, <2>6, <3>2, <3>3
  <2>. QED
    BY Zenon, <1>9, <2>7, <2>8, <2>9, <2>11, <2>12 DEF Read
<1>. QED
  BY Zenon, <1>5, <1>6, <1>7, <1>8, <1>9 DEF Next

(* As long as no read_frame was dropped past a header, nothing that the    *)
(* peer sealed is skipped, although read_frame accepts any larger seq.     *)
THEOREM GapFreeUnlessCutHolds == Spec => []GapFreeUnlessCut
<1>1. Init => GapInv
  BY DEF Init, GapInv, GapAt, NoGap, Synced, Complete, DataFrames, Side, Peer
<1>2. TypeInv /\ TypeInv' /\ OrderInv /\ GapInv /\ [Next]_vars => GapInv'
  BY Zenon, GapStep
<1>3. GapInv => GapFreeUnlessCut
  BY Zenon DEF GapInv, GapAt, GapFreeUnlessCut
<1>. QED
  BY <1>1, <1>2, <1>3, TypeCorrect, OrderCorrect, PTL DEF Spec

=============================================================================
