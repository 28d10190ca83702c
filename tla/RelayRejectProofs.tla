------------------------ MODULE RelayRejectProofs ---------------------------
(***************************************************************************)
(* Which frames a relay session rejects, for any number of frames,         *)
(* rotations and epochs: the client none, the bridge only those that the   *)
(* client sealed before it had read the KEY_ROTATE.  And that no endpoint  *)
(* ever goes back: its keys, its counters and its receive window.          *)
(***************************************************************************)
EXTENDS RelayProofs

(* Rejections.  What each endpoint writes: frames no longer than its size, *)
(* and sequence numbers that grow under one key.                           *)
Sized(x) ==
  /\ ch[x].max_frame_size = FrameSize(x)
  /\ \A i \in DataFrames(x) : log[x][i].len <= FrameSize(x)

(* The key that the bridge has after it wrote frame f.                     *)
KeyAfter(f) == IF f.type = "DATA" THEN f.key ELSE Append(f.key, f.rotation_nonce)

(* The bridge's log: each frame under the key that the one before it       *)
(* leaves, a KEY_ROTATE with the number of those before it.                *)
RotateSeqs ==
  /\ ch["bridge"].key_rotate_send_seq = Len(ch["bridge"].key)
  /\ \A i \in KeyRotates("bridge") : log["bridge"][i].aad = Len(log["bridge"][i].key)

Chained ==
  \A i \in DOMAIN log["bridge"] :
    /\ i = 1 => log["bridge"][i].key = <<>>
    /\ i + 1 \in DOMAIN log["bridge"] =>
         /\ log["bridge"][i + 1].key = KeyAfter(log["bridge"][i])
         /\ IsData("bridge", i) /\ IsData("bridge", i + 1)
              => log["bridge"][i].aad < log["bridge"][i + 1].aad

BridgeLast ==
  /\ Len(log["bridge"]) = 0 => ch["bridge"].key = <<>>
  /\ Len(log["bridge"]) > 0 =>
       /\ part["bridge"] => ch["bridge"].key = LastFrame("bridge").key
       /\ ~part["bridge"] => ch["bridge"].key = KeyAfter(LastFrame("bridge"))
       /\ LastFrame("bridge").type = "DATA" =>
            /\ LastFrame("bridge").aad <= ch["bridge"].send_seq
            /\ ~part["bridge"] => LastFrame("bridge").aad < ch["bridge"].send_seq

BridgeLog == RotateSeqs /\ Chained /\ BridgeLast

(* A client that reads on has the key that the last frame it read leaves.  *)
ClientReads(n) ==
  /\ n = 0 => ch["client"].key = <<>> /\ ~ch["client"].recv_initialized
  /\ n > 0 =>
       /\ ch["client"].key = KeyAfter(log["bridge"][n])
       /\ ch["client"].recv_initialized =>
            IsData("bridge", n) /\ ch["client"].recv_seq = log["bridge"][n].aad

ClientInv ==
  /\ ch["client"].key_rotate_recv_seq = Len(ch["client"].key)
  /\ ~cut["client"] /\ pc["client"] # "done" => ClientReads(pos["client"] \div 2)
  /\ ClientRejectsNothing

(* The client's log: keys that only ever grow, and numbers that grow under *)
(* one key.                                                                *)
ClientChained ==
  \A i \in DOMAIN log["client"] :
    /\ Precedes(log["client"][i].key, ch["client"].key)
    /\ i + 1 \in DOMAIN log["client"] =>
         /\ Precedes(log["client"][i].key, log["client"][i + 1].key)
         /\ log["client"][i].key = log["client"][i + 1].key
              => log["client"][i].aad < log["client"][i + 1].aad

ClientLast ==
  Len(log["client"]) > 0 /\ LastFrame("client").key = ch["client"].key =>
    /\ LastFrame("client").aad <= ch["client"].send_seq
    /\ ~part["client"] => LastFrame("client").aad < ch["client"].send_seq

ClientLog == ClientChained /\ ClientLast

(* The receive window of a bridge that reads on is that of the last frame  *)
(* it read, under the key it has: a rotation closes the window.            *)
BridgeReads(n) ==
  ch["bridge"].recv_initialized =>
    /\ n > 0 /\ log["client"][n].key = ch["bridge"].key
    /\ log["client"][n].aad = ch["bridge"].recv_seq

BridgeInv ==
  /\ ~cut["bridge"] /\ pc["bridge"] # "done" => BridgeReads(pos["bridge"] \div 2)
  /\ (~cut["bridge"] /\ ClientFrameSize <= BridgeFrameSize /\ err["bridge"] \notin {"none", "Io"})
       => pos["bridge"] \div 2 > 0
  /\ BridgeRejectsOnlyStaleKeys

LogInv == (\A x \in Side : Sized(x)) /\ BridgeLog /\ ClientLog

ErrInv == \A x \in Side : err[x] # "none" => pc[x] = "done"

(* What the channel's operations do to the counters that reading uses.     *)
LEMMA ChannelCounters ==
  ASSUME NEW c \in Channel
  PROVE  /\ c.key_rotate_send_seq \in Nat /\ c.key_rotate_recv_seq \in Nat
         /\ c.recv_initialized \in BOOLEAN /\ c.recv_seq \in Nat
         /\ write_frame(c).max_frame_size = c.max_frame_size
         /\ write_frame(c).key_rotate_send_seq = c.key_rotate_send_seq
         /\ write_frame(c).key_rotate_recv_seq = c.key_rotate_recv_seq
         /\ write_frame(c).recv_initialized = c.recv_initialized
         /\ write_frame(c).recv_seq = c.recv_seq
         /\ send_key_rotate(c).max_frame_size = c.max_frame_size
         /\ send_key_rotate(c).key_rotate_send_seq = c.key_rotate_send_seq + 1
         /\ \A r \in RotationNonce :
              /\ rotate_key(c, r).max_frame_size = c.max_frame_size
              /\ rotate_key(c, r).key_rotate_send_seq = c.key_rotate_send_seq
              /\ rotate_key(c, r).key_rotate_recv_seq = c.key_rotate_recv_seq
              /\ ~rotate_key(c, r).recv_initialized
         /\ \A f : /\ accept(c, f).max_frame_size = c.max_frame_size
                   /\ f.type = "DATA" =>
                        /\ accept(c, f).key_rotate_recv_seq = c.key_rotate_recv_seq
                        /\ accept(c, f).recv_seq = f.aad
                   /\ f.type # "DATA" =>
                        accept(c, f).key_rotate_recv_seq = c.key_rotate_recv_seq + 1
<1>1. /\ c.key_rotate_send_seq \in Nat /\ c.key_rotate_recv_seq \in Nat
      /\ c.recv_initialized \in BOOLEAN /\ c.recv_seq \in Nat
  BY Zenon DEF Channel
<1>2. /\ write_frame(c).max_frame_size = c.max_frame_size
      /\ write_frame(c).key_rotate_send_seq = c.key_rotate_send_seq
      /\ write_frame(c).key_rotate_recv_seq = c.key_rotate_recv_seq
      /\ write_frame(c).recv_initialized = c.recv_initialized
      /\ write_frame(c).recv_seq = c.recv_seq
  BY Zenon DEF Channel, write_frame
<1>3. /\ send_key_rotate(c).max_frame_size = c.max_frame_size
      /\ send_key_rotate(c).key_rotate_send_seq = c.key_rotate_send_seq + 1
  BY Zenon DEF Channel, send_key_rotate
<1>4. \A r \in RotationNonce :
        /\ rotate_key(c, r).max_frame_size = c.max_frame_size
        /\ rotate_key(c, r).key_rotate_send_seq = c.key_rotate_send_seq
        /\ rotate_key(c, r).key_rotate_recv_seq = c.key_rotate_recv_seq
        /\ ~rotate_key(c, r).recv_initialized
  BY Zenon DEF Channel, rotate_key
<1>5. ASSUME NEW f
      PROVE  /\ accept(c, f).max_frame_size = c.max_frame_size
             /\ f.type = "DATA" =>
                  /\ accept(c, f).key_rotate_recv_seq = c.key_rotate_recv_seq
                  /\ accept(c, f).recv_seq = f.aad
             /\ f.type # "DATA" =>
                  accept(c, f).key_rotate_recv_seq = c.key_rotate_recv_seq + 1
  <2>1. CASE f.type = "DATA"
    BY Zenon, <2>1 DEF Channel, accept
  <2>2. CASE f.type # "DATA"
    BY Zenon, <2>2 DEF Channel, accept
  <2>. QED
    BY Zenon, <2>1, <2>2
<1>. QED
  BY Zenon, <1>1, <1>2, <1>3, <1>4, <1>5

(* A step leaves x's loop alone.                                           *)
Idle(x) ==
  /\ ch'[x] = ch[x] /\ pos'[x] = pos[x] /\ rd'[x] = rd[x] /\ pc'[x] = pc[x]
  /\ err'[x] = err[x] /\ cut'[x] = cut[x]

(* A step of x's own loop.                                                 *)
Moves(x) ==
  Read(x) \/ Write(x) \/ (x = "client" /\ UserEof) \/ (x = "bridge" /\ Rotate)

(* A loop is moved by its own steps only, and not once it is over.         *)
LEMMA OneMoves ==
  ASSUME TypeInv, [Next]_vars, NEW x \in Side
  PROVE  Idle(x) \/ (pc[x] # "done" /\ Moves(x))
<1>0. /\ DOMAIN ch = Side /\ DOMAIN pos = Side /\ DOMAIN rd = Side /\ DOMAIN pc = Side
      /\ DOMAIN err = Side /\ DOMAIN cut = Side
  BY Zenon DEF TypeInv, TypeOK
<1>1. ASSUME NEW y \in Side, pc[y] # "done", Moves(y),
             ch' = ch \/ \E v : ch' = [ch EXCEPT ![y] = v],
             pos' = pos \/ \E v : pos' = [pos EXCEPT ![y] = v],
             rd' = rd \/ \E v : rd' = [rd EXCEPT ![y] = v],
             pc' = pc \/ \E v : pc' = [pc EXCEPT ![y] = v],
             err' = err \/ \E v : err' = [err EXCEPT ![y] = v],
             cut' = cut \/ \E v : cut' = [cut EXCEPT ![y] = v]
      PROVE  Idle(x) \/ (pc[x] # "done" /\ Moves(x))
  <2>1. ASSUME NEW z \in Side, z # y
        PROVE  Idle(z)
    <3>1. ch'[z] = ch[z] /\ pos'[z] = pos[z]
      BY Zenon, <1>0, <1>1, <2>1
    <3>2. rd'[z] = rd[z] /\ pc'[z] = pc[z]
      BY Zenon, <1>0, <1>1, <2>1
    <3>3. err'[z] = err[z] /\ cut'[z] = cut[z]
      BY ZenonT(60), <1>0, <1>1, <2>1
    <3>. QED
      BY ZenonT(60), <3>1, <3>2, <3>3 DEF Idle
  <2>. QED
    BY Zenon, <1>1, <2>1
<1>2. ASSUME NEW y \in Side, Read(y)
      PROVE  Idle(x) \/ (pc[x] # "done" /\ Moves(x))
  <2>1. pc[y] # "done" /\ cut' = cut
    BY Zenon, <1>2 DEF Read, ReadHeader, MisreadFails, MisreadWaits, ReadIo, BodyRejected,
         DataForwarded, DataUndeliverable, KeyRotateReceived, TakeBody, BodyReady, Readable
  <2>2. ch' = ch \/ \E v : ch' = [ch EXCEPT ![y] = v]
    BY Zenon, <1>2 DEF Read, ReadHeader, MisreadFails, MisreadWaits, ReadIo, BodyRejected,
         DataForwarded, DataUndeliverable, KeyRotateReceived
  <2>3. pos' = pos \/ \E v : pos' = [pos EXCEPT ![y] = v]
    BY Zenon, <1>2 DEF Read, ReadHeader, MisreadFails, MisreadWaits, ReadIo, BodyRejected,
         DataForwarded, DataUndeliverable, KeyRotateReceived, TakeBody
  <2>4. rd' = rd \/ \E v : rd' = [rd EXCEPT ![y] = v]
    BY Zenon, <1>2 DEF Read, ReadHeader, MisreadFails, MisreadWaits, ReadIo, BodyRejected,
         DataForwarded, DataUndeliverable, KeyRotateReceived, TakeBody
  <2>5. pc' = pc \/ \E v : pc' = [pc EXCEPT ![y] = v]
    BY ZenonT(60), <1>2 DEF Read, ReadHeader, MisreadFails, MisreadWaits, ReadIo, BodyRejected,
         DataForwarded, DataUndeliverable, KeyRotateReceived, ReadFails, Exit
  <2>6. err' = err \/ \E v : err' = [err EXCEPT ![y] = v]
    BY Zenon, <1>2 DEF Read, ReadHeader, MisreadFails, MisreadWaits, ReadIo, BodyRejected,
         DataForwarded, DataUndeliverable, KeyRotateReceived, ReadFails
  <2>. QED
    BY Zenon, <1>1, <1>2, <2>1, <2>2, <2>3, <2>4, <2>5, <2>6 DEF Moves
<1>3. ASSUME NEW y \in Side, Write(y)
      PROVE  Idle(x) \/ (pc[x] # "done" /\ Moves(x))
  <2>1. pc[y] # "done" /\ pos' = pos /\ err' = err
    BY Zenon, <1>3 DEF Write, PlaintextRead, WriteDone, WriteFails, PlaintextEnds, readerVars
  <2>2. /\ ch' = ch \/ \E v : ch' = [ch EXCEPT ![y] = v]
        /\ rd' = rd \/ \E v : rd' = [rd EXCEPT ![y] = v]
    BY Zenon, <1>3 DEF Write, PlaintextRead, WriteDone, WriteFails, PlaintextEnds, readerVars, DropRead
  <2>3. /\ pc' = pc \/ \E v : pc' = [pc EXCEPT ![y] = v]
        /\ cut' = cut \/ \E v : cut' = [cut EXCEPT ![y] = v]
    BY Zenon, <1>3 DEF Write, PlaintextRead, WriteDone, WriteFails, PlaintextEnds, DropRead, Exit
  <2>. QED
    BY Zenon, <1>1, <1>3, <2>1, <2>2, <2>3 DEF Moves
<1>4. CASE UserEof
  <2>1. "client" \in Side /\ pc["client"] # "done" /\ Moves("client")
    BY Zenon, <1>4 DEF UserEof, Side, Moves
  <2>. QED
    BY Zenon, <1>1, <1>4, <2>1 DEF UserEof, DropRead
<1>5. CASE Rotate
  <2>1. CASE RequestRotate
    BY Zenon, <2>1 DEF RequestRotate, Idle, readerVars
  <2>2. CASE RotateTimer \/ RotateRequested
    <3>1. "bridge" \in Side /\ pc["bridge"] # "done" /\ Moves("bridge")
      BY Zenon, <1>5, <2>2 DEF RotateTimer, RotateRequested, Side, Moves
    <3>. QED
      BY ZenonT(60), <1>1, <2>2, <3>1 DEF RotateTimer, RotateRequested, DropRead
  <2>3. CASE (\E r \in RotationNonce : RotateStart(r)) \/ RotateDone
    <3>1. "bridge" \in Side /\ pc["bridge"] # "done" /\ Moves("bridge")
      BY Zenon, <1>5, <2>3 DEF RotateStart, RotateDone, Side, Moves
    <3>. QED
      BY Zenon, <1>1, <2>3, <3>1 DEF RotateStart, RotateDone, readerVars
  <2>. QED
    BY Zenon, <1>5, <2>1, <2>2, <2>3 DEF Rotate
<1>6. CASE UNCHANGED vars
  BY Zenon, <1>6 DEF vars, Idle
<1>. QED
  BY Zenon, <1>2, <1>3, <1>4, <1>5, <1>6 DEF Next

(* A read error ends the loop.                                             *)
LEMMA ErrStep ==
  ASSUME TypeInv, ErrInv, [Next]_vars
  PROVE  ErrInv'
<1>1. \/ err' = err
      \/ \E y \in Side : \E e : err' = [err EXCEPT ![y] = e] /\ pc' = [pc EXCEPT ![y] = "done"]
  <2>1. ASSUME NEW y \in Side, Read(y)
        PROVE  \/ err' = err
               \/ \E e : err' = [err EXCEPT ![y] = e] /\ pc' = [pc EXCEPT ![y] = "done"]
    BY Zenon, <2>1 DEF Read, ReadHeader, MisreadFails, MisreadWaits, ReadIo, BodyRejected,
         DataForwarded, DataUndeliverable, KeyRotateReceived, ReadFails, Exit
  <2>2. ASSUME NEW y \in Side, Write(y)
        PROVE  err' = err
    BY Zenon, <2>2 DEF Write, PlaintextRead, WriteDone, WriteFails, PlaintextEnds, readerVars
  <2>3. CASE UserEof \/ Rotate
    BY Zenon, <2>3 DEF UserEof, Rotate, RequestRotate, RotateTimer, RotateRequested, RotateStart,
         RotateDone, readerVars
  <2>. QED
    BY ZenonT(60), <2>1, <2>2, <2>3 DEF Next, vars
<1>2. SUFFICES ASSUME NEW x \in Side, err'[x] # "none"
               PROVE  pc'[x] = "done"
  BY Zenon DEF ErrInv
<1>3. CASE err'[x] = err[x]
  BY Zenon, <1>2, <1>3, OneMoves DEF ErrInv, Idle
<1>4. CASE err'[x] # err[x]
  BY <1>1, <1>4 DEF TypeInv, TypeOK
<1>. QED
  BY Zenon, <1>3, <1>4

(* Frames stay within their sender's size, and the sizes stay as they are. *)
LEMMA SizedStep ==
  ASSUME TypeInv, TypeInv', [Next]_vars, \A x \in Side : Sized(x)
  PROVE  \A x \in Side : Sized(x)'
<1>. SUFFICES ASSUME NEW x \in Side PROVE Sized(x)'
  BY Zenon
<1>0. ch[x] \in Channel /\ Sized(x) /\ DOMAIN ch = Side
  BY Zenon DEF TypeInv, TypeOK
<1>1. ch'[x].max_frame_size = ch[x].max_frame_size
  <2>1. ASSUME NEW y \in Side, NEW f, ch' = [ch EXCEPT ![y] = accept(@, f)]
        PROVE  ch'[x].max_frame_size = ch[x].max_frame_size
    BY <1>0, <2>1, ChannelCounters
  <2>2. ASSUME NEW y \in Side, KeyRotateReceived(y)
        PROVE  ch'[x].max_frame_size = ch[x].max_frame_size
    <3>1. CASE y = "client"
      <4>. DEFINE f == Incoming("client")
                  c == accept(ch["client"], f)
      <4>0. "client" \in Side /\ ch["client"] \in Channel
        BY Zenon DEF TypeInv, TypeOK, Side
      <4>1. f \in Frame /\ f.type = "KEY_ROTATE"
        <5>1. pos["client"] < Written(Peer("client")) /\ f.type = "KEY_ROTATE"
          BY Zenon, <2>2, <3>1 DEF KeyRotateReceived, BodyReady, Readable
        <5>. QED
          BY Zenon, <4>0, <5>1, ReadableFrame DEF Incoming
      <4>2. f.rotation_nonce \in RotationNonce
        BY Zenon, <4>1 DEF Frame, DataFrame, KeyRotateFrame
      <4>3. ch' = [ch EXCEPT !["client"] = rotate_key(c, f.rotation_nonce)]
        BY Zenon, <2>2, <3>1 DEF KeyRotateReceived
      <4>4. c \in Channel /\ c.max_frame_size = ch["client"].max_frame_size
        BY ZenonT(60), <4>0, <4>1, ChannelOps, ChannelCounters
      <4>. HIDE DEF f, c
      <4>5. rotate_key(c, f.rotation_nonce).max_frame_size = c.max_frame_size
        BY Zenon, <4>2, <4>4, ChannelCounters
      <4>. QED
        BY Zenon, <1>0, <4>3, <4>4, <4>5
    <3>2. CASE y # "client"
      BY Zenon, <2>1, <2>2, <3>2 DEF KeyRotateReceived
    <3>. QED
      BY Zenon, <3>1, <3>2
  <2>3. ASSUME NEW y \in Side, Read(y)
        PROVE  ch'[x].max_frame_size = ch[x].max_frame_size
    BY Zenon, <2>1, <2>2, <2>3 DEF Read, ReadHeader, MisreadFails, MisreadWaits, ReadIo, BodyRejected,
         DataForwarded, DataUndeliverable
  <2>4. ASSUME NEW y \in Side, Write(y)
        PROVE  ch'[x].max_frame_size = ch[x].max_frame_size
    <3>1. CASE WriteDone(y)
      BY <1>0, <3>1, ChannelCounters DEF WriteDone
    <3>. QED
      BY ZenonT(60), <2>4, <3>1 DEF Write, PlaintextRead, WriteFails, PlaintextEnds
  <2>5. CASE RotateDone
    <3>. DEFINE c == send_key_rotate(ch["bridge"])
                r == LastFrame("bridge").rotation_nonce
    <3>1. ch' = [ch EXCEPT !["bridge"] = rotate_key(c, r)]
      BY Zenon, <2>5 DEF RotateDone
    <3>2. r \in RotationNonce
      BY Zenon, <2>5 DEF RotateDone, TypeInv, Pending, KeyRotateFrame, Side
    <3>3. c \in Channel /\ c.max_frame_size = ch["bridge"].max_frame_size
      BY Zenon, ChannelTyped, ChannelOps, ChannelCounters DEF Side
    <3>. HIDE DEF c, r
    <3>4. rotate_key(c, r).max_frame_size = c.max_frame_size
      BY Zenon, <3>2, <3>3, ChannelCounters
    <3>. QED
      BY Zenon, <1>0, <3>1, <3>3, <3>4
  <2>6. CASE UserEof \/ Rotate
    BY Zenon, <2>5, <2>6 DEF UserEof, Rotate, RequestRotate, RotateTimer, RotateRequested, RotateStart
  <2>. QED
    BY Zenon, <2>3, <2>4, <2>6 DEF Next, vars
<1>2. ASSUME NEW n \in 1 .. FrameSize(x), PlaintextRead(x, n)
      PROVE  \A i \in DataFrames(x)' : log'[x][i].len <= FrameSize(x)
  <2>. DEFINE f == data_frame(ch[x], n)
  <2>0. FrameSize(x) \in Nat
    BY Zenon, SizeAssumption DEF FrameSize
  <2>1. n \in Nat /\ n <= FrameSize(x)
    BY <2>0
  <2>2. f \in Frame /\ f.len <= FrameSize(x)
    BY Zenon, <1>0, <2>1, ChannelOps DEF Frame, data_frame
  <2>. HIDE DEF f
  <2>3. PutHeader(x, f)
    BY Zenon, <1>2 DEF PlaintextRead, f
  <2>4. /\ Len(log[x]) \in Nat /\ DOMAIN log[x] = 1 .. Len(log[x])
        /\ DOMAIN log'[x] = 1 .. Len(log[x]) + 1
        /\ \A i \in DOMAIN log[x] : log'[x][i] = log[x][i]
        /\ log'[x][Len(log[x]) + 1] = f
    BY Zenon, <2>2, <2>3, LogGrows
  <2>5. ASSUME NEW i \in DataFrames(x)'
        PROVE  log'[x][i].len <= FrameSize(x)
    <3>1. i \in DOMAIN log'[x] /\ log'[x][i].type = "DATA"
      BY Zenon DEF DataFrames, IsData
    <3>2. CASE i = Len(log[x]) + 1
      BY Zenon, <2>2, <2>4, <3>2
    <3>3. CASE i # Len(log[x]) + 1
      <4>1. i \in DOMAIN log[x]
        BY SMTT(60), <2>4, <3>1, <3>3
      <4>2. i \in DataFrames(x) /\ log'[x][i] = log[x][i]
        BY Zenon, <2>4, <3>1, <4>1 DEF DataFrames, IsData
      <4>. QED
        BY Zenon, <1>0, <4>2 DEF Sized
    <3>. QED
      BY Zenon, <3>2, <3>3
  <2>. QED
    BY Zenon, <2>5
<1>3. ASSUME log'[x] = log[x]
      PROVE  \A i \in DataFrames(x)' : log'[x][i].len <= FrameSize(x)
  BY ZenonT(60), <1>0, <1>3 DEF Sized, DataFrames, IsData
<1>4. \A i \in DataFrames(x)' : log'[x][i].len <= FrameSize(x)
  <2>0. ASSUME NEW y \in Side, NEW f, PutHeader(y, f), y # x
        PROVE  log'[x] = log[x]
    BY <2>0 DEF PutHeader, TypeInv, TypeOK
  <2>1. ASSUME NEW y \in Side, Read(y)
        PROVE  log' = log
    BY Zenon, <2>1 DEF Read, ReadHeader, MisreadFails, MisreadWaits, ReadIo, BodyRejected,
         DataForwarded, DataUndeliverable, KeyRotateReceived, TakeBody
  <2>2. ASSUME NEW y \in Side, Write(y)
        PROVE  \/ log'[x] = log[x]
               \/ \E n \in 1 .. FrameSize(x) : PlaintextRead(x, n)
    <3>1. ASSUME NEW n \in 1 .. FrameSize(y), PlaintextRead(y, n), y # x
          PROVE  log'[x] = log[x]
      BY Zenon, <2>0, <3>1 DEF PlaintextRead
    <3>. QED
      BY Zenon, <2>2, <3>1 DEF Write, WriteDone, PutBody, WriteFails, PlaintextEnds
  <2>3. ASSUME NEW r \in RotationNonce, RotateStart(r)
        PROVE  \A i \in DataFrames(x)' : log'[x][i].len <= FrameSize(x)
    <3>. DEFINE f == key_rotate_frame(ch["bridge"], r)
    <3>1. PutHeader("bridge", f) /\ "bridge" \in Side
      BY Zenon, <2>3 DEF RotateStart, Side
    <3>2. CASE x # "bridge"
      BY Zenon, <1>3, <2>0, <3>1, <3>2
    <3>3. CASE x = "bridge"
      <4>1. f \in Frame /\ f.type = "KEY_ROTATE"
        BY Zenon, <1>0, <3>3, ChannelOps DEF Frame, key_rotate_frame
      <4>. HIDE DEF f
      <4>2. /\ Len(log[x]) \in Nat /\ DOMAIN log[x] = 1 .. Len(log[x])
            /\ DOMAIN log'[x] = 1 .. Len(log[x]) + 1
            /\ \A i \in DOMAIN log[x] : log'[x][i] = log[x][i]
            /\ log'[x][Len(log[x]) + 1] = f
        BY ZenonT(60), <3>1, <3>3, <4>1, LogGrows
      <4>3. \A i \in DataFrames(x)' : i \in DataFrames(x) /\ log'[x][i] = log[x][i]
        BY <4>1, <4>2 DEF DataFrames, IsData
      <4>. QED
        BY Zenon, <1>0, <4>3 DEF Sized
    <3>. QED
      BY Zenon, <3>2, <3>3
  <2>4. CASE UserEof \/ Rotate
    BY Zenon, <1>3, <2>3, <2>4 DEF UserEof, Rotate, RequestRotate, RotateTimer, RotateRequested,
         RotateDone, PutBody
  <2>. QED
    BY ZenonT(60), <1>2, <1>3, <2>1, <2>2, <2>4 DEF Next, vars
<1>. QED
  BY Zenon, <1>0, <1>1, <1>4 DEF Sized, FrameSize

(* The bridge begins a frame under its key, with its counters.             *)
LEMMA BridgeAppend ==
  ASSUME TypeInv, BridgeLog, ~part["bridge"], NEW f \in Frame, PutHeader("bridge", f), ch' = ch,
         f.key = ch["bridge"].key,
         f.type = "DATA" => f.aad = ch["bridge"].send_seq,
         f.type # "DATA" => f.aad = ch["bridge"].key_rotate_send_seq
  PROVE  BridgeLog'
<1>. DEFINE L == log["bridge"]
            M == log'["bridge"]
            c == ch["bridge"]
<1>0. "bridge" \in Side /\ c.send_seq \in Nat
  BY Zenon, ChannelTyped, ChannelFields DEF Side
<1>1. PICK n \in Nat : n = Len(L)
  BY Zenon, <1>0, LogGrows
<1>2. /\ DOMAIN L = 1 .. n /\ DOMAIN M = 1 .. (n + 1) /\ Len(M) = n + 1
      /\ \A i \in 1 .. n : M[i] = L[i]
      /\ M[n + 1] = f /\ part'["bridge"] = TRUE
  BY ZenonT(60), <1>0, <1>1, LogGrows
<1>3. RotateSeqs /\ Chained /\ BridgeLast
  BY Zenon DEF BridgeLog
<1>4. n > 0 => c.key = KeyAfter(L[n]) /\ (L[n].type = "DATA" => L[n].aad < c.send_seq)
  BY Zenon, <1>1, <1>3 DEF BridgeLast, LastFrame
<1>5. n = 0 => c.key = <<>>
  BY Zenon, <1>1, <1>3 DEF BridgeLast
<1>. HIDE DEF L, M, c
<1>6. RotateSeqs'
  <2>1. ASSUME NEW i \in KeyRotates("bridge")'
        PROVE  M[i].aad = Len(M[i].key)
    <3>1. i \in 1 .. (n + 1) /\ M[i].type # "DATA"
      BY Zenon, <1>2 DEF KeyRotates, IsData, M
    <3>2. CASE i = n + 1
      BY Zenon, <1>2, <1>3, <3>1, <3>2 DEF RotateSeqs, c
    <3>3. CASE i # n + 1
      <4>1. i \in 1 .. n
        BY <3>1, <3>3
      <4>2. i \in KeyRotates("bridge") /\ M[i] = L[i]
        BY Zenon, <1>2, <3>1, <4>1 DEF KeyRotates, IsData, L
      <4>. QED
        BY Zenon, <1>3, <4>2 DEF RotateSeqs, L
    <3>. QED
      BY Zenon, <3>2, <3>3
  <2>. QED
    BY Zenon, <1>3, <2>1 DEF RotateSeqs, M
<1>7. Chained'
  <2>1. ASSUME NEW i \in 1 .. (n + 1)
        PROVE  /\ i = 1 => M[i].key = <<>>
               /\ i + 1 \in 1 .. (n + 1) =>
                    /\ M[i + 1].key = KeyAfter(M[i])
                    /\ M[i].type = "DATA" /\ M[i + 1].type = "DATA" => M[i].aad < M[i + 1].aad
    <3>1. CASE i = n + 1
      BY <1>2, <1>5, <3>1 DEF c
    <3>2. CASE i = n
      <4>1. n > 0 /\ i \in 1 .. n
        BY <3>2
      <4>2. /\ M[i] = L[n] /\ M[i + 1] = f /\ (i = 1 => L[i].key = <<>>)
            /\ c.key = KeyAfter(L[n]) /\ (L[n].type = "DATA" => L[n].aad < c.send_seq)
        BY Zenon, <1>2, <1>3, <1>4, <3>2, <4>1 DEF Chained, L
      <4>. QED
        BY Zenon, <3>2, <4>2 DEF c
    <3>3. CASE i # n /\ i # n + 1
      <4>1. i \in 1 .. n /\ i + 1 \in 1 .. n
        BY <3>3
      <4>2. M[i] = L[i] /\ M[i + 1] = L[i + 1]
        BY Zenon, <1>2, <4>1
      <4>3. /\ i = 1 => L[i].key = <<>>
            /\ L[i + 1].key = KeyAfter(L[i])
            /\ L[i].type = "DATA" /\ L[i + 1].type = "DATA" => L[i].aad < L[i + 1].aad
        BY Zenon, <1>2, <1>3, <4>1 DEF Chained, IsData, L
      <4>. QED
        BY Zenon, <4>2, <4>3
    <3>. QED
      BY Zenon, <3>1, <3>2, <3>3
  <2>. QED
    BY Zenon, <1>2, <2>1 DEF Chained, IsData, M, KeyAfter
<1>8. BridgeLast'
  <2>1. LastFrame("bridge")' = f /\ Len(M) > 0
    BY <1>2 DEF LastFrame, M
  <2>. QED
    BY <1>0, <1>2, <2>1 DEF BridgeLast, M, c
<1>. QED
  BY Zenon, <1>6, <1>7, <1>8 DEF BridgeLog

(* Every step keeps the bridge's log a chain.                              *)
LEMMA BridgeLogStep ==
  ASSUME TypeInv, TypeInv', BridgeLog, [Next]_vars
  PROVE  BridgeLog'
<1>0. /\ "bridge" \in Side /\ "client" \in Side
      /\ ch["bridge"] \in Channel /\ DOMAIN ch = Side
  BY Zenon, ChannelTyped DEF Side, TypeInv, TypeOK
<1>1. ASSUME log'["bridge"] = log["bridge"], part'["bridge"] = part["bridge"],
             ch'["bridge"].key = ch["bridge"].key,
             ch'["bridge"].send_seq = ch["bridge"].send_seq,
             ch'["bridge"].key_rotate_send_seq = ch["bridge"].key_rotate_send_seq
      PROVE  BridgeLog'
  <2>1. RotateSeqs'
    BY Zenon, <1>1 DEF BridgeLog, RotateSeqs, KeyRotates, IsData
  <2>2. Chained'
    BY Zenon, <1>1 DEF BridgeLog, Chained, IsData, KeyAfter
  <2>3. BridgeLast'
    BY Zenon, <1>1 DEF BridgeLog, BridgeLast, LastFrame, KeyAfter
  <2>. QED
    BY Zenon, <2>1, <2>2, <2>3 DEF BridgeLog
<1>2. CASE Quiet
  BY Zenon, <1>0, <1>1, <1>2 DEF Quiet
<1>3. ASSUME NEW x \in Side, NEW n \in Nat, PlaintextRead(x, n)
      PROVE  BridgeLog'
  <2>. DEFINE f == data_frame(ch[x], n)
  <2>1. f \in Frame /\ f.type = "DATA" /\ f.key = ch[x].key /\ f.aad = ch[x].send_seq
    BY Zenon, ChannelTyped, ChannelOps DEF data_frame, Frame
  <2>. HIDE DEF f
  <2>2. PutHeader(x, f) /\ ch' = ch /\ ~part[x]
    BY Zenon, <1>3 DEF PlaintextRead, TypeInv, Pending, f
  <2>3. CASE x = "client"
    <3>1. log'["bridge"] = log["bridge"] /\ part'["bridge"] = part["bridge"]
      BY Zenon, <1>0, <2>1, <2>2, <2>3, LogGrows
    <3>. QED
      BY Zenon, <1>1, <2>2, <3>1
  <2>4. CASE x = "bridge"
    BY Zenon, <2>1, <2>2, <2>4, BridgeAppend
  <2>. QED
    BY Zenon, <2>3, <2>4 DEF Side
<1>4. ASSUME NEW x \in Side, WriteDone(x)
      PROVE  BridgeLog'
  <2>1. /\ log' = log /\ part' = [part EXCEPT ![x] = FALSE]
        /\ ch' = [ch EXCEPT ![x] = write_frame(@)]
    BY Zenon, <1>4 DEF WriteDone, PutBody
  <2>2. CASE x = "client"
    BY Zenon, <1>0, <1>1, <2>1, <2>2 DEF TypeInv, TypeOK
  <2>3. CASE x = "bridge"
    <3>. DEFINE f == LastFrame("bridge")
    <3>1. f \in DataFrame /\ f.key = ch["bridge"].key /\ f.type = "DATA" /\ f.aad \in Nat
          /\ part["bridge"]
      BY Zenon, <1>4, <2>3 DEF WriteDone, TypeInv, Pending, DataFrame
    <3>2. /\ ch'["bridge"].key = ch["bridge"].key
          /\ ch'["bridge"].send_seq = ch["bridge"].send_seq + 1
          /\ ch'["bridge"].key_rotate_send_seq = ch["bridge"].key_rotate_send_seq
          /\ ch["bridge"].send_seq \in Nat
      BY ZenonT(60), <1>0, <2>1, <2>3, ChannelFields, ChannelCounters
    <3>3. f' = f /\ Len(log["bridge"]) \in Nat
      BY <2>1 DEF LastFrame, TypeInv, TypeOK, Side
    <3>. HIDE DEF f
    <3>4. Len(log["bridge"]) > 0 => f.aad <= ch["bridge"].send_seq
      BY ZenonT(60), <3>1 DEF BridgeLog, BridgeLast, f
    <3>5. part'["bridge"] = FALSE /\ Len(log["bridge"]) # 0
      BY SMTT(60), <2>1, <2>3, <3>1, <3>3 DEF TypeInv, TypeOK, Pending, Side
    <3>6. BridgeLast'
      <4>1. KeyAfter(f)' = f.key
        BY Zenon, <3>1, <3>3 DEF KeyAfter
      <4>2. f.aad < ch["bridge"].send_seq + 1
        BY SMTT(60), <3>1, <3>2, <3>3, <3>4, <3>5
      <4>. QED
        BY SMTT(60), <2>1, <3>1, <3>2, <3>3, <3>5, <4>1, <4>2 DEF BridgeLast, f
    <3>7. RotateSeqs'
      BY Zenon, <2>1, <3>2 DEF BridgeLog, RotateSeqs, KeyRotates, IsData
    <3>8. Chained'
      BY Zenon, <2>1 DEF BridgeLog, Chained, IsData, KeyAfter
    <3>. QED
      BY Zenon, <3>6, <3>7, <3>8 DEF BridgeLog
  <2>. QED
    BY Zenon, <2>2, <2>3 DEF Side
<1>5. ASSUME NEW r \in RotationNonce, RotateStart(r)
      PROVE  BridgeLog'
  <2>. DEFINE f == key_rotate_frame(ch["bridge"], r)
  <2>1. /\ f \in Frame /\ f.type # "DATA" /\ f.key = ch["bridge"].key
        /\ f.aad = ch["bridge"].key_rotate_send_seq
    BY Zenon, <1>0, ChannelOps DEF key_rotate_frame, Frame
  <2>. HIDE DEF f
  <2>2. PutHeader("bridge", f) /\ ch' = ch /\ ~part["bridge"]
    BY Zenon, <1>0, <1>5 DEF RotateStart, TypeInv, Pending, f
  <2>. QED
    BY Zenon, <2>1, <2>2, BridgeAppend
<1>6. CASE RotateDone
  <2>. DEFINE f == LastFrame("bridge")
              c == send_key_rotate(ch["bridge"])
  <2>1. /\ f \in KeyRotateFrame /\ f.key = ch["bridge"].key /\ part["bridge"]
        /\ f.rotation_nonce \in RotationNonce /\ f.type # "DATA"
    BY Zenon, <1>0, <1>6 DEF TypeInv, Pending, RotateDone, KeyRotateFrame
  <2>2. /\ log' = log /\ part' = [part EXCEPT !["bridge"] = FALSE]
        /\ ch' = [ch EXCEPT !["bridge"] = rotate_key(c, f.rotation_nonce)]
    BY Zenon, <1>6 DEF RotateDone, PutBody
  <2>3. /\ c \in Channel /\ c.key = ch["bridge"].key
        /\ c.key_rotate_send_seq = ch["bridge"].key_rotate_send_seq + 1
    BY Zenon, <1>0, ChannelOps, ChannelFields, ChannelCounters
  <2>4. f' = f
    BY Zenon, <2>2 DEF LastFrame
  <2>. HIDE DEF c, f
  <2>5. /\ rotate_key(c, f.rotation_nonce).key = Append(c.key, f.rotation_nonce)
        /\ Len(rotate_key(c, f.rotation_nonce).key) = Len(c.key) + 1
        /\ rotate_key(c, f.rotation_nonce).key_rotate_send_seq = c.key_rotate_send_seq
    BY ZenonT(60), <2>1, <2>3, ChannelFields, ChannelCounters
  <2>6. /\ ch'["bridge"].key = Append(f.key, f.rotation_nonce)
        /\ Len(ch'["bridge"].key) = Len(ch["bridge"].key) + 1
        /\ ch'["bridge"].key_rotate_send_seq = ch["bridge"].key_rotate_send_seq + 1
    BY ZenonT(60), <1>0, <2>1, <2>2, <2>3, <2>5
  <2>7. part'["bridge"] = FALSE /\ Len(log["bridge"]) # 0
    BY SMTT(60), <1>0, <2>1, <2>2 DEF TypeInv, TypeOK, Pending
  <2>8. BridgeLast'
    <3>1. KeyAfter(f)' = Append(f.key, f.rotation_nonce)
      BY Zenon, <2>1, <2>4 DEF KeyAfter
    <3>. QED
      BY Zenon, <2>1, <2>2, <2>4, <2>6, <2>7, <3>1 DEF BridgeLast, f
  <2>9. RotateSeqs'
    BY Zenon, <2>2, <2>6 DEF BridgeLog, RotateSeqs, KeyRotates, IsData
  <2>10. Chained'
    BY Zenon, <2>2 DEF BridgeLog, Chained, IsData, KeyAfter
  <2>. QED
    BY Zenon, <2>8, <2>9, <2>10 DEF BridgeLog
<1>7. CASE ClientRotates
  BY ZenonT(60), <1>1, <1>7 DEF ClientRotates, KeyRotateReceived, TakeBody, TypeInv, TypeOK, Side
<1>. QED
  BY Zenon, <1>2, <1>3, <1>4, <1>5, <1>6, <1>7, StepKinds

(* A number above another is not below it.                                 *)
LEMMA Above ==
  ASSUME NEW a \in Nat, NEW b \in Nat, a < b
  PROVE  ~(b <= a)
OBVIOUS

(* Precedes is a partial order on keys.                                    *)
LEMMA PrecedesOrder ==
  ASSUME NEW k \in Key, NEW l \in Key, NEW m \in Key
  PROVE  /\ Precedes(k, k)
         /\ Precedes(k, l) /\ Precedes(l, m) => Precedes(k, m)
         /\ Precedes(k, l) /\ Precedes(l, k) => k = l
<1>1. Len(k) \in Nat /\ Len(l) \in Nat /\ Len(m) \in Nat
  BY DEF Key
<1>2. Precedes(k, k)
  BY <1>1 DEF Precedes
<1>3. Precedes(k, l) /\ Precedes(l, m) => Precedes(k, m)
  BY <1>1 DEF Precedes
<1>4. Precedes(k, l) /\ Precedes(l, k) => k = l
  <2>1. Precedes(k, l) /\ Precedes(l, k) => Len(k) = Len(l) /\ \A i \in 1 .. Len(k) : k[i] = l[i]
    BY <1>1 DEF Precedes
  <2>. QED
    BY <2>1 DEF Key
<1>. QED
  BY Zenon, <1>2, <1>3, <1>4

(* Every frame of either log has a key and a number.                       *)
LEMMA FrameTyped ==
  ASSUME TypeInv, NEW x \in Side, NEW i \in DOMAIN log[x]
  PROVE  /\ log[x][i].key \in Key /\ log[x][i].aad \in Nat
         /\ x = "client" => log[x][i].type = "DATA" /\ log[x][i].len \in Nat
         /\ log[x][i].type # "DATA" =>
              /\ log[x][i].type = "KEY_ROTATE"
              /\ log[x][i].rotation_nonce \in RotationNonce
<1>1. log[x][i] \in Frame
  BY DEF TypeInv, TypeOK
<1>2. x = "client" => log[x][i] \in DataFrame
  BY DEF TypeInv
<1>3. log[x][i] \in DataFrame => log[x][i].type = "DATA" /\ log[x][i].len \in Nat
                                 /\ log[x][i].key \in Key /\ log[x][i].aad \in Nat
  BY Zenon DEF DataFrame
<1>4. log[x][i] \in KeyRotateFrame => /\ log[x][i].type = "KEY_ROTATE"
                                      /\ log[x][i].rotation_nonce \in RotationNonce
                                      /\ log[x][i].key \in Key /\ log[x][i].aad \in Nat
  BY Zenon DEF KeyRotateFrame
<1>. QED
  BY Zenon, <1>1, <1>2, <1>3, <1>4 DEF Frame

(* What a KEY_ROTATE frame does to the client's channel.                   *)
LEMMA ClientRatchets ==
  ASSUME TypeInv, ClientRotates
  PROVE  LET f == Incoming("client")
         IN  /\ f.type = "KEY_ROTATE" /\ f.rotation_nonce \in RotationNonce
             /\ ch'["client"].key = Append(ch["client"].key, f.rotation_nonce)
             /\ Len(ch'["client"].key) = Len(ch["client"].key) + 1
             /\ ch'["client"].key_rotate_recv_seq = ch["client"].key_rotate_recv_seq + 1
             /\ ~ch'["client"].recv_initialized
<1>. DEFINE f == Incoming("client")
            c == accept(ch["client"], f)
<1>0. "client" \in Side /\ ch["client"] \in Channel /\ DOMAIN ch = Side
  BY Zenon DEF TypeInv, TypeOK, Side
<1>1. /\ pos["client"] < Written(Peer("client")) /\ f.type = "KEY_ROTATE"
      /\ ch' = [ch EXCEPT !["client"] = rotate_key(c, f.rotation_nonce)]
  BY Zenon DEF ClientRotates, KeyRotateReceived, BodyReady, Readable
<1>2. f \in Frame
  BY Zenon, <1>0, <1>1, ReadableFrame DEF Incoming
<1>3. f.rotation_nonce \in RotationNonce
  BY Zenon, <1>1, <1>2 DEF Frame, DataFrame, KeyRotateFrame
<1>4. /\ c \in Channel /\ c.key = ch["client"].key
      /\ c.key_rotate_recv_seq = ch["client"].key_rotate_recv_seq + 1
  <2>1. f.type # "DATA"
    BY Zenon, <1>1
  <2>. QED
    BY ZenonT(60), <1>0, <1>2, <2>1, ChannelOps, ChannelFields, ChannelCounters
<1>5. ch'["client"] = rotate_key(c, f.rotation_nonce)
  BY Zenon, <1>0, <1>1
<1>. HIDE DEF f, c
<1>6. /\ rotate_key(c, f.rotation_nonce).key = Append(c.key, f.rotation_nonce)
      /\ Len(rotate_key(c, f.rotation_nonce).key) = Len(c.key) + 1
      /\ rotate_key(c, f.rotation_nonce).key_rotate_recv_seq = c.key_rotate_recv_seq
      /\ ~rotate_key(c, f.rotation_nonce).recv_initialized
  BY Zenon, <1>3, <1>4, ChannelFields, ChannelCounters
<1>. QED
  BY ZenonT(60), <1>1, <1>3, <1>4, <1>5, <1>6 DEF f

(* Every step keeps the client's keys growing, and its numbers under each. *)
LEMMA ClientLogStep ==
  ASSUME TypeInv, TypeInv', ClientLog, [Next]_vars
  PROVE  ClientLog'
<1>. DEFINE L == log["client"]
            M == log'["client"]
            c == ch["client"]
<1>0. /\ "bridge" \in Side /\ "client" \in Side /\ DOMAIN ch = Side /\ DOMAIN part = Side
      /\ c \in Channel /\ c.key \in Key /\ c.send_seq \in Nat /\ Len(c.key) \in Nat
  BY ZenonT(60), ChannelTyped, ChannelFields DEF Side, TypeInv, TypeOK
<1>1. PICK n \in Nat : n = Len(L) /\ DOMAIN L = 1 .. n
  BY <1>0 DEF TypeInv, TypeOK
<1>2. \A i \in 1 .. n : L[i].key \in Key /\ L[i].aad \in Nat
  BY Zenon, <1>0, <1>1, FrameTyped
<1>3. /\ \A i \in 1 .. n : /\ Precedes(L[i].key, c.key)
                           /\ i + 1 \in 1 .. n =>
                                /\ Precedes(L[i].key, L[i + 1].key)
                                /\ L[i].key = L[i + 1].key => L[i].aad < L[i + 1].aad
      /\ n > 0 /\ L[n].key = c.key => /\ L[n].aad <= c.send_seq
                                      /\ ~part["client"] => L[n].aad < c.send_seq
  BY Zenon, <1>1 DEF ClientLog, ClientChained, ClientLast, LastFrame
<1>. HIDE DEF L, M, c
<1>4. ASSUME M = L, part'["client"] = part["client"],
             ch'["client"].key = c.key, ch'["client"].send_seq = c.send_seq
      PROVE  ClientLog'
  BY Zenon, <1>4 DEF ClientLog, ClientChained, ClientLast, LastFrame, L, M, c
<1>5. CASE Quiet
  BY Zenon, <1>0, <1>4, <1>5 DEF Quiet, L, M, c
<1>6. ASSUME NEW x \in Side, NEW s \in Nat, PlaintextRead(x, s)
      PROVE  ClientLog'
  <2>. DEFINE f == data_frame(ch[x], s)
  <2>1. f \in Frame /\ f.key = ch[x].key /\ f.aad = ch[x].send_seq
    BY Zenon, ChannelTyped, ChannelOps DEF data_frame, Frame
  <2>. HIDE DEF f
  <2>2. PutHeader(x, f) /\ ch' = ch /\ ~part[x]
    BY Zenon, <1>6 DEF PlaintextRead, TypeInv, Pending, f
  <2>3. CASE x = "bridge"
    <3>1. M = L /\ part'["client"] = part["client"]
      BY ZenonT(60), <1>0, <2>1, <2>2, <2>3, LogGrows DEF L, M
    <3>. QED
      BY Zenon, <1>4, <2>2, <3>1 DEF c
  <2>4. CASE x = "client"
    <3>1. /\ DOMAIN M = 1 .. (n + 1) /\ Len(M) = n + 1
          /\ \A i \in 1 .. n : M[i] = L[i]
          /\ M[n + 1] = f /\ part'["client"] = TRUE
      <4>1. "client" \in Side /\ PutHeader("client", f)
        BY Zenon, <1>0, <2>2, <2>4
      <4>. QED
        BY ZenonT(60), <1>1, <2>1, <4>1, LogGrows DEF L, M
    <3>2. f.key = c.key /\ f.aad = c.send_seq /\ ch'["client"] = c
      BY Zenon, <2>1, <2>2, <2>4 DEF c
    <3>3. ASSUME NEW i \in 1 .. (n + 1)
          PROVE  /\ Precedes(M[i].key, c.key)
                 /\ i + 1 \in 1 .. (n + 1) =>
                      /\ Precedes(M[i].key, M[i + 1].key)
                      /\ M[i].key = M[i + 1].key => M[i].aad < M[i + 1].aad
      <4>1. CASE i = n + 1
        BY SMTT(60), <1>0, <3>1, <3>2, <4>1, PrecedesOrder
      <4>2. CASE i = n
        BY SMTT(60), <1>3, <3>1, <3>2, <4>2, <2>2, <2>4
      <4>3. CASE i # n /\ i # n + 1
        <5>1. i \in 1 .. n /\ i + 1 \in 1 .. n
          BY <4>3
        <5>2. M[i] = L[i] /\ M[i + 1] = L[i + 1]
          BY Zenon, <3>1, <5>1
        <5>. QED
          BY ZenonT(60), <1>3, <5>1, <5>2
      <4>. QED
        BY ZenonT(60), <4>1, <4>2, <4>3
    <3>4. ClientChained'
      BY ZenonT(60), <3>1, <3>2, <3>3 DEF ClientChained, M
    <3>5. ClientLast'
      BY SMTT(60), <1>0, <3>1, <3>2 DEF ClientLast, LastFrame, M
    <3>. QED
      BY Zenon, <3>4, <3>5 DEF ClientLog
  <2>. QED
    BY Zenon, <2>3, <2>4 DEF Side
<1>7. ASSUME NEW x \in Side, WriteDone(x)
      PROVE  ClientLog'
  <2>1. /\ log' = log /\ part' = [part EXCEPT ![x] = FALSE]
        /\ ch' = [ch EXCEPT ![x] = write_frame(@)]
    BY Zenon, <1>7 DEF WriteDone, PutBody
  <2>2. CASE x = "bridge"
    BY Zenon, <1>0, <1>4, <2>1, <2>2 DEF L, M, c
  <2>3. CASE x = "client"
    <3>1. ch'["client"].key = c.key /\ ch'["client"].send_seq = c.send_seq + 1
      BY Zenon, <1>0, <2>1, <2>3, ChannelFields DEF c
    <3>2. ClientChained'
      BY Zenon, <2>1, <3>1 DEF ClientLog, ClientChained, c
    <3>3. LastFrame("client")' = L[n] /\ Len(log'["client"]) = n
      BY ZenonT(60), <1>1, <2>1 DEF LastFrame, L
    <3>4. n > 0 /\ L[n].key = c.key => L[n].aad < c.send_seq + 1 /\ L[n].aad <= c.send_seq + 1
      BY SMTT(60), <1>0, <1>2, <1>3
    <3>5. ClientLast'
      BY Zenon, <3>1, <3>3, <3>4 DEF ClientLast
    <3>. QED
      BY Zenon, <3>2, <3>5 DEF ClientLog
  <2>. QED
    BY Zenon, <2>2, <2>3 DEF Side
<1>8. ASSUME NEW r \in RotationNonce, RotateStart(r)
      PROVE  ClientLog'
  <2>1. log'["client"] = log["client"] /\ part'["client"] = part["client"] /\ ch' = ch
    BY Zenon, <1>0, <1>8 DEF RotateStart, PutHeader, TypeInv, TypeOK
  <2>. QED
    BY Zenon, <1>4, <2>1 DEF L, M, c
<1>9. CASE RotateDone
  <2>1. log' = log /\ part'["client"] = part["client"] /\ ch'["client"] = ch["client"]
    BY Zenon, <1>0, <1>9 DEF RotateDone, PutBody
  <2>. QED
    BY Zenon, <1>4, <2>1 DEF L, M, c
<1>10. CASE ClientRotates
  <2>1. PICK r \in RotationNonce : ch'["client"].key = Append(c.key, r)
    BY Zenon, <1>0, <1>10, ClientRatchets DEF c
  <2>2. log' = log /\ part' = part
    BY Zenon, <1>10 DEF ClientRotates, KeyRotateReceived, TakeBody
  <2>3. Append(c.key, r) \in Key /\ Len(Append(c.key, r)) = Len(c.key) + 1
    BY <1>0 DEF Key
  <2>4. \A i \in 1 .. n : Precedes(L[i].key, Append(c.key, r))
    BY Zenon, <1>0, <1>2, <1>3, PrecedesAppend
  <2>5. ClientChained'
    BY Zenon, <1>1, <1>3, <2>1, <2>2, <2>4 DEF ClientChained, L
  <2>6. n > 0 => L[n].key # Append(c.key, r)
    <3>1. n > 0 => Len(L[n].key) <= Len(c.key)
      BY <1>3 DEF Precedes
    <3>. QED
      BY SMTT(60), <1>0, <2>3, <3>1
  <2>7. ClientLast'
    BY Zenon, <1>1, <2>1, <2>2, <2>6 DEF ClientLast, LastFrame, L
  <2>. QED
    BY Zenon, <2>5, <2>7 DEF ClientLog
<1>. QED
  BY Zenon, <1>5, <1>6, <1>7, <1>8, <1>9, <1>10, StepKinds

(* Half of the place a reader is at: the frames it is past.                *)
LEMMA Halves ==
  ASSUME NEW p \in Nat
  PROVE  /\ p \div 2 \in Nat /\ 2 * (p \div 2) <= p
         /\ p % 2 = 0 => (p + 1) \div 2 = p \div 2
         /\ p % 2 = 1 => (p + 1) \div 2 = p \div 2 + 1
         /\ p % 2 = 0 \/ p % 2 = 1
OBVIOUS

(* The frames a reader is past stay as they are.                           *)
LEMMA PastFrames ==
  ASSUME TypeInv, TypeInv', OrderInv, [Next]_vars, NEW x \in Side, pos[x] \div 2 > 0
  PROVE  /\ pos[x] \div 2 \in DOMAIN log[Peer(x)]
         /\ log'[Peer(x)][pos[x] \div 2] = log[Peer(x)][pos[x] \div 2]
<1>. DEFINE y == Peer(x)
            n == pos[x] \div 2
<1>1. y \in Side /\ pos[x] \in Nat
  BY Zenon DEF Peer, Side, TypeInv, TypeOK
<1>2. log[y] \in Seq(Frame) /\ part[y] \in BOOLEAN
  BY Zenon, <1>1 DEF TypeInv, TypeOK
<1>3. n \in Nat /\ 2 * n <= pos[x]
  BY Zenon, <1>1, Halves
<1>4. pos[x] <= Written(y)
  BY Zenon DEF OrderInv, OrderAt
<1>5. Len(log[y]) \in Nat /\ Written(y) \in Int /\ Written(y) <= 2 * Len(log[y])
  <2>1. CASE part[y]
    BY <1>2, <2>1 DEF Written
  <2>2. CASE ~part[y]
    BY <1>2, <2>2 DEF Written
  <2>. QED
    BY Zenon, <2>1, <2>2
<1>. HIDE DEF n, y
<1>6. n \in 1 .. Len(log[y])
  <2>1. n > 0
    BY Zenon DEF n
  <2>. QED
    BY SMTT(60), <1>1, <1>3, <1>4, <1>5, <2>1
<1>7. n \in DOMAIN log[y]
  BY <1>2, <1>6
<1>8. log'[y][n] = log[y][n]
  BY Zenon, <1>1, <1>7, LogMonotone DEF Grows
<1>. QED
  BY Zenon, <1>7, <1>8 DEF n, y

(* The next frame the client reads, when none of its reads was dropped,    *)
(* has an acceptable header and opens.                                     *)
LEMMA ClientNext ==
  ASSUME TypeInv, OrderInv, LogInv, ClientInv, ~cut["client"], Readable("client"),
         NEW n, n = pos["client"] \div 2
  PROVE  LET f == log["bridge"][n + 1]
         IN  /\ n \in Nat /\ n + 1 \in DOMAIN log["bridge"] /\ f \in Frame
             /\ BridgeFrameSize <= ClientFrameSize => header_error(ch["client"], f) = "none"
             /\ opens(ch["client"], f)
<1>. DEFINE c == ch["client"]
            f == log["bridge"][n + 1]
<1>0. /\ "client" \in Side /\ "bridge" \in Side /\ Peer("client") = "bridge"
      /\ c \in Channel /\ pos["client"] \in Nat /\ pc["client"] # "done"
      /\ pos["client"] < Written("bridge")
  BY Zenon DEF Side, Peer, TypeInv, TypeOK, Readable
<1>1. n \in Nat /\ n + 1 \in DOMAIN log["bridge"] /\ f \in Frame
  BY Zenon, <1>0, Halves, ReadableFrame
<1>2. ClientReads(n) /\ c.key_rotate_recv_seq = Len(c.key)
  BY Zenon, <1>0 DEF ClientInv
<1>3. n > 0 => n \in DOMAIN log["bridge"]
  <2>1. log["bridge"] \in Seq(Frame)
    BY Zenon, <1>0 DEF TypeInv, TypeOK
  <2>. QED
    BY <1>1, <2>1
<1>4. BridgeLog /\ Sized("client") /\ Sized("bridge")
  BY Zenon, <1>0 DEF LogInv
<1>5. f.key = c.key
  <2>1. CASE n = 0
    <3>1. n + 1 = 1
      BY <2>1
    <3>2. log["bridge"][1].key = <<>> /\ c.key = <<>>
      BY Zenon, <1>1, <1>2, <1>4, <2>1, <3>1 DEF ClientReads, BridgeLog, Chained
    <3>. QED
      BY Zenon, <3>1, <3>2
  <2>2. CASE n > 0
    BY Zenon, <1>1, <1>2, <1>3, <1>4, <2>2 DEF ClientReads, BridgeLog, Chained
  <2>. QED
    BY <1>1, <2>1, <2>2
<1>6. f.type = "KEY_ROTATE" => f.aad = c.key_rotate_recv_seq
  <2>1. f.type = "KEY_ROTATE" => n + 1 \in KeyRotates("bridge")
    BY Zenon, <1>1 DEF KeyRotates, IsData
  <2>. QED
    BY Zenon, <1>2, <1>4, <1>5, <2>1 DEF BridgeLog, RotateSeqs
<1>7. ASSUME BridgeFrameSize <= ClientFrameSize, f.type = "DATA"
      PROVE  ~(f.len > c.max_frame_size) /\ ~(c.recv_initialized /\ f.aad <= c.recv_seq)
  <2>1. n + 1 \in DataFrames("bridge")
    BY Zenon, <1>1, <1>7 DEF DataFrames, IsData
  <2>2. f.len <= BridgeFrameSize /\ c.max_frame_size = ClientFrameSize
    BY Zenon, <1>4, <2>1 DEF Sized, FrameSize
  <2>3. f.len \in Nat /\ f.aad \in Nat
    BY ZenonT(60), <1>1, <1>7 DEF Frame, DataFrame, KeyRotateFrame
  <2>4. ~(f.len > c.max_frame_size)
    BY SMTT(60), <1>7, <2>2, <2>3, SizeAssumption
  <2>5. ASSUME c.recv_initialized
        PROVE  ~(f.aad <= c.recv_seq)
    <3>1. n > 0 /\ IsData("bridge", n) /\ c.recv_seq = log["bridge"][n].aad
      BY <1>1, <1>2, <2>5 DEF ClientReads
    <3>2. log["bridge"][n].aad < f.aad
      BY Zenon, <1>1, <1>3, <1>4, <1>7, <3>1 DEF BridgeLog, Chained, IsData
    <3>3. c.recv_seq \in Nat
      BY Zenon, <1>0, ChannelCounters
    <3>. QED
      BY SMTT(60), <2>3, <3>1, <3>2, <3>3
  <2>. QED
    BY Zenon, <2>4, <2>5
<1>8. BridgeFrameSize <= ClientFrameSize => header_error(c, f) = "none"
  BY Zenon, <1>7 DEF header_error
<1>9. opens(c, f)
  BY Zenon, <1>5, <1>6 DEF opens
<1>. QED
  BY Zenon, <1>1, <1>8, <1>9

(* Every step leaves the client's reader where its key and its window say. *)
LEMMA ClientStep ==
  ASSUME TypeInv, TypeInv', OrderInv, GapInv, LogInv, ErrInv, ClientInv, [Next]_vars
  PROVE  ClientInv'
<1>n. PICK n \in Nat : n = pos["client"] \div 2
  BY Zenon, Halves DEF TypeInv, TypeOK, Side
<1>. DEFINE c == ch["client"]
            d == ch'["client"]
            f == log["bridge"][n + 1]
<1>0. /\ "client" \in Side /\ "bridge" \in Side /\ Peer("client") = "bridge"
      /\ c \in Channel /\ pos["client"] \in Nat
      /\ DOMAIN ch = Side /\ DOMAIN pos = Side /\ DOMAIN pc = Side /\ DOMAIN err = Side
  BY Zenon DEF Side, Peer, TypeInv, TypeOK
<1>1. ASSUME d.key = c.key, d.key_rotate_recv_seq = c.key_rotate_recv_seq,
             d.recv_initialized = c.recv_initialized, d.recv_seq = c.recv_seq,
             pos'["client"] = pos["client"], err'["client"] = err["client"],
             cut["client"] => cut'["client"],
             pc'["client"] # "done" => pc["client"] # "done"
      PROVE  ClientInv'
  <2>1. n > 0 => log'["bridge"][n] = log["bridge"][n]
    BY Zenon, <1>0, <1>n, PastFrames
  <2>2. ClientReads(n) => ClientReads(n)'
    BY Zenon, <1>1, <2>1 DEF ClientReads, IsData, KeyAfter
  <2>. QED
    BY Zenon, <1>1, <1>n, <2>2 DEF ClientInv, ClientRejectsNothing
<1>2. CASE Idle("client")
  BY Zenon, <1>1, <1>2 DEF Idle
<1>3. CASE UserEof
  <2>1. cut["client"] => cut'["client"]
    BY <1>0, <1>3, Zenon DEF UserEof, DropRead, TypeInv, TypeOK
  <2>. QED
    BY Zenon, <1>1, <1>3, <2>1 DEF UserEof
<1>4. CASE Write("client")
  <2>1. ASSUME NEW s \in 1 .. FrameSize("client"), PlaintextRead("client", s)
        PROVE  ClientInv'
    <3>1. cut["client"] => cut'["client"]
      BY <1>0, <2>1, Zenon DEF PlaintextRead, DropRead, TypeInv, TypeOK
    <3>. QED
      BY Zenon, <1>1, <2>1, <3>1 DEF PlaintextRead
  <2>2. CASE WriteDone("client")
    <3>1. /\ d = write_frame(c) /\ pos' = pos /\ err' = err /\ cut' = cut
          /\ pc["client"] # "done"
      BY Zenon, <1>0, <2>2 DEF WriteDone, readerVars
    <3>. HIDE DEF c, d
    <3>. QED
      BY Zenon, <1>0, <1>1, <3>1, ChannelFields, ChannelCounters
  <2>3. CASE WriteFails("client")
    BY Zenon, <1>1, <2>3 DEF WriteFails, readerVars
  <2>4. CASE PlaintextEnds("client")
    <3>1. cut["client"] => cut'["client"]
      BY <1>0, <2>4, Zenon DEF PlaintextEnds, DropRead, TypeInv, TypeOK
    <3>. QED
      BY Zenon, <1>1, <2>4, <3>1 DEF PlaintextEnds
  <2>. QED
    BY Zenon, <1>4, <2>1, <2>2, <2>3, <2>4 DEF Write
<1>5. CASE Read("client")
  <2>0. cut' = cut /\ log' = log /\ pc["client"] = "select"
    BY Zenon, <1>5 DEF Read, ReadHeader, MisreadFails, MisreadWaits, ReadIo, BodyRejected,
         DataForwarded, DataUndeliverable, KeyRotateReceived, TakeBody, BodyReady, Readable
  <2>1. ~cut["client"] => ClientReads(n) /\ Synced("client")
    BY Zenon, <1>0, <1>n, <2>0 DEF ClientInv, GapInv, GapAt
  <2>2. c.key_rotate_recv_seq = Len(c.key) /\ err["client"] = "none"
    BY Zenon, <1>0, <2>0 DEF ClientInv, ErrInv
  <2>3. ~cut["client"] /\ Readable("client") =>
          /\ n \in Nat /\ n + 1 \in DOMAIN log["bridge"] /\ f \in Frame
          /\ BridgeFrameSize <= ClientFrameSize => header_error(c, f) = "none"
          /\ opens(c, f)
    BY Zenon, <1>n, ClientNext
  <2>4. Incoming("client") = f
    BY Zenon, <1>0, <1>n DEF Incoming
  <2>5. CASE ReadHeader("client")
    <3>1. /\ Readable("client") /\ pos["client"] % 2 = 0 /\ ch' = ch
          /\ pos'["client"] = pos["client"] + 1
      BY Zenon, <1>0, <2>5 DEF ReadHeader, Aligned
    <3>2. \/ err' = err
          \/ header_error(c, f) # "none" /\ pc'["client"] = "done"
      BY Zenon, <1>0, <1>n, <2>5 DEF ReadHeader, ReadFails, Exit
    <3>3. pos'["client"] \div 2 = n
      BY Zenon, <1>0, <1>n, <3>1, Halves
    <3>4. ClientReads(n) => ClientReads(n)'
      BY Zenon, <2>0, <3>1 DEF ClientReads, IsData, KeyAfter
    <3>5. ~cut["client"] /\ BridgeFrameSize <= ClientFrameSize => err'["client"] = "none"
      BY Zenon, <2>2, <2>3, <3>1, <3>2
    <3>. QED
      BY Zenon, <2>0, <2>1, <2>2, <3>1, <3>3, <3>4, <3>5 DEF ClientInv, ClientRejectsNothing
  <2>6. CASE MisreadFails("client") \/ MisreadWaits("client")
    <3>1. ch' = ch /\ cut["client"]
      BY Zenon, <2>1, <2>6 DEF MisreadFails, MisreadWaits, Synced, Aligned
    <3>. QED
      BY Zenon, <2>0, <2>2, <3>1 DEF ClientInv, ClientRejectsNothing
  <2>7. CASE ReadIo("client")
    <3>1. ch' = ch /\ pc'["client"] = "done" /\ err'["client"] = "Io"
      BY Zenon, <1>0, <2>7 DEF ReadIo, ReadFails, Exit
    <3>. QED
      BY Zenon, <2>2, <3>1 DEF ClientInv, ClientRejectsNothing
  <2>8. CASE BodyRejected("client")
    <3>1. ch' = ch /\ cut["client"]
      BY Zenon, <2>3, <2>4, <2>8 DEF BodyRejected, BodyReady
    <3>. QED
      BY Zenon, <2>0, <2>2, <3>1 DEF ClientInv, ClientRejectsNothing
  <2>9. ASSUME BodyReady("client"), TakeBody("client"), err' = err,
               d.key_rotate_recv_seq = Len(d.key),
               ClientReads(n + 1)'
        PROVE  ClientInv'
    <3>1. pos["client"] % 2 = 1 /\ pos'["client"] = pos["client"] + 1
      BY Zenon, <1>0, <2>9 DEF OrderInv, OrderAt, BodyReady, TakeBody
    <3>2. pos'["client"] \div 2 = n + 1
      BY Zenon, <1>0, <1>n, <3>1, Halves
    <3>. QED
      BY Zenon, <2>2, <2>9, <3>2 DEF ClientInv, ClientRejectsNothing
  <2>10. CASE DataForwarded("client") \/ DataUndeliverable("client")
    <3>1. /\ BodyReady("client") /\ TakeBody("client") /\ err' = err
          /\ opens(c, f) /\ f.type = "DATA" /\ d = accept(c, f)
      BY ZenonT(60), <1>0, <2>4, <2>10 DEF DataForwarded, DataUndeliverable
    <3>2. /\ d.key = c.key /\ d.key_rotate_recv_seq = c.key_rotate_recv_seq
          /\ d.recv_seq = f.aad /\ f.key = c.key
      <4>. HIDE DEF c, d, f
      <4>. QED
        BY SMTT(60), <1>0, <3>1, ChannelFields, ChannelCounters DEF opens
    <3>3. ClientReads(n + 1)'
      BY <2>0, <3>1, <3>2 DEF ClientReads, IsData, KeyAfter
    <3>. QED
      BY Zenon, <2>2, <2>9, <3>1, <3>2, <3>3
  <2>11. CASE KeyRotateReceived("client")
    <3>1. /\ BodyReady("client") /\ TakeBody("client") /\ err' = err
          /\ opens(c, f)
      BY Zenon, <1>0, <2>4, <2>11 DEF KeyRotateReceived
    <3>2. /\ f.type = "KEY_ROTATE"
          /\ d.key = Append(c.key, f.rotation_nonce)
          /\ Len(d.key) = Len(c.key) + 1
          /\ d.key_rotate_recv_seq = c.key_rotate_recv_seq + 1
          /\ ~d.recv_initialized
      BY Zenon, <2>4, <2>11, ClientRatchets DEF ClientRotates
    <3>3. ClientReads(n + 1)'
      <4>1. f.key = c.key
        BY Zenon, <3>1 DEF opens
      <4>. QED
        BY <2>0, <3>2, <4>1 DEF ClientReads, KeyAfter
    <3>. QED
      BY Zenon, <2>2, <2>9, <3>1, <3>2, <3>3
  <2>. QED
    BY Zenon, <1>5, <2>5, <2>6, <2>7, <2>8, <2>10, <2>11 DEF Read
<1>. QED
  BY Zenon, <1>0, <1>2, <1>3, <1>4, <1>5, OneMoves DEF Moves

(* The next frame the bridge reads, when none of its reads was dropped, is *)
(* a DATA frame with an acceptable header, under a key the bridge has or   *)
(* had.                                                                    *)
LEMMA BridgeNext ==
  ASSUME TypeInv, OrderInv, KeyInv, LogInv, BridgeInv, ~cut["bridge"], Readable("bridge"),
         NEW n, n = pos["bridge"] \div 2
  PROVE  LET f == log["client"][n + 1]
         IN  /\ f.type = "DATA" /\ Precedes(f.key, ch["bridge"].key)
             /\ ClientFrameSize <= BridgeFrameSize => header_error(ch["bridge"], f) = "none"
<1>. DEFINE c == ch["bridge"]
            L == log["client"]
            f == L[n + 1]
<1>0. /\ "client" \in Side /\ "bridge" \in Side /\ Peer("bridge") = "client"
      /\ c \in Channel /\ ch["client"].key \in Key /\ c.key \in Key
      /\ pos["bridge"] \in Nat /\ pc["bridge"] # "done"
      /\ pos["bridge"] < Written("client")
  BY Zenon, ChannelTyped, ChannelFields DEF Side, Peer, TypeInv, TypeOK, Readable
<1>1. n \in Nat /\ n + 1 \in DOMAIN L
  BY Zenon, <1>0, Halves, ReadableFrame
<1>2. f.type = "DATA" /\ f.len \in Nat /\ f.aad \in Nat /\ f.key \in Key
  BY Zenon, <1>0, <1>1, FrameTyped
<1>3. BridgeReads(n) /\ Sized("bridge") /\ Sized("client") /\ ClientChained
  BY Zenon, <1>0 DEF BridgeInv, LogInv, ClientLog
<1>4. Precedes(f.key, c.key)
  <2>1. Precedes(f.key, ch["client"].key) /\ Precedes(ch["client"].key, c.key)
    BY ZenonT(60), <1>1, <1>3 DEF ClientChained, KeyInv, KeyAgreement
  <2>. QED
    BY <1>0, <1>2, <2>1, PrecedesOrder
<1>5. ASSUME c.recv_initialized
      PROVE  ~(f.aad <= c.recv_seq)
  <2>1. n > 0 /\ L[n].key = c.key /\ L[n].aad = c.recv_seq
    BY Zenon, <1>3, <1>5 DEF BridgeReads
  <2>2. n \in DOMAIN L
    <3>1. L \in Seq(Frame)
      BY Zenon, <1>0 DEF TypeInv, TypeOK
    <3>. QED
      BY SMTT(60), <1>1, <2>1, <3>1
  <2>3. L[n].key \in Key /\ L[n].aad \in Nat
    BY Zenon, <1>0, <2>2, FrameTyped
  <2>4. /\ Precedes(L[n].key, f.key)
        /\ L[n].key = f.key => L[n].aad < f.aad
    BY ZenonT(60), <1>1, <1>3, <2>2 DEF ClientChained
  <2>5. L[n].key = f.key
    BY SMTT(60), <1>2, <1>4, <2>1, <2>3, <2>4, PrecedesOrder
  <2>. QED
    <3>1. L[n].aad \in Nat /\ f.aad \in Nat /\ L[n].aad < f.aad /\ L[n].aad = c.recv_seq
      BY Zenon, <1>2, <2>1, <2>3, <2>4, <2>5
    <3>. QED
      BY Zenon, <3>1, Above
<1>6. ClientFrameSize <= BridgeFrameSize => ~(f.len > c.max_frame_size)
  <2>1. n + 1 \in DataFrames("client")
    BY Zenon, <1>1, <1>2 DEF DataFrames, IsData
  <2>2. f.len <= ClientFrameSize /\ c.max_frame_size = BridgeFrameSize
    BY Zenon, <1>3, <2>1 DEF Sized, FrameSize
  <2>. QED
    BY <1>2, <2>2, SizeAssumption
<1>7. ClientFrameSize <= BridgeFrameSize => header_error(c, f) = "none"
  BY Zenon, <1>5, <1>6 DEF header_error
<1>. QED
  BY Zenon, <1>2, <1>4, <1>7

(* Every step leaves the bridge's reader where its window says.            *)
LEMMA BridgeStep ==
  ASSUME TypeInv, TypeInv', OrderInv, GapInv, KeyInv, LogInv, ErrInv, BridgeInv, [Next]_vars
  PROVE  BridgeInv'
<1>n. PICK n \in Nat : n = pos["bridge"] \div 2
  BY Zenon, Halves DEF TypeInv, TypeOK, Side
<1>. DEFINE c == ch["bridge"]
            d == ch'["bridge"]
            f == log["client"][n + 1]
<1>0. /\ "client" \in Side /\ "bridge" \in Side /\ Peer("bridge") = "client"
      /\ c \in Channel /\ pos["bridge"] \in Nat
      /\ DOMAIN ch = Side /\ DOMAIN pos = Side /\ DOMAIN pc = Side /\ DOMAIN err = Side
  BY Zenon DEF Side, Peer, TypeInv, TypeOK
<1>1. n > 0 => log'["client"][n] = log["client"][n]
  BY Zenon, <1>0, <1>n, PastFrames
<1>2. CASE Idle("bridge")
  <2>1. BridgeReads(n) => BridgeReads(n)'
    BY Zenon, <1>1, <1>2 DEF Idle, BridgeReads
  <2>2. n > 0 /\ BridgeRejectsOnlyStaleKeys => BridgeRejectsOnlyStaleKeys'
    BY Zenon, <1>1, <1>2, <1>n DEF Idle, BridgeRejectsOnlyStaleKeys
  <2>3. (~cut'["bridge"] /\ ClientFrameSize <= BridgeFrameSize /\ err'["bridge"] \notin {"none", "Io"})
          => n > 0
    BY Zenon, <1>2, <1>n DEF Idle, BridgeInv
  <2>4. BridgeRejectsOnlyStaleKeys'
    BY Zenon, <2>2, <2>3 DEF BridgeInv, BridgeRejectsOnlyStaleKeys
  <2>. QED
    BY Zenon, <1>2, <1>n, <2>1, <2>3, <2>4 DEF Idle, BridgeInv
<1>3. ASSUME pc["bridge"] # "done",
             d.recv_initialized =>
               d.key = c.key /\ c.recv_initialized /\ d.recv_seq = c.recv_seq,
             pos'["bridge"] = pos["bridge"], err'["bridge"] = err["bridge"],
             cut["bridge"] => cut'["bridge"]
      PROVE  BridgeInv'
  <2>1. BridgeReads(n) => BridgeReads(n)'
    BY Zenon, <1>1, <1>3 DEF BridgeReads
  <2>2. err'["bridge"] = "none"
    BY Zenon, <1>0, <1>3 DEF ErrInv
  <2>. QED
    BY Zenon, <1>3, <1>n, <2>1, <2>2 DEF BridgeInv, BridgeRejectsOnlyStaleKeys
<1>4. ASSUME Rotate, pc["bridge"] # "done"
      PROVE  BridgeInv'
  <2>1. CASE RequestRotate
    BY Zenon, <1>3, <1>4, <2>1 DEF RequestRotate, readerVars
  <2>2. CASE RotateTimer \/ RotateRequested
    <3>1. cut["bridge"] => cut'["bridge"]
      <4>1. DropRead("bridge") /\ "bridge" \in DOMAIN cut
        BY Zenon, <2>2 DEF RotateTimer, RotateRequested, TypeInv, TypeOK, Side
      <4>. QED
        BY Zenon, <4>1 DEF DropRead
    <3>. QED
      BY Zenon, <1>3, <1>4, <2>2, <3>1 DEF RotateTimer, RotateRequested
  <2>3. CASE \E r \in RotationNonce : RotateStart(r)
    BY Zenon, <1>3, <1>4, <2>3 DEF RotateStart, readerVars
  <2>4. CASE RotateDone
    <3>. DEFINE b == send_key_rotate(c)
                r == LastFrame("bridge").rotation_nonce
    <3>1. d = rotate_key(b, r) /\ pos' = pos /\ err' = err /\ cut' = cut
      BY Zenon, <1>0, <2>4 DEF RotateDone, readerVars
    <3>2. r \in RotationNonce /\ b \in Channel
      BY Zenon, <1>0, <2>4, ChannelOps DEF RotateDone, TypeInv, Pending, KeyRotateFrame
    <3>. HIDE DEF b, r, c, d
    <3>3. ~d.recv_initialized
      BY Zenon, <3>1, <3>2, ChannelCounters
    <3>. QED
      BY Zenon, <1>3, <1>4, <3>1, <3>3
  <2>. QED
    BY Zenon, <1>4, <2>1, <2>2, <2>3, <2>4 DEF Rotate
<1>5. CASE Write("bridge")
  <2>1. ASSUME NEW s \in 1 .. FrameSize("bridge"), PlaintextRead("bridge", s)
        PROVE  BridgeInv'
    <3>1. cut["bridge"] => cut'["bridge"]
      BY <1>0, <2>1, Zenon DEF PlaintextRead, DropRead, TypeInv, TypeOK
    <3>. QED
      BY Zenon, <1>3, <2>1, <3>1 DEF PlaintextRead
  <2>2. CASE WriteDone("bridge")
    <3>1. /\ d = write_frame(c) /\ pos' = pos /\ err' = err /\ cut' = cut
          /\ pc["bridge"] # "done"
      BY Zenon, <1>0, <2>2 DEF WriteDone, readerVars
    <3>. HIDE DEF c, d
    <3>. QED
      BY <1>0, <1>3, <3>1, ChannelFields, ChannelCounters
  <2>3. CASE WriteFails("bridge")
    BY Zenon, <1>3, <2>3 DEF WriteFails, readerVars
  <2>4. CASE PlaintextEnds("bridge")
    <3>1. cut["bridge"] => cut'["bridge"]
      BY <1>0, <2>4, Zenon DEF PlaintextEnds, DropRead, TypeInv, TypeOK
    <3>. QED
      BY Zenon, <1>3, <2>4, <3>1 DEF PlaintextEnds
  <2>. QED
    BY Zenon, <1>5, <2>1, <2>2, <2>3, <2>4 DEF Write
<1>6. CASE Read("bridge")
  <2>0. cut' = cut /\ log' = log /\ pc["bridge"] = "select"
    BY Zenon, <1>6 DEF Read, ReadHeader, MisreadFails, MisreadWaits, ReadIo, BodyRejected,
         DataForwarded, DataUndeliverable, KeyRotateReceived, TakeBody, BodyReady, Readable
  <2>1. ~cut["bridge"] => BridgeReads(n) /\ Synced("bridge")
    BY Zenon, <1>0, <1>n, <2>0 DEF BridgeInv, GapInv, GapAt
  <2>2. err["bridge"] = "none"
    BY Zenon, <1>0, <2>0 DEF ErrInv
  <2>3. ~cut["bridge"] /\ Readable("bridge") =>
          /\ f.type = "DATA" /\ Precedes(f.key, c.key)
          /\ ClientFrameSize <= BridgeFrameSize => header_error(c, f) = "none"
    BY Zenon, <1>n, BridgeNext
  <2>4. Incoming("bridge") = f
    BY Zenon, <1>0, <1>n DEF Incoming
  <2>5. CASE ReadHeader("bridge")
    <3>1. /\ Readable("bridge") /\ pos["bridge"] % 2 = 0 /\ ch' = ch
          /\ pos'["bridge"] = pos["bridge"] + 1
      BY Zenon, <1>0, <2>5 DEF ReadHeader, Aligned
    <3>2. err' = err \/ header_error(c, f) # "none"
      BY Zenon, <1>0, <1>n, <2>5 DEF ReadHeader
    <3>3. pos'["bridge"] \div 2 = n
      BY Zenon, <1>0, <1>n, <3>1, Halves
    <3>4. BridgeReads(n) => BridgeReads(n)'
      BY Zenon, <2>0, <3>1 DEF BridgeReads
    <3>5. ~cut["bridge"] /\ ClientFrameSize <= BridgeFrameSize => err'["bridge"] = "none"
      BY Zenon, <2>2, <2>3, <3>1, <3>2
    <3>. QED
      BY Zenon, <2>0, <2>1, <3>3, <3>4, <3>5 DEF BridgeInv, BridgeRejectsOnlyStaleKeys
  <2>6. CASE MisreadFails("bridge") \/ MisreadWaits("bridge")
    <3>1. cut["bridge"]
      BY Zenon, <2>1, <2>6 DEF MisreadFails, MisreadWaits, Synced, Aligned
    <3>. QED
      BY Zenon, <2>0, <3>1 DEF BridgeInv, BridgeRejectsOnlyStaleKeys
  <2>7. CASE ReadIo("bridge")
    <3>1. pc'["bridge"] = "done" /\ err'["bridge"] = "Io"
      BY Zenon, <1>0, <2>7 DEF ReadIo, ReadFails, Exit
    <3>. QED
      BY Zenon, <3>1 DEF BridgeInv, BridgeRejectsOnlyStaleKeys
  <2>8. ASSUME BodyReady("bridge"), TakeBody("bridge")
        PROVE  pos'["bridge"] \div 2 = n + 1 /\ Readable("bridge")
    <3>1. /\ pos["bridge"] % 2 = 1 /\ pos'["bridge"] = pos["bridge"] + 1
          /\ Readable("bridge")
      BY Zenon, <1>0, <2>8 DEF OrderInv, OrderAt, BodyReady, TakeBody
    <3>. QED
      BY Zenon, <1>0, <1>n, <3>1, Halves
  <2>9. CASE BodyRejected("bridge")
    <3>1. /\ ch' = ch /\ ~opens(c, f) /\ BodyReady("bridge") /\ TakeBody("bridge")
          /\ pc'["bridge"] = "done" /\ err'["bridge"] = "AeadFailure"
      BY Zenon, <1>0, <2>4, <2>9 DEF BodyRejected, ReadFails, Exit
    <3>2. pos'["bridge"] \div 2 = n + 1 /\ Readable("bridge")
      BY Zenon, <2>8, <3>1
    <3>3. ~cut["bridge"] => f.key # c.key /\ Precedes(f.key, c.key)
      BY Zenon, <2>3, <3>1, <3>2 DEF opens
    <3>4. BridgeRejectsOnlyStaleKeys'
      BY Zenon, <2>0, <3>1, <3>2, <3>3 DEF BridgeRejectsOnlyStaleKeys
    <3>. QED
      BY <3>1, <3>2, <3>4 DEF BridgeInv
  <2>10. CASE DataForwarded("bridge") \/ DataUndeliverable("bridge")
    <3>1. /\ BodyReady("bridge") /\ TakeBody("bridge") /\ err' = err
          /\ opens(c, f) /\ f.type = "DATA" /\ d = accept(c, f)
      BY ZenonT(60), <1>0, <2>4, <2>10 DEF DataForwarded, DataUndeliverable
    <3>2. d.key = c.key /\ d.recv_seq = f.aad /\ f.key = c.key
      <4>. HIDE DEF c, d, f
      <4>. QED
        BY SMTT(60), <1>0, <3>1, ChannelFields, ChannelCounters DEF opens
    <3>3. BridgeReads(n + 1)'
      BY <2>0, <3>2 DEF BridgeReads
    <3>4. pos'["bridge"] \div 2 = n + 1
      BY Zenon, <2>8, <3>1
    <3>. QED
      BY Zenon, <2>2, <3>1, <3>3, <3>4 DEF BridgeInv, BridgeRejectsOnlyStaleKeys
  <2>11. CASE KeyRotateReceived("bridge")
    <3>1. BodyReady("bridge") /\ TakeBody("bridge") /\ f.type = "KEY_ROTATE"
      BY Zenon, <2>4, <2>11 DEF KeyRotateReceived
    <3>2. cut["bridge"]
      BY Zenon, <2>3, <2>8, <3>1
    <3>. QED
      BY Zenon, <2>0, <3>2 DEF BridgeInv, BridgeRejectsOnlyStaleKeys
  <2>. QED
    BY Zenon, <1>6, <2>5, <2>6, <2>7, <2>9, <2>10, <2>11 DEF Read
<1>. QED
  BY Zenon, <1>0, <1>2, <1>4, <1>5, <1>6, OneMoves DEF Moves

(* All that the two rejection properties rest on.                          *)
RejectInv == OrderInv /\ KeyInv /\ GapInv /\ LogInv /\ ErrInv /\ ClientInv /\ BridgeInv

(* Which frames are rejected: the state of the two readers at all times.   *)
THEOREM RejectCorrect == Spec => []RejectInv
<1>1. Init => RejectInv
  <2>. SUFFICES ASSUME Init PROVE RejectInv
    BY Zenon
  <2>. USE DEF Side
  <2>1. OrderInv
    BY DEF Init, OrderInv, OrderAt, Written, Peer
  <2>2. KeyInv
    BY DEF Init, KeyInv, KeyAgreement, KeyRotates, Precedes, new
  <2>3. GapInv
    BY DEF Init, GapInv, GapAt, NoGap, Synced, Complete, DataFrames, Peer
  <2>4. /\ log["client"] = <<>> /\ log["bridge"] = <<>>
        /\ \A x \in Side : ch[x] = new(FrameSize(x))
        /\ \A x \in Side : err[x] = "none" /\ pos[x] = 0
    BY Zenon DEF Init
  <2>5. LogInv
    <3>1. \A x \in Side : Sized(x)
      BY <2>4 DEF Sized, new, DataFrames
    <3>2. BridgeLog
      BY <2>4 DEF BridgeLog, RotateSeqs, Chained, BridgeLast, KeyRotates, new
    <3>3. ClientLog
      BY <2>4 DEF ClientLog, ClientChained, ClientLast
    <3>. QED
      BY Zenon, <3>1, <3>2, <3>3 DEF LogInv
  <2>6. ErrInv
    BY Zenon, <2>4 DEF ErrInv
  <2>7. 0 \div 2 = 0
    BY SMTT(60)
  <2>8. ClientInv
    BY SMTT(60), <2>4, <2>7 DEF ClientInv, ClientReads, ClientRejectsNothing, new
  <2>9. BridgeInv
    BY <2>4, <2>7 DEF BridgeInv, BridgeReads, BridgeRejectsOnlyStaleKeys, new
  <2>. QED
    BY Zenon, <2>1, <2>2, <2>3, <2>5, <2>6, <2>8, <2>9 DEF RejectInv
<1>2. TypeInv /\ TypeInv' /\ RejectInv /\ [Next]_vars => RejectInv'
  <2>. SUFFICES ASSUME TypeInv, TypeInv', RejectInv, [Next]_vars PROVE RejectInv'
    BY Zenon
  <2>1. OrderInv /\ KeyInv /\ GapInv /\ LogInv /\ ErrInv /\ ClientInv /\ BridgeInv
    BY Zenon DEF RejectInv
  <2>2. OrderInv' /\ KeyInv' /\ GapInv'
    BY Zenon, <2>1, OrderStep, KeyStep, GapStep
  <2>3. LogInv'
    BY Zenon, <2>1, SizedStep, BridgeLogStep, ClientLogStep DEF LogInv
  <2>4. ErrInv' /\ ClientInv' /\ BridgeInv'
    BY Zenon, <2>1, ErrStep, ClientStep, BridgeStep
  <2>. QED
    BY Zenon, <2>2, <2>3, <2>4 DEF RejectInv
<1>. QED
  BY <1>1, <1>2, TypeCorrect, PTL DEF Spec

(* With frame sizes that agree, a client none of whose reads was dropped   *)
(* past a header ends with no error but the end of the stream: read_frame  *)
(* accepts every frame of the bridge, through any number of rotations.     *)
THEOREM ClientRejectsNothingHolds == Spec => []ClientRejectsNothing
<1>1. RejectInv => ClientRejectsNothing
  BY Zenon DEF RejectInv, ClientInv
<1>. QED
  BY <1>1, RejectCorrect, PTL

(* A bridge none of whose reads was dropped past a header rejects only a   *)
(* frame under a key it had before: one that crossed its KEY_ROTATE.       *)
THEOREM BridgeRejectsOnlyStaleKeysHolds == Spec => []BridgeRejectsOnlyStaleKeys
<1>1. RejectInv => BridgeRejectsOnlyStaleKeys
  BY Zenon DEF RejectInv, BridgeInv
<1>. QED
  BY <1>1, RejectCorrect, PTL

(* Half of an even number.                                                 *)
LEMMA Half ==
  ASSUME NEW n \in Nat
  PROVE  (2 * n - 0) \div 2 = n /\ (n = 0 \/ n > 0)
OBVIOUS

(* Through any number of rotations, a client that lost no read and has     *)
(* read all that the bridge wrote has the bridge's key: what it seals next *)
(* opens at the bridge (rotate_key at both ends).                          *)
THEOREM KeysMeetHolds == Spec => []KeysMeet
<1>1. TypeInv /\ RejectInv => KeysMeet
  <2>. SUFFICES ASSUME TypeInv, RejectInv, ~cut["client"], pc["client"] # "done",
                       ~part["bridge"], pos["client"] = Written("bridge")
                PROVE  ch["client"].key = ch["bridge"].key
    BY Zenon DEF KeysMeet
  <2>1. log["bridge"] \in Seq(Frame)
    BY Zenon DEF TypeInv, TypeOK, Side
  <2>2. PICK n \in Nat : n = Len(log["bridge"])
    BY <2>1
  <2>3. pos["client"] \div 2 = n
    BY Zenon, <2>2, Half DEF Written
  <2>4. ClientReads(n)
    BY Zenon, <2>3 DEF RejectInv, ClientInv
  <2>5. BridgeLast
    BY Zenon DEF RejectInv, LogInv, BridgeLog
  <2>. QED
    BY Zenon, <2>2, <2>4, <2>5, Half DEF ClientReads, BridgeLast, LastFrame
<1>. QED
  BY <1>1, TypeCorrect, RejectCorrect, PTL

-----------------------------------------------------------------------------
(* The receive window.  A loop that writes has no read_frame pending, so   *)
(* what the header of the frame in hand was held against is what the       *)
(* channel still has.                                                      *)
WindowAt(x) ==
  /\ rd[x] # "start" => pc[x] \in {"select", "done"}
  /\ rd[x] = "body" => header_error(ch[x], Incoming(x)) = "none"

WindowInv == \A x \in Side : WindowAt(x)

(* The frame around an odd place of the stream has been begun.             *)
LEMMA OddPlace ==
  ASSUME NEW p \in Nat, NEW n \in Nat, p % 2 = 1, p <= 2 * n
  PROVE  p \div 2 + 1 \in 1 .. n
OBVIOUS

(* The frame whose body is awaited stays what it is.                       *)
LEMMA IncomingKept ==
  ASSUME TypeInv, TypeInv', OrderInv, [Next]_vars, NEW x \in Side,
         rd[x] = "body", pos'[x] = pos[x]
  PROVE  Incoming(x)' = Incoming(x)
<1>1. Peer(x) \in Side /\ pos[x] \in Nat
  BY Zenon DEF Side, Peer, TypeInv, TypeOK
<1>2. log[Peer(x)] \in Seq(Frame) /\ part[Peer(x)] \in BOOLEAN
  BY Zenon, <1>1 DEF TypeInv, TypeOK
<1>3. PICK n \in Nat : n = Len(log[Peer(x)]) /\ DOMAIN log[Peer(x)] = 1 .. n
  BY <1>2
<1>4. pos[x] % 2 = 1 /\ pos[x] <= Written(Peer(x))
  BY Zenon DEF OrderInv, OrderAt
<1>5. pos[x] <= 2 * n
  <2>1. CASE part[Peer(x)]
    BY SMTT(60), <1>1, <1>3, <1>4, <2>1 DEF Written
  <2>2. CASE ~part[Peer(x)]
    BY <1>1, <1>3, <1>4, <2>2 DEF Written
  <2>. QED
    BY Zenon, <2>1, <2>2
<1>6. pos[x] \div 2 + 1 \in DOMAIN log[Peer(x)]
  BY Zenon, <1>1, <1>3, <1>4, <1>5, OddPlace
<1>7. log'[Peer(x)][pos[x] \div 2 + 1] = log[Peer(x)][pos[x] \div 2 + 1]
  BY Zenon, <1>1, <1>6, LogMonotone DEF Grows
<1>. QED
  BY Zenon, <1>7 DEF Incoming

(* The window in hand is kept by every step.                               *)
LEMMA WindowStep ==
  ASSUME TypeInv, TypeInv', OrderInv, WindowInv, [Next]_vars
  PROVE  WindowInv'
<1>. SUFFICES ASSUME NEW x \in Side PROVE WindowAt(x)'
  BY Zenon DEF WindowInv
<1>0. WindowAt(x) /\ pos[x] \in Nat
  BY Zenon DEF WindowInv, TypeInv, TypeOK
<1>1. DOMAIN rd = Side /\ DOMAIN pc = Side /\ DOMAIN pos = Side
  BY Zenon DEF TypeInv, TypeOK
<1>2. ASSUME ch'[x] = ch[x], pos'[x] = pos[x], rd'[x] = rd[x],
             pc'[x] = pc[x] \/ pc'[x] = "done"
      PROVE  WindowAt(x)'
  BY Zenon, <1>0, <1>2, IncomingKept DEF WindowAt
<1>3. ASSUME rd'[x] = "start"
      PROVE  WindowAt(x)'
  BY Zenon, <1>3 DEF WindowAt
<1>4. ASSUME pc[x] \in {"write", "rotate", "rotating"}, rd' = rd
      PROVE  WindowAt(x)'
  <2>1. rd[x] = "start"
    BY Zenon, <1>0, <1>4 DEF WindowAt
  <2>. QED
    BY Zenon, <1>3, <1>4, <2>1
<1>5. CASE Idle(x)
  BY Zenon, <1>2, <1>5 DEF Idle
<1>6. CASE ReadHeader(x)
  <2>. DEFINE e == header_error(ch[x], log[Peer(x)][pos[x] \div 2 + 1])
  <2>1. CASE e = "none"
    <3>1. rd'[x] = "body" /\ pc' = pc /\ pc[x] = "select" /\ ch' = ch /\ log' = log
      BY Zenon, <1>1, <1>6, <2>1 DEF ReadHeader, Readable
    <3>2. pos'[x] = pos[x] + 1 /\ pos[x] % 2 = 0
      BY Zenon, <1>1, <1>6 DEF ReadHeader, Aligned
    <3>3. pos'[x] \div 2 = pos[x] \div 2
      BY Zenon, <1>0, <3>2, Halves
    <3>4. Incoming(x)' = log[Peer(x)][pos[x] \div 2 + 1]
      BY Zenon, <3>1, <3>3 DEF Incoming
    <3>. QED
      BY Zenon, <2>1, <3>1, <3>4 DEF WindowAt
  <2>2. CASE e # "none"
    <3>1. rd' = rd /\ rd[x] = "start"
      BY Zenon, <1>6, <2>2 DEF ReadHeader
    <3>. QED
      BY Zenon, <1>3, <3>1
  <2>. QED
    BY Zenon, <2>1, <2>2
<1>7. CASE MisreadFails(x)
  <2>1. rd'[x] # "body" /\ pc'[x] = "done"
    BY Zenon, <1>1, <1>7 DEF MisreadFails, ReadFails, Exit
  <2>. QED
    BY Zenon, <2>1 DEF WindowAt
<1>8. CASE MisreadWaits(x)
  <2>1. rd'[x] = "junk" /\ pc'[x] = "select"
    BY Zenon, <1>1, <1>8 DEF MisreadWaits, Readable
  <2>. QED
    BY Zenon, <2>1 DEF WindowAt
<1>9. CASE ReadIo(x)
  <2>1. ch' = ch /\ pos' = pos /\ rd' = rd /\ pc'[x] = "done"
    BY Zenon, <1>1, <1>9 DEF ReadIo, ReadFails, Exit
  <2>. QED
    BY Zenon, <1>2, <2>1
<1>10. CASE BodyRejected(x) \/ DataForwarded(x) \/ DataUndeliverable(x) \/ KeyRotateReceived(x)
  BY Zenon, <1>1, <1>3, <1>10 DEF BodyRejected, DataForwarded, DataUndeliverable,
       KeyRotateReceived, TakeBody
<1>11. CASE Write(x)
  <2>1. CASE (\E n \in 1 .. FrameSize(x) : PlaintextRead(x, n)) \/ PlaintextEnds(x)
    BY Zenon, <1>1, <1>3, <2>1 DEF PlaintextRead, PlaintextEnds, DropRead
  <2>2. CASE WriteDone(x) \/ WriteFails(x)
    BY Zenon, <1>4, <2>2 DEF WriteDone, WriteFails, readerVars
  <2>. QED
    BY Zenon, <1>11, <2>1, <2>2 DEF Write
<1>12. CASE x = "client" /\ UserEof
  BY Zenon, <1>1, <1>3, <1>12 DEF UserEof, DropRead
<1>13. CASE x = "bridge" /\ Rotate
  <2>1. CASE RequestRotate
    BY Zenon, <1>2, <2>1 DEF RequestRotate, readerVars
  <2>2. CASE RotateTimer \/ RotateRequested
    BY Zenon, <1>1, <1>3, <1>13, <2>2 DEF RotateTimer, RotateRequested, DropRead
  <2>3. CASE (\E r \in RotationNonce : RotateStart(r)) \/ RotateDone
    BY Zenon, <1>4, <1>13, <2>3 DEF RotateStart, RotateDone, readerVars
  <2>. QED
    BY Zenon, <1>13, <2>1, <2>2, <2>3 DEF Rotate
<1>14. Idle(x) \/ Moves(x)
  BY Zenon, OneMoves
<1>. QED
  BY Zenon, <1>5, <1>6, <1>7, <1>8, <1>9, <1>10, <1>11, <1>12, <1>13, <1>14 DEF Moves, Read

(* What reading a frame does to the receive window.                        *)
LEMMA AcceptWindow ==
  ASSUME NEW c \in Channel, NEW f
  PROVE  /\ f.type = "DATA" => accept(c, f).recv_initialized /\ accept(c, f).recv_seq = f.aad
         /\ f.type # "DATA" => /\ accept(c, f).recv_initialized = c.recv_initialized
                               /\ accept(c, f).recv_seq = c.recv_seq
<1>1. CASE f.type = "DATA"
  BY Zenon, <1>1 DEF Channel, accept
<1>2. CASE f.type # "DATA"
  BY Zenon, <1>2 DEF Channel, accept
<1>. QED
  BY Zenon, <1>1, <1>2

(* Comparisons of the counters.                                            *)
LEMMA Counters ==
  ASSUME NEW m \in Nat, NEW n \in Nat
  PROVE  m <= m /\ m <= m + 1 /\ (~(n <= m) => m < n /\ m <= n)
OBVIOUS

(* No step takes an endpoint back.                                         *)
LEMMA ForwardStep ==
  ASSUME TypeInv, OrderInv, WindowInv, [Next]_vars, NEW x \in Side
  PROVE  Forward(x)
<1>0. /\ ch \in [Side -> Channel] /\ DOMAIN out = Side
      /\ \A y \in Side : ch[y] \in Channel /\ ch[y].send_seq \in Nat /\ ch[y].recv_seq \in Nat
  BY Zenon, ChannelTyped, ChannelFields, ChannelCounters DEF TypeInv, TypeOK
<1>1. ASSUME ch'[x] = ch[x], out'[x] = out[x]
      PROVE  Forward(x)
  BY Zenon, <1>0, <1>1, Counters DEF Forward
<1>2. ASSUME NEW y \in Side, NEW d, ch' = [ch EXCEPT ![y] = d], x # y,
             out' = out \/ \E v : out' = [out EXCEPT ![y] = v]
      PROVE  Forward(x)
  BY Zenon, <1>0, <1>1, <1>2
<1>3. ASSUME NEW y \in Side, DataForwarded(y) \/ DataUndeliverable(y)
      PROVE  Forward(x)
  <2>. DEFINE f == Incoming(y)
              d == accept(ch[y], f)
  <2>1. /\ BodyReady(y) /\ f.type = "DATA" /\ ch' = [ch EXCEPT ![y] = d]
        /\ out' = out \/ \E v : out' = [out EXCEPT ![y] = v]
    BY Zenon, <1>3 DEF DataForwarded, DataUndeliverable
  <2>2. f \in Frame
    BY Zenon, <2>1, BodyFrame DEF OrderInv
  <2>3. f.aad \in Nat
    BY Zenon, <2>1, <2>2 DEF Frame, DataFrame, KeyRotateFrame
  <2>4. ch[y].recv_initialized => ~(f.aad <= ch[y].recv_seq)
    <3>1. header_error(ch[y], f) = "none"
      BY Zenon, <2>1 DEF BodyReady, WindowInv, WindowAt
    <3>. QED
      BY Zenon, <2>1, <3>1 DEF header_error
  <2>5. /\ d.key = ch[y].key /\ d.send_seq = ch[y].send_seq
        /\ d.recv_initialized /\ d.recv_seq = f.aad
    BY ZenonT(60), <1>0, <2>1, ChannelFields, AcceptWindow
  <2>. HIDE DEF d, f
  <2>6. CASE x = y
    <3>1. ch'[x] = d
      BY Zenon, <1>0, <2>1, <2>6
    <3>. QED
      BY Zenon, <1>0, <2>3, <2>4, <2>5, <2>6, <3>1, Counters DEF Forward
  <2>. QED
    BY Zenon, <1>2, <2>1, <2>6
<1>4. ASSUME NEW y \in Side, KeyRotateReceived(y)
      PROVE  Forward(x)
  <2>. DEFINE f == Incoming(y)
              d == accept(ch[y], f)
  <2>1. BodyReady(y) /\ f.type = "KEY_ROTATE" /\ out' = out
    BY Zenon, <1>4 DEF KeyRotateReceived
  <2>2. f \in Frame
    BY Zenon, <2>1, BodyFrame DEF OrderInv
  <2>3. f.rotation_nonce \in RotationNonce
    BY Zenon, <2>1, <2>2 DEF Frame, DataFrame, KeyRotateFrame
  <2>4. /\ d \in Channel /\ d.key = ch[y].key /\ d.send_seq = ch[y].send_seq
        /\ d.recv_initialized = ch[y].recv_initialized /\ d.recv_seq = ch[y].recv_seq
    BY ZenonT(60), <1>0, <2>1, <2>2, ChannelOps, ChannelFields, AcceptWindow
  <2>5. \/ ch' = [ch EXCEPT ![y] = d]
        \/ ch' = [ch EXCEPT ![y] = rotate_key(d, f.rotation_nonce)]
    BY Zenon, <1>4 DEF KeyRotateReceived
  <2>. HIDE DEF d, f
  <2>6. rotate_key(d, f.rotation_nonce).key = Append(ch[y].key, f.rotation_nonce)
    BY Zenon, <2>3, <2>4, ChannelFields
  <2>7. CASE x = y
    <3>1. ch'[x] = d \/ ch'[x] = rotate_key(d, f.rotation_nonce)
      BY Zenon, <1>0, <2>5, <2>7
    <3>. QED
      BY Zenon, <1>0, <2>1, <2>3, <2>4, <2>6, <2>7, <3>1, Counters DEF Forward
  <2>. QED
    BY Zenon, <1>2, <2>1, <2>5, <2>7
<1>5. ASSUME NEW y \in Side, WriteDone(y)
      PROVE  Forward(x)
  <2>1. ch' = [ch EXCEPT ![y] = write_frame(ch[y])] /\ out' = out
    BY Zenon, <1>5 DEF WriteDone, readerVars
  <2>2. CASE x = y
    <3>1. ch'[x] = write_frame(ch[x])
      BY Zenon, <1>0, <2>1, <2>2
    <3>. DEFINE d == write_frame(ch[x])
    <3>2. /\ d.key = ch[x].key /\ d.send_seq = ch[x].send_seq + 1
          /\ d.recv_initialized = ch[x].recv_initialized /\ d.recv_seq = ch[x].recv_seq
      BY Zenon, <1>0, ChannelFields, ChannelCounters
    <3>. HIDE DEF d
    <3>3. ch[x].send_seq <= d.send_seq /\ ch[x].recv_seq <= d.recv_seq
      BY Zenon, <1>0, <3>2, Counters
    <3>. QED
      BY Zenon, <2>1, <3>1, <3>2, <3>3 DEF Forward, d
  <2>. QED
    BY Zenon, <1>2, <2>1, <2>2
<1>6. CASE RotateDone
  <2>. DEFINE c == send_key_rotate(ch["bridge"])
              r == LastFrame("bridge").rotation_nonce
  <2>1. ch' = [ch EXCEPT !["bridge"] = rotate_key(c, r)] /\ out' = out /\ "bridge" \in Side
    BY Zenon, <1>6 DEF RotateDone, readerVars, Side
  <2>2. r \in RotationNonce
    <3>1. LastFrame("bridge") \in KeyRotateFrame
      BY Zenon, <1>6, <2>1 DEF RotateDone, TypeInv, Pending
    <3>. QED
      BY Zenon, <3>1 DEF KeyRotateFrame
  <2>3. c \in Channel /\ c.key = ch["bridge"].key
    BY Zenon, <1>0, <2>1, ChannelOps, ChannelFields
  <2>. HIDE DEF c, r
  <2>4. rotate_key(c, r).key = Append(ch["bridge"].key, r)
    BY ZenonT(60), <2>2, <2>3, ChannelFields
  <2>5. CASE x = "bridge"
    <3>1. ch'[x].key = Append(ch[x].key, r)
      BY Zenon, <1>0, <2>1, <2>4, <2>5
    <3>. QED
      BY Zenon, <2>1, <2>2, <3>1 DEF Forward
  <2>. QED
    BY Zenon, <1>2, <2>1, <2>5
<1>7. ASSUME NEW y \in Side,
             ReadHeader(y) \/ MisreadFails(y) \/ MisreadWaits(y) \/ ReadIo(y) \/ BodyRejected(y)
      PROVE  Forward(x)
  BY Zenon, <1>1, <1>7 DEF ReadHeader, MisreadFails, MisreadWaits, ReadIo, BodyRejected
<1>8. ASSUME NEW y \in Side,
             \/ \E n \in 1 .. FrameSize(y) : PlaintextRead(y, n)
             \/ WriteFails(y) \/ PlaintextEnds(y)
      PROVE  Forward(x)
  BY Zenon, <1>1, <1>8 DEF PlaintextRead, WriteFails, PlaintextEnds, readerVars
<1>9. CASE UserEof \/ RequestRotate \/ RotateTimer \/ RotateRequested
           \/ (\E r \in RotationNonce : RotateStart(r)) \/ UNCHANGED vars
  BY Zenon, <1>1, <1>9 DEF UserEof, RequestRotate, RotateTimer, RotateRequested, RotateStart,
       readerVars, vars
<1>. QED
  BY Zenon, <1>3, <1>4, <1>5, <1>6, <1>7, <1>8, <1>9 DEF Next, Read, Write, Rotate

(* For any number of frames, rotations and cancelled reads: under one key  *)
(* an endpoint's send_seq and receive window only move forward, each frame *)
(* it hands on is newer than all it took before, and keys change by        *)
(* ratcheting only (read_frame, write_frame, rotate_key).                  *)
THEOREM ForwardOnlyHolds == Spec => ForwardOnly
<1>1. Init => WindowInv
  BY Zenon DEF Init, WindowInv, WindowAt
<1>2. TypeInv /\ TypeInv' /\ OrderInv /\ WindowInv /\ [Next]_vars => WindowInv'
  BY Zenon, WindowStep
<1>3. TypeInv /\ OrderInv /\ WindowInv /\ [Next]_vars => [\A x \in Side : Forward(x)]_vars
  BY Zenon, ForwardStep
<1>. QED
  BY <1>1, <1>2, <1>3, TypeCorrect, OrderCorrect, PTL DEF Spec, ForwardOnly

=============================================================================
