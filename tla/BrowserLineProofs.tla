------------------------ MODULE BrowserLineProofs ---------------------------
(***************************************************************************)
(* The inductive invariant of the browser SDK (BrowserInv), and that the   *)
(* worker and the bridge keep it, for every number of connects, sends and  *)
(* frames.  A line is what one connect() has made: a socket, a worker and, *)
(* at the other end, a bridge.                                             *)
(***************************************************************************)
EXTENDS BrowserSession, TLAPS

(***************************************************************************)
(* Types.                                                                  *)
(***************************************************************************)

Hellos == {"good", "bad"}
Greeting == [t : {"HELLO"}, hello : Hellos] \cup [t : {"OTHER"}]

\* What the main thread posts to the worker, what the worker has under way, and
\* what it posts back.
Job ==
  [t : {"INIT"}, hello : Hellos] \cup [t : {"ENCRYPT"}, id : Send]
    \cup [t : {"DECRYPT"}, f : DataFrame] \cup [t : {"KEY_ROTATE"}, f : KeyRotateFrame]

Op ==
  [t : {"INIT"}, hello : Hellos] \cup [t : {"ENCRYPT"}, id : Send, key : Key, seq : Nat]
    \cup [t : {"DECRYPT"}, f : DataFrame, key : Key]
    \cup [t : {"KEY_ROTATE"}, f : KeyRotateFrame, key : Key, aad : Nat]

Answer ==
  [t : {"INIT_OK", "INIT_ERR", "KEY_ROTATED", "KEY_ROTATE_ERR"}]
    \cup [t : {"ENCRYPTED"}, id : Send, f : DataFrame] \cup [t : {"DECRYPTED"}, f : DataFrame]
    \cup [t : {"CRYPTO_ERR"}, of : {m \in Job : m.t \in {"ENCRYPT", "DECRYPT"}}]

WorkerRec ==
  [alive : BOOLEAN, init : BOOLEAN, key : Key, send_seq : Nat, recv_seq : Nat,
   recv_initialized : BOOLEAN, key_rotate_recv_seq : Nat,
   inbox : Seq(Job), ops : SUBSET Op, outbox : Seq(Answer)]

Con ==
  [sock : {"none", "open", "closing", "closed"}, listeners : {"none", "handshake", "session"},
   promise : {"none", "pending", "resolved", "rejected"}, in : Seq(Greeting \cup Frame)]

BridgeRec ==
  [phase : {"hello", "response", "up", "down"}, ch : Channel,
   in : Seq([type : {"RESPONSE"}] \cup DataFrame), sent : Nat]

-----------------------------------------------------------------------------
(***************************************************************************)
(* One connection: the browser's socket k, the worker w and the bridge's   *)
(* end b.                                                                  *)
(***************************************************************************)

Typed(k, w, b) == k \in Con /\ w \in WorkerRec /\ b \in BridgeRec

\* An INIT is on its way to the worker, in it, or done and not yet seen.
InitIn(w) ==
  \/ \E i \in 1 .. Len(w.inbox) : w.inbox[i].t = "INIT"
  \/ \E op \in w.ops : op.t = "INIT"
  \/ \E i \in 1 .. Len(w.outbox) : w.outbox[i].t = "INIT_OK"

\* The handshake comes before the frames: the ServerHello is the only message
\* the first listener sees, it is taken once, and no frame is sent, and none is
\* handed to the worker, before the worker has its key.
Shaken(k, w, b) ==
  /\ k.sock = "open" => k.listeners # "none"
  /\ k.listeners = "handshake" =>
       /\ b.phase # "up" /\ \A i \in 1 .. Len(b.in) : b.in[i].type # "RESPONSE"
       /\ Len(k.in) <= 1 /\ \A i \in 1 .. Len(k.in) : k.in[i] \in Greeting
       /\ InitIn(w) => k.in = <<>>
  /\ k.listeners # "handshake" => \A i \in 1 .. Len(k.in) : k.in[i] \in Frame
  /\ b.phase = "hello" => k.listeners # "session" /\ k.in = <<>> /\ ~InitIn(w)
  /\ \A i \in 1 .. Len(w.outbox) : w.outbox[i].t = "INIT_OK" => w.init
  /\ k.listeners = "session" /\ w.alive => w.init
  /\ \A i \in 1 .. Len(w.inbox) : w.inbox[i].t = "DECRYPT" => w.init

\* g is ahead of f on the way to the worker: what that means for a frame f of
\* the first epoch.
Earlier(g, f) ==
  f.key = <<>> => g.type = "DATA" /\ g.key = <<>> /\ (f.type = "DATA" => g.aad < f.aad)

\* f has yet to reach the worker: the worker is still in f's epoch if that is the
\* first, and what it has decoded, or is about to, came before f.
Due(w, f) ==
  f.key = <<>> =>
    /\ w.key = <<>> /\ \A op \in w.ops : op.t # "KEY_ROTATE"
    /\ f.type = "DATA" =>
         /\ f.nonce = <<f.aad, 0>>
         /\ w.recv_initialized => w.recv_seq < f.aad
         /\ \A op \in w.ops : op.t = "DECRYPT" => op.f.aad < f.aad

\* The next DATA frame of the bridge, which is behind all that it has sent.
Upcoming(b) == data_frame(b.ch, 0)

HasFrame(m) == m.t \in {"DECRYPT", "KEY_ROTATE"}

InboxDue(k, w, b) ==
  \A i \in 1 .. Len(w.inbox) : HasFrame(w.inbox[i]) =>
    /\ Due(w, w.inbox[i].f)
    /\ \A j \in 1 .. (i - 1) : HasFrame(w.inbox[j]) => Earlier(w.inbox[j].f, w.inbox[i].f)
    /\ k.listeners # "handshake" => \A j \in 1 .. Len(k.in) : Earlier(w.inbox[i].f, k.in[j])
    /\ b.phase # "down" => Earlier(w.inbox[i].f, Upcoming(b))

SocketDue(k, w, b) ==
  k.listeners # "handshake" => \A i \in 1 .. Len(k.in) :
    /\ Due(w, k.in[i])
    /\ \A j \in 1 .. (i - 1) : Earlier(k.in[j], k.in[i])
    /\ b.phase # "down" => Earlier(k.in[i], Upcoming(b))

\* Frames reach the worker in the order of the bridge, and none of the first
\* epoch has been, or will be, turned away.
InOrder(k, w, b) ==
  /\ InboxDue(k, w, b) /\ SocketDue(k, w, b)
  /\ b.phase # "down" => Due(w, Upcoming(b))
  /\ \A op \in w.ops : op.t = "DECRYPT" /\ op.f.key = <<>> => op.key = <<>>
  /\ \A i \in 1 .. Len(w.outbox) :
       w.outbox[i].t = "CRYPTO_ERR" /\ w.outbox[i].of.t = "DECRYPT" => w.outbox[i].of.f.key # <<>>

Line(k, w, b) == Typed(k, w, b) /\ Shaken(k, w, b) /\ InOrder(k, w, b)

AllLines == \A c \in Connect : Line(con[c], wk[c], br[c])

-----------------------------------------------------------------------------
(***************************************************************************)
(* The sessions.                                                           *)
(***************************************************************************)

SesRec ==
  [state : {"idle", "connecting", "ready", "error", "closed"}, intentional : BOOLEAN,
   ref : Nat, rotating : BOOLEAN, sendQueue : Seq(Send)]

HookRec ==
  [status : {"idle", "connecting", "connected", "disconnected", "error"}, session : Nat,
   attempts : Nat, timer : BOOLEAN, leaked : Int, mounted : BOOLEAN]

\* The tables, but for the records of the lines (Typed).
SesType ==
  /\ user \in {"app", "hook"} /\ n \in Nat
  /\ ses \in [Connect -> SesRec] /\ hk \in HookRec
  /\ con \in [Connect -> Con] /\ wk \in [Connect -> WorkerRec] /\ br \in [Connect -> BridgeRec]

\* Connects that have not been made have no trace.
Fresh ==
  \A c \in Connect : c > n => con[c] = unused /\ wk[c] = terminated /\ br[c] = bridge("hello")

\* A session refers to a connect of its own, and to none before connect() and
\* after close(); the hook holds a session it has made.
Refs ==
  /\ \A o \in Connect :
       /\ ses[o].ref # 0 => ses[o].ref \in Connect /\ ses[o].ref <= n /\ Obj(ses[o].ref) = o
       /\ ses[o].state \in {"idle", "closed"} => ses[o].ref = 0
  /\ hk.session # 0 => hk.session \in Connect /\ hk.session <= n
  /\ user = "app" => ~hk.mounted /\ hk.session = 0

BrowserInv ==
  /\ SesType /\ Fresh /\ Refs /\ AllLines
  /\ NoOrphanWorker /\ ReadyMeansChannel /\ ConnectedIsReady /\ DecodesFirstEpoch

-----------------------------------------------------------------------------
(***************************************************************************)
(* Sequences.                                                              *)
(***************************************************************************)

\* A sequence has a length.
LEMMA LenInNat ==
  ASSUME NEW S, NEW s \in Seq(S)
  PROVE  Len(s) \in Nat
  OBVIOUS

\* One more element at the end.
LEMMA Added ==
  ASSUME NEW S, NEW s \in Seq(S), NEW e \in S
  PROVE  /\ Append(s, e) \in Seq(S)
         /\ Len(Append(s, e)) = Len(s) + 1
         /\ Append(s, e)[Len(s) + 1] = e
         /\ \A i \in 1 .. Len(s) : Append(s, e)[i] = s[i]
  OBVIOUS

\* The first element taken off.
LEMMA Taken ==
  ASSUME NEW S, NEW s \in Seq(S), s # <<>>
  PROVE  /\ Head(s) = s[1] /\ Head(s) \in S /\ 1 \in 1 .. Len(s)
         /\ Tail(s) \in Seq(S) /\ Len(s) \in Nat \ {0} /\ Len(Tail(s)) = Len(s) - 1
         /\ \A i \in 1 .. Len(Tail(s)) : Tail(s)[i] = s[i + 1] /\ i + 1 \in 2 .. Len(s)
  OBVIOUS

\* A sequence of one element, taken off.
LEMMA Single ==
  ASSUME NEW S, NEW s \in Seq(S), s # <<>>, Len(s) <= 1
  PROVE  Len(s) = 1 /\ Tail(s) = <<>>
  <1>1. /\ Tail(s) \in Seq(S) /\ Len(s) \in Nat \ {0}
        /\ Len(Tail(s)) = Len(s) - 1
    BY Zenon, Taken
  <1>2. Len(s) = 1 /\ Len(Tail(s)) = 0
    BY <1>1
  <1>3. \A t \in Seq(S) : Len(t) = 0 => t = <<>>
    OBVIOUS
  <1> QED BY Zenon, <1>1, <1>2, <1>3

\* Every sequence holds the empty one's elements: there are none.
LEMMA Nothing ==
  ASSUME NEW S
  PROVE  <<>> \in Seq(S) /\ Len(<<>>) = 0 /\ 1 .. Len(<<>>) = {}
  OBVIOUS

-----------------------------------------------------------------------------
(***************************************************************************)
(* A line when its socket closes, its worker is terminated, or the bridge  *)
(* hangs up.                                                               *)
(***************************************************************************)

\* The workers that nothing has reached yet.
LEMMA NewWorkers ==
  /\ spawned \in WorkerRec /\ spawned.alive /\ ~spawned.init
  /\ terminated \in WorkerRec /\ ~terminated.alive /\ ~terminated.init
  /\ \A w \in {spawned, terminated} :
       /\ w.key = <<>> /\ ~w.recv_initialized
       /\ w.inbox = <<>> /\ w.outbox = <<>> /\ w.ops = {}
  <1>1. /\ spawned \in WorkerRec /\ spawned.alive /\ ~spawned.init
        /\ spawned.key = <<>> /\ ~spawned.recv_initialized
        /\ spawned.inbox = <<>> /\ spawned.outbox = <<>> /\ spawned.ops = {}
    BY DEF spawned, WorkerRec, Key
  <1>2. /\ terminated \in WorkerRec /\ ~terminated.alive /\ terminated.init = spawned.init
        /\ terminated.key = spawned.key /\ terminated.recv_initialized = spawned.recv_initialized
        /\ terminated.inbox = spawned.inbox /\ terminated.outbox = spawned.outbox
        /\ terminated.ops = spawned.ops
    BY Zenon, <1>1 DEF terminated, WorkerRec
  <1> QED BY Zenon, <1>1, <1>2

\* A bridge end that nothing was sent to or by.
LEMMA NewBridge ==
  ASSUME NEW phase \in {"hello", "response", "up", "down"}
  PROVE  LET b == bridge(phase)
         IN  /\ b \in BridgeRec /\ b.phase = phase /\ b.in = <<>>
             /\ Upcoming(b).key = <<>> /\ Upcoming(b).aad = 0
             /\ Upcoming(b).type = "DATA" /\ Upcoming(b).nonce = <<0, 0>>
  <1> DEFINE b == bridge(phase)
  <1>1. new(0) \in Channel
    BY EpochAssumption DEF new, Channel, Key
  <1>2. /\ b.phase = phase /\ b.ch = new(0) /\ b.in = <<>>
        /\ b \in BridgeRec
    BY <1>1 DEF bridge, BridgeRec
  <1>3. new(0).key = <<>> /\ new(0).send_seq = 0 /\ new(0).epoch = 0
    BY Zenon DEF new
  <1> HIDE DEF b
  <1>4. /\ Upcoming(b).key = <<>> /\ Upcoming(b).aad = 0
        /\ Upcoming(b).type = "DATA" /\ Upcoming(b).nonce = <<0, 0>>
    BY Zenon, <1>2, <1>3 DEF Upcoming, data_frame
  <1> QED BY Zenon, <1>2, <1>4 DEF b

\* worker.terminate() on a line.
LEMMA Killed ==
  ASSUME NEW k, NEW w, NEW b, Line(k, w, b)
  PROVE  Line(k, terminated, b)
  <1>1. ~InitIn(terminated)
    BY NewWorkers DEF InitIn
  <1>2. Typed(k, terminated, b)
    BY Zenon, NewWorkers DEF Line, Typed
  <1>3. Shaken(k, terminated, b)
    BY <1>1, NewWorkers DEF Line, Shaken
  <1>4. ASSUME NEW f, Due(w, f) PROVE Due(terminated, f)
    BY Zenon, <1>4, NewWorkers DEF Due
  <1>5. InboxDue(k, terminated, b)
    BY NewWorkers DEF InboxDue
  <1>6. SocketDue(k, terminated, b)
    BY ZenonT(60), <1>4 DEF Line, InOrder, SocketDue
  <1>7. InOrder(k, terminated, b)
    BY <1>4, <1>5, <1>6, NewWorkers DEF Line, InOrder
  <1> QED BY Zenon, <1>2, <1>3, <1>7 DEF Line

\* A socket that closes delivers nothing more, and no listener is put back.
LEMMA Closed_ ==
  ASSUME NEW k, NEW w, NEW b, Line(k, w, b), NEW x \in Con,
         x.in = <<>>, x.sock # "open", x.listeners \in {k.listeners, "none"}
  PROVE  Line(x, w, b)
  <1>1. Len(x.in) = 0 /\ 1 .. Len(x.in) = {}
    OBVIOUS
  <1>2. Typed(x, w, b)
    BY Zenon DEF Line, Typed
  <1>3. Shaken(x, w, b)
    BY <1>1 DEF Line, Shaken
  <1>4. InOrder(x, w, b)
    BY Zenon, <1>1 DEF Line, InOrder, InboxDue, SocketDue
  <1> QED BY Zenon, <1>2, <1>3, <1>4 DEF Line

\* The bridge's end of a connection that is over.
LEMMA Down ==
  ASSUME NEW k, NEW w, NEW b, Line(k, w, b)
  PROVE  Line(k, w, bridge("down"))
  <1>1. /\ bridge("down") \in BridgeRec /\ bridge("down").phase = "down"
        /\ Len(bridge("down").in) = 0 /\ 1 .. Len(bridge("down").in) = {}
    BY NewBridge
  <1>2. Typed(k, w, bridge("down"))
    BY Zenon, <1>1 DEF Line, Typed
  <1>3. Shaken(k, w, bridge("down"))
    BY Zenon, <1>1 DEF Line, Shaken
  <1>4. InOrder(k, w, bridge("down"))
    BY Zenon, <1>1 DEF Line, InOrder, InboxDue, SocketDue
  <1> QED BY Zenon, <1>2, <1>3, <1>4 DEF Line

\* The line of a new connect, and of one that has not been made.
LEMMA NewLine ==
  ASSUME NEW k \in {unused, waiting}, NEW w \in {spawned, terminated}
  PROVE  Line(k, w, bridge("hello"))
  <1> DEFINE b == bridge("hello")
  <1>1. /\ b \in BridgeRec /\ b.phase = "hello" /\ Len(b.in) = 0 /\ 1 .. Len(b.in) = {}
        /\ Upcoming(b).key = <<>> /\ Upcoming(b).aad = 0
        /\ Upcoming(b).type = "DATA" /\ Upcoming(b).nonce = <<0, 0>>
    BY NewBridge
  <1> HIDE DEF b
  <1>2. /\ k \in Con /\ k.in = <<>> /\ Len(k.in) = 0 /\ 1 .. Len(k.in) = {}
        /\ k.listeners \in {"none", "handshake"}
        /\ k.sock = "open" => k.listeners # "none"
    <2>1. CASE k = unused
      BY <2>1 DEF unused, Con
    <2>2. CASE k = waiting
      BY <2>2 DEF waiting, Con
    <2> QED BY Zenon, <2>1, <2>2
  <1>3. /\ w \in WorkerRec /\ w.key = <<>> /\ ~w.recv_initialized /\ w.ops = {}
        /\ Len(w.inbox) = 0 /\ 1 .. Len(w.inbox) = {} /\ Len(w.outbox) = 0 /\ 1 .. Len(w.outbox) = {}
    BY NewWorkers
  <1>4. ~InitIn(w)
    BY Zenon, <1>3 DEF InitIn
  <1>5. Shaken(k, w, b)
    BY <1>1, <1>2, <1>3, <1>4 DEF Shaken
  <1>6. Due(w, Upcoming(b))
    BY Zenon, <1>1, <1>3 DEF Due
  <1>7. InOrder(k, w, b)
    BY Zenon, <1>2, <1>3, <1>6 DEF InOrder, InboxDue, SocketDue
  <1> QED BY Zenon, <1>1, <1>2, <1>3, <1>5, <1>7 DEF Line, Typed, b

-----------------------------------------------------------------------------
(***************************************************************************)
(* A line when the main thread posts to the worker and hears from it.      *)
(***************************************************************************)

\* Only the inbox of a worker changes: what is due stays due.
LEMMA WithInbox ==
  ASSUME NEW w \in WorkerRec, NEW x \in Seq(Job)
  PROVE  LET v == [w EXCEPT !.inbox = x]
         IN  /\ v \in WorkerRec /\ v.inbox = x /\ v.ops = w.ops /\ v.outbox = w.outbox
             /\ v.alive = w.alive /\ v.init = w.init
             /\ \A f : Due(w, f) => Due(v, f)
  <1> DEFINE v == [w EXCEPT !.inbox = x]
  <1>1. /\ v \in WorkerRec /\ v.inbox = x /\ v.ops = w.ops /\ v.outbox = w.outbox
        /\ v.alive = w.alive /\ v.init = w.init /\ v.key = w.key
        /\ v.recv_seq = w.recv_seq /\ v.recv_initialized = w.recv_initialized
    BY Zenon DEF WorkerRec
  <1> HIDE DEF v
  <1>2. \A f : Due(w, f) => Due(v, f)
    BY Zenon, <1>1 DEF Due
  <1> QED BY Zenon, <1>1, <1>2 DEF v

\* Only the outbox of a worker changes.
LEMMA WithOutbox ==
  ASSUME NEW w \in WorkerRec, NEW x \in Seq(Answer)
  PROVE  LET v == [w EXCEPT !.outbox = x]
         IN  /\ v \in WorkerRec /\ v.outbox = x /\ v.ops = w.ops /\ v.inbox = w.inbox
             /\ v.alive = w.alive /\ v.init = w.init
             /\ \A f : Due(w, f) => Due(v, f)
  <1> DEFINE v == [w EXCEPT !.outbox = x]
  <1>1. /\ v \in WorkerRec /\ v.outbox = x /\ v.ops = w.ops /\ v.inbox = w.inbox
        /\ v.alive = w.alive /\ v.init = w.init /\ v.key = w.key
        /\ v.recv_seq = w.recv_seq /\ v.recv_initialized = w.recv_initialized
    BY Zenon DEF WorkerRec
  <1> HIDE DEF v
  <1>2. \A f : Due(w, f) => Due(v, f)
    BY Zenon, <1>1 DEF Due
  <1> QED BY Zenon, <1>1, <1>2 DEF v

\* Sends that are posted, one or a whole queue, are behind what is there.
LEMMA SendsPosted ==
  ASSUME NEW k, NEW w, NEW b, Line(k, w, b), NEW x \in Seq(Job),
         Len(w.inbox) <= Len(x),
         \A i \in 1 .. Len(w.inbox) : x[i] = w.inbox[i],
         \A i \in 1 .. Len(x) : i > Len(w.inbox) => x[i].t = "ENCRYPT"
  PROVE  Line(k, [w EXCEPT !.inbox = x], b)
  <1> DEFINE v == [w EXCEPT !.inbox = x]
  <1>0. w \in WorkerRec /\ w.inbox \in Seq(Job) /\ Len(w.inbox) \in Nat /\ Len(x) \in Nat
    BY DEF Line, Typed, WorkerRec
  <1>1. /\ v \in WorkerRec /\ v.inbox = x /\ v.ops = w.ops /\ v.outbox = w.outbox
        /\ v.alive = w.alive /\ v.init = w.init
        /\ \A f : Due(w, f) => Due(v, f)
    BY Zenon, <1>0, WithInbox
  <1> HIDE DEF v
  <1>2. Typed(k, v, b)
    BY Zenon, <1>1 DEF Line, Typed
  <1>3. \A i \in 1 .. Len(x) : HasFrame(x[i]) \/ x[i].t = "INIT" =>
          /\ i \in 1 .. Len(w.inbox) /\ x[i] = w.inbox[i]
          /\ \A j \in 1 .. (i - 1) : j \in 1 .. Len(w.inbox) /\ x[j] = w.inbox[j]
    BY SMTT(60), <1>0 DEF HasFrame
  <1>4. InitIn(v) => InitIn(w)
    BY <1>1, <1>3 DEF InitIn
  <1>5. Shaken(k, v, b)
    <2>1. \A i \in 1 .. Len(v.inbox) : v.inbox[i].t = "DECRYPT" => v.init
      BY ZenonT(60), <1>1, <1>3 DEF Line, Shaken, HasFrame
    <2> QED BY Zenon, <1>1, <1>4, <2>1 DEF Line, Shaken
  <1>6. InboxDue(k, v, b)
    BY SMTT(60), <1>1, <1>3 DEF Line, InOrder, InboxDue
  <1>7. SocketDue(k, v, b)
    BY Zenon, <1>1 DEF Line, InOrder, SocketDue
  <1>8. InOrder(k, v, b)
    BY <1>1, <1>6, <1>7 DEF Line, InOrder
  <1> QED BY Zenon, <1>2, <1>5, <1>8 DEF Line, v

\* An answer is taken out of the outbox.
LEMMA Heard ==
  ASSUME NEW k, NEW w, NEW b, Line(k, w, b), w.outbox # <<>>
  PROVE  Line(k, [w EXCEPT !.outbox = Tail(@)], b)
  <1> DEFINE x == Tail(w.outbox)
             v == [w EXCEPT !.outbox = x]
  <1>0. w \in WorkerRec /\ w.outbox \in Seq(Answer)
    BY Zenon DEF Line, Typed, WorkerRec
  <1>1. /\ x \in Seq(Answer) /\ Len(w.outbox) \in Nat
        /\ \A i \in 1 .. Len(x) : i + 1 \in 1 .. Len(w.outbox) /\ x[i] = w.outbox[i + 1]
    BY <1>0, Taken
  <1> HIDE DEF x
  <1>2. /\ v \in WorkerRec /\ v.outbox = x /\ v.ops = w.ops /\ v.inbox = w.inbox
        /\ v.alive = w.alive /\ v.init = w.init
        /\ \A f : Due(w, f) => Due(v, f)
    BY Zenon, <1>0, <1>1, WithOutbox
  <1> HIDE DEF v
  <1>3. Typed(k, v, b)
    BY Zenon, <1>2 DEF Line, Typed
  <1>4. InitIn(v) => InitIn(w)
    BY Zenon, <1>1, <1>2 DEF InitIn
  <1>5. Shaken(k, v, b)
    BY Zenon, <1>1, <1>2, <1>4 DEF Line, Shaken
  <1>6. InboxDue(k, v, b) /\ SocketDue(k, v, b)
    BY Zenon, <1>2 DEF Line, InOrder, InboxDue, SocketDue
  <1>7. InOrder(k, v, b)
    BY ZenonT(60), <1>1, <1>2, <1>6 DEF Line, InOrder
  <1> QED BY Zenon, <1>3, <1>5, <1>7 DEF Line, v, x

\* Only what the socket holds changes.
LEMMA WithIn ==
  ASSUME NEW k \in Con, NEW x \in Seq(Greeting \cup Frame)
  PROVE  LET y == [k EXCEPT !.in = x]
         IN  y \in Con /\ y.in = x /\ y.sock = k.sock /\ y.listeners = k.listeners
  BY Zenon DEF Con

-----------------------------------------------------------------------------
(***************************************************************************)
(* A line when the bridge acts.                                            *)
(***************************************************************************)

\* The frames on their way to the worker.
LEMMA OnTheWay ==
  ASSUME NEW k, NEW w, NEW b, Line(k, w, b)
  PROVE  /\ \A i \in 1 .. Len(w.inbox) : HasFrame(w.inbox[i]) => w.inbox[i].f \in Frame
         /\ k.listeners # "handshake" => \A i \in 1 .. Len(k.in) : k.in[i] \in Frame
  <1>1. \A i \in 1 .. Len(w.inbox) : w.inbox[i] \in Job
    BY DEF Line, Typed, WorkerRec
  <1>2. \A m \in Job : HasFrame(m) => m.f \in Frame
    BY Zenon DEF Job, HasFrame, Frame
  <1> QED BY Zenon, <1>1, <1>2 DEF Line, Shaken

-----------------------------------------------------------------------------
(***************************************************************************)
(* A line when the worker works.                                           *)
(***************************************************************************)

\* The worker's event loop takes a message (Take), and the await of an operation
\* returns (Finish).
LEMMA WorkerLine ==
  \A k, w, b : Line(k, w, b) =>
    /\ w.inbox # <<>> => /\ Line(k, Take(w), b)
                         /\ Take(w).alive = w.alive /\ Take(w).init = w.init
    /\ \A op \in w.ops : /\ Line(k, Finish(w, op), b) /\ Finish(w, op).alive = w.alive
                         /\ w.init => Finish(w, op).init
  \* The worker takes h jobs off its inbox, none or one, and changes its state so
  \* that what was due, and behind the job it took, is still due.
  <1>Worked.
    ASSUME NEW k, NEW w, NEW b, Line(k, w, b), NEW v \in WorkerRec, NEW h \in {0, 1},
           InitIn(v) => InitIn(w), v.alive = w.alive, w.init => v.init,
           \A i \in 1 .. Len(v.outbox) : v.outbox[i].t = "INIT_OK" => v.init,
           h = 1 => w.inbox # <<>>,
           v.inbox = IF h = 1 THEN Tail(w.inbox) ELSE w.inbox,
           \A f \in Frame :
             Due(w, f) /\ (h = 1 /\ HasFrame(w.inbox[1]) => Earlier(w.inbox[1].f, f)) => Due(v, f),
           \A op \in v.ops : op.t = "DECRYPT" /\ op.f.key = <<>> => op.key = <<>>,
           \A i \in 1 .. Len(v.outbox) :
             v.outbox[i].t = "CRYPTO_ERR" /\ v.outbox[i].of.t = "DECRYPT" => v.outbox[i].of.f.key # <<>>
    PROVE  Line(k, v, b)
    <2> USE <1>Worked
    <2>0. b \in BridgeRec /\ w \in WorkerRec /\ w.inbox \in Seq(Job) /\ Len(w.inbox) \in Nat
      <3>1. b \in BridgeRec /\ w \in WorkerRec
        BY Zenon DEF Line, Typed
      <3>2. w.inbox \in Seq(Job)
        BY Zenon, <3>1 DEF WorkerRec
      <3> QED BY Zenon, <3>1, <3>2, LenInNat
    <2>1. \A i \in 1 .. Len(v.inbox) : i + h \in 1 .. Len(w.inbox) /\ v.inbox[i] = w.inbox[i + h]
      <3>1. CASE h = 0
        BY <2>0, <3>1
      <3>2. CASE h = 1
        <4>1. \A i \in 1 .. Len(v.inbox) : v.inbox[i] = w.inbox[i + 1] /\ i + 1 \in 2 .. Len(w.inbox)
          BY <2>0, <3>2, Taken
        <4> QED BY <2>0, <3>2, <4>1
      <3> QED BY Zenon, <3>1, <3>2
    <2>2. h = 1 => 1 \in 1 .. Len(w.inbox)
      BY Zenon, <2>0, Taken
    <2>3. Upcoming(b) \in Frame
      BY Zenon, <2>0 DEF BridgeRec, Upcoming, data_frame, Frame, DataFrame, Channel
    <2>4. Typed(k, v, b)
      BY Zenon DEF Line, Typed
    <2>5. Shaken(k, v, b)
      <3>1. \A i \in 1 .. Len(v.inbox) : v.inbox[i].t = "DECRYPT" => v.init
        BY ZenonT(60), <2>1 DEF Line, Shaken
      <3> QED BY Zenon, <3>1 DEF Line, Shaken
    <2>6. InboxDue(k, v, b)
      <3> SUFFICES ASSUME NEW i \in 1 .. Len(v.inbox), HasFrame(v.inbox[i])
                   PROVE  /\ Due(v, v.inbox[i].f)
                          /\ \A j \in 1 .. (i - 1) :
                               HasFrame(v.inbox[j]) => Earlier(v.inbox[j].f, v.inbox[i].f)
                          /\ k.listeners # "handshake" =>
                               \A j \in 1 .. Len(k.in) : Earlier(v.inbox[i].f, k.in[j])
                          /\ b.phase # "down" => Earlier(v.inbox[i].f, Upcoming(b))
        BY Zenon DEF InboxDue
      <3>1. PICK l \in 1 .. Len(w.inbox) : l = i + h /\ v.inbox[i] = w.inbox[l]
        BY Zenon, <2>0, <2>1
      <3>2. /\ Due(w, w.inbox[l].f)
            /\ \A j \in 1 .. (l - 1) :
                 HasFrame(w.inbox[j]) => Earlier(w.inbox[j].f, w.inbox[l].f)
            /\ k.listeners # "handshake" =>
                 \A j \in 1 .. Len(k.in) : Earlier(w.inbox[l].f, k.in[j])
            /\ b.phase # "down" => Earlier(w.inbox[l].f, Upcoming(b))
        BY Zenon, <3>1 DEF Line, InOrder, InboxDue
      <3>3. w.inbox[l].f \in Frame
        BY Zenon, <3>1, OnTheWay
      <3>4. h = 1 /\ HasFrame(w.inbox[1]) => Earlier(w.inbox[1].f, w.inbox[l].f)
        <4>1. h = 1 => 1 \in 1 .. (l - 1)
          BY <3>1
        <4> QED BY Zenon, <3>2, <4>1
      <3>5. Due(v, w.inbox[l].f)
        BY ZenonT(60), <3>2, <3>3, <3>4
      <3>6. \A j \in 1 .. (i - 1) : v.inbox[j] = w.inbox[j + h] /\ j + h \in 1 .. (l - 1)
        BY SMTT(60), <2>1, <3>1
      <3> QED BY ZenonT(60), <3>1, <3>2, <3>5, <3>6
    <2>7. h = 1 /\ HasFrame(w.inbox[1]) =>
            /\ k.listeners # "handshake" => \A j \in 1 .. Len(k.in) : Earlier(w.inbox[1].f, k.in[j])
            /\ b.phase # "down" => Earlier(w.inbox[1].f, Upcoming(b))
      BY Zenon, <2>2 DEF Line, InOrder, InboxDue
    <2>8. SocketDue(k, v, b)
      <3>1. ASSUME k.listeners # "handshake", NEW i \in 1 .. Len(k.in) PROVE Due(v, k.in[i])
        <4>1. Due(w, k.in[i]) /\ k.in[i] \in Frame
          BY Zenon, <3>1, OnTheWay DEF Line, InOrder, SocketDue
        <4> QED BY Zenon, <2>7, <3>1, <4>1
      <3> QED BY Zenon, <3>1 DEF Line, InOrder, SocketDue
    <2>9. b.phase # "down" => Due(v, Upcoming(b))
      BY Zenon, <2>3, <2>7 DEF Line, InOrder
    <2>10. InOrder(k, v, b)
      BY Zenon, <2>6, <2>8, <2>9 DEF InOrder
    <2> QED BY Zenon, <2>4, <2>5, <2>10 DEF Line
  \* An answer behind the others (Post).
  <1>Posts.
    ASSUME NEW w \in WorkerRec, NEW a \in Answer
    PROVE  LET v == Post(w, a)
           IN  /\ v \in WorkerRec /\ v.inbox = w.inbox /\ v.ops = w.ops
               /\ v.alive = w.alive /\ v.init = w.init
               /\ \A f : Due(w, f) => Due(v, f)
               /\ \A i \in 1 .. Len(v.outbox) :
                    v.outbox[i] = a \/ (i \in 1 .. Len(w.outbox) /\ v.outbox[i] = w.outbox[i])
    <2> USE <1>Posts
    <2> DEFINE x == Append(w.outbox, a)
               v == [w EXCEPT !.outbox = x]
    <2>0. w.outbox \in Seq(Answer)
      BY Zenon DEF WorkerRec
    <2>1. x \in Seq(Answer)
          /\ \A i \in 1 .. Len(x) : x[i] = a \/ (i \in 1 .. Len(w.outbox) /\ x[i] = w.outbox[i])
      BY <2>0
    <2> HIDE DEF x
    <2>2. /\ v \in WorkerRec /\ v.outbox = x /\ v.ops = w.ops /\ v.inbox = w.inbox
          /\ v.alive = w.alive /\ v.init = w.init
          /\ \A f : Due(w, f) => Due(v, f)
      BY Zenon, <2>1, WithOutbox
    <2> HIDE DEF v
    <2>3. Post(w, a) = v
      BY Zenon DEF Post, v, x
    <2> QED BY Zenon, <2>1, <2>2, <2>3
  \* A worker that posts an answer which is no INIT_OK and loses no frame of the first
  \* epoch; v is what it was before, or that with its first job taken off.
  <1>Answers.
    ASSUME NEW k, NEW w, NEW b, Line(k, w, b), NEW v \in WorkerRec, NEW h \in {0, 1},
           h = 1 => w.inbox # <<>>,
           v.inbox = IF h = 1 THEN Tail(w.inbox) ELSE w.inbox,
           v.outbox = w.outbox, v.ops \subseteq w.ops, v.alive = w.alive, v.init = w.init,
           \A f \in Frame : Due(w, f) => Due(v, f),
           NEW a \in Answer, a.t # "INIT_OK",
           a.t = "CRYPTO_ERR" /\ a.of.t = "DECRYPT" => a.of.f.key # <<>>
    PROVE  Line(k, Post(v, a), b)
    <2> USE <1>Answers
    <2> DEFINE u == Post(v, a)
    <2>0. w \in WorkerRec /\ w.inbox \in Seq(Job)
      BY Zenon DEF Line, Typed, WorkerRec
    <2>1. /\ u \in WorkerRec /\ u.inbox = v.inbox /\ u.ops = v.ops
          /\ u.alive = v.alive /\ u.init = v.init
          /\ \A f : Due(v, f) => Due(u, f)
          /\ \A i \in 1 .. Len(u.outbox) :
               u.outbox[i] = a \/ (i \in 1 .. Len(w.outbox) /\ u.outbox[i] = w.outbox[i])
      BY <1>Posts
    <2> HIDE DEF u
    <2>2. \A i \in 1 .. Len(v.inbox) : \E j \in 1 .. Len(w.inbox) : v.inbox[i] = w.inbox[j]
      <3>1. CASE h = 0
        BY <3>1
      <3>2. CASE h = 1
        <4>1. \A i \in 1 .. Len(v.inbox) : i + 1 \in 1 .. Len(w.inbox) /\ v.inbox[i] = w.inbox[i + 1]
          BY <2>0, <3>2, Taken
        <4> QED BY Zenon, <4>1
      <3> QED BY Zenon, <3>1, <3>2
    <2>3. InitIn(u) => InitIn(w)
      <3>1. ASSUME NEW i \in 1 .. Len(u.outbox), u.outbox[i].t = "INIT_OK" PROVE InitIn(w)
        <4>1. i \in 1 .. Len(w.outbox) /\ w.outbox[i].t = "INIT_OK"
          BY Zenon, <2>1, <3>1
        <4> QED BY Zenon, <4>1 DEF InitIn
      <3>2. ASSUME NEW i \in 1 .. Len(u.inbox), u.inbox[i].t = "INIT" PROVE InitIn(w)
        BY <2>1, <2>2, <3>2 DEF InitIn
      <3>3. ASSUME NEW op \in u.ops, op.t = "INIT" PROVE InitIn(w)
        BY ZenonT(60), <2>1, <3>3 DEF InitIn
      <3> QED BY Zenon, <3>1, <3>2, <3>3 DEF InitIn
    <2>4. /\ \A i \in 1 .. Len(u.outbox) : u.outbox[i].t = "INIT_OK" => u.init
          /\ \A i \in 1 .. Len(u.outbox) :
               u.outbox[i].t = "CRYPTO_ERR" /\ u.outbox[i].of.t = "DECRYPT" => u.outbox[i].of.f.key # <<>>
          /\ \A op \in u.ops : op.t = "DECRYPT" /\ op.f.key = <<>> => op.key = <<>>
      <3>1. \A i \in 1 .. Len(u.outbox) : u.outbox[i].t = "INIT_OK" => u.init
        BY Zenon, <2>1 DEF Line, Shaken
      <3>2. \A i \in 1 .. Len(u.outbox) :
              u.outbox[i].t = "CRYPTO_ERR" /\ u.outbox[i].of.t = "DECRYPT" => u.outbox[i].of.f.key # <<>>
        BY ZenonT(60), <2>1 DEF Line, InOrder
      <3>3. \A op \in u.ops : op.t = "DECRYPT" /\ op.f.key = <<>> => op.key = <<>>
        BY Zenon, <2>1 DEF Line, InOrder
      <3> QED BY Zenon, <3>1, <3>2, <3>3
    <2>5. \A f \in Frame :
            Due(w, f) /\ (h = 1 /\ HasFrame(w.inbox[1]) => Earlier(w.inbox[1].f, f)) => Due(u, f)
      BY Zenon, <2>1
    <2>6. u.alive = w.alive /\ (w.init => u.init)
      BY Zenon, <2>1
    <2>7. u.inbox = IF h = 1 THEN Tail(w.inbox) ELSE w.inbox
      BY Zenon, <2>1
    <2> QED BY Zenon, <2>1, <2>3, <2>4, <2>5, <2>6, <2>7, <1>Worked DEF u
  \* What Started keeps of a job.
  <1>Starts.
    ASSUME NEW w \in WorkerRec, NEW m \in Job
    PROVE  LET op == Started(w, m)
           IN  /\ op \in Op /\ op.t = m.t
               /\ HasFrame(m) => op.f = m.f /\ op.key = w.key
    <2> USE <1>Starts
    <2>0. w.key \in Key /\ w.send_seq \in Nat /\ w.key_rotate_recv_seq \in Nat
      BY Zenon DEF WorkerRec
    <2>1. CASE m.t = "INIT"
      BY Zenon, <2>1 DEF Started, Job, Op, HasFrame
    <2>2. CASE m.t = "ENCRYPT"
      BY Zenon, <2>0, <2>2 DEF Started, Job, Op, HasFrame
    <2>3. CASE m.t = "DECRYPT"
      BY Zenon, <2>0, <2>3 DEF Started, Job, Op, HasFrame
    <2>4. CASE m.t = "KEY_ROTATE"
      BY Zenon, <2>0, <2>4 DEF Started, Job, Op, HasFrame
    <2> QED BY Zenon, <2>1, <2>2, <2>3, <2>4 DEF Job
  \* The worker's event loop takes a message (Take).
  <1>TakeLine.
    ASSUME NEW k, NEW w, NEW b, Line(k, w, b), w.inbox # <<>>
    PROVE  Line(k, Take(w), b) /\ Take(w).alive = w.alive /\ Take(w).init = w.init
    <2> USE <1>TakeLine
    <2> DEFINE m == w.inbox[1]
               x == Tail(w.inbox)
               v == [w EXCEPT !.inbox = x]
               op == Started(w, m)
    <2>0. w \in WorkerRec /\ w.inbox \in Seq(Job)
      BY Zenon DEF Line, Typed, WorkerRec
    <2>1. m = Head(w.inbox) /\ m \in Job /\ 1 \in 1 .. Len(w.inbox) /\ x \in Seq(Job)
      BY ZenonT(60), <2>0, Taken
    <2>2. HasFrame(m) => Due(w, m.f)
      BY Zenon, <2>1 DEF Line, InOrder, InboxDue
    <2>3. m.t = "DECRYPT" => w.init /\ m.f \in DataFrame /\ HasFrame(m)
      BY Zenon, <2>1 DEF Line, Shaken, Job, HasFrame
    <2>4. m.t = "KEY_ROTATE" => m.f \in KeyRotateFrame /\ HasFrame(m)
      BY Zenon, <2>1 DEF Job, HasFrame
    <2>5. op \in Op /\ op.t = m.t /\ (HasFrame(m) => op.f = m.f /\ op.key = w.key)
      BY Zenon, <2>0, <2>1, <1>Starts
    <2>6. \A i \in 1 .. Len(x) : i + 1 \in 1 .. Len(w.inbox) /\ x[i] = w.inbox[i + 1]
      BY <2>0, Taken
    <2> HIDE DEF m, x, op
    <2>7. /\ v \in WorkerRec /\ v.inbox = x /\ v.ops = w.ops /\ v.outbox = w.outbox
          /\ v.alive = w.alive /\ v.init = w.init
          /\ \A f : Due(w, f) => Due(v, f)
      BY Zenon, <2>0, <2>1, WithInbox
    <2>8. v = [w EXCEPT !.inbox = Tail(@)]
      BY Zenon, <2>0 DEF x, WorkerRec
    <2> HIDE DEF v
    <2>9. v.inbox = IF 1 = 1 THEN Tail(w.inbox) ELSE w.inbox
      BY Zenon, <2>7 DEF x
    <2>10. CASE m.t = "KEY_ROTATE" /\ ~w.init
      <3> DEFINE a == [t |-> "KEY_ROTATE_ERR"]
      <3>1. Take(w) = Post(v, a)
        BY Zenon, <2>1, <2>8, <2>10 DEF Take
      <3>2. a \in Answer /\ a.t = "KEY_ROTATE_ERR"
        BY Zenon DEF Answer
      <3> HIDE DEF a
      <3>3. Line(k, Post(v, a), b)
        BY Zenon, <2>7, <2>9, <3>2, <1>Answers
      <3> QED BY <2>7, <3>1, <3>2, <3>3, <1>Posts
    <2>11. CASE \/ m.t \in {"ENCRYPT", "DECRYPT"} /\ ~w.init
                \/ m.t = "DECRYPT" /\ decode_rejects(w, m.f)
      <3> DEFINE a == [t |-> "CRYPTO_ERR", of |-> m]
      <3>1. Take(w) = Post(v, a)
        BY Zenon, <2>1, <2>8, <2>11 DEF Take
      <3>2. a \in Answer /\ a.t = "CRYPTO_ERR" /\ a.of = m
        <4>1. m \in {j \in Job : j.t \in {"ENCRYPT", "DECRYPT"}}
          BY Zenon, <2>1, <2>11
        <4> QED BY Zenon, <4>1 DEF Answer
      <3> HIDE DEF a
      <3>3. ASSUME m.t = "DECRYPT", m.f.key = <<>> PROVE FALSE
        <4>1. m.f.type = "DATA" /\ m.f.aad \in Nat /\ w.recv_seq \in Nat
          BY Zenon, <2>0, <2>3, <3>3 DEF DataFrame, WorkerRec
        <4>2. m.f.nonce = <<m.f.aad, 0>> /\ (w.recv_initialized => w.recv_seq < m.f.aad)
          BY Zenon, <2>2, <2>3, <3>3, <4>1 DEF Due
        <4>3. ~decode_rejects(w, m.f)
          BY <4>1, <4>2 DEF decode_rejects
        <4> QED BY Zenon, <2>3, <2>11, <3>3, <4>3
      <3>4. Line(k, Post(v, a), b)
        BY Zenon, <2>7, <2>9, <3>2, <3>3, <1>Answers
      <3> QED BY SMTT(60), <2>7, <3>1, <3>2, <3>4, <1>Posts
    <2>12. CASE /\ ~(m.t = "KEY_ROTATE" /\ ~w.init)
                /\ ~(\/ m.t \in {"ENCRYPT", "DECRYPT"} /\ ~w.init
                     \/ m.t = "DECRYPT" /\ decode_rejects(w, m.f))
      <3> DEFINE u == [v EXCEPT !.ops = v.ops \cup {op}]
      <3>1. Take(w) = u
        BY Zenon, <2>1, <2>8, <2>12 DEF Take, op
      <3>2. /\ u \in WorkerRec /\ u.inbox = x /\ u.ops = w.ops \cup {op} /\ u.outbox = w.outbox
            /\ u.alive = w.alive /\ u.init = w.init /\ u.key = v.key
            /\ u.recv_seq = v.recv_seq /\ u.recv_initialized = v.recv_initialized
        BY Zenon, <2>5, <2>7 DEF WorkerRec
      <3> HIDE DEF u
      <3>3. InitIn(u) => InitIn(w)
        BY ZenonT(60), <2>1, <2>5, <2>6, <3>2 DEF InitIn, m
      <3>4. ASSUME NEW f \in Frame, Due(w, f), HasFrame(m) => Earlier(m.f, f) PROVE Due(u, f)
        <4>1. Due(v, f)
          BY Zenon, <2>7, <3>4
        <4>2. f.key = <<>> => op.t # "KEY_ROTATE"
          BY Zenon, <2>4, <2>5, <3>4 DEF Earlier, KeyRotateFrame
        <4>3. f.key = <<>> /\ f.type = "DATA" /\ op.t = "DECRYPT" => op.f.aad < f.aad
          BY Zenon, <2>3, <2>5, <3>4 DEF Earlier
        <4> QED BY Zenon, <2>7, <3>2, <4>1, <4>2, <4>3 DEF Due
      <3>5. \A o \in u.ops : o.t = "DECRYPT" /\ o.f.key = <<>> => o.key = <<>>
        <4>1. op.t = "DECRYPT" /\ op.f.key = <<>> => op.key = <<>>
          BY ZenonT(60), <2>2, <2>3, <2>5 DEF Due
        <4> QED BY Zenon, <3>2, <4>1 DEF Line, InOrder
      <3>6. /\ \A i \in 1 .. Len(u.outbox) : u.outbox[i].t = "INIT_OK" => u.init
            /\ \A i \in 1 .. Len(u.outbox) :
                 u.outbox[i].t = "CRYPTO_ERR" /\ u.outbox[i].of.t = "DECRYPT" => u.outbox[i].of.f.key # <<>>
        BY <3>2 DEF Line, Shaken, InOrder
      <3>7. \A f \in Frame :
              Due(w, f) /\ (1 = 1 /\ HasFrame(w.inbox[1]) => Earlier(w.inbox[1].f, f)) => Due(u, f)
        BY Zenon, <3>4 DEF m
      <3>8. u.inbox = IF 1 = 1 THEN Tail(w.inbox) ELSE w.inbox
        BY Zenon, <3>2 DEF x
      <3>9. Line(k, u, b)
        BY Zenon, <3>2, <3>3, <3>5, <3>6, <3>7, <3>8, <1>Worked
      <3> QED BY Zenon, <3>1, <3>2, <3>9
    <2> QED BY Zenon, <2>10, <2>11, <2>12
  \* An operation is done with: what was due stays due.
  <1>OpDone.
    ASSUME NEW w \in WorkerRec, NEW op \in w.ops
    PROVE  LET v == [w EXCEPT !.ops = @ \ {op}]
           IN  /\ v \in WorkerRec /\ v.inbox = w.inbox /\ v.outbox = w.outbox
               /\ v.alive = w.alive /\ v.init = w.init /\ v.ops \subseteq w.ops
               /\ v.key = w.key /\ v.send_seq = w.send_seq /\ v.key_rotate_recv_seq = w.key_rotate_recv_seq
               /\ \A f : Due(w, f) => Due(v, f)
    <2> USE <1>OpDone
    <2> DEFINE v == [w EXCEPT !.ops = @ \ {op}]
    <2>1. /\ v \in WorkerRec /\ v.inbox = w.inbox /\ v.outbox = w.outbox
          /\ v.alive = w.alive /\ v.init = w.init /\ v.ops \subseteq w.ops
          /\ v.key = w.key /\ v.send_seq = w.send_seq /\ v.key_rotate_recv_seq = w.key_rotate_recv_seq
          /\ v.recv_seq = w.recv_seq /\ v.recv_initialized = w.recv_initialized
      BY Zenon DEF WorkerRec
    <2> HIDE DEF v
    <2>2. \A f : Due(w, f) => Due(v, f)
      BY Zenon, <2>1 DEF Due
    <2> QED BY Zenon, <2>1, <2>2 DEF v
  \* A ServerHello that is good: the worker has its key (handleInit).
  <1>InitDone.
    ASSUME NEW k, NEW w, NEW b, Line(k, w, b), NEW op \in w.ops, op.t = "INIT",
           NEW v \in WorkerRec, v.inbox = w.inbox, v.outbox = w.outbox, v.ops \subseteq w.ops,
           v.alive = w.alive, op.hello = "good"
    PROVE  Line(k, handleInit(v, op), b) /\ handleInit(v, op).alive = w.alive /\ handleInit(v, op).init
    <2> USE <1>InitDone
    <2> DEFINE x == [v EXCEPT !.init = TRUE, !.key = importSessionKey, !.send_seq = 0, !.recv_seq = 0,
                              !.recv_initialized = FALSE, !.key_rotate_recv_seq = 0]
               a == [t |-> "INIT_OK"]
               u == Post(x, a)
    <2>1. /\ x \in WorkerRec /\ x.init /\ x.key = <<>> /\ ~x.recv_initialized
          /\ x.inbox = w.inbox /\ x.outbox = w.outbox /\ x.ops = v.ops /\ x.alive = w.alive
      <3>1. importSessionKey = <<>> /\ importSessionKey \in Key
        BY DEF importSessionKey, Key
      <3>2. x \in WorkerRec
        BY Zenon, <3>1 DEF WorkerRec
      <3> QED BY Zenon, <3>1, <3>2 DEF WorkerRec
    <2>2. a \in Answer /\ a.t = "INIT_OK"
      BY Zenon DEF Answer
    <2>3. handleInit(v, op) = u
      BY Zenon DEF handleInit
    <2> HIDE DEF x, a
    <2>4. /\ u \in WorkerRec /\ u.inbox = w.inbox /\ u.ops = v.ops
          /\ u.alive = w.alive /\ u.init = x.init
          /\ \A f : Due(x, f) => Due(u, f)
          /\ \A i \in 1 .. Len(u.outbox) :
               u.outbox[i] = a \/ (i \in 1 .. Len(w.outbox) /\ u.outbox[i] = w.outbox[i])
      BY ZenonT(60), <2>1, <2>2, <1>Posts
    <2> HIDE DEF u
    <2>5. InitIn(w) /\ u.init
      BY Zenon, <2>1, <2>4 DEF InitIn
    <2>6. \A f \in Frame :
            Due(w, f) /\ (0 = 1 /\ HasFrame(w.inbox[1]) => Earlier(w.inbox[1].f, f)) => Due(u, f)
      <3>1. \A f : Due(w, f) => Due(x, f)
        BY Zenon, <2>1 DEF Due
      <3> QED BY Zenon, <2>4, <3>1
    <2>7. /\ \A o \in u.ops : o.t = "DECRYPT" /\ o.f.key = <<>> => o.key = <<>>
          /\ \A i \in 1 .. Len(u.outbox) :
               u.outbox[i].t = "CRYPTO_ERR" /\ u.outbox[i].of.t = "DECRYPT" => u.outbox[i].of.f.key # <<>>
      BY ZenonT(60), <2>2, <2>4 DEF Line, InOrder
    <2>8. u.inbox = IF 0 = 1 THEN Tail(w.inbox) ELSE w.inbox
      BY <2>4
    <2>9. 0 \in {0, 1} /\ (0 = 1 => w.inbox # <<>>)
      OBVIOUS
    <2>10. /\ InitIn(u) => InitIn(w)
           /\ w.init => u.init
           /\ \A i \in 1 .. Len(u.outbox) : u.outbox[i].t = "INIT_OK" => u.init
      BY Zenon, <2>5
    <2>11. Line(k, u, b)
      BY Zenon, <2>4, <2>6, <2>7, <2>8, <2>9, <2>10, <1>Worked
    <2> QED BY Zenon, <2>3, <2>4, <2>5, <2>11
  \* The await of an operation returns (Finish).
  <1>FinishLine.
    ASSUME NEW k, NEW w, NEW b, Line(k, w, b), NEW op \in w.ops
    PROVE  /\ Line(k, Finish(w, op), b) /\ Finish(w, op).alive = w.alive
           /\ w.init => Finish(w, op).init
    <2> USE <1>FinishLine
    <2> DEFINE v == [w EXCEPT !.ops = @ \ {op}]
    <2>0. w \in WorkerRec /\ op \in Op
      BY Zenon DEF Line, Typed, WorkerRec
    <2>1. /\ v \in WorkerRec /\ v.inbox = w.inbox /\ v.outbox = w.outbox
          /\ v.alive = w.alive /\ v.init = w.init /\ v.ops \subseteq w.ops
          /\ v.key = w.key /\ v.send_seq = w.send_seq /\ v.key_rotate_recv_seq = w.key_rotate_recv_seq
          /\ \A f : Due(w, f) => Due(v, f)
      BY Zenon, <2>0, <1>OpDone
    <2>2. Finish(w, op) = CASE op.t = "INIT" -> handleInit(v, op)
                            [] op.t = "ENCRYPT" -> handleEncrypt(v, op)
                            [] op.t = "DECRYPT" -> handleDecrypt(v, op)
                            [] op.t = "KEY_ROTATE" -> handleKeyRotate(v, op)
      BY Zenon DEF Finish
    <2> HIDE DEF v
    <2>3. ASSUME NEW x \in WorkerRec, x.inbox = w.inbox, x.outbox = w.outbox, x.ops \subseteq w.ops,
                 x.alive = w.alive, x.init = w.init, \A f \in Frame : Due(w, f) => Due(x, f),
                 NEW a \in Answer, a.t # "INIT_OK",
                 a.t = "CRYPTO_ERR" /\ a.of.t = "DECRYPT" => a.of.f.key # <<>>
          PROVE  Line(k, Post(x, a), b) /\ Post(x, a).alive = w.alive /\ Post(x, a).init = w.init
      <3>1. x.inbox = IF 0 = 1 THEN Tail(w.inbox) ELSE w.inbox
        BY SMTT(60), <2>3
      <3>2. Line(k, Post(x, a), b)
        BY <2>3, <3>1, <1>Answers
      <3> QED BY Zenon, <2>3, <3>2, <1>Posts
    <2>4. CASE op.t = "INIT"
      <3>1. Finish(w, op) = handleInit(v, op)
        BY Zenon, <2>2, <2>4
      <3>2. CASE op.hello = "good"
        BY <2>1, <2>4, <3>1, <3>2, <1>InitDone
      <3>3. CASE op.hello # "good"
        <4> DEFINE a == [t |-> "INIT_ERR"]
        <4>1. a \in Answer /\ a.t = "INIT_ERR"
          BY Zenon DEF Answer
        <4>2. handleInit(v, op) = Post(v, a)
          BY Zenon, <3>3 DEF handleInit
        <4> HIDE DEF a
        <4> QED BY Zenon, <2>1, <2>3, <3>1, <4>1, <4>2
      <3> QED BY Zenon, <3>2, <3>3
    <2>5. CASE op.t = "ENCRYPT"
      <3> DEFINE x == [v EXCEPT !.send_seq = @ + 1]
                 a == [t |-> "ENCRYPTED", id |-> op.id, f |-> encodeFrame(op.key, op.seq)]
      <3>1. Finish(w, op) = Post(x, a)
        BY Zenon, <2>2, <2>5 DEF handleEncrypt
      <3>2. /\ x \in WorkerRec /\ x.inbox = w.inbox /\ x.outbox = w.outbox /\ x.ops = v.ops
            /\ x.alive = w.alive /\ x.init = w.init /\ x.key = v.key
            /\ x.recv_seq = v.recv_seq /\ x.recv_initialized = v.recv_initialized
        <4>1. v.send_seq + 1 \in Nat
          BY <2>1 DEF WorkerRec
        <4> QED BY Zenon, <2>1, <4>1 DEF WorkerRec
      <3>3. encodeFrame(op.key, op.seq) \in DataFrame /\ op.id \in Send
        <4>1. op.id \in Send /\ op.key \in Key /\ op.seq \in Nat
          BY Zenon, <2>0, <2>5 DEF Op
        <4> QED BY <4>1, EpochAssumption DEF encodeFrame, DataFrame
      <3>4. a \in Answer /\ a.t = "ENCRYPTED"
        BY Zenon, <3>3 DEF Answer
      <3> HIDE DEF x, a
      <3>5. \A f \in Frame : Due(w, f) => Due(x, f)
        <4>1. \A f : Due(v, f) => Due(x, f)
          BY Zenon, <3>2 DEF Due
        <4> QED BY Zenon, <2>1, <4>1
      <3> QED BY Zenon, <2>1, <2>3, <3>1, <3>2, <3>4, <3>5
    <2>6. CASE op.t = "DECRYPT"
      <3>1. op.f \in DataFrame /\ op.f.aad \in Nat
        BY Zenon, <2>0, <2>6 DEF Op, DataFrame
      <3>2. CASE op.f.key = op.key
        <4> DEFINE x == [v EXCEPT !.recv_seq = op.f.aad, !.recv_initialized = TRUE]
                   a == [t |-> "DECRYPTED", f |-> op.f]
        <4>1. Finish(w, op) = Post(x, a)
          BY Zenon, <2>2, <2>6, <3>2 DEF handleDecrypt
        <4>2. /\ x \in WorkerRec /\ x.inbox = w.inbox /\ x.outbox = w.outbox /\ x.ops = v.ops
              /\ x.alive = w.alive /\ x.init = w.init /\ x.key = v.key /\ x.recv_seq = op.f.aad
          BY Zenon, <2>1, <3>1 DEF WorkerRec
        <4>3. a \in Answer /\ a.t = "DECRYPTED"
          BY Zenon, <3>1 DEF Answer
        <4> HIDE DEF x, a
        <4>4. \A f \in Frame : Due(w, f) => Due(x, f)
          <5>1. ASSUME NEW f, Due(w, f), f.key = <<>>, f.type = "DATA" PROVE op.f.aad < f.aad
            BY Zenon, <2>6, <5>1 DEF Due
          <5>2. \A f : Due(w, f) => Due(v, f)
            BY Zenon, <2>1
          <5> QED BY Zenon, <4>2, <5>1, <5>2 DEF Due
        <4> QED BY Zenon, <2>1, <2>3, <4>1, <4>2, <4>3, <4>4
      <3>3. CASE op.f.key # op.key
        <4> DEFINE m == [t |-> "DECRYPT", f |-> op.f]
                   a == [t |-> "CRYPTO_ERR", of |-> m]
        <4>1. Finish(w, op) = Post(v, a)
          BY Zenon, <2>2, <2>6, <3>3 DEF handleDecrypt
        <4>2. m \in Job /\ m.f = op.f /\ m.t = "DECRYPT"
          BY Zenon, <3>1 DEF Job
        <4> HIDE DEF m
        <4>3. a \in Answer /\ a.t = "CRYPTO_ERR" /\ a.of = m
          <5>1. m \in {j \in Job : j.t \in {"ENCRYPT", "DECRYPT"}}
            BY Zenon, <4>2
          <5> QED BY Zenon, <5>1 DEF Answer
        <4> HIDE DEF a
        <4>4. op.f.key # <<>>
          BY Zenon, <2>6, <3>3 DEF Line, InOrder
        <4> QED BY Zenon, <2>1, <2>3, <4>1, <4>2, <4>3, <4>4
      <3> QED BY Zenon, <3>2, <3>3
    <2>7. CASE op.t = "KEY_ROTATE"
      <3>1. CASE opensRotation(op)
        <4> DEFINE x == [v EXCEPT !.key = rotatedKey(op), !.send_seq = 0, !.recv_seq = 0,
                                  !.recv_initialized = FALSE, !.key_rotate_recv_seq = @ + 1]
                   a == [t |-> "KEY_ROTATED"]
        <4>1. Finish(w, op) = Post(x, a)
          BY Zenon, <2>2, <2>7, <3>1 DEF handleKeyRotate
        <4>2. rotatedKey(op) \in Key
          <5>1. op.key \in Key /\ op.f.rotation_nonce \in RotationNonce
            BY Zenon, <2>0, <2>7 DEF Op, KeyRotateFrame
          <5> QED BY <5>1 DEF rotatedKey, Key
        <4>3. /\ x \in WorkerRec /\ x.inbox = w.inbox /\ x.outbox = w.outbox /\ x.ops = v.ops
              /\ x.alive = w.alive /\ x.init = w.init
          <5>1. v.key_rotate_recv_seq + 1 \in Nat
            BY <2>1 DEF WorkerRec
          <5>2. x \in WorkerRec
            BY Zenon, <2>1, <4>2, <5>1 DEF WorkerRec
          <5> QED BY Zenon, <2>1, <5>2 DEF WorkerRec
        <4>4. a \in Answer /\ a.t = "KEY_ROTATED"
          BY Zenon DEF Answer
        <4> HIDE DEF x, a
        <4>5. \A f \in Frame : Due(w, f) => Due(x, f)
          BY Zenon, <2>7 DEF Due
        <4> QED BY Zenon, <2>1, <2>3, <4>1, <4>3, <4>4, <4>5
      <3>2. CASE ~opensRotation(op)
        <4> DEFINE a == [t |-> "KEY_ROTATE_ERR"]
        <4>1. Finish(w, op) = Post(v, a)
          BY Zenon, <2>2, <2>7, <3>2 DEF handleKeyRotate
        <4>2. a \in Answer /\ a.t = "KEY_ROTATE_ERR"
          BY Zenon DEF Answer
        <4> HIDE DEF a
        <4> QED BY Zenon, <2>1, <2>3, <4>1, <4>2
      <3> QED BY Zenon, <3>1, <3>2
    <2> QED BY Zenon, <2>0, <2>4, <2>5, <2>6, <2>7 DEF Op
  <1> QED BY ZenonT(60), <1>TakeLine, <1>FinishLine

-----------------------------------------------------------------------------
(***************************************************************************)
(* Steps of one connection.                                                *)
(***************************************************************************)

\* The connects are numbered from 1, and each belongs to a session.
LEMMA Connects ==
  ASSUME user \in {"app", "hook"}
  PROVE  /\ Connect \subseteq Nat /\ 1 \in Connect /\ 0 \notin Connect
         /\ \A c \in Connect : Obj(c) \in Connect
         /\ user = "hook" => \A c \in Connect : Obj(c) = c
         /\ user = "app" => \A c \in Connect : Obj(c) = 1
  BY BrowserAssumption DEF Connect, Obj

\* Who uses the SDK does not change, and so neither do the connects.
LEMMA SameConnects ==
  ASSUME user' = user
  PROVE  Connect' = Connect /\ \A c : Obj(c)' = Obj(c)
  BY Zenon DEF Connect, Obj

\* A step at connect c that terminates no worker and starts none: what the line
\* of c, the states of the sessions and the hook must show for the invariant.
LEMMA LineStep ==
  ASSUME BrowserInv, NEW c \in Connect, c <= n, UNCHANGED <<user, n>>,
         con' \in [Connect -> Con], wk' \in [Connect -> WorkerRec], br' \in [Connect -> BridgeRec],
         \A d \in Connect : d # c => con'[d] = con[d] /\ wk'[d] = wk[d] /\ br'[d] = br[d],
         Line(con'[c], wk'[c], br'[c]),
         wk'[c].alive = wk[c].alive, wk[c].init => wk'[c].init,
         con[c].listeners = "session" => con'[c].listeners = "session",
         ses' \in [Connect -> SesRec],
         \A o \in Connect :
           /\ ses'[o].ref = ses[o].ref
           /\ \/ ses'[o].state \in {ses[o].state, "error"}
              \/ /\ o = Obj(c) /\ ses'[o].state = "ready"
                 /\ wk'[c].alive /\ wk'[c].init /\ con'[c].listeners = "session",
         hk' \in HookRec, hk'.session = hk.session, hk'.mounted = hk.mounted,
         ConnectedIsReady', DecodesFirstEpoch'
  PROVE  BrowserInv'
  <1> USE DEF BrowserInv
  <1>0. user \in {"app", "hook"} /\ n \in Nat
    BY Zenon DEF SesType
  <1>1. Connect' = Connect /\ (\A d : Obj(d)' = Obj(d)) /\ Connect \subseteq Nat /\ 0 \notin Connect
    BY Zenon, <1>0, SameConnects, Connects
  <1>2. SesType'
    BY Zenon, <1>1 DEF SesType
  <1>3. Fresh'
    <2>1. \A d \in Connect : d > n => d # c
      BY <1>0, <1>1
    <2> QED BY ZenonT(60), <1>1, <2>1 DEF Fresh
  <1>4. Refs'
    BY <1>0, <1>1 DEF Refs
  <1>5. AllLines'
    BY Zenon, <1>1 DEF AllLines
  <1>6. \A d \in Connect : wk'[d].alive = wk[d].alive
    BY Zenon
  <1>7. NoOrphanWorker'
    <2> SUFFICES ASSUME NEW d \in Connect, wk'[d].alive
                 PROVE  ses'[Obj(d)].ref = d /\ (user = "hook" => hk'.session = d)
      BY Zenon, <1>1 DEF NoOrphanWorker
    <2>1. Obj(d) \in Connect
      BY Zenon, <1>0, Connects
    <2>2. wk[d].alive
      BY Zenon, <1>6
    <2> QED BY ZenonT(60), <2>1, <2>2 DEF NoOrphanWorker
  <1>8. ReadyMeansChannel'
    <2> SUFFICES ASSUME NEW o \in Connect, ses'[o].state = "ready"
                 PROVE  LET d == ses'[o].ref
                        IN  d # 0 /\ wk'[d].alive /\ wk'[d].init /\ con'[d].listeners = "session"
      BY Zenon, <1>1 DEF ReadyMeansChannel
    <2>1. ses'[o].ref = ses[o].ref
      BY Zenon
    <2>2. CASE ses[o].state = "ready"
      <3> DEFINE d == ses[o].ref
      <3>1. d # 0 /\ wk[d].alive /\ wk[d].init /\ con[d].listeners = "session"
        BY Zenon, <2>2 DEF ReadyMeansChannel
      <3>2. d \in Connect
        BY Zenon, <3>1 DEF Refs
      <3> HIDE DEF d
      <3>3. CASE d = c
        BY ZenonT(60), <3>1, <3>3, <2>1 DEF d
      <3>4. CASE d # c
        BY ZenonT(60), <3>1, <3>2, <3>4, <2>1 DEF d
      <3> QED BY Zenon, <3>3, <3>4
    <2>3. CASE ses[o].state # "ready"
      <3>1. o = Obj(c) /\ wk'[c].alive /\ wk'[c].init /\ con'[c].listeners = "session"
        BY Zenon, <2>3
      <3>2. ses[Obj(c)].ref = c
        BY Zenon, <3>1 DEF NoOrphanWorker
      <3>3. ses'[o].ref = c
        BY Zenon, <2>1, <3>1, <3>2
      <3>4. c # 0
        BY Zenon, <1>1
      <3> QED BY Zenon, <3>1, <3>3, <3>4
    <2> QED BY Zenon, <2>2, <2>3
  <1> QED BY Zenon, <1>2, <1>3, <1>4, <1>5, <1>7, <1>8

\* Connect c moves on along its own line; the other connects stay where they are.
LineMoves(c) ==
  /\ con' \in [Connect -> Con] /\ wk' \in [Connect -> WorkerRec] /\ br' \in [Connect -> BridgeRec]
  /\ \A d \in Connect : d # c => con'[d] = con[d] /\ wk'[d] = wk[d] /\ br'[d] = br[d]
  /\ Line(con'[c], wk'[c], br'[c])
  /\ wk'[c].alive = wk[c].alive
  /\ wk[c].init => wk'[c].init
  /\ con[c].listeners = "session" => con'[c].listeners = "session"

\* The sessions keep their states, or turn to error.
SesErrs ==
  /\ ses' \in [Connect -> SesRec]
  /\ \A o \in Connect : ses'[o].ref = ses[o].ref /\ ses'[o].state \in {ses[o].state, "error"}

\* LineStep, of a step that makes no session ready.
LEMMA LineErrs ==
  ASSUME BrowserInv, NEW c \in Connect, c <= n, UNCHANGED <<user, n>>, LineMoves(c), SesErrs,
         hk' \in HookRec, hk'.session = hk.session, hk'.mounted = hk.mounted,
         ConnectedIsReady', DecodesFirstEpoch'
  PROVE  BrowserInv'
  <1>1. \A o \in Connect :
          /\ ses'[o].ref = ses[o].ref
          /\ \/ ses'[o].state \in {ses[o].state, "error"}
             \/ /\ o = Obj(c) /\ ses'[o].state = "ready"
                /\ wk'[c].alive /\ wk'[c].init /\ con'[c].listeners = "session"
    BY Zenon DEF SesErrs
  <1>2. ses' \in [Connect -> SesRec]
    BY Zenon DEF SesErrs
  <1>3. /\ con' \in [Connect -> Con] /\ wk' \in [Connect -> WorkerRec] /\ br' \in [Connect -> BridgeRec]
        /\ \A d \in Connect : d # c => con'[d] = con[d] /\ wk'[d] = wk[d] /\ br'[d] = br[d]
        /\ Line(con'[c], wk'[c], br'[c])
        /\ wk'[c].alive = wk[c].alive
        /\ wk[c].init => wk'[c].init
        /\ con[c].listeners = "session" => con'[c].listeners = "session"
    BY Zenon DEF LineMoves
  <1> QED BY Zenon, <1>1, <1>2, <1>3, LineStep

\* A connect that shows any sign of life has been made.
LEMMA Made ==
  ASSUME BrowserInv, NEW c \in Connect,
         \/ con[c].sock # "none" \/ con[c].promise # "none"
         \/ wk[c].alive \/ br[c].in # <<>>
  PROVE  c <= n
  <1>1. n \in Nat /\ c \in Nat
    BY Zenon, Connects DEF BrowserInv, SesType
  <1>2. unused.sock = "none" /\ unused.promise = "none" /\ bridge("hello").in = <<>> /\ ~terminated.alive
    BY Zenon, NewWorkers, NewBridge DEF unused
  <1>3. ~(c > n)
    BY Zenon, <1>2 DEF BrowserInv, Fresh
  <1> QED BY <1>1, <1>3

\* A step of the worker or of the bridge, which no session and no hook notices.
LEMMA QuietStep ==
  ASSUME BrowserInv, NEW c \in Connect, c <= n, UNCHANGED <<user, n, ses, lost, hk>>,
         con' \in [Connect -> Con], wk' \in [Connect -> WorkerRec], br' \in [Connect -> BridgeRec],
         \A d \in Connect : d # c => con'[d] = con[d] /\ wk'[d] = wk[d] /\ br'[d] = br[d],
         Line(con'[c], wk'[c], br'[c]),
         wk'[c].alive = wk[c].alive, wk[c].init => wk'[c].init,
         con'[c].listeners = con[c].listeners
  PROVE  BrowserInv'
  <1>1. ses' \in [Connect -> SesRec] /\ hk' \in HookRec
    BY Zenon DEF BrowserInv, SesType
  <1>2. ConnectedIsReady' /\ DecodesFirstEpoch'
    BY Zenon DEF BrowserInv, ConnectedIsReady, DecodesFirstEpoch
  <1>3. hk'.session = hk.session /\ hk'.mounted = hk.mounted
    BY Zenon
  <1>4. \A o \in Connect : ses'[o].ref = ses[o].ref /\ ses'[o].state \in {ses[o].state, "error"}
    BY Zenon
  <1>5. con[c].listeners = "session" => con'[c].listeners = "session"
    BY Zenon
  <1> QED BY Zenon, <1>1, <1>2, <1>3, <1>4, <1>5, LineStep

\* The records of the tables, and their line.
LEMMA Tables ==
  ASSUME BrowserInv, NEW c \in Connect
  PROVE  /\ con \in [Connect -> Con] /\ wk \in [Connect -> WorkerRec] /\ br \in [Connect -> BridgeRec]
         /\ con[c] \in Con /\ wk[c] \in WorkerRec /\ br[c] \in BridgeRec
         /\ Line(con[c], wk[c], br[c])
  BY Zenon DEF BrowserInv, SesType, AllLines

\* The worker's steps.
LEMMA WorkerSteps ==
  ASSUME BrowserInv, NEW c \in Connect, WorkerTake(c) \/ WorkerFinish(c)
  PROVE  BrowserInv'
  <1>1. UNCHANGED <<user, n, ses, lost, hk>> /\ con' = con /\ br' = br /\ wk[c].alive
    BY Zenon DEF WorkerTake, WorkerFinish
  <1>2. c <= n
    BY Zenon, <1>1, Made
  <1>3. PICK v : wk' = [wk EXCEPT ![c] = v] /\ Line(con[c], v, br[c]) /\ v.alive = wk[c].alive
                 /\ (wk[c].init => v.init)
    <2>1. CASE WorkerTake(c)
      <3>1. wk[c].inbox # <<>> /\ wk' = [wk EXCEPT ![c] = Take(wk[c])]
        BY Zenon, <2>1 DEF WorkerTake
      <3>2. Line(con[c], Take(wk[c]), br[c]) /\ Take(wk[c]).alive = wk[c].alive /\ Take(wk[c]).init = wk[c].init
        BY ZenonT(60), <3>1, Tables, WorkerLine
      <3> QED BY Zenon, <3>1, <3>2
    <2>2. CASE WorkerFinish(c)
      <3>1. PICK op \in wk[c].ops : wk' = [wk EXCEPT ![c] = Finish(wk[c], op)]
        BY Zenon, <2>2 DEF WorkerFinish
      <3>2. /\ Line(con[c], Finish(wk[c], op), br[c]) /\ Finish(wk[c], op).alive = wk[c].alive
            /\ wk[c].init => Finish(wk[c], op).init
        BY Zenon, Tables, WorkerLine
      <3> QED BY Zenon, <3>1, <3>2
    <2> QED BY Zenon, <2>1, <2>2
  <1>4. v \in WorkerRec
    BY Zenon, <1>3 DEF Line, Typed
  <1>5. wk' \in [Connect -> WorkerRec] /\ wk'[c] = v /\ \A d \in Connect : d # c => wk'[d] = wk[d]
    BY Zenon, <1>3, <1>4, Tables
  <1> QED BY Zenon, <1>1, <1>2, <1>3, <1>5, Tables, QuietStep

\* The bridge's steps.
LEMMA BridgeSteps ==
  ASSUME BrowserInv, NEW c \in Connect, Bridge(c)
  PROVE  BrowserInv'
  \* The ServerHello is sent on an open socket (BridgeHello).
  <1>HelloSent.
    ASSUME NEW k, NEW w, NEW b, Line(k, w, b), k.sock = "open", b.phase = "hello",
           NEW m \in Greeting
    PROVE  Line([k EXCEPT !.in = <<m>>], w, [b EXCEPT !.phase = "response"])
    <2> USE <1>HelloSent
    <2> DEFINE y == [k EXCEPT !.in = <<m>>]
               d == [b EXCEPT !.phase = "response"]
    <2>0. k \in Con /\ b \in BridgeRec
      BY Zenon DEF Line, Typed
    <2>1. k.listeners = "handshake" /\ ~InitIn(w)
      BY Zenon, <2>0 DEF Line, Shaken, Con
    <2>2. <<m>> \in Seq(Greeting \cup Frame) /\ Len(<<m>>) = 1 /\ <<m>>[1] = m
      OBVIOUS
    <2>3. y \in Con /\ y.in = <<m>> /\ y.sock = k.sock /\ y.listeners = k.listeners
      BY Zenon, <2>0, <2>2, WithIn
    <2>4. d \in BridgeRec /\ d.phase = "response" /\ d.ch = b.ch /\ d.in = b.in
      BY Zenon, <2>0 DEF BridgeRec
    <2>5. Upcoming(d) = Upcoming(b)
      BY Zenon, <2>4 DEF Upcoming
    <2> HIDE DEF y, d
    <2>6. Typed(y, w, d)
      BY Zenon, <2>3, <2>4 DEF Line, Typed
    <2>7. \A i \in 1 .. Len(y.in) : y.in[i] \in Greeting
      BY SMTT(60), <2>2, <2>3
    <2>8. Shaken(y, w, d)
      BY SMTT(60), <2>1, <2>2, <2>3, <2>4, <2>7 DEF Line, Shaken
    <2>9. InboxDue(y, w, d) /\ SocketDue(y, w, d)
      BY Zenon, <2>1, <2>3, <2>4, <2>5 DEF Line, InOrder, InboxDue, SocketDue
    <2>10. InOrder(y, w, d)
      BY Zenon, <2>4, <2>5, <2>9 DEF Line, InOrder
    <2> QED BY Zenon, <2>6, <2>8, <2>10 DEF Line, y, d
  \* The bridge reads a message and is still there (BridgeRead).
  <1>BridgeReads.
    ASSUME NEW k, NEW w, NEW b, Line(k, w, b), b.in # <<>>, b.phase \in {"response", "up"},
           NEW d \in BridgeRec, d.in = Tail(b.in), Upcoming(d) = Upcoming(b),
           d.phase = b.phase \/ (d.phase = "up" /\ Head(b.in).type = "RESPONSE")
    PROVE  Line(k, w, d)
    <2> USE <1>BridgeReads
    <2> DEFINE S == [type : {"RESPONSE"}] \cup DataFrame
    <2>0. b.in \in Seq(S)
      BY Zenon DEF Line, Typed, BridgeRec
    <2> HIDE DEF S
    <2>1. /\ Head(b.in) = b.in[1] /\ 1 \in 1 .. Len(b.in)
          /\ \A i \in 1 .. Len(d.in) : d.in[i] = b.in[i + 1] /\ i + 1 \in 1 .. Len(b.in)
      BY <2>0, Taken
    <2>2. Typed(k, w, d)
      BY Zenon DEF Line, Typed
    <2>3. k.listeners = "handshake" =>
            d.phase # "up" /\ \A i \in 1 .. Len(d.in) : d.in[i].type # "RESPONSE"
      BY Zenon, <2>1 DEF Line, Shaken
    <2>4. d.phase # "hello"
      BY Zenon
    <2>5. Shaken(k, w, d)
      BY Zenon, <2>3, <2>4 DEF Line, Shaken
    <2>6. InOrder(k, w, d)
      BY Zenon DEF Line, InOrder, InboxDue, SocketDue
    <2> QED BY Zenon, <2>2, <2>5, <2>6 DEF Line
  \* The bridge puts a frame f behind all the others (Sent), and what it will send
  \* next comes after f.
  <1>FramePushed.
    ASSUME NEW k, NEW w, NEW b, Line(k, w, b), b.phase = "up",
           NEW f \in Frame, Due(w, f),
           NEW d \in BridgeRec, d.phase = "up", Due(w, Upcoming(d)), Earlier(f, Upcoming(d)),
           \A g \in Frame : Earlier(g, Upcoming(b)) => Earlier(g, f) /\ Earlier(g, Upcoming(d))
    PROVE  Line([k EXCEPT !.in = Append(@, f)], w, d)
    <2> USE <1>FramePushed
    <2> DEFINE S == Greeting \cup Frame
               x == Append(k.in, f)
               y == [k EXCEPT !.in = x]
    <2>0. k \in Con /\ k.in \in Seq(S) /\ f \in S /\ k.listeners # "handshake"
      BY Zenon DEF Line, Typed, Con, Shaken
    <2> HIDE DEF S
    <2>1. /\ x \in Seq(S) /\ Len(x) = Len(k.in) + 1 /\ Len(k.in) \in Nat
          /\ x[Len(k.in) + 1] = f
          /\ \A i \in 1 .. Len(k.in) : x[i] = k.in[i]
      BY <2>0
    <2> HIDE DEF x
    <2>2. y \in Con /\ y.in = x /\ y.sock = k.sock /\ y.listeners = k.listeners
      BY ZenonT(60), <2>0, <2>1, WithIn DEF S
    <2> HIDE DEF y
    <2>3. \A i \in 1 .. Len(x) : i = Len(k.in) + 1 \/ i \in 1 .. Len(k.in)
      BY <2>1
    <2>4. Typed(y, w, d)
      BY Zenon, <2>2 DEF Line, Typed
    <2>5. \A i \in 1 .. Len(x) : x[i] \in Frame
      BY Zenon, <2>0, <2>1, <2>3, OnTheWay
    <2>6. Shaken(y, w, d)
      BY Zenon, <2>0, <2>2, <2>5 DEF Line, Shaken
    <2>7. InboxDue(y, w, d)
      <3> SUFFICES ASSUME NEW i \in 1 .. Len(w.inbox), HasFrame(w.inbox[i])
                   PROVE  /\ Due(w, w.inbox[i].f)
                          /\ \A j \in 1 .. (i - 1) :
                               HasFrame(w.inbox[j]) => Earlier(w.inbox[j].f, w.inbox[i].f)
                          /\ \A j \in 1 .. Len(x) : Earlier(w.inbox[i].f, x[j])
                          /\ Earlier(w.inbox[i].f, Upcoming(d))
        BY Zenon, <2>2 DEF InboxDue
      <3>1. /\ Due(w, w.inbox[i].f)
            /\ \A j \in 1 .. (i - 1) :
                 HasFrame(w.inbox[j]) => Earlier(w.inbox[j].f, w.inbox[i].f)
            /\ \A j \in 1 .. Len(k.in) : Earlier(w.inbox[i].f, k.in[j])
            /\ Earlier(w.inbox[i].f, Upcoming(b))
        BY Zenon, <2>0 DEF Line, InOrder, InboxDue
      <3>2. w.inbox[i].f \in Frame
        BY Zenon, OnTheWay
      <3>3. Earlier(w.inbox[i].f, f) /\ Earlier(w.inbox[i].f, Upcoming(d))
        BY Zenon, <3>1, <3>2
      <3> QED BY Zenon, <2>1, <2>3, <3>1, <3>3
    <2>8. SocketDue(y, w, d)
      <3> SUFFICES ASSUME NEW i \in 1 .. Len(x)
                   PROVE  /\ Due(w, x[i])
                          /\ \A j \in 1 .. (i - 1) : Earlier(x[j], x[i])
                          /\ Earlier(x[i], Upcoming(d))
        BY Zenon, <2>2 DEF SocketDue
      <3>1. \A j \in 1 .. Len(k.in) :
              /\ Due(w, k.in[j]) /\ Earlier(k.in[j], f) /\ Earlier(k.in[j], Upcoming(d))
              /\ \A l \in 1 .. (j - 1) : Earlier(k.in[l], k.in[j])
        BY Zenon, <2>0, OnTheWay DEF Line, InOrder, SocketDue
      <3>2. CASE i = Len(k.in) + 1
        <4>1. \A j \in 1 .. (i - 1) : j \in 1 .. Len(k.in) /\ x[j] = k.in[j]
          BY <2>1, <3>2
        <4> QED BY ZenonT(60), <2>1, <3>1, <3>2, <4>1
      <3>3. CASE i \in 1 .. Len(k.in)
        <4>1. \A j \in 1 .. (i - 1) : j \in 1 .. Len(k.in) /\ x[j] = k.in[j]
          BY <2>1, <3>3
        <4> QED BY ZenonT(60), <2>1, <3>1, <3>3, <4>1
      <3> QED BY Zenon, <2>3, <3>2, <3>3
    <2>9. InOrder(y, w, d)
      BY Zenon, <2>7, <2>8 DEF Line, InOrder
    <2> QED BY Zenon, <2>4, <2>6, <2>9 DEF Line, y, x
  \* A channel with a new state, after one more frame (Sent).
  <1>WithChannel.
    ASSUME NEW b \in BridgeRec, NEW ch \in Channel
    PROVE  LET d == [b EXCEPT !.ch = ch, !.sent = @ + 1]
           IN  d \in BridgeRec /\ d.ch = ch /\ d.phase = b.phase /\ d.in = b.in
    <2> USE <1>WithChannel
    <2> DEFINE s == b.sent + 1
               d == [b EXCEPT !.ch = ch, !.sent = s]
    <2>1. s \in Nat /\ [b EXCEPT !.ch = ch, !.sent = @ + 1] = d
      BY DEF BridgeRec
    <2> HIDE DEF s
    <2>2. d \in BridgeRec
      BY Zenon, <2>1 DEF BridgeRec
    <2>3. d.ch = ch /\ d.phase = b.phase /\ d.in = b.in
      BY Zenon DEF BridgeRec
    <2> QED BY Zenon, <2>1, <2>2, <2>3
  \* A DATA frame is sent (BridgeData).
  <1>DataSent.
    ASSUME NEW k, NEW w, NEW b, Line(k, w, b), b.phase = "up"
    PROVE  Line([k EXCEPT !.in = Append(@, data_frame(b.ch, 0))], w,
                [b EXCEPT !.ch = write_frame(b.ch), !.sent = @ + 1])
    <2> USE <1>DataSent
    <2> DEFINE f == data_frame(b.ch, 0)
               ch == write_frame(b.ch)
               d == [b EXCEPT !.ch = ch, !.sent = @ + 1]
    <2>0. b \in BridgeRec /\ b.ch \in Channel /\ b.ch.send_seq \in Nat /\ w \in WorkerRec
      BY Zenon DEF Line, Typed, BridgeRec, Channel
    <2>1. ch \in Channel /\ ch.key = b.ch.key /\ ch.epoch = b.ch.epoch
          /\ ch.send_seq = b.ch.send_seq + 1
      BY <2>0 DEF write_frame, Channel
    <2>2. /\ f \in DataFrame /\ f = Upcoming(b) /\ f.key = b.ch.key /\ f.type = "DATA"
          /\ f.aad = b.ch.send_seq /\ f.nonce = <<b.ch.send_seq, b.ch.epoch>>
      BY Zenon, <2>0 DEF data_frame, DataFrame, Channel, Upcoming
    <2> HIDE DEF f, ch
    <2>3. d \in BridgeRec /\ d.ch = ch /\ d.phase = b.phase
      BY Zenon, <2>0, <2>1, <1>WithChannel
    <2> HIDE DEF d
    <2> DEFINE u == Upcoming(d)
    <2>4. /\ u.key = b.ch.key /\ u.type = "DATA" /\ u.aad = b.ch.send_seq + 1
          /\ u.nonce = <<b.ch.send_seq + 1, b.ch.epoch>>
      BY Zenon, <2>1, <2>3 DEF Upcoming, data_frame
    <2> HIDE DEF u
    <2>5. Due(w, f)
      BY Zenon, <2>2 DEF Line, InOrder
    <2>6. w.ops \subseteq Op /\ w.recv_seq \in Nat /\ \A op \in w.ops : op.t = "DECRYPT" => op.f.aad \in Nat
      BY Zenon, <2>0 DEF WorkerRec, Op, DataFrame
    <2>7. Due(w, u)
      <3> SUFFICES ASSUME u.key = <<>>
                   PROVE  /\ w.key = <<>> /\ \A op \in w.ops : op.t # "KEY_ROTATE"
                          /\ u.nonce = <<u.aad, 0>>
                          /\ w.recv_initialized => w.recv_seq < u.aad
                          /\ \A op \in w.ops : op.t = "DECRYPT" => op.f.aad < u.aad
        BY Zenon, <2>4 DEF Due
      <3>1. /\ w.key = <<>> /\ \A op \in w.ops : op.t # "KEY_ROTATE"
            /\ f.nonce = <<f.aad, 0>>
            /\ w.recv_initialized => w.recv_seq < f.aad
            /\ \A op \in w.ops : op.t = "DECRYPT" => op.f.aad < f.aad
        BY Zenon, <2>2, <2>4, <2>5 DEF Due
      <3>2. b.ch.epoch = 0
        BY SMTT(60), <2>2, <3>1
      <3>3. \A a \in Nat : a < f.aad => a < u.aad
        BY SMTT(60), <2>0, <2>2, <2>4
      <3> QED BY Zenon, <2>4, <2>6, <3>1, <3>2, <3>3
    <2>8. Earlier(f, u)
      BY <2>0, <2>2, <2>4 DEF Earlier
    <2>9. \A g \in Frame : Earlier(g, f) => Earlier(g, u)
      <3>1. \A g \in Frame : g.type = "DATA" => g.aad \in Nat
        BY Zenon DEF Frame, DataFrame, KeyRotateFrame
      <3>2. \A a \in Nat : a < f.aad => a < u.aad
        BY <2>0, <2>2, <2>4
      <3> QED BY Zenon, <2>2, <2>4, <3>1, <3>2 DEF Earlier
    <2>10. f \in Frame
      BY Zenon, <2>2 DEF Frame
    <2>11. Line([k EXCEPT !.in = Append(@, f)], w, d)
      BY Zenon, <2>2, <2>3, <2>5, <2>7, <2>8, <2>9, <2>10, <1>FramePushed DEF u
    <2> QED BY Zenon, <2>11 DEF f, ch, d
  \* A KEY_ROTATE frame is sent and the bridge's key ratchets (BridgeRotate).
  <1>RotateSent.
    ASSUME NEW k, NEW w, NEW b, Line(k, w, b), b.phase = "up", NEW r \in RotationNonce
    PROVE  Line([k EXCEPT !.in = Append(@, key_rotate_frame(b.ch, r))], w,
                [b EXCEPT !.ch = rotate_key(send_key_rotate(b.ch), r), !.sent = @ + 1])
    <2> USE <1>RotateSent
    <2> DEFINE f == key_rotate_frame(b.ch, r)
               c1 == send_key_rotate(b.ch)
               ch == rotate_key(c1, r)
               d == [b EXCEPT !.ch = ch, !.sent = @ + 1]
    <2>0. b \in BridgeRec /\ b.ch \in Channel
      BY Zenon DEF Line, Typed, BridgeRec
    <2>1. c1 \in Channel /\ c1.key = b.ch.key
      BY <2>0 DEF send_key_rotate, Channel
    <2> HIDE DEF c1
    <2>2. Append(c1.key, r) \in Key /\ Append(c1.key, r) # <<>>
      BY SMTT(60), <2>1 DEF Channel, Key
    <2>3. (c1.epoch + 1) % EpochMod \in 0 .. EpochMod - 1
      BY <2>1, EpochAssumption DEF Channel
    <2>4. ch \in Channel /\ ch.key = Append(c1.key, r)
      BY Zenon, <2>1, <2>2, <2>3 DEF rotate_key, Channel
    <2>5. f \in KeyRotateFrame /\ f.key = b.ch.key /\ f.type = "KEY_ROTATE"
      BY Zenon, <2>0 DEF key_rotate_frame, KeyRotateFrame, Channel
    <2> HIDE DEF f, ch
    <2>6. d \in BridgeRec /\ d.ch = ch /\ d.phase = b.phase
      BY Zenon, <2>0, <2>4, <1>WithChannel
    <2> HIDE DEF d
    <2>7. Upcoming(d).key # <<>>
      BY Zenon, <2>2, <2>4, <2>6 DEF Upcoming, data_frame
    <2>8. Upcoming(b).key = f.key
      BY Zenon, <2>5 DEF Upcoming, data_frame
    <2>9. Due(w, f)
      <3>1. Due(w, Upcoming(b))
        BY Zenon DEF Line, InOrder
      <3> QED BY Zenon, <2>5, <2>8, <3>1 DEF Due
    <2>10. Due(w, Upcoming(d)) /\ Earlier(f, Upcoming(d))
      BY Zenon, <2>7 DEF Due, Earlier
    <2>11. \A g \in Frame : Earlier(g, Upcoming(b)) => Earlier(g, f) /\ Earlier(g, Upcoming(d))
      BY Zenon, <2>5, <2>7, <2>8 DEF Earlier
    <2>12. f \in Frame
      BY Zenon, <2>5 DEF Frame
    <2>13. Line([k EXCEPT !.in = Append(@, f)], w, d)
      BY Zenon, <2>6, <2>9, <2>10, <2>11, <2>12, <1>FramePushed
    <2> QED BY Zenon, <2>13 DEF f, c1, ch, d
  <1>1. UNCHANGED <<user, n, ses, lost, hk>> /\ wk' = wk
    BY Zenon DEF Bridge, BridgeHello, BridgeRead, BridgeData, BridgeRotate
  <1>2. c <= n
    <2>1. con[c].sock = "open" \/ br[c].in # <<>>
      BY Zenon DEF Bridge, BridgeHello, BridgeRead, BridgeData, BridgeRotate, Chatty
    <2> QED BY Zenon, <2>1, Made
  <1>3. \E k, b : /\ con' = [con EXCEPT ![c] = k] /\ br' = [br EXCEPT ![c] = b]
                  /\ Line(k, wk[c], b) /\ k.listeners = con[c].listeners
    <2>1. CASE BridgeHello(c)
      <3> DEFINE M == {[t |-> "HELLO", hello |-> "good"], [t |-> "HELLO", hello |-> "bad"], [t |-> "OTHER"]}
      <3>1. PICK m \in M : con' = [con EXCEPT ![c].in = <<m>>]
        BY Zenon, <2>1 DEF BridgeHello
      <3>2. m \in Greeting
        BY DEF Greeting, Hellos
      <3>3. con[c].sock = "open" /\ br[c].phase = "hello" /\ br' = [br EXCEPT ![c].phase = "response"]
        BY Zenon, <2>1 DEF BridgeHello
      <3>4. con' = [con EXCEPT ![c] = [con[c] EXCEPT !.in = <<m>>]]
            /\ br' = [br EXCEPT ![c] = [br[c] EXCEPT !.phase = "response"]]
        BY Zenon, <3>1, <3>3
      <3>5. Line([con[c] EXCEPT !.in = <<m>>], wk[c], [br[c] EXCEPT !.phase = "response"])
        BY Zenon, <3>2, <3>3, Tables, <1>HelloSent
      <3>6. [con[c] EXCEPT !.in = <<m>>].listeners = con[c].listeners
        BY Zenon, Tables DEF Con
      <3> QED BY Zenon, <3>4, <3>5, <3>6
    <2>2. CASE BridgeRead(c)
      <3> DEFINE f == Head(br[c].in)
                 x == [br[c] EXCEPT !.in = Tail(@)]
      <3>1. /\ br[c].in # <<>> /\ br[c].phase \in {"response", "up"} /\ con' = con
            /\ br' = [br EXCEPT ![c] =
                 IF f.type = "RESPONSE" THEN [x EXCEPT !.phase = "up"]
                 ELSE IF header_error(x.ch, f) = "none" /\ opens(x.ch, f)
                      THEN [x EXCEPT !.ch = accept(@, f)]
                      ELSE bridge("down")]
        BY Zenon, <2>2 DEF BridgeRead
      <3>2. con' = [con EXCEPT ![c] = con[c]]
        BY Zenon, <3>1, Tables
      <3>3. f \in [type : {"RESPONSE"}] \cup DataFrame
        /\ Tail(br[c].in) \in Seq([type : {"RESPONSE"}] \cup DataFrame)
        BY Zenon, <3>1, Tables, Taken DEF BridgeRec
      <3>4. /\ x \in BridgeRec /\ x.in = Tail(br[c].in) /\ x.ch = br[c].ch /\ x.phase = br[c].phase
            /\ x.ch \in Channel
        BY Zenon, <3>3, Tables DEF BridgeRec
      <3> HIDE DEF x, f
      <3>5. CASE f.type = "RESPONSE"
        <4> DEFINE d == [x EXCEPT !.phase = "up"]
        <4>1. d \in BridgeRec /\ d.in = x.in /\ d.ch = x.ch /\ d.phase = "up"
          BY Zenon, <3>4 DEF BridgeRec
        <4>2. br' = [br EXCEPT ![c] = d]
          BY Zenon, <3>1, <3>5
        <4> HIDE DEF d
        <4>3. Upcoming(d) = Upcoming(br[c])
          BY Zenon, <3>4, <4>1 DEF Upcoming
        <4>4. Line(con[c], wk[c], d)
          BY Zenon, <3>1, <3>4, <3>5, <4>1, <4>3, Tables, <1>BridgeReads DEF f
        <4> QED BY Zenon, <3>2, <4>2, <4>4
      <3>6. CASE f.type # "RESPONSE" /\ header_error(x.ch, f) = "none" /\ opens(x.ch, f)
        <4> DEFINE ch == accept(x.ch, f)
                   d == [x EXCEPT !.ch = ch]
        <4>1. f \in DataFrame
          BY Zenon, <3>3, <3>6
        <4>2. ch \in Channel /\ ch.key = x.ch.key /\ ch.send_seq = x.ch.send_seq /\ ch.epoch = x.ch.epoch
          BY Zenon, <3>4, <4>1 DEF accept, Channel, DataFrame
        <4>3. br' = [br EXCEPT ![c] = d]
          BY Zenon, <3>1, <3>6
        <4> HIDE DEF ch
        <4>4. d \in BridgeRec /\ d.in = x.in /\ d.ch = ch /\ d.phase = x.phase
          BY Zenon, <3>4, <4>2 DEF BridgeRec
        <4> HIDE DEF d
        <4>5. Upcoming(d) = Upcoming(br[c])
          BY Zenon, <3>4, <4>2, <4>4 DEF Upcoming, data_frame
        <4>6. d.phase = br[c].phase /\ d.in = Tail(br[c].in) /\ Line(con[c], wk[c], br[c])
          BY Zenon, <3>4, <4>4, Tables
        <4>7. Line(con[c], wk[c], d)
          <5>1. d \in BridgeRec /\ br[c].in # <<>> /\ br[c].phase \in {"response", "up"}
            BY Zenon, <3>1, <4>4
          <5>2. d.phase = br[c].phase \/ (d.phase = "up" /\ Head(br[c].in).type = "RESPONSE")
            BY Zenon, <4>6
          <5> QED BY Zenon, <4>5, <4>6, <5>1, <5>2, <1>BridgeReads
        <4> QED BY Zenon, <3>2, <4>3, <4>7
      <3>7. CASE f.type # "RESPONSE" /\ ~(header_error(x.ch, f) = "none" /\ opens(x.ch, f))
        <4>1. br' = [br EXCEPT ![c] = bridge("down")]
          BY Zenon, <3>1, <3>7
        <4>2. Line(con[c], wk[c], bridge("down"))
          BY Zenon, Tables, Down
        <4> QED BY Zenon, <3>2, <4>1, <4>2
      <3> QED BY Zenon, <3>5, <3>6, <3>7
    <2>3. ASSUME NEW f, NEW ch, Sent(c, f, ch)
          PROVE  /\ con' = [con EXCEPT ![c] = [con[c] EXCEPT !.in = Append(@, f)]]
                 /\ br' = [br EXCEPT ![c] = [br[c] EXCEPT !.ch = ch, !.sent = @ + 1]]
      BY Zenon, <2>3, Tables DEF Sent, BridgeRec
    <2>4. \A f : [con[c] EXCEPT !.in = Append(@, f)].listeners = con[c].listeners
      BY Zenon, Tables DEF Con
    <2>5. CASE BridgeData(c)
      <3> DEFINE f == data_frame(br[c].ch, 0)
                 ch == write_frame(br[c].ch)
      <3>1. br[c].phase = "up" /\ Sent(c, f, ch)
        BY Zenon, <2>5 DEF BridgeData, Chatty
      <3>2. Line([con[c] EXCEPT !.in = Append(@, f)], wk[c], [br[c] EXCEPT !.ch = ch, !.sent = @ + 1])
        BY Zenon, <3>1, Tables, <1>DataSent
      <3> HIDE DEF f, ch
      <3>3. /\ con' = [con EXCEPT ![c] = [con[c] EXCEPT !.in = Append(@, f)]]
            /\ br' = [br EXCEPT ![c] = [br[c] EXCEPT !.ch = ch, !.sent = @ + 1]]
        BY Zenon, <2>3, <3>1, <3>2
      <3> QED BY Zenon, <2>4, <3>1, <3>2, <3>3
    <2>6. CASE BridgeRotate(c)
      <3>1. PICK r \in RotationNonce :
              Sent(c, key_rotate_frame(br[c].ch, r), rotate_key(send_key_rotate(br[c].ch), r))
        BY Zenon, <2>6 DEF BridgeRotate
      <3> DEFINE f == key_rotate_frame(br[c].ch, r)
                 ch == rotate_key(send_key_rotate(br[c].ch), r)
      <3>2. br[c].phase = "up" /\ Sent(c, f, ch)
        BY Zenon, <2>6, <3>1 DEF BridgeRotate, Chatty
      <3>3. Line([con[c] EXCEPT !.in = Append(@, f)], wk[c], [br[c] EXCEPT !.ch = ch, !.sent = @ + 1])
        BY Zenon, <3>2, Tables, <1>RotateSent
      <3> HIDE DEF f, ch
      <3>4. /\ con' = [con EXCEPT ![c] = [con[c] EXCEPT !.in = Append(@, f)]]
            /\ br' = [br EXCEPT ![c] = [br[c] EXCEPT !.ch = ch, !.sent = @ + 1]]
        BY Zenon, <2>3, <3>2, <3>3
      <3> QED BY Zenon, <2>4, <3>2, <3>3, <3>4
    <2> QED BY Zenon, <2>1, <2>2, <2>5, <2>6 DEF Bridge
  <1>4. PICK k, b : /\ con' = [con EXCEPT ![c] = k] /\ br' = [br EXCEPT ![c] = b]
                    /\ Line(k, wk[c], b) /\ k.listeners = con[c].listeners
    BY Zenon, <1>3
  <1>5. k \in Con /\ b \in BridgeRec
    BY Zenon, <1>4 DEF Line, Typed
  <1>6. /\ con' \in [Connect -> Con] /\ con'[c] = k /\ br' \in [Connect -> BridgeRec] /\ br'[c] = b
        /\ \A d \in Connect : d # c => con'[d] = con[d] /\ br'[d] = br[d]
    BY Zenon, <1>4, <1>5, Tables
  <1> QED BY Zenon, <1>1, <1>2, <1>4, <1>6, Tables, QuietStep

=============================================================================
