-------------------------- MODULE BrowserProofs -----------------------------
(***************************************************************************)
(* Proofs about the browser SDK, for every number of connects, sends and   *)
(* frames: PQCSession and the React hook leave no worker behind, a session *)
(* that is ready has its channel, and the worker decodes the whole first   *)
(* epoch.                                                                  *)
(***************************************************************************)
EXTENDS BrowserLineProofs

(***************************************************************************)
(* Steps that sessions and the hook notice.                                *)
(***************************************************************************)

\* What comes before a place of a sequence is in the sequence.
LEMMA Below ==
  ASSUME NEW l \in Nat, NEW i \in 1 .. l, NEW j \in 1 .. (i - 1)
  PROVE  j \in 1 .. l
OBVIOUS

\* What the hook's handlers do to its record.
LEMMA HookFacts ==
  ASSUME NEW h \in HookRec
  PROVE  /\ \A g \in {HookClose(h), HookError(h), HookConnected(h), HookFailed(h)} :
              g \in HookRec /\ g.session = h.session /\ g.mounted = h.mounted
         /\ h.mounted => HookClose(h).status = "disconnected" /\ HookError(h).status = "error"
         /\ h.mounted /\ Strict => HookFailed(h).status = "error"
  <1>1. HookError(h) \in HookRec /\ HookError(h).session = h.session /\ HookError(h).mounted = h.mounted
        /\ (h.mounted => HookError(h).status = "error")
    BY Zenon DEF HookError, HookRec
  <1>2. ASSUME NEW g \in HookRec
        PROVE  HookConnected(g) \in HookRec /\ HookConnected(g).session = g.session
               /\ HookConnected(g).mounted = g.mounted
    BY Zenon DEF HookConnected, HookRec
  <1>3. HookClose(h) \in HookRec /\ HookClose(h).session = h.session /\ HookClose(h).mounted = h.mounted
        /\ (h.mounted => HookClose(h).status = "disconnected")
    <2>1. h.attempts + 1 \in Nat /\ h.leaked + 1 \in Int /\ h.leaked \in Int
      BY DEF HookRec
    <2>2. (IF h.timer THEN h.leaked + 1 ELSE h.leaked) \in Int
      BY Zenon, <2>1
    <2> QED BY Zenon, <2>1, <2>2 DEF HookClose, HookRec
  <1>4. HookFailed(h) \in HookRec /\ HookFailed(h).session = h.session /\ HookFailed(h).mounted = h.mounted
        /\ (h.mounted /\ Strict => HookFailed(h).status = "error")
    <2>1. CASE Strict
      BY Zenon, <1>1, <2>1 DEF HookFailed
    <2>2. CASE ~Strict
      BY Zenon, <1>1, <1>2, <2>2 DEF HookFailed
    <2> QED BY Zenon, <2>1, <2>2
  <1> QED BY Zenon, <1>1, <1>2, <1>3, <1>4

\* connect() fails on a socket that is closing: its promise is rejected.
LEMMA RejectedStep ==
  ASSUME BrowserInv, NEW c \in Connect, c <= n, UNCHANGED <<user, n, lost>>,
         NEW k \in Con, k.in = <<>>, k.sock # "open", k.listeners = con[c].listeners,
         Rejected(c, k),
         wk' \in [Connect -> WorkerRec], br' \in [Connect -> BridgeRec],
         \A d \in Connect : d # c => wk'[d] = wk[d] /\ br'[d] = br[d],
         Line(con[c], wk'[c], br'[c]),
         wk'[c].alive = wk[c].alive, wk[c].init => wk'[c].init
  PROVE  BrowserInv'
  <1>0. /\ user \in {"app", "hook"} /\ Obj(c) \in Connect /\ ses \in [Connect -> SesRec]
        /\ hk \in HookRec /\ con \in [Connect -> Con]
    BY Zenon, Connects DEF BrowserInv, SesType
  <1>1. DecodesFirstEpoch'
    BY ZenonT(60) DEF BrowserInv, DecodesFirstEpoch
  <1>2. CASE con[c].promise = "pending"
    <2> DEFINE x == [k EXCEPT !.promise = "rejected"]
    <2>1. x \in Con /\ x.in = <<>> /\ x.sock # "open" /\ x.listeners = con[c].listeners
      BY Zenon DEF Con
    <2>2. con' = [con EXCEPT ![c] = x]
      BY Zenon, <1>2 DEF Rejected
    <2> HIDE DEF x
    <2>3. /\ con' \in [Connect -> Con] /\ con'[c] = x
          /\ \A d \in Connect : d # c => con'[d] = con[d]
      BY Zenon, <1>0, <2>1, <2>2
    <2>4. Line(con'[c], wk'[c], br'[c])
      BY Zenon, <2>1, <2>3, Closed_
    <2>5. ses' = [ses EXCEPT ![Obj(c)].state = "error"]
      BY Zenon, <1>2 DEF Rejected
    <2>6. /\ ses' \in [Connect -> SesRec]
          /\ \A o \in Connect : ses'[o].ref = ses[o].ref /\ ses'[o].state \in {ses[o].state, "error"}
      <3> DEFINE e == [ses[Obj(c)] EXCEPT !.state = "error"]
      <3>1. e \in SesRec /\ e.state = "error" /\ e.ref = ses[Obj(c)].ref
        BY ZenonT(60), <1>0 DEF SesRec
      <3>2. ses' = [ses EXCEPT ![Obj(c)] = e]
        BY Zenon, <2>5
      <3> HIDE DEF e
      <3> QED BY Zenon, <1>0, <3>1, <3>2
    <2>7. hk' = IF user = "hook" THEN HookFailed(hk) ELSE hk
      BY Zenon, <1>2 DEF Rejected, Hook
    <2>8. hk' \in HookRec /\ hk'.session = hk.session /\ hk'.mounted = hk.mounted
      BY Zenon, <1>0, <2>7, HookFacts
    <2>9. ConnectedIsReady'
      <3>1. CASE user = "hook"
        BY Zenon, <1>0, <2>7, <2>8, <3>1, HookFacts DEF ConnectedIsReady
      <3>2. CASE user = "app"
        BY Zenon, <2>8, <3>2 DEF ConnectedIsReady, BrowserInv, Refs
      <3> QED BY Zenon, <1>0, <3>1, <3>2
    <2>10. LineMoves(c)
      BY Zenon, <2>1, <2>3, <2>4, Tables DEF LineMoves
    <2>11. SesErrs
      BY Zenon, <2>6 DEF SesErrs
    <2> QED BY Zenon, <1>1, <2>8, <2>9, <2>10, <2>11, LineErrs
  <1>3. CASE con[c].promise # "pending"
    <2>1. con' = [con EXCEPT ![c] = k] /\ ses' = ses /\ hk' = hk
      BY Zenon, <1>3 DEF Rejected
    <2>2. /\ con' \in [Connect -> Con] /\ con'[c] = k
          /\ \A d \in Connect : d # c => con'[d] = con[d]
      BY Zenon, <1>0, <2>1
    <2>3. Line(con'[c], wk'[c], br'[c])
      BY Zenon, <2>2, Closed_
    <2> QED BY ZenonT(60), <2>1, <2>2, <2>3, QuietStep
  <1> QED BY Zenon, <1>2, <1>3

\* A socket that is closed, one way or another.
LEMMA ShutFacts ==
  ASSUME NEW k \in Con
  PROVE  /\ \A x \in {Shut(k), Gone(k), ClosedCon(k)} : x \in Con /\ x.in = <<>> /\ x.sock # "open"
         /\ Shut(k).listeners = k.listeners /\ Gone(k).listeners = k.listeners
         /\ ClosedCon(k).listeners \in {k.listeners, "none"}
         /\ [Gone(k) EXCEPT !.listeners = "none"] \in Con
         /\ [Gone(k) EXCEPT !.listeners = "none"].in = <<>>
         /\ [Gone(k) EXCEPT !.listeners = "none"].sock = "closed"
         /\ [Gone(k) EXCEPT !.listeners = "none"].listeners = "none"
  <1> DEFINE z == Shut(k)
             g == Gone(k)
             y == ClosedCon(k)
             e == [g EXCEPT !.listeners = "none"]
             q == IF k.sock = "open" THEN "closing" ELSE k.sock
  <1>1. z \in Con /\ z.in = <<>> /\ z.sock # "open" /\ z.listeners = k.listeners
    <2>1. q \in {"none", "closing", "closed"} /\ z = [k EXCEPT !.sock = q, !.in = <<>>]
      BY Zenon DEF Shut, Con
    <2>2. <<>> \in Seq(Greeting \cup Frame)
      OBVIOUS
    <2> HIDE DEF q, z
    <2> QED BY Zenon, <2>1, <2>2 DEF Con
  <1>2. g = [z EXCEPT !.sock = "closed"] /\ y = [z EXCEPT !.listeners = Unlisten(z.listeners)]
    BY Zenon DEF Gone, ClosedCon
  <1> HIDE DEF z, g, y
  <1>3. g \in Con /\ g.in = <<>> /\ g.sock = "closed" /\ g.listeners = k.listeners
    BY Zenon, <1>1, <1>2 DEF Con
  <1>4. Unlisten(z.listeners) \in {k.listeners, "none"}
    BY Zenon, <1>1 DEF Unlisten
  <1>5. y \in Con /\ y.in = <<>> /\ y.sock # "open" /\ y.listeners = Unlisten(z.listeners)
    BY Zenon, <1>1, <1>2, <1>4 DEF Con
  <1>6. e \in Con /\ e.in = <<>> /\ e.sock = "closed" /\ e.listeners = "none"
    BY Zenon, <1>3 DEF Con
  <1> HIDE DEF e
  <1>7. /\ z \in Con /\ z.in = <<>> /\ z.sock # "open"
        /\ g \in Con /\ g.in = <<>> /\ g.sock # "open"
        /\ y \in Con /\ y.in = <<>> /\ y.sock # "open"
    BY Zenon, <1>1, <1>3, <1>5
  <1> QED BY Zenon, <1>1, <1>3, <1>4, <1>5, <1>6, <1>7 DEF z, g, y, e

\* A message of the socket: the ServerHello, or a frame (WsMessage).
LEMMA MessageStep ==
  ASSUME BrowserInv, NEW c \in Connect, WsMessage(c)
  PROVE  BrowserInv'
  \* The ServerHello goes to the worker (HandshakeMessage).
  <1>Greeted.
    ASSUME NEW k, NEW w, NEW b, Line(k, w, b), k.listeners = "handshake", k.in # <<>>,
           NEW m \in Job, m.t = "INIT"
    PROVE  Line([k EXCEPT !.in = Tail(@)], posted(w, m), b)
    <2> USE <1>Greeted
    <2> DEFINE y == [k EXCEPT !.in = Tail(k.in)]
               v == posted(w, m)
    <2>0. /\ k \in Con /\ k.in \in Seq(Greeting \cup Frame) /\ w \in WorkerRec
          /\ w.inbox \in Seq(Job) /\ b \in BridgeRec
      BY Zenon DEF Line, Typed, Con, WorkerRec
    <2>1. Len(k.in) = 1 /\ Tail(k.in) = <<>> /\ b.phase # "hello"
      <3>1. Len(k.in) <= 1 /\ b.phase # "hello"
        BY Zenon DEF Line, Shaken
      <3> QED BY Zenon, <2>0, <3>1, Single
    <2>2. y \in Con /\ y.in = <<>> /\ y.sock = k.sock /\ y.listeners = "handshake"
      BY <2>0, <2>1 DEF Con
    <2> HIDE DEF y
    <2>3. /\ v \in WorkerRec /\ v.ops = w.ops /\ v.outbox = w.outbox
          /\ v.alive = w.alive /\ v.init = w.init
          /\ \A f : Due(w, f) => Due(v, f)
          /\ v.inbox = w.inbox \/ v.inbox = Append(w.inbox, m)
      <3>1. CASE w.alive
        <4>1. Append(w.inbox, m) \in Seq(Job)
          BY <2>0
        <4>2. v = [w EXCEPT !.inbox = Append(w.inbox, m)]
          BY Zenon, <3>1 DEF posted
        <4> HIDE DEF v
        <4> QED BY ZenonT(60), <2>0, <4>1, <4>2, WithInbox
      <3>2. CASE ~w.alive
        BY Zenon, <2>0, <3>2 DEF posted
      <3> QED BY Zenon, <3>1, <3>2
    <2>4. \A i \in 1 .. Len(v.inbox) : v.inbox[i].t # "INIT" =>
            /\ i \in 1 .. Len(w.inbox) /\ v.inbox[i] = w.inbox[i]
            /\ \A j \in 1 .. (i - 1) : j \in 1 .. Len(w.inbox) /\ v.inbox[j] = w.inbox[j]
      BY SMTT(60), <2>0, <2>3
    <2> HIDE DEF v
    <2>5. Typed(y, v, b)
      BY Zenon, <2>0, <2>2, <2>3 DEF Typed
    <2>6. 1 .. Len(y.in) = {} /\ Len(y.in) = 0
      BY <2>2
    <2>7. Shaken(y, v, b)
      BY SMTT(60), <2>1, <2>2, <2>3, <2>4, <2>6 DEF Line, Shaken
    <2>8. InboxDue(y, v, b)
      BY ZenonT(60), <2>2, <2>3, <2>4 DEF Line, InOrder, InboxDue, HasFrame
    <2>9. InOrder(y, v, b)
      BY ZenonT(60), <2>2, <2>3, <2>8 DEF Line, InOrder, SocketDue
    <2> QED BY Zenon, <2>5, <2>7, <2>9 DEF Line, y, v
  \* A frame goes to the worker, behind the ones before it (onFrameMessage).
  <1>FrameHanded.
    ASSUME NEW k, NEW w, NEW b, Line(k, w, b), k.listeners = "session", k.in # <<>>,
           NEW m \in Job, HasFrame(m), m.f = Head(k.in)
    PROVE  Line([k EXCEPT !.in = Tail(@)], posted(w, m), b)
    <2> USE <1>FrameHanded
    <2> DEFINE x == Tail(k.in)
               y == [k EXCEPT !.in = x]
    <2>0. /\ k \in Con /\ k.in \in Seq(Greeting \cup Frame) /\ w \in WorkerRec
          /\ w.inbox \in Seq(Job) /\ b \in BridgeRec /\ Len(w.inbox) \in Nat
      BY DEF Line, Typed, Con, WorkerRec
    <2>1. /\ m.f = k.in[1] /\ 1 \in 1 .. Len(k.in)
          /\ x \in Seq(Greeting \cup Frame) /\ Len(x) \in Nat
          /\ \A i \in 1 .. Len(x) : x[i] = k.in[i + 1] /\ i + 1 \in 2 .. Len(k.in)
      BY <2>0, Taken
    <2> HIDE DEF x
    <2>2. y \in Con /\ y.in = x /\ y.sock = k.sock /\ y.listeners = "session"
      BY Zenon, <2>0, <2>1, WithIn
    <2> HIDE DEF y
    <2>3. /\ Due(w, m.f)
          /\ b.phase # "down" => Earlier(m.f, Upcoming(b))
          /\ \A i \in 1 .. Len(x) :
               /\ Earlier(m.f, x[i]) /\ Due(w, x[i])
               /\ \A j \in 1 .. (i - 1) : Earlier(x[j], x[i])
               /\ b.phase # "down" => Earlier(x[i], Upcoming(b))
      <3>1. /\ Due(w, m.f)
            /\ b.phase # "down" => Earlier(m.f, Upcoming(b))
        BY Zenon, <2>1 DEF Line, InOrder, SocketDue
      <3>2. ASSUME NEW i \in 1 .. Len(x)
            PROVE  /\ Earlier(m.f, x[i]) /\ Due(w, x[i])
                   /\ \A j \in 1 .. (i - 1) : Earlier(x[j], x[i])
                   /\ b.phase # "down" => Earlier(x[i], Upcoming(b))
        <4>1. i + 1 \in 1 .. Len(k.in) /\ x[i] = k.in[i + 1] /\ 1 \in 1 .. ((i + 1) - 1)
          BY <2>1
        <4>2. \A j \in 1 .. (i - 1) : x[j] = k.in[j + 1] /\ j + 1 \in 1 .. ((i + 1) - 1)
          BY SMTT(60), <2>1
        <4> QED BY Zenon, <2>1, <4>1, <4>2 DEF Line, InOrder, SocketDue
      <3> QED BY Zenon, <3>1, <3>2
    <2>4. CASE ~w.alive
      <3>1. posted(w, m) = w
        BY Zenon, <2>4 DEF posted
      <3>2. Typed(y, w, b)
        BY Zenon, <2>0, <2>2 DEF Typed
      <3>3. Shaken(y, w, b)
        <4>1. \A i \in 1 .. Len(x) : i + 1 \in 1 .. Len(k.in) /\ x[i] = k.in[i + 1]
          BY <2>1
        <4>2. \A i \in 1 .. Len(x) : x[i] \in Frame
          BY ZenonT(60), <4>1 DEF Line, Shaken
        <4> QED BY Zenon, <2>2, <4>2 DEF Line, Shaken
      <3>4. InboxDue(y, w, b)
        BY SMTT(60), <2>1, <2>2 DEF Line, InOrder, InboxDue
      <3>5. SocketDue(y, w, b)
        BY Zenon, <2>2, <2>3 DEF SocketDue
      <3>6. InOrder(y, w, b)
        BY Zenon, <3>4, <3>5 DEF Line, InOrder
      <3> QED BY Zenon, <3>1, <3>2, <3>3, <3>6 DEF Line, y, x
    <2>5. CASE w.alive
      <3> DEFINE q == Append(w.inbox, m)
                 v == [w EXCEPT !.inbox = q]
      <3>1. /\ q \in Seq(Job) /\ Len(q) = Len(w.inbox) + 1 /\ q[Len(w.inbox) + 1] = m
            /\ \A i \in 1 .. Len(w.inbox) : q[i] = w.inbox[i]
        BY <2>0
      <3> HIDE DEF q
      <3>2. /\ v \in WorkerRec /\ v.inbox = q /\ v.ops = w.ops /\ v.outbox = w.outbox
            /\ v.alive = w.alive /\ v.init = w.init
            /\ \A f : Due(w, f) => Due(v, f)
        BY Zenon, <2>0, <3>1, WithInbox
      <3>3. posted(w, m) = v
        BY Zenon, <2>5 DEF posted, q
      <3> HIDE DEF v
      <3>4. \A i \in 1 .. Len(q) : i = Len(w.inbox) + 1 \/ i \in 1 .. Len(w.inbox)
        BY <2>0, <3>1
      <3>5. Typed(y, v, b)
        BY Zenon, <2>0, <2>2, <3>2 DEF Typed
      <3>6. w.init
        BY Zenon, <2>5 DEF Line, Shaken
      <3>7. b.phase # "hello"
        BY Zenon DEF Line, Shaken
      <3>8. Shaken(y, v, b)
        BY SMTT(60), <2>1, <2>2, <3>2, <3>6, <3>7 DEF Line, Shaken
      <3>9. InboxDue(y, v, b)
        <4>1. ASSUME NEW i \in 1 .. Len(w.inbox), HasFrame(w.inbox[i])
              PROVE  /\ Due(v, w.inbox[i].f)
                     /\ \A j \in 1 .. (i - 1) : HasFrame(q[j]) => Earlier(q[j].f, w.inbox[i].f)
                     /\ \A j \in 1 .. Len(x) : Earlier(w.inbox[i].f, x[j])
                     /\ b.phase # "down" => Earlier(w.inbox[i].f, Upcoming(b))
                     /\ Earlier(w.inbox[i].f, m.f)
          <5>1. \A j \in 1 .. (i - 1) : q[j] = w.inbox[j]
            <6>1. PICK l \in Nat : l = Len(w.inbox)
              BY Zenon, <2>0
            <6> QED BY Zenon, <3>1, <6>1, Below
          <5>2. /\ Due(w, w.inbox[i].f)
                /\ \A j \in 1 .. (i - 1) : HasFrame(w.inbox[j]) => Earlier(w.inbox[j].f, w.inbox[i].f)
                /\ \A j \in 1 .. Len(k.in) : Earlier(w.inbox[i].f, k.in[j])
                /\ b.phase # "down" => Earlier(w.inbox[i].f, Upcoming(b))
            BY Zenon, <4>1 DEF Line, InOrder, InboxDue
          <5>3. \A j \in 1 .. Len(x) : x[j] = k.in[j + 1] /\ j + 1 \in 1 .. Len(k.in)
            BY SMTT(60), <2>1
          <5> QED BY Zenon, <2>1, <3>2, <5>1, <5>2, <5>3
        <4>2. \A j \in 1 .. ((Len(w.inbox) + 1) - 1) : j \in 1 .. Len(w.inbox) /\ q[j] = w.inbox[j]
          <5>1. PICK l \in Nat : l = Len(w.inbox)
            BY Zenon, <2>0
          <5> QED BY <3>1, <5>1
        <4>3. Due(v, m.f)
          BY Zenon, <2>3, <3>2
        <4> QED BY ZenonT(60), <2>2, <2>3, <3>1, <3>2, <3>4, <4>1, <4>2, <4>3 DEF InboxDue
      <3>10. SocketDue(y, v, b)
        BY Zenon, <2>2, <2>3, <3>2 DEF SocketDue
      <3>11. InOrder(y, v, b)
        BY Zenon, <3>2, <3>9, <3>10 DEF Line, InOrder
      <3> QED BY ZenonT(60), <3>3, <3>5, <3>8, <3>11 DEF Line, y, x
    <2> QED BY Zenon, <2>4, <2>5
  \* Posting keeps a worker's type and life.
  <1>PostedFacts.
    ASSUME NEW w \in WorkerRec, NEW m \in Job
    PROVE  posted(w, m) \in WorkerRec /\ posted(w, m).alive = w.alive /\ posted(w, m).init = w.init
    <2> USE <1>PostedFacts
    <2>1. Append(w.inbox, m) \in Seq(Job)
      BY DEF WorkerRec
    <2>2. posted(w, m) = w \/ posted(w, m) = [w EXCEPT !.inbox = Append(w.inbox, m)]
      BY Zenon DEF posted
    <2>3. CASE posted(w, m) = w
      BY Zenon, <2>3
    <2>4. CASE posted(w, m) = [w EXCEPT !.inbox = Append(w.inbox, m)]
      BY Zenon, <2>1, <2>4 DEF WorkerRec
    <2> QED BY Zenon, <2>2, <2>3, <2>4
  <1> DEFINE m == Head(con[c].in)
             y == [con[c] EXCEPT !.in = Tail(@)]
  <1>0. /\ UNCHANGED <<user, n, lost>> /\ br' = br /\ con[c].sock = "open" /\ con[c].in # <<>>
        /\ user \in {"app", "hook"} /\ ses \in [Connect -> SesRec] /\ hk \in HookRec
        /\ Obj(c) \in Connect
    BY Zenon, Connects DEF WsMessage, BrowserInv, SesType
  <1>1. c <= n
    BY Zenon, <1>0, Made
  <1>2. /\ con[c].in \in Seq(Greeting \cup Frame) /\ m = con[c].in[1] /\ 1 \in 1 .. Len(con[c].in)
        /\ Tail(con[c].in) \in Seq(Greeting \cup Frame)
    BY ZenonT(60), <1>0, Tables, Taken DEF Con
  <1>3. y \in Con /\ y.listeners = con[c].listeners
    BY Zenon, <1>2, Tables, WithIn
  <1> HIDE DEF m
  <1>4. CASE con[c].listeners = "handshake" /\ m.t = "HELLO"
    <2> DEFINE j == [t |-> "INIT", hello |-> m.hello]
    <2>1. m \in Greeting
      BY Zenon, <1>2, <1>4, Tables DEF Line, Shaken
    <2>2. j \in Job /\ j.t = "INIT"
      BY Zenon, <1>4, <2>1 DEF Job, Greeting
    <2>3. ToWorker(c, j) /\ con' = [con EXCEPT ![c].in = Tail(@)] /\ UNCHANGED <<ses, hk>>
      BY Zenon, <1>0, <1>4 DEF WsMessage, HandshakeMessage, m
    <2>4. con' = [con EXCEPT ![c] = y] /\ wk' = [wk EXCEPT ![c] = posted(wk[c], j)]
      BY Zenon, <2>3 DEF ToWorker
    <2>5. Line(y, posted(wk[c], j), br[c])
      BY Zenon, <1>0, <1>4, <2>2, Tables, <1>Greeted
    <2> HIDE DEF j, y
    <2>6. /\ posted(wk[c], j) \in WorkerRec /\ posted(wk[c], j).alive = wk[c].alive
          /\ posted(wk[c], j).init = wk[c].init
      BY Zenon, <2>2, Tables, <1>PostedFacts
    <2>7. /\ con' \in [Connect -> Con] /\ wk' \in [Connect -> WorkerRec]
          /\ con'[c] = y /\ wk'[c] = posted(wk[c], j)
          /\ \A d \in Connect : d # c => con'[d] = con[d] /\ wk'[d] = wk[d]
      BY Zenon, <1>3, <2>4, <2>6, Tables
    <2> QED BY ZenonT(60), <1>0, <1>1, <1>3, <2>3, <2>5, <2>6, <2>7, Tables, QuietStep
  <1>5. CASE con[c].listeners = "handshake" /\ m.t # "HELLO"
    <2>1. Rejected(c, Shut(con[c])) /\ wk' = wk
      BY Zenon, <1>0, <1>5 DEF WsMessage, HandshakeMessage, m
    <2>2. /\ Shut(con[c]) \in Con /\ Shut(con[c]).in = <<>> /\ Shut(con[c]).sock # "open"
          /\ Shut(con[c]).listeners = con[c].listeners
      BY Zenon, Tables, ShutFacts
    <2> QED BY Zenon, <1>0, <1>1, <2>1, <2>2, Tables, RejectedStep
  <1>6. CASE con[c].listeners # "handshake"
    <2>1. con[c].listeners = "session"
      BY Zenon, <1>0, <1>6, Tables DEF Line, Shaken, Con
    <2>2. m \in Frame
      BY Zenon, <1>2, <1>6, Tables, OnTheWay
    <2>3. onFrameMessage(c, m)
      BY Zenon, <1>6 DEF WsMessage, m
    <2> DEFINE j == IF m.type = "KEY_ROTATE" THEN [t |-> "KEY_ROTATE", f |-> m]
                                            ELSE [t |-> "DECRYPT", f |-> m]
    <2>4. j \in Job /\ HasFrame(j) /\ j.f = m
      <3>1. CASE m.type = "KEY_ROTATE"
        BY Zenon, <2>2, <3>1 DEF Job, HasFrame, Frame, DataFrame
      <3>2. CASE m.type # "KEY_ROTATE"
        BY Zenon, <2>2, <3>2 DEF Job, HasFrame, Frame, KeyRotateFrame
      <3> QED BY Zenon, <3>1, <3>2
    <2>5. con' = [con EXCEPT ![c] = y] /\ wk' = [wk EXCEPT ![c] = posted(wk[c], j)] /\ hk' = hk
      BY Zenon, <2>3 DEF onFrameMessage, ToWorker
    <2>6. ses' = ses \/ ses' = [ses EXCEPT ![Obj(c)].rotating = TRUE]
      BY Zenon, <2>3 DEF onFrameMessage
    <2>7. /\ ses' \in [Connect -> SesRec]
          /\ \A o \in Connect : ses'[o].ref = ses[o].ref /\ ses'[o].state = ses[o].state
      <3>1. CASE ses' = ses
        BY Zenon, <1>0, <3>1
      <3>2. CASE ses' = [ses EXCEPT ![Obj(c)].rotating = TRUE]
        BY ZenonT(60), <1>0, <3>2 DEF SesRec
      <3> QED BY Zenon, <2>6, <3>1, <3>2
    <2>8. Line(y, posted(wk[c], j), br[c])
      BY Zenon, <1>0, <2>1, <2>4, Tables, <1>FrameHanded DEF m
    <2> HIDE DEF j, y
    <2>9. /\ posted(wk[c], j) \in WorkerRec /\ posted(wk[c], j).alive = wk[c].alive
          /\ posted(wk[c], j).init = wk[c].init
      BY Zenon, <2>4, Tables, <1>PostedFacts
    <2>10. /\ con' \in [Connect -> Con] /\ wk' \in [Connect -> WorkerRec]
           /\ con'[c] = y /\ wk'[c] = posted(wk[c], j)
           /\ \A d \in Connect : d # c => con'[d] = con[d] /\ wk'[d] = wk[d]
      BY Zenon, <1>3, <2>5, <2>9, Tables
    <2>11. ConnectedIsReady' /\ DecodesFirstEpoch'
      <3>1. hk.session # 0 => hk.session \in Connect
        BY Zenon DEF BrowserInv, Refs
      <3> QED BY Zenon, <1>0, <2>5, <2>7, <3>1 DEF BrowserInv, ConnectedIsReady, DecodesFirstEpoch
    <2>12. \A o \in Connect : ses'[o].ref = ses[o].ref /\ ses'[o].state \in {ses[o].state, "error"}
      BY Zenon, <2>7
    <2>13. /\ con[c].listeners = "session" => con'[c].listeners = "session"
           /\ hk' \in HookRec /\ hk'.session = hk.session /\ hk'.mounted = hk.mounted
           /\ wk'[c].alive = wk[c].alive
           /\ wk[c].init => wk'[c].init
           /\ \A d \in Connect : d # c => con'[d] = con[d] /\ wk'[d] = wk[d] /\ br'[d] = br[d]
           /\ br' \in [Connect -> BridgeRec]
           /\ Line(con'[c], wk'[c], br'[c])
      BY Zenon, <1>0, <1>3, <2>5, <2>8, <2>9, <2>10, Tables
    <2>14. LineMoves(c)
      BY Zenon, <2>10, <2>13 DEF LineMoves
    <2>15. SesErrs
      BY Zenon, <2>7, <2>12 DEF SesErrs
    <2> QED BY Zenon, <1>0, <1>1, <2>11, <2>13, <2>14, <2>15, LineErrs
  <1> QED BY Zenon, <1>4, <1>5, <1>6

\* close(), or the close of the socket, ends session o: its worker is terminated.
LEMMA CloseStep ==
  ASSUME BrowserInv, NEW o \in Connect, ses[o].state # "closed", UNCHANGED <<user, n>>,
         NEW y \in SesRec, y.state = "closed", y.ref = 0, ses' = [ses EXCEPT ![o] = y],
         wk' = CloseWk(wk, o),
         con' \in [Connect -> Con], br' \in [Connect -> BridgeRec],
         \A d \in Connect :
           /\ Line(con'[d], wk[d], br'[d])
           /\ Obj(d) # o => con'[d].listeners = con[d].listeners
           /\ d > n => con'[d] = con[d] /\ br'[d] = br[d],
         hk' \in HookRec, hk'.mounted => hk.mounted,
         hk'.session = hk.session \/ (hk'.session = 0 /\ hk.session = o),
         ConnectedIsReady', DecodesFirstEpoch'
  PROVE  BrowserInv'
  <1> USE DEF BrowserInv
  <1>0. user \in {"app", "hook"} /\ n \in Nat /\ ses \in [Connect -> SesRec]
    BY Zenon DEF SesType
  <1>1. /\ Connect' = Connect /\ (\A d : Obj(d)' = Obj(d)) /\ Connect \subseteq Nat /\ 0 \notin Connect
        /\ \A d \in Connect : Obj(d) \in Connect
    BY Zenon, <1>0, SameConnects, Connects
  <1>2. /\ wk' \in [Connect -> WorkerRec]
        /\ \A d \in Connect : wk'[d] = IF d = ses[o].ref THEN terminated ELSE wk[d]
    BY Zenon, NewWorkers DEF CloseWk, SesType
  <1>3. /\ ses' \in [Connect -> SesRec] /\ ses'[o] = y
        /\ \A p \in Connect : p # o => ses'[p] = ses[p]
    BY Zenon, <1>0
  <1>4. SesType'
    BY ZenonT(60), <1>1, <1>2, <1>3 DEF SesType
  <1>5. Fresh'
    <2>1. \A d \in Connect : d > n => d # ses[o].ref
      <3>1. ses[o].ref # 0 => ses[o].ref <= n
        BY Zenon DEF Refs
      <3>2. ses[o].ref \in Nat
        BY Zenon, <1>0 DEF SesRec
      <3> QED BY <1>0, <1>1, <3>1, <3>2
    <2> QED BY SMTT(60), <1>1, <1>2, <2>1 DEF Fresh
  <1>6. Refs'
    <2>1. /\ hk'.session # 0 => hk'.session \in Connect /\ hk'.session <= n
          /\ user = "app" => ~hk'.mounted /\ hk'.session = 0
      BY Zenon DEF Refs
    <2>2. \A p \in Connect :
            /\ ses'[p].ref # 0 => ses'[p].ref \in Connect /\ ses'[p].ref <= n /\ Obj(ses'[p].ref) = p
            /\ ses'[p].state \in {"idle", "closed"} => ses'[p].ref = 0
      BY ZenonT(60), <1>3 DEF Refs
    <2> QED BY <1>1, <2>1, <2>2 DEF Refs
  <1>7. AllLines'
    <2> SUFFICES ASSUME NEW d \in Connect PROVE Line(con'[d], wk'[d], br'[d])
      BY Zenon, <1>1 DEF AllLines
    <2>1. Line(con'[d], wk[d], br'[d])
      BY Zenon
    <2> QED BY <1>2, <2>1, Killed
  <1>8. NoOrphanWorker'
    <2> SUFFICES ASSUME NEW d \in Connect, wk'[d].alive
                 PROVE  ses'[Obj(d)].ref = d /\ (user = "hook" => hk'.session = d)
      BY ZenonT(60), <1>1 DEF NoOrphanWorker
    <2>1. d # ses[o].ref /\ wk[d].alive
      BY <1>2, NewWorkers
    <2>2. ses[Obj(d)].ref = d /\ (user = "hook" => hk.session = d)
      BY Zenon, <2>1 DEF NoOrphanWorker
    <2>3. Obj(d) # o
      BY Zenon, <2>1, <2>2
    <2>4. user = "hook" => Obj(d) = d
      BY ZenonT(60), <1>0, Connects
    <2> QED BY ZenonT(60), <1>1, <1>3, <2>2, <2>3, <2>4
  <1>9. ReadyMeansChannel'
    <2> SUFFICES ASSUME NEW p \in Connect, ses'[p].state = "ready"
                 PROVE  LET d == ses'[p].ref
                        IN  d # 0 /\ wk'[d].alive /\ wk'[d].init /\ con'[d].listeners = "session"
      BY Zenon, <1>1 DEF ReadyMeansChannel
    <2>1. p # o /\ ses'[p] = ses[p]
      BY ZenonT(60), <1>3
    <2> DEFINE d == ses[p].ref
    <2>2. d # 0 /\ wk[d].alive /\ wk[d].init /\ con[d].listeners = "session"
      BY <2>1 DEF ReadyMeansChannel
    <2>3. d \in Connect /\ Obj(d) = p
      BY ZenonT(60), <2>2 DEF Refs
    <2>4. d # ses[o].ref
      BY SMTT(60), <2>1, <2>2, <2>3 DEF Refs
    <2>5. wk'[d] = wk[d] /\ con'[d].listeners = con[d].listeners
      BY <1>2, <2>1, <2>3, <2>4
    <2> QED BY <2>1, <2>2, <2>5
  <1> QED BY Zenon, <1>4, <1>5, <1>6, <1>7, <1>8, <1>9

\* What close() and handleWsClose make of a session.
LEMMA ClosedFacts ==
  ASSUME NEW x \in SesRec
  PROVE  /\ ClosedSes(x) \in SesRec /\ ClosedSes(x).state = "closed" /\ ClosedSes(x).ref = 0
         /\ [ClosedSes(x) EXCEPT !.intentional = TRUE] \in SesRec
         /\ [ClosedSes(x) EXCEPT !.intentional = TRUE].state = "closed"
         /\ [ClosedSes(x) EXCEPT !.intentional = TRUE].ref = 0
  <1> DEFINE y == ClosedSes(x)
  <1>1. y \in SesRec /\ y.state = "closed" /\ y.ref = 0
    BY Zenon, Nothing DEF ClosedSes, SesRec
  <1> HIDE DEF y
  <1>2. /\ [y EXCEPT !.intentional = TRUE] \in SesRec
        /\ [y EXCEPT !.intentional = TRUE].state = "closed"
        /\ [y EXCEPT !.intentional = TRUE].ref = 0
    BY Zenon, <1>1 DEF SesRec
  <1> QED BY Zenon, <1>1, <1>2 DEF y

\* The handshake timer, and an error of the socket.
LEMMA ErrorStep ==
  ASSUME BrowserInv, NEW c \in Connect, HandshakeTimeout(c) \/ WsError(c)
  PROVE  BrowserInv'
  <1>0. /\ UNCHANGED <<user, n, lost>> /\ wk' = wk /\ br' = br
        /\ user \in {"app", "hook"} /\ ses \in [Connect -> SesRec] /\ hk \in HookRec
    BY Zenon DEF HandshakeTimeout, WsError, BrowserInv, SesType
  <1>1. c <= n
    BY Zenon, Made DEF HandshakeTimeout, WsError
  <1>2. /\ Shut(con[c]) \in Con /\ Shut(con[c]).in = <<>> /\ Shut(con[c]).sock # "open"
        /\ Shut(con[c]).listeners = con[c].listeners
    BY Zenon, Tables, ShutFacts
  <1>3. CASE Rejected(c, Shut(con[c]))
    BY ZenonT(60), <1>0, <1>1, <1>2, <1>3, Tables, RejectedStep
  <1>4. CASE handleWsError(c)
    <2>1. con' = [con EXCEPT ![c] = Shut(con[c])] /\ ses' = ses
          /\ (hk' = hk \/ hk' = IF user = "hook" THEN HookError(hk) ELSE hk)
      BY Zenon, <1>4 DEF handleWsError, Hook
    <2>2. /\ con' \in [Connect -> Con] /\ con'[c] = Shut(con[c])
          /\ \A d \in Connect : d # c => con'[d] = con[d]
      BY Zenon, <1>2, <2>1, Tables
    <2>3. Line(con'[c], wk'[c], br'[c])
      BY Zenon, <1>0, <1>2, <2>2, Tables, Closed_
    <2>4. hk' \in HookRec /\ hk'.session = hk.session /\ hk'.mounted = hk.mounted
          /\ (hk'.mounted => hk'.status \in {hk.status, "error"})
      BY <1>0, <2>1, HookFacts
    <2>5. ConnectedIsReady' /\ DecodesFirstEpoch'
      BY Zenon, <1>0, <2>1, <2>4 DEF BrowserInv, ConnectedIsReady, DecodesFirstEpoch
    <2>6. \A o \in Connect : ses'[o].ref = ses[o].ref /\ ses'[o].state \in {ses[o].state, "error"}
      BY Zenon, <2>1
    <2>7. ses' \in [Connect -> SesRec] /\ con'[c].listeners = con[c].listeners
      BY Zenon, <1>0, <1>2, <2>1, <2>2
    <2>8. LineMoves(c)
      BY Zenon, <1>0, <2>2, <2>3, <2>7, Tables DEF LineMoves
    <2>9. SesErrs
      BY Zenon, <2>6, <2>7 DEF SesErrs
    <2> QED BY Zenon, <1>0, <1>1, <2>4, <2>5, <2>8, <2>9, LineErrs
  <1> QED BY Zenon, <1>3, <1>4 DEF HandshakeTimeout, WsError

\* The socket closes: the handshake fails, the session closes, or nothing is left
\* to tell (WsClose).
LEMMA WsCloseStep ==
  ASSUME BrowserInv, NEW c \in Connect, WsClose(c)
  PROVE  BrowserInv'
  <1> DEFINE o == Obj(c)
             e == [Gone(con[c]) EXCEPT !.listeners = "none"]
  <1>0. /\ UNCHANGED <<user, n, lost>> /\ br' = [br EXCEPT ![c] = bridge("down")]
        /\ user \in {"app", "hook"} /\ ses \in [Connect -> SesRec] /\ hk \in HookRec
        /\ con[c].sock \in {"open", "closing"} /\ o \in Connect /\ n \in Nat /\ c \in Nat
    BY Zenon, Connects DEF WsClose, BrowserInv, SesType
  <1>1. c <= n
    BY Zenon, <1>0, Made
  <1>2. Line(con[c], wk[c], bridge("down")) /\ bridge("down") \in BridgeRec
    BY Zenon, Tables, Down DEF Line, Typed
  <1>3. /\ br' \in [Connect -> BridgeRec] /\ br'[c] = bridge("down")
        /\ \A d \in Connect : d # c => br'[d] = br[d]
    BY Zenon, <1>0, <1>2, Tables
  <1>4. /\ Gone(con[c]) \in Con /\ Gone(con[c]).in = <<>> /\ Gone(con[c]).sock # "open"
        /\ Gone(con[c]).listeners = con[c].listeners
        /\ e \in Con /\ e.in = <<>> /\ e.sock # "open" /\ e.listeners = "none"
    BY Zenon, Tables, ShutFacts
  <1> HIDE DEF e, o
  <1>5. CASE con[c].listeners = "handshake"
    <2>1. Rejected(c, Gone(con[c])) /\ wk' = wk
      BY ZenonT(60), <1>5 DEF WsClose
    <2> QED BY Zenon, <1>0, <1>1, <1>2, <1>3, <1>4, <2>1, Tables, RejectedStep
  <1>6. CASE con' = [con EXCEPT ![c] = Gone(con[c])] /\ UNCHANGED <<ses, wk, hk>>
    <2>1. /\ con' \in [Connect -> Con] /\ con'[c] = Gone(con[c])
          /\ \A d \in Connect : d # c => con'[d] = con[d]
      BY Zenon, <1>4, <1>6, Tables
    <2>2. Line(con'[c], wk'[c], br'[c])
      BY SMTT(60), <1>2, <1>3, <1>4, <1>6, <2>1, Closed_
    <2> QED BY SMTT(60), <1>0, <1>1, <1>3, <1>4, <1>6, <2>1, <2>2, Tables, QuietStep
  <1>7. CASE /\ ses[o].state # "closed" /\ ses' = [ses EXCEPT ![o] = ClosedSes(ses[o])]
             /\ con' = [con EXCEPT ![c] = e] /\ wk' = CloseWk(wk, o) /\ Hook(HookClose)
    <2>1. /\ con' \in [Connect -> Con] /\ con'[c] = e
          /\ \A d \in Connect : d # c => con'[d] = con[d]
      BY Zenon, <1>4, <1>7, Tables
    <2>2. Line(con'[c], wk[c], br'[c])
      BY <1>2, <1>3, <1>4, <2>1, Closed_
    <2>3. \A d \in Connect : /\ Line(con'[d], wk[d], br'[d])
                             /\ Obj(d) # o => con'[d].listeners = con[d].listeners
                             /\ d > n => con'[d] = con[d] /\ br'[d] = br[d]
      <3> SUFFICES ASSUME NEW d \in Connect
                   PROVE  /\ Line(con'[d], wk[d], br'[d])
                          /\ Obj(d) # o => con'[d].listeners = con[d].listeners
                          /\ d > n => con'[d] = con[d] /\ br'[d] = br[d]
        BY Zenon
      <3>1. CASE d = c
        BY <1>0, <1>1, <2>2, <3>1 DEF o
      <3>2. CASE d # c
        BY Zenon, <1>3, <2>1, <3>2, Tables
      <3> QED BY Zenon, <3>1, <3>2
    <2>4. hk' = IF user = "hook" THEN HookClose(hk) ELSE hk
      BY Zenon, <1>7 DEF Hook
    <2>5. hk' \in HookRec /\ hk'.session = hk.session /\ hk'.mounted = hk.mounted
      BY Zenon, <1>0, <2>4, HookFacts
    <2>6. ConnectedIsReady'
      <3>1. CASE user = "hook"
        BY ZenonT(60), <1>0, <2>4, <2>5, <3>1, HookFacts DEF ConnectedIsReady
      <3>2. CASE user = "app"
        BY Zenon, <2>5, <3>2 DEF ConnectedIsReady, BrowserInv, Refs
      <3> QED BY Zenon, <1>0, <3>1, <3>2
    <2>7. DecodesFirstEpoch'
      BY Zenon, <1>0 DEF BrowserInv, DecodesFirstEpoch
    <2>8. /\ ClosedSes(ses[o]) \in SesRec /\ ClosedSes(ses[o]).state = "closed"
          /\ ClosedSes(ses[o]).ref = 0
      BY Zenon, <1>0, ClosedFacts
    <2> QED BY ZenonT(60), <1>0, <1>3, <1>7, <2>1, <2>3, <2>5, <2>6, <2>7, <2>8, CloseStep
  <1>8. con[c].listeners = "session" => handleWsClose(c)
    BY Zenon DEF WsClose
  <1>9. con[c].listeners \notin {"handshake", "session"} =>
          con' = [con EXCEPT ![c] = Gone(con[c])] /\ UNCHANGED <<ses, wk, hk>>
    BY Zenon DEF WsClose
  <1>10. handleWsClose(c) =>
           \/ con' = [con EXCEPT ![c] = Gone(con[c])] /\ UNCHANGED <<ses, wk, hk>>
           \/ /\ ses[o].state # "closed" /\ ses' = [ses EXCEPT ![o] = ClosedSes(ses[o])]
              /\ con' = [con EXCEPT ![c] = e] /\ wk' = CloseWk(wk, o) /\ Hook(HookClose)
    BY Zenon DEF handleWsClose, o, e
  <1> QED BY ZenonT(60), <1>5, <1>6, <1>7, <1>8, <1>9, <1>10

\* The hook shows an error, or nothing new, while the sessions keep their states.
LEMMA Shown ==
  ASSUME BrowserInv, user' = user, hk' = hk \/ Hook(HookError),
         \A o \in Connect : ses'[o].state = ses[o].state
  PROVE  /\ hk' \in HookRec /\ hk'.session = hk.session /\ hk'.mounted = hk.mounted
         /\ ConnectedIsReady'
  <1>1. hk \in HookRec /\ (hk.session # 0 => hk.session \in Connect)
    BY Zenon DEF BrowserInv, SesType, Refs
  <1>2. hk' = hk \/ hk' = HookError(hk)
    BY Zenon DEF Hook
  <1>3. /\ hk' \in HookRec /\ hk'.session = hk.session /\ hk'.mounted = hk.mounted
        /\ hk.mounted => hk'.status \in {hk.status, "error"}
    BY SMTT(60), <1>1, <1>2, HookFacts
  <1> QED BY Zenon, <1>1, <1>3 DEF BrowserInv, ConnectedIsReady

\* An answer that changes no state of a session: the worker's record, the socket's
\* and the bridge's end of connect c go on as one line.
LEMMA AnswerStep ==
  ASSUME BrowserInv, NEW c \in Connect, c <= n, UNCHANGED <<user, n, con>>,
         NEW v \in WorkerRec, wk' = [wk EXCEPT ![c] = v], v.alive = wk[c].alive, v.init = wk[c].init,
         NEW b \in BridgeRec, br' = [br EXCEPT ![c] = b], Line(con[c], v, b),
         hk' = hk \/ Hook(HookError), ses' \in [Connect -> SesRec],
         \A o \in Connect : ses'[o].state = ses[o].state /\ ses'[o].ref = ses[o].ref,
         DecodesFirstEpoch'
  PROVE  BrowserInv'
  <1>1. /\ wk' \in [Connect -> WorkerRec] /\ wk'[c] = v /\ br' \in [Connect -> BridgeRec] /\ br'[c] = b
        /\ \A d \in Connect : d # c => wk'[d] = wk[d] /\ br'[d] = br[d]
    BY Zenon, Tables
  <1>2. /\ hk' \in HookRec /\ hk'.session = hk.session /\ hk'.mounted = hk.mounted
        /\ ConnectedIsReady'
    BY Zenon, Shown
  <1>3. \A o \in Connect : ses'[o].ref = ses[o].ref /\ ses'[o].state \in {ses[o].state, "error"}
    BY Zenon
  <1>4. /\ \A d \in Connect : d # c => con'[d] = con[d] /\ wk'[d] = wk[d] /\ br'[d] = br[d]
        /\ Line(con'[c], wk'[c], br'[c]) /\ con' \in [Connect -> Con]
        /\ wk'[c].alive = wk[c].alive /\ (wk[c].init => wk'[c].init)
        /\ con[c].listeners = "session" => con'[c].listeners = "session"
    BY Zenon, <1>1, Tables
  <1>5. LineMoves(c)
    BY Zenon, <1>1, <1>4 DEF LineMoves
  <1>6. SesErrs
    BY Zenon, <1>3 DEF SesErrs
  <1> QED BY Zenon, <1>2, <1>5, <1>6, LineErrs

\* ws.send: the message is on its way, or dropped.
LEMMA Wired ==
  ASSUME BrowserInv, NEW c \in Connect, NEW m, WsSend(c, m)
  PROVE  \E x \in {br[c].in, Append(br[c].in, m)} : br' = [br EXCEPT ![c] = [br[c] EXCEPT !.in = x]]
  <1>1. CASE con[c].sock = "open"
    BY Zenon, <1>1 DEF WsSend
  <1>2. CASE con[c].sock # "open"
    <2>1. [br[c] EXCEPT !.in = br[c].in] = br[c]
      BY Zenon, Tables DEF BridgeRec
    <2>2. br' = [br EXCEPT ![c] = br[c]]
      BY Zenon, <1>2, Tables DEF WsSend
    <2> QED BY Zenon, <2>1, <2>2
  <1> QED BY Zenon, <1>1, <1>2

\* INIT_OK: connect() is done, if it is still waited for (onInitOk).
LEMMA InitOkStep ==
  ASSUME BrowserInv, NEW c \in Connect, c <= n, UNCHANGED <<user, n, lost>>, wk[c].alive,
         wk[c].outbox # <<>>, Head(wk[c].outbox).t = "INIT_OK", onInitOk(c),
         NEW v \in WorkerRec, v = [wk[c] EXCEPT !.outbox = Tail(@)], wk' = [wk EXCEPT ![c] = v],
         v.alive = wk[c].alive, v.init = wk[c].init
  PROVE  BrowserInv'
  \* INIT_OK installs the listener of the session and answers the bridge (onInitOk).
  <1>Established.
    ASSUME NEW k, NEW w, NEW b, Line(k, w, b), w.outbox # <<>>, Head(w.outbox).t = "INIT_OK",
           NEW y \in Con, y.in = k.in, y.sock = k.sock, y.listeners = "session",
           NEW x \in {b.in, Append(b.in, [type |-> "RESPONSE"])}
    PROVE  Line(y, w, [b EXCEPT !.in = x])
    <2> USE <1>Established
    <2> DEFINE d == [b EXCEPT !.in = x]
    <2>0. w \in WorkerRec /\ b \in BridgeRec /\ w.outbox \in Seq(Answer)
      BY Zenon DEF Line, Typed, WorkerRec
    <2>1. Head(w.outbox) = w.outbox[1] /\ 1 \in 1 .. Len(w.outbox)
      BY Zenon, <2>0, Taken
    <2>2. InitIn(w) /\ w.init
      BY Zenon, <2>1 DEF InitIn, Line, Shaken
    <2>3. x \in Seq([type : {"RESPONSE"}] \cup DataFrame)
      <3>1. [type |-> "RESPONSE"] \in [type : {"RESPONSE"}] \cup DataFrame
        BY Zenon
      <3>2. b.in \in Seq([type : {"RESPONSE"}] \cup DataFrame)
        BY Zenon, <2>0 DEF BridgeRec
      <3>3. Append(b.in, [type |-> "RESPONSE"]) \in Seq([type : {"RESPONSE"}] \cup DataFrame)
        BY Zenon, <3>1, <3>2, Added
      <3> QED BY Zenon, <3>2, <3>3
    <2>4. d \in BridgeRec /\ d.phase = b.phase /\ d.ch = b.ch
      BY Zenon, <2>0, <2>3 DEF BridgeRec
    <2>5. Upcoming(d) = Upcoming(b)
      BY Zenon, <2>4 DEF Upcoming
    <2> HIDE DEF d
    <2>6. Typed(y, w, d)
      BY ZenonT(60), <2>0, <2>4 DEF Typed
    <2>7. k.listeners = "handshake" => k.in = <<>> /\ Len(k.in) = 0 /\ 1 .. Len(k.in) = {}
      BY <2>2 DEF Line, Shaken
    <2>8. b.phase # "hello"
      BY Zenon, <2>2 DEF Line, Shaken
    <2>9. Shaken(y, w, d)
      BY Zenon, <2>2, <2>4, <2>7, <2>8 DEF Line, Shaken
    <2>10. InboxDue(y, w, d)
      BY Zenon, <2>4, <2>5, <2>7 DEF Line, InOrder, InboxDue
    <2>11. SocketDue(y, w, d)
      BY Zenon, <2>4, <2>5, <2>7 DEF Line, InOrder, SocketDue
    <2>12. InOrder(y, w, d)
      BY Zenon, <2>4, <2>5, <2>10, <2>11 DEF Line, InOrder
    <2> QED BY Zenon, <2>6, <2>9, <2>12 DEF Line, d
  <1> DEFINE p == IF con[c].promise = "pending" THEN "resolved" ELSE con[c].promise
             y == [con[c] EXCEPT !.listeners = "session", !.promise = p]
  <1>0. /\ user \in {"app", "hook"} /\ ses \in [Connect -> SesRec] /\ hk \in HookRec
        /\ Obj(c) \in Connect /\ (user = "hook" => Obj(c) = c) /\ 0 \notin Connect
    BY Zenon, Connects DEF BrowserInv, SesType
  <1>1. v.init
    <2>1. wk[c].outbox[1].t = "INIT_OK" /\ 1 \in 1 .. Len(wk[c].outbox)
      BY Tables, Taken DEF WorkerRec
    <2> QED BY ZenonT(60), <2>1, Tables DEF Line, Shaken
  <1>2. p \in {"none", "pending", "resolved", "rejected"}
    BY Zenon, Tables DEF Con
  <1>3. con' = [con EXCEPT ![c] = y]
    <2>1. con' = [con EXCEPT ![c].listeners = "session",
                             ![c].promise = IF con[c].promise = "pending" THEN "resolved" ELSE @]
      BY Zenon DEF onInitOk
    <2>2. CASE con[c].promise = "pending"
      BY Zenon, <2>1, <2>2, Tables DEF Con
    <2>3. CASE con[c].promise # "pending"
      BY Zenon, <2>1, <2>3, Tables DEF Con
    <2> QED BY Zenon, <2>2, <2>3
  <1> HIDE DEF p
  <1>4. y \in Con /\ y.in = con[c].in /\ y.sock = con[c].sock /\ y.listeners = "session"
    BY ZenonT(60), <1>2, Tables DEF Con
  <1> HIDE DEF y
  <1>5. WsSend(c, [type |-> "RESPONSE"])
    BY Zenon DEF onInitOk
  <1>6. PICK x \in {br[c].in, Append(br[c].in, [type |-> "RESPONSE"])} :
          br' = [br EXCEPT ![c] = [br[c] EXCEPT !.in = x]]
    BY Zenon, <1>5, Wired
  <1> DEFINE b == [br[c] EXCEPT !.in = x]
  <1>7. Line(y, wk[c], b)
    <2>1. Line(con[c], wk[c], br[c])
      BY Zenon, Tables
    <2> QED BY ZenonT(60), <1>4, <2>1, <1>Established
  <1> HIDE DEF b
  <1>8. Line(y, v, b) /\ b \in BridgeRec
    BY Zenon, <1>7, Heard DEF Line, Typed
  <1>9. /\ con' \in [Connect -> Con] /\ con'[c] = y /\ wk' \in [Connect -> WorkerRec] /\ wk'[c] = v
        /\ br' \in [Connect -> BridgeRec] /\ br'[c] = b
        /\ \A d \in Connect : d # c => con'[d] = con[d] /\ wk'[d] = wk[d] /\ br'[d] = br[d]
    BY Zenon, <1>3, <1>4, <1>6, <1>8, Tables DEF b
  <1>10. /\ Line(con'[c], wk'[c], br'[c]) /\ wk'[c].alive = wk[c].alive
         /\ wk[c].init => wk'[c].init
         /\ wk'[c].alive /\ wk'[c].init /\ con'[c].listeners = "session"
    BY Zenon, <1>1, <1>4, <1>8, <1>9
  <1>11. DecodesFirstEpoch'
    BY Zenon DEF BrowserInv, DecodesFirstEpoch
  <1>12. CASE con[c].promise = "pending"
    <2>1. /\ ses' = [ses EXCEPT ![Obj(c)].state = "ready"]
          /\ hk' = IF user = "hook" THEN HookConnected(hk) ELSE hk
      BY Zenon, <1>12 DEF onInitOk, Hook
    <2>2. /\ ses' \in [Connect -> SesRec] /\ ses'[Obj(c)].state = "ready"
          /\ \A o \in Connect : ses'[o].ref = ses[o].ref
          /\ \A o \in Connect : o # Obj(c) => ses'[o].state = ses[o].state
      BY ZenonT(60), <1>0, <2>1 DEF SesRec
    <2>3. hk' \in HookRec /\ hk'.session = hk.session /\ hk'.mounted = hk.mounted
      BY Zenon, <1>0, <2>1, HookFacts
    <2>4. ConnectedIsReady'
      <3>1. CASE user = "hook"
        <4>1. hk.session = c
          BY Zenon, <3>1 DEF BrowserInv, NoOrphanWorker
        <4> QED BY <1>0, <2>2, <2>3, <3>1, <4>1 DEF ConnectedIsReady
      <3>2. CASE user = "app"
        BY Zenon, <2>3, <3>2 DEF ConnectedIsReady, BrowserInv, Refs
      <3> QED BY Zenon, <1>0, <3>1, <3>2
    <2>5. \A o \in Connect :
            /\ ses'[o].ref = ses[o].ref
            /\ \/ ses'[o].state \in {ses[o].state, "error"}
               \/ /\ o = Obj(c) /\ ses'[o].state = "ready"
                  /\ wk'[c].alive /\ wk'[c].init /\ con'[c].listeners = "session"
      BY Zenon, <1>10, <2>2
    <2> QED BY Zenon, <1>9, <1>10, <1>11, <2>2, <2>3, <2>4, <2>5, LineStep
  <1>13. CASE con[c].promise # "pending"
    <2>1. ses' = ses /\ hk' = hk
      BY Zenon, <1>13 DEF onInitOk
    <2>2. /\ hk' \in HookRec /\ hk'.session = hk.session /\ hk'.mounted = hk.mounted
          /\ ConnectedIsReady'
      BY Zenon, <2>1, Shown
    <2>3. ses' \in [Connect -> SesRec]
          /\ \A o \in Connect : ses'[o].ref = ses[o].ref /\ ses'[o].state = ses[o].state
      BY Zenon, <1>0, <2>1
    <2>4. \A o \in Connect :
            /\ ses'[o].ref = ses[o].ref
            /\ \/ ses'[o].state \in {ses[o].state, "error"}
               \/ /\ o = Obj(c) /\ ses'[o].state = "ready"
                  /\ wk'[c].alive /\ wk'[c].init /\ con'[c].listeners = "session"
      BY Zenon, <2>3
    <2> QED BY Zenon, <1>9, <1>10, <1>11, <2>2, <2>3, <2>4, LineStep
  <1> QED BY Zenon, <1>12, <1>13

\* A rotation ends, and the sends that waited for it go on (onRotated).
LEMMA RotatedStep ==
  ASSUME BrowserInv, NEW c \in Connect, c <= n, UNCHANGED <<user, n, con, br, lost>>,
         NEW v \in WorkerRec, Line(con[c], v, br[c]), v.alive = wk[c].alive, v.init = wk[c].init,
         onRotated(c, v), hk' = hk \/ Hook(HookError)
  PROVE  BrowserInv'
  \* Two sequences, one behind the other.
  <1>Joined.
    ASSUME NEW S, NEW s \in Seq(S), NEW t \in Seq(S)
    PROVE  /\ s \o t \in Seq(S) /\ Len(s \o t) = Len(s) + Len(t)
           /\ \A i \in 1 .. (Len(s) + Len(t)) :
                (s \o t)[i] = IF i <= Len(s) THEN s[i] ELSE t[i - Len(s)]
    BY <1>Joined
  \* The queued sends follow what is in the inbox (Resumed).
  <1>ResumedLine.
    ASSUME NEW k, NEW w, NEW b, Line(k, w, b), NEW q \in Seq(Send)
    PROVE  LET y == Resumed(w, q)
           IN  Line(k, y, b) /\ y \in WorkerRec /\ y.alive = w.alive /\ y.init = w.init
    <2> USE <1>ResumedLine
    <2> DEFINE r == [i \in DOMAIN q |-> [t |-> "ENCRYPT", id |-> q[i]]]
               x == w.inbox \o r
               y == [w EXCEPT !.inbox = x]
    <2>0. w \in WorkerRec /\ w.inbox \in Seq(Job)
      BY Zenon DEF Line, Typed, WorkerRec
    <2>1. PICK l \in Nat : l = Len(q) /\ DOMAIN q = 1 .. l
      OBVIOUS
    <2>2. \A i \in 1 .. l : r[i] \in Job /\ r[i].t = "ENCRYPT"
      BY SMTT(60), <2>1 DEF Job
    <2>3. r \in Seq(Job) /\ Len(r) = l
      <3>1. r \in [1 .. l -> Job]
        BY Zenon, <2>1, <2>2
      <3> QED BY <3>1
    <2> HIDE DEF r
    <2>4. PICK j \in Nat : j = Len(w.inbox)
      BY <2>0
    <2>5. /\ x \in Seq(Job) /\ Len(x) = j + l
          /\ \A i \in 1 .. (j + l) : x[i] = IF i <= j THEN w.inbox[i] ELSE r[i - j]
      BY ZenonT(60), <2>0, <2>3, <2>4, <1>Joined
    <2> HIDE DEF x
    <2>6. /\ Len(w.inbox) <= Len(x)
          /\ \A i \in 1 .. Len(w.inbox) : x[i] = w.inbox[i]
          /\ \A i \in 1 .. Len(x) : i > Len(w.inbox) => x[i].t = "ENCRYPT"
      <3>1. \A i \in 1 .. (j + l) : i > j => i - j \in 1 .. l /\ x[i] = r[i - j]
        BY <2>5
      <3>2. \A i \in 1 .. (j + l) : i > j => x[i].t = "ENCRYPT"
        BY Zenon, <2>2, <3>1
      <3>3. \A i \in 1 .. j : i \in 1 .. (j + l) /\ x[i] = w.inbox[i]
        BY <2>5
      <3> QED BY <2>4, <2>5, <3>2, <3>3
    <2>7. Line(k, y, b)
      BY Zenon, <2>5, <2>6, SendsPosted
    <2>8. y \in WorkerRec /\ y.alive = w.alive /\ y.init = w.init
      BY Zenon, <2>0, <2>5, WithInbox
    <2>9. Resumed(w, q) = y
      BY Zenon DEF Resumed, x, r
    <2> QED BY Zenon, <2>7, <2>8, <2>9
  <1> DEFINE q == ses[Obj(c)].sendQueue
             u == Resumed(v, q)
  <1>0. Obj(c) \in Connect /\ ses \in [Connect -> SesRec] /\ q \in Seq(Send)
    BY Zenon, Connects DEF BrowserInv, SesType, SesRec
  <1>1. wk' = [wk EXCEPT ![c] = u]
    BY Zenon DEF onRotated
  <1>2. ses' = [ses EXCEPT ![Obj(c)].rotating = FALSE, ![Obj(c)].sendQueue = <<>>]
    BY Zenon DEF onRotated
  <1> HIDE DEF q
  <1>3. Line(con[c], u, br[c]) /\ u \in WorkerRec /\ u.alive = v.alive /\ u.init = v.init
    BY <1>0, <1>ResumedLine
  <1> HIDE DEF u
  <1>4. /\ ses' \in [Connect -> SesRec]
        /\ \A o \in Connect : ses'[o].state = ses[o].state /\ ses'[o].ref = ses[o].ref
    <2>1. <<>> \in Seq(Send)
      OBVIOUS
    <2> QED BY ZenonT(60), <1>0, <1>2, <2>1 DEF SesRec
  <1>5. br' = [br EXCEPT ![c] = br[c]] /\ br[c] \in BridgeRec
    BY Zenon, Tables
  <1>6. DecodesFirstEpoch'
    BY Zenon DEF BrowserInv, DecodesFirstEpoch
  <1>7. u.alive = wk[c].alive /\ u.init = wk[c].init
    BY Zenon, <1>3
  <1> QED BY ZenonT(60), <1>1, <1>3, <1>4, <1>5, <1>6, <1>7, AnswerStep

\* What the worker posts back is handled (onWorkerMessage).
LEMMA AnswerSteps ==
  ASSUME BrowserInv, NEW c \in Connect, onWorkerMessage(c)
  PROVE  BrowserInv'
  \* A sealed frame goes to the bridge (WsSend).
  <1>FrameSent.
    ASSUME NEW k, NEW w, NEW b, Line(k, w, b), NEW f \in DataFrame
    PROVE  Line(k, w, [b EXCEPT !.in = Append(@, f)])
    <2> USE <1>FrameSent
    <2> DEFINE x == Append(b.in, f)
               d == [b EXCEPT !.in = x]
               S == [type : {"RESPONSE"}] \cup DataFrame
    <2>0. b \in BridgeRec /\ b.in \in Seq(S) /\ f \in S /\ f.type = "DATA"
      BY Zenon DEF Line, Typed, BridgeRec, DataFrame
    <2> HIDE DEF S
    <2>1. /\ x \in Seq(S) /\ Len(x) = Len(b.in) + 1 /\ Len(b.in) \in Nat /\ x[Len(b.in) + 1] = f
          /\ \A i \in 1 .. Len(b.in) : x[i] = b.in[i]
      BY <2>0
    <2>2. \A i \in 1 .. Len(x) : i = Len(b.in) + 1 \/ i \in 1 .. Len(b.in)
      BY <2>1
    <2> HIDE DEF x
    <2>3. d \in BridgeRec /\ d.phase = b.phase /\ d.ch = b.ch /\ d.in = x
      BY Zenon, <2>0, <2>1 DEF BridgeRec, S
    <2>4. Upcoming(d) = Upcoming(b)
      BY Zenon, <2>3 DEF Upcoming
    <2> HIDE DEF d
    <2>5. Typed(k, w, d)
      BY Zenon, <2>3 DEF Line, Typed
    <2>6. k.listeners = "handshake" => \A i \in 1 .. Len(d.in) : d.in[i].type # "RESPONSE"
      <3>1. k.listeners = "handshake" => \A i \in 1 .. Len(b.in) : b.in[i].type # "RESPONSE"
        BY Zenon DEF Line, Shaken
      <3> QED BY Zenon, <2>0, <2>1, <2>2, <2>3, <3>1
    <2>7. Shaken(k, w, d)
      BY Zenon, <2>3, <2>6 DEF Line, Shaken
    <2>8. InOrder(k, w, d)
      BY Zenon, <2>3, <2>4 DEF Line, InOrder, InboxDue, SocketDue
    <2> QED BY Zenon, <2>5, <2>7, <2>8 DEF Line, d, x
  <1> DEFINE m == Head(wk[c].outbox)
             v == [wk[c] EXCEPT !.outbox = Tail(@)]
  <1>0. /\ UNCHANGED <<user, n>> /\ wk[c].alive /\ wk[c].outbox # <<>>
        /\ ses \in [Connect -> SesRec]
    BY Zenon DEF onWorkerMessage, BrowserInv, SesType
  <1>1. c <= n
    BY Zenon, <1>0, Made
  <1>2. /\ m \in Answer /\ m = wk[c].outbox[1] /\ 1 \in 1 .. Len(wk[c].outbox)
        /\ Tail(wk[c].outbox) \in Seq(Answer)
    BY Zenon, <1>0, Tables, Taken DEF WorkerRec
  <1>3. v \in WorkerRec /\ v.alive = wk[c].alive /\ v.init = wk[c].init
    BY Zenon, <1>2, Tables DEF WorkerRec
  <1>4. Line(con[c], v, br[c])
    BY Zenon, <1>0, Tables, Heard
  <1>5. br[c] \in BridgeRec /\ con[c] \in Con
    BY Zenon, Tables
  <1>6. lost' = lost => DecodesFirstEpoch'
    BY Zenon DEF BrowserInv, DecodesFirstEpoch
  <1>7. ses' = ses => /\ ses' \in [Connect -> SesRec]
                      /\ \A o \in Connect : ses'[o].state = ses[o].state /\ ses'[o].ref = ses[o].ref
    BY Zenon, <1>0
  <1>8. br' = br => br' = [br EXCEPT ![c] = br[c]]
    BY Zenon, Tables
  <1>9. CASE m.t = "INIT_OK"
    <2>1. onInitOk(c) /\ wk' = [wk EXCEPT ![c] = v] /\ lost' = lost
      BY Zenon, <1>9 DEF onWorkerMessage
    <2> QED BY Zenon, <1>0, <1>1, <1>3, <1>9, <2>1, InitOkStep
  <1>10. CASE m.t = "INIT_ERR"
    <2>1. Rejected(c, Shut(con[c])) /\ wk' = [wk EXCEPT ![c] = v] /\ br' = br /\ lost' = lost
      BY Zenon, <1>10 DEF onWorkerMessage
    <2> HIDE DEF v, m
    <2>2. /\ Shut(con[c]) \in Con /\ Shut(con[c]).in = <<>> /\ Shut(con[c]).sock # "open"
          /\ Shut(con[c]).listeners = con[c].listeners
      BY Zenon, <1>5, ShutFacts
    <2>3. /\ wk' \in [Connect -> WorkerRec] /\ wk'[c] = v
          /\ \A d \in Connect : d # c => wk'[d] = wk[d] /\ br'[d] = br[d]
      BY Zenon, <1>3, <2>1, Tables
    <2>4. /\ Line(con[c], wk'[c], br'[c]) /\ wk'[c].alive = wk[c].alive
          /\ wk[c].init => wk'[c].init
          /\ br' \in [Connect -> BridgeRec]
      BY Zenon, <1>3, <1>4, <2>1, <2>3, Tables
    <2> QED BY Zenon, <1>0, <1>1, <2>1, <2>2, <2>3, <2>4, RejectedStep
  <1>11. CASE m.t = "ENCRYPTED"
    <2>1. WsSend(c, m.f) /\ wk' = [wk EXCEPT ![c] = v] /\ UNCHANGED <<ses, con, lost, hk>>
      BY Zenon, <1>11 DEF onWorkerMessage
    <2>2. m.f \in DataFrame
      BY Zenon, <1>2, <1>11 DEF Answer
    <2> HIDE DEF v, m
    <2>3. PICK x \in {br[c].in, Append(br[c].in, m.f)} :
            br' = [br EXCEPT ![c] = [br[c] EXCEPT !.in = x]]
      BY Zenon, <2>1, Wired
    <2> DEFINE b == [br[c] EXCEPT !.in = x]
    <2>4. Line(con[c], v, b)
      <3>1. CASE x = br[c].in
        <4>1. b = br[c]
          BY Zenon, <1>5, <3>1 DEF BridgeRec
        <4> QED BY Zenon, <1>4, <4>1
      <3>2. CASE x = Append(br[c].in, m.f)
        <4>1. b = [br[c] EXCEPT !.in = Append(@, m.f)]
          BY Zenon, <3>2
        <4> QED BY <1>4, <2>2, <4>1, <1>FrameSent
      <3> QED BY Zenon, <3>1, <3>2
    <2>5. b \in BridgeRec
      BY Zenon, <2>4 DEF Line, Typed
    <2> HIDE DEF b
    <2>6. br' = [br EXCEPT ![c] = b]
      BY Zenon, <2>3 DEF b
    <2> QED BY Zenon, <1>0, <1>1, <1>3, <1>6, <1>7, <2>1, <2>4, <2>5, <2>6, AnswerStep
  <1>12. CASE m.t = "DECRYPTED"
    <2>1. wk' = [wk EXCEPT ![c] = v] /\ UNCHANGED <<ses, con, br, lost, hk>>
      BY Zenon, <1>12 DEF onWorkerMessage
    <2> HIDE DEF v, m
    <2> QED BY Zenon, <1>0, <1>1, <1>3, <1>4, <1>5, <1>6, <1>7, <1>8, <2>1, AnswerStep
  <1>13. CASE m.t = "CRYPTO_ERR"
    <2>1. /\ wk' = [wk EXCEPT ![c] = v] /\ Hook(HookError) /\ UNCHANGED <<ses, con, br>>
          /\ m.of.t = "ENCRYPT" => lost' = lost
          /\ m.of.t # "ENCRYPT" => lost' = lost \cup {m.of.f}
      BY Zenon, <1>13 DEF onWorkerMessage
    <2>2. m.of.t \in {"ENCRYPT", "DECRYPT"}
      BY Zenon, <1>2, <1>13 DEF Answer
    <2>3. m.of.t = "DECRYPT" => m.of.f.key # <<>>
      BY Zenon, <1>2, <1>13, Tables DEF Line, InOrder
    <2> HIDE DEF v, m
    <2>4. DecodesFirstEpoch'
      BY Zenon, <2>1, <2>2, <2>3 DEF BrowserInv, DecodesFirstEpoch
    <2> QED BY Zenon, <1>0, <1>1, <1>3, <1>4, <1>5, <1>7, <1>8, <2>1, <2>4, AnswerStep
  <1>14. CASE m.t \in {"KEY_ROTATED", "KEY_ROTATE_ERR"}
    <2>1. /\ onRotated(c, v) /\ UNCHANGED <<con, br, lost>>
          /\ hk' = hk \/ Hook(HookError)
      BY Zenon, <1>14 DEF onWorkerMessage
    <2> HIDE DEF v, m
    <2> QED BY Zenon, <1>0, <1>1, <1>3, <1>4, <2>1, RotatedStep
  <1> QED BY Zenon, <1>2, <1>9, <1>10, <1>11, <1>12, <1>13, <1>14 DEF Answer
-----------------------------------------------------------------------------
(***************************************************************************)
(* The application's calls, and the hook's.                                *)
(***************************************************************************)

\* Records of sessions change, but no state and no reference.
LEMMA NotedStep ==
  ASSUME BrowserInv, UNCHANGED <<user, n, con, wk, br, lost, hk>>, ses' \in [Connect -> SesRec],
         \A o \in Connect : ses'[o].state = ses[o].state /\ ses'[o].ref = ses[o].ref
  PROVE  BrowserInv'
  <1> USE DEF BrowserInv
  <1>0. user \in {"app", "hook"} /\ hk.session \in Nat
    BY Zenon DEF SesType, HookRec
  <1>1. /\ Connect' = Connect /\ (\A d : Obj(d)' = Obj(d))
        /\ \A d \in Connect : Obj(d) \in Connect
    BY Zenon, <1>0, SameConnects, Connects
  <1>2. SesType' /\ Fresh' /\ AllLines' /\ DecodesFirstEpoch'
    BY Zenon, <1>1 DEF SesType, Fresh, AllLines, DecodesFirstEpoch
  <1>3. Refs'
    BY Zenon, <1>1 DEF Refs
  <1>4. NoOrphanWorker'
    BY Zenon, <1>1 DEF NoOrphanWorker
  <1>5. ReadyMeansChannel'
    BY <1>1 DEF ReadyMeansChannel
  <1>6. ConnectedIsReady'
    BY Zenon, <1>1, Shown
  <1> QED BY Zenon, <1>2, <1>3, <1>4, <1>5, <1>6

\* send(): it waits for a rotation, or goes to the worker.
LEMMA SendStep ==
  ASSUME BrowserInv, NEW s \in Send, AppSend(s)
  PROVE  BrowserInv'
  <1>0. /\ UNCHANGED <<user, n, con, br, lost, hk>> /\ ses[1].state = "ready"
        /\ user \in {"app", "hook"} /\ ses \in [Connect -> SesRec] /\ 1 \in Connect
    BY Zenon, Connects DEF AppSend, BrowserInv, SesType
  <1>1. CASE ses[1].rotating
    <2> DEFINE q == Append(ses[1].sendQueue, s)
    <2>1. ses' = [ses EXCEPT ![1].sendQueue = q] /\ wk' = wk
      BY Zenon, <1>1 DEF AppSend
    <2>2. q \in Seq(Send)
      BY <1>0 DEF SesRec
    <2> HIDE DEF q
    <2>3. /\ ses' \in [Connect -> SesRec]
          /\ \A o \in Connect : ses'[o].state = ses[o].state /\ ses'[o].ref = ses[o].ref
      <3> DEFINE e == [ses[1] EXCEPT !.sendQueue = q]
      <3>1. e \in SesRec /\ e.state = ses[1].state /\ e.ref = ses[1].ref
        BY ZenonT(60), <1>0, <2>2 DEF SesRec
      <3>2. ses' = [ses EXCEPT ![1] = e]
        BY Zenon, <2>1
      <3> HIDE DEF e
      <3> QED BY Zenon, <1>0, <3>1, <3>2
    <2> QED BY Zenon, <1>0, <2>1, <2>3, NotedStep
  <1>2. CASE ~ses[1].rotating
    <2> DEFINE c == ses[1].ref
               j == [t |-> "ENCRYPT", id |-> s]
               v == [wk[c] EXCEPT !.inbox = Append(wk[c].inbox, j)]
    <2>1. c \in Connect /\ c <= n /\ wk[c].alive
      BY Zenon, <1>0 DEF BrowserInv, ReadyMeansChannel, Refs
    <2>2. wk' = [wk EXCEPT ![c] = v] /\ ses' = ses
      BY Zenon, <1>2, <2>1 DEF AppSend, ToWorker, posted
    <2>3. j \in Job /\ j.t = "ENCRYPT"
      BY Zenon DEF Job
    <2> HIDE DEF c, j
    <2>4. wk[c].inbox \in Seq(Job) /\ wk[c] \in WorkerRec /\ Line(con[c], wk[c], br[c])
      BY Zenon, <2>1, Tables DEF WorkerRec
    <2>5. PICK l \in Nat : l = Len(wk[c].inbox)
      BY <2>4
    <2> DEFINE x == Append(wk[c].inbox, j)
    <2>6. /\ x \in Seq(Job) /\ Len(x) = l + 1 /\ x[l + 1] = j
          /\ \A i \in 1 .. l : x[i] = wk[c].inbox[i]
      BY <2>3, <2>4, <2>5, Added
    <2> HIDE DEF x
    <2>7. /\ Len(wk[c].inbox) <= Len(x)
          /\ \A i \in 1 .. Len(wk[c].inbox) : x[i] = wk[c].inbox[i]
          /\ \A i \in 1 .. Len(x) : i > Len(wk[c].inbox) => x[i].t = "ENCRYPT"
      <3>1. \A i \in 1 .. (l + 1) : i > l => i = l + 1
        OBVIOUS
      <3> QED BY <2>3, <2>5, <2>6, <3>1
    <2>8. v = [wk[c] EXCEPT !.inbox = x]
      BY Zenon DEF x
    <2> HIDE DEF v
    <2>9. Line(con[c], v, br[c])
      BY Zenon, <2>4, <2>6, <2>7, <2>8, SendsPosted
    <2>10. v \in WorkerRec /\ v.alive = wk[c].alive /\ v.init = wk[c].init
      BY Zenon, <2>4, <2>6, <2>8, WithInbox
    <2>11. br' = [br EXCEPT ![c] = br[c]] /\ br[c] \in BridgeRec
      BY Zenon, <1>0, <2>1, Tables
    <2>12. DecodesFirstEpoch'
      BY Zenon, <1>0 DEF BrowserInv, DecodesFirstEpoch
    <2>13. /\ ses' \in [Connect -> SesRec]
           /\ \A o \in Connect : ses'[o].state = ses[o].state /\ ses'[o].ref = ses[o].ref
      BY Zenon, <1>0, <2>2
    <2> QED BY Zenon, <1>0, <2>1, <2>2, <2>9, <2>10, <2>11, <2>12, <2>13, AnswerStep
  <1> QED BY Zenon, <1>1, <1>2

\* The tables of the sessions and of the sockets after close() of session o.
LEMMA ClosedTables ==
  ASSUME BrowserInv, NEW o \in Connect, ses[o].state # "closed"
  PROVE  /\ \E y \in SesRec : y.state = "closed" /\ y.ref = 0 /\ CloseSes(ses, o) = [ses EXCEPT ![o] = y]
         /\ CloseCon(con, o) \in [Connect -> Con]
         /\ \A d \in Connect :
              /\ Line(CloseCon(con, o)[d], wk[d], br[d])
              /\ Obj(d) # o => CloseCon(con, o)[d].listeners = con[d].listeners
              /\ d > n => CloseCon(con, o)[d] = con[d]
  <1> DEFINE y == [ClosedSes(ses[o]) EXCEPT !.intentional = TRUE]
             r == ses[o].ref
             g == CloseCon(con, o)
  <1>0. ses \in [Connect -> SesRec] /\ n \in Nat /\ user \in {"app", "hook"} /\ Connect \subseteq Nat
    BY Zenon, Connects DEF BrowserInv, SesType
  <1>1. y \in SesRec /\ y.state = "closed" /\ y.ref = 0 /\ CloseSes(ses, o) = [ses EXCEPT ![o] = y]
    BY Zenon, <1>0, ClosedFacts DEF CloseSes
  <1>2. \A d \in Connect : g[d] = IF d = r THEN ClosedCon(con[d]) ELSE con[d]
    BY Zenon DEF CloseCon
  <1>3. \A d \in Connect : d = r => Obj(d) = o /\ d <= n
    BY <1>0, Connects DEF BrowserInv, Refs
  <1> HIDE DEF r
  <1>4. \A d \in Connect : g[d] \in Con /\ Line(g[d], wk[d], br[d])
    <2> SUFFICES ASSUME NEW d \in Connect PROVE g[d] \in Con /\ Line(g[d], wk[d], br[d])
      BY Zenon
    <2> HIDE DEF g
    <2>1. /\ ClosedCon(con[d]) \in Con /\ ClosedCon(con[d]).in = <<>> /\ ClosedCon(con[d]).sock # "open"
          /\ ClosedCon(con[d]).listeners \in {con[d].listeners, "none"}
      BY Zenon, Tables, ShutFacts
    <2>2. Line(ClosedCon(con[d]), wk[d], br[d])
      BY Zenon, <2>1, Tables, Closed_
    <2> QED BY Zenon, <1>2, <2>1, <2>2, Tables
  <1>5. g \in [Connect -> Con]
    BY Zenon, <1>4 DEF CloseCon
  <1> HIDE DEF g, y
  <1>6. \A d \in Connect :
          /\ Line(g[d], wk[d], br[d])
          /\ Obj(d) # o => g[d].listeners = con[d].listeners
          /\ d > n => g[d] = con[d]
    BY <1>0, <1>2, <1>3, <1>4
  <1> QED BY Zenon, <1>1, <1>5, <1>6 DEF g

\* close() of session o, as the application and the hook call it.
LEMMA CloseCall ==
  ASSUME BrowserInv, NEW o \in Connect, ses[o].state # "closed", UNCHANGED <<user, n, br, lost>>,
         ses' = CloseSes(ses, o), con' = CloseCon(con, o), wk' = CloseWk(wk, o),
         hk' \in HookRec, hk'.mounted => hk.mounted,
         hk'.session = hk.session \/ (hk'.session = 0 /\ hk.session = o),
         ConnectedIsReady'
  PROVE  BrowserInv'
  <1>1. PICK y \in SesRec : y.state = "closed" /\ y.ref = 0 /\ ses' = [ses EXCEPT ![o] = y]
    BY Zenon, ClosedTables
  <1>2. con' \in [Connect -> Con] /\ br' \in [Connect -> BridgeRec]
    BY Zenon, ClosedTables DEF BrowserInv, SesType
  <1>3. \A d \in Connect :
          /\ Line(con'[d], wk[d], br'[d])
          /\ Obj(d) # o => con'[d].listeners = con[d].listeners
          /\ d > n => con'[d] = con[d] /\ br'[d] = br[d]
    BY Zenon, ClosedTables
  <1>4. DecodesFirstEpoch'
    BY Zenon DEF BrowserInv, DecodesFirstEpoch
  <1>5. UNCHANGED <<user, n>>
    BY Zenon
  <1> QED BY ZenonT(60), <1>1, <1>2, <1>3, <1>4, <1>5, CloseStep

\* Only the hook changes, and it forgets at most a session that is closed.
LEMMA HookStep ==
  ASSUME BrowserInv, UNCHANGED <<user, n, ses, con, wk, br, lost>>, user = "hook",
         hk' \in HookRec, ConnectedIsReady',
         \/ hk'.session = hk.session
         \/ hk'.session = 0 /\ ses[hk.session].state = "closed"
  PROVE  BrowserInv'
  <1> USE DEF BrowserInv
  <1>1. /\ Connect' = Connect /\ (\A d : Obj(d)' = Obj(d)) /\ 0 \notin Connect
        /\ \A d \in Connect : Obj(d) = d
    BY Zenon, SameConnects, Connects
  <1>2. SesType' /\ Fresh' /\ AllLines' /\ DecodesFirstEpoch'
    BY Zenon, <1>1 DEF SesType, Fresh, AllLines, DecodesFirstEpoch
  <1>3. Refs' /\ ReadyMeansChannel'
    BY Zenon, <1>1 DEF Refs, ReadyMeansChannel
  <1>4. NoOrphanWorker'
    <2> SUFFICES ASSUME NEW d \in Connect, wk[d].alive
                 PROVE  ses[Obj(d)].ref = d /\ hk'.session = d
      BY Zenon, <1>1 DEF NoOrphanWorker
    <2>1. ses[d].ref = d /\ hk.session = d /\ d # 0
      BY Zenon, <1>1 DEF NoOrphanWorker
    <2>2. ses[d].state # "closed"
      BY Zenon, <2>1 DEF Refs
    <2> QED BY Zenon, <1>1, <2>1, <2>2
  <1> QED BY Zenon, <1>2, <1>3, <1>4

\* close() by the application.
LEMMA AppCloseStep ==
  ASSUME BrowserInv, AppClose
  PROVE  BrowserInv'
  <1>1. /\ 1 \in Connect /\ ses[1].state # "closed" /\ UNCHANGED <<user, n, br, lost>> /\ hk' = hk
        /\ ses' = CloseSes(ses, 1) /\ con' = CloseCon(con, 1) /\ wk' = CloseWk(wk, 1) /\ user = "app"
    BY Zenon, Connects DEF AppClose, BrowserInv, SesType
  <1>2. hk' \in HookRec /\ ~hk'.mounted
    BY Zenon, <1>1 DEF BrowserInv, SesType, Refs
  <1>3. ConnectedIsReady'
    BY Zenon, <1>2 DEF ConnectedIsReady
  <1>4. hk'.session = hk.session /\ (hk'.mounted => hk.mounted)
    BY Zenon, <1>1
  <1> QED BY Zenon, <1>1, <1>2, <1>3, <1>4, CloseCall

\* There is nothing to close if the hook has no session, or a closed one.
LEMMA NothingToClose ==
  ASSUME BrowserInv, NEW h \in HookRec, h.session = hk.session,
         h.session = 0 \/ ses[h.session].state = "closed"
  PROVE  SesOf(h) = ses /\ ConOf(h) = con /\ WkOf(h) = wk /\ Closing(h) = h
  <1>1. con \in [Connect -> Con] /\ wk \in [Connect -> WorkerRec]
    BY Zenon DEF BrowserInv, SesType
  <1>2. ASSUME h.session # 0
        PROVE  CloseCon(con, h.session) = con /\ CloseWk(wk, h.session) = wk
    BY Zenon, <1>1, <1>2 DEF CloseCon, CloseWk
  <1> QED BY Zenon, <1>2 DEF SesOf, ConOf, WkOf, CloseSes, Closing

\* disconnect() and the clean-up of an unmount.
LEMMA LeaveStep ==
  ASSUME BrowserInv, HookDisconnect \/ Unmount
  PROVE  BrowserInv'
  <1> DEFINE o == hk.session
             g == [hk EXCEPT !.timer = FALSE, !.attempts = MaxReconnect]
  <1>0. /\ user = "hook" /\ UNCHANGED <<user, n, br, lost>> /\ hk.mounted /\ hk \in HookRec
        /\ ses' = SesOf(hk) /\ con' = ConOf(hk) /\ wk' = WkOf(hk)
        /\ (hk.session # 0 => hk.session \in Connect)
    BY Zenon DEF HookDisconnect, Unmount, CloseCurrent, HookIdle, BrowserInv, SesType, Refs
  <1>1. hk' \in HookRec /\ hk'.session = 0 /\ (~hk'.mounted \/ hk'.status = "disconnected")
    <2>1. CASE Unmount
      <3>1. hk' = [hk EXCEPT !.mounted = FALSE, !.timer = FALSE, !.session = 0]
        BY Zenon, <2>1 DEF Unmount
      <3> QED BY Zenon, <1>0, <3>1 DEF HookRec
    <2>2. CASE HookDisconnect
      <3>1. hk' = [Closing(g) EXCEPT !.session = 0, !.status = "disconnected"]
        BY Zenon, <2>2 DEF HookDisconnect
      <3>2. g \in HookRec
        BY Zenon, <1>0, BrowserAssumption DEF HookRec
      <3> HIDE DEF g
      <3>3. Closing(g) \in HookRec
        BY Zenon, <3>2, HookFacts DEF Closing
      <3> DEFINE u == Closing(g)
      <3> HIDE DEF u
      <3>4. u \in HookRec /\ hk' = [u EXCEPT !.session = 0, !.status = "disconnected"]
        BY Zenon, <3>1, <3>3 DEF u
      <3> QED BY Zenon, <3>4 DEF HookRec
    <2> QED BY Zenon, <2>1, <2>2
  <1>2. ConnectedIsReady'
    BY Zenon, <1>1 DEF ConnectedIsReady
  <1>3. CASE o = 0 \/ ses[o].state = "closed"
    <2>1. ses' = ses /\ con' = con /\ wk' = wk
      BY Zenon, <1>0, <1>3, NothingToClose
    <2> QED BY Zenon, <1>0, <1>1, <1>2, <1>3, <2>1, HookStep
  <1>4. CASE o # 0 /\ ses[o].state # "closed"
    <2>1. ses' = CloseSes(ses, o) /\ con' = CloseCon(con, o) /\ wk' = CloseWk(wk, o) /\ o \in Connect
      BY Zenon, <1>0, <1>4 DEF SesOf, ConOf, WkOf
    <2>2. hk'.mounted => hk.mounted
      BY Zenon, <1>0
    <2>3. hk'.session = 0 /\ hk.session = o
      BY Zenon, <1>1
    <2> HIDE DEF o
    <2> QED BY Zenon, <1>0, <1>1, <1>2, <1>4, <2>1, <2>2, <2>3, CloseCall
  <1> QED BY Zenon, <1>3, <1>4

\* connect() of session o when no worker is left: f, g and w are the tables with
\* the session before it closed.
LEMMA OpenStep ==
  ASSUME BrowserInv, NEW o \in Connect, UNCHANGED <<user, br, lost>>,
         NEW f \in [Connect -> SesRec], NEW g \in [Connect -> Con], NEW w \in [Connect -> WorkerRec],
         Open(o, f, g, w), Obj(n + 1) = o,
         \A d \in Connect : ~w[d].alive /\ Line(g[d], w[d], br[d])
                            /\ (d > n => g[d] = con[d] /\ w[d] = wk[d]),
         \A p \in Connect :
           /\ f[p].state # "ready" /\ f[p].ref \in {0, ses[p].ref}
           /\ f[p].state \in {"idle", "closed"} => f[p].ref = 0,
         hk' \in HookRec, hk'.mounted => hk'.status # "connected",
         user = "hook" => hk'.session = n + 1,
         user = "app" => hk'.session = 0 /\ ~hk'.mounted
  PROVE  BrowserInv'
  <1> USE DEF BrowserInv
  <1> DEFINE c == n + 1
             y == Opened(f[o])
  <1>0. user \in {"app", "hook"} /\ n \in Nat /\ c \in Nat /\ c \in Connect
    BY DEF SesType, Open
  <1>1. /\ Connect' = Connect /\ (\A d : Obj(d)' = Obj(d)) /\ Connect \subseteq Nat /\ 0 \notin Connect
        /\ \A d \in Connect : Obj(d) \in Connect
    BY Zenon, <1>0, SameConnects, Connects
  <1>2. /\ n' = c /\ ses' = [f EXCEPT ![o] = y] /\ con' = [g EXCEPT ![c] = waiting]
        /\ wk' = [w EXCEPT ![c] = spawned]
    BY Zenon DEF Open
  <1>3. y \in SesRec /\ y.state = "connecting" /\ y.ref = c
    <2>1. y = [f[o] EXCEPT !.state = "connecting", !.intentional = FALSE, !.ref = c] /\ f[o] \in SesRec
      BY Zenon DEF Opened
    <2> HIDE DEF c, y
    <2> QED BY Zenon, <1>0, <2>1 DEF SesRec
  <1>4. waiting \in Con
    BY Zenon, Nothing DEF waiting, Con
  <1>5. c > n /\ \A d \in Connect : d > c => d > n /\ d # c
    BY SMTT(60), <1>0, <1>1
  <1> HIDE DEF c, y
  <1>6. /\ ses' \in [Connect -> SesRec] /\ ses'[o] = y
        /\ \A p \in Connect : p # o => ses'[p] = f[p]
        /\ con' \in [Connect -> Con] /\ con'[c] = waiting
        /\ wk' \in [Connect -> WorkerRec] /\ wk'[c] = spawned
        /\ \A d \in Connect : d # c => con'[d] = g[d] /\ wk'[d] = w[d]
    BY <1>0, <1>2, <1>3, <1>4, NewWorkers
  <1>7. SesType'
    BY Zenon, <1>0, <1>1, <1>2, <1>6 DEF SesType
  <1>8. Fresh'
    <2> SUFFICES ASSUME NEW d \in Connect, d > c
                 PROVE  con'[d] = unused /\ wk'[d] = terminated /\ br'[d] = bridge("hello")
      BY Zenon, <1>1, <1>2 DEF Fresh
    <2> QED BY Zenon, <1>5, <1>6 DEF Fresh
  <1>9. AllLines'
    <2> SUFFICES ASSUME NEW d \in Connect PROVE Line(con'[d], wk'[d], br[d])
      BY Zenon, <1>1 DEF AllLines
    <2>1. CASE d = c
      <3>1. br[c] = bridge("hello")
        BY Zenon, <1>0, <1>5 DEF Fresh
      <3>2. Line(waiting, spawned, bridge("hello"))
        BY Zenon, NewLine
      <3> QED BY Zenon, <1>6, <2>1, <3>1, <3>2
    <2>2. CASE d # c
      BY ZenonT(60), <1>6, <2>2
    <2> QED BY Zenon, <2>1, <2>2
  <1>10. Refs'
    <2>1. ASSUME NEW p \in Connect
          PROVE  /\ ses'[p].ref # 0 => ses'[p].ref \in Connect /\ ses'[p].ref <= c /\ Obj(ses'[p].ref) = p
                 /\ ses'[p].state \in {"idle", "closed"} => ses'[p].ref = 0
      <3>1. CASE p = o
        BY <1>0, <1>3, <1>6, <3>1 DEF c
      <3>2. CASE p # o
        <4>1. ses'[p] = f[p]
          BY Zenon, <1>6, <3>2
        <4>2. f[p].ref # 0 => f[p].ref \in Connect /\ f[p].ref <= n /\ Obj(f[p].ref) = p
          BY ZenonT(60) DEF Refs
        <4>3. f[p].ref # 0 => f[p].ref <= c
          <5>1. f[p].ref \in Nat
            BY Zenon DEF SesRec
          <5> QED BY <1>0, <4>2, <5>1 DEF c
        <4> QED BY Zenon, <4>1, <4>2, <4>3
      <3> QED BY Zenon, <3>1, <3>2
    <2>2. hk'.session # 0 => hk'.session \in Connect /\ hk'.session <= c
      BY <1>0 DEF c
    <2> QED BY SMTT(60), <1>1, <1>2, <2>1, <2>2 DEF Refs
  <1>11. NoOrphanWorker'
    <2> SUFFICES ASSUME NEW d \in Connect, wk'[d].alive
                 PROVE  ses'[Obj(d)].ref = d /\ (user = "hook" => hk'.session = d)
      BY Zenon, <1>1 DEF NoOrphanWorker
    <2>1. d = c
      BY Zenon, <1>6
    <2> QED BY Zenon, <1>3, <1>6, <2>1 DEF c
  <1>12. ReadyMeansChannel'
    <2>1. \A p \in Connect : ses'[p].state # "ready"
      BY Zenon, <1>3, <1>6
    <2> QED BY Zenon, <1>1, <2>1 DEF ReadyMeansChannel
  <1>13. ConnectedIsReady' /\ DecodesFirstEpoch'
    BY Zenon DEF ConnectedIsReady, DecodesFirstEpoch
  <1> QED BY Zenon, <1>7, <1>8, <1>9, <1>10, <1>11, <1>12, <1>13

\* connect() by the application.
LEMMA AppConnectStep ==
  ASSUME BrowserInv, AppConnect
  PROVE  BrowserInv'
  <1>0. /\ user = "app" /\ UNCHANGED <<user, br, lost>> /\ hk' = hk
        /\ ses \in [Connect -> SesRec] /\ 1 \in Connect /\ hk \in HookRec
        /\ con \in [Connect -> Con] /\ wk \in [Connect -> WorkerRec] /\ 0 \notin Connect
        /\ \A d \in Connect : Obj(d) = 1
    BY Zenon, Connects DEF AppConnect, BrowserInv, SesType
  <1>1. CASE ses[1].state \in {"idle", "closed"}
    <2>1. Open(1, ses, con, wk)
      BY Zenon, <1>1 DEF AppConnect
    <2>2. Obj(n + 1) = 1
      BY Zenon, <1>0 DEF Obj
    <2>3. ses[1].ref = 0
      BY Zenon, <1>0, <1>1 DEF BrowserInv, Refs
    <2>4. \A d \in Connect : ~wk[d].alive
      BY <1>0, <2>3 DEF BrowserInv, NoOrphanWorker
    <2>5. \A p \in Connect : ses[p].state # "ready"
      BY Zenon, <2>4 DEF BrowserInv, ReadyMeansChannel, Refs
    <2>6. \A p \in Connect : ses[p].state \in {"idle", "closed"} => ses[p].ref = 0
      BY Zenon DEF BrowserInv, Refs
    <2>7. \A d \in Connect : ~wk[d].alive /\ Line(con[d], wk[d], br[d])
                             /\ (d > n => con[d] = con[d] /\ wk[d] = wk[d])
      BY Zenon, <2>4, Tables
    <2>8. hk'.session = 0 /\ ~hk'.mounted /\ hk' \in HookRec
      BY Zenon, <1>0 DEF BrowserInv, Refs
    <2> QED BY ZenonT(60), <1>0, <2>1, <2>2, <2>5, <2>6, <2>7, <2>8, OpenStep
  <1>2. CASE ses[1].state \notin {"idle", "closed"}
    <2>1. ses' = [ses EXCEPT ![1].intentional = FALSE] /\ UNCHANGED <<n, con, wk>>
      BY Zenon, <1>2 DEF AppConnect
    <2>2. /\ ses' \in [Connect -> SesRec]
          /\ \A o \in Connect : ses'[o].state = ses[o].state /\ ses'[o].ref = ses[o].ref
      <3> DEFINE e == [ses[1] EXCEPT !.intentional = FALSE]
      <3>1. e \in SesRec /\ e.state = ses[1].state /\ e.ref = ses[1].ref
        BY ZenonT(60), <1>0 DEF SesRec
      <3>2. ses' = [ses EXCEPT ![1] = e]
        BY Zenon, <2>1
      <3> HIDE DEF e
      <3> QED BY Zenon, <1>0, <3>1, <3>2
    <2> QED BY Zenon, <1>0, <2>1, <2>2, NotedStep
  <1> QED BY Zenon, <1>1, <1>2

\* doConnect closes the session of the hook, and starts a new one.
LEMMA HookConnectStep ==
  ASSUME BrowserInv, user = "hook", NEW h \in HookRec, h.session = hk.session, doConnect(h), HookIdle
  PROVE  BrowserInv'
  <1> DEFINE s == h.session
             f == SesOf(h)
             g == ConOf(h)
             w == WkOf(h)
  <1>0. /\ UNCHANGED <<user, br, lost>> /\ Open(n + 1, f, g, w) /\ n + 1 \in Connect /\ n + 1 \in Nat
        /\ hk' = [Closing(h) EXCEPT !.session = n + 1, !.status = "connecting"]
        /\ ses \in [Connect -> SesRec] /\ con \in [Connect -> Con] /\ wk \in [Connect -> WorkerRec]
        /\ n \in Nat /\ 0 \notin Connect /\ \A d \in Connect : Obj(d) = d
    BY Zenon, Connects DEF doConnect, HookIdle, Open, BrowserInv, SesType
  <1>1. hk' \in HookRec /\ hk'.status = "connecting" /\ hk'.session = n + 1
    <2> DEFINE u == Closing(h)
    <2>1. u \in HookRec
      BY Zenon, HookFacts DEF Closing
    <2> HIDE DEF u
    <2>2. hk' = [u EXCEPT !.session = n + 1, !.status = "connecting"]
      BY Zenon, <1>0 DEF u
    <2> QED BY Zenon, <1>0, <2>1, <2>2 DEF HookRec
  <1>2. \A d \in Connect : wk[d].alive => d = s /\ s # 0 /\ ses[s].ref = s /\ ses[s].state # "closed"
    BY <1>0 DEF BrowserInv, NoOrphanWorker, Refs
  <1>3. \A p \in Connect : ses[p].state = "ready" => p = s /\ ses[s].state # "closed" /\ s # 0
    <2> SUFFICES ASSUME NEW p \in Connect, ses[p].state = "ready"
                 PROVE  p = s /\ ses[s].state # "closed" /\ s # 0
      BY Zenon
    <2>1. ses[p].ref \in Connect /\ Obj(ses[p].ref) = p /\ wk[ses[p].ref].alive
      BY Zenon DEF BrowserInv, ReadyMeansChannel, Refs
    <2>2. ses[p].ref = p
      BY Zenon, <1>0, <2>1
    <2> QED BY Zenon, <1>2, <2>1, <2>2
  <1>4. \A p \in Connect : ses[p].state \in {"idle", "closed"} => ses[p].ref = 0
    BY Zenon DEF BrowserInv, Refs
  <1>5. /\ f \in [Connect -> SesRec] /\ g \in [Connect -> Con] /\ w \in [Connect -> WorkerRec]
        /\ \A d \in Connect : ~w[d].alive /\ Line(g[d], w[d], br[d])
                              /\ (d > n => g[d] = con[d] /\ w[d] = wk[d])
        /\ \A p \in Connect :
             /\ f[p].state # "ready" /\ f[p].ref \in {0, ses[p].ref}
             /\ f[p].state \in {"idle", "closed"} => f[p].ref = 0
    <2>1. CASE s = 0 \/ ses[s].state = "closed"
      <3>1. f = ses /\ g = con /\ w = wk
        BY Zenon, <2>1, NothingToClose
      <3> HIDE DEF f, g, w
      <3> QED BY Zenon, <1>0, <1>2, <1>3, <1>4, <2>1, <3>1, Tables
    <2>2. CASE s # 0 /\ ses[s].state # "closed"
      <3>0. s \in Connect
        BY Zenon, <2>2 DEF BrowserInv, Refs
      <3>1. f = CloseSes(ses, s) /\ g = CloseCon(con, s) /\ w = CloseWk(wk, s)
        BY Zenon, <2>2 DEF SesOf, ConOf, WkOf
      <3>2. /\ w \in [Connect -> WorkerRec]
            /\ \A d \in Connect : w[d] = IF d = ses[s].ref THEN terminated ELSE wk[d]
        BY <1>0, <2>2, <3>1, NewWorkers DEF CloseWk
      <3> HIDE DEF f, g, w, s
      <3>3. PICK y \in SesRec : y.state = "closed" /\ y.ref = 0 /\ f = [ses EXCEPT ![s] = y]
        BY Zenon, <2>2, <3>0, <3>1, ClosedTables
      <3>4. /\ g \in [Connect -> Con]
            /\ \A d \in Connect : Line(g[d], wk[d], br[d]) /\ (d > n => g[d] = con[d])
        BY Zenon, <2>2, <3>0, <3>1, ClosedTables
      <3>5. /\ f \in [Connect -> SesRec] /\ f[s] = y
            /\ \A p \in Connect : p # s => f[p] = ses[p]
        BY Zenon, <1>0, <3>0, <3>3
      <3>6. \A d \in Connect : ~w[d].alive
        BY Zenon, <1>2, <3>2, NewWorkers
      <3>7. \A d \in Connect : Line(g[d], w[d], br[d])
        <4> SUFFICES ASSUME NEW d \in Connect PROVE Line(g[d], w[d], br[d])
          BY Zenon
        <4>1. Line(g[d], wk[d], br[d])
          BY Zenon, <3>4
        <4> QED BY Zenon, <3>2, <4>1, Killed
      <3>8. \A d \in Connect : d > n => w[d] = wk[d]
        <4>1. ses[s].ref # 0 => ses[s].ref <= n
          BY Zenon, <3>0 DEF BrowserInv, Refs
        <4>2. ses[s].ref \in Nat /\ Connect \subseteq Nat
          BY Zenon, <1>0, <3>0, Connects DEF SesRec
        <4>3. \A d \in Connect : d > n => d # ses[s].ref
          BY <1>0, <4>1, <4>2
        <4> QED BY Zenon, <3>2, <4>3
      <3>9. \A p \in Connect :
              /\ f[p].state # "ready" /\ f[p].ref \in {0, ses[p].ref}
              /\ f[p].state \in {"idle", "closed"} => f[p].ref = 0
        BY Zenon, <1>3, <1>4, <3>3, <3>5
      <3> QED BY Zenon, <3>2, <3>4, <3>5, <3>6, <3>7, <3>8, <3>9
    <2> QED BY Zenon, <2>1, <2>2
  <1>6. Obj(n + 1) = n + 1
    BY Zenon, <1>0
  <1>7. /\ hk'.mounted => hk'.status # "connected"
        /\ user = "hook" => hk'.session = n + 1
        /\ user = "app" => hk'.session = 0 /\ ~hk'.mounted
    BY Zenon, <1>1
  <1> DEFINE o == n + 1
  <1> HIDE DEF f, g, w, s, o
  <1>8. o \in Connect /\ UNCHANGED <<user, br, lost>> /\ Open(o, f, g, w) /\ Obj(n + 1) = o
    BY Zenon, <1>0, <1>6 DEF o
  <1> QED BY Zenon, <1>1, <1>5, <1>7, <1>8, OpenStep

\* The effect of a mount, connect() and the reconnect timers.
LEMMA HookSteps ==
  ASSUME BrowserInv, Mount \/ HookConnect \/ HookTimer
  PROVE  BrowserInv'
  <1>0. user = "hook" /\ hk \in HookRec /\ HookIdle
    BY Zenon DEF Mount, HookConnect, HookTimer, BrowserInv, SesType
  <1>1. CASE Mount
    <2> DEFINE h == [hk EXCEPT !.mounted = TRUE, !.attempts = 0]
    <2>1. h \in HookRec /\ h.session = hk.session /\ h.status = hk.status
      BY Zenon, <1>0 DEF HookRec
    <2>2. doConnect(h) \/ (hk.status = "idle" /\ hk' = h /\ UNCHANGED <<n, ses, con, wk>>)
      BY Zenon, <1>1 DEF Mount
    <2> HIDE DEF h
    <2>3. CASE doConnect(h)
      BY Zenon, <1>0, <2>1, <2>3, HookConnectStep
    <2>4. CASE hk.status = "idle" /\ hk' = h /\ UNCHANGED <<n, ses, con, wk>>
      <3>1. ConnectedIsReady'
        BY Zenon, <2>1, <2>4 DEF ConnectedIsReady
      <3> QED BY Zenon, <1>0, <2>1, <2>4, <3>1, HookStep DEF HookIdle
    <2> QED BY Zenon, <2>2, <2>3, <2>4
  <1>2. CASE HookConnect
    <2>1. doConnect(hk)
      BY Zenon, <1>2 DEF HookConnect
    <2> QED BY Zenon, <1>0, <2>1, HookConnectStep
  <1>3. CASE HookTimer
    <2>1. PICK h \in {[hk EXCEPT !.timer = FALSE], [hk EXCEPT !.leaked = @ - 1]} :
            IF hk.mounted THEN doConnect(h) ELSE hk' = h /\ UNCHANGED <<n, ses, con, wk>>
      BY Zenon, <1>3 DEF HookTimer
    <2>2. h \in HookRec /\ h.session = hk.session /\ h.mounted = hk.mounted
      <3>1. CASE h = [hk EXCEPT !.timer = FALSE]
        BY Zenon, <1>0, <3>1 DEF HookRec
      <3>2. CASE h = [hk EXCEPT !.leaked = hk.leaked - 1]
        <4>1. hk.leaked - 1 \in Int
          BY <1>0 DEF HookRec
        <4> QED BY Zenon, <1>0, <3>2, <4>1 DEF HookRec
      <3> QED BY Zenon, <2>1, <3>1, <3>2
    <2>3. CASE hk.mounted
      BY Zenon, <1>0, <2>1, <2>2, <2>3, HookConnectStep
    <2>4. CASE ~hk.mounted
      <3>1. hk' = h /\ UNCHANGED <<n, ses, con, wk>>
        BY Zenon, <2>1, <2>4
      <3>2. ConnectedIsReady'
        BY Zenon, <2>2, <2>4, <3>1 DEF ConnectedIsReady
      <3> QED BY Zenon, <1>0, <2>2, <3>1, <3>2, HookStep DEF HookIdle
    <2> QED BY Zenon, <2>3, <2>4
  <1> QED BY Zenon, <1>1, <1>2, <1>3
-----------------------------------------------------------------------------
(***************************************************************************)
(* The theorems.                                                           *)
(***************************************************************************)

\* It holds at the start: no connect has been made.
LEMMA BrowserInit == Init => BrowserInv
  <1> SUFFICES ASSUME Init PROVE BrowserInv
    BY Zenon
  <1>0. user \in {"app", "hook"} /\ n = 0
    BY Zenon DEF Init
  <1>1. Connect \subseteq Nat /\ 0 \notin Connect
    BY Zenon, <1>0, Connects
  <1>2. /\ idle \in SesRec /\ idle.state = "idle" /\ idle.ref = 0
        /\ unused \in Con
    BY Zenon, Nothing DEF idle, SesRec, unused, Con
  <1>3. \A c \in Connect : /\ ses[c] = idle /\ con[c] = unused /\ wk[c] = terminated
                           /\ br[c] = bridge("hello")
    BY Zenon DEF Init
  <1>4. bridge("hello") \in BridgeRec
    BY Zenon, NewBridge
  <1>5. hk \in HookRec /\ hk.session = 0 /\ ~hk.mounted
    BY DEF Init, HookRec
  <1>6. SesType
    <2>1. ses \in [Connect -> SesRec]
      BY Zenon, <1>2 DEF Init
    <2>2. con \in [Connect -> Con] /\ br \in [Connect -> BridgeRec]
      BY Zenon, <1>2, <1>4 DEF Init
    <2>3. wk \in [Connect -> WorkerRec]
      BY Zenon, NewWorkers DEF Init
    <2> QED BY Zenon, <1>0, <1>5, <2>1, <2>2, <2>3 DEF SesType
  <1>7. Fresh /\ Refs
    BY Zenon, <1>2, <1>3, <1>5 DEF Fresh, Refs
  <1>8. AllLines
    <2>1. Line(unused, terminated, bridge("hello"))
      BY Zenon, NewLine
    <2> QED BY Zenon, <1>3, <2>1 DEF AllLines
  <1>9. NoOrphanWorker /\ ReadyMeansChannel
    BY Zenon, <1>2, <1>3, NewWorkers DEF NoOrphanWorker, ReadyMeansChannel
  <1>10. ConnectedIsReady /\ DecodesFirstEpoch
    BY Zenon, <1>5 DEF ConnectedIsReady, DecodesFirstEpoch, Init
  <1> QED BY Zenon, <1>6, <1>7, <1>8, <1>9, <1>10 DEF BrowserInv

\* No step at all: the invariant is about the variables only.
LEMMA BrowserStutter ==
  ASSUME BrowserInv, UNCHANGED vars
  PROVE  BrowserInv'
  <1>1. ses' \in [Connect -> SesRec]
    BY Zenon DEF vars, BrowserInv, SesType
  <1>2. \A o \in Connect : ses'[o].state = ses[o].state /\ ses'[o].ref = ses[o].ref
    BY Zenon DEF vars
  <1> QED BY Zenon, <1>1, <1>2, NotedStep DEF vars

\* Every step of the SDK, of the bridge and of the network keeps the invariant.
LEMMA BrowserNext ==
  ASSUME BrowserInv, [Next]_vars
  PROVE  BrowserInv'
  <1>1. CASE AppConnect
    BY Zenon, <1>1, AppConnectStep
  <1>2. CASE AppClose
    BY Zenon, <1>2, AppCloseStep
  <1>3. ASSUME NEW s \in Send, AppSend(s) PROVE BrowserInv'
    BY Zenon, <1>3, SendStep
  <1>4. CASE Mount \/ HookConnect \/ HookTimer
    BY Zenon, <1>4, HookSteps
  <1>5. CASE HookDisconnect \/ Unmount
    BY Zenon, <1>5, LeaveStep
  <1>6. ASSUME NEW c \in Connect, Network(c) PROVE BrowserInv'
    BY Zenon, <1>6, MessageStep, ErrorStep, WsCloseStep DEF Network
  <1>7. ASSUME NEW c \in Connect, Worker(c) PROVE BrowserInv'
    BY Zenon, <1>7, WorkerSteps, AnswerSteps DEF Worker
  <1>8. ASSUME NEW c \in Connect, Bridge(c) PROVE BrowserInv'
    BY Zenon, <1>8, BridgeSteps
  <1>9. CASE UNCHANGED vars
    BY Zenon, <1>9, BrowserStutter
  <1> QED BY Zenon, <1>1, <1>2, <1>3, <1>4, <1>5, <1>6, <1>7, <1>8, <1>9 DEF Next

\* The inductive invariant of the browser SDK: the order of handshake and frames
\* on every connection, and what sessions, workers and the hook know of each other.
THEOREM BrowserInvariant == Spec => []BrowserInv
  <1>1. BrowserInv /\ [Next]_vars => BrowserInv'
    BY Zenon, BrowserNext
  <1> QED BY <1>1, BrowserInit, PTL DEF Spec

\* No key material is left behind: however connects, closes, late answers and
\* reconnect timers interleave, a worker that lives is the one that close() of the
\* current session reaches (terminateWorker in session.ts, doConnect in the hook).
THEOREM NoOrphanWorkerHolds == Spec => []NoOrphanWorker
  <1>1. BrowserInv => NoOrphanWorker
    BY Zenon DEF BrowserInv
  <1> QED BY <1>1, BrowserInvariant, PTL

\* A session in state "ready" has a living worker with a key and a socket whose
\* frames reach it, whatever rejected its handshake promise before.
THEOREM ReadyMeansChannelHolds == Spec => []ReadyMeansChannel
  <1>1. BrowserInv => ReadyMeansChannel
    BY Zenon DEF BrowserInv
  <1> QED BY <1>1, BrowserInvariant, PTL

\* No DATA frame of the first epoch ends in a CRYPTO_ERR: the replay check before
\* the await of decodeFrame and the counter set after it let every one through, in
\* whatever order Web Crypto finishes.
THEOREM DecodesFirstEpochHolds == Spec => []DecodesFirstEpoch
  <1>1. BrowserInv => DecodesFirstEpoch
    BY Zenon DEF BrowserInv
  <1> QED BY <1>1, BrowserInvariant, PTL

\* With strict, a mounted hook shows "connected" only while its session is ready.
THEOREM ConnectedIsReadyHolds == Spec => []ConnectedIsReady
  <1>1. BrowserInv => ConnectedIsReady
    BY Zenon DEF BrowserInv
  <1> QED BY <1>1, BrowserInvariant, PTL
=============================================================================
