--------------------------- MODULE BrowserSession ---------------------------
(***************************************************************************)
(* The browser SDK (latticeshield-js): PQCSession on the main thread       *)
(* (session.ts), one CryptoWorker per connect, the WebSocket to the bridge *)
(* and the bridge's EncryptedChannel behind it; and the React hook         *)
(* (hooks/usePQCSession.ts) that reconnects.                               *)
(*                                                                         *)
(* JavaScript runs an event handler and the promise continuations it       *)
(* releases to the end: a handler with them is one action.                 *)
(*                                                                         *)
(* A connect() is numbered.  With user = "app" the application owns one    *)
(* PQCSession and may connect it again after it closed; with user = "hook" *)
(* every connect is that of a new PQCSession the hook made.                *)
(***************************************************************************)
EXTENDS CryptoWorker

CONSTANTS
  Send,           \* calls of send()
  Strict,         \* PQCSessionOptions.strict
  MaxReconnect,   \* maxReconnectAttempts
  AppConnects,    \* bound: connects of an application's session
  HookConnects,   \* bound: connects of the hook
  MaxFrames       \* bound: frames the bridge sends on a connection

ASSUME BrowserAssumption ==
  /\ Strict \in BOOLEAN /\ MaxReconnect \in Nat
  /\ AppConnects \in Nat \ {0} /\ HookConnects \in Nat \ {0}
  /\ MaxFrames \in Nat

VARIABLES
  user,     \* "app" or "hook"
  n,        \* connects made so far
  ses,      \* PQCSession objects
  con,      \* the WebSocket and the handshake promise of a connect
  wk,       \* its worker
  br,       \* the bridge's end of it
  snd,      \* what became of a send()
  lost,     \* DATA frames of the bridge that ended in a CRYPTO_ERR
  hk        \* the hook

vars == <<user, n, ses, con, wk, br, snd, lost, hk>>

Connect == 1 .. IF user = "hook" THEN HookConnects ELSE AppConnects
Obj(c) == IF user = "hook" THEN c ELSE 1

\* ref is this.ws and this.worker, which are set and cleared together (0 = null).
idle == [state |-> "idle", intentional |-> FALSE, ref |-> 0, rotating |-> FALSE,
         sendQueue |-> <<>>]
unused == [sock |-> "none", listeners |-> "none", promise |-> "none", in |-> <<>>]
bridge(phase) == [phase |-> phase, ch |-> new(0), in |-> <<>>, sent |-> 0]
waiting == [sock |-> "open", listeners |-> "handshake", promise |-> "pending", in |-> <<>>]

Init ==
  /\ user \in {"app", "hook"} /\ n = 0
  /\ ses = [o \in Connect |-> idle]
  /\ con = [c \in Connect |-> unused]
  /\ wk = [c \in Connect |-> terminated]
  /\ br = [c \in Connect |-> bridge("hello")]
  /\ snd = [s \in Send |-> "new"]
  /\ lost = {}
  /\ hk = [status |-> "idle", session |-> 0, attempts |-> 0, timer |-> FALSE,
           leaked |-> 0, mounted |-> FALSE]

-----------------------------------------------------------------------------
(* The hook's handlers: its record after an event.                         *)

HookClose_silent(h) ==   \* mutant: without setStatus
  IF h.mounted /\ h.attempts < MaxReconnect
  THEN [h EXCEPT !.attempts = @ + 1, !.timer = TRUE, !.leaked = IF h.timer THEN @ + 1 ELSE @]
  ELSE h

\* The last timer is kept in reconnectTimerRef; one it replaces still runs.
HookClose(h) ==
  IF ~h.mounted THEN h
  ELSE IF h.attempts < MaxReconnect
       THEN [h EXCEPT !.status = "disconnected", !.attempts = @ + 1, !.timer = TRUE,
                      !.leaked = IF h.timer THEN @ + 1 ELSE @]
       ELSE [h EXCEPT !.status = "disconnected"]

HookError(h) == IF h.mounted THEN [h EXCEPT !.status = "error"] ELSE h

HookConnected(h) ==
  IF h.mounted THEN [h EXCEPT !.status = "connected", !.attempts = 0] ELSE h

\* connect() failed: it emits "error", and settles.
HookFailed(h) == IF Strict THEN HookError(h) ELSE HookConnected(HookError(h))

Hook(op(_)) == hk' = IF user = "hook" THEN op(hk) ELSE hk

-----------------------------------------------------------------------------
(* PQCSession: pieces.                                                     *)

\* drainPending: what is in the Maps is rejected; a send waiting for a
\* rotation goes on to encryptAndSend, where it finds no worker.
Drained_keeps(f) ==   \* mutant: the pending operations are dropped, not rejected
  [s \in Send |-> IF f[s] = "queued" THEN "orphaned" ELSE f[s]]

Drained(f) ==
  [s \in Send |-> IF f[s] \in {"posted", "orphaned"} THEN "rejected"
                  ELSE IF f[s] = "queued" THEN "orphaned" ELSE f[s]]

ClosedSes_keeps(x) == [x EXCEPT !.ref = 0, !.sendQueue = <<>>]   \* mutant: state is kept

ClosedSes(x) == [x EXCEPT !.state = "closed", !.ref = 0, !.sendQueue = <<>>]

\* Only the listeners installed after the handshake are removed.
Unlisten(l) == IF l = "session" THEN "none" ELSE l

\* ws.close(): a socket that is closing delivers no more messages.
Shut(x) == [x EXCEPT !.sock = IF @ = "open" THEN "closing" ELSE @, !.in = <<>>]

ClosedCon(x) == [Shut(x) EXCEPT !.listeners = Unlisten(@)]

\* close() of session o, as a change of the three tables.
CloseSes(f, o) ==
  IF f[o].state = "closed" THEN f
  ELSE [f EXCEPT ![o] = [ClosedSes(@) EXCEPT !.intentional = TRUE]]

CloseCon(f, o) ==
  [c \in Connect |-> IF c = ses[o].ref /\ ses[o].state # "closed"
                     THEN ClosedCon(f[c]) ELSE f[c]]

CloseWk_keeps(f, o) == f   \* mutant: the worker is not terminated

CloseWk(f, o) ==
  [c \in Connect |-> IF c = ses[o].ref /\ ses[o].state # "closed"
                     THEN terminated ELSE f[c]]

\* connect() of session o: connect number n + 1.
Opened(x) == [x EXCEPT !.state = "connecting", !.intentional = FALSE, !.ref = n + 1]

\* The handshake promise of c is rejected, unless it is settled.
Rejected(c, k) ==
  IF con[c].promise = "pending"
  THEN /\ ses' = [ses EXCEPT ![Obj(c)].state = "error"]
       /\ con' = [con EXCEPT ![c] = [k EXCEPT !.promise = "rejected"]]
       /\ Hook(HookFailed)
  ELSE con' = [con EXCEPT ![c] = k] /\ UNCHANGED <<ses, hk>>

ToWorker(c, m) == wk' = [wk EXCEPT ![c] = posted(@, m)]

\* connect() of session o is number n + 1: spawnWorker and the WebSocket.
Open(o, f, g, w) ==
  /\ n + 1 \in Connect
  /\ n' = n + 1
  /\ ses' = [f EXCEPT ![o] = Opened(@)]
  /\ con' = [g EXCEPT ![n + 1] = waiting]
  /\ wk' = [w EXCEPT ![n + 1] = spawned]

\* The queued sends go on, in order, to encryptAndSend.
Resumed(w, q) == [w EXCEPT !.inbox = @ \o [i \in DOMAIN q |-> [t |-> "ENCRYPT", id |-> q[i]]]]

-----------------------------------------------------------------------------
(* The application's calls, each in a task of its own.                     *)

AppConnect ==
  /\ user = "app"
  /\ IF ses[1].state \in {"idle", "closed"}
     THEN Open(1, ses, con, wk)
     ELSE ses' = [ses EXCEPT ![1].intentional = FALSE] /\ UNCHANGED <<n, con, wk>>
  /\ UNCHANGED <<user, br, snd, lost, hk>>

AppClose ==
  /\ user = "app" /\ ses[1].state # "closed"
  /\ ses' = CloseSes(ses, 1) /\ con' = CloseCon(con, 1) /\ wk' = CloseWk(wk, 1)
  /\ snd' = Drained(snd)
  /\ UNCHANGED <<user, n, br, lost, hk>>

\* send() throws unless the session is ready.
AppSend(s) ==
  /\ user = "app" /\ snd[s] = "new" /\ ses[1].state = "ready"
  /\ IF ses[1].rotating
     THEN /\ ses' = [ses EXCEPT ![1].sendQueue = Append(@, s)]
          /\ snd' = [snd EXCEPT ![s] = "queued"]
          /\ UNCHANGED wk
     ELSE /\ ToWorker(ses[1].ref, [t |-> "ENCRYPT", id |-> s])
          /\ snd' = [snd EXCEPT ![s] = "posted"]
          /\ UNCHANGED ses
  /\ UNCHANGED <<user, n, con, br, lost, hk>>

-----------------------------------------------------------------------------
(* Events of the WebSocket.                                                *)

\* onMessage of the handshake; a message of another length fails it.
HandshakeMessage(c, m) ==
  IF m.t = "HELLO"
  THEN /\ ToWorker(c, [t |-> "INIT", hello |-> m.hello])
       /\ con' = [con EXCEPT ![c].in = Tail(@)] /\ UNCHANGED <<ses, hk>>
  ELSE Rejected(c, Shut(con[c])) /\ UNCHANGED wk

onFrameMessage(c, f) ==
  /\ con' = [con EXCEPT ![c].in = Tail(@)]
  /\ IF f.type = "KEY_ROTATE"
     THEN /\ ses' = [ses EXCEPT ![Obj(c)].rotating = TRUE]
          /\ ToWorker(c, [t |-> "KEY_ROTATE", f |-> f])
     ELSE ToWorker(c, [t |-> "DECRYPT", f |-> f]) /\ UNCHANGED ses
  /\ UNCHANGED hk

WsMessage(c) ==
  /\ con[c].sock = "open" /\ con[c].in # <<>>
  /\ IF con[c].listeners = "handshake"
     THEN HandshakeMessage(c, Head(con[c].in))
     ELSE onFrameMessage(c, Head(con[c].in))
  /\ UNCHANGED <<user, n, br, snd, lost>>

HandshakeTimeout(c) ==
  /\ con[c].promise = "pending"
  /\ Rejected(c, Shut(con[c]))
  /\ UNCHANGED <<user, n, wk, br, snd, lost>>

handleWsError(c) ==
  /\ con' = [con EXCEPT ![c] = Shut(@)]
  /\ IF ses[Obj(c)].state # "closed" THEN Hook(HookError) ELSE UNCHANGED hk
  /\ UNCHANGED ses

\* An error event; a close event always follows it.
WsError(c) ==
  /\ con[c].sock = "open"
  /\ IF con[c].listeners = "handshake" THEN Rejected(c, Shut(con[c])) ELSE handleWsError(c)
  /\ UNCHANGED <<user, n, wk, br, snd, lost>>

Gone(x) == [Shut(x) EXCEPT !.sock = "closed"]

handleWsClose(c) ==
  LET o == Obj(c)
  IN  IF ses[o].state = "closed" \/ ses[o].intentional
      THEN con' = [con EXCEPT ![c] = Gone(@)] /\ UNCHANGED <<ses, wk, snd, hk>>
      ELSE /\ ses' = [ses EXCEPT ![o] = ClosedSes(@)]
           /\ con' = [con EXCEPT ![c] = [Gone(@) EXCEPT !.listeners = "none"]]
           /\ wk' = CloseWk(wk, o)
           /\ snd' = IF user = "app" THEN Drained(snd) ELSE snd
           /\ Hook(HookClose)

WsClose(c) ==
  /\ con[c].sock \in {"open", "closing"}
  /\ CASE con[c].listeners = "handshake" ->
            Rejected(c, Gone(con[c])) /\ UNCHANGED <<wk, snd>>
       [] con[c].listeners = "session" -> handleWsClose(c)
       [] OTHER -> con' = [con EXCEPT ![c] = Gone(@)] /\ UNCHANGED <<ses, wk, snd, hk>>
  /\ br' = [br EXCEPT ![c] = bridge("down")]
  /\ UNCHANGED <<user, n, lost>>

-----------------------------------------------------------------------------
(* The worker, and its messages on the main thread.                        *)

WorkerTake(c) ==
  /\ wk[c].alive /\ wk[c].inbox # <<>>
  /\ wk' = [wk EXCEPT ![c] = Take(@)]
  /\ UNCHANGED <<user, n, ses, con, br, snd, lost, hk>>

WorkerFinish(c) ==
  /\ wk[c].alive
  /\ \E op \in wk[c].ops : wk' = [wk EXCEPT ![c] = Finish(@, op)]
  /\ UNCHANGED <<user, n, ses, con, br, snd, lost, hk>>

\* ws.send on a socket that is closing drops the message.
WsSend(c, m) ==
  br' = IF con[c].sock = "open" THEN [br EXCEPT ![c].in = Append(@, m)] ELSE br

\* INIT_OK ends the handshake even if its promise was rejected before.
onInitOk(c) ==
  LET first == con[c].promise = "pending"
  IN  /\ WsSend(c, [type |-> "RESPONSE"])
      /\ con' = [con EXCEPT ![c].listeners = "session",
                            ![c].promise = IF first THEN "resolved" ELSE @]
      /\ ses' = IF first THEN [ses EXCEPT ![Obj(c)].state = "ready"] ELSE ses
      /\ IF first THEN Hook(HookConnected) ELSE UNCHANGED hk

\* Whether the rotation succeeded or not, the queued sends go on.
onRotated(c, v) ==
  /\ ses' = [ses EXCEPT ![Obj(c)].rotating = FALSE, ![Obj(c)].sendQueue = <<>>]
  /\ wk' = [wk EXCEPT ![c] = Resumed(v, ses[Obj(c)].sendQueue)]
  /\ snd' = [s \in Send |-> IF snd[s] = "queued" THEN "posted" ELSE snd[s]]

onWorkerMessage(c) ==
  /\ wk[c].alive /\ wk[c].outbox # <<>>
  /\ LET m == Head(wk[c].outbox)
         v == [wk[c] EXCEPT !.outbox = Tail(@)]
         taken == wk' = [wk EXCEPT ![c] = v]
     IN  CASE m.t = "INIT_OK" -> onInitOk(c) /\ taken /\ UNCHANGED <<snd, lost>>
           [] m.t = "INIT_ERR" ->
                /\ Rejected(c, Shut(con[c]))
                /\ taken /\ UNCHANGED <<br, snd, lost>>
           [] m.t = "ENCRYPTED" ->
                /\ WsSend(c, m.f) /\ snd' = [snd EXCEPT ![m.id] = "sent"]
                /\ taken /\ UNCHANGED <<ses, con, lost, hk>>
           [] m.t = "DECRYPTED" -> taken /\ UNCHANGED <<ses, con, br, snd, lost, hk>>
           [] m.t = "CRYPTO_ERR" ->
                /\ IF m.of.t = "ENCRYPT"
                   THEN snd' = [snd EXCEPT ![m.of.id] = "rejected"] /\ UNCHANGED lost
                   ELSE lost' = lost \cup {m.of.f} /\ UNCHANGED snd
                /\ taken /\ Hook(HookError) /\ UNCHANGED <<ses, con, br>>
           [] m.t = "KEY_ROTATED" -> onRotated(c, v) /\ UNCHANGED <<con, br, lost, hk>>
           [] m.t = "KEY_ROTATE_ERR" ->
                onRotated(c, v) /\ Hook(HookError) /\ UNCHANGED <<con, br, lost>>
  /\ UNCHANGED <<user, n>>

-----------------------------------------------------------------------------
(* The bridge's end, as the browser meets it: handle_connection behind     *)
(* the WebSocket adapter.  The rest of the bridge is in RelaySession.      *)

Sent(c, f, ch) ==
  /\ con' = [con EXCEPT ![c].in = Append(@, f)]
  /\ br' = [br EXCEPT ![c].ch = ch, ![c].sent = @ + 1]

BridgeHello(c) ==
  /\ con[c].sock = "open" /\ br[c].phase = "hello"
  /\ \E m \in {[t |-> "HELLO", hello |-> "good"], [t |-> "HELLO", hello |-> "bad"],
               [t |-> "OTHER"]} :
       con' = [con EXCEPT ![c].in = <<m>>]
  /\ br' = [br EXCEPT ![c].phase = "response"]
  /\ UNCHANGED <<user, n, ses, wk, snd, lost, hk>>

\* A frame that does not open ends the session.
BridgeRead(c) ==
  /\ br[c].in # <<>> /\ br[c].phase \in {"response", "up"}
  /\ LET f == Head(br[c].in)
         b == [br[c] EXCEPT !.in = Tail(@)]
     IN  br' = [br EXCEPT ![c] =
                 IF f.type = "RESPONSE" THEN [b EXCEPT !.phase = "up"]
                 ELSE IF header_error(b.ch, f) = "none" /\ opens(b.ch, f)
                      THEN [b EXCEPT !.ch = accept(@, f)]
                      ELSE bridge("down")]
  /\ UNCHANGED <<user, n, ses, con, wk, snd, lost, hk>>

\* Bound: the bridge sends on an application's first connection.  A later one has
\* a worker of its own; what a rotation leaves in the session is still there.
Chatty(c) ==
  user = "app" /\ c = 1 /\ con[c].sock = "open" /\ br[c].phase = "up" /\ br[c].sent < MaxFrames

BridgeData(c) ==
  /\ Chatty(c)
  /\ Sent(c, data_frame(br[c].ch, 0), write_frame(br[c].ch))
  /\ UNCHANGED <<user, n, ses, wk, snd, lost, hk>>

BridgeRotate(c) ==
  /\ Chatty(c)
  /\ \E r \in RotationNonce :
       Sent(c, key_rotate_frame(br[c].ch, r), rotate_key(send_key_rotate(br[c].ch), r))
  /\ UNCHANGED <<user, n, ses, wk, snd, lost, hk>>

-----------------------------------------------------------------------------
(* The hook.                                                               *)

\* h after close() of its session, whose "close" event calls it back.
Closing(h) ==
  IF h.session # 0 /\ ses[h.session].state # "closed" THEN HookClose(h) ELSE h

\* The tables after close() of h's session, if it has one.
SesOf(h) == IF h.session # 0 THEN CloseSes(ses, h.session) ELSE ses
ConOf(h) == IF h.session # 0 THEN CloseCon(con, h.session) ELSE con
WkOf(h) == IF h.session # 0 THEN CloseWk(wk, h.session) ELSE wk

\* The timers are left alone.
doConnect(h) ==
  /\ Open(n + 1, SesOf(h), ConOf(h), WkOf(h))
  /\ hk' = [Closing(h) EXCEPT !.session = n + 1, !.status = "connecting"]

HookIdle == UNCHANGED <<user, br, snd, lost>>

\* The effect of a mount, with autoConnect or without it; React may run it again
\* on the same refs and state after an unmount (StrictMode).
Mount ==
  /\ user = "hook" /\ ~hk.mounted
  /\ LET h == [hk EXCEPT !.mounted = TRUE, !.attempts = 0]
     IN  doConnect(h) \/ (hk.status = "idle" /\ hk' = h /\ UNCHANGED <<n, ses, con, wk>>)
  /\ HookIdle

HookConnect == user = "hook" /\ hk.mounted /\ doConnect(hk) /\ HookIdle

\* A reconnect timer runs out: the one in reconnectTimerRef, or a lost one.
HookTimer ==
  /\ user = "hook"
  /\ \E h \in {[hk EXCEPT !.timer = FALSE], [hk EXCEPT !.leaked = @ - 1]} :
       /\ h # hk /\ h.leaked >= 0
       /\ IF hk.mounted THEN doConnect(h) ELSE hk' = h /\ UNCHANGED <<n, ses, con, wk>>
  /\ HookIdle

CloseCurrent(h) ==
  /\ ses' = SesOf(h) /\ con' = ConOf(h) /\ wk' = WkOf(h)
  /\ UNCHANGED <<n>> /\ HookIdle

HookDisconnect ==
  /\ user = "hook" /\ hk.mounted
  /\ CloseCurrent(hk)
  /\ hk' = [Closing([hk EXCEPT !.timer = FALSE, !.attempts = MaxReconnect])
              EXCEPT !.session = 0, !.status = "disconnected"]

Unmount ==
  /\ user = "hook" /\ hk.mounted
  /\ CloseCurrent(hk)
  /\ hk' = [hk EXCEPT !.mounted = FALSE, !.timer = FALSE, !.session = 0]

-----------------------------------------------------------------------------
Network(c) == WsMessage(c) \/ WsError(c) \/ WsClose(c) \/ HandshakeTimeout(c)
Worker(c) == WorkerTake(c) \/ WorkerFinish(c) \/ onWorkerMessage(c)
Bridge(c) == BridgeHello(c) \/ BridgeRead(c) \/ BridgeData(c) \/ BridgeRotate(c)

Next ==
  \/ AppConnect \/ AppClose \/ \E s \in Send : AppSend(s)
  \/ Mount \/ HookConnect \/ HookTimer \/ HookDisconnect \/ Unmount
  \/ \E c \in Connect : Network(c) \/ Worker(c) \/ Bridge(c)

\* The event loops go on: a worker's, and the main thread's for what it posts.
Spec == Init /\ [][Next]_vars /\ \A c \in 1 .. AppConnects : WF_vars(c \in Connect /\ Worker(c))

-----------------------------------------------------------------------------
(* Properties.                                                             *)

\* Key material is never left behind: a worker that lives is the one its session
\* refers to, and in the hook that session is the current one, so that close()
\* reaches it; handleWsClose, close() and doConnect terminate all others.
NoOrphanWorker ==
  \A c \in Connect : wk[c].alive =>
    /\ ses[Obj(c)].ref = c
    /\ user = "hook" => hk.session = c

\* A session that says it is ready has a worker with a key and a socket whose
\* frames reach it, however connects, closes and late answers interleave.
ReadyMeansChannel ==
  \A o \in Connect : ses[o].state = "ready" =>
    LET c == ses[o].ref
    IN  c # 0 /\ wk[c].alive /\ wk[c].init /\ con[c].listeners = "session"

\* No DATA frame the bridge sent under the session key is lost to the browser:
\* the worker's checks before and after its awaits let all of them through.
DecodesFirstEpoch == \A f \in lost : f.key # <<>>

\* With strict, a mounted hook that shows "connected" holds a session that is ready.
ConnectedIsReady ==
  Strict /\ hk.mounted /\ hk.status = "connected" =>
    hk.session # 0 /\ ses[hk.session].state = "ready"

\* A send handed to the worker settles: it is sent, or close() and an unexpected
\* close of the socket reject it.
EncryptSettles == \A s \in Send : snd[s] = "posted" ~> snd[s] \in {"sent", "rejected"}

\* What hooks/usePQCSession documents: disconnect() disables auto-reconnect, so a
\* disconnected hook is left alone until the application calls connect().
DisconnectHolds == hk.mounted /\ hk.session = 0 => ~hk.timer /\ hk.leaked = 0
=============================================================================
