--------------------------- MODULE ClientSession ---------------------------
(***************************************************************************)
(* The session loop of the client proxy                                    *)
(* (latticeshield-client/src/client_session.rs, `handle') over the         *)
(* connection pool: acquire a connection, run the handshake, relay, and,   *)
(* while retries are left, back off and start over when the bridge fails.  *)
(* The relay itself is the subject of RelaySession; here it is one phase   *)
(* that ends in one of the three RelayOutcomes.                            *)
(*                                                                         *)
(* `pc' names the phase of a session and how it ended: "ended" by its own  *)
(* user, "cut" (user_w shut down after a bridge failure with no retry      *)
(* left) or "refused" (authentication failure).                            *)
(***************************************************************************)
EXTENDS ConnectionPool

CONSTANT MaxRetries          \* reconnect.max_retries, 0 disables retries

ASSUME RetriesNat == MaxRetries \in Nat

VARIABLES
  pc,        \* "new", "acquire", "connect", "handshake", "relay", "backoff", ...
  attempt,   \* retries made so far; never reset
  user_eof,  \* the user has closed its sending side
  events     \* ReconnectEvents sent to reconnect_tx

sessionVars == <<pc, attempt, user_eof, events>>
vars == <<poolVars, sessionVars>>

Over == {"ended", "cut", "refused"}

Reconnected(n) == [kind |-> "Reconnected", attempt |-> n]
Exhausted(n) == [kind |-> "Exhausted", attempt |-> n]

Init ==
  /\ PoolInit
  /\ pc = [u \in User |-> "new"]
  /\ attempt = [u \in User |-> 0]
  /\ user_eof = [u \in User |-> FALSE]
  /\ events = [u \in User |-> <<>>]

Goto(u, l) == pc' = [pc EXCEPT ![u] = l]

\* The accept loop of server.rs spawns handle for a new user connection.
Accept(u) ==
  /\ pc[u] = "new"
  /\ Goto(u, "acquire")
  /\ UNCHANGED <<poolVars, attempt, user_eof, events>>

(***************************************************************************)
(* What handle does when the bridge fails it: sleep and try again while    *)
(* attempt < max, else report Exhausted (if retries are configured) and    *)
(* shut the user's side down.                                              *)
(***************************************************************************)
RetryOrCut(u) ==
  IF attempt[u] < MaxRetries
  THEN Goto(u, "backoff") /\ UNCHANGED events
  ELSE /\ Goto(u, "cut")
       /\ events' = [events EXCEPT ![u] =
            IF MaxRetries > 0 THEN Append(@, Exhausted(attempt[u])) ELSE @]

Backoff_uncounted(u) ==   \* mutant: the attempt is not counted
  /\ pc[u] = "backoff"
  /\ Goto(u, "acquire")
  /\ UNCHANGED <<poolVars, attempt, user_eof, events>>

\* The backoff sleep ends; only now is the attempt counted.
Backoff(u) ==
  /\ pc[u] = "backoff"
  /\ attempt' = [attempt EXCEPT ![u] = @ + 1]
  /\ Goto(u, "acquire")
  /\ UNCHANGED <<poolVars, user_eof, events>>

Acquire(u) ==
  /\ pc[u] = "acquire"
  /\ \/ AcquireIdle(u) /\ Goto(u, "handshake")
     \/ AcquireNone(u) /\ Goto(u, "connect")
  /\ UNCHANGED <<attempt, user_eof, events>>

Connect(u) ==
  /\ pc[u] = "connect"
  /\ ConnectOk(u)
  /\ Goto(u, "handshake")
  /\ UNCHANGED <<attempt, user_eof, events>>

AcquireFails(u) ==
  /\ pc[u] = "connect"
  /\ ConnectFails(u)
  /\ RetryOrCut(u)
  /\ UNCHANGED <<attempt, user_eof>>

(***************************************************************************)
(* do_handshake.  The ServerHello is in the socket buffer of a connection  *)
(* the bridge has accepted, even when the bridge has since timed out: the  *)
(* client then verifies it, writes its response into a closed socket and   *)
(* takes the handshake for done.                                           *)
(***************************************************************************)
Enter(u) ==
  /\ Goto(u, "relay")
  /\ events' = [events EXCEPT ![u] =
       IF attempt[u] > 0 THEN Append(@, Reconnected(attempt[u])) ELSE @]

HandshakeOk(u) ==
  /\ pc[u] = "handshake"
  /\ Enter(u)
  /\ \/ Handshaken(u)
     \/ peer[hold[u]] \in {"timedout", "dropped"} /\ UNCHANGED poolVars
  /\ UNCHANGED <<attempt, user_eof>>

\* HandshakeError::Auth, the ServerHello does not verify: no retry, no event.
HandshakeAuth(u) ==
  /\ pc[u] = "handshake"
  /\ Release(u)
  /\ Goto(u, "refused")
  /\ UNCHANGED <<attempt, user_eof, events>>

\* HandshakeError::Transport: the hello cannot be read or the response sent.
HandshakeTransport(u) ==
  /\ pc[u] = "handshake"
  /\ peer[hold[u]] \in {"timedout", "dropped"}
  /\ Release(u)
  /\ RetryOrCut(u)
  /\ UNCHANGED <<attempt, user_eof>>

(***************************************************************************)
(* run_relay.                                                              *)
(***************************************************************************)

\* read from the user returned 0: remember it and half-close to the bridge.
UserEof(u) ==
  /\ pc[u] = "relay" /\ ~user_eof[u]
  /\ user_eof' = [user_eof EXCEPT ![u] = TRUE]
  /\ UNCHANGED <<poolVars, pc, attempt, events>>

\* UserError: reading from or writing to the user failed.
UserError(u) ==
  /\ pc[u] = "relay"
  /\ Release(u)
  /\ Goto(u, "ended")
  /\ UNCHANGED <<attempt, user_eof, events>>

BridgeGone(u) == pc[u] = "relay" /\ peer[hold[u]] \in {"timedout", "dropped"}

CleanEnd_returns(u) ==   \* mutant: the connection is put back into the pool
  /\ BridgeGone(u) /\ user_eof[u]
  /\ idle' = Append(idle, hold[u])
  /\ hold' = [hold EXCEPT ![u] = 0]
  /\ Goto(u, "ended")
  /\ UNCHANGED <<now, born, peer, warm, to_add, new_conns, shutdown, connecting,
                 attempt, user_eof, events>>

\* UserEof: the bridge closed after the user had: a clean end.
CleanEnd(u) ==
  /\ BridgeGone(u) /\ user_eof[u]
  /\ Release(u)
  /\ Goto(u, "ended")
  /\ UNCHANGED <<attempt, user_eof, events>>

BridgeError_any(u) ==   \* mutant: the user's EOF is not looked at
  /\ BridgeGone(u)
  /\ Release(u)
  /\ RetryOrCut(u)
  /\ UNCHANGED <<attempt, user_eof>>

\* BridgeError: the bridge failed while the user was still there.
BridgeError(u) ==
  /\ BridgeGone(u) /\ ~user_eof[u]
  /\ Release(u)
  /\ RetryOrCut(u)
  /\ UNCHANGED <<attempt, user_eof>>

-----------------------------------------------------------------------------

SessionStep(u) ==
  \/ Accept(u) \/ Acquire(u) \/ Connect(u) \/ AcquireFails(u) \/ Backoff(u)
  \/ HandshakeOk(u) \/ HandshakeAuth(u) \/ HandshakeTransport(u)
  \/ UserEof(u) \/ UserError(u) \/ CleanEnd(u) \/ BridgeError(u)

PoolStep ==
  \/ Tick
  \/ \E c \in Open : BridgeTimesOut(c) \/ BridgeDrops(c)
  \/ WarmStep
  \/ ShutdownSend \/ ShutdownDrain

Next == (\E u \in User : SessionStep(u)) \/ (PoolStep /\ UNCHANGED sessionVars)

Spec == Init /\ [][Next]_vars

(***************************************************************************)
(* Fairness: a connect and a handshake return (the bridge times the        *)
(* handshake out), the backoff sleep ends, a closed socket is read as end  *)
(* of file, and the bridge closes a session whose client has half-closed   *)
(* (EndsTogether of RelaySession).  Users and the bridge are free.        *)
(***************************************************************************)
Fairness ==
  \A u \in User :
    /\ WF_vars(Acquire(u) \/ Connect(u) \/ AcquireFails(u) \/ Backoff(u))
    /\ WF_vars(HandshakeOk(u) \/ HandshakeAuth(u) \/ HandshakeTransport(u))
    /\ WF_vars(CleanEnd(u) \/ BridgeError(u))
    /\ WF_vars(user_eof[u] /\ hold[u] # 0 /\ BridgeDrops(hold[u])
                 /\ UNCHANGED sessionVars)

FairSpec == Spec /\ Fairness /\ PoolFairness

-----------------------------------------------------------------------------
(* Properties *)

\* What a session does about failures stays in order.  A subscriber to
\* reconnect_tx sees Reconnected events with growing attempt numbers and at most
\* one Exhausted, the last event of a session that was cut: none comes late or
\* twice.  And once the user has closed its side no new bridge connection is
\* made on its behalf: the session is in its last relay or over.
RetriesInOrder ==
  \A u \in User :
    /\ user_eof[u] => pc[u] \in {"relay"} \cup Over
    /\ \A i \in DOMAIN events[u] :
         /\ events[u][i].kind = "Exhausted" =>
              i = Len(events[u]) /\ pc[u] = "cut" /\ events[u][i].attempt = MaxRetries
         /\ events[u][i].kind = "Reconnected" =>
              \A j \in 1..(i - 1) : events[u][j].attempt < events[u][i].attempt

\* The sessions use the pool as the pool's own specification says.
UsesPool == PoolSpec

\* No connection outlives its use: on every way out of the session loop, and
\* before every backoff, the session has dropped the connection it acquired,
\* and a connect is on its way exactly while the session waits for it.
HoldsOnlyInUse ==
  \A u \in User :
    /\ hold[u] # 0 <=> pc[u] \in {"handshake", "relay"}
    /\ u \in connecting <=> pc[u] = "connect"

\* How far a session is from its end within one attempt.
Rank(l) == CASE l = "new" -> 6 [] l = "acquire" -> 5 [] l = "connect" -> 4
             [] l = "handshake" -> 3 [] l = "relay" -> 2 [] l = "backoff" -> 1
             [] OTHER -> 0

\* A session cannot go round for ever, however the bridge fails it: each move
\* takes it nearer to the end of its attempt or uses up one of max_retries, and
\* relaying for a while does not give a retry back (attempt is never reset).
RetriesRunOut ==
  /\ [](\A u \in User : attempt[u] <= MaxRetries)
  /\ [][\A u \in User : pc'[u] # pc[u] \/ attempt'[u] # attempt[u] =>
          \/ attempt[u] < attempt'[u]
          \/ attempt'[u] = attempt[u] /\ Rank(pc'[u]) < Rank(pc[u])]_vars

\* Everything the client runs for a user comes to rest.  However the bridge
\* fails, a session comes to relay or to an end: it does not retry for ever.  A
\* user that closes its side sees the session end.  And after
\* ConnectionPool::shutdown the warm_loop task returns, also when the signal
\* arrives in the middle of a round of connects.
Settles ==
  /\ \A u \in User : (pc[u] = "acquire") ~> (pc[u] \in {"relay"} \cup Over)
  /\ \A u \in User : user_eof[u] ~> (pc[u] \in Over)
  /\ (shutdown # "no") ~> (warm = "done")
=============================================================================
