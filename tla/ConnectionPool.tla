--------------------------- MODULE ConnectionPool ---------------------------
(***************************************************************************)
(* The client proxy's pool of pre-opened connections to the bridge         *)
(* (latticeshield-client/src/pool.rs) with the two parties that use it:    *)
(* the warm_loop task, which counts the idle connections, opens the        *)
(* missing ones outside the lock and pushes them later, and the user       *)
(* sessions, which acquire a connection each.                              *)
(*                                                                         *)
(* A connection is the number of the connect that opened it.  The mutex of *)
(* PoolInner makes each locked block one step; everything the code does    *)
(* outside the lock (the connects, the sleep) is a step of its own.  Time  *)
(* is the counter `now', advanced by Tick.  The bridge's half of a         *)
(* connection is `peer': it waits for the handshake, and gives up after    *)
(* HandshakeTimeout (latticeshield-bridge/src/session.rs).                 *)
(***************************************************************************)
EXTENDS Naturals, Sequences

CONSTANTS User,              \* user sessions of the client proxy
          WarmSize,          \* pool.warm_size
          MaxSize,           \* pool.max_size
          IdleTimeout,       \* pool.idle_timeout_secs
          HandshakeTimeout,  \* the bridge's handshake_timeout_secs
          MaxTime,           \* bound: the clock stops here
          MaxConns           \* bound: connections opened in a behaviour

\* ValidClientConfig::validate accepts only these sizes and timeouts.
ASSUME PoolConfig ==
  /\ WarmSize \in Nat /\ MaxSize \in Nat \ {0} /\ WarmSize <= MaxSize
  /\ IdleTimeout \in Nat \ {0}
  /\ HandshakeTimeout \in Nat \ {0}
  /\ MaxTime \in Nat /\ MaxConns \in Nat

VARIABLES
  now,         \* the clock
  born,        \* born[c]: when connection c was opened (IdleConn::created_at)
  peer,        \* peer[c]: what the bridge has done with connection c
  idle,        \* PoolInner::idle, front first
  warm,        \* where warm_loop is: "sleep", "connect" or "done"
  to_add,      \* connects of the current round still in the JoinSet
  new_conns,   \* connections of the current round already joined
  shutdown,    \* "no", "sent" (watch set), "drained" (idle emptied)
  connecting,  \* users in acquire's fresh connect
  hold         \* hold[u]: the connection user u was given, 0 for none

poolVars == <<now, born, peer, idle, warm, to_add, new_conns, shutdown,
              connecting, hold>>

\* The smaller of two numbers.
Least(a, b) == IF a <= b THEN a ELSE b

\* usize::saturating_sub.
Minus(a, b) == IF a >= b THEN a - b ELSE 0

Stale_late(c) == now - born[c] > IdleTimeout   \* mutant: `>' for `>='

\* created_at.elapsed() >= timeout, the test of the eviction loop.
Stale(c) == now - born[c] >= IdleTimeout

\* The elements of a sequence.
Elems(s) == {s[i] : i \in DOMAIN s}

\* The connections some part of the client proxy still has in its hands.
Open == Elems(idle) \cup Elems(new_conns) \cup ({hold[u] : u \in User} \ {0})

PoolInit ==
  /\ now = 0 /\ born = <<>> /\ peer = <<>>
  /\ idle = <<>> /\ warm = "sleep" /\ to_add = 0 /\ new_conns = <<>>
  /\ shutdown = "no"
  /\ connecting = {} /\ hold = [u \in User |-> 0]

Tick ==
  /\ now < MaxTime
  /\ now' = now + 1
  /\ UNCHANGED <<born, peer, idle, warm, to_add, new_conns, shutdown,
                 connecting, hold>>

(***************************************************************************)
(* The bridge's half of a connection.                                      *)
(***************************************************************************)

\* A connect succeeds: the bridge has accepted and waits for the handshake.
Opened ==
  /\ Len(born) < MaxConns
  /\ born' = Append(born, now)
  /\ peer' = Append(peer, "waiting")

\* The bridge's handshake timer runs out and the handler drops the socket.
BridgeTimesOut(c) ==
  /\ peer[c] = "waiting"
  /\ now - born[c] >= HandshakeTimeout
  /\ peer' = [peer EXCEPT ![c] = "timedout"]
  /\ UNCHANGED <<now, born, idle, warm, to_add, new_conns, shutdown,
                 connecting, hold>>

\* The bridge drops a connection for any other reason: the per-IP cap, a
\* restart, the end of the session.
BridgeDrops(c) ==
  /\ peer[c] \in {"waiting", "session"}
  /\ peer' = [peer EXCEPT ![c] = "dropped"]
  /\ UNCHANGED <<now, born, idle, warm, to_add, new_conns, shutdown,
                 connecting, hold>>

(***************************************************************************)
(* acquire: evict the stale connections at the front, pop the next one, or *)
(* open a fresh connection once the lock is released.                      *)
(***************************************************************************)
Acquiring(u) == hold[u] = 0 /\ u \notin connecting

Popped_peek(k) == SubSeq(idle, k, Len(idle))   \* mutant: front() for pop_front()

\* The queue once the k-th connection is popped, the stale ones before it evicted.
Popped(k) == SubSeq(idle, k + 1, Len(idle))

AcquireIdle(u) ==
  /\ Acquiring(u)
  /\ \E k \in 1..Len(idle) :
       /\ ~Stale(idle[k])
       /\ \A j \in 1..(k - 1) : Stale(idle[j])
       /\ hold' = [hold EXCEPT ![u] = idle[k]]
       /\ idle' = Popped(k)
  /\ UNCHANGED <<now, born, peer, warm, to_add, new_conns, shutdown, connecting>>

AcquireNone(u) ==
  /\ Acquiring(u)
  /\ \A k \in 1..Len(idle) : Stale(idle[k])
  /\ idle' = <<>>
  /\ connecting' = connecting \cup {u}
  /\ UNCHANGED <<now, born, peer, warm, to_add, new_conns, shutdown, hold>>

ConnectOk(u) ==
  /\ u \in connecting
  /\ Opened
  /\ connecting' = connecting \ {u}
  /\ hold' = [hold EXCEPT ![u] = Len(born) + 1]
  /\ UNCHANGED <<now, idle, warm, to_add, new_conns, shutdown>>

ConnectFails(u) ==
  /\ u \in connecting
  /\ connecting' = connecting \ {u}
  /\ UNCHANGED <<now, born, peer, idle, warm, to_add, new_conns, shutdown, hold>>

\* The bridge reads the ClientResponse in time: the timer no longer runs.
Handshaken(u) ==
  /\ hold[u] # 0 /\ peer[hold[u]] = "waiting"
  /\ peer' = [peer EXCEPT ![hold[u]] = "session"]
  /\ UNCHANGED <<now, born, idle, warm, to_add, new_conns, shutdown,
                 connecting, hold>>

\* The session drops its stream: a connection never goes back to the pool.
Release(u) ==
  /\ hold[u] # 0
  /\ hold' = [hold EXCEPT ![u] = 0]
  /\ UNCHANGED <<now, born, peer, idle, warm, to_add, new_conns, shutdown,
                 connecting>>

(***************************************************************************)
(* warm_loop and shutdown.                                                 *)
(***************************************************************************)

Missing_uncounted(count) == Least(WarmSize, MaxSize)   \* mutant: idle ones forgotten

\* How many connections a round opens for a given idle count.
Missing(count) == Least(Minus(WarmSize, count), Minus(MaxSize, count))

\* Back at select!: a shutdown flagged meanwhile is seen at once, because the
\* new sleep (warm_interval_secs >= 1) cannot have elapsed.
LoopTop == IF shutdown = "no" THEN "sleep" ELSE "done"

\* The sleep arm fires (it may beat a shutdown flagged meanwhile); the idle
\* connections are counted under the lock and the missing connects spawned.
WarmWake ==
  /\ warm = "sleep"
  /\ WarmSize # 0
  /\ to_add' = Missing(Len(idle))
  /\ warm' = IF to_add' = 0 THEN LoopTop ELSE "connect"
  /\ UNCHANGED <<now, born, peer, idle, new_conns, shutdown, connecting, hold>>

\* join_next returns a connection; created_at is taken here.
WarmConnectOk ==
  /\ to_add > 0
  /\ Opened
  /\ to_add' = to_add - 1
  /\ new_conns' = Append(new_conns, Len(born) + 1)
  /\ UNCHANGED <<now, idle, warm, shutdown, connecting, hold>>

\* join_next returns an error: nothing joins the round.
WarmConnectFails ==
  /\ to_add > 0
  /\ to_add' = to_add - 1
  /\ UNCHANGED <<now, born, peer, idle, warm, new_conns, shutdown, connecting,
                 hold>>

\* push_back of the first connections of the round.
Queued(room) == idle \o SubSeq(new_conns, 1, room)

\* The round ends: push under the lock until max_size, drop the rest.
WarmPush ==
  /\ warm = "connect" /\ to_add = 0
  /\ LET room == Least(Len(new_conns), Minus(MaxSize, Len(idle)))
     IN  idle' = Queued(room)
  /\ new_conns' = <<>>
  /\ warm' = LoopTop
  /\ UNCHANGED <<now, born, peer, to_add, shutdown, connecting, hold>>

\* The shutdown arm: changed() sees the flag and the task returns.
WarmExit ==
  /\ warm = "sleep" /\ shutdown # "no"
  /\ warm' = "done"
  /\ UNCHANGED <<now, born, peer, idle, to_add, new_conns, shutdown, connecting,
                 hold>>

\* shutdown(): the watch is set first, without the lock ...
ShutdownSend ==
  /\ shutdown = "no"
  /\ shutdown' = "sent"
  /\ UNCHANGED <<now, born, peer, idle, warm, to_add, new_conns, connecting, hold>>

\* ... then the lock is taken and every idle connection is closed.
ShutdownDrain ==
  /\ shutdown = "sent"
  /\ shutdown' = "drained"
  /\ idle' = <<>>
  /\ UNCHANGED <<now, born, peer, warm, to_add, new_conns, connecting, hold>>

-----------------------------------------------------------------------------

WarmStep == WarmWake \/ WarmConnectOk \/ WarmConnectFails \/ WarmPush \/ WarmExit

UserStep(u) ==
  \/ AcquireIdle(u) \/ AcquireNone(u)
  \/ ConnectOk(u) \/ ConnectFails(u)
  \/ Handshaken(u) \/ Release(u)

PoolNext ==
  \/ Tick
  \/ \E c \in Open : BridgeTimesOut(c) \/ BridgeDrops(c)
  \/ \E u \in User : UserStep(u)
  \/ WarmStep
  \/ ShutdownSend \/ ShutdownDrain

PoolSpec == PoolInit /\ [][PoolNext]_poolVars

(***************************************************************************)
(* Fairness: the tasks the runtime schedules.  A connect returns one way   *)
(* or the other, a round that is joined is pushed, a watch that has        *)
(* changed wakes its task, and shutdown() gets the lock.                   *)
(***************************************************************************)
PoolFairness ==
  /\ WF_poolVars(WarmConnectOk \/ WarmConnectFails)
  /\ WF_poolVars(WarmPush)
  /\ WF_poolVars(WarmExit)
  /\ WF_poolVars(ShutdownDrain)

PoolFairSpec == PoolSpec /\ PoolFairness

-----------------------------------------------------------------------------
(* Properties *)

\* The pool state is well typed; the connections it names have been opened.
PoolTypeOK ==
  /\ now \in Nat
  /\ born \in Seq(Nat)
  /\ peer \in Seq({"waiting", "session", "timedout", "dropped"})
  /\ Len(peer) = Len(born)
  /\ idle \in Seq(Nat) /\ \A i \in 1..Len(idle) : idle[i] \in 1..Len(born)
  /\ warm \in {"sleep", "connect", "done"}
  /\ to_add \in Nat
  /\ new_conns \in Seq(Nat)
  /\ \A i \in 1..Len(new_conns) : new_conns[i] \in 1..Len(born)
  /\ shutdown \in {"no", "sent", "drained"}
  /\ connecting \subseteq User
  /\ hold \in [User -> 0..Len(born)]

\* The pool never holds more than warm_size idle connections, although
\* warm_loop counts them, releases the lock, connects, and pushes later: only
\* one such round is in flight, and sessions can only take connections away.
WarmTarget == Len(idle) <= WarmSize

\* A connection has one owner: it is in the idle queue once, or in the warm
\* loop's round, or with one user session.  (Two sessions on one socket would
\* interleave their handshakes.)
OneOwner ==
  /\ \A i, j \in 1..Len(idle) : i # j => idle[i] # idle[j]
  /\ \A i, j \in 1..Len(new_conns) : i # j => new_conns[i] # new_conns[j]
  /\ Elems(idle) \cap Elems(new_conns) = {}
  /\ \A u \in User :
       hold[u] # 0 =>
         /\ hold[u] \notin Elems(idle) \cup Elems(new_conns)
         /\ \A v \in User : v # u => hold[v] # hold[u]

\* acquire evicts from the front only; because connections are queued in the
\* order of their created_at, no stale connection is left behind the first
\* fresh one.
NothingStaleLeft ==
  [][\A u \in User : AcquireIdle(u) \/ AcquireNone(u)
       => \A c \in Elems(idle') : ~Stale(c)]_poolVars

\* When the idle timeout is no longer than the bridge's handshake timeout, a
\* pooled connection the bridge has already timed out is never handed out.
NoTimedOutHandOut ==
  [][IdleTimeout <= HandshakeTimeout
       => \A u \in User : AcquireIdle(u) => peer[hold'[u]] # "timedout"]_poolVars

=============================================================================
