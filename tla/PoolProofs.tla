----------------------------- MODULE PoolProofs -----------------------------
(***************************************************************************)
(* Proofs about the connection pool and the sessions that use it, for      *)
(* every pool configuration and every number of sessions, connections and  *)
(* retries: the bounds of the pool, that it hands every connection to one  *)
(* owner, oldest first, and leaves no stale connection behind; that the    *)
(* session loop uses it as it is specified, and keeps its retries in order.*)
(***************************************************************************)
EXTENDS ClientSession, TLAPS

(***************************************************************************)
(* What a step can do to the queue: the facts about sequences used below.  *)
(***************************************************************************)

\* The tail of a sequence from position k: its type, length and elements.
LEMMA Tail_ ==
  ASSUME NEW s \in Seq(Nat), NEW k \in 1..Len(s)
  PROVE  LET t == SubSeq(s, k + 1, Len(s))
         IN  /\ t \in Seq(Nat)
             /\ Len(t) = Len(s) - k
             /\ \A i \in 1..Len(t) : t[i] = s[k + i]
  OBVIOUS

\* The first n elements of a sequence appended to another.
LEMMA Joined ==
  ASSUME NEW s \in Seq(Nat), NEW t \in Seq(Nat), NEW n \in 0..Len(t)
  PROVE  LET r == s \o SubSeq(t, 1, n)
         IN  /\ r \in Seq(Nat)
             /\ Len(r) = Len(s) + n
             /\ \A i \in 1..Len(s) : r[i] = s[i]
             /\ \A i \in 1..n : r[Len(s) + i] = t[i]
  <1>1. SubSeq(t, 1, n) \in Seq(Nat) /\ Len(SubSeq(t, 1, n)) = n
    OBVIOUS
  <1>2. \A i \in 1..n : SubSeq(t, 1, n)[i] = t[i]
    OBVIOUS
  <1> QED BY SMTT(60), <1>1, <1>2

\* One more element at the end.
LEMMA Added ==
  ASSUME NEW S, NEW s \in Seq(S), NEW e \in S
  PROVE  /\ Append(s, e) \in Seq(S)
         /\ Len(Append(s, e)) = Len(s) + 1
         /\ Append(s, e)[Len(s) + 1] = e
         /\ \A i \in 1..Len(s) : Append(s, e)[i] = s[i]
  OBVIOUS

\* One element replaced.
LEMMA Changed ==
  ASSUME NEW S, NEW s \in Seq(S), NEW i \in 1..Len(s), NEW e \in S
  PROVE  /\ [s EXCEPT ![i] = e] \in Seq(S)
         /\ Len([s EXCEPT ![i] = e]) = Len(s)
         /\ [s EXCEPT ![i] = e][i] = e
         /\ \A j \in 1..Len(s) : j # i => [s EXCEPT ![i] = e][j] = s[j]
  OBVIOUS

-----------------------------------------------------------------------------
(***************************************************************************)
(* Types.                                                                  *)
(***************************************************************************)

\* The connections in use are connections that were opened.
LEMMA OpenConns ==
  ASSUME PoolTypeOK
  PROVE  \A c \in Open : c \in 1..Len(born)
  BY DEF PoolTypeOK, Open, Elems

\* A connection that opens extends born and peer and leaves the known
\* connections alone (Opened).
LEMMA OpenedFacts ==
  ASSUME PoolTypeOK, Opened
  PROVE  /\ born' \in Seq(Nat) /\ Len(born') = Len(born) + 1
         /\ peer' \in Seq({"waiting", "session", "timedout", "dropped"})
         /\ Len(peer') = Len(born')
         /\ \A i \in 1..Len(born) : born'[i] = born[i] /\ peer'[i] = peer[i]
         /\ born'[Len(born) + 1] = now /\ peer'[Len(born) + 1] = "waiting"
  <1> USE DEF PoolTypeOK, Opened
  <1>1. "waiting" \in {"waiting", "session", "timedout", "dropped"}
    BY Zenon
  <1>2. /\ born' \in Seq(Nat) /\ Len(born') = Len(born) + 1
        /\ \A i \in 1..Len(born) : born'[i] = born[i]
        /\ born'[Len(born) + 1] = now
    BY Added
  <1>3. /\ peer' \in Seq({"waiting", "session", "timedout", "dropped"})
        /\ Len(peer') = Len(peer) + 1
        /\ \A i \in 1..Len(peer) : peer'[i] = peer[i]
        /\ peer'[Len(peer) + 1] = "waiting"
    BY <1>1, Added
  <1> QED BY Zenon, <1>2, <1>3

\* Acquiring from the queue takes its k-th connection and keeps the ones
\* behind it (AcquireIdle).
LEMMA AcquireFacts ==
  ASSUME PoolTypeOK, NEW u \in User, AcquireIdle(u)
  PROVE  \E k \in 1..Len(idle) :
           /\ ~Stale(idle[k])
           /\ \A j \in 1..(k - 1) : Stale(idle[j])
           /\ hold' = [hold EXCEPT ![u] = idle[k]]
           /\ idle' \in Seq(Nat) /\ Len(idle') = Len(idle) - k
           /\ \A i \in 1..Len(idle') : idle'[i] = idle[k + i]
  <1>1. PICK k \in 1..Len(idle) :
           /\ ~Stale(idle[k])
           /\ \A j \in 1..(k - 1) : Stale(idle[j])
           /\ hold' = [hold EXCEPT ![u] = idle[k]]
           /\ idle' = SubSeq(idle, k + 1, Len(idle))
    BY Zenon DEF AcquireIdle, Popped
  <1>2. idle \in Seq(Nat)
    BY Zenon DEF PoolTypeOK
  <1>3. /\ idle' \in Seq(Nat) /\ Len(idle') = Len(idle) - k
        /\ \A i \in 1..Len(idle') : idle'[i] = idle[k + i]
    BY Zenon, <1>1, <1>2, Tail_
  <1> QED BY Zenon, <1>1, <1>3

\* A round of warm_loop ends with some of its connections behind the queue
\* (WarmPush).
LEMMA PushFacts ==
  ASSUME PoolTypeOK, WarmPush
  PROVE  \E n \in 0..Len(new_conns) :
           /\ idle' \in Seq(Nat) /\ Len(idle') = Len(idle) + n
           /\ \A i \in 1..Len(idle) : idle'[i] = idle[i]
           /\ \A i \in 1..n : idle'[Len(idle) + i] = new_conns[i]
  <1> DEFINE room == Least(Len(new_conns), Minus(MaxSize, Len(idle)))
  <1>1. room \in 0..Len(new_conns)
    BY PoolConfig DEF Least, Minus, PoolTypeOK
  <1>2. idle' = idle \o SubSeq(new_conns, 1, room)
    BY Zenon DEF WarmPush, Queued
  <1>3. idle \in Seq(Nat) /\ new_conns \in Seq(Nat)
    BY Zenon DEF PoolTypeOK
  <1> HIDE DEF room
  <1>4. /\ idle' \in Seq(Nat) /\ Len(idle') = Len(idle) + room
        /\ \A i \in 1..Len(idle) : idle'[i] = idle[i]
        /\ \A i \in 1..room : idle'[Len(idle) + i] = new_conns[i]
    BY SMTT(60), <1>1, <1>2, <1>3, Joined
  <1> QED BY Zenon, <1>1, <1>4

\* The pool state is well typed initially and every step keeps it so.
LEMMA TypeStep ==
  ASSUME PoolTypeOK, [PoolNext]_poolVars
  PROVE  PoolTypeOK'
  <1> USE DEF PoolTypeOK
  <1>1. CASE Tick
    BY <1>1 DEF Tick
  <1>2. ASSUME NEW c \in Open, BridgeTimesOut(c) \/ BridgeDrops(c)
        PROVE  PoolTypeOK'
    <2>1. PICK e \in {"waiting", "session", "timedout", "dropped"} :
            peer' = [peer EXCEPT ![c] = e]
      BY Zenon, <1>2 DEF BridgeTimesOut, BridgeDrops
    <2>2. c \in 1..Len(peer)
      BY Zenon, OpenConns
    <2>3. /\ peer' \in Seq({"waiting", "session", "timedout", "dropped"})
          /\ Len(peer') = Len(peer)
      BY <2>1, <2>2, Changed
    <2> QED BY Zenon, <1>2, <2>3 DEF BridgeTimesOut, BridgeDrops
  <1>3. ASSUME NEW u \in User, UserStep(u)
        PROVE  PoolTypeOK'
    <2>1. CASE AcquireIdle(u)
      <3>1. PICK k \in 1..Len(idle) :
              /\ hold' = [hold EXCEPT ![u] = idle[k]]
              /\ idle' \in Seq(Nat) /\ Len(idle') = Len(idle) - k
              /\ \A i \in 1..Len(idle') : idle'[i] = idle[k + i]
        BY Zenon, <2>1, AcquireFacts
      <3>2. hold' \in [User -> 0..Len(born)]
        BY SMTT(60), <3>1
      <3>3. ASSUME NEW i \in 1..Len(idle')
            PROVE  idle'[i] \in 1..Len(born)
        <4>1. k + i \in 1..Len(idle)
          BY <3>1
        <4> QED BY Zenon, <3>1, <4>1
      <3> QED BY Zenon, <2>1, <3>1, <3>2, <3>3 DEF AcquireIdle
    <2>2. CASE AcquireNone(u)
      BY <2>2 DEF AcquireNone
    <2>3. CASE ConnectOk(u)
      <3>1. Opened
        BY Zenon, <2>3 DEF ConnectOk
      <3>2. Len(born') = Len(born) + 1
        BY Zenon, <3>1, OpenedFacts
      <3>3. hold' \in [User -> 0..Len(born')]
        BY <2>3, <3>2 DEF ConnectOk
      <3>4. 1..Len(born) \subseteq 1..Len(born')
        BY <3>2
      <3>5. /\ \A i \in 1..Len(idle') : idle'[i] \in 1..Len(born')
            /\ \A i \in 1..Len(new_conns') : new_conns'[i] \in 1..Len(born')
        BY Zenon, <2>3, <3>4 DEF ConnectOk
      <3> QED BY Zenon, <2>3, <3>1, <3>3, <3>5, OpenedFacts DEF ConnectOk
    <2>4. CASE ConnectFails(u)
      BY Zenon, <2>4 DEF ConnectFails
    <2>5. CASE Handshaken(u)
      <3>1. /\ peer' \in Seq({"waiting", "session", "timedout", "dropped"})
            /\ Len(peer') = Len(peer)
        BY <2>5 DEF Handshaken
      <3> QED BY Zenon, <2>5, <3>1 DEF Handshaken
    <2>6. CASE Release(u)
      BY <2>6 DEF Release
    <2> QED BY Zenon, <1>3, <2>1, <2>2, <2>3, <2>4, <2>5, <2>6 DEF UserStep
  <1>4. CASE WarmWake
    BY SMTT(60), <1>4, PoolConfig DEF WarmWake, Missing, Least, Minus, LoopTop
  <1>5. CASE WarmConnectOk
    <2>1. Opened
      BY Zenon, <1>5 DEF WarmConnectOk
    <2>2. Len(born') = Len(born) + 1
      BY Zenon, <2>1, OpenedFacts
    <2>3. /\ new_conns' \in Seq(Nat)
          /\ \A i \in 1..Len(new_conns') : new_conns'[i] \in 1..Len(born')
      BY SMTT(60), <1>5, <2>2 DEF WarmConnectOk
    <2>4. \A i \in 1..Len(idle') : idle'[i] \in 1..Len(born')
      BY SMTT(60), <1>5, <2>2 DEF WarmConnectOk
    <2>5. to_add' \in Nat
      BY <1>5 DEF WarmConnectOk
    <2>6. hold' \in [User -> 0..Len(born')]
      BY <1>5, <2>2 DEF WarmConnectOk
    <2>7. /\ born' \in Seq(Nat) /\ Len(peer') = Len(born')
          /\ peer' \in Seq({"waiting", "session", "timedout", "dropped"})
      BY Zenon, <2>1, OpenedFacts
    <2> QED BY Zenon, <1>5, <2>3, <2>4, <2>5, <2>6, <2>7 DEF WarmConnectOk
  <1>6. CASE WarmConnectFails
    BY <1>6 DEF WarmConnectFails
  <1>7. CASE WarmPush
    <2>1. PICK n \in 0..Len(new_conns) :
            /\ idle' \in Seq(Nat) /\ Len(idle') = Len(idle) + n
            /\ \A i \in 1..Len(idle) : idle'[i] = idle[i]
            /\ \A i \in 1..n : idle'[Len(idle) + i] = new_conns[i]
      BY Zenon, <1>7, PushFacts
    <2>2. ASSUME NEW i \in 1..Len(idle')
          PROVE  idle'[i] \in 1..Len(born)
      <3>1. CASE i <= Len(idle)
        <4>1. i \in 1..Len(idle)
          BY <2>1, <3>1
        <4> QED BY Zenon, <2>1, <4>1
      <3>2. CASE i > Len(idle)
        <4>1. i - Len(idle) \in 1..n /\ i = Len(idle) + (i - Len(idle))
          BY <2>1, <3>2
        <4>2. idle'[i] = new_conns[i - Len(idle)]
          BY Zenon, <2>1, <4>1
        <4> QED BY <4>1, <4>2
      <3> QED BY <2>1, <3>1, <3>2
    <2> QED BY <1>7, <2>1, <2>2 DEF WarmPush, LoopTop
  <1>8. CASE WarmExit \/ ShutdownSend \/ ShutdownDrain
    <2>1. CASE WarmExit
      BY Zenon, <2>1 DEF WarmExit
    <2>2. CASE ShutdownSend
      BY Zenon, <2>2 DEF ShutdownSend
    <2>3. CASE ShutdownDrain
      BY <2>3 DEF ShutdownDrain
    <2> QED BY Zenon, <1>8, <2>1, <2>2, <2>3
  <1>9. CASE UNCHANGED poolVars
    BY Zenon, <1>9 DEF poolVars
  <1> QED
    BY Zenon, <1>1, <1>2, <1>3, <1>4, <1>5, <1>6, <1>7, <1>8, <1>9
    DEF PoolNext, WarmStep

\* PoolTypeOK is an invariant: the pool and its users stay well typed, for
\* every configuration that ClientConfig::validate accepts.
THEOREM PoolTypeCorrect == PoolSpec => []PoolTypeOK
  <1>1. PoolInit => PoolTypeOK
    BY DEF PoolInit, PoolTypeOK
  <1>2. PoolTypeOK /\ [PoolNext]_poolVars => PoolTypeOK'
    BY Zenon, TypeStep
  <1> QED BY <1>1, <1>2, PTL DEF PoolSpec

-----------------------------------------------------------------------------
(***************************************************************************)
(* The size of the pool.  WarmTarget alone is not inductive: a round of    *)
(* warm_loop acts on a count taken before its connects.  What every step   *)
(* keeps is that the idle connections, the connects in flight and the      *)
(* connections of the round together do not exceed warm_size, and that     *)
(* there is a round only while warm_loop is in it.                         *)
(***************************************************************************)
RoundInv ==
  /\ Len(idle) + to_add + Len(new_conns) <= WarmSize
  /\ warm # "connect" => to_add = 0 /\ Len(new_conns) = 0

\* Every step of the pool and its users keeps RoundInv.
LEMMA RoundStep ==
  ASSUME PoolTypeOK, RoundInv, [PoolNext]_poolVars
  PROVE  RoundInv'
  <1> USE DEF RoundInv
  <1>0. idle \in Seq(Nat) /\ new_conns \in Seq(Nat) /\ to_add \in Nat
    BY Zenon DEF PoolTypeOK
  <1>1. ASSUME UNCHANGED <<idle, warm, to_add, new_conns>>
        PROVE  RoundInv'
    BY Zenon, <1>1
  <1>2. ASSUME NEW u \in User, AcquireIdle(u)
        PROVE  RoundInv'
    <2>1. UNCHANGED <<warm, to_add, new_conns>>
      BY Zenon, <1>2 DEF AcquireIdle
    <2>2. Len(idle') \in Nat /\ Len(idle') <= Len(idle)
      BY SMTT(60), <1>0, <1>2, AcquireFacts
    <2>3. Len(idle) \in Nat /\ Len(new_conns) \in Nat
      BY <1>0
    <2> QED BY <1>0, <2>1, <2>2, <2>3, PoolConfig
  <1>3. ASSUME idle' = <<>>, UNCHANGED <<warm, to_add, new_conns>>
        PROVE  RoundInv'
    <2>1. Len(idle') = 0 /\ Len(idle) \in Nat /\ Len(new_conns) \in Nat
      BY <1>0, <1>3
    <2> QED BY <1>0, <1>3, <2>1, PoolConfig
  <1>4. CASE WarmWake
    BY <1>0, <1>4, PoolConfig DEF WarmWake, Missing, Least, Minus, LoopTop
  <1>5. CASE WarmConnectOk
    <2>1. Len(new_conns') = Len(new_conns) + 1 /\ to_add' = to_add - 1
      BY <1>0, <1>5 DEF WarmConnectOk
    <2>2. warm = "connect" /\ UNCHANGED <<idle, warm>>
      BY <1>0, <1>5 DEF WarmConnectOk
    <2> QED BY <1>0, <2>1, <2>2
  <1>6. CASE WarmConnectFails
    <2>1. to_add' = to_add - 1 /\ warm = "connect" /\ UNCHANGED <<idle, warm, new_conns>>
      BY <1>0, <1>6 DEF WarmConnectFails
    <2>2. Len(idle) \in Nat /\ Len(new_conns) \in Nat
      BY <1>0
    <2> QED BY <1>0, <2>1, <2>2, PoolConfig
  <1>7. CASE WarmPush
    <2>1. Len(idle') \in Nat /\ Len(idle') <= Len(idle) + Len(new_conns)
      BY <1>0, <1>7, PushFacts
    <2>2. to_add' = 0 /\ Len(new_conns') = 0
      BY Zenon, <1>7 DEF WarmPush
    <2>3. Len(idle) \in Nat /\ Len(new_conns) \in Nat
      BY <1>0
    <2> QED BY <1>0, <2>1, <2>2, <2>3, PoolConfig
  <1>8. CASE WarmExit
    BY Zenon, <1>8 DEF WarmExit
  <1>9. ASSUME NEW u \in User, UserStep(u)
        PROVE  RoundInv'
    BY Zenon, <1>9, <1>1, <1>2, <1>3
    DEF UserStep, AcquireNone, ConnectOk, ConnectFails, Handshaken, Release
  <1>10. ASSUME NEW c \in Open, BridgeTimesOut(c) \/ BridgeDrops(c)
         PROVE  RoundInv'
    BY Zenon, <1>10, <1>1 DEF BridgeTimesOut, BridgeDrops
  <1>11. CASE Tick \/ ShutdownSend \/ ShutdownDrain
    BY Zenon, <1>11, <1>1, <1>3 DEF Tick, ShutdownSend, ShutdownDrain
  <1>12. CASE UNCHANGED poolVars
    BY Zenon, <1>12, <1>1 DEF poolVars
  <1> QED
    BY Zenon, <1>4, <1>5, <1>6, <1>7, <1>8, <1>9, <1>10, <1>11, <1>12
    DEF PoolNext, WarmStep

\* The pool never holds more than warm_size idle connections, although
\* warm_loop pushes on the strength of a count taken before its connects.
THEOREM WarmTargetHolds == PoolSpec => []WarmTarget
  <1>1. PoolInit => RoundInv
    BY PoolConfig DEF PoolInit, RoundInv
  <1>2. PoolTypeOK /\ RoundInv /\ [PoolNext]_poolVars => RoundInv'
    BY Zenon, RoundStep
  <1>3. PoolTypeOK /\ RoundInv => WarmTarget
    BY PoolConfig DEF PoolTypeOK, RoundInv, WarmTarget
  <1> QED BY <1>1, <1>2, <1>3, PoolTypeCorrect, PTL DEF PoolSpec

-----------------------------------------------------------------------------
(* Order.  Connections are queued in the order in which they were opened:   *)
(* the queue, followed by the connections of warm_loop's round, is          *)
(* strictly increasing, and connections opened later were not born sooner.  *)
\* The elements of a sequence are the values at its positions.
LEMMA ElemAt ==
  ASSUME NEW s \in Seq(Nat), NEW x \in Elems(s)
  PROVE  \E i \in 1..Len(s) : x = s[i]
  BY DEF Elems

OrderInv ==
  /\ \A i, j \in 1..Len(idle) : i < j => idle[i] < idle[j]
  /\ \A i, j \in 1..Len(new_conns) : i < j => new_conns[i] < new_conns[j]
  /\ \A i \in 1..Len(idle), j \in 1..Len(new_conns) : idle[i] < new_conns[j]

\* Every step of the pool and its users keeps the queue in order.
LEMMA OrderStep ==
  ASSUME PoolTypeOK, OrderInv, [PoolNext]_poolVars
  PROVE  OrderInv'
  <1> USE DEF OrderInv
  <1>0. idle \in Seq(Nat) /\ new_conns \in Seq(Nat)
    BY Zenon DEF PoolTypeOK
  <1>1. ASSUME UNCHANGED <<idle, new_conns>>
        PROVE  OrderInv'
    BY Zenon, <1>1
  <1>2. ASSUME NEW u \in User, AcquireIdle(u)
        PROVE  OrderInv'
    <2>1. PICK k \in 1..Len(idle) :
            /\ idle' \in Seq(Nat) /\ Len(idle') = Len(idle) - k
            /\ \A i \in 1..Len(idle') : idle'[i] = idle[k + i]
      BY Zenon, <1>2, AcquireFacts
    <2>2. UNCHANGED new_conns
      BY Zenon, <1>2 DEF AcquireIdle
    <2>3. \A i \in 1..Len(idle') : k + i \in 1..Len(idle)
      BY <1>0, <2>1
    <2>4. ASSUME NEW i \in 1..Len(idle'), NEW j \in 1..Len(idle'), i < j
          PROVE  idle'[i] < idle'[j]
      <3>1. k + i \in 1..Len(idle) /\ k + j \in 1..Len(idle) /\ k + i < k + j
        BY <2>3, <2>4
      <3>2. idle[k + i] < idle[k + j]
        BY Zenon, <3>1
      <3> QED BY Zenon, <2>1, <3>2
    <2> QED BY Zenon, <2>1, <2>2, <2>3, <2>4
  <1>3. ASSUME idle' = <<>>, UNCHANGED new_conns
        PROVE  OrderInv'
    BY <1>3
  <1>4. CASE WarmConnectOk
    <2> DEFINE n == Len(new_conns)
    <2>1. /\ new_conns' \in Seq(Nat) /\ Len(new_conns') = n + 1
          /\ new_conns'[n + 1] = Len(born) + 1
          /\ \A i \in 1..n : new_conns'[i] = new_conns[i]
      <3>1. Len(born) + 1 \in Nat
        BY DEF PoolTypeOK
      <3> QED BY <1>0, <1>4, <3>1, Added DEF WarmConnectOk
    <2>2. \A i \in 1..n : new_conns[i] \in Nat /\ new_conns[i] < Len(born) + 1
      BY DEF PoolTypeOK
    <2>3. \A i \in 1..Len(idle) : idle[i] \in Nat /\ idle[i] < Len(born) + 1
      BY SMTT(60) DEF PoolTypeOK
    <2>4. UNCHANGED idle
      BY Zenon, <1>4 DEF WarmConnectOk
    <2>5. n \in Nat
      BY <1>0
    <2>6. ASSUME NEW i \in 1..Len(new_conns'), NEW j \in 1..Len(new_conns'), i < j
          PROVE  new_conns'[i] < new_conns'[j]
      <3>1. i \in 1..n
        BY <2>1, <2>5, <2>6
      <3>2. CASE j = n + 1
        BY Zenon, <2>1, <2>2, <3>1, <3>2
      <3>3. CASE j # n + 1
        <4>1. j \in 1..n
          BY <2>1, <2>5, <3>3
        <4> QED BY Zenon, <2>1, <2>6, <3>1, <4>1
      <3> QED BY Zenon, <3>2, <3>3
    <2>7. ASSUME NEW i \in 1..Len(idle'), NEW j \in 1..Len(new_conns')
          PROVE  idle'[i] < new_conns'[j]
      <3>1. i \in 1..Len(idle) /\ idle'[i] = idle[i]
        BY Zenon, <2>4
      <3>2. CASE j = n + 1
        BY Zenon, <2>1, <2>3, <3>1, <3>2
      <3>3. CASE j # n + 1
        <4>1. j \in 1..n
          BY <2>1, <2>5, <3>3
        <4> QED BY Zenon, <2>1, <3>1, <4>1
      <3> QED BY Zenon, <3>2, <3>3
    <2> QED BY Zenon, <2>4, <2>6, <2>7
  <1>5. CASE WarmPush
    <2>1. PICK n \in 0..Len(new_conns) :
            /\ idle' \in Seq(Nat) /\ Len(idle') = Len(idle) + n
            /\ \A i \in 1..Len(idle) : idle'[i] = idle[i]
            /\ \A i \in 1..n : idle'[Len(idle) + i] = new_conns[i]
      BY Zenon, <1>5, PushFacts
    <2>2. new_conns' = <<>>
      BY Zenon, <1>5 DEF WarmPush
    <2>3. ASSUME NEW i \in 1..Len(idle'), i > Len(idle)
          PROVE  /\ i - Len(idle) \in 1..n
                 /\ i - Len(idle) \in 1..Len(new_conns)
                 /\ idle'[i] = new_conns[i - Len(idle)]
      <3>1. i - Len(idle) \in 1..n /\ i = Len(idle) + (i - Len(idle))
        BY <1>0, <2>1, <2>3
      <3>2. i - Len(idle) \in 1..Len(new_conns)
        BY <1>0, <2>1, <3>1
      <3> QED BY Zenon, <2>1, <3>1, <3>2
    <2>4. ASSUME NEW i \in 1..Len(idle'), NEW j \in 1..Len(idle'), i < j
          PROVE  idle'[i] < idle'[j]
      <3>1. CASE j <= Len(idle)
        <4>1. i \in 1..Len(idle) /\ j \in 1..Len(idle)
          BY <1>0, <2>4, <3>1
        <4> QED BY Zenon, <2>1, <2>4, <4>1
      <3>2. CASE i <= Len(idle) /\ j > Len(idle)
        <4>1. i \in 1..Len(idle)
          BY <1>0, <3>2
        <4> QED BY Zenon, <2>1, <2>3, <3>2, <4>1
      <3>3. CASE i > Len(idle)
        <4>1. j > Len(idle) /\ i - Len(idle) < j - Len(idle)
          BY <1>0, <2>4, <3>3
        <4> QED BY Zenon, <2>3, <3>3, <4>1
      <3> QED BY <1>0, <3>1, <3>2, <3>3
    <2> QED BY <2>2, <2>4
  <1>6. ASSUME NEW u \in User, UserStep(u)
        PROVE  OrderInv'
    BY Zenon, <1>6, <1>1, <1>2, <1>3
    DEF UserStep, AcquireNone, ConnectOk, ConnectFails, Handshaken, Release
  <1>7. ASSUME NEW c \in Open, BridgeTimesOut(c) \/ BridgeDrops(c)
        PROVE  OrderInv'
    BY Zenon, <1>7, <1>1 DEF BridgeTimesOut, BridgeDrops
  <1>8. CASE Tick \/ WarmWake \/ WarmConnectFails \/ WarmExit
    BY Zenon, <1>8, <1>1 DEF Tick, WarmWake, WarmConnectFails, WarmExit
  <1>9. CASE ShutdownSend \/ ShutdownDrain
    BY Zenon, <1>9, <1>1, <1>3 DEF ShutdownSend, ShutdownDrain
  <1>10. CASE UNCHANGED poolVars
    BY Zenon, <1>10, <1>1 DEF poolVars
  <1> QED
    BY Zenon, <1>4, <1>5, <1>6, <1>7, <1>8, <1>9, <1>10 DEF PoolNext, WarmStep

-----------------------------------------------------------------------------
(***************************************************************************)
(* Ownership.                                                              *)
(***************************************************************************)
HeldInv ==
  \A u \in User :
    hold[u] # 0 =>
      /\ \A i \in 1..Len(idle) : idle[i] # hold[u]
      /\ \A i \in 1..Len(new_conns) : new_conns[i] # hold[u]
      /\ \A v \in User : v # u => hold[v] # hold[u]

\* Every step keeps a held connection out of the pool and with one session.
LEMMA HeldStep ==
  ASSUME PoolTypeOK, OrderInv, HeldInv, [PoolNext]_poolVars
  PROVE  HeldInv'
  <1> USE DEF HeldInv
  <1>0. /\ idle \in Seq(Nat) /\ new_conns \in Seq(Nat)
        /\ hold \in [User -> 0..Len(born)] /\ Len(born) \in Nat
    BY DEF PoolTypeOK
  <1>1. ASSUME UNCHANGED <<idle, new_conns, hold>>
        PROVE  HeldInv'
    BY Zenon, <1>1
  <1>2. ASSUME NEW u \in User, AcquireIdle(u)
        PROVE  HeldInv'
    <2>1. PICK k \in 1..Len(idle) :
            /\ hold' = [hold EXCEPT ![u] = idle[k]]
            /\ idle' \in Seq(Nat) /\ Len(idle') = Len(idle) - k
            /\ \A i \in 1..Len(idle') : idle'[i] = idle[k + i]
      BY ZenonT(60), <1>2, AcquireFacts
    <2>2. UNCHANGED new_conns
      BY Zenon, <1>2 DEF AcquireIdle
    <2>3. ASSUME NEW i \in 1..Len(idle')
          PROVE  k + i \in 1..Len(idle) /\ k < k + i
      BY <1>0, <2>1
    <2>4. ASSUME NEW i \in 1..Len(idle')
          PROVE  idle'[i] # idle[k]
      <3>1. idle[k] < idle[k + i] /\ idle[k] \in Nat /\ idle[k + i] \in Nat
        BY SMTT(60), <1>0, <2>3 DEF OrderInv
      <3> QED BY <2>1, <3>1
    <2>5. ASSUME NEW i \in 1..Len(new_conns)
          PROVE  new_conns[i] # idle[k]
      <3>1. idle[k] < new_conns[i] /\ idle[k] \in Nat /\ new_conns[i] \in Nat
        BY SMTT(60), <1>0 DEF OrderInv
      <3> QED BY <3>1
    <2>6. idle[k] # 0
      BY DEF PoolTypeOK
    <2>7. \A v \in User : v # u => hold[v] # idle[k]
      BY Zenon, <2>6
    <2>8. /\ hold'[u] = idle[k]
          /\ \A v \in User : v # u => hold'[v] = hold[v]
      BY Zenon, <1>0, <2>1
    <2>9. ASSUME NEW v \in User, hold'[v] # 0
          PROVE  /\ \A i \in 1..Len(idle') : idle'[i] # hold'[v]
                 /\ \A i \in 1..Len(new_conns') : new_conns'[i] # hold'[v]
                 /\ \A w \in User : w # v => hold'[w] # hold'[v]
      <3>1. CASE v = u
        BY Zenon, <2>2, <2>4, <2>5, <2>7, <2>8, <3>1
      <3>2. CASE v # u
        <4>1. hold'[v] = hold[v] /\ hold[v] # 0
          BY Zenon, <2>8, <2>9, <3>2
        <4>2. \A i \in 1..Len(idle') : idle'[i] # hold[v]
          BY SMTT(60), <2>1, <2>3, <4>1
        <4>3. \A w \in User : w # v => hold'[w] # hold[v]
          BY Zenon, <2>7, <2>8, <3>2, <4>1
        <4> QED BY Zenon, <2>2, <4>1, <4>2, <4>3
      <3> QED BY Zenon, <3>1, <3>2
    <2> QED BY Zenon, <2>9
  <1>3. ASSUME idle' = <<>>, UNCHANGED <<new_conns, hold>>
        PROVE  HeldInv'
    BY <1>3
  <1>4. ASSUME NEW u \in User, ConnectOk(u)
        PROVE  HeldInv'
    <2>1. UNCHANGED <<idle, new_conns>>
      BY Zenon, <1>4 DEF ConnectOk
    <2>2. /\ hold'[u] = Len(born) + 1
          /\ \A v \in User : v # u => hold'[v] = hold[v]
      BY Zenon, <1>0, <1>4 DEF ConnectOk
    <2>3. \A i \in 1..Len(idle) : idle[i] # Len(born) + 1
      BY SMTT(60), <1>0 DEF PoolTypeOK
    <2>4. \A i \in 1..Len(new_conns) : new_conns[i] # Len(born) + 1
      BY SMTT(60), <1>0 DEF PoolTypeOK
    <2>5. \A v \in User : hold[v] # Len(born) + 1
      BY <1>0
    <2> QED BY <2>1, <2>2, <2>3, <2>4, <2>5
  <1>5. ASSUME NEW u \in User, Release(u)
        PROVE  HeldInv'
    <2>1. UNCHANGED <<idle, new_conns>>
      BY Zenon, <1>5 DEF Release
    <2>2. hold'[u] = 0 /\ \A v \in User : v # u => hold'[v] = hold[v]
      BY Zenon, <1>0, <1>5 DEF Release
    <2> QED BY <2>1, <2>2
  <1>6. CASE WarmConnectOk
    <2>1. UNCHANGED <<idle, hold>>
      BY Zenon, <1>6 DEF WarmConnectOk
    <2>2. /\ Len(new_conns') = Len(new_conns) + 1
          /\ new_conns'[Len(new_conns) + 1] = Len(born) + 1
          /\ \A i \in 1..Len(new_conns) : new_conns'[i] = new_conns[i]
      BY <1>0, <1>6, Added DEF WarmConnectOk
    <2>3. \A v \in User : hold[v] # Len(born) + 1
      BY <1>0
    <2>4. ASSUME NEW u \in User, hold[u] # 0, NEW i \in 1..Len(new_conns')
          PROVE  new_conns'[i] # hold[u]
      <3>1. CASE i = Len(new_conns) + 1
        BY Zenon, <2>2, <2>3, <3>1
      <3>2. CASE i # Len(new_conns) + 1
        <4>1. i \in 1..Len(new_conns)
          BY <1>0, <2>2, <3>2
        <4> QED BY Zenon, <2>2, <2>4, <4>1
      <3> QED BY Zenon, <3>1, <3>2
    <2> QED BY Zenon, <2>1, <2>4
  <1>7. CASE WarmPush
    <2>1. PICK n \in 0..Len(new_conns) :
            /\ Len(idle') = Len(idle) + n
            /\ \A i \in 1..Len(idle) : idle'[i] = idle[i]
            /\ \A i \in 1..n : idle'[Len(idle) + i] = new_conns[i]
      BY Zenon, <1>7, PushFacts
    <2>2. new_conns' = <<>> /\ UNCHANGED hold
      BY Zenon, <1>7 DEF WarmPush
    <2>3. ASSUME NEW u \in User, hold[u] # 0, NEW i \in 1..Len(idle')
          PROVE  idle'[i] # hold[u]
      <3>1. CASE i <= Len(idle)
        <4>1. i \in 1..Len(idle)
          BY <1>0, <3>1
        <4> QED BY Zenon, <2>1, <2>3, <4>1
      <3>2. CASE i > Len(idle)
        <4>1. i - Len(idle) \in 1..n /\ i = Len(idle) + (i - Len(idle))
          BY <1>0, <2>1, <3>2
        <4>2. i - Len(idle) \in 1..Len(new_conns)
          BY <1>0, <2>1, <4>1
        <4>3. idle'[i] = new_conns[i - Len(idle)]
          BY Zenon, <2>1, <4>1
        <4> QED BY Zenon, <2>3, <4>2, <4>3
      <3> QED BY <1>0, <2>1, <3>1, <3>2
    <2> QED BY <2>2, <2>3
  <1>8. ASSUME NEW u \in User, UserStep(u)
        PROVE  HeldInv'
    BY Zenon, <1>8, <1>1, <1>2, <1>3, <1>4, <1>5
    DEF UserStep, AcquireNone, ConnectFails, Handshaken
  <1>9. ASSUME NEW c \in Open, BridgeTimesOut(c) \/ BridgeDrops(c)
        PROVE  HeldInv'
    BY Zenon, <1>9, <1>1 DEF BridgeTimesOut, BridgeDrops
  <1>10. CASE Tick \/ WarmWake \/ WarmConnectFails \/ WarmExit
    BY Zenon, <1>10, <1>1 DEF Tick, WarmWake, WarmConnectFails, WarmExit
  <1>11. CASE ShutdownSend \/ ShutdownDrain
    BY Zenon, <1>11, <1>1, <1>3 DEF ShutdownSend, ShutdownDrain
  <1>12. CASE UNCHANGED poolVars
    BY Zenon, <1>12, <1>1 DEF poolVars
  <1> QED
    BY Zenon, <1>6, <1>7, <1>8, <1>9, <1>10, <1>11, <1>12 DEF PoolNext, WarmStep

\* Every connection has one owner: a pooled connection is queued once, is not
\* also in warm_loop's round, and no two sessions share one.
THEOREM OneOwnerHolds == PoolSpec => []OneOwner
  <1>1. PoolInit => OrderInv /\ HeldInv
    BY DEF PoolInit, OrderInv, HeldInv
  <1>2. PoolTypeOK /\ OrderInv /\ HeldInv /\ [PoolNext]_poolVars
          => OrderInv' /\ HeldInv'
    BY Zenon, OrderStep, HeldStep
  <1>3. PoolTypeOK /\ OrderInv /\ HeldInv => OneOwner
    <2> SUFFICES ASSUME PoolTypeOK, OrderInv, HeldInv
                 PROVE  OneOwner
      BY Zenon
    <2>1. idle \in Seq(Nat) /\ new_conns \in Seq(Nat)
      BY Zenon DEF PoolTypeOK
    <2>2. \A i, j \in 1..Len(idle) : i # j => idle[i] # idle[j]
      BY <2>1 DEF OrderInv
    <2>3. \A i, j \in 1..Len(new_conns) : i # j => new_conns[i] # new_conns[j]
      BY <2>1 DEF OrderInv
    <2>4. Elems(idle) \cap Elems(new_conns) = {}
      <3> SUFFICES ASSUME NEW x \in Elems(idle), x \in Elems(new_conns)
                   PROVE  FALSE
        BY Zenon
      <3>1. PICK i \in 1..Len(idle) : x = idle[i]
        BY Zenon, <2>1, ElemAt
      <3>2. PICK j \in 1..Len(new_conns) : x = new_conns[j]
        BY Zenon, <2>1, ElemAt
      <3>3. idle[i] < new_conns[j] /\ idle[i] \in Nat
        BY SMTT(60), <2>1 DEF OrderInv
      <3> QED BY <3>1, <3>2, <3>3
    <2>5. \A u \in User :
            hold[u] # 0 => hold[u] \notin Elems(idle) \cup Elems(new_conns)
      BY ZenonT(60), <2>1, ElemAt DEF HeldInv
    <2> QED BY Zenon, <2>2, <2>3, <2>4, <2>5 DEF OneOwner, HeldInv
  <1> QED BY <1>1, <1>2, <1>3, PoolTypeCorrect, PTL DEF PoolSpec

-----------------------------------------------------------------------------
(***************************************************************************)
(* Ages.  Connections are numbered in the order of their birth, and the    *)
(* bridge times a connection out only when it is old enough.               *)
(***************************************************************************)
AgeInv ==
  /\ \A i \in 1..Len(born) : born[i] <= now
  /\ \A i, j \in 1..Len(born) : i < j => born[i] <= born[j]
  /\ \A i \in 1..Len(born) :
       peer[i] = "timedout" => now - born[i] >= HandshakeTimeout

\* Every step keeps the ages consistent.
LEMMA AgeStep ==
  ASSUME PoolTypeOK, AgeInv, [PoolNext]_poolVars
  PROVE  AgeInv'
  <1> USE DEF AgeInv
  <1>0. /\ now \in Nat /\ Len(born) \in Nat
        /\ \A i \in 1..Len(born) : born[i] \in Nat
        /\ peer \in Seq({"waiting", "session", "timedout", "dropped"})
        /\ Len(peer) = Len(born)
    BY DEF PoolTypeOK
  <1>1. ASSUME UNCHANGED <<now, born, peer>>
        PROVE  AgeInv'
    BY Zenon, <1>1
  <1>2. CASE Tick
    <2>1. now' = now + 1 /\ UNCHANGED <<born, peer>>
      BY Zenon, <1>2 DEF Tick
    <2> QED BY SMTT(60), <1>0, <2>1, PoolConfig
  <1>3. ASSUME Opened, UNCHANGED now
        PROVE  AgeInv'
    <2>1. /\ Len(born') = Len(born) + 1
          /\ \A i \in 1..Len(born) : born'[i] = born[i] /\ peer'[i] = peer[i]
          /\ born'[Len(born) + 1] = now /\ peer'[Len(born) + 1] = "waiting"
      BY Zenon, <1>3, OpenedFacts
    <2>2. ASSUME NEW i \in 1..Len(born')
          PROVE  i \in 1..Len(born) \/ i = Len(born) + 1
      BY <1>0, <2>1
    <2>3. ASSUME NEW i \in 1..Len(born')
          PROVE  /\ born'[i] <= now
                 /\ peer'[i] = "timedout" => now - born'[i] >= HandshakeTimeout
      <3>1. CASE i \in 1..Len(born)
        BY Zenon, <2>1, <3>1
      <3>2. CASE i = Len(born) + 1
        BY <1>0, <2>1, <3>2
      <3> QED BY Zenon, <2>2, <3>1, <3>2
    <2>4. ASSUME NEW i \in 1..Len(born'), NEW j \in 1..Len(born'), i < j
          PROVE  born'[i] <= born'[j]
      <3>1. i \in 1..Len(born)
        BY <1>0, <2>1, <2>4
      <3>2. CASE j \in 1..Len(born)
        BY Zenon, <2>1, <2>4, <3>1, <3>2
      <3>3. CASE j = Len(born) + 1
        BY Zenon, <2>1, <3>1, <3>3
      <3> QED BY Zenon, <2>2, <3>2, <3>3
    <2> QED BY Zenon, <1>3, <2>3, <2>4
  <1>4. ASSUME NEW c \in 1..Len(born), NEW e \in {"session", "timedout", "dropped"},
               peer' = [peer EXCEPT ![c] = e], UNCHANGED <<now, born>>,
               e = "timedout" => now - born[c] >= HandshakeTimeout
        PROVE  AgeInv'
    <2>1. \A i \in 1..Len(born) : peer'[i] = IF i = c THEN e ELSE peer[i]
      BY <1>0, <1>4
    <2>2. \A i \in 1..Len(born) :
            peer'[i] = "timedout" => now - born[i] >= HandshakeTimeout
      BY Zenon, <1>4, <2>1
    <2> QED BY Zenon, <1>4, <2>2
  <1>5. ASSUME NEW c \in Open, BridgeTimesOut(c) \/ BridgeDrops(c)
        PROVE  AgeInv'
    <2>1. c \in 1..Len(born)
      BY Zenon, OpenConns
    <2>2. CASE BridgeTimesOut(c)
      BY Zenon, <1>4, <2>1, <2>2 DEF BridgeTimesOut
    <2>3. CASE BridgeDrops(c)
      BY Zenon, <1>4, <2>1, <2>3 DEF BridgeDrops
    <2> QED BY Zenon, <1>5, <2>2, <2>3
  <1>6. ASSUME NEW u \in User, Handshaken(u)
        PROVE  AgeInv'
    <2>1. hold[u] \in 1..Len(born)
      BY <1>6 DEF Handshaken, PoolTypeOK
    <2> QED BY Zenon, <1>4, <1>6, <2>1 DEF Handshaken
  <1>7. ASSUME NEW u \in User, UserStep(u)
        PROVE  AgeInv'
    BY Zenon, <1>1, <1>3, <1>6, <1>7
    DEF UserStep, AcquireIdle, AcquireNone, ConnectOk, ConnectFails, Release
  <1>8. CASE WarmStep
    BY Zenon, <1>1, <1>3, <1>8
    DEF WarmStep, WarmWake, WarmConnectOk, WarmConnectFails, WarmPush, WarmExit
  <1>9. CASE ShutdownSend \/ ShutdownDrain \/ UNCHANGED poolVars
    BY Zenon, <1>1, <1>9 DEF ShutdownSend, ShutdownDrain, poolVars
  <1> QED BY Zenon, <1>2, <1>5, <1>7, <1>8, <1>9 DEF PoolNext

\* The order of the queue and the ages hold in every reachable state.
LEMMA OrderAndAge == PoolSpec => [](PoolTypeOK /\ OrderInv /\ AgeInv)
  <1>1. PoolInit => OrderInv /\ AgeInv
    BY DEF PoolInit, OrderInv, AgeInv
  <1>2. PoolTypeOK /\ OrderInv /\ AgeInv /\ [PoolNext]_poolVars
          => OrderInv' /\ AgeInv'
    BY Zenon, OrderStep, AgeStep
  <1> QED BY <1>1, <1>2, PoolTypeCorrect, PTL DEF PoolSpec

\* Evicting from the front is enough: after an acquire no stale connection is
\* left anywhere in the queue.
THEOREM NothingStaleLeftHolds == PoolSpec => NothingStaleLeft
  <1>1. ASSUME PoolTypeOK, OrderInv, AgeInv, NEW u \in User,
               AcquireIdle(u) \/ AcquireNone(u), NEW c \in Elems(idle')
        PROVE  ~Stale(c)
    <2>1. CASE AcquireIdle(u)
      <3>0. idle \in Seq(Nat) /\ now \in Nat /\ born \in Seq(Nat)
        BY Zenon, <1>1 DEF PoolTypeOK
      <3>1. PICK k \in 1..Len(idle) :
              /\ ~Stale(idle[k])
              /\ idle' \in Seq(Nat) /\ Len(idle') = Len(idle) - k
              /\ \A i \in 1..Len(idle') : idle'[i] = idle[k + i]
        BY Zenon, <1>1, <2>1, AcquireFacts
      <3>2. PICK i \in 1..Len(idle') : c = idle'[i]
        BY Zenon, <1>1, <3>1, ElemAt
      <3>3. k + i \in 1..Len(idle) /\ k < k + i /\ c = idle[k + i]
        BY <3>0, <3>1, <3>2
      <3>4. idle[k] < c
        BY Zenon, <1>1, <3>3 DEF OrderInv
      <3>5. idle[k] \in 1..Len(born) /\ c \in 1..Len(born)
        BY Zenon, <1>1, <3>3 DEF PoolTypeOK
      <3>6. born[idle[k]] <= born[c]
        BY Zenon, <1>1, <3>4, <3>5 DEF AgeInv
      <3>7. born[idle[k]] \in Nat /\ born[c] \in Nat
        <4>1. \A b \in 1..Len(born) : born[b] \in Nat
          BY SMTT(60), <3>0
        <4>. QED
          BY Zenon, <3>5, <4>1
      <3>8. ~(now - born[idle[k]] >= IdleTimeout) /\ now \in Nat /\ IdleTimeout \in Nat
        BY Zenon, <3>0, <3>1, PoolConfig DEF Stale
      <3>9. ~(now - born[c] >= IdleTimeout)
        BY SMTT(60), <3>6, <3>7, <3>8
      <3> QED BY Zenon, <3>9 DEF Stale
    <2>2. CASE AcquireNone(u)
      BY <1>1, <2>2 DEF AcquireNone, Elems
    <2> QED BY Zenon, <1>1, <2>1, <2>2
  <1>2. PoolTypeOK /\ OrderInv /\ AgeInv
          => \A u \in User : AcquireIdle(u) \/ AcquireNone(u)
               => \A c \in Elems(idle') : ~Stale(c)
    BY Zenon, <1>1
  <1> QED BY <1>2, OrderAndAge, PTL DEF NothingStaleLeft

\* If idle_timeout_secs is not above the bridge's handshake timeout, acquire
\* never hands out a pooled connection that the bridge has timed out.
THEOREM NoTimedOutHandOutHolds == PoolSpec => NoTimedOutHandOut
  <1>1. ASSUME PoolTypeOK, AgeInv, IdleTimeout <= HandshakeTimeout,
               NEW u \in User, AcquireIdle(u)
        PROVE  peer[hold'[u]] # "timedout"
    <2>1. PICK k \in 1..Len(idle) :
            /\ ~Stale(idle[k])
            /\ hold' = [hold EXCEPT ![u] = idle[k]]
      BY Zenon, <1>1, AcquireFacts
    <2>2. hold'[u] = idle[k] /\ idle[k] \in 1..Len(born)
      BY Zenon, <1>1, <2>1 DEF PoolTypeOK
    <2>3. now \in Nat /\ born[idle[k]] \in Nat
      BY SMTT(60), <1>1, <2>2 DEF PoolTypeOK
    <2>4. ~(now - born[idle[k]] >= HandshakeTimeout)
      BY <1>1, <2>1, <2>3, PoolConfig DEF Stale
    <2> QED BY Zenon, <1>1, <2>2, <2>4 DEF AgeInv
  <1>2. PoolTypeOK /\ OrderInv /\ AgeInv
          => (IdleTimeout <= HandshakeTimeout
               => \A u \in User : AcquireIdle(u) => peer[hold'[u]] # "timedout")
    BY Zenon, <1>1
  <1> QED BY <1>2, OrderAndAge, PTL DEF NoTimedOutHandOut

-----------------------------------------------------------------------------
(***************************************************************************)
(* The session loop (ClientSession).                                       *)
(***************************************************************************)

\* Every step of a session or of the pool's tasks is a step of the pool as
\* PoolSpec has it, or leaves the pool alone: what is proved above of the pool
\* holds of the client proxy.
THEOREM SessionsUsePool == Spec => UsesPool
  <1>1. Init => PoolInit
    BY Zenon DEF Init
  <1>2. [Next]_vars => [PoolNext]_poolVars
    <2> SUFFICES ASSUME [Next]_vars PROVE [PoolNext]_poolVars
      BY Zenon
    <2>1. CASE vars' = vars
      BY Zenon, <2>1 DEF vars
    <2>2. ASSUME NEW u \in User, SessionStep(u)
          PROVE  UserStep(u) \/ poolVars' = poolVars
      BY Zenon, <2>2 DEF SessionStep, UserStep, Accept, Acquire, Connect, AcquireFails, Backoff,
                  HandshakeOk, HandshakeAuth, HandshakeTransport, UserEof, UserError,
                  CleanEnd, BridgeError
    <2>3. CASE PoolStep
      BY Zenon, <2>3 DEF PoolStep, PoolNext
    <2> QED BY Zenon, <2>1, <2>2, <2>3 DEF Next, PoolNext
  <1> QED BY <1>1, <1>2, PTL DEF Spec, PoolSpec, UsesPool

Phase == {"new", "acquire", "connect", "handshake", "relay", "backoff"} \cup Over
Event == [kind : {"Reconnected", "Exhausted"}, attempt : Nat]

SessionType ==
  /\ pc \in [User -> Phase]
  /\ attempt \in [User -> Nat]
  /\ user_eof \in [User -> BOOLEAN]
  /\ events \in [User -> Seq(Event)]

\* What handle keeps between two retries.  No attempt was reported before it was
\* made, and none but the earlier ones while the next connection is on its way;
\* an Exhausted is the last event, of a session that was cut.
RetryInv(u) ==
  /\ attempt[u] <= MaxRetries
  /\ pc[u] = "backoff" => attempt[u] < MaxRetries
  /\ user_eof[u] => pc[u] \in {"relay"} \cup Over
  /\ \A i \in 1..Len(events[u]) :
       /\ events[u][i].attempt <= attempt[u]
       /\ pc[u] \in {"acquire", "connect", "handshake"} => events[u][i].attempt < attempt[u]
       /\ pc[u] # "new"
       /\ events[u][i].kind = "Exhausted" =>
            i = Len(events[u]) /\ pc[u] = "cut" /\ events[u][i].attempt = MaxRetries
       /\ events[u][i].kind = "Reconnected" =>
            \A j \in 1..(i - 1) : events[u][j].attempt < events[u][i].attempt

\* A session that gives up or retries keeps its record (RetryOrCut).
LEMMA RetryKeeps ==
  ASSUME NEW u \in User, SessionType, RetryInv(u), RetryOrCut(u),
         pc[u] \in {"connect", "handshake", "relay"}, ~user_eof[u],
         UNCHANGED <<attempt, user_eof>>
  PROVE  SessionType' /\ RetryInv(u)'
  <1>0. attempt[u] \in Nat /\ events[u] \in Seq(Event) /\ ~user_eof'[u]
    BY Zenon DEF SessionType
  <1>1. CASE attempt[u] < MaxRetries
    <2>1. pc' = [pc EXCEPT ![u] = "backoff"] /\ UNCHANGED events
      BY Zenon, <1>1 DEF RetryOrCut, Goto
    <2>2. SessionType' /\ pc'[u] = "backoff"
      BY Zenon, <2>1 DEF SessionType, Phase
    <2> QED BY ZenonT(60), <1>0, <1>1, <2>1, <2>2 DEF RetryInv
  <1>2. CASE ~(attempt[u] < MaxRetries)
    <2>1. attempt[u] = MaxRetries
      BY <1>0, <1>2, RetriesNat DEF RetryInv
    <2>2. pc' = [pc EXCEPT ![u] = "cut"]
      BY Zenon, <1>2 DEF RetryOrCut, Goto
    <2>3. pc'[u] = "cut" /\ pc' \in [User -> Phase]
      BY Zenon, <2>2 DEF SessionType, Phase, Over
    <2>4. CASE MaxRetries > 0
      <3> DEFINE e == Exhausted(attempt[u])
      <3>1. events' = [events EXCEPT ![u] = Append(events[u], e)]
        BY Zenon, <1>2, <2>4 DEF RetryOrCut
      <3>2. e \in Event /\ e.kind = "Exhausted" /\ e.attempt = attempt[u]
        BY Zenon, <1>0 DEF Exhausted, Event
      <3> HIDE DEF e
      <3>3. /\ Append(events[u], e) \in Seq(Event)
            /\ Len(Append(events[u], e)) = Len(events[u]) + 1
            /\ Append(events[u], e)[Len(events[u]) + 1] = e
            /\ \A i \in 1..Len(events[u]) : Append(events[u], e)[i] = events[u][i]
        BY <1>0, <3>2, Added
      <3>4. events'[u] = Append(events[u], e) /\ events' \in [User -> Seq(Event)]
        BY Zenon, <3>1, <3>3 DEF SessionType
      <3>5. SessionType'
        BY Zenon, <2>3, <3>4 DEF SessionType
      <3>6. \A i \in 1..Len(events[u]) : events[u][i].kind # "Exhausted"
        BY Zenon DEF RetryInv, Over
      <3>7. PICK n \in Nat : n = Len(events[u])
        BY SMTT(60), <1>0
      <3>8. ASSUME NEW i \in 1..(n + 1)
            PROVE  /\ events'[u][i].attempt <= attempt'[u]
                   /\ events'[u][i].kind = "Exhausted" =>
                        i = n + 1 /\ events'[u][i].attempt = MaxRetries
                   /\ events'[u][i].kind = "Reconnected" =>
                        \A j \in 1..(i - 1) : events'[u][j].attempt < events'[u][i].attempt
        <4>1. CASE i = n + 1
          BY <4>1, <3>2, <3>3, <3>4, <3>7, <2>1, <1>0
        <4>2. CASE i \in 1..n
          <5>1. events'[u][i] = events[u][i] /\ \A j \in 1..(i - 1) : events'[u][j] = events[u][j]
            BY <4>2, <3>3, <3>4, <3>7
          <5> QED BY Zenon, <4>2, <5>1, <3>6, <3>7 DEF RetryInv
        <4> QED BY SMTT(60), <4>1, <4>2
      <3>9. Len(events'[u]) = n + 1
        BY Zenon, <3>3, <3>4, <3>7
      <3> QED BY Zenon, <1>0, <2>1, <2>3, <3>5, <3>8, <3>9 DEF RetryInv, Over
    <2>5. CASE ~(MaxRetries > 0)
      <3>1. events' = [events EXCEPT ![u] = events[u]]
        BY Zenon, <1>2, <2>5 DEF RetryOrCut
      <3>2. events' = events
        BY Zenon, <3>1 DEF SessionType
      <3>3. \A i \in 1..Len(events[u]) : events[u][i].kind # "Exhausted"
        BY Zenon DEF RetryInv, Over
      <3> QED BY Zenon, <1>0, <2>3, <3>2, <3>3 DEF RetryInv, SessionType, Over
    <2> QED BY Zenon, <2>4, <2>5
  <1> QED BY Zenon, <1>1, <1>2

\* A session that enters the relay reports the attempt it made, if it is one (Enter).
LEMMA EnterKeeps ==
  ASSUME NEW u \in User, SessionType, RetryInv(u), pc[u] = "handshake", Enter(u),
         UNCHANGED <<attempt, user_eof>>
  PROVE  SessionType' /\ RetryInv(u)'
  <1>0. attempt[u] \in Nat /\ events[u] \in Seq(Event) /\ ~user_eof'[u]
    BY Zenon DEF SessionType, RetryInv, Over
  <1>1. pc' = [pc EXCEPT ![u] = "relay"]
    BY Zenon DEF Enter, Goto
  <1>2. pc'[u] = "relay" /\ pc' \in [User -> Phase]
    BY Zenon, <1>1 DEF SessionType, Phase
  <1>3. \A i \in 1..Len(events[u]) :
          events[u][i].kind # "Exhausted" /\ events[u][i].attempt < attempt[u]
    BY Zenon DEF RetryInv
  <1>4. CASE attempt[u] > 0
    <2> DEFINE e == Reconnected(attempt[u])
    <2>1. events' = [events EXCEPT ![u] = Append(events[u], e)]
      BY Zenon, <1>4 DEF Enter
    <2>2. e \in Event /\ e.kind = "Reconnected" /\ e.attempt = attempt[u]
      BY Zenon, <1>0 DEF Reconnected, Event
    <2> HIDE DEF e
    <2>3. /\ Append(events[u], e) \in Seq(Event)
          /\ Len(Append(events[u], e)) = Len(events[u]) + 1
          /\ Append(events[u], e)[Len(events[u]) + 1] = e
          /\ \A i \in 1..Len(events[u]) : Append(events[u], e)[i] = events[u][i]
      BY <1>0, <2>2, Added
    <2>4. events'[u] = Append(events[u], e) /\ events' \in [User -> Seq(Event)]
      BY Zenon, <2>1, <2>3 DEF SessionType
    <2>5. SessionType'
      BY Zenon, <1>2, <2>4 DEF SessionType
    <2>6. PICK n \in Nat : n = Len(events[u])
      BY SMTT(60), <1>0
    <2>7. ASSUME NEW i \in 1..(n + 1)
          PROVE  /\ events'[u][i].attempt <= attempt'[u]
                 /\ events'[u][i].kind # "Exhausted"
                 /\ events'[u][i].kind = "Reconnected" =>
                      \A j \in 1..(i - 1) : events'[u][j].attempt < events'[u][i].attempt
      <3>1. CASE i = n + 1
        <4>1. \A j \in 1..n : events'[u][j].attempt < attempt[u]
          BY Zenon, <1>3, <2>3, <2>4, <2>6
        <4>2. events'[u][i] = e
          BY Zenon, <3>1, <2>3, <2>4, <2>6
        <4> QED BY <1>0, <3>1, <4>1, <4>2, <2>2
      <3>2. CASE i \in 1..n
        <4>1. events'[u][i] = events[u][i] /\ \A j \in 1..(i - 1) : events'[u][j] = events[u][j]
          BY <3>2, <2>3, <2>4, <2>6
        <4> QED BY Zenon, <3>2, <4>1, <1>3, <2>6 DEF RetryInv
      <3> QED BY <3>1, <3>2
    <2>8. Len(events'[u]) = n + 1
      BY Zenon, <2>3, <2>4, <2>6
    <2> QED BY Zenon, <1>0, <1>2, <2>5, <2>7, <2>8 DEF RetryInv
  <1>5. CASE ~(attempt[u] > 0)
    <2>1. events' = [events EXCEPT ![u] = events[u]]
      BY Zenon, <1>5 DEF Enter
    <2>2. events' = events
      BY Zenon, <2>1 DEF SessionType
    <2> QED BY Zenon, <1>0, <1>2, <1>3, <2>2 DEF RetryInv, SessionType
  <1> QED BY Zenon, <1>4, <1>5

\* A step of one session leaves the record of another.
LEMMA OtherKeeps ==
  ASSUME NEW u \in User, NEW v \in User, v # u, SessionType, RetryInv(v), SessionStep(u)
  PROVE  RetryInv(v)'
  <1>1. pc'[v] = pc[v] /\ attempt'[v] = attempt[v] /\ user_eof'[v] = user_eof[v]
    BY Zenon DEF SessionType, SessionStep, Accept, Acquire, Connect, AcquireFails, Backoff,
           HandshakeOk, HandshakeAuth, HandshakeTransport, UserEof, UserError,
           CleanEnd, BridgeError, Goto, RetryOrCut, Enter
  <1>2. events'[v] = events[v]
    BY Zenon DEF SessionType, SessionStep, Accept, Acquire, Connect, AcquireFails, Backoff,
           HandshakeOk, HandshakeAuth, HandshakeTransport, UserEof, UserError,
           CleanEnd, BridgeError, Goto, RetryOrCut, Enter
  <1> QED BY Zenon, <1>1, <1>2 DEF RetryInv

\* A step of a session keeps its own record, one case per action.
LEMMA SessionKeeps ==
  ASSUME NEW u \in User, SessionType, RetryInv(u), SessionStep(u)
  PROVE  SessionType' /\ RetryInv(u)'
  <1>0. attempt[u] \in Nat /\ events[u] \in Seq(Event)
    BY Zenon DEF SessionType
  <1>1. CASE Accept(u)
    <2>1. pc[u] = "new" /\ pc' = [pc EXCEPT ![u] = "acquire"] /\ UNCHANGED <<attempt, user_eof, events>>
      BY Zenon, <1>1 DEF Accept, Goto
    <2>2. SessionType' /\ pc'[u] = "acquire"
      BY Zenon, <2>1 DEF SessionType, Phase
    <2> QED BY Zenon, <2>1, <2>2 DEF RetryInv, Over
  <1>2. CASE Acquire(u) \/ Connect(u)
    <2>1. /\ pc[u] \in {"acquire", "connect"} /\ UNCHANGED <<attempt, user_eof, events>>
          /\ pc' = [pc EXCEPT ![u] = "handshake"] \/ pc' = [pc EXCEPT ![u] = "connect"]
      BY Zenon, <1>2 DEF Acquire, Connect, Goto
    <2>2. SessionType' /\ pc'[u] \in {"connect", "handshake"}
      BY Zenon, <2>1 DEF SessionType, Phase
    <2> QED BY Zenon, <2>1, <2>2 DEF RetryInv, Over
  <1>3. CASE AcquireFails(u) \/ HandshakeTransport(u) \/ BridgeError(u)
    <2>1. /\ pc[u] \in {"connect", "handshake", "relay"} /\ RetryOrCut(u)
          /\ UNCHANGED <<attempt, user_eof>>
      BY Zenon, <1>3 DEF AcquireFails, HandshakeTransport, BridgeError, BridgeGone
    <2>2. ~user_eof[u]
      BY ZenonT(60), <1>3 DEF AcquireFails, HandshakeTransport, BridgeError, RetryInv, Over
    <2> QED BY Zenon, <2>1, <2>2, RetryKeeps
  <1>4. CASE Backoff(u)
    <2>1. /\ pc[u] = "backoff" /\ pc' = [pc EXCEPT ![u] = "acquire"]
          /\ attempt' = [attempt EXCEPT ![u] = attempt[u] + 1] /\ UNCHANGED <<user_eof, events>>
      BY Zenon, <1>4 DEF Backoff, Goto
    <2>2. SessionType' /\ pc'[u] = "acquire" /\ attempt'[u] = attempt[u] + 1
      BY <2>1, <1>0 DEF SessionType, Phase
    <2>3. attempt[u] < MaxRetries
      BY Zenon, <2>1 DEF RetryInv
    <2>4. \A i \in 1..Len(events[u]) : events[u][i].attempt \in Nat
      <3>1. \A i \in 1..Len(events[u]) : events[u][i] \in Event
        BY <1>0
      <3> QED BY Zenon, <3>1 DEF Event
    <2> QED BY SMTT(60), <1>0, <2>1, <2>2, <2>3, <2>4, RetriesNat DEF RetryInv, Over
  <1>5. CASE HandshakeOk(u)
    BY Zenon, <1>5, EnterKeeps DEF HandshakeOk
  <1>6. CASE HandshakeAuth(u) \/ UserError(u) \/ CleanEnd(u)
    <2>1. /\ pc[u] \in {"handshake", "relay"} /\ UNCHANGED <<attempt, user_eof, events>>
          /\ pc' = [pc EXCEPT ![u] = "refused"] \/ pc' = [pc EXCEPT ![u] = "ended"]
      BY Zenon, <1>6 DEF HandshakeAuth, UserError, CleanEnd, BridgeGone, Goto
    <2>2. SessionType' /\ pc'[u] \in {"refused", "ended"}
      BY Zenon, <2>1 DEF SessionType, Phase, Over
    <2> QED BY Zenon, <2>1, <2>2 DEF RetryInv, Over
  <1>7. CASE UserEof(u)
    <2>1. pc[u] = "relay" /\ user_eof' = [user_eof EXCEPT ![u] = TRUE] /\ UNCHANGED <<pc, attempt, events>>
      BY Zenon, <1>7 DEF UserEof
    <2>2. SessionType'
      BY Zenon, <2>1 DEF SessionType
    <2> QED BY Zenon, <2>1, <2>2 DEF RetryInv, Over
  <1> QED BY Zenon, <1>1, <1>2, <1>3, <1>4, <1>5, <1>6, <1>7 DEF SessionStep

\* The record of every session is kept.
LEMMA RetryCorrect == Spec => [](SessionType /\ \A u \in User : RetryInv(u))
  <1> DEFINE I == SessionType /\ \A u \in User : RetryInv(u)
  <1>1. Init => I
    <2> SUFFICES ASSUME Init PROVE I
      BY Zenon
    <2>1. SessionType
      BY DEF Init, SessionType, Phase
    <2>2. \A u \in User : pc[u] = "new" /\ attempt[u] = 0 /\ ~user_eof[u] /\ Len(events[u]) = 0
      BY Zenon DEF Init
    <2> QED BY <2>1, <2>2, RetriesNat DEF RetryInv, Over
  <1>2. I /\ [Next]_vars => I'
    <2> SUFFICES ASSUME I, [Next]_vars PROVE I'
      BY ZenonT(60)
    <2>1. CASE UNCHANGED sessionVars
      BY <2>1 DEF sessionVars, SessionType, RetryInv
    <2>2. ASSUME NEW u \in User, SessionStep(u) PROVE I'
      BY Zenon, <2>2, SessionKeeps, OtherKeeps
    <2> QED BY Zenon, <2>1, <2>2 DEF Next, vars
  <1> QED BY <1>1, <1>2, PTL DEF Spec

\* However connects, handshakes and relays fail, the reconnect events of a session
\* come in order, with one Exhausted at most, at its end; and no connection is made
\* for a user that has closed its side (handle).
THEOREM RetriesInOrderHolds == Spec => []RetriesInOrder
  <1>1. SessionType /\ (\A u \in User : RetryInv(u)) => RetriesInOrder
    <2>1. ASSUME SessionType, NEW u \in User PROVE DOMAIN events[u] = 1..Len(events[u])
      BY <2>1 DEF SessionType
    <2> QED BY Zenon, <2>1 DEF RetriesInOrder, RetryInv
  <1> QED BY <1>1, RetryCorrect, PTL

\* A step of the session loop is one of these moves; the other sessions stay.
LEMMA Moves ==
  ASSUME NEW u \in User, SessionType, SessionStep(u)
  PROVE  /\ \A v \in User : v # u => pc'[v] = pc[v] /\ attempt'[v] = attempt[v]
         /\ \/ /\ attempt'[u] = attempt[u]
               /\ \/ pc'[u] = pc[u]
                  \/ pc[u] = "new" /\ pc'[u] = "acquire"
                  \/ pc[u] = "acquire" /\ pc'[u] \in {"connect", "handshake"}
                  \/ pc[u] = "connect" /\ pc'[u] \in {"handshake", "backoff", "cut"}
                  \/ pc[u] = "handshake" /\ pc'[u] \in {"relay", "backoff", "cut", "refused"}
                  \/ pc[u] = "relay" /\ pc'[u] \in {"backoff", "cut", "ended"}
            \/ attempt'[u] = attempt[u] + 1
  <1> USE DEF SessionType, Goto
  <1>1. CASE Accept(u)
    BY Zenon, <1>1 DEF Accept
  <1>2. CASE Acquire(u) \/ Connect(u)
    BY Zenon, <1>2 DEF Acquire, Connect
  <1>3. CASE AcquireFails(u) \/ HandshakeTransport(u) \/ BridgeError(u)
    BY Zenon, <1>3 DEF AcquireFails, HandshakeTransport, BridgeError, BridgeGone, RetryOrCut
  <1>4. CASE Backoff(u)
    BY Zenon, <1>4 DEF Backoff
  <1>5. CASE HandshakeOk(u) \/ HandshakeAuth(u)
    BY Zenon, <1>5 DEF HandshakeOk, HandshakeAuth, Enter
  <1>6. CASE UserEof(u) \/ UserError(u) \/ CleanEnd(u)
    BY Zenon, <1>6 DEF UserEof, UserError, CleanEnd, BridgeGone
  <1> QED BY Zenon, <1>1, <1>2, <1>3, <1>4, <1>5, <1>6 DEF SessionStep

\* For any number of retries and sessions, each move of a session brings it nearer
\* to the end of its attempt or spends a retry, of which there are max_retries: the
\* loop of handle is bounded (with the fairness of the tasks, Settles).
THEOREM RetriesRunOutHolds == Spec => RetriesRunOut
  <1>1. ASSUME SessionType, [Next]_vars, NEW u \in User,
               pc'[u] # pc[u] \/ attempt'[u] # attempt[u]
        PROVE  \/ attempt[u] < attempt'[u]
               \/ attempt'[u] = attempt[u] /\ Rank(pc'[u]) < Rank(pc[u])
    <2>0. attempt[u] \in Nat
      BY Zenon, <1>1 DEF SessionType
    <2>1. PICK v \in User : SessionStep(v)
      BY Zenon, <1>1 DEF Next, vars, sessionVars
    <2>2. v = u
      BY Zenon, <1>1, <2>1, Moves
    <2>3. CASE attempt'[u] = attempt[u] + 1
      BY <2>0, <2>3
    <2>4. CASE attempt'[u] = attempt[u]
               /\ \/ pc[u] = "new" /\ pc'[u] = "acquire"
                  \/ pc[u] = "acquire" /\ pc'[u] \in {"connect", "handshake"}
                  \/ pc[u] = "connect" /\ pc'[u] \in {"handshake", "backoff", "cut"}
                  \/ pc[u] = "handshake" /\ pc'[u] \in {"relay", "backoff", "cut", "refused"}
                  \/ pc[u] = "relay" /\ pc'[u] \in {"backoff", "cut", "ended"}
      BY <2>4 DEF Rank
    <2> QED BY Zenon, <1>1, <2>1, <2>2, <2>3, <2>4, Moves
  <1>2. SessionType /\ [Next]_vars =>
          [\A u \in User : pc'[u] # pc[u] \/ attempt'[u] # attempt[u] =>
             \/ attempt[u] < attempt'[u]
             \/ attempt'[u] = attempt[u] /\ Rank(pc'[u]) < Rank(pc[u])]_vars
    BY Zenon, <1>1
  <1>3. (\A u \in User : RetryInv(u)) => \A u \in User : attempt[u] <= MaxRetries
    BY Zenon DEF RetryInv
  <1> QED BY <1>2, <1>3, RetryCorrect, PTL DEF Spec, RetriesRunOut

\* What a step does to the connection in the hands of a session.
LEMMA HoldStep ==
  ASSUME PoolTypeOK, SessionType, HoldsOnlyInUse, NEW u \in User, SessionStep(u)
  PROVE  HoldsOnlyInUse'
  <1> DEFINE In(l) == l \in {"handshake", "relay"}
             Kept == hold' = hold /\ connecting' = connecting
             Given(c) == c # 0 /\ hold' = [hold EXCEPT ![u] = c]
             Dropped == hold' = [hold EXCEPT ![u] = 0] /\ connecting' = connecting
  <1>0. hold \in [User -> 0..Len(born)] /\ pc \in [User -> Phase] /\ connecting \subseteq User
    BY Zenon DEF PoolTypeOK, SessionType
  <1>1. ASSUME NEW l, Goto(u, l), Kept, l = "connect" <=> pc[u] = "connect", In(l) <=> In(pc[u])
        PROVE  HoldsOnlyInUse'
    BY Zenon, <1>0, <1>1 DEF HoldsOnlyInUse, Goto
  <1>2. ASSUME NEW c, Given(c), Goto(u, "handshake"), connecting' = connecting \ {u}
        PROVE  HoldsOnlyInUse'
    BY Zenon, <1>0, <1>2 DEF HoldsOnlyInUse, Goto
  <1>3. ASSUME NEW l, Goto(u, l), ~In(l), l # "connect", Dropped, In(pc[u])
        PROVE  HoldsOnlyInUse'
    BY Zenon, <1>0, <1>3 DEF HoldsOnlyInUse, Goto
  <1>4. CASE Accept(u) \/ Backoff(u)
    BY Zenon, <1>1, <1>4 DEF Accept, Backoff, poolVars
  <1>5. CASE Acquire(u)
    <2>1. CASE AcquireIdle(u) /\ Goto(u, "handshake")
      <3>1. PICK k \in 1..Len(idle) : hold' = [hold EXCEPT ![u] = idle[k]]
        BY Zenon, <2>1 DEF AcquireIdle
      <3>2. idle[k] # 0
        BY DEF PoolTypeOK
      <3>3. connecting' = connecting /\ u \notin connecting
        BY Zenon, <2>1 DEF AcquireIdle, Acquiring
      <3>4. connecting' = connecting \ {u}
        BY Zenon, <3>3
      <3> QED BY Zenon, <1>2, <2>1, <3>1, <3>2, <3>4
    <2>2. CASE AcquireNone(u) /\ Goto(u, "connect")
      BY Zenon, <1>0, <2>2 DEF AcquireNone, Acquiring, HoldsOnlyInUse, Goto
    <2> QED BY Zenon, <1>5, <2>1, <2>2 DEF Acquire
  <1>6. CASE Connect(u)
    <2>1. Len(born) + 1 # 0
      BY DEF PoolTypeOK
    <2> QED BY Zenon, <1>2, <1>6, <2>1 DEF Connect, ConnectOk
  <1>7. CASE AcquireFails(u)
    <2>1. PICK l \in {"backoff", "cut"} : Goto(u, l)
      BY Zenon, <1>7 DEF AcquireFails, RetryOrCut
    <2>2. pc[u] = "connect" /\ hold' = hold /\ connecting' = connecting \ {u}
      BY Zenon, <1>7 DEF AcquireFails, ConnectFails
    <2> QED BY Zenon, <1>0, <2>1, <2>2 DEF HoldsOnlyInUse, Goto
  <1>8. CASE HandshakeOk(u)
    BY Zenon, <1>1, <1>8 DEF HandshakeOk, Enter, Handshaken, poolVars
  <1>9. CASE HandshakeTransport(u) \/ BridgeError(u)
    <2>1. PICK l \in {"backoff", "cut"} : Goto(u, l)
      BY Zenon, <1>9 DEF HandshakeTransport, BridgeError, RetryOrCut
    <2>2. In(pc[u]) /\ Dropped
      BY Zenon, <1>9 DEF HandshakeTransport, BridgeError, BridgeGone, Release
    <2> QED BY Zenon, <1>3, <2>1, <2>2
  <1>10. CASE HandshakeAuth(u) \/ UserError(u) \/ CleanEnd(u)
    <2>1. PICK l \in {"refused", "ended"} : Goto(u, l)
      BY Zenon, <1>10 DEF HandshakeAuth, UserError, CleanEnd
    <2>2. In(pc[u]) /\ Dropped
      BY Zenon, <1>10 DEF HandshakeAuth, UserError, CleanEnd, BridgeGone, Release
    <2> QED BY Zenon, <1>3, <2>1, <2>2
  <1>11. CASE UserEof(u)
    BY Zenon, <1>11 DEF UserEof, poolVars, HoldsOnlyInUse
  <1> QED BY Zenon, <1>4, <1>5, <1>6, <1>7, <1>8, <1>9, <1>10, <1>11 DEF SessionStep

\* A session has a connection in its hands exactly while it shakes hands or relays,
\* for any number of sessions, retries and connections: every way out of the loop
\* of handle drops it.
THEOREM HoldsOnlyInUseHolds == Spec => []HoldsOnlyInUse
  <1>1. Init => HoldsOnlyInUse
    BY Zenon DEF Init, PoolInit, HoldsOnlyInUse
  <1>2. PoolTypeOK /\ SessionType /\ HoldsOnlyInUse /\ [Next]_vars => HoldsOnlyInUse'
    <2> SUFFICES ASSUME PoolTypeOK, SessionType, HoldsOnlyInUse, [Next]_vars
                 PROVE  HoldsOnlyInUse'
      BY Zenon
    <2>1. CASE vars' = vars
      BY Zenon, <2>1 DEF vars, poolVars, sessionVars, HoldsOnlyInUse
    <2>2. CASE PoolStep /\ UNCHANGED sessionVars
      <3>1. hold' = hold /\ connecting' = connecting
        BY Zenon, <2>2 DEF PoolStep, Tick, BridgeTimesOut, BridgeDrops, WarmStep, WarmWake,
             WarmConnectOk, WarmConnectFails, WarmPush, WarmExit, ShutdownSend, ShutdownDrain
      <3> QED BY Zenon, <2>2, <3>1 DEF sessionVars, HoldsOnlyInUse
    <2> QED BY Zenon, <2>1, <2>2, HoldStep DEF Next
  <1>3. Spec => []PoolTypeOK
    BY SessionsUsePool, PoolTypeCorrect, PTL DEF UsesPool
  <1> QED BY <1>1, <1>2, <1>3, RetryCorrect, PTL DEF Spec

=============================================================================
