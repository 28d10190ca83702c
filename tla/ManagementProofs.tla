-------------------------- MODULE ManagementProofs --------------------------
(***************************************************************************)
(* The one-time tokens of vk_share.rs, for every number of tokens, every   *)
(* TTL and every cap; the management plane as an implementation of the     *)
(* store alone, so that its admin connections and TLS requests inherit it; *)
(* and the safety of the admin channel and of the control plane's commands,*)
(* for every number of connections, rate, freshness window and queue.      *)
(***************************************************************************)
EXTENDS Management, FiniteSetTheorems, TLAPS

VkTypeOK ==
  /\ now \in Nat
  /\ store \in [Token -> Entry]
  /\ minted \subseteq Token
  /\ served \in [Token -> Nat]

Held(s) == {t \in Token : s[t].live}

\* What makes TokenOnce inductive: a token that was never drawn has no entry and
\* was never served, and an entry that is not marked was never served.
VkInv ==
  /\ VkTypeOK
  /\ \A t \in Token : t \notin minted => ~store[t].live /\ served[t] = 0
  /\ \A t \in Token : store[t].live /\ ~store[t].used => served[t] = 0
  /\ TokenOnce
  /\ TokenCap

\* Evicting and emptying entries never makes the store larger.
LEMMA HeldShrinks ==
  ASSUME NEW r, NEW s, \A t \in Token : r[t].live => s[t].live
  PROVE  /\ IsFiniteSet(Held(r)) /\ IsFiniteSet(Held(s))
         /\ Cardinality(Held(r)) \in Nat /\ Cardinality(Held(s)) \in Nat
         /\ Cardinality(Held(r)) <= Cardinality(Held(s))
<1>1. Held(r) \subseteq Held(s) /\ Held(s) \subseteq Token
  BY Zenon DEF Held
<1>2. IsFiniteSet(Held(s))
  BY Zenon, <1>1, FS_Subset, VkShareAssumption
<1>3. IsFiniteSet(Held(r)) /\ Cardinality(Held(r)) <= Cardinality(Held(s))
  BY Zenon, <1>1, <1>2, FS_Subset
<1>. QED
  BY Zenon, <1>2, <1>3, FS_CardinalityType

\* An entry added to a store below its cap leaves it within the cap.
LEMMA HeldGrows ==
  ASSUME NEW r, NEW s, NEW t \in Token, \A u \in Token : u # t => r[u].live = s[u].live,
         Cardinality(Held(s)) < MaxTokens
  PROVE  Cardinality(Held(r)) <= MaxTokens
<1>1. IsFiniteSet(Held(s)) /\ IsFiniteSet(Held(r))
  <2>1. Held(s) \subseteq Token /\ Held(r) \subseteq Token
    BY Zenon DEF Held
  <2>. QED
    BY Zenon, <2>1, FS_Subset, VkShareAssumption
<1>2. Held(r) \subseteq Held(s) \cup {t}
  BY Zenon DEF Held
<1>3. IsFiniteSet(Held(s) \cup {t}) /\ Cardinality(Held(s) \cup {t}) <= Cardinality(Held(s)) + 1
  <2>1. CASE t \in Held(s)
    <3>1. Held(s) \cup {t} = Held(s)
      BY Zenon, <2>1
    <3>2. Cardinality(Held(s)) \in Nat
      BY Zenon, <1>1, FS_CardinalityType
    <3>3. Cardinality(Held(s)) <= Cardinality(Held(s)) + 1
      BY <3>2
    <3>. QED
      BY Zenon, <1>1, <3>1, <3>3
  <2>2. CASE t \notin Held(s)
    <3>1. IsFiniteSet(Held(s) \cup {t}) /\ Cardinality(Held(s) \cup {t}) = Cardinality(Held(s)) + 1
      BY Zenon, <1>1, <2>2, FS_AddElement
    <3>2. Cardinality(Held(s)) \in Nat
      BY Zenon, <1>1, FS_CardinalityType
    <3>3. Cardinality(Held(s)) + 1 <= Cardinality(Held(s)) + 1
      BY <3>2
    <3>. QED
      BY Zenon, <3>1, <3>3
  <2>. QED
    BY Zenon, <2>1, <2>2
<1>4. Cardinality(Held(r)) <= Cardinality(Held(s) \cup {t})
  BY Zenon, <1>2, <1>3, FS_Subset
<1>5. /\ Cardinality(Held(r)) \in Nat /\ Cardinality(Held(s)) \in Nat
      /\ Cardinality(Held(s) \cup {t}) \in Nat
  BY Zenon, <1>1, <1>3, FS_CardinalityType
<1>. QED
  BY <1>3, <1>4, <1>5, VkShareAssumption

\* create_token keeps the invariant: what it retains is what was there, and the
\* token it adds is new.
LEMMA CreateKeeps ==
  ASSUME VkInv, NEW t \in Token, create_token(t)
  PROVE  VkInv'
<1>. DEFINE entry == [live |-> TRUE, expires_at |-> now + Ttl, used |-> FALSE]
<1>1. absent \in Entry /\ entry \in Entry /\ ~absent.live
  BY VkShareAssumption DEF absent, Entry, VkInv, VkTypeOK
<1>2. /\ Retained \in [Token -> Entry]
      /\ \A u \in Token : Retained[u].live => Retained[u] = store[u] /\ store[u].live
  BY Zenon, <1>1 DEF Retained, VkInv, VkTypeOK
<1>3. CASE Full(Retained)
  <2>1. store' = Retained /\ UNCHANGED <<now, minted, served>>
    BY Zenon, <1>3 DEF create_token
  <2>2. TokenCap'
    <3>1. Cardinality(Held(Retained)) <= Cardinality(Held(store)) /\ Cardinality(Held(Retained)) \in Nat
          /\ Cardinality(Held(store)) \in Nat
      BY Zenon, <1>2, HeldShrinks
    <3>2. Cardinality(Held(store)) <= MaxTokens
      BY Zenon DEF VkInv, TokenCap, Held
    <3>3. Cardinality(Held(Retained)) <= MaxTokens
      BY <3>1, <3>2, VkShareAssumption
    <3>. QED
      BY Zenon, <2>1, <3>3 DEF TokenCap, Held
  <2>3. TokenOnce' /\ VkTypeOK'
    BY Zenon, <1>2, <2>1 DEF VkInv, VkTypeOK, TokenOnce
  <2>. QED
    BY Zenon, <1>2, <2>1, <2>2, <2>3 DEF VkInv
<1>4. CASE ~Full(Retained)
  <2>1. /\ store' = [Retained EXCEPT ![t] = entry] /\ minted' = minted \cup {t}
        /\ t \notin minted /\ UNCHANGED <<now, served>>
    BY Zenon, <1>4 DEF create_token
  <2>2. store' \in [Token -> Entry] /\ store'[t] = entry
        /\ \A u \in Token : u # t => store'[u] = Retained[u]
    BY Zenon, <1>1, <1>2, <2>1
  <2>3. TokenCap'
    <3>1. IsFiniteSet(Held(Retained)) /\ Cardinality(Held(Retained)) \in Nat
      BY Zenon, <1>2, HeldShrinks
    <3>2. Cardinality(Held(Retained)) < MaxTokens
      BY <1>4, <3>1, VkShareAssumption DEF Full, Held
    <3>3. Cardinality(Held(store')) <= MaxTokens
      BY Zenon, <2>2, <3>2, HeldGrows
    <3>. QED
      BY Zenon, <3>3 DEF TokenCap, Held
  <2>4. TokenOnce' /\ VkTypeOK'
    BY Zenon, <2>1, <2>2 DEF VkInv, VkTypeOK, TokenOnce
  <2>5. \A u \in Token : u \notin minted' => ~store'[u].live /\ served'[u] = 0
    BY Zenon, <1>2, <2>1, <2>2 DEF VkInv
  <2>6. \A u \in Token : store'[u].live /\ ~store'[u].used => served'[u] = 0
    BY <1>2, <2>1, <2>2 DEF VkInv
  <2>. QED
    BY Zenon, <2>3, <2>4, <2>5, <2>6 DEF VkInv
<1>. QED
  BY Zenon, <1>3, <1>4

\* vk_response keeps the invariant: it serves an entry only as it marks it.
LEMMA ResponseKeeps ==
  ASSUME VkInv, NEW t \in Token, vk_response(t)
  PROVE  VkInv'
<1>1. /\ store \in [Token -> Entry] /\ served \in [Token -> Nat]
      /\ UNCHANGED <<now, minted>> /\ absent \in Entry /\ ~absent.live
  BY Zenon DEF VkInv, VkTypeOK, vk_response, absent, Entry
<1>2. /\ store' \in [Token -> Entry]
      /\ \A u \in Token : u # t => store'[u] = store[u]
      /\ store'[t].live => store[t].live
      /\ store'[t].live /\ ~store'[t].used => ~store[t].used /\ status(t) # 200
  <2>1. CASE status(t) = 200
    <3>1. store' = [store EXCEPT ![t] = [store[t] EXCEPT !.used = TRUE]]
      BY Zenon, <2>1 DEF vk_response
    <3>2. store'[t].used /\ store'[t].live = store[t].live /\ store'[t] \in Entry
      BY Zenon, <1>1, <3>1 DEF Entry
    <3>. QED
      BY Zenon, <1>1, <3>1, <3>2
  <2>2. CASE status(t) # 200 /\ store[t].live /\ store[t].expires_at < now
    BY Zenon, <1>1, <2>2 DEF vk_response
  <2>3. CASE status(t) # 200 /\ ~(store[t].live /\ store[t].expires_at < now)
    BY Zenon, <1>1, <2>3 DEF vk_response
  <2>. QED
    BY Zenon, <2>1, <2>2, <2>3
<1>3. /\ served' \in [Token -> Nat]
      /\ \A u \in Token : u # t => served'[u] = served[u]
      /\ status(t) # 200 => served' = served
      /\ served'[t] <= 1
  <2>1. CASE status(t) = 200
    <3>1. store[t].live /\ ~store[t].used
      BY <2>1 DEF status
    <3>2. served[t] = 0
      BY Zenon, <3>1 DEF VkInv
    <3>3. served' = [served EXCEPT ![t] = served[t] + 1]
      BY Zenon, <2>1 DEF vk_response
    <3>. QED
      BY <1>1, <2>1, <3>2, <3>3
  <2>2. CASE status(t) # 200
    BY Zenon, <1>1, <2>2 DEF vk_response, VkInv, TokenOnce
  <2>. QED
    BY Zenon, <2>1, <2>2
<1>4. VkTypeOK' /\ TokenOnce'
  BY <1>1, <1>2, <1>3 DEF VkTypeOK, TokenOnce, VkInv
<1>5. TokenCap'
  <2>1. \A u \in Token : store'[u].live => store[u].live
    BY ZenonT(60), <1>2
  <2>2. /\ Cardinality(Held(store')) <= Cardinality(Held(store))
        /\ Cardinality(Held(store')) \in Nat /\ Cardinality(Held(store)) \in Nat
    BY Zenon, <2>1, HeldShrinks
  <2>3. Cardinality(Held(store)) <= MaxTokens
    BY Zenon DEF VkInv, TokenCap, Held
  <2>4. Cardinality(Held(store')) <= MaxTokens
    BY <2>2, <2>3, VkShareAssumption
  <2>. QED
    BY Zenon, <2>4 DEF TokenCap, Held
<1>6. \A u \in Token : u \notin minted' => ~store'[u].live /\ served'[u] = 0
  <2>. SUFFICES ASSUME NEW u \in Token, u \notin minted
                PROVE  ~store'[u].live /\ served'[u] = 0
    BY Zenon, <1>1
  <2>1. ~store[u].live /\ served[u] = 0
    BY Zenon DEF VkInv
  <2>2. u = t => status(t) # 200
    BY <2>1 DEF status
  <2>. QED
    BY <1>2, <1>3, <2>1, <2>2
<1>7. \A u \in Token : store'[u].live /\ ~store'[u].used => served'[u] = 0
  <2>. SUFFICES ASSUME NEW u \in Token, store'[u].live, ~store'[u].used
                PROVE  served'[u] = 0
    BY Zenon
  <2>1. CASE u = t
    BY SMTT(60), <1>2, <1>3, <2>1 DEF VkInv
  <2>2. CASE u # t
    BY ZenonT(60), <1>2, <1>3, <2>2 DEF VkInv
  <2>. QED
    BY Zenon, <2>1, <2>2
<1>. QED
  BY Zenon, <1>4, <1>5, <1>6, <1>7 DEF VkInv

\* A fresh store has no entries and has served nothing.
LEMMA VkInitInv == VkInit => VkInv
<1>. SUFFICES ASSUME VkInit PROVE VkInv
  BY Zenon
<1>1. absent \in Entry /\ ~absent.live
  BY Zenon DEF absent, Entry
<1>2. VkTypeOK /\ TokenOnce
  BY <1>1 DEF VkInit, VkTypeOK, TokenOnce
<1>3. TokenCap
  <2>1. {t \in Token : store[t].live} = {}
    BY Zenon, <1>1 DEF VkInit
  <2>. QED
    BY <2>1, FS_EmptySet, VkShareAssumption DEF TokenCap
<1>. QED
  BY Zenon, <1>1, <1>2, <1>3 DEF VkInit, VkInv

\* The three steps of the store, and stuttering.
LEMMA VkStepInv == VkInv /\ [VkNext]_vkVars => VkInv'
<1>. SUFFICES ASSUME VkInv, [VkNext]_vkVars PROVE VkInv'
  BY Zenon
<1>1. ASSUME NEW t \in Token, create_token(t) PROVE VkInv'
  BY Zenon, <1>1, CreateKeeps
<1>2. ASSUME NEW t \in Token, vk_response(t) PROVE VkInv'
  BY Zenon, <1>2, ResponseKeeps
<1>3. CASE VkTick
  BY <1>3 DEF VkTick, VkInv, VkTypeOK, TokenOnce, TokenCap
<1>4. CASE UNCHANGED vkVars
  BY Zenon, <1>4 DEF vkVars, VkInv, VkTypeOK, TokenOnce, TokenCap
<1>. QED
  BY Zenon, <1>1, <1>2, <1>3, <1>4 DEF VkNext

\* The token store alone: whatever sequence of admin commands, requests and
\* passing time it sees, its invariant holds.
THEOREM VkShareInvariant == VkSpec => []VkInv
<1>1. VkInit => VkInv
  BY Zenon, VkInitInv
<1>2. VkInv /\ [VkNext]_vkVars => VkInv'
  BY Zenon, VkStepInv
<1>. QED
  BY <1>1, <1>2, PTL DEF VkSpec

\* Of the management plane's steps only the dispatch of GetVkToken, a GET /vk/<token>
\* and the clock touch the store, and each as one of the store's own steps.
LEMMA ManagementVkStep == [Next]_vars => [VkNext]_vkVars
<1>. SUFFICES ASSUME [Next]_vars PROVE [VkNext]_vkVars
  BY Zenon
<1>1. ASSUME NEW c \in Conn, Admin(c) PROVE [VkNext]_vkVars
  <2>1. CASE Dispatch(c)
    BY Zenon, <2>1 DEF Dispatch, handle_rotate, handle_get_vk_token, VkNext
  <2>. QED
    BY Zenon, <1>1, <2>1 DEF Admin, Accept, Drops, ReadCommand, Answer
<1>2. ASSUME NEW t \in Token, VkGet(t) PROVE [VkNext]_vkVars
  BY Zenon, <1>2 DEF VkGet, VkNext
<1>3. CASE ControlPlane
  BY Zenon, <1>3 DEF ControlPlane, Start, Register, Beat, StopBeating, BeatFails, BeatAnswered, Apply,
           CpIdle
<1>4. CASE Tick
  BY Zenon, <1>4 DEF Tick, VkNext
<1>5. CASE Signal \/ Consume
  BY Zenon, <1>5 DEF Signal, Consume
<1>6. CASE UNCHANGED vars
  BY Zenon, <1>6 DEF vars
<1>. QED
  BY Zenon, <1>1, <1>2, <1>3, <1>4, <1>5, <1>6 DEF Next

\* The management plane implements the token store.
THEOREM ManagementImplementsVkShare == Spec => VkSpec
<1>1. Init => VkInit
  BY Zenon DEF Init
<1>2. [Next]_vars => [VkNext]_vkVars
  BY Zenon, ManagementVkStep
<1>. QED
  BY <1>1, <1>2, PTL DEF Spec, VkSpec

\* In the running bridge a token yields the verifying key at most once.
THEOREM TokenIsOneTime == Spec => []TokenOnce
<1>1. VkInv => TokenOnce
  BY Zenon DEF VkInv
<1>. QED
  BY <1>1, ManagementImplementsVkShare, VkShareInvariant, PTL

\* In the running bridge the store stays within vk_share_max_tokens.
THEOREM StoreIsCapped == Spec => []TokenCap
<1>1. VkInv => TokenCap
  BY Zenon DEF VkInv
<1>. QED
  BY <1>1, ManagementImplementsVkShare, VkShareInvariant, PTL

\* When a token is good for the key (status).
LEMMA StatusGood ==
  ASSUME NEW t \in Token
  PROVE  /\ status(t) = 200 <=>
              store[t].live /\ ~(store[t].expires_at < now) /\ ~store[t].used
         /\ status(t)' = 200 <=>
              store'[t].live /\ ~(store'[t].expires_at < now') /\ ~store'[t].used
<1>1. status(t) = 200 <=> store[t].live /\ ~(store[t].expires_at < now) /\ ~store[t].used
  BY DEF status
<1>2. status(t)' = 200 <=> store'[t].live /\ ~(store'[t].expires_at < now') /\ ~store'[t].used
  BY DEF status
<1>. QED
  BY Zenon, <1>1, <1>2

\* What is over is over a tick later.
LEMMA StaysOver ==
  ASSUME NEW e \in Nat, NEW n \in Nat, e < n
  PROVE  e < n + 1
OBVIOUS

\* In the running bridge a token that was used, has expired or was evicted is never
\* good again, for any TTL, cap and number of tokens.
THEOREM TokensNeverRevive == Spec => NeverRevived
<1>1. ASSUME VkInv, VkNext, NEW t \in minted, status(t) # 200
      PROVE  status(t)' # 200
  <2>0. /\ t \in Token /\ now \in Nat /\ store[t] \in Entry
        /\ store[t].expires_at \in Nat /\ ~absent.live /\ DOMAIN store = Token
    BY Zenon, <1>1 DEF VkInv, VkTypeOK, Entry, absent
  <2>1. CASE VkTick
    <3>1. store' = store /\ now' = now + 1
      BY Zenon, <2>1 DEF VkTick
    <3>. QED
      BY ZenonT(60), <1>1, <2>0, <3>1, StatusGood, StaysOver
  <2>2. ASSUME NEW u \in Token, create_token(u)
        PROVE  status(t)' # 200
    <3>1. u # t /\ now' = now
      BY Zenon, <1>1, <2>2 DEF create_token
    <3>2. Retained[t] = store[t] \/ Retained[t] = absent
      BY Zenon, <2>0 DEF Retained
    <3>3. store'[t] = Retained[t]
      BY Zenon, <2>0, <2>2, <3>1 DEF create_token, Retained
    <3>4. store'[t] = store[t] \/ store'[t] = absent
      BY Zenon, <3>2, <3>3
    <3>. QED
      BY ZenonT(60), <1>1, <2>0, <3>1, <3>4, StatusGood
  <2>3. ASSUME NEW u \in Token, vk_response(u)
        PROVE  status(t)' # 200
    <3>1. now' = now
      BY Zenon, <2>3 DEF vk_response
    <3>2. CASE u = t
      <4>1. store'[t] = store[t] \/ store'[t] = absent
        BY Zenon, <1>1, <2>0, <2>3, <3>2 DEF vk_response
      <4>. QED
        BY ZenonT(60), <1>1, <2>0, <3>1, <4>1, StatusGood
    <3>3. CASE u # t
      <4>1. store'[t] = store[t]
        BY Zenon, <2>0, <2>3, <3>3 DEF vk_response
      <4>. QED
        BY ZenonT(60), <1>1, <2>0, <3>1, <4>1, StatusGood
    <3>. QED
      BY Zenon, <3>2, <3>3
  <2>. QED
    BY Zenon, <1>1, <2>1, <2>2, <2>3 DEF VkNext
<1>2. VkInv /\ [VkNext]_vkVars =>
        [\A t \in minted : status(t) # 200 => status(t)' # 200]_vkVars
  BY Zenon, <1>1
<1>3. VkSpec => NeverRevived
  BY <1>2, VkShareInvariant, PTL DEF VkSpec, NeverRevived
<1>. QED
  BY <1>3, ManagementImplementsVkShare, PTL

-----------------------------------------------------------------------------
(* The admin channel.                                                      *)

AdmState == {"new", "handshake", "fetch_max", "answer", "closed"}
Frame == [seq : Nat, cmd : {"none", "GetMetrics", "Rotate", "GetVkToken"}]
AdmRecord == [pc : AdmState, frame : Frame, late : BOOLEAN]

\* What makes AnsweredNotReplayed inductive: cmd_seq is above every seq that was
\* answered, and above that of a command that ran and is about to be answered.
AdmInv ==
  /\ cmd_seq \in Nat /\ answered \subseteq Nat
  /\ adm \in [Conn -> AdmRecord]
  /\ \A a \in answered : a <= cmd_seq
  /\ \A c \in Conn : adm[c].pc = "answer" => adm[c].frame.seq <= cmd_seq
  /\ AnsweredNotReplayed

\* Initially nothing was answered.
LEMMA AdmInitInv == Init => AdmInv
<1>. SUFFICES ASSUME Init PROVE AdmInv
  BY Zenon
<1>1. [pc |-> "new", frame |-> NoFrame, late |-> FALSE] \in AdmRecord
  BY Zenon DEF AdmRecord, AdmState, Frame, NoFrame
<1>2. adm \in [Conn -> AdmRecord] /\ \A c \in Conn : adm[c].pc = "new"
  BY Zenon, <1>1 DEF Init
<1>. QED
  BY Zenon, <1>2 DEF Init, AdmInv, AnsweredNotReplayed

\* One connection's record is replaced, by one that respects the counter.
LEMMA AdmUpdate ==
  ASSUME AdmInv, NEW c \in Conn, NEW r \in AdmRecord, adm' = [adm EXCEPT ![c] = r],
         cmd_seq' \in Nat, cmd_seq <= cmd_seq', answered' = answered,
         r.pc = "answer" => r.frame.seq <= cmd_seq',
         r.pc \in {"fetch_max", "answer"} => ~r.late
  PROVE  AdmInv'
<1>1. adm' \in [Conn -> AdmRecord] /\ adm'[c] = r /\ \A d \in Conn \ {c} : adm'[d] = adm[d]
  BY Zenon DEF AdmInv
<1>2. \A a \in answered' : a <= cmd_seq'
  BY DEF AdmInv
<1>3. \A d \in Conn : adm'[d].pc = "answer" => adm'[d].frame.seq <= cmd_seq'
  <2>. SUFFICES ASSUME NEW d \in Conn, adm'[d].pc = "answer" PROVE adm'[d].frame.seq <= cmd_seq'
    BY Zenon
  <2>1. CASE d = c
    BY Zenon, <1>1, <2>1
  <2>2. CASE d # c
    <3>1. adm[d].frame.seq <= cmd_seq /\ adm[d].frame.seq \in Nat /\ cmd_seq \in Nat
      BY Zenon, <1>1, <2>2 DEF AdmInv, AdmRecord, Frame
    <3>. QED
      BY <1>1, <2>2, <3>1
  <2>. QED
    BY Zenon, <2>1, <2>2
<1>4. AnsweredNotReplayed'
  BY Zenon, <1>1 DEF AdmInv, AnsweredNotReplayed
<1>. QED
  BY Zenon, <1>1, <1>2, <1>3, <1>4 DEF AdmInv

\* Each step of a connection: the check reads a counter that is above all that was
\* answered, and the advance keeps it so.
LEMMA AdmKeeps ==
  ASSUME AdmInv, NEW c \in Conn, Admin(c)
  PROVE  AdmInv'
<1>. DEFINE Put(r) == adm' = [adm EXCEPT ![c] = r]
<1>1. /\ adm \in [Conn -> AdmRecord] /\ adm[c] \in AdmRecord /\ Closed \in AdmRecord
      /\ cmd_seq \in Nat /\ cmd_seq <= cmd_seq /\ adm[c].frame.seq \in Nat
  BY DEF AdmInv, Closed, AdmRecord, AdmState, Frame, NoFrame
<1>2. CASE Accept(c)
  <2>1. PICK pc \in {"closed", "handshake"} :
          Put([pc |-> pc, frame |-> adm[c].frame, late |-> adm[c].late])
    BY <1>1, <1>2 DEF Accept, AdmRecord
  <2>2. [pc |-> pc, frame |-> adm[c].frame, late |-> adm[c].late] \in AdmRecord
    BY Zenon, <1>1 DEF AdmRecord, AdmState
  <2>. QED
    BY ZenonT(60), <1>1, <1>2, <2>1, <2>2, AdmUpdate DEF Accept
<1>3. CASE Drops(c)
  <2>1. Put(Closed) /\ UNCHANGED <<cmd_seq, answered>>
    BY Zenon, <1>3 DEF Drops, Step
  <2>. QED
    BY Zenon, <1>1, <2>1, AdmUpdate DEF Closed
<1>4. CASE ReadCommand(c)
  <2>1. PICK s \in 0 .. MaxSeq, k \in {"GetMetrics", "Rotate", "GetVkToken"} :
          Put(IF is_seq_valid(s, cmd_seq)
              THEN [pc |-> "fetch_max", frame |-> [seq |-> s, cmd |-> k],
                    late |-> \E a \in answered : a >= s]
              ELSE Closed)
    BY Zenon, <1>4 DEF ReadCommand
  <2>2. s \in Nat /\ UNCHANGED <<cmd_seq, answered>>
    BY <1>4, ManagementAssumption DEF ReadCommand
  <2>3. CASE is_seq_valid(s, cmd_seq)
    <3>1. (\E a \in answered : a >= s) = FALSE
      BY <1>1, <2>2, <2>3 DEF is_seq_valid, AdmInv
    <3>2. Put([pc |-> "fetch_max", frame |-> [seq |-> s, cmd |-> k], late |-> FALSE])
      BY Zenon, <2>1, <2>3, <3>1
    <3>3. [pc |-> "fetch_max", frame |-> [seq |-> s, cmd |-> k], late |-> FALSE] \in AdmRecord
      BY Zenon, <2>2 DEF AdmRecord, AdmState, Frame
    <3>. QED
      BY Zenon, <1>1, <2>2, <3>2, <3>3, AdmUpdate
  <2>4. CASE ~is_seq_valid(s, cmd_seq)
    BY Zenon, <1>1, <2>1, <2>2, <2>4, AdmUpdate DEF Closed
  <2>. QED
    BY Zenon, <2>3, <2>4
<1>5. CASE Dispatch(c)
  <2>. DEFINE r == [pc |-> "answer", frame |-> [seq |-> adm[c].frame.seq, cmd |-> "none"],
                    late |-> adm[c].late]
  <2>1. Put(r)
    BY <1>1, <1>5 DEF Dispatch, AdmRecord, Frame
  <2>2. r \in AdmRecord
    BY Zenon, <1>1 DEF AdmRecord, AdmState, Frame
  <2>3. cmd_seq' \in Nat /\ cmd_seq <= cmd_seq' /\ adm[c].frame.seq <= cmd_seq'
    BY <1>1, <1>5 DEF Dispatch, Advanced
  <2>4. ~adm[c].late /\ answered' = answered
    BY Zenon, <1>5 DEF Dispatch, AdmInv, AnsweredNotReplayed
  <2>5. r.frame.seq = adm[c].frame.seq /\ r.late = adm[c].late
    BY Zenon
  <2>. HIDE DEF r
  <2>. QED
    BY ZenonT(60), <1>1, <2>1, <2>2, <2>3, <2>4, <2>5, AdmUpdate
<1>6. CASE Answer(c)
  <2>1. Put(Closed) /\ cmd_seq' = cmd_seq /\ answered' = answered \cup {adm[c].frame.seq}
    BY Zenon, <1>6 DEF Answer, Step
  <2>2. adm[c].frame.seq <= cmd_seq
    BY Zenon, <1>6 DEF Answer, Step, AdmInv
  <2>3. adm' \in [Conn -> AdmRecord] /\ adm'[c] = Closed /\ \A d \in Conn \ {c} : adm'[d] = adm[d]
    BY Zenon, <1>1, <2>1
  <2>4. /\ \A d \in Conn : adm'[d].pc = "answer" => adm'[d].frame.seq <= cmd_seq'
        /\ AnsweredNotReplayed'
    BY Zenon, <2>1, <2>3 DEF AdmInv, AnsweredNotReplayed, Closed
  <2>. QED
    BY Zenon, <1>1, <2>1, <2>2, <2>3, <2>4 DEF AdmInv
<1>. QED
  BY ZenonT(60), <1>2, <1>3, <1>4, <1>5, <1>6 DEF Admin

\* Steps of the other parts leave the admin channel's state alone.
LEMMA AdmFrame ==
  ASSUME [Next]_vars, \A c \in Conn : ~Admin(c)
  PROVE  UNCHANGED admVars
<1>1. CASE ControlPlane
  BY Zenon, <1>1 DEF ControlPlane, Start, Register, Beat, StopBeating, BeatFails, BeatAnswered, Apply,
           CpIdle, admVars
<1>2. CASE Tick \/ Signal \/ Consume \/ \E t \in Token : VkGet(t)
  BY Zenon, <1>2 DEF Tick, Signal, Consume, VkGet, admVars
<1>. QED
  BY Zenon, <1>1, <1>2 DEF Next, vars, admVars

\* However many admin connections load and advance cmd_seq at once, a command that is
\* read once its seq, or a later one, was answered is not dispatched.
THEOREM NoReplay == Spec => []AnsweredNotReplayed
<1>1. Init => AdmInv
  BY Zenon, AdmInitInv
<1>2. AdmInv /\ [Next]_vars => AdmInv'
  <2>. SUFFICES ASSUME AdmInv, [Next]_vars PROVE AdmInv'
    BY Zenon
  <2>1. CASE \E c \in Conn : Admin(c)
    BY Zenon, <2>1, AdmKeeps
  <2>2. CASE \A c \in Conn : ~Admin(c)
    BY Zenon, <2>2, AdmFrame DEF admVars, AdmInv, AnsweredNotReplayed
  <2>. QED
    BY Zenon, <2>1, <2>2
<1>3. AdmInv => AnsweredNotReplayed
  BY Zenon DEF AdmInv
<1>. QED
  BY <1>1, <1>2, <1>3, PTL DEF Spec

-----------------------------------------------------------------------------
(* The rate limiter.                                                       *)

Rate == [start : Nat, count : Nat, passed : Seq(Nat)]

\* The connections the current window let in.
InWindow(r) == IF r.count < RateLimit THEN r.count ELSE RateLimit

\* What was let in before the current window came no later than its start, and what
\* was let in before the RateLimit connections ahead of it a second before.
Windows(r) ==
  /\ \A i \in 1 .. Len(r.passed) :
       i <= Len(r.passed) - InWindow(r) => r.passed[i] <= r.start
  /\ \A i \in 1 .. Len(r.passed) :
       i <= Len(r.passed) - InWindow(r) - RateLimit => r.passed[i] + Second <= r.start

\* What makes RateBound inductive.
RateInv ==
  /\ rate \in Rate /\ now \in Nat
  /\ rate.start <= now
  /\ \A i \in 1 .. Len(rate.passed) : rate.passed[i] <= now
  /\ Windows(rate)
  /\ RateBound

\* The listener has let nothing in.
LEMMA RateInitInv == Init => RateInv
<1>. SUFFICES ASSUME Init PROVE RateInv
  BY Zenon
<1>1. rate = [start |-> 0, count |-> 0, passed |-> <<>>] /\ now = 0
  BY Zenon DEF Init, VkInit
<1>2. rate \in Rate /\ rate.start = 0 /\ rate.passed = <<>> /\ DOMAIN rate.passed = {}
      /\ Len(rate.passed) = 0
  BY <1>1 DEF Rate
<1>. QED
  BY <1>1, <1>2 DEF RateInv, Windows, RateBound

\* Adding a connection to the log and to the window's count leaves those that were
\* let in before the window where they are.
LEMMA Shifted ==
  ASSUME NEW n \in Nat, NEW m \in Nat, NEW d \in Nat
  PROVE  \A i \in 1 .. (n + 1) :
           /\ i <= (n + 1) - (m + 1) => i \in 1 .. n /\ i <= n - m
           /\ i <= (n + 1) - (m + 1) - d => i \in 1 .. n /\ i <= n - m - d
OBVIOUS

\* Twice the limit before the connection that comes next is before the last window
\* but one.
LEMMA Apart ==
  ASSUME NEW n \in Nat, NEW m \in Nat, NEW d \in Nat, NEW i \in Nat, m < d,
         (n + 1) - i >= 2 * d
  PROVE  i <= n - m - d
OBVIOUS

\* A period that starts after a has ended by c.
LEMMA Elapsed ==
  ASSUME NEW a \in Nat, NEW b \in Nat, NEW c \in Nat, NEW d \in Nat
  PROVE  /\ a <= b /\ c - b >= d => a + d <= c
         /\ a + d <= b /\ b <= c => c - a >= d
OBVIOUS

\* The window that a connection is counted in: what it has not let in itself came
\* before it.
LEMMA WindowKeeps ==
  ASSUME RateInv
  PROVE  /\ Window \in Rate /\ Window.start <= now /\ Window.passed = rate.passed
         /\ Windows(Window)
<1>. DEFINE n == Len(rate.passed)
            P == rate.passed
<1>1. /\ rate \in Rate /\ now \in Nat /\ n \in Nat /\ P \in Seq(Nat) /\ rate.start \in Nat
      /\ rate.count \in Nat /\ \A i \in 1 .. n : P[i] \in Nat
  BY SMTT(60) DEF RateInv, Rate
<1>2. CASE now - rate.start >= Second
  <2>1. Window = [start |-> now, count |-> 0, passed |-> P]
    BY Zenon, <1>1, <1>2 DEF Window, Rate
  <2>2. InWindow(Window) = 0
    BY <2>1, ManagementAssumption DEF InWindow
  <2>3. \A i \in 1 .. n : P[i] <= now
    BY Zenon DEF RateInv
  <2>4. \A i \in 1 .. n : i <= n - RateLimit => P[i] + Second <= now
    <3>. SUFFICES ASSUME NEW i \in 1 .. n, i <= n - RateLimit PROVE P[i] + Second <= now
      BY Zenon
    <3>1. InWindow(rate) \in Nat /\ InWindow(rate) <= RateLimit
      BY <1>1, ManagementAssumption DEF InWindow
    <3>2. i <= n - InWindow(rate)
      BY <1>1, <3>1, ManagementAssumption
    <3>3. P[i] <= rate.start
      BY Zenon, <3>2 DEF RateInv, Windows
    <3>4. P[i] \in Nat /\ Second \in Nat
      BY Zenon, <1>1, ManagementAssumption
    <3>. QED
      BY Zenon, <1>1, <1>2, <3>3, <3>4, Elapsed
  <2>5. Window \in Rate /\ Window.start = now /\ Window.passed = P
    BY Zenon, <1>1, <2>1 DEF Rate
  <2>6. \A i \in 1 .. n : i <= n - 0 - RateLimit => P[i] + Second <= now
    BY <1>1, <2>4, ManagementAssumption
  <2>7. Windows(Window)
    BY Zenon, <2>2, <2>3, <2>5, <2>6 DEF Windows
  <2>. QED
    BY <1>1, <2>5, <2>7
<1>3. CASE ~(now - rate.start >= Second)
  BY Zenon, <1>1, <1>3 DEF Window, RateInv
<1>. QED
  BY Zenon, <1>2, <1>3

\* A connection is counted: over the limit it leaves the window as it is, within it
\* it becomes the last that was let in.
LEMMA RateKeeps ==
  ASSUME RateInv, NEW c \in Conn, Accept(c)
  PROVE  RateInv'
<1>. DEFINE w == Window
            k == w.count + 1
<1>0. PICK P \in Seq(Nat) : P = rate.passed
  BY Zenon DEF RateInv, Rate
<1>. PICK n \in Nat : n = Len(P)
  OBVIOUS
<1>1. /\ DOMAIN P = 1 .. n /\ \A i \in 1 .. n : P[i] \in Nat /\ P[i] <= now
      /\ now \in Nat
  BY SMTT(60), <1>0 DEF RateInv, Rate
<1>2. /\ w \in Rate /\ w.start <= now /\ w.passed = P /\ w.start \in Nat /\ w.count \in Nat
      /\ Windows(w)
  BY Zenon, <1>0, WindowKeeps DEF Rate
<1>3. now' = now
  BY Zenon DEF Accept, vkVars
<1>4. Counted = [start |-> w.start, count |-> k, passed |-> P]
  BY SMTT(60), <1>2 DEF Counted, Rate
<1>. HIDE DEF w
<1>5. CASE k > RateLimit
  <2>1. rate' = [start |-> w.start, count |-> k, passed |-> P]
    BY Zenon, <1>4, <1>5 DEF Accept, Limited
  <2>2. InWindow(w) = RateLimit /\ InWindow([start |-> w.start, count |-> k, passed |-> P]) = RateLimit
    BY <1>2, <1>5, ManagementAssumption DEF InWindow
  <2>3. Windows([start |-> w.start, count |-> k, passed |-> P])
    BY Zenon, <1>2, <2>2 DEF Windows
  <2>4. rate' \in Rate
    BY <1>1, <1>2, <2>1 DEF Rate
  <2>5. Windows(rate') /\ rate'.start = w.start /\ rate'.passed = P
    BY Zenon, <2>1, <2>3
  <2>. QED
    BY Zenon, <1>0, <1>1, <1>2, <1>3, <2>4, <2>5 DEF RateInv, RateBound, Windows, InWindow
<1>6. CASE ~(k > RateLimit)
  <2>. DEFINE Q == Append(P, now)
              r == [start |-> w.start, count |-> k, passed |-> Q]
  <2>1. rate' = r
    BY Zenon, <1>4, <1>6 DEF Accept, Limited
  <2>2. Q \in Seq(Nat) /\ Len(Q) = n + 1 /\ Q[n + 1] = now /\ \A i \in 1 .. n : Q[i] = P[i]
    BY <1>1
  <2>. PICK m \in Nat : m = w.count
    BY Zenon, <1>2
  <2>3. InWindow(w) = m /\ InWindow(r) = m + 1 /\ m < RateLimit
    BY SMTT(60), <1>2, <1>6, ManagementAssumption DEF InWindow
  <2>. HIDE DEF Q
  <2>4. r \in Rate /\ r.start = w.start /\ r.passed = Q /\ r.count = k
    BY <1>1, <1>2, <2>2 DEF Rate
  <2>. HIDE DEF r, k
  <2>5. Windows(r)
    <3>1. \A i \in 1 .. (n + 1) : i <= (n + 1) - (m + 1) => i \in 1 .. n /\ i <= n - m
      BY Zenon, ManagementAssumption, Shifted
    <3>2. \A i \in 1 .. (n + 1) : i <= (n + 1) - (m + 1) - RateLimit =>
            i \in 1 .. n /\ i <= n - m - RateLimit
      BY Zenon, ManagementAssumption, Shifted
    <3>. QED
      BY Zenon, <1>2, <2>2, <2>3, <2>4, <3>1, <3>2 DEF Windows
  <2>6. \A i \in 1 .. (n + 1) : Q[i] <= now
    <3>. SUFFICES ASSUME NEW i \in 1 .. (n + 1) PROVE Q[i] <= now
      BY Zenon
    <3>1. CASE i \in 1 .. n
      BY Zenon, <1>1, <2>2, <3>1
    <3>2. CASE i = n + 1
      BY <1>1, <2>2, <3>2
    <3>. QED
      BY <1>1, <3>1, <3>2
  <2>7. \A i, j \in 1 .. (n + 1) : j - i >= 2 * RateLimit => Q[j] - Q[i] >= Second
    <3>. SUFFICES ASSUME NEW i \in 1 .. (n + 1), NEW j \in 1 .. (n + 1), j - i >= 2 * RateLimit
                  PROVE  Q[j] - Q[i] >= Second
      BY Zenon
    <3>0. i \in 1 .. n
      BY ManagementAssumption
    <3>a. i \in Nat /\ (j \in 1 .. n \/ j = n + 1)
      BY SMTT(60)
    <3>1. Q[i] = P[i] /\ P[i] \in Nat
      BY Zenon, <1>1, <2>2, <3>0
    <3>2. CASE j \in 1 .. n
      <4>1. Q[j] = P[j] /\ j \in DOMAIN P /\ i \in DOMAIN P
        BY Zenon, <1>1, <2>2, <3>0, <3>2
      <4>. QED
        BY Zenon, <1>0, <3>1, <4>1 DEF RateInv, RateBound
    <3>3. CASE j = n + 1
      <4>1. i <= n - m - RateLimit
        <5>1. i \in Nat /\ RateLimit \in Nat
          BY Zenon, <1>1, <3>a, ManagementAssumption
        <5>. QED
          BY Zenon, <2>3, <3>3, <5>1, Apart
      <4>2. P[i] + Second <= w.start
        BY Zenon, <1>2, <2>3, <3>0, <4>1 DEF Windows
      <4>. QED
        <5>1. Q[j] = now /\ Q[i] = P[i] /\ Second \in Nat
          BY Zenon, <2>2, <3>1, <3>3, ManagementAssumption
        <5>2. now - P[i] >= Second
          BY Zenon, <1>1, <1>2, <3>1, <4>2, <5>1, Elapsed
        <5>. QED
          BY Zenon, <5>1, <5>2
    <3>. QED
      BY Zenon, <3>a, <3>2, <3>3
  <2>8. RateBound'
    <3>1. DOMAIN Q = 1 .. (n + 1) /\ rate'.passed = Q
      BY <2>1, <2>2, <2>4
    <3>. QED
      BY Zenon, <2>7, <3>1 DEF RateBound
  <2>9. Windows(rate)'
    BY Zenon, <2>1, <2>5 DEF Windows, InWindow
  <2>. QED
    BY Zenon, <1>1, <1>2, <1>3, <2>1, <2>2, <2>4, <2>6, <2>8, <2>9 DEF RateInv
<1>. QED
  BY Zenon, <1>5, <1>6

\* Time passing, and every other step, keep it.
LEMMA RateStays ==
  ASSUME RateInv, rate' = rate, now' \in {now, now + 1}
  PROVE  RateInv'
<1>1. now \in Nat /\ rate \in Rate /\ rate.start \in Nat /\ rate.passed \in Seq(Nat)
  BY Zenon DEF RateInv, Rate
<1>2. now' \in Nat /\ now <= now'
  BY <1>1
<1>3. rate.start <= now' /\ \A i \in 1 .. Len(rate.passed) : rate.passed[i] <= now'
  BY SMTT(60), <1>1, <1>2 DEF RateInv
<1>. QED
  BY Zenon, <1>1, <1>2, <1>3 DEF RateInv, RateBound, Windows, InWindow

\* The fixed window of the admin listener never lets more than 2 * RateLimit
\* connections through in less than a second, at any rate limit.
THEOREM RateIsBounded == Spec => []RateBound
<1>1. Init => RateInv
  BY Zenon, RateInitInv
<1>2. RateInv /\ [Next]_vars => RateInv'
  <2>. SUFFICES ASSUME RateInv, [Next]_vars PROVE RateInv'
    BY Zenon
  <2>1. CASE \E c \in Conn : Accept(c)
    BY Zenon, <2>1, RateKeeps
  <2>2. CASE ~\E c \in Conn : Accept(c)
    <3>1. rate' = rate
      <4>1. CASE \E c \in Conn : Admin(c)
        BY Zenon, <2>2, <4>1 DEF Admin, Drops, ReadCommand, Dispatch, Answer
      <4>2. CASE \A c \in Conn : ~Admin(c)
        BY Zenon, <4>2, AdmFrame DEF admVars
      <4>. QED
        BY Zenon, <4>1, <4>2
    <3>2. now' = now \/ now' = now + 1
      <4>1. [VkNext]_vkVars
        BY Zenon, ManagementVkStep
      <4>. QED
        BY Zenon, <4>1 DEF VkNext, VkTick, create_token, vk_response, vkVars
    <3>. QED
      BY Zenon, <3>1, <3>2, RateStays
  <2>. QED
    BY Zenon, <2>1, <2>2
<1>3. RateInv => RateBound
  BY Zenon DEF RateInv
<1>. QED
  BY <1>1, <1>2, <1>3, PTL DEF Spec

-----------------------------------------------------------------------------
(* The control plane's commands.                                           *)

Cmd == {"Rotate", "Unknown"}
CpState == {"start", "register", "sleep", "await", "apply", "stopped"}
Taken == [ts : Int, at : Int, signature : {"good", "bad"}]
CpRecord ==
  [pc : CpState, vk : {"none", "loaded"}, cmds : Seq(Cmd), beats : Nat, taken : SUBSET Taken,
   accepted : Nat]

\* What makes CommandsFresh and NoCommandLost inductive: commands are pending only
\* while they are applied, and nothing but the consumer bumps the watch in this part.
CpInv ==
  /\ now \in Nat /\ signed \subseteq Int /\ rotations \in Nat
  /\ cp \in CpRecord /\ queue \in Seq(Cmd)
  /\ cp.pc # "apply" => cp.cmds = <<>>
  /\ part = "control_plane" => \A c \in Conn : adm[c].pc = "new"
  /\ CommandsFresh
  /\ NoCommandLost

\* A list of commands has a number of Rotates, and the empty one has none.
LEMMA RotatesType ==
  ASSUME NEW s \in Seq(Cmd)
  PROVE  Rotates(s) \in Nat /\ (s = <<>> => Rotates(s) = 0)
<1>. DEFINE A == {i \in DOMAIN s : s[i] = "Rotate"}
<1>1. A \subseteq 1 .. Len(s) /\ IsFiniteSet(1 .. Len(s))
  BY FS_Interval
<1>2. IsFiniteSet(A)
  BY Zenon, <1>1, FS_Subset
<1>3. s = <<>> => A = {}
  OBVIOUS
<1>. QED
  BY Zenon, <1>2, <1>3, FS_CardinalityType, FS_EmptySet DEF Rotates

\* Taking the first command off a list takes off one Rotate, if it is one.
LEMMA RotatesTail ==
  ASSUME NEW s \in Seq(Cmd), s # <<>>
  PROVE  Rotates(s) = Rotates(Tail(s)) + (IF Head(s) = "Rotate" THEN 1 ELSE 0)
<1>. DEFINE A == {i \in DOMAIN s : s[i] = "Rotate"}
            T == {i \in DOMAIN Tail(s) : Tail(s)[i] = "Rotate"}
            f == [i \in T |-> i + 1]
<1>. PICK n \in Nat : Len(s) = n + 1
  <2>1. Len(s) \in Nat /\ Len(s) # 0
    OBVIOUS
  <2>. QED
    BY <2>1, Len(s) - 1 \in Nat
<1>1. /\ DOMAIN s = 1 .. (n + 1) /\ DOMAIN Tail(s) = 1 .. n /\ Head(s) = s[1]
      /\ \A i \in 1 .. n : Tail(s)[i] = s[i + 1]
  OBVIOUS
<1>2. A \subseteq 1 .. (n + 1) /\ IsFiniteSet(1 .. (n + 1)) /\ T \subseteq 1 .. n /\ IsFiniteSet(1 .. n)
  BY <1>1, FS_Interval
<1>3. IsFiniteSet(A) /\ IsFiniteSet(T)
  BY Zenon, <1>2, FS_Subset
<1>4. f \in Bijection(T, A \ {1})
  <2>1. \A i \in T : i \in 1 .. n /\ i + 1 \in A \ {1}
    BY SMTT(60), <1>1
  <2>2. f \in [T -> A \ {1}] /\ \A i, j \in T : f[i] = f[j] => i = j
    BY <2>1
  <2>3. \A y \in A \ {1} : \E i \in T : f[i] = y
    <3>. SUFFICES ASSUME NEW y \in A \ {1} PROVE \E i \in T : f[i] = y
      BY Zenon
    <3>1. y \in 2 .. (n + 1) /\ s[y] = "Rotate"
      BY <1>1
    <3>2. (y - 1) \in 1 .. n /\ (y - 1) + 1 = y
      BY <3>1
    <3>3. (y - 1) \in T
      BY Zenon, <1>1, <3>1, <3>2
    <3>. QED
      BY Zenon, <3>2, <3>3
  <2>. QED
    BY Zenon, <2>2, <2>3 DEF Bijection, Injection, Surjection, IsInjective
<1>5. Cardinality(T) = Cardinality(A \ {1})
  <2>1. ExistsBijection(T, A \ {1})
    BY Zenon, <1>4 DEF ExistsBijection
  <2>. QED
    BY Zenon, <1>3, <2>1, FS_Bijection
<1>6. Cardinality(A \ {1}) = IF 1 \in A THEN Cardinality(A) - 1 ELSE Cardinality(A)
  BY Zenon, <1>3, FS_RemoveElement
<1>7. 1 \in A <=> Head(s) = "Rotate"
  BY <1>1
<1>8. Cardinality(A) \in Nat /\ Cardinality(T) \in Nat
  BY Zenon, <1>3, FS_CardinalityType
<1>9. Rotates(s) = Cardinality(A) /\ Rotates(Tail(s)) = Cardinality(T)
  BY Zenon DEF Rotates
<1>. HIDE DEF A, T, f
<1>. QED
  BY SMTT(60), <1>5, <1>6, <1>7, <1>8, <1>9

\* The control plane has done nothing.
LEMMA CpInitInv == Init => CpInv
<1>. SUFFICES ASSUME Init PROVE CpInv
  BY Zenon
<1>0. <<>> \in Seq(Cmd)
  OBVIOUS
<1>1. cp \in CpRecord /\ cp.cmds = <<>> /\ cp.taken = {} /\ cp.accepted = 0
  BY Zenon, <1>0 DEF Init, CpRecord, CpState
<1>2. Rotates(cp.cmds) = 0 /\ Len(queue) = 0 /\ queue \in Seq(Cmd) /\ rotations = 0
  BY Zenon, <1>0, <1>1, RotatesType DEF Init
<1>3. \A c \in Conn : adm[c].pc = "new"
  BY Zenon DEF Init
<1>. QED
  BY <1>1, <1>2, <1>3 DEF Init, VkInit, CpInv, CommandsFresh, NoCommandLost

\* The task goes on with no command pending: nothing is counted.
LEMMA CpMoves ==
  ASSUME CpInv, NEW r \in CpRecord, cp' = r, cp.cmds = <<>>, r.cmds = cp.cmds,
         r.taken = cp.taken, r.accepted = cp.accepted,
         UNCHANGED <<part, now, adm, signed, queue, rotations>>
  PROVE  CpInv'
<1>1. CommandsFresh' /\ NoCommandLost'
  BY Zenon DEF CpInv, CommandsFresh, NoCommandLost
<1>. QED
  BY Zenon, <1>1 DEF CpInv

\* A response is taken: its commands pass the check of the signature and of the time
\* stamp, and all of them are accepted at once.
LEMMA CpAnswered ==
  ASSUME CpInv, BeatAnswered
  PROVE  CpInv'
<1>01. /\ now \in Nat /\ signed \subseteq Int /\ Fresh \in Nat
       /\ rotations \in Nat /\ queue \in Seq(Cmd) /\ Len(queue) \in Nat
  BY ManagementAssumption DEF CpInv, CpRecord
<1>02. <<>> \in Seq(Cmd) /\ \A a, b \in Cmd : <<a>> \in Seq(Cmd) /\ <<a, b>> \in Seq(Cmd)
  OBVIOUS
<1>r1. PICK r :
       /\ r \in [pending_commands : {<<>>, <<"Rotate">>}, inner : CmdLists,
                 signature : {"good", "bad"},
                 ts : signed \cup {now - Fresh - 1, now, now + Fresh + 1}]
       /\ CpStep("await", [cp EXCEPT !.pc = "apply", !.cmds = Commands(r),
                   !.accepted = @ + Rotates(Commands(r)),
                   !.taken = IF cp.vk = "loaded" /\ Commands(r) # <<>>
                             THEN @ \cup {[ts |-> r.ts, at |-> now, signature |-> r.signature]}
                             ELSE @])
       /\ signed' = IF r.signature = "good" THEN signed \cup {r.ts} ELSE signed
  BY Zenon DEF BeatAnswered
<1>0. /\ r.ts \in signed \cup {now - Fresh - 1, now, now + Fresh + 1}
      /\ r.signature \in {"good", "bad"} /\ r.inner \in CmdLists
      /\ r.pending_commands \in {<<>>, <<"Rotate">>}
  BY Zenon, <1>r1
<1>03. now - Fresh - 1 \in Int /\ now \in Int /\ now + Fresh + 1 \in Int
  BY <1>01
<1>04. r.ts \in Int
  BY Zenon, <1>0, <1>01, <1>03
<1>05. PICK ts \in Int, sig \in {"good", "bad"} : ts = r.ts /\ sig = r.signature
  BY Zenon, <1>0, <1>04
<1>. DEFINE C == Commands(r)
            x == [ts |-> ts, at |-> now, signature |-> sig]
            taken == IF cp.vk = "loaded" /\ C # <<>> THEN cp.taken \cup {x} ELSE cp.taken
            next == [pc |-> "apply", vk |-> cp.vk, cmds |-> C, beats |-> cp.beats, taken |-> taken,
                     accepted |-> cp.accepted + Rotates(C)]
<1>1. /\ cp \in CpRecord /\ cp.cmds = <<>> /\ cp.accepted \in Nat /\ cp.taken \subseteq Taken
      /\ cp.vk \in {"none", "loaded"} /\ cp.beats \in Nat /\ part = "control_plane"
  BY Zenon, <1>r1 DEF CpInv, CpRecord, CpStep
<1>2. UNCHANGED <<part, now, adm, queue, rotations>>
  BY Zenon DEF BeatAnswered, CpIdle, vkVars, admVars
<1>3. C \in Seq(Cmd)
  <2>2. "Rotate" \in Cmd /\ "Unknown" \in Cmd
    BY Zenon DEF Cmd
  <2>3. r.inner \in Seq(Cmd) /\ r.pending_commands \in Seq(Cmd)
    BY Zenon, <1>0, <1>02, <2>2 DEF CmdLists
  <2>. QED
    BY Zenon, <1>02, <2>3 DEF Commands
<1>4. Rotates(C) \in Nat /\ Rotates(cp.cmds) = 0
  BY Zenon, <1>1, <1>3, RotatesType DEF CpRecord
<1>5. cp' = next
  BY Zenon, <1>r1, <1>05, <1>1 DEF CpStep, CpRecord
<1>6. cp.vk = "loaded" /\ C # <<>> =>
        x.signature = "good" /\ x.at - x.ts <= Fresh /\ x.ts - x.at <= Fresh
  BY Zenon, <1>05 DEF Commands, IsFresh
<1>7. x \in Taken
  <2>1. now \in Int
    BY <1>01
  <2>. QED
    BY Zenon, <2>1 DEF Taken
<1>. HIDE DEF C, x
<1>8. taken \subseteq Taken /\ \A y \in taken :
        y.signature = "good" /\ y.at - y.ts <= Fresh /\ y.ts - y.at <= Fresh
  BY Zenon, <1>1, <1>6, <1>7 DEF CpInv, CommandsFresh
<1>. HIDE DEF taken
<1>9. /\ next \in CpRecord /\ next.cmds = C /\ next.taken = taken /\ next.pc = "apply"
      /\ next.accepted = cp.accepted + Rotates(C)
  <2>1. cp.accepted + Rotates(C) \in Nat /\ "apply" \in CpState
    BY <1>1, <1>4 DEF CpState
  <2>. QED
    BY ZenonT(60), <1>1, <1>3, <1>8, <2>1 DEF CpRecord
<1>. HIDE DEF next
<1>10. CommandsFresh'
  BY Zenon, <1>5, <1>8, <1>9 DEF CommandsFresh
<1>11. NoCommandLost'
  <2>1. rotations + Len(queue) = cp.accepted
    <3>1. rotations + Len(queue) + Rotates(cp.cmds) = cp.accepted
      BY Zenon, <1>1 DEF CpInv, NoCommandLost
    <3>. QED
      BY SMTT(60), <1>01, <1>1, <1>4, <3>1
  <2>2. rotations + Len(queue) + Rotates(C) = cp.accepted + Rotates(C)
    BY ZenonT(60), <1>1, <1>01, <1>4, <2>1
  <2>. QED
    BY ZenonT(60), <1>2, <1>5, <1>9, <2>2 DEF NoCommandLost
<1>12. signed' \subseteq Int
  BY Zenon, <1>r1, <1>01, <1>04
<1>. QED
  BY Zenon, <1>01, <1>2, <1>5, <1>9, <1>10, <1>11, <1>12 DEF CpInv

\* A command goes from the task to the channel, or is skipped.
LEMMA CpApplies ==
  ASSUME CpInv, Apply
  PROVE  CpInv'
<1>1. /\ cp \in CpRecord /\ cp.cmds \in Seq(Cmd) /\ cp.accepted \in Nat /\ queue \in Seq(Cmd)
      /\ rotations \in Nat /\ Len(queue) \in Nat
      /\ UNCHANGED <<part, now, adm, signed, rotations>>
      /\ part = "control_plane" /\ cp.pc = "apply"
  BY SMTT(60) DEF CpInv, CpRecord, Apply, CpStep, CpIdle, vkVars, admVars
<1>2. CASE cp.cmds = <<>>
  <2>. DEFINE next == [pc |-> "sleep", vk |-> cp.vk, cmds |-> cp.cmds, beats |-> cp.beats,
                       taken |-> cp.taken, accepted |-> cp.accepted]
  <2>1. cp' = next /\ UNCHANGED queue
    BY Zenon, <1>1, <1>2 DEF Apply, CpStep, CpRecord
  <2>2. /\ next \in CpRecord /\ next.cmds = cp.cmds /\ next.taken = cp.taken
        /\ next.accepted = cp.accepted
    BY Zenon, <1>1 DEF CpRecord, CpState
  <2>. HIDE DEF next
  <2>. QED
    BY Zenon, <1>1, <1>2, <2>1, <2>2, CpMoves
<1>3. CASE cp.cmds # <<>>
  <2>. DEFINE next == [pc |-> "apply", vk |-> cp.vk, cmds |-> Tail(cp.cmds), beats |-> cp.beats,
                       taken |-> cp.taken, accepted |-> cp.accepted]
  <2>1. cp' = next
    BY Zenon, <1>1, <1>3 DEF Apply, CpStep, CpRecord
  <2>2. Tail(cp.cmds) \in Seq(Cmd) /\ Head(cp.cmds) \in Cmd
    BY <1>1, <1>3
  <2>3. /\ next \in CpRecord /\ next.cmds = Tail(cp.cmds) /\ next.taken = cp.taken
        /\ next.accepted = cp.accepted /\ next.pc = "apply"
    BY Zenon, <1>1, <2>2 DEF CpRecord, CpState
  <2>. HIDE DEF next
  <2>4. /\ Rotates(cp.cmds) = Rotates(Tail(cp.cmds)) + (IF Head(cp.cmds) = "Rotate" THEN 1 ELSE 0)
        /\ Rotates(Tail(cp.cmds)) \in Nat
    BY Zenon, <1>1, <1>3, <2>2, RotatesTail, RotatesType
  <2>5. /\ queue' \in Seq(Cmd)
        /\ Len(queue') = Len(queue) + (IF Head(cp.cmds) = "Rotate" THEN 1 ELSE 0)
    <3>1. CASE Head(cp.cmds) = "Unknown"
      BY <1>1, <1>3, <3>1 DEF Apply
    <3>2. CASE Head(cp.cmds) = "Rotate"
      <4>1. queue' = Append(queue, "Rotate") /\ "Rotate" \in Cmd
        BY Zenon, <1>1, <1>3, <2>2, <3>2 DEF Apply, Cmd
      <4>. QED
        BY <1>1, <3>2, <4>1
    <3>. QED
      BY Zenon, <2>2, <3>1, <3>2 DEF Cmd
  <2>6. rotations + Len(queue) + Rotates(cp.cmds) = cp.accepted
    BY Zenon, <1>1 DEF CpInv, NoCommandLost
  <2>7. rotations + Len(queue') + Rotates(Tail(cp.cmds)) = cp.accepted
    <3>1. CASE Head(cp.cmds) = "Rotate"
      BY SMTT(60), <1>1, <2>4, <2>5, <2>6, <3>1
    <3>2. CASE Head(cp.cmds) # "Rotate"
      BY <1>1, <2>4, <2>5, <2>6, <3>2
    <3>. QED
      BY Zenon, <3>1, <3>2
  <2>8. NoCommandLost' /\ CommandsFresh'
    BY Zenon, <1>1, <2>1, <2>3, <2>7 DEF NoCommandLost, CommandsFresh, CpInv
  <2>. QED
    BY Zenon, <1>1, <2>1, <2>3, <2>5, <2>8 DEF CpInv
<1>. QED
  BY Zenon, <1>2, <1>3

\* Every step of the control-plane task.
LEMMA CpKeeps ==
  ASSUME CpInv, ControlPlane
  PROVE  CpInv'
<1>1. CASE Start \/ Register \/ Beat \/ StopBeating \/ BeatFails
  <2>. DEFINE next(pc, vk, beats) == [pc |-> pc, vk |-> vk, cmds |-> cp.cmds, beats |-> beats,
                                      taken |-> cp.taken, accepted |-> cp.accepted]
  <2>1. cp \in CpRecord
    BY Zenon DEF CpInv
  <2>2. PICK pc \in CpState, vk \in {"none", "loaded"}, beats \in Nat : cp' = next(pc, vk, beats)
    <3>1. CASE Start
      <4>1. PICK f \in {"unset", "missing", "short", "whole"}, pc \in {"register", "stopped"} :
              cp' = [cp EXCEPT !.vk = load_cloud_vk(f), !.pc = pc]
        BY Zenon, <3>1 DEF Start, CpStep
      <4>2. cp' = next(pc, load_cloud_vk(f), cp.beats)
        BY Zenon, <2>1, <4>1 DEF CpRecord
      <4>3. load_cloud_vk(f) \in {"none", "loaded"} /\ cp.beats \in Nat /\ pc \in CpState
        BY Zenon, <2>1 DEF load_cloud_vk, CpRecord, CpState
      <4>. QED
        BY Zenon, <4>2, <4>3
    <3>2. CASE Register
      <4>1. PICK pc \in {"sleep", "stopped"} : cp' = [cp EXCEPT !.pc = pc]
        BY Zenon, <3>2 DEF Register, CpStep
      <4>2. cp' = next(pc, cp.vk, cp.beats)
        BY Zenon, <2>1, <4>1 DEF CpRecord
      <4>. QED
        BY Zenon, <2>1, <4>2 DEF CpRecord, CpState
    <3>3. CASE Beat
      <4>1. cp' = next("await", cp.vk, cp.beats + 1)
        BY Zenon, <2>1, <3>3 DEF Beat, CpStep, CpRecord
      <4>. QED
        BY SMTT(60), <2>1, <4>1 DEF CpRecord, CpState
    <3>4. CASE StopBeating \/ BeatFails
      <4>1. PICK pc \in {"sleep", "stopped"} : cp' = next(pc, cp.vk, cp.beats)
        BY Zenon, <2>1, <3>4 DEF StopBeating, BeatFails, CpStep, CpRecord
      <4>. QED
        BY Zenon, <2>1, <4>1 DEF CpRecord, CpState
    <3>. QED
      BY Zenon, <1>1, <3>1, <3>2, <3>3, <3>4
  <2>3. /\ next(pc, vk, beats) \in CpRecord /\ next(pc, vk, beats).cmds = cp.cmds
        /\ next(pc, vk, beats).taken = cp.taken /\ next(pc, vk, beats).accepted = cp.accepted
    BY Zenon, <2>1 DEF CpRecord
  <2>4. UNCHANGED <<part, now, adm, signed, queue, rotations>>
    BY Zenon, <1>1 DEF Start, Register, Beat, StopBeating, BeatFails, CpIdle, vkVars, admVars
  <2>5. cp.cmds = <<>>
    BY Zenon, <1>1 DEF Start, Register, Beat, StopBeating, BeatFails, CpStep, CpInv
  <2>. HIDE DEF next
  <2>. QED
    BY Zenon, <2>2, <2>3, <2>4, <2>5, CpMoves
<1>. QED
  BY Zenon, <1>1, CpAnswered, CpApplies DEF ControlPlane

\* The invariant of the control plane holds in every state of the bridge.
LEMMA CpInvariant == Spec => []CpInv
<1>1. Init => CpInv
  BY Zenon, CpInitInv
<1>2. CpInv /\ [Next]_vars => CpInv'
  <2>. SUFFICES ASSUME CpInv, [Next]_vars PROVE CpInv'
    BY Zenon
  <2>1. CASE ControlPlane
    BY Zenon, <2>1, CpKeeps
  <2>2. CASE Consume
    <3>1. /\ queue \in Seq(Cmd) /\ queue # <<>> /\ queue' = Tail(queue) /\ rotations \in Nat
          /\ rotations' = rotations + 1 /\ cp.accepted \in Nat /\ cp.cmds \in Seq(Cmd)
          /\ UNCHANGED <<part, now, adm, cp, signed>>
      BY Zenon, <2>2 DEF Consume, CpInv, CpRecord, vkVars, admVars
    <3>2. queue' \in Seq(Cmd) /\ Len(queue') = Len(queue) - 1 /\ Len(queue) \in Nat
      BY <3>1
    <3>3. Rotates(cp.cmds) \in Nat
      BY Zenon, <3>1, RotatesType
    <3>4. NoCommandLost' /\ CommandsFresh'
      BY <3>1, <3>2, <3>3 DEF CpInv, NoCommandLost, CommandsFresh
    <3>. QED
      BY <3>1, <3>2, <3>4 DEF CpInv
  <2>3. CASE \E c \in Conn : Admin(c)
    <3>1. PICK c \in Conn : Admin(c)
      BY Zenon, <2>3
    <3>2. part # "control_plane" /\ part' = part /\ UNCHANGED cpVars
      BY ZenonT(60), <3>1 DEF Admin, Accept, Drops, ReadCommand, Dispatch, Answer, Step, CpInv
    <3>3. rotations' \in Nat
      BY <3>1 DEF Admin, Accept, Drops, ReadCommand, Dispatch, Answer, handle_rotate,
               handle_get_vk_token, CpInv
    <3>4. now' \in Nat
      <4>1. [VkNext]_vkVars
        BY Zenon, ManagementVkStep
      <4>. QED
        BY <4>1 DEF VkNext, VkTick, create_token, vk_response, vkVars, CpInv
    <3>. QED
      BY Zenon, <3>2, <3>3, <3>4 DEF CpInv, NoCommandLost, CommandsFresh, cpVars
  <2>4. CASE Tick \/ Signal \/ (\E t \in Token : VkGet(t)) \/ UNCHANGED vars
    <3>1. UNCHANGED <<part, adm, cp, signed, queue, rotations>>
      BY Zenon, <2>4 DEF Tick, Signal, VkGet, vars, admVars, cpVars
    <3>2. now' \in Nat
      <4>1. [VkNext]_vkVars
        BY Zenon, ManagementVkStep
      <4>. QED
        BY <4>1 DEF VkNext, VkTick, create_token, vk_response, vkVars, CpInv
    <3>. QED
      BY Zenon, <3>1, <3>2 DEF CpInv, NoCommandLost, CommandsFresh
  <2>. QED
    BY Zenon, <2>1, <2>2, <2>3, <2>4 DEF Next
<1>. QED
  BY <1>1, <1>2, PTL DEF Spec

\* With the cloud's key loaded, the bridge never takes a command from a response that
\* is unsigned, or signed outside the freshness window around its arrival.
THEOREM OnlyFreshCommands == Spec => []CommandsFresh
<1>1. CpInv => CommandsFresh
  BY Zenon DEF CpInv
<1>. QED
  BY <1>1, CpInvariant, PTL

\* Between the heartbeat that brought a command and rotate_tx none is lost and none is
\* carried out twice, at any capacity of the channel.
THEOREM CommandsConserved == Spec => []NoCommandLost
<1>1. CpInv => NoCommandLost
  BY Zenon DEF CpInv
<1>. QED
  BY <1>1, CpInvariant, PTL
=============================================================================
