------------------------------ MODULE VkShare ------------------------------
(***************************************************************************)
(* The store of one-time download tokens for the bridge's verifying key    *)
(* (latticeshield-bridge/src/vk_share.rs).  The admin channel creates a    *)
(* token, the TLS listener answers GET /vk/<token> with it.  Both hold the *)
(* store's mutex from end to end, so each is one action.                   *)
(***************************************************************************)
EXTENDS Integers, FiniteSets

CONSTANTS
  Token,       \* UUIDs
  Ttl,         \* DEFAULT_TOKEN_TTL_SECS
  MaxTokens    \* vk_share_max_tokens

ASSUME VkShareAssumption ==
  IsFiniteSet(Token) /\ Ttl \in Nat /\ MaxTokens \in Nat \ {0}

VARIABLES
  now,      \* Instant::now()
  store,    \* the entry of a token
  minted,   \* the tokens drawn so far
  served    \* how often a token was answered with the key

vkVars == <<now, store, minted, served>>

Entry == [live : BOOLEAN, expires_at : Nat, used : BOOLEAN]

absent == [live |-> FALSE, expires_at |-> 0, used |-> FALSE]

VkInit ==
  /\ now = 0
  /\ store = [t \in Token |-> absent]
  /\ minted = {}
  /\ served = [t \in Token |-> 0]

Retained ==
  [t \in Token |-> IF store[t].live /\ store[t].expires_at > now THEN store[t] ELSE absent]

Full(s) == Cardinality({t \in Token : s[t].live}) >= MaxTokens

\* A UUID v4 is not drawn twice.  TooManyTokens leaves what was retained.
create_token(t) ==
  /\ t \notin minted
  /\ IF Full(Retained)
     THEN store' = Retained /\ UNCHANGED minted
     ELSE /\ store' = [Retained EXCEPT ![t] =
                        [live |-> TRUE, expires_at |-> now + Ttl, used |-> FALSE]]
          /\ minted' = minted \cup {t}
  /\ UNCHANGED <<now, served>>

status(t) ==
  IF ~store[t].live THEN 404
  ELSE IF store[t].expires_at < now \/ store[t].used THEN 410 ELSE 200

vk_response_unmarked(t) ==   \* mutant: the entry is not marked as used
  /\ served' = IF status(t) = 200 THEN [served EXCEPT ![t] = @ + 1] ELSE served
  /\ UNCHANGED <<now, store, minted>>

\* An expired entry is removed, one that is served is marked.
vk_response(t) ==
  /\ store' = IF status(t) = 200 THEN [store EXCEPT ![t].used = TRUE]
              ELSE IF store[t].live /\ store[t].expires_at < now
                   THEN [store EXCEPT ![t] = absent] ELSE store
  /\ served' = IF status(t) = 200 THEN [served EXCEPT ![t] = @ + 1] ELSE served
  /\ UNCHANGED <<now, minted>>

VkTick == now' = now + 1 /\ UNCHANGED <<store, minted, served>>

VkNext == VkTick \/ \E t \in Token : create_token(t) \/ vk_response(t)

VkSpec == VkInit /\ [][VkNext]_vkVars

-----------------------------------------------------------------------------
\* A token yields the key at most once, whatever evictions, expiries and requests
\* for it interleave (create_token's retain, vk_response's removal and mark).
TokenOnce == \A t \in Token : served[t] <= 1

\* The store never holds more tokens than its cap: create_token checks the cap
\* after the eviction and before the insertion.
TokenCap == Cardinality({t \in Token : store[t].live}) <= MaxTokens

\* A token that is no longer good for the key stays so: neither the eviction of
\* create_token, which removes the mark along with the entry, nor a request for it
\* or the clock, gives a drawn token a second life.
NeverRevived == [][\A t \in minted : status(t) # 200 => status(t)' # 200]_vkVars
=============================================================================
