-------------------------- MODULE OrderedDelivery --------------------------
(***************************************************************************)
(* What the encrypted relay promises in each direction, whatever happens   *)
(* to the session: the items one end submits reach the other end unchanged,*)
(* in the order they were submitted and each at most once.  Items may be   *)
(* skipped (the session may lose some), and nothing need ever arrive.      *)
(***************************************************************************)
EXTENDS Integers, Sequences

CONSTANTS
  End,               \* the two ends
  Other(_),          \* the other end
  Deliverable(_)     \* the items meant for the application

VARIABLES
  sent,   \* sent[x]: the items end x submitted
  got     \* got[x]: positions in sent[Other(x)] of the items x handed on

Init ==
  /\ sent = [x \in End |-> <<>>]
  /\ got = [x \in End |-> <<>>]

Submit(x) ==
  /\ Len(sent'[x]) = Len(sent[x]) + 1
  /\ \A i \in DOMAIN sent[x] : sent'[x][i] = sent[x][i]
  /\ \A y \in End \ {x} : sent'[y] = sent[y]
  /\ UNCHANGED got

Deliver(x) ==
  \E i \in DOMAIN sent[Other(x)] :
    /\ Deliverable(sent[Other(x)][i])
    /\ \A k \in DOMAIN got[x] : got[x][k] < i
    /\ got' = [got EXCEPT ![x] = Append(@, i)]
    /\ UNCHANGED sent

Next == \E x \in End : Submit(x) \/ Deliver(x)

Spec == Init /\ [][Next]_<<sent, got>>
=============================================================================
