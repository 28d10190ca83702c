------------------------- MODULE EncryptedChannel -------------------------
(***************************************************************************)
(* The framed AES-256-GCM channel of latticeshield-crypto/src/channel.rs:  *)
(* what one endpoint's counters do when it writes a frame, reads one and   *)
(* ratchets its key.  The operators map a channel record to the next one;  *)
(* RelaySession puts two of them at the ends of a TCP connection.          *)
(*                                                                         *)
(* Cryptography is ideal.  A key is the sequence of rotation nonces that   *)
(* were ratcheted into the handshake's session key (so <<>> is the session *)
(* key itself and HKDF never collides), and a ciphertext opens exactly     *)
(* under the key and the additional data it was sealed with.               *)
(***************************************************************************)
EXTENDS Integers, Sequences

CONSTANTS
  RotationNonce,   \* the 32-byte nonces OsRng draws for a rotation
  EpochMod         \* 2^32 in the code: `epoch` is a u32 that wraps

ASSUME EpochAssumption == EpochMod \in Nat \ {0}

Key == Seq(RotationNonce)

(* k was the key of the channel at some time before l, or is l.            *)
Precedes(k, l) == Len(k) <= Len(l) /\ \A i \in 1 .. Len(k) : k[i] = l[i]

Channel ==
  [key : Key, max_frame_size : Nat, send_seq : Nat, recv_seq : Nat,
   recv_initialized : BOOLEAN, key_rotate_send_seq : Nat,
   key_rotate_recv_seq : Nat, epoch : 0 .. EpochMod - 1]

(* A DATA frame shows its seq (authenticated as AAD) and its nonce.  The   *)
(* AAD of a KEY_ROTATE frame is the sender's counter and is not on the     *)
(* wire; its GCM nonce is random and is left out.                          *)
DataFrame ==
  [type : {"DATA"}, key : Key, aad : Nat, len : Nat,
   nonce : Nat \X (0 .. EpochMod - 1)]

KeyRotateFrame ==
  [type : {"KEY_ROTATE"}, key : Key, aad : Nat, rotation_nonce : RotationNonce]

Frame == DataFrame \cup KeyRotateFrame

FrameErrors == {"Replay", "AeadFailure", "Invalid", "Io"}

new(max_frame_size) ==
  [key |-> <<>>, max_frame_size |-> max_frame_size,
   send_seq |-> 0, recv_seq |-> 0, recv_initialized |-> FALSE,
   key_rotate_send_seq |-> 0, key_rotate_recv_seq |-> 0, epoch |-> 0]

(* write_frame seals before it writes, and counts the frame only after the *)
(* flush: the frame it puts on the wire, and the channel it leaves.        *)
data_frame(c, n) ==
  [type |-> "DATA", key |-> c.key, aad |-> c.send_seq, len |-> n,
   nonce |-> <<c.send_seq, c.epoch>>]

write_frame_uncounted(c) == c   \* mutant: the seq is not advanced

write_frame(c) == [c EXCEPT !.send_seq = @ + 1]

key_rotate_frame(c, r) ==
  [type |-> "KEY_ROTATE", key |-> c.key, aad |-> c.key_rotate_send_seq,
   rotation_nonce |-> r]

send_key_rotate(c) == [c EXCEPT !.key_rotate_send_seq = @ + 1]

(* Mutants of rotate_key: the new key forgets the old one; the receive     *)
(* window is not reset.                                                    *)
rotate_key_from_nonce(c, r) ==
  [c EXCEPT !.key = <<r>>, !.send_seq = 0, !.recv_seq = 0,
            !.recv_initialized = FALSE, !.epoch = (@ + 1) % EpochMod]
rotate_key_keeps_recv(c, r) ==
  [c EXCEPT !.key = Append(@, r), !.send_seq = 0, !.epoch = (@ + 1) % EpochMod]

rotate_key(c, r) ==
  [c EXCEPT !.key = Append(@, r), !.send_seq = 0, !.recv_seq = 0,
            !.recv_initialized = FALSE, !.epoch = (@ + 1) % EpochMod]

(* Mutant: the first frame of an epoch is held against recv_seq = 0.       *)
header_error_no_bootstrap(c, f) ==
  IF f.type = "DATA" /\ f.len > c.max_frame_size THEN "Invalid"
  ELSE IF f.type = "DATA" /\ f.aad <= c.recv_seq THEN "Replay" ELSE "none"

(* What read_frame decides from the header, before it reads the body:      *)
(* "none" lets it go on.                                                   *)
header_error(c, f) ==
  IF f.type = "DATA" /\ f.len > c.max_frame_size THEN "Invalid"
  ELSE IF f.type = "DATA" /\ c.recv_initialized /\ f.aad <= c.recv_seq
       THEN "Replay"
       ELSE "none"

(* Whether the body opens: the seq on the wire is a DATA frame's AAD, the  *)
(* reader's own counter is a KEY_ROTATE frame's.                           *)
opens(c, f) ==
  /\ f.key = c.key
  /\ f.type = "KEY_ROTATE" => f.aad = c.key_rotate_recv_seq

(* The channel after a successful read: the counters move only now.        *)
accept(c, f) ==
  IF f.type = "DATA"
  THEN [c EXCEPT !.recv_seq = f.aad, !.recv_initialized = TRUE]
  ELSE [c EXCEPT !.key_rotate_recv_seq = @ + 1]

=============================================================================
