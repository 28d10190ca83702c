-------------------------- MODULE MCClientSession --------------------------
(* User sessions for the model of the client proxy: two, or a single one. *)
EXTENDS ClientSession, TLC

CONSTANTS u1, u2

Sessions == {u1, u2}
OneSession == {u1}
SessionSymmetry == Permutations(Sessions)
=============================================================================
