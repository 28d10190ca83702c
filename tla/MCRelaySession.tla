-------------------------- MODULE MCRelaySession --------------------------
EXTENDS RelaySession, TLC

CONSTANTS r1, r2
MCRotationNonce == {r1, r2}
Symmetry == Permutations(MCRotationNonce)
=============================================================================
