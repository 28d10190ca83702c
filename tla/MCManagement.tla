---------------------------- MODULE MCManagement ----------------------------
(* Management for TLC.                                                     *)
EXTENDS Management
=============================================================================
