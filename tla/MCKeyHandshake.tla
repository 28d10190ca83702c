--------------------------- MODULE MCKeyHandshake ---------------------------
(* Generations for the model of the keys: the server's and the client's pair *)
(* may be generated anew, the admin's is generated once.                     *)
EXTENDS KeyHandshake

MCMaxGen == [o \in Owner |-> IF o = "admin" THEN 1 ELSE 2]
=============================================================================
