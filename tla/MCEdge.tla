------------------------------- MODULE MCEdge -------------------------------
(* Requests and origins for the model of the edge listeners: heads below, at *)
(* and above the limit of three units, with and without units after them.    *)
EXTENDS Edge

Req(units, vk, bad) == [units |-> units, vk |-> vk, bad |-> bad]

MCRequest ==
  {Req(<<"h", "e">>, TRUE, FALSE), Req(<<"h", "e", "b", "b">>, FALSE, FALSE),
   Req(<<"h", "h", "e", "b">>, FALSE, FALSE), Req(<<"h", "h", "h", "e">>, FALSE, FALSE),
   Req(<<"h", "e", "b">>, FALSE, TRUE), Req(<<"h", "e">>, TRUE, TRUE)}

MCOrigins ==
  {[scheme |-> s, host |-> "app", port |-> p, path |-> x] :
     s \in {"https", "ftp"}, p \in {0, 443}, x \in BOOLEAN}
=============================================================================
