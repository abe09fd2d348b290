----------------------------- MODULE MCServices -----------------------------
(***************************************************************************)
(* Small instances of the services: two full nodes and two groups, one of  *)
(* them empty at first; two transactions, one worker, two nodes of the     *)
(* relay and a queue for one; two requests for a key with one value.       *)
(***************************************************************************)
EXTENDS Services

ConfiguredNodes == [g1 |-> {"n1"}, g2 |-> {}]
=============================================================================
