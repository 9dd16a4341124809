------------------------------ MODULE MCEditor ------------------------------
(***************************************************************************)
(* Two graphs, one of them linted, two texts, one of them faulty: enough   *)
(* for an answer about one graph to arrive beside the other, and for every *)
(* request to be overtaken by another one or by another client.            *)
(***************************************************************************)
EXTENDS Editor

CONSTANTS a, b, good, bad
=============================================================================
