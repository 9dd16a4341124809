----------------------------- MODULE MCPacketStore -----------------------------
(***************************************************************************)
(* Two calls at a time on a tree that changes between two contents, with a *)
(* store of two packets which the third overflows.                         *)
(***************************************************************************)
EXTENDS PacketStore, TLC

Names == Permutations(Agent) \cup Permutations(Tree)
=============================================================================
