----------------------------- MODULE MCGraphStore -----------------------------
(***************************************************************************)
(* An old and a new build start up, save and copy around each other.  Two  *)
(* saves on top of the seeded revision let every stale copy meet a newer   *)
(* row, before and after the graph was first saved.                        *)
(***************************************************************************)
EXTENDS GraphStore, TLC

CONSTANTS old, new, v1, v2

MCShips == old :> v1 @@ new :> v2
=============================================================================
