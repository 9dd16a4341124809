---------------------------- MODULE MCHttpSessions ----------------------------
(***************************************************************************)
(* Two requests at a time, through channels of one message, to a table of  *)
(* one session: a second one follows when the first was deleted or swept,  *)
(* while requests to the first are still under way.  A loop may work on    *)
(* both messages and answer them in either order.                          *)
(***************************************************************************)
EXTENDS HttpSessions, TLC

Names == Permutations(Handler) \cup Permutations(Session) \cup Permutations(Id)
=============================================================================
