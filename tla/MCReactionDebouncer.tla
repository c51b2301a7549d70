------------------------- MODULE MCReactionDebouncer -------------------------
(* Two messages of one bot. *)
EXTENDS ReactionDebouncer, TLC

CONSTANTS m1, m2
=============================================================================
