--------------------------- MODULE MCDropNotifier ---------------------------
(* Two chats of one bot that share a window, and a chat of another bot. *)
EXTENDS DropNotifier, TLC

CONSTANTS a1, a2, b1, wa, wb

MCWindowOf == a1 :> wa @@ a2 :> wa @@ b1 :> wb
=============================================================================
