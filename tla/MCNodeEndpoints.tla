---------------------------- MODULE MCNodeEndpoints ----------------------------
(* Two channels and a room server on a device with two slots and room for     *)
(* one contact; a foreign channel, and one of the right name with the wrong   *)
(* secret, may occupy any slots.                                              *)
EXTENDS NodeEndpoints, TLC

CONSTANTS c1, c2, r1, s1, n1, n2, n3, p1, p2, none

MCChannel == c1 :> [name |-> n1, psk |-> p1] @@ c2 :> [name |-> n2, psk |-> p2]
MCOrder == c1 :> 1 @@ r1 :> 2 @@ c2 :> 3
MCForeign == {[name |-> n3, psk |-> p1], [name |-> n1, psk |-> p2]}
MCEmpty == [name |-> none, psk |-> none]
=============================================================================
