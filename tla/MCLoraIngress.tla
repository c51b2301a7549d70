---------------------------- MODULE MCLoraIngress ----------------------------
(* A node that hears one message of another station and its own two texts. *)
EXTENDS LoraIngress, TLC

CONSTANTS ann, self, hi, w1, w2, tail

MCForeign == {[by |-> ann, text |-> hi]}

\* The echo of w1 comes back as it was sent; w2 contains ": " and loses its head to split_author.
MCDecoded == w1 :> [by |-> self, text |-> w1] @@ w2 :> [by |-> self, text |-> tail]
=============================================================================
