---------------------------- MODULE MCSessionMove ----------------------------
(* Instances of SessionMove: three hosts, the session starting on h1. *)
EXTENDS SessionMove

CONSTANTS h1, h2, h3

ThreeHosts == {h1, h2, h3}
TwoHosts == {h1, h2}
OnlyHome == {h1}
=============================================================================
