------------------------- MODULE MCSessionLifecycle -------------------------
(* Instances of SessionLifecycle: one or two hosts, one or two names. *)
EXTENDS SessionLifecycle

CONSTANTS h1, h2, n1, n2, n3

OneHost == {h1}
TwoHosts == {h1, h2}
OneName == {n1}
ThreeNames == {n1, n2, n3}
TwoNames == {n1, n2}
AllNames == [h \in Hosts |-> Names]
OwnNames == [h \in Hosts |-> IF h = h1 THEN {n1, n2} ELSE {n3}]
=============================================================================
