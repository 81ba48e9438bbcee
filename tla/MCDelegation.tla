----------------------------- MODULE MCDelegation -----------------------------
EXTENDS Delegation
CONSTANTS p, a, h1, h2

Apart == [s \in Sessions |-> IF s = p THEN h1 ELSE h2]
Together == [s \in Sessions |-> h1]
=============================================================================
