------------------------------ MODULE MCSchedules ------------------------------
EXTENDS Schedules
CONSTANTS a, b, s1, s2, u1

Sessions2 == [c \in Ids |-> IF c = a THEN s1 ELSE s2]
=============================================================================
