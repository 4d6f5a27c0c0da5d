-------------------------- MODULE MCKeyRotation ---------------------------
EXTENDS KeyRotation, TLC
CONSTANTS u, v, s, k1, k2, m1, m2, talk
(* u and s ask for the same model and belong to one session, s streams; v    *)
(* asks for another model of the same quota group.                           *)
MCModelOf == [r \in Requests |-> IF r = v THEN m2 ELSE m1]
MCSessionOf == [r \in Requests |-> IF r = v THEN None ELSE talk]
MCGroupOf == [m \in Models |-> m1]
NoPriority == <<>>
===========================================================================
