--------------------------- MODULE MCControlPlans ---------------------------
(***************************************************************************)
(* ControlPlans for TLC: a plan p of three steps, two at once, the second  *)
(* of which depends on the first, and a plan q of one step.  They use      *)
(* surface x, but for that second step.                                    *)
(***************************************************************************)
EXTENDS ControlPlans

CONSTANTS p, q, x, y

TwoPlanOf    == [s \in Steps |-> IF s = 4 THEN q ELSE p]
TwoSurfaceOf == [s \in Steps |-> IF s = 2 THEN y ELSE x]
TwoDependsOn == [s \in Steps |-> IF s = 2 THEN {1} ELSE {}]
TwoAtOnce    == [r \in Plans |-> 2]
=============================================================================
