---------------------------- MODULE MCApprovals ----------------------------
(* Small instances of Approvals. *)
EXTENDS Approvals, TLC

CONSTANTS a1, a2, b1, A, c1, c2

\* Two sessions of one connection.
Siblings == {a1, a2}
SiblingsConnOf == [s \in Siblings |-> A]

\* A session of a connection and a session that belongs to none.
Strangers == {a1, b1}
MixedConnOf == [s \in Strangers |-> IF s = a1 THEN A ELSE NoConn]

\* Admissions and host control are looked at apart: neither is shared with the other.
OneFamily ==
    \A t, u \in Tickets :
        state[t] # "NONE" /\ state[u] # "NONE" => kind[t] = "admission" <=> kind[u] = "admission"

\* The sessions of one connection do not differ from one another.
SiblingSymmetry == Permutations(Siblings)
=============================================================================
