----------------------------- MODULE MCSessions -----------------------------
(* Small instances of Sessions. *)
EXTENDS Sessions, TLC

CONSTANTS s1, s2, s3, s4, A, B, w1, w2, full, readOnly

\* Sessions of one connection.
OneConnection == [s \in {s1, s2, s3} |-> A]

\* Three sessions of a connection, and one of a static connector.
Four          == {s1, s2, s3, s4}
TwoIdentities == [s \in Four |-> IF s = s4 THEN B ELSE A]

\* No workspace is admitted automatically; every one is to B, with the full profile.
NoAuto == [i \in Identities |-> [w \in Workspaces |-> None]]
BAuto  == [i \in Identities |-> [w \in Workspaces |-> IF i = B THEN full ELSE None]]

ThreeSymmetry == Permutations({s1, s2, s3})
=============================================================================
