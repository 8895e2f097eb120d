-------------------------- MODULE MCUpstreamServers --------------------------
(* Small instances of UpstreamServers. *)
EXTENDS UpstreamServers, TLC

CONSTANTS o1, o2, o3, o4, agreed, short, first, other

\* Operations do not differ from one another.
Operations == Permutations(Ops)
=============================================================================
