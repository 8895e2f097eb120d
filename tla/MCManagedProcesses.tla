---------------------- MODULE MCManagedProcesses ----------------------
(* Small instances of ManagedProcesses. *)
EXTENDS ManagedProcesses, TLC

CONSTANTS k1, k2, k3

\* Requests do not differ from one another.
Requests == Permutations(Calls)
=======================================================================
