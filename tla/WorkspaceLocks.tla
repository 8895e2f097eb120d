--------------------------- MODULE WorkspaceLocks ---------------------------
(***************************************************************************)
(* The locks of a workspace (apps/core/src/policy/workspace-locks.ts).     *)
(*                                                                         *)
(* A call takes a lock before it has the worker act, and keeps it until    *)
(* the worker has answered.  A request that conflicts with a lock that is  *)
(* held asks again every five milliseconds, so locks are granted in no     *)
(* order.  Locks are in memory, and of one workspace here: those of two    *)
(* workspaces never conflict.                                              *)
(***************************************************************************)
EXTENDS FiniteSets

CONSTANTS
    Ops,     \* operation identifiers, each used once
    Keys     \* what a build command writes: its output keys

VARIABLE held   \* active, the requests that were granted

Effects      == {"READ_ONLY", "BUILD_OUTPUT", "SOURCE_MUTATION"}
LockRequests == [op : Ops, effect : Effects, keys : SUBSET Keys]

\* Readers share the workspace with readers and with builds, builds with builds
\* of other outputs, and a mutation of the sources with nothing.
Conflict(a, b) ==
    /\ {a.effect, b.effect} # {"READ_ONLY"}
    /\ {a.effect, b.effect} # {"READ_ONLY", "BUILD_OUTPUT"}
    /\ {a.effect, b.effect} = {"BUILD_OUTPUT"} => a.keys \cap b.keys # {}

\* Mutant: only a mutation is waited for.
FreeOfMutations(request) ==
    \A x \in held : x.effect = "SOURCE_MUTATION" => ~Conflict(request, x)

Free(request) == \A x \in held : ~Conflict(request, x)

Take(request)    == Free(request) /\ held' = held \cup {request}
Release(request) == held' = held \ {request}

NoneHeld == held = {}
Forget   == held' = {}
=============================================================================
