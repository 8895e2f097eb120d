--------------------------- MODULE IntegrationLock ---------------------------
(***************************************************************************)
(* The lock file of ~/.agents/aevra that agent commands, the core and both *)
(* products take before they change an integration (lock.ts).              *)
(*                                                                         *)
(* A lock is the file one open created: it has a name in the folder, its   *)
(* creator writes pid and time into it in a second step, and it can be     *)
(* moved aside while its creator still runs.  Every file system call is a  *)
(* step, because the processes are separate programs.  A pid is not used   *)
(* again, and a live process does not rest ten minutes between the open    *)
(* and the write that follows it.                                          *)
(***************************************************************************)
EXTENDS Naturals, FiniteSets

CONSTANTS Procs,      \* the processes, one operation at a time in each
          MaxLocks,   \* locks one process creates
          MaxDeaths  \* processes that die without releasing

ASSUME Bounds == MaxLocks \in Nat \ {0} /\ MaxDeaths \in Nat

Locks == Procs \X (1..MaxLocks)
Creator(lock) == lock[1]

NoLock == <<>>           \* no file
Unreadable == <<"">>     \* what a reader finds in a lock not yet written, or in none

VARIABLES
    file,       \* the lock that has the name
    written,    \* locks with their content
    old,        \* unwritten locks of dead processes, older than ten minutes
    alive,      \* processes that run
    pc,         \* where each process is
    attempt,    \* 0, or 1 after a takeover
    made,       \* locks each process has created
    holder,     \* the content each process read in the lock it met
    aside,      \* the lock each process has moved aside
    displaced   \* whether the lock of a live process was ever moved aside

lockVars == <<file, written, old, alive, pc, attempt, made, holder, aside, displaced>>

LockSteps == {"idle", "open", "write", "held", "remove", "read", "stale", "rename", "compare",
          "link", "unlink"}

LockTypeOK ==
    /\ file \in Locks \cup {NoLock} /\ written \subseteq Locks /\ old \subseteq Locks
    /\ alive \subseteq Procs /\ pc \in [Procs -> LockSteps] /\ attempt \in [Procs -> {0, 1}]
    /\ made \in [Procs -> 0..MaxLocks] /\ holder \in [Procs -> Locks \cup {Unreadable}]
    /\ aside \in [Procs -> Locks \cup {NoLock}] /\ displaced \in BOOLEAN

LockInit ==
    /\ file = NoLock /\ written = {} /\ old = {} /\ alive = Procs /\ displaced = FALSE
    /\ pc = [p \in Procs |-> "idle"] /\ attempt = [p \in Procs |-> 0]
    /\ made = [p \in Procs |-> 0] /\ holder = [p \in Procs |-> Unreadable]
    /\ aside = [p \in Procs |-> NoLock]

-----------------------------------------------------------------------------
At(p, step) == p \in alive /\ pc[p] = step
GoOn(p, step) == pc' = [pc EXCEPT ![p] = step]
Content(lock) == IF lock \in written THEN lock ELSE Unreadable
Mine(p) == <<p, made[p]>>

Call(p) ==
    /\ At(p, "idle")
    /\ GoOn(p, "open") /\ attempt' = [attempt EXCEPT ![p] = 0]
    /\ UNCHANGED <<file, written, old, alive, made, holder, aside, displaced>>

\* Mutant: the file is opened with 'w'.
OpenAny(p) ==
    /\ At(p, "open")
    /\ IF made[p] < MaxLocks
       THEN /\ file' = <<p, made[p] + 1>> /\ made' = [made EXCEPT ![p] = @ + 1]
            /\ GoOn(p, "write")
       ELSE GoOn(p, "idle") /\ UNCHANGED <<file, made>>
    /\ UNCHANGED <<written, old, alive, attempt, holder, aside, displaced>>

\* openSync(file, 'wx'): creates the name, or finds it taken.
Open(p) ==
    /\ At(p, "open") /\ file = NoLock
    /\ IF made[p] < MaxLocks
       THEN /\ file' = <<p, made[p] + 1>> /\ made' = [made EXCEPT ![p] = @ + 1]
            /\ GoOn(p, "write")
       ELSE GoOn(p, "idle") /\ UNCHANGED <<file, made>>
    /\ UNCHANGED <<written, old, alive, attempt, holder, aside, displaced>>
Exists(p) ==
    /\ At(p, "open") /\ file # NoLock
    /\ GoOn(p, "read")
    /\ UNCHANGED <<file, written, old, alive, attempt, made, holder, aside, displaced>>

WriteHolder(p) ==
    /\ At(p, "write")
    /\ written' = written \cup {Mine(p)} /\ GoOn(p, "held")
    /\ UNCHANGED <<file, old, alive, attempt, made, holder, aside, displaced>>

\* readHolder; a second meeting with a lock is reported as busy whatever it holds.
ReadHolder(p) ==
    /\ At(p, "read")
    /\ IF attempt[p] > 0
       THEN GoOn(p, "idle") /\ UNCHANGED holder
       ELSE /\ holder' = [holder EXCEPT ![p] = IF file = NoLock THEN Unreadable ELSE Content(file)]
            /\ GoOn(p, "stale")
    /\ UNCHANGED <<file, written, old, alive, attempt, made, aside, displaced>>

\* Mutant: a holder that cannot be read is never stale.
IsStaleByPid(p) == holder[p] # Unreadable /\ Creator(holder[p]) \notin alive

\* A readable holder is stale once its process is gone, another one by the age of the file.
IsStale(p) ==
    IF holder[p] # Unreadable THEN Creator(holder[p]) \notin alive ELSE file \in old

Judge(p) ==
    /\ At(p, "stale")
    /\ GoOn(p, IF IsStale(p) THEN "rename" ELSE "idle")
    /\ UNCHANGED <<file, written, old, alive, attempt, made, holder, aside, displaced>>

MoveAside(p) ==
    /\ At(p, "rename")
    /\ IF file = NoLock
       THEN /\ GoOn(p, "open") /\ attempt' = [attempt EXCEPT ![p] = 1]
            /\ UNCHANGED <<file, aside, displaced>>
       ELSE /\ aside' = [aside EXCEPT ![p] = file] /\ file' = NoLock /\ GoOn(p, "compare")
            /\ displaced' = (displaced \/ Creator(file) \in alive)
            /\ UNCHANGED attempt
    /\ UNCHANGED <<written, old, alive, made, holder>>

\* What was moved is put back if it is not what was read.
Compare(p) ==
    /\ At(p, "compare")
    /\ GoOn(p, IF Content(aside[p]) # holder[p] THEN "link" ELSE "unlink")
    /\ UNCHANGED <<file, written, old, alive, attempt, made, holder, aside, displaced>>

PutBack(p) ==
    /\ At(p, "link")
    /\ file' = IF file = NoLock THEN aside[p] ELSE file
    /\ GoOn(p, "unlink")
    /\ UNCHANGED <<written, old, alive, attempt, made, holder, aside, displaced>>

DropAside(p) ==
    /\ At(p, "unlink")
    /\ aside' = [aside EXCEPT ![p] = NoLock] /\ attempt' = [attempt EXCEPT ![p] = 1]
    /\ GoOn(p, "open")
    /\ UNCHANGED <<file, written, old, alive, made, holder, displaced>>

\* The release reads the file and, if it is its own lock, removes the name in a second step.
Release(p) ==
    /\ At(p, "held")
    /\ GoOn(p, IF file # NoLock /\ Content(file) = Mine(p) THEN "remove" ELSE "idle")
    /\ UNCHANGED <<file, written, old, alive, attempt, made, holder, aside, displaced>>

RemoveName(p) ==
    /\ At(p, "remove")
    /\ file' = NoLock /\ GoOn(p, "idle")
    /\ UNCHANGED <<written, old, alive, attempt, made, holder, aside, displaced>>

-----------------------------------------------------------------------------
Die(p) ==
    /\ p \in alive /\ Cardinality(Procs \ alive) < MaxDeaths
    /\ alive' = alive \ {p}
    /\ UNCHANGED <<file, written, old, pc, attempt, made, holder, aside, displaced>>

\* Ten minutes pass over a lock whose process died before it wrote.
Age ==
    /\ file # NoLock /\ file \notin written \cup old /\ Creator(file) \notin alive
    /\ old' = old \cup {file}
    /\ UNCHANGED <<file, written, alive, pc, attempt, made, holder, aside, displaced>>

Acquire(p) == Open(p) \/ Exists(p) \/ WriteHolder(p) \/ ReadHolder(p) \/ Judge(p)
TakeOver(p) == MoveAside(p) \/ Compare(p) \/ PutBack(p) \/ DropAside(p)
Runs(p) == Call(p) \/ Acquire(p) \/ TakeOver(p) \/ Release(p) \/ RemoveName(p)

LockNext == Age \/ \E p \in Procs : Runs(p) \/ Die(p)

LockSpec == LockInit /\ [][LockNext]_lockVars

\* A process that runs goes on, its operations end, and somebody tries again.
LockFairness == WF_lockVars(Age) /\ \A p \in Procs : WF_lockVars(Runs(p))
FairLockSpec == LockSpec /\ LockFairness

-----------------------------------------------------------------------------
Holds(p) == p \in alive /\ pc[p] \in {"held", "remove"}

(* "One user-level lock serialises every change to ~/.agents/aevra across  *)
(* both products" (the comment over acquireIntegrationLock), but two that  *)
(* take over a stale lock at the same time may both hold it.  What the     *)
(* code does ensure: until the lock of a live process is moved    *)
(* aside, a process that holds has the name, so nobody else holds and a    *)
(* release removes no lock but its own, whatever process dies where.       *)
HolderHasTheName == ~displaced => \A p \in Procs : Holds(p) => file = Mine(p)

(* A lock left by a process that died, before or after its write, does not *)
(* block the others for ever.                                              *)
DeadLockGoes ==
    \A lock \in Locks : (file = lock /\ Creator(lock) \notin alive) ~> (file # lock)
=============================================================================
