----------------------------- MODULE Operations -----------------------------
(***************************************************************************)
(* Operations on the files of a workspace, change sets and rollback        *)
(* (apps/core/src/operations, apps/core/src/changes, the file operations   *)
(* of packages/executor).                                                  *)
(*                                                                         *)
(* A call prepares a mutation (reads the file, writes a row, has the       *)
(* worker copy the file aside), waits for the lock of the workspace, has   *)
(* the worker act, and records the mutation in the change set of its       *)
(* session, which can be rolled back later.  The worker is another         *)
(* process: a call can fail while the worker goes on with it.  The program *)
(* may stop between any two steps.                                         *)
(*                                                                         *)
(* A content is the set of the edits it includes, named by the operations  *)
(* that made them, and stands for its hash too.                            *)
(***************************************************************************)
EXTENDS WorkspaceLocks, Naturals, Sequences

CONSTANTS
    Sessions,
    Paths,
    MaxSets,     \* bound: change sets
    Rollbacks,   \* rollbacks that run, each once
    Skips,       \* the sets of paths a rollback may be told to skip
    Inputs,      \* Inputs[o]: the requests an operation may be
    None         \* no file, no hash, no set, no row

Kinds    == {"write", "create", "delete", "move", "command", "download"}
Requests == [session : Sessions, kind : Kinds, path : Paths, to : Paths,
             guarded : BOOLEAN, effect : Effects, keys : SUBSET Keys]

\* What a row says while the call goes on, and in the end.
Incomplete == {"PREPARING", "AUTHORIZED", "EXECUTING"}
RowStates  == Incomplete \cup {"SUCCEEDED", "FAILED", "INTERRUPTED"}

ASSUME InputAssumption == Inputs \in [Ops -> SUBSET Requests]
ASSUME NoneAssumption  == /\ None \notin Ops /\ None \notin Paths
                          /\ None \notin RowStates /\ None \notin Nat
ASSUME BoundAssumption == MaxSets \in Nat /\ Skips \subseteq SUBSET Paths

VARIABLES
    disk,      \* the content of each path, or None
    call,      \* the calls the program is running
    row,       \* table operations: the state of each row, or None
    task,      \* what the worker was sent and has not answered
    sets,      \* table change_sets, in the order they began: [state, session]
    active,    \* active: the change set of each session
    changes,   \* table change_operations, by id
    rollback,  \* the rollbacks the program is running
    \* history
    acted,     \* the mutations the worker has made, with the change set they belong to
    base,      \* the disk when each change set began, and what had been made by then
    disturbed  \* the change sets of which undoing is not expected to be exact

callVars   == <<call, row, task, held>>
changeVars == <<sets, active, changes, base>>
vars       == <<disk, callVars, changeVars, rollback, acted, disturbed>>

Contents == SUBSET Ops
Files    == Contents \cup {None}
SetIds   == 1 .. MaxSets

\* abandoned: a command that has failed and whose lock stays.
Stages == {"idle", "reading", "preparing", "waiting", "executing", "recorded", "ended", "abandoned"}
Calls  == [at : Stages, req : Requests \cup {None}, content : Files,
           set : SetIds \cup {None}, snap : Files]

Rows == RowStates \cup {None}

Tasks   == [done : BOOLEAN, req : Requests, content : Files, set : SetIds \cup {None}]
Changes == [set : SetIds \cup {None}, op : Ops, path : Paths, to : Paths, kind : Kinds,
            after : Files, snap : Files]

RollbackCalls == [at : {"idle", "next", "checking", "undoing", "ended"},
                  set : SetIds \cup {None}, todo : SUBSET Nat, force : BOOLEAN,
                  conflict : BOOLEAN]

Acted == Ops \X (SetIds \cup {None})

TypeOK ==
    /\ disk \in [Paths -> Files]
    /\ call \in [Ops -> Calls]
    /\ row \in [Ops -> Rows]
    /\ task \in [Ops -> Tasks \cup {None}]
    /\ held \subseteq LockRequests
    /\ sets \in Seq([state : {"OPEN", "COMMITTED", "ROLLED_BACK"}, session : Sessions])
    /\ Len(sets) <= MaxSets
    /\ active \in [Sessions -> SetIds \cup {None}]
    /\ changes \in Seq(Changes)
    /\ rollback \in [Rollbacks -> RollbackCalls]
    /\ acted \subseteq Acted
    /\ base \in Seq([disk : [Paths -> Files], acted : SUBSET Acted])
    /\ \A r \in Rollbacks : rollback[r].todo \subseteq DOMAIN changes
    /\ disturbed \subseteq SetIds \cup {None}

NoCall     == [at |-> "idle", req |-> None, content |-> None,
               set |-> None, snap |-> None]
Ended      == [NoCall EXCEPT !.at = "ended"]
NoRollback == [at |-> "idle", set |-> None, todo |-> {}, force |-> FALSE, conflict |-> FALSE]

Init ==
    /\ disk \in [Paths -> {{}, None}]
    /\ call = [o \in Ops |-> NoCall]
    /\ row = [o \in Ops |-> None]
    /\ task = [o \in Ops |-> None]
    /\ NoneHeld
    /\ sets = <<>> /\ base = <<>>
    /\ active = [s \in Sessions |-> None]
    /\ changes = <<>>
    /\ rollback = [r \in Rollbacks |-> NoRollback]
    /\ acted = {} /\ disturbed = {}

-----------------------------------------------------------------------------
(* Change sets *)

Begin(s) ==
    /\ Len(sets) < MaxSets
    /\ sets' = Append(sets, [state |-> "OPEN", session |-> s])
    /\ base' = Append(base, [disk |-> disk, acted |-> acted])
    /\ active' = [active EXCEPT ![s] = Len(sets) + 1]

\* Neither commit nor rollback makes a set inactive.
ActiveOrBegin(s) == IF active[s] # None THEN UNCHANGED <<sets, active, base>> ELSE Begin(s)
SetOf(s)         == IF active[s] # None THEN active[s] ELSE Len(sets) + 1

\* The tool change_begin.
ChangeBegin(s) ==
    /\ Begin(s)
    /\ UNCHANGED <<disk, callVars, changes, rollback, acted, disturbed>>

Commit(c) ==
    /\ sets' = [sets EXCEPT ![c].state = "COMMITTED"]
    /\ UNCHANGED <<disk, callVars, active, changes, base, rollback, acted, disturbed>>

-----------------------------------------------------------------------------
(* Calls: preparing *)

Journaled(kind) == kind \in {"write", "create", "delete", "move"}

LockOf(o, req) ==
    IF req.kind = "command"
    THEN [op |-> o, effect |-> req.effect, keys |-> req.keys]
    ELSE [op |-> o, effect |-> "SOURCE_MUTATION", keys |-> {}]

LockRequest(o) == LockOf(o, call[o].req)

\* A write begins by reading the file, a download by looking whether it is there.
StartRead(o, req) ==
    /\ req.kind \in {"write", "download"}
    /\ call' = [call EXCEPT ![o] = [NoCall EXCEPT !.at = "reading", !.req = req]]
    /\ UNCHANGED <<row, sets, active, base>>

StartSnapshot(o, req) ==
    /\ req.kind \in {"delete", "move"}
    /\ row' = [row EXCEPT ![o] = "PREPARING"]
    /\ ActiveOrBegin(req.session)
    /\ call' = [call EXCEPT ![o] = [NoCall EXCEPT !.at = "preparing", !.req = req,
                                                  !.set = SetOf(req.session)]]

StartCreate(o, req) ==
    /\ req.kind = "create"
    /\ row' = [row EXCEPT ![o] = "AUTHORIZED"]
    /\ ActiveOrBegin(req.session)
    /\ call' = [call EXCEPT ![o] = [NoCall EXCEPT !.at = "waiting", !.req = req,
                                                  !.content = {o},
                                                  !.set = SetOf(req.session)]]

StartCommand(o, req) ==
    /\ req.kind = "command"
    /\ call' = [call EXCEPT ![o] = [NoCall EXCEPT !.at = "waiting", !.req = req]]
    /\ UNCHANGED <<row, sets, active, base>>

Start(o) ==
    /\ call[o].at = "idle"
    /\ \E req \in Inputs[o] : \/ StartRead(o, req) \/ StartSnapshot(o, req)
                              \/ StartCreate(o, req) \/ StartCommand(o, req)
    /\ UNCHANGED <<disk, task, held, changes, rollback, acted, disturbed>>

\* The content a write is to give the file: a write that names the hash its client
\* has seen adds its edits to what the file now holds, or fails: if the hash has
\* changed, the edits are merged when the base is still cached and they do not overlap.
Content(o, cur) == IF call[o].req.guarded THEN cur \cup {o} ELSE {o}

Prepares(o, content) ==
    call' = [call EXCEPT ![o] = [at |-> "preparing", req |-> @.req, content |-> content,
                                 set |-> SetOf(@.req.session), snap |-> None]]

WriteReads(o) ==
    LET req == call[o].req  cur == disk[req.path] IN
    /\ call[o].at = "reading" /\ req.kind = "write"
    /\ cur # None
    /\ row' = [row EXCEPT ![o] = "PREPARING"]
    /\ ActiveOrBegin(req.session)
    /\ Prepares(o, Content(o, cur))
    /\ UNCHANGED <<disk, task, held, changes, rollback, acted, disturbed>>

Send(o, content, set) ==
    task' = [task EXCEPT ![o] = [done |-> FALSE, req |-> call[o].req,
                                 content |-> content, set |-> set]]

\* A download to a path that has a file copies it aside, one to a free path is sent
\* to the worker at once.
DownloadStats(o) ==
    LET req == call[o].req  there == ~req.guarded /\ disk[req.path] # None IN
    /\ call[o].at = "reading" /\ req.kind = "download"
    /\ \/ /\ there
          /\ ActiveOrBegin(req.session)
          /\ Prepares(o, {o})
          /\ UNCHANGED task
       \/ /\ ~there
          /\ Send(o, {o}, None)
          /\ call' = [call EXCEPT ![o].at = "executing", ![o].content = {o}]
          /\ UNCHANGED <<sets, active, base>>
    /\ UNCHANGED <<disk, row, held, changes, rollback, acted, disturbed>>

\* recovery.snapshot: the file is copied aside, before the lock is asked for.
Snapshot(o) ==
    LET req == call[o].req IN
    /\ call[o].at = "preparing"
    /\ disk[req.path] # None
    /\ IF req.kind = "download"
       THEN /\ Send(o, call[o].content, call[o].set)
            /\ call' = [call EXCEPT ![o].at = "executing", ![o].snap = disk[req.path]]
            /\ UNCHANGED row
       ELSE /\ row' = [row EXCEPT ![o] = "AUTHORIZED"]
            /\ call' = [call EXCEPT ![o].at = "waiting", ![o].snap = disk[req.path]]
            /\ UNCHANGED task
    /\ UNCHANGED <<disk, held, changeVars, rollback, acted, disturbed>>

\* No file, a conflict, an error of the worker, a deadline: the call fails, and a
\* row it has written stays as it is.
PreparingFails(o) ==
    /\ call[o].at \in {"reading", "preparing"}
    /\ call' = [call EXCEPT ![o] = Ended]
    /\ UNCHANGED <<disk, row, task, held, changeVars, rollback, acted, disturbed>>

-----------------------------------------------------------------------------
(* Calls: executing *)

Acquire(o) ==
    /\ call[o].at = "waiting"
    /\ Take(LockRequest(o))
    /\ row' = IF Journaled(call[o].req.kind) THEN [row EXCEPT ![o] = "EXECUTING"] ELSE row
    /\ Send(o, call[o].content, call[o].set)
    /\ call' = [call EXCEPT ![o].at = "executing"]
    /\ UNCHANGED <<disk, changeVars, rollback, acted, disturbed>>

\* A command has its lock, and then its settings cannot be read, or its workspace was
\* removed while it waited: it fails before it is sent, and nothing gives up the lock.
CommandThrows(o) ==
    /\ call[o].at = "waiting" /\ call[o].req.kind = "command"
    /\ Take(LockRequest(o))
    /\ call' = [call EXCEPT ![o].at = "abandoned"]
    /\ UNCHANGED <<disk, row, task, changeVars, rollback, acted, disturbed>>

\* What the worker makes of the files.  A file that is there is not created again;
\* a move replaces its target.
Effect(o, t) ==
    LET path == t.req.path IN
    \/ /\ t.req.kind = "write" \/ (t.req.kind = "download" /\ ~t.req.guarded)
       /\ disk' = [disk EXCEPT ![path] = t.content]
    \/ /\ t.req.kind = "create" \/ (t.req.kind = "download" /\ t.req.guarded)
       /\ disk[path] = None
       /\ disk' = [disk EXCEPT ![path] = t.content]
    \/ /\ t.req.kind = "delete" /\ disk[path] # None
       /\ disk' = [disk EXCEPT ![path] = None]
    \/ /\ t.req.kind = "move" /\ disk[path] # None
       /\ disk' = [disk EXCEPT ![t.req.to] = disk[path], ![path] = None]
    \/ /\ t.req.kind = "command" /\ t.req.effect = "SOURCE_MUTATION" /\ disk[path] # None
       /\ disk' = [disk EXCEPT ![path] = @ \cup {o}]

Replaces(t) == t.req.kind = "move" /\ disk[t.req.to] # None
Crowded(o)  == \E x \in Ops \ {o} : task[x] # None
Undoing     == {rollback[r].set : r \in {q \in Rollbacks : rollback[q].at \notin {"idle", "ended"}}}

\* The worker acts, for a call that waits or for one that has given up.
WorkerActs(o) ==
    /\ task[o] # None /\ ~task[o].done
    /\ Effect(o, task[o])
    /\ task' = [task EXCEPT ![o].done = TRUE]
    /\ acted' = acted \cup {<<o, task[o].set>>}
    /\ disturbed' = disturbed \cup Undoing \cup
            (IF Replaces(task[o]) \/ Crowded(o) THEN DOMAIN sets ELSE {})
    /\ UNCHANGED <<call, row, held, changeVars, rollback>>

\* The hash in the answer is of a second read of the file.
Hash(t) == IF t.req.kind \in {"delete", "move"} THEN None ELSE disk[t.req.path]

Answered(o) ==
    /\ call[o].at = "executing" /\ task[o] # None
    /\ task[o].done \/ task[o].req.kind = "command"
    /\ task' = [task EXCEPT ![o] = None]

\* Mutant: the record does not say where the copy is.
RecordedBare(o, set) ==
    LET req == call[o].req IN
    changes' = Append(changes,
        [set |-> set, op |-> o, path |-> req.path, to |-> req.to, kind |-> req.kind,
         after |-> Hash(task[o]), snap |-> None])

Recorded(o, set) ==
    LET req  == call[o].req
        kind == IF req.kind # "download" THEN req.kind
                ELSE IF call[o].snap # None THEN "write" ELSE "create"
    IN  changes' = Append(changes,
            [set |-> set, op |-> o, path |-> req.path, to |-> req.to, kind |-> kind,
             after |-> Hash(task[o]), snap |-> call[o].snap])

Record(o) ==
    /\ Answered(o)
    /\ Journaled(call[o].req.kind)
    /\ call[o].req.kind \in {"write", "create"} => Hash(task[o]) # None
    /\ Recorded(o, call[o].set)
    /\ call' = [call EXCEPT ![o].at = "recorded"]
    /\ UNCHANGED <<disk, row, held, sets, active, base, rollback, acted, disturbed>>

Succeed(o) ==
    /\ call[o].at = "recorded"
    /\ row' = [row EXCEPT ![o] = "SUCCEEDED"]
    /\ Release(LockRequest(o))
    /\ call' = [call EXCEPT ![o] = Ended]
    /\ UNCHANGED <<disk, task, changeVars, rollback, acted, disturbed>>

CommandEnds(o) ==
    /\ Answered(o)
    /\ call[o].req.kind = "command"
    /\ Release(LockRequest(o))
    /\ call' = [call EXCEPT ![o] = Ended]
    /\ UNCHANGED <<disk, row, changeVars, rollback, acted, disturbed>>

DownloadEnds(o) ==
    LET s == call[o].req.session IN
    /\ Answered(o)
    /\ call[o].req.kind = "download" /\ Hash(task[o]) # None
    /\ IF call[o].set # None
       THEN Recorded(o, call[o].set) /\ UNCHANGED <<sets, active, base>>
       ELSE Recorded(o, SetOf(s)) /\ ActiveOrBegin(s)
    /\ call' = [call EXCEPT ![o] = Ended]
    /\ UNCHANGED <<disk, row, held, rollback, acted, disturbed>>

\* Mutant: a call that fails keeps its lock.
FailedLocked(o) ==
    /\ row' = IF Journaled(call[o].req.kind) THEN [row EXCEPT ![o] = "FAILED"] ELSE row
    /\ call' = [call EXCEPT ![o] = Ended]
    /\ UNCHANGED held

Failed(o) ==
    /\ row' = IF Journaled(call[o].req.kind) THEN [row EXCEPT ![o] = "FAILED"] ELSE row
    /\ Release(LockRequest(o))
    /\ call' = [call EXCEPT ![o] = Ended]

\* The worker refuses, or fails before or after it has acted.
WorkerFails(o) ==
    /\ task[o] # None
    /\ task' = [task EXCEPT ![o] = None]
    /\ IF call[o].at = "executing" THEN Failed(o) ELSE UNCHANGED <<call, row, held>>
    /\ UNCHANGED <<disk, changeVars, rollback, acted, disturbed>>

\* The deadline passes, or the connection is lost.
CallFails(o) ==
    /\ call[o].at = "executing"
    /\ Failed(o)
    /\ UNCHANGED <<disk, task, changeVars, rollback, acted, disturbed>>

-----------------------------------------------------------------------------
(* Rollback *)

\* Mutant: the rows are undone in the order they were recorded.
FirstRow(r, i) == i \in rollback[r].todo /\ \A j \in rollback[r].todo : i <= j

\* The rows are undone last first.
IsNext(r, i) == i \in rollback[r].todo /\ \A j \in rollback[r].todo : j <= i

RowsOf(c) == {i \in DOMAIN changes : changes[i].set = c}

\* History: since the set began nothing was made but what it has recorded.
OpsOf(c)      == {changes[i].op : i \in RowsOf(c)}
OnlyItsOwn(c) == acted \ base[c].acted = OpsOf(c) \X {c}

RollbackStarts(r, c, force, skip) ==
    /\ rollback[r].at = "idle"
    /\ rollback' = [rollback EXCEPT ![r] =
            [at |-> "next", set |-> c, force |-> force, conflict |-> FALSE,
             todo |-> {i \in RowsOf(c) : changes[i].path \notin skip}]]
    /\ disturbed' = IF skip # {} \/ c \in Undoing \/ ~OnlyItsOwn(c)
                    THEN disturbed \cup {c} ELSE disturbed
    /\ UNCHANGED <<disk, callVars, changeVars, acted>>

\* What rollback asks of the worker may fail: it does not look.  What it undoes is a
\* change that the other sets have not recorded.
Attempt(r, path, file) ==
    \/ /\ disk' = [disk EXCEPT ![path] = file]
       /\ disturbed' = disturbed \cup (DOMAIN sets \ {rollback[r].set})
    \/ /\ disturbed' = disturbed \cup {rollback[r].set}
       /\ UNCHANGED disk

DeletesTarget(r, i) ==
    /\ rollback[r].at = "next" /\ IsNext(r, i)
    /\ changes[i].kind = "move"
    /\ Attempt(r, changes[i].to, None)
    /\ rollback' = [rollback EXCEPT ![r].at = "checking"]
    /\ UNCHANGED <<callVars, changeVars, acted>>

Conflicts(r, h) == /\ None \notin {disk[h.path], h.after}
                   /\ disk[h.path] # h.after
                   /\ ~rollback[r].force

Checks(r, i) ==
    /\ IsNext(r, i)
    /\ rollback[r].at = (IF changes[i].kind = "move" THEN "checking" ELSE "next")
    /\ IF Conflicts(r, changes[i])
       THEN rollback' = [rollback EXCEPT ![r].at = "next", ![r].conflict = TRUE,
                                         ![r].todo = @ \ {i}]
       ELSE rollback' = [rollback EXCEPT ![r].at = "undoing"]
    /\ UNCHANGED <<disk, callVars, changeVars, acted, disturbed>>

Undoes(r, i) ==
    /\ rollback[r].at = "undoing" /\ IsNext(r, i)
    /\ Attempt(r, changes[i].path, IF changes[i].kind = "create" THEN None ELSE changes[i].snap)
    /\ rollback' = [rollback EXCEPT ![r].at = "next", ![r].todo = @ \ {i}]
    /\ UNCHANGED <<callVars, changeVars, acted>>

RollbackEnds(r) ==
    /\ rollback[r].at = "next" /\ rollback[r].todo = {}
    /\ rollback' = [rollback EXCEPT ![r] = [NoRollback EXCEPT !.at = "ended"]]
    /\ sets' = IF rollback[r].conflict THEN sets
               ELSE [sets EXCEPT ![rollback[r].set].state = "ROLLED_BACK"]
    /\ UNCHANGED <<disk, callVars, active, changes, base, acted, disturbed>>

-----------------------------------------------------------------------------
(* The program stops and starts again.  The worker may go on with what it was sent. *)

\* reconcileIncompleteOperations
Reconciled(state) == IF state \in Incomplete THEN "INTERRUPTED" ELSE state

Restart ==
    /\ row' = [o \in Ops |-> Reconciled(row[o])]
    /\ call' = [o \in Ops |-> IF call[o].at = "idle" THEN NoCall ELSE Ended]
    /\ active' = [s \in Sessions |-> None]
    /\ Forget
    /\ rollback' = [r \in Rollbacks |-> IF rollback[r].at = "idle" THEN NoRollback
                                        ELSE [NoRollback EXCEPT !.at = "ended"]]
    /\ disturbed' = disturbed \cup Undoing
    /\ UNCHANGED <<disk, task, sets, changes, base, acted>>

Preparing(o) == WriteReads(o) \/ DownloadStats(o) \/ Snapshot(o) \/ PreparingFails(o)
Executing(o) == Record(o) \/ CommandEnds(o) \/ DownloadEnds(o) \/ CallFails(o)
RollingBack(r, i) == DeletesTarget(r, i) \/ Checks(r, i) \/ Undoes(r, i)

Next ==
    \/ \E s \in Sessions : ChangeBegin(s)
    \/ \E o \in Ops : \/ Start(o) \/ Preparing(o) \/ Acquire(o) \/ CommandThrows(o)
                      \/ Executing(o) \/ Succeed(o) \/ WorkerActs(o) \/ WorkerFails(o)
    \/ \E c \in DOMAIN sets : Commit(c)
    \/ \E r \in Rollbacks : \E i \in rollback[r].todo : RollingBack(r, i)
    \/ \E r \in Rollbacks : RollbackEnds(r)
    \/ \E r \in Rollbacks, c \in DOMAIN sets, force \in BOOLEAN, skip \in Skips :
           RollbackStarts(r, c, force, skip)
    \/ Restart

Spec == Init /\ [][Next]_vars

\* Every request to the worker is answered or meets its deadline, and a call that
\* waits for a lock asks again.
Fairness == \A o \in Ops : /\ WF_vars(Preparing(o)) /\ WF_vars(Acquire(o))
                           /\ WF_vars(Executing(o)) /\ WF_vars(Succeed(o))

FairSpec == Spec /\ Fairness

-----------------------------------------------------------------------------
(* Properties *)

Excluded(a, req, b, other) ==
    "download" \in {req.kind, other.kind} \/ ~Conflict(LockOf(a, req), LockOf(b, other))

\* Two calls that wait for the worker never conflict, whichever of them failed, was
\* refused or was interrupted before.  At the worker they may: a call that fails
\* gives up its lock while the worker goes on with its task.  So of two tasks that
\* conflict there, one at most has a caller who waits; the callers of the others
\* have given up.
CallsExclude ==
    \A a, b \in Ops : a # b =>
        /\ {call[a].at, call[b].at} \subseteq {"executing", "recorded"}
           => Excluded(a, call[a].req, b, call[b].req)
        /\ None \notin {task[a], task[b]} /\ {call[a].at, call[b].at} = {"executing"}
           => Excluded(a, task[a].req, b, task[b].req)

Destructive(kind) == kind \in {"write", "delete", "move"}

\* What is reported as succeeded can be undone: its change is in the change set,
\* with the copy of the file, whenever the program was stopped.
SuccessIsRecorded ==
    \A o \in Ops : row[o] = "SUCCEEDED" =>
        \E i \in DOMAIN changes : /\ changes[i].op = o
                                  /\ Destructive(changes[i].kind) => changes[i].snap # None

\* An operation that a client is told is queued has changed nothing, and never
\* will if the program has since given it up.
QueuedHasNotActed ==
    \A o \in Ops : row[o] \in {"PREPARING", "AUTHORIZED"} =>
        /\ \A set \in SetIds : <<o, set>> \notin acted
        /\ task[o] = None

\* A set that is rolled back leaves the files as they were when it began, if
\* nothing but its own recorded mutations happened since.
RollbackRestores ==
    [][\A r \in Rollbacks : LET c == rollback[r].set IN
          RollbackEnds(r) /\ ~rollback[r].conflict /\ c \notin disturbed => disk = base[c].disk]_vars

\* Every call ends, and with it the lock it holds; but a command that threw between
\* its lock and its try block keeps the lock, and what conflicts with it waits until
\* the program is restarted.  Nothing else keeps a call waiting.
CallsEnd ==
    \A o \in Ops : call[o].at # "idle" ~>
        \/ call[o].at \in {"ended", "abandoned"}
        \/ /\ call[o].at = "waiting"
           /\ \E x \in held : call[x.op].at = "abandoned" /\ Conflict(LockRequest(o), x)

=============================================================================
