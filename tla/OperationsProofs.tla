-------------------------- MODULE OperationsProofs --------------------------
(***************************************************************************)
(* Proofs about operations on files and the locks of a workspace, for      *)
(* every number of operations, sessions, paths, change sets and rollbacks. *)
(***************************************************************************)
EXTENDS Operations, TLAPS

-----------------------------------------------------------------------------
(* Types *)

Running(o) == call[o].at \notin {"idle", "ended"}

\* A call that runs has a request.
HasRequest == \A o \in Ops : Running(o) => call[o].req \in Requests

Types == TypeOK /\ HasRequest

LEMMA InitTypes == Init => Types
BY NoneAssumption, BoundAssumption DEF Init, Types, TypeOK, HasRequest, Running, NoneHeld, NoCall, NoRollback, Calls, Stages, Rows, RowStates,
      RollbackCalls, Files, Contents, Changes

LEMMA EndedType == Ended \in Calls /\ Ended.at = "ended" /\ NoCall \in Calls /\ NoCall.at = "idle"
BY DEF Ended, NoCall, Calls, Stages, Files

LEMMA LockRequestType ==
    ASSUME NEW o \in Ops, call[o].req \in Requests
    PROVE  LockRequest(o) \in LockRequests /\ LockRequest(o).op = o
BY DEF LockRequest, LockOf, LockRequests, Requests, Effects

SetRecord == [state : {"OPEN", "COMMITTED", "ROLLED_BACK"}, session : Sessions]

\* Beginning a change set.
LEMMA NewSetTypes ==
    ASSUME TypeOK, NEW s \in Sessions, Begin(s)
    PROVE  /\ sets' \in Seq(SetRecord) /\ Len(sets') <= MaxSets
           /\ active' \in [Sessions -> SetIds \cup {None}]
           /\ base' \in Seq([disk : [Paths -> Files], acted : SUBSET Acted])
           /\ Len(sets) + 1 \in SetIds
<1> USE BoundAssumption DEF TypeOK, SetIds
<1> DEFINE new == [state |-> "OPEN", session |-> s]
           start == [disk |-> disk, acted |-> acted]
<1>1. /\ Len(sets) < MaxSets /\ sets' = Append(sets, new) /\ base' = Append(base, start)
      /\ active' = [active EXCEPT ![s] = Len(sets) + 1]
  BY DEF Begin
<1>2. Len(sets) \in Nat /\ Len(sets) + 1 \in SetIds
  BY <1>1
<1>3. new \in SetRecord /\ sets \in Seq(SetRecord)
  BY DEF SetRecord
<1>4. start \in [disk : [Paths -> Files], acted : SUBSET Acted]
  OBVIOUS
<1> HIDE DEF new, start
<1>5. sets' \in Seq(SetRecord) /\ Len(sets') = Len(sets) + 1
  BY <1>1, <1>3
<1>6. base' \in Seq([disk : [Paths -> Files], acted : SUBSET Acted])
  BY <1>1, <1>4
<1>7. QED
  BY <1>1, <1>2, <1>5, <1>6

\* Going on with the set that is active, or beginning one.
LEMMA BeginTypes ==
    ASSUME TypeOK, NEW s \in Sessions, ActiveOrBegin(s)
    PROVE  /\ sets' \in Seq(SetRecord) /\ Len(sets') <= MaxSets
           /\ active' \in [Sessions -> SetIds \cup {None}]
           /\ base' \in Seq([disk : [Paths -> Files], acted : SUBSET Acted])
           /\ SetOf(s) \in SetIds
<1>1. CASE active[s] # None
  BY <1>1 DEF ActiveOrBegin, SetOf, TypeOK, SetRecord
<1>2. CASE active[s] = None
  BY <1>2, NewSetTypes DEF ActiveOrBegin, SetOf
<1>3. QED
  BY <1>1, <1>2

\* A set that changes its state.
LEMMA SetStateTypes ==
    ASSUME TypeOK, NEW c, NEW state \in {"OPEN", "COMMITTED", "ROLLED_BACK"},
           sets' = [sets EXCEPT ![c].state = state]
    PROVE  sets' \in Seq(SetRecord) /\ Len(sets') <= MaxSets
<1>1. sets \in Seq(SetRecord) /\ Len(sets) \in Nat /\ Len(sets) <= MaxSets
  BY DEF TypeOK, SetRecord
<1>2. /\ DOMAIN sets' = 1 .. Len(sets)
      /\ \A i \in 1 .. Len(sets) : sets'[i] = IF i = c THEN [sets[i] EXCEPT !.state = state]
                                              ELSE sets[i]
  BY <1>1
<1>3. \A i \in 1 .. Len(sets) : sets'[i] \in SetRecord
  <2>1. \A x \in SetRecord : [x EXCEPT !.state = state] \in SetRecord
    BY DEF SetRecord
  <2>2. \A i \in 1 .. Len(sets) : sets[i] \in SetRecord
    BY <1>1
  <2>3. QED
    BY <1>2, <2>1, <2>2
<1>4. sets' \in [1 .. Len(sets) -> SetRecord]
  BY <1>2, <1>3
<1>5. sets' \in Seq(SetRecord) /\ Len(sets') = Len(sets)
  BY <1>1, <1>4
<1>6. QED
  BY <1>1, <1>5

\* A mutation is recorded at the end of the table.
LEMMA RecordedTypes ==
    ASSUME TypeOK, NEW o \in Ops, NEW set \in SetIds \cup {None}, call[o].req \in Requests,
           task[o] # None, task[o].req \in Requests, Recorded(o, set)
    PROVE  /\ changes' \in Seq(Changes) /\ Len(changes') = Len(changes) + 1
           /\ DOMAIN changes \subseteq DOMAIN changes'
           /\ \A i \in DOMAIN changes : changes'[i] = changes[i]
<1> DEFINE req  == call[o].req
           kind == IF req.kind # "download" THEN req.kind
                   ELSE IF call[o].snap # None THEN "write" ELSE "create"
           new  == [set |-> set, op |-> o, path |-> req.path, to |-> req.to, kind |-> kind,
                    after |-> Hash(task[o]), snap |-> call[o].snap]
<1>1. changes' = Append(changes, new)
  BY DEF Recorded
<1>2. kind \in Kinds
  BY DEF Requests, Kinds
<1>3. Hash(task[o]) \in Files
  BY DEF TypeOK, Hash, Requests, Files
<1>4. call[o].snap \in Files
  BY DEF TypeOK, Calls
<1>5. new \in Changes
  BY <1>2, <1>3, <1>4 DEF Requests, Changes
<1> HIDE DEF new
<1>6. QED
  BY <1>1, <1>5 DEF TypeOK

LEMMA TaskType ==
    ASSUME TypeOK, NEW o \in Ops, call[o].req \in Requests, NEW content \in Files,
           NEW set \in SetIds \cup {None}, Send(o, content, set)
    PROVE  task' \in [Ops -> Tasks \cup {None}]
BY DEF TypeOK, Send, Tasks

LEMMA EffectType ==
    ASSUME TypeOK, NEW o \in Ops, task[o] # None, Effect(o, task[o])
    PROVE  disk' \in [Paths -> Files]
<1>1. task[o] \in Tasks
  BY DEF TypeOK
<1>2. /\ task[o].content \in Files
      /\ \A p \in Paths : disk[p] \in Files /\ (disk[p] # None => disk[p] \cup {o} \in Files)
  BY <1>1 DEF TypeOK, Tasks, Files, Contents
<1>3. task[o].req.path \in Paths /\ task[o].req.to \in Paths
  BY <1>1 DEF Tasks, Requests
<1>4. None \in Files
  BY DEF Files
<1>5. QED
  BY <1>1, <1>2, <1>3, <1>4 DEF Effect, TypeOK

LEMMA CallAt ==
    ASSUME NEW c \in Calls, NEW at \in Stages
    PROVE  [c EXCEPT !.at = at] \in Calls /\ [c EXCEPT !.at = at].req = c.req
BY DEF Calls

LEMMA CallWithCopy ==
    ASSUME NEW c \in Calls, NEW at \in Stages, NEW snap \in Files
    PROVE  /\ [c EXCEPT !.at = at, !.snap = snap] \in Calls
           /\ [c EXCEPT !.at = at, !.snap = snap].req = c.req
BY DEF Calls

LEMMA CallWithContent ==
    ASSUME NEW c \in Calls, NEW at \in Stages, NEW content \in Files
    PROVE  /\ [c EXCEPT !.at = at, !.content = content] \in Calls
           /\ [c EXCEPT !.at = at, !.content = content].req = c.req
BY DEF Calls

LEMMA CallsUpdated ==
    ASSUME Types, NEW o \in Ops, Running(o), NEW c \in Calls, c.req = call[o].req,
           call' = [call EXCEPT ![o] = c]
    PROVE  call' \in [Ops -> Calls] /\ HasRequest'
BY DEF Types, TypeOK, HasRequest, Running

LEMMA PreparesTypes ==
    ASSUME Types, NEW o \in Ops, Running(o), NEW content \in Files,
           SetOf(call[o].req.session) \in SetIds, Prepares(o, content)
    PROVE  call' \in [Ops -> Calls] /\ HasRequest'
<1> DEFINE c == [at |-> "preparing", req |-> call[o].req, content |-> content,
                 set |-> SetOf(call[o].req.session), snap |-> None]
<1>1. c \in Calls /\ c.req = call[o].req
  BY DEF Types, HasRequest, Calls, Stages, Files
<1>2. call' = [call EXCEPT ![o] = c]
  BY DEF Prepares, Types, TypeOK
<1> HIDE DEF c
<1>3. QED
  BY <1>1, <1>2, CallsUpdated

LEMMA UndoingType == TypeOK => Undoing \subseteq SetIds \cup {None}
BY DEF TypeOK, Undoing, RollbackCalls

-----------------------------------------------------------------------------
(* Every step keeps every variable in its type. *)

LEMMA StartTypes == ASSUME Types, NEW o \in Ops, Start(o) PROVE Types'
<1> USE DEF Types
<1>1. PICK req \in Inputs[o] : \/ StartRead(o, req) \/ StartSnapshot(o, req)
                               \/ StartCreate(o, req) \/ StartCommand(o, req)
  BY DEF Start
<1>2. req \in Requests /\ req.session \in Sessions
  BY InputAssumption DEF Requests
<1>3. /\ UNCHANGED <<disk, task, held, changes, rollback, acted, disturbed>>
  BY DEF Start
<1>4. {o} \in Files /\ None \in Files
  BY DEF Files, Contents
<1>5. CASE StartRead(o, req)
  <2>1. [NoCall EXCEPT !.at = "reading", !.req = req] \in Calls
    BY <1>2, <1>4 DEF NoCall, Calls, Stages
  <2>2. QED
    BY <1>2, <1>3, <1>5, <2>1 DEF StartRead, TypeOK, HasRequest, Running, NoCall
<1>6. CASE StartSnapshot(o, req)
  <2>1. SetOf(req.session) \in SetIds
    BY <1>2, <1>6, BeginTypes DEF StartSnapshot
  <2>2. [NoCall EXCEPT !.at = "preparing", !.req = req, !.set = SetOf(req.session)] \in Calls
    BY <1>2, <1>4, <2>1 DEF NoCall, Calls, Stages
  <2>3. call' \in [Ops -> Calls] /\ row' \in [Ops -> Rows]
    BY <1>6, <2>2 DEF StartSnapshot, TypeOK, Rows, RowStates, Incomplete
  <2>4. HasRequest'
    BY <1>2, <1>6 DEF StartSnapshot, TypeOK, HasRequest, Running, NoCall
  <2>5. QED
    BY <1>2, <1>3, <1>6, <2>3, <2>4, BeginTypes DEF StartSnapshot, TypeOK, SetRecord
<1>7. CASE StartCreate(o, req)
  <2>1. SetOf(req.session) \in SetIds
    BY <1>2, <1>7, BeginTypes DEF StartCreate
  <2>2. [NoCall EXCEPT !.at = "waiting", !.req = req, !.content = {o},
                       !.set = SetOf(req.session)] \in Calls
    BY <1>2, <1>4, <2>1 DEF NoCall, Calls, Stages
  <2>3. call' \in [Ops -> Calls] /\ row' \in [Ops -> Rows]
    BY <1>7, <2>2 DEF StartCreate, TypeOK, Rows, RowStates, Incomplete
  <2>4. HasRequest'
    BY <1>2, <1>7 DEF StartCreate, TypeOK, HasRequest, Running, NoCall
  <2>5. QED
    BY <1>2, <1>3, <1>7, <2>3, <2>4, BeginTypes DEF StartCreate, TypeOK, SetRecord
<1>8. CASE StartCommand(o, req)
  <2>1. [NoCall EXCEPT !.at = "waiting", !.req = req] \in Calls
    BY <1>2, <1>4 DEF NoCall, Calls, Stages
  <2>2. QED
    BY <1>2, <1>3, <1>8, <2>1 DEF StartCommand, TypeOK, HasRequest, Running, NoCall
<1>9. QED
  BY <1>1, <1>5, <1>6, <1>7, <1>8

LEMMA PreparingTypes == ASSUME Types, NEW o \in Ops, Preparing(o) PROVE Types'
<1> USE DEF Types
<1>1. CASE WriteReads(o)
  <2> DEFINE req == call[o].req
  <2>1. /\ req \in Requests /\ req.session \in Sessions /\ req.path \in Paths
        /\ disk[req.path] \in Contents
    BY <1>1 DEF WriteReads, HasRequest, Running, Requests, TypeOK, Files
  <2>2. Content(o, disk[req.path]) \in Files
    BY <2>1 DEF Content, Files, Contents
  <2>3. SetOf(req.session) \in SetIds
    BY <1>1, <2>1, BeginTypes DEF WriteReads
  <2>4. row' \in [Ops -> Rows]
    BY <1>1 DEF WriteReads, TypeOK, Rows, RowStates, Incomplete
  <2>5. call' \in [Ops -> Calls] /\ HasRequest'
    BY <1>1, <2>2, <2>3, PreparesTypes DEF WriteReads, Running
  <2>6. QED
    BY <1>1, <2>1, <2>4, <2>5, BeginTypes DEF WriteReads, TypeOK, SetRecord
<1>2. CASE DownloadStats(o)
  <2> DEFINE req == call[o].req
  <2>1. req \in Requests /\ req.session \in Sessions /\ {o} \in Files /\ None \in Files
    BY <1>2 DEF DownloadStats, HasRequest, Running, Requests, Files, Contents
  <2>2. UNCHANGED <<disk, row, held, changes, rollback, acted, disturbed>>
    BY <1>2 DEF DownloadStats
  <2>0. Running(o)
    BY <1>2 DEF DownloadStats, Running
  <2>3. CASE ~req.guarded /\ disk[req.path] # None
    <3>1. /\ ActiveOrBegin(req.session) /\ UNCHANGED task
          /\ Prepares(o, {o})
      BY <1>2, <2>3 DEF DownloadStats
    <3>2. SetOf(req.session) \in SetIds
      BY <2>1, <3>1, BeginTypes
    <3>3. call' \in [Ops -> Calls] /\ HasRequest'
      BY <2>0, <2>1, <3>1, <3>2, PreparesTypes
    <3>4. QED
      BY <2>1, <2>2, <3>1, <3>3, BeginTypes DEF TypeOK, SetRecord
  <2>4. CASE ~(~req.guarded /\ disk[req.path] # None)
    <3>1. /\ Send(o, {o}, None) /\ UNCHANGED <<sets, active, base>>
          /\ call' = [call EXCEPT ![o].at = "executing", ![o].content = {o}]
      BY <1>2, <2>4 DEF DownloadStats
    <3> DEFINE c == [call[o] EXCEPT !.at = "executing", !.content = {o}]
    <3>2. call' \in [Ops -> Calls] /\ HasRequest'
      <4>1. call' = [call EXCEPT ![o] = c]
        BY <3>1 DEF TypeOK
      <4>2. c \in Calls /\ c.req = call[o].req
        BY <2>1, CallWithContent DEF TypeOK, Stages
      <4>3. QED
        BY <2>0, <4>1, <4>2, CallsUpdated
    <3>3. QED
      BY <2>1, <2>2, <3>1, <3>2, TaskType DEF TypeOK
  <2>5. QED
    BY <2>3, <2>4
<1>3. CASE Snapshot(o)
  <2> DEFINE req == call[o].req
  <2>1. req \in Requests /\ req.path \in Paths /\ disk[req.path] \in Files /\ call[o] \in Calls
    BY <1>3 DEF Snapshot, HasRequest, Running, Requests, TypeOK
  <2>2. UNCHANGED <<disk, held, changeVars, rollback, acted, disturbed>>
    BY <1>3 DEF Snapshot
  <2>3. call' \in [Ops -> Calls] /\ HasRequest'
    <3> DEFINE c == [call[o] EXCEPT !.at = IF req.kind = "download" THEN "executing" ELSE "waiting",
                                    !.snap = disk[req.path]]
    <3>1. call' = [call EXCEPT ![o] = c]
      BY <1>3 DEF Snapshot, TypeOK
    <3>2. c \in Calls /\ c.req = call[o].req
      <4> DEFINE at == IF req.kind = "download" THEN "executing" ELSE "waiting"
      <4>1. at \in Stages
        BY DEF Stages
      <4> HIDE DEF at
      <4>2. /\ [call[o] EXCEPT !.at = at, !.snap = disk[req.path]] \in Calls
            /\ [call[o] EXCEPT !.at = at, !.snap = disk[req.path]].req = call[o].req
        BY <2>1, <4>1, CallWithCopy
      <4>3. QED
        BY <4>2 DEF at
    <3>3. Running(o)
      BY <1>3 DEF Snapshot, Running
    <3>4. QED
      BY <3>1, <3>2, <3>3, CallsUpdated
  <2>4. row' \in [Ops -> Rows]
    BY <1>3 DEF Snapshot, TypeOK, Rows, RowStates, Incomplete
  <2>5. task' \in [Ops -> Tasks \cup {None}]
    BY <1>3, <2>1, TaskType DEF Snapshot, TypeOK, Calls
  <2>6. QED
    BY <2>2, <2>3, <2>4, <2>5 DEF TypeOK, changeVars
<1>4. CASE PreparingFails(o)
  BY <1>4, EndedType DEF PreparingFails, TypeOK, HasRequest, Running, changeVars
<1>5. QED
  BY <1>1, <1>2, <1>3, <1>4 DEF Preparing

LEMMA ExecutingTypes ==
    ASSUME Types, NEW o \in Ops,
           Acquire(o) \/ CommandThrows(o) \/ Executing(o) \/ Succeed(o) \/ WorkerActs(o) \/ WorkerFails(o)
    PROVE  Types'
<1> USE DEF Types
<1>0. /\ call[o] \in Calls
      /\ Running(o) => call[o].req \in Requests
      /\ "executing" \in Stages /\ "recorded" \in Stages
  BY DEF TypeOK, HasRequest, Stages
<1>a. task[o] # None => task[o] \in Tasks /\ task[o].req \in Requests
  BY DEF TypeOK, Tasks
<1>1. CASE Acquire(o)
  <2>1. Running(o) /\ call[o].req \in Requests /\ LockRequest(o) \in LockRequests
    BY <1>0, <1>1, LockRequestType DEF Acquire, Running
  <2>2. call' \in [Ops -> Calls] /\ HasRequest'
    BY <1>0, <1>1, <2>1, CallAt, CallsUpdated DEF Acquire
  <2>3. task' \in [Ops -> Tasks \cup {None}]
    BY <1>0, <1>1, <2>1, TaskType DEF Acquire, Calls
  <2>4. row' \in [Ops -> Rows]
    BY <1>1 DEF Acquire, TypeOK, Rows, RowStates, Incomplete
  <2>5. QED
    BY <1>1, <2>1, <2>2, <2>3, <2>4 DEF Acquire, Take, TypeOK, changeVars
<1>2. CASE Record(o)
  <2>1. Running(o) /\ call[o].req \in Requests /\ task[o] # None
    BY <1>0, <1>2 DEF Record, Answered, Running
  <2>2. call' \in [Ops -> Calls] /\ HasRequest'
    BY <1>0, <1>2, <2>1, CallAt, CallsUpdated DEF Record
  <2>3. Recorded(o, call[o].set) /\ call[o].set \in SetIds \cup {None}
    BY <1>0, <1>2 DEF Record, Calls
  <2>4. /\ changes' \in Seq(Changes) /\ DOMAIN changes \subseteq DOMAIN changes'
    BY <1>a, <2>1, <2>3, RecordedTypes
  <2>5. task' \in [Ops -> Tasks \cup {None}]
    BY <1>2 DEF Record, Answered, TypeOK
  <2>6. QED
    BY <1>2, <2>2, <2>4, <2>5 DEF Record, TypeOK
<1>3. CASE CommandEnds(o)
  BY <1>3, EndedType DEF CommandEnds, Answered, Release, TypeOK, HasRequest, Running, changeVars
<1>4. CASE DownloadEnds(o)
  <2> DEFINE s == call[o].req.session
             set == IF call[o].set # None THEN call[o].set ELSE SetOf(s)
  <2>1. call[o].req \in Requests /\ s \in Sessions /\ task[o] # None
    BY <1>0, <1>4 DEF DownloadEnds, Answered, Running, Requests
  <2>2. call' \in [Ops -> Calls] /\ HasRequest' /\ task' \in [Ops -> Tasks \cup {None}]
    BY <1>4, EndedType DEF DownloadEnds, Answered, TypeOK, HasRequest, Running
  <2>3. UNCHANGED <<disk, row, held, rollback, acted, disturbed>>
    BY <1>4 DEF DownloadEnds
  <2>4. CASE call[o].set # None
    <3>1. call[o].set \in SetIds /\ Recorded(o, call[o].set) /\ UNCHANGED <<sets, active, base>>
      BY <1>0, <1>4, <2>4 DEF DownloadEnds, Calls
    <3>2. QED
      BY <1>a, <2>1, <2>2, <2>3, <3>1, RecordedTypes DEF TypeOK
  <2>5. CASE call[o].set = None
    <3>1. Recorded(o, SetOf(s)) /\ ActiveOrBegin(s)
      BY <1>4, <2>5 DEF DownloadEnds
    <3>2. SetOf(s) \in SetIds
      BY <2>1, <3>1, BeginTypes
    <3>3. QED
      BY <1>a, <2>1, <2>2, <2>3, <3>1, <3>2, BeginTypes, RecordedTypes DEF TypeOK, SetRecord
  <2>6. QED
    BY <2>4, <2>5
<1>5. CASE CallFails(o)
  <2>1. row' \in [Ops -> Rows]
    BY <1>5 DEF CallFails, Failed, TypeOK, Rows, RowStates
  <2>2. QED
    BY <1>5, <2>1, EndedType DEF CallFails, Failed, Release, TypeOK, HasRequest, Running, changeVars
<1>6. CASE Succeed(o)
  <2>1. row' \in [Ops -> Rows]
    BY <1>6 DEF Succeed, TypeOK, Rows, RowStates
  <2>2. QED
    BY <1>6, <2>1, EndedType DEF Succeed, Release, TypeOK, HasRequest, Running, changeVars
<1>7. CASE WorkerActs(o)
  <2>1. disk' \in [Paths -> Files]
    BY <1>7, EffectType DEF WorkerActs
  <2>2. acted' \subseteq Acted /\ task' \in [Ops -> Tasks \cup {None}]
    <3>1. task[o] \in Tasks
      BY <1>7, <1>a DEF WorkerActs
    <3>2. [task[o] EXCEPT !.done = TRUE] \in Tasks /\ task[o].set \in SetIds \cup {None}
      BY <3>1 DEF Tasks
    <3>3. task' = [task EXCEPT ![o] = [task[o] EXCEPT !.done = TRUE]]
      BY <1>7 DEF WorkerActs, TypeOK
    <3>4. QED
      BY <1>7, <3>2, <3>3 DEF WorkerActs, TypeOK, Acted
  <2>3. disturbed' \subseteq SetIds \cup {None}
    BY <1>7, UndoingType, BoundAssumption DEF WorkerActs, TypeOK, SetIds
  <2>4. QED
    BY <1>7, <2>1, <2>2, <2>3 DEF WorkerActs, TypeOK, HasRequest, Running, changeVars
<1>8. CASE WorkerFails(o)
  <2>1. row' \in [Ops -> Rows]
    BY <1>8 DEF WorkerFails, Failed, TypeOK, Rows, RowStates
  <2>2. QED
    BY <1>8, <2>1, EndedType DEF WorkerFails, Failed, Release, TypeOK, HasRequest, Running, changeVars
<1>9. CASE CommandThrows(o)
  <2>1. /\ Running(o) /\ call[o].req \in Requests /\ LockRequest(o) \in LockRequests
        /\ "abandoned" \in Stages
    BY <1>0, <1>9, LockRequestType DEF CommandThrows, Running, Stages
  <2>2. call' \in [Ops -> Calls] /\ HasRequest'
    BY <1>0, <1>9, <2>1, CallAt, CallsUpdated DEF CommandThrows
  <2>3. QED
    BY <1>9, <2>1, <2>2 DEF CommandThrows, Take, TypeOK, changeVars
<1>10. QED
  BY <1>1, <1>2, <1>3, <1>4, <1>5, <1>6, <1>7, <1>8, <1>9 DEF Executing

\* What a command that throws makes of its call.
LEMMA Abandons ==
    ASSUME Types, NEW o \in Ops, CommandThrows(o)
    PROVE  /\ call[o].at = "waiting" /\ Running(o) /\ call[o].req \in Requests
           /\ call[o].req.kind = "command"
           /\ call' = [call EXCEPT ![o].at = "abandoned"]
           /\ call'[o].at = "abandoned" /\ Running(o)'
           /\ call'[o].req = call[o].req /\ call'[o].set = call[o].set /\ call'[o].snap = call[o].snap
           /\ UNCHANGED <<disk, row, task, sets, active, base, changes, rollback, acted, disturbed>>
<1>1. call \in [Ops -> Calls] /\ call[o] \in Calls
  BY DEF Types, TypeOK
<1>2. call[o].at = "waiting" /\ Running(o)
  BY DEF CommandThrows, Running
<1>3. call[o].req \in Requests
  BY <1>2 DEF Types, HasRequest
<1>4. call' = [call EXCEPT ![o].at = "abandoned"]
  BY DEF CommandThrows
<1>5. /\ call'[o].at = "abandoned" /\ call'[o].req = call[o].req
      /\ call'[o].set = call[o].set /\ call'[o].snap = call[o].snap
  BY <1>1, <1>4 DEF Calls
<1>6. Running(o)'
  BY <1>5 DEF Running
<1>7. QED
  BY <1>2, <1>3, <1>4, <1>5, <1>6 DEF CommandThrows, changeVars

LEMMA SetTypes ==
    ASSUME Types,
           \/ \E s \in Sessions : ChangeBegin(s)
           \/ \E c \in DOMAIN sets : Commit(c)
    PROVE  Types'
<1> USE DEF Types
<1>1. ASSUME NEW s \in Sessions, ChangeBegin(s) PROVE Types'
  <2>1. Begin(s) /\ UNCHANGED <<disk, callVars, changes, rollback, acted, disturbed>>
    BY <1>1 DEF ChangeBegin
  <2>2. QED
    BY <2>1, NewSetTypes DEF TypeOK, SetRecord, HasRequest, Running, callVars
<1>2. ASSUME NEW c \in DOMAIN sets, Commit(c) PROVE Types'
  BY <1>2, SetStateTypes DEF Commit, TypeOK, SetRecord, HasRequest, Running, callVars
<1>3. QED
  BY <1>1, <1>2

LEMMA RollbackTypes ==
    ASSUME Types,
           \/ \E r \in Rollbacks : RollbackEnds(r) \/ \E i \in rollback[r].todo : RollingBack(r, i)
           \/ \E r \in Rollbacks, c \in DOMAIN sets, force \in BOOLEAN, skip \in Skips :
                  RollbackStarts(r, c, force, skip)
    PROVE  Types'
<1> USE DEF Types
<1>1. ASSUME NEW r \in Rollbacks, RollbackEnds(r) PROVE Types'
  <2>1. rollback' \in [Rollbacks -> RollbackCalls]
        /\ \A q \in Rollbacks : rollback'[q].todo \subseteq DOMAIN changes
    BY <1>1 DEF RollbackEnds, TypeOK, RollbackCalls, NoRollback
  <2>2. sets' \in Seq(SetRecord) /\ Len(sets') <= MaxSets
    BY <1>1, SetStateTypes DEF RollbackEnds, TypeOK, SetRecord
  <2>3. QED
    BY <1>1, <2>1, <2>2 DEF RollbackEnds, TypeOK, SetRecord, HasRequest, Running, callVars
<1>2. ASSUME NEW r \in Rollbacks, NEW i \in rollback[r].todo, RollingBack(r, i) PROVE Types'
  <2>1. /\ i \in DOMAIN changes /\ changes[i] \in Changes /\ rollback[r] \in RollbackCalls
    BY DEF TypeOK
  <2>2. changes[i].snap \in Files /\ None \in Files
    BY <2>1 DEF Changes, Files
  <2>3. ASSUME NEW path, NEW file \in Files, Attempt(r, path, file)
        PROVE  disk' \in [Paths -> Files] /\ disturbed' \subseteq SetIds \cup {None}
    <3>1. DOMAIN sets \subseteq SetIds
      BY BoundAssumption DEF TypeOK, SetIds
    <3>2. rollback[r].set \in SetIds \cup {None}
      BY <2>1 DEF RollbackCalls
    <3>3. disturbed' \subseteq SetIds \cup {None}
      BY <2>3, <3>1, <3>2 DEF Attempt, TypeOK
    <3>4. disk' \in [Paths -> Files]
      BY <2>3 DEF Attempt, TypeOK
    <3>5. QED
      BY <3>3, <3>4
  <2>4. CASE DeletesTarget(r, i)
    <3>1. rollback' \in [Rollbacks -> RollbackCalls]
          /\ \A q \in Rollbacks : rollback'[q].todo \subseteq DOMAIN changes
      BY <2>1, <2>4 DEF DeletesTarget, TypeOK, RollbackCalls
    <3>2. QED
      BY <2>2, <2>3, <2>4, <3>1 DEF DeletesTarget, TypeOK, HasRequest, Running, callVars, changeVars
  <2>5. CASE Checks(r, i)
    <3> DEFINE new == IF Conflicts(r, changes[i])
                      THEN [rollback[r] EXCEPT !.at = "next", !.conflict = TRUE, !.todo = @ \ {i}]
                      ELSE [rollback[r] EXCEPT !.at = "undoing"]
    <3>0. new \in RollbackCalls /\ new.todo \subseteq rollback[r].todo
      <4>1. CASE Conflicts(r, changes[i])
        BY <2>1, <4>1 DEF RollbackCalls
      <4>2. CASE ~Conflicts(r, changes[i])
        BY <2>1, <4>2 DEF RollbackCalls
      <4>3. QED
        BY <4>1, <4>2
    <3>a. rollback' = [rollback EXCEPT ![r] = new]
      <4>1. CASE Conflicts(r, changes[i])
        BY <2>5, <4>1 DEF Checks, TypeOK
      <4>2. CASE ~Conflicts(r, changes[i])
        BY <2>5, <4>2 DEF Checks, TypeOK
      <4>3. QED
        BY <4>1, <4>2
    <3> HIDE DEF new
    <3>1. rollback' \in [Rollbacks -> RollbackCalls]
          /\ \A q \in Rollbacks : rollback'[q].todo \subseteq DOMAIN changes
      BY <3>0, <3>a DEF TypeOK
    <3>2. QED
      BY <2>5, <3>1 DEF Checks, TypeOK, HasRequest, Running, callVars, changeVars
  <2>6. CASE Undoes(r, i)
    <3> DEFINE new == [rollback[r] EXCEPT !.at = "next", !.todo = @ \ {i}]
    <3>0. new \in RollbackCalls /\ new.todo \subseteq rollback[r].todo
      BY <2>1 DEF RollbackCalls
    <3>a. rollback' = [rollback EXCEPT ![r] = new]
      BY <2>6 DEF Undoes, TypeOK
    <3> HIDE DEF new
    <3>1. rollback' \in [Rollbacks -> RollbackCalls]
          /\ \A q \in Rollbacks : rollback'[q].todo \subseteq DOMAIN changes
      BY <3>0, <3>a DEF TypeOK
    <3>2. disk' \in [Paths -> Files] /\ disturbed' \subseteq SetIds \cup {None}
      BY <2>2, <2>3, <2>6 DEF Undoes
    <3>3. QED
      BY <2>6, <3>1, <3>2 DEF Undoes, TypeOK, HasRequest, Running, callVars, changeVars
  <2>7. QED
    BY <1>2, <2>4, <2>5, <2>6 DEF RollingBack
<1>3. ASSUME NEW r \in Rollbacks, NEW c \in DOMAIN sets, NEW force \in BOOLEAN, NEW skip \in Skips,
             RollbackStarts(r, c, force, skip)
      PROVE  Types'
  <2>1. c \in SetIds
    <3>1. Len(sets) \in Nat /\ DOMAIN sets = 1 .. Len(sets) /\ Len(sets) <= MaxSets
      BY DEF TypeOK
    <3>2. QED
      BY <3>1, BoundAssumption DEF SetIds
  <2>2. DOMAIN changes \subseteq Nat /\ RowsOf(c) \subseteq DOMAIN changes
    BY DEF TypeOK, RowsOf
  <2> DEFINE todo == {i \in RowsOf(c) : changes[i].path \notin skip}
             new  == [at |-> "next", set |-> c, todo |-> todo, force |-> force, conflict |-> FALSE]
  <2>3. todo \subseteq DOMAIN changes /\ todo \in SUBSET Nat
    BY <2>2
  <2>4. new \in RollbackCalls /\ new.todo = todo
    BY <2>1, <2>3 DEF RollbackCalls
  <2>5. rollback' = [rollback EXCEPT ![r] = new]
    BY <1>3 DEF RollbackStarts
  <2> HIDE DEF new
  <2>6. rollback' \in [Rollbacks -> RollbackCalls]
        /\ \A q \in Rollbacks : rollback'[q].todo \subseteq DOMAIN changes
    BY <2>3, <2>4, <2>5 DEF TypeOK
  <2>7. disturbed' \subseteq SetIds \cup {None}
    BY <1>3, <2>1 DEF RollbackStarts, TypeOK
  <2>8. QED
    BY <1>3, <2>6, <2>7 DEF RollbackStarts, TypeOK, HasRequest, Running, callVars, changeVars
<1>4. QED
  BY <1>1, <1>2, <1>3

LEMMA RestartTypes == ASSUME Types, Restart PROVE Types'
<1> USE DEF Types
<1>1. row' \in [Ops -> Rows]
  BY DEF Restart, TypeOK, Reconciled, Rows, RowStates
<1>2. call' \in [Ops -> Calls] /\ HasRequest'
  BY EndedType DEF Restart, TypeOK, HasRequest, Running
<1>3. rollback' \in [Rollbacks -> RollbackCalls]
      /\ \A q \in Rollbacks : rollback'[q].todo \subseteq DOMAIN changes
  BY DEF Restart, TypeOK, RollbackCalls, NoRollback
<1>4. QED
  BY <1>1, <1>2, <1>3, UndoingType DEF Restart, TypeOK, Forget

LEMMA NextTypes == Types /\ [Next]_vars => Types'
<1> SUFFICES ASSUME Types, [Next]_vars PROVE Types'
    OBVIOUS
<1>1. CASE UNCHANGED vars
  BY <1>1 DEF Types, TypeOK, HasRequest, Running, vars, callVars, changeVars
<1>2. CASE Next
  BY <1>2, StartTypes, PreparingTypes, ExecutingTypes, SetTypes, RollbackTypes, RestartTypes
     DEF Next
<1>3. QED
  BY <1>1, <1>2

\* The types of all variables, and so of the rows a restart finds.
THEOREM TypeCorrect == Spec => []TypeOK
<1>1. Types => TypeOK
  BY DEF Types
<1>2. QED
  BY <1>1, InitTypes, NextTypes, PTL DEF Spec

-----------------------------------------------------------------------------
(* Locks: those that are held are the locks of the calls the worker is    *)
(* executing, each with its own request.                                  *)

Locked(o) == call[o].at \in {"executing", "recorded", "abandoned"} /\ call[o].req.kind # "download"

LocksOfCalls ==
    /\ held \subseteq LockRequests
    /\ \A x \in held : Locked(x.op) /\ x = LockRequest(x.op)
    /\ \A o \in Ops : Locked(o) => LockRequest(o) \in held
    /\ \A x, y \in held : x.op = y.op \/ ~Conflict(x, y)
    /\ \A o \in Ops : call[o].at = "waiting" => call[o].req.kind # "download"

\* A call that had not begun to execute takes its lock.
LEMMA TakeKeepsLocks ==
    ASSUME TypeOK, LocksOfCalls, NEW o \in Ops, call[o].req \in Requests, ~Locked(o),
           call[o].req.kind # "download", Take(LockRequest(o)),
           NEW stage \in {"executing", "abandoned"}, call' = [call EXCEPT ![o].at = stage]
    PROVE  LocksOfCalls'
<1>1. LockRequest(o) \in LockRequests /\ LockRequest(o).op = o
  BY LockRequestType
<1>2. \A c \in Ops : call'[c].req = call[c].req /\ LockRequest(c)' = LockRequest(c)
  BY DEF TypeOK, LockRequest, LockOf, Calls
<1>3. \A c \in Ops : Locked(c)' <=> c = o \/ Locked(c)
  BY <1>2 DEF TypeOK, Locked, Calls
<1>4. \A x \in held : ~Conflict(LockRequest(o), x) /\ ~Conflict(x, LockRequest(o))
  BY DEF Take, Free, Conflict
<1>5. held' = held \cup {LockRequest(o)} /\ \A x \in held : x.op \in Ops
  BY DEF Take, LocksOfCalls, LockRequests
<1>6. QED
  BY <1>1, <1>2, <1>3, <1>4, <1>5 DEF LocksOfCalls

\* A call ends and gives up its lock, if it has one.
LEMMA ReleaseKeepsLocks ==
    ASSUME TypeOK, LocksOfCalls, NEW o \in Ops, call[o].req \in Requests,
           Release(LockRequest(o)), call' = [call EXCEPT ![o] = Ended]
    PROVE  LocksOfCalls'
<1>1. LockRequest(o).op = o
  BY LockRequestType
<1>2. \A c \in Ops \ {o} : LockRequest(c)' = LockRequest(c) /\ (Locked(c)' <=> Locked(c))
  BY DEF TypeOK, LockRequest, LockOf, Locked
<1>3. ~Locked(o)'
  BY EndedType DEF TypeOK, Locked
<1>4. \A x \in held' : x \in held /\ x.op \in Ops \ {o}
  BY DEF Release, LocksOfCalls, LockRequests
<1>5. \A c \in Ops \ {o} : Locked(c) => LockRequest(c) \in held'
  <2>1. \A c \in Ops : Locked(c) => LockRequest(c) \in held /\ LockRequest(c).op = c
    BY DEF LocksOfCalls, LockRequest, LockOf
  <2>2. QED
    BY <1>1, <2>1 DEF Release
<1>6. \A c \in Ops : call'[c].at = "waiting" => call'[c] = call[c]
  BY EndedType DEF TypeOK
<1>7. QED
  BY <1>2, <1>3, <1>4, <1>5, <1>6 DEF LocksOfCalls, Release

\* A call goes from one stage to another without a lock, or keeps its lock.
LEMMA StageKeepsLocks ==
    ASSUME TypeOK, LocksOfCalls, NEW o \in Ops, NEW c, call' = [call EXCEPT ![o] = c],
           c.req = call[o].req \/ ~Locked(o), UNCHANGED held,
           c.at \in {"executing", "recorded", "abandoned"} /\ c.req.kind # "download" <=> Locked(o),
           c.at = "waiting" => c.req.kind # "download"
    PROVE  LocksOfCalls'
<1>1. \A x \in Ops : /\ Locked(x)' <=> Locked(x)
                     /\ Locked(x) => LockRequest(x)' = LockRequest(x)
  BY DEF TypeOK, Locked, LockRequest, LockOf
<1>2. \A x \in held : x.op \in Ops
  BY DEF LocksOfCalls, LockRequests
<1>3. QED
  BY <1>1, <1>2 DEF LocksOfCalls

\* What leaves the calls alone: change sets, rollbacks.
LEMMA AsideOfCalls ==
    ASSUME TypeOK,
           \/ \E s \in Sessions : ChangeBegin(s)
           \/ \E c \in DOMAIN sets : Commit(c)
           \/ \E r \in Rollbacks : RollbackEnds(r) \/ \E i \in rollback[r].todo : RollingBack(r, i)
           \/ \E r \in Rollbacks, c \in DOMAIN sets, force \in BOOLEAN, skip \in Skips :
                  RollbackStarts(r, c, force, skip)
    PROVE  UNCHANGED <<call, row, task, held, changes, acted>>
BY DEF ChangeBegin, Commit, RollbackEnds, RollingBack, DeletesTarget, Checks, Undoes,
       RollbackStarts, callVars, changeVars

LEMMA CallStepKeepsLocks ==
    ASSUME Types, LocksOfCalls, NEW o \in Ops,
           \/ Start(o) \/ Preparing(o) \/ Acquire(o) \/ CommandThrows(o) \/ Executing(o) \/ Succeed(o)
           \/ WorkerActs(o) \/ WorkerFails(o)
    PROVE  LocksOfCalls'
<1> USE DEF Types
<1>0. /\ call[o] \in Calls
      /\ Running(o) => call[o].req \in Requests
  BY DEF TypeOK, HasRequest
<1>1. CASE Start(o)
  <2>1. PICK req \in Inputs[o] : \/ StartRead(o, req) \/ StartSnapshot(o, req)
                                 \/ StartCreate(o, req) \/ StartCommand(o, req)
    BY <1>1 DEF Start
  <2>2. PICK c : /\ call' = [call EXCEPT ![o] = c] /\ c.at \notin {"executing", "recorded", "abandoned"}
                 /\ c.at = "waiting" => c.req.kind # "download"
    <3>1. CASE StartRead(o, req)
      <4> DEFINE c == [NoCall EXCEPT !.at = "reading", !.req = req]
      <4>1. call' = [call EXCEPT ![o] = c] /\ c.at = "reading"
        BY <3>1 DEF StartRead, NoCall
      <4>2. QED
        BY <4>1
    <3>2. CASE StartSnapshot(o, req)
      <4> DEFINE c == [NoCall EXCEPT !.at = "preparing", !.req = req, !.set = SetOf(req.session)]
      <4>1. call' = [call EXCEPT ![o] = c] /\ c.at = "preparing"
        BY <3>2 DEF StartSnapshot, NoCall
      <4>2. QED
        BY <4>1
    <3>3. CASE StartCreate(o, req)
      <4> DEFINE c == [NoCall EXCEPT !.at = "waiting", !.req = req, !.content = {o},
                                     !.set = SetOf(req.session)]
      <4>1. call' = [call EXCEPT ![o] = c] /\ c.at = "waiting" /\ c.req.kind = "create"
        BY <3>3 DEF StartCreate, NoCall
      <4>2. QED
        BY <4>1
    <3>4. CASE StartCommand(o, req)
      <4> DEFINE c == [NoCall EXCEPT !.at = "waiting", !.req = req]
      <4>1. call' = [call EXCEPT ![o] = c] /\ c.at = "waiting" /\ c.req.kind = "command"
        BY <3>4 DEF StartCommand, NoCall
      <4>2. QED
        BY <4>1
    <3>5. QED
      BY <2>1, <3>1, <3>2, <3>3, <3>4
  <2>3. ~Locked(o) /\ UNCHANGED held
    BY <1>1 DEF Start, Locked
  <2>4. QED
    BY <2>2, <2>3, StageKeepsLocks
<1>2. CASE Preparing(o)
  <2>1. ~Locked(o) /\ UNCHANGED held
    BY <1>2 DEF Preparing, WriteReads, DownloadStats, Snapshot, PreparingFails, Locked, changeVars
  <2>2. PICK c : /\ call' = [call EXCEPT ![o] = c]
                 /\ c.at \in {"executing", "recorded", "abandoned"} => c.req.kind = "download"
                 /\ c.at = "waiting" => c.req.kind # "download"
    <3>0. ASSUME NEW content, Prepares(o, content)
          PROVE  \E c : call' = [call EXCEPT ![o] = c] /\ c.at = "preparing"
      <4> DEFINE c == [at |-> "preparing", req |-> call[o].req, content |-> content,
                       set |-> SetOf(call[o].req.session), snap |-> None]
      <4>1. call' = [call EXCEPT ![o] = c] /\ c.at = "preparing"
        BY <3>0 DEF Prepares, TypeOK
      <4>2. QED
        BY <4>1
    <3>1. CASE WriteReads(o)
      BY <3>0, <3>1 DEF WriteReads
    <3>2. CASE DownloadStats(o)
      <4>1. CASE Prepares(o, {o})
        BY <3>0, <4>1
      <4>2. CASE call' = [call EXCEPT ![o].at = "executing", ![o].content = {o}]
        <5> DEFINE c == [call[o] EXCEPT !.at = "executing", !.content = {o}]
        <5>1. call' = [call EXCEPT ![o] = c]
          BY <4>2 DEF TypeOK
        <5>2. c.req.kind = "download" /\ c.at = "executing"
          BY <1>0, <3>2 DEF DownloadStats, Calls
        <5>3. QED
          BY <5>1, <5>2
      <4>3. QED
        BY <3>2, <4>1, <4>2 DEF DownloadStats
    <3>3. CASE Snapshot(o)
      <4>1. CASE call[o].req.kind = "download"
        <5> DEFINE c == [call[o] EXCEPT !.at = "executing", !.snap = disk[call[o].req.path]]
        <5>1. call' = [call EXCEPT ![o] = c]
          BY <3>3, <4>1 DEF Snapshot, TypeOK
        <5>2. c.req.kind = "download" /\ c.at = "executing"
          BY <1>0, <4>1 DEF Calls
        <5>3. QED
          BY <5>1, <5>2
      <4>2. CASE call[o].req.kind # "download"
        <5> DEFINE c == [call[o] EXCEPT !.at = "waiting", !.snap = disk[call[o].req.path]]
        <5>1. call' = [call EXCEPT ![o] = c]
          BY <3>3, <4>2 DEF Snapshot, TypeOK
        <5>2. c.at = "waiting" /\ c.req.kind # "download"
          BY <1>0, <4>2 DEF Calls
        <5>3. QED
          BY <5>1, <5>2
      <4>3. QED
        BY <4>1, <4>2
    <3>4. CASE PreparingFails(o)
      BY <3>4, EndedType DEF PreparingFails
    <3>5. QED
      BY <1>2, <3>1, <3>2, <3>3, <3>4 DEF Preparing
  <2>3. QED
    BY <2>1, <2>2, StageKeepsLocks
<1>3. CASE Acquire(o)
  <2>1. call[o].req \in Requests /\ ~Locked(o)
    BY <1>0, <1>3 DEF Acquire, Running, Locked
  <2>2. call[o].req.kind # "download"
    BY <1>3 DEF Acquire, LocksOfCalls
  <2>3. QED
    BY <1>3, <2>1, <2>2, TakeKeepsLocks DEF Acquire
<1>4. CASE Record(o)
  <2> DEFINE c == [call[o] EXCEPT !.at = "recorded"]
  <2>1. call' = [call EXCEPT ![o] = c] /\ c.req = call[o].req /\ c.at = "recorded"
    BY <1>0, <1>4 DEF Record, TypeOK, Calls
  <2>2. Locked(o) /\ UNCHANGED held
    BY <1>4 DEF Record, Answered, Journaled, Locked
  <2>3. QED
    BY <2>1, <2>2, StageKeepsLocks DEF Locked
<1>5. CASE CommandEnds(o) \/ CallFails(o) \/ Succeed(o)
  <2>1. /\ Running(o) /\ call[o].req \in Requests
        /\ Release(LockRequest(o)) /\ call' = [call EXCEPT ![o] = Ended]
    BY <1>0, <1>5 DEF CommandEnds, CallFails, Failed, Succeed, Answered, Running
  <2>2. QED
    BY <2>1, ReleaseKeepsLocks
<1>6. CASE DownloadEnds(o)
  BY <1>6, EndedType, StageKeepsLocks DEF DownloadEnds, Locked
<1>7. CASE WorkerActs(o)
  BY <1>7 DEF WorkerActs, LocksOfCalls, Locked, LockRequest, LockOf
<1>8. CASE WorkerFails(o)
  <2>1. CASE call[o].at = "executing"
    BY <1>0, <1>8, <2>1, ReleaseKeepsLocks DEF WorkerFails, Failed, Running
  <2>2. CASE call[o].at # "executing"
    BY <1>8, <2>2 DEF WorkerFails, LocksOfCalls, Locked, LockRequest, LockOf
  <2>3. QED
    BY <2>1, <2>2
<1>9. CASE CommandThrows(o)
  <2>1. call[o].req \in Requests /\ ~Locked(o) /\ call[o].req.kind # "download"
    BY <1>9, Abandons DEF Locked
  <2>2. QED
    BY <1>9, <2>1, TakeKeepsLocks, Abandons DEF CommandThrows
<1>10. QED
  BY <1>1, <1>2, <1>3, <1>4, <1>5, <1>6, <1>7, <1>8, <1>9 DEF Executing

LEMMA NextKeepsLocks == Types /\ LocksOfCalls /\ [Next]_vars => LocksOfCalls'
<1> SUFFICES ASSUME Types, LocksOfCalls, [Next]_vars PROVE LocksOfCalls'
  OBVIOUS
<1>1. CASE UNCHANGED <<call, held>>
  BY <1>1 DEF LocksOfCalls, Locked, LockRequest, LockOf
<1>2. CASE Restart
  <2>1. held' = {} /\ \A o \in Ops : ~Locked(o)' /\ call'[o].at # "waiting"
    BY <1>2, EndedType DEF Restart, Forget, Locked
  <2>2. QED
    BY <2>1 DEF LocksOfCalls
<1>3. CASE \E o \in Ops : \/ Start(o) \/ Preparing(o) \/ Acquire(o) \/ CommandThrows(o) \/ Executing(o) \/ Succeed(o)
                          \/ WorkerActs(o) \/ WorkerFails(o)
  BY <1>3, CallStepKeepsLocks
<1>4. QED
  BY <1>1, <1>2, <1>3, AsideOfCalls DEF Next, vars, callVars, Types

-----------------------------------------------------------------------------
(* Records: what a call has done by the time it reaches each stage.        *)

HasRecord(o) == \E i \in DOMAIN changes : /\ changes[i].op = o
                                          /\ Destructive(changes[i].kind) => changes[i].snap # None
Untouched(o) == task[o] = None /\ \A set \in SetIds \cup {None} : <<o, set>> \notin acted

Told(o) ==
    /\ row[o] = "SUCCEEDED" \/ call[o].at = "recorded" => HasRecord(o)
    /\ call[o].at \in {"waiting", "executing"} /\ Destructive(call[o].req.kind)
       => call[o].snap # None
    /\ \/ row[o] \in {"PREPARING", "AUTHORIZED"}
       \/ call[o].at \in {"idle", "reading", "preparing", "waiting"}
       => Untouched(o)
    /\ call[o].at = "idle" => row[o] = None
    /\ Running(o) /\ ~Journaled(call[o].req.kind) => row[o] = None
    /\ call[o].at = "preparing" => call[o].req.kind \in {"write", "delete", "move", "download"}

\* The rows of the table of changes are never changed, nor deleted.
Grows == /\ DOMAIN changes \subseteq DOMAIN changes'
         /\ \A i \in DOMAIN changes : changes'[i] = changes[i]

LEMMA RecordStays == ASSUME NEW o, HasRecord(o), Grows PROVE HasRecord(o)'
BY DEF HasRecord, Grows

LEMMA CallStepGrows ==
    ASSUME Types, NEW o \in Ops,
           \/ Start(o) \/ Preparing(o) \/ Acquire(o) \/ CommandThrows(o) \/ Executing(o) \/ Succeed(o)
           \/ WorkerActs(o) \/ WorkerFails(o)
    PROVE  Grows
<1> USE DEF Types
<1>0. /\ call[o] \in Calls
      /\ Running(o) => call[o].req \in Requests
      /\ task[o] # None => task[o].req \in Requests
  BY DEF TypeOK, HasRequest, Tasks
<1>1. ASSUME NEW set \in SetIds \cup {None}, Running(o), task[o] # None, Recorded(o, set)
      PROVE  Grows
  BY <1>0, <1>1, RecordedTypes DEF Grows
<1>2. CASE Record(o)
  BY <1>0, <1>1, <1>2 DEF Record, Answered, Running, Calls
<1>3. CASE DownloadEnds(o)
  <2>1. Running(o) /\ task[o] # None
    BY <1>3 DEF DownloadEnds, Answered, Running
  <2>2. CASE call[o].set # None
    BY <1>0, <1>1, <1>3, <2>1, <2>2 DEF DownloadEnds, Calls
  <2>3. CASE call[o].set = None
    <3>1. /\ Recorded(o, SetOf(call[o].req.session)) /\ ActiveOrBegin(call[o].req.session)
          /\ call[o].req.session \in Sessions
      BY <1>0, <1>3, <2>1, <2>3 DEF DownloadEnds, Requests
    <3>2. QED
      BY <1>1, <2>1, <3>1, BeginTypes
  <2>4. QED
    BY <2>2, <2>3
<1>4. CASE UNCHANGED changes
  BY <1>4 DEF Grows
<1>5. QED
  BY <1>2, <1>3, <1>4 DEF Start, Preparing, WriteReads, DownloadStats, Snapshot, PreparingFails,
     Acquire, CommandThrows, Executing, CommandEnds, CallFails, Succeed, WorkerActs, WorkerFails, changeVars

\* A step of one call leaves the others as they are.
LEMMA OthersStay ==
    ASSUME Types, NEW o \in Ops, NEW c \in Ops \ {o},
           \/ Start(o) \/ Preparing(o) \/ Acquire(o) \/ CommandThrows(o) \/ Executing(o) \/ Succeed(o)
           \/ WorkerActs(o) \/ WorkerFails(o)
    PROVE  /\ call'[c] = call[c] /\ row'[c] = row[c] /\ task'[c] = task[c]
           /\ \A set : <<c, set>> \in acted' => <<c, set>> \in acted
<1> USE DEF Types, TypeOK
<1>1. CASE Start(o)
  BY <1>1 DEF Start, StartRead, StartSnapshot, StartCreate, StartCommand
<1>2. CASE Preparing(o)
  BY <1>2 DEF Preparing, WriteReads, DownloadStats, Snapshot, PreparingFails, Prepares, Send
<1>3. CASE Acquire(o)
  BY <1>3 DEF Acquire, Send
<1>4. CASE Executing(o)
  BY <1>4 DEF Executing, Record, CommandEnds, DownloadEnds, CallFails, Failed, Answered
<1>5. CASE Succeed(o)
  BY <1>5 DEF Succeed
<1>6. CASE WorkerActs(o)
  BY <1>6 DEF WorkerActs
<1>7. CASE WorkerFails(o)
  BY <1>7 DEF WorkerFails, Failed
<1>8. CASE CommandThrows(o)
  BY <1>8, Abandons
<1>9. QED
  BY <1>1, <1>2, <1>3, <1>4, <1>5, <1>6, <1>7, <1>8

LEMMA UntouchedStays ==
    ASSUME NEW o, Untouched(o), UNCHANGED <<task, acted>> PROVE Untouched(o)'
BY DEF Untouched

\* What a step of a call makes of the call itself, before it executes,
LEMMA OwnPreparingStep ==
    ASSUME Types, NEW o \in Ops, Told(o),
           Start(o) \/ Preparing(o) \/ Acquire(o) \/ CommandThrows(o)
    PROVE  Told(o)'
<1>0. /\ call \in [Ops -> Calls] /\ row \in [Ops -> Rows] /\ call[o] \in Calls
      /\ call[o].at \in {"idle", "reading", "preparing", "waiting"} => Untouched(o)
  BY DEF Types, TypeOK, Told
<1>1. CASE Start(o)
  <2>1. PICK req \in Inputs[o] : \/ StartRead(o, req) \/ StartSnapshot(o, req)
                                 \/ StartCreate(o, req) \/ StartCommand(o, req)
    BY <1>1 DEF Start
  <2>2. row[o] = None /\ Untouched(o)'
    BY <1>0, <1>1, UntouchedStays DEF Start, Told
  <2>3. CASE StartRead(o, req)
    <3>1. call'[o].at = "reading" /\ row'[o] = None
      BY <1>0, <2>2, <2>3 DEF StartRead, NoCall
    <3>2. QED
      BY <2>2, <3>1, NoneAssumption DEF Told, Running, RowStates, Incomplete
  <2>4. CASE StartCommand(o, req)
    <3>1. call'[o].at = "waiting" /\ call'[o].req.kind = "command" /\ row'[o] = None
      BY <1>0, <2>2, <2>4 DEF StartCommand, NoCall
    <3>2. QED
      BY <2>2, <3>1, NoneAssumption DEF Told, Destructive, Running, RowStates, Incomplete
  <2>5. CASE StartSnapshot(o, req) \/ StartCreate(o, req)
    <3>1. row'[o] \in {"PREPARING", "AUTHORIZED"}
      BY <1>0, <2>5 DEF StartSnapshot, StartCreate
    <3>2. CASE StartSnapshot(o, req)
      <4>1. call'[o].at = "preparing" /\ call'[o].req.kind \in {"delete", "move"}
        BY <1>0, <3>2 DEF StartSnapshot, NoCall
      <4>2. QED
        BY <2>2, <3>1, <4>1 DEF Told, Journaled, Running
    <3>3. CASE StartCreate(o, req)
      <4>1. call'[o].at = "waiting" /\ call'[o].req.kind = "create"
        BY <1>0, <3>3 DEF StartCreate, NoCall
      <4>2. QED
        BY <2>2, <3>1, <4>1 DEF Told, Journaled, Destructive, Running
    <3>4. QED
      BY <2>5, <3>2, <3>3
  <2>6. QED
    BY <2>1, <2>3, <2>4, <2>5
<1>2. CASE WriteReads(o)
  <2>1. Untouched(o)' /\ row'[o] = "PREPARING" /\ call[o].req.kind = "write"
    BY <1>0, <1>2, UntouchedStays DEF WriteReads
  <2>2. call'[o].at = "preparing" /\ call'[o].req = call[o].req
    BY <1>0, <1>2 DEF WriteReads, Prepares
  <2>3. QED
    BY <2>1, <2>2 DEF Told, Destructive, Journaled, Running
<1>3. CASE DownloadStats(o)
  <2>1. call[o].req.kind = "download" /\ row[o] = None /\ row' = row
    BY <1>3 DEF DownloadStats, Told, Running, Journaled
  <2>2. CASE Prepares(o, {o}) /\ UNCHANGED task
    <3>1. call'[o].at = "preparing" /\ call'[o].req = call[o].req
      BY <1>0, <2>2 DEF Prepares
    <3>2. Untouched(o)'
      BY <1>0, <1>3, <2>2, UntouchedStays DEF DownloadStats
    <3>3. QED
      BY <2>1, <3>1, <3>2, NoneAssumption DEF Told, Running, Destructive, RowStates, Incomplete
  <2>3. CASE call' = [call EXCEPT ![o].at = "executing", ![o].content = {o}]
    <3>1. call'[o].at = "executing" /\ call'[o].req = call[o].req
      BY <1>0, <2>3 DEF Calls
    <3>2. QED
      BY <2>1, <3>1, NoneAssumption DEF Told, Destructive, Running, RowStates, Incomplete
  <2>4. QED
    BY <1>3, <2>2, <2>3 DEF DownloadStats
<1>4. CASE Snapshot(o)
  <2> DEFINE req == call[o].req
  <2>1. disk[req.path] # None
    BY <1>4 DEF Snapshot
  <2>2. CASE req.kind = "download"
    <3>1. call' = [call EXCEPT ![o].at = "executing", ![o].snap = disk[req.path]]
          /\ row' = row /\ row[o] = None
      BY <1>4, <2>2 DEF Snapshot, Told, Running, Journaled
    <3>2. call'[o].at = "executing" /\ call'[o].req = call[o].req
      BY <1>0, <3>1 DEF Calls
    <3>3. QED
      BY <2>2, <3>1, <3>2, NoneAssumption DEF Told, Destructive, Running, RowStates, Incomplete
  <2>3. CASE req.kind # "download"
    <3>1. /\ call' = [call EXCEPT ![o].at = "waiting", ![o].snap = disk[req.path]]
          /\ row' = [row EXCEPT ![o] = "AUTHORIZED"] /\ UNCHANGED <<task, acted>>
      BY <1>4, <2>3 DEF Snapshot
    <3>2. /\ call'[o].at = "waiting" /\ call'[o].req = call[o].req
          /\ call'[o].snap # None
      BY <1>0, <2>1, <3>1 DEF Calls
    <3>3. row'[o] = "AUTHORIZED" /\ Untouched(o)'
      BY <1>0, <1>4, <3>1, UntouchedStays DEF Snapshot
    <3>4. Journaled(req.kind)
      BY <1>4, <2>3 DEF Snapshot, Told, Journaled
    <3>5. QED
      BY <3>2, <3>3, <3>4 DEF Told
  <2>4. QED
    BY <2>2, <2>3
<1>5. CASE PreparingFails(o)
  <2>1. call'[o].at = "ended" /\ row' = row /\ Untouched(o)'
    BY <1>0, <1>5, EndedType, UntouchedStays DEF PreparingFails
  <2>2. row[o] # "SUCCEEDED" \/ HasRecord(o)'
    BY <1>5, RecordStays DEF Told, Grows, PreparingFails, changeVars
  <2>3. QED
    BY <2>1, <2>2 DEF Told, Running
<1>6. CASE Acquire(o)
  <2>1. call'[o] = [call[o] EXCEPT !.at = "executing"]
    BY <1>0, <1>6 DEF Acquire
  <2>2. call'[o].at = "executing" /\ call'[o].req = call[o].req /\ call'[o].snap = call[o].snap
    BY <1>0, <2>1 DEF Calls
  <2>3. row'[o] = IF Journaled(call[o].req.kind) THEN "EXECUTING" ELSE None
    BY <1>0, <1>6 DEF Acquire, Told, Running
  <2>4. QED
    BY <1>6, <2>2, <2>3, NoneAssumption DEF Told, Running, Acquire, RowStates, Incomplete
<1>7. CASE CommandThrows(o)
  <2>1. ~Journaled("command")
    BY DEF Journaled
  <2>2. row'[o] = None
    BY <1>7, <2>1, Abandons DEF Told
  <2>3. QED
    BY <1>7, <2>2, Abandons, NoneAssumption DEF Told, RowStates, Incomplete
<1>8. QED
  BY <1>1, <1>2, <1>3, <1>4, <1>5, <1>6, <1>7 DEF Preparing

\* and while it executes and ends.
LEMMA EndedStep ==
    ASSUME Types, NEW o \in Ops, Told(o), Grows, Running(o),
           call' = [call EXCEPT ![o] = Ended],
           \/ row'[o] = "FAILED"
           \/ (row'[o] = row[o] /\ ~Journaled(call[o].req.kind))
           \/ (row'[o] = "SUCCEEDED" /\ call[o].at = "recorded")
    PROVE  Told(o)'
<1>1. call'[o].at = "ended"
  BY EndedType DEF Types, TypeOK
<1>2. row'[o] \notin {"PREPARING", "AUTHORIZED"}
  BY NoneAssumption DEF Told, Running, RowStates, Incomplete
<1>3. row'[o] = "SUCCEEDED" => HasRecord(o)'
  BY RecordStays, NoneAssumption DEF Told, Running, RowStates
<1>4. QED
  BY <1>1, <1>2, <1>3 DEF Told, Running

LEMMA OwnExecutingStep ==
    ASSUME Types, NEW o \in Ops, Told(o),
           Executing(o) \/ Succeed(o) \/ WorkerActs(o) \/ WorkerFails(o)
    PROVE  Told(o)'
<1>0. /\ call \in [Ops -> Calls] /\ row \in [Ops -> Rows] /\ call[o] \in Calls
      /\ Running(o) => call[o].req \in Requests
      /\ task[o] # None => task[o].req \in Requests
  BY DEF Types, TypeOK, HasRequest, Tasks
<1>a. Grows
  BY CallStepGrows
<1>1. CASE Record(o)
  <2> DEFINE req == call[o].req
  <2>1. /\ Running(o) /\ task[o] # None /\ Journaled(req.kind) /\ call[o].at = "executing"
        /\ Recorded(o, call[o].set) /\ row' = row
        /\ call' = [call EXCEPT ![o].at = "recorded"]
    BY <1>1 DEF Record, Answered, Running
  <2>2. call'[o].at = "recorded" /\ call'[o].req = req
    BY <1>0, <2>1 DEF Calls
  <2>3. HasRecord(o)'
    <3> DEFINE new == [set |-> call[o].set, op |-> o, path |-> req.path, to |-> req.to,
                       kind |-> req.kind, after |-> Hash(task[o]), snap |-> call[o].snap]
    <3>1. req.kind # "download"
      BY <2>1 DEF Journaled
    <3>2. changes' = Append(changes, new)
      BY <2>1, <3>1 DEF Recorded
    <3>3. new.op = o /\ (Destructive(new.kind) => new.snap # None)
      BY <2>1 DEF Told
    <3> HIDE DEF new
    <3>4. changes \in Seq(Changes) /\ Len(changes) + 1 \in DOMAIN changes'
          /\ changes'[Len(changes) + 1] = new
      BY <3>2 DEF Types, TypeOK
    <3>5. QED
      BY <3>3, <3>4 DEF HasRecord
  <2>4. row[o] \notin {"PREPARING", "AUTHORIZED"}
    BY <2>1 DEF Told, Untouched
  <2>5. QED
    BY <2>1, <2>2, <2>3, <2>4 DEF Told
<1>2. CASE CommandEnds(o)
  <2>1. Running(o) /\ ~Journaled(call[o].req.kind) /\ row' = row
        /\ call' = [call EXCEPT ![o] = Ended]
    BY <1>2 DEF CommandEnds, Answered, Running, Journaled
  <2>2. QED
    BY <1>a, <2>1, EndedStep
<1>3. CASE DownloadEnds(o)
  <2>1. Running(o) /\ ~Journaled(call[o].req.kind) /\ row' = row
        /\ call' = [call EXCEPT ![o] = Ended]
    BY <1>3 DEF DownloadEnds, Answered, Running, Journaled
  <2>2. QED
    BY <1>a, <2>1, EndedStep
<1>4. CASE CallFails(o) \/ (WorkerFails(o) /\ call[o].at = "executing")
  <2>1. Failed(o) /\ Running(o)
    BY <1>4 DEF CallFails, WorkerFails, Running
  <2>2. /\ row'[o] = "FAILED" \/ (row'[o] = row[o] /\ ~Journaled(call[o].req.kind))
        /\ call' = [call EXCEPT ![o] = Ended]
    BY <1>0, <2>1 DEF Failed
  <2>3. QED
    BY <1>a, <2>1, <2>2, EndedStep
<1>5. CASE Succeed(o)
  <2>1. /\ row'[o] = "SUCCEEDED" /\ call[o].at = "recorded" /\ Running(o)
        /\ call' = [call EXCEPT ![o] = Ended]
    BY <1>0, <1>5 DEF Succeed, Running
  <2>2. QED
    BY <1>a, <2>1, EndedStep
<1>6. CASE WorkerActs(o)
  <2>1. task[o] # None /\ UNCHANGED <<call, row>>
    BY <1>6 DEF WorkerActs
  <2>2. QED
    BY <1>a, <2>1, RecordStays DEF Told, Running, Untouched
<1>7. CASE WorkerFails(o) /\ call[o].at # "executing"
  <2>1. task[o] # None /\ UNCHANGED <<call, row>>
    BY <1>7 DEF WorkerFails
  <2>2. QED
    BY <1>a, <2>1, RecordStays DEF Told, Running, Untouched
<1>8. QED
  BY <1>1, <1>2, <1>3, <1>4, <1>5, <1>6, <1>7 DEF Executing

LEMMA OtherStep ==
    ASSUME Types, NEW o \in Ops, NEW c \in Ops \ {o}, Told(c),
           \/ Start(o) \/ Preparing(o) \/ Acquire(o) \/ CommandThrows(o) \/ Executing(o) \/ Succeed(o)
           \/ WorkerActs(o) \/ WorkerFails(o)
    PROVE  Told(c)'
<1>1. Grows
  BY CallStepGrows
<1>2. /\ call'[c] = call[c] /\ row'[c] = row[c] /\ task'[c] = task[c]
      /\ \A set : <<c, set>> \in acted' => <<c, set>> \in acted
  BY OthersStay
<1>3. (HasRecord(c) => HasRecord(c)') /\ (Untouched(c) => Untouched(c)')
  BY <1>1, <1>2, RecordStays DEF Untouched
<1>4. QED
  BY <1>2, <1>3 DEF Told, Running

AllTold == \A o \in Ops : Told(o)

LEMMA NextTold == Types /\ AllTold /\ [Next]_vars => AllTold'
<1> SUFFICES ASSUME Types, AllTold, [Next]_vars PROVE AllTold'
  OBVIOUS
<1>1. CASE UNCHANGED <<call, row, task, changes, acted>>
  BY <1>1 DEF AllTold, Told, HasRecord, Untouched, Running
<1>2. CASE Restart
  <2>1. UNCHANGED <<task, changes, acted>>
    BY <1>2 DEF Restart
  <2>2. ASSUME NEW o \in Ops PROVE Told(o)'
    <3>1. row'[o] = Reconciled(row[o]) /\ row[o] \in Rows /\ Told(o)
      BY <1>2 DEF Restart, Types, TypeOK, AllTold
    <3>2. row'[o] \notin {"PREPARING", "AUTHORIZED"} /\ (row'[o] = "SUCCEEDED" => row[o] = "SUCCEEDED")
      BY <3>1, NoneAssumption DEF Reconciled, Rows, RowStates, Incomplete
    <3>3. HasRecord(o)' <=> HasRecord(o)
      BY <2>1 DEF HasRecord
    <3>4. CASE call[o].at = "idle"
      <4>1. call'[o].at = "idle" /\ row'[o] = None
        BY <1>2, <3>1, <3>4, EndedType, NoneAssumption DEF Restart, Told, Reconciled, RowStates
      <4>2. QED
        BY <2>1, <3>1, <3>2, <3>3, <3>4, <4>1 DEF Told, Untouched, Running
    <3>5. CASE call[o].at # "idle"
      <4>1. call'[o].at = "ended"
        BY <1>2, <3>5, EndedType DEF Restart
      <4>2. QED
        BY <3>1, <3>2, <3>3, <4>1 DEF Told, Running
    <3>6. QED
      BY <3>4, <3>5
  <2>3. QED
    BY <2>2 DEF AllTold
<1>3. ASSUME NEW o \in Ops,
             \/ Start(o) \/ Preparing(o) \/ Acquire(o) \/ CommandThrows(o) \/ Executing(o) \/ Succeed(o)
             \/ WorkerActs(o) \/ WorkerFails(o)
      PROVE  AllTold'
  <2>1. Told(o)'
    BY <1>3, OwnPreparingStep, OwnExecutingStep DEF AllTold
  <2>2. ASSUME NEW c \in Ops \ {o} PROVE Told(c)'
    BY <1>3, OtherStep DEF AllTold
  <2>3. QED
    BY <2>1, <2>2 DEF AllTold
<1>4. QED
  BY <1>1, <1>2, <1>3, AsideOfCalls DEF Next, vars, callVars, changeVars, Types

LEMMA InitTold == Init => AllTold
BY NoneAssumption DEF Init, AllTold, Told, NoCall, Untouched, Running, RowStates, Incomplete

\* What is reported as succeeded can be undone: its change is in the change set,
\* with the copy of the file, whenever the program was stopped.
THEOREM Recoverable == Spec => []SuccessIsRecorded
<1>1. AllTold => SuccessIsRecorded
  BY DEF AllTold, Told, HasRecord, SuccessIsRecorded
<1>2. QED
  BY <1>1, InitTypes, InitTold, NextTypes, NextTold, PTL DEF Spec

\* An operation that a client is told is queued has changed nothing, and never
\* will if the program has since given it up.
THEOREM QueuedIsIdle == Spec => []QueuedHasNotActed
<1>1. AllTold => QueuedHasNotActed
  BY DEF AllTold, Told, Untouched, QueuedHasNotActed
<1>2. QED
  BY <1>1, InitTypes, InitTold, NextTypes, NextTold, PTL DEF Spec

-----------------------------------------------------------------------------
(* Rollback: what the tables and the calls say of each other.              *)

\* Sets, calls and rows name only sets that have begun, and a set that began knows what had
\* been made by then.
BooksOfSets ==
    /\ Len(base) = Len(sets)
    /\ \A c \in DOMAIN sets : base[c].acted \subseteq acted
    /\ \A s \in Sessions : active[s] \in DOMAIN sets \cup {None}
    /\ \A o \in Ops : call[o].set \in DOMAIN sets \cup {None}
    /\ \A i \in DOMAIN changes : changes[i].set \in DOMAIN sets \cup {None}

IsUndoing(r) == rollback[r].at \notin {"idle", "ended"}

\* A rollback undoes rows of its own set, and no two that are expected to be exact undo the
\* same set.
BooksOfRollbacks ==
    /\ \A r \in Rollbacks : IsUndoing(r) => /\ rollback[r].set \in DOMAIN sets
                                            /\ rollback[r].todo \subseteq RowsOf(rollback[r].set)
    /\ \A r, q \in Rollbacks :
          /\ IsUndoing(r) /\ IsUndoing(q) /\ rollback[r].set = rollback[q].set
          /\ rollback[r].set \notin disturbed
          => r = q

\* A set begins after the others and leaves them as they are.
LEMMA BeginRemembers ==
    ASSUME TypeOK, Len(base) = Len(sets), NEW s \in Sessions, Begin(s)
    PROVE  /\ DOMAIN sets' = DOMAIN sets \cup {Len(sets) + 1}
           /\ Len(sets) + 1 \in DOMAIN sets' /\ Len(sets) + 1 \notin DOMAIN sets
           /\ Len(sets') = Len(base')
           /\ \A c \in DOMAIN sets : base'[c] = base[c]
           /\ base'[Len(sets) + 1] = [disk |-> disk, acted |-> acted]
           /\ \A t \in Sessions : active'[t] = IF t = s THEN Len(sets) + 1 ELSE active[t]
<1> DEFINE new == [state |-> "OPEN", session |-> s]
           start == [disk |-> disk, acted |-> acted]
<1>1. /\ sets' = Append(sets, new) /\ base' = Append(base, start)
      /\ active' = [active EXCEPT ![s] = Len(sets) + 1]
  BY DEF Begin
<1>2. sets \in Seq(SetRecord) /\ new \in SetRecord
  BY DEF TypeOK, SetRecord
<1>3. base \in Seq([disk : [Paths -> Files], acted : SUBSET Acted])
      /\ start \in [disk : [Paths -> Files], acted : SUBSET Acted]
  BY DEF TypeOK
<1> HIDE DEF new, start
<1>4. /\ Len(sets') = Len(sets) + 1 /\ Len(base') = Len(base) + 1 /\ Len(sets) \in Nat
      /\ DOMAIN sets = 1 .. Len(sets) /\ DOMAIN sets' = 1 .. Len(sets')
  BY <1>1, <1>2, <1>3
<1>5. (\A c \in DOMAIN sets : base'[c] = base[c]) /\ base'[Len(sets) + 1] = start
  BY <1>1, <1>3, <1>4
<1>6. QED
  BY <1>1, <1>4, <1>5 DEF TypeOK, start

\* So does going on with the set that is active.
LEMMA ActiveRemembers ==
    ASSUME TypeOK, BooksOfSets, NEW s \in Sessions, ActiveOrBegin(s)
    PROVE  /\ DOMAIN sets \subseteq DOMAIN sets' /\ Len(sets') = Len(base')
           /\ \A c \in DOMAIN sets : base'[c] = base[c]
           /\ \A c \in DOMAIN sets' \ DOMAIN sets : base'[c] = [disk |-> disk, acted |-> acted]
           /\ \A t \in Sessions : active'[t] \in DOMAIN sets' \cup {None}
           /\ SetOf(s) \in DOMAIN sets'
<1> USE DEF BooksOfSets
<1>1. CASE active[s] # None
  BY <1>1 DEF ActiveOrBegin, SetOf
<1>2. CASE active[s] = None
  BY <1>2, BeginRemembers DEF ActiveOrBegin, SetOf
<1>3. QED
  BY <1>1, <1>2

\* A set that changes its state is the same set.
LEMMA StateRemembers ==
    ASSUME TypeOK, NEW c, NEW state, sets' = [sets EXCEPT ![c].state = state]
    PROVE  DOMAIN sets' = DOMAIN sets /\ Len(sets') = Len(sets)
<1>1. sets \in Seq(SetRecord)
  BY DEF TypeOK, SetRecord
<1>2. QED
  BY <1>1

\* Which sets there are.
LEMMA SetsStep ==
    ASSUME Types, BooksOfSets, [Next]_vars
    PROVE  /\ DOMAIN sets \subseteq DOMAIN sets' /\ Len(sets') = Len(base')
           /\ \A c \in DOMAIN sets : base'[c] = base[c]
           /\ \A c \in DOMAIN sets' \ DOMAIN sets :
                 base'[c] = [disk |-> disk, acted |-> acted] /\ disk' = disk /\ acted' = acted
           /\ \A t \in Sessions : active'[t] \in DOMAIN sets' \cup {None}
<1> DEFINE Goal == /\ DOMAIN sets \subseteq DOMAIN sets' /\ Len(sets') = Len(base')
                   /\ \A c \in DOMAIN sets : base'[c] = base[c]
                   /\ \A c \in DOMAIN sets' \ DOMAIN sets :
                         base'[c] = [disk |-> disk, acted |-> acted] /\ disk' = disk /\ acted' = acted
                   /\ \A t \in Sessions : active'[t] \in DOMAIN sets' \cup {None}
<1>0. TypeOK /\ \A o \in Ops : Running(o) => call[o].req.session \in Sessions
  BY DEF Types, HasRequest, Requests
<1>1. CASE UNCHANGED <<sets, active, base>>
  BY <1>1 DEF BooksOfSets
<1>2. ASSUME NEW s \in Sessions, ActiveOrBegin(s), disk' = disk, acted' = acted PROVE Goal
  BY <1>0, <1>2, ActiveRemembers
<1>3. ASSUME NEW s \in Sessions, ChangeBegin(s) PROVE Goal
  BY <1>0, <1>3, BeginRemembers DEF ChangeBegin, BooksOfSets
<1>4. ASSUME NEW c, NEW state, sets' = [sets EXCEPT ![c].state = state], UNCHANGED <<active, base>>
      PROVE  Goal
  BY <1>0, <1>4, StateRemembers DEF BooksOfSets
<1>5. CASE Restart
  BY <1>5 DEF Restart, BooksOfSets
<1>6. ASSUME NEW o \in Ops, Start(o) PROVE Goal
  <2>1. PICK req \in Inputs[o] : \/ StartRead(o, req) \/ StartSnapshot(o, req)
                                 \/ StartCreate(o, req) \/ StartCommand(o, req)
    BY <1>6 DEF Start
  <2>2. req.session \in Sessions /\ disk' = disk /\ acted' = acted
    BY <1>6, InputAssumption DEF Requests, Start
  <2>3. QED
    BY <1>1, <1>2, <2>1, <2>2 DEF StartRead, StartSnapshot, StartCreate, StartCommand
<1>7. ASSUME NEW o \in Ops, Preparing(o) PROVE Goal
  <2>1. call[o].req.session \in Sessions /\ disk' = disk /\ acted' = acted
    BY <1>0, <1>7 DEF Running, Preparing, WriteReads, DownloadStats, Snapshot, PreparingFails
  <2>2. ActiveOrBegin(call[o].req.session) \/ UNCHANGED <<sets, active, base>>
    BY <1>7 DEF Preparing, WriteReads, DownloadStats, Snapshot, PreparingFails, changeVars
  <2>3. QED
    BY <1>1, <1>2, <2>1, <2>2
<1>8. ASSUME NEW o \in Ops, Executing(o) PROVE Goal
  <2>1. CASE DownloadEnds(o)
    <3>1. call[o].req.session \in Sessions /\ disk' = disk /\ acted' = acted
      BY <1>0, <2>1 DEF Running, DownloadEnds, Answered
    <3>2. ActiveOrBegin(call[o].req.session) \/ UNCHANGED <<sets, active, base>>
      BY <2>1 DEF DownloadEnds
    <3>3. QED
      BY <1>1, <1>2, <3>1, <3>2
  <2>2. QED
    BY <1>1, <1>8, <2>1 DEF Executing, Record, CommandEnds, CallFails, changeVars
<1>9. ASSUME NEW o \in Ops,
             Acquire(o) \/ CommandThrows(o) \/ Succeed(o) \/ WorkerActs(o) \/ WorkerFails(o)
      PROVE  Goal
  BY <1>1, <1>9 DEF Acquire, CommandThrows, Succeed, WorkerActs, WorkerFails, changeVars
<1>10. ASSUME NEW r \in Rollbacks, RollbackEnds(r) PROVE Goal
  BY <1>1, <1>4, <1>10 DEF RollbackEnds
<1>11. ASSUME NEW r \in Rollbacks, NEW i, RollingBack(r, i) PROVE Goal
  BY <1>1, <1>11 DEF RollingBack, DeletesTarget, Checks, Undoes, changeVars
<1>12. ASSUME NEW r \in Rollbacks, NEW c, NEW force, NEW skip, RollbackStarts(r, c, force, skip)
       PROVE  Goal
  BY <1>1, <1>12 DEF RollbackStarts, changeVars
<1>13. ASSUME NEW c, Commit(c) PROVE Goal
  BY <1>4, <1>13 DEF Commit
<1>14. QED
  BY <1>1, <1>3, <1>5, <1>6, <1>7, <1>8, <1>9, <1>10, <1>11, <1>12, <1>13 DEF Next, vars, changeVars

CallSteps(o) == \/ Start(o) \/ Preparing(o) \/ Acquire(o) \/ CommandThrows(o) \/ Executing(o) \/ Succeed(o)
                \/ WorkerActs(o) \/ WorkerFails(o)

\* What the books say of one call.
BooksOfCall(o) ==
    /\ task[o] # None /\ call[o].at = "executing"
       => task[o].req = call[o].req /\ task[o].set = call[o].set
    /\ task[o] # None /\ ~task[o].done => \A set : <<o, set>> \notin acted
    /\ \A set \in SetIds : <<o, set>> \in acted /\ call[o].at = "executing" => call[o].set = set
    /\ call[o].at = "reading" \/ call[o].req.kind = "command" => call[o].set = None

LEMMA NotActed ==
    ASSUME TypeOK, NEW o \in Ops, Untouched(o) PROVE \A set : <<o, set>> \notin acted
BY DEF TypeOK, Acted, Untouched

LEMMA OwnBooks ==
    ASSUME Types, NEW o \in Ops, Told(o), BooksOfCall(o), CallSteps(o) PROVE BooksOfCall(o)'
<1> USE DEF BooksOfCall
<1>0. /\ call \in [Ops -> Calls] /\ call[o] \in Calls /\ task \in [Ops -> Tasks \cup {None}]
      /\ call[o].at \in {"idle", "reading", "preparing", "waiting"} => Untouched(o)
      /\ TypeOK
  BY DEF Types, TypeOK, Told
<1>a. Untouched(o) => \A set : <<o, set>> \notin acted
  BY <1>0, NotActed
<1>b. ASSUME call' = [call EXCEPT ![o] = Ended], acted' = acted,
             task'[o] = task[o] \/ task'[o] = None
      PROVE  BooksOfCall(o)'
  <2>1. call'[o].at = "ended" /\ call'[o].set = None
    BY <1>0, <1>b DEF Ended, NoCall
  <2>2. QED
    BY <1>b, <2>1
<1>1. CASE Start(o)
  <2>1. PICK req \in Inputs[o] : \/ StartRead(o, req) \/ StartSnapshot(o, req)
                                 \/ StartCreate(o, req) \/ StartCommand(o, req)
    BY <1>1 DEF Start
  <2>2. UNCHANGED <<task, acted>> /\ Untouched(o) /\ task[o] = None
    BY <1>0, <1>1 DEF Start, Untouched
  <2>3. CASE StartRead(o, req)
    <3>1. call'[o].set = None /\ call'[o].at = "reading"
      BY <1>0, <2>3 DEF StartRead, NoCall
    <3>2. QED
      BY <2>2, <3>1
  <2>4. CASE StartSnapshot(o, req)
    <3>1. call'[o].at = "preparing" /\ call'[o].req = req /\ req.kind # "command"
      BY <1>0, <2>4 DEF StartSnapshot, NoCall
    <3>2. QED
      BY <2>2, <3>1
  <2>5. CASE StartCreate(o, req)
    <3>1. call'[o].at = "waiting" /\ call'[o].req = req /\ req.kind # "command"
      BY <1>0, <2>5 DEF StartCreate, NoCall
    <3>2. QED
      BY <2>2, <3>1
  <2>6. CASE StartCommand(o, req)
    <3>1. call'[o].set = None /\ call'[o].at = "waiting"
      BY <1>0, <2>6 DEF StartCommand, NoCall
    <3>2. QED
      BY <2>2, <3>1
  <2>7. QED
    BY <2>1, <2>3, <2>4, <2>5, <2>6
\* A request is sent.
<1>2. ASSUME NEW content, NEW set, Send(o, content, set), set = call[o].set, Untouched(o),
             acted' = acted, call'[o].req = call[o].req, call'[o].set = call[o].set,
             call'[o].at = "executing"
      PROVE  BooksOfCall(o)'
  <2>1. task'[o].req = call[o].req /\ task'[o].set = call[o].set /\ task'[o].done = FALSE
    BY <1>0, <1>2 DEF Send
  <2>2. QED
    BY <1>a, <1>2, <2>1
<1>3. CASE WriteReads(o)
  <2>1. call'[o].at = "preparing" /\ call'[o].req = call[o].req /\ call[o].req.kind = "write"
    BY <1>0, <1>3 DEF WriteReads, Prepares
  <2>2. QED
    BY <1>3, <2>1 DEF WriteReads
<1>4. CASE DownloadStats(o)
  <2>1. CASE Prepares(o, {o}) /\ UNCHANGED task
    <3>1. call'[o].at = "preparing" /\ call'[o].req = call[o].req /\ call[o].req.kind = "download"
      BY <1>0, <1>4, <2>1 DEF DownloadStats, Prepares
    <3>2. QED
      BY <1>4, <2>1, <3>1 DEF DownloadStats
  <2>2. CASE /\ Send(o, {o}, None)
             /\ call' = [call EXCEPT ![o].at = "executing", ![o].content = {o}]
    <3>1. /\ call'[o].at = "executing" /\ call'[o].req = call[o].req /\ call'[o].set = call[o].set
          /\ call[o].set = None /\ Untouched(o) /\ acted' = acted
      BY <1>0, <1>4, <2>2 DEF DownloadStats, Calls
    <3>2. QED
      BY <1>2, <2>2, <3>1
  <2>3. QED
    BY <1>4, <2>1, <2>2 DEF DownloadStats
<1>5. CASE Snapshot(o)
  <2>1. Untouched(o) /\ acted' = acted
    BY <1>0, <1>5 DEF Snapshot
  <2>2. CASE call[o].req.kind = "download"
    <3>1. /\ Send(o, call[o].content, call[o].set)
          /\ call'[o].at = "executing" /\ call'[o].req = call[o].req /\ call'[o].set = call[o].set
      BY <1>0, <1>5, <2>2 DEF Snapshot, Calls
    <3>2. QED
      BY <1>2, <2>1, <3>1
  <2>3. CASE call[o].req.kind # "download"
    <3>1. /\ call'[o].at = "waiting" /\ call'[o].req = call[o].req /\ call'[o].set = call[o].set
          /\ task' = task
      BY <1>0, <1>5, <2>3 DEF Snapshot, Calls
    <3>2. QED
      BY <2>1, <3>1
  <2>4. QED
    BY <2>2, <2>3
<1>6. CASE PreparingFails(o)
  BY <1>b, <1>6 DEF PreparingFails
<1>7. CASE Acquire(o)
  <2>1. /\ Untouched(o) /\ acted' = acted /\ Send(o, call[o].content, call[o].set)
        /\ call'[o].at = "executing" /\ call'[o].req = call[o].req /\ call'[o].set = call[o].set
    BY <1>0, <1>7 DEF Acquire, Calls
  <2>2. QED
    BY <1>2, <2>1
<1>8. CASE Record(o)
  <2>1. /\ call'[o].at = "recorded" /\ call'[o].req = call[o].req /\ call'[o].set = call[o].set
        /\ task'[o] = None
    BY <1>0, <1>8 DEF Record, Answered, Calls
  <2>2. QED
    BY <2>1
<1>9. CASE CommandEnds(o) \/ DownloadEnds(o) \/ CallFails(o) \/ Succeed(o)
  <2>1. /\ call' = [call EXCEPT ![o] = Ended] /\ acted' = acted
        /\ task'[o] = task[o] \/ task'[o] = None
    BY <1>0, <1>9 DEF CommandEnds, DownloadEnds, CallFails, Failed, Succeed, Answered
  <2>2. QED
    BY <1>b, <2>1
<1>10. CASE WorkerFails(o)
  <2>1. task'[o] = None /\ acted' = acted
    BY <1>0, <1>10 DEF WorkerFails
  <2>2. CASE call[o].at = "executing"
    BY <1>b, <1>10, <2>1, <2>2 DEF WorkerFails, Failed
  <2>3. CASE call[o].at # "executing"
    BY <1>10, <2>1, <2>3 DEF WorkerFails
  <2>4. QED
    BY <2>2, <2>3
<1>11. CASE WorkerActs(o)
  <2>1. /\ call' = call /\ task[o] # None /\ acted' = acted \cup {<<o, task[o].set>>}
        /\ task' = [task EXCEPT ![o].done = TRUE]
    BY <1>11 DEF WorkerActs
  <2>2. task'[o].req = task[o].req /\ task'[o].set = task[o].set /\ task'[o].done = TRUE
    BY <1>0, <2>1 DEF Tasks
  <2>3. QED
    BY <2>1, <2>2
<1>12. CASE CommandThrows(o)
  BY <1>12, Abandons DEF CommandThrows
<1>13. QED
  BY <1>1, <1>3, <1>4, <1>5, <1>6, <1>7, <1>8, <1>9, <1>10, <1>11, <1>12
     DEF CallSteps, Preparing, Executing

\* Rows are added by calls that end, and a call that has one does nothing any more.
RowsAreOver == \A i \in DOMAIN changes : /\ task[changes[i].op] = None
                                         /\ call[changes[i].op].at \in {"recorded", "ended"}

\* The row a call adds.
RowOf(o, set) ==
    LET req == call[o].req IN
    [set |-> set, op |-> o, path |-> req.path, to |-> req.to,
     kind |-> IF req.kind # "download" THEN req.kind
              ELSE IF call[o].snap # None THEN "write" ELSE "create",
     after |-> Hash(task[o]), snap |-> call[o].snap]

LEMMA RowAdded ==
    ASSUME TypeOK, NEW o \in Ops, NEW set, Recorded(o, set)
    PROVE  /\ DOMAIN changes' = DOMAIN changes \cup {Len(changes) + 1}
           /\ \A i \in DOMAIN changes : changes'[i] = changes[i] /\ i < Len(changes) + 1
           /\ changes'[Len(changes) + 1] = RowOf(o, set)
           /\ DOMAIN changes \subseteq Nat /\ Len(changes) + 1 \in Nat
<1>1. changes' = Append(changes, RowOf(o, set))
  BY DEF Recorded, RowOf
<1>2. changes \in Seq(Changes)
  BY DEF TypeOK
<1>3. QED
  BY <1>1, <1>2

\* Either no row is added, or one of a call that was answered.
LEMMA ChangesStep ==
    ASSUME Types, NEW o \in Ops, CallSteps(o), BooksOfCall(o)
    PROVE  \/ UNCHANGED changes
           \/ /\ Record(o) \/ DownloadEnds(o)
              /\ task[o] # None /\ task[o].done /\ call[o].at = "executing" /\ task'[o] = None
              /\ UNCHANGED <<disk, acted, disturbed, rollback>>
              /\ \E set : /\ Recorded(o, set)
                          /\ IF call[o].set # None THEN set = call[o].set
                             ELSE set = None \/ /\ set = SetOf(call[o].req.session)
                                                /\ ActiveOrBegin(call[o].req.session)
<1>1. CASE Record(o) \/ DownloadEnds(o)
  <2>1. /\ task[o] # None /\ call[o].at = "executing" /\ task' = [task EXCEPT ![o] = None]
        /\ UNCHANGED <<disk, acted, disturbed, rollback>>
    BY <1>1 DEF Record, DownloadEnds, Answered
  <2>2. task[o].done
    BY <1>1, <2>1 DEF Record, DownloadEnds, Answered, Journaled, BooksOfCall
  <2>3. task'[o] = None
    BY <2>1 DEF Types, TypeOK
  <2>4. \E set : /\ Recorded(o, set)
                 /\ IF call[o].set # None THEN set = call[o].set
                    ELSE set = None \/ /\ set = SetOf(call[o].req.session)
                                       /\ ActiveOrBegin(call[o].req.session)
    BY <1>1 DEF Record, DownloadEnds
  <2>5. QED
    BY <1>1, <2>1, <2>2, <2>3, <2>4
<1>2. QED
  BY <1>1 DEF CallSteps, Start, Preparing, WriteReads, DownloadStats, Snapshot, PreparingFails,
     Acquire, CommandThrows, Executing, CommandEnds, CallFails, Succeed, WorkerActs, WorkerFails, changeVars

Books == /\ \A o \in Ops : BooksOfCall(o)
         /\ RowsAreOver /\ BooksOfSets /\ BooksOfRollbacks

\* A step is one of a call, or leaves the calls and what they have done alone.
LEMMA StepOfACall ==
    ASSUME Types, [Next]_vars
    PROVE  \/ \E o \in Ops : CallSteps(o)
           \/ Restart
           \/ UNCHANGED <<call, row, task, changes, acted>>
BY AsideOfCalls DEF Next, vars, callVars, changeVars, Types, CallSteps

LEMMA OthersStayed ==
    ASSUME Types, NEW o \in Ops, NEW c \in Ops \ {o}, CallSteps(o)
    PROVE  /\ call'[c] = call[c] /\ row'[c] = row[c] /\ task'[c] = task[c]
           /\ \A set : <<c, set>> \in acted' => <<c, set>> \in acted
BY OthersStay DEF CallSteps

\* Every step keeps the books.
LEMMA NextBooksOfCall ==
    ASSUME Types, AllTold, Books, [Next]_vars, NEW c \in Ops PROVE BooksOfCall(c)'
<1>0. BooksOfCall(c)
  BY DEF Books
<1>1. CASE UNCHANGED <<call, row, task, changes, acted>>
  BY <1>0, <1>1 DEF BooksOfCall
<1>2. CASE Restart
  <2>1. call'[c] = NoCall \/ call'[c] = Ended
    BY <1>2 DEF Restart
  <2>2. call'[c].at \in {"idle", "ended"} /\ call'[c].set = None
    BY <2>1 DEF NoCall, Ended
  <2>3. QED
    BY <1>0, <1>2, <2>2 DEF BooksOfCall, Restart
<1>3. ASSUME NEW o \in Ops, CallSteps(o) PROVE BooksOfCall(c)'
  <2>1. CASE c = o
    BY <1>0, <1>3, <2>1, OwnBooks DEF AllTold
  <2>2. CASE c # o
    BY <1>0, <1>3, <2>2, OthersStayed DEF BooksOfCall
  <2>3. QED
    BY <2>1, <2>2
<1>4. QED
  BY <1>1, <1>2, <1>3, StepOfACall

LEMMA RowType ==
    ASSUME TypeOK, NEW i \in DOMAIN changes
    PROVE  /\ changes[i] \in Changes /\ changes[i].op \in Ops /\ changes[i].path \in Paths
           /\ i \in Nat
<1>1. changes \in Seq(Changes)
  BY DEF TypeOK
<1>2. changes[i] \in Changes /\ i \in Nat
  BY <1>1
<1>3. QED
  BY <1>2 DEF Changes

LEMMA NextRowsAreOver ==
    ASSUME Types, AllTold, Books, [Next]_vars PROVE RowsAreOver'
<1> USE DEF RowsAreOver
<1>0. RowsAreOver /\ \A o \in Ops : BooksOfCall(o)
  BY DEF Books
<1>1. CASE UNCHANGED <<call, row, task, changes, acted>>
  BY <1>0, <1>1
<1>2. CASE Restart
  <2>1. \A o \in Ops : call[o].at # "idle" => call'[o].at = "ended"
    BY <1>2, EndedType DEF Restart
  <2>2. \A i \in DOMAIN changes : changes[i].op \in Ops
    BY RowType DEF Types
  <2>3. QED
    BY <1>0, <1>2, <2>1, <2>2 DEF Restart
<1>3. ASSUME NEW o \in Ops, CallSteps(o) PROVE RowsAreOver'
  \* A call that is over takes no step but its last.
  <2>1. ASSUME NEW x \in Ops, task[x] = None, call[x].at \in {"recorded", "ended"}
        PROVE  task'[x] = None /\ call'[x].at \in {"recorded", "ended"}
    <3>1. CASE x # o
      BY <1>3, <2>1, <3>1, OthersStayed
    <3>2. CASE x = o
      <4>1. Succeed(o)
        BY <1>3, <2>1, <3>2 DEF CallSteps, Start, Preparing, WriteReads, DownloadStats, Snapshot,
           PreparingFails, Acquire, CommandThrows, Executing, Record, CommandEnds, DownloadEnds, CallFails, Answered,
           WorkerActs, WorkerFails
      <4>2. call'[o].at = "ended" /\ task' = task
        BY <4>1, EndedType DEF Succeed, Types, TypeOK
      <4>3. QED
        BY <2>1, <3>2, <4>2
    <3>3. QED
      BY <3>1, <3>2
  <2>2. \A i \in DOMAIN changes : changes[i].op \in Ops
    BY RowType DEF Types
  <2>3. CASE UNCHANGED changes
    BY <1>0, <2>1, <2>2, <2>3
  <2>4. ASSUME NEW set, Recorded(o, set), Record(o) \/ DownloadEnds(o) PROVE RowsAreOver'
    <3>1. task'[o] = None /\ call'[o].at \in {"recorded", "ended"}
      BY <2>4, EndedType DEF Record, DownloadEnds, Answered, Types, TypeOK, Calls
    <3>2. RowOf(o, set).op = o
      BY DEF RowOf
    <3>3. QED
      BY <1>0, <2>1, <2>2, <2>4, <3>1, <3>2, RowAdded DEF Types
  <2>5. QED
    BY <1>0, <1>3, <2>3, <2>4, ChangesStep
<1>4. QED
  BY <1>1, <1>2, <1>3, StepOfACall

\* A call is for a set there is.
LEMMA CallSetStep ==
    ASSUME Types, BooksOfSets, NEW o \in Ops, CallSteps(o)
    PROVE  \/ call'[o].set \in {call[o].set, None}
           \/ \E s \in Sessions : ActiveOrBegin(s) /\ call'[o].set = SetOf(s)
<1>0. /\ call \in [Ops -> Calls] /\ call[o] \in Calls
      /\ Running(o) => call[o].req.session \in Sessions
  BY DEF Types, TypeOK, HasRequest, Requests
<1>1. CASE Start(o)
  <2>1. PICK req \in Inputs[o] : \/ StartRead(o, req) \/ StartSnapshot(o, req)
                                 \/ StartCreate(o, req) \/ StartCommand(o, req)
    BY <1>1 DEF Start
  <2>2. req.session \in Sessions
    BY InputAssumption DEF Requests
  <2>3. CASE StartRead(o, req) \/ StartCommand(o, req)
    BY <1>0, <2>3 DEF StartRead, StartCommand, NoCall
  <2>4. CASE StartSnapshot(o, req) \/ StartCreate(o, req)
    BY <1>0, <2>2, <2>4 DEF StartSnapshot, StartCreate, NoCall
  <2>5. QED
    BY <2>1, <2>3, <2>4
<1>2. CASE Preparing(o)
  <2>1. ASSUME NEW content, Prepares(o, content), ActiveOrBegin(call[o].req.session), Running(o)
        PROVE  \E s \in Sessions : ActiveOrBegin(s) /\ call'[o].set = SetOf(s)
    BY <1>0, <2>1 DEF Prepares
  <2>2. CASE WriteReads(o)
    BY <2>1, <2>2 DEF WriteReads, Running
  <2>3. CASE DownloadStats(o)
    <3>1. CASE Prepares(o, {o}) /\ ActiveOrBegin(call[o].req.session)
      BY <2>1, <2>3, <3>1 DEF DownloadStats, Running
    <3>2. CASE call' = [call EXCEPT ![o].at = "executing", ![o].content = {o}]
      BY <1>0, <3>2 DEF Calls
    <3>3. QED
      BY <2>3, <3>1, <3>2 DEF DownloadStats
  <2>4. CASE Snapshot(o)
    <3>1. \/ call' = [call EXCEPT ![o].at = "executing", ![o].snap = disk[call[o].req.path]]
          \/ call' = [call EXCEPT ![o].at = "waiting", ![o].snap = disk[call[o].req.path]]
      BY <2>4 DEF Snapshot
    <3>2. QED
      BY <1>0, <3>1 DEF Calls
  <2>5. CASE PreparingFails(o)
    BY <1>0, <2>5 DEF PreparingFails, Ended, NoCall
  <2>6. QED
    BY <1>2, <2>2, <2>3, <2>4, <2>5 DEF Preparing
<1>3. CASE Acquire(o) \/ CommandThrows(o) \/ Record(o)
  <2>1. \/ call' = [call EXCEPT ![o].at = "executing"]
        \/ call' = [call EXCEPT ![o].at = "abandoned"]
        \/ call' = [call EXCEPT ![o].at = "recorded"]
    BY <1>3 DEF Acquire, CommandThrows, Record
  <2>2. QED
    BY <1>0, <2>1 DEF Calls
<1>4. CASE WorkerActs(o) \/ (WorkerFails(o) /\ call[o].at # "executing")
  BY <1>4 DEF WorkerActs, WorkerFails
<1>5. CASE \/ CommandEnds(o) \/ DownloadEnds(o) \/ CallFails(o) \/ Succeed(o)
           \/ (WorkerFails(o) /\ call[o].at = "executing")
  <2>1. call' = [call EXCEPT ![o] = Ended]
    BY <1>5 DEF CommandEnds, DownloadEnds, CallFails, Failed, Succeed, WorkerFails
  <2>2. QED
    BY <1>0, <2>1 DEF Ended, NoCall
<1>6. QED
  BY <1>1, <1>2, <1>3, <1>4, <1>5 DEF CallSteps, Executing

LEMMA NextBooksOfSets ==
    ASSUME Types, AllTold, Books, [Next]_vars PROVE BooksOfSets'
<1> USE DEF Books
<1>1. /\ DOMAIN sets \subseteq DOMAIN sets' /\ Len(sets') = Len(base')
      /\ \A c \in DOMAIN sets : base'[c] = base[c]
      /\ \A c \in DOMAIN sets' \ DOMAIN sets :
            base'[c] = [disk |-> disk, acted |-> acted] /\ disk' = disk /\ acted' = acted
      /\ \A t \in Sessions : active'[t] \in DOMAIN sets' \cup {None}
  BY SetsStep
<1>2. acted \subseteq acted'
  BY DEF Next, vars, ChangeBegin, Commit, Start, Preparing, WriteReads, DownloadStats, Snapshot,
     PreparingFails, Acquire, CommandThrows, Executing, Record, CommandEnds, DownloadEnds, CallFails, Succeed,
     WorkerActs, WorkerFails, RollingBack, DeletesTarget, Checks, Undoes, RollbackEnds,
     RollbackStarts, Restart
<1>3. \A c \in DOMAIN sets' : base'[c].acted \subseteq acted'
  <2>1. ASSUME NEW c \in DOMAIN sets' \ DOMAIN sets PROVE base'[c].acted \subseteq acted'
    BY <1>1, <2>1
  <2>2. ASSUME NEW c \in DOMAIN sets PROVE base'[c].acted \subseteq acted'
    BY <1>1, <1>2, <2>2 DEF BooksOfSets
  <2>3. QED
    BY <2>1, <2>2
<1>4. ASSUME NEW o \in Ops, CallSteps(o), NEW s \in Sessions, ActiveOrBegin(s) PROVE SetOf(s) \in DOMAIN sets'
  BY <1>4, ActiveRemembers DEF Types
<1>5. ASSUME NEW x \in Ops PROVE call'[x].set \in DOMAIN sets' \cup {None}
  <2>1. call[x].set \in DOMAIN sets' \cup {None}
    BY <1>1 DEF BooksOfSets
  <2>2. CASE UNCHANGED call
    BY <2>1, <2>2
  <2>3. CASE Restart
    BY <2>3 DEF Restart, Ended, NoCall
  <2>4. ASSUME NEW o \in Ops, CallSteps(o) PROVE call'[x].set \in DOMAIN sets' \cup {None}
    <3>1. CASE x # o
      BY <2>1, <2>4, <3>1, OthersStayed
    <3>2. CASE x = o
      BY <1>4, <2>1, <2>4, <3>2, CallSetStep
    <3>3. QED
      BY <3>1, <3>2
  <2>5. QED
    BY <2>2, <2>3, <2>4, StepOfACall
<1>6. \A i \in DOMAIN changes' : changes'[i].set \in DOMAIN sets' \cup {None}
  <2>1. \A i \in DOMAIN changes : changes[i].set \in DOMAIN sets' \cup {None}
    BY <1>1 DEF BooksOfSets
  <2>2. CASE UNCHANGED changes
    BY <2>1, <2>2
  <2>3. ASSUME NEW o \in Ops, CallSteps(o), NEW set, Recorded(o, set),
               IF call[o].set # None THEN set = call[o].set
               ELSE set = None \/ /\ set = SetOf(call[o].req.session)
                                  /\ ActiveOrBegin(call[o].req.session),
               call[o].at = "executing"
        PROVE  \A i \in DOMAIN changes' : changes'[i].set \in DOMAIN sets' \cup {None}
    <3>1. call[o].req.session \in Sessions
      BY <2>3 DEF Types, HasRequest, Running, Requests
    <3>2. set \in DOMAIN sets' \cup {None}
      BY <1>1, <1>4, <2>3, <3>1 DEF BooksOfSets
    <3>3. RowOf(o, set).set = set
      BY DEF RowOf
    <3>4. QED
      BY <2>1, <2>3, <3>2, <3>3, RowAdded DEF Types
  <2>4. CASE Restart
    BY <2>2, <2>4 DEF Restart
  <2>5. ASSUME NEW o \in Ops, CallSteps(o), ~UNCHANGED changes
        PROVE  \A i \in DOMAIN changes' : changes'[i].set \in DOMAIN sets' \cup {None}
    BY <2>3, <2>5, ChangesStep
  <2>6. QED
    BY <2>2, <2>4, <2>5, StepOfACall
<1>7. QED
  BY <1>1, <1>3, <1>5, <1>6 DEF BooksOfSets

\* The rows of a set stay its rows.
LEMMA RowsOfStay ==
    ASSUME Grows, NEW c
    PROVE  /\ RowsOf(c) \subseteq RowsOf(c)'
           /\ \A i \in RowsOf(c)' : i \in RowsOf(c) \/ i \notin DOMAIN changes
BY DEF Grows, RowsOf

\* One rollback takes a step.
LEMMA OneRollback ==
    ASSUME Types, BooksOfRollbacks, Grows, DOMAIN sets \subseteq DOMAIN sets',
           disturbed \subseteq disturbed', NEW r \in Rollbacks, NEW v,
           rollback' = [rollback EXCEPT ![r] = v],
           v.at \notin {"idle", "ended"} =>
              /\ v.set \in DOMAIN sets /\ v.todo \subseteq RowsOf(v.set)
              /\ \/ v.set \in disturbed'
                 \/ \A q \in Rollbacks \ {r} : IsUndoing(q) => rollback[q].set # v.set
    PROVE  BooksOfRollbacks'
<1>1. /\ rollback'[r] = v
      /\ \A q \in Rollbacks \ {r} : rollback'[q] = rollback[q]
  BY DEF Types, TypeOK
<1>2. \A c : RowsOf(c) \subseteq RowsOf(c)'
  BY RowsOfStay
<1>3. ASSUME NEW q \in Rollbacks, IsUndoing(q)'
      PROVE  rollback'[q].set \in DOMAIN sets' /\ rollback'[q].todo \subseteq RowsOf(rollback[q].set)'
  <2>1. CASE q = r
    BY <1>1, <1>2, <1>3, <2>1 DEF IsUndoing
  <2>2. CASE q # r
    BY <1>1, <1>2, <1>3, <2>2 DEF IsUndoing, BooksOfRollbacks
  <2>3. QED
    BY <2>1, <2>2
<1>4. ASSUME NEW p \in Rollbacks, NEW q \in Rollbacks, IsUndoing(p)', IsUndoing(q)',
             rollback'[p].set = rollback'[q].set, rollback'[p].set \notin disturbed'
      PROVE  p = q
  <2>1. CASE p # r /\ q # r
    BY <1>1, <1>4, <2>1 DEF IsUndoing, BooksOfRollbacks
  <2>2. CASE p = r /\ q # r
    BY <1>1, <1>4, <2>2 DEF IsUndoing
  <2>3. CASE p # r /\ q = r
    BY <1>1, <1>4, <2>3 DEF IsUndoing
  <2>4. QED
    BY <2>1, <2>2, <2>3
<1>5. QED
  BY <1>3, <1>4 DEF BooksOfRollbacks

\* Steps with which no rollback begins or goes on.
LEMMA NoRollbackSteps ==
    ASSUME BooksOfRollbacks, Grows, DOMAIN sets \subseteq DOMAIN sets',
           disturbed \subseteq disturbed', rollback' = rollback
    PROVE  BooksOfRollbacks'
<1>1. \A c : RowsOf(c) \subseteq RowsOf(c)'
  BY RowsOfStay
<1>2. QED
  BY <1>1 DEF BooksOfRollbacks, IsUndoing

LEMMA Disturbs ==
    ASSUME [Next]_vars PROVE disturbed \subseteq disturbed'
BY DEF Next, vars, ChangeBegin, Commit, Start, Preparing, WriteReads, DownloadStats, Snapshot,
     PreparingFails, Acquire, CommandThrows, Executing, Record, CommandEnds, DownloadEnds, CallFails, Succeed,
     WorkerActs, WorkerFails, RollingBack, DeletesTarget, Checks, Undoes, Attempt, RollbackEnds,
     RollbackStarts, Restart

LEMMA NextGrows == ASSUME Types, [Next]_vars PROVE Grows
<1>1. CASE UNCHANGED changes
  BY <1>1 DEF Grows
<1>2. CASE Restart
  BY <1>1, <1>2 DEF Restart
<1>3. QED
  BY <1>1, <1>2, StepOfACall, CallStepGrows DEF CallSteps

LEMMA NextBooksOfRollbacks ==
    ASSUME Types, AllTold, Books, [Next]_vars PROVE BooksOfRollbacks'
<1>0. BooksOfRollbacks /\ BooksOfSets
  BY DEF Books
<1>1. Grows /\ DOMAIN sets \subseteq DOMAIN sets' /\ disturbed \subseteq disturbed'
  BY <1>0, SetsStep, NextGrows, Disturbs
<1>2. CASE rollback' = rollback
  BY <1>0, <1>1, <1>2, NoRollbackSteps
<1>3. CASE Restart
  <2>1. \A r \in Rollbacks : ~IsUndoing(r)'
    BY <1>3 DEF Restart, IsUndoing, NoRollback
  <2>2. QED
    BY <2>1 DEF BooksOfRollbacks
<1>4. ASSUME NEW r \in Rollbacks, RollbackEnds(r) PROVE BooksOfRollbacks'
  <2>1. [NoRollback EXCEPT !.at = "ended"].at = "ended"
    BY DEF NoRollback
  <2>2. rollback' = [rollback EXCEPT ![r] = [NoRollback EXCEPT !.at = "ended"]]
    BY <1>4 DEF RollbackEnds
  <2>3. QED
    BY <1>0, <1>1, <2>1, <2>2, OneRollback
<1>5. ASSUME NEW r \in Rollbacks, NEW i, RollingBack(r, i) PROVE BooksOfRollbacks'
  <2>1. rollback[r] \in RollbackCalls
    BY DEF Types, TypeOK
  <2>2. PICK v : /\ rollback' = [rollback EXCEPT ![r] = v] /\ v.set = rollback[r].set
                 /\ v.todo \subseteq rollback[r].todo
    <3>1. \/ rollback' = [rollback EXCEPT ![r].at = "checking"]
          \/ rollback' = [rollback EXCEPT ![r].at = "undoing"]
          \/ rollback' = [rollback EXCEPT ![r].at = "next", ![r].todo = @ \ {i}]
          \/ rollback' = [rollback EXCEPT ![r].at = "next", ![r].conflict = TRUE, ![r].todo = @ \ {i}]
      BY <1>5 DEF RollingBack, DeletesTarget, Checks, Undoes
    <3>2. rollback' = [rollback EXCEPT ![r] = rollback'[r]]
      BY <3>1 DEF Types, TypeOK
    <3>3. rollback'[r].set = rollback[r].set /\ rollback'[r].todo \subseteq rollback[r].todo
      BY <2>1, <3>1 DEF Types, TypeOK, RollbackCalls
    <3>4. QED
      BY <3>2, <3>3
  <2>3. IsUndoing(r)
    BY <1>5 DEF RollingBack, DeletesTarget, Checks, Undoes, IsUndoing
  <2>4. /\ v.set \in DOMAIN sets /\ v.todo \subseteq RowsOf(v.set)
        /\ \/ v.set \in disturbed'
           \/ \A q \in Rollbacks \ {r} : IsUndoing(q) => rollback[q].set # v.set
    BY <1>0, <1>1, <2>2, <2>3 DEF BooksOfRollbacks
  <2>5. QED
    BY <1>0, <1>1, <2>2, <2>4, OneRollback
<1>6. ASSUME NEW r \in Rollbacks, NEW c \in DOMAIN sets, NEW force, NEW skip,
             RollbackStarts(r, c, force, skip)
      PROVE  BooksOfRollbacks'
  <2> DEFINE v == [at |-> "next", set |-> c, force |-> force, conflict |-> FALSE,
                   todo |-> {i \in RowsOf(c) : changes[i].path \notin skip}]
  <2>1. rollback' = [rollback EXCEPT ![r] = v]
    BY <1>6 DEF RollbackStarts
  <2>2. \/ c \in disturbed'
        \/ \A q \in Rollbacks \ {r} : IsUndoing(q) => rollback[q].set # c
    BY <1>6 DEF RollbackStarts, Undoing, IsUndoing
  <2>3. v.set = c /\ v.todo \subseteq RowsOf(v.set)
    OBVIOUS
  <2> HIDE DEF v
  <2>4. QED
    BY <1>0, <1>1, <2>1, <2>2, <2>3, OneRollback
<1>7. QED
  BY <1>2, <1>3, <1>4, <1>5, <1>6 DEF Next, vars, changeVars, ChangeBegin, Commit, Start, Preparing,
     WriteReads, DownloadStats, Snapshot, PreparingFails, Acquire, CommandThrows, Executing, Record, CommandEnds,
     DownloadEnds, CallFails, Succeed, WorkerActs, WorkerFails

LEMMA InitBooks == Init => Books
<1> SUFFICES ASSUME Init PROVE Books
  OBVIOUS
<1>1. /\ DOMAIN sets = {} /\ DOMAIN changes = {} /\ Len(base) = Len(sets)
  BY DEF Init
<1>2. \A o \in Ops : call[o].at = "idle" /\ call[o].set = None /\ task[o] = None
  BY DEF Init, NoCall
<1>3. \A r \in Rollbacks : ~IsUndoing(r)
  BY DEF Init, NoRollback, IsUndoing
<1>4. BooksOfSets
  BY <1>1, <1>2 DEF Init, BooksOfSets
<1>5. \A o \in Ops : BooksOfCall(o)
  BY <1>2 DEF Init, BooksOfCall
<1>6. QED
  BY <1>1, <1>3, <1>4, <1>5 DEF Books, RowsAreOver, BooksOfRollbacks

LEMMA NextBooks == Types /\ AllTold /\ Books /\ [Next]_vars => Books'
BY NextBooksOfCall, NextRowsAreOver, NextBooksOfSets, NextBooksOfRollbacks DEF Books

-----------------------------------------------------------------------------
(* Exclusion: the locks that are held are those of the calls that wait for  *)
(* the worker, and what the worker does for such a call is what it asks.    *)

\* Two calls that wait for the worker never conflict.  Two tasks that conflict may be at the
\* worker together, but one at most has a caller who waits; the others were given up.
THEOREM Exclusion == Spec => []CallsExclude
<1>1. Init => LocksOfCalls
  BY DEF Init, NoneHeld, LocksOfCalls, Locked, NoCall
<1>2. Books /\ LocksOfCalls => CallsExclude
  <2> SUFFICES ASSUME Books, LocksOfCalls, NEW a \in Ops, NEW b \in Ops, a # b
               PROVE  /\ {call[a].at, call[b].at} \subseteq {"executing", "recorded"}
                         => Excluded(a, call[a].req, b, call[b].req)
                      /\ None \notin {task[a], task[b]} /\ {call[a].at, call[b].at} = {"executing"}
                         => Excluded(a, task[a].req, b, task[b].req)
    BY DEF CallsExclude
  <2>1. ASSUME call[a].at \in {"executing", "recorded"}, call[b].at \in {"executing", "recorded"}
        PROVE  Excluded(a, call[a].req, b, call[b].req)
    <3>1. CASE Locked(a) /\ Locked(b)
      <4>1. LockRequest(a) \in held /\ LockRequest(b) \in held
        BY <3>1 DEF LocksOfCalls
      <4>2. LockRequest(a).op = a /\ LockRequest(b).op = b
        BY DEF LockRequest, LockOf
      <4>3. QED
        BY <4>1, <4>2 DEF LocksOfCalls, LockRequest, Excluded
    <3>2. CASE ~(Locked(a) /\ Locked(b))
      BY <2>1, <3>2 DEF Locked, Excluded
    <3>3. QED
      BY <3>1, <3>2
  <2>2. ASSUME NEW o \in Ops, task[o] # None, call[o].at = "executing"
        PROVE  task[o].req = call[o].req
    BY <2>2 DEF Books, BooksOfCall
  <2>3. QED
    BY <2>1, <2>2
<1>3. QED
  BY <1>1, <1>2, InitTypes, InitTold, InitBooks, NextTypes, NextTold, NextBooks, NextKeepsLocks,
     PTL DEF Spec

-----------------------------------------------------------------------------
(* What the rows of a set know of the disk when the set began.             *)

\* What a mutation touches, and what undoing it leaves there.
Touches(x, q)   == q = x.path \/ (x.kind = "move" /\ q = x.to)
GivesBack(x, q) == IF q = x.path /\ x.kind # "create" THEN x.snap ELSE None

\* The mutation of a call, as its row will say it.
Mutation(o) ==
    [path |-> call[o].req.path, to |-> call[o].req.to, snap |-> call[o].snap,
     kind |-> IF call[o].req.kind # "download" THEN call[o].req.kind
              ELSE IF call[o].snap # None THEN "write" ELSE "create"]

\* What was made since a set began, what was made for it, and what of that has no row yet.
Since(c)   == acted \ base[c].acted
MadeFor(c) == {o \in Ops : <<o, c>> \in Since(c)}
Pending(c) == MadeFor(c) \ OpsOf(c)

\* A call that is about to record what it has made.
Live(o) == task[o] # None /\ task[o].done /\ call[o].at = "executing"

\* Nothing was made since the set began but what it has recorded or is about to.
Accountable(c) ==
    /\ Since(c) \subseteq Ops \X {c}
    /\ OpsOf(c) \subseteq MadeFor(c)
    /\ \A o \in Pending(c) : Live(o)

Rowed(c, q) == \E i \in RowsOf(c) : Touches(changes[i], q)
Fresh(c, q) == ~Rowed(c, q) /\ \A o \in Pending(c) : ~Touches(Mutation(o), q)

First(i, rows, q) == Touches(changes[i], q) /\ \A j \in rows : j < i => ~Touches(changes[j], q)

AwaitsWorker(o) == call[o].at \in {"waiting", "executing"} /\ call[o].req.kind \in {"write", "delete", "move", "download"}

OnePending(c)  == \A a, b \in Pending(c) : a = b
FreshIsBase(c) == \A q \in Paths : Fresh(c, q) => disk[q] = base[c].disk[q]
RowsKnow(c)    == \A i \in RowsOf(c), q \in Paths :
                     First(i, RowsOf(c), q) => GivesBack(changes[i], q) = base[c].disk[q]
PendingKnows(c) == \A o \in Pending(c), q \in Paths :
                     Touches(Mutation(o), q) /\ ~Rowed(c, q) => GivesBack(Mutation(o), q) = base[c].disk[q]
CopiesKnow(c) == \A o \in Ops :
                     /\ call[o].set = c /\ AwaitsWorker(o) /\ o \notin MadeFor(c)
                     /\ Fresh(c, call[o].req.path)
                     => call[o].snap = base[c].disk[call[o].req.path]

Knows(c) == OnePending(c) /\ FreshIsBase(c) /\ RowsKnow(c) /\ PendingKnows(c) /\ CopiesKnow(c)

SetsKnow == \A c \in DOMAIN sets : c \notin disturbed /\ Accountable(c) => Knows(c)

\* What a rollback has still to undo.
Undoable(r) ==
    LET c == rollback[r].set  todo == rollback[r].todo IN
    IsUndoing(r) /\ ~rollback[r].conflict /\ c \notin disturbed =>
       /\ \A i \in todo, q \in Paths :
             First(i, todo, q) => GivesBack(changes[i], q) = base[c].disk[q]
       /\ \A q \in Paths : (\A i \in todo : ~Touches(changes[i], q)) => disk[q] = base[c].disk[q]
       /\ rollback[r].at # "next" =>
             \A i \in todo : IsNext(r, i) /\ changes[i].kind = "move"
                => changes[i].to = changes[i].path \/ disk[changes[i].to] = None

History == SetsKnow /\ \A r \in Rollbacks : Undoable(r)

-----------------------------------------------------------------------------
\* Steps that leave the disk, what was made and the rows of a set alone.
SameRows(c) == /\ RowsOf(c)' = RowsOf(c)
               /\ \A i \in RowsOf(c) : changes'[i] = changes[i]

LEMMA SameRowsSame ==
    ASSUME NEW c, SameRows(c), NEW q
    PROVE  /\ OpsOf(c)' = OpsOf(c)
           /\ Rowed(c, q)' <=> Rowed(c, q)
           /\ \A i \in RowsOf(c) : First(i, RowsOf(c), q)' <=> First(i, RowsOf(c), q)
<1>1. RowsOf(c)' = RowsOf(c) /\ \A i \in RowsOf(c) : changes'[i] = changes[i]
  BY DEF SameRows
<1>2. OpsOf(c)' = OpsOf(c)
  BY <1>1 DEF OpsOf
<1>3. \A i \in RowsOf(c) : Touches(changes[i], q)' <=> Touches(changes[i], q)
  BY <1>1 DEF Touches
<1>4. Rowed(c, q)' <=> Rowed(c, q)
  BY <1>1, <1>3 DEF Rowed
<1>5. \A i \in RowsOf(c) : First(i, RowsOf(c), q)' <=> First(i, RowsOf(c), q)
  BY <1>1, <1>3 DEF First
<1>6. QED
  BY <1>2, <1>4, <1>5

LEMMA RowsKnowStays ==
    ASSUME NEW c, SameRows(c), base'[c] = base[c], RowsKnow(c) PROVE RowsKnow(c)'
<1>1. RowsOf(c)' = RowsOf(c) /\ \A i \in RowsOf(c) : changes'[i] = changes[i]
  BY DEF SameRows
<1>2. ASSUME NEW i \in RowsOf(c), NEW q \in Paths, First(i, RowsOf(c), q)'
      PROVE  GivesBack(changes[i], q)' = base'[c].disk[q]
  <2>1. First(i, RowsOf(c), q)
    BY <1>2, SameRowsSame
  <2>2. GivesBack(changes[i], q)' = GivesBack(changes[i], q)
    BY <1>1 DEF GivesBack
  <2>3. QED
    BY <2>1, <2>2 DEF RowsKnow
<1>3. QED
  BY <1>1, <1>2 DEF RowsKnow

\* Steps that leave the disk alone too.
LEMMA QuietKnows ==
    ASSUME Types, NEW c, SameRows(c), base'[c] = base[c], UNCHANGED <<disk, acted>>,
           \A o \in Pending(c) : Mutation(o)' = Mutation(o),
           \A o \in Ops : call'[o].set = c /\ AwaitsWorker(o)' =>
               /\ call[o].set = c /\ call'[o].req = call[o].req /\ call[o].req \in Requests
               /\ \/ AwaitsWorker(o) /\ call'[o].snap = call[o].snap
                  \/ call'[o].snap = disk[call[o].req.path],
           Knows(c)
    PROVE  Knows(c)'
<1>1. Since(c)' = Since(c) /\ MadeFor(c)' = MadeFor(c) /\ Pending(c)' = Pending(c)
  BY SameRowsSame DEF Since, MadeFor, Pending
<1>2. \A q : Rowed(c, q)' <=> Rowed(c, q)
  BY SameRowsSame
<1>3. \A o \in Pending(c) : \A q : /\ Touches(Mutation(o), q)' <=> Touches(Mutation(o), q)
                                   /\ GivesBack(Mutation(o), q)' = GivesBack(Mutation(o), q)
  BY DEF Touches, GivesBack
<1>4. \A q : Fresh(c, q)' <=> Fresh(c, q)
  BY <1>1, <1>2, <1>3 DEF Fresh
<1>5. OnePending(c)' /\ FreshIsBase(c)' /\ RowsKnow(c)' /\ PendingKnows(c)'
  <2>1. OnePending(c)' /\ FreshIsBase(c)'
    BY <1>1, <1>4 DEF Knows, OnePending, FreshIsBase
  <2>2. PendingKnows(c)'
    BY <1>1, <1>2, <1>3 DEF Knows, PendingKnows
  <2>3. QED
    BY <2>1, <2>2, RowsKnowStays DEF Knows
<1>6. CopiesKnow(c)'
  <2>1. ASSUME NEW o \in Ops, call'[o].set = c, AwaitsWorker(o)', o \notin MadeFor(c),
               Fresh(c, call'[o].req.path)
        PROVE  call'[o].snap = base[c].disk[call'[o].req.path]
    <3>1. /\ call[o].set = c /\ call'[o].req = call[o].req
          /\ call[o].req.path \in Paths
      BY <2>1 DEF Requests
    <3>2. disk[call[o].req.path] = base[c].disk[call[o].req.path]
      BY <2>1, <3>1 DEF Knows, FreshIsBase
    <3>3. CASE AwaitsWorker(o) /\ call'[o].snap = call[o].snap
      BY <2>1, <3>1, <3>3 DEF Knows, CopiesKnow
    <3>4. QED
      BY <2>1, <3>1, <3>2, <3>3
  <2>2. \A q : Fresh(c, q)' <=> Fresh(c, q)
    BY <1>4
  <2>3. QED
    BY <1>1, <2>1, <2>2 DEF CopiesKnow
<1>7. QED
  BY <1>5, <1>6 DEF Knows

\* What was made stays made, and only the worker makes it.
LEMMA ActedStep ==
    ASSUME Types, [Next]_vars
    PROVE  /\ acted \subseteq acted'
           /\ \A x \in acted' \ acted : x[1] \in Ops /\ WorkerActs(x[1]) /\ x = <<x[1], task[x[1]].set>>
<1>1. ASSUME NEW o \in Ops, WorkerActs(o)
      PROVE  /\ acted \subseteq acted'
             /\ \A x \in acted' \ acted : x[1] \in Ops /\ WorkerActs(x[1]) /\ x = <<x[1], task[x[1]].set>>
  <2>1. acted' = acted \cup {<<o, task[o].set>>}
    BY <1>1 DEF WorkerActs
  <2>2. \A x \in acted' \ acted : x = <<o, task[o].set>> /\ x[1] = o
    BY <2>1
  <2>3. QED
    BY <1>1, <2>1, <2>2
<1>2. \/ acted' = acted
      \/ \E o \in Ops : WorkerActs(o)
  BY DEF Next, vars, ChangeBegin, Commit, Start, Preparing, WriteReads, DownloadStats, Snapshot,
     PreparingFails, Acquire, CommandThrows, Executing, Record, CommandEnds, DownloadEnds, CallFails, Succeed,
     WorkerFails, RollingBack, DeletesTarget, Checks, Undoes, RollbackEnds,
     RollbackStarts, Restart
<1>3. QED
  BY <1>1, <1>2

\* What a step of a call makes of a call that executes.
LEMMA LiveStep ==
    ASSUME Types, NEW o \in Ops, CallSteps(o), Live(o)'
    PROVE  WorkerActs(o) /\ task[o] # None /\ ~task[o].done /\ call[o].at = "executing"
<1>0. /\ call \in [Ops -> Calls] /\ call[o] \in Calls /\ task \in [Ops -> Tasks \cup {None}]
      /\ call'[o].at = "executing" /\ task'[o] # None /\ task'[o].done
  BY DEF Types, TypeOK, Live
<1>1. ASSUME call' = [call EXCEPT ![o] = Ended] PROVE FALSE
  BY <1>0, <1>1, EndedType
<1>2. ASSUME NEW content, NEW set, Send(o, content, set) PROVE FALSE
  BY <1>0, <1>2 DEF Send
<1>3. ASSUME task' = task, task[o] = None PROVE FALSE
  BY <1>0, <1>3
<1>4. ~Start(o)
  <2>1. SUFFICES ASSUME Start(o) PROVE FALSE
    OBVIOUS
  <2>2. PICK req \in Inputs[o] : \/ StartRead(o, req) \/ StartSnapshot(o, req)
                                 \/ StartCreate(o, req) \/ StartCommand(o, req)
    BY <2>1 DEF Start
  <2>3. call'[o].at # "executing"
    <3>0. call \in [Ops -> Calls]
      BY <1>0
    <3>1. StartRead(o, req) => call'[o].at = "reading"
      BY <3>0 DEF StartRead, NoCall
    <3>2. StartCommand(o, req) => call'[o].at = "waiting"
      BY <3>0 DEF StartCommand, NoCall
    <3>3. StartSnapshot(o, req) => call'[o].at = "preparing"
      BY <3>0 DEF StartSnapshot, NoCall
    <3>4. StartCreate(o, req) => call'[o].at = "waiting"
      BY <3>0 DEF StartCreate, NoCall
    <3>5. QED
      BY <2>2, <3>1, <3>2, <3>3, <3>4
  <2>4. QED
    BY <1>0, <2>3
<1>5. ~Preparing(o)
  <2>1. ~WriteReads(o)
    <3>1. SUFFICES ASSUME NEW content, Prepares(o, content) PROVE FALSE
      BY DEF WriteReads
    <3>2. call'[o].at = "preparing"
      BY <1>0, <3>1 DEF Prepares
    <3>3. QED
      BY <1>0, <3>2
  <2>2. ~DownloadStats(o)
    <3>1. ~(DownloadStats(o) /\ Prepares(o, {o}))
      BY <1>0 DEF Prepares
    <3>2. QED
      BY <1>2, <3>1 DEF DownloadStats
  <2>3. ~Snapshot(o)
    <3>1. SUFFICES ASSUME Snapshot(o), call' = [call EXCEPT ![o].at = "waiting", ![o].snap = disk[call[o].req.path]]
                   PROVE  FALSE
      BY <1>2 DEF Snapshot
    <3>2. call'[o].at = "waiting"
      BY <1>0, <3>1 DEF Calls
    <3>3. QED
      BY <1>0, <3>2
  <2>4. ~PreparingFails(o)
    BY <1>1 DEF PreparingFails
  <2>5. QED
    BY <2>1, <2>2, <2>3, <2>4 DEF Preparing
<1>6. ~Acquire(o)
  BY <1>2 DEF Acquire
<1>7. ~Executing(o) /\ ~Succeed(o)
  <2>1. ~Record(o)
    BY <1>0 DEF Record, Calls
  <2>2. QED
    BY <1>1, <2>1 DEF Executing, CommandEnds, DownloadEnds, CallFails, Failed, Succeed
<1>8. ~WorkerFails(o)
  BY <1>0 DEF WorkerFails
<1>9. ~CommandThrows(o)
  BY <1>0, Abandons
<1>10. WorkerActs(o)
  BY <1>4, <1>5, <1>6, <1>7, <1>8, <1>9 DEF CallSteps
<1>11. QED
  BY <1>0, <1>10 DEF WorkerActs

\* A call becomes accountable to a set in no step but that in which the worker acts.
LEMMA LiveBefore ==
    ASSUME Types, Books, [Next]_vars, NEW o \in Ops, Live(o)', NEW set, <<o, set>> \in acted
    PROVE  Live(o) /\ call'[o] = call[o] /\ task'[o] = task[o]
<1>1. ~Restart
  BY EndedType DEF Restart, Live
<1>2. ASSUME NEW x \in Ops, CallSteps(x) PROVE Live(o) /\ call'[o] = call[o] /\ task'[o] = task[o]
  <2>1. CASE x # o
    BY <1>2, <2>1, OthersStayed DEF Live
  <2>2. CASE x = o
    BY <1>2, <2>2, LiveStep DEF Books, BooksOfCall
  <2>3. QED
    BY <2>1, <2>2
<1>3. QED
  BY <1>1, <1>2, StepOfACall DEF Live

\* A row is added to a set by a call that has made something and not recorded it.
LEMMA RowBefore ==
    ASSUME Types, Books, [Next]_vars, NEW c, NEW o \in OpsOf(c)', o \notin OpsOf(c)
    PROVE  o \in Ops /\ Live(o) /\ CallSteps(o)
<1>1. PICK i \in DOMAIN changes' : changes'[i].set = c /\ changes'[i].op = o
  BY DEF OpsOf, RowsOf
<1>2. i \notin DOMAIN changes
  BY <1>1, NextGrows DEF Grows, OpsOf, RowsOf
<1>3. ~UNCHANGED changes /\ ~Restart
  BY <1>1, <1>2 DEF Restart
<1>4. PICK x \in Ops : CallSteps(x)
  BY <1>3, StepOfACall
<1>5. /\ task[x] # None /\ task[x].done /\ call[x].at = "executing"
      /\ \E set : Recorded(x, set)
  BY <1>3, <1>4, ChangesStep DEF Books
<1>6. PICK set : Recorded(x, set)
  BY <1>5
<1>7. changes'[i] = RowOf(x, set)
  BY <1>1, <1>2, <1>6, RowAdded DEF Types
<1>8. x = o
  BY <1>1, <1>7 DEF RowOf
<1>9. QED
  BY <1>4, <1>5, <1>8 DEF Live

\* A set that is accountable after a step was so before.
LEMMA AccountableBefore ==
    ASSUME Types, Books, [Next]_vars, NEW c \in DOMAIN sets, Accountable(c)'
    PROVE  Accountable(c) /\ base'[c] = base[c]
<1>0. BooksOfSets /\ RowsAreOver
  BY DEF Books
<1>1. base'[c] = base[c] /\ Since(c) \subseteq Since(c)' /\ MadeFor(c) \subseteq MadeFor(c)'
  BY <1>0, SetsStep, ActedStep DEF Since, MadeFor
<1>2. OpsOf(c) \subseteq OpsOf(c)'
  BY NextGrows DEF OpsOf, RowsOf, Grows
<1>3. ASSUME NEW o \in OpsOf(c) PROVE o \in MadeFor(c)
  <2>1. o \in MadeFor(c)'
    BY <1>2, <1>3 DEF Accountable
  <2>2. o \in Ops /\ <<o, c>> \in acted' /\ <<o, c>> \notin base[c].acted
    BY <1>1, <2>1 DEF MadeFor, Since
  <2>3. task[o] = None
    <3>1. PICK i \in DOMAIN changes : changes[i].op = o
      BY <1>3 DEF OpsOf, RowsOf
    <3>2. QED
      BY <1>0, <3>1 DEF RowsAreOver
  <2>4. <<o, c>> \in acted
    <3>1. SUFFICES ASSUME <<o, c>> \notin acted PROVE FALSE
      OBVIOUS
    <3>2. WorkerActs(o)
      BY <2>2, <3>1, ActedStep
    <3>3. QED
      BY <2>3, <3>2 DEF WorkerActs
  <2>5. QED
    BY <2>2, <2>4 DEF MadeFor, Since
<1>4. ASSUME NEW o \in Pending(c) PROVE Live(o)
  <2>1. o \in Ops /\ <<o, c>> \in acted /\ o \in MadeFor(c)'
    BY <1>1, <1>4 DEF Pending, MadeFor, Since
  <2>2. CASE o \in OpsOf(c)'
    BY <1>4, <2>2, RowBefore DEF Pending
  <2>3. CASE o \notin OpsOf(c)'
    <3>1. Live(o)'
      BY <2>1, <2>3 DEF Accountable, Pending
    <3>2. QED
      BY <2>1, <3>1, LiveBefore
  <2>4. QED
    BY <2>2, <2>3
<1>5. QED
  BY <1>1, <1>3, <1>4 DEF Accountable

\* A call that awaits the worker for a set has the copy it had, or copies the file now.
LEMMA CopiesStep ==
    ASSUME Types, NEW o \in Ops, BooksOfCall(o), CallSteps(o), AwaitsWorker(o)', call'[o].set # None
    PROVE  /\ call[o].set = call'[o].set /\ call'[o].req = call[o].req /\ call[o].req \in Requests
           /\ \/ AwaitsWorker(o) /\ call'[o].snap = call[o].snap
              \/ call'[o].snap = disk[call[o].req.path]
<1> DEFINE Goal == /\ call[o].set = call'[o].set /\ call'[o].req = call[o].req
                   /\ call[o].req \in Requests
                   /\ \/ AwaitsWorker(o) /\ call'[o].snap = call[o].snap
                      \/ call'[o].snap = disk[call[o].req.path]
<1>0. call \in [Ops -> Calls] /\ call[o] \in Calls
  BY DEF Types, TypeOK
<1>b. Running(o) => call[o].req \in Requests
  BY DEF Types, HasRequest
<1>a. /\ call'[o].at \in {"waiting", "executing"} /\ call'[o].set # None
      /\ call'[o].req.kind \in {"write", "delete", "move", "download"}
  BY DEF AwaitsWorker
<1>c. ~(call' = [call EXCEPT ![o] = Ended])
  <2>1. SUFFICES ASSUME call' = [call EXCEPT ![o] = Ended] PROVE FALSE
    OBVIOUS
  <2>2. call'[o].at = "ended"
    BY <1>0, <2>1, EndedType
  <2>3. QED
    BY <1>a, <2>2
<1>1. ~Start(o)
  <2>1. SUFFICES ASSUME Start(o) PROVE FALSE
    OBVIOUS
  <2>2. PICK req \in Inputs[o] : \/ StartRead(o, req) \/ StartSnapshot(o, req)
                                 \/ StartCreate(o, req) \/ StartCommand(o, req)
    BY <2>1 DEF Start
  <2>3. StartRead(o, req) => call'[o].at = "reading"
    BY <1>0 DEF StartRead, NoCall
  <2>4. StartCommand(o, req) => call'[o].req.kind = "command"
    BY <1>0 DEF StartCommand, NoCall
  <2>5. StartSnapshot(o, req) => call'[o].at = "preparing"
    BY <1>0 DEF StartSnapshot, NoCall
  <2>6. StartCreate(o, req) => call'[o].req.kind = "create"
    BY <1>0 DEF StartCreate, NoCall
  <2>7. QED
    BY <1>a, <2>2, <2>3, <2>4, <2>5, <2>6
<1>2. ASSUME Preparing(o) PROVE Goal
  <2>1. ASSUME NEW content, Prepares(o, content) PROVE FALSE
    <3>1. call'[o].at = "preparing"
      BY <1>0, <2>1 DEF Prepares
    <3>2. QED
      BY <1>a, <3>1
  <2>3. CASE Snapshot(o)
    <3>1. \/ call' = [call EXCEPT ![o].at = "executing", ![o].snap = disk[call[o].req.path]]
          \/ call' = [call EXCEPT ![o].at = "waiting", ![o].snap = disk[call[o].req.path]]
      BY <2>3 DEF Snapshot
    <3>2. /\ call[o].set = call'[o].set /\ call'[o].req = call[o].req
          /\ call'[o].snap = disk[call[o].req.path]
      BY <1>0, <3>1 DEF Calls
    <3>3. Running(o)
      BY <2>3 DEF Snapshot, Running
    <3>4. QED
      BY <1>b, <3>2, <3>3
  <2>4. CASE DownloadStats(o)
    <3>1. call' = [call EXCEPT ![o].at = "executing", ![o].content = {o}] /\ call[o].at = "reading"
      BY <2>1, <2>4 DEF DownloadStats
    <3>2. call'[o].set = call[o].set
      BY <1>0, <3>1 DEF Calls
    <3>3. QED
      BY <1>a, <3>1, <3>2 DEF BooksOfCall
  <2>5. QED
    BY <1>2, <1>c, <2>1, <2>3, <2>4 DEF Preparing, WriteReads, PreparingFails
<1>3. ASSUME Acquire(o) PROVE Goal
  <2>1. call' = [call EXCEPT ![o].at = "executing"] /\ call[o].at = "waiting" /\ Running(o)
    BY <1>3 DEF Acquire, Running
  <2>2. call'[o].set = call[o].set /\ call'[o].req = call[o].req /\ call'[o].snap = call[o].snap
    BY <1>0, <2>1 DEF Calls
  <2>3. QED
    BY <1>a, <1>b, <2>1, <2>2 DEF AwaitsWorker
<1>4. ASSUME Executing(o) \/ Succeed(o) PROVE FALSE
  <2>1. ~Record(o)
    <3>1. SUFFICES ASSUME call' = [call EXCEPT ![o].at = "recorded"] PROVE FALSE
      BY DEF Record
    <3>2. call'[o].at = "recorded"
      BY <1>0, <3>1 DEF Calls
    <3>3. QED
      BY <1>a, <3>2
  <2>2. QED
    BY <1>4, <1>c, <2>1 DEF Executing, CommandEnds, DownloadEnds, CallFails, Failed, Succeed
<1>5. ASSUME WorkerActs(o) \/ WorkerFails(o) PROVE Goal
  <2>1. call' = call
    BY <1>5, <1>c DEF WorkerActs, WorkerFails, Failed
  <2>2. AwaitsWorker(o) /\ Running(o)
    BY <1>a, <2>1 DEF AwaitsWorker, Running
  <2>3. QED
    BY <1>b, <2>1, <2>2
<1>6. ~CommandThrows(o)
  BY <1>a, Abandons
<1>7. QED
  BY <1>1, <1>2, <1>3, <1>4, <1>5, <1>6 DEF CallSteps

\* The row says what the mutation was.
LEMMA RowIsMutation ==
    ASSUME NEW o, NEW set, NEW q
    PROVE  /\ Touches(RowOf(o, set), q) <=> Touches(Mutation(o), q)
           /\ GivesBack(RowOf(o, set), q) = GivesBack(Mutation(o), q)
BY DEF Touches, GivesBack, RowOf, Mutation

\* A call records what it has made for a set: what was pending now has a row.
LEMMA RecordKnows ==
    ASSUME Types, Books, NEW c \in DOMAIN sets, NEW o \in Ops, CallSteps(o), Recorded(o, c),
           task[o] # None, call'[o].at \notin {"waiting", "executing"},
           UNCHANGED <<disk, acted>>, base'[c] = base[c], Accountable(c)', Knows(c)
    PROVE  Knows(c)'
<1>0. PICK n : n = Len(changes) + 1
  OBVIOUS
<1>1. /\ RowsOf(c)' = RowsOf(c) \cup {n} /\ changes'[n] = RowOf(o, c) /\ n \notin RowsOf(c)
      /\ \A i \in RowsOf(c) : changes'[i] = changes[i] /\ i < n /\ i \in Nat
      /\ n \in Nat
  <2>1. /\ DOMAIN changes' = DOMAIN changes \cup {n}
        /\ \A i \in DOMAIN changes : changes'[i] = changes[i] /\ i < n
        /\ changes'[n] = RowOf(o, c) /\ DOMAIN changes \subseteq Nat /\ n \in Nat
    BY <1>0, RowAdded DEF Types
  <2>2. RowOf(o, c).set = c
    BY DEF RowOf
  <2>3. n \notin DOMAIN changes
    BY <2>1
  <2>4. QED
    BY <2>1, <2>2, <2>3 DEF RowsOf
<1>2. /\ Since(c)' = Since(c) /\ MadeFor(c)' = MadeFor(c)
      /\ OpsOf(c)' = OpsOf(c) \cup {o}
  <2>1. RowOf(o, c).op = o
    BY DEF RowOf
  <2>2. QED
    BY <1>1, <2>1 DEF Since, MadeFor, OpsOf
<1>3. o \in Pending(c) /\ Pending(c)' = {} /\ Pending(c) = {o}
  <2>1. o \in MadeFor(c)
    BY <1>2 DEF Accountable
  <2>2. o \notin OpsOf(c)
    BY DEF OpsOf, RowsOf, Books, RowsAreOver
  <2>3. o \in Pending(c)
    BY <2>1, <2>2 DEF Pending
  <2>4. Pending(c) = {o}
    BY <2>3 DEF Knows, OnePending
  <2>5. QED
    BY <1>2, <2>3, <2>4 DEF Pending
<1>4. \A i \in RowsOf(c), q \in Paths : Touches(changes[i], q)' <=> Touches(changes[i], q)
  BY <1>1 DEF Touches
<1>5. ASSUME NEW q
      PROVE  Touches(changes[n], q)' <=> Touches(Mutation(o), q)
  <2>1. Touches(changes'[n], q) <=> Touches(Mutation(o), q)
    BY <1>1, RowIsMutation
  <2>2. QED
    BY <2>1 DEF Touches
<1>6. \A q \in Paths : Rowed(c, q)' <=> Rowed(c, q) \/ Touches(Mutation(o), q)
  BY <1>1, <1>4, <1>5 DEF Rowed
<1>7. \A q \in Paths : Fresh(c, q)' <=> Fresh(c, q)
  BY <1>3, <1>6 DEF Fresh
<1>8. OnePending(c)' /\ FreshIsBase(c)' /\ PendingKnows(c)'
  BY <1>3, <1>7 DEF Knows, OnePending, FreshIsBase, PendingKnows
<1>9. RowsKnow(c)'
  <2>1. ASSUME NEW i \in RowsOf(c)', NEW q \in Paths, First(i, RowsOf(c), q)'
        PROVE  GivesBack(changes[i], q)' = base[c].disk[q]
    <3>1. CASE i = n
      <4>1. ~Rowed(c, q) /\ Touches(Mutation(o), q)
        BY <1>1, <1>4, <1>5, <2>1, <3>1 DEF First, Rowed
      <4>2. GivesBack(Mutation(o), q) = base[c].disk[q]
        BY <1>3, <4>1 DEF Knows, PendingKnows
      <4>3. GivesBack(changes'[n], q) = base[c].disk[q]
        BY <1>1, <4>2, RowIsMutation
      <4>4. QED
        BY <3>1, <4>3 DEF GivesBack
    <3>2. CASE i \in RowsOf(c)
      <4>1. First(i, RowsOf(c), q)
        BY <1>1, <1>4, <2>1, <3>2 DEF First
      <4>2. GivesBack(changes[i], q)' = GivesBack(changes[i], q)
        BY <1>1, <3>2 DEF GivesBack
      <4>3. QED
        BY <3>2, <4>1, <4>2 DEF Knows, RowsKnow
    <3>3. QED
      BY <1>1, <2>1, <3>1, <3>2
  <2>2. QED
    BY <2>1 DEF RowsKnow
<1>10. CopiesKnow(c)'
  <2>1. ASSUME NEW x \in Ops, call'[x].set = c, AwaitsWorker(x)', x \notin MadeFor(c)',
               Fresh(c, call[x].req.path)'
        PROVE  call'[x].snap = base[c].disk[call'[x].req.path]
    <3>1. x # o
      BY <2>1 DEF AwaitsWorker
    <3>2. call'[x] = call[x]
      BY <3>1, OthersStayed
    <3>3. call[x].req.path \in Paths
      BY <2>1, <3>2 DEF AwaitsWorker, Types, HasRequest, Running, Requests
    <3>4. PICK p \in Paths : p = call[x].req.path
      BY <3>3
    <3>5. Fresh(c, p)'
      BY <2>1, <3>2, <3>4 DEF Fresh, Rowed, Touches
    <3>8. Fresh(c, call[x].req.path)
      BY <1>7, <3>4, <3>5
    <3>6. AwaitsWorker(x)
      BY <2>1, <3>2 DEF AwaitsWorker
    <3>7. QED
      BY <1>2, <2>1, <3>2, <3>6, <3>8 DEF Knows, CopiesKnow
  <2>2. QED
    BY <2>1 DEF CopiesKnow
<1>11. QED
  BY <1>8, <1>9, <1>10 DEF Knows

\* What the worker makes of the files is the mutation of the call.
LEMMA EffectIsMutation ==
    ASSUME Types, NEW o \in Ops, task[o] # None, Effect(o, task[o]), task[o].req = call[o].req,
           call[o].req.kind # "command", ~Replaces(task[o])
    PROVE  /\ \A q \in Paths : ~Touches(Mutation(o), q) => disk'[q] = disk[q]
           /\ \A q \in Paths : /\ Touches(Mutation(o), q)
                               /\ call[o].req.kind = "create" \/ q # call[o].req.path
                               => disk[q] = None
<1> DEFINE req == call[o].req
<1>1. /\ task[o] \in Tasks /\ req \in Requests
  BY DEF Types, TypeOK, Tasks
<1>2. req.path \in Paths /\ req.to \in Paths /\ req.kind \in Kinds
  BY <1>1 DEF Requests
<1>3. \A q : Touches(Mutation(o), q) <=> q = req.path \/ (req.kind = "move" /\ q = req.to)
  BY DEF Touches, Mutation
<1>4. disk \in [Paths -> Files]
  BY DEF Types, TypeOK
<1>5. /\ Effect(o, task[o]) /\ task[o].req = req /\ req.kind # "command"
      /\ req.kind = "move" => disk[req.to] = None
  BY DEF Replaces
<1> HIDE DEF req
<1>6. \A q \in Paths : q # req.path /\ ~(req.kind = "move" /\ q = req.to) => disk'[q] = disk[q]
  BY <1>2, <1>4, <1>5 DEF Effect
<1>7. req.kind = "create" => disk[req.path] = None
  BY <1>5 DEF Effect
<1>8. QED
  BY <1>3, <1>5, <1>6, <1>7 DEF req

\* The worker acts for a set: its mutation is what is pending.
LEMMA ActsKnow ==
    ASSUME Types, Books, NEW c \in DOMAIN sets, NEW o \in Ops, WorkerActs(o), c \notin disturbed',
           base'[c] = base[c], Accountable(c), Accountable(c)', Knows(c)
    PROVE  Knows(c)'
<1> DEFINE req == call[o].req
<1>1. /\ task[o] # None /\ ~task[o].done /\ Effect(o, task[o])
      /\ acted' = acted \cup {<<o, task[o].set>>}
      /\ UNCHANGED <<call, row, held, changeVars, rollback>>
      /\ disturbed' = disturbed \cup Undoing \cup
            (IF Replaces(task[o]) \/ Crowded(o) THEN DOMAIN sets ELSE {})
  BY DEF WorkerActs
<1>2. ~Replaces(task[o]) /\ ~Crowded(o)
  BY <1>1
<1>3. /\ \A set : <<o, set>> \notin acted
      /\ base[c].acted \subseteq acted
  BY <1>1 DEF Books, BooksOfCall, BooksOfSets
<1>4. Since(c)' = Since(c) \cup {<<o, task[o].set>>}
  BY <1>1, <1>3 DEF Since
<1>5. /\ task[o].set = c /\ MadeFor(c)' = MadeFor(c) \cup {o} /\ o \notin MadeFor(c)
  <2>1. task[o].set = c
    <3>1. <<o, task[o].set>> \in Ops \X {c}
      BY <1>4 DEF Accountable
    <3>2. QED
      BY <3>1
  <2>2. QED
    BY <1>3, <1>4, <2>1 DEF MadeFor, Since
<1>6. OpsOf(c)' = OpsOf(c) /\ o \notin OpsOf(c)
  <2>1. OpsOf(c)' = OpsOf(c)
    BY <1>1 DEF changeVars, OpsOf, RowsOf
  <2>2. QED
    BY <1>5, <2>1 DEF Accountable
<1>7. Pending(c) = {} /\ Pending(c)' = {o}
  <2>1. ASSUME NEW x \in Pending(c) PROVE FALSE
    <3>1. x # o /\ x \in Ops
      BY <1>5, <2>1 DEF Pending, MadeFor
    <3>2. task[x] # None
      BY <2>1 DEF Accountable, Live
    <3>3. QED
      BY <1>2, <3>1, <3>2 DEF Crowded
  <2>2. QED
    BY <1>5, <1>6, <2>1 DEF Pending
<1>8. /\ task[o].req = req /\ call[o].set = c /\ req.kind # "command"
      /\ call[o].at = "executing" /\ c # None /\ req.path \in Paths
      /\ req.kind \in {"write", "create", "delete", "move", "download"}
  <2>1. Live(o)'
    BY <1>7 DEF Accountable
  <2>2. call[o].at = "executing"
    BY <1>1, <2>1 DEF Live
  <2>3. task[o].req = req /\ call[o].set = c
    BY <1>1, <1>5, <2>2 DEF Books, BooksOfCall
  <2>4. c # None
    BY NoneAssumption DEF Types, TypeOK
  <2>5. req \in Requests
    BY <2>2 DEF Types, HasRequest, Running
  <2>6. req.kind # "command"
    BY <2>3, <2>4 DEF Books, BooksOfCall
  <2>7. QED
    BY <2>2, <2>3, <2>4, <2>5, <2>6 DEF Requests, Kinds
<1> HIDE DEF req
<1>9. /\ \A q \in Paths : ~Touches(Mutation(o), q) => disk'[q] = disk[q]
      /\ \A q \in Paths : Touches(Mutation(o), q) /\ (req.kind = "create" \/ q # req.path)
                          => disk[q] = None
  BY <1>1, <1>2, <1>8, EffectIsMutation DEF req
<1>10. /\ \A x, q : Touches(Mutation(x), q)' <=> Touches(Mutation(x), q)
       /\ \A x, q : GivesBack(Mutation(x), q)' = GivesBack(Mutation(x), q)
  BY <1>1 DEF Touches, Mutation, GivesBack, changeVars
<1>11. SameRows(c)
  BY <1>1 DEF changeVars, SameRows, RowsOf
<1>12. \A q : Rowed(c, q)' <=> Rowed(c, q)
  BY <1>11, SameRowsSame
<1>13. \A q : /\ Fresh(c, q) <=> ~Rowed(c, q)
              /\ Fresh(c, q)' <=> ~Rowed(c, q) /\ ~Touches(Mutation(o), q)
  BY <1>7, <1>10, <1>12 DEF Fresh
<1>14. OnePending(c)' /\ FreshIsBase(c)'
  BY <1>7, <1>9, <1>13 DEF OnePending, FreshIsBase, Knows
<1>15. RowsKnow(c)'
  BY <1>11, RowsKnowStays DEF Knows
<1>16. ASSUME NEW q \in Paths, Touches(Mutation(o), q), ~Rowed(c, q)
       PROVE  GivesBack(Mutation(o), q) = base[c].disk[q]
  <2>1. disk[q] = base[c].disk[q]
    BY <1>13, <1>16 DEF Knows, FreshIsBase
  <2>2. CASE req.kind = "create" \/ q # req.path
    <3>1. base[c].disk[q] = None
      BY <1>9, <1>16, <2>1, <2>2
    <3>2. GivesBack(Mutation(o), q) = None
      BY <1>8, <2>2 DEF GivesBack, Mutation, req
    <3>3. QED
      BY <3>1, <3>2
  <2>3. CASE req.kind # "create" /\ q = req.path
    <3>1. AwaitsWorker(o)
      BY <1>8, <2>3 DEF AwaitsWorker, req
    <3>2. call[o].snap = base[c].disk[q]
      BY <1>5, <1>8, <1>13, <1>16, <2>3, <3>1 DEF Knows, CopiesKnow, req
    <3>3. GivesBack(Mutation(o), q) = call[o].snap
      BY <2>3 DEF GivesBack, Mutation, req
    <3>4. QED
      BY <3>2, <3>3
  <2>4. QED
    BY <2>2, <2>3
<1>17. PendingKnows(c)'
  BY <1>7, <1>10, <1>12, <1>16 DEF PendingKnows
<1>18. CopiesKnow(c)'
  BY <1>1, <1>5, <1>13 DEF CopiesKnow, AwaitsWorker, Knows
<1>19. QED
  BY <1>14, <1>15, <1>17, <1>18 DEF Knows

\* A rollback changes a file that a row of its set has touched.
LEMMA UndoKnows ==
    ASSUME Types, NEW c, NEW path, NEW file, Rowed(c, path), disk' = [disk EXCEPT ![path] = file],
           UNCHANGED <<call, task, changes, acted>>, base'[c] = base[c], Knows(c)
    PROVE  Knows(c)'
<1>1. SameRows(c)
  BY DEF SameRows, RowsOf
<1>2. Since(c)' = Since(c) /\ MadeFor(c)' = MadeFor(c) /\ Pending(c)' = Pending(c)
  BY <1>1, SameRowsSame DEF Since, MadeFor, Pending
<1>3. \A q : Rowed(c, q)' <=> Rowed(c, q)
  BY <1>1, SameRowsSame
<1>4. \A x, q : /\ Touches(Mutation(x), q)' <=> Touches(Mutation(x), q)
                /\ GivesBack(Mutation(x), q)' = GivesBack(Mutation(x), q)
  BY DEF Touches, Mutation, GivesBack
<1>5. \A q : Fresh(c, q)' <=> Fresh(c, q)
  BY <1>2, <1>3, <1>4 DEF Fresh
<1>6. \A q \in Paths : Fresh(c, q) => disk'[q] = disk[q]
  BY DEF Fresh, Types, TypeOK
<1>7. OnePending(c)' /\ FreshIsBase(c)' /\ RowsKnow(c)' /\ PendingKnows(c)'
  <2>1. OnePending(c)' /\ FreshIsBase(c)'
    BY <1>2, <1>5, <1>6 DEF Knows, OnePending, FreshIsBase
  <2>2. PendingKnows(c)'
    BY <1>2, <1>3, <1>4 DEF Knows, PendingKnows
  <2>3. QED
    BY <1>1, <2>1, <2>2, RowsKnowStays DEF Knows
<1>8. CopiesKnow(c)'
  BY <1>2, <1>5 DEF CopiesKnow, AwaitsWorker, Knows
<1>9. QED
  BY <1>7, <1>8 DEF Knows

\* A step that leaves the disk, what was made and the rows of the set alone.
LEMMA QuietStep ==
    ASSUME Types, Books, [Next]_vars, NEW c \in DOMAIN sets, Accountable(c)', SameRows(c),
           UNCHANGED <<disk, acted>>, base'[c] = base[c], Knows(c)
    PROVE  Knows(c)'
<1>1. \A x \in Pending(c) : Mutation(x)' = Mutation(x)
  <2>1. SUFFICES ASSUME NEW x \in Pending(c) PROVE Mutation(x)' = Mutation(x)
    OBVIOUS
  <2>2. x \in Pending(c)' /\ <<x, c>> \in acted /\ x \in Ops
    BY SameRowsSame DEF Pending, MadeFor, Since
  <2>3. Live(x)'
    BY <2>2 DEF Accountable
  <2>4. call'[x] = call[x]
    BY <2>2, <2>3, LiveBefore
  <2>5. QED
    BY <2>4 DEF Mutation
<1>2. ASSUME NEW x \in Ops, call'[x].set = c, AwaitsWorker(x)'
      PROVE  /\ call[x].set = c /\ call'[x].req = call[x].req /\ call[x].req \in Requests
             /\ \/ AwaitsWorker(x) /\ call'[x].snap = call[x].snap
                \/ call'[x].snap = disk[call[x].req.path]
  <2>1. c # None
    BY NoneAssumption DEF Types, TypeOK
  <2>2. ASSUME call'[x] = call[x] 
        PROVE  /\ call[x].set = c /\ call'[x].req = call[x].req /\ call[x].req \in Requests
               /\ AwaitsWorker(x) /\ call'[x].snap = call[x].snap
    <3>1. AwaitsWorker(x)
      BY <1>2, <2>2 DEF AwaitsWorker
    <3>2. call[x].req \in Requests
      BY <3>1 DEF AwaitsWorker, Types, HasRequest, Running
    <3>3. QED
      BY <1>2, <2>2, <3>1, <3>2
  <2>3. ~Restart
    BY <1>2, EndedType DEF Restart, AwaitsWorker
  <2>4. ASSUME NEW o \in Ops, CallSteps(o), x # o PROVE call'[x] = call[x]
    BY <2>4, OthersStayed
  <2>5. ASSUME CallSteps(x)
        PROVE  /\ call[x].set = call'[x].set /\ call'[x].req = call[x].req /\ call[x].req \in Requests
               /\ \/ AwaitsWorker(x) /\ call'[x].snap = call[x].snap
                  \/ call'[x].snap = disk[call[x].req.path]
    BY <1>2, <2>1, <2>5, CopiesStep DEF Books
  <2>6. CASE \E o \in Ops : CallSteps(o)
    BY <1>2, <2>2, <2>4, <2>5, <2>6
  <2>7. QED
    BY <2>2, <2>3, <2>6, StepOfACall
<1>3. QED
  BY <1>1, <1>2, QuietKnows

\* A set that begins.
LEMMA NewSetKnows ==
    ASSUME Types, Books, [Next]_vars, NEW c \in DOMAIN sets', c \notin DOMAIN sets, Accountable(c)'
    PROVE  Knows(c)'
<1>1. base'[c] = [disk |-> disk, acted |-> acted] /\ disk' = disk /\ acted' = acted
  BY SetsStep DEF Books
<1>2. Since(c)' = {} /\ MadeFor(c)' = {} /\ Pending(c)' = {}
  BY <1>1 DEF Since, MadeFor, Pending
<1>3. RowsOf(c)' = {}
  BY <1>2 DEF Accountable, OpsOf
<1>4. c # None
  <2>1. TypeOK'
    BY NextTypes DEF Types
  <2>2. QED
    BY <2>1, NoneAssumption DEF TypeOK
<1>5. ASSUME NEW x \in Ops, call'[x].set = c, AwaitsWorker(x)' PROVE FALSE
  <2>1. call[x].set # c
    BY <1>4 DEF Books, BooksOfSets
  <2>2. ~Restart
    BY <1>5, EndedType DEF Restart, AwaitsWorker
  <2>3. ASSUME NEW o \in Ops, CallSteps(o) PROVE FALSE
    <3>1. x = o
      BY <1>5, <2>1, <2>3, OthersStayed
    <3>2. QED
      BY <1>4, <1>5, <2>1, <2>3, <3>1, CopiesStep DEF Books
  <2>4. QED
    BY <1>5, <2>1, <2>2, <2>3, StepOfACall
<1>6. QED
  BY <1>1, <1>2, <1>3, <1>5 DEF Knows, OnePending, FreshIsBase, RowsKnow, PendingKnows, CopiesKnow

\* Either the disk, what was made and the rows stay, or the worker acts, a call records, or a
\* rollback changes a file.
RollbackChanges(r, i) ==
    /\ DeletesTarget(r, i) \/ Undoes(r, i)
    /\ disturbed' = disturbed \cup (DOMAIN sets \ {rollback[r].set})
    /\ \E path \in {changes[i].path, changes[i].to} : \E file :
          /\ disk' = [disk EXCEPT ![path] = file] /\ Touches(changes[i], path)

LEMMA DiskStep ==
    ASSUME Types, Books, [Next]_vars
    PROVE  \/ UNCHANGED <<disk, acted, changes>>
           \/ \E o \in Ops : WorkerActs(o)
           \/ \E o \in Ops : (Record(o) \/ DownloadEnds(o)) /\ UNCHANGED <<disk, acted>>
           \/ \E r \in Rollbacks : \E i \in rollback[r].todo : RollbackChanges(r, i)
<1>1. ASSUME NEW r \in Rollbacks, NEW i \in rollback[r].todo, RollingBack(r, i)
      PROVE  UNCHANGED <<disk, acted, changes>> \/ RollbackChanges(r, i)
  <2>1. UNCHANGED <<acted, changes>>
    BY <1>1 DEF RollingBack, DeletesTarget, Checks, Undoes, changeVars
  <2>2. CASE Checks(r, i)
    BY <2>1, <2>2 DEF Checks
  <2>3. CASE DeletesTarget(r, i)
    BY <2>1, <2>3 DEF DeletesTarget, Attempt, RollbackChanges, Touches
  <2>4. CASE Undoes(r, i)
    BY <2>1, <2>4 DEF Undoes, Attempt, RollbackChanges, Touches
  <2>5. QED
    BY <1>1, <2>2, <2>3, <2>4 DEF RollingBack
<1>2. ASSUME NEW o \in Ops, CallSteps(o), ~WorkerActs(o)
      PROVE  \/ UNCHANGED <<disk, acted, changes>>
             \/ (Record(o) \/ DownloadEnds(o)) /\ UNCHANGED <<disk, acted>>
  BY <1>2 DEF CallSteps, Start, Preparing, WriteReads, DownloadStats, Snapshot, PreparingFails,
     Acquire, CommandThrows, Executing, Record, DownloadEnds, CommandEnds, CallFails, Succeed, WorkerFails, changeVars
<1>3. QED
  BY <1>1, <1>2 DEF Next, vars, changeVars, ChangeBegin, Commit, RollbackEnds, RollbackStarts, Restart,
     CallSteps

\* Every step keeps what the sets know, and what the rollbacks have to undo.
LEMMA NextSetsKnow ==
    ASSUME Types, Books, SetsKnow, [Next]_vars PROVE SetsKnow'
<1> SUFFICES ASSUME NEW c \in DOMAIN sets', c \notin disturbed', Accountable(c)' PROVE Knows(c)'
  BY DEF SetsKnow
<1>1. CASE c \notin DOMAIN sets
  BY <1>1, NewSetKnows
<1>2. CASE c \in DOMAIN sets
  <2>1. Accountable(c) /\ base'[c] = base[c] /\ c \notin disturbed
    BY <1>2, AccountableBefore, Disturbs
  <2>2. Knows(c)
    BY <1>2, <2>1 DEF SetsKnow
  <2>3. CASE UNCHANGED <<disk, acted, changes>>
    <3>1. SameRows(c)
      BY <2>3 DEF SameRows, RowsOf
    <3>2. QED
      BY <1>2, <2>1, <2>2, <2>3, <3>1, QuietStep
  <2>4. ASSUME NEW o \in Ops, WorkerActs(o) PROVE Knows(c)'
    BY <1>2, <2>1, <2>2, <2>4, ActsKnow
  <2>5. ASSUME NEW o \in Ops, Record(o) \/ DownloadEnds(o), UNCHANGED <<disk, acted>> PROVE Knows(c)'
    <3>0. CallSteps(o)
      BY <2>5 DEF CallSteps, Executing
    <3>1. PICK set : Recorded(o, set)
      BY <2>5 DEF Record, DownloadEnds
    <3>2. CASE set = c
      <4>1. task[o] # None
        BY <2>5 DEF Record, DownloadEnds, Answered
      <4>2. call'[o].at \notin {"waiting", "executing"}
        BY <2>5, EndedType DEF Record, DownloadEnds, Types, TypeOK, Calls
      <4>3. QED
        BY <1>2, <2>1, <2>2, <2>5, <3>0, <3>1, <3>2, <4>1, <4>2, RecordKnows
    <3>3. CASE set # c
      <4>1. SameRows(c)
        <5>1. RowOf(o, set).set # c
          BY <3>3 DEF RowOf
        <5>2. QED
          BY <3>1, <5>1, RowAdded DEF SameRows, RowsOf, Types
      <4>2. QED
        BY <1>2, <2>1, <2>2, <2>5, <4>1, QuietStep
    <3>4. QED
      BY <3>2, <3>3
  <2>6. ASSUME NEW r \in Rollbacks, NEW i \in rollback[r].todo, RollbackChanges(r, i) PROVE Knows(c)'
    <3>1. rollback[r].set = c
      BY <1>2, <2>6 DEF RollbackChanges
    <3>2. i \in RowsOf(c)
      BY <2>6, <3>1 DEF RollbackChanges, DeletesTarget, Undoes, IsUndoing, Books, BooksOfRollbacks
    <3>3. PICK path, file : disk' = [disk EXCEPT ![path] = file] /\ Touches(changes[i], path)
      BY <2>6 DEF RollbackChanges
    <3>4. UNCHANGED <<call, task, changes, acted>>
      BY <2>6 DEF RollbackChanges, DeletesTarget, Undoes, callVars, changeVars
    <3>5. Rowed(c, path)
      BY <3>2, <3>3 DEF Rowed
    <3>6. QED
      BY <2>1, <2>2, <3>3, <3>4, <3>5, UndoKnows
  <2>7. QED
    BY <2>3, <2>4, <2>5, <2>6, DiskStep
<1>3. QED
  BY <1>1, <1>2

\* What becomes of a rollback.
LEMMA RollbackStep ==
    ASSUME Types, [Next]_vars, NEW r \in Rollbacks, IsUndoing(r)'
    PROVE  \/ rollback'[r] = rollback[r]
           \/ \E i \in rollback[r].todo : RollingBack(r, i)
           \/ \E c \in DOMAIN sets, force \in BOOLEAN, skip \in Skips : RollbackStarts(r, c, force, skip)
<1>1. ~Restart
  BY DEF Restart, IsUndoing, NoRollback
<1>2. ~RollbackEnds(r)
  <2>1. SUFFICES ASSUME RollbackEnds(r) PROVE FALSE
    OBVIOUS
  <2>2. rollback'[r] = [NoRollback EXCEPT !.at = "ended"]
    BY <2>1 DEF RollbackEnds, Types, TypeOK
  <2>3. QED
    BY <2>2 DEF IsUndoing, NoRollback
<1>3. ASSUME NEW q \in Rollbacks \ {r}, NEW v, rollback' = [rollback EXCEPT ![q] = v]
      PROVE  rollback'[r] = rollback[r]
  BY <1>3
<1>4. ASSUME NEW q \in Rollbacks \ {r} ,
             \/ RollbackEnds(q) \/ \E i \in rollback[q].todo : RollingBack(q, i)
             \/ \E c \in DOMAIN sets, force \in BOOLEAN, skip \in Skips : RollbackStarts(q, c, force, skip)
      PROVE  rollback'[r] = rollback[r]
  BY <1>4 DEF RollbackEnds, RollingBack, DeletesTarget, Checks, Undoes, RollbackStarts, Types, TypeOK
<1>5. ASSUME NEW o \in Ops, CallSteps(o) PROVE rollback' = rollback
  BY <1>5 DEF CallSteps, Start, Preparing, WriteReads, DownloadStats, Snapshot, PreparingFails,
     Acquire, CommandThrows, Executing, Record, CommandEnds, DownloadEnds, CallFails, Succeed,
     WorkerActs, WorkerFails
<1>6. QED
  BY <1>1, <1>2, <1>4, <1>5 DEF Next, vars, CallSteps, ChangeBegin, Commit

\* The rows of a rollback that goes on are the rows they were.
LEMMA RowsOfRollbackStay ==
    ASSUME Types, Books, [Next]_vars, NEW r \in Rollbacks, IsUndoing(r)
    PROVE  /\ \A i \in rollback[r].todo : changes'[i] = changes[i] /\ i \in Nat
           /\ base'[rollback[r].set] = base[rollback[r].set]
<1>1. rollback[r].set \in DOMAIN sets /\ rollback[r].todo \subseteq DOMAIN changes
  BY DEF Books, BooksOfRollbacks, RowsOf
<1>2. Grows /\ BooksOfSets
  BY NextGrows DEF Books
<1>3. DOMAIN changes \subseteq Nat
  BY DEF Types, TypeOK
<1>4. QED
  BY <1>1, <1>2, <1>3, SetsStep DEF Grows

\* The files do not change under a rollback that is expected to be exact.
LEMMA OnlyRollbackChanges ==
    ASSUME Types, Books, [Next]_vars, NEW r \in Rollbacks, IsUndoing(r),
           rollback[r].set \notin disturbed'
    PROVE  disk' = disk \/ \E i \in rollback[r].todo : RollbackChanges(r, i)
<1>1. rollback[r].set \in DOMAIN sets /\ rollback[r].set \in Undoing
  BY DEF Books, BooksOfRollbacks, IsUndoing, Undoing
<1>2. \A o \in Ops : ~WorkerActs(o)
  BY <1>1 DEF WorkerActs
<1>3. ASSUME NEW q \in Rollbacks, NEW i \in rollback[q].todo, RollbackChanges(q, i) PROVE q = r
  <2>1. rollback[q].set = rollback[r].set
    BY <1>1, <1>3 DEF RollbackChanges
  <2>2. IsUndoing(q) /\ rollback[r].set \notin disturbed
    BY <1>3, Disturbs DEF RollbackChanges, DeletesTarget, Undoes, IsUndoing
  <2>3. QED
    BY <2>1, <2>2 DEF Books, BooksOfRollbacks
<1>4. QED
  BY <1>2, <1>3, DiskStep

\* A rollback begins with all the rows of its set.
LEMMA StartUndoable ==
    ASSUME Types, Books, SetsKnow, NEW r \in Rollbacks, NEW c \in DOMAIN sets, NEW force, NEW skip,
           RollbackStarts(r, c, force, skip)
    PROVE  Undoable(r)'
<1>1. /\ rollback'[r].at = "next" /\ rollback'[r].set = c
      /\ rollback'[r].todo = {i \in RowsOf(c) : changes[i].path \notin skip}
      /\ UNCHANGED <<disk, changes, base, sets>>
  BY DEF RollbackStarts, Types, TypeOK, changeVars
<1>2. SUFFICES ASSUME c \notin disturbed' PROVE Undoable(r)'
  BY <1>1 DEF Undoable
<1>3. skip = {} /\ OnlyItsOwn(c) /\ c \notin disturbed
  BY <1>2 DEF RollbackStarts
<1>4. rollback'[r].todo = RowsOf(c)
  BY <1>1, <1>3
<1>5. Accountable(c) /\ Pending(c) = {}
  <2>1. Since(c) = OpsOf(c) \X {c}
    BY <1>3 DEF OnlyItsOwn, Since
  <2>2. OpsOf(c) \subseteq Ops
    BY RowType DEF OpsOf, RowsOf, Types
  <2>3. MadeFor(c) = OpsOf(c)
    BY <2>1, <2>2 DEF MadeFor
  <2>4. QED
    BY <2>1, <2>2, <2>3 DEF Accountable, Pending
<1>6. Knows(c)
  BY <1>3, <1>5 DEF SetsKnow
<1>7. \A i \in RowsOf(c), q \in Paths :
         First(i, RowsOf(c), q) => GivesBack(changes[i], q) = base[c].disk[q]
  BY <1>6 DEF Knows, RowsKnow
<1>8. \A q \in Paths : (\A i \in RowsOf(c) : ~Touches(changes[i], q)) => disk[q] = base[c].disk[q]
  BY <1>5, <1>6 DEF Knows, FreshIsBase, Fresh, Rowed
<1>9. QED
  BY <1>1, <1>4, <1>7, <1>8 DEF Undoable, First, Touches, GivesBack

\* A rollback that stays as it is, on files that stay as they are.
LEMMA StayUndoable ==
    ASSUME Types, Books, [Next]_vars, NEW r \in Rollbacks, Undoable(r), IsUndoing(r)',
           rollback'[r] = rollback[r], rollback'[r].set \notin disturbed'
    PROVE  Undoable(r)'
<1>1. IsUndoing(r) /\ rollback[r].set \notin disturbed /\ rollback[r].set \notin disturbed'
  BY Disturbs DEF IsUndoing
<1>2. disk' = disk
  <2>1. ASSUME NEW i, RollbackChanges(r, i) PROVE FALSE
    BY <2>1 DEF RollbackChanges, DeletesTarget, Undoes, Types, TypeOK, RollbackCalls
  <2>2. QED
    BY <1>1, <2>1, OnlyRollbackChanges
<1>3. /\ \A i \in rollback[r].todo : changes'[i] = changes[i]
      /\ base'[rollback[r].set] = base[rollback[r].set]
  BY <1>1, RowsOfRollbackStay
<1>4. QED
  BY <1>1, <1>2, <1>3 DEF Undoable, First, Touches, GivesBack, IsNext

\* Undoing the last of its rows.
LEMMA UndoesUndoable ==
    ASSUME Types, Books, [Next]_vars, NEW r \in Rollbacks, NEW i \in rollback[r].todo,
           RollingBack(r, i), Undoable(r)
    PROVE  Undoable(r)'
<1>0. PICK c, todo : c = rollback[r].set /\ todo = rollback[r].todo /\ i \in todo
  OBVIOUS
<1>1. SUFFICES ASSUME ~rollback'[r].conflict, rollback'[r].set \notin disturbed' PROVE Undoable(r)'
  BY DEF Undoable
<1>2. rollback \in [Rollbacks -> RollbackCalls] /\ rollback[r] \in RollbackCalls
  BY DEF Types, TypeOK
<1>3. rollback'[r].set = c /\ ~rollback[r].conflict /\ IsUndoing(r) /\ c \notin disturbed
  <2>1. \/ rollback' = [rollback EXCEPT ![r].at = "checking"]
        \/ rollback' = [rollback EXCEPT ![r].at = "undoing"]
        \/ rollback' = [rollback EXCEPT ![r].at = "next", ![r].todo = @ \ {i}]
        \/ rollback' = [rollback EXCEPT ![r].at = "next", ![r].conflict = TRUE, ![r].todo = @ \ {i}]
    BY DEF RollingBack, DeletesTarget, Checks, Undoes
  <2>2. rollback'[r].set = c /\ (rollback[r].conflict => rollback'[r].conflict)
    BY <1>0, <1>2, <2>1 DEF RollbackCalls
  <2>3. IsUndoing(r)
    BY DEF RollingBack, DeletesTarget, Checks, Undoes, IsUndoing
  <2>4. QED
    BY <1>0, <1>1, <2>2, <2>3, Disturbs
<1>4. /\ \A j \in todo : changes'[j] = changes[j] /\ j \in Nat
      /\ base'[c] = base[c]
  BY <1>0, <1>3, RowsOfRollbackStay
<1>5. /\ \A j \in todo, q \in Paths : First(j, todo, q) => GivesBack(changes[j], q) = base[c].disk[q]
      /\ \A q \in Paths : (\A j \in todo : ~Touches(changes[j], q)) => disk[q] = base[c].disk[q]
      /\ rollback[r].at # "next" =>
            \A j \in todo : IsNext(r, j) /\ changes[j].kind = "move"
               => changes[j].to = changes[j].path \/ disk[changes[j].to] = None
  BY <1>0, <1>1, <1>3 DEF Undoable
<1>6. IsNext(r, i) /\ \A j \in todo : IsNext(r, j) => j = i
  BY <1>0, <1>4 DEF RollingBack, DeletesTarget, Checks, Undoes, IsNext
<1>7. disk \in [Paths -> Files] /\ changes[i] \in Changes
  <2>1. i \in DOMAIN changes
    BY <1>3 DEF Books, BooksOfRollbacks, RowsOf
  <2>2. QED
    BY <2>1, RowType DEF Types, TypeOK
<1>8. \A j \in todo : \A q : /\ Touches(changes[j], q)' <=> Touches(changes[j], q)
                            /\ GivesBack(changes[j], q)' = GivesBack(changes[j], q)
  BY <1>4 DEF Touches, GivesBack
<1>9. CASE DeletesTarget(r, i)
  <2>1. /\ rollback'[r].todo = todo /\ changes[i].kind = "move"
        /\ Attempt(r, changes[i].to, None)
    BY <1>0, <1>2, <1>9 DEF DeletesTarget
  <2>2. disk' = [disk EXCEPT ![changes[i].to] = None]
    BY <1>0, <1>1, <1>3, <2>1 DEF Attempt
  <2>3. /\ disk'[changes[i].to] = None
        /\ \A q \in Paths : ~Touches(changes[i], q) => disk'[q] = disk[q]
    BY <1>7, <2>1, <2>2 DEF Touches, Changes
  <2>4. \A j \in todo : IsNext(r, j)' => j = i
    BY <1>0, <1>6, <2>1 DEF IsNext
  <2>5. /\ \A j \in todo, q \in Paths : First(j, todo, q)' => First(j, todo, q)
        /\ \A q \in Paths : (\A j \in todo : ~Touches(changes[j], q)) => disk'[q] = base[c].disk[q]
    BY <1>0, <1>5, <1>8, <2>3 DEF First
  <2>6. QED
    BY <1>3, <1>4, <1>5, <1>8, <2>1, <2>3, <2>4, <2>5 DEF Undoable
<1>10. CASE Checks(r, i)
  <2>1. /\ disk' = disk /\ rollback'[r].todo = todo
        /\ changes[i].kind = "move" => rollback[r].at = "checking"
    BY <1>0, <1>1, <1>2, <1>10 DEF Checks, RollbackCalls
  <2>2. \A j \in todo : IsNext(r, j)' => j = i
    BY <1>0, <1>6, <2>1 DEF IsNext
  <2>3. \A j \in todo, q \in Paths : First(j, todo, q)' => First(j, todo, q)
    BY <1>8 DEF First
  <2>4. changes[i].kind = "move" => changes[i].to = changes[i].path \/ disk[changes[i].to] = None
    BY <1>0, <1>5, <1>6, <2>1
  <2>5. QED
    BY <1>3, <1>4, <1>5, <1>8, <2>1, <2>2, <2>3, <2>4 DEF Undoable
<1>11. CASE Undoes(r, i)
  <2>1. /\ rollback'[r].at = "next" /\ rollback'[r].todo = todo \ {i} /\ rollback[r].at = "undoing"
        /\ Attempt(r, changes[i].path, IF changes[i].kind = "create" THEN None ELSE changes[i].snap)
    BY <1>0, <1>2, <1>11 DEF Undoes, RollbackCalls
  <2>2. disk' = [disk EXCEPT ![changes[i].path] =
                     IF changes[i].kind = "create" THEN None ELSE changes[i].snap]
    BY <1>0, <1>1, <1>3, <2>1 DEF Attempt
  <2>3. /\ disk'[changes[i].path] = GivesBack(changes[i], changes[i].path)
        /\ \A q \in Paths \ {changes[i].path} : disk'[q] = disk[q]
    BY <1>7, <2>2 DEF GivesBack, Changes
  \* A later row of the same path is no obstacle to an earlier one.
  <2>4. \A j \in todo \ {i}, q \in Paths : First(j, todo \ {i}, q) => First(j, todo, q)
    BY <1>0, <1>4, <1>6 DEF First, IsNext
  <2>5. ASSUME NEW q \in Paths, \A j \in todo \ {i} : ~Touches(changes[j], q)
        PROVE  disk'[q] = base[c].disk[q]
    <3>1. CASE Touches(changes[i], q)
      <4>1. First(i, todo, q)
        BY <1>0, <1>4, <1>6, <2>5, <3>1 DEF First, IsNext
      <4>2. GivesBack(changes[i], q) = base[c].disk[q]
        BY <1>0, <1>5, <4>1
      <4>3. CASE q # changes[i].path
        <5>1. changes[i].kind = "move" /\ q = changes[i].to
          BY <3>1, <4>3 DEF Touches
        <5>2. disk[q] = None
          BY <1>0, <1>5, <1>6, <2>1, <4>3, <5>1
        <5>3. QED
          BY <2>3, <4>2, <4>3, <5>2 DEF GivesBack
      <4>4. QED
        BY <2>3, <4>2, <4>3
    <3>2. CASE ~Touches(changes[i], q)
      <4>1. disk[q] = base[c].disk[q]
        BY <1>5, <2>5, <3>2
      <4>2. QED
        BY <2>3, <3>2, <4>1 DEF Touches
    <3>3. QED
      BY <3>1, <3>2
  <2>6. \A j \in todo \ {i}, q \in Paths : First(j, todo \ {i}, q)' => First(j, todo \ {i}, q)
    BY <1>8 DEF First
  <2>7. QED
    <3>1. \A j \in rollback'[r].todo, q \in Paths :
             First(j, rollback[r].todo, q)' => GivesBack(changes[j], q)' = base'[c].disk[q]
      <4>1. ASSUME NEW j \in todo \ {i}, NEW q \in Paths, First(j, todo \ {i}, q)'
            PROVE  GivesBack(changes[j], q)' = base'[c].disk[q]
        BY <1>4, <1>5, <1>8, <2>4, <2>6, <4>1
      <4>2. \A j \in todo \ {i}, q \in Paths :
               First(j, rollback[r].todo, q)' => First(j, todo \ {i}, q)'
        BY <2>1 DEF First
      <4>3. QED
        BY <2>1, <4>1, <4>2
    <3>2. \A q \in Paths : (\A j \in rollback'[r].todo : ~Touches(changes[j], q)')
                           => disk'[q] = base'[c].disk[q]
      <4>1. \A j \in todo \ {i} : \A q : Touches(changes[j], q)' <=> Touches(changes[j], q)
        BY <1>8
      <4>2. QED
        BY <1>4, <2>1, <2>5, <4>1
    <3>3. QED
      BY <1>3, <2>1, <3>1, <3>2 DEF Undoable
<1>12. QED
  BY <1>9, <1>10, <1>11 DEF RollingBack

LEMMA NextUndoable ==
    ASSUME Types, Books, History, [Next]_vars, NEW r \in Rollbacks PROVE Undoable(r)'
<1>1. SetsKnow /\ Undoable(r)
  BY DEF History
<1>2. CASE ~IsUndoing(r)' \/ rollback'[r].set \in disturbed'
  BY <1>2 DEF Undoable
<1>3. CASE IsUndoing(r)' /\ rollback'[r].set \notin disturbed'
  BY <1>1, <1>3, RollbackStep, StayUndoable, UndoesUndoable, StartUndoable
<1>4. QED
  BY <1>2, <1>3

LEMMA InitHistory == Init => History
BY DEF Init, History, SetsKnow, Undoable, IsUndoing, NoRollback

LEMMA NextHistory == Types /\ Books /\ History /\ [Next]_vars => History'
BY NextSetsKnow, NextUndoable DEF History

\* A set that is rolled back leaves the files as they were when it began, if
\* nothing but its own recorded mutations happened since.
THEOREM RollbackIsExact == Spec => RollbackRestores
<1> DEFINE Exact == \A r \in Rollbacks :
       LET c == rollback[r].set IN
       RollbackEnds(r) /\ ~rollback[r].conflict /\ c \notin disturbed => disk = base[c].disk
<1>1. Types /\ Books /\ History => Exact
  <2>1. SUFFICES ASSUME Types, Books, History, NEW r \in Rollbacks, RollbackEnds(r),
                        ~rollback[r].conflict, rollback[r].set \notin disturbed
                 PROVE  disk = base[rollback[r].set].disk
    OBVIOUS
  <2>2. IsUndoing(r) /\ rollback[r].todo = {}
    BY <2>1 DEF RollbackEnds, IsUndoing
  <2>3. \A q \in Paths : disk[q] = base[rollback[r].set].disk[q]
    BY <2>1, <2>2 DEF History, Undoable
  <2>4. disk \in [Paths -> Files] /\ base[rollback[r].set].disk \in [Paths -> Files]
    <3>1. rollback[r].set \in DOMAIN base
      <4>1. rollback[r].set \in DOMAIN sets /\ Len(base) = Len(sets)
        BY <2>1, <2>2 DEF Books, BooksOfRollbacks, BooksOfSets
      <4>2. DOMAIN sets = 1 .. Len(sets) /\ DOMAIN base = 1 .. Len(base)
        BY <2>1 DEF Types, TypeOK
      <4>3. QED
        BY <4>1, <4>2
    <3>2. base[rollback[r].set] \in [disk : [Paths -> Files], acted : SUBSET Acted]
      <4> DEFINE Starts == [disk : [Paths -> Files], acted : SUBSET Acted]
      <4>1. base \in Seq(Starts)
        BY <2>1 DEF Types, TypeOK
      <4> HIDE DEF Starts
      <4>2. base[rollback[r].set] \in Starts
        BY <3>1, <4>1
      <4>3. QED
        BY <4>2 DEF Starts
    <3>3. QED
      BY <2>1, <3>2 DEF Types, TypeOK
  <2>5. QED
    BY <2>3, <2>4
<1>2. Types /\ Books /\ History => [Exact]_vars
  BY <1>1
<1>3. QED
  BY <1>2, InitTypes, InitTold, InitBooks, InitHistory, NextTypes, NextTold, NextBooks, NextHistory,
     PTL DEF Spec, RollbackRestores
=============================================================================
