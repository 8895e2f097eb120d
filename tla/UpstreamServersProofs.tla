------------------------ MODULE UpstreamServersProofs ------------------------
(***************************************************************************)
(* Proofs about a registered MCP server, for every number of operations,   *)
(* catalogs and configurations: its types, that only accepted catalogs are *)
(* used, that no call runs once the server is disabled or removed, and     *)
(* that the session of the worker is that of the row.                      *)
(***************************************************************************)
EXTENDS UpstreamServers, TLAPS

-----------------------------------------------------------------------------
(* The inductive invariant *)

Handshake == {"resolving", "closing", "opening", "opened", "fetching", "fetched", "failed"}
CallPlaces == {"status", "calling", "running"}

\* The operation has its turn and has begun its work.
Works(o) ==
    \/ o.at \in Handshake \cup CallPlaces
    \/ o.at = "disconnecting" /\ o.task \in {"edit", "restore", "save", "remove"}

\* What an operation has read when it comes to use it: a row whose catalog was accepted.
HasRead(o) ==
    /\ o.at \in Handshake \cup CallPlaces =>
          /\ o.snap \in Rows /\ o.snap.catalog \in accepted
          /\ o.config \in Configs
          /\ o.task \in {"refresh", "call", "edit", "restore"}
    /\ o.at \in CallPlaces => o.task = "call"
    /\ o.at = "fetched" => o.catalog \in Catalogs
    /\ o.at = "disconnecting" => o.task \in {"edit", "restore", "save", "remove", "disable"}
    /\ o.at = "disconnecting" /\ o.task \in {"edit", "restore"} =>
          o.snap \in Rows /\ o.snap.catalog \in accepted
    /\ o.task = "edit" => o.config \in Configs

\* Who works is the first in the queue.
OneWorks == \A c \in Ops : Works(op[c]) => queue # <<>> /\ Head(queue) = c

\* What is used was accepted, and what is published, unless the row names it as awaiting review.
Reviewed ==
    /\ rec.catalog \in accepted
    /\ cache \in accepted \cup {None, rec.pending}

\* A call that has passed its last check finds a session only while the server is enabled.
CallsAreAllowed ==
    \A c \in Ops : op[c].at \in {"calling", "running"} /\ session.phase = "connected" =>
        rec.present /\ rec.enabled

Inv ==
    /\ TypeOK
    /\ \A c \in Ops : HasRead(op[c])
    /\ OneWorks
    /\ Reviewed
    /\ CallsAreAllowed

\* The operation c is the first in the queue.
First(c) == queue # <<>> /\ Head(queue) = c

-----------------------------------------------------------------------------
(* Operations as they are updated *)

OpTable == [Ops -> OpRecords]

\* The operation o, but for its epoch and for whether its session was connected.
Is(o, task, at, config, snap, catalog) ==
    o.task = task /\ o.at = at /\ o.config = config /\ o.snap = snap /\ o.catalog = catalog

\* Whoever is not c stays what and where it is; its epoch may move.
Alone(c) ==
    \A d \in Ops \ {c} : Is(op'[d], op[d].task, op[d].at, op[d].config, op[d].snap, op[d].catalog)

LEMMA Fields ==
    ASSUME NEW o \in OpRecords
    PROVE  /\ o.task \in Tasks /\ o.at \in Places /\ o.config \in Configs \cup {None}
           /\ o.want \in Wants /\ o.snap \in Rows \cup {None} /\ o.stale \in BOOLEAN
           /\ o.catalog \in Catalogs \cup {None} /\ o.connected \in BOOLEAN
BY DEF OpRecords

LEMMA RowFields ==
    ASSUME NEW r \in Rows
    PROVE  /\ r.present \in BOOLEAN /\ r.enabled \in BOOLEAN
           /\ r.state \in {"active", "needs-review", "degraded"}
           /\ r.catalog \in Catalogs /\ r.pending \in Catalogs \cup {None} /\ r.config \in Configs
BY DEF Rows

LEMMA Put ==
    ASSUME op \in OpTable, NEW c \in Ops, NEW o \in OpRecords, op' = [op EXCEPT ![c] = o]
    PROVE  op' \in OpTable /\ Alone(c) /\ op'[c] = o
BY DEF OpTable, Alone, Is

LEMMA SetAt ==
    ASSUME op \in OpTable, NEW c \in Ops, NEW p \in Places, op' = [op EXCEPT ![c].at = p]
    PROVE  /\ op' \in OpTable /\ Alone(c)
           /\ Is(op'[c], op[c].task, p, op[c].config, op[c].snap, op[c].catalog)
<1> DEFINE o == [op[c] EXCEPT !.at = p]
<1>1. o \in OpRecords /\ Is(o, op[c].task, p, op[c].config, op[c].snap, op[c].catalog)
  BY DEF OpTable, OpRecords, Is
<1>2. op' = [op EXCEPT ![c] = o]
  OBVIOUS
<1> HIDE DEF o
<1>3. QED
  BY <1>1, <1>2, Put

LEMMA SetTask ==
    ASSUME op \in OpTable, NEW c \in Ops, NEW p \in Places, NEW t \in Tasks,
           op' = [op EXCEPT ![c].at = p, ![c].task = t]
    PROVE  /\ op' \in OpTable /\ Alone(c)
           /\ Is(op'[c], t, p, op[c].config, op[c].snap, op[c].catalog)
<1> DEFINE o == [op[c] EXCEPT !.at = p, !.task = t]
<1>1. o \in OpRecords /\ Is(o, t, p, op[c].config, op[c].snap, op[c].catalog)
  BY DEF OpTable, OpRecords, Is
<1>2. op' = [op EXCEPT ![c] = o]
  BY DEF OpTable
<1> HIDE DEF o
<1>3. QED
  BY <1>1, <1>2, Put

LEMMA SetSnap ==
    ASSUME op \in OpTable, NEW c \in Ops, NEW p \in Places, NEW r \in Rows,
           op' = [op EXCEPT ![c].at = p, ![c].snap = r]
    PROVE  /\ op' \in OpTable /\ Alone(c)
           /\ Is(op'[c], op[c].task, p, op[c].config, r, op[c].catalog)
<1> DEFINE o == [op[c] EXCEPT !.at = p, !.snap = r]
<1>1. o \in OpRecords /\ Is(o, op[c].task, p, op[c].config, r, op[c].catalog)
  BY DEF OpTable, OpRecords, Is
<1>2. op' = [op EXCEPT ![c] = o]
  BY DEF OpTable
<1> HIDE DEF o
<1>3. QED
  BY <1>1, <1>2, Put

LEMMA SetCatalog ==
    ASSUME op \in OpTable, NEW c \in Ops, NEW p \in Places, NEW k \in Catalogs,
           op' = [op EXCEPT ![c].at = p, ![c].catalog = k]
    PROVE  /\ op' \in OpTable /\ Alone(c)
           /\ Is(op'[c], op[c].task, p, op[c].config, op[c].snap, k)
<1> DEFINE o == [op[c] EXCEPT !.at = p, !.catalog = k]
<1>1. o \in OpRecords /\ Is(o, op[c].task, p, op[c].config, op[c].snap, k)
  BY DEF OpTable, OpRecords, Is
<1>2. op' = [op EXCEPT ![c] = o]
  BY DEF OpTable
<1> HIDE DEF o
<1>3. QED
  BY <1>1, <1>2, Put

LEMMA SetTaskAndConfig ==
    ASSUME op \in OpTable, NEW c \in Ops, NEW p \in Places, NEW t \in Tasks, NEW k \in Configs,
           op' = [op EXCEPT ![c].at = p, ![c].task = t, ![c].config = k]
    PROVE  /\ op' \in OpTable /\ Alone(c)
           /\ Is(op'[c], t, p, k, op[c].snap, op[c].catalog)
<1> DEFINE o == [op[c] EXCEPT !.at = p, !.task = t, !.config = k]
<1>1. o \in OpRecords /\ Is(o, t, p, k, op[c].snap, op[c].catalog)
  BY DEF OpTable, OpRecords, Is
<1>2. op' = [op EXCEPT ![c] = o]
  BY DEF OpTable
<1> HIDE DEF o
<1>3. QED
  BY <1>1, <1>2, Put

\* A toggle moves epochs, and c becomes o.
LEMMA SetToggled ==
    ASSUME op \in OpTable, NEW c \in Ops, NEW o \in OpRecords, op' = [Toggled EXCEPT ![c] = o]
    PROVE  op' \in OpTable /\ Alone(c) /\ op'[c] = o
<1>1. ASSUME NEW d \in Ops
      PROVE  /\ Toggled[d] \in OpRecords
             /\ Is(Toggled[d], op[d].task, op[d].at, op[d].config, op[d].snap, op[d].catalog)
  BY <1>1 DEF OpTable, OpRecords, Toggled, Is
<1>2. Toggled \in OpTable
  BY <1>1 DEF OpTable, Toggled
<1>3. op' \in OpTable /\ op'[c] = o /\ \A d \in Ops \ {c} : op'[d] = Toggled[d]
  BY <1>2 DEF OpTable
<1>4. QED
  BY <1>1, <1>3 DEF Alone

LEMMA NewOps ==
    /\ NoOp \in OpRecords /\ Over \in OpRecords
    /\ Is(NoOp, "none", "idle", None, None, None)
    /\ Is(Over, "none", "over", None, None, None)
    /\ \A t \in Tasks : Task(t) \in OpRecords /\ Is(Task(t), t, "idle", None, None, None)
BY DEF OpRecords, NoOp, Over, Task, Tasks, Places, Wants, Is

\* An operation that is put into the queue.
LEMMA Queued ==
    ASSUME NEW o \in OpRecords
    PROVE  /\ [o EXCEPT !.at = "waiting"] \in OpRecords
           /\ Is([o EXCEPT !.at = "waiting"], o.task, "waiting", o.config, o.snap, o.catalog)
BY DEF OpRecords, Places, Is

-----------------------------------------------------------------------------
(* What a step of one operation leaves alone *)

LEMMA OnlyTheFirstWorks ==
    ASSUME Inv, NEW c \in Ops, First(c), NEW d \in Ops, Works(op[d])
    PROVE  d = c
BY DEF Inv, OneWorks, First

LEMMA OthersHaveRead ==
    ASSUME Inv, NEW c \in Ops, Alone(c), HasRead(op'[c])
    PROVE  \A d \in Ops : HasRead(op'[d])
BY DEF Inv, Alone, Is, HasRead

LEMMA QueueStays ==
    ASSUME Inv, NEW c \in Ops, Alone(c), queue' = queue,
           Works(op'[c]) => Works(op[c]) \/ First(c)
    PROVE  OneWorks' /\ queue' \in Seq(Ops)
BY DEF Inv, TypeOK, Alone, Is, OneWorks, Works, First

LEMMA QueueGrows ==
    ASSUME Inv, NEW c \in Ops, Alone(c), queue' = Append(queue, c), ~Works(op'[c])
    PROVE  OneWorks' /\ queue' \in Seq(Ops)
<1>1. queue \in Seq(Ops)
  BY DEF Inv, TypeOK
<1>2. queue' \in Seq(Ops) /\ queue' # <<>> /\ (queue # <<>> => Head(queue') = Head(queue))
  BY <1>1
<1>3. ASSUME NEW d \in Ops, Works(op'[d]) PROVE queue # <<>> /\ Head(queue) = d
  BY <1>3 DEF Inv, Alone, Is, OneWorks, Works
<1>4. QED
  BY <1>2, <1>3 DEF OneWorks

LEMMA QueueMovesOn ==
    ASSUME Inv, NEW c \in Ops, Alone(c), First(c), queue' = Tail(queue), ~Works(op'[c])
    PROVE  OneWorks' /\ queue' \in Seq(Ops)
<1>1. queue \in Seq(Ops) /\ queue # <<>>
  BY DEF Inv, TypeOK, First
<1>2. queue' \in Seq(Ops)
  BY <1>1
<1>3. ASSUME NEW d \in Ops, Works(op'[d]) PROVE FALSE
  <2>1. d # c /\ Works(op[d])
    BY <1>3 DEF Alone, Is, Works
  <2>2. QED
    BY <2>1, OnlyTheFirstWorks
<1>4. QED
  BY <1>2, <1>3 DEF OneWorks

\* Calls stay allowed if the first of the queue moves, since nobody else works.
LEMMA CallsOfTheFirst ==
    ASSUME Inv, NEW c \in Ops, First(c), Alone(c),
           op'[c].at \in {"calling", "running"} /\ session'.phase = "connected" =>
               rec'.present /\ rec'.enabled
    PROVE  CallsAreAllowed'
<1> SUFFICES ASSUME NEW d \in Ops, op'[d].at \in {"calling", "running"},
                    session'.phase = "connected"
             PROVE  rec'.present /\ rec'.enabled
  BY DEF CallsAreAllowed
<1>1. CASE d = c
  BY <1>1
<1>2. CASE d # c
  <2>1. Works(op[d])
    BY <1>2 DEF Alone, Is, Works, CallPlaces
  <2>2. QED
    BY <1>2, <2>1, OnlyTheFirstWorks
<1>3. QED
  BY <1>1, <1>2

\* They do if another moves, unless it takes away what they were allowed by.
LEMMA CallsOfOthers ==
    ASSUME Inv, NEW c \in Ops, Alone(c), op'[c].at \notin {"calling", "running"},
           \/ session'.phase # "connected"
           \/ /\ session' = session
              /\ rec.present /\ rec.enabled => rec'.present /\ rec'.enabled
    PROVE  CallsAreAllowed'
BY DEF Inv, CallsAreAllowed, Alone, Is

\* What the row and the cache may become.
Published ==
    /\ rec' \in Rows /\ rec'.catalog \in accepted
    /\ cache' \in Catalogs \cup {None} /\ cache' \in accepted \cup {None, rec'.pending}

LEMMA Preserved ==
    ASSUME Inv, NEW c \in Ops, Alone(c), op' \in OpTable, HasRead(op'[c]),
           OneWorks', queue' \in Seq(Ops),
           Published, session' \in Sessions, answers' \in Seq(Ops), CallsAreAllowed',
           UNCHANGED Outside
    PROVE  Inv'
<1>1. worker' = worker /\ shown' = shown /\ accepted' = accepted
  BY DEF Outside
<1>2. TypeOK'
  BY <1>1 DEF Inv, TypeOK, Published, OpTable
<1>3. \A d \in Ops : HasRead(op[d])'
  BY <1>1, OthersHaveRead DEF HasRead
<1>4. Reviewed'
  BY <1>1 DEF Published, Reviewed
<1>5. QED
  BY <1>2, <1>3, <1>4 DEF Inv

\* Steps that leave the row and the cache alone.
LEMMA SamePublished == ASSUME Inv, UNCHANGED <<rec, cache>> PROVE Published
BY DEF Inv, TypeOK, Reviewed, Published

-----------------------------------------------------------------------------
(* Parts of steps *)

LEMMA SessionsOf ==
    /\ NoSession \in Sessions /\ NoSession.phase = "none"
    /\ \A k \in Configs, p \in {"none", "opening", "connected", "lost"} :
           Session(p, k) \in Sessions /\ Session(p, k).phase = p
    /\ \A s \in Sessions, p \in {"none", "opening", "connected", "lost"} :
           [s EXCEPT !.phase = p] \in Sessions /\ [s EXCEPT !.phase = p].phase = p
    /\ \A s \in Sessions : [s EXCEPT !.changed = TRUE] \in Sessions
           /\ [s EXCEPT !.changed = TRUE].phase = s.phase
BY DEF Sessions, NoSession, Session

LEMMA RowsOf ==
    ASSUME NEW r \in Rows, NEW k \in Catalogs
    PROVE  /\ NeedsReview(r, k) \in Rows /\ NeedsReview(r, k).catalog = r.catalog
           /\ NeedsReview(r, k).pending = k
           /\ Verified(r, k) \in Rows /\ Verified(r, k).catalog = k
           /\ Verified(r, k).pending = None
BY DEF Rows, NeedsReview, Verified

LEMMA Answers ==
    ASSUME Inv, NEW c \in Ops
    PROVE  /\ answers \in Seq(Ops) /\ Append(answers, c) \in Seq(Ops)
           /\ answers # <<>> => Tail(answers) \in Seq(Ops) /\ Append(Tail(answers), c) \in Seq(Ops)
BY DEF Inv, TypeOK

LEMMA AnswersOfReaders ==
    ASSUME Inv, NEW c \in Ops, NEW p \in Places, Reads(c, p)
    PROVE  /\ Tail(answers) \in Seq(Ops) /\ Append(Tail(answers), c) \in Seq(Ops)
           /\ op[c].at = p
           /\ p \in Handshake \cup CallPlaces => First(c) /\ Works(op[c])
BY Answers DEF Reads, Inv, OneWorks, First, Works

LEMMA Waits ==
    ASSUME Inv, NEW c \in Ops, NEW o \in OpRecords, Enqueue(c, o),
           o.task # "edit" \/ o.config \in Configs
    PROVE  /\ op' \in OpTable /\ Alone(c) /\ HasRead(op'[c])
           /\ op'[c].at = "waiting" /\ OneWorks' /\ queue' \in Seq(Ops)
<1>1. op \in OpTable
  BY DEF Inv, TypeOK, OpTable
<1>2. op' = [op EXCEPT ![c] = [o EXCEPT !.at = "waiting"]] /\ queue' = Append(queue, c)
  BY DEF Enqueue
<1>3. op' \in OpTable /\ Alone(c) /\ op'[c] = [o EXCEPT !.at = "waiting"]
  BY <1>1, <1>2, Queued, Put
<1>4. Is(op'[c], o.task, "waiting", o.config, o.snap, o.catalog)
  BY <1>3, Queued
<1>5. HasRead(op'[c]) /\ ~Works(op'[c]) /\ op'[c].at = "waiting"
  BY <1>4 DEF Is, HasRead, Works, Handshake, CallPlaces
<1>6. QED
  BY <1>2, <1>3, <1>5, QueueGrows

LEMMA Leaves ==
    ASSUME Inv, NEW c \in Ops, First(c), Leave(c)
    PROVE  /\ op' \in OpTable /\ Alone(c) /\ HasRead(op'[c])
           /\ op'[c].at = "over" /\ OneWorks' /\ queue' \in Seq(Ops) /\ CallsAreAllowed'
<1>1. op \in OpTable
  BY DEF Inv, TypeOK, OpTable
<1>2. op' = [op EXCEPT ![c] = Over] /\ queue' = Tail(queue)
  BY DEF Leave
<1>3. op' \in OpTable /\ Alone(c) /\ op'[c] = Over
  BY <1>1, <1>2, NewOps, Put
<1>4. HasRead(op'[c]) /\ ~Works(op'[c]) /\ op'[c].at = "over"
  BY <1>3, NewOps DEF Is, HasRead, Works, Handshake, CallPlaces
<1>5. OneWorks' /\ queue' \in Seq(Ops)
  BY <1>2, <1>3, <1>4, QueueMovesOn
<1>6. CallsAreAllowed'
  BY <1>3, <1>4, CallsOfTheFirst
<1>7. QED
  BY <1>3, <1>4, <1>5, <1>6

LEMMA GonePreserves ==
    ASSUME Inv, NEW c \in Ops, First(c), Gone(c), UNCHANGED Outside
    PROVE  Inv'
<1>1. Leave(c) /\ UNCHANGED <<rec, cache, session, answers>>
  BY DEF Gone
<1>2. session' \in Sessions /\ answers' \in Seq(Ops)
  BY <1>1 DEF Inv, TypeOK
<1>3. QED
  BY <1>1, <1>2, Leaves, SamePublished, Preserved

\* The last answer of an operation leaves a row whose catalog is accepted.
LEMMA EndsPreserves ==
    ASSUME Inv, NEW c \in Ops, First(c), NEW r, Ends(c, r), Published, answers # <<>>,
           UNCHANGED Outside
    PROVE  Inv'
<1>1. rec' = r /\ Leave(c) /\ session' = session /\ answers' = Tail(answers)
  BY DEF Ends
<1>2. session' \in Sessions /\ answers' \in Seq(Ops)
  BY <1>1, Answers DEF Inv, TypeOK
<1>3. QED
  BY <1>1, <1>2, Leaves, Preserved

\* The first of the queue asks for the end of the session.
LEMMA DisconnectPreserves ==
    ASSUME Inv, NEW c \in Ops, First(c),
           NEW task \in {"edit", "restore", "save", "remove", "disable"}, NEW rest \in Seq(Ops),
           Disconnect(op, c, task, rest),
           task \in {"edit", "restore"} =>
               op[c].snap \in Rows /\ op[c].snap.catalog \in accepted,
           task = "edit" => op[c].config \in Configs,
           Published, UNCHANGED Outside
    PROVE  Inv'
<1>1. /\ session' = NoSession /\ answers' = Append(rest, c) /\ queue' = queue
      /\ op' = [op EXCEPT ![c].at = "disconnecting", ![c].task = task]
  BY DEF Disconnect
<1>2. op \in OpTable /\ "disconnecting" \in Places /\ task \in Tasks
  BY DEF Inv, TypeOK, OpTable, Places, Tasks
<1>3. /\ op' \in OpTable /\ Alone(c)
      /\ Is(op'[c], task, "disconnecting", op[c].config, op[c].snap, op[c].catalog)
  BY <1>1, <1>2, SetTask
<1>4. HasRead(op'[c]) /\ op'[c].at = "disconnecting"
  BY <1>3 DEF Is, HasRead, Handshake, CallPlaces
<1>5. OneWorks' /\ queue' \in Seq(Ops)
  BY <1>1, <1>3, QueueStays
<1>6. CallsAreAllowed'
  BY <1>3, <1>4, CallsOfTheFirst
<1>7. session' \in Sessions /\ answers' \in Seq(Ops)
  BY <1>1, SessionsOf
<1>8. QED
  BY <1>3, <1>4, <1>5, <1>6, <1>7, Preserved

\* The first of the queue goes on to another place, with the row, the cache and the queue as they are.
LEMMA MovePreserves ==
    ASSUME Inv, NEW c \in Ops, First(c), op' \in OpTable, Alone(c), HasRead(op'[c]),
           UNCHANGED <<rec, cache, queue>>,
           session' \in Sessions, answers' \in Seq(Ops), UNCHANGED Outside,
           op'[c].at \in {"calling", "running"} =>
               \/ rec.present /\ rec.enabled
               \/ session' = session /\ op[c].at \in {"calling", "running"}
    PROVE  Inv'
<1>1. OneWorks' /\ queue' \in Seq(Ops)
  BY QueueStays
<1>2. CallsAreAllowed'
  BY CallsOfTheFirst DEF Inv, CallsAreAllowed
<1>3. QED
  BY <1>1, <1>2, SamePublished, Preserved

\* What is known of an operation that works.
LEMMA Worker ==
    ASSUME Inv, NEW c \in Ops, op[c].at \in Handshake \cup CallPlaces
    PROVE  /\ First(c) /\ Works(op[c]) /\ HasRead(op[c]) /\ op \in OpTable /\ op[c] \in OpRecords
           /\ op[c].snap \in Rows /\ op[c].config \in Configs
           /\ op[c].snap.catalog \in accepted
           /\ op[c].task \in {"refresh", "call", "edit", "restore"}
<1>1. First(c) /\ Works(op[c]) /\ HasRead(op[c]) /\ op \in OpTable /\ op[c] \in OpRecords
  BY DEF Inv, TypeOK, OneWorks, First, Works, OpTable
<1>2. QED
  BY <1>1 DEF HasRead

\* It goes on to the place p of its handshake or of its call.
LEMMA AtPreserves ==
    ASSUME Inv, NEW c \in Ops, op[c].at \in Handshake \cup CallPlaces,
           NEW p \in Handshake \cup CallPlaces, p # "fetched",
           p \in CallPlaces => op[c].task = "call",
           op' = [op EXCEPT ![c].at = p], UNCHANGED <<rec, cache, queue>>,
           session' \in Sessions, answers' \in Seq(Ops), UNCHANGED Outside,
           p \in {"calling", "running"} =>
               \/ rec.present /\ rec.enabled
               \/ session' = session /\ op[c].at \in {"calling", "running"}
    PROVE  Inv'
<1>1. p \in Places
  BY DEF Handshake, CallPlaces, Places
<1>2. /\ op' \in OpTable /\ Alone(c)
      /\ Is(op'[c], op[c].task, p, op[c].config, op[c].snap, op[c].catalog)
  BY <1>1, Worker, SetAt
<1>3. HasRead(op'[c]) /\ op'[c].at = p
  BY <1>2, Worker DEF Is, HasRead, Handshake, CallPlaces
<1>4. QED
  BY <1>2, <1>3, Worker, MovePreserves

LEMMA AnsweredPreserves ==
    ASSUME Inv, NEW c \in Ops, op[c].at \in Handshake \cup CallPlaces, NEW rest \in Seq(Ops),
           Answered(c, "failed", rest), UNCHANGED <<rec, cache>>, UNCHANGED Outside
    PROVE  Inv'
<1>1. /\ op' = [op EXCEPT ![c].at = "failed"] /\ answers' = Append(rest, c)
      /\ queue' = queue /\ session' = session
  BY DEF Answered
<1>2. answers' \in Seq(Ops) /\ session' \in Sessions
  BY <1>1 DEF Inv, TypeOK
<1>3. "failed" \in Handshake \cup CallPlaces /\ "failed" \notin CallPlaces
  BY DEF Handshake, CallPlaces
<1>4. QED
  BY <1>1, <1>2, <1>3, AtPreserves DEF CallPlaces

-----------------------------------------------------------------------------
(* Operations begin *)

LEMMA EnqueuePreserves ==
    ASSUME Inv, NEW c \in Ops, NEW o \in OpRecords, Enqueue(c, o),
           o.task # "edit" \/ o.config \in Configs,
           UNCHANGED <<rec, cache, session>>, answers' \in Seq(Ops), UNCHANGED Outside
    PROVE  Inv'
<1>1. /\ op' \in OpTable /\ Alone(c) /\ HasRead(op'[c])
      /\ op'[c].at = "waiting" /\ OneWorks' /\ queue' \in Seq(Ops)
  BY Waits
<1>2. CallsAreAllowed'
  BY <1>1, CallsOfOthers
<1>3. session' \in Sessions
  BY DEF Inv, TypeOK
<1>4. QED
  BY <1>1, <1>2, <1>3, SamePublished, Preserved

LEMMA BeginPreserves == ASSUME Inv, NEW c \in Ops, NEW task \in Tasks, Begin(c, task) PROVE Inv'
<1>1. /\ task \in {"refresh", "remove", "call"} /\ Enqueue(c, Task(task))
      /\ UNCHANGED <<rec, cache, session, answers>> /\ UNCHANGED Outside
  BY DEF Begin
<1>2. Task(task) \in OpRecords /\ Task(task).task = task
  BY NewOps DEF Is
<1>3. answers' \in Seq(Ops)
  BY <1>1 DEF Inv, TypeOK
<1>4. QED
  BY <1>1, <1>2, <1>3, EnqueuePreserves

LEMMA EditPreserves ==
    ASSUME Inv, NEW c \in Ops, NEW config \in Configs, NEW want \in Wants, Edit(c, config, want)
    PROVE  Inv'
<1> DEFINE o == [Task("edit") EXCEPT !.config = config, !.want = want]
<1>1. /\ Enqueue(c, o)
      /\ UNCHANGED <<rec, cache, session, answers>> /\ UNCHANGED Outside
  BY DEF Edit
<1>2. o \in OpRecords /\ o.config = config
  BY DEF OpRecords, Task, NoOp, Tasks, Places
<1>3. answers' \in Seq(Ops)
  BY <1>1 DEF Inv, TypeOK
<1> HIDE DEF o
<1>4. QED
  BY <1>1, <1>2, <1>3, EnqueuePreserves

LEMMA DisablePreserves == ASSUME Inv, NEW c \in Ops, Disable(c) PROVE Inv'
<1> DEFINE o == [Toggled[c] EXCEPT !.at = "disconnecting", !.task = "disable"]
<1>1. /\ rec' = [rec EXCEPT !.enabled = FALSE] /\ session' = NoSession
      /\ op' = [Toggled EXCEPT ![c].at = "disconnecting", ![c].task = "disable"]
      /\ answers' = Append(answers, c) /\ queue' = queue /\ cache' = cache /\ UNCHANGED Outside
      /\ op[c].at = "idle"
  BY DEF Disable, Disconnect
<1>2. op \in OpTable /\ HasRead(op[c])
  BY DEF Inv, TypeOK, OpTable
<1>3. Toggled[c] \in OpRecords
  BY <1>2 DEF OpTable, OpRecords, Toggled
<1>4. op' = [Toggled EXCEPT ![c] = o]
  BY <1>1 DEF Toggled
<1>5. o \in OpRecords /\ o.at = "disconnecting" /\ o.task = "disable"
  BY <1>3 DEF OpRecords, Places, Tasks
<1> HIDE DEF o
<1>6. op' \in OpTable /\ Alone(c) /\ op'[c] = o
  BY <1>2, <1>4, <1>5, SetToggled
<1>7. HasRead(op'[c]) /\ ~Works(op'[c])
  BY <1>5, <1>6 DEF HasRead, Works, Handshake, CallPlaces
<1>8. OneWorks' /\ queue' \in Seq(Ops)
  BY <1>1, <1>6, <1>7, QueueStays
<1>9. session' \in Sessions /\ session'.phase = "none" /\ answers' \in Seq(Ops)
  BY <1>1, SessionsOf, Answers
<1>10. CallsAreAllowed'
  BY <1>5, <1>6, <1>9, CallsOfOthers
<1>11. Published
  BY <1>1 DEF Inv, TypeOK, Reviewed, Published, Rows
<1>12. QED
  BY <1>1, <1>5, <1>6, <1>7, <1>8, <1>9, <1>10, <1>11, Preserved

\* The steps of a toggle that ends, or waits for the verification of a degraded server.
LEMMA ToggledPreserves ==
    ASSUME Inv, NEW c \in Ops, NEW o \in OpRecords, op' = [Toggled EXCEPT ![c] = o],
           \/ Is(o, "none", "over", None, None, None) /\ queue' = queue
           \/ Is(o, "refresh", "waiting", None, None, None) /\ queue' = Append(queue, c),
           rec' = rec \/ rec' = [rec EXCEPT !.enabled = TRUE],
           UNCHANGED <<cache, session, answers>>, UNCHANGED Outside
    PROVE  Inv'
<1>1. op \in OpTable /\ rec \in Rows
  BY DEF Inv, TypeOK, OpTable
<1>2. op' \in OpTable /\ Alone(c) /\ op'[c] = o
  BY <1>1, SetToggled
<1>3. /\ HasRead(op'[c]) /\ ~Works(op'[c])
      /\ op'[c].at \notin {"calling", "running"}
  BY <1>2 DEF HasRead, Works, Handshake, CallPlaces, Is
<1>4. OneWorks' /\ queue' \in Seq(Ops)
  BY <1>2, <1>3, QueueStays, QueueGrows
<1>5. /\ rec' \in Rows /\ rec'.present = rec.present /\ (rec.enabled => rec'.enabled)
      /\ rec'.catalog = rec.catalog /\ rec'.pending = rec.pending
  BY <1>1 DEF Rows
<1>6. CallsAreAllowed'
  BY <1>2, <1>3, <1>5, CallsOfOthers
<1>7. Published
  BY <1>5 DEF Inv, TypeOK, Reviewed, Published
<1>8. session' \in Sessions /\ answers' \in Seq(Ops)
  BY DEF Inv, TypeOK
<1>9. QED
  BY <1>2, <1>3, <1>4, <1>6, <1>7, <1>8, Preserved

LEMMA EnablePreserves == ASSUME Inv, NEW c \in Ops, Enable(c) PROVE Inv'
<1> DEFINE w == [Task("refresh") EXCEPT !.at = "waiting"]
<1>1. /\ rec' = [rec EXCEPT !.enabled = TRUE]
      /\ op' = [Toggled EXCEPT ![c] = IF rec.state = "degraded" THEN w ELSE Over]
      /\ queue' = IF rec.state = "degraded" THEN Append(queue, c) ELSE queue
      /\ UNCHANGED <<cache, session, answers>> /\ UNCHANGED Outside
  BY DEF Enable
<1>2. w \in OpRecords /\ Is(w, "refresh", "waiting", None, None, None)
  BY DEF OpRecords, Task, NoOp, Tasks, Places, Wants, Is
<1> HIDE DEF w
<1>3. QED
  BY <1>1, <1>2, NewOps, ToggledPreserves

LEMMA ToggleAgainPreserves == ASSUME Inv, NEW c \in Ops, ToggleAgain(c) PROVE Inv'
BY NewOps, ToggledPreserves DEF ToggleAgain

LEMMA ShowPreserves == ASSUME Inv, Show PROVE Inv'
<1>1. /\ shown' = rec.pending
      /\ UNCHANGED <<rec, cache, queue, op, session, answers, worker, accepted>>
  BY DEF Show
<1>2. TypeOK'
  BY <1>1 DEF Inv, TypeOK, Rows
<1>3. \A c \in Ops : HasRead(op[c])'
  BY <1>1 DEF Inv, HasRead
<1>4. QED
  BY <1>1, <1>2, <1>3 DEF Inv, OneWorks, Reviewed, CallsAreAllowed

LEMMA AcceptPreserves == ASSUME Inv, Accept PROVE Inv'
<1>1. /\ shown # None /\ shown = Fetched
      /\ rec' = Verified(rec, Fetched) /\ accepted' = accepted \cup {shown}
      /\ UNCHANGED <<cache, queue, op, session, answers, worker, shown>>
  BY DEF Accept, Acceptable
<1>2. rec \in Rows /\ shown \in Catalogs
  BY <1>1 DEF Inv, TypeOK
<1>3. /\ rec' \in Rows /\ rec'.catalog = shown /\ rec'.pending = None
      /\ rec'.present = rec.present /\ rec'.enabled = rec.enabled
  BY <1>1, <1>2 DEF Verified, Rows
<1>4. TypeOK'
  BY <1>1, <1>2, <1>3 DEF Inv, TypeOK
<1>5. rec.pending # None => rec.pending = shown
  BY <1>1 DEF Fetched
<1>6. Reviewed'
  BY <1>1, <1>3, <1>5 DEF Inv, Reviewed
<1>7. \A c \in Ops : HasRead(op[c])'
  BY <1>1 DEF Inv, HasRead
<1>8. QED
  BY <1>1, <1>3, <1>4, <1>6, <1>7 DEF Inv, OneWorks, CallsAreAllowed

-----------------------------------------------------------------------------
(* Turns *)

LEMMA TurnFacts ==
    ASSUME Inv, NEW c \in Ops, NEW task, Turn(c, task)
    PROVE  /\ First(c) /\ op \in OpTable /\ op[c] \in OpRecords /\ HasRead(op[c])
           /\ op[c].at = "waiting" /\ op[c].task = task
           /\ rec \in Rows /\ rec.catalog \in accepted
           /\ answers \in Seq(Ops) /\ Append(answers, c) \in Seq(Ops) /\ session \in Sessions
BY DEF Inv, TypeOK, Turn, First, OpTable, Reviewed

LEMMA TurnOfRefreshPreserves ==
    ASSUME Inv, NEW c \in Ops, TurnOfRefresh(c), UNCHANGED Outside
    PROVE  Inv'
<1>1. Turn(c, "refresh")
  BY DEF TurnOfRefresh
<1>2. CASE rec.present /\ rec.enabled
  <2> DEFINE o == [op[c] EXCEPT !.at = "resolving", !.snap = rec, !.config = rec.config]
  <2>1. /\ op' = [op EXCEPT ![c].at = "resolving", ![c].snap = rec, ![c].config = rec.config]
        /\ UNCHANGED <<rec, cache, queue, session, answers>>
    BY <1>2 DEF TurnOfRefresh
  <2>2. o \in OpRecords /\ Is(o, "refresh", "resolving", rec.config, rec, op[c].catalog)
    BY <1>1, TurnFacts, RowFields DEF OpRecords, Places, Is
  <2>3. op' = [op EXCEPT ![c] = o]
    BY <1>1, <2>1, TurnFacts DEF OpTable
  <2> HIDE DEF o
  <2>4. op' \in OpTable /\ Alone(c) /\ op'[c] = o
    BY <1>1, <2>2, <2>3, TurnFacts, Put
  <2>5. HasRead(op'[c]) /\ op'[c].at = "resolving"
    BY <1>1, <2>2, <2>4, TurnFacts, RowFields DEF Is, HasRead, CallPlaces
  <2>6. QED
    BY <1>1, <2>1, <2>4, <2>5, TurnFacts, MovePreserves
<1>3. CASE ~(rec.present /\ rec.enabled)
  BY <1>1, <1>3, TurnFacts, GonePreserves DEF TurnOfRefresh
<1>4. QED
  BY <1>2, <1>3

LEMMA TurnOfCallPreserves ==
    ASSUME Inv, NEW c \in Ops, TurnOfCall(c), UNCHANGED Outside
    PROVE  Inv'
<1>1. Turn(c, "call")
  BY DEF TurnOfCall
<1>2. CASE Forwardable(rec)
  <2> DEFINE b == session.phase = "connected" /\ ~session.changed
             o == [op[c] EXCEPT !.at = "status", !.snap = rec, !.config = rec.config,
                                !.connected = b]
  <2>1. /\ op' = [op EXCEPT ![c].at = "status", ![c].snap = rec, ![c].config = rec.config,
                            ![c].connected = b]
        /\ answers' = Append(answers, c)
        /\ UNCHANGED <<rec, cache, queue, session>>
    BY <1>2 DEF TurnOfCall
  <2>2. b \in BOOLEAN
    BY <1>1, TurnFacts DEF Sessions
  <2> HIDE DEF b
  <2>3. o \in OpRecords /\ Is(o, "call", "status", rec.config, rec, op[c].catalog)
    BY <1>1, <2>2, TurnFacts, RowFields DEF OpRecords, Places, Is
  <2>4. op' = [op EXCEPT ![c] = o]
    BY <1>1, <2>1, TurnFacts DEF OpTable
  <2> HIDE DEF o
  <2>5. op' \in OpTable /\ Alone(c) /\ op'[c] = o
    BY <1>1, <2>3, <2>4, TurnFacts, Put
  <2>6. HasRead(op'[c]) /\ op'[c].at = "status"
    BY <1>1, <2>3, <2>5, TurnFacts, RowFields DEF Is, HasRead, CallPlaces
  <2>7. QED
    BY <1>1, <2>1, <2>5, <2>6, TurnFacts, MovePreserves
<1>3. CASE ~Forwardable(rec)
  BY <1>1, <1>3, TurnFacts, GonePreserves DEF TurnOfCall
<1>4. QED
  BY <1>2, <1>3

\* An edit is written, whatever it does to `enabled`, by the first of the queue.
LEMMA PersistPreserves ==
    ASSUME Inv, NEW c \in Ops, First(c), NEW r \in Rows, Persist(c, r),
           r.catalog = rec.catalog, r.pending = rec.pending, UNCHANGED Outside
    PROVE  Inv'
<1>1. rec' = r /\ cache' = cache
  BY DEF Persist
<1>2. Published
  BY <1>1 DEF Inv, TypeOK, Reviewed, Published
<1>3. CASE r.enabled
  <2>1. Leave(c) /\ UNCHANGED <<session, answers>>
    BY <1>3 DEF Persist
  <2>2. session' \in Sessions /\ answers' \in Seq(Ops)
    BY <2>1 DEF Inv, TypeOK
  <2>3. QED
    BY <1>2, <2>1, <2>2, Leaves, Preserved
<1>4. CASE ~r.enabled
  <2>1. Disconnect(op, c, "save", answers)
    BY <1>4 DEF Persist
  <2>2. QED
    BY <1>2, <2>1, Answers, DisconnectPreserves
<1>5. QED
  BY <1>3, <1>4

LEMMA TurnOfEditPreserves ==
    ASSUME Inv, NEW c \in Ops, TurnOfEdit(c), UNCHANGED Outside
    PROVE  Inv'
<1>1. Turn(c, "edit")
  BY DEF TurnOfEdit
<1>2. op[c].config \in Configs /\ op[c].want \in Wants
  BY <1>1, TurnFacts, Fields DEF HasRead
<1>3. Wanted(rec, c) \in BOOLEAN
  BY <1>1, <1>2, TurnFacts, RowFields DEF Wanted, Wants
<1>4. CASE ~rec.present
  BY <1>1, <1>4, TurnFacts, GonePreserves DEF TurnOfEdit
<1>5. CASE rec.present /\ op[c].config = rec.config
  <2> DEFINE r == [rec EXCEPT !.enabled = Wanted(rec, c)]
  <2>1. Persist(c, r)
    BY <1>5 DEF TurnOfEdit
  <2>2. r \in Rows /\ r.catalog = rec.catalog /\ r.pending = rec.pending
    BY <1>1, <1>3, TurnFacts DEF Rows
  <2> HIDE DEF r
  <2>3. QED
    BY <1>1, <2>1, <2>2, TurnFacts, PersistPreserves
<1>6. CASE rec.present /\ op[c].config # rec.config /\ ~Wanted(rec, c)
  <2> DEFINE r == [rec EXCEPT !.enabled = FALSE, !.config = op[c].config, !.state = "degraded"]
  <2>1. Persist(c, r)
    BY <1>6 DEF TurnOfEdit
  <2>2. r \in Rows /\ r.catalog = rec.catalog /\ r.pending = rec.pending
    BY <1>1, <1>2, TurnFacts DEF Rows
  <2> HIDE DEF r
  <2>3. QED
    BY <1>1, <2>1, <2>2, TurnFacts, PersistPreserves
<1>7. CASE rec.present /\ op[c].config # rec.config /\ Wanted(rec, c)
  <2>1. /\ op' = [op EXCEPT ![c].at = "resolving", ![c].snap = rec]
        /\ UNCHANGED <<rec, cache, queue, session, answers>>
    BY <1>7 DEF TurnOfEdit
  <2>2. /\ op' \in OpTable /\ Alone(c)
        /\ Is(op'[c], "edit", "resolving", op[c].config, rec, op[c].catalog)
    BY <1>1, <2>1, TurnFacts, SetSnap DEF Places
  <2>3. HasRead(op'[c]) /\ op'[c].at = "resolving"
    BY <1>1, <1>2, <2>2, TurnFacts DEF Is, HasRead, CallPlaces
  <2>4. QED
    BY <1>1, <2>1, <2>2, <2>3, TurnFacts, MovePreserves
<1>8. QED
  BY <1>4, <1>5, <1>6, <1>7

LEMMA TurnOfRemovePreserves ==
    ASSUME Inv, NEW c \in Ops, TurnOfRemove(c), UNCHANGED Outside
    PROVE  Inv'
BY TurnFacts, GonePreserves, SamePublished, DisconnectPreserves DEF TurnOfRemove

LEMMA TurnOfDisablePreserves ==
    ASSUME Inv, NEW c \in Ops, TurnOfDisable(c), UNCHANGED Outside
    PROVE  Inv'
BY TurnFacts, GonePreserves, SamePublished, DisconnectPreserves DEF TurnOfDisable

LEMMA HasTurnPreserves == ASSUME Inv, NEW c \in Ops, HasTurn(c) PROVE Inv'
BY TurnOfRefreshPreserves, TurnOfCallPreserves, TurnOfEditPreserves, TurnOfRemovePreserves,
   TurnOfDisablePreserves
   DEF HasTurn

-----------------------------------------------------------------------------
(* The handshake *)

LEMMA SecretMissingPreserves == ASSUME Inv, NEW c \in Ops, SecretMissing(c) PROVE Inv'
<1>1. op[c].at \in Handshake \cup CallPlaces /\ UNCHANGED Outside
  BY DEF SecretMissing, Handshake, CallPlaces
<1>2. CASE op[c].task = "restore" /\ ~op[c].stale
  <2>1. Disconnect(op, c, "restore", answers) /\ UNCHANGED <<rec, cache>>
    BY <1>2 DEF SecretMissing
  <2>2. QED
    BY <1>1, <2>1, Worker, Answers, SamePublished, DisconnectPreserves
<1>3. CASE ~(op[c].task = "restore" /\ ~op[c].stale)
  BY <1>1, <1>3, Worker, GonePreserves DEF SecretMissing
<1>4. QED
  BY <1>2, <1>3

LEMMA ConnectPreserves == ASSUME Inv, NEW c \in Ops, Connect(c) PROVE Inv'
<1>1. op[c].at \in Handshake \cup CallPlaces /\ UNCHANGED Outside
  BY DEF Connect, Handshake
<1>2. CASE Overtaken(c)
  BY <1>1, <1>2, Worker, GonePreserves DEF Connect
<1>3. CASE ~Overtaken(c) /\ worker
  <2>1. /\ session' = NoSession /\ op' = [op EXCEPT ![c].at = "closing"]
        /\ UNCHANGED <<rec, cache, queue, answers>>
    BY <1>3 DEF Connect
  <2>2. session' \in Sessions /\ answers' \in Seq(Ops)
    BY <2>1, SessionsOf DEF Inv, TypeOK
  <2>3. "closing" \in Handshake \ CallPlaces
    BY DEF Handshake, CallPlaces
  <2>4. QED
    BY <1>1, <2>1, <2>2, <2>3, AtPreserves DEF CallPlaces
<1>4. CASE ~Overtaken(c) /\ ~worker
  <2>1. Answered(c, "failed", answers) /\ UNCHANGED <<rec, cache>>
    BY <1>4 DEF Connect
  <2>2. QED
    BY <1>1, <2>1, Answers, AnsweredPreserves
<1>5. QED
  BY <1>2, <1>3, <1>4, <1>1 DEF Connect, Inv, TypeOK

LEMMA WorkerOpensPreserves == ASSUME Inv, NEW c \in Ops, WorkerOpens(c) PROVE Inv'
<1>1. /\ op[c].at \in Handshake \cup CallPlaces
      /\ op' = [op EXCEPT ![c].at = "opening"] /\ session' = Session("opening", op[c].config)
      /\ UNCHANGED <<rec, cache, queue, answers>> /\ UNCHANGED Outside
  BY DEF WorkerOpens, Handshake
<1>2. session' \in Sessions /\ answers' \in Seq(Ops)
  BY <1>1, Worker, SessionsOf DEF Inv, TypeOK
<1>3. "opening" \in Handshake \ CallPlaces
  BY DEF Handshake, CallPlaces
<1>4. QED
  BY <1>1, <1>2, <1>3, AtPreserves DEF CallPlaces

LEMMA WorkerConnectedPreserves == ASSUME Inv, NEW c \in Ops, WorkerConnected(c) PROVE Inv'
<1>1. /\ op[c].at \in Handshake \cup CallPlaces
      /\ op' = [op EXCEPT ![c].at = "opened"] /\ session' = [session EXCEPT !.phase = "connected"]
      /\ answers' = Append(answers, c)
      /\ UNCHANGED <<rec, cache, queue>> /\ UNCHANGED Outside
  BY DEF WorkerConnected, Handshake
<1>2. session' \in Sessions /\ answers' \in Seq(Ops)
  BY <1>1, Answers, SessionsOf DEF Inv, TypeOK
<1>3. "opened" \in Handshake \ CallPlaces
  BY DEF Handshake, CallPlaces
<1>4. QED
  BY <1>1, <1>2, <1>3, AtPreserves DEF CallPlaces

LEMMA WorkerNotConnectedPreserves == ASSUME Inv, NEW c \in Ops, WorkerNotConnected(c) PROVE Inv'
<1>1. /\ op[c].at \in Handshake \cup CallPlaces
      /\ op' = [op EXCEPT ![c].at = "failed"]
      /\ \/ session' = session
         \/ session' = [session EXCEPT !.phase = "lost"]
      /\ answers' = Append(answers, c)
      /\ UNCHANGED <<rec, cache, queue>> /\ UNCHANGED Outside
  BY DEF WorkerNotConnected, Handshake
<1>2. session' \in Sessions /\ answers' \in Seq(Ops)
  BY <1>1, Answers, SessionsOf DEF Inv, TypeOK
<1>3. "failed" \in Handshake \ CallPlaces
  BY DEF Handshake, CallPlaces
<1>4. QED
  BY <1>1, <1>2, <1>3, AtPreserves DEF CallPlaces

LEMMA ReadOpenedPreserves == ASSUME Inv, NEW c \in Ops, ReadOpened(c) PROVE Inv'
<1>1. Reads(c, "opened") /\ UNCHANGED <<rec, cache>> /\ UNCHANGED Outside
  BY DEF ReadOpened
<1>2. /\ op[c].at \in Handshake \cup CallPlaces
      /\ Tail(answers) \in Seq(Ops)
  BY <1>1, AnswersOfReaders DEF Handshake, Places
<1>3. CASE Overtaken(c)
  <2>1. Disconnect(op, c, op[c].task, Tail(answers)) /\ op[c].task \in {"edit", "restore"}
    BY <1>3 DEF ReadOpened, Overtaken
  <2>2. QED
    BY <1>1, <1>2, <2>1, Worker, SamePublished, DisconnectPreserves
<1>4. CASE ~Overtaken(c) /\ session.phase # "none"
  <2>1. op' = [op EXCEPT ![c].at = "fetching"] /\ answers' = Tail(answers)
        /\ UNCHANGED <<queue, session>>
    BY <1>4 DEF ReadOpened
  <2>2. "fetching" \in Handshake \ CallPlaces /\ session' \in Sessions
    BY <2>1 DEF Handshake, CallPlaces, Inv, TypeOK
  <2>3. QED
    BY <1>1, <1>2, <2>1, <2>2, AtPreserves DEF CallPlaces
<1>5. CASE ~Overtaken(c) /\ session.phase = "none"
  BY <1>1, <1>2, <1>5, AnsweredPreserves DEF ReadOpened
<1>6. QED
  BY <1>3, <1>4, <1>5

LEMMA WorkerReopensPreserves == ASSUME Inv, NEW c \in Ops, WorkerReopens(c) PROVE Inv'
<1>1. /\ op[c].at \in Handshake \cup CallPlaces /\ op[c].at = "fetching"
      /\ session' = [session EXCEPT !.phase = "connected"]
      /\ UNCHANGED <<rec, cache, queue, op, answers>> /\ UNCHANGED Outside
  BY DEF WorkerReopens, Handshake
<1>2. session' \in Sessions /\ answers' \in Seq(Ops) /\ op' \in OpTable
  BY <1>1, SessionsOf DEF Inv, TypeOK, OpTable
<1>3. Alone(c) /\ op'[c] = op[c]
  BY <1>1 DEF Alone, Is
<1>4. QED
  BY <1>1, <1>2, <1>3, Worker, MovePreserves

LEMMA WorkerFetchedPreserves ==
    ASSUME Inv, NEW c \in Ops, NEW catalog \in Catalogs, WorkerFetched(c, catalog)
    PROVE  Inv'
<1>1. /\ op[c].at \in Handshake \cup CallPlaces
      /\ op' = [op EXCEPT ![c].at = "fetched", ![c].catalog = catalog]
      /\ answers' = Append(answers, c)
      /\ UNCHANGED <<rec, cache, queue, session>> /\ UNCHANGED Outside
  BY DEF WorkerFetched, Handshake
<1>2. session' \in Sessions /\ answers' \in Seq(Ops)
  BY <1>1, Answers DEF Inv, TypeOK
<1>3. /\ op' \in OpTable /\ Alone(c)
      /\ Is(op'[c], op[c].task, "fetched", op[c].config, op[c].snap, catalog)
  BY <1>1, Worker, SetCatalog DEF Places
<1>4. HasRead(op'[c]) /\ op'[c].at = "fetched"
  BY <1>1, <1>3, Worker DEF Is, HasRead, CallPlaces
<1>5. QED
  BY <1>1, <1>2, <1>3, <1>4, Worker, MovePreserves

LEMMA WorkerNotFetchedPreserves == ASSUME Inv, NEW c \in Ops, WorkerNotFetched(c) PROVE Inv'
BY Answers, AnsweredPreserves DEF WorkerNotFetched, Handshake

-----------------------------------------------------------------------------
(* Answers are read *)

\* What is known of the reader of an answer.
LEMMA Reader ==
    ASSUME Inv, NEW c \in Ops, NEW p \in Handshake \cup CallPlaces, Reads(c, p)
    PROVE  /\ op[c].at = p /\ op[c].at \in Handshake \cup CallPlaces /\ answers # <<>>
           /\ Tail(answers) \in Seq(Ops)
           /\ rec \in Rows /\ rec.catalog \in accepted
           /\ cache \in Catalogs \cup {None} /\ cache \in accepted \cup {None, rec.pending}
           /\ p = "fetched" => op[c].catalog \in Catalogs
<1>1. op[c].at = p /\ answers # <<>> /\ HasRead(op[c])
  BY DEF Reads, Inv
<1>2. Tail(answers) \in Seq(Ops)
  BY <1>1, Answers
<1>3. QED
  BY <1>1, <1>2 DEF Inv, TypeOK, Reviewed, HasRead

\* The last check of a call, with the row as it is left.
LEMMA ForwardPreserves ==
    ASSUME Inv, NEW c \in Ops, NEW p \in Handshake \cup CallPlaces, Reads(c, p),
           op[c].task = "call", NEW r \in Rows, r.catalog \in accepted,
           cache' \in Catalogs \cup {None}, cache' \in accepted \cup {None, r.pending},
           Forward(c, r), UNCHANGED Outside
    PROVE  Inv'
<1>1. First(c) /\ op[c].at \in Handshake \cup CallPlaces /\ answers # <<>> /\ Tail(answers) \in Seq(Ops)
  BY Reader, Worker
<1>2. CASE Ends(c, r)
  <2>1. Published
    BY <1>2 DEF Ends, Published
  <2>2. QED
    BY <1>1, <1>2, <2>1, EndsPreserves
<1>3. CASE Ends(c, [r EXCEPT !.state = "needs-review"])
  <2>1. Published
    BY <1>3 DEF Ends, Published, Rows
  <2>2. QED
    BY <1>1, <1>3, <2>1, EndsPreserves
<1>4. CASE /\ Forwardable(r) /\ rec' = r
           /\ op' = [op EXCEPT ![c].at = "calling"] /\ answers' = Tail(answers)
           /\ UNCHANGED <<queue, session>>
  <2>1. "calling" \in Places
    BY DEF Places
  <2>2. /\ op' \in OpTable /\ Alone(c)
        /\ Is(op'[c], "call", "calling", op[c].config, op[c].snap, op[c].catalog)
    BY <1>1, <1>4, <2>1, Worker, SetAt
  <2>3. HasRead(op'[c])
    BY <1>1, <2>2, Worker DEF Is, HasRead
  <2>4. OneWorks' /\ queue' \in Seq(Ops)
    BY <1>1, <1>4, <2>2, QueueStays
  <2>5. CallsAreAllowed'
    BY <1>1, <1>4, <2>2, CallsOfTheFirst DEF Forwardable
  <2>6. Published
    BY <1>4 DEF Published
  <2>7. session' \in Sessions /\ answers' \in Seq(Ops)
    BY <1>1, <1>4 DEF Inv, TypeOK
  <2>8. QED
    BY <2>2, <2>3, <2>4, <2>5, <2>6, <2>7, Preserved
<1>5. QED
  BY <1>2, <1>3, <1>4 DEF Forward

LEMMA ReadStatusPreserves == ASSUME Inv, NEW c \in Ops, ReadStatus(c) PROVE Inv'
<1>1. Reads(c, "status") /\ cache' = cache /\ UNCHANGED Outside
  BY DEF ReadStatus
<1>2. "status" \in Handshake \cup CallPlaces /\ op[c].task = "call"
  BY <1>1 DEF CallPlaces, Reads, Inv, HasRead
<1>3. CASE op[c].connected
  <2>1. Forward(c, rec)
    BY <1>3 DEF ReadStatus
  <2>2. QED
    BY <1>1, <1>2, <2>1, Reader, ForwardPreserves
<1>4. CASE ~op[c].connected
  <2>1. /\ op' = [op EXCEPT ![c].at = "resolving"] /\ answers' = Tail(answers)
        /\ UNCHANGED <<rec, queue, session>>
    BY <1>4 DEF ReadStatus
  <2>2. "resolving" \in Handshake \ CallPlaces /\ session' \in Sessions
    BY <2>1 DEF Handshake, CallPlaces, Inv, TypeOK
  <2>3. op[c].at \in Handshake \cup CallPlaces /\ answers' \in Seq(Ops)
    BY <1>1, <1>2, <2>1, Reader
  <2>4. QED
    BY <1>1, <2>1, <2>2, <2>3, AtPreserves DEF CallPlaces
<1>5. QED
  BY <1>3, <1>4

LEMMA FetchedIsAPlace == "fetched" \in Handshake \cup CallPlaces
BY DEF Handshake

LEMMA ReadRefreshedPreserves == ASSUME Inv, NEW c \in Ops, ReadRefreshed(c) PROVE Inv'
<1> DEFINE r == IF op[c].catalog # op[c].snap.catalog
                THEN NeedsReview(rec, op[c].catalog) ELSE Verified(rec, op[c].catalog)
<1>1. Reads(c, "fetched") /\ cache' = op[c].catalog /\ Ends(c, r) /\ UNCHANGED Outside
  BY DEF ReadRefreshed
<1>2. First(c) /\ op[c].snap.catalog \in accepted
  BY <1>1, FetchedIsAPlace, Reader, Worker
<1>3. r \in Rows /\ r.catalog \in accepted /\ op[c].catalog \in accepted \cup {r.pending}
  BY <1>1, <1>2, FetchedIsAPlace, Reader, RowsOf
<1> HIDE DEF r
<1>4. Published
  BY <1>1, <1>3, FetchedIsAPlace, Reader DEF Published, Ends
<1>5. QED
  BY <1>1, <1>2, <1>4, FetchedIsAPlace, Reader, EndsPreserves

LEMMA ReadReconnectedPreserves == ASSUME Inv, NEW c \in Ops, ReadReconnected(c) PROVE Inv'
<1> DEFINE r == IF op[c].catalog # op[c].snap.catalog
                THEN NeedsReview(rec, op[c].catalog) ELSE rec
<1>1. /\ Reads(c, "fetched") /\ op[c].task = "call" /\ cache' = op[c].catalog
      /\ Forward(c, r) /\ UNCHANGED Outside
  BY DEF ReadReconnected
<1>2. op[c].snap.catalog \in accepted
  BY <1>1, FetchedIsAPlace, Reader, Worker
<1>3. r \in Rows /\ r.catalog \in accepted /\ op[c].catalog \in accepted \cup {r.pending}
  BY <1>1, <1>2, FetchedIsAPlace, Reader, RowsOf
<1> HIDE DEF r
<1>4. cache' \in Catalogs \cup {None} /\ cache' \in accepted \cup {None, r.pending}
  BY <1>1, <1>3, FetchedIsAPlace, Reader
<1>5. QED
  BY <1>1, <1>3, <1>4, FetchedIsAPlace, ForwardPreserves

LEMMA ReadEditedPreserves == ASSUME Inv, NEW c \in Ops, ReadEdited(c) PROVE Inv'
<1>1. Reads(c, "fetched") /\ op[c].task = "edit" /\ UNCHANGED Outside
  BY DEF ReadEdited
<1>2. /\ First(c) /\ op[c].snap \in Rows /\ op[c].snap.catalog \in accepted
      /\ op[c].config \in Configs /\ op[c] \in OpRecords
  BY <1>1, FetchedIsAPlace, Reader, Worker
<1>3. CASE Overtaken(c)
  <2>1. Disconnect(op, c, "edit", Tail(answers)) /\ UNCHANGED <<rec, cache>>
    BY <1>3 DEF ReadEdited
  <2>2. QED
    BY <1>1, <1>2, <2>1, FetchedIsAPlace, Reader, SamePublished, DisconnectPreserves
<1>4. CASE ~Overtaken(c)
  <2> DEFINE r == [rec EXCEPT !.config = op[c].config, !.enabled = Wanted(rec, c)]
  <2>1. cache' = op[c].catalog /\ Ends(c, Edited(c))
    BY <1>4 DEF ReadEdited
  <2>2. Wanted(rec, c) \in BOOLEAN
    BY <1>1, <1>2, FetchedIsAPlace, Reader, Fields, RowFields DEF Wanted, Wants
  <2>3. r \in Rows /\ r.catalog = rec.catalog
    BY <1>1, <1>2, <2>2, FetchedIsAPlace, Reader DEF Rows
  <2>4. \/ Edited(c) = NeedsReview(r, op[c].catalog)
        \/ Edited(c) = Verified(r, op[c].catalog) /\ op[c].catalog = op[c].snap.catalog
    BY DEF Edited
  <2> HIDE DEF r
  <2>5. /\ Edited(c) \in Rows /\ Edited(c).catalog \in accepted
        /\ op[c].catalog \in accepted \cup {Edited(c).pending}
    <3>1. op[c].catalog \in Catalogs /\ rec.catalog \in accepted
      BY <1>1, FetchedIsAPlace, Reader
    <3>2. CASE Edited(c) = NeedsReview(r, op[c].catalog)
      BY <2>3, <3>1, <3>2, RowsOf
    <3>3. CASE Edited(c) = Verified(r, op[c].catalog) /\ op[c].catalog = op[c].snap.catalog
      BY <1>2, <2>3, <3>1, <3>3, RowsOf
    <3>4. QED
      BY <2>4, <3>2, <3>3
  <2>6. Published
    BY <1>1, <2>1, <2>5, FetchedIsAPlace, Reader DEF Published, Ends
  <2>7. QED
    BY <1>1, <1>2, <2>1, <2>6, FetchedIsAPlace, Reader, EndsPreserves
<1>5. QED
  BY <1>3, <1>4

LEMMA ReadRestoredPreserves == ASSUME Inv, NEW c \in Ops, ReadRestored(c) PROVE Inv'
<1>1. Reads(c, "fetched") /\ op[c].task = "restore" /\ UNCHANGED Outside
  BY DEF ReadRestored
<1>2. /\ First(c) /\ op[c].snap \in Rows /\ op[c].snap.catalog \in accepted
  BY <1>1, FetchedIsAPlace, Reader, Worker
<1>3. CASE Overtaken(c)
  <2>1. Disconnect(op, c, "restore", Tail(answers)) /\ UNCHANGED <<rec, cache>>
    BY <1>3 DEF ReadRestored
  <2>2. QED
    BY <1>1, <1>2, <2>1, FetchedIsAPlace, Reader, SamePublished, DisconnectPreserves
<1>4. CASE ~Overtaken(c) /\ op[c].catalog # op[c].snap.catalog
  <2>1. cache' = op[c].catalog /\ Ends(c, NeedsReview(rec, op[c].catalog))
    BY <1>4 DEF ReadRestored
  <2>2. Published
    BY <1>1, <2>1, FetchedIsAPlace, Reader, RowsOf DEF Published, Ends
  <2>3. QED
    BY <1>1, <1>2, <2>1, <2>2, FetchedIsAPlace, Reader, EndsPreserves
<1>5. CASE ~Overtaken(c) /\ op[c].catalog = op[c].snap.catalog
  <2> DEFINE r == IF op[c].snap.state = "degraded" THEN [rec EXCEPT !.state = "active"] ELSE rec
  <2>1. cache' = op[c].catalog /\ Ends(c, r)
    BY <1>5 DEF ReadRestored
  <2>2. r \in Rows /\ r.catalog = rec.catalog
    BY <1>1, FetchedIsAPlace, Reader DEF Rows
  <2> HIDE DEF r
  <2>3. Published
    BY <1>1, <1>2, <1>5, <2>1, <2>2, FetchedIsAPlace, Reader DEF Published, Ends
  <2>4. QED
    BY <1>1, <1>2, <2>1, <2>3, FetchedIsAPlace, Reader, EndsPreserves
<1>6. QED
  BY <1>3, <1>4, <1>5

\* It was the last answer, and leaves a row with the same catalogs.
LEMMA LastAnswerPreserves ==
    ASSUME Inv, NEW c \in Ops, First(c), answers # <<>>, NEW r \in Rows, Ends(c, r),
           r.catalog = rec.catalog, r.pending = rec.pending,
           cache' \in {None, cache}, UNCHANGED Outside
    PROVE  Inv'
<1>1. Published
  BY DEF Published, Ends, Inv, TypeOK, Reviewed
<1>2. QED
  BY <1>1, EndsPreserves

LEMMA ReadFailedPreserves == ASSUME Inv, NEW c \in Ops, ReadFailed(c) PROVE Inv'
<1>1. Reads(c, "failed") /\ cache' = cache /\ UNCHANGED Outside
  BY DEF ReadFailed
<1>2. "failed" \in Handshake \cup CallPlaces
  BY DEF Handshake
<1>3. /\ First(c) /\ op[c].task \in {"refresh", "call", "edit", "restore"}
      /\ op[c].snap \in Rows /\ op[c].snap.catalog \in accepted /\ op[c].config \in Configs
  BY <1>1, <1>2, Reader, Worker
<1>4. CASE op[c].task = "refresh"
  <2>1. Ends(c, Degraded(rec))
    BY <1>4 DEF ReadFailed
  <2>2. /\ Degraded(rec) \in Rows /\ Degraded(rec).catalog = rec.catalog
        /\ Degraded(rec).pending = rec.pending
    BY <1>1, <1>2, Reader DEF Degraded, Rows
  <2>3. QED
    BY <1>1, <1>2, <1>3, <2>1, <2>2, Reader, LastAnswerPreserves
<1>5. CASE op[c].task = "call"
  <2>1. Ends(c, rec)
    BY <1>5 DEF ReadFailed
  <2>2. Published
    BY <1>1, <2>1, SamePublished DEF Ends
  <2>3. QED
    BY <1>1, <1>2, <1>3, <2>1, <2>2, Reader, EndsPreserves
<1>6. CASE op[c].task \in {"edit", "restore"}
  <2>1. Disconnect(op, c, op[c].task, Tail(answers)) /\ UNCHANGED rec
    BY <1>6 DEF ReadFailed
  <2>2. QED
    BY <1>1, <1>2, <1>3, <1>6, <2>1, Reader, SamePublished, DisconnectPreserves
<1>7. QED
  BY <1>3, <1>4, <1>5, <1>6

\* The answer to a request for the end of the session.
LEMMA Disconnected ==
    ASSUME Inv, NEW c \in Ops, Reads(c, "disconnecting")
    PROVE  /\ op[c].at = "disconnecting" /\ answers # <<>> /\ Tail(answers) \in Seq(Ops)
           /\ op[c].task \in {"edit", "restore", "save", "remove", "disable"}
           /\ op[c].task # "disable" => First(c)
           /\ op[c].task \in {"edit", "restore"} =>
                  op[c].snap \in Rows /\ op[c].snap.catalog \in accepted
<1>1. op[c].at = "disconnecting" /\ answers # <<>> /\ HasRead(op[c])
  BY DEF Reads, Inv
<1>2. op[c].task \in {"edit", "restore", "save", "remove", "disable"}
  BY <1>1 DEF HasRead
<1>3. op[c].task # "disable" => First(c)
  BY <1>1, <1>2 DEF Inv, OneWorks, Works, First
<1>4. QED
  BY <1>1, <1>2, <1>3, Answers DEF HasRead

LEMMA AfterEditPreserves ==
    ASSUME Inv, NEW c \in Ops, Reads(c, "disconnecting"), op[c].task = "edit", AfterEdit(c),
           cache' = cache, UNCHANGED Outside
    PROVE  Inv'
<1>1. /\ First(c) /\ Tail(answers) \in Seq(Ops) /\ answers # <<>>
      /\ op[c].snap \in Rows /\ op[c].snap.catalog \in accepted
  BY Disconnected
<1>2. op \in OpTable /\ rec \in Rows
  BY DEF Inv, TypeOK, OpTable
<1>3. CASE ~op[c].stale /\ rec.enabled /\ op[c].snap.enabled
  <2> DEFINE k == op[c].snap.config
  <2>1. /\ op' = [op EXCEPT ![c].at = "resolving", ![c].task = "restore", ![c].config = k]
        /\ answers' = Tail(answers) /\ UNCHANGED <<rec, queue, session>>
    BY <1>3 DEF AfterEdit
  <2>2. k \in Configs /\ "resolving" \in Places /\ "restore" \in Tasks
    BY <1>1, RowFields DEF Places, Tasks
  <2> HIDE DEF k
  <2>3. /\ op' \in OpTable /\ Alone(c)
        /\ Is(op'[c], "restore", "resolving", k, op[c].snap, op[c].catalog)
    BY <1>2, <2>1, <2>2, SetTaskAndConfig
  <2>4. HasRead(op'[c]) /\ op'[c].at = "resolving"
    BY <1>1, <2>2, <2>3 DEF Is, HasRead, CallPlaces
  <2>5. session' \in Sessions /\ answers' \in Seq(Ops)
    BY <1>1, <2>1 DEF Inv, TypeOK
  <2>6. QED
    BY <1>1, <2>1, <2>3, <2>4, <2>5, MovePreserves
<1>4. CASE ~(~op[c].stale /\ rec.enabled /\ op[c].snap.enabled)
  <2>1. Ends(c, rec)
    BY <1>4 DEF AfterEdit
  <2>2. QED
    BY <1>1, <1>2, <2>1, LastAnswerPreserves
<1>5. QED
  BY <1>3, <1>4

LEMMA AfterDisablePreserves ==
    ASSUME Inv, NEW c \in Ops, Reads(c, "disconnecting"), op[c].task = "disable",
           AfterDisable(c), cache' = cache, UNCHANGED Outside
    PROVE  Inv'
<1>1. op \in OpTable /\ rec \in Rows /\ session \in Sessions /\ Tail(answers) \in Seq(Ops)
  BY Disconnected DEF Inv, TypeOK, OpTable
<1>2. CASE queue # <<>> /\ Head(queue) = c
  <2>1. Ends(c, rec) /\ First(c)
    BY <1>2 DEF AfterDisable, First
  <2>2. QED
    BY <1>1, <2>1, Disconnected, LastAnswerPreserves
<1>3. CASE queue # <<>> /\ Head(queue) # c
  <2>1. Enqueue(c, Task("disable")) /\ answers' = Tail(answers) /\ UNCHANGED <<rec, session>>
    BY <1>3 DEF AfterDisable
  <2>2. Task("disable") \in OpRecords /\ Task("disable").task = "disable"
    BY NewOps DEF Tasks, Is
  <2>3. QED
    BY <1>1, <2>1, <2>2, EnqueuePreserves
<1>4. CASE queue = <<>>
  <2>1. /\ op' = [op EXCEPT ![c] = Over] /\ answers' = Tail(answers)
        /\ UNCHANGED <<rec, queue, session>>
    BY <1>4 DEF AfterDisable
  <2>2. op' \in OpTable /\ Alone(c) /\ op'[c] = Over
    BY <1>1, <2>1, NewOps, Put
  <2>3. HasRead(op'[c]) /\ ~Works(op'[c]) /\ op'[c].at = "over"
    BY <2>2, NewOps DEF Is, HasRead, Works, Handshake, CallPlaces
  <2>4. OneWorks' /\ queue' \in Seq(Ops)
    BY <2>1, <2>2, <2>3, QueueStays
  <2>5. CallsAreAllowed'
    BY <2>1, <2>2, <2>3, CallsOfOthers
  <2>6. QED
    BY <1>1, <2>1, <2>2, <2>3, <2>4, <2>5, SamePublished, Preserved
<1>5. QED
  BY <1>2, <1>3, <1>4

LEMMA ReadDisconnectedPreserves == ASSUME Inv, NEW c \in Ops, ReadDisconnected(c) PROVE Inv'
<1>1. /\ Reads(c, "disconnecting") /\ UNCHANGED Outside
      /\ cache' = IF op[c].task = "remove" THEN None ELSE cache
  BY DEF ReadDisconnected
<1>2. rec \in Rows
  BY DEF Inv, TypeOK
<1>3. CASE op[c].task = "save"
  <2>1. Ends(c, rec)
    BY <1>3 DEF ReadDisconnected
  <2>2. QED
    BY <1>1, <1>2, <1>3, <2>1, Disconnected, LastAnswerPreserves
<1>4. CASE op[c].task = "edit"
  BY <1>1, <1>4, AfterEditPreserves DEF ReadDisconnected
<1>5. CASE op[c].task = "restore"
  <2> DEFINE r == IF op[c].stale THEN rec ELSE Degraded(rec)
  <2>1. Ends(c, r)
    BY <1>5 DEF ReadDisconnected
  <2>2. r \in Rows /\ r.catalog = rec.catalog /\ r.pending = rec.pending
    BY <1>2 DEF Degraded, Rows
  <2> HIDE DEF r
  <2>3. QED
    BY <1>1, <1>5, <2>1, <2>2, Disconnected, LastAnswerPreserves
<1>6. CASE op[c].task = "remove"
  <2> DEFINE r == [rec EXCEPT !.present = FALSE]
  <2>1. Ends(c, r)
    BY <1>6 DEF ReadDisconnected
  <2>2. r \in Rows /\ r.catalog = rec.catalog /\ r.pending = rec.pending
    BY <1>2 DEF Rows
  <2> HIDE DEF r
  <2>3. QED
    BY <1>1, <1>6, <2>1, <2>2, Disconnected, LastAnswerPreserves
<1>7. CASE op[c].task = "disable"
  BY <1>1, <1>7, AfterDisablePreserves DEF ReadDisconnected
<1>8. QED
  BY <1>1, <1>3, <1>4, <1>5, <1>6, <1>7, Disconnected

-----------------------------------------------------------------------------
(* Calls, and what happens around the operations *)

LEMMA CallPreserves == ASSUME Inv, NEW c \in Ops, Call(c) PROVE Inv'
<1>1. op[c].at = "calling" /\ op[c].at \in Handshake \cup CallPlaces /\ UNCHANGED Outside
  BY DEF Call, CallPlaces
<1>2. CASE session.phase = "connected"
  <2>1. /\ op' = [op EXCEPT ![c].at = "running"]
        /\ UNCHANGED <<rec, cache, queue, session, answers>>
    BY <1>2 DEF Call
  <2>2. /\ "running" \in Handshake \cup CallPlaces /\ op[c].task = "call"
        /\ session' \in Sessions /\ answers' \in Seq(Ops)
    BY <1>1, <2>1 DEF CallPlaces, Inv, HasRead, TypeOK
  <2>3. QED
    BY <1>1, <2>1, <2>2, AtPreserves
<1>3. CASE session.phase # "connected"
  BY <1>1, <1>3, Answers, AnsweredPreserves DEF Call
<1>4. QED
  BY <1>2, <1>3

LEMMA WorkerCalledPreserves == ASSUME Inv, NEW c \in Ops, WorkerCalled(c) PROVE Inv'
BY Answers, AnsweredPreserves DEF WorkerCalled, CallPlaces

\* The session changes by itself, and is not connected by that.
LEMMA SessionPreserves ==
    ASSUME Inv, session' \in Sessions, session'.phase \in {session.phase, "lost"},
           UNCHANGED <<rec, cache, queue, op, answers>>, UNCHANGED Outside
    PROVE  Inv'
<1>1. TypeOK'
  BY DEF Inv, TypeOK, Outside
<1>2. \A c \in Ops : HasRead(op[c])'
  BY DEF Inv, HasRead, Outside
<1>3. OneWorks' /\ Reviewed' /\ CallsAreAllowed'
  BY DEF Inv, OneWorks, Reviewed, CallsAreAllowed, Outside
<1>4. QED
  BY <1>1, <1>2, <1>3 DEF Inv

LEMMA SessionLostPreserves == ASSUME Inv, SessionLost PROVE Inv'
BY SessionsOf, SessionPreserves DEF SessionLost, Inv, TypeOK

LEMMA ListChangedPreserves == ASSUME Inv, ListChanged PROVE Inv'
BY SessionsOf, SessionPreserves DEF ListChanged, Inv, TypeOK

LEMMA WorkerDiesPreserves == ASSUME Inv, WorkerDies PROVE Inv'
<1>1. /\ worker' = FALSE /\ session' = NoSession
      /\ op' = [c \in Ops |-> IF c \in Pending THEN [op[c] EXCEPT !.at = "failed"] ELSE op[c]]
      /\ answers' = IF Pending = {} THEN answers ELSE Append(answers, Head(queue))
      /\ UNCHANGED <<rec, cache, queue, shown, accepted>>
  BY DEF WorkerDies
<1>2. op \in OpTable
  BY DEF Inv, TypeOK, OpTable
<1>3. ASSUME NEW c \in Pending
      PROVE  /\ c \in Ops /\ op[c].at \in Handshake \cup CallPlaces
             /\ queue # <<>> /\ Head(queue) = c
             /\ op'[c] \in OpRecords
             /\ Is(op'[c], op[c].task, "failed", op[c].config, op[c].snap, op[c].catalog)
  <2>1. c \in Ops /\ op[c].at \in Handshake \cup CallPlaces
    BY DEF Pending, Handshake, CallPlaces
  <2>2. queue # <<>> /\ Head(queue) = c
    BY <2>1, Worker DEF First
  <2>3. op'[c] = [op[c] EXCEPT !.at = "failed"]
    BY <1>1, <2>1
  <2>4. QED
    BY <1>2, <2>1, <2>2, <2>3 DEF OpTable, OpRecords, Places, Is
<1>4. ASSUME NEW c \in Ops \ Pending PROVE op'[c] = op[c]
  BY <1>1, <1>4
<1>5. op' \in OpTable
  BY <1>1, <1>2, <1>3, <1>4 DEF OpTable
<1>6. answers' \in Seq(Ops)
  <2>1. CASE Pending = {}
    BY <1>1, <2>1 DEF Inv, TypeOK
  <2>2. CASE Pending # {}
    <3>1. Head(queue) \in Ops
      BY <1>3, <2>2
    <3>2. QED
      BY <1>1, <2>2, <3>1 DEF Inv, TypeOK
  <2>3. QED
    BY <2>1, <2>2
<1>7. TypeOK'
  BY <1>1, <1>5, <1>6, SessionsOf DEF Inv, TypeOK, OpTable
<1>8. \A c \in Ops : HasRead(op[c])'
  <2> SUFFICES ASSUME NEW c \in Ops PROVE HasRead(op'[c])
    BY <1>1 DEF HasRead
  <2>1. CASE c \in Pending
    BY <2>1, <1>3, Worker DEF Is, HasRead, CallPlaces
  <2>2. CASE c \notin Pending
    BY <2>2, <1>4 DEF Inv
  <2>3. QED
    BY <2>1, <2>2
<1>9. OneWorks'
  <2> SUFFICES ASSUME NEW c \in Ops, Works(op'[c]) PROVE queue # <<>> /\ Head(queue) = c
    BY <1>1 DEF OneWorks, Works
  <2>1. CASE c \in Pending
    BY <2>1, <1>3
  <2>2. CASE c \notin Pending
    BY <2>2, <1>4 DEF Inv, OneWorks
  <2>3. QED
    BY <2>1, <2>2
<1>10. Reviewed' /\ CallsAreAllowed'
  BY <1>1, SessionsOf DEF Inv, Reviewed, CallsAreAllowed
<1>11. QED
  BY <1>7, <1>8, <1>9, <1>10 DEF Inv

LEMMA RestartPreserves == ASSUME Inv, Restart PROVE Inv'
<1>1. /\ cache' = None /\ queue' = <<>> /\ session' = NoSession /\ answers' = <<>>
      /\ worker' = TRUE /\ UNCHANGED <<rec, shown, accepted>>
      /\ op' = [c \in Ops |-> IF op[c].at = "idle" THEN NoOp ELSE Over]
  BY DEF Restart
<1>2. ASSUME NEW c \in Ops
      PROVE  op'[c] \in OpRecords /\ HasRead(op'[c]) /\ ~Works(op'[c])
  <2>1. op'[c] \in {NoOp, Over}
    BY <1>1
  <2>2. QED
    BY <2>1, NewOps DEF Is, HasRead, Works, Handshake, CallPlaces
<1>3. TypeOK'
  BY <1>1, <1>2, SessionsOf DEF Inv, TypeOK
<1>4. \A c \in Ops : HasRead(op[c])'
  BY <1>1, <1>2 DEF HasRead
<1>5. OneWorks'
  BY <1>2 DEF OneWorks, Works
<1>6. Reviewed' /\ CallsAreAllowed'
  BY <1>1, SessionsOf DEF Inv, Reviewed, CallsAreAllowed
<1>7. QED
  BY <1>3, <1>4, <1>5, <1>6 DEF Inv

-----------------------------------------------------------------------------
(* The theorems *)

LEMMA InitInv == Init => Inv
<1> SUFFICES ASSUME Init PROVE Inv
  OBVIOUS
<1>1. rec \in Rows /\ rec.catalog = Agreed
  BY CatalogsAssumption, ConfigsAssumption DEF Init, Rows
<1>2. \A c \in Ops : op[c] = NoOp
  BY DEF Init
<1>3. session \in Sessions
  BY SessionsOf, ConfigsAssumption DEF Init
<1>4. TypeOK
  BY <1>1, <1>3, NewOps, CatalogsAssumption DEF Init, TypeOK
<1>5. \A c \in Ops : HasRead(op[c]) /\ ~Works(op[c]) /\ op[c].at = "idle"
  BY <1>2, NewOps DEF Is, HasRead, Works, Handshake, CallPlaces
<1>6. Reviewed
  BY <1>1 DEF Init, Reviewed
<1>7. QED
  BY <1>4, <1>5, <1>6 DEF Inv, OneWorks, CallsAreAllowed

LEMMA NextInv == Inv /\ [Next]_vars => Inv'
<1> SUFFICES ASSUME Inv, [Next]_vars PROVE Inv'
  OBVIOUS
<1>1. ASSUME NEW c \in Ops, Step(c) PROVE Inv'
  BY <1>1, HasTurnPreserves, SecretMissingPreserves, ConnectPreserves, ReadOpenedPreserves,
     ReadStatusPreserves, ReadRefreshedPreserves, ReadReconnectedPreserves, ReadEditedPreserves,
     ReadRestoredPreserves, ReadFailedPreserves, ReadDisconnectedPreserves, CallPreserves
     DEF Step
<1>2. ASSUME NEW c \in Ops, WorkerStep(c) PROVE Inv'
  BY <1>2, WorkerOpensPreserves, WorkerConnectedPreserves, WorkerNotConnectedPreserves,
     WorkerReopensPreserves, WorkerFetchedPreserves, WorkerNotFetchedPreserves,
     WorkerCalledPreserves
     DEF WorkerStep
<1>3. CASE UNCHANGED vars
  <2>1. TypeOK'
    BY <1>3 DEF Inv, TypeOK, vars
  <2>2. \A c \in Ops : HasRead(op[c])'
    BY <1>3 DEF Inv, HasRead, vars
  <2>3. OneWorks' /\ Reviewed' /\ CallsAreAllowed'
    BY <1>3 DEF Inv, OneWorks, Works, Reviewed, CallsAreAllowed, vars
  <2>4. QED
    BY <2>1, <2>2, <2>3 DEF Inv
<1>4. QED
  BY <1>1, <1>2, <1>3, BeginPreserves, EditPreserves, DisablePreserves, EnablePreserves,
     ToggleAgainPreserves, ShowPreserves, AcceptPreserves, SessionLostPreserves,
     ListChangedPreserves, WorkerDiesPreserves, RestartPreserves
     DEF Next

LEMMA AlwaysInv == Spec => []Inv
BY InitInv, NextInv, PTL DEF Spec

\* The row, the sessions, the queue and what each operation has read keep their types; above all,
\* the queue is not empty when the operation at its head leaves it.
THEOREM TypeCorrect == Spec => []TypeOK
<1>1. Inv => TypeOK
  BY DEF Inv
<1>2. QED
  BY <1>1, AlwaysInv, PTL

\* Only catalogs that the operator has accepted are used, and published unless the row says that
\* they await review: whichever operations overlap with the review, and across restarts.
THEOREM AcceptedIsUsed == Spec => []OnlyAcceptedIsUsed
<1>1. Inv => OnlyAcceptedIsUsed
  BY DEF Inv, Reviewed, OnlyAcceptedIsUsed, CatalogFor
<1>2. QED
  BY <1>1, AlwaysInv, PTL

\* No call runs on a session that stands once the server is disabled or removed, although both
\* may come between the last check of the call and its request.
THEOREM CutOff == Spec => []CutOffHolds
<1>1. Inv => CutOffHolds
  BY DEF Inv, CallsAreAllowed, CutOffHolds
<1>2. QED
  BY <1>1, AlwaysInv, PTL

-----------------------------------------------------------------------------
(* The session of the worker: what a standing session is kept by *)

\* Where the request of an operation has been answered, or its own session may stand.
AnswerPlaces == {"status", "opened", "fetched", "failed", "disconnecting"}
Opening == {"opening", "opened", "fetching", "fetched", "failed"}

\* Every answer is of an operation that awaits it, and of no other answer.
Answering ==
    /\ \A i \in DOMAIN answers : op[answers[i]].at \in AnswerPlaces
    /\ \A i, j \in DOMAIN answers : answers[i] = answers[j] => i = j

\* A cut that is to be read yet, one that is read before the next answer of c, and one that
\* was read and waits for the lock.
IsCut(o) == o.at = "disconnecting" /\ o.task = "disable"
CutComes == \E i \in DOMAIN answers : IsCut(op[answers[i]])
CutBefore(c) ==
    \E i \in DOMAIN answers : IsCut(op[answers[i]]) /\ \A j \in 1 .. i : answers[j] # c
AwaitsCut(o) == o.at = "waiting" /\ o.task = "disable"
CutAwaits == \E i \in DOMAIN queue : AwaitsCut(op[queue[i]])

\* A session may stand, for now.
MayStand == rec.enabled \/ CutAwaits

\* The session while c holds the lock.
SessionFor(c) ==
    LET o == op[c] IN
    session.phase # "none" =>
        IF o.at \in Opening /\ o.task = "edit"
        THEN o.at # "failed" => session.config = o.config
        ELSE /\ session.config = rec.config
             /\ MayStand \/ (o.at \in Opening /\ CutBefore(c))

\* What holds while c works.
Holds(c) ==
    LET o == op[c] IN
    /\ rec.present
    /\ o.at # "disconnecting" /\ o.task # "edit" => o.config = rec.config
    /\ o.task \in {"edit", "restore"} => o.snap # None /\ o.snap.config = rec.config
    /\ o.at \in Handshake /\ o.task = "edit" /\ ~o.stale => Wanted(rec, c)
    /\ o.at = "disconnecting" /\ o.task = "remove" => session.phase = "none"
    /\ o.at \in {"status", "resolving", "closing"} /\ o.task # "edit" => MayStand \/ CutComes
    /\ SessionFor(c)

\* The session while nobody works.
Rests == session.phase # "none" => rec.present /\ session.config = rec.config /\ MayStand

SessionInv ==
    /\ Answering
    /\ \A c \in Ops : Works(op[c]) => Holds(c)
    /\ (\A c \in Ops : ~Works(op[c])) => Rests

-----------------------------------------------------------------------------
(* Answers and cuts as they are carried over a step *)

\* All operations but c are as they were.
Untouched(c) == \A d \in Ops \ {c} : op'[d] = op[d]

LEMMA Sequences ==
    ASSUME Inv
    PROVE  /\ op \in OpTable /\ rec \in Rows /\ answers \in Seq(Ops) /\ queue \in Seq(Ops)
           /\ \A i \in DOMAIN answers : answers[i] \in Ops
           /\ \A i \in DOMAIN queue : queue[i] \in Ops
<1>1. op \in OpTable /\ rec \in Rows /\ answers \in Seq(Ops) /\ queue \in Seq(Ops)
  BY DEF Inv, TypeOK, OpTable
<1>2. QED
  BY <1>1

LEMMA Appended ==
    ASSUME NEW S, NEW s \in Seq(S), NEW x \in S
    PROVE  /\ DOMAIN Append(s, x) = 1 .. (Len(s) + 1) /\ Append(s, x)[Len(s) + 1] = x
           /\ \A i \in DOMAIN s : i \in DOMAIN Append(s, x) /\ Append(s, x)[i] = s[i]
           /\ \A i \in DOMAIN Append(s, x) : i \in DOMAIN s \/ i = Len(s) + 1
           /\ Len(s) + 1 \notin DOMAIN s
OBVIOUS

LEMMA Tailed ==
    ASSUME NEW S, NEW s \in Seq(S), s # <<>>
    PROVE  /\ \A i \in DOMAIN Tail(s) : i + 1 \in DOMAIN s /\ Tail(s)[i] = s[i + 1] /\ i + 1 # 1
           /\ \A i \in DOMAIN s \ {1} : i - 1 \in DOMAIN Tail(s) /\ Tail(s)[i - 1] = s[i]
           /\ 1 \in DOMAIN s /\ Head(s) = s[1]
           /\ DOMAIN s \subseteq Nat \ {0} /\ DOMAIN Tail(s) \subseteq Nat
OBVIOUS

\* The answer of c is sent, or read, or neither.
LEMMA AnswersKept ==
    ASSUME Inv, Answering, NEW c \in Ops, Alone(c),
           \/ answers' = answers /\ op[c].at \notin AnswerPlaces
           \/ /\ answers' = Append(answers, c)
              /\ op[c].at \notin AnswerPlaces /\ op'[c].at \in AnswerPlaces
           \/ answers # <<>> /\ Head(answers) = c /\ answers' = Tail(answers)
           \/ /\ answers # <<>> /\ Head(answers) = c /\ answers' = Append(Tail(answers), c)
              /\ op'[c].at \in AnswerPlaces
    PROVE  Answering'
<1>1. answers \in Seq(Ops) /\ \A i \in DOMAIN answers : answers[i] \in Ops
  BY Sequences
<1>2. ASSUME NEW i \in DOMAIN answers, answers[i] # c PROVE op'[answers[i]].at \in AnswerPlaces
  BY <1>1, <1>2 DEF Alone, Is, Answering
<1>3. CASE op[c].at \notin AnswerPlaces
  <2>1. \A i \in DOMAIN answers : answers[i] # c
    BY <1>3 DEF Answering
  <2>2. CASE answers' = answers
    BY <1>2, <2>1, <2>2 DEF Answering
  <2>3. CASE answers' = Append(answers, c) /\ op'[c].at \in AnswerPlaces
    BY <1>1, <1>2, <2>1, <2>3, Appended DEF Answering
  <2>4. CASE answers # <<>> /\ Head(answers) = c
    BY <1>1, <2>1, <2>4, Tailed
  <2>5. QED
    BY <2>2, <2>3, <2>4
<1>4. CASE answers # <<>> /\ Head(answers) = c
  <2> DEFINE t == Tail(answers)
  <2>1. t \in Seq(Ops)
    BY <1>1, <1>4
  <2>2. ASSUME NEW i \in DOMAIN t
        PROVE  i + 1 \in DOMAIN answers /\ t[i] = answers[i + 1] /\ t[i] # c
    <3>1. i + 1 \in DOMAIN answers /\ i + 1 # 1 /\ 1 \in DOMAIN answers
          /\ t[i] = answers[i + 1] /\ answers[1] = c
      BY <1>1, <1>4, Tailed
    <3>2. QED
      BY <3>1 DEF Answering
  <2>3. \A i, j \in DOMAIN t : t[i] = t[j] => i = j
    <3>1. SUFFICES ASSUME NEW i \in DOMAIN t, NEW j \in DOMAIN t, t[i] = t[j] PROVE i = j
      OBVIOUS
    <3>2. i + 1 = j + 1
      BY <2>2, <3>1 DEF Answering
    <3>3. i \in Nat /\ j \in Nat
      BY <1>1, <1>4, Tailed
    <3>4. QED
      BY <3>2, <3>3
  <2>4. \A i \in DOMAIN t : op'[t[i]].at \in AnswerPlaces
    BY <1>2, <2>2
  <2> HIDE DEF t
  <2>5. CASE answers' = t
    BY <2>3, <2>4, <2>5 DEF Answering
  <2>6. CASE answers' = Append(t, c) /\ op'[c].at \in AnswerPlaces
    BY <2>1, <2>2, <2>3, <2>4, <2>6, Appended DEF Answering
  <2>7. CASE answers' = answers /\ op[c].at \notin AnswerPlaces
    BY <1>3, <2>7, <1>1, <1>4, Tailed DEF Answering
  <2>8. CASE answers' = Append(answers, c) /\ op[c].at \notin AnswerPlaces
    BY <2>8, <1>1, <1>4, Tailed DEF Answering
  <2>9. QED
    BY <2>5, <2>6, <2>7, <2>8 DEF t
<1>5. QED
  BY <1>3, <1>4

\* A cut that waits goes on waiting while another operation moves.
LEMMA AwaitsKept ==
    ASSUME Inv, NEW c \in Ops, Alone(c), ~AwaitsCut(op[c]), CutAwaits,
           \/ queue' = queue
           \/ queue' = Append(queue, c)
           \/ First(c) /\ queue' = Tail(queue)
    PROVE  CutAwaits'
<1>1. PICK i \in DOMAIN queue : AwaitsCut(op[queue[i]])
  BY DEF CutAwaits
<1>2. queue \in Seq(Ops) /\ queue[i] \in Ops
  BY <1>1, Sequences
<1>3. queue[i] # c /\ AwaitsCut(op'[queue[i]])
  BY <1>1, <1>2 DEF Alone, Is, AwaitsCut
<1>4. CASE queue' = queue
  BY <1>3, <1>4 DEF CutAwaits
<1>5. CASE queue' = Append(queue, c)
  <2>1. i \in DOMAIN queue' /\ queue'[i] = queue[i]
    BY <1>2, <1>5, Appended
  <2>2. QED
    BY <1>3, <2>1 DEF CutAwaits
<1>6. CASE First(c) /\ queue' = Tail(queue)
  <2>1. queue # <<>> /\ Head(queue) = c
    BY <1>6 DEF First
  <2>2. i # 1
    BY <1>2, <1>3, <2>1, Tailed
  <2>3. i - 1 \in DOMAIN queue' /\ queue'[i - 1] = queue[i]
    BY <1>2, <1>6, <2>1, <2>2, Tailed
  <2>4. QED
    BY <1>3, <2>3 DEF CutAwaits
<1>7. QED
  BY <1>4, <1>5, <1>6

\* So does a cut that is to be read.
LEMMA ComesKept ==
    ASSUME Inv, NEW c \in Ops, Alone(c), ~IsCut(op[c]), CutComes,
           \/ answers' = answers
           \/ answers' = Append(answers, c)
           \/ answers # <<>> /\ Head(answers) = c /\ answers' = Tail(answers)
    PROVE  CutComes'
<1>1. PICK i \in DOMAIN answers : IsCut(op[answers[i]])
  BY DEF CutComes
<1>2. answers \in Seq(Ops) /\ answers[i] \in Ops
  BY <1>1, Sequences
<1>3. answers[i] # c /\ IsCut(op'[answers[i]])
  BY <1>1, <1>2 DEF Alone, Is, IsCut
<1>4. CASE answers' = answers
  BY <1>3, <1>4 DEF CutComes
<1>5. CASE answers' = Append(answers, c)
  <2>1. i \in DOMAIN answers' /\ answers'[i] = answers[i]
    BY <1>2, <1>5, Appended
  <2>2. QED
    BY <1>3, <2>1 DEF CutComes
<1>6. CASE answers # <<>> /\ Head(answers) = c /\ answers' = Tail(answers)
  <2>1. i # 1
    BY <1>2, <1>3, <1>6, Tailed
  <2>2. i - 1 \in DOMAIN answers' /\ answers'[i - 1] = answers[i]
    BY <1>2, <1>6, <2>1, Tailed
  <2>3. QED
    BY <1>3, <2>2 DEF CutComes
<1>7. QED
  BY <1>4, <1>5, <1>6

LEMMA BeforeKept ==
    ASSUME Inv, NEW c \in Ops, Alone(c), ~IsCut(op[c]), NEW d \in Ops, CutBefore(d),
           answers' = answers \/ answers' = Append(answers, c)
    PROVE  CutBefore(d)'
<1>1. PICK i \in DOMAIN answers :
          IsCut(op[answers[i]]) /\ \A j \in 1 .. i : answers[j] # d
  BY DEF CutBefore
<1>2. answers \in Seq(Ops) /\ answers[i] \in Ops /\ 1 .. i \subseteq DOMAIN answers
  BY <1>1, Sequences
<1>3. answers[i] # c /\ IsCut(op'[answers[i]])
  BY <1>1, <1>2 DEF Alone, Is, IsCut
<1>4. i \in DOMAIN answers' /\ \A j \in 1 .. i : answers'[j] = answers[j]
  BY <1>2, Appended
<1>5. 1 .. i = (1 .. i)' /\ i \in 1 .. i
  BY <1>2
<1>6. QED
  BY <1>1, <1>3, <1>4, <1>5 DEF CutBefore

\* No cut is read before an answer that is the next, and any before one that is not sent.
LEMMA NextAnswer ==
    ASSUME Inv, NEW c \in Ops, answers # <<>>, Head(answers) = c
    PROVE  ~CutBefore(c)
<1>1. answers \in Seq(Ops) /\ 1 \in DOMAIN answers /\ answers[1] = c
  BY Sequences, Tailed
<1>2. \A i \in DOMAIN answers : 1 \in 1 .. i
  BY <1>1
<1>3. QED
  BY <1>1, <1>2 DEF CutBefore

LEMMA NoAnswer ==
    ASSUME Inv, Answering, NEW c \in Ops, op[c].at \notin AnswerPlaces, CutComes
    PROVE  CutBefore(c)
<1>1. \A i \in DOMAIN answers : answers[i] # c /\ 1 .. i \subseteq DOMAIN answers
  BY Sequences DEF Answering
<1>2. QED
  BY <1>1 DEF CutBefore, CutComes

-----------------------------------------------------------------------------
(* Kinds of steps, and the session *)

\* The first of the queue goes on; whether it works after that or not.
LEMMA FirstGoesOn ==
    ASSUME Inv, NEW c \in Ops, First(c), Alone(c), Answering',
           Works(op'[c]) => Holds(c)', ~Works(op'[c]) => Rests'
    PROVE  SessionInv'
<1>1. ASSUME NEW d \in Ops, Works(op'[d]) PROVE d = c
  <2>1. d # c => Works(op[d])
    BY <1>1 DEF Alone, Is, Works
  <2>2. QED
    BY <2>1, OnlyTheFirstWorks
<1>2. QED
  BY <1>1 DEF SessionInv, Works

\* It gives the lock away.
LEMMA LeavingKeeps ==
    ASSUME Inv, NEW c \in Ops, First(c), Leave(c), session' = session, Answering',
           session.phase # "none" =>
               /\ rec'.present /\ session.config = rec'.config
               /\ rec'.enabled \/ (CutAwaits /\ ~AwaitsCut(op[c]))
    PROVE  SessionInv'
<1>1. op' = [op EXCEPT ![c] = Over] /\ queue' = Tail(queue)
  BY DEF Leave
<1>2. Alone(c) /\ op'[c] = Over
  BY <1>1, Sequences, NewOps, Put
<1>3. ~Works(op'[c])
  BY <1>2, NewOps DEF Is, Works, Handshake, CallPlaces
<1>4. Rests'
  <2>1. CutAwaits /\ ~AwaitsCut(op[c]) => CutAwaits'
    BY <1>1, <1>2, AwaitsKept
  <2>2. QED
    BY <2>1 DEF Rests, MayStand
<1>5. QED
  BY <1>2, <1>3, <1>4, FirstGoesOn

\* It asks for the end of the session.
LEMMA DisconnectKeeps ==
    ASSUME Inv, NEW c \in Ops, First(c), NEW rest,
           NEW task \in {"edit", "restore", "save", "remove", "disable"},
           Disconnect(op, c, task, rest), Answering',
           task # "disable" => rec'.present,
           task \in {"edit", "restore"} => op[c].snap # None /\ op[c].snap.config = rec'.config
    PROVE  SessionInv'
<1>1. session' = NoSession /\ op' = [op EXCEPT ![c].at = "disconnecting", ![c].task = task]
  BY DEF Disconnect
<1>2. /\ Alone(c)
      /\ Is(op'[c], task, "disconnecting", op[c].config, op[c].snap, op[c].catalog)
  BY <1>1, Sequences, SetTask DEF Places, Tasks
<1>3. session'.phase = "none"
  BY <1>1, SessionsOf
<1>4. Works(op'[c]) => Holds(c)'
  BY <1>2, <1>3 DEF Is, Works, Holds, SessionFor, Handshake, CallPlaces
<1>5. ~Works(op'[c]) => Rests'
  BY <1>3 DEF Rests
<1>6. QED
  BY <1>2, <1>4, <1>5, FirstGoesOn

\* What is known of whoever works.
LEMMA WorkerHolds ==
    ASSUME Inv, SessionInv, NEW c \in Ops, Works(op[c])
    PROVE  First(c) /\ Holds(c) /\ rec.present /\ ~AwaitsCut(op[c]) /\ ~IsCut(op[c]) /\ Answering
BY DEF Inv, OneWorks, First, SessionInv, Holds, AwaitsCut, IsCut, Works, Handshake, CallPlaces

\* What an operation as it was keeps, but for its epoch, which can only move.
Same(d) ==
    /\ Is(op'[d], op[d].task, op[d].at, op[d].config, op[d].snap, op[d].catalog)
    /\ op'[d].want = op[d].want
    /\ op[d].stale => op'[d].stale

\* A step beside the work of the lock: of an operation that does not work, or of the server.
LEMMA Beside ==
    ASSUME Inv, SessionInv, Answering',
           \A d \in Ops : Works(op'[d]) <=> Works(op[d]),
           \A d \in Ops : Works(op[d]) => Same(d),
           rec'.present = rec.present, rec'.config = rec.config,
           \/ rec'.enabled = rec.enabled
           \/ \A d \in Ops : Works(op[d]) => op[d].task # "edit" \/ op'[d].stale,
           session'.phase # "none" =>
               /\ session.phase # "none" /\ session'.config = session.config
               /\ MayStand => MayStand'
               /\ \A d \in Ops : Works(op[d]) /\ CutBefore(d) => CutBefore(d)' \/ MayStand',
           \A d \in Ops : Works(op[d]) /\ (MayStand \/ CutComes) => MayStand' \/ CutComes'
    PROVE  SessionInv'
<1>1. ASSUME NEW d \in Ops, Works(op'[d]) PROVE Holds(d)'
  <2>1. Works(op[d]) /\ Holds(d) /\ Same(d)
    BY <1>1, WorkerHolds
  <2>2. rec'.present /\ SessionFor(d)'
    <3>1. SessionFor(d) /\ rec.present
      BY <2>1 DEF Holds
    <3>2. op'[d].at = op[d].at /\ op'[d].task = op[d].task /\ op'[d].config = op[d].config
      BY <2>1 DEF Same, Is
    <3>3. session'.phase # "none" /\ CutBefore(d) => CutBefore(d)' \/ MayStand'
      BY <2>1
    <3>4. SessionFor(d)'
      BY <3>1, <3>2, <3>3 DEF SessionFor
    <3>5. QED
      BY <3>1, <3>4
  <2>3. op'[d].at \in Handshake /\ op'[d].task = "edit" /\ ~op'[d].stale => Wanted(rec, d)'
    BY <2>1 DEF Holds, Same, Is, Wanted
  <2>4. /\ op'[d].at \in {"status", "resolving", "closing"} /\ op'[d].task # "edit"
              => MayStand' \/ CutComes'
        /\ op'[d].at = "disconnecting" /\ op'[d].task = "remove" => session'.phase = "none"
    BY <2>1 DEF Holds, Same, Is
  <2>5. QED
    BY <2>1, <2>2, <2>3, <2>4 DEF Holds, Same, Is
<1>2. (\A d \in Ops : ~Works(op'[d])) => Rests'
  BY DEF SessionInv, Rests
<1>3. QED
  BY <1>1, <1>2 DEF SessionInv, Works

-----------------------------------------------------------------------------
(* Operations that begin, and toggles *)

LEMMA WaitingKeeps ==
    ASSUME Inv, SessionInv, NEW c \in Ops, NEW o \in OpRecords, Enqueue(c, o),
           op[c].at = "idle", UNCHANGED <<rec, session, answers>>
    PROVE  SessionInv'
<1>1. op' = [op EXCEPT ![c] = [o EXCEPT !.at = "waiting"]] /\ queue' = Append(queue, c)
  BY DEF Enqueue
<1>2. Alone(c) /\ Untouched(c) /\ op'[c].at = "waiting"
  <2> DEFINE w == [o EXCEPT !.at = "waiting"]
  <2>1. w \in OpRecords /\ w.at = "waiting"
    BY Queued DEF Is
  <2>2. op' = [op EXCEPT ![c] = w]
    BY <1>1
  <2> HIDE DEF w
  <2>3. QED
    BY <2>1, <2>2, Sequences, Put DEF Untouched, OpTable
<1>3. ~Works(op[c]) /\ ~Works(op'[c]) /\ ~AwaitsCut(op[c]) /\ ~IsCut(op[c])
  BY <1>2 DEF Works, Handshake, CallPlaces, AwaitsCut, IsCut
<1>4. Answering'
  BY <1>2, AnswersKept DEF SessionInv, AnswerPlaces
<1>5. /\ MayStand => MayStand'
      /\ CutComes => CutComes'
      /\ \A d \in Ops : CutBefore(d) => CutBefore(d)'
  BY <1>1, <1>2, <1>3, AwaitsKept, ComesKept, BeforeKept DEF MayStand
<1>6. \A d \in Ops : (Works(op'[d]) <=> Works(op[d])) /\ (Works(op[d]) => Same(d))
  BY <1>2, <1>3 DEF Untouched, Same, Is
<1>7. QED
  BY <1>4, <1>5, <1>6, Beside

LEMMA BeginKeeps ==
    ASSUME Inv, SessionInv, NEW c \in Ops, NEW task \in Tasks, Begin(c, task)
    PROVE  SessionInv'
BY NewOps, WaitingKeeps DEF Begin

LEMMA EditKeeps ==
    ASSUME Inv, SessionInv, NEW c \in Ops, NEW config \in Configs, NEW want \in Wants,
           Edit(c, config, want)
    PROVE  SessionInv'
<1> DEFINE o == [Task("edit") EXCEPT !.config = config, !.want = want]
<1>1. Enqueue(c, o) /\ op[c].at = "idle" /\ UNCHANGED <<rec, session, answers>>
  BY DEF Edit
<1>2. o \in OpRecords
  BY DEF OpRecords, Task, NoOp, Tasks, Places
<1> HIDE DEF o
<1>3. QED
  BY <1>1, <1>2, WaitingKeeps

\* An edit or the restoring of a session that works is overtaken by every toggle.
LEMMA Overtakes ==
    ASSUME Inv, SessionInv, NEW c \in Ops, op[c].at = "idle",
           NEW o \in OpRecords, op' = [Toggled EXCEPT ![c] = o], ~Works(o)
    PROVE  /\ Alone(c) /\ op'[c] = o
           /\ \A d \in Ops : Works(op'[d]) <=> Works(op[d])
           /\ \A d \in Ops : Works(op[d]) => Same(d)
           /\ \A d \in Ops : Works(op[d]) => op[d].task # "edit" \/ op'[d].stale
<1>1. op' \in OpTable /\ Alone(c) /\ op'[c] = o
  BY Sequences, SetToggled
<1>2. ~Works(op[c])
  BY DEF Works, Handshake, CallPlaces
<1>3. ASSUME NEW d \in Ops, d # c
      PROVE  /\ Works(op'[d]) <=> Works(op[d])
             /\ op'[d].want = op[d].want
             /\ op[d].stale => op'[d].stale
             /\ op[d].snap # None => op'[d].stale
  <2>1. op'[d] = Toggled[d] /\ op[d] \in OpRecords
    BY <1>3, Sequences DEF Toggled, OpTable
  <2>2. Toggled[d] = IF op[d].snap # None THEN [op[d] EXCEPT !.stale = TRUE] ELSE op[d]
    BY DEF Toggled
  <2>3. QED
    BY <2>1, <2>2 DEF OpRecords, Works
<1>4. ASSUME NEW d \in Ops, Works(op[d])
      PROVE  d # c /\ Same(d) /\ (op[d].task # "edit" \/ op'[d].stale)
  BY <1>1, <1>2, <1>3, <1>4, WorkerHolds DEF Same, Alone, Holds
<1>5. QED
  BY <1>1, <1>2, <1>3, <1>4

LEMMA DisableKeeps == ASSUME Inv, SessionInv, NEW c \in Ops, Disable(c) PROVE SessionInv'
<1> DEFINE o == [Toggled[c] EXCEPT !.at = "disconnecting", !.task = "disable"]
<1>1. /\ rec' = [rec EXCEPT !.enabled = FALSE] /\ session' = NoSession
      /\ op' = [Toggled EXCEPT ![c].at = "disconnecting", ![c].task = "disable"]
      /\ answers' = Append(answers, c) /\ queue' = queue /\ op[c].at = "idle"
  BY DEF Disable, Disconnect
<1>2. Toggled[c] \in OpRecords
  BY Sequences DEF OpTable, OpRecords, Toggled
<1>3. op' = [Toggled EXCEPT ![c] = o]
  BY <1>1 DEF Toggled
<1>4. o \in OpRecords /\ o.at = "disconnecting" /\ o.task = "disable"
  BY <1>2 DEF OpRecords, Places, Tasks
<1>5. ~Works(o) /\ IsCut(o)
  BY <1>4 DEF Works, Handshake, CallPlaces, IsCut
<1> HIDE DEF o
<1>6. /\ Alone(c) /\ op'[c] = o
      /\ \A d \in Ops : Works(op'[d]) <=> Works(op[d])
      /\ \A d \in Ops : Works(op[d]) => Same(d)
      /\ \A d \in Ops : Works(op[d]) => op[d].task # "edit" \/ op'[d].stale
  BY <1>1, <1>3, <1>4, <1>5, Overtakes
<1>7. Answering'
  BY <1>1, <1>4, <1>6, AnswersKept DEF SessionInv, AnswerPlaces
<1>8. CutComes'
  <2>1. Len(answers) + 1 \in DOMAIN answers' /\ answers'[Len(answers) + 1] = c
    BY <1>1, Sequences, Appended
  <2>2. QED
    BY <1>5, <1>6, <2>1 DEF CutComes
<1>9. session'.phase = "none" /\ rec'.present = rec.present /\ rec'.config = rec.config
  BY <1>1, SessionsOf, Sequences DEF Rows
<1>10. QED
  BY <1>6, <1>7, <1>8, <1>9, Beside

\* A toggle that leaves the server enabled, or as it was.
LEMMA ToggledKeeps ==
    ASSUME Inv, SessionInv, NEW c \in Ops, op[c].at = "idle",
           NEW o \in OpRecords, op' = [Toggled EXCEPT ![c] = o], o.at \in {"over", "waiting"},
           queue' = queue \/ queue' = Append(queue, c),
           rec' = rec \/ rec' = [rec EXCEPT !.enabled = TRUE],
           UNCHANGED <<session, answers>>
    PROVE  SessionInv'
<1>1. ~Works(o) /\ ~AwaitsCut(op[c]) /\ ~IsCut(op[c])
  BY DEF Works, Handshake, CallPlaces, AwaitsCut, IsCut
<1>2. /\ Alone(c) /\ op'[c] = o
      /\ \A d \in Ops : Works(op'[d]) <=> Works(op[d])
      /\ \A d \in Ops : Works(op[d]) => Same(d)
      /\ \A d \in Ops : Works(op[d]) => op[d].task # "edit" \/ op'[d].stale
  BY <1>1, Overtakes
<1>3. Answering'
  BY <1>2, AnswersKept DEF SessionInv, AnswerPlaces
<1>4. /\ rec'.present = rec.present /\ rec'.config = rec.config
      /\ rec.enabled => rec'.enabled
  BY Sequences DEF Rows
<1>5. /\ MayStand => MayStand'
      /\ CutComes => CutComes'
      /\ \A d \in Ops : CutBefore(d) => CutBefore(d)'
  BY <1>1, <1>2, <1>4, AwaitsKept, ComesKept, BeforeKept DEF MayStand
<1>6. QED
  BY <1>2, <1>3, <1>4, <1>5, Beside

LEMMA EnableKeeps == ASSUME Inv, SessionInv, NEW c \in Ops, Enable(c) PROVE SessionInv'
<1> DEFINE w == [Task("refresh") EXCEPT !.at = "waiting"]
<1>1. /\ rec' = [rec EXCEPT !.enabled = TRUE] /\ op[c].at = "idle"
      /\ op' = [Toggled EXCEPT ![c] = IF rec.state = "degraded" THEN w ELSE Over]
      /\ queue' = IF rec.state = "degraded" THEN Append(queue, c) ELSE queue
      /\ UNCHANGED <<session, answers>>
  BY DEF Enable
<1>2. w \in OpRecords /\ w.at = "waiting"
  BY DEF OpRecords, Task, NoOp, Tasks, Places, Wants
<1> HIDE DEF w
<1>3. Over.at = "over"
  BY NewOps DEF Is
<1>4. QED
  BY <1>1, <1>2, <1>3, NewOps, ToggledKeeps

LEMMA ToggleAgainKeeps == ASSUME Inv, SessionInv, NEW c \in Ops, ToggleAgain(c) PROVE SessionInv'
<1>1. Over.at = "over"
  BY NewOps DEF Is
<1>2. QED
  BY <1>1, NewOps, ToggledKeeps DEF ToggleAgain

\* Steps that leave the operations, the queue and the answers alone.
LEMMA StillKeeps ==
    ASSUME Inv, SessionInv, UNCHANGED <<op, queue, answers>>,
           rec'.present = rec.present, rec'.config = rec.config, rec'.enabled = rec.enabled,
           session'.phase # "none" => session.phase # "none" /\ session'.config = session.config
    PROVE  SessionInv'
<1>1. Answering' /\ (CutAwaits => CutAwaits') /\ (CutComes => CutComes')
  BY DEF SessionInv, Answering, CutAwaits, CutComes
<1>2. \A d \in Ops : CutBefore(d) => CutBefore(d)'
  BY DEF CutBefore
<1>3. \A d \in Ops : (Works(op'[d]) <=> Works(op[d])) /\ Same(d)
  BY DEF Same, Is
<1>4. QED
  BY <1>1, <1>2, <1>3, Beside DEF MayStand

LEMMA ShowKeeps == ASSUME Inv, SessionInv, Show PROVE SessionInv'
BY StillKeeps DEF Show

LEMMA AcceptKeeps == ASSUME Inv, SessionInv, Accept PROVE SessionInv'
<1>1. rec' = Verified(rec, Fetched) /\ UNCHANGED <<op, queue, answers, session>>
  BY DEF Accept
<1>2. rec'.present = rec.present /\ rec'.config = rec.config /\ rec'.enabled = rec.enabled
  BY <1>1, Sequences DEF Verified, Rows
<1>3. QED
  BY <1>1, <1>2, StillKeeps

LEMMA SessionLostKeeps == ASSUME Inv, SessionInv, SessionLost PROVE SessionInv'
<1>1. session \in Sessions
  BY DEF Inv, TypeOK
<1>2. session'.config = session.config
  BY <1>1 DEF SessionLost, Sessions
<1>3. QED
  BY <1>2, StillKeeps DEF SessionLost

LEMMA ListChangedKeeps == ASSUME Inv, SessionInv, ListChanged PROVE SessionInv'
<1>1. session \in Sessions
  BY DEF Inv, TypeOK
<1>2. session'.config = session.config /\ session.phase # "none"
  BY <1>1 DEF ListChanged, Sessions
<1>3. QED
  BY <1>2, StillKeeps DEF ListChanged

-----------------------------------------------------------------------------
(* Turns, and the session *)

\* While the first of the queue waits, nobody works.
LEMMA TurnRests ==
    ASSUME Inv, SessionInv, NEW c \in Ops, NEW task, Turn(c, task)
    PROVE  /\ Rests /\ Answering /\ ~Works(op[c]) /\ ~IsCut(op[c])
           /\ op[c].at \notin AnswerPlaces
           /\ AwaitsCut(op[c]) => task = "disable"
<1>1. First(c) /\ op[c].at = "waiting" /\ op[c].task = task
  BY TurnFacts
<1>2. ~Works(op[c])
  BY <1>1 DEF Works, Handshake, CallPlaces
<1>3. \A d \in Ops : ~Works(op[d])
  BY <1>1, <1>2, OnlyTheFirstWorks
<1>4. QED
  BY <1>1, <1>2, <1>3 DEF SessionInv, IsCut, AwaitsCut, AnswerPlaces

\* The turn of an operation for which there is nothing to do.
LEMMA GoneKeeps ==
    ASSUME Inv, SessionInv, NEW c \in Ops, NEW task, Turn(c, task), Gone(c),
           task = "disable" => ~rec.present \/ rec.enabled
    PROVE  SessionInv'
<1>1. Leave(c) /\ UNCHANGED <<rec, session, answers>>
  BY DEF Gone
<1>2. First(c) /\ Alone(c)
  BY <1>1, TurnFacts, NewOps, Put DEF Leave
<1>3. Answering'
  BY <1>1, <1>2, TurnRests, AnswersKept
<1>4. session.phase # "none" =>
          /\ rec.present /\ session.config = rec.config
          /\ rec.enabled \/ (CutAwaits /\ ~AwaitsCut(op[c]))
  BY TurnRests DEF Rests, MayStand
<1>5. QED
  BY <1>1, <1>2, <1>3, <1>4, LeavingKeeps

LEMMA TurnOfRefreshKeeps ==
    ASSUME Inv, SessionInv, NEW c \in Ops, TurnOfRefresh(c)
    PROVE  SessionInv'
<1>1. Turn(c, "refresh")
  BY DEF TurnOfRefresh
<1>2. CASE rec.present /\ rec.enabled
  <2>1. /\ op' = [op EXCEPT ![c].at = "resolving", ![c].snap = rec, ![c].config = rec.config]
        /\ UNCHANGED <<rec, cache, queue, session, answers>>
    BY <1>2 DEF TurnOfRefresh
  <2>2. /\ op'[c].at = "resolving" /\ op'[c].task = "refresh" /\ op'[c].config = rec.config
        /\ Alone(c)
    BY <1>1, <2>1, TurnFacts DEF OpTable, OpRecords, Alone, Is
  <2>3. Answering'
    BY <1>1, <2>1, <2>2, TurnRests, AnswersKept
  <2>4. Works(op'[c]) /\ Holds(c)'
    BY <1>1, <1>2, <2>1, <2>2, TurnRests
       DEF Works, Handshake, Holds, SessionFor, Opening, MayStand, Rests
  <2>5. QED
    BY <1>1, <2>2, <2>3, <2>4, TurnFacts, FirstGoesOn
<1>3. CASE ~(rec.present /\ rec.enabled)
  BY <1>1, <1>3, GoneKeeps DEF TurnOfRefresh
<1>4. QED
  BY <1>2, <1>3

LEMMA TurnOfCallKeeps ==
    ASSUME Inv, SessionInv, NEW c \in Ops, TurnOfCall(c)
    PROVE  SessionInv'
<1>1. Turn(c, "call")
  BY DEF TurnOfCall
<1>2. CASE Forwardable(rec)
  <2> DEFINE b == session.phase = "connected" /\ ~session.changed
  <2>1. /\ op' = [op EXCEPT ![c].at = "status", ![c].snap = rec, ![c].config = rec.config,
                            ![c].connected = b]
        /\ answers' = Append(answers, c)
        /\ UNCHANGED <<rec, cache, queue, session>>
    BY <1>2 DEF TurnOfCall
  <2> HIDE DEF b
  <2>2. /\ op'[c].at = "status" /\ op'[c].task = "call" /\ op'[c].config = rec.config
        /\ Alone(c)
    BY <1>1, <2>1, TurnFacts DEF OpTable, OpRecords, Alone, Is
  <2>3. Answering'
    BY <1>1, <2>1, <2>2, TurnRests, AnswersKept DEF AnswerPlaces
  <2>4. Works(op'[c]) /\ Holds(c)'
    BY <1>1, <1>2, <2>1, <2>2, TurnRests
       DEF Forwardable, Works, CallPlaces, Handshake, Holds, SessionFor, Opening, MayStand, Rests
  <2>5. QED
    BY <1>1, <2>2, <2>3, <2>4, TurnFacts, FirstGoesOn
<1>3. CASE ~Forwardable(rec)
  BY <1>1, <1>3, GoneKeeps DEF TurnOfCall
<1>4. QED
  BY <1>2, <1>3

\* The edit is written at once: the session is that of the row, or ends.
LEMMA PersistKeeps ==
    ASSUME Inv, SessionInv, NEW c \in Ops, Turn(c, "edit"), NEW r, Persist(c, r),
           r.present, r.enabled => r.config = rec.config
    PROVE  SessionInv'
<1>1. rec' = r /\ First(c)
  BY TurnFacts DEF Persist
<1>2. CASE r.enabled
  <2>1. Leave(c) /\ UNCHANGED <<session, answers>>
    BY <1>2 DEF Persist
  <2>2. Alone(c)
    BY <2>1, TurnFacts, NewOps, Put DEF Leave
  <2>3. Answering'
    BY <2>1, <2>2, TurnRests, AnswersKept
  <2>4. session.phase # "none" => session.config = rec'.config
    BY <1>1, <1>2, TurnRests DEF Rests
  <2>5. QED
    BY <1>1, <1>2, <2>1, <2>3, <2>4, LeavingKeeps
<1>3. CASE ~r.enabled
  <2>1. Disconnect(op, c, "save", answers)
    BY <1>3 DEF Persist
  <2>2. /\ op' = [op EXCEPT ![c].at = "disconnecting", ![c].task = "save"]
        /\ answers' = Append(answers, c)
    BY <2>1 DEF Disconnect
  <2>3. op'[c].at = "disconnecting" /\ Alone(c)
    BY <2>2, TurnFacts DEF OpTable, OpRecords, Alone, Is
  <2>4. Answering'
    BY <2>2, <2>3, TurnRests, AnswersKept DEF AnswerPlaces
  <2>5. QED
    BY <1>1, <2>1, <2>4, DisconnectKeeps
<1>4. QED
  BY <1>2, <1>3

LEMMA TurnOfEditKeeps ==
    ASSUME Inv, SessionInv, NEW c \in Ops, TurnOfEdit(c)
    PROVE  SessionInv'
<1>1. Turn(c, "edit") /\ rec \in Rows
  BY Sequences DEF TurnOfEdit
<1>2. CASE ~rec.present
  BY <1>1, <1>2, GoneKeeps DEF TurnOfEdit
<1>3. CASE rec.present /\ op[c].config = rec.config
  <2> DEFINE r == [rec EXCEPT !.enabled = Wanted(rec, c)]
  <2>1. Persist(c, r)
    BY <1>3 DEF TurnOfEdit
  <2>2. r.present /\ r.config = rec.config
    BY <1>1, <1>3 DEF Rows
  <2> HIDE DEF r
  <2>3. QED
    BY <1>1, <2>1, <2>2, PersistKeeps
<1>4. CASE rec.present /\ op[c].config # rec.config /\ ~Wanted(rec, c)
  <2> DEFINE r == [rec EXCEPT !.enabled = FALSE, !.config = op[c].config, !.state = "degraded"]
  <2>1. Persist(c, r)
    BY <1>4 DEF TurnOfEdit
  <2>2. r.present /\ ~r.enabled
    BY <1>1, <1>4 DEF Rows
  <2> HIDE DEF r
  <2>3. QED
    BY <1>1, <2>1, <2>2, PersistKeeps
<1>5. CASE rec.present /\ op[c].config # rec.config /\ Wanted(rec, c)
  <2>1. /\ op' = [op EXCEPT ![c].at = "resolving", ![c].snap = rec]
        /\ UNCHANGED <<rec, cache, queue, session, answers>>
    BY <1>5 DEF TurnOfEdit
  <2>2. /\ op'[c].at = "resolving" /\ op'[c].task = "edit" /\ op'[c].snap = rec
        /\ op'[c].want = op[c].want /\ Alone(c)
    BY <1>1, <2>1, TurnFacts DEF OpTable, OpRecords, Alone, Is
  <2>3. Answering'
    BY <1>1, <2>1, <2>2, TurnRests, AnswersKept
  <2>4. MayStand => MayStand'
    BY <1>1, <2>1, <2>2, TurnRests, AwaitsKept DEF MayStand
  <2>5. Wanted(rec, c)'
    BY <1>5, <2>1, <2>2 DEF Wanted
  <2>6. Holds(c)'
    BY <1>1, <1>5, <2>1, <2>2, <2>4, <2>5, TurnRests, RowsAssumption
       DEF Holds, SessionFor, Opening, Rests
  <2>7. Works(op'[c])
    BY <2>2 DEF Works, Handshake
  <2>8. QED
    BY <1>1, <2>2, <2>3, <2>6, <2>7, TurnFacts, FirstGoesOn
<1>6. QED
  BY <1>2, <1>3, <1>4, <1>5

\* The turn of an operation that ends the session.
LEMMA TurnDisconnects ==
    ASSUME Inv, SessionInv, NEW c \in Ops, NEW task \in {"remove", "disable"}, Turn(c, task),
           Disconnect(op, c, task, answers), rec' = rec, rec.present
    PROVE  SessionInv'
<1>1. /\ op' = [op EXCEPT ![c].at = "disconnecting", ![c].task = task]
      /\ answers' = Append(answers, c)
  BY DEF Disconnect
<1>2. op'[c].at = "disconnecting" /\ Alone(c)
  BY <1>1, TurnFacts DEF OpTable, OpRecords, Alone, Is
<1>3. Answering'
  BY <1>1, <1>2, TurnRests, AnswersKept DEF AnswerPlaces
<1>4. First(c)
  BY TurnFacts
<1>5. QED
  BY <1>3, <1>4, DisconnectKeeps

LEMMA HasTurnKeeps == ASSUME Inv, SessionInv, NEW c \in Ops, HasTurn(c) PROVE SessionInv'
<1>1. CASE TurnOfRemove(c)
  BY <1>1, TurnDisconnects, GoneKeeps DEF TurnOfRemove
<1>2. CASE TurnOfDisable(c)
  BY <1>2, TurnDisconnects, GoneKeeps DEF TurnOfDisable
<1>3. QED
  BY <1>1, <1>2, TurnOfRefreshKeeps, TurnOfCallKeeps, TurnOfEditKeeps DEF HasTurn

-----------------------------------------------------------------------------
(* The handshake, and the session *)

\* Whoever works goes on to another place, with its task and what it has read.
Moves(c, p) ==
    /\ p \in Handshake \cup CallPlaces
    /\ op' = [op EXCEPT ![c].at = p]
    /\ UNCHANGED <<rec, queue>>

LEMMA Moved ==
    ASSUME Inv, SessionInv, NEW c \in Ops, op[c].at \in Handshake \cup CallPlaces, NEW p, Moves(c, p)
    PROVE  /\ First(c) /\ Alone(c) /\ Works(op[c]) /\ Works(op'[c]) /\ Answering
           /\ op'[c].at = p /\ op'[c].task = op[c].task /\ op'[c].config = op[c].config
           /\ op'[c].snap = op[c].snap /\ op'[c].want = op[c].want /\ op'[c].stale = op[c].stale
           /\ Holds(c) /\ SessionFor(c) /\ ~IsCut(op[c]) /\ (MayStand => MayStand')
           /\ op[c].task \in {"refresh", "call", "edit", "restore"}
           /\ op[c].at \in CallPlaces => op[c].task = "call"
           /\ Wanted(rec, c)' = Wanted(rec, c)
<1>1. Works(op[c]) /\ First(c) /\ Holds(c) /\ ~AwaitsCut(op[c]) /\ ~IsCut(op[c]) /\ Answering
  BY WorkerHolds DEF Works
<1>2. /\ Alone(c) /\ op'[c].at = p /\ op'[c].task = op[c].task /\ op'[c].config = op[c].config
      /\ op'[c].snap = op[c].snap /\ op'[c].want = op[c].want /\ op'[c].stale = op[c].stale
  BY Sequences DEF Moves, OpTable, OpRecords, Alone, Is
<1>3. Works(op'[c]) /\ SessionFor(c)
  BY <1>1, <1>2 DEF Works, Moves, Holds
<1>4. MayStand => MayStand'
  BY <1>1, <1>2, AwaitsKept DEF MayStand, Moves
<1>5. Wanted(rec, c)' = Wanted(rec, c)
  BY <1>2 DEF Wanted, Moves
<1>6. /\ op[c].task \in {"refresh", "call", "edit", "restore"}
      /\ op[c].at \in CallPlaces => op[c].task = "call"
  BY DEF Inv, HasRead
<1>7. QED
  BY <1>1, <1>2, <1>3, <1>4, <1>5, <1>6

\* It does if the session stays one that may stand.
LEMMA MovesKeeps ==
    ASSUME Inv, SessionInv, NEW c \in Ops, op[c].at \in Handshake \cup CallPlaces,
           NEW p, Moves(c, p), Answering', SessionFor(c)',
           p \in Handshake => op[c].at \in Handshake \/ op[c].task = "call",
           p \in {"status", "resolving", "closing"} /\ op[c].task # "edit" => MayStand' \/ CutComes'
    PROVE  SessionInv'
<1>1. rec' = rec /\ p \in Handshake \cup CallPlaces
  BY DEF Moves
<1>2. /\ op'[c].at = p /\ op'[c].task = op[c].task /\ op'[c].config = op[c].config
      /\ op'[c].snap = op[c].snap /\ op'[c].stale = op[c].stale
      /\ Holds(c) /\ Wanted(rec, c)' = Wanted(rec, c)
  BY Moved
<1>3. /\ rec'.present
      /\ op'[c].task \in {"edit", "restore"} =>
             op'[c].snap # None /\ op'[c].snap.config = rec'.config
      /\ op'[c].at # "disconnecting" /\ op[c].at # "disconnecting"
      /\ op'[c].task # "edit" => op'[c].config = rec'.config
  BY <1>1, <1>2 DEF Holds, Handshake, CallPlaces
<1>4. op'[c].at \in Handshake /\ op'[c].task = "edit" /\ ~op'[c].stale => Wanted(rec, c)'
  BY <1>1, <1>2 DEF Holds
<1>5. Holds(c)'
  BY <1>2, <1>3, <1>4 DEF Holds
<1>6. QED
  BY <1>5, Moved, FirstGoesOn

LEMMA WorkerLeaves ==
    ASSUME Inv, SessionInv, NEW c \in Ops, op[c].at \in {"resolving", "calling"}, Gone(c)
    PROVE  SessionInv'
<1>1. Leave(c) /\ UNCHANGED <<rec, session, answers>>
  BY DEF Gone
<1>2. Alone(c)
  BY <1>1, Sequences, NewOps, Put DEF Leave
<1>3. op[c].at \notin AnswerPlaces /\ op[c].at \notin Opening /\ Works(op[c])
  BY DEF AnswerPlaces, Opening, Works, Handshake, CallPlaces
<1>4. First(c) /\ Holds(c) /\ ~AwaitsCut(op[c]) /\ Answering
  BY <1>3, WorkerHolds
<1>5. Answering'
  BY <1>1, <1>2, <1>3, <1>4, AnswersKept
<1>6. QED
  BY <1>1, <1>3, <1>4, <1>5, LeavingKeeps DEF Holds, SessionFor, MayStand

LEMMA SecretMissingKeeps ==
    ASSUME Inv, SessionInv, NEW c \in Ops, SecretMissing(c)
    PROVE  SessionInv'
<1>1. op[c].at \in {"resolving", "calling"} /\ op[c].at \in Handshake \cup CallPlaces
  BY DEF SecretMissing, Handshake, CallPlaces
<1>2. CASE op[c].task = "restore" /\ ~op[c].stale
  <2>1. Disconnect(op, c, "restore", answers) /\ rec' = rec
    BY <1>2 DEF SecretMissing
  <2>2. /\ op' = [op EXCEPT ![c].at = "disconnecting", ![c].task = "restore"]
        /\ answers' = Append(answers, c)
    BY <2>1 DEF Disconnect
  <2>3. op'[c].at = "disconnecting" /\ Alone(c)
    BY <2>2, Sequences, SetTask DEF Places, Tasks, Is
  <2>4. Works(op[c])
    BY <1>1 DEF Works
  <2>5. Answering'
    BY <1>1, <2>2, <2>3, <2>4, WorkerHolds, AnswersKept DEF AnswerPlaces
  <2>6. rec'.present /\ op[c].snap # None /\ op[c].snap.config = rec'.config
    BY <1>2, <2>1, <2>4, WorkerHolds DEF Holds
  <2>7. QED
    BY <2>1, <2>4, <2>5, <2>6, WorkerHolds, DisconnectKeeps
<1>3. CASE ~(op[c].task = "restore" /\ ~op[c].stale)
  BY <1>1, <1>3, WorkerLeaves DEF SecretMissing
<1>4. QED
  BY <1>2, <1>3

LEMMA ConnectKeeps == ASSUME Inv, SessionInv, NEW c \in Ops, Connect(c) PROVE SessionInv'
<1>1. op[c].at = "resolving" /\ op[c].at \in Handshake \cup CallPlaces
  BY DEF Connect, Handshake
<1>2. CASE Overtaken(c)
  BY <1>1, <1>2, WorkerLeaves DEF Connect
<1>3. CASE ~Overtaken(c) /\ worker
  <2>1. /\ session' = NoSession /\ op' = [op EXCEPT ![c].at = "closing"]
        /\ UNCHANGED <<rec, queue, answers>>
    BY <1>3 DEF Connect
  <2>2. Moves(c, "closing")
    BY <2>1 DEF Moves, Handshake
  <2>3. Answering'
    BY <1>1, <2>1, <2>2, Moved, AnswersKept DEF AnswerPlaces
  <2>4. SessionFor(c)'
    BY <2>1, SessionsOf DEF SessionFor
  <2>5. op[c].task # "edit" => MayStand \/ CutComes
    BY <1>1, <2>2, Moved DEF Holds
  <2>6. CutComes => CutComes'
    BY <1>1, <2>1, <2>2, Moved, ComesKept
  <2>7. op[c].at \in Handshake
    BY <1>1 DEF Handshake
  <2>8. QED
    BY <1>1, <2>2, <2>3, <2>4, <2>5, <2>6, <2>7, Moved, MovesKeeps
<1>4. CASE ~Overtaken(c) /\ ~worker
  <2>1. /\ op' = [op EXCEPT ![c].at = "failed"] /\ answers' = Append(answers, c)
        /\ UNCHANGED <<rec, queue, session>>
    BY <1>4 DEF Connect, Answered
  <2>2. Moves(c, "failed")
    BY <2>1 DEF Moves, Handshake
  <2>3. Answering'
    BY <1>1, <2>1, <2>2, Moved, AnswersKept DEF AnswerPlaces
  <2>4. SessionFor(c)'
    BY <1>1, <2>1, <2>2, Moved DEF SessionFor, Opening
  <2>5. op[c].at \in Handshake
    BY <1>1 DEF Handshake
  <2>6. QED
    BY <1>1, <2>2, <2>3, <2>4, <2>5, MovesKeeps
<1>5. QED
  BY <1>2, <1>3, <1>4 DEF Inv, TypeOK

\* The session is opened for what the row says, or for the edit that is tried out; a cut that came
\* meanwhile is read before the answer of the handshake.
LEMMA WorkerOpensKeeps == ASSUME Inv, SessionInv, NEW c \in Ops, WorkerOpens(c) PROVE SessionInv'
<1>1. /\ op[c].at = "closing" /\ op[c].at \in Handshake \cup CallPlaces /\ op[c].at \in Handshake
      /\ op' = [op EXCEPT ![c].at = "opening"] /\ session' = Session("opening", op[c].config)
      /\ UNCHANGED <<rec, queue, answers>>
  BY DEF WorkerOpens, Handshake
<1>2. Moves(c, "opening")
  BY <1>1 DEF Moves, Handshake
<1>3. op[c].at \notin AnswerPlaces
  BY <1>1 DEF AnswerPlaces
<1>4. Answering'
  BY <1>1, <1>2, <1>3, Moved, AnswersKept
<1>5. op[c].task # "edit" =>
          op[c].config = rec.config /\ (MayStand \/ CutBefore(c))
  BY <1>1, <1>2, <1>3, Moved, NoAnswer DEF Holds
<1>6. CutBefore(c) => CutBefore(c)'
  BY <1>1, <1>2, Moved, BeforeKept
<1>7. session'.config = op[c].config
  BY <1>1 DEF Session
<1>8. SessionFor(c)'
  BY <1>1, <1>2, <1>5, <1>6, <1>7, Moved DEF SessionFor, Opening
<1>9. QED
  BY <1>1, <1>2, <1>4, <1>8, MovesKeeps

\* The answer of a handshake is sent, and the session is the same, or lost.
LEMMA HandshakeKeeps ==
    ASSUME Inv, SessionInv, NEW c \in Ops, op[c].at \in {"opening", "fetching"},
           NEW p \in {"opened", "fetched", "failed"}, Moves(c, p), answers' = Append(answers, c),
           session'.phase # "none" => session.phase # "none" /\ session'.config = session.config
    PROVE  SessionInv'
<1>1. op[c].at \in Handshake \cup CallPlaces /\ op[c].at \in Handshake
  BY DEF Handshake
<1>2. op[c].at \notin AnswerPlaces /\ p \in AnswerPlaces
  BY DEF AnswerPlaces
<1>3. Answering'
  BY <1>1, <1>2, Moved, AnswersKept
<1>4. CutBefore(c) => CutBefore(c)'
  BY <1>1, Moved, BeforeKept
<1>5. rec' = rec
  BY DEF Moves
<1>6. SessionFor(c)'
  BY <1>1, <1>4, <1>5, Moved DEF SessionFor, Opening
<1>7. QED
  BY <1>1, <1>3, <1>6, MovesKeeps

LEMMA WorkerConnectedKeeps ==
    ASSUME Inv, SessionInv, NEW c \in Ops, WorkerConnected(c)
    PROVE  SessionInv'
<1>1. Moves(c, "opened") /\ op[c].at = "opening" /\ answers' = Append(answers, c)
  BY DEF WorkerConnected, Moves, Handshake
<1>2. session.phase # "none" /\ session'.config = session.config
  BY DEF WorkerConnected, Inv, TypeOK, Sessions
<1>3. QED
  BY <1>1, <1>2, HandshakeKeeps

LEMMA WorkerNotConnectedKeeps ==
    ASSUME Inv, SessionInv, NEW c \in Ops, WorkerNotConnected(c)
    PROVE  SessionInv'
<1>1. Moves(c, "failed") /\ op[c].at = "opening" /\ answers' = Append(answers, c)
  BY DEF WorkerNotConnected, Moves, Handshake
<1>2. session'.phase # "none" => session.phase # "none" /\ session'.config = session.config
  BY DEF WorkerNotConnected, Inv, TypeOK, Sessions
<1>3. QED
  BY <1>1, <1>2, HandshakeKeeps

LEMMA WorkerNotFetchedKeeps ==
    ASSUME Inv, SessionInv, NEW c \in Ops, WorkerNotFetched(c)
    PROVE  SessionInv'
<1>1. Moves(c, "failed") /\ op[c].at = "fetching" /\ answers' = Append(answers, c)
  BY DEF WorkerNotFetched, Answered, Moves, Handshake
<1>2. session' = session
  BY DEF WorkerNotFetched, Answered
<1>3. QED
  BY <1>1, <1>2, HandshakeKeeps

LEMMA WorkerReopensKeeps ==
    ASSUME Inv, SessionInv, NEW c \in Ops, WorkerReopens(c)
    PROVE  SessionInv'
<1>1. session.phase # "none" /\ session'.config = session.config
  BY DEF WorkerReopens, Inv, TypeOK, Sessions
<1>2. QED
  BY <1>1, StillKeeps DEF WorkerReopens

\* The catalog that comes with the answer does not matter to the session.
LEMMA WorkerFetchedKeeps ==
    ASSUME Inv, SessionInv, NEW c \in Ops, NEW catalog \in Catalogs, WorkerFetched(c, catalog)
    PROVE  SessionInv'
<1>1. /\ op[c].at = "fetching" /\ op[c].at \in Handshake
      /\ op' = [op EXCEPT ![c].at = "fetched", ![c].catalog = catalog]
      /\ answers' = Append(answers, c) /\ UNCHANGED <<rec, queue, session>>
  BY DEF WorkerFetched, Handshake
<1>2. /\ Alone(c) /\ op'[c].at = "fetched" /\ op'[c].task = op[c].task
      /\ op'[c].config = op[c].config /\ op'[c].snap = op[c].snap
      /\ op'[c].want = op[c].want /\ op'[c].stale = op[c].stale
  BY <1>1, Sequences DEF OpTable, OpRecords, Alone, Is
<1>3. /\ First(c) /\ Holds(c) /\ ~AwaitsCut(op[c]) /\ ~IsCut(op[c]) /\ Answering
      /\ Works(op'[c])
  BY <1>1, <1>2, WorkerHolds DEF Works, Handshake
<1>4. op[c].at \notin AnswerPlaces /\ op'[c].at \in AnswerPlaces
  BY <1>1, <1>2 DEF AnswerPlaces
<1>5. Answering'
  BY <1>1, <1>2, <1>3, <1>4, AnswersKept
<1>6. (MayStand => MayStand') /\ (CutBefore(c) => CutBefore(c)')
  BY <1>1, <1>2, <1>3, AwaitsKept, BeforeKept DEF MayStand
<1>7. SessionFor(c)'
  BY <1>1, <1>2, <1>3, <1>6 DEF Holds, SessionFor, Opening
<1>8. Wanted(rec, c)' = Wanted(rec, c)
  BY <1>1, <1>2 DEF Wanted
<1>9. Holds(c)'
  BY <1>1, <1>2, <1>3, <1>7, <1>8 DEF Holds
<1>10. QED
  BY <1>2, <1>3, <1>5, <1>9, FirstGoesOn

-----------------------------------------------------------------------------
(* Answers that are read, and the session *)

\* Who reads its answer, before any cut: the session is the one it has opened, or of the row.
LEMMA ReaderHolds ==
    ASSUME Inv, SessionInv, NEW c \in Ops, NEW p \in Handshake \cup CallPlaces, Reads(c, p)
    PROVE  /\ op[c].at = p /\ op[c].at \in Handshake \cup CallPlaces /\ Works(op[c])
           /\ answers # <<>> /\ Head(answers) = c
           /\ First(c) /\ Holds(c) /\ Answering /\ ~AwaitsCut(op[c]) /\ ~IsCut(op[c])
           /\ op[c].snap \in Rows /\ op[c].config \in Configs /\ op[c] \in OpRecords
           /\ op[c].task \in {"refresh", "call", "edit", "restore"}
           /\ session.phase # "none" /\ op[c].task # "edit" =>
                  session.config = rec.config /\ (rec.enabled \/ CutAwaits)
<1>1. op[c].at = p /\ answers # <<>> /\ Head(answers) = c
  BY DEF Reads
<1>2. Works(op[c]) /\ ~CutBefore(c)
  BY <1>1, NextAnswer DEF Works
<1>3. First(c) /\ Holds(c) /\ Answering /\ ~AwaitsCut(op[c]) /\ ~IsCut(op[c])
  BY <1>2, WorkerHolds
<1>4. session.phase # "none" /\ op[c].task # "edit" =>
          session.config = rec.config /\ (rec.enabled \/ CutAwaits)
  BY <1>2, <1>3 DEF Holds, SessionFor, MayStand
<1>5. QED
  BY <1>1, <1>2, <1>3, <1>4, Worker

\* With its last answer it gives the lock away, with the row as it was where the session minds.
LEMMA ReaderEnds ==
    ASSUME Inv, SessionInv, NEW c \in Ops, NEW p \in Handshake \cup CallPlaces, Reads(c, p),
           NEW r, Ends(c, r), op[c].task # "edit",
           r.present = rec.present, r.config = rec.config, r.enabled = rec.enabled
    PROVE  SessionInv'
<1>1. rec' = r /\ Leave(c) /\ session' = session /\ answers' = Tail(answers)
  BY DEF Ends
<1>2. Alone(c)
  BY <1>1, Sequences, NewOps, Put DEF Leave
<1>3. Answering'
  BY <1>1, <1>2, ReaderHolds, AnswersKept
<1>4. First(c) /\ rec.present
  BY ReaderHolds DEF Holds
<1>5. session.phase # "none" =>
          /\ rec'.present /\ session.config = rec'.config
          /\ rec'.enabled \/ (CutAwaits /\ ~AwaitsCut(op[c]))
  BY <1>1, <1>4, ReaderHolds
<1>6. QED
  BY <1>1, <1>3, <1>4, <1>5, LeavingKeeps

\* An edit, or a session that was restored, is given up.
LEMMA ReaderDisconnects ==
    ASSUME Inv, SessionInv, NEW c \in Ops, NEW p \in Handshake \cup CallPlaces, Reads(c, p),
           op[c].task \in {"edit", "restore"}, Disconnect(op, c, op[c].task, Tail(answers)),
           rec' = rec
    PROVE  SessionInv'
<1>1. /\ op' = [op EXCEPT ![c].at = "disconnecting", ![c].task = op[c].task]
      /\ answers' = Append(Tail(answers), c)
  BY DEF Disconnect
<1>2. op'[c].at = "disconnecting" /\ Alone(c)
  BY <1>1, Sequences, SetTask DEF Places, Tasks, Is
<1>3. Answering'
  BY <1>1, <1>2, ReaderHolds, AnswersKept DEF AnswerPlaces
<1>4. /\ First(c) /\ rec'.present
      /\ op[c].snap # None /\ op[c].snap.config = rec'.config
  BY ReaderHolds DEF Holds
<1>5. QED
  BY <1>3, <1>4, DisconnectKeeps

LEMMA ReadOpenedKeeps == ASSUME Inv, SessionInv, NEW c \in Ops, ReadOpened(c) PROVE SessionInv'
<1>1. Reads(c, "opened") /\ rec' = rec /\ "opened" \in Handshake \cup CallPlaces
  BY DEF ReadOpened, Handshake
<1>2. op[c].at = "opened" /\ op[c].at \in Handshake
  BY <1>1, ReaderHolds DEF Handshake
<1>3. CASE Overtaken(c)
  <2>1. Disconnect(op, c, op[c].task, Tail(answers)) /\ op[c].task \in {"edit", "restore"}
    BY <1>3 DEF ReadOpened, Overtaken
  <2>2. QED
    BY <1>1, <2>1, ReaderDisconnects
<1>4. CASE ~Overtaken(c) /\ session.phase # "none"
  <2>1. op' = [op EXCEPT ![c].at = "fetching"] /\ answers' = Tail(answers)
        /\ UNCHANGED <<queue, session>>
    BY <1>4 DEF ReadOpened
  <2>2. Moves(c, "fetching")
    BY <1>1, <2>1 DEF Moves, Handshake
  <2>3. Answering'
    BY <1>1, <2>1, <2>2, ReaderHolds, Moved, AnswersKept
  <2>4. SessionFor(c)'
    BY <1>1, <1>2, <2>1, <2>2, ReaderHolds, Moved DEF SessionFor, Opening, MayStand
  <2>5. QED
    BY <1>1, <1>2, <2>2, <2>3, <2>4, ReaderHolds, MovesKeeps
<1>5. CASE ~Overtaken(c) /\ session.phase = "none"
  <2>1. /\ op' = [op EXCEPT ![c].at = "failed"] /\ answers' = Append(Tail(answers), c)
        /\ UNCHANGED <<queue, session>>
    BY <1>5 DEF ReadOpened, Answered
  <2>2. Moves(c, "failed")
    BY <1>1, <2>1 DEF Moves, Handshake
  <2>3. Answering'
    BY <1>1, <2>1, <2>2, ReaderHolds, Moved, AnswersKept DEF AnswerPlaces
  <2>4. SessionFor(c)'
    BY <1>5, <2>1 DEF SessionFor
  <2>5. QED
    BY <1>1, <1>2, <2>2, <2>3, <2>4, ReaderHolds, MovesKeeps
<1>6. QED
  BY <1>3, <1>4, <1>5

\* The last check of a call does not change what the session minds of the row.
LEMMA ForwardKeeps ==
    ASSUME Inv, SessionInv, NEW c \in Ops, NEW p \in {"status", "fetched"}, Reads(c, p),
           op[c].task = "call", NEW r \in Rows, Forward(c, r),
           r.present = rec.present, r.config = rec.config, r.enabled = rec.enabled
    PROVE  SessionInv'
<1>1. p \in Handshake \cup CallPlaces
  BY DEF Handshake, CallPlaces
<1>2. CASE Ends(c, r)
  BY <1>1, <1>2, ReaderEnds
<1>3. CASE Ends(c, [r EXCEPT !.state = "needs-review"])
  <2> DEFINE s == [r EXCEPT !.state = "needs-review"]
  <2>1. s.present = rec.present /\ s.config = rec.config /\ s.enabled = rec.enabled
    BY DEF Rows
  <2>2. Ends(c, s)
    BY <1>3
  <2> HIDE DEF s
  <2>3. QED
    BY <1>1, <2>1, <2>2, ReaderEnds
<1>4. CASE /\ Forwardable(r) /\ rec' = r
           /\ op' = [op EXCEPT ![c].at = "calling"] /\ answers' = Tail(answers)
           /\ UNCHANGED <<queue, session>>
  <2>1. /\ Alone(c) /\ op'[c].at = "calling" /\ op'[c].task = "call"
        /\ op'[c].config = op[c].config
    BY <1>4, Sequences DEF OpTable, OpRecords, Alone, Is
  <2>2. Answering'
    BY <1>1, <1>4, <2>1, ReaderHolds, AnswersKept
  <2>3. CutAwaits => CutAwaits'
    BY <1>1, <1>4, <2>1, ReaderHolds, AwaitsKept
  <2>4. SessionFor(c)'
    BY <1>1, <1>4, <2>1, <2>3, ReaderHolds DEF SessionFor, Opening, MayStand
  <2>5. op[c].config = rec.config /\ rec.present
    <3>1. op[c].at # "disconnecting"
      BY <1>1, ReaderHolds DEF Handshake, CallPlaces
    <3>2. QED
      BY <1>1, <3>1, ReaderHolds DEF Holds
  <2>6. Holds(c)'
    BY <1>4, <2>1, <2>4, <2>5 DEF Holds, Handshake
  <2>7. Works(op'[c])
    BY <2>1 DEF Works, CallPlaces
  <2>8. QED
    BY <1>1, <2>1, <2>2, <2>6, <2>7, ReaderHolds, FirstGoesOn
<1>5. QED
  BY <1>2, <1>3, <1>4 DEF Forward

LEMMA ReadStatusKeeps == ASSUME Inv, SessionInv, NEW c \in Ops, ReadStatus(c) PROVE SessionInv'
<1>1. Reads(c, "status") /\ "status" \in Handshake \cup CallPlaces
  BY DEF ReadStatus, CallPlaces
<1>2. op[c].at = "status" /\ op[c].task = "call"
  BY <1>1 DEF CallPlaces, Reads, Inv, HasRead
<1>3. CASE op[c].connected
  <2>1. Forward(c, rec)
    BY <1>3 DEF ReadStatus
  <2>2. QED
    BY <1>1, <1>2, <2>1, Sequences, ForwardKeeps
<1>4. CASE ~op[c].connected
  <2>1. op' = [op EXCEPT ![c].at = "resolving"] /\ answers' = Tail(answers)
        /\ UNCHANGED <<rec, queue, session>>
    BY <1>4 DEF ReadStatus
  <2>2. Moves(c, "resolving")
    BY <2>1 DEF Moves, Handshake
  <2>3. Answering'
    BY <1>1, <2>1, <2>2, ReaderHolds, Moved, AnswersKept
  <2>4. SessionFor(c)'
    BY <1>1, <1>2, <2>1, <2>2, ReaderHolds, Moved DEF SessionFor, Opening, MayStand
  <2>5. MayStand' \/ CutComes'
    <3>1. MayStand \/ CutComes
      BY <1>1, <1>2, ReaderHolds DEF Holds
    <3>2. CutComes => CutComes'
      BY <1>1, <2>1, <2>2, ReaderHolds, Moved, ComesKept
    <3>3. QED
      BY <1>1, <2>2, <3>1, <3>2, ReaderHolds, Moved
  <2>6. QED
    BY <1>1, <1>2, <2>2, <2>3, <2>4, <2>5, ReaderHolds, MovesKeeps
<1>5. QED
  BY <1>3, <1>4

\* Rows that are patched keep what the session minds.
LEMMA Patched ==
    ASSUME NEW r \in Rows, NEW k \in Catalogs
    PROVE  \A s \in {NeedsReview(r, k), Verified(r, k), Degraded(r), [r EXCEPT !.state = "active"]} :
               s.present = r.present /\ s.config = r.config /\ s.enabled = r.enabled
BY DEF Rows, NeedsReview, Verified, Degraded

LEMMA ReadRefreshedKeeps ==
    ASSUME Inv, SessionInv, NEW c \in Ops, ReadRefreshed(c)
    PROVE  SessionInv'
<1> DEFINE r == IF op[c].catalog # op[c].snap.catalog
                THEN NeedsReview(rec, op[c].catalog) ELSE Verified(rec, op[c].catalog)
<1>1. Reads(c, "fetched") /\ op[c].task = "refresh" /\ Ends(c, r)
  BY DEF ReadRefreshed
<1>2. r.present = rec.present /\ r.config = rec.config /\ r.enabled = rec.enabled
  BY <1>1, FetchedIsAPlace, Reader, Patched
<1> HIDE DEF r
<1>3. QED
  BY <1>1, <1>2, FetchedIsAPlace, ReaderEnds

LEMMA ReadReconnectedKeeps ==
    ASSUME Inv, SessionInv, NEW c \in Ops, ReadReconnected(c)
    PROVE  SessionInv'
<1> DEFINE r == IF op[c].catalog # op[c].snap.catalog
                THEN NeedsReview(rec, op[c].catalog) ELSE rec
<1>1. Reads(c, "fetched") /\ op[c].task = "call" /\ Forward(c, r)
  BY DEF ReadReconnected
<1>2. r \in Rows /\ r.present = rec.present /\ r.config = rec.config /\ r.enabled = rec.enabled
  BY <1>1, FetchedIsAPlace, Reader, Patched, RowsOf
<1> HIDE DEF r
<1>3. QED
  BY <1>1, <1>2, ForwardKeeps

\* The row of an edit becomes what its session was opened for, and stays enabled.
LEMMA ReadEditedKeeps == ASSUME Inv, SessionInv, NEW c \in Ops, ReadEdited(c) PROVE SessionInv'
<1>1. Reads(c, "fetched") /\ op[c].task = "edit"
  BY DEF ReadEdited
<1>2. /\ First(c) /\ Holds(c) /\ op[c].at = "fetched" /\ op[c].config \in Configs
      /\ op[c] \in OpRecords
  BY <1>1, FetchedIsAPlace, ReaderHolds
<1>3. CASE Overtaken(c)
  BY <1>1, <1>3, FetchedIsAPlace, ReaderDisconnects DEF ReadEdited
<1>4. CASE ~Overtaken(c)
  <2> DEFINE r == [rec EXCEPT !.config = op[c].config, !.enabled = Wanted(rec, c)]
  <2>1. Ends(c, Edited(c))
    BY <1>4 DEF ReadEdited
  <2>2. Wanted(rec, c) = TRUE /\ rec.present
    <3>1. Wanted(rec, c) /\ rec.present
      BY <1>1, <1>2, <1>4 DEF Holds, Overtaken, Handshake
    <3>2. Wanted(rec, c) \in BOOLEAN
      BY <1>1, <1>2, Sequences, Fields, RowFields DEF Wanted, Wants
    <3>3. QED
      BY <3>1, <3>2
  <2>3. r \in Rows /\ r.present /\ r.enabled /\ r.config = op[c].config
    BY <1>2, <2>2, Sequences DEF Rows
  <2>4. Edited(c) \in {NeedsReview(r, op[c].catalog), Verified(r, op[c].catalog)}
    BY DEF Edited
  <2> HIDE DEF r
  <2>5. Edited(c).present /\ Edited(c).enabled /\ Edited(c).config = op[c].config
    BY <1>1, <2>3, <2>4, FetchedIsAPlace, Reader, Patched
  <2>6. rec' = Edited(c) /\ Leave(c) /\ session' = session /\ answers' = Tail(answers)
    BY <2>1 DEF Ends
  <2>7. Alone(c)
    BY <2>6, Sequences, NewOps, Put DEF Leave
  <2>8. Answering'
    BY <1>1, <2>6, <2>7, FetchedIsAPlace, ReaderHolds, AnswersKept
  <2>9. session.phase # "none" => session.config = op[c].config
    BY <1>1, <1>2 DEF Holds, SessionFor, Opening
  <2>10. QED
    BY <1>2, <2>5, <2>6, <2>8, <2>9, LeavingKeeps
<1>5. QED
  BY <1>3, <1>4

LEMMA ReadRestoredKeeps ==
    ASSUME Inv, SessionInv, NEW c \in Ops, ReadRestored(c)
    PROVE  SessionInv'
<1>1. Reads(c, "fetched") /\ op[c].task = "restore"
  BY DEF ReadRestored
<1>2. CASE Overtaken(c)
  BY <1>1, <1>2, FetchedIsAPlace, ReaderDisconnects DEF ReadRestored
<1>3. CASE ~Overtaken(c) /\ op[c].catalog # op[c].snap.catalog
  <2>1. Ends(c, NeedsReview(rec, op[c].catalog))
    BY <1>3 DEF ReadRestored
  <2>2. QED
    BY <1>1, <2>1, FetchedIsAPlace, Reader, Patched, ReaderEnds
<1>4. CASE ~Overtaken(c) /\ op[c].catalog = op[c].snap.catalog
  <2> DEFINE r == IF op[c].snap.state = "degraded" THEN [rec EXCEPT !.state = "active"] ELSE rec
  <2>1. Ends(c, r)
    BY <1>4 DEF ReadRestored
  <2>2. r.present = rec.present /\ r.config = rec.config /\ r.enabled = rec.enabled
    BY <1>1, FetchedIsAPlace, Reader, Patched
  <2> HIDE DEF r
  <2>3. QED
    BY <1>1, <2>1, <2>2, FetchedIsAPlace, ReaderEnds
<1>5. QED
  BY <1>2, <1>3, <1>4

LEMMA ReadFailedKeeps == ASSUME Inv, SessionInv, NEW c \in Ops, ReadFailed(c) PROVE SessionInv'
<1>1. Reads(c, "failed") /\ "failed" \in Handshake \cup CallPlaces
  BY DEF ReadFailed, Handshake
<1>2. op[c].task \in {"refresh", "call", "edit", "restore"}
  BY <1>1, ReaderHolds
<1>3. CASE op[c].task = "refresh"
  <2>1. Ends(c, Degraded(rec))
    BY <1>3 DEF ReadFailed
  <2>2. /\ Degraded(rec).present = rec.present /\ Degraded(rec).config = rec.config
        /\ Degraded(rec).enabled = rec.enabled
    BY Sequences DEF Degraded, Rows
  <2>3. QED
    BY <1>1, <1>3, <2>1, <2>2, ReaderEnds
<1>4. CASE op[c].task = "call"
  <2>1. Ends(c, rec)
    BY <1>4 DEF ReadFailed
  <2>2. QED
    BY <1>1, <1>4, <2>1, ReaderEnds
<1>5. CASE op[c].task \in {"edit", "restore"}
  BY <1>1, <1>5, ReaderDisconnects DEF ReadFailed
<1>6. QED
  BY <1>2, <1>3, <1>4, <1>5

-----------------------------------------------------------------------------
(* Sessions that are stopped *)

\* Whoever has its session stopped gives the lock away with a row that the session does not mind,
\* or that there is none for.
LEMMA StoppedEnds ==
    ASSUME Inv, SessionInv, NEW c \in Ops, Reads(c, "disconnecting"), First(c),
           NEW r, Ends(c, r),
           session.phase # "none" =>
               /\ r.present /\ session.config = r.config
               /\ r.enabled \/ CutAwaits
    PROVE  SessionInv'
<1>1. rec' = r /\ Leave(c) /\ session' = session /\ answers' = Tail(answers)
  BY DEF Ends
<1>2. Alone(c)
  BY <1>1, Sequences, NewOps, Put DEF Leave
<1>3. op[c].at = "disconnecting" /\ answers # <<>> /\ Head(answers) = c
  BY DEF Reads
<1>4. Answering'
  BY <1>1, <1>2, <1>3, AnswersKept DEF SessionInv
<1>5. ~AwaitsCut(op[c])
  BY <1>3 DEF AwaitsCut
<1>6. QED
  BY <1>1, <1>4, <1>5, LeavingKeeps

\* What is known of it.
LEMMA Stopped ==
    ASSUME Inv, SessionInv, NEW c \in Ops, Reads(c, "disconnecting"), op[c].task # "disable"
    PROVE  /\ First(c) /\ Holds(c) /\ Works(op[c]) /\ ~AwaitsCut(op[c]) /\ rec.present
           /\ op[c].at = "disconnecting" /\ answers # <<>> /\ Head(answers) = c /\ Answering
           /\ session.phase # "none" => session.config = rec.config /\ (rec.enabled \/ CutAwaits)
<1>1. op[c].at = "disconnecting" /\ answers # <<>> /\ Head(answers) = c
  BY DEF Reads
<1>2. Works(op[c])
  BY <1>1, Disconnected DEF Works
<1>3. First(c) /\ Holds(c) /\ ~AwaitsCut(op[c]) /\ Answering
  BY <1>2, WorkerHolds
<1>4. QED
  BY <1>1, <1>2, <1>3 DEF Holds, SessionFor, Opening, MayStand

LEMMA AfterEditKeeps ==
    ASSUME Inv, SessionInv, NEW c \in Ops, Reads(c, "disconnecting"), op[c].task = "edit",
           AfterEdit(c)
    PROVE  SessionInv'
<1>1. CASE ~op[c].stale /\ rec.enabled /\ op[c].snap.enabled
  <2> DEFINE k == op[c].snap.config
  <2>1. /\ op' = [op EXCEPT ![c].at = "resolving", ![c].task = "restore", ![c].config = k]
        /\ answers' = Tail(answers) /\ UNCHANGED <<rec, queue, session>>
    BY <1>1 DEF AfterEdit
  <2> HIDE DEF k
  <2>2. /\ Alone(c) /\ op'[c].at = "resolving" /\ op'[c].task = "restore" /\ op'[c].config = k
        /\ op'[c].snap = op[c].snap
    BY <2>1, Sequences DEF OpTable, OpRecords, Alone, Is
  <2>3. Answering'
    BY <2>1, <2>2, Stopped, AnswersKept
  <2>4. k = rec.config /\ op[c].snap # None /\ op[c].snap.config = rec.config
    BY Stopped DEF Holds, k
  <2>5. Holds(c)'
    BY <1>1, <2>1, <2>2, <2>4, Stopped DEF Holds, SessionFor, Opening, MayStand
  <2>6. Works(op'[c])
    BY <2>2 DEF Works, Handshake
  <2>7. QED
    BY <2>2, <2>3, <2>5, <2>6, Stopped, FirstGoesOn
<1>2. CASE ~(~op[c].stale /\ rec.enabled /\ op[c].snap.enabled)
  <2>1. Ends(c, rec)
    BY <1>2 DEF AfterEdit
  <2>2. QED
    BY <2>1, Stopped, StoppedEnds
<1>3. QED
  BY <1>1, <1>2

\* A cut that was answered while another holds the lock waits for it, and cuts once more.
LEMMA AfterDisableKeeps ==
    ASSUME Inv, SessionInv, NEW c \in Ops, Reads(c, "disconnecting"), op[c].task = "disable",
           AfterDisable(c)
    PROVE  SessionInv'
<1>1. /\ op[c].at = "disconnecting" /\ answers # <<>> /\ Head(answers) = c /\ Answering
      /\ ~Works(op[c]) /\ ~AwaitsCut(op[c])
  BY DEF Reads, SessionInv, Works, Handshake, CallPlaces, AwaitsCut
<1>2. CASE queue # <<>> /\ Head(queue) = c
  <2>1. Ends(c, rec) /\ First(c)
    BY <1>2 DEF AfterDisable, First
  <2>2. \A d \in Ops : ~Works(op[d])
    BY <1>1, <2>1, OnlyTheFirstWorks
  <2>3. QED
    BY <2>1, <2>2, StoppedEnds DEF SessionInv, Rests, MayStand
<1>3. CASE queue # <<>> /\ Head(queue) # c
  <2> DEFINE w == [Task("disable") EXCEPT !.at = "waiting"]
  <2>1. /\ op' = [op EXCEPT ![c] = w] /\ queue' = Append(queue, c)
        /\ answers' = Tail(answers) /\ UNCHANGED <<rec, session>>
    BY <1>3 DEF AfterDisable, Enqueue
  <2>2. w \in OpRecords /\ AwaitsCut(w) /\ ~Works(w)
    BY DEF OpRecords, Task, NoOp, Tasks, Places, Wants, AwaitsCut, Works, Handshake, CallPlaces
  <2> HIDE DEF w
  <2>3. op' \in OpTable /\ Alone(c) /\ op'[c] = w /\ Untouched(c)
    BY <2>1, <2>2, Sequences, Put DEF Untouched, OpTable
  <2>4. Answering'
    BY <1>1, <2>1, <2>3, AnswersKept
  <2>5. MayStand'
    <3>1. Len(queue) + 1 \in DOMAIN queue' /\ queue'[Len(queue) + 1] = c
      BY <2>1, Sequences, Appended
    <3>2. QED
      BY <2>2, <2>3, <3>1 DEF CutAwaits, MayStand
  <2>6. \A d \in Ops : (Works(op'[d]) <=> Works(op[d])) /\ (Works(op[d]) => Same(d))
    BY <1>1, <2>2, <2>3 DEF Untouched, Same, Is
  <2>7. QED
    BY <2>1, <2>4, <2>5, <2>6, Beside
<1>4. CASE queue = <<>>
  <2>1. /\ op' = [op EXCEPT ![c] = Over] /\ answers' = Tail(answers)
        /\ UNCHANGED <<rec, queue, session>>
    BY <1>4 DEF AfterDisable
  <2>2. Alone(c) /\ op'[c] = Over
    BY <2>1, Sequences, NewOps, Put
  <2>3. ~Works(op'[c])
    BY <2>2, NewOps DEF Is, Works, Handshake, CallPlaces
  <2>4. \A d \in Ops : ~Works(op[d]) /\ ~Works(op'[d])
    BY <1>4, <2>2, <2>3 DEF Inv, OneWorks, Alone, Is, Works
  <2>5. Answering'
    BY <1>1, <2>1, <2>2, AnswersKept
  <2>6. CutAwaits => CutAwaits'
    BY <1>1, <2>1, <2>2, AwaitsKept
  <2>7. QED
    BY <2>1, <2>4, <2>5, <2>6 DEF SessionInv, Rests, MayStand
<1>5. QED
  BY <1>2, <1>3, <1>4

LEMMA ReadDisconnectedKeeps ==
    ASSUME Inv, SessionInv, NEW c \in Ops, ReadDisconnected(c)
    PROVE  SessionInv'
<1>1. Reads(c, "disconnecting") /\ rec \in Rows
  BY Sequences DEF ReadDisconnected
<1>2. CASE op[c].task = "save"
  <2>1. Ends(c, rec)
    BY <1>2 DEF ReadDisconnected
  <2>2. QED
    BY <1>1, <1>2, <2>1, Stopped, StoppedEnds
<1>3. CASE op[c].task = "edit"
  BY <1>1, <1>3, AfterEditKeeps DEF ReadDisconnected
<1>4. CASE op[c].task = "restore"
  <2> DEFINE r == IF op[c].stale THEN rec ELSE Degraded(rec)
  <2>1. Ends(c, r)
    BY <1>4 DEF ReadDisconnected
  <2>2. r.present = rec.present /\ r.config = rec.config /\ r.enabled = rec.enabled
    BY <1>1 DEF Degraded, Rows
  <2> HIDE DEF r
  <2>3. QED
    BY <1>1, <1>4, <2>1, <2>2, Stopped, StoppedEnds
<1>5. CASE op[c].task = "remove"
  <2> DEFINE r == [rec EXCEPT !.present = FALSE]
  <2>1. Ends(c, r)
    BY <1>5 DEF ReadDisconnected
  <2>2. session.phase = "none" /\ First(c)
    BY <1>1, <1>5, Stopped DEF Holds
  <2> HIDE DEF r
  <2>3. QED
    BY <1>1, <2>1, <2>2, StoppedEnds
<1>6. CASE op[c].task = "disable"
  BY <1>1, <1>6, AfterDisableKeeps DEF ReadDisconnected
<1>7. QED
  BY <1>1, <1>2, <1>3, <1>4, <1>5, <1>6, Disconnected

-----------------------------------------------------------------------------
(* Calls, the worker and the program *)

LEMMA CallKeeps == ASSUME Inv, SessionInv, NEW c \in Ops, Call(c) PROVE SessionInv'
<1>1. op[c].at = "calling" /\ op[c].at \in Handshake \cup CallPlaces /\ rec' = rec
  BY DEF Call, CallPlaces
<1>2. op[c].at \notin AnswerPlaces /\ op[c].at \notin Opening /\ op[c].task = "call"
  BY <1>1 DEF AnswerPlaces, Opening, Inv, HasRead, CallPlaces
<1>3. CASE session.phase = "connected"
  <2>1. /\ op' = [op EXCEPT ![c].at = "running"]
        /\ UNCHANGED <<rec, queue, session, answers>>
    BY <1>3 DEF Call
  <2>2. Moves(c, "running")
    BY <2>1 DEF Moves, CallPlaces
  <2>3. Answering'
    BY <1>1, <1>2, <2>1, <2>2, Moved, AnswersKept
  <2>4. SessionFor(c)'
    BY <1>1, <1>2, <2>1, <2>2, Moved DEF SessionFor, Opening
  <2>5. QED
    BY <1>1, <1>2, <2>2, <2>3, <2>4, MovesKeeps
<1>4. CASE session.phase # "connected"
  <2>1. /\ op' = [op EXCEPT ![c].at = "failed"] /\ answers' = Append(answers, c)
        /\ UNCHANGED <<rec, queue, session>>
    BY <1>4 DEF Call, Answered
  <2>2. Moves(c, "failed")
    BY <2>1 DEF Moves, Handshake
  <2>3. Answering'
    BY <1>1, <1>2, <2>1, <2>2, Moved, AnswersKept DEF AnswerPlaces
  <2>4. SessionFor(c)'
    BY <1>1, <1>2, <2>1, <2>2, Moved DEF SessionFor
  <2>5. QED
    BY <1>1, <1>2, <2>2, <2>3, <2>4, MovesKeeps
<1>5. QED
  BY <1>3, <1>4

LEMMA WorkerCalledKeeps == ASSUME Inv, SessionInv, NEW c \in Ops, WorkerCalled(c) PROVE SessionInv'
<1>1. /\ op[c].at = "running" /\ op[c].at \in Handshake \cup CallPlaces
      /\ op' = [op EXCEPT ![c].at = "failed"] /\ answers' = Append(answers, c)
      /\ UNCHANGED <<rec, queue, session>>
  BY DEF WorkerCalled, Answered, CallPlaces
<1>2. op[c].at \notin AnswerPlaces /\ op[c].at \notin Opening /\ op[c].task = "call"
  BY <1>1 DEF AnswerPlaces, Opening, Inv, HasRead, CallPlaces
<1>3. Moves(c, "failed")
  BY <1>1 DEF Moves, Handshake
<1>4. Answering'
  BY <1>1, <1>2, <1>3, Moved, AnswersKept DEF AnswerPlaces
<1>5. SessionFor(c)'
  BY <1>1, <1>2, <1>3, Moved DEF SessionFor
<1>6. QED
  BY <1>1, <1>2, <1>3, <1>4, <1>5, MovesKeeps

\* The request of whoever works fails with the worker, and the session is gone.
LEMMA WorkerDiesKeeps == ASSUME Inv, SessionInv, WorkerDies PROVE SessionInv'
<1>1. /\ session' = NoSession
      /\ op' = [c \in Ops |-> IF c \in Pending THEN [op[c] EXCEPT !.at = "failed"] ELSE op[c]]
      /\ answers' = IF Pending = {} THEN answers ELSE Append(answers, Head(queue))
      /\ UNCHANGED <<rec, queue>>
  BY DEF WorkerDies
<1>2. session'.phase = "none"
  BY <1>1, SessionsOf
<1>3. CASE Pending = {}
  <2>1. \A d \in Ops : op'[d] = op[d]
    BY <1>1, <1>3
  <2>2. op' = op
    BY <1>1, <1>3, Sequences DEF OpTable
  <2>3. QED
    BY <1>1, <1>2, <1>3, <2>2, StillKeeps
<1>4. CASE Pending # {}
  <2>1. PICK c \in Pending : TRUE
    BY <1>4
  <2>2. /\ c \in Ops /\ op[c].at \in Handshake \cup CallPlaces
        /\ op[c].at \notin AnswerPlaces
    BY <2>1 DEF Pending, Handshake, CallPlaces, AnswerPlaces
  <2>3. \A d \in Pending : d = c /\ Head(queue) = d
    BY <2>1, <2>2, Worker DEF Pending, Handshake, CallPlaces, First
  <2>4. op' = [op EXCEPT ![c].at = "failed"]
    BY <1>1, <2>1, <2>2, <2>3, Sequences DEF OpTable
  <2>5. Moves(c, "failed")
    BY <1>1, <2>4 DEF Moves, Handshake
  <2>6. Answering'
    BY <1>1, <1>4, <2>1, <2>2, <2>3, <2>5, Moved, AnswersKept DEF AnswerPlaces
  <2>7. SessionFor(c)'
    BY <1>2 DEF SessionFor
  <2>8. op[c].at \in Handshake \/ op[c].task = "call"
    BY <2>2, <2>5, Moved
  <2>9. QED
    BY <2>2, <2>5, <2>6, <2>7, <2>8, MovesKeeps
<1>5. QED
  BY <1>3, <1>4

LEMMA RestartKeeps == ASSUME Inv, SessionInv, Restart PROVE SessionInv'
<1>1. /\ session' = NoSession /\ answers' = <<>>
      /\ op' = [c \in Ops |-> IF op[c].at = "idle" THEN NoOp ELSE Over]
  BY DEF Restart
<1>2. session'.phase = "none"
  BY <1>1, SessionsOf
<1>3. Answering'
  BY <1>1 DEF Answering
<1>4. ASSUME NEW c \in Ops PROVE ~Works(op'[c])
  <2>1. op'[c] \in {NoOp, Over}
    BY <1>1
  <2>2. QED
    BY <2>1, NewOps DEF Is, Works, Handshake, CallPlaces
<1>5. QED
  BY <1>2, <1>3, <1>4 DEF SessionInv, Rests, Works

-----------------------------------------------------------------------------
(* The theorem about the session *)

LEMMA InitSession == Init => SessionInv
<1> SUFFICES ASSUME Init PROVE SessionInv
  OBVIOUS
<1>1. /\ rec.present /\ rec.enabled /\ rec.config = Registered
      /\ session.config = Registered /\ answers = <<>>
  BY DEF Init, Session
<1>2. \A c \in Ops : ~Works(op[c])
  BY NewOps DEF Init, Is, Works, Handshake, CallPlaces
<1>3. QED
  BY <1>1, <1>2 DEF SessionInv, Answering, Rests, MayStand

LEMMA NextSession == Inv /\ SessionInv /\ [Next]_vars => SessionInv'
<1> SUFFICES ASSUME Inv, SessionInv, [Next]_vars PROVE SessionInv'
  OBVIOUS
<1>1. ASSUME NEW c \in Ops, Step(c) PROVE SessionInv'
  BY <1>1, HasTurnKeeps, SecretMissingKeeps, ConnectKeeps, ReadOpenedKeeps, ReadStatusKeeps,
     ReadRefreshedKeeps, ReadReconnectedKeeps, ReadEditedKeeps, ReadRestoredKeeps,
     ReadFailedKeeps, ReadDisconnectedKeeps, CallKeeps
     DEF Step
<1>2. ASSUME NEW c \in Ops, WorkerStep(c) PROVE SessionInv'
  BY <1>2, WorkerOpensKeeps, WorkerConnectedKeeps, WorkerNotConnectedKeeps,
     WorkerReopensKeeps, WorkerFetchedKeeps, WorkerNotFetchedKeeps, WorkerCalledKeeps
     DEF WorkerStep
<1>3. CASE UNCHANGED vars
  BY <1>3, StillKeeps DEF vars
<1>4. QED
  BY <1>1, <1>2, <1>3, BeginKeeps, EditKeeps, DisableKeeps, EnableKeeps, ToggleAgainKeeps,
     ShowKeeps, AcceptKeeps, SessionLostKeeps, ListChangedKeeps, WorkerDiesKeeps, RestartKeeps
     DEF Next

\* A session that the worker keeps when no operation holds or awaits the lock is that of a row
\* that is present and enabled: the cut that a handshake outran cuts once more, and an edit that
\* fails or is overtaken takes its session down before it gives the lock away.
THEOREM SessionOfTheRow == Spec => []SessionIsOfTheRow
<1>1. Init => Inv /\ SessionInv
  BY InitInv, InitSession
<1>2. Inv /\ SessionInv /\ [Next]_vars => (Inv /\ SessionInv)'
  BY NextInv, NextSession
<1>3. Inv /\ SessionInv => SessionIsOfTheRow
  <2> SUFFICES ASSUME Inv, SessionInv, session.phase # "none", queue = <<>>
               PROVE  rec.present /\ rec.enabled /\ session.config = rec.config
    BY DEF SessionIsOfTheRow
  <2>1. \A c \in Ops : ~Works(op[c])
    BY DEF Inv, OneWorks
  <2>2. ~CutAwaits
    BY DEF CutAwaits
  <2>3. QED
    BY <2>1, <2>2 DEF SessionInv, Rests, MayStand
<1>4. QED
  BY <1>1, <1>2, <1>3, PTL DEF Spec

=============================================================================
