-------------------------- MODULE UpstreamServers --------------------------
(***************************************************************************)
(* One registered MCP server: its row, the operations of the core that     *)
(* queue for it, and its session in the worker (upstream-registry-         *)
(* service.ts, upstream-registry-runtime.ts, mcp-upstream-runtime.ts).     *)
(* A request reaches the worker when it is sent, and what the worker does  *)
(* at once it does then; its answers reach the core in their order.        *)
(* The server offers any catalog at any time.                              *)
(***************************************************************************)
EXTENDS Naturals, Sequences

CONSTANTS
    Ops,        \* operations, each begun once
    Catalogs,   \* catalogs, told apart by their fingerprints
    Agreed,     \* the catalog of the registration
    Short,      \* the catalog that is left when requests for its pages fail
    Configs,    \* how to connect to the server
    Registered, \* the configuration of the registration
    None

ASSUME CatalogsAssumption == {Agreed, Short} \subseteq Catalogs /\ None \notin Catalogs
ASSUME ConfigsAssumption == Registered \in Configs /\ None \notin Configs

VARIABLES
    rec,        \* the row of the server
    cache,      \* UpstreamRegistryRuntime.cache
    queue,      \* withLock: the operation that runs, and those behind it
    op,         \* per operation: what it is, where it stands and what it has read
    session,    \* the session of the worker
    answers,    \* operations whose request the worker has answered
    worker,     \* the worker runs
    shown,      \* the pending catalog that the operator looked at last
    accepted    \* the catalogs that the operator has accepted, for the properties

vars == <<rec, cache, queue, op, session, answers, worker, shown, accepted>>

Tasks == {"none", "refresh", "call", "edit", "save", "restore", "remove", "disable"}
Places == {"idle", "waiting", "status", "resolving", "closing", "opening", "opened", "fetching",
           "fetched", "failed", "calling", "running", "disconnecting", "over"}
Wants == {"keep", "on", "off"}

Rows == [present : BOOLEAN, enabled : BOOLEAN, state : {"active", "needs-review", "degraded"},
         catalog : Catalogs, pending : Catalogs \cup {None}, config : Configs]
OpRecords == [task : Tasks, at : Places, config : Configs \cup {None}, want : Wants,
              snap : Rows \cup {None}, stale : BOOLEAN, catalog : Catalogs \cup {None},
              connected : BOOLEAN]
Sessions == [phase : {"none", "opening", "connected", "lost"}, config : Configs \cup {None},
             changed : BOOLEAN]

ASSUME RowsAssumption == None \notin Rows

NoOp == [task |-> "none", at |-> "idle", config |-> None, want |-> "keep", snap |-> None,
         stale |-> FALSE, catalog |-> None, connected |-> FALSE]
Over == [NoOp EXCEPT !.at = "over"]
NoSession == [phase |-> "none", config |-> None, changed |-> FALSE]
Session(phase, config) == [phase |-> phase, config |-> config, changed |-> FALSE]

TypeOK ==
    /\ rec \in Rows
    /\ cache \in Catalogs \cup {None}
    /\ queue \in Seq(Ops)
    /\ op \in [Ops -> OpRecords]
    /\ session \in Sessions
    /\ answers \in Seq(Ops)
    /\ worker \in BOOLEAN
    /\ shown \in Catalogs \cup {None}
    /\ accepted \subseteq Catalogs

\* The server has just been registered.
Init ==
    /\ rec = [present |-> TRUE, enabled |-> TRUE, state |-> "active", catalog |-> Agreed,
              pending |-> None, config |-> Registered]
    /\ cache = Agreed
    /\ queue = <<>>
    /\ op = [c \in Ops |-> NoOp]
    /\ session = Session("connected", Registered)
    /\ answers = <<>>
    /\ worker = TRUE
    /\ shown = None
    /\ accepted = {Agreed}

(***************************************************************************)
(* The catalog that is published, and rows as they are patched.            *)
(***************************************************************************)
CatalogFor(r) ==
    CASE cache # None -> cache
      [] cache = None /\ r.pending # None -> r.pending
      [] cache = None /\ r.pending = None -> r.catalog

Served == queue = <<>> /\ rec.present /\ rec.enabled /\ rec.state = "active"

Forwardable(r) == r.present /\ r.enabled /\ r.state = "active"

NeedsReview(r, catalog) == [r EXCEPT !.pending = catalog, !.state = "needs-review"]
Verified(r, catalog) == [r EXCEPT !.catalog = catalog, !.pending = None, !.state = "active"]
Degraded(r) == [r EXCEPT !.state = "degraded"]

\* What an edit does to `enabled`.
Wanted(r, c) ==
    CASE op[c].want = "keep" -> r.enabled
      [] op[c].want = "on" -> TRUE
      [] op[c].want = "off" -> FALSE

(***************************************************************************)
(* The queue of the server, and requests to the worker.                    *)
(***************************************************************************)
Enqueue(c, o) ==
    /\ op' = [op EXCEPT ![c] = [o EXCEPT !.at = "waiting"]]
    /\ queue' = Append(queue, c)

Turn(c, task) == queue # <<>> /\ Head(queue) = c /\ op[c].at = "waiting" /\ op[c].task = task

Leave(c) ==
    /\ op' = [op EXCEPT ![c] = Over]
    /\ queue' = Tail(queue)

\* The edit was overtaken by a toggle: enablementEpoch has moved since it was read.
Overtaken(c) == op[c].task \in {"edit", "restore"} /\ op[c].stale

\* The next answer is that of c, which is at `place`.
Reads(c, place) == answers # <<>> /\ Head(answers) = c /\ op[c].at = place

\* disconnect: the session is forgotten and closed at once; `rest` is answered before.
Disconnect(ops, c, task, rest) ==
    /\ session' = NoSession
    /\ op' = [ops EXCEPT ![c].at = "disconnecting", ![c].task = task]
    /\ answers' = Append(rest, c)
    /\ UNCHANGED queue

\* A request that the worker answers at once, or that a dead worker does not take.
Answered(c, place, rest) ==
    /\ op' = [op EXCEPT ![c].at = place]
    /\ answers' = Append(rest, c)
    /\ UNCHANGED <<queue, session>>

Gone(c) == Leave(c) /\ UNCHANGED <<rec, cache, session, answers>>

Outside == <<worker, shown, accepted>>

(***************************************************************************)
(* Operations begin.                                                       *)
(***************************************************************************)
Task(task) == [NoOp EXCEPT !.task = task]

\* refresh, test, reconcileChanged, remove, and a call that finds the server by its name.
Begin(c, task) ==
    /\ op[c].at = "idle"
    /\ task \in {"refresh", "remove", "call"}
    /\ rec.present
    /\ Enqueue(c, Task(task))
    /\ UNCHANGED <<rec, cache, session, answers>>
    /\ UNCHANGED Outside

\* updateReporting
Edit(c, config, want) ==
    /\ op[c].at = "idle"
    /\ rec.present
    /\ Enqueue(c, [Task("edit") EXCEPT !.config = config, !.want = want])
    /\ UNCHANGED <<rec, cache, session, answers>>
    /\ UNCHANGED Outside

\* The epoch moves for every edit that has read it.
Toggled == [c \in Ops |-> IF op[c].snap # None THEN [op[c] EXCEPT !.stale = TRUE] ELSE op[c]]

\* Mutant: the cut waits for its turn.
DisableInTurn(c) ==
    /\ op[c].at = "idle"
    /\ rec.present
    /\ rec.enabled
    /\ rec' = [rec EXCEPT !.enabled = FALSE]
    /\ op' = [Toggled EXCEPT ![c] = [Task("disable") EXCEPT !.at = "waiting"]]
    /\ queue' = Append(queue, c)
    /\ UNCHANGED <<cache, session, answers>>
    /\ UNCHANGED Outside

\* setEnabled(false) of a server that is enabled: it does not wait for its turn.
Disable(c) ==
    /\ op[c].at = "idle"
    /\ rec.present
    /\ rec.enabled
    /\ rec' = [rec EXCEPT !.enabled = FALSE]
    /\ Disconnect(Toggled, c, "disable", answers)
    /\ UNCHANGED cache
    /\ UNCHANGED Outside

\* setEnabled(true) of a server that is disabled: it is verified now if it is degraded.
Enable(c) ==
    /\ op[c].at = "idle"
    /\ rec.present
    /\ ~rec.enabled
    /\ rec' = [rec EXCEPT !.enabled = TRUE]
    /\ op' = [Toggled EXCEPT ![c] = IF rec.state = "degraded"
                                    THEN [Task("refresh") EXCEPT !.at = "waiting"] ELSE Over]
    /\ queue' = IF rec.state = "degraded" THEN Append(queue, c) ELSE queue
    /\ UNCHANGED <<cache, session, answers>>
    /\ UNCHANGED Outside

\* setEnabled to what it is already: only the epoch moves.
ToggleAgain(c) ==
    /\ op[c].at = "idle"
    /\ rec.present
    /\ op' = [Toggled EXCEPT ![c] = Over]
    /\ UNCHANGED <<rec, cache, queue, session, answers>>
    /\ UNCHANGED Outside

\* The operator looks at the catalog that awaits review.
Show ==
    /\ rec.present
    /\ rec.pending # None
    /\ shown' = rec.pending
    /\ UNCHANGED <<rec, cache, queue, op, session, answers, worker, accepted>>

Fetched == IF rec.pending # None THEN rec.pending ELSE CatalogFor(rec)

\* Mutant: what is accepted is not compared with what was shown.
AcceptableUnseen == shown # None

\* expectedFingerprint
Acceptable == shown # None /\ shown = Fetched

\* acknowledge
Accept ==
    /\ rec.present
    /\ Acceptable
    /\ rec' = Verified(rec, Fetched)
    /\ accepted' = accepted \cup {shown}
    /\ UNCHANGED <<cache, queue, op, session, answers, worker, shown>>

(***************************************************************************)
(* An operation has its turn.                                              *)
(***************************************************************************)
TurnOfRefresh(c) ==
    /\ Turn(c, "refresh")
    /\ IF rec.present /\ rec.enabled
       THEN /\ op' = [op EXCEPT ![c].at = "resolving", ![c].snap = rec, ![c].config = rec.config]
            /\ UNCHANGED <<rec, cache, queue, session, answers>>
       ELSE Gone(c)

\* forward, ensureConnected: the state of the session is asked for.
TurnOfCall(c) ==
    /\ Turn(c, "call")
    /\ IF Forwardable(rec)
       THEN /\ op' = [op EXCEPT ![c].at = "status", ![c].snap = rec, ![c].config = rec.config,
                        ![c].connected = session.phase = "connected" /\ ~session.changed]
            /\ answers' = Append(answers, c)
            /\ UNCHANGED <<rec, cache, queue, session>>
       ELSE Gone(c)

\* persist: a server that is left disabled has its session stopped.
Persist(c, r) ==
    /\ rec' = r
    /\ UNCHANGED cache
    /\ IF r.enabled
       THEN Leave(c) /\ UNCHANGED <<session, answers>>
       ELSE Disconnect(op, c, "save", answers)

TurnOfEdit(c) ==
    /\ Turn(c, "edit")
    /\ CASE ~rec.present -> Gone(c)
         [] rec.present /\ op[c].config = rec.config ->
                Persist(c, [rec EXCEPT !.enabled = Wanted(rec, c)])
         [] rec.present /\ op[c].config # rec.config /\ ~Wanted(rec, c) ->
                Persist(c, [rec EXCEPT !.enabled = FALSE, !.config = op[c].config,
                                       !.state = "degraded"])
         [] rec.present /\ op[c].config # rec.config /\ Wanted(rec, c) ->
                /\ op' = [op EXCEPT ![c].at = "resolving", ![c].snap = rec]
                /\ UNCHANGED <<rec, cache, queue, session, answers>>

TurnOfRemove(c) ==
    /\ Turn(c, "remove")
    /\ IF rec.present
       THEN Disconnect(op, c, "remove", answers) /\ UNCHANGED <<rec, cache>>
       ELSE Gone(c)

\* What setEnabled(false) left to do when the lock is free.
TurnOfDisable(c) ==
    /\ Turn(c, "disable")
    /\ IF rec.present /\ ~rec.enabled
       THEN Disconnect(op, c, "disable", answers) /\ UNCHANGED <<rec, cache>>
       ELSE Gone(c)

HasTurn(c) ==
    /\ \/ TurnOfRefresh(c)
       \/ TurnOfCall(c)
       \/ TurnOfEdit(c)
       \/ TurnOfRemove(c)
       \/ TurnOfDisable(c)
    /\ UNCHANGED Outside

(***************************************************************************)
(* The handshake: secrets, connect, catalog.                               *)
(***************************************************************************)
\* resolveUpstreamTransport fails: a secret is missing.
SecretMissing(c) ==
    /\ op[c].at \in {"resolving", "calling"}
    /\ IF op[c].task = "restore" /\ ~op[c].stale
       THEN Disconnect(op, c, "restore", answers) /\ UNCHANGED <<rec, cache>>
       ELSE Gone(c)
    /\ UNCHANGED Outside

\* connect is sent: the worker closes the session there is.
Connect(c) ==
    /\ op[c].at = "resolving"
    /\ CASE Overtaken(c) -> Gone(c)
         [] ~Overtaken(c) /\ worker ->
                /\ session' = NoSession
                /\ op' = [op EXCEPT ![c].at = "closing"]
                /\ UNCHANGED <<rec, cache, queue, answers>>
         [] ~Overtaken(c) /\ ~worker -> Answered(c, "failed", answers) /\ UNCHANGED <<rec, cache>>
    /\ UNCHANGED Outside

\* The worker has closed the old session, and opens the new one.
WorkerOpens(c) ==
    /\ op[c].at = "closing"
    /\ op' = [op EXCEPT ![c].at = "opening"]
    /\ session' = Session("opening", op[c].config)
    /\ UNCHANGED <<rec, cache, queue, answers>>
    /\ UNCHANGED Outside

\* The handshake succeeds, unless the session was disconnected meanwhile.
WorkerConnected(c) ==
    /\ op[c].at = "opening"
    /\ session.phase = "opening"
    /\ session' = [session EXCEPT !.phase = "connected"]
    /\ op' = [op EXCEPT ![c].at = "opened"]
    /\ answers' = Append(answers, c)
    /\ UNCHANGED <<rec, cache, queue>>
    /\ UNCHANGED Outside

WorkerNotConnected(c) ==
    /\ op[c].at = "opening"
    /\ session' = IF session.phase = "opening" THEN [session EXCEPT !.phase = "lost"] ELSE session
    /\ op' = [op EXCEPT ![c].at = "failed"]
    /\ answers' = Append(answers, c)
    /\ UNCHANGED <<rec, cache, queue>>
    /\ UNCHANGED Outside

\* The core goes on to ask for the catalog.
ReadOpened(c) ==
    /\ Reads(c, "opened")
    /\ CASE Overtaken(c) -> Disconnect(op, c, op[c].task, Tail(answers))
         [] ~Overtaken(c) /\ session.phase # "none" ->
                /\ op' = [op EXCEPT ![c].at = "fetching"]
                /\ answers' = Tail(answers)
                /\ UNCHANGED <<queue, session>>
         [] ~Overtaken(c) /\ session.phase = "none" -> Answered(c, "failed", Tail(answers))
    /\ UNCHANGED <<rec, cache>>
    /\ UNCHANGED Outside

\* A session that was lost is opened again for the catalog.
WorkerReopens(c) ==
    /\ op[c].at = "fetching"
    /\ session.phase = "lost"
    /\ session' = [session EXCEPT !.phase = "connected"]
    /\ UNCHANGED <<rec, cache, queue, op, answers>>
    /\ UNCHANGED Outside

\* A first page that cannot be had counts as empty, whether or not the session still stands.
WorkerFetched(c, catalog) ==
    /\ op[c].at = "fetching"
    /\ session.phase = "connected" \/ catalog = Short
    /\ op' = [op EXCEPT ![c].at = "fetched", ![c].catalog = catalog]
    /\ answers' = Append(answers, c)
    /\ UNCHANGED <<rec, cache, queue, session>>
    /\ UNCHANGED Outside

\* A later page cannot be had.
WorkerNotFetched(c) ==
    /\ op[c].at = "fetching"
    /\ Answered(c, "failed", answers)
    /\ UNCHANGED <<rec, cache>>
    /\ UNCHANGED Outside

(***************************************************************************)
(* What the core does with the catalog.                                    *)
(***************************************************************************)
\* The operation ends with its last answer, and leaves the row r.
Ends(c, r) ==
    /\ rec' = r
    /\ Leave(c)
    /\ UNCHANGED session
    /\ answers' = Tail(answers)

\* The last check of a call: whether the row allows it and the reviewed catalog lists it.
Forward(c, r) ==
    \/ /\ ~Forwardable(r)
       /\ Ends(c, r)
    \/ /\ Forwardable(r)
       /\ Ends(c, [r EXCEPT !.state = "needs-review"])
    \/ /\ Forwardable(r)
       /\ rec' = r
       /\ op' = [op EXCEPT ![c].at = "calling"]
       /\ answers' = Tail(answers)
       /\ UNCHANGED <<queue, session>>

\* ensureConnected
ReadStatus(c) ==
    /\ Reads(c, "status")
    /\ IF op[c].connected
       THEN Forward(c, rec)
       ELSE /\ op' = [op EXCEPT ![c].at = "resolving"]
            /\ answers' = Tail(answers)
            /\ UNCHANGED <<rec, queue, session>>
    /\ UNCHANGED cache
    /\ UNCHANGED Outside

\* refreshUnlocked
ReadRefreshed(c) ==
    /\ Reads(c, "fetched")
    /\ op[c].task = "refresh"
    /\ cache' = op[c].catalog
    /\ Ends(c, IF op[c].catalog # op[c].snap.catalog
               THEN NeedsReview(rec, op[c].catalog) ELSE Verified(rec, op[c].catalog))
    /\ UNCHANGED Outside

ReadReconnected(c) ==
    /\ Reads(c, "fetched")
    /\ op[c].task = "call"
    /\ cache' = op[c].catalog
    /\ Forward(c, IF op[c].catalog # op[c].snap.catalog
                  THEN NeedsReview(rec, op[c].catalog) ELSE rec)
    /\ UNCHANGED Outside

\* The row after an edit whose handshake succeeded.
Edited(c) ==
    LET r == [rec EXCEPT !.config = op[c].config, !.enabled = Wanted(rec, c)] IN
    IF op[c].catalog # op[c].snap.catalog \/ op[c].snap.state = "needs-review"
    THEN NeedsReview(r, op[c].catalog) ELSE Verified(r, op[c].catalog)

ReadEdited(c) ==
    /\ Reads(c, "fetched")
    /\ op[c].task = "edit"
    /\ IF Overtaken(c)
       THEN Disconnect(op, c, "edit", Tail(answers)) /\ UNCHANGED <<rec, cache>>
       ELSE cache' = op[c].catalog /\ Ends(c, Edited(c))
    /\ UNCHANGED Outside

\* restoreSession
ReadRestored(c) ==
    /\ Reads(c, "fetched")
    /\ op[c].task = "restore"
    /\ CASE Overtaken(c) -> Disconnect(op, c, "restore", Tail(answers)) /\ UNCHANGED <<rec, cache>>
         [] ~Overtaken(c) /\ op[c].catalog # op[c].snap.catalog ->
                cache' = op[c].catalog /\ Ends(c, NeedsReview(rec, op[c].catalog))
         [] ~Overtaken(c) /\ op[c].catalog = op[c].snap.catalog ->
                /\ cache' = op[c].catalog
                /\ Ends(c, IF op[c].snap.state = "degraded"
                           THEN [rec EXCEPT !.state = "active"] ELSE rec)
    /\ UNCHANGED Outside

\* A request failed, or a call was answered.
ReadFailed(c) ==
    /\ Reads(c, "failed")
    /\ CASE op[c].task = "refresh" -> Ends(c, Degraded(rec))
         [] op[c].task = "call" -> Ends(c, rec)
         [] op[c].task \in {"edit", "restore"} ->
                Disconnect(op, c, op[c].task, Tail(answers)) /\ UNCHANGED rec
    /\ UNCHANGED cache
    /\ UNCHANGED Outside

(***************************************************************************)
(* Sessions that are stopped, and calls.                                   *)
(***************************************************************************)
\* A failed edit gives a server that was running its session back.
AfterEdit(c) ==
    IF ~op[c].stale /\ rec.enabled /\ op[c].snap.enabled
    THEN /\ op' = [op EXCEPT ![c].at = "resolving", ![c].task = "restore",
                             ![c].config = op[c].snap.config]
         /\ answers' = Tail(answers)
         /\ UNCHANGED <<rec, queue, session>>
    ELSE Ends(c, rec)

\* Mutant: a handshake that holds the lock is forgotten.
AfterDisableAlone(c) ==
    /\ op' = [op EXCEPT ![c] = Over]
    /\ queue' = IF queue # <<>> /\ Head(queue) = c THEN Tail(queue) ELSE queue
    /\ answers' = Tail(answers)
    /\ UNCHANGED <<rec, session>>

\* Whoever holds the lock may have reconnected: the session is closed once more after it.
AfterDisable(c) ==
    CASE queue # <<>> /\ Head(queue) = c -> Ends(c, rec)
      [] queue # <<>> /\ Head(queue) # c ->
            /\ Enqueue(c, Task("disable"))
            /\ answers' = Tail(answers)
            /\ UNCHANGED <<rec, session>>
      [] queue = <<>> ->
            /\ op' = [op EXCEPT ![c] = Over]
            /\ answers' = Tail(answers)
            /\ UNCHANGED <<rec, queue, session>>

ReadDisconnected(c) ==
    /\ Reads(c, "disconnecting")
    /\ CASE op[c].task = "save" -> Ends(c, rec)
         [] op[c].task = "edit" -> AfterEdit(c)
         [] op[c].task = "restore" -> Ends(c, IF op[c].stale THEN rec ELSE Degraded(rec))
         [] op[c].task = "remove" -> Ends(c, [rec EXCEPT !.present = FALSE])
         [] op[c].task = "disable" -> AfterDisable(c)
    /\ cache' = IF op[c].task = "remove" THEN None ELSE cache
    /\ UNCHANGED Outside

\* The call is sent; the worker has a session for it or refuses.
Call(c) ==
    /\ op[c].at = "calling"
    /\ IF session.phase = "connected"
       THEN /\ op' = [op EXCEPT ![c].at = "running"]
            /\ UNCHANGED <<rec, cache, queue, session, answers>>
       ELSE Answered(c, "failed", answers) /\ UNCHANGED <<rec, cache>>
    /\ UNCHANGED Outside

WorkerCalled(c) ==
    /\ op[c].at = "running"
    /\ Answered(c, "failed", answers)
    /\ UNCHANGED <<rec, cache>>
    /\ UNCHANGED Outside

(***************************************************************************)
(* The server, the worker and the program.                                 *)
(***************************************************************************)
SessionLost ==
    /\ session.phase = "connected"
    /\ session' = [session EXCEPT !.phase = "lost"]
    /\ UNCHANGED <<rec, cache, queue, op, answers>>
    /\ UNCHANGED Outside

\* notifications/tools/list_changed
ListChanged ==
    /\ session.phase \in {"opening", "connected"}
    /\ session' = [session EXCEPT !.changed = TRUE]
    /\ UNCHANGED <<rec, cache, queue, op, answers>>
    /\ UNCHANGED Outside

\* Requests that wait for the worker fail with it.
Pending == {c \in Ops : op[c].at \in {"closing", "opening", "fetching", "running"}}

WorkerDies ==
    /\ worker
    /\ worker' = FALSE
    /\ session' = NoSession
    /\ op' = [c \in Ops |-> IF c \in Pending THEN [op[c] EXCEPT !.at = "failed"] ELSE op[c]]
    /\ answers' = IF Pending = {} THEN answers ELSE Append(answers, Head(queue))
    /\ UNCHANGED <<rec, cache, queue, shown, accepted>>

\* The program starts again, with a new worker; what was not written is forgotten.
Restart ==
    /\ cache' = None
    /\ queue' = <<>>
    /\ op' = [c \in Ops |-> IF op[c].at = "idle" THEN NoOp ELSE Over]
    /\ session' = NoSession
    /\ answers' = <<>>
    /\ worker' = TRUE
    /\ UNCHANGED <<rec, shown, accepted>>

Step(c) ==
    \/ HasTurn(c)
    \/ SecretMissing(c)
    \/ Connect(c)
    \/ ReadOpened(c)
    \/ ReadStatus(c)
    \/ ReadRefreshed(c)
    \/ ReadReconnected(c)
    \/ ReadEdited(c)
    \/ ReadRestored(c)
    \/ ReadFailed(c)
    \/ ReadDisconnected(c)
    \/ Call(c)

WorkerStep(c) ==
    \/ WorkerOpens(c)
    \/ WorkerConnected(c)
    \/ WorkerNotConnected(c)
    \/ WorkerReopens(c)
    \/ \E catalog \in Catalogs : WorkerFetched(c, catalog)
    \/ WorkerNotFetched(c)
    \/ WorkerCalled(c)

Next ==
    \/ \E c \in Ops :
        \/ \E task \in Tasks : Begin(c, task)
        \/ \E config \in Configs, want \in Wants : Edit(c, config, want)
        \/ Disable(c)
        \/ Enable(c)
        \/ ToggleAgain(c)
        \/ Step(c)
        \/ WorkerStep(c)
    \/ Show
    \/ Accept
    \/ SessionLost
    \/ ListChanged
    \/ WorkerDies
    \/ Restart

Spec == Init /\ [][Next]_vars

(***************************************************************************)
(* Properties.                                                             *)
(***************************************************************************)
\* The catalog whose entries may be called is one that the operator has accepted, or that of the
\* registration, whatever the server offers and whichever operations overlap with the review; and
\* so is the one that is published, unless the row still names a catalog that awaits review
\* (upstream-registry-service.ts:57, 246, docs/user-manual/20-mcp-upstreams.md:114).
OnlyAcceptedIsUsed ==
    /\ rec.catalog \in accepted
    /\ Served /\ rec.pending = None => CatalogFor(rec) \in accepted

\* Disabling does not wait: from then on no call runs on a session that stands
\* (upstream-registry-service.ts:264, 20-mcp-upstreams.md:43).
CutOffHolds ==
    \A c \in Ops : op[c].at = "running" /\ session.phase = "connected" => rec.present /\ rec.enabled

\* A session that the worker keeps when no operation holds or awaits the lock of the server is
\* that of the row, whatever is still being answered: a server that is disabled or removed has
\* none, although a handshake overlapped with the cut (upstream-registry-service.ts:267,
\* 20-mcp-upstreams.md:40), and an edit that failed or was overtaken leaves none of its own
\* (upstream-registry-service.ts:189).
SessionIsOfTheRow ==
    session.phase # "none" /\ queue = <<>>
        => rec.present /\ rec.enabled /\ session.config = rec.config
=============================================================================
