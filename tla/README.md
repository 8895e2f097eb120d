# Aevra: TLA+ models and proofs of the gateway's core

Aevra is a TypeScript gateway that lets MCP clients (AI assistants) work on a
developer's machine. `apps/core` is the program the clients and the operator
talk to; `apps/worker` executes tools in a process of its own; the `packages/`
hold what they share. Nothing happens without the operator's consent, so most of
what can go wrong here is a matter of order: a decision that arrives late, a
grant that is withdrawn while a call waits, a token that is presented twice, a
crash between two writes. This directory models those parts in TLA+, checks them
with TLC on small instances, and proves the most important facts about them with
TLAPS for every value of the constants.

`PROJECT.json` lists the components, the runs, the source lines each definition
stands for, the hazards and the theorems.

## 1. The system

| Component | State | Operations | Hard behaviour | Correct when |
|---|---|---|---|---|
| Approval tickets (`apps/core/src/approvals`, `store/src/approvals.ts`, `mcp-tools/src/approval-resume.ts`) | rows of `pending_approvals`; in memory: unredacted payloads, command bindings, calls in flight | request (with a fast wait), approve, deny, cancel, status (expiry), clear history, resume, restart | two calls resume one ticket; authority changes during an await; crash while executing | a frozen operation runs at most once, for its owner, with the payload that was frozen, under authority held when it starts, and gets an outcome |
| Host control grants (`apps/core/src/control/host-control-*.ts`) | rows of `host_control_grants` | grant by approval, revoke, check | revoked between check and use | an action starts only under a grant |
| Sessions, leases, grants (`apps/core/src/sessions`) | in memory: sessions, detached sessions, leases, elevated mode; rows: remembered grants, connection status, grace | create, resume, disconnect, admit, grant pages, three revocations, grace, restart | lazy restoration, detached leases, fan-out to all sessions of a connection | access exists only by a decision, follows the client through reconnects and ends with a revocation |
| OAuth server (`apps/core/src/auth`, `store/src/oauth*.ts`) | clients, authorization requests, codes, connections, refresh families, tokens (all rows) | register, authorize, decide, exchange, refresh, revoke, delete, prune | replay and lost answers, crash between the transactions of an exchange, caps | one working refresh token, replay ends the connection, scope and lifetime do not grow |
| Control plans (`packages/control`, `store/src/control-plans.ts`) | journal rows and their copies in memory, step executions, turns on surfaces | execute, step, settle a wave, cancel, repeat a request, restart | waves, queues of a surface, cancellation and errors at any await, crash | an action is dispatched once at most, surfaces are exclusive, plans end and say what happened |
| Observation store (`packages/control/src/observation-*.ts`) | bounded history of generations and revisions of each surface | publish, delta, page, forget | tokens of forgotten revisions | a delta is relative to what the client saw |
| Operations and change sets (`apps/core/src/operations`, `changes`, `policy/workspace-locks.ts`, file operations of `packages/executor`) | operation rows, snapshots, change sets, change operations, locks in memory | write, create, delete, move, patch, download, command; begin, commit, roll back; restart | a read before the lock, a worker that outlives the call, partial rollback, a crash between the write and its record | what is reported done can be undone, and undoing restores what was there |
| Worker and transport (`apps/core/src/worker`, `packages/ipc`, `apps/worker`) | socket, reply slots, stream tables, senders and receivers | connect, call, upload, download, close, lose the connection | shared handshake, late answers and late closes, frames that cross, early returns | every call ends, with all of its stream or with an error, and leaves nothing behind |
| Managed processes (`apps/core/src/processes`, `packages/executor/src/processes.ts`) | process rows against the worker's entries | start, observe, list, stop, restart, forget; by sessions and by the console | answers that are late or lost, restarts that overlap, death of the worker, restart of the program | a recorded end is true, one copy of a process is wanted, processes of uncertain ownership are left alone |
| Agent integration (`packages/agent-integration`) | lock file, manifests, journals, configuration files, credentials | install, refresh, replace, uninstall; recover | several processes, takeover of a stale lock, a crash or a failing call at any write, edits by the user | a registration is whole or absent, no credential works unaccounted for, others' text survives |
| Audit log (`apps/core/src/audit`) | rows in a hash chain, checkpoint | append, clear, prune, verify | a crash while clearing, two retentions | an untouched log verifies |
| Upstream MCP servers (`apps/core/src/mcp-upstream`, `apps/worker/src/mcp-upstream-runtime.ts`) | rows with the accepted and the pending catalog; in memory: the catalog seen last, the queue of each server; the worker's session | refresh, call, edit, enable, disable, review, remove; restart | disabling and reviewing do not wait for the queue; edits that fail or are overtaken; sessions that break | what is used was accepted, what is disabled is cut off at once, a session that stays is the row's |
| Permissions and command rules | none | decide | precedence of rules | (pure) |
| Drivers, executor, endpoints, admin, storage, clients | device, file and network I/O | | | |

How they interact. A **tool call** enters through the gateway with the identity the
OAuth server gives its token; the session manager finds or creates its session
and the session's leases say which workspaces it may use. A call that needs
consent becomes a **ticket**; approving a ticket may create a lease, a remembered
grant or a host control grant, and resuming it executes the frozen call after
reading leases, grants and the status of the connection again. Revoking a
connection in the admin interface disconnects its sessions, invalidates its
tickets and revokes its tokens; the refresh endpoint revokes a connection by
itself. Host control tickets and grants gate **control plans**. Every admitted file
or command call becomes an **operation**, which takes a workspace lock and sends the
**worker** a request over the **transport**; managed processes are requests of the same
kind whose effect outlives them. **Agent integration** runs in other programs too, and
issues the credentials that agents then present to the gateway. Everything in
`apps/core` runs on one event loop: between two awaits a handler is atomic, and
each await is a point where any other handler may run. SQLite calls are
synchronous; a transaction is atomic and survives a crash, memory does not.

## 2. Modules

| Module | What |
|---|---|
| `ApprovalLifecycle` | What a ticket promises: decided, armed, run once, closed |
| `Approvals` | Approval tickets, resume calls and what they read of sessions, grants and host control |
| `ApprovalsProofs` | Proofs about them, and that they implement `ApprovalLifecycle` |
| `Sessions` | Sessions, leases, remembered grants, elevated mode |
| `OAuth` | The authorization server and its store |
| `AccessProofs` | Proofs about both |
| `ControlPlans`, `ControlPlansProofs` | The plan executor, its journal and the scheduler; proofs |
| `WorkspaceLocks` | The table of workspace locks |
| `Operations`, `OperationsProofs` | Calls on files and commands over those locks, change sets and rollback; proofs |
| `WorkerTransport`, `WorkerTransportProofs` | The socket between core and worker; proofs |
| `ManagedProcesses`, `ManagedProcessesProofs` | Processes, the worker's entries and the rows of the core; proofs |
| `UpstreamServers`, `UpstreamServersProofs` | One upstream server, its row, its queue and its session; proofs |
| `IntegrationLock` | The lock file that several programs take |
| `AgentIntegration` | One operation at a time on agents' files, with journal and recovery |
| `IntegrationProofs` | Proofs about both |
| `MC*` | Instances for TLC |

Definitions named `...Always`, `...Kept`, `...Unless...` and the like, marked
"Mutant", are wrong variants of the definition below them: a run must fail when
the variant takes its place.

### Approvals

A ticket is an identifier, in the order of creation. `state`, `decisionScope`,
`kind`, `owner`, `secret` and `overdue` are its row; `volatilePayloads` and
`bindings` what `ApprovalService` and the command binding table hold in memory;
`call` the `approval_wait` calls in flight, each with the ticket it resumes, for
whom, and where it is. `session`, `lease`, `grants`, `hostGrants`, `revoked` and
`drifted` are what the service reads of its surroundings; they change by actions
of their own (`OpenSession`, `EndSession`, `AdminGrant`, `RemoveGrant`,
`RevokeConnection`, `Drift`, ...).

`ApprovalService.resume` awaits twice, and so it is cut in three: `ResumeBegin`
(everything before the first await), `ResumeCheck` (the evidence arrives: the
repository head, the command analysis, the browser tab), and then one of
`ResumeReject`, `ResumeLose`, `ResumeFailClaim`, `ResumeClaim`; `ResumeFinish` is
the return of the frozen operation. The claim is the conditional UPDATE of
`claimExecution`. A payload is abstracted to whether it is the frozen original or
its redacted copy; the reasons a revalidation gives are abstracted to "ok",
"scope", "unauthorized", "changed", since they differ in what they do to the row.
`Restart` is `cancelForRestart` after a crash anywhere between two actions, and
`RestartInApprove` a crash inside `approve()`, after the handlers made their grant.

### Sessions

`session` says of each identifier whether it is live, kept for its grace period
("detached", in `disconnectedIdentities`) or gone; `leases` is the table of
leases, `pending` the sessions owed a lazy restoration of the remembered grants,
`grants` the rows of `oauth_workspace_grants`. A resolution of an incoming request
is one of `ResolveExisting`, `ResolveCreated` and `ResolveResumed`, the last taking
over the leases of detached sessions (`Rebinds`). The two grant pages of the admin
interface are `PageGrant`/`PageRemove` and `RevokeWorkspace`; the revocations are
`RevokeSession`, `RevokeConnection` and `ClientDeleted`, and `RefreshReplay` is the
store's own. Idle times are abstracted: a lease may lapse at any moment. `removed`
and `cut` are history: the grants the operator took away and has not decided anew, and
the connections the operator revoked.

### OAuth

One variable for each table. Time is a counter with the lifetimes as constants.
`Exchange(i, bound, k)` is the exchange of a code, of which the first k
transactions were made (`Steps`; the family of refresh tokens and its first token are
two, `oauth-token-store.ts:71-89`): `ExchangeAuthorizationCode` makes all,
`CrashInExchange` some. Likewise `ExchangeRefresh` with `completed`. `bound` says whether the client,
the redirect address and the verifier are those of the request. A presented
refresh token is ACTIVE (rotated), SPENT (a replay: `Replay`) or REVOKED.
Registration prunes and enforces the cap (`Stale`, `RoomFor`); deletion cascades
(`Cascade`). Hashing, PKCE and redirect addresses are left out.

### ControlPlans

A plan is one request of one owner: the same request with other content is refused
without a change. `journal` and `row` are the tables, `memory` the records of
`ControlPlanJournal`; `at` and `outcome` follow the execution of each step;
`tail` and `before` are the promise chain of `ResourceScheduler`. `Submit` is
`execute()` up to its first wave, `Advance` and `AdvanceFailed` the code between a
settled wave and the next, `StepBegins`, `StepObserves`, `StepDispatches` and
`StepVerifies` the parts of `executeStep` between its awaits. Observations and
predicates are abstracted to what comes of them; "failed" stands for
`needsContext` and `partial` too, and a failed plan's recovery is a choice.

Worth knowing, and in the model:
- a step of a plan cancelled while its first observation is awaited dispatches
  all the same (`StepObserves` does not ask again);
- cancelling a plan that has finished replaces its status, not its result;
- the cancelled flag of a plan that was cancelled while its last wave ran, and ended
  otherwise, is set in memory and clear in its row (section 4); the results' error,
  checkpoint and observation, which `durableResult` (`plan-journal.ts:106`) leaves out of
  the row, are not in the model;
- a plan cancelled while its last wave waits is reported completed, with cancelled
  steps;
- a plan cancelled but not finished stays cancelled after a crash; others become
  unknown (`reconcileIncomplete`).

Two branches are not in the model because no plan reaches them: the parser refuses
cyclic dependencies (`packages/protocol/src/control-parse.ts:240`), so the
executor's deadlock branch and its skipping of steps whose dependency failed
(`plan-executor.ts:98-117`; a failure ends the plan first) are dead code.

### Operations

`WorkspaceLocks` is the module of the locks (`Conflict`, `Free`, `Take`, `Release`,
`Forget`); `Operations` adds the calls. `call[o].at` is where a call is: "reading" (the read whose
hash it will compare), "preparing" (row and snapshot), "waiting" (for the lock),
"executing" (at the worker), "recorded" (the change is in its set, the row is not
finished), "abandoned" (a command that threw between its lock and its `try`). `task` is what the worker was sent and has not answered: a call whose
answer is lost ends, its task does not. `sets`, `active` and `changes` are the tables
and the map of `ChangeService`, `rollback` the rollbacks under way, one file at a time
without a lock. A content is the set of operations whose edits it includes, and is its
own hash. `acted`, `base` and `disturbed` are history: what the worker has done, what
the disk was when a set began, and which sets cannot be expected to be undone exactly
because something else wrote meanwhile.

Worth knowing, and in the model:
- a call that fails, meets its deadline or loses the connection gives up its lock, and its
  task goes on at the worker beside the calls that get the lock next (section 4):
  `CallsExclude` is about calls that wait, and about tasks whose callers do;
- a command takes its lock, then reads its settings and the roots of its workspace, and only
  then begins the `try` whose `finally` releases (`CommandThrows`): if either throws, as the
  second does when the workspace was deleted while the command waited, the lock stays until
  the program ends (section 4);
- the worker is sent the state the caller expects, but nothing looks at it: the
  comparison is of a read made before the lock (section 4);
- a download takes no lock and writes no row, and one that fails after the worker wrote
  leaves no trace; it disturbs the set of whoever wrote before;
- a move replaces its target, and rolling back does not bring the target back;
- a failed snapshot leaves the row at PREPARING until the next start;
- rollback ignores what the worker answers, and neither commit nor rollback clears
  `active`, so later operations join the same set;
- at start, EXECUTING rows become INTERRUPTED, where the table of
  `docs/specs/08-audit-recovery.md` says EXECUTION_OUTCOME_UNKNOWN.

### WorkerTransport

One variable for the parts of `SocketWorkerClient` (`pending`, `socket`,
`connecting`), one for each table of streams, sender and receiver, and `wire`, the
frames on their way on each connection. The numbers of connections let a late close of
an old socket meet a new one. `stage` is the client's part of a handshake, `served` the
worker's. `Begin` is `execute`, `executeWithUpload` and `executeWithDownload` up to the
request on the wire, or up to the shared handshake; `HandshakeEnds` goes on with all
that wait. `Send`, `SourceEnds`, `SourceFails`, `Take`, `ReadsToEnd`, `ReadFails`,
`HandlerStops` and `ReaderCancels` are the code at the two ends of a stream (the core's
frames go to the socket it has by then, `LinkOf`, which need not be that of the call);
`HandleStream` is `StreamTable.handle`; `HandlerReturns` writes what surrounds a reply.
`up` says which ends of connections a side has not noticed yet: between the break of a
socket and the event anything may happen.

### ManagedProcesses

`os` is what runs, `entries` what the worker has in `ManagedProcessRuntime`, `rows`
the table, `call` the requests with what they read of the rows before they asked
(`known`), `answers` the worker's answers on their way. A request has one of the kinds
of `Kinds`: sessions start, observe, list, stop and restart, the console does so
through `localAction`. `Deadline` and `Lost` end requests whose answer will come too
late or not at all; `Boot` is `markKeepRunningUncertain`.

Worth knowing, and in the model:
- a restart from the console writes no row, so the new process has none;
- a start or restart whose answer is lost leaves a process without a row;
- session commands do not look at the ownership of a row; what protects a process of
  uncertain ownership is that the worker that knew it is gone;
- `restart` does not wait for the old process to end, so both run for a while
  (`OneWantedPerStart` says that one of them was told to stop);
- after a restart of the program a row may say "running" for ever.

### UpstreamServers

One server, from its registration on. `rec` is its row, `cache` the catalog that
`UpstreamRegistryRuntime` saw last, `queue` the chain of promises of `withLock`, `session`
what the worker has of `UpstreamSessionRegistry`. `op` holds the operations: what each is,
where it stands between its awaits, and what it read before them (`snap`, and `stale`, which
is `enablementEpoch`). `setEnabled` and `acknowledge` do not queue: `Disable`, `Enable`,
`ToggleAgain` and `Accept` may come between any two steps of the operation that runs.
The handshake is shared: `Connect`, `WorkerOpens`, `WorkerConnected` or
`WorkerNotConnected`, `ReadOpened`, `WorkerFetched` or `WorkerNotFetched`, and then what
each operation does with the catalog (`ReadRefreshed`, `ReadReconnected`, `ReadEdited`,
`ReadRestored`). A catalog is its fingerprint; the server offers any at any time, and a
configuration may fail or not. `shown` and `accepted` are what the operator has seen and
agreed to.

Worth knowing, and in the model:
- a page of a list that cannot be had counts as an empty list if it is the first one
  (`mcp-upstream/src/client.ts:85`), so a session that breaks during the fetch leaves a
  server with fewer tools awaiting review (`Short`);
- a call that reconnects and then cannot have the catalog leaves a session whose catalog
  nobody compared; the next call finds it connected and goes on, by the accepted catalog;
- an acceptance during a refresh is overwritten by it, since the refresh compares with the
  row it read before.

### IntegrationLock and AgentIntegration

`IntegrationLock` is `lock.ts` at the level of file system calls, since its processes
are separate programs: `Open`, `Exists`, `WriteHolder`, `ReadHolder`, `Judge`, `MoveAside`,
`Compare`, `PutBack`, `DropAside`, `Release`, `RemoveName`, with `Die` at any of them and
`Age`, ten minutes over a lock that was never written. It assumes that a pid is not used again and
that a live process does not rest ten minutes between opening and writing.

`AgentIntegration` takes the lock for granted: one operation at a time over two
products. Each step is what the code does up to its next file or credential call; the
journal is saved before each of them. `Crash` ends an operation anywhere, `Fail` makes
a call throw so that the operation rolls back, `UserEdit` changes a file between two
calls, the last look at a file and its replacement included: `writeAtomic` reads, writes
its temporary file, reads again (`Look`) and renames (`Apply`), and an undoing compares
(`CompareWritten`) and then restores or removes (`PutBefore`). `op.seen` is what the last
look found. `notes` follows the warnings of a recovery: `pending` while its operation runs,
then `told` if that returns, `lost` if it fails or dies. The next operation of the product recovers first (`Recover`, `FinishOne`,
`Undo`, ...). A file is the entries of the two products and the number of changes of
the user's own text. An operation that dies after its manifest was written but before
the journal says so is undone.

## 3. Runs

| Run | Instance | Question |
|---|---|---|
| `approvals_one_ticket` | one ticket of each of six kinds; a session of a connection and one of none; two calls | Does a ticket run once at most, with authority, and get an outcome, whatever the calls, strangers and crashes do? Does it implement the life cycle? |
| `approvals_sharing` | two tickets of two sessions of one connection, both admissions, or each a host control request or action; one call | Are requests shared, and do they run only for whom they may? |
| `sessions` | three sessions of a connection, one of a connector admitted automatically, two profiles | Does access follow the client through reconnects, and do removals, lowered grants and revocations rule everywhere? |
| `sessions_revoked` | three sessions of one connection | *violated*: see section 4 |
| `oauth_store` | two clients of one name, two requests, two codes, two tokens to a family | Does the store keep the rules of OAuth across replays, lost answers, crashes and deletions? |
| `control_plans` | a plan of three steps (2 after 1; 1 and 3 on one surface; two at once) and a plan of one step on that surface | Does an action happen once at most, alone on its surface, after what it depends on; does a plan end and its record stay true? |
| `operations` | two calls: edits of two files, a build, a download, a command; one change set, one rollback | Do calls that wait for the worker and conflict exclude each other, is what succeeded recorded with its copy, does a rollback restore, does every call end that no abandoned lock keeps waiting? |
| `worker_transport` | a call of any kind and a plain one; two chunks, a window of one, two connections, one break | Does every call end with all of its stream or an error, does nobody wait on a socket that is gone, and is no request written before its turn? |
| `managed_processes` | three requests of any kind, three processes, one end of the program | Are recorded ends true, does one copy of a process remain wanted, are uncertain processes left alone? |
| `upstream_servers` | four operations of any kind, two catalogs, two configurations | Is only what was accepted used, is a disabled server cut off at once, and is every session that stays that of the row? |
| `integration_lock` | three processes of one lock each, two of which die | Does a holder have the name of the lock, and does a dead lock go? |
| `agent_integration` | two products, two agents, three operations, a crash, a failing call, an edit | Is a registration whole or absent, does every working credential have a trace or a warning, does others' text survive but for an edit in the moment before a rename? |

Every property of these runs is one that some plausible slip in the code would break;
the slip is written down as a "Mutant" beside the definition it changes.

Bounds and why they are enough. Tickets are independent of each other except for
reuse, and except that one host control request may grant what another action needs:
hence one ticket of any kind with two calls, and two tickets with one call, either
two admissions or two of host control (the constraint `OneFamily` keeps the two
families apart, which share no state but the sessions). Two calls are what a race
for the claim needs; a third would lose as the second does. In
Sessions, three sessions of a connection let one be live, one be detached and one
arrive; two profiles let a grant be lowered. Two clients let one be evicted by the
other; a family of two tokens can be rotated and replayed, with a lifetime of two ticks
of which one passes before the rotation, so an extension would show. In ControlPlans
two plans share a surface, one wave has two steps in the queue of one surface, and one
step waits for a dependency. Locks conflict in pairs, so two operations are enough for
them; a rollback beside the two calls gives a third writer. In WorkerTransport two
chunks with a window of one make a full window, an acknowledgement under way and an end
behind a chunk; two connections let a late close of the first meet the second. Three
requests over three processes let two restarts of one process overlap and a third
request observe. Three processes at the lock are what a takeover needs to go wrong: one
that died, one that takes over, and one that acquires between its reading and its
moving. At an upstream server four operations let an edit fail and give back the session
while a toggle overtakes it and another operation queues behind; an edit needs a second
configuration, and a review a second catalog. In AgentIntegration three operations let one be interrupted, the next recover
and then change, and the other product come between.

Symmetry is used for sessions of one connection, for requests of ManagedProcesses, for
operations of UpstreamServers and for the two products, in runs that check safety only, and never with liveness.

Deadlock is not checked where what the bounds count is used up: there the instance
really stops. `OAuth`, `ControlPlans` and `IntegrationLock` always have a step and are
checked for it.

Fairness. `Approvals!FairSpec` is weak fairness of the steps of each resume call:
the awaited evidence arrives or its deadline rejects it, the frozen operation
returns or throws, and the event loop runs what is ready. A crash interrupts it; the
restart then ends the ticket. `ControlPlans!Fairness` is weak fairness of the steps
of each step (an adapter answers or its deadline passes) and of the code after a
settled wave. `Operations!Fairness` is weak fairness of what each call does by itself,
of its turn at the lock and of the worker's answer or its deadline; that nobody can be
overtaken for ever at the lock is not claimed, for calls are finitely many in the
instance and the code polls without a queue. `WorkerTransport!Fairness` is weak fairness
of the two event loops and of the code at both ends of a stream, and of no timer:
`CallsSettle` does not lean on deadlines. `IntegrationLock!LockFairness` is that processes
that run go on. No fairness is assumed of clients, of the operator or of restarts.

## 4. Where code and documents disagree

One run ends in a violation; the quotation is in `PROJECT.json` under "findings".

- **A replayed refresh token leaves access** (`sessions_revoked`). The store revokes
   the connection (`oauth-token-store.ts:133`), and no one tells the session manager.

The models contain more behaviour that a document or a comment excludes. No run claims
the document's sentence of them; each can be seen by stating it as an invariant.

- **A process outlives Aevra.** `stopWithAevra()` (`executor/src/processes.ts:242`) has no
  caller, so a process that was started to stop with Aevra goes on when it ends, where
  `docs/user-manual/11-processes.md:9` offers the choice.
- **A catalog is published unreviewed.** A server awaits review, a refresh fails and makes it
  degraded, and a failed edit gives its session back: the catalog is the accepted one again,
  so the row becomes active (`upstream-registry-runtime.ts:205`) and keeps the pending
  catalog, which `catalogFor` prefers after the next start of the program, where
  `docs/user-manual/20-mcp-upstreams.md:91` holds it back until it is accepted. Calls still
  go by the accepted catalog. `OnlyAcceptedIsUsed` says that nothing else leads there.
- **A removed grant comes back.** Resuming an admission that was approved for the
  connection grants again (`packages/mcp-tools/src/approval-resume.ts:186`). The ticket
  stays APPROVED after the operator removed the grant, so resuming it re-creates the row
  and the leases, where the design of 2026-09-17 (:45) says "reconnect cannot resurrect it".
- **A withdrawn workspace comes back.** Revoking a workspace on the sessions page reaches
  live sessions only (`session-lease-continuity.ts:177`); the lease of a detached session
  is taken over by the next one.
- **An approved client is evicted.** Registration deletes clients older than a day that
  have no connection yet, approved ones included (`oauth-maintenance.ts:19`).
- **A dispatched action is denied.** An error of the observation after a dispatch carries
  no dispatch state, and becomes `notDispatched` in the answer and in the row
  (`plan-executor.ts:257`, `plan-outcome.ts:31`); `docs/specs/03-mcp-protocol.md:154`
  calls such a state `unknown`.
- **An edit is overwritten.** The hash a guarded write compares was read before the lock
  (`operation-service.ts:143`), and rollback looks at a file before it restores it
  (`change-service.ts:128`), in two requests: an edit in between is lost, where
  `docs/user-manual/10-changes-recovery.md:7` promises a conflict.
- **Two hold the integration lock.** A process that found a lock stale moves aside whatever
  has the name by then (`lock.ts:93`). Two processes that take over at once may both
  hold it, where the comment over `acquireIntegrationLock` says that it "serialises every
  change". `HolderHasTheName` says what does hold.
- **An edit falls under the rename.** `writeAtomic` looks at the file a last time and then
  renames over it (`files.ts:33-34`); an undoing that removes a file looks once and unlinks
  (`journal.ts:218-220`, `files.ts:47-48`). What the user or the agent
  writes in between is lost, where `writeAtomic` would refuse it as AGENT_CONCURRENT_EDIT a
  moment earlier. `OthersSurvive` excepts an entry or text that was overtaken in that moment
  (`Overtaken`), and no other.
- **A warning is lost.** The notes of a recovery, which name a credential that may exist
  without a record, are a local variable (`manage.ts:282`) that the caller gets when the
  whole operation has returned (`manage.ts:287-301`); the journal is gone by then
  (`journal.ts:210,233`). If the operation then meets a conflict, a failing call or a crash,
  a credential works that no file names and nobody was told of. `LiveIsAccountedFor` counts
  it under `notes.lost`.
- **A command keeps its lock.** `command-execution.ts` acquires at :80-86 and begins its
  `try` at :115. The settings (:87) and the roots of the workspace (:95, which throws for a
  workspace that is gone, `workspace-service.ts:50`) are read in between; if one throws,
  nothing releases the lock, and calls that conflict with it wait until the program stops.
  `CallsEnd` says that this is the only thing that keeps a call waiting.
- **Two changes run at the worker.** A call that fails or meets its deadline releases its lock
  while "the operation may still be running" (`client.ts:212`), and the next call's task
  runs beside it, where `docs/specs/06-workspaces-execution.md:59` says that mutations
  "take conservative workspace locks". `CallsExclude` says what the locks do ensure.
- **A plan is cancelled, until the restart.** `control_plan_status` reports `cancelled`
  (`packages/mcp-tools/src/control-tools.ts:337`). A plan that is cancelled while its last wave
  runs and then ends otherwise keeps the flag in memory, while `finish()` writes a row
  without it (`plan-journal.ts:230-249`): after a restart the client is told something
  else. `JournalIsCurrent` compares the flags and says that no other plan's differ.
- **An interrupted change stays.** Recovery undoes a write only while the whole file still
  is what was written (`journal.ts:218`). If the other product has written the file since,
  the entry stays, where the comment over `createJournal` says that the next operation
  "undoes it, or finishes it".
- **A socket is refused for speaking out of turn.** After a handshake timeout the client
  keeps its socket (`client.ts:163`), and the next call writes to it before `ready`; the
  worker destroys it. Without a timeout, too: a download that was whole when its socket was
  lost still has its chunks (`stream.ts:96-97`), and taking one acknowledges it on whichever
  socket there is (`client.ts:81`, `stream.ts:32-38,109`), in its handshake as well, where
  the worker takes nothing but the handshake (`server.ts:78-102`). The callers that wait
  for the handshake fail. `RequestsKeepTheirTurn` says that nothing else leads there.

## 5. What is proved

All theorems hold for every value of the constants: any number of tickets, calls,
sessions, connections, plans, steps and surfaces. The assumptions are the modules'
own, each evaluated in every run: identifiers are what they should be
(`TicketsAssumption`, `SessionsAssumption`, `KindsAssumption`, `IdentityAssumption`,
`ProfileAssumption`, `InputAssumption`, `NoneAssumption`, `ProcsAssumption`, `CommandsAssumption`,
`TtlAssumption` and so on),
and in `StepAssumption` that the steps are finitely many
numbers, that a step depends on steps of its own plan and that a plan runs one
step at a time at least. That dependencies are acyclic is not needed.

**`ApprovalsProofs`.** The argument about a single ticket goes through `RowStep`:
every step of the system moves each row along the life cycle (`Moves`) or leaves
it, and counts a run exactly when it goes from APPROVED to EXECUTING
(`EveryRowSteps`, one case for each action). From it, `RunsMatchState` (a ticket
that may still be claimed has not run) is inductive and gives `AtMostOnce`;
`OutcomesStay` is an action property of `RowStep`; and `Implements` maps each row
to `ApprovalLifecycle`. Who executes needs more than the row: `ExecutionInv` adds
that a call under way works on a decided ticket and that one whose revalidation
succeeded is entitled to it. It survives the await between check and claim because
what the ticket froze no longer changes once it is decided (`FrozenStays`). It gives
`OneExecutor` and `OwnerExecutes`. `CallersOwn` says the same of a call that is about to
invalidate its ticket, and that no call resumes a host grant; with it, and because only
`ResumeReject` writes CONTEXT_CHANGED and only `ResumeClaim` starts anything
(`OnlyRejectInvalidates`, `OnlyClaimExecutes`), follow `OwnersInvalidate` and
`AuthorityAtStart`. `OneRequest` needs an order: a request that can still be decided is
the last one of its kind its connection opened (`UsableIsLast`), so that a search for the
newest one finds it (`UsableIsNewest`) and opens no other.

**`AccessProofs`, sessions.** `OneLease`: `LeasesWellFormed` is inductive; the work is in
showing that restoration, rebinding, a new decision and the fan-out to all sessions
of a connection each keep one lease for each workspace (`RestoredUnique`,
`RebindsUnique`, `RegrantedUnique`, `FannedOutUnique`). `RevocationIsFinal`: `CutIsFinal`
is not inductive, since it says nothing of why a late decision has no effect;
`NothingLeft` adds that the connection stays revoked and none of its sessions can
start or be found. `RemovalHolds` needs that leases are well formed, so that no
lease of a session that is gone comes back; so does `GrantRules`, where a session that
starts to live must have no lease from before, and a lease that is taken over must not be
of a workspace with a grant (one is restored for it first). `ReconnectKeeps` is about one
step: only `ResolveResumed` starts a session beside one that is detached and within its
grace period (`StartsToLive`), and each lease is then restored or taken over. `YoloEnds`
is inductive by itself.

**`AccessProofs`, OAuth.** `OneTokenWorks` is inductive by itself once the types are known: a
rotation spends the token it appends a successor to. `CodesAreSingleUse` and `ReplaysEnd`
are not: an exchange that stops between its transactions, a deletion that cascades and a
restart each leave some of the rows. `UsedCodesAreGone` says what they have in common: a
code that was presented, or whose connection was made, is no longer in the table. So a
code is presented once, and a connection that a replay ended has no code that could make
it again; `ReplayInv` adds that no token and no family of it is left.

**`ControlPlansProofs`.** `DispatchedOnce`: `OnceInv` says that a step that acted has
a row, a claimed plan, and is either past its dispatch or in a plan none of whose
steps is under way (`Abandoned`): after a restart the claim in the journal is what
keeps the plan from starting again. `JournalFollowsMemory`: `JournalIsCurrent` is
inductive. `CancelledNeverAct`: `LateInv` says of a step that had not begun when its plan
was cancelled that it waits or has settled in memory while its plan is cancelled there,
or that its plan has no wave and can have none (after a restart, where the row need not
even say any more that the plan was cancelled). `SurfacesTaken`: the promise chain is a queue nobody wrote down, so
`TurnInv` says that one exists. Steps in line are ordered by the round in which they
were put there and by number within it; a step that has another before it waits
for the last of them (`WaitsForLast`), and `tail` is the last step in line
(`TailIsLast`). New steps extend the order (`OrderExtended`), a step that leaves has
no other before it (`TurnIsFirst`, `OrderLeft`), and two steps that both act would
each have to come first.

**`OperationsProofs`.** `Exclusion`: a call that executes has its lock in the table, the
table never holds two locks that conflict, and only the call itself takes its lock out;
what the worker was sent for it is what the lock was taken for. A command that was
abandoned leaves a lock that nobody takes out, which excludes more and never less.
`Recoverable`
and `QueuedIsIdle` follow each call through its stages (`Told`): a destructive call that
waits or executes has its copy; one that is recorded, or whose row says SUCCEEDED, has its
change in the table, whose rows are never changed or removed (`Grows`); and one whose row
says PREPARING or AUTHORIZED has no task at the worker and has done nothing (`Untouched`).
The other calls leave all of this alone (`OtherStep`).

`RollbackIsExact` (the property `RollbackRestores`) is about a whole history: a set that is
rolled back without a conflict leaves the files as they were when it began. `Books` says who
refers to what: a call's task is the call's, rows belong to calls that are over and sets that
have begun, a rollback undoes rows of its own set, and no two that count undo the same one.
On it rests `History`. A set is `Accountable` while all that was made since it began is its own
and recorded, or about to be; for such a set `SetsKnow` says that a path nobody touched holds
what it held at first (`FreshIsBase`), that the first row of a path gives that back
(`RowsKnow`), as would the mutation that has no row yet (`PendingKnows`), of which there is
one at most (`OnePending`, by the locks), and that a call that still waits has that
copy (`CopiesKnow`). `Undoable` carries this through the rollback: rows are undone from the
last to the first, so of the rows of a path that remain the first still gives back what was
there, and a path with none left has it already. The proof needs the one thing the model
had wrong before: a rollback that changes a file disturbs every other set, for they have
no row of it (`Attempt`); two sets and two rollbacks of one file showed it.

**`ManagedProcessesProofs`.** The rows are written from answers that were given earlier,
so the invariant is about the answers under way: a reported end is true
(`ReportsAreTrue`), no later answer contradicts it (`ReportsAreOrdered`), and what is
under way agrees with a row that already tells an end (`ReportsFollowRows`). That gives
`EndsAreFinal`. `OneWanted` needs `OneEntryPerStart`: the worker has one entry for each
chain of restarts, and it is the one that may still be wanted; a restart replaces the
entry in the step in which it tells the old process to stop. `UncertainAreLeft` rests on
`UncertainIsUnknown`: rows become uncertain only at a start of the program, whose new
worker knows nothing.

**`WorkerTransportProofs`.** `NobodyWaitsInVain` needs `OneSocket`: an open client has
not to hear of the end of any socket but the one it has, because it opens another only
after the end of the last has been noticed, and a client that was closed has no callers.
So the end of a socket, which fails everybody, fails nobody on another socket.

`NobodySpeaksOutOfTurn` is about what is under way on each connection. `Turn` lists it
stage by stage: nothing while the connection opens; then the hello, or nothing, or the
answer; and when the client has said "ready", that is the first frame a worker reads
that has not served the connection yet, unless the connection is at an end or a late
acknowledgement is before it (`Astray`). It holds because calls write only on a connection
that is ready or whose handshake met the timeout (`CallsAreReady`, `SocketIsReady`), because
what is appended to a wire leaves its head alone (`Continues`), and because a reader that
takes a chunk on another socket than its call's has a download that came to its end
(`AllHeld`: the core's table holds streams of the socket it has; `LateWhenWhole`). The requests that waited are written behind
"ready" in the same step (`HandshakeEndsOrder`). It takes two assumptions that the
program meets by being finite: `CallsAssumption` (the calls are a finite set, so that
those that wait can be put in a row) and `BoundAssumption`.

`ReceiversAccept` and `WholeAtTheEnd` say that the checks of `ChunkReceiver` never fire
between this client and this worker, and that an end that is reported is the end. The
invariant, `StreamInv`, follows the frames of each call. `Sent` is what the sender has
written of a stream, read off its counters; `Had` is what the receiver has taken, read off
its own; and `Flow` says of the wire between them: what is on it was sent and not yet had,
each frame is there once and behind the frames that must come before it (the request, the
open, the chunks with smaller numbers), and as long as the connection is not at an end
nothing else is missing. A connection at an end may lose frames, and then the flow keeps
its order but not its completeness; what is written to it is lost too, which is why a flow
that was cut grows no further. `Kept` ties the two ends together: acknowledgements never
run ahead of consumption, so never more than a window is on the way, and a receiver that
has seen the end has all of a sender that came to its end. `Live` limits this to receivers that still
listen: once an entry has left the table late frames are answered by an abort and nothing
is claimed of them. Two lemmas about sequences (`FlowRead`, `FlowWritten`) carry the
argument, and every action is one of four kinds of step: it writes (`WriteStep`), reads
(`ReadStep`), starts requests (`StartStep`) or lets a connection lose frames (`LoseStep`).
`WindowAssumption` is needed here.

**`UpstreamServersProofs`.** Operations come and go, and toggles and reviews come between
any two of their steps; what is left to rely on is that only the first of the queue works
(`OneWorks`: it gives `TypeCorrect`, for nobody leaves an empty queue), and what it has
read (`HasRead`: the row it read had an accepted catalog, so a catalog that compares equal
to it was accepted, however old the row is). `Reviewed` says the same of the row and of the
cache, which gives `AcceptedIsUsed`. `CutOff` needs more than calls that run:
`CallsAreAllowed` is about those that passed their last check too, which a cut overtakes by
taking their session; nobody connects another before they have ended, for that would need
the queue. The catalogs are assumed to include the agreed one and the short one
(`CatalogsAssumption`, `ConfigsAssumption`).

`SessionOfTheRow` is about a session while nobody works, so `SessionInv` says what holds of
it while somebody does. Whoever holds the lock keeps a session of the row's configuration,
or, in an edit's handshake, of its own; an edit that fails or is overtaken disconnects, or
connects the old configuration, before it gives the lock away (`SessionFor`). A server that
is disabled may have a session only where a disconnect is still to come: one that waits for
the lock (`CutAwaits`), or one that overtook the handshake and will wait for the lock before the
handshake hears its next answer (`CutBefore`; the worker's answers come in order, and
`Answering` says whose they are). So a handshake that connects after the cut has another disconnect behind it,
and none is left when the queue is empty. `RowsAssumption` keeps the absence of a row apart
from the rows.

**`IntegrationProofs`, the lock.** `HoldersAreAlone` (the property `HolderHasTheName`): as
long as no lock of a live process was moved aside, the file that a process created and has
not begun to give up is the one that has the name (`OwnersHaveTheName`). Which processes
die, and how many there are, does not matter; that the exception is real is in section 4.

**`IntegrationProofs`, agent operations.** `AgentTypeCorrect` also says what each step takes
for granted: that a target is left when a step needs one, that a journal is there when it is
undone, and that whatever an operation has written, or finds in a journal, is a write of its
own product (`Writings`). From it follows `OthersAreLeftAlone`: what an operation looked at is
what it wrote, or what its plan read, so between that look and the rename, as long as nobody
changed the file, nobody else's text is taken back. `Looked` says the same of a registration
that nobody touched, which is what `RegistrationsAreWhole` needs of the two steps.

`Credited` is about credentials. `BookSafe` says of each product that every credential its
manifest names is live and was made for that very registration (`Sound`); that as long as
the journal is not committed, so is every credential of a manifest that an undoing could
give back, and none of them is one the journal will revoke; and that once it is committed,
the manifest names none of the retired. What the operation under way adds depends on its
phase: at work, `AtWork` (both its tables are sound, and what it issued or retired is
accounted for in them) and `WorkWrites` (which writes of the journal it has made); in an
undoing, by a recovery or a rollback, `Undoing`, and for a rollback `RollingBack` (it
revokes what it issued, which no manifest will name); after the commit `Finishing`; before
anything is done `Recovering`. `Traced` says that a live credential is named on disk
(`Accounts`), or by the operation that runs and whose journal names it, or was named in a
warning (`Warned`: one that is pending, told or lost). These parts give
`RegisteredCredentialsWork` and `CredentialsAreAccountedFor`.

`RegistrationsAreWhole` (the property `AllOrNothing`) is the claim of the journal: wherever
an operation stops, what it leaves is whole or can be made whole. `PartsAgree` says this of
each product: one whose journal is committed is `Whole` (manifest, entries, credential
files, skill and links agree); any other is `Restorable`: there are a manifest and texts
such that every file holds them, or will once the writes that are left are undone
(`GoesBack`), and they agree with the links that the journal gives back. Without a journal
the two say the same (`WholeIsRestorable`), which is what the theorem needs. `Restorable` is
kept from one operation to the next because a recovery that dies half way starts again from
the whole list, and because the other product and the user can only change a configuration
file, which `touched` then remembers. While an operation works it is not enough to know what
it came from: what it will commit must agree too. `AtWorkAgrees` says, for each step, which
parts of the present target already follow the table and which still follow the old one
(`LinksAgree`, `SecretsAgree`, `EntriesAgree`, `SkillAgrees`), of the files as they will be
once the write that is in the journal is made (`Shown`), so that recording a change and
making it are one argument. `Endings` keeps the links that the operation remembers and those
of the journal together in a rollback. Both invariants were checked by TLC on an instance of
the same kind before they were proved.

## 6. What is only model-checked

Liveness (`ExecutionEnds`, `PlanEnds`, `CallsEnd`, `CallsSettle`, `DeadLockGoes`) and
whatever rests on fairness is beyond the proof system, and stays with TLC. Every other
property of the passing runs is stated by a theorem. The violation of section 4 is of the
instance named there.

## 7. What is not modelled

Drivers, the executor's system calls, the gateway's endpoints, the admin interface,
storage and the clients are input and output around the parts above, and most of the
repository's lines; the models take from them a choice (an adapter answers, fails, or
does not tell; the operator decides) or an assumption (a SQLite transaction is atomic
and durable). The permission engine and the command rules decide without state, and the
models take their verdict as an input. The web console, the extension and the command
line keep no state that others share.

Two stateful parts are left for later. The observation store: the plans see it only as
an observation that may be missing. The audit log: its hash chain, its two retentions and
its checkpoint; reading the code, two things are worth knowing. Clearing moves the
checkpoint and removes the rows in two transactions (`packages/store/src/audit.ts:35`): if
the program stops between them, `verify()` calls an untouched log broken. Pruning keeps
security events longer than others and so would remove rows from the middle of the chain,
where `verify()` cannot follow (`audit-service.ts:107`); nothing calls it.

Within the modelled parts:
- OAuth: cryptography and redirect addresses. Everywhere: the wording of errors, audit
  records written on the way, and wall-clock times, of which only the order of expiry and
  use matters.
- Approvals: a crash inside `approve()` leaves a grant with a ticket that the restart
  cancels (`approval-service.ts:210`); it is in the model, and no property is about it.
- Operations: merging of several changes of one file into one undo, large downloads
  without a snapshot, and the safe mode that skips reconciliation at start.
- WorkerTransport: the manager of the worker, which starts it and never restarts one that
  died; the authentication of the handshake; backpressure of the socket (the code pauses
  a sender until `drain`, the model's window is the stream's own); `health`, which is a
  plain call.
- ManagedProcesses: log text, spawn errors (an end "failed"), leases, more than one
  workspace; a host process that is killed and writes no result.
- UpstreamServers: names (a rename beside a registration may give two servers one name for
  a moment), risk, authorization and redaction, the clock of list changes, and a worker that
  answers slower than its deadline (the transport's model has those).
- AgentIntegration: agents of the workspace scope, the formats of configuration files
  (a file is its entries and its other text), and the plan shown before an operation.

## 8. What could come next

1. `AuditChain`: appending, clearing in two transactions and verification against the
   checkpoint (`prune` has no caller, so its two retentions never act).
2. `ObservationStore`: deltas and continuation tokens against the full difference.
