------------------------- MODULE ManagedProcesses -------------------------
(***************************************************************************)
(* Managed processes: what the operating system runs, what the worker      *)
(* knows of it (packages/executor processes.ts), and the rows in which the *)
(* core remembers it (process-service.ts, store processes.ts).  The worker *)
(* answers a request in one step and its answers arrive in that order; the *)
(* core reads a row before it asks and writes when the answer arrives.     *)
(* The end of a process, its entry and the result file of a kept process   *)
(* are one step: whoever reads an entry sees them together.                *)
(***************************************************************************)
EXTENDS Naturals, Sequences, FiniteSets

CONSTANTS
    Calls,       \* requests of the core to the worker
    MaxProcs,    \* bound: processes ever started
    MaxStops     \* bound: ends of the program

ASSUME ProcsAssumption == MaxProcs \in Nat

VARIABLES
    os,          \* per process: how it was started, whether it runs, how it ended
    entries,     \* ManagedProcessRuntime.entries of the worker
    rows,        \* managed_processes
    call,        \* per request: what it asks, and what it has read of the rows before
    handled,     \* the requests that the worker has seen, or never will
    answers,     \* what the worker has answered, on its way to the core
    core,        \* the program runs
    worker,      \* the worker runs
    stops        \* ends of the program so far

vars == <<os, entries, rows, call, handled, answers, core, worker, stops>>

Procs == 1..MaxProcs
Lifecycles == {"stop-with-aevra", "keep-running"}
Ends == {"completed", "failed", "stopped"}
NoRow == [state |-> "none", ownership |-> "owned", lifecycle |-> "none"]
NoCall == [at |-> "idle", kind |-> "none", p |-> 0, lifecycle |-> "none", known |-> {}]
NoProcess == [lifecycle |-> "none", state |-> "none", told |-> FALSE, start |-> 0]

States == {"running"} \cup Ends
Reports == UNION {[ps -> States] : ps \in SUBSET Procs}
Kinds == {"none", "start", "observe", "list", "stop", "restart", "localStop", "localRestart"}
ProcessRecords == [lifecycle : Lifecycles \cup {"none"}, state : States \cup {"none"},
                   told : BOOLEAN, start : Procs \cup {0}]
RowRecords == [state : States \cup {"none"}, ownership : {"owned", "detached-uncertain"},
               lifecycle : Lifecycles \cup {"none"}]
CallRecords == [at : {"idle", "sent", "over"}, kind : Kinds, p : Procs \cup {0},
                lifecycle : Lifecycles \cup {"none"}, known : SUBSET Procs]
Answers == [call : Calls, ok : BOOLEAN, report : Reports, child : Procs \cup {0}]

TypeOK ==
    /\ os \in [Procs -> ProcessRecords]
    /\ entries \subseteq Procs
    /\ rows \in [Procs -> RowRecords]
    /\ call \in [Calls -> CallRecords]
    /\ handled \subseteq Calls
    /\ answers \in Seq(Answers)
    /\ core \in BOOLEAN
    /\ worker \in BOOLEAN
    /\ stops \in Nat

Init ==
    /\ os = [p \in Procs |-> NoProcess]
    /\ entries = {}
    /\ rows = [p \in Procs |-> NoRow]
    /\ call = [c \in Calls |-> NoCall]
    /\ handled = {}
    /\ answers = <<>>
    /\ core = TRUE
    /\ worker = TRUE
    /\ stops = 0

Known == {p \in Procs : rows[p].state # "none"}
Unused == {p \in Procs : os[p].state = "none"}

(***************************************************************************)
(* The core asks.                                                          *)
(***************************************************************************)
Ask(c, kind, p, lifecycle, known) ==
    /\ core
    /\ call[c].at = "idle"
    /\ call' = [call EXCEPT ![c] = [at |-> IF worker THEN "sent" ELSE "over",
                                kind |-> kind, p |-> p, lifecycle |-> lifecycle, known |-> known]]
    /\ handled' = IF worker THEN handled ELSE handled \cup {c}
    /\ UNCHANGED <<os, entries, rows, answers, core, worker, stops>>

\* process_start.
Start(c, l) == Ask(c, "start", 0, l, {})

\* process_status, process_wait, process_logs: of a process that has a row, whoever owns it.
Observe(c, p) == p \in Known /\ Ask(c, "observe", p, rows[p].lifecycle, {})

\* process_stop and process_restart of a session.
Command(c, kind, p) == p \in Known /\ Ask(c, kind, p, rows[p].lifecycle, {})

\* process_list: the rows that were known when it asked.
List(c) == Ask(c, "list", 0, "none", Known)

\* The console stops or restarts: not a process whose ownership is uncertain.
LocalCommand(c, kind, p) ==
    /\ p \in Known
    /\ rows[p].ownership # "detached-uncertain"
    /\ Ask(c, kind, p, rows[p].lifecycle, {})

Forget(p) ==
    /\ core
    /\ p \in Known
    /\ rows' = [rows EXCEPT ![p] = NoRow]
    /\ UNCHANGED <<os, entries, call, handled, answers, core, worker, stops>>

(***************************************************************************)
(* The worker answers.                                                     *)
(***************************************************************************)
\* What it says of the processes ps.
Report(procs, ps) == [p \in ps |-> procs[p].state]

Answer(c, ok, report, child) == [call |-> c, ok |-> ok, report |-> report, child |-> child]

\* stop: the process is told, whether or not it then ends.
Told(p) == IF os[p].state = "running" THEN [os EXCEPT ![p].told = TRUE] ELSE os

Spawned(procs, p, l, start) ==
    [procs EXCEPT ![p] = [lifecycle |-> l, state |-> "running", told |-> FALSE, start |-> start]]

Answered(a) == answers' = Append(answers, a)

WorkerStarts(c) ==
    /\ call[c].kind = "start"
    /\ \E p \in Unused :
        /\ \A q \in Unused : p <= q
        /\ os' = Spawned(os, p, call[c].lifecycle, p)
        /\ entries' = entries \cup {p}
        /\ Answered(Answer(c, TRUE, Report(os', {p}), p))

WorkerObserves(c) ==
    /\ call[c].kind \in {"observe", "list"}
    /\ LET ps == IF call[c].kind = "list" THEN entries ELSE {call[c].p} IN
       IF ps \subseteq entries
       THEN Answered(Answer(c, TRUE, Report(os, ps), 0))
       ELSE Answered(Answer(c, FALSE, Report(os, {}), 0))
    /\ UNCHANGED <<os, entries>>

WorkerStops(c) ==
    /\ call[c].kind \in {"stop", "localStop"}
    /\ LET p == call[c].p IN
       /\ os' = IF p \in entries THEN Told(p) ELSE os
       /\ Answered(Answer(c, p \in entries, Report(os, {}), 0))
    /\ UNCHANGED entries

\* Mutant: the entry of the old process stays.
WorkerRestartsKeeping(c) ==
    /\ call[c].kind \in {"restart", "localRestart"}
    /\ call[c].p \in entries
    /\ \E q \in Unused :
        /\ \A r \in Unused : q <= r
        /\ os' = Spawned(Told(call[c].p), q, os[call[c].p].lifecycle, os[call[c].p].start)
        /\ entries' = entries \cup {q}
        /\ Answered(Answer(c, TRUE, Report(os', {q}), q))

\* restart: told to stop, forgotten, and started anew without waiting for its end.
WorkerRestarts(c) ==
    /\ call[c].kind \in {"restart", "localRestart"}
    /\ LET p == call[c].p IN
       \/ /\ p \notin entries
          /\ Answered(Answer(c, FALSE, Report(os, {}), 0))
          /\ UNCHANGED <<os, entries>>
       \/ /\ p \in entries
          /\ \E q \in Unused :
              /\ \A r \in Unused : q <= r
              /\ os' = Spawned(Told(p), q, os[p].lifecycle, os[p].start)
              /\ entries' = (entries \ {p}) \cup {q}
              /\ Answered(Answer(c, TRUE, Report(os', {q}), q))

WorkerAnswers(c) ==
    /\ worker
    /\ call[c].at # "idle"
    /\ c \notin handled
    /\ handled' = handled \cup {c}
    /\ \/ WorkerStarts(c)
       \/ WorkerObserves(c)
       \/ WorkerStops(c)
       \/ WorkerRestarts(c)
    /\ UNCHANGED <<rows, call, core, worker, stops>>

(***************************************************************************)
(* The core takes the answer.                                              *)
(***************************************************************************)
Row(state, lifecycle) == [state |-> state, ownership |-> "owned", lifecycle |-> lifecycle]

\* updateStatus of what was reported: of the process asked for, or of those the list knew.
Updated(a) ==
    LET k == call[a.call]
        meant == IF k.kind = "list" THEN k.known ELSE {k.p}
    IN  [p \in Procs |-> IF p \in DOMAIN a.report \cap meant \cap Known
                         THEN [rows[p] EXCEPT !.state = a.report[p]] ELSE rows[p]]

\* put: the row of a process that was started, in place of the one it replaces.
Put(a) ==
    LET k == call[a.call] IN
    [p \in Procs |-> IF p = a.child THEN Row(a.report[p], k.lifecycle)
                     ELSE IF p = k.p THEN NoRow ELSE rows[p]]

Recorded(a) ==
    LET k == call[a.call] IN
    CASE ~a.ok \/ k.at # "sent" -> rows
      [] a.ok /\ k.at = "sent" /\ k.kind \in {"start", "restart"} -> Put(a)
      [] a.ok /\ k.at = "sent" /\ k.kind \notin {"start", "restart"} -> Updated(a)

\* The next answer; nobody waits any more for that of a call which has met its deadline.
Receive ==
    /\ core
    /\ answers # <<>>
    /\ rows' = Recorded(Head(answers))
    /\ call' = [call EXCEPT ![Head(answers).call].at = "over"]
    /\ answers' = Tail(answers)
    /\ UNCHANGED <<os, entries, handled, core, worker, stops>>

\* The call meets its deadline; the worker may still do what was asked.
Deadline(c) ==
    /\ core
    /\ call[c].at = "sent"
    /\ call' = [call EXCEPT ![c].at = "over"]
    /\ UNCHANGED <<os, entries, rows, handled, answers, core, worker, stops>>

(***************************************************************************)
(* Processes end by themselves or because they were told; a process may    *)
(* ignore that.  The worker and the program end, and the program starts.   *)
(***************************************************************************)
Exits(p, how) ==
    /\ os[p].state = "running"
    /\ how = "stopped" <=> os[p].told
    /\ os' = [os EXCEPT ![p].state = how]
    /\ UNCHANGED <<entries, rows, call, handled, answers, core, worker, stops>>

\* Mutant: the next worker adopts what the last one had started.
LostCalls ==
    /\ UNCHANGED entries
    /\ handled' = {c \in Calls : call[c].at # "idle"}
    /\ answers' = <<>>
    /\ call' = [c \in Calls |-> IF call[c].at = "sent" THEN [call[c] EXCEPT !.at = "over"] ELSE call[c]]

\* What was under way is lost; what the worker knew is lost with it.
Lost ==
    /\ entries' = {}
    /\ handled' = {c \in Calls : call[c].at # "idle"}
    /\ answers' = <<>>
    /\ call' = [c \in Calls |-> IF call[c].at = "sent" THEN [call[c] EXCEPT !.at = "over"] ELSE call[c]]

WorkerDies ==
    /\ core
    /\ worker
    /\ worker' = FALSE
    /\ Lost
    /\ UNCHANGED <<os, rows, core, stops>>

\* The program stops, in order or not: it ends the worker and nothing that the worker started.
Stop ==
    /\ core
    /\ stops < MaxStops
    /\ stops' = stops + 1
    /\ core' = FALSE
    /\ worker' = FALSE
    /\ Lost
    /\ UNCHANGED <<os, rows>>

\* Mutant: kept processes are taken to run when the program starts.
BootAdopting ==
    /\ ~core
    /\ core' = TRUE
    /\ worker' = TRUE
    /\ rows' = [p \in Procs |-> IF p \in Known /\ rows[p].lifecycle = "keep-running"
                                THEN [rows[p] EXCEPT !.ownership = "detached-uncertain", !.state = "running"] ELSE rows[p]]
    /\ UNCHANGED <<os, entries, call, handled, answers, stops>>

\* markKeepRunningUncertain
Boot ==
    /\ ~core
    /\ core' = TRUE
    /\ worker' = TRUE
    /\ rows' = [p \in Procs |-> IF p \in Known /\ rows[p].lifecycle = "keep-running"
                                THEN [rows[p] EXCEPT !.ownership = "detached-uncertain"] ELSE rows[p]]
    /\ UNCHANGED <<os, entries, call, handled, answers, stops>>

Next ==
    \/ \E c \in Calls :
        \/ \E l \in Lifecycles : Start(c, l)
        \/ List(c)
        \/ \E p \in Procs :
            \/ Observe(c, p)
            \/ \E kind \in {"stop", "restart"} : Command(c, kind, p)
            \/ \E kind \in {"localStop", "localRestart"} : LocalCommand(c, kind, p)
        \/ WorkerAnswers(c)
        \/ Deadline(c)
    \/ \E p \in Procs :
        \/ Forget(p)
        \/ \E how \in Ends : Exits(p, how)
    \/ Receive
    \/ WorkerDies
    \/ Stop
    \/ Boot

Spec == Init /\ [][Next]_vars

(***************************************************************************)
(* Properties.                                                             *)
(***************************************************************************)
\* A row that tells how a process ended tells the truth, and tells it for ever: an answer that
\* was under way, a restart or a new start of the program do not make it run again
\* (processes.ts:275, process-service.ts:273, store processes.ts:48).
RecordedEndIsFinal ==
    [][\A p \in Procs : rows[p].state \in Ends =>
          os[p].state = rows[p].state /\ rows'[p].state \in {rows[p].state, "none"}]_vars

\* Of the processes that came from one start by restarts, at most one has not been told to stop,
\* whatever restarts of sessions and of the console overlap or time out (processes.ts:235).
OneWantedPerStart ==
    \A p, q \in Procs :
        os[p].state = "running" /\ os[q].state = "running" /\ ~os[p].told /\ ~os[q].told
            /\ os[p].start = os[q].start => p = q

\* A process whose ownership is uncertain is told nothing; sessions are not even refused
\* (process-service.ts:93, docs/specs/06-workspaces-execution.md:81).
UncertainIsLeftAlone ==
    [][\A p \in Procs : rows[p].ownership = "detached-uncertain" => os'[p].told = os[p].told]_vars
=============================================================================
