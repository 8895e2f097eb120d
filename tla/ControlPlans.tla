---------------------------- MODULE ControlPlans ----------------------------
(***************************************************************************)
(* Control plans: the executor, its journal and the scheduler of surfaces  *)
(* (packages/control/src, packages/store/src/control-plans.ts).            *)
(*                                                                         *)
(* A client submits a plan of guarded steps on browser and desktop         *)
(* surfaces under a request id.  The executor claims the request in the    *)
(* journal, runs the steps in waves, each step observing its surface,      *)
(* dispatching one action and verifying its result, and records what came  *)
(* of it.  A request is claimed once: a client that asks again gets the    *)
(* result or an error, after a restart too.                                *)
(*                                                                         *)
(* The journal is in SQLite and in memory; the rest is in memory only.     *)
(* Between two awaits a handler is atomic: the code from one settled wave  *)
(* to the start of the next is one step, and so is each part of            *)
(* executeStep.  A plan is its request: the same request with other        *)
(* content is refused without a change, and an owner sees its own plans.   *)
(***************************************************************************)
EXTENDS Naturals, FiniteSets

CONSTANTS
    Plans,           \* one for each owner and request id
    Steps,           \* numbered in the order of their plan
    PlanOf,
    SurfaceOf,
    DependsOn,       \* acyclic: the plan parser refuses cycles
    Surfaces,
    MaxConcurrency,  \* of each plan
    None

ASSUME StepAssumption ==
    /\ Steps \subseteq Nat /\ IsFiniteSet(Steps)
    /\ PlanOf \in [Steps -> Plans] /\ SurfaceOf \in [Steps -> Surfaces]
    /\ DependsOn \in [Steps -> SUBSET Steps]
    /\ \A s \in Steps : \A d \in DependsOn[s] : PlanOf[d] = PlanOf[s]
    /\ MaxConcurrency \in [Plans -> Nat \ {0}]
    /\ None \notin Steps

VARIABLES
    journal,   \* control_plans
    row,       \* control_plan_steps: the dispatch state recorded for a step
    memory,    \* ControlPlanJournal.records
    at,        \* where the execution of a step is
    outcome,   \* what a step settled with
    tail,      \* ResourceScheduler.tails: the step that has the last turn of a surface
    before,    \* the step whose turn a step waits for
    \* the world, and history
    calls,     \* how often the action of a step was handed to its adapter
    tooLate    \* steps that had not begun when their plan was cancelled

durableVars == <<journal, row>>
stepVars    == <<at, outcome, tail, before>>
vars        == <<durableVars, memory, stepVars, calls, tooLate>>

\* A plan that needs context, or is partial, has failed.
Terminal   == {"completed", "failed", "cancelled", "awaitingApproval", "unknown"}
NoRecord   == [status |-> "none", cancelled |-> FALSE, result |-> "none"]
Records    == {NoRecord} \cup [status : {"running"} \cup Terminal, cancelled : BOOLEAN,
                               result : {"none"} \cup Terminal]
Places     == {"idle", "queued", "observing", "dispatching", "verifying", "settled", "done"}

\* What a step settles with; an error says what became of its action.
DispatchStates == {"notDispatched", "dispatched", "unknown"}
Unsettled  == [status |-> "none", dispatch |-> "none"]
Settles(x) == [status |-> x, dispatch |-> "none"]
Error(d)   == [status |-> "error", dispatch |-> d]
Outcomes   == {Unsettled} \cup {Settles(x) : x \in {"succeeded", "cancelled", "skipped", "failed"}}
              \cup {Error(d) : d \in DispatchStates}

TypeOK ==
    /\ journal \in [Plans -> Records] /\ memory \in [Plans -> Records]
    /\ row \in [Steps -> {"none"} \cup DispatchStates]
    /\ at \in [Steps -> Places] /\ outcome \in [Steps -> Outcomes]
    /\ tail \in [Surfaces -> Steps \cup {None}] /\ before \in [Steps -> Steps \cup {None}]
    /\ calls \in [Steps -> Nat] /\ tooLate \subseteq Steps
    /\ \A s \in Steps : outcome[s] = Unsettled <=> at[s] \notin {"settled", "done"}

Init ==
    /\ journal = [p \in Plans |-> NoRecord] /\ memory = [p \in Plans |-> NoRecord]
    /\ row = [s \in Steps |-> "none"]
    /\ at = [s \in Steps |-> "idle"] /\ outcome = [s \in Steps |-> Unsettled]
    /\ tail = [x \in Surfaces |-> None] /\ before = [s \in Steps |-> None]
    /\ calls = [s \in Steps |-> 0] /\ tooLate = {}

StepsOf(p)   == {s \in Steps : PlanOf[s] = p}
Pending(p)   == {s \in StepsOf(p) : at[s] = "idle"}
Wave(p)      == {s \in StepsOf(p) : at[s] \notin {"idle", "done"}}
Cancelled(p) == memory[p].cancelled

Failed(s) == outcome[s].dispatch # "none"

-----------------------------------------------------------------------------
(* The plan *)

\* Mutant: in memory, a plan that was cancelled stays as it is.
FinishUnlessCancelled(p, status) ==
    /\ memory' = IF memory[p].cancelled THEN memory
                 ELSE [memory EXCEPT ![p] = [@ EXCEPT !.status = status, !.result = status]]
    /\ journal' = [journal EXCEPT ![p] =
           [status |-> status, cancelled |-> status = "cancelled", result |-> status]]

\* journal.finish: in memory the cancellation stays, in the row it does not.
Finish(p, status) ==
    /\ memory' = [memory EXCEPT ![p] = [@ EXCEPT !.status = status, !.result = status]]
    /\ journal' = [journal EXCEPT ![p] =
           [status |-> status, cancelled |-> status = "cancelled", result |-> status]]

\* The steps of T are done, those among U with the outcome o.
Conclude(T, U, o) ==
    /\ at' = [s \in Steps |-> IF s \in T THEN "done" ELSE at[s]]
    /\ outcome' = [s \in Steps |-> IF s \in U THEN Settles(o) ELSE outcome[s]]
    /\ UNCHANGED <<tail, before>>

Ready(s, got) == DependsOn[s] \subseteq got

\* The first steps that are ready, up to the limit of the plan.
NextWave(p, got) ==
    LET ready == {s \in Pending(p) : Ready(s, got)}
    IN  {s \in ready : Cardinality({r \in ready : r < s}) < MaxConcurrency[p]}

\* scheduler.run: each step of the wave takes the turn after the last one.
LastOf(T) == CHOOSE s \in T : \A r \in T : r <= s

Queue(W) ==
    LET Earlier(s) == {r \in W : r < s /\ SurfaceOf[r] = SurfaceOf[s]}
        On(x) == {s \in W : SurfaceOf[s] = x}
    IN  /\ before' = [s \in Steps |-> IF s \notin W THEN before[s]
                                      ELSE IF Earlier(s) # {} THEN LastOf(Earlier(s))
                                      ELSE tail[SurfaceOf[s]]]
        /\ tail' = [x \in Surfaces |-> IF On(x) # {} THEN LastOf(On(x)) ELSE tail[x]]

\* The head of the loop, when the steps of T have just settled without an error:
\* completed, cancelled, out of time, or the next wave.  A step whose dependency
\* did not succeed is never ready here: the plan was cancelled, or has ended.
Proceed(p, T, cancelled) ==
    LET got == {s \in StepsOf(p) : at[s] = "done"} \cup T
        W   == NextWave(p, got)
        first == CHOOSE s \in Pending(p) : \A r \in Pending(p) : s <= r
    IN  \/ /\ Pending(p) = {}
           /\ Conclude(T, {}, "none")
           /\ Finish(p, "completed") \/ Finish(p, "failed")     \* no delta can be made
        \/ /\ Pending(p) # {} /\ cancelled
           /\ Conclude(T \cup Pending(p), Pending(p), "cancelled")
           /\ Finish(p, "cancelled")
        \/ /\ Pending(p) # {} /\ ~cancelled                     \* the deadline has passed
           /\ Conclude(T \cup {first}, {first}, "failed")
           /\ Finish(p, "failed")
        \/ /\ Pending(p) # {} /\ ~cancelled
           /\ at' = [s \in Steps |-> IF s \in T THEN "done" ELSE IF s \in W THEN "queued" ELSE at[s]]
           /\ Queue(W)
           /\ UNCHANGED <<outcome, journal, memory>>

\* Mutant: the claim looks for the request in memory only.
UnclaimedHere(p) == memory[p] = NoRecord

Unclaimed(p) == memory[p] = NoRecord /\ journal[p] = NoRecord

Claimed(p, r) == [r EXCEPT ![p] = [status |-> "running", cancelled |-> FALSE, result |-> "none"]]

\* execute() of a new request, blocked by the preflight.
SubmitBlocked(p) ==
    /\ Unclaimed(p)
    /\ memory' = [memory EXCEPT ![p] =
           [status |-> "failed", cancelled |-> FALSE, result |-> "failed"]]
    /\ journal' = [journal EXCEPT ![p] = memory'[p]]
    /\ UNCHANGED <<row, stepVars, calls, tooLate>>

\* execute() of a new request, up to the first wave.
Submit(p) ==
    /\ Unclaimed(p)
    /\ LET W == NextWave(p, {})
       IN  /\ at' = [s \in Steps |-> IF s \in W THEN "queued" ELSE at[s]]
           /\ Queue(W)
    /\ memory' = Claimed(p, memory)
    /\ journal' = Claimed(p, journal)
    /\ UNCHANGED <<row, outcome, calls, tooLate>>

\* execute() of a request that the journal knows from before the restart.
Reattach(p) ==
    /\ memory[p] = NoRecord /\ journal[p] # NoRecord
    /\ memory' = [memory EXCEPT ![p] = journal[p]]
    /\ UNCHANGED <<durableVars, stepVars, calls, tooLate>>

\* The wave has settled: its errors are recorded, and the first one ends the plan,
\* with the status that the recovery it asks for gives.
Settled(p) == Wave(p) # {} /\ \A s \in Wave(p) : at[s] = "settled"

AdvanceFailed(p) ==
    LET errors == {s \in Wave(p) : Failed(s)}
    IN  /\ Settled(p) /\ errors # {}
        /\ row' = [s \in Steps |-> IF s \in errors THEN outcome[s].dispatch ELSE row[s]]
        /\ Conclude(Wave(p) \cup Pending(p), Pending(p), "skipped")
        /\ \E status \in {"awaitingApproval", "failed"} : Finish(p, status)
        /\ UNCHANGED <<calls, tooLate>>

Advance(p) ==
    /\ Settled(p) /\ \A s \in Wave(p) : ~Failed(s)
    /\ Proceed(p, Wave(p), Cancelled(p))
    /\ UNCHANGED <<row, calls, tooLate>>

\* control_plan_cancel: whatever became of the plan.
Cancel(p) ==
    /\ journal[p] # NoRecord
    /\ LET CancelIn(records) == [records EXCEPT ![p] = [@ EXCEPT !.status = "cancelled", !.cancelled = TRUE]]
       IN  /\ journal' = CancelIn(journal)
           /\ memory' = IF memory[p] = NoRecord THEN memory ELSE CancelIn(memory)
    /\ tooLate' = tooLate \cup {s \in StepsOf(p) : at[s] \in {"idle", "queued"} /\ row[s] = "none"}
    /\ UNCHANGED <<row, stepVars, calls>>

-----------------------------------------------------------------------------
(* A step *)

\* Mutant: the turn is taken back whoever has it.
TailReleasedAlways(s) == [tail EXCEPT ![SurfaceOf[s]] = None]

\* The finally block of scheduler.run.
TailReleased(s) == [tail EXCEPT ![SurfaceOf[s]] = IF @ = s THEN None ELSE @]

Settle(s, o) ==
    /\ at' = [at EXCEPT ![s] = "settled"]
    /\ outcome' = [outcome EXCEPT ![s] = o]
    /\ tail' = TailReleased(s)
    /\ UNCHANGED before

GoesTo(s, place) == at' = [at EXCEPT ![s] = place] /\ UNCHANGED <<outcome, tail, before>>

\* With the observation at hand: a guard fails, nothing is to be done, or the
\* action is recorded and dispatched.
Guarded(s) ==
    \/ /\ \E o \in {Error("notDispatched"), Settles("succeeded")} : Settle(s, o)
       /\ UNCHANGED <<row, calls>>
    \/ /\ row' = [row EXCEPT ![s] = "notDispatched"]
       /\ calls' = [calls EXCEPT ![s] = @ + 1]
       /\ GoesTo(s, "dispatching")

\* Mutants: the turn is released when the operation succeeds; a step does not ask
\* whether its plan is cancelled.
ItsTurnAfterSuccess(s) == \A r \in Steps : before[s] = r => outcome[r] = Settles("succeeded")
StopsNever(s) == FALSE

ItsTurn(s) == \A r \in Steps : before[s] = r => at[r] \in {"settled", "done"}

\* The first thing a step looks at.
Stops(s) == Cancelled(PlanOf[s])

\* A step has its turn.  Its surface may have no observation any more (the store
\* is bounded): the step then observes it first.
StepBegins(s) ==
    /\ at[s] = "queued" /\ ItsTurn(s)
    /\ \/ Stops(s) /\ Settle(s, Settles("cancelled")) /\ UNCHANGED <<row, calls>>
       \/ ~Stops(s) /\ Guarded(s)
       \/ ~Stops(s) /\ GoesTo(s, "observing") /\ UNCHANGED <<row, calls>>
    /\ UNCHANGED <<journal, memory, tooLate>>

StepObserves(s) ==
    /\ at[s] = "observing"
    /\ Guarded(s)
    /\ UNCHANGED <<journal, memory, tooLate>>

\* adapter.dispatch returns a receipt, or throws what may not tell whether the
\* action took place.
StepDispatches(s) ==
    /\ at[s] = "dispatching"
    /\ \/ row' = [row EXCEPT ![s] = "dispatched"] /\ GoesTo(s, "verifying")
       \/ /\ row' = [row EXCEPT ![s] = "notDispatched"]
          /\ IF Cancelled(PlanOf[s]) THEN Settle(s, Settles("cancelled")) ELSE GoesTo(s, "verifying")
       \/ \E d \in DispatchStates : Settle(s, Error(d)) /\ UNCHANGED row
    /\ UNCHANGED <<journal, memory, calls, tooLate>>

\* The postcondition matches, or does not in time, or the surface cannot be observed.
StepVerifies(s) ==
    /\ at[s] = "verifying"
    /\ \E o \in {Settles("succeeded"), Error(row[s]), Error("notDispatched")} : Settle(s, o)
    /\ UNCHANGED <<durableVars, memory, calls, tooLate>>

-----------------------------------------------------------------------------
(* Restarts *)

\* reconcileIncomplete
AfterRestart(r) ==
    IF r.status \in {"running", "awaitingApproval"}
    THEN [r EXCEPT !.status = "unknown", !.result = "none"]
    ELSE r

\* The program stops and starts again.
Restart ==
    /\ journal' = [p \in Plans |-> AfterRestart(journal[p])]
    /\ memory' = [p \in Plans |-> NoRecord]
    /\ at' = [s \in Steps |-> "idle"] /\ outcome' = [s \in Steps |-> Unsettled]
    /\ tail' = [x \in Surfaces |-> None] /\ before' = [s \in Steps |-> None]
    /\ UNCHANGED <<row, calls, tooLate>>

PlanStep(p) == Submit(p) \/ SubmitBlocked(p) \/ Reattach(p) \/ Advance(p) \/ AdvanceFailed(p) \/ Cancel(p)
StepStep(s) == StepBegins(s) \/ StepObserves(s) \/ StepDispatches(s) \/ StepVerifies(s)

Next ==
    \/ \E p \in Plans : PlanStep(p)
    \/ \E s \in Steps : StepStep(s)
    \/ Restart

Spec == Init /\ [][Next]_vars

\* Adapters answer or time out, and the event loop runs what is ready.
Fairness ==
    /\ \A s \in Steps : WF_vars(StepStep(s))
    /\ \A p \in Plans : WF_vars(Advance(p) \/ AdvanceFailed(p))

FairSpec == Spec /\ Fairness

-----------------------------------------------------------------------------
(* Properties *)

\* A request id is not replayed: whatever the client repeats and whenever the
\* program restarts, the action of a step is dispatched once at most.
NeverRedispatched == \A s \in Steps : calls[s] <= 1

\* Two steps never act on a surface at the same time, of one plan or of two.
OneStepPerSurface ==
    \A r, s \in Steps :
        /\ at[r] \in {"observing", "dispatching", "verifying"}
        /\ at[s] \in {"observing", "dispatching", "verifying"}
        /\ SurfaceOf[r] = SurfaceOf[s]
        => r = s

\* Cancelling prevents future steps: one that waited for its turn, or for its
\* wave, when the plan was cancelled never acts, after a restart neither.
CancelledStepsNeverAct == \A s \in tooLate : calls[s] = 0

\* The status of a plan, and that of its result, are in memory what the row says:
\* what control_plan_status tells of them does not change with a restart, but for
\* a plan that has not finished.  Its third answer, whether the plan was cancelled,
\* does: in memory a plan cancelled while a wave was under way, which then ended in
\* another way, stays cancelled, in its row it is not; and there is no other plan
\* whose flags differ.
JournalIsCurrent ==
    \A p \in Plans : memory[p] # NoRecord =>
        /\ memory[p].status = journal[p].status /\ memory[p].result = journal[p].result
        /\ \/ memory[p].cancelled = journal[p].cancelled
           \/ /\ memory[p].cancelled /\ ~journal[p].cancelled
              /\ memory[p].status \notin {"running", "cancelled"}

\* A plan that was claimed does not stay running, on a client's request or after a
\* crash: it ends, or the next start calls it unknown.
PlanEnds == \A p \in Plans : journal[p].status = "running" ~> journal[p].status # "running"

=============================================================================
