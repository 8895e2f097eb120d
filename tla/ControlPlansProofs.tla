------------------------- MODULE ControlPlansProofs -------------------------
(***************************************************************************)
(* Proofs about control plans, for every number of plans, steps and        *)
(* surfaces, every dependency and every limit on concurrency.              *)
(***************************************************************************)
EXTENDS ControlPlans, FiniteSetTheorems, WellFoundedInduction, TLAPS

-----------------------------------------------------------------------------
(* First and last steps *)

LEMMA FiniteHasEnds ==
    ASSUME NEW S \in SUBSET Nat, IsFiniteSet(S), S # {}
    PROVE  /\ \E m \in S : \A r \in S : r <= m
           /\ \E m \in S : \A r \in S : m <= r
<1> DEFINE HasEnds(T) == /\ \E m \in T : \A r \in T : r <= m
                         /\ \E m \in T : \A r \in T : m <= r
           Bad == {T \in FiniteSubsetsOf(S) : T # {} /\ ~HasEnds(T)}
<1>1. S \in FiniteSubsetsOf(S)
  BY DEF FiniteSubsetsOf
<1>2. SUFFICES ASSUME Bad # {} PROVE FALSE
  BY <1>1
<1>3. PICK T \in Bad : \A U \in Bad : <<U, T>> \notin StrictSubsetOrdering(S)
  <2>1. Bad \subseteq FiniteSubsetsOf(S)
    OBVIOUS
  <2> HIDE DEF Bad
  <2>2. QED
    BY <1>2, <2>1, WFMin, FS_StrictSubsetOrderingWellFounded
<1>4. T \subseteq Nat /\ IsFiniteSet(T) /\ T # {} /\ T \subseteq S
  BY DEF FiniteSubsetsOf
<1>5. PICK x : x \in T
  BY <1>4
<1> DEFINE U == T \ {x}
<1>6. CASE U = {}
  <2>1. T = {x}
    BY <1>6, <1>5
  <2>2. x <= x
    BY <1>4, <1>5
  <2>3. HasEnds(T)
    BY <2>1, <2>2
  <2>4. QED
    BY <2>3
<1>7. CASE U # {}
  <2>1. IsFiniteSet(U) /\ U \subseteq T
    BY <1>4, FS_RemoveElement
  <2>2. U \in FiniteSubsetsOf(S) /\ <<U, T>> \in StrictSubsetOrdering(S)
    BY <1>4, <1>5, <2>1 DEF FiniteSubsetsOf, StrictSubsetOrdering
  <2>3. U \notin Bad
    BY <2>2, <1>3
  <2>4. HasEnds(U)
    BY <2>2, <2>3, <1>7
  <2>5. PICK m \in U : \A r \in U : r <= m
    BY <2>4
  <2>6. PICK n \in U : \A r \in U : n <= r
    BY <2>4
  <2>7. HasEnds(T)
    <3>1. \A r \in T : r <= (IF x <= m THEN m ELSE x)
      BY <1>4, <1>5, <2>5
    <3>2. \A r \in T : (IF x <= n THEN x ELSE n) <= r
      BY <1>4, <1>5, <2>6
    <3>3. QED
      BY <3>1, <3>2, <1>5
  <2>8. QED
    BY <2>7
<1>8. QED
  BY <1>6, <1>7

LEMMA LastOfLast ==
    ASSUME NEW T \in SUBSET Steps, T # {}
    PROVE  LastOf(T) \in T /\ \A r \in T : r <= LastOf(T)
BY FiniteHasEnds, FS_Subset, StepAssumption DEF LastOf

LEMMA FirstOfFirst ==
    ASSUME NEW T \in SUBSET Steps, T # {}
    PROVE  (CHOOSE s \in T : \A r \in T : s <= r) \in T
BY FiniteHasEnds, FS_Subset, StepAssumption

-----------------------------------------------------------------------------
(* Types *)

\* A step that has its action recorded has a row.
TypeInv ==
    /\ TypeOK
    /\ \A s \in Steps : at[s] \in {"dispatching", "verifying"} => row[s] # "none"

LEMMA OutcomeTypes ==
    /\ \A x \in {"succeeded", "cancelled", "skipped", "failed"} :
          Settles(x) \in Outcomes /\ Settles(x) # Unsettled /\ Settles(x).dispatch = "none"
    /\ \A d \in DispatchStates : Error(d) \in Outcomes /\ Error(d) # Unsettled
    /\ Unsettled \in Outcomes
    /\ \A o \in Outcomes : o.dispatch # "none" => o.dispatch \in DispatchStates
BY DEF Outcomes, Settles, Error, Unsettled, DispatchStates

LEMMA RecordTypes ==
    /\ NoRecord \in Records
    /\ \A x \in Terminal, c \in BOOLEAN :
          [status |-> x, cancelled |-> c, result |-> x] \in Records
    /\ \A r \in Records, x \in Terminal : [r EXCEPT !.status = x, !.result = x] \in Records
    /\ \A r \in Records \ {NoRecord} :
          [r EXCEPT !.status = "cancelled", !.cancelled = TRUE] \in Records \ {NoRecord}
    /\ \A r \in Records : AfterRestart(r) \in Records
    /\ [status |-> "running", cancelled |-> FALSE, result |-> "none"] \in Records
<1> DEFINE Whole == [status : {"none", "running"} \cup Terminal, cancelled : BOOLEAN,
                     result : {"none"} \cup Terminal]
<1>1. /\ NoRecord \in Records
      /\ \A x \in Terminal, c \in BOOLEAN : [status |-> x, cancelled |-> c, result |-> x] \in Records
      /\ [status |-> "running", cancelled |-> FALSE, result |-> "none"] \in Records
  BY DEF Records
<1>2. ASSUME NEW r \in Records PROVE r \in Whole
  <2>1. CASE r = NoRecord
    BY <2>1 DEF NoRecord
  <2>2. CASE r # NoRecord
    BY <2>2 DEF Records
  <2>3. QED
    BY <2>1, <2>2
<1>3. ASSUME NEW r \in Whole, NEW x \in Terminal, NEW y \in {"none"} \cup Terminal
      PROVE  [r EXCEPT !.status = x, !.result = y] \in Records
  <2>1. [r EXCEPT !.status = x, !.result = y] \in
            [status : {"running"} \cup Terminal, cancelled : BOOLEAN, result : {"none"} \cup Terminal]
    OBVIOUS
  <2>2. QED
    BY <2>1 DEF Records
<1>4. \A r \in Records \ {NoRecord} :
          [r EXCEPT !.status = "cancelled", !.cancelled = TRUE] \in Records \ {NoRecord}
  BY DEF Records, NoRecord, Terminal
<1>5. \A r \in Records : AfterRestart(r) \in Records
  BY <1>2, <1>3 DEF AfterRestart, Terminal
<1>6. QED
  BY <1>1, <1>2, <1>3, <1>4, <1>5

LEMMA QueueTypes ==
    ASSUME TypeOK, NEW W \in SUBSET Steps, Queue(W)
    PROVE  /\ before' \in [Steps -> Steps \cup {None}]
           /\ tail' \in [Surfaces -> Steps \cup {None}]
<1>1. \A T \in SUBSET Steps : T # {} => LastOf(T) \in Steps
  BY LastOfLast
<1> DEFINE Earlier(s) == {r \in W : r < s /\ SurfaceOf[r] = SurfaceOf[s]}
           On(x) == {s \in W : SurfaceOf[s] = x}
<1>2. /\ before' = [s \in Steps |-> IF s \notin W THEN before[s]
                                     ELSE IF Earlier(s) # {} THEN LastOf(Earlier(s))
                                     ELSE tail[SurfaceOf[s]]]
      /\ tail' = [x \in Surfaces |-> IF On(x) # {} THEN LastOf(On(x)) ELSE tail[x]]
  BY DEF Queue
<1>3. (\A s \in Steps : Earlier(s) \in SUBSET Steps) /\ (\A x \in Surfaces : On(x) \in SUBSET Steps)
  OBVIOUS
<1> HIDE DEF Earlier, On
<1>4. QED
  BY <1>1, <1>2, <1>3, StepAssumption DEF TypeOK

LEMMA NextWaveTypes ==
    ASSUME NEW p \in Plans, NEW got
    PROVE  NextWave(p, got) \subseteq Pending(p) /\ Pending(p) \subseteq Steps
BY DEF NextWave, Pending, StepsOf

LEMMA FinishTypes ==
    ASSUME TypeOK, NEW p \in Plans, NEW x \in Terminal, Finish(p, x)
    PROVE  journal' \in [Plans -> Records] /\ memory' \in [Plans -> Records]
<1>1. [status |-> x, cancelled |-> x = "cancelled", result |-> x] \in Records
  BY RecordTypes
<1>2. [memory[p] EXCEPT !.status = x, !.result = x] \in Records
  BY RecordTypes DEF TypeOK
<1>3. QED
  BY <1>1, <1>2 DEF TypeOK, Finish

\* Where the steps are, and what they settled with.
PlaceOK ==
    /\ at \in [Steps -> Places] /\ outcome \in [Steps -> Outcomes]
    /\ \A s \in Steps : outcome[s] = Unsettled <=> at[s] \notin {"settled", "done"}

LEMMA ConcludeTypes ==
    ASSUME TypeOK, NEW T \in SUBSET Steps, NEW U \in SUBSET T,
           NEW o \in {"none", "succeeded", "cancelled", "skipped", "failed"},
           U # {} => o # "none",
           \A s \in T \ U : at[s] = "settled", Conclude(T, U, o)
    PROVE  PlaceOK'
<1>1. U # {} => Settles(o) \in Outcomes /\ Settles(o) # Unsettled
  BY OutcomeTypes
<1>2. outcome' \in [Steps -> Outcomes] /\ at' \in [Steps -> Places]
  BY <1>1 DEF TypeOK, Conclude, Places
<1>3. \A s \in Steps : outcome'[s] = Unsettled <=> at'[s] \notin {"settled", "done"}
  BY <1>1 DEF TypeOK, Conclude
<1>4. QED
  BY <1>2, <1>3 DEF PlaceOK

LEMMA QueuedTypes ==
    ASSUME TypeOK, NEW T \in SUBSET Steps, NEW W \in SUBSET Steps,
           \A s \in T : at[s] = "settled", \A s \in W : at[s] = "idle",
           at' = [s \in Steps |-> IF s \in T THEN "done" ELSE IF s \in W THEN "queued" ELSE at[s]],
           UNCHANGED outcome
    PROVE  PlaceOK'
BY DEF TypeOK, Places, PlaceOK

LEMMA ProceedTypes ==
    ASSUME TypeOK, NEW p \in Plans, Settled(p), Proceed(p, Wave(p), Cancelled(p))
    PROVE  /\ PlaceOK'
           /\ journal' \in [Plans -> Records] /\ memory' \in [Plans -> Records]
           /\ before' \in [Steps -> Steps \cup {None}]
           /\ tail' \in [Surfaces -> Steps \cup {None}]
<1> DEFINE T == Wave(p)
           W == NextWave(p, {s \in StepsOf(p) : at[s] = "done"} \cup T)
           first == CHOOSE s \in Pending(p) : \A r \in Pending(p) : s <= r
<1>1. T \subseteq Steps /\ Pending(p) \subseteq Steps /\ \A s \in T : at[s] = "settled"
  BY DEF Wave, Settled, Pending, StepsOf
<1>2. W \subseteq Steps /\ \A s \in W : at[s] = "idle"
  BY NextWaveTypes DEF Pending
<1>3. Pending(p) # {} => first \in Pending(p)
  BY <1>1, FirstOfFirst
<1>4. \A U : Conclude(T \cup U, U, "none") \/ Conclude(T \cup U, U, "failed")
               \/ Conclude(T \cup U, U, "cancelled") => UNCHANGED <<tail, before>>
  BY DEF Conclude
<1>5. {"completed", "failed", "cancelled"} \subseteq Terminal
  BY DEF Terminal
<1>6. CASE Conclude(T, {}, "none") /\ (Finish(p, "completed") \/ Finish(p, "failed"))
  <2>1. PlaceOK'
    BY <1>1, <1>6, ConcludeTypes
  <2>2. QED
    BY <2>1, <1>5, <1>6, FinishTypes DEF TypeOK, Conclude
<1>7. CASE Conclude(T \cup Pending(p), Pending(p), "cancelled") /\ Finish(p, "cancelled")
  <2>1. PlaceOK'
    BY <1>1, <1>7, ConcludeTypes
  <2>2. QED
    BY <2>1, <1>5, <1>7, FinishTypes DEF TypeOK, Conclude
<1>8. CASE /\ Pending(p) # {} /\ Conclude(T \cup {first}, {first}, "failed")
           /\ Finish(p, "failed")
  <2>1. {first} \subseteq Steps
    BY <1>1, <1>3, <1>8
  <2>2. PlaceOK'
    BY <1>1, <1>8, <2>1, ConcludeTypes
  <2>3. QED
    BY <2>2, <1>5, <1>8, FinishTypes DEF TypeOK, Conclude
<1>9. CASE /\ at' = [s \in Steps |-> IF s \in T THEN "done" ELSE IF s \in W THEN "queued" ELSE at[s]]
           /\ Queue(W) /\ UNCHANGED <<outcome, journal, memory>>
  <2>1. PlaceOK'
    BY <1>1, <1>2, <1>9, QueuedTypes
  <2>2. QED
    BY <2>1, <1>2, <1>9, QueueTypes DEF TypeOK
<1>10. QED
  BY <1>6, <1>7, <1>8, <1>9 DEF Proceed

\* Whatever a step does, it stays in its types, and settles if it has an outcome.
LEMMA SettleTypes ==
    ASSUME TypeOK, NEW s \in Steps, NEW o \in Outcomes \ {Unsettled}, Settle(s, o)
    PROVE  PlaceOK' /\ UNCHANGED before /\ tail' \in [Surfaces -> Steps \cup {None}]
<1>1. PlaceOK'
  BY DEF TypeOK, Settle, PlaceOK, Places
<1>2. QED
  BY <1>1 DEF TypeOK, Settle, TailReleased

LEMMA GoesToTypes ==
    ASSUME TypeOK, NEW s \in Steps, NEW place \in {"observing", "dispatching", "verifying"},
           at[s] \notin {"settled", "done"}, GoesTo(s, place)
    PROVE  PlaceOK' /\ UNCHANGED <<before, tail>>
BY DEF TypeOK, GoesTo, PlaceOK, Places

LEMMA GuardedTypes ==
    ASSUME TypeInv, NEW s \in Steps, at[s] \notin {"settled", "done"}, Guarded(s)
    PROVE  /\ PlaceOK' /\ UNCHANGED before /\ tail' \in [Surfaces -> Steps \cup {None}]
           /\ row' \in [Steps -> {"none"} \cup DispatchStates] /\ calls' \in [Steps -> Nat]
           /\ \A r \in Steps : at'[r] \in {"dispatching", "verifying"} => row'[r] # "none"
<1> USE DEF TypeInv
<1>1. CASE /\ \E o \in {Error("notDispatched"), Settles("succeeded")} : Settle(s, o)
           /\ UNCHANGED <<row, calls>>
  <2>1. PICK o \in Outcomes \ {Unsettled} : Settle(s, o)
    BY <1>1, OutcomeTypes DEF DispatchStates
  <2>2. QED
    BY <1>1, <2>1, SettleTypes DEF TypeOK, Settle
<1>2. CASE /\ row' = [row EXCEPT ![s] = "notDispatched"] /\ calls' = [calls EXCEPT ![s] = @ + 1]
           /\ GoesTo(s, "dispatching")
  <2>1. PlaceOK' /\ UNCHANGED <<before, tail>>
    BY <1>2, GoesToTypes
  <2>2. QED
    BY <1>2, <2>1 DEF TypeOK, GoesTo, DispatchStates
<1>3. QED
  BY <1>1, <1>2 DEF Guarded

\* TypeOK without the variables of the plans' progress.
LEMMA Assembled ==
    ASSUME PlaceOK', journal' \in [Plans -> Records], memory' \in [Plans -> Records],
           row' \in [Steps -> {"none"} \cup DispatchStates],
           before' \in [Steps -> Steps \cup {None}], tail' \in [Surfaces -> Steps \cup {None}],
           calls' \in [Steps -> Nat], tooLate' \subseteq Steps
    PROVE  TypeOK'
BY DEF PlaceOK, TypeOK

LEMMA NextTypeInv == TypeInv /\ [Next]_vars => TypeInv'
<1> SUFFICES ASSUME TypeInv, [Next]_vars PROVE TypeInv'
    OBVIOUS
<1>0. TypeOK /\ \A s \in Steps : at[s] \in {"dispatching", "verifying"} => row[s] # "none"
  BY DEF TypeInv
<1>1. ASSUME NEW p \in Plans, Submit(p) PROVE TypeInv'
  <2> DEFINE W == NextWave(p, {})
  <2>1. W \subseteq Steps /\ \A s \in W : at[s] = "idle"
    BY NextWaveTypes DEF Pending
  <2>2. /\ at' = [s \in Steps |-> IF s \in W THEN "queued" ELSE at[s]] /\ Queue(W)
        /\ UNCHANGED <<row, outcome, calls, tooLate>>
        /\ memory' = Claimed(p, memory) /\ journal' = Claimed(p, journal)
    BY <1>1 DEF Submit
  <2>3. PlaceOK'
    BY <1>0, <2>1, <2>2 DEF TypeOK, PlaceOK, Places
  <2>4. journal' \in [Plans -> Records] /\ memory' \in [Plans -> Records]
    BY <1>0, <2>2, RecordTypes DEF TypeOK, Claimed
  <2>5. TypeOK'
    BY <1>0, <2>1, <2>2, <2>3, <2>4, QueueTypes, Assembled DEF TypeOK
  <2>6. QED
    BY <1>0, <2>2, <2>5 DEF TypeInv, TypeOK
<1>2. ASSUME NEW p \in Plans, SubmitBlocked(p) PROVE TypeInv'
  <2>1. [status |-> "failed", cancelled |-> FALSE, result |-> "failed"] \in Records
    BY RecordTypes DEF Terminal
  <2>2. QED
    BY <1>0, <1>2, <2>1 DEF SubmitBlocked, TypeInv, TypeOK, stepVars
<1>3. ASSUME NEW p \in Plans, Reattach(p) PROVE TypeInv'
  BY <1>0, <1>3 DEF Reattach, TypeInv, TypeOK, stepVars, durableVars
<1>4. ASSUME NEW p \in Plans, Advance(p) PROVE TypeInv'
  <2>1. Settled(p) /\ Proceed(p, Wave(p), Cancelled(p)) /\ UNCHANGED <<row, calls, tooLate>>
    BY <1>4 DEF Advance
  <2>2. TypeOK'
    BY <1>0, <2>1, ProceedTypes, Assembled DEF TypeOK
  <2>3. \A s \in Steps : at'[s] \in {"dispatching", "verifying"} => at'[s] = at[s]
    BY <1>0, <2>1 DEF Proceed, Conclude, TypeOK
  <2>4. QED
    BY <1>0, <2>1, <2>2, <2>3 DEF TypeInv
<1>5. ASSUME NEW p \in Plans, AdvanceFailed(p) PROVE TypeInv'
  <2> DEFINE errors == {s \in Wave(p) : Failed(s)}
  <2>1. /\ row' = [s \in Steps |-> IF s \in errors THEN outcome[s].dispatch ELSE row[s]]
        /\ Conclude(Wave(p) \cup Pending(p), Pending(p), "skipped")
        /\ \E status \in {"awaitingApproval", "failed"} : Finish(p, status)
        /\ Settled(p) /\ UNCHANGED <<calls, tooLate>>
    BY <1>5 DEF AdvanceFailed
  <2>2. Wave(p) \subseteq Steps /\ Pending(p) \subseteq Steps /\ \A s \in Wave(p) : at[s] = "settled"
    BY <2>1 DEF Wave, Settled, Pending, StepsOf
  <2>3. PlaceOK'
    BY <1>0, <2>1, <2>2, ConcludeTypes
  <2>4. \A s \in errors : outcome[s].dispatch \in DispatchStates
    BY <1>0, <2>2, OutcomeTypes DEF TypeOK, Failed
  <2>5. row' \in [Steps -> {"none"} \cup DispatchStates]
    BY <1>0, <2>1, <2>4 DEF TypeOK
  <2>6. journal' \in [Plans -> Records] /\ memory' \in [Plans -> Records]
    BY <1>0, <2>1, FinishTypes DEF Terminal
  <2>7. TypeOK'
    BY <1>0, <2>1, <2>3, <2>5, <2>6, Assembled DEF TypeOK, Conclude
  <2>8. \A s \in Steps : at'[s] \in {"dispatching", "verifying"} => row'[s] # "none"
    BY <1>0, <2>1, <2>2, <2>4 DEF Conclude, TypeOK, DispatchStates
  <2>9. QED
    BY <2>7, <2>8 DEF TypeInv
<1>6. ASSUME NEW p \in Plans, Cancel(p) PROVE TypeInv'
  <2>1. journal' \in [Plans -> Records] /\ memory' \in [Plans -> Records]
    <3> DEFINE CancelIn(records) ==
                  [records EXCEPT ![p] = [@ EXCEPT !.status = "cancelled", !.cancelled = TRUE]]
    <3>1. \A records \in [Plans -> Records] : records[p] # NoRecord => CancelIn(records) \in [Plans -> Records]
      BY RecordTypes
    <3>2. QED
      BY <1>0, <1>6, <3>1 DEF Cancel, TypeOK
  <2>2. TypeOK'
    BY <1>0, <1>6, <2>1 DEF Cancel, TypeOK, stepVars, StepsOf
  <2>3. QED
    BY <1>0, <1>6, <2>2 DEF Cancel, TypeInv, stepVars
<1>7. ASSUME NEW s \in Steps, StepBegins(s) PROVE TypeInv'
  <2> USE <1>7 DEF StepBegins
  <2>1. CASE Settle(s, Settles("cancelled")) /\ UNCHANGED <<row, calls>>
    <3>1. Settles("cancelled") \in Outcomes \ {Unsettled}
      BY OutcomeTypes
    <3>2. PlaceOK' /\ UNCHANGED before /\ tail' \in [Surfaces -> Steps \cup {None}]
      BY <1>0, <2>1, <3>1, SettleTypes
    <3>3. TypeOK'
      BY <1>0, <2>1, <3>2, Assembled DEF TypeOK
    <3>4. QED
      BY <1>0, <2>1, <3>3 DEF TypeInv, TypeOK, Settle
  <2>2. CASE Guarded(s)
    <3>1. TypeOK'
      BY <1>0, <2>2, GuardedTypes, Assembled DEF TypeOK
    <3>2. QED
      BY <2>2, <3>1, GuardedTypes DEF TypeInv
  <2>3. CASE GoesTo(s, "observing") /\ UNCHANGED <<row, calls>>
    <3>1. TypeOK'
      BY <1>0, <2>3, GoesToTypes, Assembled DEF TypeOK
    <3>2. QED
      BY <1>0, <2>3, <3>1 DEF TypeInv, TypeOK, GoesTo
  <2>4. QED
    BY <2>1, <2>2, <2>3
<1>8. ASSUME NEW s \in Steps, StepObserves(s) PROVE TypeInv'
  <2>1. TypeOK'
    BY <1>0, <1>8, GuardedTypes, Assembled DEF TypeOK, StepObserves
  <2>2. QED
    BY <1>8, <2>1, GuardedTypes DEF TypeInv, StepObserves
<1>9. ASSUME NEW s \in Steps, StepDispatches(s) PROVE TypeInv'
  <2> USE <1>9 DEF StepDispatches
  <2>1. ASSUME NEW o \in Outcomes \ {Unsettled}, Settle(s, o),
               row' \in {row, [row EXCEPT ![s] = "notDispatched"]}
        PROVE  TypeInv'
    <3>1. TypeOK'
      BY <1>0, <2>1, SettleTypes, Assembled DEF TypeOK, DispatchStates
    <3>2. QED
      BY <1>0, <2>1, <3>1 DEF TypeInv, TypeOK, Settle
  <2>2. ASSUME NEW d \in DispatchStates, GoesTo(s, "verifying"), row' = [row EXCEPT ![s] = d]
        PROVE  TypeInv'
    <3>1. TypeOK'
      BY <1>0, <2>2, GoesToTypes, Assembled DEF TypeOK
    <3>2. QED
      BY <1>0, <2>2, <3>1 DEF TypeInv, TypeOK, GoesTo, DispatchStates
  <2>3. QED
    BY <2>1, <2>2, OutcomeTypes DEF DispatchStates
<1>10. ASSUME NEW s \in Steps, StepVerifies(s) PROVE TypeInv'
  <2>1. row[s] \in DispatchStates
    BY <1>0, <1>10 DEF StepVerifies, TypeOK
  <2>2. PICK o \in Outcomes \ {Unsettled} : Settle(s, o)
    BY <1>10, <2>1, OutcomeTypes DEF StepVerifies, DispatchStates
  <2>3. TypeOK'
    BY <1>0, <1>10, <2>2, SettleTypes, Assembled DEF TypeOK, StepVerifies, durableVars
  <2>4. QED
    BY <1>0, <1>10, <2>2, <2>3 DEF TypeInv, TypeOK, Settle, StepVerifies, durableVars
<1>11. CASE Restart
  <2>1. PlaceOK'
    BY <1>11, OutcomeTypes DEF Restart, PlaceOK, Places
  <2>2. journal' \in [Plans -> Records] /\ memory' \in [Plans -> Records]
    BY <1>0, <1>11, RecordTypes DEF Restart, TypeOK
  <2>3. TypeOK'
    BY <1>0, <1>11, <2>1, <2>2, Assembled DEF Restart, TypeOK
  <2>4. QED
    BY <1>11, <2>3 DEF Restart, TypeInv
<1>12. CASE UNCHANGED vars
  BY <1>0, <1>12 DEF vars, durableVars, stepVars, TypeInv, TypeOK
<1>13. QED
  BY <1>1, <1>2, <1>3, <1>4, <1>5, <1>6, <1>7, <1>8, <1>9, <1>10, <1>11, <1>12
  DEF Next, PlanStep, StepStep

LEMMA InitTypeInv == Init => TypeInv
<1>1. NoRecord \in Records /\ Unsettled \in Outcomes
  BY DEF Records, Outcomes
<1>2. QED
  BY <1>1 DEF Init, TypeInv, TypeOK, Places

LEMMA TypeInvCorrect == Spec => []TypeInv
BY InitTypeInv, NextTypeInv, PTL DEF Spec

\* Every variable keeps its type, and a step has an outcome exactly when it settled.
THEOREM TypeCorrect == Spec => []TypeOK
BY TypeInvCorrect, PTL DEF TypeInv

-----------------------------------------------------------------------------
(* A request is not replayed *)

\* A plan that began is in the journal, where no restart removes it.  The action
\* of a step was dispatched once at most, and if it was, the step is past its
\* dispatch, or its plan has no wave, as after a restart, and can have none.
Abandoned(p) == journal[p] # NoRecord /\ Wave(p) = {}

OnceInv ==
    /\ \A s \in Steps : at[s] # "idle" => journal[PlanOf[s]] # NoRecord
    /\ \A s \in Steps : calls[s] # 0 =>
          /\ calls[s] = 1 /\ row[s] # "none"
          /\ \/ at[s] \in {"dispatching", "verifying", "settled", "done"}
             \/ Abandoned(PlanOf[s])

\* What is in the journal stays there.
LEMMA JournalStays ==
    TypeInv /\ [Next]_vars => \A p \in Plans : journal[p] # NoRecord => journal'[p] # NoRecord
<1> SUFFICES ASSUME TypeInv, [Next]_vars, NEW p \in Plans, journal[p] # NoRecord
             PROVE  journal'[p] # NoRecord
    OBVIOUS
<1>0. journal \in [Plans -> Records]
  BY DEF TypeInv, TypeOK
<1>1. \A q \in Plans, x \in Terminal : Finish(q, x) => journal'[p] # NoRecord
  BY <1>0 DEF Finish, NoRecord, Terminal
<1>2. \A q \in Plans : SubmitBlocked(q) \/ Submit(q) => journal'[p] # NoRecord
  BY <1>0 DEF Submit, SubmitBlocked, Unclaimed, Claimed, NoRecord
<1>3. \A q \in Plans : Advance(q) \/ AdvanceFailed(q) => journal'[p] # NoRecord
  BY <1>1 DEF Advance, AdvanceFailed, Proceed, Terminal
<1>4. ASSUME NEW q \in Plans, Cancel(q) PROVE journal'[p] # NoRecord
  BY <1>0, <1>4, RecordTypes DEF Cancel
<1>5. ASSUME Restart PROVE journal'[p] # NoRecord
  <2>1. AfterRestart(journal[p]) # NoRecord
    BY <1>0 DEF AfterRestart, NoRecord, Records, Terminal
  <2>2. QED
    BY <1>5, <2>1 DEF Restart
<1>6. ASSUME NEW s \in Steps, StepStep(s) PROVE journal'[p] # NoRecord
  BY <1>6 DEF StepStep, StepBegins, StepObserves, StepDispatches, StepVerifies, durableVars
<1>7. QED
  BY <1>2, <1>3, <1>4, <1>5, <1>6
  DEF Next, PlanStep, Reattach, durableVars, vars

\* Where the steps of a plan go when its wave has settled.
LEMMA PlanPlaces ==
    ASSUME TypeInv, NEW p \in Plans, Advance(p) \/ AdvanceFailed(p)
    PROVE  /\ Wave(p) # {} /\ UNCHANGED <<calls, tooLate>>
           /\ \A s \in Steps \ StepsOf(p) : at'[s] = at[s] /\ row'[s] = row[s]
           /\ \A s \in StepsOf(p) :
                 /\ \/ at[s] = "settled" /\ at'[s] = "done"
                    \/ at[s] = "done" /\ at'[s] = "done"
                    \/ at[s] = "idle" /\ at'[s] \in {"idle", "queued", "done"}
                 /\ row'[s] = row[s] \/ row'[s] # "none"
<1>0. at \in [Steps -> Places] /\ Settled(p) /\ row \in [Steps -> {"none"} \cup DispatchStates]
  BY DEF TypeInv, TypeOK, Advance, AdvanceFailed
<1>1. \A s \in StepsOf(p) : s \in Steps /\ at[s] \in {"idle", "settled", "done"}
  BY <1>0 DEF Settled, Wave, StepsOf, Places
<1>2. \A s \in StepsOf(p) : (at[s] = "settled" <=> s \in Wave(p)) /\ (at[s] = "idle" <=> s \in Pending(p))
  BY <1>0, <1>1 DEF Settled, Wave, Pending
<1>3. Wave(p) \subseteq StepsOf(p) /\ Pending(p) \subseteq StepsOf(p)
  BY DEF Wave, Pending
<1>4. ASSUME NEW U \in SUBSET Pending(p), NEW o, Conclude(Wave(p) \cup U, U, o)
      PROVE  /\ \A s \in Steps \ StepsOf(p) : at'[s] = at[s]
             /\ \A s \in StepsOf(p) :
                  \/ at[s] = "settled" /\ at'[s] = "done"
                  \/ at[s] = "done" /\ at'[s] = "done"
                  \/ at[s] = "idle" /\ at'[s] \in {"idle", "queued", "done"}
  BY <1>1, <1>2, <1>3, <1>4 DEF Conclude
<1>5. CASE Advance(p)
  <2> DEFINE W == NextWave(p, {s \in StepsOf(p) : at[s] = "done"} \cup Wave(p))
             first == CHOOSE s \in Pending(p) : \A r \in Pending(p) : s <= r
  <2>1. Proceed(p, Wave(p), Cancelled(p)) /\ UNCHANGED <<row, calls, tooLate>>
    BY <1>5 DEF Advance
  <2>2. W \subseteq Pending(p)
    BY NextWaveTypes
  <2>3. Pending(p) # {} => {first} \subseteq Pending(p)
    BY NextWaveTypes, FirstOfFirst
  <2>4. ASSUME at' = [s \in Steps |-> IF s \in Wave(p) THEN "done"
                                      ELSE IF s \in W THEN "queued" ELSE at[s]]
        PROVE  /\ \A s \in Steps \ StepsOf(p) : at'[s] = at[s]
               /\ \A s \in StepsOf(p) :
                    \/ at[s] = "settled" /\ at'[s] = "done"
                    \/ at[s] = "done" /\ at'[s] = "done"
                    \/ at[s] = "idle" /\ at'[s] \in {"idle", "queued", "done"}
    <3> HIDE DEF W
    <3>1. QED
      BY <1>1, <1>2, <1>3, <2>2, <2>4
  <2>5. \/ Conclude(Wave(p) \cup {}, {}, "none")
        \/ Conclude(Wave(p) \cup Pending(p), Pending(p), "cancelled")
        \/ Pending(p) # {} /\ Conclude(Wave(p) \cup {first}, {first}, "failed")
        \/ at' = [s \in Steps |-> IF s \in Wave(p) THEN "done"
                                   ELSE IF s \in W THEN "queued" ELSE at[s]]
    BY <2>1 DEF Proceed
  <2> HIDE DEF W, first
  <2>6. QED
    BY <1>0, <1>3, <1>4, <2>1, <2>3, <2>4, <2>5 DEF Settled
<1>6. CASE AdvanceFailed(p)
  <2>1. /\ row' = [s \in Steps |-> IF s \in {r \in Wave(p) : Failed(r)} THEN outcome[s].dispatch ELSE row[s]]
        /\ Conclude(Wave(p) \cup Pending(p), Pending(p), "skipped") /\ UNCHANGED <<calls, tooLate>>
    BY <1>6 DEF AdvanceFailed
  <2>2. \A s \in Steps : row'[s] = row[s] \/ (s \in Wave(p) /\ row'[s] # "none")
    BY <1>0, <2>1 DEF Failed
  <2>3. /\ \A s \in Steps \ StepsOf(p) : at'[s] = at[s]
        /\ \A s \in StepsOf(p) :
             \/ at[s] = "settled" /\ at'[s] = "done"
             \/ at[s] = "done" /\ at'[s] = "done"
             \/ at[s] = "idle" /\ at'[s] \in {"idle", "queued", "done"}
    BY <1>4, <2>1
  <2>4. \A s \in Steps \ StepsOf(p) : row'[s] = row[s]
    BY <1>3, <2>2
  <2>5. \A s \in StepsOf(p) : row'[s] = row[s] \/ row'[s] # "none"
    BY <1>1, <2>2
  <2>6. Wave(p) # {}
    BY <1>0 DEF Settled
  <2>7. QED
    BY <2>1, <2>3, <2>4, <2>5, <2>6
<1>7. QED
  BY <1>5, <1>6

\* What one step of a step changes.
LEMMA StepPlaces ==
    ASSUME TypeInv, NEW s \in Steps, StepStep(s)
    PROVE  /\ at[s] \in {"queued", "observing", "dispatching", "verifying"}
           /\ at'[s] \in {"observing", "dispatching", "verifying", "settled"}
           /\ at[s] \in {"dispatching", "verifying"} => at'[s] \in {"verifying", "settled"}
           /\ \A r \in Steps \ {s} : at'[r] = at[r] /\ row'[r] = row[r] /\ calls'[r] = calls[r]
           /\ \/ calls'[s] = calls[s] /\ (row[s] # "none" => row'[s] # "none")
              \/ /\ calls'[s] = calls[s] + 1 /\ row'[s] # "none"
                 /\ at[s] \in {"queued", "observing"} /\ at'[s] = "dispatching"
           /\ UNCHANGED <<journal, memory, tooLate>>
<1>0. /\ at \in [Steps -> Places] /\ calls \in [Steps -> Nat]
      /\ row \in [Steps -> {"none"} \cup DispatchStates]
  BY DEF TypeInv, TypeOK
<1>1. \A o : Settle(s, o) => at'[s] = "settled" /\ \A r \in Steps \ {s} : at'[r] = at[r]
  BY <1>0 DEF Settle
<1>2. \A x : GoesTo(s, x) => at'[s] = x /\ \A r \in Steps \ {s} : at'[r] = at[r]
  BY <1>0 DEF GoesTo
<1>3. ASSUME Guarded(s)
      PROVE  /\ at'[s] \in {"dispatching", "settled"}
             /\ \A r \in Steps \ {s} : at'[r] = at[r] /\ row'[r] = row[r] /\ calls'[r] = calls[r]
             /\ \/ calls'[s] = calls[s] /\ row'[s] = row[s]
                \/ calls'[s] = calls[s] + 1 /\ row'[s] # "none" /\ at'[s] = "dispatching"
  BY <1>0, <1>1, <1>2, <1>3 DEF Guarded
<1>4. CASE StepBegins(s)
  BY <1>1, <1>2, <1>3, <1>4 DEF StepBegins
<1>5. CASE StepObserves(s)
  BY <1>3, <1>5 DEF StepObserves
<1>6. CASE StepDispatches(s)
  BY <1>0, <1>1, <1>2, <1>6 DEF StepDispatches
<1>7. CASE StepVerifies(s)
  BY <1>1, <1>7 DEF StepVerifies, durableVars
<1>8. QED
  BY <1>4, <1>5, <1>6, <1>7 DEF StepStep

LEMMA NextOnceInv == TypeInv /\ OnceInv /\ [Next]_vars => OnceInv'
<1> SUFFICES ASSUME TypeInv, OnceInv, [Next]_vars,  NEW s \in Steps
             PROVE  /\ at'[s] # "idle" => journal'[PlanOf[s]] # NoRecord
                    /\ calls'[s] # 0 =>
                          /\ calls'[s] = 1 /\ row'[s] # "none"
                          /\ \/ at'[s] \in {"dispatching", "verifying", "settled", "done"}
                             \/ Abandoned(PlanOf[s])'
    BY DEF OnceInv
<1>0. /\ at[s] # "idle" => journal[PlanOf[s]] # NoRecord
      /\ calls[s] # 0 =>
            /\ calls[s] = 1 /\ row[s] # "none"
            /\ at[s] \in {"dispatching", "verifying", "settled", "done"} \/ Abandoned(PlanOf[s])
      /\ PlanOf[s] \in Plans /\ calls[s] \in Nat
  BY StepAssumption DEF OnceInv, TypeInv, TypeOK
<1>1. \A p \in Plans : journal[p] # NoRecord => journal'[p] # NoRecord
  BY JournalStays
<1> DEFINE Kept == /\ at'[s] # "idle" => journal'[PlanOf[s]] # NoRecord
                   /\ calls'[s] # 0 =>
                         /\ calls'[s] = 1 /\ row'[s] # "none"
                         /\ \/ at'[s] \in {"dispatching", "verifying", "settled", "done"}
                            \/ Abandoned(PlanOf[s])'
\* A step whose plan is left alone keeps what it has.
<1>2. ASSUME \A r \in StepsOf(PlanOf[s]) : at'[r] = at[r], UNCHANGED <<calls>>,
             row'[s] = row[s] \/ row'[s] # "none"
      PROVE  Kept
  <2>1. Wave(PlanOf[s])' = Wave(PlanOf[s])
    BY <1>2 DEF Wave, StepsOf
  <2>2. at'[s] = at[s]
    BY <1>2 DEF StepsOf
  <2>3. QED
    BY <1>0, <1>1, <1>2, <2>1, <2>2 DEF Abandoned
<1>3. ASSUME NEW p \in Plans, Submit(p) PROVE Kept
  <2>1. /\ journal[p] = NoRecord /\ journal'[p] # NoRecord /\ UNCHANGED <<row, calls>>
        /\ \A r \in Steps : r \notin StepsOf(p) => at'[r] = at[r]
    <3>1. /\ journal[p] = NoRecord /\ journal' = Claimed(p, journal) /\ UNCHANGED <<row, calls>>
          /\ at' = [r \in Steps |-> IF r \in NextWave(p, {}) THEN "queued" ELSE at[r]]
      BY <1>3 DEF Submit, Unclaimed
    <3>2. NextWave(p, {}) \subseteq StepsOf(p)
      BY NextWaveTypes DEF Pending
    <3>3. journal'[p] # NoRecord
      BY <3>1 DEF Claimed, NoRecord, TypeInv, TypeOK
    <3>4. QED
      BY <3>1, <3>2, <3>3
  <2>2. CASE PlanOf[s] = p
    BY <1>0, <2>1, <2>2 DEF Abandoned
  <2>3. CASE PlanOf[s] # p
    BY <1>2, <2>1, <2>3 DEF StepsOf
  <2>4. QED
    BY <2>2, <2>3
<1>4. ASSUME NEW p \in Plans, SubmitBlocked(p) \/ Reattach(p) \/ Cancel(p) PROVE Kept
  BY <1>2, <1>4 DEF SubmitBlocked, Reattach, Cancel, stepVars, durableVars
<1>5. ASSUME NEW p \in Plans, Advance(p) \/ AdvanceFailed(p) PROVE Kept
  <2>1. /\ Wave(p) # {} /\ UNCHANGED calls
        /\ \A r \in Steps \ StepsOf(p) : at'[r] = at[r] /\ row'[r] = row[r]
        /\ \A r \in StepsOf(p) :
              /\ \/ at[r] = "settled" /\ at'[r] = "done"
                 \/ at[r] = "done" /\ at'[r] = "done"
                 \/ at[r] = "idle" /\ at'[r] \in {"idle", "queued", "done"}
              /\ row'[r] = row[r] \/ row'[r] # "none"
    BY <1>5, PlanPlaces
  <2>2. CASE PlanOf[s] = p
    <3>1. s \in StepsOf(p) /\ ~Abandoned(p)
      BY <2>1, <2>2 DEF StepsOf, Abandoned
    <3>2. PICK r \in Steps : PlanOf[r] = p /\ at[r] # "idle"
      BY <2>1 DEF Wave, StepsOf
    <3>3. journal[p] # NoRecord
      BY <3>2 DEF OnceInv
    <3>4. QED
      BY <1>0, <1>1, <2>1, <2>2, <3>1, <3>3
  <2>3. CASE PlanOf[s] # p
    BY <1>2, <2>1, <2>3 DEF StepsOf
  <2>4. QED
    BY <2>2, <2>3
<1>6. ASSUME NEW r \in Steps, StepStep(r) PROVE Kept
  <2>1. /\ at[r] \in {"queued", "observing", "dispatching", "verifying"}
        /\ at'[r] \in {"observing", "dispatching", "verifying", "settled"}
        /\ at[r] \in {"dispatching", "verifying"} => at'[r] \in {"verifying", "settled"}
        /\ \A q \in Steps \ {r} : at'[q] = at[q] /\ row'[q] = row[q] /\ calls'[q] = calls[q]
        /\ \/ calls'[r] = calls[r] /\ (row[r] # "none" => row'[r] # "none")
           \/ /\ calls'[r] = calls[r] + 1 /\ row'[r] # "none"
              /\ at[r] \in {"queued", "observing"} /\ at'[r] = "dispatching"
        /\ UNCHANGED journal
    BY <1>6, StepPlaces
  <2>2. ~Abandoned(PlanOf[r])
    BY <2>1 DEF Abandoned, Wave, StepsOf
  <2>3. CASE s = r
    BY <1>0, <2>1, <2>2, <2>3
  <2>4. CASE s # r
    <3>1. Abandoned(PlanOf[s]) => Abandoned(PlanOf[s])'
      BY <2>1, <2>2 DEF Abandoned, Wave, StepsOf
    <3>2. QED
      BY <1>0, <2>1, <2>4, <3>1
  <2>5. QED
    BY <2>3, <2>4
<1>7. CASE Restart
  <2>1. Wave(PlanOf[s])' = {} /\ at'[s] = "idle" /\ UNCHANGED <<row, calls>>
    BY <1>7 DEF Restart, Wave, StepsOf
  <2>2. QED
    BY <1>0, <1>1, <2>1 DEF Abandoned
<1>8. CASE UNCHANGED vars
  BY <1>2, <1>8 DEF vars, stepVars, durableVars
<1>9. QED
  BY <1>3, <1>4, <1>5, <1>6, <1>7, <1>8 DEF Next, PlanStep

LEMMA OnceCorrect == Spec => [](TypeInv /\ OnceInv)
<1>1. Init => TypeInv /\ OnceInv
  BY InitTypeInv DEF Init, OnceInv
<1>2. QED
  BY <1>1, NextTypeInv, NextOnceInv, PTL DEF Spec

\* The action of a step is dispatched once at most, over every repetition of the
\* request and every restart.
THEOREM DispatchedOnce == Spec => []NeverRedispatched
<1>1. TypeInv /\ OnceInv => NeverRedispatched
  BY DEF OnceInv, NeverRedispatched, TypeInv, TypeOK
<1>2. QED
  BY <1>1, OnceCorrect, PTL

-----------------------------------------------------------------------------
(* Cancelled steps *)

\* A plan that has steps under way is in memory.  A step that had not begun when its plan was
\* cancelled has not acted; and it waits, or has settled, while the plan is cancelled in memory,
\* or its plan has no wave, as after a restart, and can have none.
LateInv ==
    /\ \A s \in Steps : at[s] # "idle" => memory[PlanOf[s]] # NoRecord
    /\ \A s \in tooLate :
          /\ calls[s] = 0
          /\ at[s] \in {"idle", "queued", "settled", "done"}
          /\ journal[PlanOf[s]] # NoRecord
          /\ Cancelled(PlanOf[s]) \/ Wave(PlanOf[s]) = {}

\* The steps of a plan keep what LateInv says of them.
Late(s) ==
    /\ calls[s] = 0
    /\ at[s] \in {"idle", "queued", "settled", "done"}
    /\ Cancelled(PlanOf[s]) \/ Wave(PlanOf[s]) = {}

\* A plan stays cancelled in memory, and in memory, as long as the program runs.
LEMMA MemoryStays ==
    ASSUME TypeInv, [Next]_vars, ~Restart, NEW p \in Plans
    PROVE  /\ memory[p] # NoRecord => memory'[p] # NoRecord
           /\ Cancelled(p) => Cancelled(p)'
<1>0. memory \in [Plans -> Records] /\ journal \in [Plans -> Records]
  BY DEF TypeInv, TypeOK
<1>1. ASSUME NEW q \in Plans, NEW x \in Terminal, Finish(q, x)
      PROVE  memory[p] # NoRecord => memory'[p] # NoRecord
  BY <1>0, <1>1, RecordTypes DEF Finish, NoRecord, Terminal
<1>2. ASSUME NEW q \in Plans, NEW x \in Terminal, Finish(q, x), Cancelled(p) PROVE Cancelled(p)'
  BY <1>0, <1>2 DEF Finish, Cancelled
<1>3. ASSUME NEW q \in Plans, Advance(q) \/ AdvanceFailed(q)
      PROVE  (\E x \in Terminal : Finish(q, x)) \/ memory' = memory
  BY <1>3 DEF Advance, AdvanceFailed, Proceed, Terminal
<1>4. ASSUME NEW q \in Plans, Submit(q) \/ SubmitBlocked(q) \/ Reattach(q)
      PROVE  memory[q] = NoRecord /\ \A r \in Plans \ {q} : memory'[r] = memory[r]
  BY <1>0, <1>4 DEF Submit, SubmitBlocked, Reattach, Unclaimed, Claimed
<1>5. ~Cancelled(p) \/ memory[p] # NoRecord
  BY DEF Cancelled, NoRecord
<1>6. ASSUME NEW q \in Plans, Cancel(q)
      PROVE  /\ memory[p] # NoRecord => memory'[p] # NoRecord
             /\ Cancelled(p) => Cancelled(p)'
  <2>1. ASSUME NEW r \in Records \ {NoRecord}
        PROVE  /\ [r EXCEPT !.status = "cancelled", !.cancelled = TRUE] # NoRecord
               /\ [r EXCEPT !.status = "cancelled", !.cancelled = TRUE].cancelled
    BY DEF Records, NoRecord
  <2>2. \/ memory' = memory
        \/ memory[q] # NoRecord
           /\ memory' = [memory EXCEPT ![q] = [@ EXCEPT !.status = "cancelled", !.cancelled = TRUE]]
    BY <1>6 DEF Cancel
  <2>3. QED
    BY <1>0, <2>1, <2>2 DEF Cancelled
<1>7. ASSUME NEW s \in Steps, StepStep(s) PROVE memory' = memory
  BY <1>7, StepPlaces
<1>8. QED
  BY <1>1, <1>2, <1>3, <1>4, <1>5, <1>6, <1>7 DEF Next, PlanStep, vars, Cancelled

\* A cancelled plan has no next wave.
LEMMA NoNextWave ==
    ASSUME TypeInv, NEW p \in Plans, Advance(p) \/ AdvanceFailed(p), Cancelled(p)
    PROVE  \A s \in StepsOf(p) : at'[s] \in {"idle", "done"}
<1>1. /\ at \in [Steps -> Places] /\ Settled(p)
      /\ \A s \in StepsOf(p) : s \in Steps /\ at[s] \in {"idle", "settled", "done"}
      /\ \A s \in StepsOf(p) : at[s] = "settled" => s \in Wave(p)
  BY DEF TypeInv, TypeOK, Advance, AdvanceFailed, Settled, Wave, StepsOf, Places
<1>2. \A U, o : Conclude(Wave(p) \cup U, U, o) => \A s \in StepsOf(p) : at'[s] \in {"idle", "done"}
  BY <1>1 DEF Conclude
<1>3. \/ Conclude(Wave(p) \cup {}, {}, "none")
      \/ Conclude(Wave(p) \cup Pending(p), Pending(p), "cancelled")
      \/ Conclude(Wave(p) \cup Pending(p), Pending(p), "skipped")
  BY DEF Advance, AdvanceFailed, Proceed
<1>4. QED
  BY <1>2, <1>3

\* A step that has its turn in a cancelled plan settles and does not act.
LEMMA CancelledSettles ==
    ASSUME TypeInv, NEW s \in Steps, StepStep(s), at[s] = "queued", Cancelled(PlanOf[s])
    PROVE  at'[s] = "settled" /\ calls' = calls
BY DEF StepStep, StepBegins, StepObserves, StepDispatches, StepVerifies, Stops, Settle,
       TypeInv, TypeOK

LEMMA NextLateInv == TypeInv /\ OnceInv /\ LateInv /\ [Next]_vars => LateInv'
<1> SUFFICES ASSUME TypeInv, OnceInv, LateInv, [Next]_vars PROVE LateInv'
  OBVIOUS
<1>0. /\ at \in [Steps -> Places] /\ tooLate \subseteq Steps
      /\ calls \in [Steps -> Nat] /\ PlanOf \in [Steps -> Plans]
  BY StepAssumption DEF TypeInv, TypeOK
<1> DEFINE InMemory == \A s \in Steps : at'[s] # "idle" => memory'[PlanOf[s]] # NoRecord
           StillLate(s) ==
               /\ calls'[s] = 0
               /\ at'[s] \in {"idle", "queued", "settled", "done"}
               /\ Cancelled(PlanOf[s])' \/ Wave(PlanOf[s])' = {}
\* A step that was too late stays so, if its plan is left alone.
<1>1. ASSUME ~Restart, NEW s \in Steps, Late(s), UNCHANGED calls,
             \A r \in StepsOf(PlanOf[s]) : at'[r] = at[r]
      PROVE  StillLate(s)
  <2>1. Wave(PlanOf[s])' = Wave(PlanOf[s]) /\ at'[s] = at[s]
    BY <1>1 DEF Wave, StepsOf
  <2>2. QED
    BY <1>0, <1>1, <2>1, MemoryStays DEF Late
<1>2. \A s \in tooLate : s \in Steps /\ Late(s) /\ journal'[PlanOf[s]] # NoRecord
  BY <1>0, JournalStays DEF LateInv, Late
<1>3. ASSUME NEW p \in Plans, Submit(p), ~Restart
      PROVE  InMemory /\ tooLate' = tooLate /\ \A s \in tooLate : StillLate(s)
  <2>1. /\ journal[p] = NoRecord /\ memory'[p] # NoRecord /\ UNCHANGED <<calls, tooLate>>
        /\ at' = [r \in Steps |-> IF r \in NextWave(p, {}) THEN "queued" ELSE at[r]]
    BY <1>3 DEF Submit, Unclaimed, Claimed, NoRecord, TypeInv, TypeOK
  <2>2. NextWave(p, {}) \subseteq StepsOf(p)
    BY NextWaveTypes DEF Pending
  <2>3. InMemory
    BY <1>0, <1>3, <2>1, <2>2, MemoryStays DEF LateInv, StepsOf
  <2>4. ASSUME NEW s \in tooLate PROVE StillLate(s)
    <3>1. PlanOf[s] # p
      BY <2>1 DEF LateInv
    <3>2. QED
      BY <1>1, <1>2, <1>3, <2>1, <2>2, <3>1 DEF StepsOf
  <2>5. QED
    BY <2>1, <2>3, <2>4
<1>4. ASSUME NEW p \in Plans, SubmitBlocked(p) \/ Reattach(p), ~Restart
      PROVE  InMemory /\ tooLate' = tooLate /\ \A s \in tooLate : StillLate(s)
  <2>1. UNCHANGED <<at, calls, tooLate>>
    BY <1>4 DEF SubmitBlocked, Reattach, stepVars
  <2>2. QED
    BY <1>0, <1>1, <1>2, <1>4, <2>1, MemoryStays DEF LateInv, StepsOf
<1>5. ASSUME NEW p \in Plans, Advance(p) \/ AdvanceFailed(p), ~Restart
      PROVE  InMemory /\ tooLate' = tooLate /\ \A s \in tooLate : StillLate(s)
  <2>1. /\ Wave(p) # {} /\ UNCHANGED <<calls, tooLate>>
        /\ \A s \in Steps \ StepsOf(p) : at'[s] = at[s]
    BY <1>5, PlanPlaces
  <2>2. PICK w \in Steps : PlanOf[w] = p /\ at[w] # "idle"
    BY <2>1 DEF Wave, StepsOf
  <2>3. memory[p] # NoRecord
    BY <2>2 DEF LateInv
  <2>4. InMemory
    BY <1>0, <1>5, <2>1, <2>3, MemoryStays DEF LateInv, StepsOf
  <2>5. ASSUME NEW s \in tooLate PROVE StillLate(s)
    <3>1. CASE PlanOf[s] = p
      <4>1. Cancelled(p) /\ s \in StepsOf(p) /\ Late(s)
        BY <1>2, <2>1, <3>1 DEF Late, StepsOf
      <4>2. at'[s] \in {"idle", "done"}
        BY <1>5, <4>1, NoNextWave
      <4>3. QED
        BY <1>5, <2>1, <3>1, <4>1, <4>2, MemoryStays DEF Late
    <3>2. CASE PlanOf[s] # p
      BY <1>1, <1>2, <1>5, <2>1, <3>2 DEF StepsOf
    <3>3. QED
      BY <3>1, <3>2
  <2>6. QED
    BY <2>1, <2>4, <2>5
<1>6. ASSUME NEW p \in Plans, Cancel(p), ~Restart PROVE LateInv'
  <2>1. /\ UNCHANGED <<at, calls>> /\ journal[p] # NoRecord
        /\ tooLate' = tooLate \cup
               {s \in StepsOf(p) : at[s] \in {"idle", "queued"} /\ row[s] = "none"}
    BY <1>6 DEF Cancel, stepVars
  <2>2. InMemory
    BY <1>0, <1>6, <2>1, MemoryStays DEF LateInv
  <2>3. ASSUME NEW s \in tooLate
        PROVE  StillLate(s) /\ journal'[PlanOf[s]] # NoRecord
    BY <1>1, <1>2, <1>6, <2>1 DEF StepsOf
  <2>4. ASSUME NEW s \in StepsOf(p), at[s] \in {"idle", "queued"}, row[s] = "none"
        PROVE  StillLate(s) /\ journal'[PlanOf[s]] # NoRecord
    <3>1. s \in Steps /\ PlanOf[s] = p /\ journal'[p] # NoRecord
      BY <2>1, JournalStays DEF StepsOf
    <3>2. calls'[s] = 0 /\ at'[s] \in {"idle", "queued"}
      BY <2>1, <2>4, <3>1 DEF OnceInv
    <3>3. CASE memory[p] = NoRecord
      <4>1. Wave(p)' = {}
        BY <2>1, <3>3 DEF LateInv, Wave, StepsOf
      <4>2. QED
        BY <3>1, <3>2, <4>1
    <3>4. CASE memory[p] # NoRecord
      <4>1. memory' = [memory EXCEPT ![p] = [@ EXCEPT !.status = "cancelled", !.cancelled = TRUE]]
        BY <1>6, <3>4 DEF Cancel
      <4>2. memory[p] \in Records \ {NoRecord} /\ memory \in [Plans -> Records]
        BY <3>4 DEF TypeInv, TypeOK
      <4>3. memory'[p].cancelled
        BY <4>1, <4>2 DEF Records, NoRecord
      <4>4. QED
        BY <3>1, <3>2, <4>3 DEF Cancelled
    <3>5. QED
      BY <3>3, <3>4
  <2>5. QED
    BY <2>1, <2>2, <2>3, <2>4 DEF LateInv
<1>7. ASSUME NEW r \in Steps, StepStep(r), ~Restart
      PROVE  InMemory /\ tooLate' = tooLate /\ \A s \in tooLate : StillLate(s)
  <2>1. /\ at[r] \in {"queued", "observing", "dispatching", "verifying"}
        /\ at'[r] \in {"observing", "dispatching", "verifying", "settled"}
        /\ \A q \in Steps \ {r} : at'[q] = at[q] /\ calls'[q] = calls[q]
        /\ UNCHANGED <<journal, memory, tooLate>>
    BY <1>7, StepPlaces
  <2>2. InMemory
    BY <2>1 DEF LateInv
  <2>3. ASSUME NEW s \in tooLate PROVE StillLate(s)
    <3>1. CASE s = r
      <4>1. at[s] = "queued" /\ Cancelled(PlanOf[s])
        BY <1>2, <2>1, <3>1 DEF Late, Wave, StepsOf
      <4>2. at'[s] = "settled" /\ calls' = calls
        BY <1>7, <3>1, <4>1, CancelledSettles
      <4>3. QED
        BY <1>2, <2>1, <4>1, <4>2 DEF Late, Cancelled
    <3>2. CASE s # r
      <4>1. at'[s] = at[s] /\ calls'[s] = calls[s]
        BY <1>2, <2>1, <3>2
      <4>2. Wave(PlanOf[s]) = {} => Wave(PlanOf[s])' = {}
        BY <2>1 DEF Wave, StepsOf
      <4>3. QED
        BY <1>2, <2>1, <4>1, <4>2 DEF Late, Cancelled
    <3>3. QED
      BY <3>1, <3>2
  <2>4. QED
    BY <2>1, <2>2, <2>3
<1>8. ASSUME Restart PROVE InMemory /\ tooLate' = tooLate /\ \A s \in tooLate : StillLate(s)
  BY <1>2, <1>8 DEF Restart, Wave, StepsOf, Late
<1>9. ASSUME UNCHANGED vars, ~Restart
      PROVE  InMemory /\ tooLate' = tooLate /\ \A s \in tooLate : StillLate(s)
  <2>1. UNCHANGED <<at, calls, tooLate>>
    BY <1>9 DEF vars, stepVars
  <2>2. QED
    BY <1>0, <1>1, <1>2, <1>9, <2>1, MemoryStays DEF LateInv, StepsOf
<1>10. ASSUME InMemory, tooLate' = tooLate, \A s \in tooLate : StillLate(s) PROVE LateInv'
  BY <1>2, <1>10 DEF LateInv
<1> HIDE DEF InMemory, StillLate
<1>11. QED
  BY <1>3, <1>4, <1>5, <1>6, <1>7, <1>8, <1>9, <1>10 DEF Next, PlanStep

\* A step that had not begun when its plan was cancelled never acts: whatever waits for its turn
\* or its wave by then, however often the request is repeated, and after a restart.
THEOREM CancelledNeverAct == Spec => []CancelledStepsNeverAct
<1>1. Init => LateInv
  BY DEF Init, LateInv
<1>2. LateInv => CancelledStepsNeverAct
  BY DEF LateInv, CancelledStepsNeverAct
<1>3. QED
  BY <1>1, <1>2, OnceCorrect, NextLateInv, PTL DEF Spec

-----------------------------------------------------------------------------
(* What clients are told *)

\* The flags of a record and of its row.
FlagsAgree(m, j) == \/ m.cancelled = j.cancelled
                    \/ m.cancelled /\ ~j.cancelled /\ m.status \notin {"running", "cancelled"}

LEMMA NextJournalIsCurrent == TypeInv /\ JournalIsCurrent /\ [Next]_vars => JournalIsCurrent'
<1> SUFFICES ASSUME TypeInv, JournalIsCurrent, [Next]_vars, NEW p \in Plans, memory'[p] # NoRecord
             PROVE  /\ memory'[p].status = journal'[p].status /\ memory'[p].result = journal'[p].result
                    /\ FlagsAgree(memory'[p], journal'[p])
    BY DEF JournalIsCurrent, FlagsAgree
<1>0. /\ journal \in [Plans -> Records] /\ memory \in [Plans -> Records]
      /\ memory[p] # NoRecord =>
            /\ memory[p].status = journal[p].status /\ memory[p].result = journal[p].result
            /\ FlagsAgree(memory[p], journal[p])
  BY DEF TypeInv, TypeOK, JournalIsCurrent, FlagsAgree
<1> DEFINE Same == /\ memory'[p].status = journal'[p].status /\ memory'[p].result = journal'[p].result
                   /\ FlagsAgree(memory'[p], journal'[p])
<1>1. ASSUME UNCHANGED <<journal, memory>> PROVE Same
  BY <1>0, <1>1
<1>2. ASSUME NEW q \in Plans, Submit(q) \/ SubmitBlocked(q) PROVE Same
  BY <1>0, <1>2 DEF Submit, SubmitBlocked, Claimed, FlagsAgree
<1>3. ASSUME NEW q \in Plans, Reattach(q) PROVE Same
  BY <1>0, <1>3 DEF Reattach, durableVars, FlagsAgree
<1>4. ASSUME NEW q \in Plans, NEW x \in Terminal, Finish(q, x), x = "cancelled" => Cancelled(q)
      PROVE  Same
  <2>1. CASE p = q
    <3>1. memory[q] = [status |-> memory[q].status, cancelled |-> memory[q].cancelled,
                       result |-> memory[q].result]
      BY <1>0 DEF Records, NoRecord
    <3>2. /\ memory'[q].status = x /\ memory'[q].result = x
          /\ memory'[q].cancelled = memory[q].cancelled
      BY <1>0, <1>4, <3>1 DEF Finish
    <3>3. /\ journal'[q].status = x /\ journal'[q].result = x
          /\ journal'[q].cancelled <=> x = "cancelled"
          /\ journal'[q].cancelled \in BOOLEAN
      BY <1>0, <1>4 DEF Finish
    <3>4. x = "cancelled" => memory[q].cancelled
      BY <1>4 DEF Cancelled
    <3>a. memory[q].cancelled \in BOOLEAN /\ x # "running"
      <4>1. memory[q] \in Records /\ x # "running"
        BY <1>0, <1>4 DEF Terminal
      <4>2. CASE memory[q] = NoRecord
        BY <4>1, <4>2 DEF NoRecord
      <4>3. CASE memory[q] # NoRecord
        <5>1. memory[q] \in [status : {"running"} \cup Terminal, cancelled : BOOLEAN,
                             result : {"none"} \cup Terminal]
          BY <4>1, <4>3 DEF Records
        <5>2. QED
          BY <4>1, <5>1
      <4>4. QED
        BY <4>2, <4>3
    <3>b. CASE x = "cancelled"
      <4>1. memory'[q].cancelled = TRUE /\ journal'[q].cancelled = TRUE
        BY <3>b, <3>2, <3>3, <3>4, <3>a
      <4>2. QED
        BY <2>1, <3>2, <3>3, <4>1 DEF FlagsAgree
    <3>c. CASE x # "cancelled"
      <4>1. /\ journal'[q].cancelled = FALSE /\ memory'[q].status \notin {"running", "cancelled"}
            /\ memory'[q].cancelled \in BOOLEAN
        BY <3>c, <3>2, <3>3, <3>a
      <4>2. QED
        BY <2>1, <3>2, <3>3, <4>1 DEF FlagsAgree
    <3>5. QED
      BY <3>b, <3>c
  <2>2. CASE p # q
    BY <1>0, <1>4, <2>2 DEF Finish
  <2>3. QED
    BY <2>1, <2>2
<1>5. ASSUME NEW q \in Plans, Advance(q) \/ AdvanceFailed(q) PROVE Same
  BY <1>1, <1>4, <1>5 DEF Advance, AdvanceFailed, Proceed, Terminal
<1>6. ASSUME NEW q \in Plans, Cancel(q) PROVE Same
  <2> DEFINE CancelIn(records) ==
                [records EXCEPT ![q] = [@ EXCEPT !.status = "cancelled", !.cancelled = TRUE]]
  <2>1. journal' = CancelIn(journal) /\ memory' = IF memory[q] = NoRecord THEN memory ELSE CancelIn(memory)
    BY <1>6 DEF Cancel
  <2>2. \A r \in Records :
                            /\ [r EXCEPT !.status = "cancelled", !.cancelled = TRUE].status = "cancelled"
                            /\ [r EXCEPT !.status = "cancelled", !.cancelled = TRUE].result = r.result
                            /\ [r EXCEPT !.status = "cancelled", !.cancelled = TRUE].cancelled = TRUE
    BY DEF Records, NoRecord
  <2>3. CASE p = q /\ memory[q] # NoRecord
    BY <1>0, <2>1, <2>2, <2>3 DEF FlagsAgree
  <2>4. CASE p = q /\ memory[q] = NoRecord
    BY <2>1, <2>4
  <2>5. CASE p # q
    BY <1>0, <2>1, <2>5
  <2>6. QED
    BY <2>3, <2>4, <2>5
<1>7. ASSUME NEW s \in Steps, StepStep(s) PROVE Same
  BY <1>1, <1>7, StepPlaces
<1>8. CASE Restart
  BY <1>8 DEF Restart
<1>9. QED
  BY <1>1, <1>2, <1>3, <1>5, <1>6, <1>7, <1>8 DEF Next, PlanStep, vars, durableVars

\* The status and the result in memory are those of the row, and so is the flag
\* but for a plan cancelled during a wave that then ended otherwise.
THEOREM JournalFollowsMemory == Spec => []JournalIsCurrent
<1>1. Init => JournalIsCurrent
  BY DEF Init, JournalIsCurrent
<1>2. QED
  BY <1>1, NextJournalIsCurrent, TypeInvCorrect, PTL DEF Spec

-----------------------------------------------------------------------------
(* Turns on a surface *)

Acting(s) == at[s] \in {"observing", "dispatching", "verifying"}
Line == {s \in Steps : at[s] = "queued" \/ Acting(s)}

\* r comes before s when steps are ordered by the round e in which they were put in
\* line, and by their number within a round.
Ahead(e, r, s) == e[r] < e[s] \/ (e[r] = e[s] /\ r < s)

\* A step that has another before it waits for the one right before it.
WaitsForLast(e) ==
    \A r, s \in Line :
        /\ SurfaceOf[r] = SurfaceOf[s] /\ Ahead(e, r, s)
        => /\ before[s] \in Line /\ SurfaceOf[before[s]] = SurfaceOf[s]
           /\ before[s] = r \/ Ahead(e, r, before[s])

\* The tail of a surface is the last step in line.
TailIsLast(e) ==
    \A s \in Line :
        LET last == tail[SurfaceOf[s]]
        IN  /\ last \in Line /\ SurfaceOf[last] = SurfaceOf[s]
            /\ last = s \/ Ahead(e, s, last)

Orders(e, n) == (\A s \in Steps : e[s] <= n) /\ WaitsForLast(e) /\ TailIsLast(e)

TurnInv ==
    /\ \E e \in [Steps -> Nat], n \in Nat : Orders(e, n)
    /\ \A s \in Steps : Acting(s) => ItsTurn(s)

LEMMA AheadTotal ==
    ASSUME NEW e \in [Steps -> Nat], NEW r \in Steps, NEW s \in Steps
    PROVE  /\ r = s \/ Ahead(e, r, s) \/ Ahead(e, s, r)
           /\ ~(Ahead(e, r, s) /\ Ahead(e, s, r))
           /\ \A q \in Steps : Ahead(e, q, r) /\ Ahead(e, r, s) => Ahead(e, q, s)
<1>1. r \in Nat /\ s \in Nat /\ e[r] \in Nat /\ e[s] \in Nat /\ Steps \subseteq Nat
  BY StepAssumption
<1>2. QED
  BY <1>1 DEF Ahead

\* A step that has its turn has no other before it.
LEMMA TurnIsFirst ==
    ASSUME NEW e \in [Steps -> Nat], WaitsForLast(e), NEW r \in Steps, NEW s \in Steps,
           r \in Line, s \in Line, SurfaceOf[r] = SurfaceOf[s], ItsTurn(s)
    PROVE  r = s \/ Ahead(e, s, r)
<1>1. ASSUME Ahead(e, r, s) PROVE FALSE
  <2>1. before[s] \in Line
    BY <1>1 DEF WaitsForLast
  <2>2. QED
    BY <2>1 DEF ItsTurn, Line, Acting
<1>2. QED
  BY <1>1, AheadTotal

\* Steps that leave the line, done, or do not move in it, leave an order.
LEMMA OrderKept ==
    ASSUME TypeInv, NEW e \in [Steps -> Nat], NEW n \in Nat, Orders(e, n),
           UNCHANGED <<tail, before>>, Line' = Line
    PROVE  Orders(e, n)'
BY StepAssumption DEF Orders, WaitsForLast, TailIsLast, Ahead

\* New steps at the end of the line.
LEMMA OrderExtended ==
    ASSUME TypeInv, NEW e \in [Steps -> Nat], NEW n \in Nat, Orders(e, n),
           NEW W \in SUBSET Steps, W \cap Line = {}, Queue(W),
           Line' = Line \cup W
    PROVE  LET f == [s \in Steps |-> IF s \in W THEN n + 1 ELSE e[s]]
           IN  f \in [Steps -> Nat] /\ Orders(f, n + 1)'
<1> DEFINE f == [s \in Steps |-> IF s \in W THEN n + 1 ELSE e[s]]
           Earlier(s) == {r \in W : r < s /\ SurfaceOf[r] = SurfaceOf[s]}
           On(x) == {s \in W : SurfaceOf[s] = x}
<1>1. f \in [Steps -> Nat] /\ \A s \in Steps : f[s] <= n + 1
  BY DEF Orders
<1>2. /\ before' = [s \in Steps |-> IF s \notin W THEN before[s]
                                     ELSE IF Earlier(s) # {} THEN LastOf(Earlier(s))
                                     ELSE tail[SurfaceOf[s]]]
      /\ tail' = [x \in Surfaces |-> IF On(x) # {} THEN LastOf(On(x)) ELSE tail[x]]
  BY DEF Queue
<1>3. \A r, s \in Steps :
                          /\ r \notin W /\ s \notin W => (Ahead(f, r, s) <=> Ahead(e, r, s))
                          /\ r \notin W /\ s \in W => Ahead(f, r, s) /\ ~Ahead(f, s, r)
                          /\ r \in W /\ s \in W => (Ahead(f, r, s) <=> r < s)
  BY StepAssumption DEF Ahead, Orders
<1>4. /\ Steps \subseteq Nat /\ SurfaceOf \in [Steps -> Surfaces]
      /\ Line \subseteq Steps /\ Line' \subseteq Steps /\ Line' = Line \cup W /\ W \cap Line = {}
  BY StepAssumption DEF Line
<1>5. WaitsForLast(f)'
  <2> SUFFICES ASSUME NEW r \in Line', NEW s \in Line',
                      SurfaceOf[r] = SurfaceOf[s], Ahead(f, r, s)
               PROVE  /\ before'[s] \in Line' /\ SurfaceOf[before'[s]] = SurfaceOf[s]
                      /\ before'[s] = r \/ Ahead(f, r, before'[s])
      BY DEF WaitsForLast, Ahead
  <2>1. CASE s \notin W
    <3>1. r \notin W /\ r \in Line /\ s \in Line /\ Ahead(e, r, s) /\ before'[s] = before[s]
      BY <1>4, <1>2, <1>3, <2>1
    <3>2. /\ before[s] \in Line /\ SurfaceOf[before[s]] = SurfaceOf[s]
          /\ before[s] = r \/ Ahead(e, r, before[s])
      BY <1>4, <3>1 DEF Orders, WaitsForLast
    <3>3. before[s] \notin W
      BY <1>4, <3>2
    <3>4. QED
      BY <1>4, <1>3, <3>1, <3>2, <3>3
  <2>2. CASE s \in W /\ Earlier(s) # {}
    <3>1. before'[s] = LastOf(Earlier(s))
      BY <1>4, <1>2, <2>2
    <3>2. LastOf(Earlier(s)) \in Earlier(s) /\ \A q \in Earlier(s) : q <= LastOf(Earlier(s))
      BY <1>4, <2>2, LastOfLast
    <3>3. r \in W => r \in Earlier(s)
      BY <1>4, <1>3, <2>2
    <3>4. before'[s] \in W /\ before'[s] \in Line' /\ before'[s] \in Steps
      BY <1>4, <3>1, <3>2
    <3>5. SurfaceOf[before'[s]] = SurfaceOf[s]
      BY <1>4, <3>1, <3>2
    <3>6. r \in Steps /\ before'[s] \in Steps /\ s \in W
      BY <1>4, <2>2, <3>4
    <3>7. CASE r \in W
      <4>1. r <= before'[s] /\ r \in Nat /\ before'[s] \in Nat
        BY <1>4, <3>1, <3>2, <3>3, <3>6, <3>7
      <4>2. r < before'[s] => Ahead(f, r, before'[s])
        BY <1>3, <3>4, <3>6, <3>7
      <4>3. before'[s] = r \/ Ahead(f, r, before'[s])
        <5> HIDE DEF f, Earlier
        <5> QED BY <4>1, <4>2
      <4>4. QED
        BY <3>4, <3>5, <4>3
    <3>8. CASE r \notin W
      <4>1. Ahead(f, r, before'[s])
        BY <1>3, <3>4, <3>6, <3>8
      <4>2. QED
        BY <3>4, <3>5, <4>1
    <3>9. QED
      BY <3>7, <3>8
  <2>3. CASE s \in W /\ Earlier(s) = {}
    <3>1. before'[s] = tail[SurfaceOf[s]]
      BY <1>4, <1>2, <2>3
    <3>2. r \notin W
      BY <1>4, <1>3, <2>3
    <3>3. r \in Line
      BY <1>4, <3>2
    <3>4. /\ tail[SurfaceOf[r]] \in Line
          /\ SurfaceOf[tail[SurfaceOf[r]]] = SurfaceOf[r]
          /\ tail[SurfaceOf[r]] = r \/ Ahead(e, r, tail[SurfaceOf[r]])
      BY <1>4, <3>3 DEF Orders, TailIsLast
    <3>5. tail[SurfaceOf[r]] \notin W
      BY <1>4, <3>4
    <3>6. QED
      BY <1>4, <1>3, <3>1, <3>2, <3>4, <3>5
  <2>4. QED
    BY <2>1, <2>2, <2>3
<1>6. TailIsLast(f)'
  <2> SUFFICES ASSUME NEW s \in Line'
               PROVE  /\ tail'[SurfaceOf[s]] \in Line'
                      /\ SurfaceOf[tail'[SurfaceOf[s]]] = SurfaceOf[s]
                      /\ tail'[SurfaceOf[s]] = s \/ Ahead(f, s, tail'[SurfaceOf[s]])
      BY DEF TailIsLast, Ahead
  <2> DEFINE x == SurfaceOf[s]
  <2>0. x \in Surfaces
    BY <1>4
  <2>1. CASE On(x) # {}
    <3>1. tail'[x] = LastOf(On(x))
      BY <1>4, <1>2, <2>0, <2>1
    <3>2. LastOf(On(x)) \in On(x) /\ \A q \in On(x) : q <= LastOf(On(x))
      BY <1>4, <2>1, LastOfLast
    <3>3. tail'[x] \in W /\ tail'[x] \in Steps /\ tail'[x] \in Line' /\ SurfaceOf[tail'[x]] = x
      BY <1>4, <3>1, <3>2
    <3>4. s \in W => s <= tail'[x]
      BY <1>4, <3>1, <3>2
    <3>5. s \in Steps
      BY <1>4
    <3>6. CASE s \in W
      <4>1. s <= tail'[x] /\ s \in Nat /\ tail'[x] \in Nat
        BY <1>4, <3>3, <3>4, <3>5, <3>6
      <4>2. s < tail'[x] => Ahead(f, s, tail'[x])
        BY <1>3, <3>3, <3>5, <3>6
      <4>3. tail'[x] = s \/ Ahead(f, s, tail'[x])
        <5> HIDE DEF f, On
        <5> QED BY <4>1, <4>2
      <4>4. QED
        BY <3>3, <4>3
    <3>7. CASE s \notin W
      <4>1. Ahead(f, s, tail'[x])
        BY <1>3, <3>3, <3>5, <3>7
      <4>2. QED
        BY <3>3, <4>1
    <3>8. QED
      BY <3>6, <3>7
  <2>2. CASE On(x) = {}
    <3>1. tail'[x] = tail[x] /\ s \notin W
      BY <1>4, <1>2, <2>0, <2>2
    <3>2. s \in Line
      BY <1>4, <3>1
    <3>3. tail[x] \in Line /\ SurfaceOf[tail[x]] = x
          /\ (tail[x] = s \/ Ahead(e, s, tail[x]))
      BY <1>4, <3>2 DEF Orders, TailIsLast
    <3>4. tail[x] \notin W
      BY <1>4, <3>3
    <3>5. QED
      BY <1>4, <1>3, <3>1, <3>3, <3>4
  <2>3. QED
    BY <2>1, <2>2
<1>7. Orders(f, n + 1)'
  BY <1>1, <1>5, <1>6 DEF Orders
<1>8. QED
  BY <1>1, <1>7

\* A step that has its turn leaves the line.
LEMMA OrderLeft ==
    ASSUME TypeInv, NEW e \in [Steps -> Nat], NEW n \in Nat, Orders(e, n),
           NEW s \in Line, ItsTurn(s),
           Line' = Line \ {s}, tail' = TailReleased(s), UNCHANGED before
    PROVE  Orders(e, n)'
<1>1. s \in Steps /\ Line \subseteq Steps /\ SurfaceOf \in [Steps -> Surfaces]
      /\ tail \in [Surfaces -> Steps \cup {None}]
  BY StepAssumption DEF Line, TypeInv, TypeOK
<1>2. \A r \in Line : SurfaceOf[r] = SurfaceOf[s] => ~Ahead(e, r, s)
  BY <1>1, TurnIsFirst, AheadTotal DEF Orders
<1>3. WaitsForLast(e)'
  <2> SUFFICES ASSUME NEW q \in Line', NEW r \in Line',
                      SurfaceOf[q] = SurfaceOf[r], Ahead(e, q, r)
               PROVE  /\ before'[r] \in Line' /\ SurfaceOf[before'[r]] = SurfaceOf[r]
                      /\ before'[r] = q \/ Ahead(e, q, before'[r])
      BY DEF WaitsForLast, Ahead
  <2>1. /\ before[r] \in Line /\ SurfaceOf[before[r]] = SurfaceOf[r]
        /\ before[r] = q \/ Ahead(e, q, before[r])
    BY DEF Orders, WaitsForLast
  <2>2. before[r] # s
    BY <1>2, <2>1
  <2>3. QED
    BY <2>1, <2>2
<1>4. TailIsLast(e)'
  <2> SUFFICES ASSUME NEW r \in Line'
               PROVE  /\ tail'[SurfaceOf[r]] \in Line'
                      /\ SurfaceOf[tail'[SurfaceOf[r]]] = SurfaceOf[r]
                      /\ tail'[SurfaceOf[r]] = r \/ Ahead(e, r, tail'[SurfaceOf[r]])
      BY DEF TailIsLast, Ahead
  <2> DEFINE last == tail[SurfaceOf[r]]
  <2>1. last \in Line /\ SurfaceOf[last] = SurfaceOf[r] /\ (last = r \/ Ahead(e, r, last))
    BY DEF Orders, TailIsLast
  <2>2. last # s
    BY <1>2, <2>1
  <2>3. tail'[SurfaceOf[r]] = last
    BY <1>1, <2>2 DEF TailReleased
  <2>4. QED
    BY <2>1, <2>2, <2>3
<1>5. QED
  BY <1>3, <1>4 DEF Orders

\* A step moves when it has its turn: within the line, or out of it.
LEMMA StepTurns ==
    ASSUME TypeInv, NEW s \in Steps, StepStep(s)
    PROVE  /\ (at[s] = "queued" /\ ItsTurn(s)) \/ Acting(s)
           /\ \/ \E o : Settle(s, o)
              \/ \E place \in {"observing", "dispatching", "verifying"} : GoesTo(s, place)
<1>1. Guarded(s) => (\E o : Settle(s, o)) \/ GoesTo(s, "dispatching")
  BY DEF Guarded
<1>2. CASE StepBegins(s)
  BY <1>1, <1>2 DEF StepBegins
<1>3. CASE StepObserves(s)
  BY <1>1, <1>3 DEF StepObserves, Acting
<1>4. CASE StepDispatches(s)
  BY <1>4 DEF StepDispatches, Acting
<1>5. CASE StepVerifies(s)
  BY <1>5 DEF StepVerifies, Acting
<1>6. QED
  BY <1>2, <1>3, <1>4, <1>5 DEF StepStep

\* Plans advance without a new wave, and what is over is over.
LEMMA TurnsKept ==
    ASSUME TypeInv, TurnInv, UNCHANGED <<tail, before>>,
           \A s \in Steps : \/ at'[s] = at[s]
                            \/ at[s] \in {"idle", "settled"} /\ at'[s] = "done"
    PROVE  TurnInv'
<1>1. PICK e \in [Steps -> Nat], n \in Nat : Orders(e, n)
  BY DEF TurnInv
<1>2. Line' = Line
  BY DEF Line, Acting
<1>3. Orders(e, n)'
  BY <1>1, <1>2, OrderKept
<1>4. \A s \in Steps : Acting(s)' => ItsTurn(s)'
  BY DEF TurnInv, Acting, ItsTurn
<1>5. QED
  BY <1>3, <1>4 DEF TurnInv

\* A wave takes its place.
LEMMA TurnsTaken ==
    ASSUME TypeInv, TurnInv, NEW W \in SUBSET Steps, Queue(W),
           \A s \in W : at[s] = "idle" /\ at'[s] = "queued",
           \A s \in Steps \ W : at'[s] = at[s] \/ (at[s] = "settled" /\ at'[s] = "done")
    PROVE  TurnInv'
<1>1. PICK e \in [Steps -> Nat], n \in Nat : Orders(e, n)
  BY DEF TurnInv
<1>2. Line' = Line \cup W /\ W \cap Line = {}
  BY DEF Line, Acting
<1>3. \E f \in [Steps -> Nat] : Orders(f, n + 1)'
  BY <1>1, <1>2, OrderExtended
<1>4. n + 1 \in Nat
  OBVIOUS
<1>5. ASSUME NEW s \in Steps, Acting(s)' PROVE ItsTurn(s)'
  <2>1. s \notin W /\ Acting(s)
    BY <1>5 DEF Acting
  <2>2. before'[s] = before[s]
    BY <2>1 DEF Queue
  <2>3. ItsTurn(s)
    BY <2>1 DEF TurnInv
  <2>4. \A r \in Steps : at[r] \in {"settled", "done"} => at'[r] \in {"settled", "done"}
    OBVIOUS
  <2>5. QED
    BY <2>2, <2>3, <2>4 DEF ItsTurn
<1>6. QED
  BY <1>3, <1>4, <1>5 DEF TurnInv

LEMMA NextTurnInv == TypeInv /\ TurnInv /\ [Next]_vars => TurnInv'
<1> SUFFICES ASSUME TypeInv, TurnInv, [Next]_vars PROVE TurnInv'
    OBVIOUS
<1>0. at \in [Steps -> Places]
  BY DEF TypeInv, TypeOK
<1>1. ASSUME UNCHANGED <<at, tail, before>> PROVE TurnInv'
  BY <1>1, TurnsKept
<1>2. ASSUME NEW p \in Plans, NEW U \in SUBSET Pending(p), NEW o, Settled(p),
             Conclude(Wave(p) \cup U, U, o)
      PROVE  TurnInv'
  <2>1. \A s \in Wave(p) \cup U : at[s] \in {"idle", "settled"}
    BY <1>2 DEF Settled, Pending
  <2>2. \A s \in Steps : at'[s] = IF s \in Wave(p) \cup U THEN "done" ELSE at[s]
    BY <1>2 DEF Conclude
  <2>3. UNCHANGED <<tail, before>>
    BY <1>2 DEF Conclude
  <2>4. QED
    BY <2>1, <2>2, <2>3, TurnsKept
<1>3. ASSUME NEW p \in Plans, Submit(p) PROVE TurnInv'
  <2>1. PICK W : /\ W = NextWave(p, {}) /\ Queue(W)
                 /\ at' = [s \in Steps |-> IF s \in W THEN "queued" ELSE at[s]]
    BY <1>3 DEF Submit
  <2>2. W \subseteq Steps /\ \A s \in W : at[s] = "idle"
    BY <2>1, NextWaveTypes DEF Pending
  <2>3. QED
    BY <2>1, <2>2, TurnsTaken
<1>4. ASSUME NEW p \in Plans, Advance(p) PROVE TurnInv'
  <2> DEFINE first == CHOOSE s \in Pending(p) : \A r \in Pending(p) : s <= r
  <2>1. PICK W : /\ W = NextWave(p, {s \in StepsOf(p) : at[s] = "done"} \cup Wave(p))
                 /\ \/ Conclude(Wave(p) \cup {}, {}, "none")
                    \/ Conclude(Wave(p) \cup Pending(p), Pending(p), "cancelled")
                    \/ Pending(p) # {} /\ Conclude(Wave(p) \cup {first}, {first}, "failed")
                    \/ /\ at' = [s \in Steps |-> IF s \in Wave(p) THEN "done"
                                                 ELSE IF s \in W THEN "queued" ELSE at[s]]
                       /\ Queue(W)
    BY <1>4 DEF Advance, Proceed
  <2>2. Settled(p)
    BY <1>4 DEF Advance, Settled
  <2>3. W \subseteq Steps /\ (\A s \in W : at[s] = "idle") /\ \A s \in Wave(p) : at[s] = "settled"
    BY <2>1, <2>2, NextWaveTypes DEF Pending, Settled
  <2>4. Pending(p) # {} => {first} \subseteq Pending(p)
    BY NextWaveTypes, FirstOfFirst
  <2> HIDE DEF first
  <2>5. CASE \E U \in SUBSET Pending(p) : \E o : Conclude(Wave(p) \cup U, U, o)
    BY <1>2, <2>2, <2>5
  <2>6. CASE /\ at' = [s \in Steps |-> IF s \in Wave(p) THEN "done"
                                       ELSE IF s \in W THEN "queued" ELSE at[s]]
             /\ Queue(W)
    <3>1. /\ \A s \in W : at[s] = "idle" /\ at'[s] = "queued"
          /\ \A s \in Steps \ W : at'[s] = at[s] \/ (at[s] = "settled" /\ at'[s] = "done")
      BY <2>3, <2>6
    <3>2. QED
      BY <2>3, <2>6, <3>1, TurnsTaken
  <2>7. QED
    BY <2>1, <2>4, <2>5, <2>6
<1>5. ASSUME NEW p \in Plans, AdvanceFailed(p) PROVE TurnInv'
  BY <1>2, <1>5 DEF AdvanceFailed
<1>6. ASSUME NEW p \in Plans, SubmitBlocked(p) \/ Reattach(p) \/ Cancel(p) PROVE TurnInv'
  BY <1>1, <1>6 DEF SubmitBlocked, Reattach, Cancel, stepVars
<1>7. ASSUME NEW s \in Steps, StepStep(s) PROVE TurnInv'
  <2>1. PICK e \in [Steps -> Nat], n \in Nat : Orders(e, n)
    BY DEF TurnInv
  <2>2. s \in Line /\ ItsTurn(s)
    BY <1>7, StepTurns DEF Line, TurnInv
  <2>3. \A r \in Steps \ {s} : at'[r] = at[r]
    BY <1>7, StepPlaces
  <2>4. at[s] \in {"queued", "observing", "dispatching", "verifying"}
    BY <1>7, StepPlaces
  <2>5. \A r \in Steps : Acting(r)' => ItsTurn(r)' 
    <3>1. UNCHANGED before
      BY <1>7, StepTurns DEF Settle, GoesTo
    <3>2. \A r \in Steps : at[r] \in {"settled", "done"} => at'[r] \in {"settled", "done"}
      BY <2>3, <2>4
    <3>3. \A r \in Steps : ItsTurn(r) => ItsTurn(r)'
      BY <3>1, <3>2 DEF ItsTurn
    <3>4. QED
      BY <2>2, <2>3, <3>3 DEF TurnInv, Acting
  <2>6. CASE \E o : Settle(s, o)
    <3>1. at'[s] = "settled" /\ tail' = TailReleased(s) /\ UNCHANGED before
      BY <1>0, <2>6 DEF Settle
    <3>2. Line' = Line \ {s}
      BY <2>3, <3>1 DEF Line, Acting
    <3>3. Orders(e, n)'
      BY <2>1, <2>2, <3>1, <3>2, OrderLeft
    <3>4. QED
      BY <2>5, <3>3 DEF TurnInv
  <2>7. CASE \E place \in {"observing", "dispatching", "verifying"} : GoesTo(s, place)
    <3>1. at'[s] \in {"observing", "dispatching", "verifying"} /\ UNCHANGED <<tail, before>>
      BY <1>0, <2>7 DEF GoesTo
    <3>2. Line' = Line
      BY <2>3, <2>4, <3>1 DEF Line, Acting
    <3>3. Orders(e, n)'
      BY <2>1, <3>1, <3>2, OrderKept
    <3>4. QED
      BY <2>5, <3>3 DEF TurnInv
  <2>8. QED
    BY <1>7, <2>6, <2>7, StepTurns
<1>8. CASE Restart
  <2>1. \A s \in Steps : at'[s] = "idle"
    BY <1>8 DEF Restart
  <2> DEFINE e == [s \in Steps |-> 0]
  <2>2. Line' = {} /\ \A s \in Steps : ~Acting(s)'
    BY <2>1 DEF Line, Acting
  <2>3. Orders(e, 0)'
    BY <2>2 DEF Orders, WaitsForLast, TailIsLast
  <2>4. QED
    BY <2>2, <2>3 DEF TurnInv
<1>9. CASE UNCHANGED vars
  BY <1>1, <1>9 DEF vars, stepVars
<1>10. QED
  BY <1>3, <1>4, <1>5, <1>6, <1>7, <1>8, <1>9 DEF Next, PlanStep

LEMMA InitTurnInv == Init => TurnInv
<1> SUFFICES ASSUME Init PROVE TurnInv
    OBVIOUS
<1> DEFINE e == [s \in Steps |-> 0]
<1>1. Line = {} /\ \A s \in Steps : ~Acting(s)
  BY DEF Line, Acting, Init
<1>2. Orders(e, 0)
  BY <1>1 DEF Orders, WaitsForLast, TailIsLast
<1>3. QED
  BY <1>1, <1>2 DEF TurnInv

\* Two steps never act on a surface at the same time.
THEOREM SurfacesTaken == Spec => []OneStepPerSurface
<1>1. TurnInv => OneStepPerSurface
  <2> SUFFICES ASSUME TurnInv, NEW r \in Steps, NEW s \in Steps, Acting(r), Acting(s),
                      SurfaceOf[r] = SurfaceOf[s]
               PROVE  r = s
      BY DEF OneStepPerSurface, Acting
  <2>1. PICK e \in [Steps -> Nat] : WaitsForLast(e)
    BY DEF TurnInv, Orders
  <2>2. r \in Line /\ s \in Line /\ ItsTurn(r) /\ ItsTurn(s)
    BY DEF TurnInv, Line
  <2>3. (r = s \/ Ahead(e, s, r)) /\ (s = r \/ Ahead(e, r, s))
    BY <2>1, <2>2, TurnIsFirst
  <2>4. QED
    BY <2>3, AheadTotal
<1>2. QED
  BY <1>1, InitTurnInv, NextTurnInv, TypeInvCorrect, PTL DEF Spec
=============================================================================
