-------------------------- MODULE ApprovalsProofs --------------------------
(***************************************************************************)
(* Proofs about the approval tickets, for every number of tickets,         *)
(* sessions, connections and concurrent resume calls.                      *)
(***************************************************************************)
EXTENDS Approvals, TLAPS

-----------------------------------------------------------------------------
(* Types *)

LEMMA InitTypeOK == Init => TypeOK
BY SessionsAssumption DEF Init, TypeOK, Tickets, States, AllKinds, CallRecords, Idle

LEMMA VerdictType ==
    ASSUME NEW s \in Sessions, NEW t \in Tickets
    PROVE  FirstVerdict(s, t) \in {"ok", "scope", "unauthorized", "changed"}
BY DEF FirstVerdict, AdmissionVerdict, OperationVerdict

LEMMA IdleType == Idle \in CallRecords
BY DEF Idle, CallRecords

LEMMA CallAtType ==
    ASSUME TypeOK, NEW c \in Calls, call[c].pc # "idle",
           NEW pc \in {"validating", "validated", "executing"},
           NEW verdict \in {"ok", "scope", "unauthorized", "changed"}
    PROVE  /\ CallAt(c, pc, verdict) \in CallRecords
           /\ CallAt(c, pc, verdict).ticket = call[c].ticket
           /\ CallAt(c, pc, verdict).session = call[c].session
           /\ CallAt(c, pc, verdict).ticket \in Tickets
           /\ CallAt(c, pc, verdict).session \in Sessions
BY DEF TypeOK, CallRecords, CallAt

LEMMA RestartTypeOK == TypeOK /\ LoseMemory /\ CancelForRestart =>
    /\ state' \in [Tickets -> States]
    /\ \A t \in Tickets : state'[t] # "NONE" => state[t] # "NONE"
    /\ call' \in [Calls -> CallRecords] /\ \A c \in Calls : call'[c].pc = "idle"
    /\ session' \in [Sessions -> {"new", "live", "detached", "gone"}]
    /\ lease' \subseteq Sessions /\ volatilePayloads' \subseteq Tickets
    /\ bindings' \subseteq Tickets /\ waiting' \subseteq Tickets
<1>1. Idle.pc = "idle"
  BY DEF Idle
<1>2. QED
  BY <1>1, IdleType DEF TypeOK, LoseMemory, CancelForRestart, AfterRestart, States, Terminal

\* Every step keeps every variable in its type.
LEMMA NextTypeOK == TypeOK /\ [Next]_vars => TypeOK'
<1> SUFFICES ASSUME TypeOK, [Next]_vars PROVE TypeOK'
    OBVIOUS
<1> USE DEF TypeOK, States, Terminal, worldVars, memoryVars, ticketVars
<1>1. ASSUME NEW s \in Sessions, NEW k \in Kinds, NEW redacted \in BOOLEAN, NEW t \in Tickets,
             Request(s, k, redacted, t)
      PROVE  TypeOK'
  BY <1>1, KindsAssumption DEF Request, Reusable
<1>2. ASSUME NEW t \in Tickets, EndFastWait(t) PROVE TypeOK'
  BY <1>2 DEF EndFastWait
<1>3. ASSUME NEW t \in Tickets, Lapse(t) \/ Status(t) \/ Deny(t) \/ Drift(t) PROVE TypeOK'
  BY <1>3 DEF Lapse, Status, Deny, Drift, Forget
<1>0. \A t \in Tickets : state[t] # "NONE" => ConnectionOf(t) \in Connections \cup {NoConn}
  BY SessionsAssumption DEF ConnectionOf
<1>4. ASSUME NEW t \in Tickets, NEW scope \in {"once", "connection"}, Approve(t, scope)
      PROVE  TypeOK'
  <2>1. ConnectionOf(t) \in Connections \cup {NoConn}
    BY <1>0, <1>4 DEF Approve
  <2>2. /\ grants' \subseteq Connections /\ hostGrants' \subseteq Connections
        /\ lease' \subseteq Sessions
    BY <1>4, <2>1 DEF Approve, ApprovedHandlers, GrantWorkspace, LiveOf, Of
  <2>3. QED
    BY <1>4, <2>2 DEF Approve
<1>5. ASSUME NEW s \in Sessions, NEW t \in Tickets, Cancel(s, t) PROVE TypeOK'
  BY <1>5 DEF Cancel, Forget
<1>6. CASE ClearHistory
  BY <1>6 DEF ClearHistory
<1>7. ASSUME NEW c \in Calls, NEW s \in Sessions, NEW t \in Tickets, ResumeBegin(c, s, t)
      PROVE  TypeOK'
  <2>1. call' \in [Calls -> CallRecords]
    <3>1. [pc      |-> IF kind[t] \in {"admission", "capability"} THEN "validated"
                       ELSE "validating",
           ticket  |-> t, session |-> s, verdict |-> FirstVerdict(s, t),
           payload |-> IF t \in secret \ volatilePayloads THEN "redacted" ELSE "original"]
          \in CallRecords
      BY VerdictType DEF CallRecords
    <3>2. QED
      BY <1>7, <3>1 DEF ResumeBegin
  <2>2. QED
    BY <1>7, <2>1 DEF ResumeBegin
<1>8. ASSUME NEW c \in Calls, ResumeCheck(c) PROVE TypeOK'
  <2> DEFINE v == IF EvidenceHolds(call[c].ticket) THEN call[c].verdict
                  ELSE IF call[c].verdict = "ok" THEN "changed" ELSE call[c].verdict
  <2>1. call[c].pc # "idle" /\ call' = [call EXCEPT ![c] = CallAt(c, "validated", v)]
    BY <1>8 DEF ResumeCheck
  <2>2. v \in {"ok", "scope", "unauthorized", "changed"}
    BY DEF CallRecords
  <2> HIDE DEF v
  <2>3. QED
    BY <1>8, <2>1, <2>2, CallAtType DEF ResumeCheck
<1>9. ASSUME NEW c \in Calls, ResumeClaim(c) PROVE TypeOK'
  <2>1. /\ call[c].pc # "idle" /\ call[c].ticket \in Tickets /\ call[c].session \in Sessions
        /\ call' = [call EXCEPT ![c] = CallAt(c, "executing", "ok")]
    BY <1>9 DEF ResumeClaim
  <2>2. runs' \in [Tickets -> Nat]
    <3>1. runs[call[c].ticket] + 1 \in Nat
      BY <2>1
    <3>2. QED
      BY <1>9, <2>1, <3>1 DEF ResumeClaim
  <2>3. grants' \subseteq Connections /\ lease' \subseteq Sessions
    BY <1>9, <2>1, SessionsAssumption DEF ResumeClaim, Admit, GrantWorkspace, LiveOf, Of
  <2>4. state' \in [Tickets -> States] /\ \A t \in Tickets : state'[t] # "NONE" => state[t] # "NONE"
    BY <1>9, <2>1 DEF ResumeClaim, Claimable
  <2>5. call' \in [Calls -> CallRecords]
        /\ \A d \in Calls : call'[d].pc # "idle" =>
              call'[d].ticket \in Tickets /\ call'[d].session \in Sessions
    BY <2>1, CallAtType
  <2>6. bindings' \subseteq Tickets
    BY <1>9 DEF ResumeClaim
  <2>7. QED
    BY <1>9, <2>2, <2>3, <2>4, <2>5, <2>6 DEF ResumeClaim
<1>10. ASSUME NEW c \in Calls, NEW outcome \in {"SUCCEEDED", "FAILED"},
              ResumeReject(c) \/ ResumeFailClaim(c) \/ ResumeLose(c) \/ ResumeFinish(c, outcome)
       PROVE  TypeOK'
  <2>1. call' = [call EXCEPT ![c] = Idle]
    BY <1>10 DEF ResumeReject, ResumeFailClaim, ResumeLose, ResumeFinish, Idles
  <2>2. call[c].ticket \in Tickets
    BY <1>10 DEF ResumeReject, ResumeFailClaim, ResumeLose, ResumeFinish
  <2>3. state' \in [Tickets -> States] /\ \A t \in Tickets : state'[t] # "NONE" => state[t] # "NONE"
    BY <1>10, <2>2
       DEF ResumeReject, ResumeFailClaim, ResumeLose, ResumeFinish, Invalidates, Claimable
  <2>4. Idle.pc = "idle"
    BY DEF Idle
  <2>5. QED
    BY <1>10, <2>1, <2>3, <2>4, IdleType
       DEF ResumeReject, ResumeFailClaim, ResumeLose, ResumeFinish, Forget
<1>11. ASSUME NEW s \in Sessions, EndSession(s) \/ AutoAdmit(s) PROVE TypeOK'
  BY <1>11, SessionsAssumption DEF EndSession, AutoAdmit
<1>12. ASSUME NEW s \in Sessions, NEW resumed \in BOOLEAN, OpenSession(s, resumed) PROVE TypeOK'
  BY <1>12 DEF OpenSession, Of
<1>13. ASSUME NEW k \in Connections,
              AdminGrant(k) \/ RemoveGrant(k) \/ RevokeHostGrant(k) \/ RevokeConnection(k)
       PROVE  TypeOK'
  BY <1>13 DEF AdminGrant, RemoveGrant, RevokeHostGrant, RevokeConnection, GrantWorkspace,
               LiveOf, Of
<1>14. CASE Restart
  BY <1>14, RestartTypeOK DEF Restart
<1>15. ASSUME NEW t \in Tickets, RestartInApprove(t) PROVE TypeOK'
  <2>1. ConnectionOf(t) \in Connections
    BY <1>0, <1>15 DEF RestartInApprove
  <2>2. QED
    BY <1>15, <2>1, RestartTypeOK DEF RestartInApprove
<1>16. CASE UNCHANGED vars
  BY <1>16 DEF vars
<1>17. QED
  BY <1>1, <1>2, <1>3, <1>4, <1>5, <1>6, <1>7, <1>8, <1>9, <1>10, <1>11, <1>12, <1>13, <1>14,
     <1>15, <1>16 DEF Next
\* Every variable has its type in every reachable state.
THEOREM TypeCorrect == Spec => []TypeOK
BY InitTypeOK, NextTypeOK, PTL DEF Spec

-----------------------------------------------------------------------------
(* How a row may move, and when an execution is counted *)

Moves(st) == CASE st = "NONE"      -> {"PENDING"}
               [] st = "PENDING"   -> {"APPROVED", "DENIED", "CANCELLED", "EXPIRED", "CLEARED"}
               [] st = "APPROVED"  -> {"EXECUTING", "CONTEXT_CHANGED", "FAILED", "CANCELLED",
                                       "EXPIRED", "CLEARED"}
               [] st = "EXECUTING" -> {"SUCCEEDED", "FAILED", "INTERRUPTED"}
               [] st \in Terminal  -> {"CLEARED"}
               [] OTHER            -> {}

RowStep(t) ==
    /\ state'[t] \in {state[t]} \cup Moves(state[t])
    /\ runs'[t] = IF state[t] = "APPROVED" /\ state'[t] = "EXECUTING" THEN runs[t] + 1
                  ELSE runs[t]

LEMMA RestartRows == TypeOK /\ CancelForRestart /\ UNCHANGED runs => \A t \in Tickets : RowStep(t)
BY DEF CancelForRestart, AfterRestart, RowStep, Moves, TypeOK, Terminal

\* Every step moves every row along Moves, and counts an execution exactly when a
\* row leaves APPROVED for EXECUTING.
LEMMA EveryRowSteps == TypeOK /\ [Next]_vars => \A t \in Tickets : RowStep(t)
<1> SUFFICES ASSUME TypeOK, [Next]_vars, NEW u \in Tickets PROVE RowStep(u)
    OBVIOUS
<1> USE DEF RowStep, Moves, Terminal
<1>0. /\ state \in [Tickets -> States] /\ runs \in [Tickets -> Nat]
      /\ \A c \in Calls : call[c].pc # "idle" => call[c].ticket \in Tickets
  BY DEF TypeOK
<1>1. ASSUME NEW s \in Sessions, NEW k \in Kinds, NEW redacted \in BOOLEAN, NEW t \in Tickets,
             Request(s, k, redacted, t)
      PROVE  RowStep(u)
  <2> DEFINE stale == {x \in Reusable(s, k) : x = Newest(Reusable(s, k)) /\ x \in overdue}
  <2>1. \A x \in stale : state[x] \in {"PENDING", "APPROVED"}
    BY DEF Reusable
  <2>2. /\ state[t] = "NONE"
        /\ state'[u] = IF u = t THEN "PENDING" ELSE IF u \in stale THEN "EXPIRED" ELSE state[u]
        /\ runs' = runs
    BY <1>1 DEF Request
  <2> HIDE DEF stale
  <2>3. QED
    BY <2>1, <2>2
<1>2. ASSUME NEW t \in Tickets, EndFastWait(t) \/ Lapse(t) \/ Status(t) \/ Deny(t) \/ Drift(t)
      PROVE  RowStep(u)
  BY <1>0, <1>2 DEF EndFastWait, Lapse, Status, Deny, Drift, ticketVars
<1>3. ASSUME NEW t \in Tickets, NEW s \in Sessions, Cancel(s, t) PROVE RowStep(u)
  BY <1>0, <1>3 DEF Cancel
<1>4. ASSUME NEW t \in Tickets, NEW scope \in {"once", "connection"}, Approve(t, scope)
       PROVE  RowStep(u)
  BY <1>0, <1>4 DEF Approve
<1>5. CASE ClearHistory
  BY <1>0, <1>5 DEF ClearHistory
<1>6. ASSUME NEW c \in Calls,
             ResumeCheck(c) \/ \E s \in Sessions, t \in Tickets : ResumeBegin(c, s, t)
      PROVE  RowStep(u)
  BY <1>6 DEF ResumeBegin, ResumeCheck, ticketVars
<1>7. ASSUME NEW c \in Calls, ResumeClaim(c) PROVE RowStep(u)
  BY <1>0, <1>7 DEF ResumeClaim, Claimable
<1>8. ASSUME NEW c \in Calls, NEW outcome \in {"SUCCEEDED", "FAILED"},
             ResumeReject(c) \/ ResumeFailClaim(c) \/ ResumeLose(c) \/ ResumeFinish(c, outcome)
      PROVE  RowStep(u)
  <2>1. CASE ResumeReject(c)
    BY <1>0, <2>1 DEF ResumeReject, Invalidates
  <2>2. CASE ResumeFailClaim(c)
    BY <1>0, <2>2 DEF ResumeFailClaim, Claimable
  <2>3. CASE ResumeLose(c)
    BY <1>0, <2>3 DEF ResumeLose
  <2>4. CASE ResumeFinish(c, outcome)
    BY <1>0, <2>4 DEF ResumeFinish
  <2>5. QED
    BY <1>8, <2>1, <2>2, <2>3, <2>4
<1>9. ASSUME NEW s \in Sessions,
             EndSession(s) \/ AutoAdmit(s) \/ \E resumed \in BOOLEAN : OpenSession(s, resumed)
      PROVE  RowStep(u)
  BY <1>9 DEF EndSession, AutoAdmit, OpenSession, ticketVars
<1>10. ASSUME NEW k \in Connections,
             AdminGrant(k) \/ RemoveGrant(k) \/ RevokeHostGrant(k) \/ RevokeConnection(k)
      PROVE  RowStep(u)
  BY <1>10 DEF AdminGrant, RemoveGrant, RevokeHostGrant, RevokeConnection, ticketVars
<1>11. CASE Restart \/ \E t \in Tickets : RestartInApprove(t)
  BY <1>11, RestartRows DEF Restart, RestartInApprove
<1>12. CASE UNCHANGED vars
  BY <1>12 DEF vars, ticketVars
<1>13. QED
  BY <1>1, <1>2, <1>3, <1>4, <1>5, <1>6, <1>7, <1>8, <1>9, <1>10, <1>11, <1>12
  DEF Next

-----------------------------------------------------------------------------
(* At most one execution, and outcomes that stay *)

\* A ticket that may still be claimed has not run.
RunsMatchState ==
    \A t \in Tickets : /\ runs[t] <= 1
                       /\ state[t] \in {"NONE", "PENDING", "APPROVED"} => runs[t] = 0

LEMMA RunsInductive ==
    ASSUME TypeOK, RunsMatchState, [Next]_vars
    PROVE  RunsMatchState'
<1> SUFFICES ASSUME NEW t \in Tickets
             PROVE  /\ runs'[t] <= 1
                    /\ state'[t] \in {"NONE", "PENDING", "APPROVED"} => runs'[t] = 0
    BY DEF RunsMatchState
<1>1. RowStep(t) /\ runs[t] <= 1 /\ state[t] \in States
      /\ (state[t] \in {"NONE", "PENDING", "APPROVED"} => runs[t] = 0)
  BY EveryRowSteps DEF RunsMatchState, TypeOK
<1>2. QED
  BY <1>1 DEF RowStep, Moves, States, Terminal

\* No ticket is executed twice, for any number of callers, waits and restarts.
THEOREM AtMostOnce == Spec => []AtMostOneExecution
<1>1. Init => RunsMatchState
  BY DEF Init, RunsMatchState
<1>2. RunsMatchState => AtMostOneExecution
  BY DEF RunsMatchState, AtMostOneExecution
<1>3. QED
  BY <1>1, <1>2, TypeCorrect, RunsInductive, PTL DEF Spec

\* A row that reached an outcome keeps it until clearHistory deletes the row.
THEOREM OutcomesStay == Spec => OutcomeIsFinal
<1>1. TypeOK /\ [Next]_vars =>
        [\A t \in Tickets : state[t] \in Terminal => state'[t] \in {state[t], "CLEARED"}]_vars
  BY EveryRowSteps DEF RowStep, Moves, Terminal
<1>2. QED
  BY <1>1, TypeCorrect, PTL DEF Spec, OutcomeIsFinal

-----------------------------------------------------------------------------
(* Who executes *)

\* The session that resumes is one the ticket answers to, and the one that asked
\* where the operator decided for that session only.
Entitled(s, t) == /\ Owns(s, t)
                  /\ kind[t] = "admission" /\ decisionScope[t] # "connection" => s = owner[t]

\* A call under way works on a decided ticket, and a call whose revalidation
\* succeeded, or that executes, is entitled to it.
CallsEntitled ==
    \A c \in Calls : call[c].pc # "idle" =>
        /\ state[call[c].ticket] \notin {"NONE", "PENDING"}
        /\ call[c].pc = "executing" => call[c].verdict = "ok"
        /\ call[c].verdict = "ok" => Entitled(call[c].session, call[c].ticket)

ExecutionInv == ExecutingHasOneCall /\ CallsEntitled

\* What a ticket froze, and the operator's decision, never change once decided.
Frozen(t) == state[t] \notin {"NONE", "PENDING"} =>
                /\ state'[t] \notin {"NONE", "PENDING"}
                /\ kind'[t] = kind[t] /\ owner'[t] = owner[t]
                /\ decisionScope'[t] = decisionScope[t]

LEMMA FrozenStays == TypeOK /\ [Next]_vars => \A t \in Tickets : Frozen(t)
<1> SUFFICES ASSUME TypeOK, [Next]_vars, NEW u \in Tickets, state[u] \notin {"NONE", "PENDING"}
             PROVE  /\ state'[u] \notin {"NONE", "PENDING"}
                    /\ kind'[u] = kind[u] /\ owner'[u] = owner[u]
                    /\ decisionScope'[u] = decisionScope[u]
    BY DEF Frozen
<1>1. state'[u] \notin {"NONE", "PENDING"}
  BY EveryRowSteps DEF RowStep, Moves, TypeOK, States, Terminal
<1>2. /\ kind \in [Tickets -> AllKinds] /\ owner \in [Tickets -> Sessions \cup {"none"}]
      /\ decisionScope \in [Tickets -> {"none", "once", "connection"}]
  BY DEF TypeOK
<1>3. ASSUME NEW s \in Sessions, NEW k \in Kinds, NEW redacted \in BOOLEAN, NEW t \in Tickets,
             Request(s, k, redacted, t)
      PROVE  kind'[u] = kind[u] /\ owner'[u] = owner[u] /\ decisionScope'[u] = decisionScope[u]
  BY <1>2, <1>3 DEF Request
<1>4. ASSUME NEW t \in Tickets, NEW scope \in {"once", "connection"}, Approve(t, scope)
      PROVE  kind'[u] = kind[u] /\ owner'[u] = owner[u] /\ decisionScope'[u] = decisionScope[u]
  BY <1>2, <1>4 DEF Approve
<1>5. ASSUME NEW t \in Tickets,
             \/ EndFastWait(t) \/ Lapse(t) \/ Status(t) \/ Deny(t) \/ Drift(t)
             \/ RestartInApprove(t) \/ \E s \in Sessions : Cancel(s, t)
      PROVE  UNCHANGED <<kind, owner, decisionScope>>
  BY <1>5 DEF EndFastWait, Lapse, Status, Deny, Drift, RestartInApprove, Cancel, ticketVars
<1>6. ASSUME NEW c \in Calls,
             \/ ResumeCheck(c) \/ ResumeReject(c) \/ ResumeClaim(c) \/ ResumeFailClaim(c)
             \/ ResumeLose(c) \/ \E outcome \in {"SUCCEEDED", "FAILED"} : ResumeFinish(c, outcome)
             \/ \E s \in Sessions, t \in Tickets : ResumeBegin(c, s, t)
      PROVE  UNCHANGED <<kind, owner, decisionScope>>
  BY <1>6 DEF ResumeBegin, ResumeCheck, ResumeReject, ResumeClaim, ResumeFailClaim, ResumeLose,
              ResumeFinish, ticketVars
<1>7. ASSUME NEW s \in Sessions,
             EndSession(s) \/ AutoAdmit(s) \/ \E resumed \in BOOLEAN : OpenSession(s, resumed)
      PROVE  UNCHANGED <<kind, owner, decisionScope>>
  BY <1>7 DEF EndSession, AutoAdmit, OpenSession, ticketVars
<1>8. ASSUME NEW k \in Connections,
             AdminGrant(k) \/ RemoveGrant(k) \/ RevokeHostGrant(k) \/ RevokeConnection(k)
      PROVE  UNCHANGED <<kind, owner, decisionScope>>
  BY <1>8 DEF AdminGrant, RemoveGrant, RevokeHostGrant, RevokeConnection, ticketVars
<1>9. ASSUME ClearHistory \/ Restart \/ UNCHANGED vars
      PROVE  UNCHANGED <<kind, owner, decisionScope>>
  BY <1>9 DEF ClearHistory, Restart, vars, ticketVars
<1>10. QED
  BY <1>1, <1>3, <1>4, <1>5, <1>6, <1>7, <1>8, <1>9 DEF Next

\* A step that leaves the calls alone, and no row enters or leaves EXECUTING.
LEMMA CallsUntouched ==
    ASSUME TypeOK, ExecutionInv, \A t \in Tickets : Frozen(t), UNCHANGED call,
           \A t \in Tickets : state[t] = "EXECUTING" <=> state'[t] = "EXECUTING"
    PROVE  ExecutionInv'
BY DEF TypeOK, ExecutionInv, ExecutingHasOneCall, Executes, CallsEntitled, Entitled, Owns,
       SameConnection, ConnectionOf, Frozen

\* A call that was not executing ends, and no row enters or leaves EXECUTING.
LEMMA CallEnds ==
    ASSUME TypeOK, ExecutionInv, \A t \in Tickets : Frozen(t), NEW c \in Calls, Idles(c),
           call[c].pc # "executing",
           \A t \in Tickets : state[t] = "EXECUTING" <=> state'[t] = "EXECUTING"
    PROVE  ExecutionInv'
<1>1. \A d \in Calls : call'[d] = IF d = c THEN Idle ELSE call[d]
  BY DEF Idles, TypeOK
<1>2. Idle.pc = "idle"
  BY DEF Idle
<1>3. ExecutingHasOneCall'
  BY <1>1, <1>2 DEF ExecutionInv, ExecutingHasOneCall, Executes
<1>4. CallsEntitled'
  BY <1>1, <1>2 DEF TypeOK, ExecutionInv, CallsEntitled, Entitled, Owns, SameConnection,
     ConnectionOf, Frozen
<1>5. QED
  BY <1>3, <1>4 DEF ExecutionInv

\* A restart leaves no call and no executing row.
LEMMA RestartEnds ==
    ASSUME TypeOK, LoseMemory, CancelForRestart
    PROVE  ExecutionInv'
<1>1. \A c \in Calls : call'[c].pc = "idle"
  BY DEF LoseMemory, Idle
<1>2. \A t \in Tickets : state'[t] # "EXECUTING"
  BY DEF CancelForRestart, AfterRestart
<1>3. QED
  BY <1>1, <1>2 DEF ExecutionInv, ExecutingHasOneCall, Executes, CallsEntitled

LEMMA ExecutionInductive ==
    ASSUME TypeOK, ExecutionInv, [Next]_vars
    PROVE  ExecutionInv'
<1>1. \A t \in Tickets : Frozen(t)
  BY FrozenStays
<1>2. /\ state \in [Tickets -> States] /\ call \in [Calls -> CallRecords]
      /\ \A c \in Calls : call[c].pc # "idle" => call[c].ticket \in Tickets
  BY DEF TypeOK
<1>3. ASSUME NEW s \in Sessions, NEW k \in Kinds, NEW redacted \in BOOLEAN, NEW t \in Tickets,
             Request(s, k, redacted, t)
      PROVE  ExecutionInv'
  <2>1. UNCHANGED call /\ \A u \in Tickets : state[u] = "EXECUTING" <=> state'[u] = "EXECUTING"
    BY <1>3 DEF Request, Reusable
  <2>2. QED
    BY <1>1, <2>1, CallsUntouched
<1>4. ASSUME NEW t \in Tickets, EndFastWait(t) \/ Lapse(t) \/ Status(t) \/ Deny(t) \/ Drift(t)
      PROVE  ExecutionInv'
  <2>1. UNCHANGED call /\ \A u \in Tickets : state[u] = "EXECUTING" <=> state'[u] = "EXECUTING"
    BY <1>2, <1>4 DEF EndFastWait, Lapse, Status, Deny, Drift, ticketVars
  <2>2. QED
    BY <1>1, <2>1, CallsUntouched
<1>5. ASSUME NEW t \in Tickets, \/ \E s \in Sessions : Cancel(s, t)
                                \/ \E scope \in {"once", "connection"} : Approve(t, scope)
      PROVE  ExecutionInv'
  <2>1. UNCHANGED call /\ \A u \in Tickets : state[u] = "EXECUTING" <=> state'[u] = "EXECUTING"
    BY <1>2, <1>5 DEF Cancel, Approve
  <2>2. QED
    BY <1>1, <2>1, CallsUntouched
<1>6. CASE ClearHistory
  <2>1. UNCHANGED call /\ \A u \in Tickets : state[u] = "EXECUTING" <=> state'[u] = "EXECUTING"
    BY <1>2, <1>6 DEF ClearHistory, Terminal
  <2>2. QED
    BY <1>1, <2>1, CallsUntouched
<1>7. ASSUME NEW c \in Calls, NEW s \in Sessions, NEW t \in Tickets, ResumeBegin(c, s, t)
      PROVE  ExecutionInv'
  <2>1. /\ call[c].pc = "idle" /\ state[t] = "APPROVED" /\ UNCHANGED <<state, kind, owner, decisionScope>>
        /\ \A d \in Calls \ {c} : call'[d] = call[d]
        /\ call'[c].pc \in {"validating", "validated"} /\ call'[c].ticket = t
        /\ call'[c].session = s /\ call'[c].verdict = FirstVerdict(s, t)
        /\ kind[t] # "hostGrant" /\ (kind[t] = "hostAction" => SameConnection(s, t))
    BY <1>2, <1>7 DEF ResumeBegin, ticketVars
  <2>2. kind[t] \in AllKinds
    BY DEF TypeOK
  <2>3. FirstVerdict(s, t) = "ok" => Entitled(s, t)
    BY <2>1, <2>2 DEF FirstVerdict, AdmissionVerdict, OperationVerdict, Entitled, Owns, AllKinds
  <2>4. CallsEntitled'
    BY <2>1, <2>3 DEF ExecutionInv, CallsEntitled, Entitled, Owns, SameConnection, ConnectionOf
  <2>5. ExecutingHasOneCall'
    BY <2>1 DEF ExecutionInv, ExecutingHasOneCall, Executes
  <2>6. QED
    BY <2>4, <2>5 DEF ExecutionInv
<1>8. ASSUME NEW c \in Calls, ResumeCheck(c) PROVE ExecutionInv'
  <2>1. /\ UNCHANGED <<state, kind, owner, decisionScope>>
        /\ \A d \in Calls \ {c} : call'[d] = call[d]
        /\ call[c].pc = "validating" /\ call'[c].pc = "validated"
        /\ call'[c].ticket = call[c].ticket /\ call'[c].session = call[c].session
        /\ call'[c].verdict = "ok" => call[c].verdict = "ok"
    BY <1>2, <1>8 DEF ResumeCheck, CallAt, ticketVars
  <2>2. CallsEntitled'
    BY <2>1 DEF ExecutionInv, CallsEntitled, Entitled, Owns, SameConnection, ConnectionOf
  <2>3. ExecutingHasOneCall'
    BY <2>1 DEF ExecutionInv, ExecutingHasOneCall, Executes
  <2>4. QED
    BY <2>2, <2>3 DEF ExecutionInv
<1>9. ASSUME NEW c \in Calls, ResumeClaim(c) PROVE ExecutionInv'
  <2>1. /\ call[c].pc = "validated" /\ call[c].verdict = "ok" /\ call[c].ticket \in Tickets
        /\ state[call[c].ticket] = "APPROVED"
        /\ \A u \in Tickets : state'[u] = IF u = call[c].ticket THEN "EXECUTING" ELSE state[u]
        /\ \A d \in Calls \ {c} : call'[d] = call[d]
        /\ call'[c].pc = "executing" /\ call'[c].verdict = "ok"
        /\ call'[c].ticket = call[c].ticket /\ call'[c].session = call[c].session
        /\ UNCHANGED <<kind, owner, decisionScope>>
    BY <1>2, <1>9 DEF ResumeClaim, Claimable, CallAt
  <2>2. CallsEntitled'
    BY <1>2, <2>1 DEF ExecutionInv, CallsEntitled, Entitled, Owns, SameConnection, ConnectionOf
  <2>3. ExecutingHasOneCall'
    BY <2>1 DEF ExecutionInv, ExecutingHasOneCall, Executes
  <2>4. QED
    BY <2>2, <2>3 DEF ExecutionInv
<1>10. ASSUME NEW c \in Calls, ResumeReject(c) \/ ResumeFailClaim(c) \/ ResumeLose(c)
       PROVE  ExecutionInv'
  <2>1. Idles(c) /\ call[c].pc = "validated"
    BY <1>10 DEF ResumeReject, ResumeFailClaim, ResumeLose
  <2>2. \A u \in Tickets : state[u] = "EXECUTING" <=> state'[u] = "EXECUTING"
    <3>1. CASE ResumeReject(c)
      BY <1>2, <3>1 DEF ResumeReject, Invalidates
    <3>2. CASE ResumeFailClaim(c)
      BY <1>2, <3>2 DEF ResumeFailClaim, Claimable
    <3>3. CASE ResumeLose(c)
      BY <1>2, <3>3 DEF ResumeLose
    <3>4. QED
      BY <1>10, <3>1, <3>2, <3>3
  <2>3. QED
    BY <1>1, <2>1, <2>2, CallEnds
<1>11. ASSUME NEW c \in Calls, NEW outcome \in {"SUCCEEDED", "FAILED"}, ResumeFinish(c, outcome)
       PROVE  ExecutionInv'
  <2>1. /\ call[c].pc = "executing" /\ call[c].ticket \in Tickets
        /\ \A d \in Calls : call'[d] = IF d = c THEN Idle ELSE call[d]
        /\ UNCHANGED <<kind, owner, decisionScope>>
    BY <1>2, <1>11 DEF ResumeFinish, Idles
  <2>2. state[call[c].ticket] = "EXECUTING"
    BY <2>1 DEF ExecutionInv, ExecutingHasOneCall, Executes
  <2>3. \A u \in Tickets : state'[u] = IF u = call[c].ticket THEN outcome ELSE state[u]
    BY <1>2, <1>11, <2>2 DEF ResumeFinish
  <2>4. Idle.pc = "idle"
    BY DEF Idle
  <2>5. CallsEntitled'
    BY <1>1, <1>2, <2>1, <2>3, <2>4
       DEF ExecutionInv, CallsEntitled, Entitled, Owns, SameConnection, ConnectionOf, Frozen
  <2>6. ExecutingHasOneCall'
    BY <2>1, <2>3, <2>4 DEF ExecutionInv, ExecutingHasOneCall, Executes
  <2>7. QED
    BY <2>5, <2>6 DEF ExecutionInv
<1>12. ASSUME NEW s \in Sessions,
              EndSession(s) \/ AutoAdmit(s) \/ \E resumed \in BOOLEAN : OpenSession(s, resumed)
       PROVE  ExecutionInv'
  <2>1. UNCHANGED <<call, state>>
    BY <1>12 DEF EndSession, AutoAdmit, OpenSession, ticketVars
  <2>2. QED
    BY <1>1, <2>1, CallsUntouched
<1>13. ASSUME NEW k \in Connections,
              AdminGrant(k) \/ RemoveGrant(k) \/ RevokeHostGrant(k) \/ RevokeConnection(k)
       PROVE  ExecutionInv'
  <2>1. UNCHANGED <<call, state>>
    BY <1>13 DEF AdminGrant, RemoveGrant, RevokeHostGrant, RevokeConnection, ticketVars
  <2>2. QED
    BY <1>1, <2>1, CallsUntouched
<1>14. CASE Restart \/ \E t \in Tickets : RestartInApprove(t)
  BY <1>14, RestartEnds DEF Restart, RestartInApprove
<1>15. CASE UNCHANGED vars
  BY <1>1, <1>15, CallsUntouched DEF vars, ticketVars
<1>16. QED
  BY <1>3, <1>4, <1>5, <1>6, <1>7, <1>8, <1>9, <1>10, <1>11, <1>12, <1>13, <1>14, <1>15 DEF Next

LEMMA ExecutionCorrect == Spec => []ExecutionInv
<1>1. Init => ExecutionInv
  BY DEF Init, Idle, ExecutionInv, ExecutingHasOneCall, Executes, CallsEntitled
<1>2. QED
  BY <1>1, TypeCorrect, ExecutionInductive, PTL DEF Spec

\* A row is EXECUTING exactly while one call executes it.
THEOREM OneExecutor == Spec => []ExecutingHasOneCall
BY ExecutionCorrect, PTL DEF ExecutionInv

\* Whoever executes a ticket is someone it answers to.
THEOREM OwnerExecutes == Spec => []ExecutesForOwner
<1>1. ExecutionInv => ExecutesForOwner
  BY DEF ExecutionInv, CallsEntitled, Entitled, ExecutesForOwner
<1>2. QED
  BY <1>1, ExecutionCorrect, PTL

-----------------------------------------------------------------------------
(* Who invalidates, and with what authority an operation starts *)

\* A verdict that lets the caller touch the row.
Touches(verdict) == verdict \in {"ok", "changed"}

\* No call resumes a host grant, and a call that may touch the row, to claim it or
\* to invalidate it, is one the ticket answers to.
CallersOwn ==
    \A c \in Calls : call[c].pc # "idle" =>
        /\ kind[call[c].ticket] # "hostGrant"
        /\ Touches(call[c].verdict) => Owns(call[c].session, call[c].ticket)

CallersInv == ExecutionInv /\ CallersOwn

\* A call begins, goes on with its ticket and its session, or is over.
Begins(c) ==
    /\ state[call'[c].ticket] = "APPROVED" /\ kind[call'[c].ticket] # "hostGrant"
    /\ call'[c].ticket \in Tickets
    /\ Touches(call'[c].verdict) => Owns(call'[c].session, call'[c].ticket)

GoesOn(c) ==
    /\ call[c].pc # "idle"
    /\ call'[c].ticket = call[c].ticket /\ call'[c].session = call[c].session
    /\ Touches(call'[c].verdict) => Touches(call[c].verdict)

LEMMA BeginnerOwns ==
    ASSUME TypeOK, NEW c \in Calls, NEW s \in Sessions, NEW t \in Tickets, ResumeBegin(c, s, t)
    PROVE  Begins(c)
<1>1. /\ state[t] = "APPROVED" /\ kind[t] # "hostGrant"
      /\ kind[t] = "hostAction" => SameConnection(s, t)
      /\ call'[c].ticket = t /\ call'[c].session = s /\ call'[c].verdict = FirstVerdict(s, t)
  BY DEF ResumeBegin, TypeOK
<1>2. kind[t] \in AllKinds
  BY DEF TypeOK
<1>3. Touches(FirstVerdict(s, t)) => Owns(s, t)
  BY <1>1, <1>2 DEF Touches, FirstVerdict, AdmissionVerdict, OperationVerdict, Owns, AllKinds
<1>4. QED
  BY <1>1, <1>3 DEF Begins

LEMMA EveryCallSteps ==
    ASSUME TypeOK, [Next]_vars, NEW d \in Calls
    PROVE  call'[d].pc = "idle" \/ GoesOn(d) \/ Begins(d)
<1>0. call \in [Calls -> CallRecords] /\ Idle.pc = "idle"
  BY DEF TypeOK, Idle
<1>1. UNCHANGED call => call'[d].pc = "idle" \/ GoesOn(d)
  BY DEF GoesOn
<1>2. ASSUME NEW c \in Calls, NEW s \in Sessions, NEW t \in Tickets, ResumeBegin(c, s, t)
      PROVE  call'[d].pc = "idle" \/ GoesOn(d) \/ Begins(d)
  <2>1. CASE d = c
    BY <1>2, <2>1, BeginnerOwns
  <2>2. CASE d # c
    BY <1>0, <1>2, <2>2 DEF ResumeBegin, GoesOn
  <2>3. QED
    BY <2>1, <2>2
<1>3. ASSUME NEW c \in Calls, ResumeCheck(c) \/ ResumeClaim(c)
      PROVE  call'[d].pc = "idle" \/ GoesOn(d)
  BY <1>0, <1>3 DEF ResumeCheck, ResumeClaim, CallAt, GoesOn, Touches
<1>4. ASSUME NEW c \in Calls, \/ ResumeReject(c) \/ ResumeFailClaim(c) \/ ResumeLose(c)
                              \/ \E outcome \in {"SUCCEEDED", "FAILED"} : ResumeFinish(c, outcome)
      PROVE  call'[d].pc = "idle" \/ GoesOn(d)
  <2>1. call' = [call EXCEPT ![c] = Idle]
    BY <1>4 DEF ResumeReject, ResumeFailClaim, ResumeLose, ResumeFinish, Idles
  <2>2. QED
    BY <1>0, <2>1 DEF GoesOn
<1>5. ASSUME NEW s \in Sessions, NEW k \in Kinds, NEW redacted \in BOOLEAN, NEW t \in Tickets,
             Request(s, k, redacted, t)
      PROVE  UNCHANGED call
  BY <1>5 DEF Request
<1>6. ASSUME NEW t \in Tickets,
             \/ EndFastWait(t) \/ Lapse(t) \/ Status(t) \/ Deny(t) \/ Drift(t)
             \/ \E scope \in {"once", "connection"} : Approve(t, scope)
             \/ \E s \in Sessions : Cancel(s, t)
      PROVE  UNCHANGED call
  BY <1>6 DEF EndFastWait, Lapse, Status, Deny, Drift, Approve, Cancel
<1>7. ASSUME NEW s \in Sessions,
             EndSession(s) \/ AutoAdmit(s) \/ \E resumed \in BOOLEAN : OpenSession(s, resumed)
      PROVE  UNCHANGED call
  BY <1>7 DEF EndSession, AutoAdmit, OpenSession
<1>8. ASSUME NEW k \in Connections,
             AdminGrant(k) \/ RemoveGrant(k) \/ RevokeHostGrant(k) \/ RevokeConnection(k)
      PROVE  UNCHANGED call
  BY <1>8 DEF AdminGrant, RemoveGrant, RevokeHostGrant, RevokeConnection
<1>9. ASSUME ClearHistory \/ UNCHANGED vars PROVE UNCHANGED call
  BY <1>9 DEF ClearHistory, vars
<1>10. ASSUME Restart \/ \E t \in Tickets : RestartInApprove(t) PROVE call'[d].pc = "idle"
  BY <1>0, <1>10 DEF Restart, RestartInApprove, LoseMemory
<1>11. QED
  BY <1>1, <1>2, <1>3, <1>4, <1>5, <1>6, <1>7, <1>8, <1>9, <1>10 DEF Next

LEMMA CallersInductive ==
    ASSUME TypeOK, CallersInv, [Next]_vars
    PROVE  CallersInv'
<1>1. ExecutionInv'
  BY ExecutionInductive DEF CallersInv
<1>2. ASSUME NEW c \in Calls, call'[c].pc # "idle"
      PROVE  /\ (kind[call[c].ticket] # "hostGrant")'
             /\ Touches(call[c].verdict)' => Owns(call[c].session, call[c].ticket)'
  <2>1. GoesOn(c) \/ Begins(c)
    BY <1>2, EveryCallSteps
  <2>2. /\ call'[c].ticket \in Tickets
        /\ state[call'[c].ticket] \notin {"NONE", "PENDING"}
        /\ kind[call'[c].ticket] # "hostGrant"
        /\ Touches(call'[c].verdict) => Owns(call'[c].session, call'[c].ticket)
    BY <2>1 DEF GoesOn, Begins, CallersInv, CallersOwn, ExecutionInv, CallsEntitled, TypeOK
  <2>3. kind'[call'[c].ticket] = kind[call'[c].ticket]
        /\ owner'[call'[c].ticket] = owner[call'[c].ticket]
    BY <2>2, FrozenStays DEF Frozen
  <2>4. QED
    BY <2>2, <2>3 DEF Owns, SameConnection, ConnectionOf
<1>3. QED
  BY <1>1, <1>2 DEF CallersInv, CallersOwn

LEMMA CallersCorrect == Spec => []CallersInv
<1>1. Init => CallersOwn
  BY DEF Init, Idle, CallersOwn
<1>2. TypeOK /\ CallersInv /\ [Next]_vars => CallersInv'
  BY CallersInductive
<1>3. Init => ExecutionInv
  BY DEF Init, Idle, ExecutionInv, ExecutingHasOneCall, Executes, CallsEntitled
<1>4. QED
  BY <1>1, <1>2, <1>3, TypeCorrect, PTL DEF Spec, CallersInv

\* Only the failed revalidation of a resume call invalidates a row.
LEMMA OnlyRejectInvalidates ==
    ASSUME TypeOK, [Next]_vars, NEW u \in Tickets,
           state[u] = "APPROVED", state'[u] = "CONTEXT_CHANGED"
    PROVE  \E c \in Calls : ResumeReject(c) /\ Invalidates(c) /\ call[c].ticket = u
<1>0. state \in [Tickets -> States]
  BY DEF TypeOK
<1> USE DEF Terminal
<1>1. ASSUME NEW s \in Sessions, NEW k \in Kinds, NEW redacted \in BOOLEAN, NEW t \in Tickets,
             Request(s, k, redacted, t)
      PROVE  FALSE
  BY <1>0, <1>1 DEF Request
<1>2. ASSUME NEW t \in Tickets,
             \/ EndFastWait(t) \/ Lapse(t) \/ Status(t) \/ Deny(t) \/ Drift(t)
             \/ \E scope \in {"once", "connection"} : Approve(t, scope)
             \/ \E s \in Sessions : Cancel(s, t)
      PROVE  FALSE
  BY <1>0, <1>2 DEF EndFastWait, Lapse, Status, Deny, Drift, Approve, Cancel, ticketVars
<1>3. CASE ClearHistory
  BY <1>0, <1>3 DEF ClearHistory
<1>4. ASSUME NEW c \in Calls,
             ResumeCheck(c) \/ \E s \in Sessions, t \in Tickets : ResumeBegin(c, s, t)
      PROVE  FALSE
  BY <1>4 DEF ResumeBegin, ResumeCheck, ticketVars
<1>5. ASSUME NEW c \in Calls, ResumeClaim(c) \/ ResumeFailClaim(c) PROVE FALSE
  BY <1>0, <1>5 DEF ResumeClaim, ResumeFailClaim
<1>6. ASSUME NEW c \in Calls, ResumeLose(c) PROVE FALSE
  BY <1>0, <1>6 DEF ResumeLose
<1>7. ASSUME NEW c \in Calls, NEW outcome \in {"SUCCEEDED", "FAILED"}, ResumeFinish(c, outcome)
      PROVE  FALSE
  BY <1>0, <1>7 DEF ResumeFinish
<1>8. ASSUME NEW c \in Calls, ResumeReject(c)
      PROVE  Invalidates(c) /\ call[c].ticket = u
  BY <1>0, <1>8 DEF ResumeReject
<1>9. ASSUME NEW s \in Sessions,
             EndSession(s) \/ AutoAdmit(s) \/ \E resumed \in BOOLEAN : OpenSession(s, resumed)
      PROVE  FALSE
  BY <1>9 DEF EndSession, AutoAdmit, OpenSession, ticketVars
<1>10. ASSUME NEW k \in Connections,
             AdminGrant(k) \/ RemoveGrant(k) \/ RevokeHostGrant(k) \/ RevokeConnection(k)
      PROVE  FALSE
  BY <1>10 DEF AdminGrant, RemoveGrant, RevokeHostGrant, RevokeConnection, ticketVars
<1>11. CASE Restart \/ \E t \in Tickets : RestartInApprove(t)
  BY <1>11 DEF Restart, RestartInApprove, CancelForRestart, AfterRestart
<1>12. CASE UNCHANGED vars
  BY <1>12 DEF vars, ticketVars
<1>13. QED
  BY <1>1, <1>2, <1>3, <1>4, <1>5, <1>6, <1>7, <1>8, <1>9, <1>10, <1>11, <1>12 DEF Next

\* A caller the ticket does not answer to never invalidates it.
THEOREM OwnersInvalidate == Spec => NoForeignInvalidation
<1>1. ASSUME TypeOK, CallersInv, [Next]_vars, NEW t \in Tickets,
             state[t] = "APPROVED", state'[t] = "CONTEXT_CHANGED"
      PROVE  \E c \in Calls : /\ call[c].ticket = t /\ call'[c].pc = "idle"
                              /\ Owns(call[c].session, t)
  <2>1. PICK c \in Calls : ResumeReject(c) /\ Invalidates(c) /\ call[c].ticket = t
    BY <1>1, OnlyRejectInvalidates
  <2>2. call' = [call EXCEPT ![c] = Idle] /\ call[c].pc # "idle" /\ call[c].verdict = "changed"
    BY <2>1 DEF ResumeReject, Idles, Invalidates
  <2>3. call'[c].pc = "idle"
    BY <1>1, <2>2 DEF Idle, TypeOK
  <2>4. Owns(call[c].session, t)
    BY <1>1, <2>1, <2>2 DEF CallersInv, CallersOwn, Touches
  <2>5. QED
    BY <2>1, <2>3, <2>4
<1>2. TypeOK /\ CallersInv /\ [Next]_vars =>
        [\A t \in Tickets : state[t] = "APPROVED" /\ state'[t] = "CONTEXT_CHANGED" =>
            \E c \in Calls : /\ call[c].ticket = t /\ call'[c].pc = "idle"
                             /\ Owns(call[c].session, t)]_vars
  BY <1>1
<1>3. QED
  BY <1>2, TypeCorrect, CallersCorrect, PTL DEF Spec, NoForeignInvalidation

\* The authority an operation of a kind needs.
Authority(s, t) ==
    CASE kind[t] = "hostAction" -> HasHostControl(s)
      [] kind[t] = "admission"  -> TRUE
      [] kind[t] = "capability" -> s \in lease
      [] OTHER -> session[s] = "live" /\ s \in lease

\* Only the claim makes a call execute.
LEMMA OnlyClaimExecutes ==
    ASSUME TypeOK, [Next]_vars, NEW d \in Calls,
           call[d].pc # "executing", call'[d].pc = "executing"
    PROVE  ResumeClaim(d)
<1>0. call \in [Calls -> CallRecords] /\ Idle.pc = "idle"
  BY DEF TypeOK, Idle
<1>1. call' # call
  OBVIOUS
<1>2. ASSUME NEW c \in Calls, NEW s \in Sessions, NEW t \in Tickets, ResumeBegin(c, s, t)
      PROVE  FALSE
  BY <1>0, <1>2 DEF ResumeBegin
<1>3. ASSUME NEW c \in Calls, ResumeCheck(c) PROVE FALSE
  BY <1>0, <1>3 DEF ResumeCheck, CallAt
<1>4. ASSUME NEW c \in Calls, ResumeClaim(c) PROVE c = d
  BY <1>0, <1>4 DEF ResumeClaim
<1>5. ASSUME NEW c \in Calls, \/ ResumeReject(c) \/ ResumeFailClaim(c) \/ ResumeLose(c)
                              \/ \E outcome \in {"SUCCEEDED", "FAILED"} : ResumeFinish(c, outcome)
      PROVE  FALSE
  <2>1. call' = [call EXCEPT ![c] = Idle]
    BY <1>5 DEF ResumeReject, ResumeFailClaim, ResumeLose, ResumeFinish, Idles
  <2>2. QED
    BY <1>0, <2>1
<1>6. ASSUME NEW s \in Sessions, NEW k \in Kinds, NEW redacted \in BOOLEAN, NEW t \in Tickets,
             Request(s, k, redacted, t)
      PROVE  FALSE
  BY <1>1, <1>6 DEF Request
<1>7. ASSUME NEW t \in Tickets,
             \/ EndFastWait(t) \/ Lapse(t) \/ Status(t) \/ Deny(t) \/ Drift(t)
             \/ \E scope \in {"once", "connection"} : Approve(t, scope)
             \/ \E s \in Sessions : Cancel(s, t)
      PROVE  FALSE
  BY <1>1, <1>7 DEF EndFastWait, Lapse, Status, Deny, Drift, Approve, Cancel
<1>8. ASSUME NEW s \in Sessions,
             EndSession(s) \/ AutoAdmit(s) \/ \E resumed \in BOOLEAN : OpenSession(s, resumed)
      PROVE  FALSE
  BY <1>1, <1>8 DEF EndSession, AutoAdmit, OpenSession
<1>9. ASSUME NEW k \in Connections,
             AdminGrant(k) \/ RemoveGrant(k) \/ RevokeHostGrant(k) \/ RevokeConnection(k)
      PROVE  FALSE
  BY <1>1, <1>9 DEF AdminGrant, RemoveGrant, RevokeHostGrant, RevokeConnection
<1>10. ASSUME ClearHistory \/ UNCHANGED vars PROVE FALSE
  BY <1>1, <1>10 DEF ClearHistory, vars
<1>11. ASSUME Restart \/ \E t \in Tickets : RestartInApprove(t) PROVE FALSE
  BY <1>0, <1>11 DEF Restart, RestartInApprove, LoseMemory
<1>12. QED
  BY <1>2, <1>3, <1>4, <1>5, <1>6, <1>7, <1>8, <1>9, <1>10, <1>11 DEF Next

\* An operation starts only with the authority of that very moment.
THEOREM AuthorityAtStart == Spec => StartsWithAuthority
<1>1. ASSUME TypeOK, CallersInv, [Next]_vars, NEW c \in Calls,
             call[c].pc # "executing", call'[c].pc = "executing"
      PROVE  Authority(call[c].session, call[c].ticket)
  <2> DEFINE s == call[c].session
             t == call[c].ticket
  <2>1. call[c].pc # "idle" /\ PostClaimOK(s, t)
    BY <1>1, OnlyClaimExecutes DEF ResumeClaim
  <2>2. t \in Tickets /\ kind[t] \in AllKinds
    BY <1>1, <2>1 DEF TypeOK
  <2>3. kind[t] # "hostGrant"
    BY <1>1, <2>1 DEF CallersInv, CallersOwn
  <2> HIDE DEF s, t
  <2>4. OperationVerdict(s, t) = "ok" => session[s] = "live" /\ s \in lease
    BY DEF OperationVerdict
  <2>5. Authority(s, t)
    BY <2>1, <2>2, <2>3, <2>4 DEF PostClaimOK, Authority, AllKinds
  <2>6. QED
    BY <2>5 DEF s, t
<1>2. TypeOK /\ CallersInv /\ [Next]_vars =>
        [\A c \in Calls : call[c].pc # "executing" /\ call'[c].pc = "executing" =>
            LET t == call[c].ticket
                s == call[c].session
            IN  CASE kind[t] = "hostAction" -> HasHostControl(s)
                  [] kind[t] = "admission"  -> TRUE
                  [] kind[t] = "capability" -> s \in lease
                  [] OTHER -> session[s] = "live" /\ s \in lease]_vars
  BY <1>1 DEF Authority
<1>3. QED
  BY <1>2, TypeCorrect, CallersCorrect, PTL DEF Spec, StartsWithAuthority

-----------------------------------------------------------------------------
(* One usable request *)

Usable(t) == state[t] = "PENDING" /\ t \notin overdue

Alike(t, u) == /\ kind[t] = kind[u] /\ kind[t] \in {"admission", "hostGrant"}
               /\ ConnectionOf(t) # NoConn /\ ConnectionOf(t) = ConnectionOf(u)

OpenedInOrder == \A t, u \in Tickets : state[t] = "NONE" /\ t <= u => state[u] = "NONE"

\* A request that can still be decided is the last one opened of its kind by its
\* connection, so whoever asks again finds it first.
UsableIsLast ==
    /\ OpenedInOrder
    /\ \A t, u \in Tickets : Usable(t) /\ state[u] # "NONE" /\ Alike(t, u) => u <= t

\* A step that opens no ticket and gives none more time.
OpensNone ==
    /\ UNCHANGED <<kind, owner>> /\ overdue \subseteq overdue'
    /\ \A t \in Tickets : \/ state'[t] = state[t]
                          \/ state[t] # "NONE" /\ state'[t] \notin {"NONE", "PENDING"}

LEMMA OpensNoneKeeps ==
    ASSUME UsableIsLast, OpensNone
    PROVE  UsableIsLast'
BY DEF UsableIsLast, OpenedInOrder, OpensNone, Usable, Alike, ConnectionOf

\* Whoever finds a usable request finds it first.
LEMMA UsableIsNewest ==
    ASSUME TypeOK, UsableIsLast, NEW s \in Sessions, NEW k \in {"admission", "hostGrant"},
           NEW t \in Reusable(s, k), Usable(t)
    PROVE  Newest(Reusable(s, k)) = t
<1> DEFINE R == Reusable(s, k)
<1>1. \A u \in R : u \in Tickets /\ u <= t
  BY DEF Reusable, UsableIsLast, Alike, SameConnection
<1>2. \A u \in R : u \in Nat
  BY <1>1 DEF Tickets
<1>3. t \in R
  OBVIOUS
<1> HIDE DEF R
<1>4. Newest(R) \in R /\ \A u \in R : u <= Newest(R)
  BY <1>1, <1>3 DEF Newest
<1>5. Newest(R) = t
  BY <1>1, <1>2, <1>3, <1>4
<1>6. QED
  BY <1>5 DEF R

LEMMA RequestKeepsLast ==
    ASSUME TypeOK, UsableIsLast, NEW s \in Sessions, NEW k \in Kinds, NEW redacted \in BOOLEAN,
           NEW new \in Tickets, Request(s, k, redacted, new)
    PROVE  UsableIsLast'
<1> DEFINE R == Reusable(s, k)
           stale == {t \in R : t = Newest(R) /\ t \in overdue}
<1>1. /\ state[new] = "NONE" /\ \A t \in Tickets : t < new => state[t] # "NONE"
      /\ R # {} => stale # {}
      /\ state' = [t \in Tickets |-> IF t = new THEN "PENDING"
                                    ELSE IF t \in stale THEN "EXPIRED" ELSE state[t]]
      /\ kind' = [kind EXCEPT ![new] = k] /\ owner' = [owner EXCEPT ![new] = s]
      /\ overdue' = overdue
  BY DEF Request
<1>2. \A t \in stale : t \in R /\ t = Newest(R) /\ t \in overdue
  OBVIOUS
<1>3. \A t \in R : t \in Tickets /\ state[t] \in {"PENDING", "APPROVED"}
  BY DEF Reusable
<1>4. ASSUME k \in {"admission", "hostGrant"}, ConnOf[s] # NoConn, NEW t \in Tickets,
             kind[t] = k, ConnectionOf(t) = ConnOf[s]
      PROVE  ~Usable(t)
  <2>1. SUFFICES ASSUME Usable(t) PROVE FALSE
    OBVIOUS
  <2>2. t \in R
    BY <1>4, <2>1 DEF Usable, Reusable, SameConnection
  <2>3. Newest(R) = t
    BY <1>4, <2>1, <2>2, UsableIsNewest
  <2>4. QED
    BY <1>1, <1>2, <2>1, <2>2, <2>3 DEF Usable
<1> HIDE DEF R, stale
<1>5. ASSUME NEW t \in Tickets, NEW u \in Tickets, Usable(t)', (state[u] # "NONE")', Alike(t, u)'
      PROVE  u <= t
  <2>0. kind \in [Tickets -> AllKinds] /\ owner \in [Tickets -> Sessions \cup {"none"}]
    BY DEF TypeOK
  <2>1. CASE t = new
    <3>1. CASE u = new
      BY <2>1, <3>1 DEF Tickets
    <3>2. CASE u # new
      <4>1. state[u] # "NONE" /\ u \in Nat /\ new \in Nat
        BY <1>1, <1>3, <1>2, <1>5, <3>2 DEF Tickets
      <4>2. CASE u < new
        BY <2>1, <4>1, <4>2
      <4>3. CASE new < u
        BY <1>1, <4>1, <4>3 DEF UsableIsLast, OpenedInOrder
      <4>4. QED
        BY <3>2, <4>1, <4>2, <4>3
    <3>3. QED
      BY <3>1, <3>2
  <2>2. CASE t # new /\ u = new
    <3>1. Usable(t)
      BY <1>1, <1>5, <2>2 DEF Usable
    <3>2. /\ kind[t] = k /\ k \in {"admission", "hostGrant"} /\ ConnOf[s] # NoConn
          /\ ConnectionOf(t) = ConnOf[s]
      BY <1>1, <1>5, <2>0, <2>2 DEF Alike, ConnectionOf
    <3>3. QED
      BY <1>4, <3>1, <3>2
  <2>3. CASE t # new /\ u # new
    <3>1. Usable(t) /\ state[u] # "NONE" /\ Alike(t, u)
      BY <1>1, <1>2, <1>3, <1>5, <2>0, <2>3 DEF Usable, Alike, ConnectionOf
    <3>2. QED
      BY <3>1 DEF UsableIsLast
  <2>4. QED
    BY <2>1, <2>2, <2>3
<1>6. OpenedInOrder'
  <2>1. ASSUME NEW t \in Tickets, NEW u \in Tickets, state'[t] = "NONE", t <= u
        PROVE  state'[u] = "NONE"
    <3>1. t # new /\ state[t] = "NONE" /\ t \in Nat /\ u \in Nat /\ new \in Nat
      BY <1>1, <2>1 DEF Tickets
    <3>2. state[u] = "NONE" /\ u # new
      BY <1>1, <2>1, <3>1 DEF UsableIsLast, OpenedInOrder
    <3>3. QED
      BY <1>1, <1>2, <1>3, <3>2
  <2>2. QED
    BY <2>1 DEF OpenedInOrder
<1>7. QED
  BY <1>5, <1>6 DEF UsableIsLast

LEMMA LastInductive ==
    ASSUME TypeOK, UsableIsLast, [Next]_vars
    PROVE  UsableIsLast'
<1>0. /\ state \in [Tickets -> States]
      /\ \A c \in Calls : call[c].pc # "idle" => call[c].ticket \in Tickets
  BY DEF TypeOK
<1> USE DEF Terminal
<1>1. ASSUME NEW s \in Sessions, NEW k \in Kinds, NEW redacted \in BOOLEAN, NEW t \in Tickets,
             Request(s, k, redacted, t)
      PROVE  UsableIsLast'
  BY <1>1, RequestKeepsLast
<1>2. ASSUME NEW t \in Tickets,
             \/ EndFastWait(t) \/ Lapse(t) \/ Status(t) \/ Deny(t) \/ Drift(t)
             \/ \E scope \in {"once", "connection"} : Approve(t, scope)
             \/ \E s \in Sessions : Cancel(s, t)
      PROVE  OpensNone
  BY <1>0, <1>2 DEF EndFastWait, Lapse, Status, Deny, Drift, Approve, Cancel, ticketVars, OpensNone
<1>3. ASSUME ClearHistory PROVE OpensNone
  BY <1>0, <1>3 DEF ClearHistory, OpensNone
<1>4. ASSUME NEW c \in Calls,
             ResumeCheck(c) \/ \E s \in Sessions, t \in Tickets : ResumeBegin(c, s, t)
      PROVE  OpensNone
  BY <1>4 DEF ResumeBegin, ResumeCheck, ticketVars, OpensNone
<1>5. ASSUME NEW c \in Calls, ResumeClaim(c) \/ ResumeFailClaim(c) PROVE OpensNone
  BY <1>0, <1>5 DEF ResumeClaim, ResumeFailClaim, Claimable, OpensNone
<1>6. ASSUME NEW c \in Calls, ResumeReject(c) \/ ResumeLose(c) PROVE OpensNone
  BY <1>0, <1>6 DEF ResumeReject, ResumeLose, Invalidates, OpensNone
<1>7. ASSUME NEW c \in Calls, NEW outcome \in {"SUCCEEDED", "FAILED"}, ResumeFinish(c, outcome)
      PROVE  OpensNone
  BY <1>0, <1>7 DEF ResumeFinish, OpensNone
<1>8. ASSUME NEW s \in Sessions,
             EndSession(s) \/ AutoAdmit(s) \/ \E resumed \in BOOLEAN : OpenSession(s, resumed)
      PROVE  OpensNone
  BY <1>8 DEF EndSession, AutoAdmit, OpenSession, ticketVars, OpensNone
<1>9. ASSUME NEW k \in Connections,
             AdminGrant(k) \/ RemoveGrant(k) \/ RevokeHostGrant(k) \/ RevokeConnection(k)
      PROVE  OpensNone
  BY <1>9 DEF AdminGrant, RemoveGrant, RevokeHostGrant, RevokeConnection, ticketVars, OpensNone
<1>10. ASSUME Restart \/ \E t \in Tickets : RestartInApprove(t) PROVE OpensNone
  BY <1>0, <1>10 DEF Restart, RestartInApprove, CancelForRestart, AfterRestart, OpensNone
<1>11. ASSUME UNCHANGED vars PROVE OpensNone
  BY <1>11 DEF vars, ticketVars, OpensNone
<1>12. QED
  BY <1>1, <1>2, <1>3, <1>4, <1>5, <1>6, <1>7, <1>8, <1>9, <1>10, <1>11, OpensNoneKeeps DEF Next

\* The operator is never asked twice by a connection for the same thing while the
\* first request can still be decided.
THEOREM OneRequest == Spec => []OneUsablePendingRequest
<1>1. Init => UsableIsLast
  BY DEF Init, UsableIsLast, OpenedInOrder, Usable
<1>2. UsableIsLast => OneUsablePendingRequest
  <2>1. ASSUME UsableIsLast, NEW t \in Tickets, NEW u \in Tickets,
               Usable(t), Usable(u), Alike(t, u)
        PROVE  t = u
    <3>1. u <= t /\ t <= u
      BY <2>1 DEF UsableIsLast, Usable, Alike
    <3>2. QED
      BY <3>1 DEF Tickets
  <2>2. QED
    BY <2>1 DEF OneUsablePendingRequest, Usable, Alike
<1>3. QED
  BY <1>1, <1>2, TypeCorrect, LastInductive, PTL DEF Spec

-----------------------------------------------------------------------------
(* The abstract life cycle *)

\* The service implements the ticket life cycle.
THEOREM Implements == Spec => ImplementsLifecycle
<1>1. Init => Abstract!Init
  BY DEF Init, Abstract!Init, PhaseOf
<1>2. ASSUME TypeOK, [Next]_vars
      PROVE  Abstract!Next \/ UNCHANGED <<[t \in Tickets |-> PhaseOf(state[t])], runs>>
  <2>1. \A t \in Tickets : RowStep(t) /\ state[t] \in States
    BY <1>2, EveryRowSteps DEF TypeOK
  <2>2. \A t \in Tickets : PhaseOf(state'[t]) \in Abstract!Successors(PhaseOf(state[t]))
    BY <2>1 DEF RowStep, Moves, States, Terminal, PhaseOf, Abstract!Successors
  <2>3. \A t \in Tickets :
           runs'[t] = IF PhaseOf(state[t]) = "armed" /\ PhaseOf(state'[t]) = "running"
                      THEN runs[t] + 1 ELSE runs[t]
    BY <2>1 DEF RowStep, Moves, States, Terminal, PhaseOf
  <2>4. runs' \in [Tickets -> Nat]
    BY <1>2, NextTypeOK DEF TypeOK
  <2>5. QED
    BY <2>2, <2>3, <2>4 DEF Abstract!Next, Abstract!Starts
<1>3. QED
  BY <1>1, <1>2, TypeCorrect, PTL DEF Spec, ImplementsLifecycle, Abstract!Spec

=============================================================================
