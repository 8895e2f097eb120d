----------------------------- MODULE Approvals -----------------------------
(***************************************************************************)
(* Approval tickets and the calls that resume them                         *)
(* (apps/core/src/approvals, packages/store/src/approvals.ts,              *)
(* packages/mcp-tools/src/approval-resume.ts).                             *)
(*                                                                         *)
(* A tool call that needs the operator's consent freezes itself into a     *)
(* PENDING ticket.  The operator approves or denies it; a client then      *)
(* resumes it: the service revalidates the frozen operation (awaiting the  *)
(* repository, the command analysis or the browser), claims the row        *)
(* APPROVED -> EXECUTING with one conditional UPDATE and runs the frozen   *)
(* operation.  Every await is a point where any other action may happen.   *)
(*                                                                         *)
(* Ticket rows and workspace grants are in SQLite and survive a crash;     *)
(* volatile payloads, command bindings, sessions and calls do not.  There  *)
(* is one workspace and one set of arguments, so two admission requests of *)
(* a connection always ask for the same thing.                             *)
(***************************************************************************)
EXTENDS Naturals, FiniteSets

CONSTANTS
    MaxTickets,   \* tickets ever created: ids are 1..MaxTickets, in creation order
    Sessions,     \* session identifiers; an identifier is never used twice
    Connections,  \* OAuth connection subjects
    NoConn,       \* what ConnOf gives a session that is not an OAuth session
    ConnOf,       \* the connection of each session
    Calls,        \* approval_wait calls in flight at one time
    Kinds         \* the ticket kinds of this instance, a subset of AllKinds

AllKinds == {"command",     \* command_run, process_start: carries a command binding
             "operation",   \* other frozen tools: git, file delete, rollback, skills
             "admission",   \* workspace:select
             "capability",  \* capability_request
             "hostGrant",   \* host-control:request
             "hostAction"}  \* one browser or desktop action

ASSUME TicketsAssumption  == MaxTickets \in Nat
ASSUME SessionsAssumption == /\ NoConn \notin Connections
                             /\ ConnOf \in [Sessions -> Connections \cup {NoConn}]
ASSUME KindsAssumption    == Kinds \subseteq AllKinds

Tickets == 1..MaxTickets

Terminal == {"SUCCEEDED", "FAILED", "DENIED", "CANCELLED", "EXPIRED",
             "CONTEXT_CHANGED", "INTERRUPTED"}

\* NONE: the id is not in use yet.  CLEARED: clearHistory deleted the row.
States == {"NONE", "PENDING", "APPROVED", "EXECUTING", "CLEARED"} \cup Terminal

Live == {"PENDING", "APPROVED", "EXECUTING"}

VARIABLES
    \* pending_approvals rows
    state, decisionScope, kind, owner,
    secret,            \* tickets whose stored payload was redacted by the store
    overdue,           \* tickets whose expiresAt the clock has passed
    \* process memory
    volatilePayloads,  \* tickets whose unredacted payload is held in memory
    bindings,          \* tickets with a command approval binding
    waiting,           \* command tickets whose request() is in its fast wait
    call,              \* the resume calls
    \* what the service reads from its surroundings
    session,           \* "new", "live", "detached" (identity kept for the grace period), "gone"
    lease,             \* sessions that hold a lease of the workspace
    drifted,           \* tickets whose frozen precondition no longer holds
    grants,            \* oauth_workspace_grants rows (durable)
    hostGrants,        \* host_control_grants rows (durable)
    revoked,           \* revoked connections
    \* history
    runs               \* how many times the frozen operation was started

ticketVars  == <<state, decisionScope, kind, owner, secret, overdue>>
memoryVars  == <<volatilePayloads, bindings, waiting>>
worldVars   == <<session, lease, drifted, grants, hostGrants, revoked>>
vars        == <<ticketVars, memoryVars, call, worldVars, runs>>

Idle == [pc |-> "idle", ticket |-> 0, session |-> "none", verdict |-> "ok",
         payload |-> "original"]

CallRecords == [pc : {"idle", "validating", "validated", "executing"},
                ticket : Tickets \cup {0},
                session : Sessions \cup {"none"},
                verdict : {"ok", "scope", "unauthorized", "changed"},
                payload : {"original", "redacted"}]

TypeOK ==
    /\ state \in [Tickets -> States]
    /\ decisionScope \in [Tickets -> {"none", "once", "connection"}]
    /\ kind \in [Tickets -> AllKinds]
    /\ owner \in [Tickets -> Sessions \cup {"none"}]
    /\ \A t \in Tickets : state[t] # "NONE" => owner[t] \in Sessions
    /\ secret \subseteq Tickets /\ overdue \subseteq Tickets
    /\ volatilePayloads \subseteq Tickets /\ bindings \subseteq Tickets
    /\ waiting \subseteq Tickets
    /\ call \in [Calls -> CallRecords]
    /\ \A c \in Calls : call[c].pc # "idle" => /\ call[c].ticket \in Tickets
                                               /\ call[c].session \in Sessions
    /\ session \in [Sessions -> {"new", "live", "detached", "gone"}]
    /\ lease \subseteq Sessions /\ drifted \subseteq Tickets
    /\ grants \subseteq Connections /\ hostGrants \subseteq Connections
    /\ revoked \subseteq Connections
    /\ runs \in [Tickets -> Nat]

-----------------------------------------------------------------------------
(* Identity and authority *)

Of(k) == {s \in Sessions : ConnOf[s] = k}

LiveOf(k) == {s \in Of(k) : session[s] = "live"}

\* The connection frozen on the ticket, NoConn for a session-owned ticket.
ConnectionOf(t) == ConnOf[owner[t]]

SameConnection(s, t) == ConnectionOf(t) # NoConn /\ ConnOf[s] = ConnectionOf(t)

\* Whom a ticket answers to: the sessions of its connection, or its session.
Owns(s, t) == s = owner[t] \/ SameConnection(s, t)

\* HostControlAccess.has: a detached session still has its identity.
HasHostControl(s) == /\ session[s] \in {"live", "detached"}
                     /\ ConnOf[s] \in hostGrants \ revoked

\* Mutant: an admission is not bound to the session that asked.
AdmissionVerdictUnbound(s, t) ==
    IF session[s] # "live" \/ ~Owns(s, t) THEN "unauthorized"
    ELSE IF t \in drifted THEN "changed" ELSE "ok"

\* validateTicketAuthority: admission is session bound unless the operator
\* decided for the whole connection.
AdmissionVerdict(s, t) ==
    IF session[s] # "live" THEN "unauthorized"
    ELSE IF decisionScope[t] = "connection" \/ kind[t] = "capability"
         THEN IF ~Owns(s, t) THEN "unauthorized"
              ELSE IF t \in drifted THEN "changed" ELSE "ok"
    ELSE IF s = owner[t] THEN IF t \in drifted THEN "changed" ELSE "ok"
    ELSE IF SameConnection(s, t) THEN "scope" ELSE "unauthorized"

\* Mutant: the lease is checked before the ownership.
OperationVerdictLeaseFirst(s, t) ==
    IF s \notin lease THEN "changed"
    ELSE IF session[s] # "live" \/ ~Owns(s, t) THEN "unauthorized" ELSE "ok"

\* verifyTicketAuthority: the resuming session, its ownership and its lease.
OperationVerdict(s, t) ==
    IF session[s] # "live" \/ ~Owns(s, t) THEN "unauthorized"
    ELSE IF s \notin lease THEN "changed" ELSE "ok"

\* The part of the revalidation that runs before its first await.
FirstVerdict(s, t) ==
    CASE kind[t] = "admission"  -> AdmissionVerdict(s, t)
      [] kind[t] = "capability" -> IF AdmissionVerdict(s, t) = "ok" /\ s \notin lease
                                   THEN "changed" ELSE AdmissionVerdict(s, t)
      [] kind[t] \in {"command", "operation"} -> OperationVerdict(s, t)
      [] OTHER -> "ok"

\* The part that runs after it: repository head, command analysis and its
\* binding, or the attached browser tab.
EvidenceHolds(t) == /\ t \notin drifted
                    /\ kind[t] = "command" => t \in bindings

\* Mutant: the verdict of the revalidation is trusted.
PostClaimTrusted(s, t) == TRUE

\* postClaimCheck, between the claim and the effect.
PostClaimOK(s, t) ==
    CASE kind[t] = "command"    -> OperationVerdict(s, t) = "ok" /\ t \in bindings
      [] kind[t] = "operation"  -> OperationVerdict(s, t) = "ok"
      [] kind[t] = "capability" -> s \in lease
      [] kind[t] = "hostAction" -> HasHostControl(s)
      [] OTHER -> TRUE

-----------------------------------------------------------------------------
(* Requests *)

Init ==
    /\ state = [t \in Tickets |-> "NONE"]
    /\ decisionScope = [t \in Tickets |-> "none"]
    /\ kind = [t \in Tickets |-> "operation"]
    /\ owner = [t \in Tickets |-> "none"]
    /\ secret = {} /\ overdue = {}
    /\ volatilePayloads = {} /\ bindings = {} /\ waiting = {}
    /\ call = [c \in Calls |-> Idle]
    /\ session = [s \in Sessions |-> "new"]
    /\ lease = {} /\ drifted = {} /\ grants = {} /\ hostGrants = {} /\ revoked = {}
    /\ runs = [t \in Tickets |-> 0]

Newest(T) == CHOOSE t \in T : \A u \in T : u <= t

\* Mutant: only the session's own requests are shared.
ReusableOwn(s, k) ==
    {t \in Tickets : /\ kind[t] = k /\ k \in {"admission", "hostGrant"} /\ s = owner[t]
                     /\ state[t] \in {"PENDING", "APPROVED"}}

\* findReusableConnectionRequest: the tickets an admission or host control
\* request of session s may share instead of opening another one.
Reusable(s, k) ==
    {t \in Tickets :
        /\ ConnOf[s] # NoConn /\ kind[t] = k /\ state[t] \in {"PENDING", "APPROVED"}
        /\ SameConnection(s, t)
        /\ \/ k = "hostGrant" /\ state[t] = "PENDING"
           \/ k = "admission" /\ \/ s = owner[t] \/ state[t] = "PENDING"
                                 \/ decisionScope[t] = "connection"}

\* The tools open a ticket of a kind only in these circumstances.
MayRequest(s, k) ==
    /\ session[s] = "live"
    /\ CASE k = "admission"  -> s \notin lease
         [] k = "hostGrant"  -> ConnOf[s] # NoConn /\ ~HasHostControl(s)
         [] k = "hostAction" -> HasHostControl(s)
         [] OTHER            -> s \in lease

\* What leaving PENDING, APPROVED or EXECUTING drops from memory.
Forget(T) == /\ volatilePayloads' = volatilePayloads \ T
             /\ bindings' = bindings \ T

\* request(): shares a usable ticket (and then changes nothing) or opens one.
\* status() expires the candidate it found when its time has passed.
Request(s, k, redacted, new) ==
    LET found == Reusable(s, k)
        stale == {t \in found : t = Newest(found) /\ t \in overdue}
    IN  /\ state[new] = "NONE" /\ \A t \in Tickets : t < new => state[t] # "NONE"
        /\ MayRequest(s, k)
        /\ found # {} => stale # {}
        /\ state' = [t \in Tickets |-> IF t = new THEN "PENDING"
                                      ELSE IF t \in stale THEN "EXPIRED" ELSE state[t]]
        /\ kind' = [kind EXCEPT ![new] = k]
        /\ owner' = [owner EXCEPT ![new] = s]
        /\ secret' = IF redacted THEN secret \cup {new} ELSE secret
        /\ volatilePayloads' = (volatilePayloads \ stale)
                               \cup (IF redacted THEN {new} ELSE {})
        /\ bindings' = bindings \ stale
        /\ waiting' = IF k = "command" THEN waiting \cup {new} ELSE waiting
        /\ UNCHANGED <<decisionScope, overdue, call, worldVars, runs>>

\* The end of the fast wait: status() once more, then command_run binds the
\* analysis to whatever ticket it finds.  A row that clearHistory deleted
\* makes request() throw, and nothing is bound.
EndFastWait(t) ==
    LET late == state[t] \in {"PENDING", "APPROVED"} /\ t \in overdue
    IN  /\ t \in waiting
        /\ waiting' = waiting \ {t}
        /\ state' = IF late THEN [state EXCEPT ![t] = "EXPIRED"] ELSE state
        /\ volatilePayloads' = IF late THEN volatilePayloads \ {t} ELSE volatilePayloads
        /\ bindings' = IF state[t] = "CLEARED" THEN bindings ELSE bindings \cup {t}
        /\ UNCHANGED <<decisionScope, kind, owner, secret, overdue, call, worldVars, runs>>

-----------------------------------------------------------------------------
(* Decisions *)

\* expiresAt passes.  Nothing happens to the row until somebody reads it.
Lapse(t) ==
    /\ state[t] \in {"PENDING", "APPROVED"} /\ t \notin overdue
    /\ overdue' = overdue \cup {t}
    /\ UNCHANGED <<state, decisionScope, kind, owner, secret, memoryVars, call,
                   worldVars, runs>>

\* status(): any read of an overdue ticket expires it.
Status(t) ==
    /\ state[t] \in {"PENDING", "APPROVED"} /\ t \in overdue
    /\ state' = [state EXCEPT ![t] = "EXPIRED"]
    /\ Forget({t})
    /\ UNCHANGED <<decisionScope, kind, owner, secret, overdue, waiting, call,
                   worldVars, runs>>

\* The scopes the approve route and approve() accept for a ticket.
ScopesFor(t) ==
    CASE kind[t] = "hostGrant"  -> {"connection"}
      [] kind[t] = "hostAction" -> {"once"}
      [] kind[t] = "admission"  -> IF ConnectionOf(t) = NoConn THEN {"once"}
                                   ELSE {"once", "connection"}
      [] OTHER -> {"once", "connection"}

\* grantConnectionWorkspace: nothing without an OAuth identity, else the durable
\* row, then a lease in every live session of the connection.
GrantWorkspace(k) ==
    IF k = NoConn THEN UNCHANGED <<grants, lease>>
    ELSE grants' = grants \cup {k} /\ lease' = lease \cup LiveOf(k)

\* The approved handlers run before APPROVED is stored; on a revoked
\* connection they throw and the ticket stays PENDING.
ApprovedHandlers(t, scope) ==
    CASE kind[t] = "admission" /\ scope = "connection" ->
            /\ ConnectionOf(t) \notin revoked
            /\ GrantWorkspace(ConnectionOf(t))
            /\ UNCHANGED hostGrants
      [] kind[t] = "hostGrant" ->
            /\ ConnectionOf(t) \notin revoked \cup {NoConn}
            /\ hostGrants' = hostGrants \cup {ConnectionOf(t)}
            /\ UNCHANGED <<grants, lease>>
      [] kind[t] = "hostAction" ->
            /\ ConnectionOf(t) \notin revoked
            /\ UNCHANGED <<grants, lease, hostGrants>>
      [] OTHER -> UNCHANGED <<grants, lease, hostGrants>>

Approve(t, scope) ==
    /\ state[t] = "PENDING" /\ t \notin overdue
    /\ scope \in ScopesFor(t)
    /\ ApprovedHandlers(t, scope)
    /\ decisionScope' = [decisionScope EXCEPT ![t] = scope]
    /\ state' = [state EXCEPT ![t] = "APPROVED"]
    /\ UNCHANGED <<kind, owner, secret, overdue, memoryVars, call, session, drifted,
                   revoked, runs>>

Deny(t) ==
    /\ state[t] = "PENDING" /\ t \notin overdue
    /\ state' = [state EXCEPT ![t] = "DENIED"]
    /\ Forget({t})
    /\ UNCHANGED <<decisionScope, kind, owner, secret, overdue, waiting, call,
                   worldVars, runs>>

\* approval_cancel by a session the ticket answers to.
Cancel(s, t) ==
    /\ state[t] \in {"PENDING", "APPROVED"} /\ t \notin overdue
    /\ session[s] = "live" /\ Owns(s, t)
    /\ state' = [state EXCEPT ![t] = "CANCELLED"]
    /\ Forget({t})
    /\ UNCHANGED <<decisionScope, kind, owner, secret, overdue, waiting, call,
                   worldVars, runs>>

\* clearHistory: sweep, delete what is not live, prune payloads without a row.
ClearHistory ==
    LET late == {t \in Tickets : state[t] \in {"PENDING", "APPROVED"} /\ t \in overdue}
        done == {t \in Tickets : state[t] \in Terminal} \cup late
    IN  /\ done # {}
        /\ state' = [t \in Tickets |-> IF t \in done THEN "CLEARED" ELSE state[t]]
        /\ volatilePayloads' = volatilePayloads \ done
        /\ bindings' = bindings \ late
        /\ UNCHANGED <<decisionScope, kind, owner, secret, overdue, waiting, call,
                       worldVars, runs>>

-----------------------------------------------------------------------------
(* resume() *)

Idles(c) == call' = [call EXCEPT ![c] = Idle]

\* Call c, further on.
CallAt(c, pc, verdict) ==
    [pc |-> pc, ticket |-> call[c].ticket, session |-> call[c].session,
     verdict |-> verdict, payload |-> call[c].payload]

\* Up to the first await: the row is APPROVED and in time, the payload is
\* read, and the synchronous part of the revalidation has run.  For a host
\* action resumeHostApproval checks identity and grant first.
ResumeBegin(c, s, t) ==
    /\ call[c].pc = "idle" /\ session[s] = "live"
    /\ state[t] = "APPROVED" /\ t \notin overdue /\ kind[t] # "hostGrant"
    /\ kind[t] = "hostAction" => SameConnection(s, t) /\ HasHostControl(s)
    /\ call' = [call EXCEPT ![c] =
           [pc      |-> IF kind[t] \in {"admission", "capability"} THEN "validated"
                        ELSE "validating",
            ticket  |-> t, session |-> s, verdict |-> FirstVerdict(s, t),
            payload |-> IF t \in secret \ volatilePayloads THEN "redacted" ELSE "original"]]
    /\ UNCHANGED <<ticketVars, memoryVars, worldVars, runs>>

\* The awaited evidence arrives.
ResumeCheck(c) ==
    /\ call[c].pc = "validating"
    /\ call' = [call EXCEPT ![c] = CallAt(c, "validated",
           IF EvidenceHolds(call[c].ticket) THEN call[c].verdict
           ELSE IF call[c].verdict = "ok" THEN "changed" ELSE call[c].verdict)]
    /\ UNCHANGED <<ticketVars, memoryVars, worldVars, runs>>

Invalidates(c) == call[c].verdict = "changed" /\ state[call[c].ticket] = "APPROVED"

\* A failed revalidation.  Only a changed context touches the row, and only
\* while it is still APPROVED (transitionContextChanged).
ResumeReject(c) ==
    LET t == call[c].ticket
    IN  /\ call[c].pc = "validated" /\ call[c].verdict # "ok"
        /\ state' = IF Invalidates(c) THEN [state EXCEPT ![t] = "CONTEXT_CHANGED"] ELSE state
        /\ IF Invalidates(c) THEN Forget({t}) ELSE UNCHANGED <<volatilePayloads, bindings>>
        /\ Idles(c)
        /\ UNCHANGED <<decisionScope, kind, owner, secret, overdue, waiting, worldVars, runs>>

\* Mutant: the state read before the wait is trusted, the UPDATE has no guard.
ClaimableUnguarded(t) == t \notin overdue

\* The WHERE clause of claimExecution.
Claimable(t) == state[t] = "APPROVED" /\ t \notin overdue

\* executeFrozen of an admission: an unchanged session is admitted, for the
\* whole connection when the operator so decided.
Admit(s, t) ==
    CASE kind[t] # "admission" \/ session[s] # "live" -> UNCHANGED <<grants, lease>>
      [] decisionScope[t] = "connection" -> GrantWorkspace(ConnOf[s])
      [] OTHER -> lease' = lease \cup {s} /\ UNCHANGED grants

\* claimExecution won, postClaimCheck passed, the frozen operation starts.
ResumeClaim(c) ==
    LET t == call[c].ticket
        s == call[c].session
    IN  /\ call[c].pc = "validated" /\ call[c].verdict = "ok"
        /\ Claimable(t) /\ PostClaimOK(s, t)
        /\ state' = [state EXCEPT ![t] = "EXECUTING"]
        /\ runs' = [runs EXCEPT ![t] = @ + 1]
        /\ bindings' = IF kind[t] = "command" THEN bindings \ {t} ELSE bindings
        /\ call' = [call EXCEPT ![c] = CallAt(c, "executing", "ok")]
        /\ Admit(s, t)
        /\ UNCHANGED <<decisionScope, kind, owner, secret, overdue, volatilePayloads,
                       waiting, session, drifted, hostGrants, revoked>>

\* Claimed, but authority was lost meanwhile: FAILED without an effect.
ResumeFailClaim(c) ==
    LET t == call[c].ticket
    IN  /\ call[c].pc = "validated" /\ call[c].verdict = "ok"
        /\ Claimable(t) /\ ~PostClaimOK(call[c].session, t)
        /\ state' = [state EXCEPT ![t] = "FAILED"]
        /\ Forget({t})
        /\ Idles(c)
        /\ UNCHANGED <<decisionScope, kind, owner, secret, overdue, waiting, worldVars, runs>>

\* The claim was lost: the caller gets the current status, which expires an
\* overdue ticket.
ResumeLose(c) ==
    LET t == call[c].ticket
        late == state[t] \in {"PENDING", "APPROVED"} /\ t \in overdue
    IN  /\ call[c].pc = "validated" /\ call[c].verdict = "ok" /\ ~Claimable(t)
        /\ state' = IF late THEN [state EXCEPT ![t] = "EXPIRED"] ELSE state
        /\ IF late THEN Forget({t}) ELSE UNCHANGED <<volatilePayloads, bindings>>
        /\ Idles(c)
        /\ UNCHANGED <<decisionScope, kind, owner, secret, overdue, waiting, worldVars, runs>>

\* The frozen operation returned or threw (transitionExecution).
ResumeFinish(c, outcome) ==
    LET t == call[c].ticket
    IN  /\ call[c].pc = "executing"
        /\ state' = IF state[t] = "EXECUTING" THEN [state EXCEPT ![t] = outcome] ELSE state
        /\ Forget({t})
        /\ Idles(c)
        /\ UNCHANGED <<decisionScope, kind, owner, secret, overdue, waiting, worldVars, runs>>

-----------------------------------------------------------------------------
(* The surroundings: sessions, the operator's revocations, the repository *)

\* A session opens.  A remembered grant is restored to it; a reconnect within
\* the grace period also takes over the leases of the detached sessions.
OpenSession(s, resumed) ==
    LET old == {d \in Of(ConnOf[s]) : session[d] = "detached"}
    IN  /\ session[s] = "new" /\ ConnOf[s] \notin revoked
        /\ resumed => ConnOf[s] # NoConn /\ old # {}
        /\ session' = [d \in Sessions |-> IF d = s THEN "live"
                                        ELSE IF resumed /\ d \in old THEN "gone" ELSE session[d]]
        /\ lease' = (IF resumed THEN lease \ old ELSE lease)
                    \cup (IF ConnOf[s] \in grants \/ (resumed /\ old \cap lease # {})
                          THEN {s} ELSE {})
        /\ UNCHANGED <<ticketVars, memoryVars, call, drifted, grants, hostGrants, revoked, runs>>

\* A detached OAuth session keeps its identity and its leases until the grace
\* period ends.
EndSession(s) ==
    /\ \/ /\ session[s] = "live" /\ ConnOf[s] # NoConn
          /\ session' = [session EXCEPT ![s] = "detached"]
          /\ UNCHANGED lease
       \/ /\ session[s] = "detached" \/ (session[s] = "live" /\ ConnOf[s] = NoConn)
          /\ session' = [session EXCEPT ![s] = "gone"]
          /\ lease' = lease \ {s}
    /\ UNCHANGED <<ticketVars, memoryVars, call, drifted, grants, hostGrants, revoked, runs>>

\* A workspace is granted without a ticket: by the operator on the connection
\* page (to its live sessions, which the detached ones keep), or by an
\* auto-admission mapping, remembered for OAuth sessions.
AdminGrant(k) ==
    /\ k \notin grants \cup revoked
    /\ GrantWorkspace(k)
    /\ UNCHANGED <<ticketVars, memoryVars, call, session, drifted, hostGrants, revoked, runs>>

AutoAdmit(s) ==
    /\ session[s] = "live" /\ s \notin lease
    /\ lease' = lease \cup {s}
    /\ grants' = IF ConnOf[s] = NoConn THEN grants ELSE grants \cup {ConnOf[s]}
    /\ UNCHANGED <<ticketVars, memoryVars, call, session, drifted, hostGrants, revoked, runs>>

\* The operator removes the grant of a connection (its detached leases too), or
\* revokes the workspace from a session (the leases of live sessions only).
RemoveGrant(k) ==
    /\ k \in grants \/ lease \cap Of(k) # {}
    /\ grants' = grants \ {k}
    /\ \/ lease' = lease \ Of(k)
       \/ LiveOf(k) # {} /\ lease' = lease \ LiveOf(k)
    /\ UNCHANGED <<ticketVars, memoryVars, call, session, drifted, hostGrants, revoked, runs>>

RevokeHostGrant(k) ==
    /\ k \in hostGrants
    /\ hostGrants' = hostGrants \ {k}
    /\ UNCHANGED <<ticketVars, memoryVars, call, session, lease, drifted, grants, revoked, runs>>

RevokeConnection(k) ==
    /\ k \notin revoked
    /\ revoked' = revoked \cup {k}
    /\ session' = [s \in Sessions |-> IF s \in Of(k) /\ session[s] \in {"live", "detached"}
                                     THEN "gone" ELSE session[s]]
    /\ grants' = grants \ {k} /\ lease' = lease \ Of(k)
    /\ UNCHANGED <<ticketVars, memoryVars, call, drifted, hostGrants, runs>>

\* A commit moves HEAD, an executable changes, the approved tab navigates, the
\* workspace is deleted: what the ticket froze no longer holds.
Drift(t) ==
    /\ state[t] \in Live /\ t \notin drifted
    /\ drifted' = drifted \cup {t}
    /\ UNCHANGED <<ticketVars, memoryVars, call, session, lease, grants, hostGrants,
                   revoked, runs>>

-----------------------------------------------------------------------------
(* Crash and restart *)

\* Mutant: executing tickets survive the restart.
AfterRestartKeepExecuting(st) == IF st \in {"PENDING", "APPROVED"} THEN "CANCELLED" ELSE st

\* cancelForRestart
AfterRestart(st) == IF st \in {"PENDING", "APPROVED"} THEN "CANCELLED"
                    ELSE IF st = "EXECUTING" THEN "INTERRUPTED" ELSE st

LoseMemory ==
    /\ volatilePayloads' = {} /\ bindings' = {} /\ waiting' = {}
    /\ call' = [c \in Calls |-> Idle]
    /\ session' = [s \in Sessions |-> IF session[s] = "new" THEN "new" ELSE "gone"]
    /\ lease' = {}

CancelForRestart == state' = [t \in Tickets |-> AfterRestart(state[t])]

Restart ==
    /\ \E s \in Sessions : session[s] # "new"
    /\ LoseMemory /\ CancelForRestart
    /\ UNCHANGED <<decisionScope, kind, owner, secret, overdue, drifted, grants, hostGrants,
                   revoked, runs>>

\* The process dies between the approved handler's grant and the row's
\* APPROVED: the grant is durable, the ticket is cancelled at the next start.
RestartInApprove(t) ==
    /\ state[t] = "PENDING" /\ t \notin overdue /\ kind[t] \in {"admission", "hostGrant"}
    /\ ConnectionOf(t) \notin revoked \cup {NoConn}
    /\ LoseMemory /\ CancelForRestart
    /\ grants' = IF kind[t] = "admission" THEN grants \cup {ConnectionOf(t)} ELSE grants
    /\ hostGrants' = IF kind[t] = "hostGrant" THEN hostGrants \cup {ConnectionOf(t)}
                     ELSE hostGrants
    /\ UNCHANGED <<decisionScope, kind, owner, secret, overdue, drifted, revoked, runs>>

Next ==
    \/ \E s \in Sessions, k \in Kinds, redacted \in BOOLEAN, t \in Tickets :
          Request(s, k, redacted, t)
    \/ \E t \in Tickets : \/ EndFastWait(t) \/ Lapse(t) \/ Status(t) \/ Deny(t) \/ Drift(t)
                          \/ RestartInApprove(t)
    \/ \E t \in Tickets, scope \in {"once", "connection"} : Approve(t, scope)
    \/ \E s \in Sessions, t \in Tickets : Cancel(s, t)
    \/ ClearHistory
    \/ \E c \in Calls, s \in Sessions, t \in Tickets : ResumeBegin(c, s, t)
    \/ \E c \in Calls : \/ ResumeCheck(c) \/ ResumeReject(c) \/ ResumeClaim(c)
                        \/ ResumeFailClaim(c) \/ ResumeLose(c)
    \/ \E c \in Calls, outcome \in {"SUCCEEDED", "FAILED"} : ResumeFinish(c, outcome)
    \/ \E s \in Sessions : \/ EndSession(s) \/ AutoAdmit(s)
                           \/ \E resumed \in BOOLEAN : OpenSession(s, resumed)
    \/ \E k \in Connections : \/ AdminGrant(k) \/ RemoveGrant(k)
                              \/ RevokeHostGrant(k) \/ RevokeConnection(k)
    \/ Restart

Spec == Init /\ [][Next]_vars

\* One step of a resume call that is under way: the awaited evidence arrives, the
\* call goes on, the frozen operation returns or throws.
CallStep(c) ==
    \/ ResumeCheck(c) \/ ResumeReject(c) \/ ResumeClaim(c) \/ ResumeFailClaim(c)
    \/ ResumeLose(c) \/ \E outcome \in {"SUCCEEDED", "FAILED"} : ResumeFinish(c, outcome)

FairSpec == Spec /\ \A c \in Calls : WF_vars(CallStep(c))

-----------------------------------------------------------------------------
(* Safety *)

\* A frozen operation is started at most once, whatever number of callers
\* resume it, however the waits interleave and however often the process
\* restarts (claimExecution; cancelForRestart never re-arms a ticket).
AtMostOneExecution == \A t \in Tickets : runs[t] <= 1

\* An executing row has exactly one call executing it, so a ticket is never left
\* EXECUTING by a caller that is gone, nor executed by two callers.
Executes(c, t) == call[c].pc = "executing" /\ call[c].ticket = t

ExecutingHasOneCall ==
    \A t \in Tickets :
        /\ state[t] = "EXECUTING" <=> \E c \in Calls : Executes(c, t)
        /\ \A c, d \in Calls : Executes(c, t) /\ Executes(d, t) => c = d

\* The executor works for a session the ticket answers to, and an admission
\* decided "once" for no session but the one that asked (approval-scope.ts).
ExecutesForOwner ==
    \A c \in Calls : call[c].pc = "executing" =>
        LET t == call[c].ticket IN
        /\ Owns(call[c].session, t)
        /\ kind[t] = "admission" /\ decisionScope[t] # "connection" =>
               call[c].session = owner[t]

\* A connection never has two usable pending requests for the same admission or
\* the same host control: the operator decides once.
OneUsablePendingRequest ==
    \A t, u \in Tickets :
        /\ t # u /\ state[t] = "PENDING" /\ state[u] = "PENDING"
        /\ t \notin overdue /\ u \notin overdue
        /\ kind[t] = kind[u] /\ kind[t] \in {"admission", "hostGrant"}
        => ConnectionOf(t) = NoConn \/ ConnectionOf(t) # ConnectionOf(u)

-----------------------------------------------------------------------------
(* Action properties *)

\* A terminal row never changes again, except that clearHistory deletes it: no
\* late answer, failed revalidation or second executor overwrites an outcome.
OutcomeIsFinal ==
    [][\A t \in Tickets : state[t] \in Terminal => state'[t] \in {state[t], "CLEARED"}]_vars

\* A ticket is invalidated only by a caller it answers to: a foreign caller's
\* failed revalidation leaves it resumable.
NoForeignInvalidation ==
    [][\A t \in Tickets : state[t] = "APPROVED" /\ state'[t] = "CONTEXT_CHANGED" =>
          \E c \in Calls : /\ call[c].ticket = t /\ call'[c].pc = "idle"
                           /\ Owns(call[c].session, t)]_vars

\* An operation starts only for a session that holds its authority at that very
\* moment, not only when its revalidation began.  (A capability request only
\* dispatches the original call again, which checks the session once more.)
StartsWithAuthority ==
    [][\A c \in Calls : call[c].pc # "executing" /\ call'[c].pc = "executing" =>
          LET t == call[c].ticket
              s == call[c].session
          IN  CASE kind[t] = "hostAction" -> HasHostControl(s)
                [] kind[t] = "admission"  -> TRUE
                [] kind[t] = "capability" -> s \in lease
                [] OTHER -> session[s] = "live" /\ s \in lease]_vars

-----------------------------------------------------------------------------
(* Liveness, when every awaited answer arrives *)

\* A claimed ticket does not stay EXECUTING: its call finishes it, or the restart
\* after a crash does.
ExecutionEnds == \A t \in Tickets : state[t] = "EXECUTING" ~> state[t] \in Terminal \cup {"CLEARED"}

-----------------------------------------------------------------------------
(* What the tickets implement *)

PhaseOf(st) == CASE st = "NONE" -> "absent" [] st = "PENDING" -> "undecided"
                 [] st = "APPROVED" -> "armed" [] st = "EXECUTING" -> "running"
                 [] OTHER -> "closed"

Abstract == INSTANCE ApprovalLifecycle
               WITH phase <- [t \in Tickets |-> PhaseOf(state[t])], started <- runs

\* Every behaviour of the service is one of the life cycle: a ticket is decided
\* before it is armed, armed before it runs, and runs once.
ImplementsLifecycle == Abstract!Spec

=============================================================================
