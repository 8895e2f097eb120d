------------------------------ MODULE Sessions ------------------------------
(***************************************************************************)
(* Sessions, workspace leases and remembered grants                        *)
(* (apps/core/src/sessions, packages/store/src/sessions.ts).               *)
(*                                                                         *)
(* A client reaches the gateway under an identity: an OAuth connection, or *)
(* a static connector.  It works in sessions, which come and go with its   *)
(* transport, and a session may use a workspace while it holds a lease of  *)
(* it.  Leases end with the session or after idling, except that a session *)
(* of an OAuth connection that disconnects keeps its leases, detached, for *)
(* a grace period: the next session of the connection takes them over.     *)
(* The operator's grants to a connection are durable, and are restored     *)
(* lazily into each session, the first time its leases are read.           *)
(*                                                                         *)
(* Grants and the state of a connection are in SQLite; sessions, leases    *)
(* and detached identities are in memory (their rows are written for the   *)
(* record, and all invalidated at start).  Every handler is synchronous.   *)
(***************************************************************************)
EXTENDS FiniteSets

CONSTANTS
    SessionIds,   \* session identifiers, never used twice
    Identities,   \* who connects
    OAuth,        \* the identities that are OAuth connections
    IdentityOf,   \* the identity of each session
    Workspaces,
    Profiles,     \* capability profiles
    None,
    AutoProfile,  \* AutoProfile[i][w]: the profile of an automatic admission, or None
    Overrides     \* the profiles an admission may name: one-time approvals, the operator

ASSUME IdentityAssumption == OAuth \subseteq Identities /\ IdentityOf \in [SessionIds -> Identities]
ASSUME ProfileAssumption  == /\ None \notin Profiles /\ Overrides \subseteq Profiles
                             /\ AutoProfile \in
                                    [Identities -> [Workspaces -> Profiles \cup {None}]]

VARIABLES
    session,         \* "new", "live", "detached" (in disconnectedIdentities) or "gone"
    pending,         \* pendingRememberedRestore
    leases,          \* leaseRows
    yolo,            \* yoloSessions
    grants,          \* oauth_workspace_grants: the profile of each grant, or None
    grace,           \* oauth_connections.grace_expires_at: "none", "running", "over"
    revoked,         \* oauth_connections with status REVOKED, or deleted
    deleted,         \* oauth_connections deleted with their client
    connectionYolo,  \* oauth_connections with yolo_enabled
    \* history
    removed,         \* grants removed on the connection page, until decided anew
    cut              \* connections the operator revoked

connectionVars == <<grants, grace, revoked, deleted, connectionYolo>>
history        == <<removed, cut>>
vars           == <<session, pending, leases, yolo, connectionVars, history>>

\* once is history: the lease came from an admission that named its profile.
Leases == [session : SessionIds, workspace : Workspaces, profile : Profiles,
           expired : BOOLEAN, once : BOOLEAN]

TypeOK ==
    /\ session \in [SessionIds -> {"new", "live", "detached", "gone"}]
    /\ pending \subseteq SessionIds /\ yolo \subseteq SessionIds
    /\ leases \subseteq Leases
    /\ grants \in [OAuth -> [Workspaces -> Profiles \cup {None}]]
    /\ grace \in [OAuth -> {"none", "running", "over"}]
    /\ \A S \in {revoked, deleted, connectionYolo, cut} : S \subseteq OAuth
    /\ removed \subseteq OAuth \X Workspaces

Init ==
    /\ session = [s \in SessionIds |-> "new"]
    /\ pending = {} /\ leases = {} /\ yolo = {}
    /\ grants = [i \in OAuth |-> [w \in Workspaces |-> None]]
    /\ grace = [i \in OAuth |-> "none"]
    /\ revoked = {} /\ deleted = {} /\ connectionYolo = {}
    /\ removed = {} /\ cut = {}

-----------------------------------------------------------------------------
(* Leases *)

Live(i)     == {s \in SessionIds : IdentityOf[s] = i /\ session[s] = "live"}
Detached(i) == {s \in SessionIds : IdentityOf[s] = i /\ session[s] = "detached"}

LeasesOf(L, S, w) == {l \in L : l.session \in S /\ l.workspace = w}

Lease(s, w, p, once) ==
    [session |-> s, workspace |-> w, profile |-> p, expired |-> FALSE, once |-> once]

Granted(G, s, w) == IF IdentityOf[s] \in OAuth THEN G[IdentityOf[s]][w] ELSE None

\* restoreRememberedWorkspaces: under grants G, each session of S gets a lease of
\* every granted workspace it has none of.
Restored(L, G, S) ==
    {l \in Leases :
        /\ l.session \in S /\ ~l.expired /\ ~l.once
        /\ l.profile = Granted(G, l.session, l.workspace)
        /\ \A x \in LeasesOf(L, {l.session}, l.workspace) : x.expired}

\* leases() of every session of S: the owed restore, and expired leases are dropped.
ReadLeases(L, G, S) ==
    {l \in L : l.session \in S => ~l.expired} \cup Restored(L, G, S \cap pending)

\* A decision of the operator, or of a configured mapping, on i's use of w.
Decided(i, w) == removed' = removed \ {<<i, w>>}

\* Any request of the session, or a view of it, reads its leases.
ReadSession(s) ==
    /\ session[s] = "live"
    /\ leases' = ReadLeases(leases, grants, {s})
    /\ pending' = pending \ {s}
    /\ UNCHANGED <<session, yolo, connectionVars, history>>

\* The idle time of a lease passes without a request.
LeaseLapses(l) ==
    /\ ~l.expired
    /\ leases' = (leases \ {l}) \cup {[l EXCEPT !.expired = TRUE]}
    /\ UNCHANGED <<session, pending, yolo, connectionVars, history>>

\* admitWorkspace: a profile named by the caller, else the remembered one, else
\* that of an automatic mapping, which is then remembered.
Admit(s, w, override) ==
    LET i    == IdentityOf[s]
        auto == override = None /\ Granted(grants, s, w) = None
        p    == IF override # None THEN override
                ELSE IF auto THEN AutoProfile[i][w] ELSE Granted(grants, s, w)
        L    == ReadLeases(leases, grants, {s})
    IN  /\ session[s] = "live" /\ p # None
        /\ leases' = (L \ LeasesOf(L, {s}, w)) \cup {Lease(s, w, p, override # None)}
        /\ pending' = pending \ {s}
        /\ grants' = IF auto /\ i \in OAuth THEN [grants EXCEPT ![i][w] = p] ELSE grants
        /\ Decided(i, w)
        /\ UNCHANGED <<session, yolo, grace, revoked, deleted, connectionYolo, cut>>

-----------------------------------------------------------------------------
(* Sessions come and go *)

\* create: what a client of the older protocol does to start.
Create(s) ==
    LET i == IdentityOf[s]
    IN  /\ session[s] = "new" /\ i \notin revoked
        /\ session' = [session EXCEPT ![s] = "live"]
        /\ pending' = pending \cup {s}
        /\ grace' = IF i \in OAuth THEN [grace EXCEPT ![i] = "none"] ELSE grace
        /\ UNCHANGED <<leases, yolo, grants, revoked, deleted, connectionYolo, history>>

\* The detached sessions of the connections whose grace period is over
\* (expireGraceSessionConnections).
GraceEnded == {s \in SessionIds : /\ session[s] = "detached"
                                  /\ IdentityOf[s] \in OAuth /\ grace[IdentityOf[s]] = "over"}

GraceAfterExpiry == [i \in OAuth |-> IF grace[i] = "over" THEN "none" ELSE grace[i]]

SessionsAfterExpiry == [s \in SessionIds |-> IF s \in GraceEnded THEN "gone" ELSE session[s]]

LeasesAfterExpiry == {l \in leases : l.session \notin GraceEnded}

\* Mutant: the comparison of the expiry is the other way round.
UsableExpired(L) == {l \in L : l.expired}

\* The leases of detached sessions a reconnecting session may take over.
Usable(L) == {l \in L : ~l.expired}

\* rebindDetachedLeases: session s takes over the usable leases of the sessions
\* Old, one for each workspace, unless a remembered grant gives it one.
Rebinds(s, Old, L, kept) ==
    LET usable   == Usable({l \in L : l.session \in Old})
        restored == IF usable = {} THEN {} ELSE Restored(L, grants, {s})
        wanted   == {l \in usable : \A r \in restored : r.workspace # l.workspace}
    IN  /\ kept \subseteq wanted
        /\ \A l \in wanted : \E k \in kept : k.workspace = l.workspace
        /\ \A k, l \in kept : k.workspace = l.workspace => k = l
        /\ leases' = {l \in L : l.session \notin Old} \cup restored
                     \cup {[l EXCEPT !.session = s] : l \in kept}

\* getOrCreateForIdentity finds a live session of the identity.
ResolveExisting(s) ==
    /\ session[s] = "live" /\ IdentityOf[s] \notin revoked
    /\ session' = SessionsAfterExpiry /\ leases' = LeasesAfterExpiry
    /\ grace' = GraceAfterExpiry
    /\ pending' = pending \cup {s}
    /\ UNCHANGED <<yolo, grants, revoked, deleted, connectionYolo, history>>

\* It finds none, and the connection is not in its grace period.
ResolveCreated(s) ==
    LET i == IdentityOf[s]
    IN  /\ session[s] = "new" /\ i \notin revoked /\ Live(i) = {}
        /\ i \in OAuth => grace[i] # "running"
        /\ session' = [SessionsAfterExpiry EXCEPT ![s] = "live"]
        /\ leases' = LeasesAfterExpiry
        /\ grace' = IF i \in OAuth THEN [GraceAfterExpiry EXCEPT ![i] = "none"]
                    ELSE GraceAfterExpiry
        /\ pending' = pending \cup {s}
        /\ UNCHANGED <<yolo, grants, revoked, deleted, connectionYolo, history>>

\* It finds none, and the connection is: the new session resumes the detached ones.
ResolveResumed(s, kept) ==
    LET i   == IdentityOf[s]
        Old == Detached(i)
    IN  /\ session[s] = "new" /\ i \in OAuth \ revoked /\ Live(i) = {} /\ grace[i] = "running"
        /\ pending' = IF Usable({l \in LeasesAfterExpiry : l.session \in Old}) = {}
                      THEN pending \cup {s} ELSE pending
        /\ Rebinds(s, Old, LeasesAfterExpiry, kept)
        /\ session' = [d \in SessionIds |-> IF d = s THEN "live" ELSE IF d \in Old THEN "gone"
                                          ELSE SessionsAfterExpiry[d]]
        /\ grace' = [GraceAfterExpiry EXCEPT ![i] = "none"]
        /\ UNCHANGED <<yolo, grants, revoked, deleted, connectionYolo, history>>

\* list(): the sessions page.
ListSessions ==
    LET All == {s \in SessionIds : session[s] = "live"}
    IN  /\ session' = SessionsAfterExpiry /\ grace' = GraceAfterExpiry
        /\ leases' = ReadLeases(LeasesAfterExpiry, grants, All)
        /\ pending' = pending \ All
        /\ UNCHANGED <<yolo, grants, revoked, deleted, connectionYolo, history>>

\* disconnectSessionImmediate of every session of S.
Drop(S) ==
    /\ session' = [s \in SessionIds |-> IF s \in S THEN "gone" ELSE session[s]]
    /\ leases' = {l \in leases : l.session \notin S}
    /\ pending' = pending \ S /\ yolo' = yolo \ S

\* disconnect: the client ends its session.  That of an OAuth connection is
\* detached and its grace period starts; another one is dropped.
Disconnect(s) ==
    /\ session[s] = "live" /\ IdentityOf[s] \notin revoked
    /\ IF IdentityOf[s] \in OAuth
       THEN /\ session' = [session EXCEPT ![s] = "detached"]
            /\ grace' = [grace EXCEPT ![IdentityOf[s]] = "running"]
            /\ pending' = pending \ {s} /\ yolo' = yolo \ {s} /\ UNCHANGED leases
       ELSE Drop({s}) /\ UNCHANGED grace
    /\ UNCHANGED <<grants, revoked, deleted, connectionYolo, history>>

GracePasses(i) ==
    /\ grace[i] = "running"
    /\ grace' = [grace EXCEPT ![i] = "over"]
    /\ UNCHANGED <<session, pending, leases, yolo, grants, revoked, deleted, connectionYolo, history>>

\* revoke: the operator ends one session.
RevokeSession(s) ==
    /\ session[s] \in {"live", "detached"}
    /\ Drop({s})
    /\ UNCHANGED <<connectionVars, history>>

-----------------------------------------------------------------------------
(* The operator's grants and revocations *)

\* Mutant: the connection is not looked up.
MayGrantAlways(i) == TRUE

\* grantSourceFor: the session that asked is known, or its connection is not
\* found to be revoked.
MayGrant(i) == Live(i) \cup Detached(i) # {} \/ i \notin revoked \/ i \in deleted

\* Mutant: a session that holds a lease keeps it as it is.
FannedOutToOthers(L, i, w, p) ==
    L \cup {Lease(s, w, p, FALSE) : s \in {x \in Live(i) : LeasesOf(L, {x}, w) = {}}}

\* Every live session of i gets a lease of w under profile p in place of its own.
FannedOut(L, i, w, p) ==
    (L \ LeasesOf(L, Live(i), w)) \cup {Lease(s, w, p, FALSE) : s \in Live(i)}

\* grantConnectionWorkspace, when an approval decided for the connection is
\* given or resumed: the durable row, then every live session of the connection.
GrantConnection(i, w, p) ==
    LET G == [grants EXCEPT ![i][w] = p]
        L == ReadLeases(leases, G, Live(i))
    IN  /\ MayGrant(i)
        /\ grants' = G
        /\ leases' = FannedOut(L, i, w, p)
        /\ pending' = pending \ Live(i)
        /\ Decided(i, w)
        /\ UNCHANGED <<session, yolo, grace, revoked, deleted, connectionYolo, cut>>

\* The leases after the connection page gave i the profile p on w: fresh ones
\* for live sessions, the detached ones rewritten in place.
Regranted(L, i, w, p) ==
    FannedOut(L \ LeasesOf(L, Detached(i), w), i, w, p)
    \cup {[l EXCEPT !.profile = p, !.once = FALSE] : l \in LeasesOf(L, Detached(i), w)}

\* ConnectionWorkspaceGrantService.grant
PageGrant(i, w, p) ==
    /\ i \notin revoked
    /\ grants' = [grants EXCEPT ![i][w] = p]
    /\ leases' = Regranted(ReadLeases(leases, grants, Live(i)), i, w, p)
    /\ pending' = pending \ Live(i)
    /\ Decided(i, w)
    /\ UNCHANGED <<session, yolo, grace, revoked, deleted, connectionYolo, cut>>

\* Mutant: the detached sessions of the connection are not looked at.
HoldersLive(i) == Live(i)

\* matchingLeasesForWorkspace: the sessions whose leases a removal ends.
Holders(i) == Live(i) \cup Detached(i)

\* ConnectionWorkspaceGrantService.remove
PageRemove(i, w) ==
    /\ i \notin revoked
    /\ grants' = [grants EXCEPT ![i][w] = None]
    /\ leases' = leases \ LeasesOf(leases, Holders(i), w)
    /\ removed' = removed \cup {<<i, w>>}
    /\ UNCHANGED <<session, pending, yolo, grace, revoked, deleted, connectionYolo, cut>>

\* revokeWorkspace of a session, on the sessions page: the remembered grant is
\* forgotten, and the leases of the live sessions of its identity are revoked.
RevokeWorkspace(s, w) ==
    LET i == IdentityOf[s]
        G == IF i \in OAuth THEN [grants EXCEPT ![i][w] = None] ELSE grants
        L == ReadLeases(leases, G, Live(i))
    IN  /\ session[s] = "live"
        /\ grants' = G
        /\ leases' = L \ LeasesOf(L, Live(i), w)
        /\ pending' = pending \ Live(i)
        /\ UNCHANGED <<session, yolo, grace, revoked, deleted, connectionYolo, history>>

\* The workspace is deleted; w then stands for one that is registered later.
InvalidateWorkspace(w) ==
    /\ leases' = {l \in leases : l.workspace # w}
    /\ grants' = [i \in OAuth |-> [grants[i] EXCEPT ![w] = None]]
    /\ UNCHANGED <<session, pending, yolo, grace, revoked, deleted, connectionYolo, history>>

\* clearRememberedWorkspaceGrants
GrantsWithout(i) == [grants EXCEPT ![i] = [w \in Workspaces |-> None]]

\* revokeConnection: the operator revokes the whole connection.
RevokeConnection(i) ==
    /\ i \notin deleted
    /\ Drop(Live(i) \cup Detached(i))
    /\ grants' = GrantsWithout(i)
    /\ grace' = [grace EXCEPT ![i] = "none"]
    /\ revoked' = revoked \cup {i} /\ connectionYolo' = connectionYolo \ {i}
    /\ cut' = cut \cup {i}
    /\ UNCHANGED <<deleted, removed>>

\* A spent refresh token is presented again: the store revokes the connection
\* row and its credentials, and nothing else hears of it.
RefreshReplay(i) ==
    /\ i \notin revoked
    /\ revoked' = revoked \cup {i} /\ connectionYolo' = connectionYolo \ {i}
    /\ grace' = [grace EXCEPT ![i] = "none"]
    /\ UNCHANGED <<session, pending, leases, yolo, grants, deleted, history>>

\* The OAuth client of a connection is deleted, and its row with it.
ClientDeleted(i) ==
    /\ i \notin deleted
    /\ revoked' = revoked \cup {i} /\ deleted' = deleted \cup {i}
    /\ connectionYolo' = connectionYolo \ {i}
    /\ grace' = [grace EXCEPT ![i] = "none"]
    /\ UNCHANGED <<session, pending, leases, yolo, grants, history>>

\* setConnectionYolo: UPDATE ... WHERE status='ACTIVE'.
YoloAllowed(s) == IdentityOf[s] \notin revoked

EnableYolo(s) ==
    /\ session[s] = "live" /\ YoloAllowed(s)
    /\ IF IdentityOf[s] \in OAuth
       THEN connectionYolo' = connectionYolo \cup {IdentityOf[s]} /\ UNCHANGED yolo
       ELSE yolo' = yolo \cup {s} /\ UNCHANGED connectionYolo
    /\ UNCHANGED <<session, pending, leases, grants, grace, revoked, deleted, history>>

\* A detached session still names its connection.
DisableYolo(s) ==
    /\ session[s] \in {"live", "detached"} /\ YoloAllowed(s)
    /\ connectionYolo' = connectionYolo \ {IdentityOf[s]} /\ yolo' = yolo \ {s}
    /\ UNCHANGED <<session, pending, leases, grants, grace, revoked, deleted, history>>

\* The process stops, in whatever way, and starts again (invalidateForRestart).
Restart ==
    /\ session' = [s \in SessionIds |-> IF session[s] = "new" THEN "new" ELSE "gone"]
    /\ leases' = {} /\ pending' = {} /\ yolo' = {}
    /\ UNCHANGED <<connectionVars, history>>

Next ==
    \/ \E s \in SessionIds :
          \/ ReadSession(s) \/ Create(s) \/ ResolveExisting(s) \/ ResolveCreated(s)
          \/ Disconnect(s) \/ RevokeSession(s) \/ EnableYolo(s) \/ DisableYolo(s)
          \/ \E kept \in SUBSET Usable(leases) : ResolveResumed(s, kept)
    \/ \E s \in SessionIds, w \in Workspaces :
          RevokeWorkspace(s, w) \/ \E override \in Overrides \cup {None} : Admit(s, w, override)
    \/ \E l \in leases : LeaseLapses(l)
    \/ \E i \in OAuth : GracePasses(i) \/ RevokeConnection(i) \/ RefreshReplay(i)
                         \/ ClientDeleted(i)
    \/ \E i \in OAuth, w \in Workspaces :
          PageRemove(i, w) \/ \E p \in Profiles : GrantConnection(i, w, p) \/ PageGrant(i, w, p)
    \/ \E w \in Workspaces : InvalidateWorkspace(w)
    \/ ListSessions \/ Restart

Spec == Init /\ [][Next]_vars

-----------------------------------------------------------------------------
(* Safety *)

\* Every lease belongs to a session that is live or kept for its grace period,
\* and a session has one lease of a workspace at most: what a session may do
\* there never depends on which of two leases is found first.
LeasesWellFormed ==
    /\ \A l \in leases : session[l.session] \in {"live", "detached"}
    /\ \A k, l \in leases : k.session = l.session /\ k.workspace = l.workspace => k = l

\* A live session works under the profile of the connection's grant, even when
\* the grant was lowered while the session was away, unless the session was
\* admitted with a profile of its own ("Updating a profile replaces that
\* workspace's lease in all matching live sessions, including downgrades").
\* Where a mapping admits automatically, the first admission after a revocation
\* makes a grant that a lease resumed from before it need not follow.
GrantedProfileRules ==
    \A l \in leases :
        session[l.session] = "live" /\ ~l.once
            /\ AutoProfile[IdentityOf[l.session]][l.workspace] = None
        => Granted(grants, l.session, l.workspace) \in {None, l.profile}

\* A grant removed on the connection page is gone from every session of the
\* connection, and no reconnect, restart or late restore brings it back.
RemovedIsGone ==
    \A pair \in removed :
        /\ grants[pair[1]][pair[2]] = None
        /\ \A l \in leases : IdentityOf[l.session] = pair[1] => l.workspace # pair[2]

\* A connection the operator revoked has no session, no lease and no grant left,
\* and a decision that comes late gives it none.  (Once its client is deleted, a
\* late approval writes a grant, which no session can use.)
CutIsFinal ==
    \A i \in cut : /\ Live(i) \cup Detached(i) = {}
                   /\ i \notin deleted => \A w \in Workspaces : grants[i][w] = None
                   /\ \A l \in leases : IdentityOf[l.session] # i

\* "Connection revoked or refresh replay: ... invalidate live/detached access".
RevokedHasNoAccess == \A l \in leases : IdentityOf[l.session] \notin revoked

\* Elevated mode is never left with a revoked connection or an ended session.
YoloNeedsAuthority ==
    connectionYolo \cap revoked = {} /\ \A s \in yolo : session[s] = "live"

-----------------------------------------------------------------------------
(* Action properties *)

\* A session that resumes its connection has every workspace its predecessors
\* could use, so a client that changes its transport needs no new consent.
ReconnectKeepsAccess ==
    [][\A s \in SessionIds :
          session[s] = "new" /\ session'[s] = "live"
            /\ (\E d \in Detached(IdentityOf[s]) : session'[d] = "gone")
            /\ grace[IdentityOf[s]] = "running"
          => \A l \in leases :
                l.session \in Detached(IdentityOf[s]) /\ ~l.expired =>
                    \E m \in leases' : m.session = s /\ m.workspace = l.workspace]_vars

=============================================================================
