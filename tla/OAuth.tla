------------------------------- MODULE OAuth -------------------------------
(***************************************************************************)
(* The authorization server of the gateway and its store                   *)
(* (apps/core/src/auth, packages/store/src/oauth*.ts).                     *)
(*                                                                         *)
(* A client registers itself, opens an authorization request, and waits    *)
(* until the operator approves or denies it.  An approved request is       *)
(* turned into a code once, the code into a connection with an access      *)
(* token and, when renewable, a family of refresh tokens.  Each refresh    *)
(* token is spent by its use and replaced by the next one of the family;   *)
(* a spent one that comes back revokes the connection.                     *)
(*                                                                         *)
(* Everything is in SQLite.  Handlers are synchronous, but an exchange is  *)
(* several transactions, and the program may stop between two of them.     *)
(***************************************************************************)
EXTENDS Integers, Sequences, FiniteSets

CONSTANTS
    Clients,      \* client identifiers
    NameOf,       \* client_name of each; names may be shared
    Scopes,       \* sets of scopes a client may ask for
    MaxClients,   \* MAX_CLIENTS
    KeepPending,  \* pending requests kept for a client
    RequestTtl, CodeTtl, AccessTtl, RefreshTtl, ClientTtl,
    \* bounds
    MaxTime, MaxRequests, MaxCodes, MaxTokens

ASSUME TtlAssumption == {RequestTtl, CodeTtl, AccessTtl, RefreshTtl, ClientTtl} \subseteq Nat \ {0}
ASSUME LimitAssumption ==
    {MaxClients, KeepPending, MaxTime, MaxRequests, MaxCodes, MaxTokens} \subseteq Nat \ {0}

VARIABLES
    now,
    registered,  \* oauth_clients: created_at of each client, or Never
    requests,    \* oauth_authorization_requests, in the order of their rowids
    codes,       \* oauth_authorization_codes; the subject of a code is its index
    connection,  \* oauth_connections, by subject
    family,      \* oauth_refresh_families: each subject has one at most
    refresh,     \* oauth_refresh_tokens of each family, in the order of their making
    access,      \* oauth_access_tokens of each subject
    \* history
    presented,   \* the codes that were presented
    replayed     \* the subjects one of whose refresh tokens came back after its exchange

grantVars == <<connection, family, refresh, access>>
authHistory   == <<presented, replayed>>
authVars      == <<now, registered, requests, codes, grantVars, authHistory>>

Never    == -1
Gone     == [status |-> "GONE"]
Times    == 0 .. MaxTime + RequestTtl + CodeTtl + AccessTtl + RefreshTtl
Subjects == 1 .. MaxCodes

Requests == {Gone} \cup
    [status : {"PENDING", "APPROVED", "DENIED"}, client : Clients, scope : Scopes,
     renewable : BOOLEAN, expires : Times]
Codes == {Gone} \cup
    [status : {"ISSUED"}, client : Clients, scope : Scopes, renewable : BOOLEAN, expires : Times]
Connections == {Gone} \cup
    [status : {"ACTIVE", "REVOKED"}, client : Clients, scope : Scopes]
Families == {Gone} \cup [status : {"ACTIVE", "REVOKED"}, created : Times, expires : Times]
RefreshTokens == [status : {"ACTIVE", "SPENT", "REVOKED"}, scope : Scopes, expires : Times]
\* from: the refresh token it came with, 0 for the code.
AccessTokens  == [from : 0 .. MaxTokens, scope : Scopes, expires : Times]

AuthTypeOK ==
    /\ now \in 0 .. MaxTime
    /\ registered \in [Clients -> {Never} \cup Times]
    /\ requests \in Seq(Requests) /\ Len(requests) <= MaxRequests
    /\ codes \in Seq(Codes) /\ Len(codes) <= MaxCodes
    /\ connection \in [Subjects -> Connections]
    /\ family \in [Subjects -> Families]
    /\ refresh \in [Subjects -> Seq(RefreshTokens)]
    /\ access \in [Subjects -> SUBSET AccessTokens]
    /\ \A i \in Subjects : family[i] = Gone => refresh[i] = <<>>
    /\ \A i \in Subjects : family[i] # Gone => connection[i] # Gone

AuthInit ==
    /\ now = 0
    /\ registered = [c \in Clients |-> Never]
    /\ requests = <<>> /\ codes = <<>>
    /\ connection = [i \in Subjects |-> Gone]
    /\ family = [i \in Subjects |-> Gone]
    /\ refresh = [i \in Subjects |-> <<>>]
    /\ access = [i \in Subjects |-> {}]
    /\ presented = {} /\ replayed = {}

Status(row, s) == row.status = s
Lapsed(row)    == row.expires <= now

-----------------------------------------------------------------------------
(* Clients *)

Unconnected(c) == registered[c] # Never /\ \A i \in Subjects :
                      connection[i] # Gone => connection[i].client # c

Stale == {c \in Clients : Unconnected(c) /\ registered[c] < now - ClientTtl}

RoomFor(gone) == Cardinality({c \in Clients \ gone : Unconnected(c)}) < MaxClients

LostWith(gone, i) == connection[i] # Gone /\ connection[i].client \in gone

FamilyLeft(gone, i) == IF LostWith(gone, i) THEN Gone ELSE family[i]

\* The rows that reference a client go with it (ON DELETE CASCADE).
Cascade(gone) ==
    LET Left(row) == IF row # Gone /\ row.client \in gone THEN Gone ELSE row
    IN  /\ requests' = [r \in DOMAIN requests |-> Left(requests[r])]
        /\ codes' = [i \in DOMAIN codes |-> Left(codes[i])]
        /\ connection' = [i \in Subjects |-> Left(connection[i])]
        /\ family' = [i \in Subjects |-> FamilyLeft(gone, i)]
        /\ refresh' = [i \in Subjects |-> IF LostWith(gone, i) THEN <<>> ELSE refresh[i]]
        /\ access' = [i \in Subjects |-> IF LostWith(gone, i) THEN {} ELSE access[i]]

\* A client registers itself; stale ones go first, even if there is no room then.
Register(c) ==
    /\ registered[c] = Never
    /\ Cascade(Stale)
    /\ registered' = [d \in Clients |-> IF d = c /\ RoomFor(Stale) THEN now
                                        ELSE IF d \in Stale THEN Never ELSE registered[d]]
    /\ UNCHANGED <<now, authHistory>>

\* The operator deletes a client, or all of a name; those connected only by force.
DeleteClient(c, byName, force) ==
    LET gone == {d \in Clients : registered[d] # Never
                                 /\ (d = c \/ (byName /\ NameOf[d] = NameOf[c]))}
    IN  /\ registered[c] # Never
        /\ force \/ \A i \in Subjects : Status(connection[i], "ACTIVE") =>
                                            connection[i].client \notin gone
        /\ Cascade(gone)
        /\ registered' = [d \in Clients |-> IF d \in gone THEN Never ELSE registered[d]]
        /\ UNCHANGED <<now, authHistory>>

-----------------------------------------------------------------------------
(* Authorization requests *)

\* listPendingAuthorizationRequests deletes the pending requests that lapsed.
Swept(row) == IF Status(row, "PENDING") /\ Lapsed(row) THEN Gone ELSE row

\* The newest pending requests of a client are kept.
Trimmed(rows, c) ==
    [r \in DOMAIN rows |->
        LET after == {q \in r + 1 .. Len(rows) : Status(rows[q], "PENDING") /\ rows[q].client = c}
        IN  IF Status(rows[r], "PENDING") /\ rows[r].client = c /\ Cardinality(after) >= KeepPending
            THEN Gone ELSE rows[r]]

BeginAuthorization(c, scope) ==
    LET row == [status |-> "PENDING", client |-> c, scope |-> scope,
                renewable |-> TRUE, expires |-> now + RequestTtl]
    IN  /\ registered[c] # Never
        /\ Len(requests) < MaxRequests
        /\ requests' = Trimmed(Append([r \in DOMAIN requests |-> Swept(requests[r])], row), c)
        /\ UNCHANGED <<now, registered, codes, grantVars, authHistory>>

ListPending ==
    /\ requests' = [r \in DOMAIN requests |-> Swept(requests[r])]
    /\ UNCHANGED <<now, registered, codes, grantVars, authHistory>>

\* decideAuthorizationRequest: only a pending request is decided.
DecidedRow(row, s, renewable) ==
    IF Status(Swept(row), "PENDING")
    THEN [row EXCEPT !.status = s, !.renewable = renewable]
    ELSE Swept(row)

Decide(r, s, renewable) ==
    /\ r \in DOMAIN requests
    /\ requests' = [requests EXCEPT ![r] = DecidedRow(@, s, renewable)]
    /\ UNCHANGED <<now, registered, codes, grantVars, authHistory>>

Consumed(rows, r) == [rows EXCEPT ![r] = Gone]

\* issueAuthorizationCode: the browser of the client follows the approval.
ContinueAuthorization(r) ==
    /\ r \in DOMAIN requests
    /\ Status(requests[r], "APPROVED") /\ ~Lapsed(requests[r])
    /\ registered[requests[r].client] # Never
    /\ Len(codes) < MaxCodes
    /\ codes' = Append(codes, [requests[r] EXCEPT !.status = "ISSUED", !.expires = now + CodeTtl])
    /\ requests' = Consumed(requests, r)
    /\ UNCHANGED <<now, registered, grantVars, authHistory>>

-----------------------------------------------------------------------------
(* The code *)

\* The transactions of an exchange, in order: the last two, the rows of the family
\* and of its first token, are skipped when not renewable.
Steps == <<"consume", "connect", "access", "family", "refresh">>

\* Mutant: a code is consumed by the exchange that succeeds.
BurntLate(i, bound) == IF bound /\ ~Lapsed(codes[i]) THEN [codes EXCEPT ![i] = Gone] ELSE codes

\* consumeAuthorizationCode: the row is deleted before anything is verified.
Burnt(i, bound) == [codes EXCEPT ![i] = Gone]

\* exchangeAuthorizationCode up to step k: bound says that the client, the
\* redirect URI, the code verifier and the public URL are the ones of the code.
Exchange(i, bound, k) ==
    LET row == codes[i]
        ok  == ~Lapsed(row) /\ bound
        Done(s) == ok /\ \E n \in 1 .. k : Steps[n] = s
    IN  /\ i \in DOMAIN codes /\ row # Gone
        /\ connection' = [connection EXCEPT ![i] =
               IF Done("connect")
               THEN [status |-> "ACTIVE", client |-> row.client, scope |-> row.scope]
               ELSE @]
        /\ access' = [access EXCEPT ![i] =
               IF Done("access")
               THEN @ \cup {[from |-> 0, scope |-> row.scope, expires |-> now + AccessTtl]}
               ELSE @]
        /\ family' = [family EXCEPT ![i] =
               IF Done("family") /\ row.renewable
               THEN [status |-> "ACTIVE", created |-> now, expires |-> now + RefreshTtl]
               ELSE @]
        /\ refresh' = [refresh EXCEPT ![i] =
               IF Done("refresh") /\ row.renewable
               THEN <<[status |-> "ACTIVE", scope |-> row.scope, expires |-> now + RefreshTtl]>>
               ELSE @]
        /\ presented' = presented \cup {i}
        /\ UNCHANGED <<now, registered, replayed>>

ExchangeAuthorizationCode(i, bound) ==
    /\ Exchange(i, bound, Len(Steps))
    /\ codes' = Burnt(i, bound)
    /\ UNCHANGED requests

-----------------------------------------------------------------------------
(* Refresh tokens *)

\* revokeFamilyRows
RevokedFamily(f)  == [f EXCEPT !.status = "REVOKED"]
RevokedTokens(ts) == [n \in DOMAIN ts |-> [ts[n] EXCEPT !.status = "REVOKED"]]

RevokeFamily(i) ==
    /\ family' = [family EXCEPT ![i] = RevokedFamily(@)]
    /\ refresh' = [refresh EXCEPT ![i] = RevokedTokens(@)]

\* Mutant: a token that comes back revokes its family only.
AfterReplayKept(i) == connection[i]

AfterReplay(i) == [connection[i] EXCEPT !.status = "REVOKED"]

\* rotateRefreshTokenSecurely on a spent token.
Replay(i) ==
    /\ RevokeFamily(i)
    /\ connection' = [connection EXCEPT ![i] = AfterReplay(i)]
    /\ access' = [access EXCEPT ![i] = {}]

\* Mutant: the token stays usable.
SpentNot(t) == t

Spent(t) == [t EXCEPT !.status = "SPENT"]

\* The next token lives as long as its family.
Successor(i, n) ==
    [status |-> "ACTIVE", scope |-> refresh[i][n].scope, expires |-> family[i].expires]

Rotated(i, n) == Append([refresh[i] EXCEPT ![n] = Spent(@)], Successor(i, n))

Within(scope, t) == scope \subseteq t.scope

\* exchangeRefreshToken: token n of subject i is presented, for a scope; bound
\* says that the client and the public URL are the ones of the token.  completed is FALSE when the
\* program stops between the rotation and the access token.
ExchangeRefresh(i, n, bound, scope, completed) ==
    LET t == refresh[i][n]
    IN  /\ n \in DOMAIN refresh[i]
        /\ \/ /\ Lapsed(t)                                  \* findRefreshToken
              /\ RevokeFamily(i)
              /\ UNCHANGED <<connection, access>>
           \/ /\ ~Lapsed(t) /\ bound /\ Status(t, "SPENT")
              /\ Replay(i)
           \/ /\ ~Lapsed(t) /\ bound /\ Status(t, "ACTIVE") /\ Within(scope, t)
              /\ Status(family[i], "ACTIVE") /\ Len(refresh[i]) < MaxTokens
              /\ refresh' = [refresh EXCEPT ![i] = Rotated(i, n)]
              /\ access' = [access EXCEPT ![i] =
                     IF completed /\ Status(connection[i], "ACTIVE")
                     THEN @ \cup {[from |-> n, scope |-> scope, expires |-> now + AccessTtl]}
                     ELSE @]
              /\ UNCHANGED <<connection, family>>
        /\ replayed' = IF ~Lapsed(t) /\ bound /\ n < Len(refresh[i])
                       THEN replayed \cup {i} ELSE replayed
        /\ UNCHANGED <<now, registered, presented>>

ExchangeRefreshToken(i, n, bound, scope) ==
    ExchangeRefresh(i, n, bound, scope, TRUE) /\ UNCHANGED <<requests, codes>>

-----------------------------------------------------------------------------
(* Access tokens, revocation, restarts *)

\* findAccessToken deletes a token that lapsed.
DropLapsedAccess(i, t) ==
    /\ t \in access[i] /\ Lapsed(t)
    /\ access' = [access EXCEPT ![i] = @ \ {t}]
    /\ UNCHANGED <<now, registered, requests, codes, connection, family, refresh, authHistory>>

\* revokeToken, on an access token and on a refresh token.
RevokeAccessToken(i, t) ==
    /\ t \in access[i]
    /\ access' = [access EXCEPT ![i] = @ \ {t}]
    /\ UNCHANGED <<now, registered, requests, codes, connection, family, refresh, authHistory>>

RevokeRefreshToken(i, n) ==
    /\ n \in DOMAIN refresh[i] /\ Status(refresh[i][n], "ACTIVE")
    /\ refresh' = [refresh EXCEPT ![i][n].status = "REVOKED"]
    /\ UNCHANGED <<now, registered, requests, codes, connection, family, access, authHistory>>

\* revokeConnectionCredentials
RevokeCredentials(i) ==
    /\ connection[i] # Gone
    /\ IF family[i] # Gone THEN RevokeFamily(i) ELSE UNCHANGED <<family, refresh>>
    /\ access' = [access EXCEPT ![i] = {}]
    /\ connection' = [connection EXCEPT ![i].status = "REVOKED"]
    /\ UNCHANGED <<now, registered, requests, codes, authHistory>>

\* invalidateEphemeralForRestart
ForgetEphemeral ==
    /\ requests' = [r \in DOMAIN requests |-> Gone]
    /\ codes' = [i \in DOMAIN codes |-> Gone]

RestartAuth == ForgetEphemeral /\ UNCHANGED <<now, registered, grantVars, authHistory>>

\* The program stops between two transactions of an exchange, and starts again.
CrashInExchange(i, k) == k < Len(Steps) /\ Exchange(i, TRUE, k) /\ ForgetEphemeral

CrashInRefresh(i, n, scope) ==
    /\ ExchangeRefresh(i, n, TRUE, scope, FALSE)
    /\ Len(refresh'[i]) > Len(refresh[i])
    /\ ForgetEphemeral

Tick ==
    /\ now < MaxTime
    /\ now' = now + 1
    /\ UNCHANGED <<registered, requests, codes, grantVars, authHistory>>

ClientStep ==
    \/ \E c \in Clients : Register(c)
    \/ \E c \in Clients, scope \in Scopes : BeginAuthorization(c, scope)
    \/ \E r \in 1 .. MaxRequests : ContinueAuthorization(r)
    \/ \E i \in Subjects, bound \in BOOLEAN : ExchangeAuthorizationCode(i, bound)
    \/ \E i \in Subjects, n \in 1 .. MaxTokens, bound \in BOOLEAN, scope \in Scopes :
          ExchangeRefreshToken(i, n, bound, scope)
    \/ \E i \in Subjects : \E t \in access[i] : RevokeAccessToken(i, t) \/ DropLapsedAccess(i, t)
    \/ \E i \in Subjects, n \in 1 .. MaxTokens : RevokeRefreshToken(i, n)

OperatorStep ==
    \/ ListPending
    \/ \E r \in 1 .. MaxRequests, s \in {"APPROVED", "DENIED"}, renewable \in BOOLEAN :
          Decide(r, s, renewable)
    \/ \E c \in Clients, byName, force \in BOOLEAN : DeleteClient(c, byName, force)
    \/ \E i \in Subjects : RevokeCredentials(i)

AuthNext ==
    \/ ClientStep
    \/ OperatorStep
    \/ RestartAuth
    \/ \E i \in Subjects, k \in 1 .. Len(Steps) : CrashInExchange(i, k)
    \/ \E i \in Subjects, n \in 1 .. MaxTokens, scope \in Scopes : CrashInRefresh(i, n, scope)
    \/ Tick

AuthSpec == AuthInit /\ [][AuthNext]_authVars

-----------------------------------------------------------------------------
(* Properties *)

\* A family has one token that works at most, and it is the last one made.
OnlyLastTokenWorks ==
    \A i \in Subjects : \A n \in DOMAIN refresh[i] :
        Status(refresh[i][n], "ACTIVE") => n = Len(refresh[i])

\* A refresh token that comes back after its exchange ends the connection, and
\* nothing brings it back: not the rightful client, not a late exchange.  A connection
\* that ended so, by the operator or with its client, has no credential left.
ReplayEndsConnection ==
    /\ \A i \in replayed : ~Status(connection[i], "ACTIVE")
    /\ \A i \in Subjects : ~Status(connection[i], "ACTIVE") =>
          /\ access[i] = {}
          /\ ~Status(family[i], "ACTIVE")
          /\ \A n \in DOMAIN refresh[i] : ~Status(refresh[i][n], "ACTIVE")

\* A code is good for one attempt, failed ones included: a connection is made by
\* the first presentation of its code or never.
CodeIsSingleUse ==
    [][\A i \in Subjects : connection[i] = Gone /\ connection'[i] # Gone => i \notin presented]_authVars

=============================================================================
