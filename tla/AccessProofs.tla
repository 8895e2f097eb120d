---------------------------- MODULE AccessProofs ----------------------------
(***************************************************************************)
(* Proofs about who has access: the authorization server and its store     *)
(* (OAuth), and the sessions, leases and remembered grants of those it     *)
(* let in (Sessions).                                                      *)
(*                                                                         *)
(* OAuth: its types, that a family has one working refresh token, that a   *)
(* code works once, and that a replay ends the connection.  What ties them *)
(* together is that a code which was presented, or which made a            *)
(* connection, is gone (UsedCodesAreGone): a connection that ended has no  *)
(* code that could make it again.                                          *)
(*                                                                         *)
(* Sessions: for every number of sessions, connections, workspaces and     *)
(* profiles.  Restoration, rebinding, new decisions and the fan-out to all *)
(* sessions of a connection each keep one lease for each workspace; what   *)
(* is removed or revoked stays so.                                         *)
(***************************************************************************)
EXTENDS OAuth, Sessions, TLAPS

-----------------------------------------------------------------------------
(* The authorization server                                                *)

LEMMA Constants ==
    /\ RequestTtl \in Nat /\ CodeTtl \in Nat /\ AccessTtl \in Nat /\ RefreshTtl \in Nat
    /\ ClientTtl \in Nat
    /\ MaxClients \in Nat /\ KeepPending \in Nat /\ MaxTime \in Nat
    /\ MaxRequests \in Nat /\ MaxCodes \in Nat /\ MaxTokens \in Nat
BY TtlAssumption, LimitAssumption

\* Every lifetime that begins now ends at a time of the model.
LEMMA Lifetimes ==
    ASSUME now \in 0 .. MaxTime
    PROVE  /\ now \in Times
           /\ now + RequestTtl \in Times
           /\ now + CodeTtl \in Times
           /\ now + AccessTtl \in Times
           /\ now + RefreshTtl \in Times
BY Constants DEF Times

\* A row for every row is a table again.
LEMMA Mapped ==
    ASSUME NEW S, NEW T, NEW s \in Seq(S), NEW f \in [DOMAIN s -> T]
    PROVE  f \in Seq(T) /\ Len(f) = Len(s) /\ DOMAIN f = DOMAIN s
<1>1. DOMAIN s = 1 .. Len(s) /\ Len(s) \in Nat
  OBVIOUS
<1>2. f \in [1 .. Len(s) -> T]
  BY <1>1
<1>3. QED
  BY <1>1, <1>2

-----------------------------------------------------------------------------
(* Types *)

LEMMA CascadeType ==
    ASSUME AuthTypeOK, NEW gone, Cascade(gone)
    PROVE  /\ requests' \in Seq(Requests) /\ Len(requests') <= MaxRequests
           /\ codes' \in Seq(Codes) /\ Len(codes') <= MaxCodes
           /\ connection' \in [Subjects -> Connections]
           /\ family' \in [Subjects -> Families]
           /\ refresh' \in [Subjects -> Seq(RefreshTokens)]
           /\ access' \in [Subjects -> SUBSET AccessTokens]
           /\ \A i \in Subjects : family'[i] = Gone => refresh'[i] = <<>>
           /\ \A i \in Subjects : family'[i] # Gone => connection'[i] # Gone
<1> DEFINE Left(row) == IF row # Gone /\ row.client \in gone THEN Gone ELSE row
<1>1. requests' \in [DOMAIN requests -> Requests]
  <2>1. \A r \in DOMAIN requests : Left(requests[r]) \in Requests
    BY DEF AuthTypeOK, Requests
  <2>2. QED
    BY <2>1 DEF Cascade
<1>2. codes' \in [DOMAIN codes -> Codes]
  <2>1. \A i \in DOMAIN codes : Left(codes[i]) \in Codes
    BY DEF AuthTypeOK, Codes
  <2>2. QED
    BY <2>1 DEF Cascade
<1>3. \A i \in Subjects : Left(connection[i]) = IF LostWith(gone, i) THEN Gone ELSE connection[i]
  BY DEF LostWith
<1>4. connection' \in [Subjects -> Connections]
  BY <1>3 DEF AuthTypeOK, Cascade, Connections
<1>5. family' \in [Subjects -> Families]
  BY DEF AuthTypeOK, Cascade, FamilyLeft, Families
<1>6. refresh' \in [Subjects -> Seq(RefreshTokens)]
  BY DEF AuthTypeOK, Cascade
<1>7. access' \in [Subjects -> SUBSET AccessTokens]
  BY DEF AuthTypeOK, Cascade
<1>8. \A i \in Subjects : family'[i] = Gone => refresh'[i] = <<>>
  BY DEF AuthTypeOK, Cascade, FamilyLeft
<1>9. \A i \in Subjects : family'[i] # Gone => connection'[i] # Gone
  BY <1>3 DEF AuthTypeOK, Cascade, FamilyLeft
<1>10. QED
  BY <1>1, <1>2, <1>4, <1>5, <1>6, <1>7, <1>8, <1>9, Mapped DEF AuthTypeOK

LEMMA RegisterType == ASSUME AuthTypeOK, NEW c \in Clients, Register(c) PROVE AuthTypeOK'
<1>1. Cascade(Stale)
  BY DEF Register
<1>2. registered' \in [Clients -> {Never} \cup Times]
  BY Lifetimes DEF AuthTypeOK, Register
<1>3. now' \in 0 .. MaxTime
  BY DEF AuthTypeOK, Register
<1>4. QED
  BY <1>1, <1>2, <1>3, CascadeType DEF AuthTypeOK

LEMMA DeleteClientType ==
    ASSUME AuthTypeOK, NEW c \in Clients, NEW byName \in BOOLEAN, NEW force \in BOOLEAN,
           DeleteClient(c, byName, force)
    PROVE  AuthTypeOK'
<1> DEFINE gone == {d \in Clients : registered[d] # Never
                                    /\ (d = c \/ (byName /\ NameOf[d] = NameOf[c]))}
<1>1. Cascade(gone)
  BY DEF DeleteClient
<1>2. registered' \in [Clients -> {Never} \cup Times]
  BY DEF AuthTypeOK, DeleteClient
<1>3. now' \in 0 .. MaxTime
  BY DEF AuthTypeOK, DeleteClient
<1> HIDE DEF gone
<1>4. QED
  BY <1>1, <1>2, <1>3, CascadeType DEF AuthTypeOK

LEMMA SweptType ==
    ASSUME NEW rows \in Seq(Requests)
    PROVE  /\ [r \in DOMAIN rows |-> Swept(rows[r])] \in Seq(Requests)
           /\ Len([r \in DOMAIN rows |-> Swept(rows[r])]) = Len(rows)
<1>1. \A r \in DOMAIN rows : Swept(rows[r]) \in Requests
  BY DEF Swept, Requests
<1>2. QED
  BY <1>1, Mapped

LEMMA TrimmedType ==
    ASSUME NEW rows \in Seq(Requests), NEW c
    PROVE  Trimmed(rows, c) \in Seq(Requests) /\ Len(Trimmed(rows, c)) = Len(rows)
<1>1. Trimmed(rows, c) \in [DOMAIN rows -> Requests]
  BY DEF Trimmed, Requests
<1>2. QED
  BY <1>1, Mapped

LEMMA BeginAuthorizationType ==
    ASSUME AuthTypeOK, NEW c \in Clients, NEW scope \in Scopes, BeginAuthorization(c, scope)
    PROVE  AuthTypeOK'
<1> DEFINE row == [status |-> "PENDING", client |-> c, scope |-> scope,
                   renewable |-> TRUE, expires |-> now + RequestTtl]
           rows == [r \in DOMAIN requests |-> Swept(requests[r])]
<1>1. row \in Requests
  BY Lifetimes DEF AuthTypeOK, Requests
<1>2. rows \in Seq(Requests) /\ Len(rows) = Len(requests)
  BY SweptType DEF AuthTypeOK
<1>3. requests' = Trimmed(Append(rows, row), c) /\ Len(requests) < MaxRequests
  BY DEF BeginAuthorization
<1>4. UNCHANGED <<now, registered, codes, grantVars>>
  BY DEF BeginAuthorization
<1> HIDE DEF rows, row
<1>5. Append(rows, row) \in Seq(Requests) /\ Len(Append(rows, row)) = Len(requests) + 1
  BY <1>1, <1>2
<1>6. requests' \in Seq(Requests) /\ Len(requests') = Len(requests) + 1
  BY <1>3, <1>5, TrimmedType
<1>7. Len(requests') <= MaxRequests
  BY <1>3, <1>6, Constants DEF AuthTypeOK
<1>8. QED
  BY <1>4, <1>6, <1>7 DEF AuthTypeOK, grantVars

LEMMA ListPendingType == ASSUME AuthTypeOK, ListPending PROVE AuthTypeOK'
BY SweptType DEF AuthTypeOK, ListPending, grantVars

LEMMA DecideType ==
    ASSUME AuthTypeOK, NEW r, NEW s \in {"APPROVED", "DENIED"}, NEW renewable \in BOOLEAN,
           Decide(r, s, renewable)
    PROVE  AuthTypeOK'
<1>1. DecidedRow(requests[r], s, renewable) \in Requests
  <2>1. requests[r] \in Requests
    BY DEF AuthTypeOK, Decide
  <2>2. CASE Status(Swept(requests[r]), "PENDING")
    <3>1. requests[r] # Gone
      BY <2>2 DEF Swept, Status, Gone
    <3>2. QED
      BY <2>1, <2>2, <3>1 DEF DecidedRow, Requests
  <2>3. CASE ~Status(Swept(requests[r]), "PENDING")
    BY <2>1, <2>3 DEF DecidedRow, Swept, Requests
  <2>4. QED
    BY <2>2, <2>3
<1>2. requests' \in Seq(Requests) /\ Len(requests') = Len(requests)
  BY <1>1 DEF AuthTypeOK, Decide
<1>3. QED
  BY <1>2 DEF AuthTypeOK, Decide, grantVars

LEMMA ContinueAuthorizationType ==
    ASSUME AuthTypeOK, NEW r, ContinueAuthorization(r)
    PROVE  AuthTypeOK'
<1> DEFINE code == [requests[r] EXCEPT !.status = "ISSUED", !.expires = now + CodeTtl]
<1>1. code \in Codes
  <2>1. requests[r] \in Requests /\ requests[r] # Gone
    BY DEF AuthTypeOK, ContinueAuthorization, Status, Gone
  <2>2. now + CodeTtl \in Times
    BY Lifetimes DEF AuthTypeOK
  <2>3. QED
    BY <2>1, <2>2 DEF Requests, Codes
<1>2. codes' = Append(codes, code) /\ Len(codes) < MaxCodes
  BY DEF ContinueAuthorization
<1> HIDE DEF code
<1>3. codes' \in Seq(Codes) /\ Len(codes') <= MaxCodes
  BY <1>1, <1>2, Constants DEF AuthTypeOK
<1>4. requests' \in Seq(Requests) /\ Len(requests') = Len(requests)
  BY DEF AuthTypeOK, ContinueAuthorization, Consumed, Requests
<1>5. QED
  BY <1>3, <1>4 DEF AuthTypeOK, ContinueAuthorization, grantVars

\* The transactions of an exchange are made in their order.
LEMMA InOrder ==
    ASSUME NEW k \in 1 .. Len(Steps)
    PROVE  /\ (\E n \in 1 .. k : Steps[n] = "refresh") => \E n \in 1 .. k : Steps[n] = "connect"
           /\ (\E n \in 1 .. k : Steps[n] = "family") => \E n \in 1 .. k : Steps[n] = "connect"
           /\ (\E n \in 1 .. k : Steps[n] = "refresh") => \E n \in 1 .. k : Steps[n] = "family"
           /\ (\E n \in 1 .. k : Steps[n] = "access") => \E n \in 1 .. k : Steps[n] = "connect"
<1>1. k \in 1 .. 5
  BY DEF Steps
<1>2. /\ Steps[1] = "consume" /\ Steps[2] = "connect" /\ Steps[3] = "access"
      /\ Steps[4] = "family" /\ Steps[5] = "refresh"
  BY DEF Steps
<1>3. QED
  BY <1>1, <1>2

LEMMA ExchangeType ==
    ASSUME AuthTypeOK, NEW i \in Subjects, NEW bound \in BOOLEAN, NEW k \in 1 .. Len(Steps),
           Exchange(i, bound, k)
    PROVE  /\ connection' \in [Subjects -> Connections]
           /\ family' \in [Subjects -> Families]
           /\ refresh' \in [Subjects -> Seq(RefreshTokens)]
           /\ access' \in [Subjects -> SUBSET AccessTokens]
           /\ \A j \in Subjects : family'[j] = Gone => refresh'[j] = <<>>
           /\ \A j \in Subjects : family'[j] # Gone => connection'[j] # Gone
           /\ UNCHANGED <<now, registered>>
<1> DEFINE row == codes[i]
           ok == ~Lapsed(row) /\ bound
           Ran(s) == ok /\ \E n \in 1 .. k : Steps[n] = s
           opened == [status |-> "ACTIVE", client |-> row.client, scope |-> row.scope]
           token == [from |-> 0, scope |-> row.scope, expires |-> now + AccessTtl]
           begun == [status |-> "ACTIVE", created |-> now, expires |-> now + RefreshTtl]
           first == [status |-> "ACTIVE", scope |-> row.scope, expires |-> now + RefreshTtl]
<1>1. row.client \in Clients /\ row.scope \in Scopes
  BY DEF AuthTypeOK, Exchange, Codes
<1>2. /\ opened \in Connections /\ begun \in Families
      /\ first \in RefreshTokens /\ token \in AccessTokens
  BY <1>1, Lifetimes, Constants DEF AuthTypeOK, Connections, Families, RefreshTokens, AccessTokens
<1>3. opened # Gone /\ begun # Gone
  BY DEF Gone
<1>4. (Ran("family") => Ran("connect")) /\ (Ran("refresh") => Ran("family"))
  BY InOrder
<1>5. /\ connection' = [connection EXCEPT ![i] = IF Ran("connect") THEN opened ELSE @]
      /\ access' = [access EXCEPT ![i] = IF Ran("access") THEN @ \cup {token} ELSE @]
      /\ family' = [family EXCEPT ![i] = IF Ran("family") /\ row.renewable THEN begun ELSE @]
      /\ refresh' =
            [refresh EXCEPT ![i] = IF Ran("refresh") /\ row.renewable THEN <<first>> ELSE @]
      /\ UNCHANGED <<now, registered>>
  BY DEF Exchange
<1> HIDE DEF opened, token, begun, first
<1>6. <<first>> \in Seq(RefreshTokens) /\ <<first>> # <<>>
  BY <1>2
<1>7. /\ connection' \in [Subjects -> Connections]
      /\ family' \in [Subjects -> Families]
      /\ refresh' \in [Subjects -> Seq(RefreshTokens)]
      /\ access' \in [Subjects -> SUBSET AccessTokens]
  BY <1>2, <1>5, <1>6 DEF AuthTypeOK
<1>8. \A j \in Subjects : family'[j] = Gone => refresh'[j] = <<>>
  BY <1>3, <1>4, <1>5, <1>6 DEF AuthTypeOK
<1>9. \A j \in Subjects : family'[j] # Gone => connection'[j] # Gone
  BY <1>3, <1>4, <1>5 DEF AuthTypeOK
<1>10. QED
  BY <1>5, <1>7, <1>8, <1>9

LEMMA ExchangeAuthorizationCodeType ==
    ASSUME AuthTypeOK, NEW i \in Subjects, NEW bound \in BOOLEAN, ExchangeAuthorizationCode(i, bound)
    PROVE  AuthTypeOK'
<1>1. Exchange(i, bound, Len(Steps)) /\ Len(Steps) \in 1 .. Len(Steps)
  BY DEF ExchangeAuthorizationCode, Steps
<1>2. codes' \in Seq(Codes) /\ Len(codes') = Len(codes)
  BY DEF AuthTypeOK, ExchangeAuthorizationCode, Exchange, Burnt, Codes
<1>3. QED
  BY <1>1, <1>2, ExchangeType DEF AuthTypeOK, ExchangeAuthorizationCode

LEMMA ForgetEphemeralType ==
    ASSUME AuthTypeOK, ForgetEphemeral
    PROVE  /\ requests' \in Seq(Requests) /\ Len(requests') <= MaxRequests
           /\ codes' \in Seq(Codes) /\ Len(codes') <= MaxCodes
           /\ DOMAIN codes' = DOMAIN codes
           /\ \A i \in DOMAIN codes' : codes'[i] = Gone
<1>1. requests' \in [DOMAIN requests -> Requests] /\ codes' \in [DOMAIN codes -> Codes]
  BY DEF ForgetEphemeral, Requests, Codes
<1>2. \A i \in DOMAIN codes' : codes'[i] = Gone
  BY DEF ForgetEphemeral
<1>3. QED
  BY <1>1, <1>2, Mapped DEF AuthTypeOK

LEMMA CrashInExchangeType ==
    ASSUME AuthTypeOK, NEW i \in Subjects, NEW k \in 1 .. Len(Steps), CrashInExchange(i, k)
    PROVE  AuthTypeOK'
BY ExchangeType, ForgetEphemeralType DEF AuthTypeOK, CrashInExchange

\* A family that is revoked keeps its rows.
LEMMA RevokeFamilyType ==
    ASSUME AuthTypeOK, NEW i \in Subjects, family[i] # Gone, RevokeFamily(i)
    PROVE  /\ family' \in [Subjects -> Families]
           /\ refresh' \in [Subjects -> Seq(RefreshTokens)]
           /\ family' = [family EXCEPT ![i] = RevokedFamily(family[i])]
           /\ refresh' = [refresh EXCEPT ![i] = RevokedTokens(refresh[i])]
           /\ RevokedFamily(family[i]).status = "REVOKED"
           /\ DOMAIN refresh'[i] = DOMAIN refresh[i]
           /\ \A n \in DOMAIN refresh'[i] : refresh'[i][n].status = "REVOKED"
           /\ \A j \in Subjects : family'[j] = Gone => refresh'[j] = <<>>
           /\ \A j \in Subjects : family'[j] = Gone <=> family[j] = Gone
<1>1. RevokedFamily(family[i]) \in Families /\ RevokedFamily(family[i]).status = "REVOKED"
  BY DEF AuthTypeOK, Families, RevokedFamily
<1>2. RevokedFamily(family[i]) # Gone
  BY <1>1 DEF Gone
<1>3. refresh[i] \in Seq(RefreshTokens)
  BY DEF AuthTypeOK
<1>4. /\ RevokedTokens(refresh[i]) \in [DOMAIN refresh[i] -> RefreshTokens]
      /\ \A n \in DOMAIN refresh[i] : RevokedTokens(refresh[i])[n].status = "REVOKED"
  <2>1. ASSUME NEW n \in DOMAIN refresh[i]
        PROVE  /\ [refresh[i][n] EXCEPT !.status = "REVOKED"] \in RefreshTokens
               /\ [refresh[i][n] EXCEPT !.status = "REVOKED"].status = "REVOKED"
    <3>1. refresh[i][n] \in RefreshTokens
      BY <1>3, <2>1
    <3>2. QED
      BY <3>1 DEF RefreshTokens
  <2>2. QED
    BY <2>1 DEF RevokedTokens
<1>5. /\ RevokedTokens(refresh[i]) \in Seq(RefreshTokens)
      /\ Len(RevokedTokens(refresh[i])) = Len(refresh[i])
      /\ DOMAIN RevokedTokens(refresh[i]) = DOMAIN refresh[i]
  BY <1>3, <1>4, Mapped
<1>6. /\ family' = [family EXCEPT ![i] = RevokedFamily(family[i])]
      /\ refresh' = [refresh EXCEPT ![i] = RevokedTokens(refresh[i])]
  BY DEF RevokeFamily
<1> HIDE DEF RevokedFamily, RevokedTokens
<1>7. QED
  BY <1>1, <1>2, <1>3, <1>4, <1>5, <1>6 DEF AuthTypeOK

LEMMA ExchangeRefreshType ==
    ASSUME AuthTypeOK, NEW i \in Subjects, NEW n \in 1 .. MaxTokens, NEW bound \in BOOLEAN,
           NEW scope \in Scopes, NEW completed \in BOOLEAN,
           ExchangeRefresh(i, n, bound, scope, completed)
    PROVE  /\ connection' \in [Subjects -> Connections]
           /\ family' \in [Subjects -> Families]
           /\ refresh' \in [Subjects -> Seq(RefreshTokens)]
           /\ access' \in [Subjects -> SUBSET AccessTokens]
           /\ \A j \in Subjects : family'[j] = Gone => refresh'[j] = <<>>
           /\ \A j \in Subjects : family'[j] # Gone => connection'[j] # Gone
           /\ UNCHANGED <<now, registered>>
<1> DEFINE t == refresh[i][n]
<1>1. /\ refresh[i] \in Seq(RefreshTokens) /\ n \in DOMAIN refresh[i] /\ refresh[i] # <<>>
      /\ t \in RefreshTokens
  BY DEF AuthTypeOK, ExchangeRefresh
<1>2. family[i] # Gone /\ connection[i] # Gone
  BY <1>1 DEF AuthTypeOK
<1>3. UNCHANGED <<now, registered>>
  BY DEF ExchangeRefresh
<1>4. CASE RevokeFamily(i) /\ UNCHANGED <<connection, access>>
  BY <1>2, <1>3, <1>4, RevokeFamilyType DEF AuthTypeOK
<1>5. CASE Replay(i)
  <2>1. AfterReplay(i) \in Connections /\ AfterReplay(i) # Gone
    BY <1>2 DEF AuthTypeOK, AfterReplay, Connections, Gone
  <2>2. connection' = [connection EXCEPT ![i] = AfterReplay(i)]
        /\ access' = [access EXCEPT ![i] = {}] /\ RevokeFamily(i)
    BY <1>5 DEF Replay
  <2> HIDE DEF AfterReplay
  <2>3. QED
    BY <1>2, <1>3, <2>1, <2>2, RevokeFamilyType DEF AuthTypeOK
<1>6. CASE /\ refresh' = [refresh EXCEPT ![i] = Rotated(i, n)]
           /\ access' = [access EXCEPT ![i] =
                  IF completed /\ Status(connection[i], "ACTIVE")
                  THEN @ \cup {[from |-> n, scope |-> scope, expires |-> now + AccessTtl]}
                  ELSE @]
           /\ UNCHANGED <<connection, family>>
  <2>1. Rotated(i, n) \in Seq(RefreshTokens) /\ Rotated(i, n) # <<>>
    <3>1. Spent(t) \in RefreshTokens /\ Successor(i, n) \in RefreshTokens
      BY <1>1, <1>2 DEF AuthTypeOK, Spent, Successor, RefreshTokens, Families
    <3>2. [refresh[i] EXCEPT ![n] = Spent(@)] \in Seq(RefreshTokens)
      BY <1>1, <3>1
    <3>3. QED
      BY <3>1, <3>2 DEF Rotated
  <2>2. [from |-> n, scope |-> scope, expires |-> now + AccessTtl] \in AccessTokens
    BY Lifetimes, Constants DEF AuthTypeOK, AccessTokens
  <2>3. access' \in [Subjects -> SUBSET AccessTokens]
    BY <1>6, <2>2 DEF AuthTypeOK
  <2>4. QED
    BY <1>2, <1>3, <1>6, <2>1, <2>3 DEF AuthTypeOK
<1>7. QED
  BY <1>4, <1>5, <1>6 DEF ExchangeRefresh

LEMMA ExchangeRefreshTokenType ==
    ASSUME AuthTypeOK, NEW i \in Subjects, NEW n \in 1 .. MaxTokens, NEW bound \in BOOLEAN,
           NEW scope \in Scopes, ExchangeRefreshToken(i, n, bound, scope)
    PROVE  AuthTypeOK'
BY ExchangeRefreshType DEF AuthTypeOK, ExchangeRefreshToken

LEMMA CrashInRefreshType ==
    ASSUME AuthTypeOK, NEW i \in Subjects, NEW n \in 1 .. MaxTokens, NEW scope \in Scopes,
           CrashInRefresh(i, n, scope)
    PROVE  AuthTypeOK'
BY ExchangeRefreshType, ForgetEphemeralType DEF AuthTypeOK, CrashInRefresh

LEMMA RevokeConnectionType ==
    ASSUME AuthTypeOK, NEW i \in Subjects, RevokeCredentials(i)
    PROVE  AuthTypeOK'
<1> DEFINE ended == [connection[i] EXCEPT !.status = "REVOKED"]
<1>1. ended \in Connections /\ ended # Gone
  BY DEF AuthTypeOK, RevokeCredentials, Connections, Gone
<1>2. /\ connection' = [connection EXCEPT ![i] = ended]
      /\ access' = [access EXCEPT ![i] = {}]
      /\ UNCHANGED <<now, registered, requests, codes>>
      /\ IF family[i] # Gone THEN RevokeFamily(i) ELSE UNCHANGED <<family, refresh>>
  BY DEF RevokeCredentials
<1> HIDE DEF ended
<1>3. QED
  BY <1>1, <1>2, RevokeFamilyType DEF AuthTypeOK

LEMMA RevokeRefreshTokenType ==
    ASSUME AuthTypeOK, NEW i \in Subjects, NEW n, RevokeRefreshToken(i, n)
    PROVE  AuthTypeOK'
<1> DEFINE t == [refresh[i][n] EXCEPT !.status = "REVOKED"]
<1>1. refresh[i] \in Seq(RefreshTokens) /\ n \in DOMAIN refresh[i]
  BY DEF AuthTypeOK, RevokeRefreshToken
<1>2. t \in RefreshTokens
  <2>1. refresh[i][n] \in RefreshTokens
    BY <1>1
  <2>2. QED
    BY <2>1 DEF RefreshTokens
<1>3. refresh' = [refresh EXCEPT ![i] = [refresh[i] EXCEPT ![n] = t]]
  BY DEF RevokeRefreshToken
<1> HIDE DEF t
<1>4. /\ [refresh[i] EXCEPT ![n] = t] \in Seq(RefreshTokens)
      /\ [refresh[i] EXCEPT ![n] = t] # <<>> /\ refresh[i] # <<>>
  BY <1>1, <1>2
<1>5. QED
  BY <1>3, <1>4 DEF AuthTypeOK, RevokeRefreshToken

LEMMA NextAuthTypes == AuthTypeOK /\ [AuthNext]_authVars => AuthTypeOK'
<1> SUFFICES ASSUME AuthTypeOK, [AuthNext]_authVars PROVE AuthTypeOK'
  OBVIOUS
<1>1. CASE ClientStep
  <2>1. ASSUME NEW i \in Subjects, NEW t \in access[i],
               RevokeAccessToken(i, t) \/ DropLapsedAccess(i, t)
        PROVE  AuthTypeOK'
    BY <2>1 DEF AuthTypeOK, RevokeAccessToken, DropLapsedAccess
  <2>2. QED
    BY <1>1, <2>1, RegisterType, BeginAuthorizationType, ContinueAuthorizationType,
       ExchangeAuthorizationCodeType, ExchangeRefreshTokenType, RevokeRefreshTokenType
       DEF ClientStep
<1>2. CASE OperatorStep
  BY <1>2, ListPendingType, DecideType, DeleteClientType, RevokeConnectionType DEF OperatorStep
<1>3. CASE RestartAuth
  BY <1>3, ForgetEphemeralType DEF AuthTypeOK, RestartAuth, grantVars
<1>4. CASE Tick
  BY <1>4, Constants DEF AuthTypeOK, Tick, grantVars
<1>5. CASE UNCHANGED authVars
  BY <1>5 DEF AuthTypeOK, authVars, grantVars
<1>6. QED
  BY <1>1, <1>2, <1>3, <1>4, <1>5, CrashInExchangeType, CrashInRefreshType DEF AuthNext

LEMMA InitAuthTypes == AuthInit => AuthTypeOK
<1> SUFFICES ASSUME AuthInit PROVE AuthTypeOK
  OBVIOUS
<1>1. now \in 0 .. MaxTime /\ Len(requests) <= MaxRequests /\ Len(codes) <= MaxCodes
  BY Constants DEF AuthInit
<1>2. QED
  BY <1>1 DEF AuthInit, AuthTypeOK, Connections, Families

\* Every table keeps its type, and a family of refresh tokens never outlives its connection.
THEOREM AuthTypeCorrect == AuthSpec => []AuthTypeOK
<1>1. QED
  BY InitAuthTypes, NextAuthTypes, PTL DEF AuthSpec

-----------------------------------------------------------------------------
(* The last refresh token *)

LEMMA RevokedFamilyHasOne ==
    ASSUME AuthTypeOK, OnlyLastTokenWorks, NEW i \in Subjects, family[i] # Gone, RevokeFamily(i)
    PROVE  OnlyLastTokenWorks'
BY RevokeFamilyType DEF AuthTypeOK, OnlyLastTokenWorks, Status

\* A rotation spends the token that worked, which was the last one, and appends the next.
LEMMA RotatedHasOne ==
    ASSUME AuthTypeOK, OnlyLastTokenWorks, NEW i \in Subjects, NEW n \in DOMAIN refresh[i],
           Status(refresh[i][n], "ACTIVE"), family[i] # Gone,
           refresh' = [refresh EXCEPT ![i] = Rotated(i, n)]
    PROVE  OnlyLastTokenWorks'
<1>1. refresh[i] \in Seq(RefreshTokens) /\ n = Len(refresh[i]) /\ n \in Nat \ {0}
  BY DEF AuthTypeOK, OnlyLastTokenWorks
<1>2. Spent(refresh[i][n]) \in RefreshTokens /\ Spent(refresh[i][n]).status = "SPENT"
  <2>1. refresh[i][n] \in RefreshTokens
    BY <1>1
  <2>2. QED
    BY <2>1 DEF Spent, RefreshTokens
<1> DEFINE replaced == [refresh[i] EXCEPT ![n] = Spent(refresh[i][n])]
<1>3. /\ replaced \in Seq(RefreshTokens) /\ Len(replaced) = n
      /\ \A m \in 1 .. n : replaced[m].status # "ACTIVE"
  BY <1>1, <1>2 DEF OnlyLastTokenWorks, Status
<1>4. Rotated(i, n) = Append(replaced, Successor(i, n))
  BY DEF Rotated
<1>5. Successor(i, n) \in RefreshTokens
  <2>1. refresh[i][n] \in RefreshTokens
    BY <1>1
  <2>2. QED
    BY <2>1 DEF AuthTypeOK, Successor, RefreshTokens, Families
<1> HIDE DEF replaced
<1>6. /\ DOMAIN Rotated(i, n) = 1 .. n + 1 /\ Len(Rotated(i, n)) = n + 1
      /\ \A m \in 1 .. n : Rotated(i, n)[m].status # "ACTIVE"
  BY <1>1, <1>3, <1>4, <1>5
<1>7. QED
  BY <1>1, <1>6 DEF AuthTypeOK, OnlyLastTokenWorks, Status

LEMMA NextOnlyLastTokenWorks ==
    AuthTypeOK /\ OnlyLastTokenWorks /\ [AuthNext]_authVars => OnlyLastTokenWorks'
<1> SUFFICES ASSUME AuthTypeOK, OnlyLastTokenWorks, [AuthNext]_authVars PROVE OnlyLastTokenWorks'
  OBVIOUS
<1>1. ASSUME NEW gone, Cascade(gone) PROVE OnlyLastTokenWorks'
  BY <1>1 DEF AuthTypeOK, Cascade, OnlyLastTokenWorks, Status
<1>2. ASSUME NEW i \in Subjects, NEW bound, NEW k, Exchange(i, bound, k) PROVE OnlyLastTokenWorks'
  <2> DEFINE first == <<[status |-> "ACTIVE", scope |-> codes[i].scope,
                         expires |-> now + RefreshTtl]>>
  <2>1. DOMAIN first = {1} /\ Len(first) = 1
    OBVIOUS
  <2>2. refresh' = [refresh EXCEPT ![i] = first] \/ refresh' = refresh
    BY <1>2 DEF AuthTypeOK, Exchange
  <2> HIDE DEF first
  <2>3. \A j \in Subjects : refresh'[j] = first \/ refresh'[j] = refresh[j]
    BY <2>2 DEF AuthTypeOK
  <2>4. QED
    BY <2>1, <2>3 DEF OnlyLastTokenWorks
<1>3. ASSUME NEW i \in Subjects, NEW n, NEW bound, NEW scope, NEW completed,
             ExchangeRefresh(i, n, bound, scope, completed)
      PROVE  OnlyLastTokenWorks'
  <2>1. n \in DOMAIN refresh[i] /\ family[i] # Gone
    BY <1>3 DEF AuthTypeOK, ExchangeRefresh
  <2>2. CASE RevokeFamily(i)
    BY <2>1, <2>2, RevokedFamilyHasOne
  <2>3. CASE Status(refresh[i][n], "ACTIVE") /\ refresh' = [refresh EXCEPT ![i] = Rotated(i, n)]
    BY <2>1, <2>3, RotatedHasOne
  <2>4. QED
    BY <1>3, <2>2, <2>3 DEF ExchangeRefresh, Replay
<1>4. ASSUME NEW i \in Subjects, NEW n, RevokeRefreshToken(i, n) PROVE OnlyLastTokenWorks'
  <2> DEFINE t == [refresh[i][n] EXCEPT !.status = "REVOKED"]
  <2>1. refresh[i] \in Seq(RefreshTokens) /\ n \in DOMAIN refresh[i]
    BY <1>4 DEF AuthTypeOK, RevokeRefreshToken
  <2>2. t \in RefreshTokens /\ t.status = "REVOKED"
    <3>1. refresh[i][n] \in RefreshTokens
      BY <2>1
    <3>2. QED
      BY <3>1 DEF RefreshTokens
  <2>3. refresh' = [refresh EXCEPT ![i] = [refresh[i] EXCEPT ![n] = t]]
    BY <1>4 DEF RevokeRefreshToken
  <2> HIDE DEF t
  <2>4. QED
    BY <2>1, <2>2, <2>3 DEF AuthTypeOK, OnlyLastTokenWorks, Status
<1>5. ASSUME NEW i \in Subjects, RevokeCredentials(i) PROVE OnlyLastTokenWorks'
  BY <1>5, RevokedFamilyHasOne DEF RevokeCredentials, OnlyLastTokenWorks
<1>6. CASE UNCHANGED refresh
  BY <1>6 DEF OnlyLastTokenWorks
<1>7. CASE ClientStep
  <2>1. ASSUME NEW c \in Clients, Register(c) PROVE OnlyLastTokenWorks'
    BY <1>1, <2>1 DEF Register
  <2>2. QED
    BY <1>2, <1>3, <1>4, <1>6, <1>7, <2>1
       DEF ClientStep, BeginAuthorization, ContinueAuthorization, ExchangeAuthorizationCode,
           ExchangeRefreshToken, RevokeAccessToken, DropLapsedAccess, grantVars
<1>8. CASE OperatorStep
  <2>1. ASSUME NEW c \in Clients, NEW byName, NEW force, DeleteClient(c, byName, force)
        PROVE  OnlyLastTokenWorks'
    BY <1>1, <2>1 DEF DeleteClient
  <2>2. QED
    BY <1>5, <1>6, <1>8, <2>1 DEF OperatorStep, ListPending, Decide, grantVars
<1>9. QED
  BY <1>2, <1>3, <1>6, <1>7, <1>8
     DEF AuthNext, RestartAuth, CrashInExchange, CrashInRefresh, Tick, authVars, grantVars

\* However often refresh tokens are used, replayed, revoked or lost in a crash, a family has one
\* token that works at most, the last one made.
THEOREM OneTokenWorks == AuthSpec => []OnlyLastTokenWorks
<1>1. AuthInit => OnlyLastTokenWorks
  BY DEF AuthInit, OnlyLastTokenWorks
<1>2. QED
  BY <1>1, InitAuthTypes, NextAuthTypes, NextOnlyLastTokenWorks, PTL DEF AuthSpec

-----------------------------------------------------------------------------
(* Replays *)

\* A code that was presented, or made a connection, is gone.
UsedCodesAreGone ==
    \A i \in Subjects : connection[i] # Gone \/ i \in presented \cup replayed =>
        i \in DOMAIN codes /\ codes[i] = Gone

ReplayInv ==
    /\ AuthTypeOK /\ OnlyLastTokenWorks /\ UsedCodesAreGone /\ ReplayEndsConnection
    /\ replayed \subseteq Subjects

\* A step that makes no connection and revives none keeps the used codes gone.
LEMMA UsedCodesKept ==
    ASSUME UsedCodesAreGone,
           \A i \in Subjects : connection'[i] # Gone => connection[i] # Gone,
           DOMAIN codes \subseteq DOMAIN codes',
           \A i \in DOMAIN codes : codes[i] = Gone => codes'[i] = Gone,
           \A i \in (presented' \cup replayed') \cap Subjects :
                i \in presented \cup replayed \/ connection[i] # Gone
    PROVE  UsedCodesAreGone'
BY DEF UsedCodesAreGone

LEMMA NextUsedCodesAreGone == AuthTypeOK /\ UsedCodesAreGone /\ [AuthNext]_authVars => UsedCodesAreGone'
<1> SUFFICES ASSUME AuthTypeOK, UsedCodesAreGone, [AuthNext]_authVars PROVE UsedCodesAreGone'
  OBVIOUS
<1>1. ASSUME NEW gone, Cascade(gone), UNCHANGED authHistory PROVE UsedCodesAreGone'
  BY <1>1, UsedCodesKept DEF Cascade, authHistory
<1>2. ASSUME NEW i \in Subjects, NEW bound, NEW k, Exchange(i, bound, k),
             DOMAIN codes' = DOMAIN codes, codes'[i] = Gone,
             \A j \in DOMAIN codes : codes[j] = Gone => codes'[j] = Gone
      PROVE  UsedCodesAreGone'
  <2>1. \A j \in Subjects : j # i => connection'[j] = connection[j]
    BY <1>2 DEF AuthTypeOK, Exchange
  <2>2. i \in DOMAIN codes /\ presented' = presented \cup {i} /\ replayed' = replayed
    BY <1>2 DEF Exchange
  <2>3. QED
    BY <1>2, <2>1, <2>2 DEF UsedCodesAreGone
<1>3. ASSUME NEW i \in Subjects, NEW n, NEW bound, NEW scope, NEW completed,
             ExchangeRefresh(i, n, bound, scope, completed),
             DOMAIN codes' = DOMAIN codes,
             \A j \in DOMAIN codes : codes[j] = Gone => codes'[j] = Gone
      PROVE  UsedCodesAreGone'
  <2>1. connection[i] # Gone
    BY <1>3 DEF AuthTypeOK, ExchangeRefresh
  <2>2. \A j \in Subjects : j # i => connection'[j] = connection[j]
    BY <1>3 DEF AuthTypeOK, ExchangeRefresh, Replay
  <2>3. presented' = presented /\ replayed' \subseteq replayed \cup {i}
    BY <1>3 DEF ExchangeRefresh
  <2>4. QED
    BY <1>3, <2>1, <2>2, <2>3, UsedCodesKept
<1>4. ASSUME ForgetEphemeral
      PROVE  DOMAIN codes' = DOMAIN codes /\ \A i \in DOMAIN codes : codes'[i] = Gone
  BY <1>4 DEF ForgetEphemeral
<1>5. CASE ClientStep
  <2>1. ASSUME NEW c \in Clients, Register(c) PROVE UsedCodesAreGone'
    BY <1>1, <2>1 DEF Register
  <2>2. ASSUME NEW r, ContinueAuthorization(r) PROVE UsedCodesAreGone'
    BY <2>2, UsedCodesKept DEF AuthTypeOK, ContinueAuthorization, grantVars, authHistory
  <2>3. ASSUME NEW i \in Subjects, NEW bound \in BOOLEAN, ExchangeAuthorizationCode(i, bound)
        PROVE  UsedCodesAreGone'
    <3>1. DOMAIN codes' = DOMAIN codes /\ i \in DOMAIN codes
      BY <2>3 DEF AuthTypeOK, ExchangeAuthorizationCode, Exchange, Burnt
    <3>2. codes'[i] = Gone /\ \A j \in DOMAIN codes : codes[j] = Gone => codes'[j] = Gone
      BY <2>3, <3>1 DEF AuthTypeOK, ExchangeAuthorizationCode, Burnt
    <3>3. QED
      BY <1>2, <2>3, <3>1, <3>2 DEF ExchangeAuthorizationCode
  <2>4. ASSUME NEW i \in Subjects, NEW n, NEW bound, NEW scope,
               ExchangeRefreshToken(i, n, bound, scope)
        PROVE  UsedCodesAreGone'
    BY <1>3, <2>4 DEF ExchangeRefreshToken
  <2>5. CASE UNCHANGED <<codes, connection, authHistory>>
    BY <2>5, UsedCodesKept DEF authHistory
  <2>6. QED
    BY <1>5, <2>1, <2>2, <2>3, <2>4, <2>5
       DEF ClientStep, BeginAuthorization, RevokeAccessToken, DropLapsedAccess,
           RevokeRefreshToken, grantVars
<1>6. CASE OperatorStep
  <2>1. ASSUME NEW c \in Clients, NEW byName, NEW force, DeleteClient(c, byName, force)
        PROVE  UsedCodesAreGone'
    BY <1>1, <2>1 DEF DeleteClient
  <2>2. ASSUME NEW i \in Subjects, RevokeCredentials(i) PROVE UsedCodesAreGone'
    <3>1. connection[i] # Gone /\ \A j \in Subjects : j # i => connection'[j] = connection[j]
      BY <2>2 DEF AuthTypeOK, RevokeCredentials
    <3>2. QED
      BY <2>2, <3>1, UsedCodesKept DEF RevokeCredentials, authHistory
  <2>3. CASE UNCHANGED <<codes, connection, authHistory>>
    BY <2>3, UsedCodesKept DEF authHistory
  <2>4. QED
    BY <1>6, <2>1, <2>2, <2>3 DEF OperatorStep, ListPending, Decide, grantVars
<1>7. CASE RestartAuth
  BY <1>4, <1>7, UsedCodesKept DEF RestartAuth, grantVars, authHistory
<1>8. ASSUME NEW i \in Subjects, NEW k, CrashInExchange(i, k) PROVE UsedCodesAreGone'
  BY <1>2, <1>4, <1>8 DEF CrashInExchange, Exchange
<1>9. ASSUME NEW i \in Subjects, NEW n, NEW scope, CrashInRefresh(i, n, scope)
      PROVE  UsedCodesAreGone'
  BY <1>3, <1>4, <1>9 DEF CrashInRefresh
<1>10. CASE UNCHANGED <<codes, connection, authHistory>>
  BY <1>10, UsedCodesKept DEF authHistory
<1>11. QED
  BY <1>5, <1>6, <1>7, <1>8, <1>9, <1>10 DEF AuthNext, Tick, authVars, grantVars

\* i has no credential left.
NoCredentials(i) ==
    /\ access[i] = {}
    /\ ~Status(family[i], "ACTIVE")
    /\ \A n \in DOMAIN refresh[i] : ~Status(refresh[i][n], "ACTIVE")

\* Nobody but i moves: what the others have is what they had.
Others(i) ==
    \A j \in Subjects \ {i} :
        /\ connection'[j] = connection[j] /\ access'[j] = access[j]
        /\ family'[j] = family[j] /\ refresh'[j] = refresh[j]

LEMMA OneMoves ==
    ASSUME ReplayEndsConnection, NEW i \in Subjects, Others(i),
           replayed' \subseteq replayed \cup {i},
           i \in replayed' => ~Status(connection'[i], "ACTIVE"),
           ~Status(connection'[i], "ACTIVE") => NoCredentials(i)',
           replayed \subseteq Subjects
    PROVE  ReplayEndsConnection'
BY DEF ReplayEndsConnection, Others, NoCredentials

LEMMA NextReplayEndsConnection == ReplayInv /\ [AuthNext]_authVars => ReplayEndsConnection'
<1> SUFFICES ASSUME ReplayInv, [AuthNext]_authVars PROVE ReplayEndsConnection'
  OBVIOUS
<1> USE DEF ReplayInv
<1>1. ASSUME NEW gone, Cascade(gone), UNCHANGED authHistory PROVE ReplayEndsConnection'
  <2>1. ASSUME NEW i \in Subjects, LostWith(gone, i)
        PROVE  ~Status(connection'[i], "ACTIVE") /\ NoCredentials(i)'
    BY <1>1, <2>1 DEF Cascade, LostWith, FamilyLeft, NoCredentials, Status, Gone
  <2>2. ASSUME NEW i \in Subjects, ~LostWith(gone, i)
        PROVE  /\ connection'[i] = connection[i] /\ access'[i] = access[i]
               /\ family'[i] = family[i] /\ refresh'[i] = refresh[i]
    BY <1>1, <2>2 DEF Cascade, LostWith, FamilyLeft
  <2>3. QED
    BY <1>1, <2>1, <2>2 DEF ReplayEndsConnection, NoCredentials, authHistory
<1>2. ASSUME NEW i \in Subjects, NEW bound \in BOOLEAN, NEW k \in 1 .. Len(Steps),
             Exchange(i, bound, k)
      PROVE  ReplayEndsConnection'
  <2>1. Others(i)
    BY <1>2 DEF AuthTypeOK, Exchange, Others
  <2>2. i \notin replayed /\ replayed' = replayed
    BY <1>2 DEF Exchange, UsedCodesAreGone
  <2>3. ~Status(connection'[i], "ACTIVE") => NoCredentials(i)'
    <3>1. Status(connection'[i], "ACTIVE") \/ UNCHANGED <<connection, access, family, refresh>>
      <4> DEFINE ok == ~Lapsed(codes[i]) /\ bound
                 Ran(s) == ok /\ \E n \in 1 .. k : Steps[n] = s
      <4>1. /\ Ran("access") => Ran("connect")
            /\ Ran("family") => Ran("connect")
            /\ Ran("refresh") => Ran("connect")
        BY <1>2, InOrder
      <4>2. Ran("connect") => Status(connection'[i], "ACTIVE")
        BY <1>2 DEF AuthTypeOK, Exchange, Status
      <4>3. ~Ran("connect") => UNCHANGED <<connection, access, family, refresh>>
        BY <1>2, <4>1 DEF AuthTypeOK, Exchange
      <4>4. QED
        BY <4>2, <4>3
    <3>2. QED
      BY <3>1 DEF ReplayEndsConnection, NoCredentials
  <2>4. QED
    BY <2>1, <2>2, <2>3, OneMoves
<1>3. ASSUME NEW i \in Subjects, NEW n, NEW bound, NEW scope, NEW completed,
             ExchangeRefresh(i, n, bound, scope, completed)
      PROVE  ReplayEndsConnection'
  <2>1. n \in DOMAIN refresh[i] /\ family[i] # Gone /\ connection[i] # Gone
    BY <1>3 DEF AuthTypeOK, ExchangeRefresh
  <2>2. replayed' = IF ~Lapsed(refresh[i][n]) /\ bound /\ n < Len(refresh[i])
                    THEN replayed \cup {i} ELSE replayed
    BY <1>3 DEF ExchangeRefresh
  <2>3. CASE Lapsed(refresh[i][n]) /\ RevokeFamily(i) /\ UNCHANGED <<connection, access>>
    <3>1. Others(i)
      BY <2>3 DEF AuthTypeOK, RevokeFamily, Others
    <3>2. ~Status(connection'[i], "ACTIVE") => NoCredentials(i)'
      BY <2>1, <2>3, RevokeFamilyType DEF AuthTypeOK, ReplayEndsConnection, NoCredentials, Status
    <3>3. replayed' = replayed
      BY <2>2, <2>3
    <3>4. i \in replayed' => ~Status(connection'[i], "ACTIVE")
      BY <2>3, <3>3 DEF ReplayEndsConnection
    <3>5. QED
      BY <3>1, <3>2, <3>3, <3>4, OneMoves
  <2>4. CASE Replay(i)
    <3>1. Others(i)
      BY <2>4 DEF AuthTypeOK, Replay, RevokeFamily, Others
    <3>2. ~Status(connection'[i], "ACTIVE")
      BY <2>1, <2>4 DEF AuthTypeOK, Replay, AfterReplay, Status, Connections
    <3>3. NoCredentials(i)'
      BY <2>1, <2>4, RevokeFamilyType DEF AuthTypeOK, Replay, NoCredentials, Status
    <3>4. QED
      BY <2>2, <3>1, <3>2, <3>3, OneMoves
  <2>5. CASE /\ Status(refresh[i][n], "ACTIVE") /\ Status(family[i], "ACTIVE")
             /\ refresh' = [refresh EXCEPT ![i] = Rotated(i, n)]
             /\ access' = [access EXCEPT ![i] =
                    IF completed /\ Status(connection[i], "ACTIVE")
                    THEN @ \cup {[from |-> n, scope |-> scope, expires |-> now + AccessTtl]}
                    ELSE @]
             /\ UNCHANGED <<connection, family>>
    <3>1. Others(i)
      BY <2>5 DEF AuthTypeOK, Others
    <3>2. Status(connection'[i], "ACTIVE")
      BY <2>5 DEF ReplayEndsConnection
    <3>3. n = Len(refresh[i])
      BY <2>1, <2>5 DEF OnlyLastTokenWorks
    <3>4. replayed' = replayed
      BY <2>1, <2>2, <3>3 DEF AuthTypeOK
    <3>5. i \notin replayed
      BY <2>5, <3>2 DEF ReplayEndsConnection
    <3>6. QED
      BY <3>1, <3>2, <3>4, <3>5, OneMoves
  <2>6. QED
    BY <1>3, <2>3, <2>4, <2>5 DEF ExchangeRefresh
<1>4. ASSUME NEW i \in Subjects, RevokeCredentials(i) PROVE ReplayEndsConnection'
  <2>1. Others(i)
    BY <1>4 DEF AuthTypeOK, RevokeCredentials, RevokeFamily, Others
  <2>2. ~Status(connection'[i], "ACTIVE")
    BY <1>4 DEF AuthTypeOK, RevokeCredentials, Status, Connections
  <2>3. CASE family[i] # Gone
    <3>1. NoCredentials(i)'
      BY <1>4, <2>3, RevokeFamilyType DEF AuthTypeOK, RevokeCredentials, NoCredentials, Status
    <3>2. QED
      BY <1>4, <2>1, <2>2, <3>1, OneMoves DEF RevokeCredentials, authHistory
  <2>4. CASE family[i] = Gone
    <3>1. NoCredentials(i)'
      BY <1>4, <2>4 DEF AuthTypeOK, RevokeCredentials, NoCredentials, Status, Gone
    <3>2. QED
      BY <1>4, <2>1, <2>2, <3>1, OneMoves DEF RevokeCredentials, authHistory
  <2>5. QED
    BY <2>3, <2>4
<1>5. ASSUME NEW i \in Subjects, NEW n, RevokeRefreshToken(i, n) PROVE ReplayEndsConnection'
  <2>1. Status(connection[i], "ACTIVE")
    BY <1>5 DEF RevokeRefreshToken, ReplayEndsConnection
  <2>2. Others(i)
    BY <1>5 DEF AuthTypeOK, RevokeRefreshToken, Others
  <2>3. QED
    BY <1>5, <2>1, <2>2, OneMoves DEF RevokeRefreshToken, ReplayEndsConnection, authHistory
<1>6. ASSUME NEW i \in Subjects, NEW t, RevokeAccessToken(i, t) \/ DropLapsedAccess(i, t)
      PROVE  ReplayEndsConnection'
  BY <1>6 DEF AuthTypeOK, RevokeAccessToken, DropLapsedAccess, ReplayEndsConnection, authHistory
<1>7. CASE UNCHANGED <<grantVars, authHistory>>
  BY <1>7 DEF grantVars, authHistory, ReplayEndsConnection
<1>8. CASE ClientStep
  <2>1. ASSUME NEW c \in Clients, Register(c) PROVE ReplayEndsConnection'
    BY <1>1, <2>1 DEF Register
  <2>2. ASSUME NEW i \in Subjects, NEW bound \in BOOLEAN, ExchangeAuthorizationCode(i, bound)
        PROVE  ReplayEndsConnection'
    <3>1. Len(Steps) \in 1 .. Len(Steps)
      BY DEF Steps
    <3>2. QED
      BY <1>2, <2>2, <3>1 DEF ExchangeAuthorizationCode
  <2>3. QED
    BY <1>3, <1>5, <1>6, <1>7, <1>8, <2>1, <2>2
       DEF ClientStep, BeginAuthorization, ContinueAuthorization, ExchangeRefreshToken
<1>9. CASE OperatorStep
  <2>1. ASSUME NEW c \in Clients, NEW byName, NEW force, DeleteClient(c, byName, force)
        PROVE  ReplayEndsConnection'
    BY <1>1, <2>1 DEF DeleteClient
  <2>2. QED
    BY <1>4, <1>7, <1>9, <2>1 DEF OperatorStep, ListPending, Decide
<1>10. QED
  BY <1>2, <1>3, <1>7, <1>8, <1>9 DEF AuthNext, RestartAuth, CrashInExchange, CrashInRefresh, Tick, authVars

LEMMA NextReplayInv == ReplayInv /\ [AuthNext]_authVars => ReplayInv'
<1> SUFFICES ASSUME ReplayInv, [AuthNext]_authVars PROVE ReplayInv'
  OBVIOUS
<1>1. replayed' \subseteq Subjects
  <2>1. replayed' = replayed \/ \E i \in Subjects : replayed' = replayed \cup {i}
    BY DEF AuthNext, ClientStep, OperatorStep, Register, DeleteClient, BeginAuthorization, ListPending,
           Decide, ContinueAuthorization, ExchangeAuthorizationCode, Exchange, ExchangeRefreshToken,
           ExchangeRefresh, DropLapsedAccess, RevokeAccessToken, RevokeRefreshToken,
           RevokeCredentials, RestartAuth, CrashInExchange, CrashInRefresh, Tick, authVars, authHistory
  <2>2. QED
    BY <2>1 DEF ReplayInv
<1>2. QED
  BY <1>1, NextAuthTypes, NextOnlyLastTokenWorks, NextUsedCodesAreGone, NextReplayEndsConnection
     DEF ReplayInv

LEMMA InitReplayInv == AuthInit => ReplayInv
BY InitAuthTypes DEF AuthInit, ReplayInv, OnlyLastTokenWorks, UsedCodesAreGone, ReplayEndsConnection,
                  Status, Gone

\* A refresh token that comes back after its exchange ends the connection for good, and whatever
\* ended a connection left no credential of it.
THEOREM ReplaysEnd == AuthSpec => []ReplayEndsConnection
<1>1. ReplayInv => ReplayEndsConnection
  BY DEF ReplayInv
<1>2. QED
  BY <1>1, InitReplayInv, NextReplayInv, PTL DEF AuthSpec

\* A code makes its connection when it is presented first, or never: after a failure, a crash or
\* a deletion too.
THEOREM CodesAreSingleUse == AuthSpec => CodeIsSingleUse
<1> DEFINE Once == \A i \in Subjects :
                       connection[i] = Gone /\ connection'[i] # Gone => i \notin presented
<1>1. ReplayInv /\ [AuthNext]_authVars => [Once]_authVars
  <2> SUFFICES ASSUME ReplayInv, [AuthNext]_authVars, NEW i \in Subjects,
                      connection[i] = Gone, connection'[i] # Gone
               PROVE  i \notin presented
    BY DEF Once
  <2> USE DEF ReplayInv
  <2>1. ASSUME NEW gone, Cascade(gone) PROVE FALSE
    BY <2>1 DEF Cascade
  <2>2. ASSUME NEW j \in Subjects, NEW bound, NEW k, Exchange(j, bound, k)
        PROVE  i \notin presented
    <3>1. i = j
      BY <2>2 DEF AuthTypeOK, Exchange
    <3>2. QED
      BY <2>2, <3>1 DEF Exchange, UsedCodesAreGone
  <2>3. ASSUME NEW j \in Subjects, NEW n, NEW bound, NEW scope, NEW completed,
               ExchangeRefresh(j, n, bound, scope, completed)
        PROVE  FALSE
    <3>1. connection[j] # Gone
      BY <2>3 DEF AuthTypeOK, ExchangeRefresh
    <3>2. QED
      BY <2>3, <3>1 DEF AuthTypeOK, ExchangeRefresh, Replay
  <2>4. ASSUME NEW j \in Subjects, RevokeCredentials(j) PROVE FALSE
    BY <2>4 DEF AuthTypeOK, RevokeCredentials
  <2>5. connection' # connection
    OBVIOUS
  <2>6. QED
    BY <2>1, <2>2, <2>3, <2>4, <2>5
       DEF AuthNext, ClientStep, OperatorStep, Register, DeleteClient, BeginAuthorization, ListPending,
           Decide, ContinueAuthorization, ExchangeAuthorizationCode, ExchangeRefreshToken,
           DropLapsedAccess, RevokeAccessToken, RevokeRefreshToken,
           RestartAuth, CrashInExchange, CrashInRefresh, Tick, authVars, grantVars
<1>2. QED
  BY <1>1, InitReplayInv, NextReplayInv, PTL DEF AuthSpec, CodeIsSingleUse


-----------------------------------------------------------------------------
(* The operators on leases *)

LEMMA LeaseType ==
    ASSUME NEW s \in SessionIds, NEW w \in Workspaces, NEW p \in Profiles, NEW once \in BOOLEAN
    PROVE  /\ Lease(s, w, p, once) \in Leases
           /\ Lease(s, w, p, once).session = s /\ Lease(s, w, p, once).workspace = w
           /\ Lease(s, w, p, once).profile = p /\ Lease(s, w, p, once).once = once
           /\ ~Lease(s, w, p, once).expired
BY DEF Lease, Leases

LEMMA LeaseUpdates ==
    ASSUME NEW l \in Leases, NEW s \in SessionIds, NEW p \in Profiles
    PROVE  /\ [l EXCEPT !.expired = TRUE] \in Leases
           /\ [l EXCEPT !.session = s] \in Leases
           /\ [l EXCEPT !.profile = p, !.once = FALSE] \in Leases
           /\ l.session \in SessionIds /\ l.workspace \in Workspaces /\ l.profile \in Profiles
BY DEF Leases

LEMMA ReadLeasesType ==
    ASSUME NEW L \in SUBSET Leases, NEW G, NEW S
    PROVE  ReadLeases(L, G, S) \subseteq Leases
BY DEF ReadLeases, Restored

LEMMA GrantedType ==
    ASSUME NEW G \in [OAuth -> [Workspaces -> Profiles \cup {None}]],
           NEW s \in SessionIds, NEW w \in Workspaces
    PROVE  Granted(G, s, w) \in Profiles \cup {None}
BY DEF Granted

LEMMA LiveType == \A i : Live(i) \subseteq SessionIds /\ Detached(i) \subseteq SessionIds
BY DEF Live, Detached

-----------------------------------------------------------------------------
(* Types *)

LEMMA InitTypeOK == Init => TypeOK
BY DEF Init, TypeOK

LEMMA GraceExpiryType ==
    TypeOK => /\ SessionsAfterExpiry \in [SessionIds -> {"new", "live", "detached", "gone"}]
              /\ LeasesAfterExpiry \subseteq Leases
              /\ GraceAfterExpiry \in [OAuth -> {"none", "running", "over"}]
BY DEF TypeOK, SessionsAfterExpiry, LeasesAfterExpiry, GraceAfterExpiry

LEMMA FannedOutType ==
    ASSUME NEW L \in SUBSET Leases, NEW i, NEW w \in Workspaces, NEW p \in Profiles
    PROVE  FannedOut(L, i, w, p) \subseteq Leases
<1>1. \A s \in Live(i) : Lease(s, w, p, FALSE) \in Leases
  BY LiveType, LeaseType
<1>2. QED
  BY <1>1 DEF FannedOut

LEMMA RegrantedType ==
    ASSUME NEW L \in SUBSET Leases, NEW i, NEW w \in Workspaces, NEW p \in Profiles
    PROVE  Regranted(L, i, w, p) \subseteq Leases
<1>1. L \ LeasesOf(L, Detached(i), w) \in SUBSET Leases
  OBVIOUS
<1>2. FannedOut(L \ LeasesOf(L, Detached(i), w), i, w, p) \subseteq Leases
  BY <1>1, FannedOutType
<1>3. {[l EXCEPT !.profile = p, !.once = FALSE] : l \in LeasesOf(L, Detached(i), w)}
          \subseteq Leases
  BY DEF LeasesOf, Leases
<1>4. QED
  BY ONLY <1>2, <1>3 DEF Regranted

LEMMA RebindsType ==
    ASSUME NEW s \in SessionIds, NEW Old, NEW L \in SUBSET Leases, NEW kept,
           Rebinds(s, Old, L, kept)
    PROVE  leases' \subseteq Leases
<1>1. kept \subseteq Leases
  BY DEF Rebinds, Usable
<1>2. \A l \in kept : [l EXCEPT !.session = s] \in Leases
  BY <1>1 DEF Leases
<1>3. QED
  BY <1>2 DEF Rebinds, Restored

\* Every step keeps every variable in its type.
LEMMA NextTypeOK == TypeOK /\ [Next]_vars => TypeOK'
<1> SUFFICES ASSUME TypeOK, [Next]_vars PROVE TypeOK'
    OBVIOUS
<1>0. /\ SessionsAfterExpiry \in [SessionIds -> {"new", "live", "detached", "gone"}]
      /\ LeasesAfterExpiry \subseteq Leases
      /\ GraceAfterExpiry \in [OAuth -> {"none", "running", "over"}]
  BY GraceExpiryType
<1> USE DEF TypeOK, connectionVars, history, Decided
<1>1. ASSUME NEW s \in SessionIds, ReadSession(s) PROVE TypeOK'
  BY <1>1, ReadLeasesType DEF ReadSession
<1>2. ASSUME NEW l \in leases, LeaseLapses(l) PROVE TypeOK'
  <2>1. [l EXCEPT !.expired = TRUE] \in Leases
    BY DEF Leases
  <2>2. QED
    BY <1>2, <2>1 DEF LeaseLapses
<1>3. ASSUME NEW s \in SessionIds, NEW w \in Workspaces, NEW o \in Overrides \cup {None},
             Admit(s, w, o)
      PROVE  TypeOK'
  <2> DEFINE i == IdentityOf[s]
             auto == o = None /\ Granted(grants, s, w) = None
             p == IF o # None THEN o ELSE IF auto THEN AutoProfile[i][w] ELSE Granted(grants, s, w)
  <2>1. i \in Identities /\ AutoProfile[i][w] \in Profiles \cup {None}
    BY IdentityAssumption, ProfileAssumption
  <2>2. p \in Profiles
    BY <1>3, <2>1, GrantedType, ProfileAssumption DEF Admit
  <2>3. Lease(s, w, p, o # None) \in Leases
    BY <2>2, LeaseType
  <2>4. leases' \subseteq Leases
    BY <1>3, <2>3, ReadLeasesType DEF Admit
  <2>5. grants' \in [OAuth -> [Workspaces -> Profiles \cup {None}]]
    BY <1>3, <2>2 DEF Admit
  <2>6. QED
    BY <1>3, <2>4, <2>5 DEF Admit
<1>4. ASSUME NEW s \in SessionIds, Create(s) PROVE TypeOK'
  BY <1>4 DEF Create
<1>5. ASSUME NEW s \in SessionIds, ResolveExisting(s) PROVE TypeOK'
  BY <1>0, <1>5 DEF ResolveExisting
<1>6. ASSUME NEW s \in SessionIds, ResolveCreated(s) PROVE TypeOK'
  BY <1>0, <1>6 DEF ResolveCreated
<1>7. ASSUME NEW s \in SessionIds, NEW kept, ResolveResumed(s, kept) PROVE TypeOK'
  <2>1. leases' \subseteq Leases
    BY <1>0, <1>7, RebindsType DEF ResolveResumed
  <2>2. QED
    BY <1>0, <1>7, <2>1 DEF ResolveResumed
<1>8. CASE ListSessions
  BY <1>0, <1>8, ReadLeasesType DEF ListSessions
<1>9. ASSUME NEW s \in SessionIds, Disconnect(s) PROVE TypeOK'
  BY <1>9 DEF Disconnect, Drop
<1>10. ASSUME NEW i \in OAuth, GracePasses(i) PROVE TypeOK'
  BY <1>10 DEF GracePasses
<1>11. ASSUME NEW s \in SessionIds, RevokeSession(s) PROVE TypeOK'
  BY <1>11 DEF RevokeSession, Drop
<1>12. ASSUME NEW i \in OAuth, NEW w \in Workspaces, NEW p \in Profiles, GrantConnection(i, w, p)
       PROVE  TypeOK'
  <2> DEFINE G == [grants EXCEPT ![i][w] = p]
  <2>1. ReadLeases(leases, G, Live(i)) \in SUBSET Leases
    BY ReadLeasesType
  <2>2. FannedOut(ReadLeases(leases, G, Live(i)), i, w, p) \subseteq Leases
    BY <2>1, FannedOutType
  <2>3. QED
    BY <1>12, <2>2 DEF GrantConnection
<1>13. ASSUME NEW i \in OAuth, NEW w \in Workspaces, NEW p \in Profiles, PageGrant(i, w, p)
       PROVE  TypeOK'
  <2>1. ReadLeases(leases, grants, Live(i)) \in SUBSET Leases
    BY ReadLeasesType
  <2>2. Regranted(ReadLeases(leases, grants, Live(i)), i, w, p) \subseteq Leases
    BY <2>1, RegrantedType
  <2>3. QED
    BY <1>13, <2>2 DEF PageGrant
<1>14. ASSUME NEW i \in OAuth, NEW w \in Workspaces, PageRemove(i, w) PROVE TypeOK'
  BY <1>14 DEF PageRemove
<1>15. ASSUME NEW s \in SessionIds, NEW w \in Workspaces, RevokeWorkspace(s, w) PROVE TypeOK'
  BY <1>15, ReadLeasesType, IdentityAssumption DEF RevokeWorkspace
<1>16. ASSUME NEW w \in Workspaces, InvalidateWorkspace(w) PROVE TypeOK'
  BY <1>16 DEF InvalidateWorkspace
<1>17. ASSUME NEW i \in OAuth, RevokeConnection(i) PROVE TypeOK'
  BY <1>17 DEF RevokeConnection, Drop, GrantsWithout
<1>18. ASSUME NEW i \in OAuth, RefreshReplay(i) PROVE TypeOK'
  BY <1>18 DEF RefreshReplay
<1>23. ASSUME NEW i \in OAuth, ClientDeleted(i) PROVE TypeOK'
  BY <1>23 DEF ClientDeleted
<1>19. ASSUME NEW s \in SessionIds, EnableYolo(s) \/ DisableYolo(s) PROVE TypeOK'
  BY <1>19 DEF EnableYolo, DisableYolo
<1>20. CASE Restart
  BY <1>20 DEF Restart
<1>21. CASE UNCHANGED vars
  BY <1>21 DEF vars
<1>22. QED
  BY <1>1, <1>2, <1>3, <1>4, <1>5, <1>6, <1>7, <1>8, <1>9, <1>10, <1>11, <1>12, <1>13, <1>14,
     <1>15, <1>16, <1>17, <1>18, <1>19, <1>20, <1>21, <1>23 DEF Next

\* Every variable keeps its type, whatever the program does.
THEOREM TypeCorrect == Spec => []TypeOK
BY InitTypeOK, NextTypeOK, PTL DEF Spec

-----------------------------------------------------------------------------
(* Leases *)

\* No two leases of L are of the same session and workspace.
OnePerWorkspace(L) ==
    \A k, l \in L : k.session = l.session /\ k.workspace = l.workspace => k = l

OfKnownSessions(L) == \A l \in L : session[l.session] \in {"live", "detached"}

LEMMA UnionUnique ==
    ASSUME NEW K, NEW L, OnePerWorkspace(K), OnePerWorkspace(L),
           \A k \in K, l \in L : ~(k.session = l.session /\ k.workspace = l.workspace)
    PROVE  OnePerWorkspace(K \cup L)
BY DEF OnePerWorkspace

LEMMA RestoredUnique ==
    ASSUME NEW L, NEW G, NEW S, OnePerWorkspace(L)
    PROVE  /\ OnePerWorkspace(Restored(L, G, S))
           /\ \A l \in Restored(L, G, S) : l.session \in S
<1>1. ASSUME NEW k \in Restored(L, G, S), NEW l \in Restored(L, G, S),
             k.session = l.session, k.workspace = l.workspace
      PROVE  k = l
  BY <1>1 DEF Restored, Leases
<1>2. QED
  BY <1>1 DEF OnePerWorkspace, Restored

LEMMA ReadLeasesUnique ==
    ASSUME NEW L, NEW G, NEW S, OnePerWorkspace(L)
    PROVE  /\ OnePerWorkspace(ReadLeases(L, G, S))
           /\ \A l \in ReadLeases(L, G, S) : l \in L \/ l.session \in S
           /\ \A l \in ReadLeases(L, G, S) : l \in L \/ l \in Restored(L, G, S \cap pending)
<1>1. OnePerWorkspace(Restored(L, G, S \cap pending))
      /\ \A l \in Restored(L, G, S \cap pending) : l.session \in S \cap pending
  BY RestoredUnique
<1>2. ASSUME NEW k \in L, NEW l \in Restored(L, G, S \cap pending), k.session \in S => ~k.expired
      PROVE  ~(k.session = l.session /\ k.workspace = l.workspace)
  BY <1>1, <1>2 DEF Restored, LeasesOf
<1>3. QED
  BY <1>1, <1>2 DEF OnePerWorkspace, ReadLeases

LEMMA FannedOutUnique ==
    ASSUME NEW L, NEW i, NEW w, NEW p, OnePerWorkspace(L)
    PROVE  /\ OnePerWorkspace(FannedOut(L, i, w, p))
           /\ \A l \in FannedOut(L, i, w, p) : l \in L \/ l.session \in Live(i)
<1> DEFINE Fresh == {Lease(s, w, p, FALSE) : s \in Live(i)}
<1>1. \A l \in Fresh : /\ l.session \in Live(i) /\ l.workspace = w
                       /\ l = Lease(l.session, w, p, FALSE)
  BY DEF Lease
<1>2. \A k \in L \ LeasesOf(L, Live(i), w), l \in Fresh :
          ~(k.session = l.session /\ k.workspace = l.workspace)
  BY <1>1 DEF LeasesOf
<1>3. FannedOut(L, i, w, p) = (L \ LeasesOf(L, Live(i), w)) \cup Fresh
  BY DEF FannedOut
<1>4. QED
  BY <1>1, <1>2, <1>3 DEF OnePerWorkspace

LEMMA RegrantedUnique ==
    ASSUME TypeOK, NEW L \in SUBSET Leases, NEW i, NEW w \in Workspaces, NEW p \in Profiles,
           OnePerWorkspace(L)
    PROVE  /\ OnePerWorkspace(Regranted(L, i, w, p))
           /\ \A l \in Regranted(L, i, w, p) :
                 \/ l \in L \/ l.session \in Live(i)
                 \/ \E m \in L : l.session = m.session /\ l.workspace = m.workspace
<1> DEFINE Away    == LeasesOf(L, Detached(i), w)
           Rest    == FannedOut(L \ Away, i, w, p)
           Renewed == {[l EXCEPT !.profile = p, !.once = FALSE] : l \in Away}
<1>1. OnePerWorkspace(L \ Away)
  BY DEF OnePerWorkspace
<1>2. OnePerWorkspace(Rest) /\ \A l \in Rest : l \in L \ Away \/ l.session \in Live(i)
  BY <1>1, FannedOutUnique
<1>3. \A l \in Away : /\ [l EXCEPT !.profile = p, !.once = FALSE].session = l.session
                      /\ [l EXCEPT !.profile = p, !.once = FALSE].workspace = l.workspace
                      /\ l.session \in Detached(i) /\ l.workspace = w /\ l \in L
  BY DEF LeasesOf, Leases
<1>4. \A k \in Renewed : k.session \in Detached(i) /\ k.workspace = w
  BY <1>3
<1>5. OnePerWorkspace(Renewed)
  <2>1. ASSUME NEW k \in Renewed, NEW l \in Renewed, k.session = l.session
        PROVE  k = l
    <3>1. PICK x \in Away : k = [x EXCEPT !.profile = p, !.once = FALSE]
      OBVIOUS
    <3>2. PICK y \in Away : l = [y EXCEPT !.profile = p, !.once = FALSE]
      OBVIOUS
    <3>3. x = y
      BY ONLY <1>3, <2>1, <3>1, <3>2, OnePerWorkspace(L) DEF OnePerWorkspace
    <3>4. QED
      BY <3>1, <3>2, <3>3
  <2>2. QED
    BY <2>1 DEF OnePerWorkspace
<1>6. Live(i) \cap Detached(i) = {}
  BY DEF Live, Detached
<1>7. \A k \in Renewed, l \in Rest : ~(k.session = l.session /\ k.workspace = l.workspace)
  BY <1>2, <1>4, <1>6 DEF LeasesOf
<1>8. Regranted(L, i, w, p) = Rest \cup Renewed
  BY DEF Regranted
<1>9. OnePerWorkspace(Rest \cup Renewed)
  BY <1>2, <1>5, <1>7, UnionUnique
<1>10. ASSUME NEW l \in Rest \cup Renewed
       PROVE  \/ l \in L \/ l.session \in Live(i)
              \/ \E m \in L : l.session = m.session /\ l.workspace = m.workspace
  <2>1. CASE l \in Rest
    BY <1>2, <2>1
  <2>2. CASE l \in Renewed
    BY <1>3, <2>2
  <2>3. QED
    BY <2>1, <2>2
<1>11. QED
  BY <1>8, <1>9, <1>10

LEMMA RebindsUnique ==
    ASSUME NEW s \in SessionIds, NEW Old, NEW L \in SUBSET Leases, NEW kept,
           Rebinds(s, Old, L, kept), OnePerWorkspace(L), \A l \in L : l.session # s
    PROVE  /\ OnePerWorkspace(leases')
           /\ \A l \in leases' : (l \in L /\ l.session \notin Old) \/ l.session = s
<1> DEFINE usable   == Usable({l \in L : l.session \in Old})
           restored == IF usable = {} THEN {} ELSE Restored(L, grants, {s})
           Stay     == {l \in L : l.session \notin Old}
           Moved    == {[l EXCEPT !.session = s] : l \in kept}
<1>1. OnePerWorkspace(restored) /\ \A l \in restored : l.session = s
  BY RestoredUnique DEF OnePerWorkspace
<1>2. kept \subseteq L /\ \A k \in kept, r \in restored : r.workspace # k.workspace
  BY DEF Rebinds, Usable
<1>3. \A l \in kept : [l EXCEPT !.session = s].session = s
                      /\ [l EXCEPT !.session = s].workspace = l.workspace
  BY <1>2 DEF Leases
<1>4a. \A k, l \in kept : k.workspace = l.workspace => k = l
  BY DEF Rebinds
<1>4. OnePerWorkspace(Moved) /\ \A m \in Moved : m.session = s
  <2>1. ASSUME NEW k \in Moved, NEW l \in Moved, k.workspace = l.workspace
        PROVE  k = l
    <3>1. PICK x \in kept : k = [x EXCEPT !.session = s]
      OBVIOUS
    <3>2. PICK y \in kept : l = [y EXCEPT !.session = s]
      OBVIOUS
    <3>3. x = y
      BY ONLY <1>3, <1>4a, <2>1, <3>1, <3>2
    <3>4. QED
      BY <3>1, <3>2, <3>3
  <2>2. ASSUME NEW m \in Moved PROVE m.session = s
    BY <1>3, <2>2
  <2>3. QED
    BY <2>1, <2>2 DEF OnePerWorkspace
<1>5. ASSUME NEW m \in Moved, NEW r \in restored PROVE m.workspace # r.workspace
  <2>1. PICK x \in kept : m = [x EXCEPT !.session = s]
    OBVIOUS
  <2>2. QED
    BY ONLY <1>2, <1>3, <2>1, r \in restored
<1>6. OnePerWorkspace(restored \cup Moved)
  BY <1>1, <1>4, <1>5, UnionUnique
<1>7. OnePerWorkspace(Stay) /\ \A l \in Stay : l.session # s
  BY DEF OnePerWorkspace
<1>8. leases' = Stay \cup (restored \cup Moved)
  BY DEF Rebinds
<1>9. \A l \in restored \cup Moved : l.session = s
  BY <1>1, <1>4
<1>10. OnePerWorkspace(leases')
  BY <1>6, <1>7, <1>8, <1>9, UnionUnique
<1>11. QED
  BY <1>7, <1>8, <1>9, <1>10

LEMMA InitLeasesWellFormed == Init => LeasesWellFormed
BY DEF Init, LeasesWellFormed

LEMMA ExpiryKeepsOthers ==
    ASSUME TypeOK, LeasesWellFormed
    PROVE  /\ OnePerWorkspace(LeasesAfterExpiry)
           /\ \A l \in LeasesAfterExpiry :
                 /\ l \in leases /\ SessionsAfterExpiry[l.session] = session[l.session]
                 /\ l.session \in SessionIds
BY DEF LeasesWellFormed, OnePerWorkspace, LeasesAfterExpiry, SessionsAfterExpiry, TypeOK, Leases

\* Every step keeps one lease of a workspace a session, of sessions that exist.
LEMMA NextLeasesWellFormed == TypeOK /\ LeasesWellFormed /\ [Next]_vars => LeasesWellFormed'
<1> SUFFICES ASSUME TypeOK, LeasesWellFormed, [Next]_vars
             PROVE  OnePerWorkspace(leases') /\ OfKnownSessions(leases)'
    BY DEF LeasesWellFormed, OnePerWorkspace, OfKnownSessions
<1> USE DEF OfKnownSessions, connectionVars, history
<1>0. /\ leases \in SUBSET Leases /\ session \in [SessionIds -> {"new", "live", "detached", "gone"}]
      /\ OnePerWorkspace(leases)
      /\ \A l \in leases : /\ l.session \in SessionIds
                           /\ session[l.session] \in {"live", "detached"}
  BY DEF TypeOK, LeasesWellFormed, OnePerWorkspace, Leases
<1>a. ASSUME NEW L \in SUBSET leases
      PROVE  OnePerWorkspace(L) /\ L \subseteq Leases
  BY <1>0, <1>a DEF OnePerWorkspace
<1>b. ASSUME NEW G, NEW S \in SUBSET SessionIds
      PROVE  /\ OnePerWorkspace(ReadLeases(leases, G, S))
             /\ ReadLeases(leases, G, S) \in SUBSET Leases
             /\ \A l \in ReadLeases(leases, G, S) : l \in leases \/ l.session \in S
  BY <1>0, ReadLeasesUnique, ReadLeasesType
<1>c. /\ OnePerWorkspace(LeasesAfterExpiry) /\ LeasesAfterExpiry \in SUBSET Leases
      /\ \A l \in LeasesAfterExpiry :
            l \in leases /\ SessionsAfterExpiry[l.session] = session[l.session]
  BY ExpiryKeepsOthers, GraceExpiryType
<1>d. \A i : Live(i) \subseteq SessionIds /\ \A s \in Live(i) : session[s] = "live"
  BY DEF Live
<1>1. ASSUME NEW s \in SessionIds, ReadSession(s)
      PROVE  OnePerWorkspace(leases') /\ OfKnownSessions(leases)'
  BY <1>0, <1>1, <1>b DEF ReadSession
<1>2. ASSUME NEW l \in leases, LeaseLapses(l)
      PROVE  OnePerWorkspace(leases') /\ OfKnownSessions(leases)'
  <2> DEFINE m == [l EXCEPT !.expired = TRUE]
  <2>1. m.session = l.session /\ m.workspace = l.workspace
    BY <1>0 DEF Leases
  <2>2. OnePerWorkspace(leases \ {l}) /\ OnePerWorkspace({m})
    BY <1>a DEF OnePerWorkspace
  <2>3. \A k \in leases \ {l}, x \in {m} : ~(k.session = x.session /\ k.workspace = x.workspace)
    BY <1>0, <2>1 DEF OnePerWorkspace
  <2>4. OnePerWorkspace((leases \ {l}) \cup {m})
    BY <2>2, <2>3, UnionUnique
  <2>5. QED
    BY <1>0, <1>2, <2>1, <2>4 DEF LeaseLapses
<1>3. ASSUME NEW s \in SessionIds, NEW w \in Workspaces, NEW o, Admit(s, w, o)
      PROVE  OnePerWorkspace(leases') /\ OfKnownSessions(leases)'
  <2> DEFINE L == ReadLeases(leases, grants, {s})
  <2>1. PICK p : leases' = (L \ LeasesOf(L, {s}, w)) \cup {Lease(s, w, p, o # None)}
    BY <1>3 DEF Admit
  <2>2. OnePerWorkspace(L) /\ \A l \in L : l \in leases \/ l.session = s
    BY <1>b
  <2>3. Lease(s, w, p, o # None).session = s /\ Lease(s, w, p, o # None).workspace = w
    BY DEF Lease
  <2>4. OnePerWorkspace(L \ LeasesOf(L, {s}, w)) /\ OnePerWorkspace({Lease(s, w, p, o # None)})
    BY <2>2 DEF OnePerWorkspace
  <2>5. OnePerWorkspace(leases')
    <3>1. \A k \in L \ LeasesOf(L, {s}, w), l \in {Lease(s, w, p, o # None)} :
             ~(k.session = l.session /\ k.workspace = l.workspace)
      BY <2>3 DEF LeasesOf
    <3>2. QED
      BY <2>1, <2>4, <3>1, UnionUnique
  <2>6. \A l \in leases' : l \in leases \/ l.session = s
    BY <2>1, <2>2, <2>3
  <2>7. session' = session /\ session[s] = "live"
    BY <1>3 DEF Admit
  <2>8. QED
    BY <1>0, <2>5, <2>6, <2>7
<1>4. ASSUME NEW s \in SessionIds, Create(s)
      PROVE  OnePerWorkspace(leases') /\ OfKnownSessions(leases)'
  BY <1>0, <1>4 DEF Create
<1>5. ASSUME NEW s \in SessionIds, ResolveExisting(s)
      PROVE  OnePerWorkspace(leases') /\ OfKnownSessions(leases)'
  BY <1>0, <1>5, <1>c DEF ResolveExisting
<1>6. ASSUME NEW s \in SessionIds, ResolveCreated(s)
      PROVE  OnePerWorkspace(leases') /\ OfKnownSessions(leases)'
  <2>1. SessionsAfterExpiry \in [SessionIds -> {"new", "live", "detached", "gone"}]
    BY GraceExpiryType
  <2>2. QED
    BY <1>0, <1>6, <1>c, <2>1 DEF ResolveCreated
<1>7. ASSUME NEW s \in SessionIds, NEW kept, ResolveResumed(s, kept)
      PROVE  OnePerWorkspace(leases') /\ OfKnownSessions(leases)'
  <2> DEFINE Old == Detached(IdentityOf[s])
  <2>1. session[s] = "new" /\ Rebinds(s, Old, LeasesAfterExpiry, kept)
        /\ session' = [d \in SessionIds |-> IF d = s THEN "live" ELSE IF d \in Old THEN "gone"
                                          ELSE SessionsAfterExpiry[d]]
    BY <1>7 DEF ResolveResumed
  <2>2. \A l \in LeasesAfterExpiry : l.session # s
    BY <1>0, <1>c, <2>1
  <2>3. /\ OnePerWorkspace(leases')
        /\ \A l \in leases' : (l \in LeasesAfterExpiry /\ l.session \notin Old) \/ l.session = s
    BY <1>c, <2>1, <2>2, RebindsUnique
  <2>4. QED
    BY <1>0, <1>c, <2>1, <2>3
<1>8. CASE ListSessions
  <2> DEFINE All == {s \in SessionIds : session[s] = "live"}
  <2>1. /\ leases' = ReadLeases(LeasesAfterExpiry, grants, All)
        /\ session' = SessionsAfterExpiry
    BY <1>8 DEF ListSessions
  <2>2. OnePerWorkspace(leases')
        /\ \A l \in leases' : l \in LeasesAfterExpiry \/ l.session \in All
    BY <1>c, <2>1, ReadLeasesUnique
  <2>3. \A s \in All : SessionsAfterExpiry[s] = "live"
    BY DEF SessionsAfterExpiry, GraceEnded
  <2>4. QED
    BY <1>0, <1>c, <2>1, <2>2, <2>3
<1>9. ASSUME NEW s \in SessionIds, Disconnect(s)
      PROVE  OnePerWorkspace(leases') /\ OfKnownSessions(leases)'
  BY <1>0, <1>9, <1>a DEF Disconnect, Drop
<1>10. ASSUME NEW i \in OAuth, GracePasses(i)
       PROVE  OnePerWorkspace(leases') /\ OfKnownSessions(leases)'
  BY <1>0, <1>10 DEF GracePasses
<1>11. ASSUME NEW s \in SessionIds, RevokeSession(s)
       PROVE  OnePerWorkspace(leases') /\ OfKnownSessions(leases)'
  BY <1>0, <1>11, <1>a DEF RevokeSession, Drop
<1>12. ASSUME NEW i \in OAuth, NEW w \in Workspaces, NEW p \in Profiles, GrantConnection(i, w, p)
       PROVE  OnePerWorkspace(leases') /\ OfKnownSessions(leases)'
  <2> DEFINE L == ReadLeases(leases, [grants EXCEPT ![i][w] = p], Live(i))
  <2>1. leases' = FannedOut(L, i, w, p) /\ session' = session
    BY <1>12 DEF GrantConnection
  <2>2. OnePerWorkspace(L) /\ \A l \in L : l \in leases \/ l.session \in Live(i)
    BY <1>b, <1>d
  <2>3. OnePerWorkspace(leases') /\ \A l \in leases' : l \in L \/ l.session \in Live(i)
    BY <2>1, <2>2, FannedOutUnique
  <2>4. QED
    BY <1>0, <1>d, <2>1, <2>2, <2>3
<1>13. ASSUME NEW i \in OAuth, NEW w \in Workspaces, NEW p \in Profiles, PageGrant(i, w, p)
       PROVE  OnePerWorkspace(leases') /\ OfKnownSessions(leases)'
  <2> DEFINE L == ReadLeases(leases, grants, Live(i))
  <2>1. leases' = Regranted(L, i, w, p) /\ session' = session
    BY <1>13 DEF PageGrant
  <2>2. L \in SUBSET Leases /\ OnePerWorkspace(L)
        /\ \A l \in L : l \in leases \/ l.session \in Live(i)
    BY <1>b, <1>d
  <2>3. /\ OnePerWorkspace(leases')
        /\ \A l \in leases' : \/ l \in L \/ l.session \in Live(i)
                              \/ \E m \in L : l.session = m.session /\ l.workspace = m.workspace
    BY <2>1, <2>2, RegrantedUnique
  <2>4. QED
    BY <1>0, <1>d, <2>1, <2>2, <2>3
<1>14. ASSUME NEW i \in OAuth, NEW w \in Workspaces, PageRemove(i, w)
       PROVE  OnePerWorkspace(leases') /\ OfKnownSessions(leases)'
  BY <1>0, <1>14, <1>a DEF PageRemove
<1>15. ASSUME NEW s \in SessionIds, NEW w \in Workspaces, RevokeWorkspace(s, w)
       PROVE  OnePerWorkspace(leases') /\ OfKnownSessions(leases)'
  <2> DEFINE i == IdentityOf[s]
             G == IF i \in OAuth THEN [grants EXCEPT ![i][w] = None] ELSE grants
             L == ReadLeases(leases, G, Live(i))
  <2>1. leases' \subseteq L /\ session' = session
    BY <1>15 DEF RevokeWorkspace
  <2>2. OnePerWorkspace(L) /\ \A l \in L : l \in leases \/ l.session \in Live(i)
    BY <1>b, <1>d
  <2>3. QED
    BY <1>0, <1>d, <2>1, <2>2 DEF OnePerWorkspace
<1>16. ASSUME NEW w \in Workspaces, InvalidateWorkspace(w)
       PROVE  OnePerWorkspace(leases') /\ OfKnownSessions(leases)'
  BY <1>0, <1>16, <1>a DEF InvalidateWorkspace
<1>17. ASSUME NEW i \in OAuth, RevokeConnection(i)
       PROVE  OnePerWorkspace(leases') /\ OfKnownSessions(leases)'
  BY <1>0, <1>17, <1>a DEF RevokeConnection, Drop
<1>18. ASSUME NEW i \in OAuth, RefreshReplay(i)
       PROVE  OnePerWorkspace(leases') /\ OfKnownSessions(leases)'
  BY <1>0, <1>18 DEF RefreshReplay
<1>23. ASSUME NEW i \in OAuth, ClientDeleted(i)
       PROVE  OnePerWorkspace(leases') /\ OfKnownSessions(leases)'
  BY <1>0, <1>23 DEF ClientDeleted
<1>19. ASSUME NEW s \in SessionIds, EnableYolo(s) \/ DisableYolo(s)
       PROVE  OnePerWorkspace(leases') /\ OfKnownSessions(leases)'
  BY <1>0, <1>19 DEF EnableYolo, DisableYolo
<1>20. CASE Restart
  BY <1>20 DEF Restart, OnePerWorkspace
<1>21. CASE UNCHANGED vars
  BY <1>0, <1>21 DEF vars
<1>22. QED
  BY <1>1, <1>2, <1>3, <1>4, <1>5, <1>6, <1>7, <1>8, <1>9, <1>10, <1>11, <1>12, <1>13, <1>14,
     <1>15, <1>16, <1>17, <1>18, <1>19, <1>20, <1>21, <1>23 DEF Next

\* What a session may do in a workspace never depends on which of two leases is
\* found first, and no lease outlives its session.
THEOREM OneLease == Spec => []LeasesWellFormed
<1>1. TypeOK /\ LeasesWellFormed /\ [Next]_vars => (TypeOK /\ LeasesWellFormed)'
  BY NextTypeOK, NextLeasesWellFormed
<1>2. QED
  BY <1>1, InitTypeOK, InitLeasesWellFormed, PTL DEF Spec

-----------------------------------------------------------------------------
(* Connections the operator revoked *)

\* What keeps a late decision from giving anything to a connection that was cut:
\* it is revoked and has no session, so no session of it can start or be found.
NothingLeft ==
    \A i \in cut : /\ i \in revoked
                   /\ \A s \in SessionIds : IdentityOf[s] = i => session[s] \in {"new", "gone"}
                   /\ i \notin deleted => \A w \in Workspaces : grants[i][w] = None

LEMMA NothingLeftSuffices == TypeOK /\ LeasesWellFormed /\ NothingLeft => CutIsFinal
<1> SUFFICES ASSUME TypeOK, LeasesWellFormed, NothingLeft, NEW i \in cut
             PROVE  /\ Live(i) \cup Detached(i) = {}
                    /\ i \notin deleted => \A w \in Workspaces : grants[i][w] = None
                    /\ \A l \in leases : IdentityOf[l.session] # i
    BY DEF CutIsFinal
<1>1. \A s \in SessionIds : IdentityOf[s] = i => session[s] \in {"new", "gone"}
  BY DEF NothingLeft
<1>2. \A l \in leases : l.session \in SessionIds
                        /\ session[l.session] \in {"live", "detached"}
  BY DEF TypeOK, Leases, LeasesWellFormed
<1>3. QED
  BY <1>1, <1>2 DEF Live, Detached, NothingLeft

\* Every step leaves the connections that were cut with nothing.
LEMMA NextNothingLeft == TypeOK /\ NothingLeft /\ [Next]_vars => NothingLeft'
<1> SUFFICES ASSUME TypeOK, NothingLeft, [Next]_vars PROVE NothingLeft'
    OBVIOUS
<1> USE DEF TypeOK, NothingLeft, connectionVars, history, Decided
<1>0. /\ \A s \in SessionIds : SessionsAfterExpiry[s] \in {session[s], "gone"}
      /\ DOMAIN SessionsAfterExpiry = SessionIds
  BY DEF SessionsAfterExpiry
<1>1. ASSUME NEW s \in SessionIds, ReadSession(s) \/ Create(s) PROVE NothingLeft'
  BY <1>1 DEF ReadSession, Create
<1>2. ASSUME NEW l \in leases, LeaseLapses(l) PROVE NothingLeft'
  BY <1>2 DEF LeaseLapses
<1>3. ASSUME NEW s \in SessionIds, NEW w \in Workspaces, NEW o, Admit(s, w, o)
      PROVE  NothingLeft'
  <2>1. IdentityOf[s] \notin cut
    BY <1>3 DEF Admit
  <2>2. PICK p : grants' = grants \/ grants' = [grants EXCEPT ![IdentityOf[s]][w] = p]
    BY <1>3 DEF Admit
  <2>3. \A i \in cut : i \in OAuth /\ grants'[i] = grants[i]
    BY <2>1, <2>2
  <2>4. QED
    BY <1>3, <2>3 DEF Admit
<1>4. ASSUME NEW s \in SessionIds, ResolveExisting(s) \/ ResolveCreated(s) PROVE NothingLeft'
  <2>1. CASE ResolveExisting(s)
    BY <1>0, <2>1 DEF ResolveExisting
  <2>2. CASE ResolveCreated(s)
    <3>1. /\ session' = [SessionsAfterExpiry EXCEPT ![s] = "live"]
          /\ IdentityOf[s] \notin revoked /\ UNCHANGED <<grants, revoked, deleted, cut>>
      BY <2>2 DEF ResolveCreated
    <3>2. \A d \in SessionIds : d # s => session'[d] \in {session[d], "gone"}
      BY <1>0, <3>1
    <3>3. QED
      BY <3>1, <3>2
  <2>3. QED
    BY <1>4, <2>1, <2>2
<1>5. ASSUME NEW s \in SessionIds, NEW kept, ResolveResumed(s, kept) PROVE NothingLeft'
  BY <1>0, <1>5 DEF ResolveResumed
<1>6. CASE ListSessions
  BY <1>0, <1>6 DEF ListSessions
<1>7. ASSUME NEW s \in SessionIds, Disconnect(s) \/ RevokeSession(s) PROVE NothingLeft'
  BY <1>7 DEF Disconnect, RevokeSession, Drop
<1>8. ASSUME NEW i \in OAuth, GracePasses(i) PROVE NothingLeft'
  BY <1>8 DEF GracePasses, Detached
<1>9. ASSUME NEW i \in OAuth, NEW w \in Workspaces, NEW p \in Profiles,
             GrantConnection(i, w, p) \/ PageGrant(i, w, p)
      PROVE  NothingLeft'
  <2>1. i \notin cut \/ i \in deleted
    BY <1>9 DEF GrantConnection, PageGrant, MayGrant, Live, Detached
  <2>2. grants' = [grants EXCEPT ![i][w] = p]
    BY <1>9 DEF GrantConnection, PageGrant
  <2>3. \A j \in cut : j \in OAuth /\ (j \in deleted \/ grants'[j] = grants[j])
    BY <2>1, <2>2
  <2>4. QED
    BY <1>9, <2>3 DEF GrantConnection, PageGrant
<1>10. ASSUME NEW i \in OAuth, NEW w \in Workspaces, PageRemove(i, w) PROVE NothingLeft'
  BY <1>10 DEF PageRemove
<1>11. ASSUME NEW s \in SessionIds, NEW w \in Workspaces, RevokeWorkspace(s, w)
       PROVE  NothingLeft'
  BY <1>11 DEF RevokeWorkspace
<1>12. ASSUME NEW w \in Workspaces, InvalidateWorkspace(w) PROVE NothingLeft'
  BY <1>12 DEF InvalidateWorkspace
<1>13. ASSUME NEW i \in OAuth, RevokeConnection(i) PROVE NothingLeft'
  <2>1. \A s \in SessionIds : IdentityOf[s] = i => session'[s] \in {"new", "gone"}
    BY <1>13 DEF RevokeConnection, Drop, Live, Detached
  <2>2. \A s \in SessionIds : session'[s] \in {session[s], "gone"}
    BY <1>13 DEF RevokeConnection, Drop
  <2>3. /\ \A w \in Workspaces : grants'[i][w] = None
        /\ \A j \in cut : grants'[j] = grants[j] \/ j = i
    BY <1>13 DEF RevokeConnection, GrantsWithout
  <2>4. revoked' = revoked \cup {i} /\ deleted' = deleted /\ cut' = cut \cup {i}
    BY <1>13 DEF RevokeConnection
  <2>5. QED
    BY <2>1, <2>2, <2>3, <2>4
<1>14. ASSUME NEW i \in OAuth, RefreshReplay(i) \/ ClientDeleted(i) PROVE NothingLeft'
  BY <1>14 DEF RefreshReplay, ClientDeleted
<1>15. ASSUME NEW s \in SessionIds, EnableYolo(s) \/ DisableYolo(s) PROVE NothingLeft'
  BY <1>15 DEF EnableYolo, DisableYolo
<1>16. CASE Restart
  BY <1>16 DEF Restart
<1>17. CASE UNCHANGED vars
  BY <1>17 DEF vars
<1>18. QED
  BY <1>1, <1>2, <1>3, <1>4, <1>5, <1>6, <1>7, <1>8, <1>9, <1>10, <1>11, <1>12, <1>13, <1>14,
     <1>15, <1>16, <1>17 DEF Next

\* Revoking a connection is final: an approval given or resumed afterwards, a
\* reconnect or a late restore leaves it with no session, no lease and no grant.
THEOREM RevocationIsFinal == Spec => []CutIsFinal
<1> DEFINE IInv == TypeOK /\ LeasesWellFormed /\ NothingLeft
<1>1. Init => IInv
  BY InitTypeOK, InitLeasesWellFormed DEF Init, NothingLeft
<1>2. IInv /\ [Next]_vars => IInv'
  BY NextTypeOK, NextLeasesWellFormed, NextNothingLeft
<1>3. IInv => CutIsFinal
  BY NothingLeftSuffices
<1>4. QED
  BY <1>1, <1>2, <1>3, PTL DEF Spec

-----------------------------------------------------------------------------
(* Removed grants *)

LEMMA RestoredGranted ==
    ASSUME NEW L, NEW G, NEW S, NEW l \in Restored(L, G, S)
    PROVE  /\ l \in Leases /\ l.session \in S
           /\ Granted(G, l.session, l.workspace) = l.profile
           /\ Granted(G, l.session, l.workspace) # None
BY ProfileAssumption DEF Restored, Leases

\* Every step keeps a removed grant from coming back.
LEMMA NextRemovedIsGone ==
    TypeOK /\ LeasesWellFormed /\ RemovedIsGone /\ [Next]_vars => RemovedIsGone'
<1> SUFFICES ASSUME TypeOK, LeasesWellFormed, RemovedIsGone, [Next]_vars, NEW pair \in removed'
             PROVE  /\ grants'[pair[1]][pair[2]] = None
                    /\ \A l \in leases' : IdentityOf[l.session] = pair[1] => l.workspace # pair[2]
    BY DEF RemovedIsGone
<1> DEFINE i == pair[1]
           w == pair[2]
           Kept(l) == IdentityOf[l.session] = i => l.workspace # w
           StaysGone == grants'[i][w] = None /\ \A l \in leases' : Kept(l)
<1> USE DEF connectionVars, history, Decided
<1>0. /\ removed' \subseteq OAuth \X Workspaces /\ i \in OAuth /\ w \in Workspaces
      /\ leases \in SUBSET Leases
      /\ grants \in [OAuth -> [Workspaces -> Profiles \cup {None}]]
      /\ leases' \subseteq Leases
  BY NextTypeOK DEF TypeOK
<1>a. pair \in removed => grants[i][w] = None /\ \A l \in leases : Kept(l)
  BY DEF RemovedIsGone
<1>b. ASSUME NEW L, NEW S, NEW G, G[i][w] = None, \A l \in L : Kept(l)
      PROVE  /\ \A l \in ReadLeases(L, G, S) : Kept(l)
             /\ \A l \in Restored(L, G, S) : Kept(l)
  <2>1. \A R : \A l \in Restored(L, G, R) : Kept(l)
    BY <1>0, <1>b, RestoredGranted DEF Granted
  <2>2. QED
    BY <1>b, <2>1 DEF ReadLeases
<1>c. LeasesAfterExpiry \subseteq leases
  BY DEF LeasesAfterExpiry
<1>1. ASSUME NEW s \in SessionIds, ReadSession(s) PROVE StaysGone
  BY <1>1, <1>a, <1>b DEF ReadSession
<1>2. ASSUME NEW l \in leases, LeaseLapses(l) PROVE StaysGone
  <2>1. [l EXCEPT !.expired = TRUE].session = l.session
        /\ [l EXCEPT !.expired = TRUE].workspace = l.workspace
    BY <1>0 DEF Leases
  <2>2. QED
    BY <1>2, <1>a, <2>1 DEF LeaseLapses
<1>3. ASSUME NEW s \in SessionIds, NEW x \in Workspaces, NEW o, Admit(s, x, o) PROVE StaysGone
  <2>1. pair \in removed /\ pair # <<IdentityOf[s], x>>
    BY <1>3 DEF Admit
  <2>2. PICK p : /\ grants' = grants \/ grants' = [grants EXCEPT ![IdentityOf[s]][x] = p]
                 /\ \A l \in leases' : \/ l \in ReadLeases(leases, grants, {s})
                                       \/ l = Lease(s, x, p, o # None)
    BY <1>3 DEF Admit
  <2>3. pair = <<i, w>>
    BY <1>0
  <2>4. grants'[i][w] = None
    BY <1>0, <1>a, <2>1, <2>2, <2>3
  <2>5. Kept(Lease(s, x, p, o # None))
    BY <2>1, <2>3 DEF Lease
  <2>6. QED
    BY <1>a, <1>b, <2>1, <2>2, <2>4, <2>5
<1>4. ASSUME NEW s \in SessionIds, Create(s) \/ ResolveExisting(s) \/ ResolveCreated(s)
      PROVE  StaysGone
  BY <1>4, <1>a, <1>c DEF Create, ResolveExisting, ResolveCreated
<1>5. ASSUME NEW s \in SessionIds, NEW kept, ResolveResumed(s, kept) PROVE StaysGone
  <2> DEFINE Old == Detached(IdentityOf[s])
             usable == Usable({l \in LeasesAfterExpiry : l.session \in Old})
             restored == IF usable = {} THEN {} ELSE Restored(LeasesAfterExpiry, grants, {s})
             Moved == {[l EXCEPT !.session = s] : l \in kept}
  <2>1. /\ pair \in removed /\ grants' = grants
        /\ Rebinds(s, Old, LeasesAfterExpiry, kept)
    BY <1>5 DEF ResolveResumed
  <2>2. /\ leases' = {l \in LeasesAfterExpiry : l.session \notin Old} \cup restored \cup Moved
        /\ kept \subseteq usable
    BY <2>1 DEF Rebinds
  <2>3. \A l \in LeasesAfterExpiry : Kept(l)
    BY <1>a, <1>c, <2>1
  <2>4. \A l \in restored : Kept(l)
    BY <1>a, <1>b, <2>1, <2>3
  <2>5. ASSUME NEW m \in Moved PROVE Kept(m)
    <3>1. PICK l \in kept : m = [l EXCEPT !.session = s]
      OBVIOUS
    <3>2. /\ l \in LeasesAfterExpiry /\ l.session \in SessionIds
          /\ IdentityOf[l.session] = IdentityOf[s]
      BY <2>2 DEF Usable, Detached
    <3>3. m.session = s /\ m.workspace = l.workspace
      BY <1>0, <1>c, <3>1, <3>2 DEF Leases
    <3>4. QED
      BY <2>3, <3>2, <3>3
  <2>6. QED
    BY <1>a, <2>1, <2>2, <2>3, <2>4, <2>5
<1>6. CASE ListSessions
  <2>1. \A l \in LeasesAfterExpiry : pair \in removed => Kept(l)
    BY <1>a, <1>c
  <2>2. QED
    BY <1>6, <1>a, <1>b, <2>1 DEF ListSessions
<1>7. ASSUME NEW s \in SessionIds, Disconnect(s) \/ RevokeSession(s) PROVE StaysGone
  BY <1>7, <1>a DEF Disconnect, RevokeSession, Drop
<1>8. ASSUME NEW j \in OAuth, GracePasses(j) \/ RefreshReplay(j) \/ ClientDeleted(j) PROVE StaysGone
  BY <1>8, <1>a DEF GracePasses, RefreshReplay, ClientDeleted
<1>9. ASSUME NEW j \in OAuth, NEW x \in Workspaces, NEW p \in Profiles, GrantConnection(j, x, p)
      PROVE  StaysGone
  <2> DEFINE G == [grants EXCEPT ![j][x] = p]
             L == ReadLeases(leases, G, Live(j))
  <2>1. pair \in removed /\ ~(i = j /\ w = x) /\ grants' = G /\ leases' = FannedOut(L, j, x, p)
    BY <1>0, <1>9 DEF GrantConnection
  <2>2. G[i][w] = None
    BY <1>0, <1>a, <2>1
  <2>3. \A l \in L : Kept(l)
    BY <1>a, <1>b, <2>1, <2>2
  <2>4. \A l \in FannedOut(L, j, x, p) : l \in L \/ (IdentityOf[l.session] = j /\ l.workspace = x)
    BY DEF FannedOut, Live, Lease
  <2>5. QED
    BY <2>1, <2>2, <2>3, <2>4
<1>10. ASSUME NEW j \in OAuth, NEW x \in Workspaces, NEW p \in Profiles, PageGrant(j, x, p)
       PROVE  StaysGone
  <2> DEFINE L == ReadLeases(leases, grants, Live(j))
             Away == LeasesOf(L, Detached(j), x)
  <2>1. /\ pair \in removed /\ ~(i = j /\ w = x)
        /\ grants' = [grants EXCEPT ![j][x] = p] /\ leases' = Regranted(L, j, x, p)
    BY <1>0, <1>10 DEF PageGrant
  <2>2. grants'[i][w] = None
    BY <1>0, <1>a, <2>1
  <2>3. \A l \in L : Kept(l)
    BY <1>a, <1>b, <2>1
  <2>4. \A l \in FannedOut(L \ Away, j, x, p) :
           l \in L \/ (IdentityOf[l.session] = j /\ l.workspace = x)
    BY DEF FannedOut, Live, Lease
  <2>5. L \subseteq Leases
    BY <1>0, ReadLeasesType
  <2>6. \A l \in Away : /\ [l EXCEPT !.profile = p, !.once = FALSE].session = l.session
                        /\ [l EXCEPT !.profile = p, !.once = FALSE].workspace = l.workspace
                        /\ l \in L
    BY <2>5 DEF LeasesOf, Leases
  <2>7. \A l \in leases' : \/ l \in FannedOut(L \ Away, j, x, p)
                           \/ \E m \in Away : l = [m EXCEPT !.profile = p, !.once = FALSE]
    BY <2>1 DEF Regranted
  <2>8. ASSUME NEW l \in leases' PROVE Kept(l)
    <3>1. CASE l \in FannedOut(L \ Away, j, x, p)
      BY <2>1, <2>3, <2>4, <3>1
    <3>2. CASE \E m \in Away : l = [m EXCEPT !.profile = p, !.once = FALSE]
      BY <2>3, <2>6, <3>2
    <3>3. QED
      BY <2>7, <3>1, <3>2
  <2>9. QED
    BY <2>2, <2>8
<1>11. ASSUME NEW j \in OAuth, NEW x \in Workspaces, PageRemove(j, x) PROVE StaysGone
  <2>1. leases' = leases \ LeasesOf(leases, Holders(j), x) /\ removed' = removed \cup {<<j, x>>}
        /\ grants' = [grants EXCEPT ![j][x] = None]
    BY <1>11 DEF PageRemove
  <2>2. CASE pair \in removed
    BY <1>0, <1>a, <2>1, <2>2
  <2>3. CASE pair = <<j, x>>
    <3>1. \A l \in leases' : /\ l \in leases /\ l.session \in SessionIds
                             /\ session[l.session] \in {"live", "detached"}
                             /\ l \notin LeasesOf(leases, Holders(j), x)
      BY <1>0, <2>1 DEF Leases, LeasesWellFormed
    <3>2. \A l \in leases' : IdentityOf[l.session] = j => l.workspace # x
      BY <3>1 DEF LeasesOf, Holders, Live, Detached
    <3>3. grants'[j][x] = None
      BY <1>0, <2>1
    <3>4. QED
      BY <2>3, <3>2, <3>3
  <2>4. QED
    BY <2>1, <2>2, <2>3
<1>12. ASSUME NEW s \in SessionIds, NEW x \in Workspaces, RevokeWorkspace(s, x) PROVE StaysGone
  <2> DEFINE j == IdentityOf[s]
             G == IF j \in OAuth THEN [grants EXCEPT ![j][x] = None] ELSE grants
             L == ReadLeases(leases, G, Live(j))
  <2>1. pair \in removed /\ grants' = G /\ leases' \subseteq L
    BY <1>12 DEF RevokeWorkspace
  <2>2. G[i][w] = None
    BY <1>0, <1>a, <2>1
  <2>3. QED
    BY <1>a, <1>b, <2>1, <2>2
<1>13. ASSUME NEW x \in Workspaces, InvalidateWorkspace(x) PROVE StaysGone
  BY <1>0, <1>13, <1>a DEF InvalidateWorkspace
<1>14. ASSUME NEW j \in OAuth, RevokeConnection(j) PROVE StaysGone
  BY <1>0, <1>14, <1>a DEF RevokeConnection, Drop, GrantsWithout
<1>15. ASSUME NEW s \in SessionIds, EnableYolo(s) \/ DisableYolo(s) PROVE StaysGone
  BY <1>15, <1>a DEF EnableYolo, DisableYolo
<1>16. CASE Restart
  BY <1>16, <1>a DEF Restart
<1>17. CASE UNCHANGED vars
  BY <1>17, <1>a DEF vars
<1>18. QED
  BY <1>1, <1>2, <1>3, <1>4, <1>5, <1>6, <1>7, <1>8, <1>9, <1>10, <1>11, <1>12, <1>13, <1>14,
     <1>15, <1>16, <1>17 DEF Next

\* A grant removed on the connection page stays gone, from the table and from
\* every lease, until the workspace is decided anew.
THEOREM RemovalHolds == Spec => []RemovedIsGone
<1> DEFINE IInv == TypeOK /\ LeasesWellFormed /\ RemovedIsGone
<1>1. Init => IInv
  BY InitTypeOK, InitLeasesWellFormed DEF Init, RemovedIsGone
<1>2. IInv /\ [Next]_vars => IInv'
  BY NextTypeOK, NextLeasesWellFormed, NextRemovedIsGone
<1>3. QED
  BY <1>1, <1>2, PTL DEF Spec

-----------------------------------------------------------------------------
(* The profile of the grant *)

\* Lease l is of the profile that grants G give its session, if they give any.
Follows(G, l) ==
    ~l.once /\ AutoProfile[IdentityOf[l.session]][l.workspace] = None
    => Granted(G, l.session, l.workspace) \in {None, l.profile}

LEMMA RestoredFollows ==
    ASSUME NEW L, NEW G, NEW S, NEW l \in Restored(L, G, S)
    PROVE  Follows(G, l)
BY DEF Restored, Follows

\* A grant that changes for one workspace of one connection changes for no other
\* lease.
LEMMA OthersFollow ==
    ASSUME TypeOK, NEW j \in OAuth, NEW x \in Workspaces, NEW p \in Profiles \cup {None},
           NEW l \in Leases, p = None \/ ~(IdentityOf[l.session] = j /\ l.workspace = x),
           Follows(grants, l)
    PROVE  Follows([grants EXCEPT ![j][x] = p], l)
<1>1. grants \in [OAuth -> [Workspaces -> Profiles \cup {None}]] /\ l.workspace \in Workspaces
  BY DEF TypeOK, Leases
<1>2. \/ Granted([grants EXCEPT ![j][x] = p], l.session, l.workspace)
            = Granted(grants, l.session, l.workspace)
      \/ Granted([grants EXCEPT ![j][x] = p], l.session, l.workspace) = None
  BY <1>1 DEF Granted
<1>3. QED
  BY <1>2 DEF Follows

LEMMA NextGrantedProfileRules ==
    TypeOK /\ LeasesWellFormed /\ GrantedProfileRules /\ [Next]_vars => GrantedProfileRules'
<1> SUFFICES ASSUME TypeOK, LeasesWellFormed, GrantedProfileRules, [Next]_vars
             PROVE  \A l \in leases' : session'[l.session] = "live" => Follows(grants', l)
    BY DEF GrantedProfileRules, Follows
<1> DEFINE Rules == \A l \in leases' : session'[l.session] = "live" => Follows(grants', l)
           Ruled(G, l) == session[l.session] = "live" => Follows(G, l)
<1> USE DEF connectionVars
<1>0. /\ leases \in SUBSET Leases /\ session \in [SessionIds -> {"new", "live", "detached", "gone"}]
      /\ grants \in [OAuth -> [Workspaces -> Profiles \cup {None}]]
      /\ \A l \in leases : l.session \in SessionIds /\ l.workspace \in Workspaces
      /\ \A l \in leases : session[l.session] \in {"live", "detached"}
  BY DEF TypeOK, LeasesWellFormed, Leases
<1>a. \A l \in leases : Ruled(grants, l)
  BY DEF GrantedProfileRules, Follows
<1>b. ASSUME NEW L, NEW S, NEW G, \A l \in L : Ruled(G, l)
      PROVE  \A l \in ReadLeases(L, G, S) : Ruled(G, l)
  BY <1>b, RestoredFollows DEF ReadLeases
<1>c. /\ LeasesAfterExpiry \subseteq leases
      /\ \A d \in SessionIds : SessionsAfterExpiry[d] = "live" => session[d] = "live"
      /\ \A d \in SessionIds : SessionsAfterExpiry[d] \in {session[d], "gone"}
  BY DEF LeasesAfterExpiry, SessionsAfterExpiry
<1>1. ASSUME NEW s \in SessionIds, ReadSession(s) PROVE Rules
  BY <1>1, <1>a, <1>b DEF ReadSession
<1>2. ASSUME NEW l \in leases, LeaseLapses(l) PROVE Rules
  <2>1. /\ [l EXCEPT !.expired = TRUE].session = l.session
        /\ [l EXCEPT !.expired = TRUE].workspace = l.workspace
        /\ [l EXCEPT !.expired = TRUE].profile = l.profile
        /\ [l EXCEPT !.expired = TRUE].once = l.once
    BY <1>0 DEF Leases
  <2>2. Ruled(grants, l) => Ruled(grants, [l EXCEPT !.expired = TRUE])
    BY <2>1 DEF Follows
  <2>3. QED
    BY <1>2, <1>a, <2>2 DEF LeaseLapses
<1>3. ASSUME NEW s \in SessionIds, NEW x \in Workspaces, NEW o \in Overrides \cup {None},
             Admit(s, x, o)
      PROVE  Rules
  <2> DEFINE j == IdentityOf[s]
             auto == o = None /\ Granted(grants, s, x) = None
             p == IF o # None THEN o ELSE IF auto THEN AutoProfile[j][x] ELSE Granted(grants, s, x)
             new == Lease(s, x, p, o # None)
  <2>1. /\ grants' = IF auto /\ j \in OAuth THEN [grants EXCEPT ![j][x] = p] ELSE grants
        /\ p # None /\ session' = session
        /\ \A l \in leases' : l \in ReadLeases(leases, grants, {s}) \/ l = new
    BY <1>3 DEF Admit
  <2>2. /\ new.session = s /\ new.workspace = x /\ new.profile = p /\ new.once = (o # None)
    BY DEF Lease
  <2>3. Follows(grants', new)
    <3>1. CASE o # None
      BY <2>2, <3>1 DEF Follows
    <3>2. CASE o = None /\ auto
      <4>1. AutoProfile[j][x] # None
        BY <2>1, <3>2
      <4>2. QED
        BY <2>2, <4>1 DEF Follows
    <3>3. CASE o = None /\ ~auto
      <4>1. grants' = grants /\ p = Granted(grants, s, x)
        BY <2>1, <3>3
      <4>2. QED
        BY <2>2, <4>1 DEF Follows
    <3>4. QED
      BY <3>1, <3>2, <3>3
  <2>4. \A l \in ReadLeases(leases, grants, {s}) : Ruled(grants, l) /\ l \in Leases
    BY <1>0, <1>a, <1>b, ReadLeasesType
  <2>5. ASSUME NEW l \in Leases, Follows(grants, l) PROVE Follows(grants', l)
    <3>1. CASE auto /\ j \in OAuth
      <4>1. AutoProfile[j][x] = p /\ p \in Profiles
        BY <2>1, <3>1, IdentityAssumption, ProfileAssumption
      <4>2. CASE IdentityOf[l.session] = j /\ l.workspace = x
        BY <2>1, <4>1, <4>2 DEF Follows
      <4>3. CASE ~(IdentityOf[l.session] = j /\ l.workspace = x)
        <5>1. PICK q \in Profiles : grants' = [grants EXCEPT ![j][x] = q]
          BY <2>1, <3>1, <4>1
        <5>2. j \in OAuth
          BY <3>1
        <5>3. q \in Profiles \cup {None}
          OBVIOUS
        <5>4. Follows([grants EXCEPT ![j][x] = q], l)
          BY <2>5, <4>3, <5>2, <5>3, OthersFollow
        <5>5. QED
          BY <5>1, <5>4
      <4>4. QED
        BY <4>2, <4>3
    <3>2. CASE ~(auto /\ j \in OAuth)
      BY <2>1, <2>5, <3>2
    <3>3. QED
      BY <3>1, <3>2
  <2>6. QED
    BY <2>1, <2>3, <2>4, <2>5
<1>4. ASSUME NEW s \in SessionIds, Create(s) \/ ResolveExisting(s) \/ ResolveCreated(s)
      PROVE  Rules
  <2>1. /\ grants' = grants /\ leases' \subseteq leases
        /\ \A d \in SessionIds : session'[d] = "live" => session[d] \in {"live", "new"}
    BY <1>0, <1>4, <1>c DEF Create, ResolveExisting, ResolveCreated, SessionsAfterExpiry
  <2>2. QED
    BY <1>0, <1>a, <2>1
<1>5. ASSUME NEW s \in SessionIds, NEW kept, ResolveResumed(s, kept) PROVE Rules
  <2> DEFINE Old == Detached(IdentityOf[s])
             usable == Usable({l \in LeasesAfterExpiry : l.session \in Old})
             restored == IF usable = {} THEN {} ELSE Restored(LeasesAfterExpiry, grants, {s})
             Moved == {[l EXCEPT !.session = s] : l \in kept}
  <2>1. /\ grants' = grants /\ session[s] = "new"
        /\ Rebinds(s, Old, LeasesAfterExpiry, kept)
        /\ session' = [d \in SessionIds |-> IF d = s THEN "live" ELSE IF d \in Old THEN "gone"
                                          ELSE SessionsAfterExpiry[d]]
    BY <1>5 DEF ResolveResumed
  <2>2. /\ leases' = {l \in LeasesAfterExpiry : l.session \notin Old} \cup restored \cup Moved
        /\ kept \subseteq {l \in usable : \A r \in restored : r.workspace # l.workspace}
    BY <2>1 DEF Rebinds
  <2>3. \A l \in LeasesAfterExpiry : l \in leases /\ l.session # s
    BY <1>0, <1>c, <2>1
  <2>4. ASSUME NEW l \in LeasesAfterExpiry, session'[l.session] = "live" PROVE Follows(grants', l)
    BY <1>0, <1>a, <1>c, <2>1, <2>3, <2>4
  <2>5. \A l \in restored : Follows(grants', l)
    BY <2>1, RestoredFollows
  <2>6. ASSUME NEW m \in Moved PROVE Follows(grants', m)
    <3>1. PICK l \in kept : m = [l EXCEPT !.session = s]
      OBVIOUS
    <3>2. l \in usable /\ l \in leases /\ \A r \in restored : r.workspace # l.workspace
      BY <2>2, <2>3 DEF Usable
    <3>3. m.session = s /\ m.workspace = l.workspace /\ m.profile = l.profile /\ m.once = l.once
      BY <1>0, <3>1, <3>2 DEF Leases
    <3>4. restored = Restored(LeasesAfterExpiry, grants, {s})
      BY <3>2
    <3>5. Granted(grants, s, l.workspace) = None
      <4>1. SUFFICES ASSUME Granted(grants, s, l.workspace) # None PROVE FALSE
        OBVIOUS
      <4>2. l.workspace \in Workspaces
        BY <1>0, <3>2
      <4>3. Granted(grants, s, l.workspace) \in Profiles
        BY <1>0, <4>1, <4>2, GrantedType
      <4>4. PICK r \in Leases :
                /\ r.session = s /\ r.workspace = l.workspace /\ ~r.expired /\ ~r.once
                /\ r.profile = Granted(grants, s, l.workspace)
        <5>1. PICK g \in Profiles : g = Granted(grants, s, l.workspace)
          BY <4>3
        <5>2. /\ Lease(s, l.workspace, g, FALSE) \in Leases
              /\ Lease(s, l.workspace, g, FALSE).session = s
              /\ Lease(s, l.workspace, g, FALSE).workspace = l.workspace
              /\ Lease(s, l.workspace, g, FALSE).profile = g
              /\ ~Lease(s, l.workspace, g, FALSE).once
              /\ ~Lease(s, l.workspace, g, FALSE).expired
          BY <4>2 DEF Lease, Leases
        <5>3. QED
          BY <5>1, <5>2
      <4>5. \A x \in LeasesOf(LeasesAfterExpiry, {r.session}, r.workspace) : x.expired
        BY <2>3, <4>4 DEF LeasesOf
      <4>6. r \in Restored(LeasesAfterExpiry, grants, {s})
        BY <4>4, <4>5 DEF Restored
      <4>7. QED
        BY <3>2, <3>4, <4>4, <4>6
    <3>6. QED
      BY <2>1, <3>3, <3>5 DEF Follows
  <2>7. QED
    BY <2>2, <2>4, <2>5, <2>6
<1>6. CASE ListSessions
  <2> DEFINE All == {s \in SessionIds : session[s] = "live"}
  <2>1. \A l \in ReadLeases(LeasesAfterExpiry, grants, All) : Ruled(grants, l) /\ l \in Leases
    BY <1>0, <1>a, <1>b, <1>c, ReadLeasesType
  <2>2. \A l \in Leases : l.session \in SessionIds
    BY DEF Leases
  <2>3. QED
    BY <1>6, <1>c, <2>1, <2>2 DEF ListSessions
<1>7. ASSUME NEW s \in SessionIds, Disconnect(s) \/ RevokeSession(s) PROVE Rules
  <2>1. /\ grants' = grants /\ leases' \subseteq leases
        /\ \A d \in SessionIds : session'[d] = "live" => session[d] = "live"
    BY <1>0, <1>7 DEF Disconnect, RevokeSession, Drop
  <2>2. QED
    BY <1>0, <1>a, <2>1
<1>8. ASSUME NEW j \in OAuth, GracePasses(j) \/ RefreshReplay(j) \/ ClientDeleted(j) PROVE Rules
  BY <1>8, <1>a DEF GracePasses, RefreshReplay, ClientDeleted
<1>9. ASSUME NEW j \in OAuth, NEW x \in Workspaces, NEW p \in Profiles, GrantConnection(j, x, p)
      PROVE  Rules
  <2> DEFINE G == [grants EXCEPT ![j][x] = p]
             L == ReadLeases(leases, G, Live(j))
  <2>1. grants' = G /\ leases' = FannedOut(L, j, x, p) /\ session' = session
    BY <1>9 DEF GrantConnection
  <2>2. \A l \in L : l \in leases \/ Follows(G, l)
    BY RestoredFollows DEF ReadLeases
  <2>3. ASSUME NEW l \in L \ LeasesOf(L, Live(j), x), session[l.session] = "live"
        PROVE  Follows(G, l)
    <3>1. CASE l \in leases
      <4>1. ~(IdentityOf[l.session] = j /\ l.workspace = x)
        BY <1>0, <2>3, <3>1 DEF LeasesOf, Live
      <4>2. l \in Leases /\ Follows(grants, l)
        BY <1>0, <1>a, <2>3, <3>1
      <4>3. QED
        BY <4>1, <4>2, OthersFollow
    <3>2. QED
      BY <2>2, <2>3, <3>1
  <2>4. ASSUME NEW s \in Live(j) PROVE Follows(G, Lease(s, x, p, FALSE))
    <3>1. G[j][x] = p /\ IdentityOf[s] = j
      BY <1>0 DEF Live
    <3>2. QED
      BY <3>1 DEF Follows, Granted, Lease
  <2>5. QED
    BY <2>1, <2>3, <2>4 DEF FannedOut
<1>10. ASSUME NEW j \in OAuth, NEW x \in Workspaces, NEW p \in Profiles, PageGrant(j, x, p)
       PROVE  Rules
  <2> DEFINE G == [grants EXCEPT ![j][x] = p]
             L == ReadLeases(leases, grants, Live(j))
             Away == LeasesOf(L, Detached(j), x)
  <2>1. grants' = G /\ leases' = Regranted(L, j, x, p) /\ session' = session
    BY <1>10 DEF PageGrant
  <2>2. \A l \in L : l \in Leases /\ Ruled(grants, l)
    BY <1>0, <1>a, <1>b, ReadLeasesType
  <2>3. ASSUME NEW l \in L \ LeasesOf(L, Live(j), x), session[l.session] = "live"
        PROVE  Follows(G, l)
    <3>1. ~(IdentityOf[l.session] = j /\ l.workspace = x)
      BY <2>2, <2>3 DEF LeasesOf, Live, Leases
    <3>2. QED
      BY <2>2, <2>3, <3>1, OthersFollow
  <2>4. ASSUME NEW s \in Live(j) PROVE Follows(G, Lease(s, x, p, FALSE))
    <3>1. G[j][x] = p /\ IdentityOf[s] = j
      BY <1>0 DEF Live
    <3>2. QED
      BY <3>1 DEF Follows, Granted, Lease
  <2>5. ASSUME NEW l \in FannedOut(L \ Away, j, x, p), session[l.session] = "live"
        PROVE  Follows(G, l)
    <3>1. CASE l \in L \ LeasesOf(L, Live(j), x)
      BY <2>3, <2>5, <3>1
    <3>2. CASE l \notin L \ LeasesOf(L, Live(j), x)
      BY <2>4, <2>5, <3>2 DEF FannedOut, LeasesOf
    <3>3. QED
      BY <3>1, <3>2
  <2>6. \A m \in Away : session[[m EXCEPT !.profile = p, !.once = FALSE].session] = "detached"
    BY <2>2 DEF LeasesOf, Detached, Leases
  <2>7. \A l \in leases' : \/ l \in FannedOut(L \ Away, j, x, p)
                           \/ \E m \in Away : l = [m EXCEPT !.profile = p, !.once = FALSE]
    BY <2>1 DEF Regranted
  <2>8. QED
    BY <2>1, <2>5, <2>6, <2>7
<1>11. ASSUME NEW j \in OAuth, NEW x \in Workspaces, PageRemove(j, x) PROVE Rules
  <2>1. leases' \subseteq leases /\ grants' = [grants EXCEPT ![j][x] = None] /\ session' = session
    BY <1>11 DEF PageRemove
  <2>2. QED
    BY <1>0, <1>a, <2>1, OthersFollow
<1>12. ASSUME NEW s \in SessionIds, NEW x \in Workspaces, RevokeWorkspace(s, x) PROVE Rules
  <2> DEFINE j == IdentityOf[s]
             G == IF j \in OAuth THEN [grants EXCEPT ![j][x] = None] ELSE grants
             L == ReadLeases(leases, G, Live(j))
  <2>1. grants' = G /\ leases' \subseteq L /\ session' = session
    BY <1>12 DEF RevokeWorkspace
  <2>2. \A l \in leases : Ruled(G, l)
    BY <1>0, <1>a, OthersFollow
  <2>3. QED
    BY <1>b, <2>1, <2>2
<1>13. ASSUME NEW x \in Workspaces, InvalidateWorkspace(x) PROVE Rules
  <2>1. leases' \subseteq leases /\ session' = session
        /\ grants' = [i \in OAuth |-> [grants[i] EXCEPT ![x] = None]]
    BY <1>13 DEF InvalidateWorkspace
  <2>2. \A l \in leases : \/ Granted(grants', l.session, l.workspace)
                                = Granted(grants, l.session, l.workspace)
                          \/ Granted(grants', l.session, l.workspace) = None
    BY <1>0, <2>1 DEF Granted
  <2>3. QED
    BY <1>a, <2>1, <2>2 DEF Follows
<1>14. ASSUME NEW j \in OAuth, RevokeConnection(j) PROVE Rules
  <2>1. /\ leases' \subseteq leases
        /\ \A d \in SessionIds : session'[d] = "live" => session[d] = "live"
        /\ grants' = [grants EXCEPT ![j] = [w \in Workspaces |-> None]]
    BY <1>0, <1>14 DEF RevokeConnection, Drop, GrantsWithout
  <2>2. \A l \in leases : \/ Granted(grants', l.session, l.workspace)
                                = Granted(grants, l.session, l.workspace)
                          \/ Granted(grants', l.session, l.workspace) = None
    BY <1>0, <2>1 DEF Granted
  <2>3. QED
    BY <1>0, <1>a, <2>1, <2>2 DEF Follows
<1>15. ASSUME NEW s \in SessionIds, EnableYolo(s) \/ DisableYolo(s) PROVE Rules
  BY <1>15, <1>a DEF EnableYolo, DisableYolo
<1>16. CASE Restart
  BY <1>16 DEF Restart
<1>17. CASE UNCHANGED vars
  BY <1>17, <1>a DEF vars
<1>18. QED
  BY <1>1, <1>2, <1>3, <1>4, <1>5, <1>6, <1>7, <1>8, <1>9, <1>10, <1>11, <1>12, <1>13, <1>14,
     <1>15, <1>16, <1>17 DEF Next

\* A live session works under the profile of its connection's grant, whatever
\* reconnects, downgrades and restores came before.
THEOREM GrantRules == Spec => []GrantedProfileRules
<1> DEFINE IInv == TypeOK /\ LeasesWellFormed /\ GrantedProfileRules
<1>1. Init => IInv
  BY InitTypeOK, InitLeasesWellFormed DEF Init, GrantedProfileRules
<1>2. IInv /\ [Next]_vars => IInv'
  BY NextTypeOK, NextLeasesWellFormed, NextGrantedProfileRules
<1>3. QED
  BY <1>1, <1>2, PTL DEF Spec

-----------------------------------------------------------------------------
(* Reconnection *)

\* A session starts to live where it is created or resumed.
LEMMA StartsToLive ==
    ASSUME TypeOK, [Next]_vars, NEW s \in SessionIds, session[s] = "new", session'[s] = "live"
    PROVE  \/ Create(s) \/ ResolveCreated(s)
           \/ \E kept \in SUBSET Usable(leases) : ResolveResumed(s, kept)
<1>0. session \in [SessionIds -> {"new", "live", "detached", "gone"}]
      /\ \A d \in SessionIds : SessionsAfterExpiry[d] \in {session[d], "gone"}
  BY DEF TypeOK, SessionsAfterExpiry
<1>1. ASSUME NEW d \in SessionIds,
             Create(d) \/ ResolveCreated(d)
               \/ \E kept \in SUBSET Usable(leases) : ResolveResumed(d, kept)
      PROVE  d = s
  BY <1>0, <1>1 DEF Create, ResolveCreated, ResolveResumed, SessionsAfterExpiry
<1>2. ASSUME NEW d \in SessionIds,
             \/ ReadSession(d) \/ ResolveExisting(d) \/ Disconnect(d) \/ RevokeSession(d)
             \/ EnableYolo(d) \/ DisableYolo(d)
             \/ \E w \in Workspaces :
                   RevokeWorkspace(d, w) \/ \E override \in Overrides \cup {None} : Admit(d, w, override)
      PROVE  FALSE
  BY <1>0, <1>2 DEF ReadSession, ResolveExisting, Disconnect, RevokeSession, EnableYolo, DisableYolo,
     RevokeWorkspace, Admit, Drop
<1>3. ASSUME NEW i \in OAuth,
             \/ GracePasses(i) \/ RevokeConnection(i) \/ RefreshReplay(i) \/ ClientDeleted(i)
             \/ \E w \in Workspaces :
                   PageRemove(i, w) \/ \E p \in Profiles : GrantConnection(i, w, p) \/ PageGrant(i, w, p)
      PROVE  FALSE
  BY <1>0, <1>3 DEF GracePasses, RevokeConnection, RefreshReplay, ClientDeleted, PageRemove,
     GrantConnection, PageGrant, Drop
<1>4. ASSUME \/ \E l \in leases : LeaseLapses(l)
             \/ \E w \in Workspaces : InvalidateWorkspace(w)
             \/ ListSessions \/ Restart \/ UNCHANGED vars
      PROVE  FALSE
  BY <1>0, <1>4 DEF LeaseLapses, InvalidateWorkspace, ListSessions, Restart, vars
<1>5. QED
  BY <1>1, <1>2, <1>3, <1>4 DEF Next

LEMMA ResumedKeepsAccess ==
    ASSUME TypeOK, NEW s \in SessionIds, NEW kept, ResolveResumed(s, kept),
           NEW l \in leases, l.session \in Detached(IdentityOf[s]), ~l.expired
    PROVE  \E m \in leases' : m.session = s /\ m.workspace = l.workspace
<1> DEFINE Old == Detached(IdentityOf[s])
           usable == Usable({x \in LeasesAfterExpiry : x.session \in Old})
           restored == IF usable = {} THEN {} ELSE Restored(LeasesAfterExpiry, grants, {s})
           wanted == {x \in usable : \A r \in restored : r.workspace # x.workspace}
<1>1. /\ Rebinds(s, Old, LeasesAfterExpiry, kept)
      /\ IdentityOf[s] \in OAuth /\ grace[IdentityOf[s]] = "running"
  BY DEF ResolveResumed
<1>2. /\ kept \subseteq wanted
      /\ \A x \in wanted : \E k \in kept : k.workspace = x.workspace
      /\ leases' = {x \in LeasesAfterExpiry : x.session \notin Old} \cup restored
                   \cup {[x EXCEPT !.session = s] : x \in kept}
  BY <1>1 DEF Rebinds
<1>3. l.session \notin GraceEnded
  BY <1>1 DEF GraceEnded, Detached
<1>4. l \in usable
  BY <1>3 DEF Usable, LeasesAfterExpiry
<1>5. CASE l \in wanted
  <2>1. PICK k \in kept : k.workspace = l.workspace
    BY <1>2, <1>5
  <2>2. k \in Leases
    BY <1>2 DEF Usable, LeasesAfterExpiry, TypeOK
  <2>3. [k EXCEPT !.session = s].session = s /\ [k EXCEPT !.session = s].workspace = l.workspace
    BY <2>1, <2>2 DEF Leases
  <2>4. [k EXCEPT !.session = s] \in leases'
    BY <1>2, <2>1
  <2>5. QED
    BY <2>3, <2>4
<1>6. CASE l \notin wanted
  <2>1. PICK r \in restored : r.workspace = l.workspace
    BY <1>4, <1>6
  <2>2. r.session = s
    BY <2>1, RestoredGranted
  <2>3. QED
    BY <1>2, <2>1, <2>2
<1>7. QED
  BY <1>5, <1>6

\* A session that resumes its connection has every workspace its predecessors could
\* use.
THEOREM ReconnectKeeps == Spec => ReconnectKeepsAccess
<1> DEFINE Resumes(s) ==
               /\ session[s] = "new" /\ session'[s] = "live"
               /\ \E d \in Detached(IdentityOf[s]) : session'[d] = "gone"
               /\ grace[IdentityOf[s]] = "running"
           Keeps(s) ==
               \A l \in leases :
                   l.session \in Detached(IdentityOf[s]) /\ ~l.expired =>
                       \E m \in leases' : m.session = s /\ m.workspace = l.workspace
<1>1. ASSUME TypeOK, [Next]_vars, NEW s \in SessionIds, Resumes(s)
      PROVE  Keeps(s)
  <2>0. PICK d \in Detached(IdentityOf[s]) : session'[d] = "gone"
    BY <1>1
  <2>1. d \in SessionIds /\ d # s /\ session[d] = "detached" /\ IdentityOf[d] = IdentityOf[s]
    BY <1>1 DEF Detached
  <2>2. ~Create(s)
    BY <1>1, <2>0, <2>1 DEF Create, TypeOK
  <2>3. ~ResolveCreated(s)
    <3>1. SUFFICES ASSUME ResolveCreated(s) PROVE FALSE
      OBVIOUS
    <3>2. IdentityOf[s] \notin OAuth
      BY <1>1, <3>1 DEF ResolveCreated
    <3>3. session'[d] = session[d]
      BY <2>1, <3>1, <3>2 DEF ResolveCreated, SessionsAfterExpiry, GraceEnded
    <3>4. QED
      BY <2>0, <2>1, <3>3
  <2>4. PICK kept : ResolveResumed(s, kept)
    BY <1>1, <2>2, <2>3, StartsToLive
  <2>5. QED
    BY <1>1, <2>4, ResumedKeepsAccess
<1>2. TypeOK /\ [Next]_vars =>
        [\A s \in SessionIds :
            session[s] = "new" /\ session'[s] = "live"
              /\ (\E d \in Detached(IdentityOf[s]) : session'[d] = "gone")
              /\ grace[IdentityOf[s]] = "running"
            => \A l \in leases :
                  l.session \in Detached(IdentityOf[s]) /\ ~l.expired =>
                      \E m \in leases' : m.session = s /\ m.workspace = l.workspace]_vars
  BY <1>1
<1>3. QED
  BY <1>2, TypeCorrect, PTL DEF Spec, ReconnectKeepsAccess

-----------------------------------------------------------------------------
(* Elevated mode *)

\* Every step keeps elevated mode with connections and sessions that stand.
LEMMA NextYoloNeedsAuthority ==
    TypeOK /\ YoloNeedsAuthority /\ [Next]_vars => YoloNeedsAuthority'
<1> SUFFICES ASSUME TypeOK, YoloNeedsAuthority, [Next]_vars PROVE YoloNeedsAuthority'
    OBVIOUS
<1> USE DEF TypeOK, YoloNeedsAuthority, connectionVars, history
<1>1. ASSUME NEW s \in SessionIds, ReadSession(s) \/ Create(s) PROVE YoloNeedsAuthority'
  BY <1>1 DEF ReadSession, Create
<1>2. ASSUME NEW l, LeaseLapses(l) PROVE YoloNeedsAuthority'
  BY <1>2 DEF LeaseLapses
<1>3. ASSUME NEW s, NEW w, NEW o, Admit(s, w, o) PROVE YoloNeedsAuthority'
  BY <1>3 DEF Admit
<1>0. /\ \A s \in SessionIds : session[s] = "live" => SessionsAfterExpiry[s] = "live"
      /\ DOMAIN SessionsAfterExpiry = SessionIds
  BY DEF SessionsAfterExpiry, GraceEnded
<1>4. ASSUME NEW s \in SessionIds, ResolveExisting(s) PROVE YoloNeedsAuthority'
  BY <1>0, <1>4 DEF ResolveExisting
<1>5. ASSUME NEW s \in SessionIds, ResolveCreated(s) PROVE YoloNeedsAuthority'
  BY <1>0, <1>5 DEF ResolveCreated
<1>6. ASSUME NEW s \in SessionIds, NEW kept, ResolveResumed(s, kept) PROVE YoloNeedsAuthority'
  BY <1>0, <1>6 DEF ResolveResumed, Detached
<1>7. CASE ListSessions
  BY <1>0, <1>7 DEF ListSessions
<1>8. ASSUME NEW s \in SessionIds, Disconnect(s) \/ RevokeSession(s) PROVE YoloNeedsAuthority'
  BY <1>8 DEF Disconnect, RevokeSession, Drop
<1>9. ASSUME NEW i \in OAuth, GracePasses(i) PROVE YoloNeedsAuthority'
  BY <1>9 DEF GracePasses, Detached
<1>10. ASSUME NEW i, NEW w, NEW p, GrantConnection(i, w, p) \/ PageGrant(i, w, p) \/ PageRemove(i, w)
       PROVE  YoloNeedsAuthority'
  BY <1>10 DEF GrantConnection, PageGrant, PageRemove
<1>11. ASSUME NEW s, NEW w, RevokeWorkspace(s, w) \/ InvalidateWorkspace(w)
       PROVE  YoloNeedsAuthority'
  BY <1>11 DEF RevokeWorkspace, InvalidateWorkspace
<1>12. ASSUME NEW i \in OAuth, RevokeConnection(i) \/ RefreshReplay(i) \/ ClientDeleted(i)
       PROVE  YoloNeedsAuthority'
  BY <1>12 DEF RevokeConnection, RefreshReplay, ClientDeleted, Drop
<1>13. ASSUME NEW s \in SessionIds, EnableYolo(s) \/ DisableYolo(s) PROVE YoloNeedsAuthority'
  BY <1>13 DEF EnableYolo, DisableYolo, YoloAllowed
<1>14. CASE Restart
  BY <1>14 DEF Restart
<1>15. CASE UNCHANGED vars
  BY <1>15 DEF vars
<1>16. QED
  BY <1>1, <1>2, <1>3, <1>4, <1>5, <1>6, <1>7, <1>8, <1>9, <1>10, <1>11, <1>12, <1>13, <1>14,
     <1>15 DEF Next

\* Elevated mode ends with its session, or with its connection, whoever ends it.
THEOREM YoloEnds == Spec => []YoloNeedsAuthority
<1>1. Init => TypeOK /\ YoloNeedsAuthority
  BY InitTypeOK DEF Init, YoloNeedsAuthority
<1>2. TypeOK /\ YoloNeedsAuthority /\ [Next]_vars => (TypeOK /\ YoloNeedsAuthority)'
  BY NextTypeOK, NextYoloNeedsAuthority
<1>3. QED
  BY <1>1, <1>2, PTL DEF Spec
=============================================================================
