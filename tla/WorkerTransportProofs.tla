----------------------- MODULE WorkerTransportProofs -----------------------
(***************************************************************************)
(* Proofs about the socket between core and worker, for every number of    *)
(* calls, connections and chunks and every window: who waits and on what   *)
(* (Inv), the order of the handshake (Orderly), and the streams            *)
(* (StreamInv).                                                            *)
(***************************************************************************)
EXTENDS WorkerTransport, FiniteSetTheorems, TLAPS

-----------------------------------------------------------------------------
(* The inductive invariant: a slot is on the socket there is because an     *)
(* open client hears of no other one.                                       *)

Inv ==
    /\ TypeOK
    /\ OneSocket
    /\ NothingWaitsOnALostSocket

-----------------------------------------------------------------------------
(* What the pieces of the actions leave behind *)

\* Settling calls gives them an outcome and leaves the others, and where each was started.
LEMMA SettledCalls ==
    ASSUME TypeOK, NEW cs, NEW outcome \in {"ok", "failed", "lost", "timeout", "aborted"}
    PROVE  /\ Settled(cs, outcome) \in [Calls -> CallRecords]
           /\ \A c \in Calls : /\ Settled(cs, outcome)[c].conn = call[c].conn
                               /\ c \in cs => Settled(cs, outcome)[c].phase = "done"
                               /\ c \notin cs => Settled(cs, outcome)[c] = call[c]
BY DEF Settled, TypeOK, CallRecords

\* Calls that are settled lose their slots: whoever waits still does so on the socket there is.
LEMMA SettlingKeeps ==
    ASSUME Inv, NEW cs, NEW outcome \in {"ok", "failed", "lost", "timeout", "aborted"},
           call' = Settled(cs, outcome),
           pending' \subseteq pending, pending \ cs \subseteq pending',
           UNCHANGED <<socket, opened, up, closed>>
    PROVE  Inv'
<1>1. TypeOK'
  BY SettledCalls DEF Inv, TypeOK
<1>2. OneSocket'
  BY DEF Inv, OneSocket
<1>3. NothingWaitsOnALostSocket'
  <2>1. \A c \in pending' : socket' # 0 /\ call'[c].conn = socket'
    BY SettledCalls DEF Inv, TypeOK, NothingWaitsOnALostSocket
  <2>2. \A c \in Calls : call'[c].phase = "pending" => c \in pending'
    BY SettledCalls DEF Inv, TypeOK, NothingWaitsOnALostSocket
  <2> QED BY <2>1, <2>2 DEF NothingWaitsOnALostSocket
<1> QED BY <1>1, <1>2, <1>3 DEF Inv

\* A step that leaves calls, slots and the client's side of its sockets alone.
LEMMA AsideKeeps ==
    ASSUME Inv, up' \in [Sides -> SUBSET (Nat \ {0})], up'["core"] = up["core"],
           UNCHANGED <<call, pending, socket, opened, closed>>
    PROVE  Inv'
BY DEF Inv, TypeOK, OneSocket, NothingWaitsOnALostSocket

\* Calls are started on the socket the client has.
LEMMA StartKeeps ==
    ASSUME Inv, ~closed, socket # 0, NEW cs \in SUBSET Calls, NEW order, NEW w,
           NEW calls0 \in [Calls -> CallRecords],
           \A c \in Calls \ cs : calls0[c] = call[c],
           StartAll(cs, order, calls0, w),
           UNCHANGED <<socket, opened, up, closed>>
    PROVE  Inv'
<1>1. /\ \A c \in Calls : c \in cs => call'[c] = [calls0[c] EXCEPT !.phase = "pending", !.conn = socket]
      /\ \A c \in Calls : c \notin cs => call'[c] = call[c]
      /\ pending' = pending \cup cs
      /\ DOMAIN call' = Calls
  BY DEF StartAll
<1>2. call' \in [Calls -> CallRecords]
  <2>1. ASSUME NEW c \in Calls PROVE call'[c] \in CallRecords
    <3>1. calls0[c] \in CallRecords /\ socket \in Nat
      BY DEF Inv, TypeOK
    <3>2. [calls0[c] EXCEPT !.phase = "pending", !.conn = socket] \in CallRecords
      BY <3>1 DEF CallRecords
    <3>3. call'[c] = IF c \in cs THEN [calls0[c] EXCEPT !.phase = "pending", !.conn = socket] ELSE calls0[c]
      BY DEF StartAll
    <3> QED BY <3>1, <3>2, <3>3
  <2>2. call' = [c \in Calls |-> call'[c]]
    BY DEF StartAll
  <2> QED BY <2>1, <2>2
<1>3. TypeOK'
  BY <1>1, <1>2 DEF Inv, TypeOK
<1>4. OneSocket'
  BY DEF Inv, OneSocket
<1>5. ASSUME NEW c \in cs PROVE call'[c].conn = socket
  <2>1. c \in Calls /\ calls0[c] \in CallRecords
    OBVIOUS
  <2> QED BY <1>1, <2>1 DEF CallRecords
<1>6. \A c \in pending' : socket' # 0 /\ call'[c].conn = socket'
  BY <1>1, <1>5 DEF Inv, TypeOK, NothingWaitsOnALostSocket
<1>7. \A c \in Calls : call'[c].phase = "pending" => c \in pending'
  BY <1>1 DEF Inv, NothingWaitsOnALostSocket
<1> QED BY <1>3, <1>4, <1>6, <1>7 DEF Inv, NothingWaitsOnALostSocket

\* A frame of a stream changes the calls and slots only by an abort, and then of one call.
LEMMA StreamFrameKeeps ==
    ASSUME Inv, NEW s, NEW n, NEW f, HandleStream(s, n, f), UNCHANGED <<socket, opened, up, closed>>
    PROVE  Inv'
<1>1. CASE UNCHANGED <<call, pending>>
  BY <1>1, AsideKeeps DEF Inv, TypeOK
<1>2. CASE \E w, notify : AbortAt(s, f.call, w, notify)
  <2>1. CASE s = "core" /\ f.call \in table[s] /\ f.call \in pending /\ call[f.call].phase = "pending"
    <3>1. call' = Settled({f.call}, "aborted") /\ pending' = pending \ {f.call}
      BY <1>2, <2>1 DEF AbortAt
    <3> QED BY <3>1, SettlingKeeps
  <2>2. CASE ~(s = "core" /\ f.call \in table[s] /\ f.call \in pending /\ call[f.call].phase = "pending")
    <3>1. call' = call /\ pending' \subseteq pending /\ pending \ {f.call} \subseteq pending'
      BY <1>2, <2>2 DEF AbortAt
    <3>2. \A c \in pending : c \notin pending' => call[c].phase # "pending"
      BY <1>2, <2>2, <3>1 DEF AbortAt
    <3> QED BY <3>1, <3>2 DEF Inv, TypeOK, OneSocket, NothingWaitsOnALostSocket
  <2> QED BY <2>1, <2>2
<1> QED BY <1>1, <1>2 DEF HandleStream

-----------------------------------------------------------------------------
(* The initial states, and one lemma for each action that calls wait on *)

LEMMA InitInv == Init => Inv
<1> SUFFICES ASSUME Init PROVE Inv
  OBVIOUS
<1>1. \A c \in Calls : call[c] = [kind |-> "plain", phase |-> "idle", outcome |-> "none", conn |-> 0]
  BY DEF Init
<1>2. call \in [Calls -> CallRecords]
  BY DEF Init, CallRecords
<1>3. TypeOK /\ OneSocket
  BY <1>2 DEF Init, TypeOK, OneSocket, Sides
<1>4. NothingWaitsOnALostSocket
  BY <1>1 DEF Init, NothingWaitsOnALostSocket
<1> QED BY <1>3, <1>4 DEF Inv

LEMMA BeginKeeps ==
    ASSUME Inv, NEW c \in Calls, NEW k \in KindsOf[c], Begin(c, k)
    PROVE  Inv'
<1> DEFINE asked == [call[c] EXCEPT !.kind = k]
<1>1. k \in {"plain", "upload", "download"}
  BY KindsAssumption
<1>2. asked \in CallRecords /\ [asked EXCEPT !.phase = "connecting"] \in CallRecords
  BY <1>1 DEF Inv, TypeOK, CallRecords
<1>3. CASE connecting \/ socket = 0
  <2>1. /\ call' = [call EXCEPT ![c] = [@ EXCEPT !.kind = k, !.phase = "connecting"]]
        /\ pending' = pending
        /\ closed' = closed
        /\ ~closed
        /\ call[c].phase = "idle"
    BY <1>3 DEF Begin
  <2>2. call' \in [Calls -> CallRecords] /\ \A d \in Calls : d # c => call'[d] = call[d]
    BY <1>2, <2>1 DEF Inv, TypeOK, CallRecords
  <2>3. call'[c].conn = call[c].conn /\ call'[c].phase = "connecting"
    BY <2>1 DEF Inv, TypeOK, CallRecords
  <2>4. CASE connecting
    <3>1. UNCHANGED <<socket, opened, up>>
      BY <1>3, <2>4 DEF Begin
    <3>2. TypeOK' /\ OneSocket'
      BY <2>1, <2>2, <3>1 DEF Inv, TypeOK, OneSocket
    <3>3. NothingWaitsOnALostSocket'
      BY <2>1, <2>2, <2>3, <3>1 DEF Inv, TypeOK, NothingWaitsOnALostSocket
    <3> QED BY <3>2, <3>3 DEF Inv
  <2>5. CASE ~connecting
    <3>1. /\ socket = 0
          /\ opened' = opened + 1
          /\ socket' = opened'
          /\ up' = [s \in Sides |-> IF s = "core" \/ alive THEN up[s] \cup {opened'} ELSE up[s]]
      BY <1>3, <2>5 DEF Begin
    <3>2. pending = {}
      BY <3>1 DEF Inv, NothingWaitsOnALostSocket
    <3>3. up["core"] = {}
      BY <2>1, <3>1 DEF Inv, TypeOK, OneSocket, Sides
    <3>4. up'["core"] = {socket'} /\ opened' \in Nat \ {0}
      BY <3>1, <3>3 DEF Inv, TypeOK, Sides
    <3>5. up' \in [Sides -> SUBSET (Nat \ {0})]
      BY <3>1, <3>4 DEF Inv, TypeOK
    <3>6. TypeOK' /\ OneSocket'
      BY <2>1, <2>2, <3>1, <3>4, <3>5 DEF Inv, TypeOK, OneSocket
    <3>7. NothingWaitsOnALostSocket'
      BY <2>1, <2>2, <2>3, <3>2 DEF Inv, NothingWaitsOnALostSocket
    <3> QED BY <3>6, <3>7 DEF Inv
  <2> QED BY <2>4, <2>5
<1>4. CASE ~(connecting \/ socket = 0)
  <2>1. /\ StartAll({c}, <<c>>, [call EXCEPT ![c] = asked], wire)
        /\ ~closed
        /\ UNCHANGED <<socket, opened, up, closed>>
    BY <1>4 DEF Begin
  <2>2. /\ [call EXCEPT ![c] = asked] \in [Calls -> CallRecords]
        /\ \A d \in Calls \ {c} : [call EXCEPT ![c] = asked][d] = call[d]
    BY <1>2 DEF Inv, TypeOK
  <2> HIDE DEF asked
  <2> QED BY <1>4, <2>1, <2>2, StartKeeps
<1> QED BY <1>3, <1>4

LEMMA BeginTooLargeKeeps ==
    ASSUME Inv, NEW c \in Calls, BeginTooLarge(c)
    PROVE  Inv'
<1>1. /\ call' = [call EXCEPT ![c] = [@ EXCEPT !.phase = "done", !.outcome = "failed", !.conn = socket]]
      /\ pending' = pending \cup {c}
      /\ socket # 0
      /\ UNCHANGED <<socket, opened, up, closed>>
  BY DEF BeginTooLarge, netVars
<1>2. /\ call' \in [Calls -> CallRecords]
      /\ \A d \in Calls : d # c => call'[d] = call[d]
      /\ call'[c].conn = socket
      /\ call'[c].phase = "done"
  BY <1>1 DEF Inv, TypeOK, CallRecords
<1>3. TypeOK' /\ OneSocket'
  BY <1>1, <1>2 DEF Inv, TypeOK, OneSocket
<1>4. NothingWaitsOnALostSocket'
  BY <1>1, <1>2 DEF Inv, TypeOK, NothingWaitsOnALostSocket
<1> QED BY <1>3, <1>4 DEF Inv

\* The end of a socket: an open client has no other one, a closed one has no callers.
LEMMA FailKeeps ==
    ASSUME Inv, NEW n \in Conns, Fail(n)
    PROVE  Inv'
<1> DEFINE cs == Waiting \cup {c \in pending : call[c].phase = "pending"}
<1>1. /\ call' = Settled(cs, "lost")
      /\ pending' = {}
      /\ n \in up["core"]
      /\ up' = [up EXCEPT !["core"] = @ \ {n}]
      /\ socket' = IF socket = n THEN 0 ELSE socket
      /\ UNCHANGED <<opened, closed>>
  BY DEF Fail
<1>2. call' \in [Calls -> CallRecords]
  <2> HIDE DEF cs
  <2> QED BY <1>1, SettledCalls DEF Inv
<1>3. TypeOK'
  BY <1>1, <1>2 DEF Inv, TypeOK, Sides
<1>4. OneSocket'
  BY <1>1 DEF Inv, TypeOK, OneSocket, Sides
<1>5. \A c \in Calls : call'[c].phase # "pending"
  <2> SUFFICES ASSUME NEW c \in Calls PROVE call'[c].phase # "pending"
    OBVIOUS
  <2>1. CASE c \in cs
    <3> HIDE DEF cs
    <3> QED BY <1>1, <2>1, SettledCalls DEF Inv
  <2>2. CASE c \notin cs
    <3>1. call[c].phase # "pending"
      BY <2>2 DEF Inv, NothingWaitsOnALostSocket
    <3> HIDE DEF cs
    <3> QED BY <1>1, <2>2, <3>1, SettledCalls DEF Inv
  <2> QED BY <2>1, <2>2
<1> QED BY <1>1, <1>3, <1>4, <1>5 DEF Inv, NothingWaitsOnALostSocket

LEMMA CloseKeeps ==
    ASSUME Inv, Close
    PROVE  Inv'
<1> DEFINE cs == {c \in pending : call[c].phase = "pending"}
<1>1. /\ call' = Settled(cs, "lost")
      /\ pending' = {}
      /\ closed' = TRUE
      /\ socket' = 0
      /\ UNCHANGED <<opened, up>>
  BY DEF Close
<1>2. TypeOK' /\ OneSocket'
  BY <1>1, SettledCalls DEF Inv, TypeOK, OneSocket
<1>3. \A c \in Calls : c \notin cs => call[c].phase # "pending"
  BY DEF Inv, NothingWaitsOnALostSocket
<1> HIDE DEF cs
<1>4. \A c \in Calls : call'[c].phase # "pending"
  BY <1>1, <1>3, SettledCalls DEF Inv
<1> QED BY <1>1, <1>2, <1>4 DEF Inv, NothingWaitsOnALostSocket

LEMMA HandshakeTimeoutKeeps ==
    ASSUME Inv, HandshakeTimeout
    PROVE  Inv'
<1>1. /\ call' = Settled(Waiting, "timeout")
      /\ UNCHANGED <<pending, socket, opened, up, closed>>
  BY DEF HandshakeTimeout
<1>2. TypeOK' /\ OneSocket'
  BY <1>1, SettledCalls DEF Inv, TypeOK, OneSocket
<1>3. \A c \in pending' : socket' # 0 /\ call'[c].conn = socket'
  BY <1>1, SettledCalls DEF Inv, TypeOK, NothingWaitsOnALostSocket
<1>4. \A c \in Calls : call'[c].phase = "pending" => c \in pending'
  BY <1>1, SettledCalls DEF Inv, NothingWaitsOnALostSocket
<1> QED BY <1>2, <1>3, <1>4 DEF Inv, NothingWaitsOnALostSocket

LEMMA DeadlineKeeps ==
    ASSUME Inv, NEW c \in Calls, Deadline(c)
    PROVE  Inv'
<1>1. /\ pending' = pending \ {c}
      /\ call' = IF call[c].phase = "pending" THEN Settled({c}, "timeout") ELSE call
      /\ UNCHANGED <<socket, opened, up, closed>>
  BY DEF Deadline, netVars
<1>2. CASE call[c].phase = "pending"
  BY <1>1, <1>2, SettlingKeeps
<1>3. CASE call[c].phase # "pending"
  BY <1>1, <1>3 DEF Inv, TypeOK, OneSocket, NothingWaitsOnALostSocket
<1> QED BY <1>2, <1>3

\* The pump of an upload aborts it, unless the stream has gone from the table.
LEMMA SourceFailsKeeps ==
    ASSUME Inv, NEW c \in Calls, SourceFails(c)
    PROVE  Inv'
<1>1. /\ call' = IF c \in table["core"] \cap pending THEN Settled({c}, "aborted") ELSE call
      /\ pending' = IF c \in table["core"] THEN pending \ {c} ELSE pending
      /\ UNCHANGED <<socket, opened, up, closed>>
  BY DEF SourceFails, netVars
<1>2. CASE c \in table["core"] \cap pending
  BY <1>1, <1>2, SettlingKeeps
<1>3. CASE c \notin table["core"] \cap pending
  <2>1. call' = call /\ pending' = pending
    BY <1>1, <1>3
  <2> QED BY <1>1, <2>1, AsideKeeps DEF Inv, TypeOK
<1> QED BY <1>2, <1>3

LEMMA ReaderCancelsKeeps ==
    ASSUME Inv, NEW c \in Calls, ReaderCancels(c)
    PROVE  Inv'
<1> DEFINE cancels == c \in table["core"] /\ ~rcv[c].ended
<1>1. /\ call' = IF cancels /\ c \in pending THEN Settled({c}, "aborted") ELSE call
      /\ pending' = IF cancels THEN pending \ {c} ELSE pending
      /\ UNCHANGED <<socket, opened, up, closed>>
  BY DEF ReaderCancels, netVars
<1>2. CASE cancels /\ c \in pending
  BY <1>1, <1>2, SettlingKeeps
<1>3. CASE ~(cancels /\ c \in pending)
  <2>1. call' = call /\ pending' = pending
    BY <1>1, <1>3
  <2> QED BY <1>1, <2>1, AsideKeeps DEF Inv, TypeOK
<1> QED BY <1>2, <1>3

LEMMA WorkerReadsKeeps ==
    ASSUME Inv, NEW n \in Conns, WorkerReads(n)
    PROVE  Inv'
<1> DEFINE f == Head(wire["worker"][n])
<1>1. CASE HandleStream("worker", n, f) /\ UNCHANGED netVars
  BY <1>1, StreamFrameKeeps DEF netVars
<1>2. CASE UNCHANGED <<call, pending, netVars>>
  BY <1>2, AsideKeeps DEF netVars, Inv, TypeOK
<1>3. CASE /\ up' = [up EXCEPT !["worker"] = @ \ {n}]
           /\ UNCHANGED <<call, pending, socket, opened, closed>>
  BY <1>3, AsideKeeps DEF Inv, TypeOK, Sides
<1>4. CASE UNCHANGED <<call, pending, socket, opened, up, closed>>
  BY <1>4, AsideKeeps DEF Inv, TypeOK
<1> QED BY <1>1, <1>2, <1>3, <1>4 DEF WorkerReads, netVars

LEMMA CoreReadsKeeps ==
    ASSUME Inv, NEW n \in Conns, CoreReads(n)
    PROVE  Inv'
<1> DEFINE f == Head(wire["core"][n])
<1>1. ~closed /\ n = socket /\ socket # 0
  BY DEF CoreReads, Inv, TypeOK, OneSocket, Sides
<1>2. CASE HandshakeEnds(n)
  <2>1. \E w : StartAll(Waiting, SetToSeq(Waiting), call, w)
    BY <1>2 DEF HandshakeEnds
  <2>2. UNCHANGED <<socket, opened, up, closed>>
    BY <1>2 DEF HandshakeEnds
  <2>3. Waiting \in SUBSET Calls /\ call \in [Calls -> CallRecords]
    BY DEF Waiting, Inv, TypeOK
  <2> QED BY <1>1, <2>1, <2>2, <2>3, StartKeeps
<1>3. CASE Reply(n, f.call, f.n = 1)
  <2>1. /\ pending' = pending \ {f.call}
        /\ call' = Settled({f.call}, IF f.n = 1 THEN "ok" ELSE "failed")
        /\ UNCHANGED <<socket, opened, up, closed>>
    BY <1>3 DEF Reply, netVars
  <2> QED BY <2>1, SettlingKeeps
<1>4. CASE UNCHANGED <<call, pending, netVars>>
  BY <1>4, AsideKeeps DEF netVars, Inv, TypeOK
<1>5. CASE HandleStream("core", n, f) /\ UNCHANGED netVars
  BY <1>5, StreamFrameKeeps DEF netVars
<1> QED BY <1>2, <1>3, <1>4, <1>5 DEF CoreReads

-----------------------------------------------------------------------------
(* The invariant is inductive *)

LEMMA Inductive == Inv /\ [Next]_vars => Inv'
<1> SUFFICES ASSUME Inv, [Next]_vars PROVE Inv'
  OBVIOUS
<1>1. CASE UNCHANGED vars
  BY <1>1, AsideKeeps DEF vars, netVars, Inv, TypeOK
<1>2. ASSUME NEW c \in Calls, NEW k \in KindsOf[c], Begin(c, k) PROVE Inv'
  BY <1>2, BeginKeeps
<1>3. ASSUME NEW c \in Calls, BeginTooLarge(c) PROVE Inv'
  BY <1>3, BeginTooLargeKeeps
<1>4. ASSUME NEW c \in Calls, Deadline(c) PROVE Inv'
  BY <1>4, DeadlineKeeps
<1>5. ASSUME NEW c \in Calls, SourceFails(c) PROVE Inv'
  BY <1>5, SourceFailsKeeps
<1>6. ASSUME NEW c \in Calls, ReaderCancels(c) PROVE Inv'
  BY <1>6, ReaderCancelsKeeps
<1>7. ASSUME NEW c \in Calls,
             \/ Send(c) \/ SourceEnds(c) \/ Take(c) \/ ReadsToEnd(c) \/ ReadFails(c) \/ HandlerStops(c)
             \/ \E ok \in BOOLEAN : HandlerReturns(c, ok)
      PROVE  Inv'
  <2>1. UNCHANGED <<call, pending, netVars>>
    BY <1>7 DEF Send, SourceEnds, Take, ReadsToEnd, ReadFails, HandlerStops, HandlerReturns
  <2> QED BY <2>1, AsideKeeps DEF netVars, Inv, TypeOK
<1>8. ASSUME NEW n \in Conns, Connected(n) \/ Breaks(n) PROVE Inv'
  <2>1. UNCHANGED <<call, pending, socket, opened, up, closed>>
    BY <1>8 DEF Connected, Breaks
  <2> QED BY <2>1, AsideKeeps DEF Inv, TypeOK
<1>9. ASSUME NEW n \in Conns, Fail(n) PROVE Inv'
  BY <1>9, FailKeeps
<1>10. ASSUME NEW n \in Conns, WorkerReads(n) PROVE Inv'
  BY <1>10, WorkerReadsKeeps
<1>11. ASSUME NEW n \in Conns, WorkerNotices(n) PROVE Inv'
  BY <1>11, AsideKeeps DEF WorkerNotices, Inv, TypeOK, Sides
<1>12. ASSUME NEW n \in Conns, CoreReads(n) PROVE Inv'
  BY <1>12, CoreReadsKeeps
<1>13. CASE HandshakeTimeout
  BY <1>13, HandshakeTimeoutKeeps
<1>14. CASE Close
  BY <1>14, CloseKeeps
<1>15. CASE WorkerDies
  BY <1>15, AsideKeeps DEF WorkerDies, Inv, TypeOK, Sides
<1> QED BY <1>1, <1>2, <1>3, <1>4, <1>5, <1>6, <1>7, <1>8, <1>9, <1>10, <1>11, <1>12, <1>13, <1>14, <1>15 DEF Next

-----------------------------------------------------------------------------
(* The handshake.  Frames are written out of turn when a request leaves     *)
(* before "ready".  A connection is ready when the client has sent that, or *)
(* when its handshake met the timeout, of which nothing is claimed.         *)

HandshakeFrames == [type : {"hello", "helloAck", "ready"}, call : {NoCall}, n : {0}]
CallFrames == [type : {"execute", "reply", "streamOpen", "streamData", "streamEnd", "streamAck", "streamAbort"},
               call : Calls, n : Nat]
Frames == HandshakeFrames \cup CallFrames
Wires == [Sides -> [Conns -> Seq(Frames)]]
Senders == [seq : Nat, acked : Nat, opened : BOOLEAN, failed : BOOLEAN,
            feed : {"off", "busy", "ended", "failed", "gone"}]
Receivers == [opened : BOOLEAN, next : Nat, taken : Nat, ended : BOOLEAN, failed : BOOLEAN,
              reader : {"off", "busy", "whole", "failed", "stopped", "gone"}]

\* The types of what travels, and of what is kept of streams.
StreamTypes ==
    /\ wire \in Wires
    /\ snd \in [Calls -> Senders]
    /\ rcv \in [Calls -> Receivers]
    /\ table \in [Sides -> SUBSET Calls]
    /\ stage \in [Conns -> {"opening", "greeted", "ready"}]
    /\ socket \in Conns \cup {0}
    /\ \A c \in Calls : call[c].conn \in Conns \cup {0}

Ready(n) == stage[n] = "ready" \/ n \in late

Hello == Frame("hello", NoCall, 0)
HelloAck == Frame("helloAck", NoCall, 0)
ReadyFrame == Frame("ready", NoCall, 0)

\* The acknowledgement, on connection n, of a download that was whole on an earlier one.  Where it
\* is the first that a worker sees before "ready", the connection ends there.
Astray(f, n) ==
    /\ f.type = "streamAck"
    /\ call[f.call].conn \notin {0, n}
    /\ call[f.call].kind = "download"
    /\ rcv[f.call].ended
EndsAstray(w, n) == w # <<>> => Astray(Head(w), n)

\* What is under way on connection n at each stage of its handshake.
Turn(n) ==
    n \notin late =>
        /\ stage[n] = "opening" => EndsAstray(wire["worker"][n], n) /\ wire["core"][n] = <<>>
        /\ stage[n] = "greeted" =>
              \/ /\ wire["worker"][n] # <<>> /\ Head(wire["worker"][n]) = Hello
                 /\ EndsAstray(Tail(wire["worker"][n]), n) /\ wire["core"][n] = <<>>
              \/ EndsAstray(wire["worker"][n], n) /\ wire["core"][n] \in {<<>>, <<HelloAck>>}
        /\ stage[n] = "ready" /\ n \notin served =>
              IF wire["worker"][n] = <<>> THEN n \in down
              ELSE Head(wire["worker"][n]) = ReadyFrame \/ Astray(Head(wire["worker"][n]), n)
        /\ stage[n] # "ready" => n \notin served
        /\ stage[n] # "opening" => n \in 1..opened

\* Calls are started on connections that are ready, and the client's own is when no handshake is under way.
CallsAreReady == \A c \in Calls : call[c].conn # 0 => Ready(call[c].conn)
SocketIsReady == socket # 0 /\ ~connecting => Ready(socket)

Orderly ==
    /\ Inv
    /\ StreamTypes
    /\ \A n \in Conns : Turn(n)
    /\ CallsAreReady
    /\ SocketIsReady

\* A step leaves started calls on their connections, and a stream at its end.
Lasting ==
    \A c \in Calls : call[c].conn # 0 => /\ call'[c].conn = call[c].conn
                                         /\ call'[c].kind = call[c].kind
                                         /\ rcv[c].ended => rcv'[c].ended

\* An acknowledgement leaves on another socket than the call's only where the download was whole.
LateWhenWhole ==
    \A c \in Calls :
        /\ rcv[c].reader = "busy" => call[c].conn # 0
        /\ rcv[c].reader = "busy" /\ Queued(c) > 0 /\ ReceiverSide(c) = "core" /\ call[c].conn # socket
              => call[c].kind = "download" /\ rcv[c].ended

\* On connection n the wires w became v, and no frame came before the first of those to a worker
\* that has not seen "ready".
Continues(w, v, n) ==
    /\ ~Ready(n) => v["worker"][n] = w["worker"][n] /\ v["core"][n] = w["core"][n]
    /\ n \notin served =>
          /\ n \in down => v["worker"][n] = w["worker"][n]
          /\ w["worker"][n] # <<>> =>
                v["worker"][n] # <<>> /\ Head(v["worker"][n]) = Head(w["worker"][n])

\* On connection n frames were lost, which happens to connections that are at an end.
Loses(n) ==
    /\ wire'["worker"][n] \in {wire["worker"][n], <<>>}
    /\ wire'["core"][n] \in {wire["core"][n], <<>>}
    /\ n \in down' \/ wire'["worker"][n] = wire["worker"][n]

LEMMA FrameTypes ==
    /\ Hello \in Frames /\ HelloAck \in Frames /\ ReadyFrame \in Frames
    /\ \A c \in Calls, n \in Nat :
          \A type \in {"execute", "reply", "streamOpen", "streamData", "streamEnd", "streamAck", "streamAbort"} :
              Frame(type, c, n) \in Frames
BY DEF Frame, Frames, HandshakeFrames, CallFrames, Hello, HelloAck, ReadyFrame

LEMMA HeadStays ==
    ASSUME NEW S, NEW s \in Seq(S), NEW t \in Seq(S), s # <<>>
    PROVE  s \o t \in Seq(S) /\ s \o t # <<>> /\ Head(s \o t) = Head(s)
OBVIOUS

\* The wires w became v by frames written towards side s on connection n.
Grew(w, v, s, n, frames) ==
    \A t \in Sides, m \in Conns :
        /\ t # s \/ m # n \/ m \in down => v[t][m] = w[t][m]
        /\ v[t][m] \in {w[t][m], w[t][m] \o frames}
        /\ w[t][m] # <<>> => v[t][m] # <<>> /\ Head(v[t][m]) = Head(w[t][m])

\* What writing does, and where.
LEMMA WrittenOn ==
    ASSUME NEW w \in Wires, NEW s \in Sides, NEW n \in Conns \cup {0}, NEW frames \in Seq(Frames)
    PROVE  Written(w, s, n, frames) \in Wires /\ Grew(w, Written(w, s, n, frames), Peer(s), n, frames)
<1> DEFINE v == Written(w, s, n, frames)
<1>1. CASE n = 0 \/ n \in down \/ n \notin up[s]
  BY <1>1 DEF Written, Grew
<1>2. CASE ~(n = 0 \/ n \in down \/ n \notin up[s])
  <2>1. v = [w EXCEPT ![Peer(s)][n] = @ \o frames]
    BY <1>2 DEF Written
  <2>2. n \in Conns /\ n \notin down /\ Peer(s) \in Sides
    BY <1>2 DEF Peer, Sides
  <2>3. w[Peer(s)][n] \in Seq(Frames)
    BY <2>2 DEF Wires
  <2>4. w[Peer(s)][n] \o frames \in Seq(Frames)
    BY <2>3
  <2>5. /\ v \in Wires
        /\ v[Peer(s)][n] = w[Peer(s)][n] \o frames
        /\ \A t \in Sides, m \in Conns : t # Peer(s) \/ m # n => v[t][m] = w[t][m]
    BY <2>1, <2>2, <2>4 DEF Wires
  <2>6. w[Peer(s)][n] # <<>> => v[Peer(s)][n] # <<>> /\ Head(v[Peer(s)][n]) = Head(w[Peer(s)][n])
    BY <2>3, <2>5, HeadStays
  <2> HIDE DEF v
  <2>7. QED
    BY <2>2, <2>5, <2>6 DEF v, Grew
<1> QED BY <1>1, <1>2

LEMMA WrittenContinues ==
    ASSUME StreamTypes, NEW w \in Wires, NEW s \in Sides, NEW n \in Conns \cup {0}, n # 0 => Ready(n),
           NEW frames \in Seq(Frames)
    PROVE  \A m \in Conns : Continues(w, Written(w, s, n, frames), m)
<1> SUFFICES ASSUME NEW m \in Conns PROVE Continues(w, Written(w, s, n, frames), m)
  OBVIOUS
<1>1. "worker" \in Sides /\ "core" \in Sides
  BY DEF Sides
<1> DEFINE v == Written(w, s, n, frames)
<1>2. /\ \A t \in Sides : m # n \/ m \in down => v[t][m] = w[t][m]
      /\ \A t \in Sides : w[t][m] # <<>> => v[t][m] # <<>> /\ Head(v[t][m]) = Head(w[t][m])
  BY WrittenOn DEF Grew
<1>3. 0 \notin Conns
  BY DEF Conns
<1> HIDE DEF v
<1>4. Continues(w, v, m)
  BY <1>1, <1>2, <1>3 DEF Continues
<1> QED BY <1>4 DEF v

LEMMA ReadContinues ==
    ASSUME StreamTypes, NEW s \in Sides, NEW n \in Conns, Ready(n), s = "worker" => n \in served, wire[s][n] # <<>>
    PROVE  /\ Read(s, n) \in Wires
           /\ \A m \in Conns : Continues(wire, Read(s, n), m)
<1>1. Tail(wire[s][n]) \in Seq(Frames)
  BY DEF StreamTypes, Wires
<1>2. /\ Read(s, n) \in Wires
      /\ \A t \in Sides, m \in Conns : t # s \/ m # n => Read(s, n)[t][m] = wire[t][m]
  BY <1>1 DEF StreamTypes, Wires, Read
<1>3. "worker" \in Sides /\ "core" \in Sides
  BY DEF Sides
<1>4. ASSUME NEW m \in Conns PROVE Continues(wire, Read(s, n), m)
  BY <1>2, <1>3 DEF Continues
<1> QED BY <1>2, <1>4

LEMMA ContinuesOn ==
    ASSUME NEW w, NEW v, NEW u, NEW n, Continues(w, v, n), Continues(v, u, n)
    PROVE  Continues(w, u, n)
BY DEF Continues

LEMMA AstrayStays ==
    ASSUME Lasting
    PROVE  \A f \in Frames, n \in Conns : Astray(f, n) => Astray(f, n)'
<1> SUFFICES ASSUME NEW f \in Frames, NEW n \in Conns, Astray(f, n) PROVE Astray(f, n)'
  OBVIOUS
<1>1. f.call \in Calls
  BY DEF Astray, Frames, HandshakeFrames, CallFrames
<1> QED BY <1>1 DEF Astray, Lasting

LEMMA FirstFrames ==
    ASSUME StreamTypes, NEW n \in Conns
    PROVE  /\ wire["worker"][n] \in Seq(Frames)
           /\ wire["worker"][n] # <<>> => Head(wire["worker"][n]) \in Frames
           /\ wire["worker"][n] # <<>> /\ Tail(wire["worker"][n]) # <<>> => Head(Tail(wire["worker"][n])) \in Frames
<1>1. wire["worker"][n] \in Seq(Frames)
  BY DEF StreamTypes, Wires, Sides
<1>2. wire["worker"][n] # <<>> => Head(wire["worker"][n]) \in Frames /\ Tail(wire["worker"][n]) \in Seq(Frames)
  BY <1>1
<1> QED BY <1>1, <1>2

\* Where the wire of the worker stays.
LEMMA TurnStays ==
    ASSUME NEW n \in Conns, Turn(n), StreamTypes, Lasting,
           n \in late => n \in late', stage'[n] = stage[n], n \in served' <=> n \in served,
           opened' = opened \/ opened' = opened + 1, opened \in Nat, down \subseteq down',
           wire'["worker"][n] = wire["worker"][n], wire'["core"][n] = wire["core"][n]
    PROVE  Turn(n)'
<1> DEFINE w == wire["worker"][n]
<1>1. /\ EndsAstray(w, n) => EndsAstray(w, n)'
      /\ w # <<>> => (EndsAstray(Tail(w), n) => EndsAstray(Tail(w), n)')
      /\ w # <<>> => (Astray(Head(w), n) => Astray(Head(w), n)')
  <2>1. \A f \in Frames : Astray(f, n) => Astray(f, n)'
    BY AstrayStays
  <2>2. PICK v : v = wire["worker"][n]
    OBVIOUS
  <2>3. wire'["worker"][n] = v /\ (v # <<>> => Head(v) \in Frames)
        /\ (v # <<>> /\ Tail(v) # <<>> => Head(Tail(v)) \in Frames)
    BY <2>2, FirstFrames
  <2> QED BY <2>1, <2>2, <2>3 DEF EndsAstray, Astray
<1>2. stage[n] # "opening" /\ n \notin late => n \in 1..opened'
  BY DEF Turn, Conns
<1> QED BY <1>1, <1>2 DEF Turn, Hello, HelloAck, ReadyFrame, Frame

\* What may happen on a connection without a step of its handshake.
LEMMA TurnKept ==
    ASSUME NEW n \in Conns, Turn(n), StreamTypes, Lasting,
           stage' = stage, served' = served, opened' = opened \/ opened' = opened + 1,
           opened \in Nat, down \subseteq down', late \subseteq late',
           n \notin late' => Continues(wire, wire', n) \/ Loses(n)
    PROVE  Turn(n)'
<1> SUFFICES ASSUME n \notin late' PROVE Turn(n)'
  BY DEF Turn
<1>1. n \notin late
  OBVIOUS
<1>2. stage[n] # "opening" => n \in 1..opened'
  BY <1>1 DEF Turn, Conns
<1>3. CASE Continues(wire, wire', n)
  <2>1. CASE stage[n] # "ready"
    <3>1. wire'["worker"][n] = wire["worker"][n] /\ wire'["core"][n] = wire["core"][n]
      BY <1>1, <1>3, <2>1 DEF Continues, Ready
    <3> QED BY <3>1, TurnStays
  <2>2. CASE stage[n] = "ready"
    <3>1. CASE n \in served
      BY <1>1, <1>2, <2>2, <3>1 DEF Turn
    <3>2. CASE n \notin served /\ wire["worker"][n] = <<>>
      <4>1. n \in down /\ wire'["worker"][n] = <<>>
        BY <1>1, <1>3, <2>2, <3>2 DEF Turn, Continues
      <4> QED BY <1>1, <1>2, <2>2, <3>2, <4>1 DEF Turn
    <3>3. CASE n \notin served /\ wire["worker"][n] # <<>>
      <4>1. PICK f \in Frames : f = Head(wire["worker"][n])
        BY <3>3, FirstFrames
      <4>2. wire'["worker"][n] # <<>> /\ Head(wire'["worker"][n]) = f /\ (f = ReadyFrame \/ Astray(f, n))
        BY <1>1, <1>3, <2>2, <3>3, <4>1 DEF Turn, Continues
      <4>3. f = ReadyFrame \/ Astray(f, n)'
        BY <4>2, AstrayStays
      <4> QED BY <1>1, <1>2, <2>2, <3>3, <4>2, <4>3 DEF Turn, Astray, ReadyFrame, Frame
    <3> QED BY <3>1, <3>2, <3>3
  <2> QED BY <2>1, <2>2
<1>4. CASE Loses(n)
  <2>1. CASE wire'["worker"][n] = wire["worker"][n] /\ wire'["core"][n] = wire["core"][n]
    BY <2>1, TurnStays
  <2>2. CASE wire'["worker"][n] = <<>>
    BY <1>1, <1>2, <1>4, <2>2 DEF Turn, Loses, EndsAstray, Hello, HelloAck, ReadyFrame, Frame
  <2>3. CASE wire'["worker"][n] = wire["worker"][n] /\ wire'["core"][n] = <<>>
    <3> DEFINE w == wire["worker"][n]
    <3>1. /\ EndsAstray(w, n) => EndsAstray(w, n)'
          /\ w # <<>> => (EndsAstray(Tail(w), n) => EndsAstray(Tail(w), n)')
          /\ w # <<>> => (Astray(Head(w), n) => Astray(Head(w), n)')
      <4>1. \A f \in Frames : Astray(f, n) => Astray(f, n)'
        BY AstrayStays
      <4>2. PICK v : v = wire["worker"][n]
        OBVIOUS
      <4>3. wire'["worker"][n] = v /\ (v # <<>> => Head(v) \in Frames)
            /\ (v # <<>> /\ Tail(v) # <<>> => Head(Tail(v)) \in Frames)
        BY <2>3, <4>2, FirstFrames
      <4> QED BY <4>1, <4>2, <4>3 DEF EndsAstray, Astray
    <3> QED BY <1>1, <1>2, <2>3, <3>1 DEF Turn, Hello, HelloAck, ReadyFrame, Frame
  <2> QED BY <1>4, <2>1, <2>2, <2>3 DEF Loses
<1> QED BY <1>3, <1>4
-----------------------------------------------------------------------------
(* A step of no handshake *)

\* Where a step starts calls and leaves the handshakes, it keeps their order.
LEMMA OrderKept ==
    ASSUME Orderly, Inv', StreamTypes', stage' = stage, served' = served,
           opened' = opened \/ opened' = opened + 1,
           down \subseteq down', late \subseteq late',
           SocketIsReady',
           CallsAreReady',
           Lasting,
           \A n \in Conns : n \notin late' => Continues(wire, wire', n) \/ Loses(n)
    PROVE  Orderly'
<1>1. \A n \in Conns : Turn(n)'
  BY TurnKept DEF Orderly, Inv, TypeOK
<1> QED BY <1>1 DEF Orderly

\* The same, where the sockets stay what they are.
LEMMA OrderKeptAside ==
    ASSUME Orderly, Inv', StreamTypes',
           UNCHANGED <<stage, served, opened, late, socket, connecting>>,
           Lasting,
           down \subseteq down',
           \A c \in Calls : call'[c].conn = call[c].conn,
           \A n \in Conns : n \notin late => Continues(wire, wire', n) \/ Loses(n)
    PROVE  Orderly'
<1>1. SocketIsReady' /\ CallsAreReady'
  BY DEF Orderly, SocketIsReady, CallsAreReady, Ready
<1> QED BY <1>1, OrderKept

\* Wires that stay.
LEMMA NothingWritten ==
    ASSUME StreamTypes, wire' = wire
    PROVE  \A n \in Conns : Continues(wire, wire', n)
BY DEF Continues

\* Cutting streams.
LEMMA CutTypes ==
    ASSUME StreamTypes, NEW s \in Sides, NEW cs, Cut(s, cs)
    PROVE  /\ snd' \in [Calls -> Senders]
           /\ rcv' \in [Calls -> Receivers]
           /\ table' \in [Sides -> SUBSET Calls]
<1>1. table' \in [Sides -> SUBSET Calls]
  BY DEF Cut, StreamTypes
<1>2. ASSUME NEW c \in Calls
      PROVE  snd'[c] \in Senders
  BY DEF Cut, StreamTypes, Senders
<1>3. ASSUME NEW c \in Calls
      PROVE  rcv'[c] \in Receivers
  <2>1. rcv[c] \in Receivers /\ rcv[c].failed \in BOOLEAN /\ rcv[c].ended \in BOOLEAN
    BY DEF StreamTypes, Receivers
  <2>2. (rcv[c].failed \/ ~rcv[c].ended) \in BOOLEAN
    OBVIOUS
  <2>3. [rcv[c] EXCEPT !.failed = @ \/ ~rcv[c].ended] \in Receivers
    BY <2>1, <2>2 DEF Receivers
  <2>4. rcv'[c] = [rcv[c] EXCEPT !.failed = @ \/ ~rcv[c].ended] \/ rcv'[c] = rcv[c]
    BY DEF Cut
  <2> QED BY <2>1, <2>3, <2>4
<1>4. DOMAIN snd' = Calls /\ snd' = [c \in Calls |-> snd'[c]] /\ rcv' = [c \in Calls |-> rcv'[c]]
  BY DEF Cut
<1> QED BY <1>1, <1>2, <1>3, <1>4

LEMMA SettledConns ==
    ASSUME Inv, NEW cs, NEW outcome \in {"ok", "failed", "lost", "timeout", "aborted"},
           call' = Settled(cs, outcome) \/ call' = call
    PROVE  \A c \in Calls : call'[c].conn = call[c].conn
BY SettledCalls DEF Inv

LEMMA AbortFrameTypes ==
    ASSUME NEW s, NEW c \in Calls
    PROVE  AbortFrames(s, c) \in Seq(Frames)
BY FrameTypes DEF AbortFrames

LEMMA OpenFrameTypes ==
    ASSUME NEW c \in Calls
    PROVE  OpenFrames(c) \in Seq(Frames)
BY FrameTypes DEF OpenFrames

\* A frame of a stream, read from a connection that is ready.
LEMMA StreamFrameOrder ==
    ASSUME Orderly, NEW s \in Sides, NEW n \in Conns, Ready(n), s = "worker" => n \in served, wire[s][n] # <<>>,
           IsStreamFrame(Head(wire[s][n])), HandleStream(s, n, Head(wire[s][n]))
    PROVE  /\ wire' \in Wires
           /\ \A m \in Conns : Continues(wire, wire', m)
           /\ snd' \in [Calls -> Senders]
           /\ rcv' \in [Calls -> Receivers]
           /\ table' \in [Sides -> SUBSET Calls]
           /\ \A c \in Calls : call'[c].conn = call[c].conn
<1> DEFINE f == Head(wire[s][n])
           c == f.call
<1>1. StreamTypes /\ Inv /\ CallsAreReady
  BY DEF Orderly
<1>2. f \in Frames
  BY <1>1 DEF StreamTypes, Wires
<1>3. c \in Calls /\ f.n \in Nat
  BY <1>2 DEF Frames, HandshakeFrames, CallFrames, IsStreamFrame
<1>4. Read(s, n) \in Wires /\ \A m \in Conns : Continues(wire, Read(s, n), m)
  BY <1>1, ReadContinues
<1>5. call[c].conn \in Conns \cup {0} /\ (call[c].conn # 0 => Ready(call[c].conn))
  BY <1>1, <1>3 DEF StreamTypes, CallsAreReady
<1> HIDE DEF f, c
<1>6. ASSUME NEW frames \in Seq(Frames), NEW m \in Conns \cup {0}, m # 0 => Ready(m), wire' = Written(Read(s, n), s, m, frames)
      PROVE  wire' \in Wires /\ \A k \in Conns : Continues(wire, wire', k)
  <2>1. wire' \in Wires
    BY <1>4, <1>6, WrittenOn
  <2>2. \A k \in Conns : Continues(Read(s, n), wire', k)
    BY <1>1, <1>4, <1>6, WrittenContinues
  <2> QED BY <1>4, <2>1, <2>2, ContinuesOn
<1>7. ASSUME NEW notify \in BOOLEAN, AbortAt(s, c, Read(s, n), notify)
      PROVE  /\ wire' \in Wires
             /\ \A m \in Conns : Continues(wire, wire', m)
             /\ snd' \in [Calls -> Senders]
             /\ rcv' \in [Calls -> Receivers]
             /\ table' \in [Sides -> SUBSET Calls]
             /\ \A d \in Calls : call'[d].conn = call[d].conn
  <2>1. Cut(s, {c})
    BY <1>7 DEF AbortAt
  <2>2. call' = Settled({c}, "aborted") \/ call' = call
    BY <1>7 DEF AbortAt
  <2>3. wire' \in Wires /\ \A m \in Conns : Continues(wire, wire', m)
    <3>1. CASE notify
      BY <1>3, <1>5, <1>6, <1>7, <3>1, AbortFrameTypes DEF AbortAt
    <3>2. CASE ~notify
      BY <1>4, <1>7, <3>2 DEF AbortAt
    <3> QED BY <3>1, <3>2
  <2> QED BY <1>1, <2>1, <2>2, <2>3, CutTypes, SettledConns
<1>8. CASE /\ wire' = Written(Read(s, n), s, n,
                              IF f.type \in {"streamOpen", "streamData", "streamEnd"}
                              THEN <<Frame("streamAbort", c, 0)>> ELSE <<>>)
           /\ UNCHANGED <<call, pending, table, snd, rcv>>
  <2>1. (IF f.type \in {"streamOpen", "streamData", "streamEnd"}
         THEN <<Frame("streamAbort", c, 0)>> ELSE <<>>) \in Seq(Frames)
    BY <1>3, FrameTypes
  <2>2. wire' \in Wires /\ \A m \in Conns : Continues(wire, wire', m)
    BY <1>6, <1>8, <2>1
  <2> QED BY <1>1, <1>8, <2>2 DEF StreamTypes
<1>9. CASE /\ wire' = Read(s, n)
           /\ snd' = IF SenderSide(c) = s /\ f.n + 1 > snd[c].acked
                     THEN [snd EXCEPT ![c].acked = f.n + 1] ELSE snd
           /\ UNCHANGED <<call, pending, table, rcv>>
  <2>1. snd[c] \in Senders /\ f.n + 1 \in Nat
    BY <1>1, <1>3 DEF StreamTypes
  <2>2. [snd[c] EXCEPT !.acked = f.n + 1] \in Senders
    BY <2>1 DEF Senders
  <2>3. snd' = [snd EXCEPT ![c] = [snd[c] EXCEPT !.acked = f.n + 1]] \/ snd' = snd
    BY <1>9
  <2>4. snd' \in [Calls -> Senders]
    BY <1>1, <2>2, <2>3 DEF StreamTypes
  <2> QED BY <1>1, <1>4, <1>9, <2>4 DEF StreamTypes
<1>10. CASE /\ wire' = Read(s, n)
            /\ rcv' = [rcv EXCEPT ![c] = Received(c, f)]
            /\ UNCHANGED <<call, pending, table, snd>>
            /\ f.type \in {"streamOpen", "streamData", "streamEnd"}
  <2>1. Received(c, f) \in Receivers
    <3>1. rcv[c] \in Receivers /\ rcv[c].next + 1 \in Nat
      BY <1>1, <1>3 DEF StreamTypes, Receivers
    <3>2. CASE f.type = "streamOpen"
      BY <3>1, <3>2 DEF Receivers, Received
    <3>3. CASE f.type = "streamData"
      <4>1. Received(c, f) = [rcv[c] EXCEPT !.next = rcv[c].next + 1]
        BY <3>1, <3>3 DEF Received
      <4> QED BY <3>1, <4>1 DEF Receivers
    <3>4. CASE f.type = "streamEnd"
      BY <3>1, <3>4 DEF Receivers, Received
    <3> QED BY <1>10, <3>2, <3>3, <3>4
  <2>2. rcv' \in [Calls -> Receivers]
    BY <1>1, <1>10, <2>1 DEF StreamTypes
  <2> QED BY <1>1, <1>4, <1>10, <2>2 DEF StreamTypes
<1> QED BY <1>7, <1>8, <1>9, <1>10 DEF HandleStream, f, c
-----------------------------------------------------------------------------
(* The actions of calls *)

LEMMA InitOrder == Init => Orderly
<1> SUFFICES ASSUME Init PROVE Orderly
  OBVIOUS
<1>1. Inv
  BY InitInv
<1>2. wire \in Wires
  BY DEF Init, Wires
<1>3. snd \in [Calls -> Senders] /\ rcv \in [Calls -> Receivers]
  BY DEF Init, Senders, Receivers, FreshSender, FreshReceiver
<1>4. StreamTypes
  BY <1>2, <1>3 DEF Init, StreamTypes
<1>5. \A n \in Conns : Turn(n)
  BY DEF Init, Turn, EndsAstray, Sides
<1> QED BY <1>1, <1>4, <1>5 DEF Orderly, CallsAreReady, SocketIsReady, Init

\* A step of the code around a call that may write on the call's connection.
LEMMA CallWrites ==
    ASSUME Orderly, Inv', Lasting, NEW c \in Calls, NEW s \in Sides, NEW frames \in Seq(Frames),
           wire' = Written(wire, s, call[c].conn, frames) \/ wire' = wire,
           UNCHANGED netVars,
           \A d \in Calls : call'[d].conn = call[d].conn,
           snd' \in [Calls -> Senders], rcv' \in [Calls -> Receivers], table' \in [Sides -> SUBSET Calls]
    PROVE  Orderly'
<1>1. StreamTypes /\ call[c].conn \in Conns \cup {0} /\ (call[c].conn # 0 => Ready(call[c].conn))
  BY DEF Orderly, StreamTypes, CallsAreReady
<1>2. wire' \in Wires /\ \A n \in Conns : Continues(wire, wire', n)
  <2>1. CASE wire' = Written(wire, s, call[c].conn, frames)
    <3>1. wire \in Wires
      BY <1>1 DEF StreamTypes
    <3> QED BY <1>1, <2>1, <3>1, WrittenOn, WrittenContinues
  <2>2. CASE wire' = wire
    BY <1>1, <2>2, NothingWritten DEF StreamTypes
  <2> QED BY <2>1, <2>2
<1>3. StreamTypes'
  BY <1>1, <1>2 DEF StreamTypes, netVars
<1> QED BY <1>2, <1>3, OrderKeptAside DEF netVars

LEMMA SidesOf == \A c \in Calls : SenderSide(c) \in Sides /\ ReceiverSide(c) \in Sides
BY DEF SenderSide, ReceiverSide, Sides

LEMMA SenderActionsOrder ==
    ASSUME Orderly, Inv', Lasting, NEW c \in Calls, Send(c) \/ SourceEnds(c)
    PROVE  Orderly'
<1>1. StreamTypes /\ snd[c] \in Senders /\ snd[c].seq \in Nat /\ snd[c].seq + 1 \in Nat
  BY DEF Orderly, StreamTypes, Senders
<1>2. "core" \in Sides /\ SenderSide(c) \in Sides
  BY SidesOf DEF Sides
<1>3. CASE Send(c)
  <2>1. OpenFrames(c) \o <<Frame("streamData", c, snd[c].seq)>> \in Seq(Frames)
    BY <1>1, FrameTypes, OpenFrameTypes
  <2>2. snd' \in [Calls -> Senders]
    <3>1. ASSUME NEW d \in Calls PROVE snd'[d] \in Senders
      BY <1>1, <1>3 DEF Send, StreamTypes, Senders
    <3>2. snd' = [d \in Calls |-> snd'[d]]
      BY <1>1, <1>3 DEF Send, StreamTypes
    <3> QED BY <3>1, <3>2
  <2>3. /\ wire' = Written(wire, SenderSide(c), call[c].conn, OpenFrames(c) \o <<Frame("streamData", c, snd[c].seq)>>)
        /\ UNCHANGED <<call, netVars, table, rcv>>
    BY <1>3 DEF Send
  <2> QED BY <1>1, <1>2, <2>1, <2>2, <2>3, CallWrites DEF StreamTypes
<1>4. CASE SourceEnds(c)
  <2>1. OpenFrames(c) \o <<Frame("streamEnd", c, snd[c].seq)>> \in Seq(Frames)
    BY <1>1, FrameTypes, OpenFrameTypes
  <2>2. snd' \in [Calls -> Senders]
    BY <1>1, <1>4 DEF SourceEnds, StreamTypes, Senders
  <2>3. /\ wire' = Written(wire, "core", call[c].conn, OpenFrames(c) \o <<Frame("streamEnd", c, snd[c].seq)>>)
        /\ UNCHANGED <<call, netVars, table, rcv>>
    BY <1>4 DEF SourceEnds
  <2> QED BY <1>1, <1>2, <2>1, <2>2, <2>3, CallWrites DEF StreamTypes
<1> QED BY <1>3, <1>4

LEMMA SourceFailsOrder ==
    ASSUME Orderly, Inv', Lasting, NEW c \in Calls, SourceFails(c)
    PROVE  Orderly'
<1>1. StreamTypes /\ Inv /\ "core" \in Sides
  BY DEF Orderly, Sides
<1>2. snd' \in [Calls -> Senders] /\ rcv' \in [Calls -> Receivers] /\ table' \in [Sides -> SUBSET Calls]
  BY <1>1 DEF SourceFails, StreamTypes, Senders
<1>3. call' = Settled({c}, "aborted") \/ call' = call
  BY DEF SourceFails
<1>4. wire' = Written(wire, "core", call[c].conn, AbortFrames("core", c)) /\ UNCHANGED netVars
  BY DEF SourceFails
<1> QED BY <1>1, <1>2, <1>3, <1>4, AbortFrameTypes, SettledConns, CallWrites

\* Connections other than n are as they were.
Elsewhere(n) ==
    \A m \in Conns : m # n => /\ stage'[m] = stage[m]
                              /\ wire'["worker"][m] = wire["worker"][m]
                              /\ wire'["core"][m] = wire["core"][m]
                              /\ m \in served' <=> m \in served

\* It is enough to look at the connection whose handshake goes on.
LEMMA OrderKeptElsewhere ==
    ASSUME Orderly, Inv', Lasting, StreamTypes', NEW n \in Conns, Elsewhere(n), Turn(n)',
           opened' = opened, late' = late, down \subseteq down',
           SocketIsReady',
           CallsAreReady'
    PROVE  Orderly'
<1>1. ASSUME NEW m \in Conns PROVE Turn(m)'
  <2>1. CASE m = n
    BY <2>1
  <2>2. CASE m # n
    <3>1. Turn(m)
      BY DEF Orderly
    <3>2. /\ stage'[m] = stage[m]
          /\ wire'["worker"][m] = wire["worker"][m]
          /\ wire'["core"][m] = wire["core"][m]
          /\ m \in served' <=> m \in served
      BY <2>2 DEF Elsewhere
    <3> QED BY <3>1, <3>2, TurnStays DEF Orderly, Inv, TypeOK
  <2> QED BY <2>1, <2>2
<1> QED BY <1>1 DEF Orderly

LEMMA FirstOf ==
    ASSUME NEW S, NEW w \in Seq(S)
    PROVE  /\ w = <<>> <=> Len(w) = 0
           /\ w # <<>> => /\ Head(w) = w[1] /\ Tail(w) \in Seq(S) /\ Len(Tail(w)) = Len(w) - 1
                          /\ \A i \in 1..(Len(w) - 1) : Tail(w)[i] = w[i + 1]
<1>1. w = <<>> <=> Len(w) = 0
  OBVIOUS
<1>2. w # <<>> => Head(w) = w[1] /\ Tail(w) \in Seq(S) /\ Len(Tail(w)) = Len(w) - 1
  OBVIOUS
<1>3. w # <<>> => \A i \in 1..(Len(w) - 1) : Tail(w)[i] = w[i + 1]
  OBVIOUS
<1> QED BY <1>1, <1>2, <1>3

\* One more frame behind others.
LEMMA OneMore ==
    ASSUME NEW w \in Seq(Frames), NEW x \in Frames, NEW v, v = w \o <<x>>
    PROVE  /\ v # <<>> /\ Head(v) = IF w = <<>> THEN x ELSE Head(w)
           /\ w # <<>> => IF Tail(w) = <<>> THEN Tail(v) # <<>> /\ Head(Tail(v)) = x
                          ELSE Tail(v) # <<>> /\ Head(Tail(v)) = Head(Tail(w))
<1>1. /\ v \in Seq(Frames) /\ Len(v) = Len(w) + 1 /\ Len(w) \in Nat
      /\ \A i \in 1..Len(w) : v[i] = w[i]
      /\ v[Len(w) + 1] = x
  OBVIOUS
<1>2. w = <<>> => Len(w) = 0
  OBVIOUS
<1>3. w # <<>> => Len(w) >= 1 /\ Head(w) = w[1]
  OBVIOUS
<1>4. v # <<>> /\ Head(v) = v[1]
  BY <1>1
<1>5. Len(v) >= 2 => Tail(v) # <<>> /\ Head(Tail(v)) = v[2]
  BY <1>1
<1>6. w # <<>> => /\ Tail(w) \in Seq(Frames) /\ Len(Tail(w)) = Len(w) - 1
                  /\ \A i \in 1..(Len(w) - 1) : Tail(w)[i] = w[i + 1]
  BY FirstOf
<1>7. ASSUME NEW u \in Seq(Frames), Len(u) >= 1 PROVE u # <<>> /\ Head(u) = u[1]
  BY <1>7, FirstOf
<1>8. ASSUME NEW u \in Seq(Frames), Len(u) = 0 PROVE u = <<>>
  BY <1>8, FirstOf
<1>9. w # <<>> /\ Len(w) >= 2 => Tail(w) # <<>> /\ Head(Tail(w)) = w[2]
  <2> SUFFICES ASSUME w # <<>>, Len(w) >= 2 PROVE Tail(w) # <<>> /\ Head(Tail(w)) = w[2]
    OBVIOUS
  <2>1. PICK u \in Seq(Frames) : u = Tail(w) /\ Len(u) = Len(w) - 1 /\ \A i \in 1..(Len(w) - 1) : u[i] = w[i + 1]
    BY <1>6
  <2>2. Len(u) >= 1 /\ u[1] = w[2]
    BY <1>1, <2>1
  <2> QED BY <1>7, <2>1, <2>2
<1>10. w # <<>> /\ Len(w) = 1 => Tail(w) = <<>>
  BY <1>1, <1>6, <1>8
<1> QED BY <1>1, <1>2, <1>3, <1>4, <1>5, <1>9, <1>10

\* A late acknowledgement leaves on the socket there is, whatever the stage of its handshake.
LEMMA LateOrder ==
    ASSUME Orderly, Inv', Lasting, NEW c \in Calls, NEW n \in Conns, n = socket,
           call[c].conn \notin {0, socket}, call[c].kind = "download", rcv[c].ended,
           NEW k \in Nat, wire' = Written(wire, "core", socket, <<Frame("streamAck", c, k)>>),
           UNCHANGED <<call, netVars, table, snd>>, rcv' \in [Calls -> Receivers]
    PROVE  Orderly'
<1> DEFINE w == wire["worker"][n]
<1>1. PICK ack \in Frames : ack = Frame("streamAck", c, k)
  BY FrameTypes
<1>2. StreamTypes /\ Inv /\ Turn(n) /\ n \in Conns /\ "core" \in Sides /\ "worker" \in Sides /\ Peer("core") = "worker"
      /\ wire \in Wires /\ <<ack>> \in Seq(Frames)
  BY DEF Orderly, StreamTypes, Sides, Peer
<1>3. /\ wire' \in Wires
      /\ \A t \in Sides, m \in Conns : t # "worker" \/ m # n => wire'[t][m] = wire[t][m]
      /\ wire'["worker"][n] \in {w, w \o <<ack>>}
      /\ n \in down => wire'["worker"][n] = w
  <2>1. /\ Written(wire, "core", n, <<ack>>) \in Wires
        /\ Grew(wire, Written(wire, "core", n, <<ack>>), "worker", n, <<ack>>)
    BY <1>2, WrittenOn
  <2> QED BY <1>1, <1>2, <2>1 DEF Grew
<1>4. Astray(ack, n)'
  BY <1>1 DEF Astray, Lasting, Frame, netVars
<1>5. wire'["core"][n] = wire["core"][n] /\ UNCHANGED <<call, stage, served, opened, down, late, socket, connecting>>
  BY <1>2, <1>3 DEF netVars
<1>6. opened \in Nat /\ w \in Seq(Frames)
  BY <1>2, FirstFrames DEF Inv, TypeOK
<1>7. Turn(n)'
  <2>1. CASE wire'["worker"][n] = w
    BY <1>2, <1>5, <1>6, <2>1, TurnStays
  <2>2. CASE wire'["worker"][n] = w \o <<ack>> /\ n \notin down /\ n \notin late
    <3>1. PICK v : v = wire'["worker"][n]
      OBVIOUS
    <3>2. /\ v # <<>> /\ Head(v) = IF w = <<>> THEN ack ELSE Head(w)
          /\ w # <<>> => IF Tail(w) = <<>> THEN Tail(v) # <<>> /\ Head(Tail(v)) = ack
                         ELSE Tail(v) # <<>> /\ Head(Tail(v)) = Head(Tail(w))
      <4> HIDE DEF w
      <4> QED BY <1>6, <2>2, <3>1, OneMore
    <3>3. \A f \in Frames : Astray(f, n) => Astray(f, n)'
      BY AstrayStays
    <3>4. /\ w # <<>> => (Astray(Head(w), n) => Astray(Head(v), n)')
          /\ w = <<>> => Astray(Head(v), n)'
          /\ w # <<>> => (EndsAstray(Tail(w), n) => Astray(Head(Tail(v)), n)')
      <4>1. \E h : h = Head(v) /\ (w = <<>> => h = ack) /\ (w # <<>> => h = Head(w) /\ h \in Frames)
        BY <1>2, <3>2, FirstFrames
      <4>2. w # <<>> => \E h : h = Head(Tail(v)) /\ (Tail(w) = <<>> => h = ack)
                                /\ (Tail(w) # <<>> => h = Head(Tail(w)) /\ h \in Frames)
        BY <1>2, <3>2, FirstFrames
      <4> QED BY <1>4, <3>3, <4>1, <4>2 DEF EndsAstray, Astray
    <3>5. /\ stage[n] = "opening" => Astray(Head(v), n)' /\ wire["core"][n] = <<>>
          /\ stage[n] = "greeted" =>
                \/ Head(v) = Hello /\ Astray(Head(Tail(v)), n)' /\ wire["core"][n] = <<>>
                \/ Astray(Head(v), n)' /\ wire["core"][n] \in {<<>>, <<HelloAck>>}
          /\ stage[n] = "ready" /\ n \notin served => Head(v) = ReadyFrame \/ Astray(Head(v), n)'
      BY <1>2, <2>2, <3>2, <3>4 DEF Turn, EndsAstray
    <3>6. (stage[n] # "ready" => n \notin served) /\ (stage[n] # "opening" => n \in 1..opened)
      BY <1>2, <2>2 DEF Turn
    <3>7. QED
      BY <1>5, <3>1, <3>2, <3>5, <3>6 DEF Turn, EndsAstray, Astray, Hello, HelloAck, ReadyFrame, Frame
  <2>3. CASE n \in late
    BY <1>5, <2>3 DEF Turn
  <2> QED BY <1>3, <2>1, <2>2, <2>3
<1>8. StreamTypes'
  BY <1>2, <1>3, <1>5 DEF StreamTypes
<1>9. Elsewhere(n)
  BY <1>2, <1>3, <1>5 DEF Elsewhere
<1>10. SocketIsReady' /\ CallsAreReady'
  BY <1>5 DEF Orderly, SocketIsReady, CallsAreReady, Ready
<1> QED BY <1>2, <1>5, <1>7, <1>8, <1>9, <1>10, OrderKeptElsewhere

LEMMA ReaderActionsOrder ==
    ASSUME Orderly, Inv', Lasting, LateWhenWhole, NEW c \in Calls,
           Take(c) \/ ReadsToEnd(c) \/ ReadFails(c) \/ HandlerStops(c)
    PROVE  Orderly'
<1>1. StreamTypes /\ rcv[c] \in Receivers /\ rcv[c].taken \in Nat /\ rcv[c].taken + 1 \in Nat
  BY DEF Orderly, StreamTypes, Receivers
<1>2. <<Frame("streamAck", c, rcv[c].taken)>> \in Seq(Frames) /\ ReceiverSide(c) \in Sides
  BY <1>1, FrameTypes, SidesOf
<1>3. rcv' \in [Calls -> Receivers]
  <2>1. /\ [rcv[c] EXCEPT !.taken = rcv[c].taken + 1] \in Receivers
        /\ \A r \in {"whole", "failed", "stopped"} : [rcv[c] EXCEPT !.reader = r] \in Receivers
    BY <1>1 DEF Receivers
  <2>2. \/ rcv' = [rcv EXCEPT ![c] = [rcv[c] EXCEPT !.taken = rcv[c].taken + 1]]
        \/ \E r \in {"whole", "failed", "stopped"} : rcv' = [rcv EXCEPT ![c] = [rcv[c] EXCEPT !.reader = r]]
    BY DEF Take, ReadsToEnd, ReadFails, HandlerStops
  <2> QED BY <1>1, <2>1, <2>2 DEF StreamTypes
<1>4. UNCHANGED <<call, netVars, table, snd>>
  BY DEF Take, ReadsToEnd, ReadFails, HandlerStops
<1>5. CASE \/ wire' = Written(wire, ReceiverSide(c), call[c].conn, <<Frame("streamAck", c, rcv[c].taken)>>)
           \/ wire' = wire
  BY <1>1, <1>2, <1>3, <1>4, <1>5, CallWrites DEF StreamTypes
<1>6. CASE Take(c) /\ ReceiverSide(c) = "core" /\ call[c].conn # socket
  <2>1. call[c].conn # 0 /\ call[c].kind = "download" /\ rcv[c].ended
        /\ wire' = Written(wire, "core", socket, <<Frame("streamAck", c, rcv[c].taken)>>)
    BY <1>6 DEF Take, LateWhenWhole, LinkOf
  <2>2. CASE socket = 0
    <3>1. wire' = wire
      BY <2>1, <2>2 DEF Written
    <3> QED BY <1>5, <3>1
  <2>3. CASE socket # 0
    <3>1. PICK n \in Conns : n = socket
      BY <1>1, <2>3 DEF StreamTypes
    <3> QED BY <1>1, <1>3, <1>4, <1>6, <2>1, <3>1, LateOrder
  <2> QED BY <2>2, <2>3
<1> QED BY <1>5, <1>6 DEF Take, LinkOf, ReadsToEnd, ReadFails, HandlerStops

LEMMA ReaderCancelsOrder ==
    ASSUME Orderly, Inv', Lasting, NEW c \in Calls, ReaderCancels(c)
    PROVE  Orderly'
<1> DEFINE cancels == c \in table["core"] /\ ~rcv[c].ended
<1>1. StreamTypes /\ Inv /\ "core" \in Sides /\ rcv[c] \in Receivers
  BY DEF Orderly, Sides, StreamTypes
<1>2. (rcv[c].failed \/ cancels) \in BOOLEAN
  OBVIOUS
<1>3. rcv' = [rcv EXCEPT ![c].failed = @ \/ cancels, ![c].reader = "stopped"]
  BY DEF ReaderCancels
<1>4. ASSUME NEW d \in Calls PROVE rcv'[d] \in Receivers
  BY <1>1, <1>2, <1>3 DEF StreamTypes, Receivers
<1>5. table' = (IF cancels THEN [table EXCEPT !["core"] = @ \ {c}] ELSE table) /\ snd' = snd /\ UNCHANGED netVars
  BY DEF ReaderCancels
<1>6. call' = Settled({c}, "aborted") \/ call' = call
  BY DEF ReaderCancels
<1>7. wire' = Written(wire, "core", call[c].conn, AbortFrames("core", c)) \/ wire' = wire
  BY DEF ReaderCancels
<1> HIDE DEF cancels
<1>8. snd' \in [Calls -> Senders] /\ rcv' \in [Calls -> Receivers] /\ table' \in [Sides -> SUBSET Calls]
  <2>1. rcv' = [d \in Calls |-> rcv'[d]]
    BY <1>1, <1>3 DEF StreamTypes
  <2>2. rcv' \in [Calls -> Receivers]
    BY <1>4, <2>1
  <2>3. table' \in [Sides -> SUBSET Calls]
    BY <1>1, <1>5 DEF StreamTypes
  <2> QED BY <1>1, <1>5, <2>2, <2>3 DEF StreamTypes
<1> QED BY <1>1, <1>5, <1>6, <1>7, <1>8, AbortFrameTypes, SettledConns, CallWrites

LEMMA ReplyFrameTypes ==
    ASSUME Orderly, NEW c \in Calls, NEW ok \in BOOLEAN
    PROVE  ReplyFrames(c, ok) \in Seq(Frames)
<1> DEFINE reply == <<Frame("reply", c, IF ok THEN 1 ELSE 0)>>
           end == <<Frame("streamEnd", c, snd[c].seq)>>
<1>1. snd[c].seq \in Nat /\ call[c].kind \in {"plain", "upload", "download"}
  BY DEF Orderly, StreamTypes, Senders, Inv, TypeOK, CallRecords
<1>2. reply \in Seq(Frames) /\ end \in Seq(Frames)
  BY <1>1, FrameTypes
<1>3. AbortFrames("worker", c) \in Seq(Frames) /\ OpenFrames(c) \in Seq(Frames) /\ <<>> \in Seq(Frames)
  BY AbortFrameTypes, OpenFrameTypes
<1> HIDE DEF reply, end
<1>4. /\ AbortFrames("worker", c) \o reply \in Seq(Frames)
      /\ reply \o AbortFrames("worker", c) \in Seq(Frames)
      /\ reply \o <<>> \in Seq(Frames)
      /\ (OpenFrames(c) \o end) \o reply \in Seq(Frames)
      /\ <<>> \o reply \in Seq(Frames)
  BY <1>2, <1>3
<1>5. \/ ReplyFrames(c, ok) = AbortFrames("worker", c) \o reply
      \/ ReplyFrames(c, ok) = reply
      \/ ReplyFrames(c, ok) = reply \o AbortFrames("worker", c)
      \/ ReplyFrames(c, ok) = reply \o <<>>
      \/ ReplyFrames(c, ok) = (OpenFrames(c) \o end) \o reply
      \/ ReplyFrames(c, ok) = <<>> \o reply
  BY <1>1 DEF ReplyFrames, reply, end
<1> QED BY <1>2, <1>4, <1>5

LEMMA HandlerReturnsOrder ==
    ASSUME Orderly, Inv', Lasting, NEW c \in Calls, NEW ok \in BOOLEAN, HandlerReturns(c, ok)
    PROVE  Orderly'
<1>1. StreamTypes /\ "worker" \in Sides /\ ReplyFrames(c, ok) \in Seq(Frames)
  BY ReplyFrameTypes DEF Orderly, Sides
<1>2. snd' \in [Calls -> Senders] /\ table' \in [Sides -> SUBSET Calls]
  BY <1>1 DEF HandlerReturns, StreamTypes, Senders
<1>3. /\ wire' = Written(wire, "worker", call[c].conn, ReplyFrames(c, ok))
      /\ UNCHANGED <<call, netVars, rcv>>
  BY DEF HandlerReturns
<1> QED BY <1>1, <1>2, <1>3, CallWrites DEF StreamTypes

LEMMA DeadlineOrder ==
    ASSUME Orderly, Inv', Lasting, NEW c \in Calls, Deadline(c)
    PROVE  Orderly'
<1>1. StreamTypes /\ Inv /\ "core" \in Sides
  BY DEF Orderly, Sides
<1>2. call[c].conn = socket
  BY DEF Deadline, Orderly, Inv, NothingWaitsOnALostSocket
<1>3. /\ wire' = Written(wire, "core", call[c].conn, AbortFrames("core", c))
      /\ Cut("core", {c})
      /\ UNCHANGED netVars
      /\ call' = Settled({c}, "timeout") \/ call' = call
  BY <1>2 DEF Deadline
<1> QED BY <1>1, <1>3, AbortFrameTypes, CutTypes, SettledConns, CallWrites

LEMMA BeginTooLargeOrder ==
    ASSUME Orderly, Inv', Lasting, NEW c \in Calls, BeginTooLarge(c)
    PROVE  Orderly'
<1>1. /\ call' = [call EXCEPT ![c] = [@ EXCEPT !.phase = "done", !.outcome = "failed", !.conn = socket]]
      /\ socket # 0 /\ ~connecting
      /\ UNCHANGED <<netVars, wire, table, snd, rcv>>
  BY DEF BeginTooLarge
<1>2. StreamTypes /\ Ready(socket)
  BY <1>1 DEF Orderly, SocketIsReady
<1>3. \A d \in Calls : call'[d].conn = IF d = c THEN socket ELSE call[d].conn
  BY <1>1 DEF Orderly, Inv, TypeOK, CallRecords
<1>4. StreamTypes'
  BY <1>1, <1>2, <1>3 DEF StreamTypes, netVars
<1>5. SocketIsReady' /\ CallsAreReady'
  BY <1>1, <1>2, <1>3 DEF Orderly, CallsAreReady, SocketIsReady, Ready, netVars
<1>6. /\ stage' = stage /\ served' = served /\ opened' = opened /\ down' = down /\ late' = late
      /\ refused' = refused /\ wire' = wire
  BY <1>1 DEF netVars
<1>7. \A n \in Conns : Continues(wire, wire', n)
  BY <1>2, <1>6, NothingWritten
<1> QED BY <1>4, <1>5, <1>6, <1>7, OrderKept

\* Starting calls on a connection that is ready, or becomes so in this step.
LEMMA StartTypes ==
    ASSUME StreamTypes, Inv, NEW cs \in SUBSET Calls, NEW order \in Seq(Calls), NEW calls0 \in [Calls -> CallRecords],
           \A c \in Calls : calls0[c].conn = call[c].conn, NEW w, StartAll(cs, order, calls0, w)
    PROVE  /\ snd' \in [Calls -> Senders]
           /\ table' \in [Sides -> SUBSET Calls]
           /\ [i \in DOMAIN order |-> Frame("execute", order[i], 0)] \in Seq(Frames)
           /\ \A c \in Calls : call'[c].conn = IF c \in cs THEN socket ELSE call[c].conn
<1>1. snd' \in [Calls -> Senders]
  BY DEF StartAll, StreamTypes, Senders
<1>2. table' \in [Sides -> SUBSET Calls]
  BY DEF StartAll, StreamTypes
<1>3. [i \in DOMAIN order |-> Frame("execute", order[i], 0)] \in Seq(Frames)
  BY FrameTypes
<1>4. ASSUME NEW c \in Calls PROVE call'[c].conn = IF c \in cs THEN socket ELSE call[c].conn
  <2>1. calls0[c] \in CallRecords
    OBVIOUS
  <2>2. call'[c] = IF c \in cs THEN [calls0[c] EXCEPT !.phase = "pending", !.conn = socket] ELSE calls0[c]
    BY DEF StartAll
  <2> QED BY <2>1, <2>2 DEF CallRecords
<1> QED BY <1>1, <1>2, <1>3, <1>4

LEMMA BeginOrder ==
    ASSUME Orderly, Inv', Lasting, NEW c \in Calls, NEW k \in KindsOf[c], Begin(c, k)
    PROVE  Orderly'
<1> DEFINE asked == [call[c] EXCEPT !.kind = k]
<1>1. StreamTypes /\ Inv /\ k \in {"plain", "upload", "download"}
  BY KindsAssumption DEF Orderly
<1>2. CASE connecting \/ socket = 0
  <2>1. /\ call' = [call EXCEPT ![c] = [@ EXCEPT !.kind = k, !.phase = "connecting"]]
        /\ UNCHANGED <<wire, table, snd, rcv, stage, served, late, refused>>
    BY <1>2 DEF Begin
  <2>2. \A d \in Calls : call'[d].conn = call[d].conn
    BY <1>1, <2>1 DEF Inv, TypeOK, CallRecords
  <2>3. \A n \in Conns : Continues(wire, wire', n)
    BY <1>1, <2>1, NothingWritten
  <2>4. CASE connecting
    <3>1. UNCHANGED <<socket, opened, connecting, down>>
      BY <1>2, <2>4 DEF Begin
    <3>2. StreamTypes'
      BY <1>1, <2>1, <2>2, <3>1 DEF StreamTypes
    <3> QED BY <2>1, <2>2, <2>3, <3>1, <3>2, OrderKeptAside
  <2>5. CASE ~connecting
    <3>1. /\ opened < MaxConns /\ opened' = opened + 1 /\ socket' = opened' /\ connecting' = TRUE
          /\ down \subseteq down'
      BY <1>2, <2>5 DEF Begin
    <3>2. socket' \in Conns
      BY <1>1, <3>1, BoundAssumption DEF Inv, TypeOK, Conns
    <3>3. StreamTypes'
      BY <1>1, <2>1, <2>2, <3>2 DEF StreamTypes
    <3>4. CallsAreReady' /\ SocketIsReady'
      BY <2>1, <2>2, <3>1 DEF Orderly, CallsAreReady, SocketIsReady, Ready
    <3> QED BY <2>1, <2>3, <3>1, <3>3, <3>4, OrderKept
  <2> QED BY <2>4, <2>5
<1>3. CASE ~(connecting \/ socket = 0)
  <2>1. /\ StartAll({c}, <<c>>, [call EXCEPT ![c] = asked], wire)
        /\ UNCHANGED <<socket, opened, connecting, up, down, stage, served, late, refused, rcv>>
    BY <1>3 DEF Begin
  <2>2. /\ [call EXCEPT ![c] = asked] \in [Calls -> CallRecords]
        /\ \A d \in Calls : [call EXCEPT ![c] = asked][d].conn = call[d].conn
    BY <1>1 DEF Inv, TypeOK, CallRecords
  <2>3. Ready(socket) /\ socket \in Conns
    BY <1>1, <1>3 DEF Orderly, SocketIsReady, StreamTypes
  <2> DEFINE requests == [i \in DOMAIN <<c>> |-> Frame("execute", <<c>>[i], 0)]
  <2> HIDE DEF asked
  <2>4. <<c>> \in Seq(Calls)
    OBVIOUS
  <2>5. /\ snd' \in [Calls -> Senders]
        /\ table' \in [Sides -> SUBSET Calls]
        /\ requests \in Seq(Frames)
        /\ \A d \in Calls : call'[d].conn = IF d \in {c} THEN socket ELSE call[d].conn
    BY <1>1, <2>1, <2>2, <2>4, StartTypes
  <2>6. wire' = Written(wire, "core", socket, requests) /\ "core" \in Sides /\ wire \in Wires
    BY <1>1, <2>1 DEF StartAll, Sides, StreamTypes
  <2> HIDE DEF requests
  <2>7. wire' \in Wires /\ \A n \in Conns : Continues(wire, wire', n)
    BY <1>1, <2>3, <2>5, <2>6, WrittenOn, WrittenContinues
  <2>8. StreamTypes'
    BY <1>1, <2>1, <2>5, <2>7 DEF StreamTypes
  <2>9. SocketIsReady' /\ CallsAreReady'
    BY <2>1, <2>3, <2>5 DEF Orderly, CallsAreReady, SocketIsReady, Ready
  <2> QED BY <2>1, <2>7, <2>8, <2>9, OrderKept
<1> QED BY <1>2, <1>3

-----------------------------------------------------------------------------
(* The actions of connections *)

LEMMA ConnectedOrder ==
    ASSUME Orderly, Inv', Lasting, NEW n \in Conns, Connected(n)
    PROVE  Orderly'
<1>1. StreamTypes /\ wire \in Wires /\ "core" \in Sides /\ "worker" \in Sides /\ Peer("core") = "worker"
  BY DEF Orderly, StreamTypes, Sides, Peer
<1>2. /\ n \in up["core"] /\ n \notin down /\ n <= opened /\ stage[n] = "opening"
      /\ stage' = [stage EXCEPT ![n] = "greeted"]
      /\ wire' = Written(wire, "core", n, <<Hello>>)
      /\ UNCHANGED <<call, socket, opened, connecting, served, down, refused, late, table, snd, rcv>>
  BY DEF Connected, Hello
<1>3. n # 0 /\ <<Hello>> \in Seq(Frames)
  BY FrameTypes DEF Conns
<1>4. /\ wire' \in Wires
      /\ \A t \in Sides, m \in Conns : t # "worker" \/ m # n => wire'[t][m] = wire[t][m]
  <2>1. n \in Conns \cup {0}
    OBVIOUS
  <2>2. /\ Written(wire, "core", n, <<Hello>>) \in Wires
        /\ Grew(wire, Written(wire, "core", n, <<Hello>>), Peer("core"), n, <<Hello>>)
    BY <1>1, <1>3, <2>1, WrittenOn
  <2> QED BY <1>1, <1>2, <2>2 DEF Grew
<1>5. wire'["worker"][n] = wire["worker"][n] \o <<Hello>>
  BY <1>1, <1>2, <1>3 DEF Written, Wires
<1>6. StreamTypes'
  BY <1>1, <1>2, <1>4 DEF StreamTypes
<1>7. \A m \in Conns : Ready(m) => Ready(m)'
  BY <1>1, <1>2 DEF Ready, StreamTypes
<1>8. ASSUME NEW m \in Conns PROVE Turn(m)'
  <2>1. Turn(m)
    BY DEF Orderly
  <2>2. CASE m # n
    <3>1. stage'[m] = stage[m] /\ wire'["worker"][m] = wire["worker"][m] /\ wire'["core"][m] = wire["core"][m]
      BY <1>1, <1>2, <1>4, <2>2 DEF StreamTypes
    <3> QED BY <1>1, <1>2, <2>1, <3>1, TurnStays DEF Orderly, Inv, TypeOK
  <2>3. CASE m = n
    <3>1. stage'[n] = "greeted" /\ n \in 1..opened
      BY <1>1, <1>2 DEF StreamTypes, Conns, Orderly, Inv, TypeOK
    <3>2. ASSUME n \notin late PROVE EndsAstray(wire["worker"][n], n) /\ wire["core"][n] = <<>> /\ n \notin served
      BY <1>2, <2>1, <2>3, <3>2 DEF Turn
    <3>3. wire'["core"][n] = wire["core"][n]
      BY <1>1, <1>4
    <3>4. ASSUME n \notin late
          PROVE  \/ wire'["worker"][n] # <<>> /\ Head(wire'["worker"][n]) = Hello /\ Tail(wire'["worker"][n]) = <<>>
                 \/ EndsAstray(wire["worker"][n], n)'
      <4>1. CASE wire["worker"][n] = <<>>
        <5>1. wire'["worker"][n] = <<Hello>>
          BY <1>5, <4>1
        <5> QED BY <5>1
      <4>2. CASE wire["worker"][n] # <<>>
        <5>1. PICK f \in Frames : f = Head(wire["worker"][n])
          BY <1>1, <4>2, FirstFrames
        <5>2. wire'["worker"][n] # <<>> /\ Head(wire'["worker"][n]) = f
          BY <1>1, <1>5, <4>2, <5>1, FirstFrames, FrameTypes, OneMore
        <5>3. Astray(f, n)'
          BY <3>2, <3>4, <4>2, <5>1, AstrayStays DEF EndsAstray
        <5> QED BY <5>2, <5>3 DEF EndsAstray, Astray
      <4> QED BY <4>1, <4>2
    <3> QED BY <1>2, <2>3, <3>1, <3>2, <3>3, <3>4 DEF Turn, EndsAstray, Hello, HelloAck, Frame
  <2> QED BY <2>2, <2>3
<1>9. CallsAreReady' /\ SocketIsReady'
  BY <1>1, <1>2, <1>7 DEF Orderly, CallsAreReady, SocketIsReady, StreamTypes
<1> QED BY <1>6, <1>8, <1>9 DEF Orderly

LEMMA HandshakeTimeoutOrder ==
    ASSUME Orderly, Inv', Lasting, HandshakeTimeout
    PROVE  Orderly'
<1>1. /\ socket # 0 /\ connecting' = FALSE /\ late' = late \cup {socket}
      /\ call' = Settled(Waiting, "timeout")
      /\ UNCHANGED <<socket, opened, stage, served, down, refused, wire, table, snd, rcv>>
  BY DEF HandshakeTimeout
<1>2. StreamTypes /\ Inv /\ \A c \in Calls : call'[c].conn = call[c].conn
  BY <1>1, SettledConns DEF Orderly
<1>3. StreamTypes'
  BY <1>1, <1>2 DEF StreamTypes
<1>4. SocketIsReady' /\ CallsAreReady'
  BY <1>1, <1>2 DEF Orderly, CallsAreReady, SocketIsReady, Ready
<1>5. \A n \in Conns : Continues(wire, wire', n)
  BY <1>1, <1>2, NothingWritten
<1> QED BY <1>1, <1>3, <1>4, <1>5, OrderKept

LEMMA FailOrder ==
    ASSUME Orderly, Inv', Lasting, NEW n \in Conns, Fail(n)
    PROVE  Orderly'
<1>1. /\ n \in down /\ n \in up["core"]
      /\ connecting' = FALSE
      /\ Cut("core", Calls)
      /\ call' = Settled(Waiting \cup {c \in pending : call[c].phase = "pending"}, "lost")
      /\ socket' = IF socket = n THEN 0 ELSE socket
      /\ wire' = [wire EXCEPT !["core"][n] = <<>>]
      /\ UNCHANGED <<opened, stage, served, down, refused, late>>
  BY DEF Fail
<1>2. StreamTypes /\ Inv /\ "core" \in Sides /\ "worker" \in Sides
  BY DEF Orderly, Sides
<1>3. socket' = 0
  BY <1>1, <1>2 DEF Inv, OneSocket, TypeOK
<1>4. \A c \in Calls : call'[c].conn = call[c].conn
  BY <1>1, <1>2, SettledConns
<1>5. /\ wire' \in Wires
      /\ wire'["core"][n] = <<>> /\ wire'["worker"] = wire["worker"]
      /\ \A m \in Conns : m # n => wire'["core"][m] = wire["core"][m]
  BY <1>1, <1>2 DEF StreamTypes, Wires
<1>6. StreamTypes'
  BY <1>1, <1>2, <1>3, <1>4, <1>5, CutTypes DEF StreamTypes
<1>7. \A m \in Conns : Loses(m)
  BY <1>5 DEF Loses
<1>8. CallsAreReady' /\ SocketIsReady'
  BY <1>1, <1>3, <1>4 DEF Orderly, CallsAreReady, SocketIsReady, Ready
<1> QED BY <1>1, <1>3, <1>6, <1>7, <1>8, OrderKept

LEMMA CloseOrder ==
    ASSUME Orderly, Inv', Lasting, Close
    PROVE  Orderly'
<1>1. /\ socket' = 0
      /\ down \subseteq down'
      /\ Cut("core", Calls)
      /\ call' = Settled({c \in pending : call[c].phase = "pending"}, "lost")
      /\ UNCHANGED <<opened, connecting, stage, served, refused, late, wire>>
  BY DEF Close
<1>2. StreamTypes /\ Inv /\ "core" \in Sides
  BY DEF Orderly, Sides
<1>3. \A c \in Calls : call'[c].conn = call[c].conn
  BY <1>1, <1>2, SettledConns
<1>4. StreamTypes'
  BY <1>1, <1>2, <1>3, CutTypes DEF StreamTypes
<1>5. \A n \in Conns : Continues(wire, wire', n)
  BY <1>1, <1>2, NothingWritten
<1>6. CallsAreReady' /\ SocketIsReady'
  BY <1>1, <1>3 DEF Orderly, CallsAreReady, SocketIsReady, Ready
<1> QED BY <1>1, <1>4, <1>5, <1>6, OrderKept

LEMMA BreaksOrder ==
    ASSUME Orderly, Inv', Lasting, NEW n \in Conns, Breaks(n)
    PROVE  Orderly'
<1>1. /\ down \subseteq down'
      /\ UNCHANGED <<call, socket, opened, connecting, stage, served, refused, late, wire, table, snd, rcv>>
  BY DEF Breaks
<1>2. StreamTypes /\ StreamTypes'
  BY <1>1 DEF Orderly, StreamTypes
<1> QED BY <1>1, <1>2, NothingWritten, OrderKeptAside

LEMMA WorkerNoticesOrder ==
    ASSUME Orderly, Inv', Lasting, NEW n \in Conns, WorkerNotices(n)
    PROVE  Orderly'
<1>1. /\ n \in down
      /\ wire' = [wire EXCEPT !["worker"][n] = <<>>]
      /\ Cut("worker", {c \in Calls : call[c].conn = n})
      /\ UNCHANGED <<call, socket, opened, connecting, stage, served, down, refused, late>>
  BY DEF WorkerNotices
<1>2. StreamTypes /\ "core" \in Sides /\ "worker" \in Sides
  BY DEF Orderly, Sides
<1>3. /\ wire' \in Wires
      /\ wire'["worker"][n] = <<>> /\ wire'["core"] = wire["core"]
      /\ \A m \in Conns : m # n => wire'["worker"][m] = wire["worker"][m]
  BY <1>1, <1>2 DEF StreamTypes, Wires
<1>4. StreamTypes'
  BY <1>1, <1>2, <1>3, CutTypes DEF StreamTypes
<1>5. \A m \in Conns : Loses(m)
  BY <1>1, <1>3 DEF Loses
<1> QED BY <1>1, <1>4, <1>5, OrderKeptAside

LEMMA WorkerDiesOrder ==
    ASSUME Orderly, Inv', Lasting, WorkerDies
    PROVE  Orderly'
<1>1. /\ down' = 1..opened
      /\ wire' = [wire EXCEPT !["worker"] = [n \in Conns |-> <<>>]]
      /\ UNCHANGED <<call, socket, opened, connecting, stage, served, refused, late>>
  BY DEF WorkerDies
<1>2. StreamTypes /\ "core" \in Sides /\ "worker" \in Sides
  BY DEF Orderly, Sides
<1>3. /\ wire' \in Wires
      /\ wire'["core"] = wire["core"]
      /\ \A n \in Conns : wire'["worker"][n] = <<>>
  BY <1>1, <1>2 DEF StreamTypes, Wires
<1>4. snd' \in [Calls -> Senders] /\ rcv' \in [Calls -> Receivers] /\ table' \in [Sides -> SUBSET Calls]
  <2>1. ASSUME NEW c \in Calls PROVE snd'[c] \in Senders
    BY <1>2 DEF WorkerDies, StreamTypes, Senders
  <2>2. ASSUME NEW c \in Calls PROVE rcv'[c] \in Receivers
    BY <1>2 DEF WorkerDies, StreamTypes, Receivers
  <2>3. table' \in [Sides -> SUBSET Calls]
    BY <1>2 DEF WorkerDies, StreamTypes
  <2>4. snd' = [c \in Calls |-> snd'[c]] /\ rcv' = [c \in Calls |-> rcv'[c]]
    BY DEF WorkerDies
  <2> QED BY <2>1, <2>2, <2>3, <2>4
<1>5. StreamTypes'
  BY <1>1, <1>2, <1>3, <1>4 DEF StreamTypes
<1>6. ASSUME NEW n \in Conns PROVE Turn(n)'
  <2>1. Turn(n)
    BY DEF Orderly
  <2>2. wire'["worker"][n] = <<>> /\ wire'["core"][n] = wire["core"][n]
    BY <1>3
  <2>3. stage[n] \in {"opening", "greeted", "ready"}
    BY <1>2 DEF StreamTypes
  <2> QED BY <1>1, <2>1, <2>2, <2>3 DEF Turn, EndsAstray, Hello, HelloAck, ReadyFrame, Frame
<1>7. CallsAreReady' /\ SocketIsReady'
  BY <1>1 DEF Orderly, CallsAreReady, SocketIsReady, Ready
<1> QED BY <1>5, <1>6, <1>7 DEF Orderly

LEMMA ReadOn ==
    ASSUME StreamTypes, NEW s \in Sides, NEW n \in Conns, wire[s][n] # <<>>
    PROVE  /\ Read(s, n) \in Wires
           /\ Read(s, n)[s][n] = Tail(wire[s][n])
           /\ \A t \in Sides, m \in Conns : t # s \/ m # n => Read(s, n)[t][m] = wire[t][m]
<1>1. Tail(wire[s][n]) \in Seq(Frames)
  BY DEF StreamTypes, Wires
<1> QED BY <1>1 DEF StreamTypes, Wires, Read

LEMMA WorkerReadsOrder ==
    ASSUME Orderly, Inv', Lasting, NEW n \in Conns, WorkerReads(n)
    PROVE  Orderly'
<1> DEFINE f == Head(wire["worker"][n])
<1>1. StreamTypes /\ Inv /\ Turn(n) /\ "core" \in Sides /\ "worker" \in Sides
  BY DEF Orderly, Sides
<1>2. n \in up["worker"] /\ wire["worker"][n] # <<>>
  BY DEF WorkerReads
<1>3. wire["worker"][n] \in Seq(Frames) /\ stage[n] \in {"opening", "greeted", "ready"}
  BY <1>1 DEF StreamTypes, Wires
<1>4. f \in Frames
  BY <1>2, <1>3
<1>5. /\ Read("worker", n) \in Wires
      /\ Read("worker", n)["worker"][n] = Tail(wire["worker"][n])
      /\ \A t \in Sides, m \in Conns : t # "worker" \/ m # n => Read("worker", n)[t][m] = wire[t][m]
  BY <1>1, <1>2, ReadOn
<1>6. Hello.type = "hello" /\ ReadyFrame.type = "ready" /\ Head(<<Hello>>) = Hello /\ Tail(<<Hello>>) = <<>>
  BY DEF Hello, ReadyFrame, Frame
<1> HIDE DEF f
<1>7. n \notin late /\ n \notin served =>
        \/ stage[n] = "greeted" /\ f = Hello /\ EndsAstray(Tail(wire["worker"][n]), n) /\ wire["core"][n] = <<>>
        \/ stage[n] = "ready" /\ f = ReadyFrame
        \/ Astray(f, n) /\ f.type = "streamAck"
  BY <1>1, <1>2, <1>3, <1>6 DEF Turn, EndsAstray, Astray, f
<1>8. ASSUME UNCHANGED <<call, socket, connecting, stage, late>>
      PROVE  SocketIsReady' /\ CallsAreReady'
  BY <1>8 DEF Orderly, SocketIsReady, CallsAreReady, Ready
<1>9. CASE /\ n \notin served
           /\ f.type = "hello"
           /\ wire' = Written(Read("worker", n), "worker", n, <<HelloAck>>)
           /\ UNCHANGED <<call, pending, netVars, handler, table, snd, rcv>>
  <2>1. <<HelloAck>> \in Seq(Frames) /\ Peer("worker") = "core"
    BY FrameTypes DEF Peer
  <2>2. /\ wire' \in Wires
        /\ \A t \in Sides, m \in Conns :
              /\ t # "core" \/ m # n => wire'[t][m] = Read("worker", n)[t][m]
              /\ wire'[t][m] \in {Read("worker", n)[t][m], Read("worker", n)[t][m] \o <<HelloAck>>}
    <3> DEFINE read == Read("worker", n)
    <3>1. n \in Conns \cup {0} /\ read \in Wires /\ wire' = Written(read, "worker", n, <<HelloAck>>)
      BY <1>5, <1>9
    <3> HIDE DEF read
    <3>2. /\ Written(read, "worker", n, <<HelloAck>>) \in Wires
          /\ Grew(read, Written(read, "worker", n, <<HelloAck>>), Peer("worker"), n, <<HelloAck>>)
      BY <1>1, <2>1, <3>1, WrittenOn
    <3>3. QED
      BY <2>1, <3>1, <3>2 DEF read, Grew
  <2>3. StreamTypes'
    BY <1>1, <1>9, <2>2 DEF StreamTypes, netVars
  <2>4. Elsewhere(n)
    BY <1>1, <1>5, <1>9, <2>2 DEF Elsewhere, netVars
  <2>5. n \notin late => /\ stage[n] = "greeted"
                         /\ EndsAstray(wire["worker"][n], n)'
                         /\ wire'["core"][n] \in {<<>>, <<HelloAck>>}
    <3> SUFFICES ASSUME n \notin late
                 PROVE  /\ stage[n] = "greeted"
                        /\ EndsAstray(wire["worker"][n], n)'
                        /\ wire'["core"][n] \in {<<>>, <<HelloAck>>}
      OBVIOUS
    <3>1. stage[n] = "greeted" /\ EndsAstray(Tail(wire["worker"][n]), n) /\ wire["core"][n] = <<>>
      BY <1>6, <1>7, <1>9
    <3>2. wire'["worker"][n] = Tail(wire["worker"][n])
      BY <1>1, <1>5, <2>2
    <3>3. Read("worker", n)["core"][n] = <<>> /\ <<>> \o <<HelloAck>> = <<HelloAck>>
      BY <1>1, <1>5, <3>1
    <3>4. EndsAstray(wire["worker"][n], n)'
      <4>1. CASE Tail(wire["worker"][n]) = <<>>
        BY <3>2, <4>1 DEF EndsAstray
      <4>2. CASE Tail(wire["worker"][n]) # <<>>
        <5>1. PICK g \in Frames : g = Head(Tail(wire["worker"][n]))
          BY <1>1, <1>2, <4>2, FirstFrames
        <5>2. Astray(g, n)'
          BY <3>1, <4>2, <5>1, AstrayStays DEF EndsAstray
        <5> QED BY <3>2, <4>2, <5>1, <5>2 DEF EndsAstray, Astray
      <4> QED BY <4>1, <4>2
    <3> QED BY <1>1, <2>2, <3>1, <3>3, <3>4
  <2>6. Turn(n)'
    BY <1>1, <1>9, <2>5 DEF Turn, netVars, Hello, HelloAck, Frame
  <2> QED BY <1>8, <1>9, <2>3, <2>4, <2>6, OrderKeptElsewhere DEF netVars, Orderly
<1>10. CASE /\ n \notin served
            /\ f.type = "ready"
            /\ served' = served \cup {n}
            /\ wire' = Read("worker", n)
            /\ UNCHANGED <<call, pending, socket, opened, connecting, stage, up, down, closed, refused, late, alive,
                           handler, table, snd, rcv>>
  <2>1. StreamTypes'
    BY <1>1, <1>5, <1>10 DEF StreamTypes
  <2>2. Elsewhere(n)
    BY <1>1, <1>5, <1>10 DEF Elsewhere
  <2>3. n \notin late => stage[n] = "ready"
    BY <1>6, <1>7, <1>10
  <2>4. Turn(n)'
    BY <1>1, <1>10, <2>3 DEF Turn
  <2> QED BY <1>8, <1>10, <2>1, <2>2, <2>4, OrderKeptElsewhere DEF Orderly
<1>11. CASE /\ n \notin served
            /\ f.type \notin {"hello", "ready"}
            /\ refused' = refused \cup {n}
            /\ down' = down \cup {n}
            /\ wire' = [wire EXCEPT !["worker"][n] = <<>>]
            /\ UNCHANGED <<call, pending, socket, opened, connecting, stage, served, closed, late, alive,
                           handler, table, snd, rcv>>
  <2>2. /\ wire' \in Wires
        /\ \A t \in Sides, m \in Conns : m # n => wire'[t][m] = wire[t][m]
        /\ wire'["worker"][n] = <<>> /\ wire'["core"][n] = wire["core"][n]
    BY <1>1, <1>11 DEF StreamTypes, Wires
  <2>3. StreamTypes'
    BY <1>1, <1>11, <2>2 DEF StreamTypes
  <2>4. Elsewhere(n)
    BY <1>1, <1>11, <2>2 DEF Elsewhere
  <2>5. Turn(n)'
    <3>1. n \notin late /\ stage[n] = "greeted" => wire["core"][n] \in {<<>>, <<HelloAck>>}
      BY <1>1 DEF Turn
    <3> QED BY <1>1, <1>11, <2>2, <3>1 DEF Turn, EndsAstray
  <2> QED BY <1>8, <1>11, <2>3, <2>4, <2>5, OrderKeptElsewhere
<1>12. n \in served => Ready(n)
  BY <1>1 DEF Turn, Ready
<1>13. CASE /\ n \in served
            /\ f.type = "execute"
            /\ Attach(f.call)
            /\ wire' = Read("worker", n)
            /\ UNCHANGED <<call, pending, netVars>>
  <2>1. f.call \in Calls
    BY <1>4, <1>13 DEF Frames, HandshakeFrames, CallFrames
  <2>2. snd' \in [Calls -> Senders] /\ rcv' \in [Calls -> Receivers] /\ table' \in [Sides -> SUBSET Calls]
    <3> DEFINE sender == [snd[f.call] EXCEPT !.feed = "busy"]
               receiver == [rcv[f.call] EXCEPT !.reader = "busy"]
    <3>1. snd[f.call] \in Senders /\ rcv[f.call] \in Receivers
      BY <1>1, <2>1 DEF StreamTypes
    <3>2. sender \in Senders /\ receiver \in Receivers
      <4>1. sender \in Senders
        BY <3>1 DEF Senders
      <4>2. receiver \in Receivers
        BY <3>1 DEF Receivers
      <4> QED BY <4>1, <4>2
    <3>3. /\ snd' = [snd EXCEPT ![f.call] = sender] \/ snd' = snd
          /\ rcv' = [rcv EXCEPT ![f.call] = receiver] \/ rcv' = rcv
          /\ table' = [table EXCEPT !["worker"] = @ \cup {f.call}] \/ table' = table
      BY <1>13 DEF Attach
    <3> HIDE DEF sender, receiver
    <3>4. snd' \in [Calls -> Senders]
      BY <1>1, <2>1, <3>2, <3>3 DEF StreamTypes
    <3>5. rcv' \in [Calls -> Receivers]
      BY <1>1, <2>1, <3>2, <3>3 DEF StreamTypes
    <3>6. table' \in [Sides -> SUBSET Calls]
      BY <1>1, <2>1, <3>3 DEF StreamTypes
    <3> QED BY <3>4, <3>5, <3>6
  <2>3. wire' \in Wires /\ \A m \in Conns : Continues(wire, wire', m)
    BY <1>1, <1>2, <1>12, <1>13, ReadContinues
  <2>4. StreamTypes'
    BY <1>1, <1>13, <2>2, <2>3 DEF StreamTypes, netVars
  <2> QED BY <1>13, <2>3, <2>4, OrderKeptAside DEF netVars
<1>14. CASE /\ n \in served
            /\ IsStreamFrame(f)
            /\ HandleStream("worker", n, f)
            /\ UNCHANGED <<netVars, handler>>
  <2>1. /\ wire' \in Wires
        /\ \A m \in Conns : Continues(wire, wire', m)
        /\ snd' \in [Calls -> Senders]
        /\ rcv' \in [Calls -> Receivers]
        /\ table' \in [Sides -> SUBSET Calls]
        /\ \A c \in Calls : call'[c].conn = call[c].conn
    BY <1>1, <1>2, <1>12, <1>14, StreamFrameOrder DEF f
  <2>2. StreamTypes'
    BY <1>1, <1>14, <2>1 DEF StreamTypes, netVars
  <2> QED BY <1>14, <2>1, <2>2, OrderKeptAside DEF netVars
<1> QED BY <1>9, <1>10, <1>11, <1>13, <1>14 DEF WorkerReads, f, HelloAck

\* Every request that waits is written once.
LEMMA EachOnce ==
    ASSUME NEW cs \in SUBSET Calls, NEW order, order = SetToSeq(cs)
    PROVE  /\ order \in Seq(Calls) /\ \A i, j \in DOMAIN order : order[i] = order[j] => i = j
           /\ \A i \in DOMAIN order : order[i] \in cs
           /\ \A c \in cs : \E i \in DOMAIN order : order[i] = c
<1>1. IsFiniteSet(cs)
  BY CallsAssumption, FS_Subset
<1>2. PICK n \in Nat : n = Cardinality(cs) /\ ExistsBijection(1..n, cs)
  BY <1>1, FS_CardinalityType
<1>3. PICK D : D = 1..n
  OBVIOUS
<1>4. \E g \in [D -> cs] : IsInjective(g)
  BY <1>2, <1>3 DEF ExistsBijection, Bijection, Injection, IsInjective
<1>5. order \in [D -> cs] /\ IsInjective(order)
  <2>1. order = CHOOSE g \in [D -> cs] : IsInjective(g)
    BY <1>2, <1>3 DEF SetToSeq
  <2> QED BY <1>4, <2>1
<1>6. IsFiniteSet(D) /\ Cardinality(D) = Cardinality(cs)
  BY <1>2, <1>3, FS_Interval
<1>7. order \in Injection(D, cs)
  BY <1>5 DEF Injection
<1>8. order \in Surjection(D, cs)
  BY <1>1, <1>6, <1>7, FS_Injection
<1>9. \A c \in cs : \E i \in D : order[i] = c
  BY <1>8 DEF Surjection
<1> QED BY <1>2, <1>3, <1>5, <1>9 DEF IsInjective

\* helloAck: "ready" leaves before the requests that waited for it.
LEMMA HandshakeEndsOrder ==
    ASSUME Orderly, Inv', Lasting, NEW n \in Conns, n = socket, n \in up["core"], wire["core"][n] # <<>>,
           Head(wire["core"][n]).type = "helloAck", HandshakeEnds(n)
    PROVE  Orderly'
<1> DEFINE order == SetToSeq(Waiting)
           requests == [i \in DOMAIN order |-> Frame("execute", order[i], 0)]
           read == Read("core", n)
           greeted == Written(read, "core", n, <<ReadyFrame>>)
<1>1. StreamTypes /\ Inv /\ Turn(n) /\ "core" \in Sides /\ "worker" \in Sides /\ Peer("core") = "worker" /\ n # 0
  BY DEF Orderly, Sides, Peer, Conns
<1>2. /\ stage' = [stage EXCEPT ![n] = "ready"]
      /\ connecting' = FALSE
      /\ StartAll(Waiting, order, call, greeted)
      /\ UNCHANGED <<socket, opened, served, down, refused, late, rcv>>
  BY DEF HandshakeEnds, ReadyFrame
<1>3. Waiting \in SUBSET Calls /\ order \in Seq(Calls)
  BY EachOnce DEF Waiting
<1>4. call \in [Calls -> CallRecords]
  BY <1>1 DEF Inv, TypeOK
<1> HIDE DEF order
<1>5. /\ snd' \in [Calls -> Senders]
      /\ table' \in [Sides -> SUBSET Calls]
      /\ requests \in Seq(Frames)
      /\ \A c \in Calls : call'[c].conn = IF c \in Waiting THEN socket ELSE call[c].conn
  <2>1. \A c \in Calls : call[c].conn = call[c].conn
    OBVIOUS
  <2> HIDE DEF greeted
  <2> QED BY <1>1, <1>2, <1>3, <1>4, <2>1, StartTypes
<1>6. wire' = Written(greeted, "core", n, requests)
  BY <1>2 DEF StartAll
<1> HIDE DEF requests
<1>7. /\ read \in Wires
      /\ \A t \in Sides, m \in Conns : t # "core" \/ m # n => read[t][m] = wire[t][m]
  BY <1>1, ReadOn
<1> HIDE DEF read
<1>8. <<ReadyFrame>> \in Seq(Frames)
  BY FrameTypes
<1>9. /\ greeted \in Wires
      /\ \A t \in Sides, m \in Conns :
            /\ t # "worker" \/ m # n \/ m \in down => greeted[t][m] = read[t][m]
            /\ read[t][m] # <<>> => greeted[t][m] # <<>> /\ Head(greeted[t][m]) = Head(read[t][m])
  <2>1. n \in Conns \cup {0} /\ Peer("core") = "worker"
    BY <1>1
  <2>2. /\ Written(read, "core", n, <<ReadyFrame>>) \in Wires
        /\ Grew(read, Written(read, "core", n, <<ReadyFrame>>), Peer("core"), n, <<ReadyFrame>>)
    BY <1>1, <1>7, <1>8, <2>1, WrittenOn
  <2>3. QED
    BY <2>1, <2>2 DEF Grew
<1>10. n \notin down => greeted["worker"][n] = read["worker"][n] \o <<ReadyFrame>>
  BY <1>1, <1>7 DEF Written, Wires
<1> HIDE DEF greeted
<1>11. /\ wire' \in Wires
       /\ \A t \in Sides, m \in Conns :
            /\ t # "worker" \/ m # n \/ m \in down => wire'[t][m] = greeted[t][m]
            /\ greeted[t][m] # <<>> => wire'[t][m] # <<>> /\ Head(wire'[t][m]) = Head(greeted[t][m])
  <2>1. n \in Conns \cup {0} /\ Peer("core") = "worker" /\ greeted \in Wires /\ requests \in Seq(Frames)
    BY <1>1, <1>5, <1>9
  <2>2. /\ Written(greeted, "core", n, requests) \in Wires
        /\ Grew(greeted, Written(greeted, "core", n, requests), Peer("core"), n, requests)
    BY <1>1, <2>1, WrittenOn
  <2> QED BY <1>6, <2>1, <2>2 DEF Grew
<1>12. StreamTypes'
  BY <1>1, <1>2, <1>5, <1>11 DEF StreamTypes
<1>13. Elsewhere(n)
  BY <1>1, <1>2, <1>7, <1>9, <1>11 DEF Elsewhere, StreamTypes
<1>14. stage'[n] = "ready"
  BY <1>1, <1>2 DEF StreamTypes
<1>15. ASSUME n \notin late PROVE stage[n] \in {"greeted", "ready"} /\ n \in 1..opened
  BY <1>1, <1>15 DEF Turn, StreamTypes
<1>16. ASSUME n \notin late, n \notin served
       PROVE  IF wire'["worker"][n] = <<>> THEN n \in down
              ELSE Head(wire'["worker"][n]) = ReadyFrame \/ Astray(Head(wire["worker"][n]), n)'
  <2>1. CASE wire["worker"][n] = <<>>
    <3>1. CASE n \in down
      BY <1>1, <1>7, <1>9, <1>11, <2>1, <3>1
    <3>2. CASE n \notin down
      <4>1. greeted["worker"][n] = <<ReadyFrame>>
        BY <1>1, <1>7, <1>10, <2>1, <3>2
      <4>2. greeted["worker"][n] # <<>> /\ Head(greeted["worker"][n]) = ReadyFrame
        BY <4>1
      <4> QED BY <1>1, <1>11, <4>2
    <3> QED BY <3>1, <3>2
  <2>2. CASE wire["worker"][n] # <<>>
    <3>1. PICK f \in Frames : f = Head(wire["worker"][n])
      BY <1>1, <2>2, FirstFrames
    <3>2. f = ReadyFrame \/ Astray(f, n)
      BY <1>1, <1>15, <1>16, <2>2, <3>1 DEF Turn, EndsAstray
    <3>3. f = ReadyFrame \/ Astray(f, n)'
      BY <3>2, AstrayStays
    <3>4. wire'["worker"][n] # <<>> /\ Head(wire'["worker"][n]) = f
      BY <1>1, <1>7, <1>9, <1>11, <2>2, <3>1
    <3> QED BY <3>3, <3>4 DEF Astray
  <2> QED BY <2>1, <2>2
<1>17. Turn(n)'
  BY <1>2, <1>14, <1>15, <1>16 DEF Turn, ReadyFrame, Frame
<1>18. \A m \in Conns : Ready(m) => Ready(m)'
  BY <1>1, <1>2 DEF Ready, StreamTypes
<1>19. SocketIsReady' /\ CallsAreReady'
  <2>1. Ready(socket)' /\ socket' = socket
    BY <1>2, <1>14 DEF Ready
  <2>2. ASSUME NEW c \in Calls, call'[c].conn # 0 PROVE Ready(call[c].conn)'
    <3>1. CASE c \in Waiting
      BY <1>5, <2>1, <3>1 DEF Ready
    <3>2. CASE c \notin Waiting
      <4>1. call'[c].conn = call[c].conn /\ call[c].conn \in Conns /\ Ready(call[c].conn)
        BY <1>1, <1>5, <2>2, <3>2 DEF StreamTypes, Orderly, CallsAreReady
      <4> QED BY <1>18, <4>1 DEF Ready
    <3> QED BY <3>1, <3>2
  <2> QED BY <2>1, <2>2 DEF Ready, CallsAreReady, SocketIsReady
<1> QED BY <1>2, <1>12, <1>13, <1>17, <1>19, OrderKeptElsewhere DEF Orderly

LEMMA CoreReadsOrder ==
    ASSUME Orderly, Inv', Lasting, NEW n \in Conns, CoreReads(n)
    PROVE  Orderly'
<1> DEFINE f == Head(wire["core"][n])
<1>1. StreamTypes /\ Inv /\ Turn(n) /\ "core" \in Sides
  BY DEF Orderly, Sides
<1>2. n \in up["core"] /\ n = socket /\ wire["core"][n] # <<>>
  BY <1>1 DEF CoreReads, Inv, TypeOK, OneSocket, Sides
<1>3. wire["core"][n] \in Seq(Frames) /\ stage[n] \in {"opening", "greeted", "ready"}
  BY <1>1 DEF StreamTypes, Wires
<1>4. f \in Frames
  BY <1>2, <1>3
<1>5. HelloAck.type = "helloAck" /\ Head(<<HelloAck>>) = HelloAck
  BY DEF HelloAck, Frame
<1>6. f.type # "helloAck" => Ready(n)
  BY <1>1, <1>2, <1>3, <1>5 DEF Turn, Ready
<1>7. f.type # "helloAck" => Read("core", n) \in Wires /\ \A m \in Conns : Continues(wire, Read("core", n), m)
  BY <1>1, <1>2, <1>6, ReadContinues
<1>8. CASE f.type = "helloAck" /\ HandshakeEnds(n)
  BY <1>2, <1>8, HandshakeEndsOrder
<1>9. CASE f.type = "reply" /\ Reply(n, f.call, f.n = 1)
  <2> DEFINE c == f.call
  <2>1. c \in Calls
    BY <1>4, <1>9 DEF Frames, HandshakeFrames, CallFrames
  <2>2. /\ \/ wire' = Written(Read("core", n), "core", n, AbortFrames("core", c))
           \/ wire' = Read("core", n)
        /\ call' = Settled({c}, IF f.n = 1 THEN "ok" ELSE "failed")
        /\ table' = [table EXCEPT !["core"] = @ \ {c}]
        /\ snd' = IF call[c].kind = "upload" THEN [snd EXCEPT ![c].failed = TRUE] ELSE snd
        /\ rcv' = IF call[c].kind = "download" THEN [rcv EXCEPT ![c].failed = @ \/ ~rcv[c].ended] ELSE rcv
        /\ UNCHANGED netVars
    BY <1>9 DEF Reply
  <2>3. \A d \in Calls : call'[d].conn = call[d].conn
    BY <1>1, <2>2, SettledConns
  <2> HIDE DEF c
  <2>4. wire' \in Wires /\ \A m \in Conns : Continues(wire, wire', m)
    <3>1. CASE wire' = Written(Read("core", n), "core", n, AbortFrames("core", c))
      <4>1. wire' \in Wires /\ \A m \in Conns : Continues(Read("core", n), wire', m)
        BY <1>1, <1>6, <1>7, <1>9, <2>1, <3>1, AbortFrameTypes, WrittenOn, WrittenContinues
      <4> QED BY <1>7, <1>9, <4>1, ContinuesOn
    <3>2. CASE wire' = Read("core", n)
      BY <1>7, <1>9, <3>2
    <3> QED BY <2>2, <3>1, <3>2
  <2>5. rcv[c] \in Receivers /\ (rcv[c].failed \/ ~rcv[c].ended) \in BOOLEAN
    BY <1>1, <2>1 DEF StreamTypes, Receivers
  <2>6. [rcv[c] EXCEPT !.failed = @ \/ ~rcv[c].ended] \in Receivers
    BY <2>5 DEF Receivers
  <2>7. snd' \in [Calls -> Senders] /\ rcv' \in [Calls -> Receivers] /\ table' \in [Sides -> SUBSET Calls]
    BY <1>1, <2>1, <2>2, <2>6 DEF StreamTypes, Senders
  <2>8. StreamTypes'
    BY <1>1, <2>2, <2>3, <2>4, <2>7 DEF StreamTypes, netVars
  <2> QED BY <2>2, <2>3, <2>4, <2>8, OrderKeptAside DEF netVars
<1>10. CASE /\ f.type = "reply"
            /\ wire' = Read("core", n)
            /\ UNCHANGED <<call, pending, netVars, handler, table, snd, rcv>>
  <2>1. StreamTypes' /\ \A m \in Conns : Continues(wire, wire', m)
    BY <1>1, <1>7, <1>10 DEF StreamTypes, netVars
  <2> QED BY <1>10, <2>1, OrderKeptAside DEF netVars
<1>11. CASE /\ IsStreamFrame(f)
            /\ HandleStream("core", n, f)
            /\ UNCHANGED <<netVars, handler>>
  <2>1. Ready(n)
    BY <1>6, <1>11 DEF IsStreamFrame
  <2>2. /\ wire' \in Wires
        /\ \A m \in Conns : Continues(wire, wire', m)
        /\ snd' \in [Calls -> Senders]
        /\ rcv' \in [Calls -> Receivers]
        /\ table' \in [Sides -> SUBSET Calls]
        /\ \A c \in Calls : call'[c].conn = call[c].conn
    BY <1>1, <1>2, <1>11, <2>1, StreamFrameOrder
  <2>3. StreamTypes'
    BY <1>1, <1>11, <2>2 DEF StreamTypes, netVars
  <2> QED BY <1>11, <2>2, <2>3, OrderKeptAside DEF netVars
<1> QED BY <1>8, <1>9, <1>10, <1>11 DEF CoreReads

LEMMA OrderInductive == Orderly /\ LateWhenWhole /\ Lasting /\ [Next]_vars => Orderly'
<1> SUFFICES ASSUME Orderly, LateWhenWhole, Lasting, [Next]_vars PROVE Orderly'
  OBVIOUS
<1>a. Inv'
  BY Inductive DEF Orderly
<1>1. CASE UNCHANGED vars
  <2>1. StreamTypes'
    BY <1>1 DEF Orderly, StreamTypes, vars, netVars
  <2>2. \A n \in Conns : Continues(wire, wire', n)
    BY <1>1, NothingWritten DEF Orderly, vars
  <2> QED BY <1>a, <1>1, <2>1, <2>2, OrderKeptAside DEF vars, netVars
<1>2. ASSUME NEW c \in Calls, NEW k \in KindsOf[c], Begin(c, k) PROVE Orderly'
  BY <1>a, <1>2, BeginOrder
<1>3. ASSUME NEW c \in Calls, BeginTooLarge(c) PROVE Orderly'
  BY <1>a, <1>3, BeginTooLargeOrder
<1>4. ASSUME NEW c \in Calls, Deadline(c) PROVE Orderly'
  BY <1>a, <1>4, DeadlineOrder
<1>5. ASSUME NEW c \in Calls, Send(c) \/ SourceEnds(c) PROVE Orderly'
  BY <1>a, <1>5, SenderActionsOrder
<1>6. ASSUME NEW c \in Calls, SourceFails(c) PROVE Orderly'
  BY <1>a, <1>6, SourceFailsOrder
<1>7. ASSUME NEW c \in Calls, Take(c) \/ ReadsToEnd(c) \/ ReadFails(c) \/ HandlerStops(c) PROVE Orderly'
  BY <1>a, <1>7, ReaderActionsOrder
<1>8. ASSUME NEW c \in Calls, ReaderCancels(c) PROVE Orderly'
  BY <1>a, <1>8, ReaderCancelsOrder
<1>9. ASSUME NEW c \in Calls, NEW ok \in BOOLEAN, HandlerReturns(c, ok) PROVE Orderly'
  BY <1>a, <1>9, HandlerReturnsOrder
<1>10. ASSUME NEW n \in Conns, Connected(n) PROVE Orderly'
  BY <1>a, <1>10, ConnectedOrder
<1>11. ASSUME NEW n \in Conns, Fail(n) PROVE Orderly'
  BY <1>a, <1>11, FailOrder
<1>12. ASSUME NEW n \in Conns, WorkerReads(n) PROVE Orderly'
  BY <1>a, <1>12, WorkerReadsOrder
<1>13. ASSUME NEW n \in Conns, WorkerNotices(n) PROVE Orderly'
  BY <1>a, <1>13, WorkerNoticesOrder
<1>14. ASSUME NEW n \in Conns, CoreReads(n) PROVE Orderly'
  BY <1>a, <1>14, CoreReadsOrder
<1>15. ASSUME NEW n \in Conns, Breaks(n) PROVE Orderly'
  BY <1>a, <1>15, BreaksOrder
<1>16. CASE HandshakeTimeout
  BY <1>a, <1>16, HandshakeTimeoutOrder
<1>17. CASE Close
  BY <1>a, <1>17, CloseOrder
<1>18. CASE WorkerDies
  BY <1>a, <1>18, WorkerDiesOrder
<1> QED BY <1>1, <1>2, <1>3, <1>4, <1>5, <1>6, <1>7, <1>8, <1>9, <1>10, <1>11, <1>12, <1>13, <1>14, <1>15,
           <1>16, <1>17, <1>18 DEF Next

-----------------------------------------------------------------------------
(* Streams.  A frame is sent, is under way, and is had by the receiver.  A *)
(* flow says that what is under way is what was sent and not had, each     *)
(* frame once and after those that must come before it.                    *)

ToReceiver == {"streamOpen", "streamData", "streamEnd"}
Ask(c) == Frame("execute", c, 0)
Opening(c) == Frame("streamOpen", c, 0)

\* The frames that ask for c, and those that the receiver of its stream must have in order.
Requests(c) == {Ask(c)}
Stream(c) ==
    {f \in CallFrames : f.call = c /\ (f.type \in ToReceiver \/ (f.type = "execute" /\ call[c].kind = "upload"))}

\* The frames that leave before f, if they leave on the same wire.
Before(f) ==
    {g \in CallFrames :
        /\ g.call = f.call
        /\ f.type # "execute"
        /\ \/ g = Ask(f.call)
           \/ f.type # "streamOpen" /\ g = Opening(f.call)
           \/ f.type # "streamOpen" /\ g.type = "streamData" /\ g.n < f.n}

\* What was sent of the stream of c, and what the receiver has had.
Sent(c) ==
    {f \in Stream(c) :
        \/ f = Ask(c) /\ snd[c].feed # "off"
        \/ f = Opening(c) /\ (snd[c].opened \/ snd[c].feed = "ended")
        \/ f.type = "streamData" /\ f.n < snd[c].seq
        \/ f = Frame("streamEnd", c, snd[c].seq) /\ snd[c].feed = "ended"}
Had(c) ==
    {f \in Stream(c) :
        \/ f = Ask(c) /\ handler[c] # "off"
        \/ f = Opening(c) /\ rcv[c].opened
        \/ f.type = "streamData" /\ f.n < rcv[c].next
        \/ f = Frame("streamEnd", c, rcv[c].next) /\ rcv[c].ended}

\* Of the frames own, those on w; if the connection was cut some may have been lost.
Flow(w, own, had, sent, cut) ==
    /\ had \subseteq sent /\ sent \subseteq own
    /\ \A i \in DOMAIN w : w[i] \in own =>
          /\ w[i] \in sent /\ w[i] \notin had
          /\ \A g \in Before(w[i]) \cap own : g \in had \/ \E j \in 1..(i - 1) : w[j] = g
    /\ \A i, j \in DOMAIN w : w[i] \in own /\ w[i] = w[j] => i = j
    /\ ~cut => \A f \in sent : f \in had \/ \E i \in DOMAIN w : w[i] = f

\* The receiver takes frames of c, or will when it has read the request.
Live(c) == c \in table[ReceiverSide(c)] \/ (call[c].kind = "upload" /\ handler[c] = "off")

Asked(c) == IF call[c].conn # 0 THEN Requests(c) ELSE {}
Served(c) == IF handler[c] # "off" THEN Requests(c) ELSE {}

Flows(c) ==
    call[c].conn # 0 =>
        /\ Flow(wire["worker"][call[c].conn], Requests(c), Served(c), Asked(c), TRUE)
        /\ Live(c) => Flow(wire[ReceiverSide(c)][call[c].conn], Stream(c), Had(c), Sent(c), call[c].conn \in down)

\* What the two ends of c have counted, and how far c is.
Kept(c) ==
    /\ call[c].phase \in {"idle", "connecting"} => call[c].conn = 0
    /\ call[c].conn = 0 => /\ handler[c] = "off" /\ snd[c] = FreshSender /\ rcv[c] = FreshReceiver
                           /\ \A s \in Sides : c \notin table[s]
    /\ c \in table["worker"] => handler[c] # "off"
    /\ call[c].kind = "download" /\ handler[c] = "off" => snd[c].feed = "off"
    /\ call[c].kind = "download" /\ handler[c] = "running" => snd[c].feed = "busy"
    /\ snd[c].seq - snd[c].acked <= Window
    /\ snd[c].acked <= rcv[c].taken
    /\ rcv[c].taken <= rcv[c].next
    /\ Live(c) => ~rcv[c].failed
    /\ rcv[c].ended => rcv[c].next = snd[c].seq /\ snd[c].feed = "ended" /\ ~rcv[c].failed
    /\ rcv[c].reader = "whole" => rcv[c].ended /\ rcv[c].taken = rcv[c].next

\* A frame is on the connection of its call, on the wire of its direction.
Placed(f, s, n) ==
    f \in CallFrames =>
        /\ f.type = "execute" => s = "worker" /\ n = call[f.call].conn /\ f.n = 0
        /\ f.type \in ToReceiver => s = ReceiverSide(f.call) /\ n = call[f.call].conn
        /\ f.type = "streamAck" => f.n < rcv[f.call].taken

\* Whoever may write on a connection writes, unless it is at an end.
EndsKnown ==
    /\ \A n \in 1..opened : n \in down \/ \A s \in Sides : n \in up[s]
    /\ \A s \in Sides : up[s] \subseteq 1..opened
    /\ socket \in 0..opened
    /\ \A c \in Calls : call[c].conn \in 0..opened

AllPlaced == \A s \in Sides, n \in Conns : \A i \in DOMAIN wire[s][n] : Placed(wire[s][n][i], s, n)

HandlersKnown == handler \in [Calls -> {"off", "running", "returned", "gone"}]

StreamInv ==
    /\ Orderly
    /\ HandlersKnown
    /\ EndsKnown
    /\ AllPlaced
    /\ \A c \in Calls : Kept(c) /\ Flows(c)

\* Frames t that belong on the end of w: those sent now, each after what must come before it.
Follows(t, own, sent, sent2) ==
    /\ \A i \in DOMAIN t : t[i] \in own =>
          /\ t[i] \in sent2 /\ t[i] \notin sent
          /\ \A g \in Before(t[i]) \cap own : g \in sent \/ \E j \in 1..(i - 1) : t[j] = g
    /\ \A i, j \in DOMAIN t : t[i] \in own /\ t[i] = t[j] => i = j
    /\ \A f \in sent2 : f \in sent \/ \E i \in DOMAIN t : t[i] = f

LEMMA Joined ==
    ASSUME NEW S, NEW w \in Seq(S), NEW t \in Seq(S)
    PROVE  /\ w \o t \in Seq(S)
           /\ \A i \in DOMAIN w : i \in DOMAIN (w \o t) /\ (w \o t)[i] = w[i]
           /\ \A i \in DOMAIN t : Len(w) + i \in DOMAIN (w \o t) /\ (w \o t)[Len(w) + i] = t[i]
           /\ \A i \in DOMAIN (w \o t) :
                 \/ i \in DOMAIN w /\ (w \o t)[i] = w[i]
                 \/ i > Len(w) /\ i - Len(w) \in DOMAIN t /\ (w \o t)[i] = t[i - Len(w)]
           /\ Len(w) \in Nat /\ DOMAIN w = 1..Len(w) /\ DOMAIN t = 1..Len(t)
           /\ w \o <<>> = w
OBVIOUS

LEMMA Shifted ==
    ASSUME NEW S, NEW w \in Seq(S), w # <<>>
    PROVE  /\ Tail(w) \in Seq(S) /\ Head(w) = w[1] /\ 1 \in DOMAIN w
           /\ \A i \in DOMAIN Tail(w) : i \in Nat /\ i >= 1 /\ i + 1 \in DOMAIN w /\ Tail(w)[i] = w[i + 1]
           /\ \A i \in DOMAIN w : i \in Nat /\ (i = 1 \/ (i > 1 /\ i - 1 \in DOMAIN Tail(w) /\ Tail(w)[i - 1] = w[i]))
OBVIOUS

\* The first frame is read.
LEMMA FlowRead ==
    ASSUME NEW w \in Seq(Frames), w # <<>>, NEW own, NEW had, NEW sent, NEW cut,
           Flow(w, own, had, sent, cut)
    PROVE  Flow(Tail(w), own, IF Head(w) \in own THEN had \cup {Head(w)} ELSE had, sent, cut)
<1> DEFINE v == Tail(w)
           had2 == IF Head(w) \in own THEN had \cup {Head(w)} ELSE had
<1>1. /\ Head(w) = w[1] /\ 1 \in DOMAIN w
      /\ \A i \in DOMAIN v : i \in Nat /\ i >= 1 /\ i + 1 \in DOMAIN w /\ v[i] = w[i + 1]
      /\ \A i \in DOMAIN w : i \in Nat /\ (i = 1 \/ (i > 1 /\ i - 1 \in DOMAIN v /\ v[i - 1] = w[i]))
  BY Shifted
<1> HIDE DEF v
<1>2. had \subseteq had2 /\ had2 \subseteq had \cup {w[1]} /\ (w[1] \in own => w[1] \in had2)
  BY <1>1
<1>3. had2 \subseteq sent /\ sent \subseteq own
  BY <1>1 DEF Flow
<1> HIDE DEF had2
<1>4. ASSUME NEW i \in DOMAIN v, v[i] \in own
      PROVE  /\ v[i] \in sent /\ v[i] \notin had2
             /\ \A g \in Before(v[i]) \cap own : g \in had2 \/ \E j \in 1..(i - 1) : v[j] = g
  <2>1. i \in Nat /\ i >= 1 /\ i + 1 \in DOMAIN w /\ v[i] = w[i + 1] /\ i + 1 # 1
    BY <1>1
  <2>2. w[i + 1] \in sent /\ w[i + 1] \notin had /\ w[i + 1] # w[1]
    BY <1>1, <1>4, <2>1 DEF Flow
  <2>3. ASSUME NEW g \in Before(v[i]) \cap own PROVE g \in had2 \/ \E j \in 1..(i - 1) : v[j] = g
    <3>1. g \in had \/ \E j \in 1..(i + 1 - 1) : w[j] = g
      BY <1>4, <2>1, <2>3 DEF Flow
    <3>2. ASSUME NEW j \in 1..i, w[j] = g PROVE g \in had2 \/ \E k \in 1..(i - 1) : v[k] = g
      <4>1. CASE j = 1
        BY <1>2, <2>3, <3>2, <4>1
      <4>2. CASE j # 1
        <5>1. j \in DOMAIN w
          BY <2>1, Shifted
        <5>2. v[j - 1] = w[j]
          BY <1>1, <4>2, <5>1
        <5>3. j - 1 \in 1..(i - 1)
          BY <2>1, <4>2
        <5> QED BY <3>2, <5>2, <5>3
      <4> QED BY <4>1, <4>2
    <3>3. i + 1 - 1 = i
      BY <2>1
    <3> QED BY <1>2, <3>1, <3>2, <3>3
  <2> QED BY <1>2, <2>1, <2>2, <2>3
<1>5. ASSUME NEW i \in DOMAIN v, NEW j \in DOMAIN v, v[i] \in own, v[i] = v[j] PROVE i = j
  <2>1. i + 1 = j + 1
    BY <1>1, <1>5 DEF Flow
  <2> QED BY <1>1, <2>1
<1>6. ASSUME ~cut, NEW f \in sent PROVE f \in had2 \/ \E i \in DOMAIN v : v[i] = f
  <2>1. f \in had \/ \E i \in DOMAIN w : w[i] = f
    BY <1>6 DEF Flow
  <2>2. ASSUME NEW i \in DOMAIN w, w[i] = f, i # 1 PROVE \E k \in DOMAIN v : v[k] = f
    BY <1>1, <2>2
  <2>3. w[1] = f => f \in had2
    BY <1>2, <1>3
  <2> QED BY <1>2, <2>1, <2>2, <2>3
<1> QED BY <1>3, <1>4, <1>5, <1>6 DEF Flow, v, had2

\* Frames are written behind it.
LEMMA FlowWritten ==
    ASSUME NEW w \in Seq(Frames), NEW t \in Seq(Frames), NEW own, NEW had, NEW sent, NEW sent2, NEW cut,
           Flow(w, own, had, sent, cut), sent \subseteq sent2, sent2 \subseteq own, Follows(t, own, sent, sent2),
           cut => \A i \in DOMAIN t : t[i] \in own => Before(t[i]) \cap own = {}
    PROVE  Flow(w \o t, own, had, sent2, cut)
<1> DEFINE v == w \o t
<1>1. /\ \A i \in DOMAIN w : i \in DOMAIN v /\ v[i] = w[i]
      /\ \A i \in DOMAIN t : Len(w) + i \in DOMAIN v /\ v[Len(w) + i] = t[i]
      /\ \A i \in DOMAIN v :
            \/ i \in DOMAIN w /\ v[i] = w[i]
            \/ i > Len(w) /\ i - Len(w) \in DOMAIN t /\ v[i] = t[i - Len(w)]
      /\ Len(w) \in Nat /\ DOMAIN w = 1..Len(w) /\ DOMAIN t = 1..Len(t)
  BY Joined
<1>2. v \in Seq(Frames)
  BY Joined
<1>3. DOMAIN v \subseteq Nat
  BY <1>2
<1> HIDE DEF v
<1>4. had \subseteq sent2 /\ sent2 \subseteq own
  BY DEF Flow
<1>5. ASSUME NEW i \in DOMAIN w, w[i] \in own
      PROVE  /\ w[i] \in sent2 /\ w[i] \notin had
             /\ \A g \in Before(w[i]) \cap own : g \in had \/ \E j \in 1..(i - 1) : v[j] = g
  <2>1. w[i] \in sent2 /\ w[i] \notin had
    BY <1>5 DEF Flow
  <2>2. ASSUME NEW g \in Before(w[i]) \cap own PROVE g \in had \/ \E j \in 1..(i - 1) : v[j] = g
    <3>1. g \in had \/ \E j \in 1..(i - 1) : w[j] = g
      BY <1>5, <2>2 DEF Flow
    <3>2. ASSUME NEW j \in 1..(i - 1), w[j] = g PROVE v[j] = g
      <4>1. j \in DOMAIN w
        BY <1>1
      <4> QED BY <1>1, <3>2, <4>1
    <3> QED BY <3>1, <3>2
  <2> QED BY <2>1, <2>2
<1>6. ASSUME NEW i \in DOMAIN t, t[i] \in own
      PROVE  /\ t[i] \in sent2 /\ t[i] \notin had
             /\ \A g \in Before(t[i]) \cap own : g \in had \/ \E j \in 1..(Len(w) + i - 1) : v[j] = g
  <2>1. t[i] \in sent2 /\ t[i] \notin had
    BY <1>6 DEF Follows, Flow
  <2>2. ASSUME NEW g \in Before(t[i]) \cap own PROVE g \in had \/ \E j \in 1..(Len(w) + i - 1) : v[j] = g
    <3>1. ~cut
      BY <1>6, <2>2
    <3>2. CASE g \in sent
      <4>1. g \in had \/ \E j \in DOMAIN w : w[j] = g
        BY <3>1, <3>2 DEF Flow
      <4>2. ASSUME NEW j \in DOMAIN w PROVE j \in 1..(Len(w) + i - 1) /\ v[j] = w[j]
        BY <1>1
      <4> QED BY <4>1, <4>2
    <3>3. CASE \E j \in 1..(i - 1) : t[j] = g
      <4>1. PICK j \in 1..(i - 1) : t[j] = g
        BY <3>3
      <4>2. j \in DOMAIN t /\ Len(w) + j \in 1..(Len(w) + i - 1)
        BY <1>1
      <4>3. v[Len(w) + j] = g
        BY <1>1, <4>1, <4>2
      <4> QED BY <4>2, <4>3
    <3> QED BY <1>6, <2>2, <3>2, <3>3 DEF Follows
  <2> QED BY <2>1, <2>2
<1>7. ASSUME NEW i \in DOMAIN v, v[i] \in own
      PROVE  /\ v[i] \in sent2 /\ v[i] \notin had
             /\ \A g \in Before(v[i]) \cap own : g \in had \/ \E j \in 1..(i - 1) : v[j] = g
  <2>1. CASE i \in DOMAIN w /\ v[i] = w[i]
    BY <1>5, <1>7, <2>1
  <2>2. CASE i > Len(w) /\ i - Len(w) \in DOMAIN t /\ v[i] = t[i - Len(w)]
    <3>1. Len(w) + (i - Len(w)) = i
      BY <1>1, <1>3
    <3> QED BY <1>6, <1>7, <2>2, <3>1
  <2> QED BY <1>1, <2>1, <2>2
<1>8. ASSUME NEW i \in DOMAIN v, NEW j \in DOMAIN v, v[i] \in own, v[i] = v[j] PROVE i = j
  <2>1. ASSUME NEW k \in DOMAIN w, NEW l \in DOMAIN t, w[k] \in own PROVE w[k] # t[l]
    BY <2>1 DEF Flow, Follows
  <2>2. CASE i \in DOMAIN w /\ v[i] = w[i]
    <3>1. CASE j \in DOMAIN w /\ v[j] = w[j]
      BY <1>8, <2>2, <3>1 DEF Flow
    <3>2. CASE j - Len(w) \in DOMAIN t /\ v[j] = t[j - Len(w)]
      BY <1>8, <2>1, <2>2, <3>2
    <3> QED BY <1>1, <3>1, <3>2
  <2>3. CASE i - Len(w) \in DOMAIN t /\ v[i] = t[i - Len(w)]
    <3>1. CASE j \in DOMAIN w /\ v[j] = w[j]
      BY <1>8, <2>1, <2>3, <3>1
    <3>2. CASE j - Len(w) \in DOMAIN t /\ v[j] = t[j - Len(w)]
      <4>1. i - Len(w) = j - Len(w)
        BY <1>8, <2>3, <3>2 DEF Follows
      <4> QED BY <1>1, <1>3, <4>1
    <3> QED BY <1>1, <3>1, <3>2
  <2> QED BY <1>1, <2>2, <2>3
<1>9. ASSUME ~cut, NEW f \in sent2 PROVE f \in had \/ \E i \in DOMAIN v : v[i] = f
  <2>1. CASE f \in sent
    BY <1>1, <1>9, <2>1 DEF Flow
  <2>2. CASE f \notin sent
    BY <1>1, <2>2 DEF Follows
  <2> QED BY <2>1, <2>2
<1>10. Flow(v, own, had, sent2, cut)
  BY <1>4, <1>7, <1>8, <1>9 DEF Flow
<1> QED BY <1>10 DEF v

\* A connection that is at an end loses what was on it, and what is sent.
LEMMA FlowCut ==
    ASSUME NEW w \in Seq(Frames), NEW own, NEW had, NEW sent, NEW sent2, NEW cut, Flow(w, own, had, sent, cut),
           sent \subseteq sent2, sent2 \subseteq own
    PROVE  Flow(w, own, had, sent2, TRUE) /\ Flow(<<>>, own, had, sent2, TRUE)
BY DEF Flow

\* Frames of others.
LEMMA NothingOfIt ==
    ASSUME NEW t \in Seq(Frames), NEW own, NEW sent, \A i \in DOMAIN t : t[i] \notin own
    PROVE  Follows(t, own, sent, sent)
BY DEF Follows

LEMMA FirstRequest ==
    ASSUME NEW c \in Calls
    PROVE  Before(Ask(c)) = {} /\ \A f \in Requests(c) : Before(f) \cap Requests(c) = {}
BY DEF Before, Ask, Requests, Frame

-----------------------------------------------------------------------------
(* What a step leaves of a call and its flows *)

\* The records of c fade: nothing is sent of its stream or had of it.
Fades(c) ==
    /\ call'[c].conn = call[c].conn /\ call'[c].kind = call[c].kind
    /\ call'[c].phase \in {"idle", "connecting"} => call[c].phase \in {"idle", "connecting"}
    /\ handler'[c] = handler[c] \/ (handler[c] = "running" /\ handler'[c] \in {"gone", "returned"})
    /\ snd'[c].seq = snd[c].seq /\ snd'[c].acked = snd[c].acked /\ snd'[c].opened = snd[c].opened
    /\ snd'[c].feed = snd[c].feed \/ (snd[c].feed = "busy" /\ snd'[c].feed \in {"failed", "gone"})
    /\ rcv'[c].opened = rcv[c].opened /\ rcv'[c].next = rcv[c].next
    /\ rcv'[c].taken = rcv[c].taken /\ rcv'[c].ended = rcv[c].ended
    /\ rcv'[c].reader = rcv[c].reader \/ rcv'[c].reader # "whole"
    /\ \A s \in Sides : c \in table'[s] => c \in table[s]
    /\ rcv[c].ended \/ Live(c)' => rcv'[c].failed = rcv[c].failed
    /\ call[c].kind = "download" /\ handler'[c] = "running" => snd'[c].feed = snd[c].feed
    /\ call[c].conn = 0 => snd'[c] = snd[c] /\ rcv'[c] = rcv[c]

\* Of c nothing was sent or had.
Steady(c) ==
    /\ call'[c].conn = call[c].conn
    /\ rcv'[c].taken >= rcv[c].taken
    /\ call[c].conn # 0 =>
          /\ call'[c].kind = call[c].kind
          /\ Served(c)' = Served(c)
          /\ Live(c)' => Live(c) /\ Had(c)' = Had(c) /\ Sent(c)' = Sent(c)

\* The frame f was read, or frames t were written, which may be of c.
Reading(c, f) ==
    /\ call'[c].conn = call[c].conn
    /\ rcv'[c].taken >= rcv[c].taken
    /\ call[c].conn # 0 =>
          /\ call'[c].kind = call[c].kind
          /\ Served(c)' = IF f \in Requests(c) THEN Served(c) \cup {f} ELSE Served(c)
          /\ Live(c)' => /\ Live(c) /\ Sent(c)' = Sent(c)
                         /\ Had(c)' = IF f \in Stream(c) THEN Had(c) \cup {f} ELSE Had(c)
Writing(c, t) ==
    /\ call'[c].conn = call[c].conn
    /\ rcv'[c].taken >= rcv[c].taken
    /\ call[c].conn # 0 =>
          /\ call'[c].kind = call[c].kind
          /\ Served(c)' = Served(c)
          /\ \A i \in DOMAIN t : t[i] \notin Requests(c)
          /\ Live(c)' => /\ Live(c) /\ Had(c)' = Had(c)
                         /\ Sent(c) \subseteq Sent(c)' /\ Follows(t, Stream(c), Sent(c), Sent(c)')

LEMMA Records ==
    ASSUME StreamInv
    PROVE  /\ wire \in Wires
           /\ \A c \in Calls :
                /\ snd[c] \in Senders /\ rcv[c] \in Receivers /\ call[c] \in CallRecords
                /\ snd[c].seq \in Nat /\ snd[c].acked \in Nat /\ rcv[c].next \in Nat /\ rcv[c].taken \in Nat
                /\ rcv[c].failed \in BOOLEAN /\ rcv[c].ended \in BOOLEAN /\ rcv[c].opened \in BOOLEAN
                /\ snd[c].opened \in BOOLEAN
                /\ call[c].kind \in {"plain", "upload", "download"} /\ call[c].conn \in Nat
                /\ ReceiverSide(c) \in Sides /\ ReceiverSide(c) \in {"core", "worker"}
BY SidesOf DEF StreamInv, Orderly, StreamTypes, Senders, Receivers, Inv, TypeOK, CallRecords, ReceiverSide

LEMMA SentOfStream ==
    ASSUME NEW c \in Calls
    PROVE  /\ Had(c) \subseteq Stream(c) /\ Sent(c) \subseteq Stream(c)
           /\ Asked(c) \subseteq Requests(c) /\ Served(c) \subseteq Requests(c)
BY DEF Had, Sent, Asked, Served

LEMMA FadesSteady ==
    ASSUME StreamInv, NEW c \in Calls, Fades(c)
    PROVE  Kept(c)' /\ Steady(c)
<1>1. /\ Kept(c)
      /\ snd[c].seq \in Nat /\ snd[c].acked \in Nat /\ rcv[c].next \in Nat /\ rcv[c].taken \in Nat
  BY Records DEF StreamInv
<1>2. ReceiverSide(c)' = ReceiverSide(c) /\ ReceiverSide(c) \in Sides /\ "worker" \in Sides
  BY SidesOf DEF Fades, ReceiverSide, Sides
<1>3. (handler'[c] = "off") = (handler[c] = "off") /\ (snd'[c].feed = "off") = (snd[c].feed = "off")
      /\ (snd'[c].feed = "ended") = (snd[c].feed = "ended")
  BY DEF Fades
<1>4. Live(c)' => Live(c)
  BY <1>2, <1>3 DEF Fades, Live
<1>5. Stream(c)' = Stream(c)
  BY DEF Stream, Fades
<1>6. Had(c)' = Had(c) /\ Sent(c)' = Sent(c)
  <2>1. Had(c)' = Had(c)
    BY <1>3, <1>5 DEF Had, Fades, Ask, Opening, Frame
  <2>2. Sent(c)' = Sent(c)
    BY <1>3, <1>5 DEF Sent, Fades, Ask, Opening, Frame
  <2> QED BY <2>1, <2>2
<1>7. Served(c)' = Served(c)
  BY <1>3 DEF Served, Requests, Ask, Frame
<1>8. Kept(c)'
  <2>1. call'[c].phase \in {"idle", "connecting"} => call'[c].conn = 0
    BY <1>1 DEF Kept, Fades
  <2>2. call'[c].conn = 0 => /\ handler'[c] = "off" /\ snd'[c] = FreshSender /\ rcv'[c] = FreshReceiver
                             /\ \A s \in Sides : c \notin table'[s]
    BY <1>1 DEF Kept, Fades
  <2>3. c \in table'["worker"] => handler'[c] # "off"
    BY <1>1, <1>2, <1>3 DEF Kept, Fades
  <2>4. /\ call'[c].kind = "download" /\ handler'[c] = "off" => snd'[c].feed = "off"
        /\ call'[c].kind = "download" /\ handler'[c] = "running" => snd'[c].feed = "busy"
    BY <1>1, <1>3 DEF Kept, Fades
  <2>5. /\ snd'[c].seq - snd'[c].acked <= Window
        /\ snd'[c].acked <= rcv'[c].taken
        /\ rcv'[c].taken <= rcv'[c].next
    BY <1>1 DEF Kept, Fades
  <2>6. Live(c)' => ~rcv'[c].failed
    BY <1>1, <1>4 DEF Kept, Fades
  <2>7. /\ rcv'[c].ended => rcv'[c].next = snd'[c].seq /\ snd'[c].feed = "ended" /\ ~rcv'[c].failed
        /\ rcv'[c].reader = "whole" => rcv'[c].ended /\ rcv'[c].taken = rcv'[c].next
    BY <1>1, <1>3 DEF Kept, Fades
  <2> QED BY <2>1, <2>2, <2>3, <2>4, <2>5, <2>6, <2>7 DEF Kept, Live, ReceiverSide, FreshSender, FreshReceiver
<1>9. rcv'[c].taken >= rcv[c].taken
  BY <1>1 DEF Fades
<1> QED BY <1>4, <1>6, <1>7, <1>8, <1>9 DEF Steady, Fades

\* A frame stays in its place.
LEMMA PlacedStays ==
    ASSUME StreamInv, Orderly', NEW f \in Frames, NEW s \in Sides, NEW n \in Conns, Placed(f, s, n),
           \A c \in Calls : call[c].conn # 0 => call'[c].conn = call[c].conn /\ call'[c].kind = call[c].kind,
           \A c \in Calls : rcv'[c].taken >= rcv[c].taken
    PROVE  Placed(f, s, n)'
<1> SUFFICES ASSUME f \in CallFrames PROVE Placed(f, s, n)'
  BY DEF Placed
<1>1. f.call \in Calls /\ f.n \in Nat /\ n # 0
  BY DEF CallFrames, Conns
<1>2. f.type \in {"execute"} \cup ToReceiver => n = call'[f.call].conn /\ call'[f.call].kind = call[f.call].kind
  BY <1>1 DEF Placed
<1>3. f.type = "streamAck" => f.n < rcv'[f.call].taken
  <2>1. rcv[f.call].taken \in Nat /\ rcv'[f.call].taken >= rcv[f.call].taken
    BY <1>1, Records
  <2>2. rcv'[f.call].taken \in Nat
    BY <1>1 DEF Orderly, StreamTypes, Receivers
  <2> QED BY <1>1, <2>1, <2>2 DEF Placed
<1> QED BY <1>2, <1>3 DEF Placed, ReceiverSide, CallFrames

\* Every frame was under way, or is one of t, written to side s on n.
Arrive(t, s, n) ==
    \A r \in Sides, m \in Conns : \A i \in DOMAIN wire'[r][m] :
        \/ \E j \in DOMAIN wire[r][m] : wire'[r][m][i] = wire[r][m][j]
        \/ \E j \in DOMAIN t : wire'[r][m][i] = t[j] /\ r = s /\ m = n

LEMMA PlacesKept ==
    ASSUME StreamInv, Orderly', NEW t, NEW s, NEW n, Arrive(t, s, n),
           \A c \in Calls : /\ call[c].conn # 0 => call'[c].conn = call[c].conn /\ call'[c].kind = call[c].kind
                            /\ rcv'[c].taken >= rcv[c].taken,
           \A i \in DOMAIN t : Placed(t[i], s, n)'
    PROVE  AllPlaced'
<1> SUFFICES ASSUME NEW r \in Sides, NEW m \in Conns, NEW i \in DOMAIN wire'[r][m]
             PROVE  Placed(wire[r][m][i], r, m)'
  BY DEF AllPlaced
<1>1. PICK f : f = wire'[r][m][i]
  OBVIOUS
<1>2. ASSUME NEW j \in DOMAIN wire[r][m], f = wire[r][m][j] PROVE Placed(f, r, m)'
  <2>1. f \in Frames /\ Placed(f, r, m)
    BY <1>2, Records DEF StreamInv, AllPlaced, Wires
  <2> QED BY <2>1, PlacedStays
<1>3. Placed(f, r, m)'
  BY <1>1, <1>2 DEF Arrive
<1> QED BY <1>1, <1>3 DEF Placed, ReceiverSide

\* Where the frame of a flow is.
LEMMA PlaceOfOwn ==
    ASSUME NEW c \in Calls, NEW f, NEW s, NEW n, Placed(f, s, n)
    PROVE  /\ f \in Requests(c) => s = "worker" /\ n = call[c].conn
           /\ f \in Stream(c) => s = ReceiverSide(c) /\ n = call[c].conn
BY DEF Placed, Requests, Stream, Ask, Frame, CallFrames, ReceiverSide

\* What writing does where the ends of connections are known.
LEMMA WroteOn ==
    ASSUME StreamInv, NEW w \in Wires, NEW s \in Sides, NEW n \in 0..opened, NEW t \in Seq(Frames),
           NEW r \in Sides, NEW m \in Conns
    PROVE  Written(w, s, n, t)[r][m] =
              IF r = Peer(s) /\ m = n /\ n \notin down THEN w[r][m] \o t ELSE w[r][m]
<1>1. Peer(s) \in Sides /\ m # 0
  BY DEF Peer, Sides, Conns
<1>2. CASE n = 0 \/ n \in down \/ n \notin up[s]
  <2>1. n = 0 \/ n \in down
    BY <1>2 DEF StreamInv, EndsKnown
  <2> QED BY <1>1, <1>2, <2>1 DEF Written
<1>3. CASE ~(n = 0 \/ n \in down \/ n \notin up[s])
  <2>1. Written(w, s, n, t) = [w EXCEPT ![Peer(s)][n] = @ \o t]
    BY <1>3 DEF Written
  <2> QED BY <1>1, <1>3, <2>1 DEF Wires
<1> QED BY <1>2, <1>3

\* A step that writes frames, in their place, and reads none.
LEMMA WriteStep ==
    ASSUME StreamInv, Orderly', HandlersKnown', NEW s \in Sides, NEW p \in Sides, p = Peer(s), NEW n \in 0..opened,
           NEW t \in Seq(Frames), wire' = Written(wire, s, n, t),
           UNCHANGED <<socket, opened, up, down>>,
           \A i \in DOMAIN t : Placed(t[i], p, n)',
           \A c \in Calls : Kept(c)' /\ Writing(c, t)
    PROVE  StreamInv'
<1>1. /\ wire \in Wires
      /\ \A r \in Sides, m \in Conns :
            /\ wire[r][m] \in Seq(Frames)
            /\ wire'[r][m] = IF r = p /\ m = n /\ n \notin down THEN wire[r][m] \o t ELSE wire[r][m]
  <2>1. wire \in Wires
    BY Records
  <2>2. \A r \in Sides, m \in Conns : wire[r][m] \in Seq(Frames)
    BY <2>1 DEF Wires
  <2>3. ASSUME NEW r \in Sides, NEW m \in Conns
        PROVE  Written(wire, s, n, t)[r][m] =
                  IF r = p /\ m = n /\ n \notin down THEN wire[r][m] \o t ELSE wire[r][m]
    BY <2>1, WroteOn
  <2> QED BY <2>1, <2>2, <2>3
<1>2. EndsKnown'
  BY DEF StreamInv, EndsKnown, Writing
<1>3. AllPlaced'
  <2>1. ASSUME NEW r \in Sides, NEW m \in Conns, NEW i \in DOMAIN wire'[r][m]
        PROVE  \/ \E j \in DOMAIN wire[r][m] : wire'[r][m][i] = wire[r][m][j]
               \/ \E j \in DOMAIN t : wire'[r][m][i] = t[j] /\ r = p /\ m = n
    <3>1. CASE wire'[r][m] = wire[r][m]
      BY <3>1
    <3>2. CASE r = p /\ m = n /\ wire'[r][m] = wire[r][m] \o t
      <4>1. \/ i \in DOMAIN wire[r][m] /\ wire'[r][m][i] = wire[r][m][i]
            \/ i - Len(wire[r][m]) \in DOMAIN t /\ wire'[r][m][i] = t[i - Len(wire[r][m])]
        BY <1>1, <3>2, Joined
      <4> QED BY <3>2, <4>1
    <3> QED BY <1>1, <3>1, <3>2
  <2>2. \A c \in Calls : /\ call[c].conn # 0 => call'[c].conn = call[c].conn /\ call'[c].kind = call[c].kind
                         /\ rcv'[c].taken >= rcv[c].taken
    BY DEF Writing
  <2>3. Arrive(t, p, n)
    BY <2>1 DEF Arrive
  <2> QED BY <2>2, <2>3, PlacesKept
<1>4. ASSUME NEW c \in Calls PROVE Flows(c)'
  <2> DEFINE k == call[c].conn
             r == ReceiverSide(c)
  <2>1. Writing(c, t) /\ Flows(c) /\ k \in Conns \cup {0} /\ r \in Sides /\ "worker" \in Sides
    BY SidesOf DEF StreamInv, Orderly, StreamTypes, Sides
  <2> SUFFICES ASSUME k # 0 PROVE Flows(c)'
    BY <2>1 DEF Flows, Writing
  <2>2. /\ call'[c].conn = k /\ ReceiverSide(c)' = r /\ Stream(c)' = Stream(c)
        /\ Requests(c)' = Requests(c) /\ Asked(c)' = Asked(c)
    BY <2>1 DEF Writing, ReceiverSide, Stream, Requests, Asked
  <2>3. /\ wire["worker"][k] \in Seq(Frames) /\ wire[r][k] \in Seq(Frames)
        /\ wire'["worker"][k] = IF "worker" = p /\ k = n /\ n \notin down THEN wire["worker"][k] \o t ELSE wire["worker"][k]
        /\ wire'[r][k] = IF r = p /\ k = n /\ n \notin down THEN wire[r][k] \o t ELSE wire[r][k]
    BY <1>1, <2>1
  <2>4. Flow(wire'["worker"][k], Requests(c), Served(c)', Asked(c), TRUE)
    <3>1. Flow(wire["worker"][k], Requests(c), Served(c), Asked(c), TRUE) /\ Served(c)' = Served(c)
      BY <2>1 DEF Flows, Writing
    <3>2. (\A i \in DOMAIN t : t[i] \notin Requests(c)) /\ Follows(t, Requests(c), Asked(c), Asked(c))
      BY <2>1, NothingOfIt DEF Writing
    <3>3. Flow(wire["worker"][k] \o t, Requests(c), Served(c), Asked(c), TRUE)
      BY <2>3, <3>1, <3>2, SentOfStream, FlowWritten
    <3> QED BY <2>3, <3>1, <3>3
  <2>5. ASSUME Live(c)' PROVE Flow(wire'[r][k], Stream(c), Had(c)', Sent(c)', k \in down)
    <3>1. /\ Flow(wire[r][k], Stream(c), Had(c), Sent(c), k \in down) /\ Had(c)' = Had(c)
          /\ Sent(c) \subseteq Sent(c)' /\ Follows(t, Stream(c), Sent(c), Sent(c)')
      BY <2>1, <2>5 DEF Flows, Writing
    <3>2. Sent(c)' \subseteq Stream(c) /\ Sent(c) \subseteq Stream(c)
      <4>1. Sent(c)' \subseteq Stream(c)'
        BY DEF Sent
      <4> QED BY <2>2, <4>1, SentOfStream
    <3>3. CASE r = p /\ k = n /\ n \notin down
      BY <2>3, <3>1, <3>2, <3>3, FlowWritten
    <3>4. CASE k \in down
      <4>1. Flow(wire[r][k], Stream(c), Had(c), Sent(c)', TRUE)
        BY <2>3, <3>1, <3>2, FlowCut
      <4>2. wire'[r][k] = wire[r][k] /\ (k \in down) = TRUE
        BY <2>3, <3>4
      <4> QED BY <3>1, <4>1, <4>2
    <3>5. CASE r # p \/ k # n
      <4>1. \A i \in DOMAIN t : t[i] \notin Stream(c)
        <5>1. \A i \in DOMAIN t : t[i] \in Stream(c)' => p = ReceiverSide(c)' /\ n = call'[c].conn
          BY DEF Placed, Stream, ReceiverSide, CallFrames
        <5> QED BY <2>2, <3>5, <5>1
      <4>2. Sent(c)' = Sent(c)
        BY <3>1, <3>2, <4>1 DEF Follows
      <4> QED BY <2>3, <3>1, <3>5, <4>2
    <3> QED BY <3>3, <3>4, <3>5
  <2> QED BY <2>2, <2>4, <2>5 DEF Flows
<1> QED BY <1>2, <1>3, <1>4 DEF StreamInv

\* A step that reads the frame f, and writes none that a flow is about.
LEMMA ReadStep ==
    ASSUME StreamInv, Orderly', HandlersKnown', NEW s \in Sides, NEW n \in Conns, wire[s][n] # <<>>,
           NEW m \in 0..opened, NEW t \in Seq(Frames), wire' = Written(Read(s, n), s, m, t),
           UNCHANGED <<socket, opened, up, down>>,
           \A i \in DOMAIN t : t[i].type \in {"helloAck", "streamAbort"},
           \A c \in Calls : Kept(c)' /\ Reading(c, Head(wire[s][n]))
    PROVE  StreamInv'
<1> DEFINE f == Head(wire[s][n])
           p == Peer(s)
<1>1. /\ StreamTypes
      /\ p \in Sides /\ p # s
      /\ Read(s, n) \in Wires
      /\ Read(s, n)[s][n] = Tail(wire[s][n])
      /\ \A q \in Sides, k \in Conns : q # s \/ k # n => Read(s, n)[q][k] = wire[q][k]
  <2>1. StreamTypes /\ p \in Sides /\ p # s
    BY DEF StreamInv, Orderly, Peer, Sides
  <2> QED BY <2>1, ReadOn
<1> HIDE DEF p
<1>2. \A q \in Sides, k \in Conns :
        /\ wire[q][k] \in Seq(Frames)
        /\ wire'[q][k] = IF q = s /\ k = n THEN Tail(wire[q][k])
                         ELSE IF q = p /\ k = m /\ m \notin down THEN wire[q][k] \o t ELSE wire[q][k]
  <2>1. ASSUME NEW q \in Sides, NEW k \in Conns
        PROVE  Written(Read(s, n), s, m, t)[q][k] =
                  IF q = p /\ k = m /\ m \notin down THEN Read(s, n)[q][k] \o t ELSE Read(s, n)[q][k]
    BY <1>1, WroteOn DEF p
  <2> QED BY <1>1, <2>1 DEF StreamTypes, Wires
<1>3. EndsKnown'
  BY DEF StreamInv, EndsKnown, Reading
<1>4. \A i \in DOMAIN t : t[i].type \notin {"execute", "streamAck"} \cup ToReceiver
  BY DEF ToReceiver
<1>5. AllPlaced'
  <2>1. ASSUME NEW r \in Sides, NEW k \in Conns, NEW i \in DOMAIN wire'[r][k]
        PROVE  \/ \E j \in DOMAIN wire[r][k] : wire'[r][k][i] = wire[r][k][j]
               \/ \E j \in DOMAIN t : wire'[r][k][i] = t[j] /\ r = p /\ k = m
    <3>1. CASE r = s /\ k = n
      <4>1. wire'[r][k] = Tail(wire[r][k]) /\ wire[r][k] \in Seq(Frames) /\ wire[r][k] # <<>>
        BY <1>2, <3>1
      <4>2. i \in DOMAIN Tail(wire[r][k])
        BY <4>1
      <4>3. i + 1 \in DOMAIN wire[r][k] /\ Tail(wire[r][k])[i] = wire[r][k][i + 1]
        BY <4>1, <4>2, Shifted
      <4> QED BY <4>1, <4>3
    <3>2. CASE ~(r = s /\ k = n) /\ r = p /\ k = m /\ m \notin down
      <4>2. wire'[r][k] = wire[r][k] \o t /\ wire[r][k] \in Seq(Frames)
        BY <1>2, <3>2
      <4>3. i \in DOMAIN (wire[r][k] \o t)
        BY <4>2
      <4>1. \/ i \in DOMAIN wire[r][k] /\ wire'[r][k][i] = wire[r][k][i]
            \/ i - Len(wire[r][k]) \in DOMAIN t /\ wire'[r][k][i] = t[i - Len(wire[r][k])]
        BY <4>2, <4>3, Joined
      <4> QED BY <3>2, <4>1
    <3>3. CASE wire'[r][k] = wire[r][k]
      BY <3>3
    <3> QED BY <1>2, <3>1, <3>2, <3>3
  <2>2. \A c \in Calls : /\ call[c].conn # 0 => call'[c].conn = call[c].conn /\ call'[c].kind = call[c].kind
                         /\ rcv'[c].taken >= rcv[c].taken
    BY DEF Reading
  <2>3. Arrive(t, p, m)
    BY <2>1 DEF Arrive
  <2>4. \A i \in DOMAIN t : Placed(t[i], p, m)'
    BY <1>4 DEF Placed
  <2> QED BY <2>2, <2>3, <2>4, PlacesKept
<1>7. Placed(f, s, n)
  <2>1. f = wire[s][n][1] /\ 1 \in DOMAIN wire[s][n]
    BY <1>2, Shifted
  <2> QED BY <2>1 DEF StreamInv, AllPlaced
<1>9. f = Head(wire[s][n])
  OBVIOUS
<1> HIDE DEF f
<1>6. ASSUME NEW q \in Sides, NEW k \in Conns, NEW own, NEW had, NEW sent, NEW cut,
             Flow(wire[q][k], own, had, sent, cut),
             f \in own => q = s /\ k = n, \A i \in DOMAIN t : t[i] \notin own
      PROVE  Flow(wire'[q][k], own, IF f \in own THEN had \cup {f} ELSE had, sent, cut)
  <2>1. CASE q = s /\ k = n
    <3>1. wire'[q][k] = Tail(wire[q][k]) /\ wire[q][k] \in Seq(Frames) /\ wire[q][k] # <<>>
      BY <1>2, <2>1
    <3>2. f = Head(wire[q][k])
      BY <1>9, <2>1
    <3>3. Flow(Tail(wire[q][k]), own, IF Head(wire[q][k]) \in own THEN had \cup {Head(wire[q][k])} ELSE had, sent, cut)
      BY <1>6, <3>1, FlowRead
    <3> QED BY <3>1, <3>2, <3>3
  <2>2. CASE ~(q = s /\ k = n)
    <3>1. f \notin own /\ wire[q][k] \in Seq(Frames) /\ wire'[q][k] \in {wire[q][k], wire[q][k] \o t}
      BY <1>2, <1>6, <2>2
    <3>2. Follows(t, own, sent, sent) /\ sent \subseteq own
      BY <1>6, NothingOfIt DEF Flow
    <3>3. Flow(wire[q][k] \o t, own, had, sent, cut)
      BY <1>6, <3>1, <3>2, FlowWritten
    <3> QED BY <1>6, <3>1, <3>3
  <2> QED BY <2>1, <2>2
<1>8. ASSUME NEW c \in Calls PROVE Flows(c)'
  <2> DEFINE k == call[c].conn
             r == ReceiverSide(c)
  <2>1. Reading(c, f) /\ Flows(c) /\ k \in Conns \cup {0} /\ r \in Sides /\ "worker" \in Sides
    BY <1>1, <1>9, SidesOf DEF StreamInv, StreamTypes, Sides
  <2> SUFFICES ASSUME k # 0 PROVE Flows(c)'
    BY <2>1 DEF Flows, Reading
  <2>2. /\ call'[c].conn = k /\ ReceiverSide(c)' = r /\ Stream(c)' = Stream(c)
        /\ Requests(c)' = Requests(c) /\ Asked(c)' = Asked(c)
    BY <2>1 DEF Reading, ReceiverSide, Stream, Requests, Asked
  <2>3. (f \in Requests(c) => s = "worker" /\ n = k) /\ (f \in Stream(c) => s = r /\ n = k)
    BY <1>7, PlaceOfOwn
  <2>4. \A i \in DOMAIN t : t[i] \notin Requests(c) /\ t[i] \notin Stream(c)
    BY <1>4 DEF Requests, Stream, Ask, Frame
  <2>5. Flow(wire'["worker"][k], Requests(c), Served(c)', Asked(c), TRUE)
    <3>1. Flow(wire["worker"][k], Requests(c), Served(c), Asked(c), TRUE)
          /\ Served(c)' = IF f \in Requests(c) THEN Served(c) \cup {f} ELSE Served(c)
      BY <2>1 DEF Flows, Reading
    <3>2. Flow(wire'["worker"][k], Requests(c), IF f \in Requests(c) THEN Served(c) \cup {f} ELSE Served(c), Asked(c), TRUE)
      BY <1>6, <2>1, <2>3, <2>4, <3>1
    <3> QED BY <3>1, <3>2
  <2>6. ASSUME Live(c)' PROVE Flow(wire'[r][k], Stream(c), Had(c)', Sent(c)', k \in down)
    <3>1. /\ Flow(wire[r][k], Stream(c), Had(c), Sent(c), k \in down) /\ Sent(c)' = Sent(c)
          /\ Had(c)' = IF f \in Stream(c) THEN Had(c) \cup {f} ELSE Had(c)
      BY <2>1, <2>6 DEF Flows, Reading
    <3>2. Flow(wire'[r][k], Stream(c), IF f \in Stream(c) THEN Had(c) \cup {f} ELSE Had(c), Sent(c), k \in down)
      BY <1>6, <2>1, <2>3, <2>4, <3>1
    <3> QED BY <3>1, <3>2
  <2> QED BY <2>2, <2>5, <2>6 DEF Flows
<1> QED BY <1>3, <1>5, <1>8 DEF StreamInv

\* A step on which no frame is read or written; connections that are at an end may lose theirs.
LEMMA LoseStep ==
    ASSUME StreamInv, Orderly', HandlersKnown', EndsKnown', down \cap 1..opened \subseteq down',
           \A s \in Sides, n \in Conns :
               wire'[s][n] = wire[s][n] \/ (wire'[s][n] = <<>> /\ (n \in 1..opened => n \in down')),
           \A c \in Calls : Kept(c)' /\ Steady(c)
    PROVE  StreamInv'
<1>1. AllPlaced'
  <2>1. Arrive(<<>>, "core", 0)
    BY DEF Arrive
  <2>2. \A c \in Calls : /\ call[c].conn # 0 => call'[c].conn = call[c].conn /\ call'[c].kind = call[c].kind
                         /\ rcv'[c].taken >= rcv[c].taken
    BY DEF Steady
  <2> QED BY <2>1, <2>2, PlacesKept
<1>2. ASSUME NEW c \in Calls PROVE Flows(c)'
  <2> DEFINE k == call[c].conn
             r == ReceiverSide(c)
  <2>1. Steady(c) /\ Flows(c) /\ k \in Conns \cup {0} /\ r \in Sides /\ "worker" \in Sides /\ wire \in Wires
        /\ (k # 0 => k \in 1..opened)
    BY SidesOf, Records DEF StreamInv, Orderly, StreamTypes, Sides, EndsKnown, Inv, TypeOK
  <2> SUFFICES ASSUME k # 0 PROVE Flows(c)'
    BY <2>1 DEF Flows, Steady
  <2>2. /\ call'[c].conn = k /\ ReceiverSide(c)' = r /\ Stream(c)' = Stream(c)
        /\ Requests(c)' = Requests(c) /\ Asked(c)' = Asked(c)
    BY <2>1 DEF Steady, ReceiverSide, Stream, Requests, Asked
  <2>3. ASSUME NEW q \in Sides, NEW own, NEW had, NEW sent, NEW cut, Flow(wire[q][k], own, had, sent, cut)
        PROVE  Flow(wire'[q][k], own, had, sent, cut) \/ (k \in down' /\ Flow(wire'[q][k], own, had, sent, TRUE))
    <3>1. wire[q][k] \in Seq(Frames) /\ sent \subseteq own
      BY <2>1, <2>3 DEF Wires, Flow
    <3>2. Flow(<<>>, own, had, sent, TRUE)
      BY <2>3, <3>1, FlowCut
    <3> QED BY <2>1, <2>3, <3>2
  <2>4. Flow(wire'["worker"][k], Requests(c), Served(c)', Asked(c), TRUE)
    BY <2>1, <2>3 DEF Flows, Steady
  <2>5. ASSUME Live(c)' PROVE Flow(wire'[r][k], Stream(c), Had(c)', Sent(c)', k \in down')
    <3>1. Flow(wire[r][k], Stream(c), Had(c)', Sent(c)', k \in down)
      BY <2>1, <2>5 DEF Flows, Steady
    <3>2. \/ Flow(wire'[r][k], Stream(c), Had(c)', Sent(c)', k \in down)
          \/ k \in down' /\ Flow(wire'[r][k], Stream(c), Had(c)', Sent(c)', TRUE)
      BY <2>1, <2>3, <3>1
    <3>3. k \in down => k \in down'
      BY <2>1
    <3> QED BY <3>2, <3>3 DEF Flow
  <2> QED BY <2>2, <2>4, <2>5 DEF Flows
<1> QED BY <1>1, <1>2 DEF StreamInv

-----------------------------------------------------------------------------
(* Steps that send and have nothing of a stream *)

LEMMA Untouched ==
    ASSUME NEW c \in Calls,
           call'[c] = call[c], handler'[c] = handler[c], snd'[c] = snd[c], rcv'[c] = rcv[c],
           \A s \in Sides : c \in table'[s] => c \in table[s]
    PROVE  Fades(c)
BY DEF Fades

\* Frames of others are written beside a call that fades, or one is read.
LEMMA FadesWriting ==
    ASSUME StreamInv, NEW c \in Calls, Fades(c), NEW t \in Seq(Frames),
           \A i \in DOMAIN t : t[i] \notin Requests(c) /\ t[i] \notin Stream(c)
    PROVE  Kept(c)' /\ Writing(c, t)
<1>1. Kept(c)' /\ Steady(c)
  BY FadesSteady
<1>2. Follows(t, Stream(c), Sent(c), Sent(c))
  BY NothingOfIt
<1> QED BY <1>1, <1>2 DEF Writing, Steady

LEMMA FadesReading ==
    ASSUME StreamInv, NEW c \in Calls, Fades(c), NEW f, f \notin Requests(c), f \notin Stream(c)
    PROVE  Kept(c)' /\ Reading(c, f)
<1>1. Kept(c)' /\ Steady(c)
  BY FadesSteady
<1> QED BY <1>1 DEF Reading, Steady

\* Of the frames that are written none is a request, an acknowledgement, or to a receiver.
LEMMA AsideStep ==
    ASSUME StreamInv, Orderly', HandlersKnown', NEW s \in Sides, NEW n \in 0..opened,
           NEW t \in Seq(Frames), wire' = Written(wire, s, n, t),
           UNCHANGED <<socket, opened, up, down>>,
           \A i \in DOMAIN t : t[i].type \notin {"execute", "streamAck"} \cup ToReceiver,
           \A c \in Calls : Fades(c)
    PROVE  StreamInv'
<1>1. PICK p \in Sides : p = Peer(s)
  BY DEF Peer, Sides
<1>2. \A i \in DOMAIN t : Placed(t[i], p, n)'
  BY DEF Placed
<1>3. ASSUME NEW c \in Calls PROVE Kept(c)' /\ Writing(c, t)
  <2>1. \A i \in DOMAIN t : t[i] \notin Requests(c) /\ t[i] \notin Stream(c)
    BY DEF Requests, Stream, Ask, Frame
  <2> QED BY <2>1, FadesWriting
<1> QED BY <1>1, <1>2, <1>3, WriteStep

\* Nothing is written.
LEMMA QuietStep ==
    ASSUME StreamInv, Orderly', HandlersKnown', wire' = wire,
           UNCHANGED <<socket, opened, up, down>>,
           \A c \in Calls : Kept(c)' /\ Steady(c)
    PROVE  StreamInv'
<1>1. EndsKnown'
  BY DEF StreamInv, EndsKnown, Steady
<1> QED BY <1>1, LoseStep

\* The streams that are cut.
LEMMA CutFades ==
    ASSUME StreamInv, NEW s \in Sides, NEW cs, Cut(s, cs), handler' = handler, NEW c \in Calls,
           call'[c].conn = call[c].conn, call'[c].kind = call[c].kind,
           call'[c].phase \in {"idle", "connecting"} => call[c].phase \in {"idle", "connecting"}
    PROVE  Fades(c)
<1>1. /\ snd[c] \in Senders /\ rcv[c] \in Receivers /\ table \in [Sides -> SUBSET Calls]
      /\ ReceiverSide(c)' = ReceiverSide(c) /\ ReceiverSide(c) \in Sides /\ Kept(c)
  BY Records, SidesOf DEF StreamInv, Orderly, StreamTypes, ReceiverSide
<1>2. snd'[c] = [snd[c] EXCEPT !.failed = TRUE] \/ snd'[c] = snd[c]
  BY DEF Cut
<1>3. /\ snd'[c].seq = snd[c].seq /\ snd'[c].acked = snd[c].acked /\ snd'[c].opened = snd[c].opened
      /\ snd'[c].feed = snd[c].feed
  BY <1>1, <1>2 DEF Senders
<1>4. \/ rcv'[c] = rcv[c]
      \/ /\ c \in table[s] /\ ReceiverSide(c) = s /\ c \in cs
         /\ rcv'[c] = [rcv[c] EXCEPT !.failed = @ \/ ~rcv[c].ended]
  BY DEF Cut
<1>5. /\ rcv'[c].opened = rcv[c].opened /\ rcv'[c].next = rcv[c].next /\ rcv'[c].taken = rcv[c].taken
      /\ rcv'[c].ended = rcv[c].ended /\ rcv'[c].reader = rcv[c].reader
  BY <1>1, <1>4 DEF Receivers
<1>6. \A q \in Sides : c \in table'[q] => c \in table[q]
  BY <1>1 DEF Cut
<1>7. ASSUME rcv[c].ended \/ Live(c)' PROVE rcv'[c].failed = rcv[c].failed
  <2>1. CASE rcv'[c] = rcv[c]
    BY <2>1
  <2>2. CASE /\ c \in table[s] /\ ReceiverSide(c) = s /\ c \in cs
             /\ rcv'[c] = [rcv[c] EXCEPT !.failed = @ \/ ~rcv[c].ended]
    <3>1. c \notin table'[s]
      BY <1>1, <2>2 DEF Cut
    <3>2. handler[c] # "off" \/ call[c].kind # "upload"
      BY <1>1, <2>2 DEF Kept, ReceiverSide
    <3>3. ~Live(c)'
      BY <1>1, <2>2, <3>1, <3>2 DEF Live
    <3>4. rcv[c].failed \in BOOLEAN
      BY <1>1 DEF Receivers
    <3> QED BY <1>1, <1>7, <2>2, <3>3, <3>4 DEF Receivers
  <2> QED BY <1>4, <2>1, <2>2
<1>8. call[c].conn = 0 => snd'[c] = snd[c] /\ rcv'[c] = rcv[c]
  <2>1. call[c].conn = 0 => c \notin table[s]
    BY <1>1 DEF Kept
  <2> QED BY <1>4, <2>1 DEF Cut
<1> QED BY <1>3, <1>5, <1>6, <1>7, <1>8 DEF Fades

LEMMA SettledKinds ==
    ASSUME StreamInv, NEW cs, NEW outcome, call' = Settled(cs, outcome) \/ call' = call, NEW c \in Calls
    PROVE  /\ call'[c].conn = call[c].conn /\ call'[c].kind = call[c].kind
           /\ call'[c].phase \in {"idle", "connecting"} => call[c].phase \in {"idle", "connecting"}
           /\ c \notin cs => call'[c] = call[c]
<1>1. call[c] \in CallRecords
  BY Records
<1> QED BY <1>1 DEF Settled, CallRecords

LEMMA HandshakeTimeoutStreams ==
    ASSUME StreamInv, Orderly', HandshakeTimeout
    PROVE  StreamInv'
<1>1. ASSUME NEW c \in Calls PROVE Kept(c)' /\ Steady(c)
  <2>1. Fades(c)
    BY SettledKinds DEF HandshakeTimeout, Fades
  <2> QED BY <2>1, FadesSteady
<1> QED BY <1>1, QuietStep DEF HandshakeTimeout, StreamInv, HandlersKnown

LEMMA FailStreamsEnd ==
    ASSUME StreamInv, Orderly', NEW n \in Conns, Fail(n)
    PROVE  StreamInv'
<1>1. ASSUME NEW c \in Calls PROVE Kept(c)' /\ Steady(c)
  <2>1. Fades(c)
    BY SettledKinds, CutFades DEF Fail, Sides
  <2> QED BY <2>1, FadesSteady
<1>2. EndsKnown'
  <2>1. ASSUME NEW m \in 1..opened PROVE m \in down \/ \A s \in Sides : m \in up'[s]
    BY DEF StreamInv, EndsKnown, Fail, Sides, Orderly, Inv, TypeOK
  <2>2. \A c \in Calls : call'[c].conn = call[c].conn
    BY <1>1 DEF Steady
  <2> QED BY <2>1, <2>2 DEF StreamInv, EndsKnown, Fail, Orderly, Inv, TypeOK
<1>3. \A s \in Sides, m \in Conns : wire'[s][m] = wire[s][m] \/ (wire'[s][m] = <<>> /\ m \in down)
  BY DEF StreamInv, Orderly, StreamTypes, Wires, Fail
<1> QED BY <1>1, <1>2, <1>3, LoseStep DEF Fail, StreamInv, HandlersKnown

LEMMA CloseStreams ==
    ASSUME StreamInv, Orderly', Close
    PROVE  StreamInv'
<1>1. ASSUME NEW c \in Calls PROVE Kept(c)' /\ Steady(c)
  <2>1. Fades(c)
    BY SettledKinds, CutFades DEF Close, Sides
  <2> QED BY <2>1, FadesSteady
<1>2. EndsKnown'
  <2>1. \A c \in Calls : call'[c].conn = call[c].conn
    BY <1>1 DEF Steady
  <2> QED BY <2>1 DEF StreamInv, EndsKnown, Close, Orderly, Inv, TypeOK
<1> QED BY <1>1, <1>2, LoseStep DEF Close, StreamInv, HandlersKnown

LEMMA BreaksStreams ==
    ASSUME StreamInv, Orderly', NEW n \in Conns, Breaks(n)
    PROVE  StreamInv'
<1>1. ASSUME NEW c \in Calls PROVE Kept(c)' /\ Steady(c)
  <2>1. Fades(c)
    BY Untouched DEF Breaks
  <2> QED BY <2>1, FadesSteady
<1> QED BY <1>1, LoseStep DEF Breaks, StreamInv, HandlersKnown, EndsKnown

LEMMA WorkerNoticesStreams ==
    ASSUME StreamInv, Orderly', NEW n \in Conns, WorkerNotices(n)
    PROVE  StreamInv'
<1>1. ASSUME NEW c \in Calls PROVE Kept(c)' /\ Steady(c)
  <2>1. Fades(c)
    BY CutFades DEF WorkerNotices, Sides
  <2> QED BY <2>1, FadesSteady
<1>2. EndsKnown'
  <2>1. ASSUME NEW m \in 1..opened PROVE m \in down \/ \A s \in Sides : m \in up'[s]
    BY DEF StreamInv, EndsKnown, WorkerNotices, Sides, Orderly, Inv, TypeOK
  <2> QED BY <2>1 DEF StreamInv, EndsKnown, WorkerNotices
<1>3. \A s \in Sides, m \in Conns : wire'[s][m] = wire[s][m] \/ (wire'[s][m] = <<>> /\ m \in down)
  BY DEF StreamInv, Orderly, StreamTypes, Wires, WorkerNotices
<1> QED BY <1>1, <1>2, <1>3, LoseStep DEF WorkerNotices, StreamInv, HandlersKnown

LEMMA WorkerDiesStreams ==
    ASSUME StreamInv, Orderly', WorkerDies
    PROVE  StreamInv'
<1>1. HandlersKnown'
  <2>1. ASSUME NEW c \in Calls PROVE handler'[c] \in {"off", "running", "returned", "gone"}
    BY DEF WorkerDies, StreamInv, HandlersKnown
  <2> QED BY <2>1 DEF WorkerDies, HandlersKnown
<1>2. ASSUME NEW c \in Calls PROVE Kept(c)' /\ Steady(c)
  <2>1. Kept(c) /\ snd[c] \in Senders /\ rcv[c] \in Receivers /\ handler[c] \in {"off", "running", "returned", "gone"}
    BY Records DEF StreamInv, HandlersKnown
  <2>2. call'[c] = call[c] /\ (handler'[c] = handler[c] \/ (handler[c] = "running" /\ handler'[c] = "gone"))
        /\ handler'[c] # "running"
    BY <2>1 DEF WorkerDies
  <2>3. /\ snd'[c].seq = snd[c].seq /\ snd'[c].acked = snd[c].acked /\ snd'[c].opened = snd[c].opened
        /\ snd'[c].feed = snd[c].feed \/ (snd[c].feed = "busy" /\ snd'[c].feed = "gone")
        /\ call[c].conn = 0 => snd'[c] = snd[c]
    BY <2>1 DEF WorkerDies, Senders, Kept, FreshSender
  <2>4. /\ rcv'[c].opened = rcv[c].opened /\ rcv'[c].next = rcv[c].next /\ rcv'[c].taken = rcv[c].taken
        /\ rcv'[c].ended = rcv[c].ended /\ rcv'[c].failed = rcv[c].failed
        /\ rcv'[c].reader = rcv[c].reader \/ rcv'[c].reader # "whole"
        /\ call[c].conn = 0 => rcv'[c] = rcv[c]
    BY <2>1 DEF WorkerDies, Receivers, Kept, FreshReceiver
  <2>5. \A s \in Sides : c \in table'[s] => c \in table[s]
    BY DEF WorkerDies, StreamInv, Orderly, StreamTypes
  <2>6. Fades(c)
    BY <2>2, <2>3, <2>4, <2>5 DEF Fades
  <2> QED BY <2>6, FadesSteady
<1>3. EndsKnown'
  BY DEF StreamInv, EndsKnown, WorkerDies
<1>4. \A s \in Sides, m \in Conns :
          wire'[s][m] = wire[s][m] \/ (wire'[s][m] = <<>> /\ (m \in 1..opened => m \in down'))
  BY DEF StreamInv, Orderly, StreamTypes, Wires, WorkerDies
<1> QED BY <1>1, <1>2, <1>3, <1>4, LoseStep DEF WorkerDies

LEMMA AbortFrameOf ==
    ASSUME NEW s, NEW c \in Calls
    PROVE  /\ AbortFrames(s, c) \in Seq(Frames)
           /\ \A i \in DOMAIN AbortFrames(s, c) : AbortFrames(s, c)[i].type = "streamAbort"
BY AbortFrameTypes DEF AbortFrames, Frame

LEMMA ConnOpened ==
    ASSUME StreamInv
    PROVE  socket \in 0..opened /\ opened \in Nat /\ \A c \in Calls : call[c].conn \in 0..opened
BY DEF StreamInv, EndsKnown, Orderly, Inv, TypeOK

LEMMA ConnectedStreams ==
    ASSUME StreamInv, Orderly', NEW n \in Conns, Connected(n)
    PROVE  StreamInv'
<1>1. PICK t : t = <<Hello>>
  OBVIOUS
<1>2. t \in Seq(Frames) /\ (\A i \in DOMAIN t : t[i].type = "hello") /\ wire' = Written(wire, "core", n, t)
  BY <1>1, FrameTypes DEF Hello, Frame, Connected
<1>3. n \in 0..opened /\ "core" \in Sides
  BY ConnOpened DEF Connected, Sides, Conns
<1>4. \A c \in Calls : Fades(c)
  BY Untouched DEF Connected
<1> QED BY <1>2, <1>3, <1>4, AsideStep DEF Connected, StreamInv, HandlersKnown, ToReceiver

LEMMA DeadlineStreams ==
    ASSUME StreamInv, Orderly', NEW c \in Calls, Deadline(c)
    PROVE  StreamInv'
<1>1. ASSUME NEW d \in Calls PROVE Fades(d)
  BY SettledKinds, CutFades DEF Deadline, Sides
<1>2. PICK t : t = AbortFrames("core", c)
  OBVIOUS
<1>3. t \in Seq(Frames) /\ (\A i \in DOMAIN t : t[i].type = "streamAbort") /\ wire' = Written(wire, "core", socket, t)
  BY <1>2, AbortFrameOf DEF Deadline
<1> QED BY <1>1, <1>3, ConnOpened, AsideStep DEF Deadline, StreamInv, HandlersKnown, ToReceiver, Sides, netVars

LEMMA SourceFailsStreams ==
    ASSUME StreamInv, Orderly', NEW c \in Calls, SourceFails(c)
    PROVE  StreamInv'
<1>1. ASSUME NEW d \in Calls PROVE Fades(d)
  <2>1. /\ Kept(c) /\ Kept(d) /\ snd \in [Calls -> Senders] /\ snd[c] \in Senders
        /\ table \in [Sides -> SUBSET Calls]
    BY Records DEF StreamInv, Orderly, StreamTypes
  <2>2. /\ call'[d].conn = call[d].conn /\ call'[d].kind = call[d].kind
        /\ call'[d].phase \in {"idle", "connecting"} => call[d].phase \in {"idle", "connecting"}
    BY SettledKinds DEF SourceFails
  <2>3. \A q \in Sides : d \in table'[q] => d \in table[q]
    BY <2>1 DEF SourceFails
  <2>4. /\ snd'[d].seq = snd[d].seq /\ snd'[d].acked = snd[d].acked /\ snd'[d].opened = snd[d].opened
        /\ snd'[d].feed = snd[d].feed \/ (snd[d].feed = "busy" /\ snd'[d].feed = "failed")
        /\ d = c \/ snd'[d] = snd[d]
    BY <2>1 DEF SourceFails, Senders
  <2>5. call[c].conn # 0 /\ call[c].kind = "upload"
    BY <2>1 DEF SourceFails, Kept, FreshSender
  <2> QED BY <2>2, <2>3, <2>4, <2>5 DEF Fades, SourceFails
<1>2. PICK t : t = AbortFrames("core", c)
  OBVIOUS
<1>3. t \in Seq(Frames) /\ (\A i \in DOMAIN t : t[i].type = "streamAbort")
      /\ wire' = Written(wire, "core", call[c].conn, t)
  BY <1>2, AbortFrameOf DEF SourceFails
<1> QED BY <1>1, <1>3, ConnOpened, AsideStep DEF SourceFails, StreamInv, HandlersKnown, ToReceiver, Sides, netVars

LEMMA ReaderCancelsStreams ==
    ASSUME StreamInv, Orderly', NEW c \in Calls, ReaderCancels(c)
    PROVE  StreamInv'
<1> DEFINE cancels == c \in table["core"] /\ ~rcv[c].ended
<1>1. ASSUME NEW d \in Calls PROVE Fades(d)
  <2>1. /\ Kept(c) /\ Kept(d) /\ rcv \in [Calls -> Receivers] /\ rcv[c] \in Receivers
        /\ table \in [Sides -> SUBSET Calls]
    BY Records DEF StreamInv, Orderly, StreamTypes
  <2>2. /\ call'[d].conn = call[d].conn /\ call'[d].kind = call[d].kind
        /\ call'[d].phase \in {"idle", "connecting"} => call[d].phase \in {"idle", "connecting"}
    BY SettledKinds DEF ReaderCancels
  <2>3. \A q \in Sides : d \in table'[q] => d \in table[q]
    BY <2>1 DEF ReaderCancels
  <2>4. d # c => rcv'[d] = rcv[d]
    BY <2>1 DEF ReaderCancels
  <2>5. rcv'[c] = [rcv[c] EXCEPT !.failed = @ \/ cancels, !.reader = "stopped"]
    BY <2>1 DEF ReaderCancels
  <2>6. rcv[c].failed \in BOOLEAN /\ rcv[c].ended \in BOOLEAN
    BY <2>1 DEF Receivers
  <2>7. /\ rcv'[c].opened = rcv[c].opened /\ rcv'[c].next = rcv[c].next /\ rcv'[c].taken = rcv[c].taken
        /\ rcv'[c].ended = rcv[c].ended /\ rcv'[c].reader = "stopped" /\ (~cancels => rcv'[c].failed = rcv[c].failed)
    BY <2>1, <2>5, <2>6 DEF Receivers
  <2>8. call[c].conn # 0 /\ call[c].kind = "download"
    BY <2>1 DEF ReaderCancels, Kept, FreshReceiver
  <2>9. cancels => ~rcv[c].ended /\ ~Live(c)'
    <3>1. cancels => c \notin table'["core"]
      BY <2>1 DEF ReaderCancels, Sides
    <3>2. call'[c].kind = "download"
      BY <2>8, SettledKinds DEF ReaderCancels
    <3> QED BY <3>1, <3>2 DEF Live, ReceiverSide
  <2>10. d = c => /\ rcv'[d].opened = rcv[d].opened /\ rcv'[d].next = rcv[d].next
                  /\ rcv'[d].taken = rcv[d].taken /\ rcv'[d].ended = rcv[d].ended
                  /\ rcv'[d].reader # "whole"
                  /\ rcv[d].ended \/ Live(d)' => rcv'[d].failed = rcv[d].failed
    BY <2>7, <2>9
  <2> HIDE DEF cancels
  <2> QED BY <2>2, <2>3, <2>4, <2>8, <2>10 DEF Fades, ReaderCancels
<1>2. PICK t : t = IF cancels THEN AbortFrames("core", c) ELSE <<>>
  OBVIOUS
<1>3. t \in Seq(Frames) /\ (\A i \in DOMAIN t : t[i].type = "streamAbort")
  BY <1>2, AbortFrameOf
<1>4. wire' = Written(wire, "core", IF cancels THEN call[c].conn ELSE 0, t)
  BY <1>2 DEF ReaderCancels, Written
<1> HIDE DEF cancels
<1>5. PICK n \in 0..opened : n = IF cancels THEN call[c].conn ELSE 0
  BY ConnOpened
<1> QED BY <1>1, <1>3, <1>4, <1>5, AsideStep DEF ReaderCancels, StreamInv, HandlersKnown, ToReceiver, Sides, netVars

\* The readers.
LEMMA ReadersStreams ==
    ASSUME StreamInv, Orderly', NEW c \in Calls, ReadsToEnd(c) \/ ReadFails(c) \/ HandlerStops(c)
    PROVE  StreamInv'
<1>1. /\ Kept(c) /\ rcv \in [Calls -> Receivers] /\ rcv[c] \in Receivers /\ rcv[c].taken \in Nat /\ rcv[c].next \in Nat
  BY Records DEF StreamInv, Orderly, StreamTypes
<1>2. call[c].conn # 0
  BY <1>1 DEF ReadsToEnd, ReadFails, HandlerStops, Kept, FreshReceiver
<1>3. PICK x \in {"whole", "failed", "stopped"} :
          /\ rcv' = [rcv EXCEPT ![c].reader = x]
          /\ x = "whole" => rcv[c].ended /\ Queued(c) = 0
  BY DEF ReadsToEnd, ReadFails, HandlerStops
<1>4. /\ rcv'[c].opened = rcv[c].opened /\ rcv'[c].next = rcv[c].next /\ rcv'[c].taken = rcv[c].taken
      /\ rcv'[c].ended = rcv[c].ended /\ rcv'[c].failed = rcv[c].failed /\ rcv'[c].reader = x
  BY <1>1, <1>3 DEF Receivers
<1>5. UNCHANGED <<call, netVars, wire, handler, table, snd>>
  BY DEF ReadsToEnd, ReadFails, HandlerStops
<1>6. ASSUME NEW d \in Calls \ {c} PROVE Kept(d)' /\ Steady(d)
  <2>1. Fades(d)
    BY <1>1, <1>3, <1>5, Untouched
  <2> QED BY <2>1, FadesSteady
<1>7. Kept(c)'
  <2>1. x = "whole" => rcv[c].taken = rcv[c].next
    BY <1>1, <1>3 DEF Queued, Kept
  <2> QED BY <1>1, <1>2, <1>3, <1>4, <1>5, <2>1 DEF Kept, Live, ReceiverSide
<1>8. Steady(c)
  BY <1>1, <1>4, <1>5 DEF Steady, Served, Requests, Ask, Frame, Live, ReceiverSide, Had, Sent, Stream, Opening
<1> QED BY <1>5, <1>6, <1>7, <1>8, QuietStep DEF StreamInv, HandlersKnown, netVars

-----------------------------------------------------------------------------
(* Steps that send of a stream, or acknowledge *)

LEMMA FrameIs ==
    ASSUME NEW f \in CallFrames
    PROVE  f = Frame(f.type, f.call, f.n)
BY DEF CallFrames, Frame

\* The frames of one call.
LEMMA CallStep ==
    ASSUME StreamInv, Orderly', HandlersKnown', NEW c \in Calls, NEW s \in Sides, NEW t \in Seq(Frames),
           call[c].conn # 0, wire' = Written(wire, s, call[c].conn, t),
           UNCHANGED <<socket, opened, up, down>>,
           \A i \in DOMAIN t :
               /\ t[i].call = c /\ t[i].type # "execute"
               /\ t[i].type \in ToReceiver => s = SenderSide(c)
               /\ t[i].type = "streamAck" => t[i].n < rcv'[c].taken,
           \A d \in Calls \ {c} : Fades(d),
           Kept(c)', Writing(c, t)
    PROVE  StreamInv'
<1>1. PICK p \in Sides : p = Peer(s)
  BY DEF Peer, Sides
<1>2. PICK n \in 0..opened : n = call[c].conn
  BY ConnOpened
<1>3. call'[c].conn = n /\ call'[c].kind = call[c].kind
  BY <1>2 DEF Writing
<1>7. s = SenderSide(c) => p = ReceiverSide(c)'
  BY <1>1, <1>3, Records DEF SenderSide, ReceiverSide, Peer
<1>4. \A i \in DOMAIN t : Placed(t[i], p, n)'
  BY <1>3, <1>7 DEF Placed
<1>5. ASSUME NEW d \in Calls PROVE Kept(d)' /\ Writing(d, t)
  <2>1. CASE d # c
    <3>1. \A i \in DOMAIN t : t[i] \notin Requests(d) /\ t[i] \notin Stream(d)
      BY <2>1 DEF Requests, Stream, Ask, Frame
    <3> QED BY <2>1, <3>1, FadesWriting
  <2> QED BY <2>1
<1> QED BY <1>1, <1>2, <1>4, <1>5, WriteStep

\* What may be sent next.
LEMMA NextToSend ==
    ASSUME StreamInv, NEW c \in Calls, snd[c].feed = "busy",
           NEW last \in {Frame("streamData", c, snd[c].seq), Frame("streamEnd", c, snd[c].seq)}
    PROVE  /\ last \in CallFrames /\ last \in Stream(c) /\ last \notin Sent(c) /\ last # Opening(c)
           /\ Opening(c) \in CallFrames /\ Opening(c) \in Stream(c)
           /\ snd[c].opened <=> Opening(c) \in Sent(c)
           /\ Before(Opening(c)) \cap Stream(c) \subseteq Sent(c)
           /\ Before(last) \cap Stream(c) \subseteq Sent(c) \cup {Opening(c)}
<1>1. snd[c].seq \in Nat
  BY Records
<1>2. last \in CallFrames /\ last \in Stream(c) /\ last \notin Sent(c) /\ last # Opening(c)
      /\ Opening(c) \in CallFrames /\ Opening(c) \in Stream(c)
  BY <1>1 DEF CallFrames, Stream, ToReceiver, Frame, Opening, Sent, Ask
<1>3. snd[c].opened <=> Opening(c) \in Sent(c)
  BY <1>2 DEF Sent, Opening, Ask, Frame
<1>4. ASSUME NEW g \in Stream(c), g = Ask(c) PROVE g \in Sent(c)
  BY <1>4 DEF Sent
<1>5. Before(Opening(c)) \cap Stream(c) \subseteq Sent(c)
  BY <1>4 DEF Before, Opening, Frame
<1>6. ASSUME NEW g \in Before(last), g \in Stream(c) PROVE g \in Sent(c) \cup {Opening(c)}
  <2>1. last.call = c /\ last.n = snd[c].seq
    BY DEF Frame
  <2>2. g = Ask(c) \/ g = Opening(c) \/ (g.type = "streamData" /\ g.n < snd[c].seq)
    BY <1>6, <2>1 DEF Before
  <2> QED BY <1>4, <1>6, <2>2 DEF Sent
<1> QED BY <1>2, <1>3, <1>5, <1>6

LEMMA SameSeq ==
    ASSUME NEW S, NEW u \in Seq(S), NEW v \in Seq(S), Len(u) = Len(v), \A i \in 1..Len(u) : u[i] = v[i]
    PROVE  u = v
OBVIOUS

LEMMA JoinedLen ==
    ASSUME NEW S, NEW w \in Seq(S), NEW t \in Seq(S)
    PROVE  Len(w \o t) = Len(w) + Len(t)
OBVIOUS

LEMMA Pushed ==
    ASSUME NEW S, NEW w \in Seq(S), NEW t \in Seq(S), NEW d, Len(t) = 1, t[1] = d
    PROVE  /\ w \o t \in Seq(S) /\ Len(w \o t) = Len(w) + 1 /\ (w \o t)[Len(w) + 1] = d
           /\ \A i \in 1..Len(w) : (w \o t)[i] = w[i]
<1>1. w \o t \in Seq(S)
  BY Joined
<1>3. Len(w \o t) = Len(w) + Len(t)
  BY JoinedLen
<1>2. 1 \in DOMAIN t /\ DOMAIN w = 1..Len(w)
  OBVIOUS
<1> QED BY <1>1, <1>2, <1>3, Joined

LEMMA Pair ==
    ASSUME NEW S, NEW a \in S, NEW b \in S
    PROVE  <<a>> \o <<b>> = <<a, b>>
<1>1. PICK p, q, u : p = <<a>> /\ q = <<b>> /\ u = <<a, b>>
  OBVIOUS
<1>2. /\ p \in Seq(S) /\ Len(p) = 1 /\ p[1] = a
      /\ q \in Seq(S) /\ Len(q) = 1 /\ q[1] = b
      /\ u \in Seq(S) /\ Len(u) = 2 /\ u[1] = a /\ u[2] = b
  BY <1>1
<1>3. PICK v : v = p \o q
  OBVIOUS
<1>4. v \in Seq(S) /\ Len(v) = 1 + 1 /\ v[1 + 1] = b /\ \A i \in 1..1 : v[i] = p[i]
  BY <1>2, <1>3, Pushed
<1>5. v = u
  <2>1. Len(v) = 2 /\ v[2] = b /\ v[1] = a
    BY <1>2, <1>4
  <2>2. \A i \in 1..Len(v) : v[i] = u[i]
    BY <1>2, <2>1
  <2> QED BY <1>2, <1>4, <2>1, <2>2, SameSeq
<1> QED BY <1>1, <1>3, <1>5, Zenon

LEMMA Triple ==
    ASSUME NEW S, NEW a \in S, NEW b \in S, NEW d \in S
    PROVE  <<a, b>> \o <<d>> = <<a, b, d>>
<1>1. PICK p, q, u : p = <<a, b>> /\ q = <<d>> /\ u = <<a, b, d>>
  OBVIOUS
<1>2. /\ p \in Seq(S) /\ Len(p) = 2 /\ p[1] = a /\ p[2] = b
      /\ q \in Seq(S) /\ Len(q) = 1 /\ q[1] = d
      /\ u \in Seq(S) /\ Len(u) = 3 /\ u[1] = a /\ u[2] = b /\ u[3] = d
  BY <1>1
<1>3. PICK v : v = p \o q
  OBVIOUS
<1>4. v \in Seq(S) /\ Len(v) = Len(p) + 1 /\ v[Len(p) + 1] = d /\ \A i \in 1..Len(p) : v[i] = p[i]
  <2>1. p \in Seq(S) /\ q \in Seq(S) /\ Len(q) = 1 /\ q[1] = d
    BY <1>2
  <2> QED BY <1>3, <2>1, Pushed
<1>5. v = u
  <2>1. Len(v) = 3 /\ v[3] = d /\ v[2] = b /\ v[1] = a
    BY <1>2, <1>4
  <2>2. \A i \in 1..Len(v) : v[i] = u[i]
    BY <1>2, <2>1
  <2> QED BY <1>2, <1>4, <2>1, <2>2, SameSeq
<1> QED BY <1>1, <1>3, <1>5, Zenon

\* The opening, if it was not sent, the last frame, and what others may follow.
LEMMA Sending ==
    ASSUME StreamInv, NEW c \in Calls, snd[c].feed = "busy",
           NEW last \in {Frame("streamData", c, snd[c].seq), Frame("streamEnd", c, snd[c].seq)},
           NEW x \in {0, 1}, NEW t,
           \/ t = OpenFrames(c) \o <<last>>
           \/ t = (OpenFrames(c) \o <<last>>) \o <<Frame("reply", c, x)>>,
           Sent(c)' = Sent(c) \cup {Opening(c), last}
    PROVE  /\ t \in Seq(Frames)
           /\ \A i \in DOMAIN t : t[i].call = c /\ t[i].type \in ToReceiver \cup {"reply"}
           /\ Follows(t, Stream(c), Sent(c), Sent(c)')
<1>1. PICK o : o = Opening(c)
  OBVIOUS
<1>2. PICK r : r = Frame("reply", c, x)
  OBVIOUS
<1>3. r \in CallFrames /\ r \notin Stream(c) /\ r.type = "reply" /\ r.call = c
  BY <1>2 DEF CallFrames, Frame, Stream, ToReceiver
<1>4. /\ last \in CallFrames /\ last \in Stream(c) /\ last \notin Sent(c) /\ last # o
      /\ o \in CallFrames /\ o \in Stream(c)
      /\ snd[c].opened <=> o \in Sent(c)
      /\ Before(o) \cap Stream(c) \subseteq Sent(c)
      /\ Before(last) \cap Stream(c) \subseteq Sent(c) \cup {o}
      /\ Sent(c)' = Sent(c) \cup {o, last}
  BY <1>1, NextToSend
<1>5. o.call = c /\ o.type \in ToReceiver /\ last.call = c /\ last.type \in ToReceiver
  BY <1>1 DEF Opening, Frame, ToReceiver
<1>6. t \in {<<last>>, <<last, r>>, <<o, last>>, <<o, last, r>>}
      /\ (t \in {<<last>>, <<last, r>>} => snd[c].opened)
      /\ (t \in {<<o, last>>, <<o, last, r>>} => ~snd[c].opened)
  <2>1. CASE snd[c].opened
    <3>1. OpenFrames(c) = <<>>
      BY <2>1 DEF OpenFrames
    <3>2. <<>> \o <<last>> = <<last>> /\ <<last>> \o <<r>> = <<last, r>>
      BY <1>3, <1>4, Pair
    <3>3. t \in {<<last>>, <<last, r>>}
      BY <1>2, <3>1, <3>2
    <3>4. last # o
      BY <1>4
    <3>5. t[1] = last
      BY <3>3
    <3>6. t \notin {<<o, last>>, <<o, last, r>>}
      BY <3>4, <3>5
    <3> QED BY <2>1, <3>3, <3>6
  <2>2. CASE ~snd[c].opened
    <3>1. OpenFrames(c) = <<o>>
      BY <1>1, <2>2 DEF OpenFrames, Opening
    <3>2. <<o>> \o <<last>> = <<o, last>> /\ <<o, last>> \o <<r>> = <<o, last, r>>
      BY <1>3, <1>4, Pair, Triple
    <3>3. t \in {<<o, last>>, <<o, last, r>>}
      BY <1>2, <3>1, <3>2
    <3>4. last # o
      BY <1>4
    <3>5. t[1] = o
      BY <3>3
    <3>6. t \notin {<<last>>, <<last, r>>}
      BY <3>4, <3>5
    <3> QED BY <2>2, <3>3, <3>6
  <2> QED BY <2>1, <2>2
<1>7. t \in Seq(Frames)
  BY <1>3, <1>4, <1>6 DEF Frames
<1>8. \A i \in DOMAIN t : t[i] \in {o, last, r}
  BY <1>6
<1>9. Follows(t, Stream(c), Sent(c), Sent(c)')
  <2>1. CASE t \in {<<last>>, <<last, r>>}
    <3>1. (\A i \in DOMAIN t : t[i] \in Stream(c) => i = 1 /\ t[i] = last) /\ 1 \in DOMAIN t /\ t[1] = last
      BY <1>3, <2>1
    <3> QED BY <1>4, <1>6, <2>1, <3>1 DEF Follows
  <2>2. CASE t \in {<<o, last>>, <<o, last, r>>}
    <3>1. /\ \A i \in DOMAIN t : t[i] \in Stream(c) => (i = 1 /\ t[i] = o) \/ (i = 2 /\ t[i] = last)
          /\ 1 \in DOMAIN t /\ t[1] = o /\ 2 \in DOMAIN t /\ t[2] = last /\ 1 \in 1..(2 - 1)
      BY <1>3, <2>2
    <3>2. ASSUME NEW i \in DOMAIN t, t[i] \in Stream(c)
          PROVE  /\ t[i] \in Sent(c)' /\ t[i] \notin Sent(c)
                 /\ \A g \in Before(t[i]) \cap Stream(c) : g \in Sent(c) \/ \E j \in 1..(i - 1) : t[j] = g
      BY <1>4, <1>6, <2>2, <3>1, <3>2
    <3>3. ASSUME NEW i \in DOMAIN t, NEW j \in DOMAIN t, t[i] \in Stream(c), t[i] = t[j] PROVE i = j
      BY <1>4, <3>1, <3>3
    <3>4. \A f \in Sent(c)' : f \in Sent(c) \/ \E i \in DOMAIN t : t[i] = f
      BY <1>4, <3>1
    <3> QED BY <3>2, <3>3, <3>4 DEF Follows
  <2> QED BY <1>6, <2>1, <2>2
<1> QED BY <1>3, <1>5, <1>7, <1>8, <1>9

LEMMA TakeStreams ==
    ASSUME StreamInv, Orderly', NEW c \in Calls, Take(c)
    PROVE  StreamInv'
<1>1. /\ Kept(c) /\ rcv \in [Calls -> Receivers] /\ rcv[c] \in Receivers /\ snd[c].acked \in Nat
      /\ rcv[c].taken \in Nat /\ rcv[c].next \in Nat /\ ReceiverSide(c) \in Sides
  BY Records DEF StreamInv, Orderly, StreamTypes
<1>2. /\ rcv'[c] = [rcv[c] EXCEPT !.taken = rcv[c].taken + 1]
      /\ \A d \in Calls : d # c => rcv'[d] = rcv[d]
  BY <1>1 DEF Take
<1>3. /\ rcv'[c].opened = rcv[c].opened /\ rcv'[c].next = rcv[c].next /\ rcv'[c].taken = rcv[c].taken + 1
      /\ rcv'[c].ended = rcv[c].ended /\ rcv'[c].failed = rcv[c].failed /\ rcv'[c].reader = "busy"
  BY <1>1, <1>2 DEF Receivers, Take
<1>4. UNCHANGED <<call, netVars, handler, table, snd>>
  BY DEF Take
<1>12. PICK ack : ack = Frame("streamAck", c, rcv[c].taken)
  OBVIOUS
<1>5. PICK t : t = <<ack>>
  OBVIOUS
<1>6. /\ ack \in CallFrames /\ ack.call = c /\ ack.type = "streamAck" /\ ack.n = rcv[c].taken
      /\ t \in Seq(Frames) /\ \A i \in DOMAIN t : t[i] = ack
  BY <1>1, <1>5, <1>12 DEF Frames, CallFrames, Frame
<1>7. wire' = Written(wire, ReceiverSide(c), LinkOf(ReceiverSide(c), c), t)
  BY <1>5, <1>12 DEF Take
<1>8. rcv[c].taken < rcv'[c].taken
  BY <1>1, <1>3
<1>15. call[c].conn # 0
  BY <1>1 DEF Take, Kept, FreshReceiver
<1>9. Kept(c)'
  <2>1. rcv[c].taken + 1 <= rcv[c].next
    BY <1>1 DEF Take, Queued
  <2> QED BY <1>1, <1>3, <1>4, <1>15, <2>1 DEF Kept, Live, ReceiverSide
<1>10. Writing(c, t)
  <2>1. \A i \in DOMAIN t : t[i] \notin Requests(c) /\ t[i] \notin Stream(c)
    BY <1>6 DEF Requests, Stream, Ask, Frame, ToReceiver
  <2>2. Follows(t, Stream(c), Sent(c), Sent(c))
    BY <1>6, <2>1, NothingOfIt
  <2>3. /\ Served(c)' = Served(c) /\ Live(c)' = Live(c) /\ Had(c)' = Had(c) /\ Sent(c)' = Sent(c)
    BY <1>3, <1>4 DEF Served, Requests, Ask, Frame, Live, ReceiverSide, Had, Sent, Stream, Opening
  <2> QED BY <1>1, <1>3, <1>4, <2>1, <2>2, <2>3 DEF Writing
<1>11. \A d \in Calls \ {c} : Fades(d)
  BY <1>2, <1>4, Untouched
<1>13. HandlersKnown' /\ UNCHANGED <<socket, opened, up, down>>
  BY <1>4 DEF StreamInv, HandlersKnown, netVars
<1>14. PICK s \in Sides, p \in Sides, n \in 0..opened :
          s = ReceiverSide(c) /\ p = Peer(s) /\ n = LinkOf(s, c)
  BY <1>1 DEF Peer, Sides, LinkOf, StreamInv, EndsKnown
<1>16. \A i \in DOMAIN t : Placed(t[i], p, n)'
  BY <1>6, <1>8 DEF Placed, ToReceiver
<1>17. ASSUME NEW d \in Calls PROVE Kept(d)' /\ Writing(d, t)
  <2>1. CASE d # c
    <3>1. \A i \in DOMAIN t : t[i] \notin Requests(d) /\ t[i] \notin Stream(d)
      BY <1>6, <2>1 DEF Requests, Stream, Ask, Frame
    <3> QED BY <1>6, <1>11, <2>1, <3>1, FadesWriting
  <2> QED BY <1>9, <1>10, <2>1
<1> QED BY <1>6, <1>7, <1>13, <1>14, <1>16, <1>17, WriteStep

\* What a chunk, or the end, adds to what was sent.
LEMMA SentNow ==
    ASSUME StreamInv, NEW c \in Calls, snd[c].feed = "busy", call'[c] = call[c], NEW last,
           \/ /\ last = Frame("streamData", c, snd[c].seq)
              /\ snd'[c].seq = snd[c].seq + 1 /\ snd'[c].opened = TRUE /\ snd'[c].feed = "busy"
           \/ /\ last = Frame("streamEnd", c, snd[c].seq)
              /\ snd'[c].seq = snd[c].seq /\ snd'[c].feed = "ended"
    PROVE  Sent(c)' = Sent(c) \cup {Opening(c), last}
<1>1. snd[c].seq \in Nat /\ Stream(c)' = Stream(c) /\ Ask(c)' = Ask(c) /\ Opening(c)' = Opening(c)
  BY Records DEF Stream, Ask, Opening, Frame
<1>2. last \in Stream(c) /\ Opening(c) \in Stream(c) /\ last # Opening(c)
  BY NextToSend
<1>3. last.type \in {"streamData", "streamEnd"} /\ last.n = snd[c].seq
  BY DEF Frame
<1>4. \A f \in Stream(c) : f.n \in Nat /\ f.call = c /\ f = Frame(f.type, c, f.n)
  BY FrameIs DEF Stream, CallFrames
<1>5. CASE /\ last = Frame("streamData", c, snd[c].seq)
           /\ snd'[c].seq = snd[c].seq + 1 /\ snd'[c].opened = TRUE /\ snd'[c].feed = "busy"
  <2>1. ASSUME NEW f \in Stream(c)
        PROVE  f \in Sent(c)' <=> f \in Sent(c) \/ f = Opening(c) \/ f = last
    <3>1. f.type = "streamData" => (f.n < snd[c].seq + 1 <=> f.n < snd[c].seq \/ f = last)
      <4>1. f.type = "streamData" /\ f.n = snd[c].seq => f = last
        BY <1>4, <1>5
      <4>2. f = last => f.n = snd[c].seq
        BY <1>3
      <4> QED BY <1>1, <1>4, <4>1, <4>2
    <3>2. f = last => f.type = "streamData"
      BY <1>5 DEF Frame
    <3> QED BY <1>1, <1>5, <2>1, <3>1, <3>2 DEF Sent
  <2> QED BY <1>1, <1>2, <2>1 DEF Sent
<1>6. CASE /\ last = Frame("streamEnd", c, snd[c].seq)
           /\ snd'[c].seq = snd[c].seq /\ snd'[c].feed = "ended"
  <2>1. ASSUME NEW f \in Stream(c)
        PROVE  f \in Sent(c)' <=> f \in Sent(c) \/ f = Opening(c) \/ f = last
    BY <1>1, <1>6, <2>1 DEF Sent
  <2> QED BY <1>1, <1>2, <2>1 DEF Sent
<1> QED BY <1>5, <1>6

\* A step that sends of the stream of c.
LEMMA SendStep ==
    ASSUME StreamInv, Orderly', HandlersKnown', NEW c \in Calls, call[c].conn # 0, snd[c].feed = "busy", call'[c] = call[c],
           NEW last \in {Frame("streamData", c, snd[c].seq), Frame("streamEnd", c, snd[c].seq)},
           \/ /\ last = Frame("streamData", c, snd[c].seq)
              /\ snd'[c].seq = snd[c].seq + 1 /\ snd'[c].opened = TRUE /\ snd'[c].feed = "busy"
           \/ /\ last = Frame("streamEnd", c, snd[c].seq)
              /\ snd'[c].seq = snd[c].seq /\ snd'[c].feed = "ended",
           NEW x \in {0, 1}, NEW t,
           \/ t = OpenFrames(c) \o <<last>>
           \/ t = (OpenFrames(c) \o <<last>>) \o <<Frame("reply", c, x)>>,
           wire' = Written(wire, SenderSide(c), call[c].conn, t),
           UNCHANGED <<socket, opened, up, down>>,
           \A d \in Calls \ {c} : Fades(d),
           Kept(c)', (handler'[c] = "off") = (handler[c] = "off"), rcv'[c] = rcv[c], Live(c)' => Live(c)
    PROVE  StreamInv'
<1>1. Sent(c)' = Sent(c) \cup {Opening(c), last}
  BY SentNow
<1>2. /\ t \in Seq(Frames)
      /\ \A i \in DOMAIN t : t[i].call = c /\ t[i].type \in ToReceiver \cup {"reply"}
      /\ Follows(t, Stream(c), Sent(c), Sent(c)')
  BY <1>1, Sending
<1>3. Writing(c, t)
  <2>1. \A i \in DOMAIN t : t[i] \notin Requests(c)
    BY <1>2 DEF Requests, Ask, Frame, ToReceiver
  <2>2. Served(c)' = Served(c) /\ Had(c)' = Had(c)
    BY DEF Served, Requests, Ask, Frame, Had, Stream, Opening
  <2>3. rcv'[c].taken >= rcv[c].taken
    BY Records
  <2> QED BY <1>1, <1>2, <2>1, <2>2, <2>3 DEF Writing
<1>4. SenderSide(c) \in Sides
  BY SidesOf
<1>5. \A i \in DOMAIN t :
          /\ t[i].call = c /\ t[i].type # "execute"
          /\ t[i].type \in ToReceiver => SenderSide(c) = SenderSide(c)
          /\ t[i].type = "streamAck" => t[i].n < rcv'[c].taken
  BY <1>2 DEF ToReceiver
<1> QED BY <1>2, <1>3, <1>4, <1>5, CallStep

LEMMA SendStreams ==
    ASSUME StreamInv, Orderly', NEW c \in Calls, Send(c) \/ SourceEnds(c)
    PROVE  StreamInv'
<1>1. /\ Kept(c) /\ snd \in [Calls -> Senders] /\ snd[c] \in Senders /\ snd[c].seq \in Nat /\ snd[c].acked \in Nat
      /\ Window \in Nat
  BY Records, WindowAssumption DEF StreamInv, Orderly, StreamTypes
<1>2. UNCHANGED <<call, netVars, handler, table, rcv>> /\ snd[c].feed = "busy" /\ ~snd[c].failed
  BY DEF Send, SourceEnds
<1>3. call[c].conn # 0
  BY <1>1, <1>2 DEF Kept, FreshSender
<1>4. HandlersKnown' /\ UNCHANGED <<socket, opened, up, down>>
  BY <1>2 DEF StreamInv, HandlersKnown, netVars
<1>5. \A d \in Calls \ {c} : Fades(d)
  BY <1>1, <1>2, Untouched DEF Send, SourceEnds
<1>6. Live(c)' = Live(c)
  BY <1>2 DEF Live, ReceiverSide
<1>7. CASE Send(c)
  <2>1. PICK t : t = OpenFrames(c) \o <<Frame("streamData", c, snd[c].seq)>>
    OBVIOUS
  <2>2. wire' = Written(wire, SenderSide(c), call[c].conn, t)
    BY <1>7, <2>1 DEF Send
  <2>3. snd'[c].seq = snd[c].seq + 1 /\ snd'[c].opened = TRUE /\ snd'[c].feed = "busy" /\ snd'[c].acked = snd[c].acked
    BY <1>1, <1>2, <1>7 DEF Send, Senders
  <2>4. Kept(c)'
    <3>1. snd[c].seq + 1 - snd[c].acked <= Window
      BY <1>1, <1>7 DEF Send
    <3>2. ~rcv[c].ended
      BY <1>1, <1>2 DEF Kept
    <3> QED BY <1>1, <1>2, <1>3, <1>6, <2>3, <3>1, <3>2 DEF Kept
  <2> QED BY <1>2, <1>3, <1>4, <1>5, <1>6, <2>1, <2>2, <2>3, <2>4, SendStep
<1>8. CASE SourceEnds(c)
  <2>1. PICK t : t = OpenFrames(c) \o <<Frame("streamEnd", c, snd[c].seq)>>
    OBVIOUS
  <2>2. SenderSide(c) = "core" /\ call[c].kind = "upload"
    BY <1>8 DEF SourceEnds, SenderSide
  <2>3. wire' = Written(wire, SenderSide(c), call[c].conn, t)
    BY <1>8, <2>1, <2>2 DEF SourceEnds
  <2>4. snd'[c].seq = snd[c].seq /\ snd'[c].feed = "ended" /\ snd'[c].acked = snd[c].acked
    BY <1>1, <1>2, <1>8 DEF SourceEnds, Senders
  <2>5. Kept(c)'
    <3>1. ~rcv[c].ended
      BY <1>1, <1>2 DEF Kept
    <3> QED BY <1>1, <1>2, <1>3, <1>6, <2>2, <2>4, <3>1 DEF Kept
  <2> QED BY <1>2, <1>3, <1>4, <1>5, <1>6, <2>1, <2>3, <2>4, <2>5, SendStep
<1> QED BY <1>7, <1>8

LEMMA HandlerReturnsStreams ==
    ASSUME StreamInv, Orderly', NEW c \in Calls, NEW ok \in BOOLEAN, HandlerReturns(c, ok)
    PROVE  StreamInv'
<1>1. /\ Kept(c) /\ snd \in [Calls -> Senders] /\ snd[c] \in Senders /\ table \in [Sides -> SUBSET Calls]
      /\ handler \in [Calls -> {"off", "running", "returned", "gone"}]
      /\ call[c].kind \in {"plain", "upload", "download"}
  BY Records DEF StreamInv, Orderly, StreamTypes, HandlersKnown
<1>2. /\ UNCHANGED <<call, netVars, rcv>> /\ handler[c] = "running" /\ handler'[c] = "returned"
      /\ \A d \in Calls : d # c => handler'[d] = handler[d] /\ snd'[d] = snd[d]
      /\ \A q \in Sides, d \in Calls : d \in table'[q] => d \in table[q]
      /\ c \notin table'["worker"] /\ "worker" \in Sides
  BY <1>1 DEF HandlerReturns, Sides
<1>3. HandlersKnown' /\ UNCHANGED <<socket, opened, up, down>>
  BY <1>1, <1>2 DEF HandlerReturns, HandlersKnown, netVars
<1>4. call[c].conn # 0
  BY <1>1, <1>2 DEF Kept
<1>5. \A d \in Calls \ {c} : Fades(d)
  BY <1>2, Untouched
<1>6. wire' = Written(wire, "worker", call[c].conn, ReplyFrames(c, ok))
  BY DEF HandlerReturns
<1>7. CASE ok /\ call[c].kind = "download" /\ c \in table["worker"]
  <2>1. PICK t : t = (OpenFrames(c) \o <<Frame("streamEnd", c, snd[c].seq)>>) \o <<Frame("reply", c, 1)>>
    OBVIOUS
  <2>2. t = ReplyFrames(c, ok) /\ SenderSide(c) = "worker"
    BY <1>7, <2>1 DEF ReplyFrames, SenderSide
  <2>3. snd[c].feed = "busy" /\ snd'[c].seq = snd[c].seq /\ snd'[c].feed = "ended" /\ snd'[c].acked = snd[c].acked
    BY <1>1, <1>2, <1>7 DEF HandlerReturns, Senders, Kept
  <2>4. Live(c)' => Live(c)
    BY <1>2, <1>7 DEF Live, ReceiverSide, Sides
  <2>5. Kept(c)'
    <3>1. ~rcv[c].ended
      BY <1>1, <2>3 DEF Kept
    <3> QED BY <1>1, <1>2, <1>4, <2>3, <2>4, <3>1 DEF Kept
  <2> QED BY <1>2, <1>3, <1>4, <1>5, <1>6, <2>1, <2>2, <2>3, <2>4, <2>5, SendStep
<1>8. CASE ~(ok /\ call[c].kind = "download" /\ c \in table["worker"])
  <2>1. PICK t : t = ReplyFrames(c, ok)
    OBVIOUS
  <2>2. t \in Seq(Frames)
    BY <2>1, ReplyFrameTypes DEF StreamInv
  <2>3. \A i \in DOMAIN t : t[i].type \in {"streamAbort", "reply"}
    <3>1. PICK a, r : a = AbortFrames("worker", c) /\ r = <<Frame("reply", c, IF ok THEN 1 ELSE 0)>>
      OBVIOUS
    <3>4. a \in Seq(Frames) /\ r \in Seq(Frames)
      <4>1. Frame("reply", c, IF ok THEN 1 ELSE 0) \in Frames
        BY FrameTypes
      <4> QED BY <3>1, <4>1, AbortFrameTypes
    <3>2. (\A i \in DOMAIN a : a[i].type = "streamAbort") /\ (\A i \in DOMAIN r : r[i].type = "reply")
      BY <3>1, AbortFrameOf DEF Frame
    <3>3. t \in {r, a \o r, r \o a}
      <4>1. <<>> \o r = r /\ r \o <<>> = r
        OBVIOUS
      <4> QED BY <1>1, <1>8, <2>1, <3>1, <3>4, <4>1 DEF ReplyFrames
    <3>5. ASSUME NEW w \in Seq(Frames), NEW v \in Seq(Frames),
                 \A i \in DOMAIN w : w[i].type \in {"streamAbort", "reply"},
                 \A i \in DOMAIN v : v[i].type \in {"streamAbort", "reply"},
                 NEW i \in DOMAIN (w \o v)
          PROVE  (w \o v)[i].type \in {"streamAbort", "reply"}
      <4>1. \/ i \in DOMAIN w /\ (w \o v)[i] = w[i]
            \/ i - Len(w) \in DOMAIN v /\ (w \o v)[i] = v[i - Len(w)]
        BY Joined
      <4> QED BY <3>5, <4>1
    <3>6. CASE t = r
      BY <3>2, <3>6
    <3>7. CASE t = a \o r
      BY <3>2, <3>4, <3>5, <3>7
    <3>8. CASE t = r \o a
      BY <3>2, <3>4, <3>5, <3>8
    <3> QED BY <3>3, <3>6, <3>7, <3>8
  <2>4. Fades(c)
    <3>1. /\ snd'[c].seq = snd[c].seq /\ snd'[c].acked = snd[c].acked /\ snd'[c].opened = snd[c].opened
          /\ snd'[c].feed = snd[c].feed \/ (snd[c].feed = "busy" /\ snd'[c].feed = "failed")
      BY <1>1, <1>2, <1>8 DEF HandlerReturns, Senders, Kept
    <3> QED BY <1>2, <1>4, <3>1 DEF Fades
  <2> QED BY <1>3, <1>5, <1>6, <2>1, <2>2, <2>3, <2>4, ConnOpened, AsideStep DEF Sides, ToReceiver
<1> QED BY <1>7, <1>8

-----------------------------------------------------------------------------
(* Steps that read *)

LEMMA HeadIs ==
    ASSUME StreamInv, NEW s \in Sides, NEW n \in Conns, wire[s][n] # <<>>
    PROVE  /\ wire[s][n] \in Seq(Frames) /\ Head(wire[s][n]) \in Frames
           /\ 1 \in DOMAIN wire[s][n] /\ Head(wire[s][n]) = wire[s][n][1]
           /\ Placed(Head(wire[s][n]), s, n)
<1>1. wire[s][n] \in Seq(Frames)
  BY Records DEF Wires
<1>2. 1 \in DOMAIN wire[s][n] /\ Head(wire[s][n]) = wire[s][n][1] /\ Head(wire[s][n]) \in Frames
  BY <1>1
<1> QED BY <1>1, <1>2 DEF StreamInv, AllPlaced

\* The first of a flow was not had, and all that must come before it was.
LEMMA FirstOfFlow ==
    ASSUME NEW w \in Seq(Frames), 1 \in DOMAIN w, NEW own, NEW had, NEW sent, NEW cut,
           Flow(w, own, had, sent, cut), w[1] \in own
    PROVE  w[1] \in sent /\ w[1] \notin had /\ Before(w[1]) \cap own \subseteq had
<1>1. \A j \in 1..(1 - 1) : FALSE
  OBVIOUS
<1>2. \A g \in Before(w[1]) \cap own : g \in had \/ \E j \in 1..(1 - 1) : w[j] = g
  BY DEF Flow
<1>3. w[1] \in sent /\ w[1] \notin had
  BY DEF Flow
<1> QED BY <1>1, <1>2, <1>3

LEMMA HeadOfStream ==
    ASSUME StreamInv, NEW s \in Sides, NEW n \in Conns, wire[s][n] # <<>>, NEW c \in Calls, Live(c),
           NEW f, f = Head(wire[s][n]), f \in Stream(c)
    PROVE  /\ s = ReceiverSide(c) /\ n = call[c].conn
           /\ f \in Sent(c) /\ f \notin Had(c) /\ Before(f) \cap Stream(c) \subseteq Had(c)
           /\ Had(c) \subseteq Sent(c)
<1>1. wire[s][n] \in Seq(Frames) /\ 1 \in DOMAIN wire[s][n] /\ f = wire[s][n][1] /\ Placed(f, s, n)
  BY HeadIs
<1>2. s = ReceiverSide(c) /\ n = call[c].conn /\ n # 0
  BY <1>1, PlaceOfOwn DEF Conns
<1>3. Flow(wire[s][n], Stream(c), Had(c), Sent(c), n \in down)
  BY <1>2 DEF StreamInv, Flows
<1>4. Had(c) \subseteq Sent(c)
  BY <1>3 DEF Flow
<1> QED BY <1>1, <1>2, <1>3, <1>4, FirstOfFlow

LEMMA HeadOfRequests ==
    ASSUME StreamInv, NEW s \in Sides, NEW n \in Conns, wire[s][n] # <<>>, NEW c \in Calls,
           Ask(c) = Head(wire[s][n])
    PROVE  s = "worker" /\ n = call[c].conn /\ handler[c] = "off"
<1>1. PICK f : f = Ask(c)
  OBVIOUS
<1>2. wire[s][n] \in Seq(Frames) /\ 1 \in DOMAIN wire[s][n] /\ f = wire[s][n][1] /\ Placed(f, s, n) /\ f \in Requests(c)
  BY <1>1, HeadIs DEF Requests
<1>3. s = "worker" /\ n = call[c].conn /\ n # 0
  BY <1>2, PlaceOfOwn DEF Conns
<1>4. Flow(wire[s][n], Requests(c), Served(c), Asked(c), TRUE)
  BY <1>3 DEF StreamInv, Flows
<1>5. f \notin Served(c)
  BY <1>2, <1>4, FirstOfFlow
<1> QED BY <1>1, <1>3, <1>5 DEF Served, Requests

\* What a receiver is sent it accepts.
LEMMA Accepted ==
    ASSUME StreamInv, NEW s \in Sides, NEW n \in Conns, wire[s][n] # <<>>, NEW c \in Calls, c \in table[s],
           NEW f, f = Head(wire[s][n]), f \in Stream(c), f.type \in ToReceiver
    PROVE  ReceiverSide(c) = s /\ Accepts(c, f)
<1>1. /\ snd[c].seq \in Nat /\ snd[c].acked \in Nat /\ rcv[c].next \in Nat /\ rcv[c].taken \in Nat /\ Kept(c)
      /\ Window \in Nat
  BY Records, WindowAssumption DEF StreamInv
<1>2. s = ReceiverSide(c)
  <2>1. Placed(f, s, n)
    BY HeadIs
  <2> QED BY <2>1, PlaceOfOwn
<1>3. Live(c)
  BY <1>2 DEF Live
<1>4. f \in Sent(c) /\ f \notin Had(c) /\ Before(f) \cap Stream(c) \subseteq Had(c) /\ Had(c) \subseteq Sent(c)
  BY <1>3, HeadOfStream
<1>5. f \in CallFrames /\ f.call = c /\ f.n \in Nat /\ f = Frame(f.type, c, f.n)
  BY FrameIs DEF Stream, CallFrames
<1>6. \A k \in Nat : /\ Frame("streamData", c, k) \in CallFrames /\ Frame("streamData", c, k) \in Stream(c)
                     /\ Frame("streamData", c, k).type = "streamData" /\ Frame("streamData", c, k).n = k
                     /\ Frame("streamData", c, k).call = c /\ Frame("streamData", c, k) # Opening(c)
                     /\ Frame("streamData", c, k) # Ask(c)
                     /\ \A m \in Nat : Frame("streamData", c, k) # Frame("streamEnd", c, m)
  BY DEF Frame, CallFrames, Stream, ToReceiver, Opening, Ask
<1>7. Opening(c) \in CallFrames /\ Opening(c) \in Stream(c) /\ Opening(c).call = c /\ Opening(c).type = "streamOpen"
      /\ Opening(c) # Ask(c)
  BY DEF Frame, CallFrames, Stream, ToReceiver, Opening, Ask
<1>8. Opening(c) \in Had(c) => rcv[c].opened
  BY <1>7 DEF Had, Frame
<1>9. \A k \in Nat : Frame("streamData", c, k) \in Had(c) <=> k < rcv[c].next
  BY <1>1, <1>6 DEF Had
<1>10. CASE f.type = "streamOpen"
  <2>1. f = Opening(c)
    BY <1>4, <1>10 DEF Sent, Ask, Frame
  <2>2. ~rcv[c].opened
    BY <1>4, <1>7, <2>1 DEF Had
  <2> QED BY <1>2, <1>10, <2>2 DEF Accepts
<1>11. CASE f.type = "streamData"
  <2>1. f.n < snd[c].seq
    BY <1>4, <1>11 DEF Sent, Ask, Opening, Frame
  <2>2. rcv[c].opened
    BY <1>4, <1>5, <1>7, <1>8, <1>11 DEF Before
  <2>3. f.n >= rcv[c].next
    BY <1>1, <1>4, <1>5, <1>9, <1>11
  <2>4. ~(f.n > rcv[c].next)
    <3>1. ASSUME f.n > rcv[c].next PROVE Frame("streamData", c, rcv[c].next) \in Before(f)
      BY <1>1, <1>5, <1>6, <1>11, <3>1 DEF Before
    <3> QED BY <1>1, <1>4, <1>6, <1>9, <3>1
  <2>5. f.n = rcv[c].next
    BY <1>1, <1>5, <2>3, <2>4
  <2>6. ~rcv[c].ended
    BY <1>1, <2>1, <2>5 DEF Kept
  <2>7. Queued(c) < Window
    <3>1. ~rcv[c].failed /\ snd[c].seq - snd[c].acked <= Window /\ snd[c].acked <= rcv[c].taken
      BY <1>1, <1>3 DEF Kept
    <3> QED BY <1>1, <2>1, <2>5, <3>1 DEF Queued
  <2> QED BY <1>2, <1>11, <2>2, <2>5, <2>6, <2>7 DEF Accepts
<1>12. CASE f.type = "streamEnd"
  <2>1. f.n = snd[c].seq /\ snd[c].feed = "ended" /\ f = Frame("streamEnd", c, snd[c].seq)
    BY <1>4, <1>12 DEF Sent, Ask, Opening, Frame
  <2>2. rcv[c].opened
    BY <1>4, <1>5, <1>7, <1>8, <1>12 DEF Before
  <2>3. rcv[c].next <= snd[c].seq
    <3>1. ASSUME snd[c].seq < rcv[c].next PROVE FALSE
      <4>1. Frame("streamData", c, snd[c].seq) \in Had(c)
        BY <1>1, <1>9, <3>1
      <4>3. Frame("streamData", c, snd[c].seq) \in Sent(c)
        BY <1>4, <4>1
      <4> QED BY <1>1, <1>6, <4>3 DEF Sent
    <3> QED BY <1>1, <3>1
  <2>4. ~(rcv[c].next < snd[c].seq)
    <3>1. ASSUME rcv[c].next < snd[c].seq PROVE Frame("streamData", c, rcv[c].next) \in Before(f)
      BY <1>1, <1>5, <1>6, <1>12, <2>1, <3>1 DEF Before
    <3> QED BY <1>1, <1>4, <1>6, <1>9, <3>1
  <2>5. f.n = rcv[c].next
    BY <1>1, <2>1, <2>3, <2>4
  <2>6. ~rcv[c].ended
    <3>1. rcv[c].ended => f \in Had(c)
      BY <1>4, <2>1, <2>5 DEF Had, Sent
    <3> QED BY <1>4, <3>1
  <2> QED BY <1>2, <1>12, <2>2, <2>5, <2>6 DEF Accepts
<1> QED BY <1>10, <1>11, <1>12 DEF ToReceiver

\* A frame that nobody takes, or that ends streams.
LEMMA ReadAside ==
    ASSUME StreamInv, Orderly', HandlersKnown', NEW s \in Sides, NEW n \in Conns, wire[s][n] # <<>>,
           NEW m \in 0..opened, NEW t \in Seq(Frames), wire' = Written(Read(s, n), s, m, t),
           UNCHANGED <<socket, opened, up, down>>,
           \A i \in DOMAIN t : t[i].type \in {"helloAck", "streamAbort"},
           \A c \in Calls : Fades(c),
           \A c \in Calls : Head(wire[s][n]) \notin Requests(c) /\ (Head(wire[s][n]) \in Stream(c) => ~Live(c))
    PROVE  StreamInv'
<1>1. PICK f : f = Head(wire[s][n])
  OBVIOUS
<1>2. ASSUME NEW c \in Calls PROVE Kept(c)' /\ Reading(c, f)
  <2>1. f \notin Requests(c) /\ (f \in Stream(c) => ~Live(c))
    BY <1>1
  <2>2. Kept(c)' /\ Steady(c)
    BY FadesSteady
  <2> QED BY <2>1, <2>2 DEF Reading, Steady
<1>3. \A c \in Calls : Kept(c)' /\ Reading(c, Head(wire[s][n]))
  BY <1>1, <1>2
<1> QED BY <1>3, ReadStep

LEMMA NotOfStream ==
    ASSUME NEW f, f.type \notin {"execute", "streamOpen", "streamData", "streamEnd"}, NEW c \in Calls
    PROVE  f \notin Requests(c) /\ f \notin Stream(c)
BY DEF Requests, Stream, Ask, Frame, ToReceiver

LEMMA NothingMore ==
    ASSUME NEW w, NEW s \in Sides
    PROVE  \E t \in Seq(Frames) : w = Written(w, s, 0, t) /\ \A i \in DOMAIN t : FALSE
<1>1. <<>> \in Seq(Frames) /\ \A i \in DOMAIN <<>> : FALSE
  OBVIOUS
<1>2. w = Written(w, s, 0, <<>>)
  BY DEF Written
<1> QED BY <1>1, <1>2

\* What a frame adds to what the receiver has had.
LEMMA HadNow ==
    ASSUME StreamInv, NEW c \in Calls, NEW f \in Stream(c), f.type \in ToReceiver, Live(c), f \in Sent(c), f \notin Had(c),
           call[c].conn # 0, Accepts(c, f), rcv'[c] = Received(c, f), UNCHANGED <<call, handler, snd, table>>
    PROVE  Kept(c)' /\ Had(c)' = Had(c) \cup {f} /\ rcv'[c].taken = rcv[c].taken
<1>1. /\ Kept(c) /\ rcv[c] \in Receivers /\ rcv[c].taken \in Nat /\ rcv[c].next \in Nat /\ snd[c].seq \in Nat
      /\ ~rcv[c].failed /\ Live(c)' = Live(c) /\ rcv[c].ended \in BOOLEAN
  BY Records DEF StreamInv, Kept, Live, ReceiverSide
<1>2. /\ \A g \in Stream(c) : g.n \in Nat /\ g.call = c /\ g = Frame(g.type, c, g.n)
      /\ Stream(c)' = Stream(c) /\ Ask(c)' = Ask(c) /\ Opening(c)' = Opening(c)
  BY FrameIs DEF Stream, CallFrames, Ask, Opening, Frame
<1>3. CASE f.type = "streamOpen"
  <2>1. f = Opening(c) /\ ~rcv[c].opened
    BY <1>3 DEF Sent, Ask, Frame, Accepts
  <2>2. /\ rcv'[c].opened = TRUE /\ rcv'[c].next = rcv[c].next /\ rcv'[c].taken = rcv[c].taken
        /\ rcv'[c].ended = rcv[c].ended /\ rcv'[c].failed = rcv[c].failed
        /\ rcv'[c].reader = rcv[c].reader \/ rcv'[c].reader = "busy"
    BY <1>1, <1>3 DEF Received, Receivers
  <2>3. Had(c)' = Had(c) \cup {f}
    <3>1. \A g \in Stream(c) : g \in Had(c)' <=> g \in Had(c) \/ g = f
      BY <1>2, <2>1, <2>2 DEF Had
    <3> QED BY <1>2, <3>1 DEF Had
  <2> QED BY <1>1, <2>2, <2>3 DEF Kept
<1>4. CASE f.type = "streamData"
  <2>1. f.n = rcv[c].next /\ ~rcv[c].ended
    BY <1>4 DEF Accepts
  <2>2. /\ rcv'[c].opened = rcv[c].opened /\ rcv'[c].next = rcv[c].next + 1 /\ rcv'[c].taken = rcv[c].taken
        /\ rcv'[c].ended = rcv[c].ended /\ rcv'[c].failed = rcv[c].failed /\ rcv'[c].reader = rcv[c].reader
    BY <1>1, <1>4 DEF Received, Receivers
  <2>3. Had(c)' = Had(c) \cup {f}
    <3>1. ASSUME NEW g \in Stream(c) PROVE g \in Had(c)' <=> g \in Had(c) \/ g = f
      <4>1. g.type = "streamData" /\ g.n = rcv[c].next => g = f
        BY <1>2, <1>4, <2>1
      <4>2. g.type = "streamData" => (g.n < rcv[c].next + 1 <=> g.n < rcv[c].next \/ g = f)
        BY <1>1, <1>2, <2>1, <4>1
      <4> QED BY <1>2, <1>4, <2>1, <2>2, <4>2 DEF Had
    <3> QED BY <1>2, <3>1 DEF Had
  <2> QED BY <1>1, <2>1, <2>2, <2>3 DEF Kept
<1>5. CASE f.type = "streamEnd"
  <2>1. f.n = rcv[c].next /\ ~rcv[c].ended /\ f = Frame("streamEnd", c, rcv[c].next)
    BY <1>2, <1>5 DEF Accepts
  <2>2. f.n = snd[c].seq /\ snd[c].feed = "ended"
    BY <1>5 DEF Sent, Ask, Opening, Frame
  <2>3. /\ rcv'[c].opened = rcv[c].opened /\ rcv'[c].next = rcv[c].next /\ rcv'[c].taken = rcv[c].taken
        /\ rcv'[c].ended = TRUE /\ rcv'[c].failed = rcv[c].failed /\ rcv'[c].reader = rcv[c].reader
    BY <1>1, <1>5 DEF Received, Receivers
  <2>4. Had(c)' = Had(c) \cup {f}
    <3>1. \A g \in Stream(c) : g \in Had(c)' <=> g \in Had(c) \/ g = f
      BY <1>2, <2>1, <2>3 DEF Had
    <3> QED BY <1>2, <3>1 DEF Had
  <2> QED BY <1>1, <2>1, <2>2, <2>3, <2>4 DEF Kept
<1> QED BY <1>3, <1>4, <1>5 DEF ToReceiver

\* StreamTable.handle
LEMMA HandleStreamKept ==
    ASSUME StreamInv, Orderly', NEW s \in Sides, NEW n \in Conns, wire[s][n] # <<>>,
           NEW f, f = Head(wire[s][n]), IsStreamFrame(f),
           n \in 0..opened, HandleStream(s, n, f), UNCHANGED <<netVars, handler>>
    PROVE  StreamInv'
<1> DEFINE c == f.call
<1>1. f \in Frames /\ Placed(f, s, n) /\ HandlersKnown' /\ UNCHANGED <<socket, opened, up, down>> /\ 0 \in 0..opened
  BY HeadIs, ConnOpened DEF StreamInv, HandlersKnown, netVars
<1>2. f \in CallFrames /\ c \in Calls /\ f.type # "execute"
  <2>1. f \in CallFrames /\ f.type # "execute"
    BY <1>1 DEF Frames, HandshakeFrames, IsStreamFrame
  <2> QED BY <2>1 DEF CallFrames
<1>3. \A d \in Calls : f \notin Requests(d)
  BY <1>2 DEF Requests, Ask, Frame
<1>4. \A d \in Calls : f \in Stream(d) => d = c
  BY DEF Stream
<1> HIDE DEF c
<1>5. ASSUME c \notin table[s], f \in Stream(c) PROVE ~Live(c)
  <2>1. SUFFICES ASSUME Live(c) PROVE FALSE
    OBVIOUS
  <2>2. s = ReceiverSide(c) /\ Before(f) \cap Stream(c) \subseteq Had(c)
    BY <1>2, <1>5, <2>1, HeadOfStream
  <2>3. call[c].kind = "upload" /\ handler[c] = "off"
    BY <1>5, <2>1, <2>2 DEF Live
  <2>4. Ask(c) \in Before(f) /\ Ask(c) \in Stream(c)
    BY <1>2, <1>5, <2>3 DEF Before, Stream, Ask, Frame, CallFrames
  <2>5. Ask(c) \in Had(c)
    BY <2>2, <2>4
  <2> QED BY <2>3, <2>5 DEF Had, Ask, Opening, Frame
<1>6. CASE /\ c \notin table[s]
           /\ wire' = Written(Read(s, n), s, n, IF f.type \in ToReceiver THEN <<Frame("streamAbort", c, 0)>> ELSE <<>>)
           /\ UNCHANGED <<call, pending, table, snd, rcv>>
  <2>1. PICK t : t = IF f.type \in ToReceiver THEN <<Frame("streamAbort", c, 0)>> ELSE <<>>
    OBVIOUS
  <2>2. t \in Seq(Frames) /\ \A i \in DOMAIN t : t[i].type = "streamAbort"
    <3>1. Frame("streamAbort", c, 0) \in Frames /\ Frame("streamAbort", c, 0).type = "streamAbort"
      BY <1>2, FrameTypes DEF Frame
    <3> QED BY <2>1, <3>1
  <2>3. \A d \in Calls : Fades(d)
    BY <1>6, Untouched
  <2>4. \A d \in Calls : f \notin Requests(d) /\ (f \in Stream(d) => ~Live(d))
    BY <1>3, <1>4, <1>5, <1>6
  <2> QED BY <1>1, <1>6, <2>1, <2>2, <2>3, <2>4, ReadAside
<1>7. CASE c \in table[s] /\ f.type = "streamAbort" /\ AbortAt(s, c, Read(s, n), FALSE)
  <2>1. wire' = Read(s, n) /\ Cut(s, {c}) /\ (call' = Settled({c}, "aborted") \/ call' = call)
    BY <1>7 DEF AbortAt
  <2>2. \A d \in Calls : Fades(d)
    BY <1>1, <2>1, SettledKinds, CutFades
  <2>3. \A d \in Calls : f \notin Requests(d) /\ f \notin Stream(d)
    BY <1>7, NotOfStream
  <2>4. PICK t \in Seq(Frames) : wire' = Written(Read(s, n), s, 0, t) /\ \A i \in DOMAIN t : FALSE
    BY <2>1, NothingMore
  <2> QED BY <1>1, <2>2, <2>3, <2>4, ReadAside
<1>8. CASE /\ c \in table[s] /\ f.type = "streamAck"
           /\ wire' = Read(s, n)
           /\ snd' = IF SenderSide(c) = s /\ f.n + 1 > snd[c].acked
                     THEN [snd EXCEPT ![c].acked = f.n + 1] ELSE snd
           /\ UNCHANGED <<call, pending, table, rcv>>
  <2>1. /\ Kept(c) /\ snd \in [Calls -> Senders] /\ snd[c] \in Senders /\ snd[c].seq \in Nat /\ snd[c].acked \in Nat
        /\ rcv[c].taken \in Nat /\ f.n \in Nat /\ Window \in Nat
    BY <1>2, Records, WindowAssumption DEF StreamInv, Orderly, StreamTypes, CallFrames
  <2>2. f.n < rcv[c].taken
    BY <1>1, <1>2, <1>8 DEF Placed, c
  <2>3. snd'[c] = snd[c] \/ (snd'[c] = [snd[c] EXCEPT !.acked = f.n + 1] /\ f.n + 1 > snd[c].acked)
    BY <1>2, <1>8, <2>1
  <2>4. /\ snd'[c].seq = snd[c].seq /\ snd'[c].opened = snd[c].opened /\ snd'[c].feed = snd[c].feed
        /\ snd'[c].acked = snd[c].acked \/ (snd'[c].acked = f.n + 1 /\ f.n + 1 > snd[c].acked)
    BY <2>1, <2>3 DEF Senders
  <2>5. c \in table[s] => call[c].conn # 0
    BY <2>1 DEF Kept
  <2>6. Kept(c)'
    <3>1. /\ snd'[c].seq - snd'[c].acked <= Window
          /\ snd'[c].acked <= rcv[c].taken
      BY <2>1, <2>2, <2>4 DEF Kept
    <3>2. Live(c)' = Live(c)
      BY <1>1, <1>8 DEF Live, ReceiverSide, netVars
    <3> QED BY <1>8, <2>1, <2>4, <2>5, <3>1, <3>2 DEF Kept
  <2>7. ASSUME NEW d \in Calls PROVE Kept(d)' /\ Reading(d, f)
    <3>1. f \notin Requests(d) /\ f \notin Stream(d)
      BY <1>8, NotOfStream
    <3>2. CASE d # c
      <4>1. Fades(d)
        BY <1>8, <2>1, <3>2, Untouched
      <4> QED BY <3>1, <4>1, FadesReading
    <3>3. CASE d = c
      <4>1. /\ Served(c)' = Served(c) /\ Live(c)' = Live(c) /\ Had(c)' = Had(c) /\ Sent(c)' = Sent(c)
        BY <1>8, <2>4 DEF Served, Requests, Ask, Frame, Live, ReceiverSide, Had, Sent, Stream, Opening
      <4> QED BY <1>8, <2>1, <2>6, <3>1, <3>3, <4>1 DEF Reading
    <3> QED BY <3>2, <3>3
  <2>8. PICK t \in Seq(Frames) : wire' = Written(Read(s, n), s, 0, t) /\ \A i \in DOMAIN t : FALSE
    BY <1>8, NothingMore
  <2> QED BY <1>1, <2>7, <2>8, ReadStep
<1>9. CASE /\ c \in table[s] /\ f.type \in ToReceiver
           /\ IF ReceiverSide(c) = s /\ Accepts(c, f)
              THEN /\ wire' = Read(s, n)
                   /\ rcv' = [rcv EXCEPT ![c] = Received(c, f)]
                   /\ UNCHANGED <<call, pending, table, snd>>
              ELSE AbortAt(s, c, Read(s, n), TRUE)
  <2>1. f \in Stream(c)
    BY <1>2, <1>9 DEF Stream, c
  <2>2. ReceiverSide(c) = s /\ Accepts(c, f)
    BY <1>2, <1>9, <2>1, Accepted
  <2>3. /\ wire' = Read(s, n)
        /\ rcv' = [rcv EXCEPT ![c] = Received(c, f)]
        /\ UNCHANGED <<call, pending, table, snd>>
    BY <1>9, <2>2
  <2>4. rcv \in [Calls -> Receivers] /\ rcv[c] \in Receivers /\ rcv[c].taken \in Nat /\ rcv[c].next \in Nat
    BY <1>2, Records DEF StreamInv, Orderly, StreamTypes
  <2>5. rcv'[c] = Received(c, f) /\ \A d \in Calls : d # c => rcv'[d] = rcv[d]
    BY <1>2, <2>3, <2>4
  <2>6. Live(c) /\ Kept(c) /\ f \in Sent(c) /\ f \notin Had(c) /\ f = Frame(f.type, c, f.n) /\ call[c].conn # 0
    <3>1. Live(c) /\ Kept(c)
      BY <1>2, <1>9, <2>2 DEF Live, StreamInv
    <3>2. f = Frame(f.type, c, f.n)
      BY <1>2, FrameIs DEF c
    <3> QED BY <1>2, <1>9, <2>1, <3>1, <3>2, HeadOfStream DEF Kept
  <2>7. Kept(c)' /\ Had(c)' = Had(c) \cup {f} /\ rcv'[c].taken = rcv[c].taken
    BY <1>2, <1>9, <2>1, <2>2, <2>3, <2>5, <2>6, HadNow
  <2>8. ASSUME NEW d \in Calls PROVE Kept(d)' /\ Reading(d, f)
    <3>1. CASE d # c
      <4>1. Fades(d)
        BY <1>1, <2>3, <2>5, <3>1, Untouched
      <4>2. f \notin Requests(d) /\ f \notin Stream(d)
        BY <1>3, <1>4, <3>1
      <4> QED BY <4>1, <4>2, FadesReading
    <3>2. CASE d = c
      <4>1. /\ Served(c)' = Served(c) /\ Live(c)' = Live(c) /\ Sent(c)' = Sent(c)
        BY <1>1, <2>3 DEF Served, Requests, Ask, Frame, Live, ReceiverSide, Sent, Stream, Opening
      <4>2. f \notin Requests(c)
        BY <1>2, <1>3
      <4> QED BY <2>1, <2>3, <2>4, <2>6, <2>7, <3>2, <4>1, <4>2 DEF Reading
    <3> QED BY <3>1, <3>2
  <2>9. PICK t \in Seq(Frames) : wire' = Written(Read(s, n), s, 0, t) /\ \A i \in DOMAIN t : FALSE
    BY <2>3, NothingMore
  <2> QED BY <1>1, <2>8, <2>9, ReadStep
<1> QED BY <1>6, <1>7, <1>8, <1>9 DEF HandleStream, ToReceiver, c

LEMMA WorkerReadsStreams ==
    ASSUME StreamInv, Orderly', NEW n \in Conns, WorkerReads(n)
    PROVE  StreamInv'
<1>1. PICK f : f = Head(wire["worker"][n])
  OBVIOUS
<1>2. /\ wire["worker"][n] # <<>> /\ "worker" \in Sides /\ n \in up["worker"] /\ n \in 0..opened /\ 0 \in 0..opened
      /\ f \in Frames /\ Placed(f, "worker", n)
  BY <1>1, HeadIs, ConnOpened DEF WorkerReads, Sides, StreamInv, EndsKnown
<1>3. CASE /\ f.type = "hello"
           /\ wire' = Written(Read("worker", n), "worker", n, <<Frame("helloAck", NoCall, 0)>>)
           /\ UNCHANGED <<call, pending, netVars, handler, table, snd, rcv>>
  <2>1. PICK t : t = <<HelloAck>>
    OBVIOUS
  <2>2. t \in Seq(Frames) /\ (\A i \in DOMAIN t : t[i].type = "helloAck") /\ wire' = Written(Read("worker", n), "worker", n, t)
    BY <1>3, <2>1, FrameTypes DEF HelloAck, Frame
  <2>3. \A c \in Calls : Fades(c) /\ f \notin Requests(c) /\ f \notin Stream(c)
    BY <1>3, Untouched, NotOfStream
  <2>4. HandlersKnown' /\ UNCHANGED <<socket, opened, up, down>>
    BY <1>3 DEF StreamInv, HandlersKnown, netVars
  <2> QED BY <1>1, <1>2, <2>2, <2>3, <2>4, ReadAside
<1>4. CASE /\ f.type = "ready"
           /\ wire' = Read("worker", n)
           /\ UNCHANGED <<call, socket, opened, up, down, handler, table, snd, rcv>>
  <2>1. PICK t \in Seq(Frames) : wire' = Written(Read("worker", n), "worker", 0, t) /\ \A i \in DOMAIN t : FALSE
    BY <1>2, <1>4, NothingMore
  <2>3. \A c \in Calls : Fades(c) /\ f \notin Requests(c) /\ f \notin Stream(c)
    BY <1>4, Untouched, NotOfStream
  <2>4. HandlersKnown'
    BY <1>4 DEF StreamInv, HandlersKnown
  <2> QED BY <1>1, <1>2, <1>4, <2>1, <2>3, <2>4, ReadAside
<1>5. CASE /\ down' = down \cup {n}
           /\ up' = [up EXCEPT !["worker"] = @ \ {n}]
           /\ wire' = [wire EXCEPT !["worker"][n] = <<>>]
           /\ UNCHANGED <<call, socket, opened, handler, table, snd, rcv>>
  <2>1. ASSUME NEW c \in Calls PROVE Kept(c)' /\ Steady(c)
    <3>1. Fades(c)
      BY <1>5, Untouched
    <3> QED BY <3>1, FadesSteady
  <2>2. EndsKnown'
    <3>1. ASSUME NEW m \in 1..opened PROVE m \in down' \/ \A s \in Sides : m \in up'[s]
      BY <1>5 DEF StreamInv, EndsKnown, Sides, Orderly, Inv, TypeOK
    <3>2. \A s \in Sides : up'[s] \subseteq up[s]
      BY <1>5 DEF StreamInv, Orderly, Inv, TypeOK
    <3> QED BY <1>5, <3>1, <3>2 DEF StreamInv, EndsKnown
  <2>3. \A s \in Sides, m \in Conns : wire'[s][m] = wire[s][m] \/ (wire'[s][m] = <<>> /\ m \in down')
    BY <1>5 DEF StreamInv, Orderly, StreamTypes, Wires
  <2>4. HandlersKnown'
    BY <1>5 DEF StreamInv, HandlersKnown
  <2> QED BY <1>5, <2>1, <2>2, <2>3, <2>4, LoseStep
<1>6. CASE f.type = "execute" /\ Attach(f.call) /\ wire' = Read("worker", n) /\ UNCHANGED <<call, pending, netVars>>
  <2>1. PICK c : c = f.call
    OBVIOUS
  <2>2. c \in Calls /\ f \in CallFrames
    BY <1>2, <1>6, <2>1 DEF Frames, HandshakeFrames, CallFrames
  <2>3. PICK t \in Seq(Frames) : wire' = Written(Read("worker", n), "worker", 0, t) /\ \A i \in DOMAIN t : FALSE
    BY <1>2, <1>6, NothingMore
  <2>4. ASSUME NEW d \in Calls, d # c PROVE Kept(d)' /\ Reading(d, f)
    <3>1. Fades(d)
      BY <1>6, <2>1, <2>2, <2>4, Untouched DEF Attach, StreamInv, HandlersKnown, Orderly, StreamTypes, Sides
    <3>2. f \notin Requests(d) /\ f \notin Stream(d)
      BY <2>1, <2>4 DEF Requests, Stream, Ask, Frame
    <3> QED BY <3>1, <3>2, FadesReading
  <2>5. HandlersKnown' /\ UNCHANGED <<socket, opened, up, down>>
    BY <1>6, <2>1, <2>2 DEF Attach, StreamInv, HandlersKnown, netVars
  <2>6. Kept(c)' /\ Reading(c, f)
    <3>1. /\ Kept(c) /\ snd \in [Calls -> Senders] /\ rcv \in [Calls -> Receivers] /\ snd[c] \in Senders /\ rcv[c] \in Receivers
          /\ table \in [Sides -> SUBSET Calls] /\ handler \in [Calls -> {"off", "running", "returned", "gone"}]
          /\ rcv[c].taken \in Nat /\ call[c].kind \in {"plain", "upload", "download"}
      BY <2>2, Records DEF StreamInv, Orderly, StreamTypes, HandlersKnown
    <3>2. Requests(c) = {Ask(c)} /\ f = Ask(c)
      <4>1. Placed(f, "worker", n) /\ f = Frame("execute", c, f.n)
        BY <1>2, <1>6, <2>1, <2>2, FrameIs
      <4>2. f.n = 0
        BY <1>6, <2>2, <4>1 DEF Placed
      <4> QED BY <4>1, <4>2 DEF Requests, Ask
    <3>3. n = call[c].conn /\ n # 0 /\ handler[c] = "off"
      BY <1>1, <1>2, <2>2, <3>2, HeadOfRequests DEF Conns
    <3>4. /\ handler'[c] = "running" /\ call'[c] = call[c]
          /\ snd'[c].seq = snd[c].seq /\ snd'[c].acked = snd[c].acked /\ snd'[c].opened = snd[c].opened
          /\ snd'[c].feed = IF call[c].kind = "download" THEN "busy" ELSE snd[c].feed
          /\ rcv'[c].opened = rcv[c].opened /\ rcv'[c].next = rcv[c].next /\ rcv'[c].taken = rcv[c].taken
          /\ rcv'[c].ended = rcv[c].ended /\ rcv'[c].failed = rcv[c].failed
          /\ rcv'[c].reader = IF call[c].kind = "upload" THEN "busy" ELSE rcv[c].reader
          /\ c \in table'["core"] <=> c \in table["core"]
      BY <1>6, <2>1, <2>2, <3>1 DEF Attach, Senders, Receivers, Sides
    <3>5. Live(c)' => Live(c)
      BY <3>1, <3>3, <3>4 DEF Live, ReceiverSide
    <3>6. Stream(c)' = Stream(c) /\ Ask(c)' = Ask(c) /\ Opening(c)' = Opening(c)
      BY <3>4 DEF Stream, Ask, Opening, Frame
    <3>7. f \in Stream(c) <=> call[c].kind = "upload"
      BY <2>2, <3>2 DEF Stream, Ask, Frame, ToReceiver
    <3>8. Sent(c)' = Sent(c)
      <4>1. call[c].kind = "download" => snd[c].feed = "off" /\ Ask(c) \notin Stream(c)
        BY <3>1, <3>2, <3>3, <3>7 DEF Kept
      <4> QED BY <3>4, <3>6, <4>1 DEF Sent
    <3>9. Had(c)' = IF f \in Stream(c) THEN Had(c) \cup {f} ELSE Had(c)
      <4>1. \A g \in Stream(c) : g \in Had(c)' <=> g \in Had(c) \/ g = Ask(c)
        BY <3>3, <3>4, <3>6 DEF Had
      <4> QED BY <3>2, <3>6, <4>1 DEF Had
    <3>10. Served(c)' = Served(c) \cup {f}
      BY <3>2, <3>3, <3>4 DEF Served, Requests, Ask, Frame
    <3>11. Kept(c)'
      BY <3>1, <3>3, <3>4, <3>5 DEF Kept
    <3> QED BY <3>1, <3>2, <3>4, <3>5, <3>8, <3>9, <3>10, <3>11 DEF Reading
  <2> QED BY <1>1, <1>2, <2>3, <2>4, <2>5, <2>6, ReadStep
<1>7. CASE IsStreamFrame(f) /\ HandleStream("worker", n, f) /\ UNCHANGED <<netVars, handler>>
  BY <1>1, <1>2, <1>7, HandleStreamKept
<1> QED BY <1>1, <1>3, <1>4, <1>5, <1>6, <1>7 DEF WorkerReads

LEMMA ReplyStreams ==
    ASSUME StreamInv, Orderly', NEW n \in Conns, n \in 0..opened, wire["core"][n] # <<>>,
           NEW f, f = Head(wire["core"][n]), f.type = "reply", f.call \in pending, NEW ok, Reply(n, f.call, ok)
    PROVE  StreamInv'
<1>1. PICK c : c = f.call
  OBVIOUS
<1>2. /\ Reply(n, c, ok) /\ c \in Calls /\ Kept(c) /\ call[c].conn # 0 /\ "core" \in Sides /\ 0 \in 0..opened
      /\ snd \in [Calls -> Senders] /\ rcv \in [Calls -> Receivers] /\ snd[c] \in Senders /\ rcv[c] \in Receivers
      /\ table \in [Sides -> SUBSET Calls] /\ rcv[c].failed \in BOOLEAN /\ rcv[c].ended \in BOOLEAN
  <2>1. c \in pending /\ pending \subseteq Calls /\ call[c].conn # 0
    BY <1>1 DEF StreamInv, Orderly, Inv, TypeOK, NothingWaitsOnALostSocket
  <2> QED BY <1>1, <2>1, Records, ConnOpened DEF StreamInv, Orderly, StreamTypes, Sides
<1>3. ASSUME NEW d \in Calls PROVE Fades(d)
  <2>1. /\ call'[d].conn = call[d].conn /\ call'[d].kind = call[d].kind
        /\ call'[d].phase \in {"idle", "connecting"} => call[d].phase \in {"idle", "connecting"}
    <3>1. PICK outcome : call' = Settled({c}, outcome)
      BY <1>2 DEF Reply
    <3> QED BY <3>1, SettledKinds
  <2>2. (\A q \in Sides : d \in table'[q] => d \in table[q]) /\ c \notin table'["core"] /\ handler' = handler
    BY <1>2 DEF Reply
  <2>3. /\ snd'[d].seq = snd[d].seq /\ snd'[d].acked = snd[d].acked /\ snd'[d].opened = snd[d].opened
        /\ snd'[d].feed = snd[d].feed
        /\ call[d].conn = 0 => snd'[d] = snd[d]
    <3>1. snd' = [snd EXCEPT ![c].failed = TRUE] \/ snd' = snd
      BY <1>2 DEF Reply
    <3>2. snd'[d] = snd[d] \/ (d = c /\ snd'[d] = [snd[c] EXCEPT !.failed = TRUE])
      BY <1>2, <3>1
    <3> QED BY <1>2, <3>2 DEF Senders
  <2>4. CASE d = c /\ call[c].kind = "download"
    <3>1. rcv'[c] = [rcv[c] EXCEPT !.failed = @ \/ ~rcv[c].ended]
      BY <1>2, <2>4 DEF Reply
    <3>2. /\ rcv'[c].opened = rcv[c].opened /\ rcv'[c].next = rcv[c].next /\ rcv'[c].taken = rcv[c].taken
          /\ rcv'[c].ended = rcv[c].ended /\ rcv'[c].reader = rcv[c].reader
          /\ rcv[c].ended => rcv'[c].failed = rcv[c].failed
      BY <1>2, <3>1 DEF Receivers
    <3>3. ~Live(c)'
      BY <2>1, <2>2, <2>4 DEF Live, ReceiverSide
    <3> QED BY <1>2, <2>1, <2>2, <2>3, <2>4, <3>2, <3>3 DEF Fades
  <2>5. CASE ~(d = c /\ call[c].kind = "download")
    <3>1. rcv'[d] = rcv[d]
      BY <1>2, <2>5 DEF Reply
    <3> QED BY <2>1, <2>2, <2>3, <3>1 DEF Fades
  <2> QED BY <2>4, <2>5
<1>4. \A d \in Calls : f \notin Requests(d) /\ f \notin Stream(d)
  BY NotOfStream
<1>5. HandlersKnown' /\ UNCHANGED <<socket, opened, up, down>>
  BY <1>2 DEF Reply, StreamInv, HandlersKnown, netVars
<1>6. CASE wire' = Written(Read("core", n), "core", n, AbortFrames("core", c))
  <2>1. PICK t : t = AbortFrames("core", c)
    OBVIOUS
  <2>2. t \in Seq(Frames) /\ (\A i \in DOMAIN t : t[i].type = "streamAbort") /\ wire' = Written(Read("core", n), "core", n, t)
    BY <1>2, <1>6, <2>1, AbortFrameOf
  <2> QED BY <1>2, <1>3, <1>4, <1>5, <2>2, ReadAside
<1>7. CASE wire' = Read("core", n)
  <2>1. PICK t \in Seq(Frames) : wire' = Written(Read("core", n), "core", 0, t) /\ \A i \in DOMAIN t : FALSE
    BY <1>2, <1>7, NothingMore
  <2> QED BY <1>2, <1>3, <1>4, <1>5, <2>1, ReadAside
<1> QED BY <1>2, <1>6, <1>7 DEF Reply

-----------------------------------------------------------------------------
(* Steps that start requests *)

\* The wires w carry the flows that wire carries.
SameFlows(w) ==
    \A s \in Sides, n \in Conns :
        /\ \A i \in DOMAIN w[s][n] : w[s][n][i] \in CallFrames =>
              \E j \in DOMAIN wire[s][n] : w[s][n][i] = wire[s][n][j]
        /\ \A own, had, sent, cut :
              own \subseteq CallFrames /\ Flow(wire[s][n], own, had, sent, cut) => Flow(w[s][n], own, had, sent, cut)

\* Frames without any of the flow.
LEMMA NoFlow ==
    ASSUME NEW w \in Seq(Frames), NEW own, NEW cut, \A i \in DOMAIN w : w[i] \notin own
    PROVE  Flow(w, own, {}, {}, cut)
BY DEF Flow

\* Of a call that has no connection nothing is under way.
LEMMA NothingUnderWay ==
    ASSUME StreamInv, NEW c \in Calls, call[c].conn = 0, NEW w \in Wires, SameFlows(w),
           NEW s \in Sides, NEW n \in Conns, NEW i \in DOMAIN w[s][n]
    PROVE  w[s][n][i] \in CallFrames /\ w[s][n][i].call = c => w[s][n][i].type \notin {"execute"} \cup ToReceiver
<1> SUFFICES ASSUME w[s][n][i] \in CallFrames, w[s][n][i].call = c,
                    w[s][n][i].type \in {"execute"} \cup ToReceiver
             PROVE  FALSE
  OBVIOUS
<1>1. PICK j \in DOMAIN wire[s][n] : w[s][n][i] = wire[s][n][j]
  BY DEF SameFlows
<1>2. Placed(wire[s][n][j], s, n)
  BY DEF StreamInv, AllPlaced
<1>3. n = 0
  BY <1>1, <1>2 DEF Placed
<1> QED BY <1>3 DEF Conns

\* The frames t are the requests of cs.
Asks(t, cs) ==
    /\ \A i \in DOMAIN t : t[i].type = "execute" /\ t[i].n = 0 /\ t[i].call \in cs /\ t[i] = Ask(t[i].call)
    /\ \A c \in cs : \E i \in DOMAIN t : t[i] = Ask(c)
    /\ \A i, j \in DOMAIN t : t[i] = t[j] => i = j

\* Of what was written now only the request of c is of the flow.
LEMMA RequestFlow ==
    ASSUME NEW c \in Calls, NEW u \in Seq(Frames), NEW t \in Seq(Frames), NEW own, NEW none, NEW one,
           none = {}, one = {Ask(c)}, one \subseteq own, \A i \in DOMAIN u : u[i] \notin own,
           \A i \in DOMAIN t : t[i] \in own => t[i] = Ask(c),
           \E i \in DOMAIN t : t[i] = Ask(c), \A i, j \in DOMAIN t : t[i] = t[j] => i = j,
           NEW cut
    PROVE  Flow(u \o t, own, none, one, cut) /\ Flow(u, own, none, one, TRUE)
<1>1. Flow(u, own, none, none, cut)
  BY NoFlow
<1>2. Before(Ask(c)) = {}
  BY FirstRequest
<1>3. Follows(t, own, none, one)
  BY <1>2 DEF Follows
<1>4. Flow(u \o t, own, none, one, cut)
  BY <1>1, <1>2, <1>3, FlowWritten
<1>5. Flow(u, own, none, one, TRUE)
  BY NoFlow DEF Flow
<1> QED BY <1>4, <1>5

\* A call that is started: its request is sent, and nothing else.
Starts(c, n, w, t, cs) ==
    /\ call[c].conn = 0 /\ call'[c].conn = n
    /\ c \in cs /\ Asks(t, cs)
    /\ wire'["worker"][n] = IF n \notin down THEN w["worker"][n] \o t ELSE w["worker"][n]
    /\ wire'["core"][n] = w["core"][n]
    /\ handler'[c] = "off" /\ rcv'[c] = FreshReceiver
    /\ snd'[c].seq = 0 /\ snd'[c].opened = FALSE /\ snd'[c].feed = IF call'[c].kind = "upload" THEN "busy" ELSE "off"
    /\ down' = down

LEMMA StartedFlows ==
    ASSUME StreamInv, NEW c \in Calls, NEW w \in Wires, SameFlows(w), NEW n \in Conns, NEW t \in Seq(Frames), NEW cs,
           Starts(c, n, w, t, cs)
    PROVE  Flows(c)'
<1> USE DEF Starts
<1>1. /\ "worker" \in Sides /\ "core" \in Sides /\ n # 0
      /\ w["worker"][n] \in Seq(Frames) /\ w["core"][n] \in Seq(Frames)
  <2>1. "worker" \in Sides /\ "core" \in Sides
    BY DEF Sides
  <2>2. n # 0
    BY DEF Conns
  <2>3. \A s \in Sides, m \in Conns : w[s][m] \in Seq(Frames)
    BY DEF Wires
  <2> QED BY <2>1, <2>2, <2>3
<1>2. /\ \A i \in DOMAIN w["worker"][n] : w["worker"][n][i] \notin {Ask(c)} /\ w["worker"][n][i] \notin Stream(c)'
      /\ \A i \in DOMAIN w["core"][n] : w["core"][n][i] \notin Stream(c)'
  <2>1. ASSUME NEW s \in Sides, NEW i \in DOMAIN w[s][n]
        PROVE  w[s][n][i] \notin {Ask(c)} /\ w[s][n][i] \notin Stream(c)'
    <3>1. w[s][n][i] \in CallFrames /\ w[s][n][i].call = c => w[s][n][i].type \notin {"execute"} \cup ToReceiver
      BY <2>1, NothingUnderWay
    <3>2. Ask(c) \in CallFrames /\ Ask(c).call = c /\ Ask(c).type = "execute"
      BY DEF Ask, Frame, CallFrames
    <3>3. \A f \in Stream(c)' : f \in CallFrames /\ f.call = c /\ f.type \in {"execute"} \cup ToReceiver
      BY DEF Stream
    <3> QED BY <3>1, <3>2, <3>3
  <2> QED BY <1>1, <2>1
<1>3. PICK none, one : none = {} /\ one = {Ask(c)}
  OBVIOUS
<1>4. Requests(c)' = {Ask(c)} /\ Served(c)' = {} /\ Asked(c)' = {Ask(c)}
  BY <1>1 DEF Requests, Served, Asked, Ask, Frame
<1>10. ASSUME NEW own, one \subseteq own, \A i \in DOMAIN t : t[i] \in own => t[i] = Ask(c),
              \A i \in DOMAIN w["worker"][n] : w["worker"][n][i] \notin own
       PROVE  \A cut : (n \in down => cut) => Flow(wire'["worker"][n], own, none, one, cut)
  <2>1. PICK u \in Seq(Frames) : u = w["worker"][n]
    BY <1>1
  <2>2. SUFFICES ASSUME NEW cut, n \in down => cut PROVE Flow(wire'["worker"][n], own, none, one, cut)
    OBVIOUS
  <2>3. Flow(u \o t, own, none, one, cut) /\ Flow(u, own, none, one, TRUE)
    BY <1>3, <1>10, <2>1, RequestFlow DEF Asks
  <2>4. n \in down => Flow(u, own, none, one, cut)
    BY <2>2, <2>3 DEF Flow
  <2> QED BY <2>1, <2>3, <2>4
<1>5. Flow(wire'["worker"][n], Requests(c)', Served(c)', Asked(c)', TRUE)
  <2>1. PICK own : own = Requests(c)'
    OBVIOUS
  <2>2. Flow(wire'["worker"][n], own, none, one, TRUE)
    BY <1>2, <1>3, <1>4, <1>10, <2>1
  <2> QED BY <1>3, <1>4, <2>1, <2>2
<1>6. \A g \in Stream(c)' : g \in CallFrames /\ g.n \in Nat /\ g.call = c
  BY DEF Stream, CallFrames
<1>7. Had(c)' = {}
  <2>1. \A g \in Stream(c)' : g \notin Had(c)'
    BY <1>6 DEF Had, FreshReceiver, Ask, Frame
  <2> QED BY <2>1 DEF Had
<1>8. CASE call'[c].kind = "upload"
  <2>1. Ask(c) \in Stream(c)'
    BY <1>8 DEF Stream, Ask, Frame, CallFrames
  <2>2. Sent(c)' = {Ask(c)}
    <3>1. \A g \in Stream(c)' : g \in Sent(c)' <=> g = Ask(c)
      BY <1>6, <1>8 DEF Sent, Ask, Frame
    <3> QED BY <2>1, <3>1 DEF Sent
  <2>3. \A i \in DOMAIN t : t[i] \in Stream(c)' => t[i] = Ask(c)
    BY <1>6 DEF Asks
  <2>4. Flow(wire'["worker"][n], Stream(c)', Had(c)', Sent(c)', n \in down)
    <3>1. PICK own : own = Stream(c)'
      OBVIOUS
    <3>2. \A cut : (n \in down => cut) => Flow(wire'["worker"][n], own, none, one, cut)
      BY <1>2, <1>3, <1>10, <2>1, <2>3, <3>1
    <3>3. Flow(wire'["worker"][n], own, none, one, n \in down)
      BY <3>2
    <3> QED BY <1>3, <1>7, <2>2, <3>1, <3>3
  <2> QED BY <1>5, <1>8, <2>4 DEF Flows, ReceiverSide
<1>9. CASE call'[c].kind # "upload"
  <2>1. Sent(c)' = {}
    <3>1. \A g \in Stream(c)' : g \notin Sent(c)'
      BY <1>6, <1>9 DEF Sent, Stream, Ask, Frame
    <3> QED BY <3>1 DEF Sent
  <2>2. Flow(wire'["core"][n], Stream(c)', Had(c)', Sent(c)', n \in down)
    BY <1>1, <1>2, <1>7, <2>1, NoFlow
  <2> QED BY <1>5, <1>9, <2>2 DEF Flows, ReceiverSide
<1> QED BY <1>8, <1>9

\* A call beside those that are started.
LEMMA BesideFlows ==
    ASSUME StreamInv, NEW d \in Calls, Fades(d), NEW w \in Wires, SameFlows(w), NEW t \in Seq(Frames), NEW n \in Conns,
           \A i \in DOMAIN t : t[i].call # d,
           \A m \in Conns : /\ wire'["worker"][m] \in {w["worker"][m], w["worker"][m] \o t}
                            /\ wire'["core"][m] = w["core"][m],
           down' = down
    PROVE  Flows(d)'
<1>1. Kept(d)' /\ Steady(d)
  BY FadesSteady
<1> DEFINE k == call[d].conn
<1>2. Flows(d) /\ k \in Conns \cup {0} /\ "worker" \in Sides /\ "core" \in Sides /\ call'[d].conn = k
  BY <1>1 DEF StreamInv, Orderly, StreamTypes, Sides, Steady
<1> SUFFICES ASSUME k # 0 PROVE Flows(d)'
  BY <1>2 DEF Flows
<1>3. /\ ReceiverSide(d)' = ReceiverSide(d) /\ Stream(d)' = Stream(d) /\ Requests(d)' = Requests(d)
      /\ Asked(d)' = Asked(d) /\ Served(d)' = Served(d)
      /\ Live(d)' => Live(d) /\ Had(d)' = Had(d) /\ Sent(d)' = Sent(d)
  BY <1>1, <1>2 DEF Steady, ReceiverSide, Stream, Requests, Asked
<1>4. ASSUME NEW s \in Sides, NEW own, NEW had, NEW sent, NEW cut, own \subseteq CallFrames,
             \A i \in DOMAIN t : t[i] \notin own, Flow(wire[s][k], own, had, sent, cut)
      PROVE  Flow(wire'[s][k], own, had, sent, cut)
  <2>1. PICK u \in Seq(Frames) : u = w[s][k]
    BY <1>2 DEF Wires
  <2>2. Flow(u, own, had, sent, cut) /\ sent \subseteq own
    <3>1. Flow(w[s][k], own, had, sent, cut)
      BY <1>2, <1>4 DEF SameFlows
    <3>2. sent \subseteq own
      BY <1>4 DEF Flow
    <3> QED BY <2>1, <3>1, <3>2
  <2>3. Follows(t, own, sent, sent)
    BY <1>4, NothingOfIt
  <2>4. Flow(u \o t, own, had, sent, cut)
    BY <1>4, <2>2, <2>3, FlowWritten
  <2>5. wire'[s][k] = u \/ wire'[s][k] = u \o t
    BY <1>2, <2>1 DEF Sides
  <2> QED BY <2>2, <2>4, <2>5
<1>5. Requests(d) \subseteq CallFrames /\ Stream(d) \subseteq CallFrames
      /\ \A i \in DOMAIN t : t[i] \notin Requests(d) /\ t[i] \notin Stream(d)
  BY DEF Requests, Stream, Ask, Frame, CallFrames
<1>6. Flow(wire'["worker"][k], Requests(d), Served(d), Asked(d), TRUE)
  <2>1. PICK own, had, sent : own = Requests(d) /\ had = Served(d) /\ sent = Asked(d)
    OBVIOUS
  <2>2. Flow(wire["worker"][k], own, had, sent, TRUE)
    BY <1>2, <2>1 DEF Flows
  <2> QED BY <1>2, <1>4, <1>5, <2>1, <2>2
<1>7. ASSUME Live(d) PROVE Flow(wire'[ReceiverSide(d)][k], Stream(d), Had(d), Sent(d), k \in down)
  <2>1. PICK own, had, sent, cut : own = Stream(d) /\ had = Had(d) /\ sent = Sent(d) /\ cut = (k \in down)
    OBVIOUS
  <2>2. PICK s \in Sides : s = ReceiverSide(d)
    BY SidesOf
  <2>3. Flow(wire[s][k], own, had, sent, cut)
    BY <1>2, <1>7, <2>1, <2>2 DEF Flows
  <2>4. Flow(wire'[s][k], own, had, sent, cut)
    BY <1>4, <1>5, <2>1, <2>3
  <2> QED BY <2>1, <2>2, <2>4
<1> QED BY <1>2, <1>3, <1>6, <1>7 DEF Flows

\* The calls cs are started on the socket there is, with all their requests in one go.
LEMMA StartStep ==
    ASSUME StreamInv, Orderly', NEW cs \in SUBSET Calls, NEW order \in Seq(Calls),
           \A i, j \in DOMAIN order : order[i] = order[j] => i = j,
           \A i \in DOMAIN order : order[i] \in cs, \A c \in cs : \E i \in DOMAIN order : order[i] = c,
           NEW calls0 \in [Calls -> CallRecords],
           \A c \in Calls : c \notin cs => calls0[c] = call[c],
           \A c \in cs : call[c].conn = 0 /\ calls0[c].conn = 0,
           NEW w \in Wires, SameFlows(w), socket # 0, StartAll(cs, order, calls0, w),
           UNCHANGED <<socket, opened, up, down, handler, rcv>>
    PROVE  StreamInv'
<1>1. PICK t : t = [i \in DOMAIN order |-> Frame("execute", order[i], 0)]
  OBVIOUS
<1>2. PICK n \in 0..opened : n = socket
  BY ConnOpened
<1>3. n \in Conns /\ "core" \in Sides /\ "worker" \in Sides /\ Peer("core") = "worker" /\ HandlersKnown'
      /\ handler \in [Calls -> {"off", "running", "returned", "gone"}]
      /\ snd \in [Calls -> Senders] /\ table \in [Sides -> SUBSET Calls]
  BY <1>2 DEF StreamInv, Orderly, StreamTypes, Sides, Peer, HandlersKnown
<1>4. t \in Seq(Frames) /\ Asks(t, cs)
  <2>1. t \in Seq(Frames) /\ DOMAIN t = DOMAIN order /\ \A i \in DOMAIN t : t[i] = Frame("execute", order[i], 0)
    BY <1>1, FrameTypes
  <2>2. \A i \in DOMAIN t : t[i] = Ask(order[i]) /\ t[i].call = order[i] /\ t[i].type = "execute" /\ t[i].n = 0
    BY <2>1 DEF Ask, Frame
  <2> QED BY <2>1, <2>2 DEF Asks
<1>5. wire' = Written(w, "core", n, t)
  BY <1>1, <1>2 DEF StartAll
<1>6. ASSUME NEW m \in Conns
      PROVE  /\ wire'["worker"][m] = IF m = n /\ n \notin down THEN w["worker"][m] \o t ELSE w["worker"][m]
             /\ wire'["core"][m] = w["core"][m]
  <2>1. \A s \in Sides : wire'[s][m] = IF s = "worker" /\ m = n /\ n \notin down THEN w[s][m] \o t ELSE w[s][m]
    BY <1>3, <1>4, <1>5, WroteOn
  <2> QED BY <1>3, <2>1
<1>7. ASSUME NEW c \in Calls
      PROVE  /\ call'[c] = IF c \in cs THEN [calls0[c] EXCEPT !.phase = "pending", !.conn = n] ELSE call[c]
             /\ c \in table'["worker"] <=> c \in table["worker"]
             /\ c \in table'["core"] <=> c \in table["core"] \/ (c \in cs /\ calls0[c].kind # "plain")
             /\ snd'[c] = IF c \in cs /\ calls0[c].kind = "upload" THEN [snd[c] EXCEPT !.feed = "busy"] ELSE snd[c]
  BY <1>2, <1>3 DEF StartAll, Sides
<1>8. ASSUME NEW c \in cs
      PROVE  /\ call'[c].conn = n /\ call'[c].phase = "pending" /\ call'[c].kind = calls0[c].kind
             /\ Kept(c) /\ call[c].conn = 0
             /\ handler[c] = "off" /\ rcv[c] = FreshReceiver /\ \A s \in Sides : c \notin table[s]
             /\ snd'[c].seq = 0 /\ snd'[c].acked = 0 /\ snd'[c].opened = FALSE /\ snd'[c].failed = FALSE
             /\ snd'[c].feed = IF call'[c].kind = "upload" THEN "busy" ELSE "off"
  <2>1. calls0[c] \in CallRecords /\ c \in Calls /\ Kept(c) /\ call[c].conn = 0
    BY DEF StreamInv
  <2>2. call'[c] = [calls0[c] EXCEPT !.phase = "pending", !.conn = n]
    BY <1>7, <2>1
  <2>3. call'[c].conn = n /\ call'[c].phase = "pending" /\ call'[c].kind = calls0[c].kind
    BY <2>1, <2>2 DEF CallRecords
  <2>4. snd[c] = FreshSender /\ handler[c] = "off" /\ rcv[c] = FreshReceiver /\ \A s \in Sides : c \notin table[s]
    BY <2>1 DEF Kept
  <2>5. snd'[c] = IF calls0[c].kind = "upload" THEN [snd[c] EXCEPT !.feed = "busy"] ELSE snd[c]
    BY <1>7, <2>1
  <2>6. /\ snd'[c].seq = 0 /\ snd'[c].acked = 0 /\ snd'[c].opened = FALSE /\ snd'[c].failed = FALSE
        /\ snd'[c].feed = IF calls0[c].kind = "upload" THEN "busy" ELSE "off"
    BY <2>4, <2>5 DEF FreshSender
  <2> QED BY <2>1, <2>3, <2>4, <2>6
<1>9. ASSUME NEW c \in Calls, c \notin cs PROVE Fades(c)
  BY <1>7, <1>9, Untouched DEF Sides
<1>10. ASSUME NEW c \in Calls PROVE Kept(c)'
  <2>1. CASE c \in cs
    <3>1. Window \in Nat /\ n # 0
      BY <1>3, WindowAssumption DEF Conns
    <3>2. c \notin table'["worker"] /\ rcv'[c] = FreshReceiver /\ handler'[c] = "off"
      BY <1>3, <1>7, <1>8, <2>1
    <3>3. rcv'[c].next = 0 /\ rcv'[c].taken = 0 /\ rcv'[c].ended = FALSE /\ rcv'[c].failed = FALSE /\ rcv'[c].reader = "off"
      BY <3>2 DEF FreshReceiver
    <3>4. /\ call'[c].conn = n /\ call'[c].phase = "pending" /\ snd'[c].seq = 0 /\ snd'[c].acked = 0
          /\ call'[c].kind = "download" => snd'[c].feed = "off"
      BY <1>8, <2>1
    <3> QED BY <3>1, <3>2, <3>3, <3>4 DEF Kept
  <2>2. CASE c \notin cs
    BY <1>9, <2>2, FadesSteady
  <2> QED BY <2>1, <2>2
<1>11. ASSUME NEW c \in Calls PROVE Flows(c)'
  <2>1. CASE c \in cs
    <3>1. /\ wire'["worker"][n] = IF n \notin down THEN w["worker"][n] \o t ELSE w["worker"][n]
          /\ wire'["core"][n] = w["core"][n]
      BY <1>3, <1>6
    <3>2. /\ n = call'[c].conn /\ call[c].conn = 0 /\ handler'[c] = "off" /\ rcv'[c] = FreshReceiver
          /\ snd'[c].seq = 0 /\ snd'[c].opened = FALSE
          /\ snd'[c].feed = IF call'[c].kind = "upload" THEN "busy" ELSE "off"
      BY <1>8, <2>1
    <3>3. Asks(t, cs) /\ t \in Seq(Frames) /\ n \in Conns /\ down' = down
      BY <1>3, <1>4
    <3>4. Starts(c, n, w, t, cs)
      BY <2>1, <3>1, <3>2, <3>3 DEF Starts
    <3> QED BY <3>3, <3>4, StartedFlows
  <2>2. CASE c \notin cs
    <3>1. \A m \in Conns : /\ wire'["worker"][m] \in {w["worker"][m], w["worker"][m] \o t}
                           /\ wire'["core"][m] = w["core"][m]
      BY <1>3, <1>6
    <3>2. t \in Seq(Frames) /\ n \in Conns /\ Fades(c) /\ \A i \in DOMAIN t : t[i].call # c
      BY <1>3, <1>4, <1>9, <2>2 DEF Asks
    <3> QED BY <3>1, <3>2, BesideFlows
  <2> QED BY <2>1, <2>2
<1>12. AllPlaced'
  <2>1. ASSUME NEW r \in Sides, NEW m \in Conns, NEW i \in DOMAIN wire'[r][m]
        PROVE  Placed(wire[r][m][i], r, m)'
    <3>1. PICK f : f = wire'[r][m][i]
      OBVIOUS
    <3>2. PICK u \in Seq(Frames) : u = w[r][m]
      BY DEF Wires
    <3>3. ASSUME NEW j \in DOMAIN u, f = u[j] PROVE Placed(f, r, m)'
      <4>1. f \in Frames
        BY <3>3
      <4>2. CASE f \in CallFrames
        <5>1. PICK k \in DOMAIN wire[r][m] : f = wire[r][m][k]
          BY <3>2, <3>3, <4>2 DEF SameFlows
        <5>2. Placed(f, r, m)
          BY <5>1 DEF StreamInv, AllPlaced
        <5>3. \A c \in Calls : call[c].conn # 0 => call'[c].conn = call[c].conn /\ call'[c].kind = call[c].kind
          BY <1>7, <1>8
        <5>4. \A c \in Calls : rcv'[c].taken >= rcv[c].taken
          BY Records
        <5> QED BY <4>1, <5>2, <5>3, <5>4, PlacedStays
      <4>3. CASE f \notin CallFrames
        BY <4>3 DEF Placed
      <4> QED BY <4>2, <4>3
    <3>4. ASSUME NEW j \in DOMAIN t, f = t[j], r = "worker", m = n PROVE Placed(f, r, m)'
      BY <1>4, <1>8, <3>4 DEF Asks, Placed, ToReceiver
    <3>8. PICK v : v = wire'[r][m]
      OBVIOUS
    <3>9. i \in DOMAIN v /\ f = v[i]
      BY <3>1, <3>8
    <3>10. v = u \/ (v = u \o t /\ r = "worker" /\ m = n)
      <4>1. r \in {"core", "worker"}
        BY DEF Sides
      <4> QED BY <1>6, <3>2, <3>8, <4>1
    <3>7. Placed(f, r, m)'
      <4>1. CASE v = u
        BY <3>3, <3>9, <4>1
      <4>2. CASE v = u \o t /\ r = "worker" /\ m = n
        <5>1. i \in DOMAIN (u \o t) /\ f = (u \o t)[i]
          BY <3>9, <4>2
        <5>2. (i \in DOMAIN u /\ f = u[i]) \/ (i - Len(u) \in DOMAIN t /\ f = t[i - Len(u)])
          BY <1>4, <5>1, Joined
        <5> QED BY <3>3, <3>4, <4>2, <5>2
      <4> QED BY <3>10, <4>1, <4>2
    <3> QED BY <3>1, <3>7 DEF Placed, ReceiverSide
  <2> QED BY <2>1 DEF AllPlaced
<1>13. EndsKnown'
  <2>1. \A c \in Calls : call'[c].conn \in 0..opened
    BY <1>7, <1>8, ConnOpened
  <2> QED BY <2>1 DEF StreamInv, EndsKnown
<1> QED BY <1>3, <1>10, <1>11, <1>12, <1>13 DEF StreamInv

LEMMA SameWires ==
    ASSUME StreamInv
    PROVE  wire \in Wires /\ SameFlows(wire)
BY DEF SameFlows, StreamInv, Orderly, StreamTypes

\* A call that has not begun has left no trace.
LEMMA NotBegun ==
    ASSUME StreamInv, NEW c \in Calls, call[c].phase \in {"idle", "connecting"}
    PROVE  /\ call[c].conn = 0 /\ handler[c] = "off" /\ snd[c] = FreshSender /\ rcv[c] = FreshReceiver
           /\ \A s \in Sides : c \notin table[s]
BY DEF StreamInv, Kept

\* A call that begins waits for the handshake.
LEMMA WaitingKept ==
    ASSUME StreamInv, NEW c \in Calls, call[c].phase = "idle", call'[c].conn = 0,
           UNCHANGED <<handler, table, snd, rcv>>
    PROVE  Kept(c)' /\ Steady(c)
<1>1. /\ call[c].conn = 0 /\ handler[c] = "off" /\ snd[c] = FreshSender /\ rcv[c] = FreshReceiver
      /\ \A s \in Sides : c \notin table[s]
      /\ Window \in Nat /\ "worker" \in Sides /\ rcv[c].taken \in Nat
  BY NotBegun, Records, WindowAssumption DEF Sides
<1>2. /\ snd[c].seq = 0 /\ snd[c].acked = 0 /\ snd[c].feed = "off"
      /\ rcv[c].taken = 0 /\ rcv[c].next = 0 /\ rcv[c].failed = FALSE /\ rcv[c].ended = FALSE /\ rcv[c].reader = "off"
  BY <1>1 DEF FreshSender, FreshReceiver
<1>3. Kept(c)'
  BY <1>1, <1>2 DEF Kept, FreshSender, FreshReceiver
<1>4. Steady(c)
  BY <1>1, <1>2 DEF Steady
<1> QED BY <1>3, <1>4

LEMMA BeginStreams ==
    ASSUME StreamInv, Orderly', NEW c \in Calls, NEW k \in KindsOf[c], Begin(c, k)
    PROVE  StreamInv'
<1>1. /\ call[c].phase = "idle" /\ UNCHANGED <<handler, rcv>> /\ call \in [Calls -> CallRecords]
      /\ k \in {"plain", "upload", "download"} /\ HandlersKnown' /\ call[c].conn = 0
  BY KindsAssumption, NotBegun DEF Begin, StreamInv, Orderly, Inv, TypeOK, HandlersKnown
<1>2. CASE connecting \/ socket = 0
  <2>1. /\ call' = [call EXCEPT ![c] = [@ EXCEPT !.kind = k, !.phase = "connecting"]]
        /\ UNCHANGED <<wire, handler, table, snd, rcv>>
    BY <1>1, <1>2 DEF Begin
  <2>2. ASSUME NEW d \in Calls PROVE call'[d].conn = call[d].conn /\ (d # c => call'[d] = call[d])
    BY <1>1, <2>1 DEF CallRecords
  <2>3. ASSUME NEW d \in Calls PROVE Kept(d)' /\ Steady(d)
    <3>1. CASE d = c
      BY <1>1, <2>1, <2>2, <3>1, WaitingKept
    <3>2. CASE d # c
      <4>1. Fades(d)
        BY <2>1, <2>2, <3>2, Untouched
      <4> QED BY <4>1, FadesSteady
    <3> QED BY <3>1, <3>2
  <2>4. CASE connecting
    <3>1. UNCHANGED <<socket, opened, up, down>>
      BY <1>2, <2>4 DEF Begin
    <3> QED BY <1>1, <2>1, <2>3, <3>1, QuietStep
  <2>5. CASE ~connecting
    <3>1. /\ opened' = opened + 1 /\ socket' = opened'
          /\ up' = [s \in Sides |-> IF s = "core" \/ alive THEN up[s] \cup {opened'} ELSE up[s]]
          /\ down' = IF alive THEN down ELSE down \cup {opened'}
          /\ opened \in Nat /\ opened' \in Nat
      BY <1>2, <2>5, ConnOpened DEF Begin
    <3>2. 1..opened' = (1..opened) \cup {opened'} /\ 0..opened \subseteq 0..opened'
      BY <3>1
    <3>3. ASSUME NEW n \in 1..opened' PROVE n \in down' \/ \A s \in Sides : n \in up'[s]
      <4>1. CASE n = opened'
        BY <3>1, <4>1
      <4>2. CASE n \in 1..opened
        <5>1. n \in down \/ \A s \in Sides : n \in up[s]
          BY <4>2 DEF StreamInv, EndsKnown
        <5> QED BY <3>1, <5>1
      <4> QED BY <3>2, <4>1, <4>2
    <3>4. \A s \in Sides : up'[s] \subseteq 1..opened'
      BY <3>1, <3>2 DEF StreamInv, EndsKnown
    <3>5. \A d \in Calls : call'[d].conn \in 0..opened'
      BY <2>2, <3>2, ConnOpened
    <3>6. EndsKnown'
      BY <3>1, <3>3, <3>4, <3>5 DEF EndsKnown
    <3>7. down \subseteq down'
      BY <3>1
    <3>8. wire' = wire
      BY <2>1
    <3> QED BY <1>1, <2>3, <3>6, <3>7, <3>8, LoseStep
  <2> QED BY <2>4, <2>5
<1>3. CASE ~(connecting \/ socket = 0)
  <2>1. PICK calls0 : calls0 = [call EXCEPT ![c] = [@ EXCEPT !.kind = k]]
    OBVIOUS
  <2>2. /\ calls0 \in [Calls -> CallRecords] /\ calls0[c].conn = 0
        /\ \A d \in Calls : d \notin {c} => calls0[d] = call[d]
    BY <1>1, <2>1 DEF CallRecords
  <2>3. PICK order : order = <<c>>
    OBVIOUS
  <2>4. /\ order \in Seq(Calls) /\ \A i, j \in DOMAIN order : order[i] = order[j] => i = j
        /\ \A i \in DOMAIN order : order[i] \in {c}
        /\ \A d \in {c} : \E i \in DOMAIN order : order[i] = d
    <3>1. order \in Seq(Calls) /\ DOMAIN order = {1} /\ order[1] = c
      BY <2>3
    <3> QED BY <3>1
  <2>5. StartAll({c}, order, calls0, wire) /\ socket # 0 /\ UNCHANGED <<socket, opened, up, down, handler, rcv>>
    BY <1>1, <1>3, <2>1, <2>3 DEF Begin
  <2>6. PICK cs \in SUBSET Calls : cs = {c}
    OBVIOUS
  <2>7. PICK w \in Wires : w = wire /\ SameFlows(w)
    BY SameWires
  <2>8. StartAll(cs, order, calls0, w)
    BY <2>5, <2>6, <2>7
  <2>9. \A d \in cs : call[d].conn = 0 /\ calls0[d].conn = 0
    BY <1>1, <2>2, <2>6
  <2> QED BY <2>2, <2>4, <2>5, <2>6, <2>7, <2>8, <2>9, StartStep
<1> QED BY <1>2, <1>3

LEMMA BeginTooLargeStreams ==
    ASSUME StreamInv, Orderly', NEW c \in Calls, BeginTooLarge(c)
    PROVE  StreamInv'
<1>1. /\ call[c].phase = "idle" /\ socket # 0 /\ call \in [Calls -> CallRecords]
      /\ call' = [call EXCEPT ![c] = [@ EXCEPT !.phase = "done", !.outcome = "failed", !.conn = socket]]
      /\ UNCHANGED <<socket, opened, up, down, wire, handler, table, snd, rcv>>
  BY DEF BeginTooLarge, netVars, StreamInv, Orderly, Inv, TypeOK
<1>2. PICK n \in 0..opened : n = socket /\ n \in Conns /\ n # 0
  BY <1>1, ConnOpened DEF StreamInv, Orderly, StreamTypes
<1>3. /\ call'[c].conn = n /\ call'[c].kind = call[c].kind /\ call'[c].phase = "done" /\ call[c].conn = 0
      /\ \A d \in Calls : d # c => call'[d] = call[d]
  BY <1>1, <1>2, NotBegun DEF CallRecords
<1>4. /\ handler[c] = "off" /\ snd[c] = FreshSender /\ rcv[c] = FreshReceiver /\ \A s \in Sides : c \notin table[s]
      /\ Window \in Nat /\ "worker" \in Sides /\ "core" \in Sides
      /\ wire \in Wires /\ SameFlows(wire)
  BY <1>1, NotBegun, SameWires, WindowAssumption DEF Sides
<1>5. /\ snd[c].seq = 0 /\ snd[c].acked = 0 /\ snd[c].feed = "off" /\ snd[c].opened = FALSE
      /\ rcv[c].taken = 0 /\ rcv[c].next = 0 /\ rcv[c].failed = FALSE /\ rcv[c].ended = FALSE /\ rcv[c].reader = "off"
      /\ rcv[c].opened = FALSE
  BY <1>4 DEF FreshSender, FreshReceiver
<1>6. ASSUME NEW d \in Calls, d # c PROVE Fades(d)
  BY <1>1, <1>3, <1>6, Untouched
<1>7. ASSUME NEW d \in Calls PROVE Kept(d)'
  <2>1. CASE d = c
    BY <1>1, <1>2, <1>3, <1>4, <1>5, <2>1 DEF Kept
  <2>2. CASE d # c
    BY <1>6, <2>2, FadesSteady
  <2> QED BY <2>1, <2>2
<1>8. Flows(c)'
  <2>1. Stream(c)' = Stream(c) /\ Requests(c)' = {Ask(c)} /\ Served(c)' = {} /\ Asked(c)' = {Ask(c)}
    BY <1>1, <1>2, <1>3, <1>4 DEF Stream, Requests, Served, Asked, Ask, Frame
  <2>2. \A g \in Stream(c) : g \in CallFrames /\ g.n \in Nat /\ g.call = c /\ g.type \in {"execute"} \cup ToReceiver
    BY DEF Stream, CallFrames
  <2>3. Had(c)' = {} /\ Sent(c)' = {}
    <3>1. \A g \in Stream(c) : g \notin Had(c)' /\ g \notin Sent(c)'
      BY <1>1, <1>4, <1>5, <2>2 DEF Had, Sent, Ask, Frame
    <3> QED BY <2>1, <3>1 DEF Had, Sent
  <2>4. ASSUME NEW s \in Sides
        PROVE  /\ wire[s][n] \in Seq(Frames)
               /\ \A i \in DOMAIN wire[s][n] : wire[s][n][i] \notin {Ask(c)} /\ wire[s][n][i] \notin Stream(c)
    <3>1. wire[s][n] \in Seq(Frames)
      BY <1>2, <1>4 DEF Wires
    <3>2. ASSUME NEW i \in DOMAIN wire[s][n]
          PROVE  wire[s][n][i] \notin {Ask(c)} /\ wire[s][n][i] \notin Stream(c)
      <4>1. wire[s][n][i] \in CallFrames /\ wire[s][n][i].call = c => wire[s][n][i].type \notin {"execute"} \cup ToReceiver
        BY <1>2, <1>3, <1>4, <3>2, NothingUnderWay
      <4>2. Ask(c) \in CallFrames /\ Ask(c).call = c /\ Ask(c).type = "execute"
        BY DEF Ask, Frame, CallFrames
      <4> QED BY <2>2, <4>1, <4>2
    <3> QED BY <3>1, <3>2
  <2>5. PICK u \in Seq(Frames) : u = wire["worker"][n]
    BY <1>4, <2>4
  <2>6. PICK none, one : none = {} /\ one = {Ask(c)}
    OBVIOUS
  <2>7. Flow(u, one, none, none, TRUE)
    BY <1>4, <2>4, <2>5, <2>6, NoFlow
  <2>8. Flow(u, one, none, one, TRUE)
    BY <2>6, <2>7 DEF Flow
  <2>9. \A s \in Sides : \A cut : Flow(wire[s][n], Stream(c), {}, {}, cut)
    BY <2>4, NoFlow
  <2>10. ReceiverSide(c) \in Sides /\ ReceiverSide(c)' = ReceiverSide(c)
    BY <1>3, SidesOf DEF ReceiverSide
  <2>11. Flow(wire[ReceiverSide(c)][n], Stream(c), {}, {}, n \in down)
    BY <2>9, <2>10
  <2>12. Flow(wire'["worker"][n], Requests(c)', Served(c)', Asked(c)', TRUE)
    BY <1>1, <2>1, <2>5, <2>6, <2>8
  <2>13. Flow(wire'[ReceiverSide(c)'][n], Stream(c)', Had(c)', Sent(c)', n \in down')
    BY <1>1, <2>1, <2>3, <2>10, <2>11
  <2> QED BY <1>3, <2>12, <2>13 DEF Flows
<1>9. ASSUME NEW d \in Calls PROVE Flows(d)'
  <2>1. CASE d # c
    <3>1. PICK t \in Seq(Frames) : wire = Written(wire, "core", 0, t) /\ \A i \in DOMAIN t : FALSE
      BY <1>4, NothingMore
    <3>2. (\A i \in DOMAIN t : t[i].call # d) /\ down' = down
      BY <1>1, <3>1
    <3>3. \A m \in Conns : /\ wire'["worker"][m] \in {wire["worker"][m], wire["worker"][m] \o t}
                           /\ wire'["core"][m] = wire["core"][m]
      BY <1>1
    <3>4. Fades(d)
      BY <1>6, <2>1
    <3> QED BY <1>2, <1>4, <3>2, <3>3, <3>4, BesideFlows
  <2>2. CASE d = c
    BY <1>8, <2>2
  <2> QED BY <2>1, <2>2
<1>10. AllPlaced'
  <2>1. ASSUME NEW r \in Sides, NEW m \in Conns, NEW i \in DOMAIN wire'[r][m] PROVE Placed(wire[r][m][i], r, m)'
    <3>1. PICK f : f = wire[r][m][i]
      OBVIOUS
    <3>2. f \in Frames /\ Placed(f, r, m) /\ wire'[r][m][i] = f
      BY <1>1, <1>4, <3>1 DEF StreamInv, AllPlaced, Wires
    <3>3. Placed(f, r, m)'
      BY <1>1, <1>3, <3>2, Records, PlacedStays
    <3> QED BY <3>2, <3>3 DEF Placed, ReceiverSide
  <2> QED BY <2>1 DEF AllPlaced
<1>11. EndsKnown' /\ HandlersKnown'
  BY <1>1, <1>2, <1>3 DEF StreamInv, EndsKnown, HandlersKnown
<1> QED BY <1>7, <1>9, <1>10, <1>11 DEF StreamInv

\* The client reads helloAck and writes "ready": flows go on.
LEMMA GreetedFlows ==
    ASSUME StreamInv, NEW n \in Conns, n \in 0..opened, wire["core"][n] # <<>>, Head(wire["core"][n]) \notin CallFrames,
           NEW t \in Seq(Frames), \A i \in DOMAIN t : t[i] \notin CallFrames,
           NEW w, w = Written(Read("core", n), "core", n, t)
    PROVE  w \in Wires /\ SameFlows(w)
<1>1. /\ StreamTypes /\ "core" \in Sides /\ "worker" \in Sides /\ Peer("core") = "worker" /\ wire \in Wires
      /\ n \in Conns \cup {0}
  BY DEF StreamInv, Orderly, StreamTypes, Sides, Peer
<1>2. PICK read \in Wires : read = Read("core", n)
  BY <1>1, ReadOn
<1>3. /\ read["core"][n] = Tail(wire["core"][n])
      /\ \A s \in Sides, m \in Conns : s # "core" \/ m # n => read[s][m] = wire[s][m]
  BY <1>1, <1>2, ReadOn
<1>4. w \in Wires
  BY <1>1, <1>2, WrittenOn
<1>5. \A s \in Sides, m \in Conns : w[s][m] = IF s = "worker" /\ m = n /\ n \notin down THEN read[s][m] \o t ELSE read[s][m]
  BY <1>1, <1>2, WroteOn
<1>6. ASSUME NEW s \in Sides, NEW m \in Conns
      PROVE  \/ s = "core" /\ m = n /\ w[s][m] = Tail(wire[s][m])
             \/ w[s][m] = wire[s][m] \o t
             \/ w[s][m] = wire[s][m]
  <2>1. CASE s = "core" /\ m = n
    BY <1>3, <1>5, <2>1
  <2>2. CASE ~(s = "core" /\ m = n)
    <3>1. read[s][m] = wire[s][m]
      BY <1>3, <2>2
    <3> QED BY <1>5, <3>1
  <2> QED BY <2>1, <2>2
<1>7. ASSUME NEW s \in Sides, NEW m \in Conns, NEW i \in DOMAIN w[s][m], w[s][m][i] \in CallFrames
      PROVE  \E j \in DOMAIN wire[s][m] : w[s][m][i] = wire[s][m][j]
  <2>1. PICK u \in Seq(Frames) : u = wire[s][m]
    BY <1>1 DEF Wires
  <2>2. PICK v : v = w[s][m]
    OBVIOUS
  <2>3. CASE s = "core" /\ m = n /\ v = Tail(u)
    <3>1. u # <<>> /\ i \in DOMAIN Tail(u) /\ v[i] = Tail(u)[i]
      BY <1>7, <2>1, <2>2, <2>3
    <3>2. i + 1 \in DOMAIN u /\ Tail(u)[i] = u[i + 1]
      BY <3>1, Shifted
    <3> QED BY <2>1, <2>2, <3>1, <3>2
  <2>4. CASE v = u \o t
    <3>1. i \in DOMAIN (u \o t) /\ (u \o t)[i] = v[i] /\ v[i] \in CallFrames
      BY <1>7, <2>2, <2>4
    <3>2. (i \in DOMAIN u /\ v[i] = u[i]) \/ (i - Len(u) \in DOMAIN t /\ v[i] = t[i - Len(u)])
      BY <3>1, Joined
    <3> QED BY <2>1, <2>2, <3>1, <3>2
  <2>5. CASE v = u
    BY <1>7, <2>1, <2>2, <2>5
  <2> QED BY <1>6, <2>1, <2>2, <2>3, <2>4, <2>5
<1>8. ASSUME NEW s \in Sides, NEW m \in Conns, NEW own, NEW had, NEW sent, NEW cut,
             own \subseteq CallFrames, Flow(wire[s][m], own, had, sent, cut)
      PROVE  Flow(w[s][m], own, had, sent, cut)
  <2>1. PICK u \in Seq(Frames) : u = wire[s][m]
    BY <1>1 DEF Wires
  <2>2. Flow(u, own, had, sent, cut)
    BY <1>8, <2>1
  <2>3. sent \subseteq own
    BY <2>2 DEF Flow
  <2>4. u # <<>> /\ Head(u) \notin CallFrames => Flow(Tail(u), own, had, sent, cut)
    <3>1. ASSUME u # <<>>, Head(u) \notin CallFrames PROVE Flow(Tail(u), own, had, sent, cut)
      <4>1. Head(u) \notin own
        BY <1>8, <3>1
      <4>2. Flow(Tail(u), own, IF Head(u) \in own THEN had \cup {Head(u)} ELSE had, sent, cut)
        BY <2>2, <3>1, FlowRead
      <4> QED BY <4>1, <4>2
    <3> QED BY <3>1
  <2>5. Flow(u \o t, own, had, sent, cut)
    <3>1. \A i \in DOMAIN t : t[i] \notin own
      BY <1>8
    <3>2. Follows(t, own, sent, sent)
      BY <3>1, NothingOfIt
    <3> QED BY <2>2, <2>3, <3>1, <3>2, FlowWritten
  <2> QED BY <1>6, <2>1, <2>2, <2>4, <2>5
<1> QED BY <1>4, <1>7, <1>8 DEF SameFlows

LEMMA HandshakeEndsStreams ==
    ASSUME StreamInv, Orderly', NEW n \in Conns, n = socket, wire["core"][n] # <<>>,
           Head(wire["core"][n]).type = "helloAck", HandshakeEnds(n)
    PROVE  StreamInv'
<1>1. PICK t : t = <<ReadyFrame>>
  OBVIOUS
<1>2. t \in Seq(Frames) /\ \A i \in DOMAIN t : t[i] \notin CallFrames
  BY <1>1, FrameTypes DEF ReadyFrame, Frame, CallFrames
<1>3. Head(wire["core"][n]) \notin CallFrames
  BY DEF CallFrames
<1>4. n \in 0..opened
  BY ConnOpened
<1>5. PICK w \in Wires : w = Written(Read("core", n), "core", n, t) /\ SameFlows(w)
  BY <1>2, <1>3, <1>4, GreetedFlows
<1>6. PICK cs \in SUBSET Calls : cs = Waiting
  BY DEF Waiting
<1>7. PICK order : order = SetToSeq(cs)
  OBVIOUS
<1>8. /\ order \in Seq(Calls) /\ \A i, j \in DOMAIN order : order[i] = order[j] => i = j
      /\ \A i \in DOMAIN order : order[i] \in cs
      /\ \A c \in cs : \E i \in DOMAIN order : order[i] = c
  BY <1>7, EachOnce
<1>9. StartAll(cs, order, call, w) /\ UNCHANGED <<socket, opened, up, down, handler, rcv>>
  BY <1>1, <1>5, <1>6, <1>7 DEF HandshakeEnds, ReadyFrame
<1>10. PICK calls0 \in [Calls -> CallRecords] : calls0 = call
  BY DEF StreamInv, Orderly, Inv, TypeOK
<1>11. /\ \A c \in Calls : c \notin cs => calls0[c] = call[c]
       /\ \A c \in cs : call[c].conn = 0 /\ calls0[c].conn = 0
       /\ StartAll(cs, order, calls0, w) /\ socket # 0
  BY <1>6, <1>9, <1>10, NotBegun DEF Waiting, Conns
<1>12. SameFlows(w) /\ UNCHANGED <<socket, opened, up, down, handler, rcv>>
  BY <1>5, <1>9
<1> QED BY <1>8, <1>11, <1>12, StartStep

LEMMA CoreReadsStreams ==
    ASSUME StreamInv, Orderly', NEW n \in Conns, CoreReads(n)
    PROVE  StreamInv'
<1>1. PICK f : f = Head(wire["core"][n])
  OBVIOUS
<1>2. /\ wire["core"][n] # <<>> /\ "core" \in Sides /\ n = socket /\ n \in 0..opened /\ 0 \in 0..opened
  <2>1. wire["core"][n] # <<>> /\ n \in up["core"] /\ ~closed
    BY DEF CoreReads
  <2> QED BY <2>1, ConnOpened DEF Sides, StreamInv, Orderly, Inv, OneSocket
<1>3. CASE f.type = "helloAck" /\ HandshakeEnds(n)
  BY <1>1, <1>2, <1>3, HandshakeEndsStreams
<1>4. CASE f.type = "reply" /\ f.call \in pending /\ Reply(n, f.call, f.n = 1)
  BY <1>1, <1>2, <1>4, ReplyStreams
<1>5. CASE /\ f.type = "reply"
           /\ wire' = Read("core", n)
           /\ UNCHANGED <<call, pending, netVars, handler, table, snd, rcv>>
  <2>1. PICK t \in Seq(Frames) : wire' = Written(Read("core", n), "core", 0, t) /\ \A i \in DOMAIN t : FALSE
    BY <1>2, <1>5, NothingMore
  <2>2. \A c \in Calls : Fades(c) /\ f \notin Requests(c) /\ f \notin Stream(c)
    BY <1>5, Untouched, NotOfStream
  <2>3. HandlersKnown' /\ UNCHANGED <<socket, opened, up, down>>
    BY <1>5 DEF StreamInv, HandlersKnown, netVars
  <2> QED BY <1>1, <1>2, <2>1, <2>2, <2>3, ReadAside
<1>6. CASE IsStreamFrame(f) /\ HandleStream("core", n, f) /\ UNCHANGED <<netVars, handler>>
  BY <1>1, <1>2, <1>6, HandleStreamKept
<1> QED BY <1>1, <1>3, <1>4, <1>5, <1>6 DEF CoreReads

-----------------------------------------------------------------------------
(* The induction *)

LEMMA InitStreams == Init => StreamInv
<1> SUFFICES ASSUME Init PROVE StreamInv
  OBVIOUS
<1>1. Orderly
  BY InitOrder
<1>2. HandlersKnown /\ EndsKnown
  BY DEF Init, HandlersKnown, EndsKnown
<1>3. AllPlaced
  BY DEF Init, AllPlaced
<1>4. ASSUME NEW c \in Calls PROVE Kept(c) /\ Flows(c)
  <2>1. /\ call[c].conn = 0 /\ handler[c] = "off" /\ snd[c] = FreshSender /\ rcv[c] = FreshReceiver
        /\ (\A s \in Sides : c \notin table[s]) /\ "worker" \in Sides /\ Window \in Nat
    BY WindowAssumption DEF Init, Sides
  <2>2. /\ snd[c].seq = 0 /\ snd[c].acked = 0 /\ snd[c].feed = "off"
        /\ rcv[c].taken = 0 /\ rcv[c].next = 0 /\ rcv[c].failed = FALSE /\ rcv[c].ended = FALSE /\ rcv[c].reader = "off"
    BY <2>1 DEF FreshSender, FreshReceiver
  <2> QED BY <2>1, <2>2 DEF Kept, Flows
<1> QED BY <1>1, <1>2, <1>3, <1>4 DEF StreamInv

-----------------------------------------------------------------------------
(* Whose reader outlives its socket.  A stream the client still holds is on *)
(* the socket there is, and a download it holds no more has failed, or is   *)
(* whole.                                                                   *)

Held(c) ==
    /\ c \in table["core"] => call[c].conn = socket /\ call[c].kind # "plain"
    /\ rcv[c].reader = "busy" /\ call[c].kind # "upload" =>
          call[c].kind = "download" /\ (c \in table["core"] \/ rcv[c].failed \/ rcv[c].ended)
AllHeld == \A c \in Calls : Held(c)

LEMMA HeldSaysWhole == StreamInv /\ AllHeld => LateWhenWhole
<1> SUFFICES ASSUME StreamInv, AllHeld, NEW c \in Calls, rcv[c].reader = "busy"
             PROVE  /\ call[c].conn # 0
                    /\ Queued(c) > 0 /\ ReceiverSide(c) = "core" /\ call[c].conn # socket
                          => call[c].kind = "download" /\ rcv[c].ended
  BY DEF LateWhenWhole
<1>1. Held(c) /\ Kept(c)
  BY DEF AllHeld, StreamInv
<1>2. call[c].conn # 0
  BY <1>1 DEF Kept, FreshReceiver
<1> QED BY <1>1, <1>2 DEF Held, Queued, ReceiverSide

\* The streams of c at the client stay, or go.
Drops(c) ==
    /\ call'[c].conn = call[c].conn /\ call'[c].kind = call[c].kind
    /\ c \in table'["core"] => c \in table["core"] /\ socket' = socket
    /\ rcv[c].ended => rcv'[c].ended
    /\ rcv'[c].reader = "busy" /\ call[c].kind # "upload" =>
          /\ rcv[c].reader = "busy" \/ c \in table'["core"]
          /\ rcv[c].failed => rcv'[c].failed
          /\ c \in table["core"] => c \in table'["core"] \/ rcv'[c].failed \/ rcv'[c].ended

LEMMA DropsHeld ==
    ASSUME StreamInv, NEW c \in Calls, Held(c), Drops(c)
    PROVE  Held(c)'
<1>1. call[c].kind \in {"plain", "upload", "download"}
  BY Records
<1> QED BY <1>1 DEF Held, Drops

LEMMA CutDrops ==
    ASSUME StreamInv, NEW s \in Sides, NEW cs, Cut(s, cs), NEW c \in Calls,
           call'[c].conn = call[c].conn, call'[c].kind = call[c].kind,
           (s = "core" /\ Calls \subseteq cs) \/ socket' = socket
    PROVE  Drops(c)
<1>1. /\ rcv[c] \in Receivers /\ table \in [Sides -> SUBSET Calls] /\ "core" \in Sides
      /\ rcv[c].failed \in BOOLEAN /\ rcv[c].ended \in BOOLEAN
  BY Records DEF StreamInv, Orderly, StreamTypes, Sides
<1>2. /\ rcv'[c].reader = rcv[c].reader /\ rcv'[c].ended = rcv[c].ended
      /\ rcv[c].failed => rcv'[c].failed
      /\ c \in cs \cap table[s] /\ ReceiverSide(c) = s => rcv'[c].failed \/ rcv'[c].ended
  BY <1>1 DEF Cut, Receivers
<1>3. /\ table'["core"] = IF s = "core" THEN table["core"] \ (cs \cap table["core"]) ELSE table["core"]
  BY <1>1 DEF Cut
<1> QED BY <1>1, <1>2, <1>3 DEF Drops, ReceiverSide, Held

LEMMA HandleDrops ==
    ASSUME StreamInv, AllHeld, NEW s \in Sides, NEW n \in Conns, NEW f \in Frames, IsStreamFrame(f),
           HandleStream(s, n, f), UNCHANGED socket, NEW c \in Calls
    PROVE  Drops(c)
<1>1. /\ rcv \in [Calls -> Receivers] /\ rcv[c] \in Receivers /\ Inv /\ f.call \in Calls /\ Held(c)
  BY DEF StreamInv, Orderly, StreamTypes, AllHeld, Frames, HandshakeFrames, CallFrames, IsStreamFrame
<1>2. CASE \E w, notify : AbortAt(s, f.call, w, notify)
  <2>1. Cut(s, {f.call}) /\ (call' = Settled({f.call}, "aborted") \/ call' = call)
    BY <1>2 DEF AbortAt
  <2>2. call'[c].conn = call[c].conn /\ call'[c].kind = call[c].kind
    BY <1>1, <2>1, SettledKinds DEF StreamInv
  <2> QED BY <2>1, <2>2, CutDrops
<1>3. CASE UNCHANGED <<call, table, rcv>>
  BY <1>3 DEF Drops
<1>4. CASE /\ f.call \in table[s] /\ ReceiverSide(f.call) = s
           /\ rcv' = [rcv EXCEPT ![f.call] = Received(f.call, f)]
           /\ f.type \in {"streamOpen", "streamData", "streamEnd"}
           /\ UNCHANGED <<call, table>>
  <2>1. CASE c # f.call
    BY <1>1, <1>4, <2>1 DEF Drops
  <2>2. CASE c = f.call
    <3>1. rcv'[c] = Received(c, f)
      BY <1>1, <1>4, <2>2
    <3>2. /\ rcv[c].ended => rcv'[c].ended
          /\ rcv[c].failed => rcv'[c].failed
      BY <1>1, <1>4, <3>1 DEF Received, Receivers
    <3> QED BY <1>1, <1>4, <2>2, <3>1, <3>2 DEF Drops, ReceiverSide
  <2> QED BY <2>1, <2>2
<1> QED BY <1>2, <1>3, <1>4 DEF HandleStream

\* What calls that are not begun have of a stream: nothing.
LEMMA NothingHeld ==
    ASSUME StreamInv, NEW c \in Calls, call[c].conn = 0
    PROVE  rcv[c].reader = "off" /\ c \notin table["core"]
BY DEF StreamInv, Kept, FreshReceiver, Sides

LEMMA StartHeld ==
    ASSUME StreamInv, AllHeld, NEW cs \in SUBSET Calls, NEW order, NEW w, NEW calls0 \in [Calls -> CallRecords],
           \A c \in Calls : calls0[c].conn = call[c].conn,
           \A c \in Calls \ cs : calls0[c] = call[c],
           \A c \in cs : call[c].conn = 0,
           StartAll(cs, order, calls0, w), UNCHANGED <<socket, rcv>>
    PROVE  AllHeld' /\ Lasting
<1> SUFFICES ASSUME NEW c \in Calls
             PROVE  /\ Held(c)'
                    /\ call[c].conn # 0 => Drops(c) \/ call'[c] = call[c]
  BY DEF AllHeld, Lasting, Drops
<1>1. Held(c) /\ table \in [Sides -> SUBSET Calls] /\ "core" \in Sides
  BY DEF AllHeld, StreamInv, Orderly, StreamTypes, Sides
<1>2. table'["core"] = table["core"] \cup {d \in cs : calls0[d].kind # "plain"}
  BY <1>1 DEF StartAll
<1>3. CASE c \in cs
  <2>1. call'[c] = [calls0[c] EXCEPT !.phase = "pending", !.conn = socket] /\ calls0[c] \in CallRecords
    BY <1>3 DEF StartAll
  <2>2. call'[c].conn = socket /\ call'[c].kind = calls0[c].kind
    BY <2>1 DEF CallRecords
  <2>3. rcv[c].reader = "off" /\ c \notin table["core"] /\ call[c].conn = 0
    BY <1>3, NothingHeld
  <2> QED BY <1>2, <1>3, <2>2, <2>3 DEF Held
<1>4. CASE c \notin cs
  <2>1. call'[c] = call[c]
    BY <1>4 DEF StartAll
  <2> QED BY <1>1, <1>2, <1>4, <2>1 DEF Held
<1> QED BY <1>3, <1>4

LEMMA HeldInductive == StreamInv /\ AllHeld /\ [Next]_vars => AllHeld' /\ Lasting
<1> SUFFICES ASSUME StreamInv, AllHeld, [Next]_vars PROVE AllHeld' /\ Lasting
  OBVIOUS
<1>a. (\A c \in Calls : Drops(c)) => AllHeld' /\ Lasting
  BY DropsHeld DEF AllHeld, Lasting, Drops
<1>b. /\ StreamTypes /\ Inv /\ call \in [Calls -> CallRecords] /\ rcv \in [Calls -> Receivers]
      /\ table \in [Sides -> SUBSET Calls] /\ "core" \in Sides /\ "worker" \in Sides
      /\ \A c \in Calls : rcv[c] \in Receivers /\ Held(c) /\ Kept(c)
  BY DEF StreamInv, Orderly, StreamTypes, Inv, TypeOK, Sides, AllHeld
<1>c. ASSUME NEW cs, NEW outcome \in {"ok", "failed", "lost", "timeout", "aborted"},
             call' = Settled(cs, outcome) \/ call' = call
      PROVE  \A c \in Calls : call'[c].conn = call[c].conn /\ call'[c].kind = call[c].kind
  BY <1>b, <1>c, SettledKinds DEF StreamInv
<1>1. CASE UNCHANGED <<call, socket, table, rcv>>
  BY <1>1, <1>a DEF Drops
<1>2. ASSUME NEW c \in Calls, NEW k \in KindsOf[c], Begin(c, k) PROVE AllHeld' /\ Lasting
  <2>1. call[c].conn = 0 /\ k \in {"plain", "upload", "download"}
    BY <1>2, <1>b, KindsAssumption DEF Begin, Kept
  <2>2. CASE connecting \/ socket = 0
    <3>1. /\ call' = [call EXCEPT ![c] = [@ EXCEPT !.kind = k, !.phase = "connecting"]]
          /\ UNCHANGED <<table, rcv>>
          /\ socket' = socket \/ socket = 0
      BY <1>2, <2>2 DEF Begin
    <3>2. /\ \A d \in Calls : call'[d].conn = call[d].conn
          /\ \A d \in Calls \ {c} : call'[d] = call[d]
      BY <1>b, <3>1 DEF CallRecords
    <3>3. ASSUME NEW d \in Calls PROVE Held(d)'
      <4>1. CASE d = c
        BY <2>1, <3>1, <4>1, NothingHeld DEF Held
      <4>2. CASE d # c
        <5>1. socket = 0 => d \notin table["core"]
          BY <1>b, NothingHeld DEF Held
        <5> QED BY <1>b, <3>1, <3>2, <4>2, <5>1 DEF Held
      <4> QED BY <4>1, <4>2
    <3>4. Lasting
      BY <2>1, <3>1, <3>2 DEF Lasting
    <3> QED BY <3>3, <3>4 DEF AllHeld
  <2>3. CASE ~(connecting \/ socket = 0)
    <3>1. StartAll({c}, <<c>>, [call EXCEPT ![c] = [@ EXCEPT !.kind = k]], wire) /\ UNCHANGED <<socket, rcv>>
      BY <1>2, <2>3 DEF Begin
    <3>2. PICK calls0 : calls0 = [call EXCEPT ![c] = [@ EXCEPT !.kind = k]]
      OBVIOUS
    <3>3. /\ calls0 \in [Calls -> CallRecords]
          /\ \A d \in Calls : calls0[d].conn = call[d].conn
          /\ \A d \in Calls \ {c} : calls0[d] = call[d]
      BY <1>b, <2>1, <3>2 DEF CallRecords
    <3>4. StartAll({c}, <<c>>, calls0, wire) /\ {c} \in SUBSET Calls /\ \A d \in {c} : call[d].conn = 0
      BY <2>1, <3>1, <3>2
    <3> QED BY <3>1, <3>3, <3>4, StartHeld
  <2> QED BY <2>2, <2>3
<1>3. ASSUME NEW c \in Calls, BeginTooLarge(c) PROVE AllHeld' /\ Lasting
  <2>1. call[c].conn = 0
    BY <1>3, <1>b DEF BeginTooLarge, Kept
  <2>2. /\ call' = [call EXCEPT ![c] = [@ EXCEPT !.phase = "done", !.outcome = "failed", !.conn = socket]]
        /\ UNCHANGED <<table, rcv, socket>>
    BY <1>3 DEF BeginTooLarge, netVars
  <2>3. \A d \in Calls \ {c} : call'[d] = call[d]
    BY <2>2
  <2>4. ASSUME NEW d \in Calls PROVE Held(d)'
    BY <1>b, <2>1, <2>2, <2>3, NothingHeld DEF Held
  <2> QED BY <2>1, <2>3, <2>2, <2>4 DEF AllHeld, Lasting
<1>4. ASSUME NEW c \in Calls, Deadline(c) PROVE AllHeld' /\ Lasting
  <2>1. Cut("core", {c}) /\ socket' = socket /\ (call' = Settled({c}, "timeout") \/ call' = call)
    BY <1>4 DEF Deadline, netVars
  <2> QED BY <1>a, <1>b, <1>c, <2>1, CutDrops
<1>5. ASSUME NEW c \in Calls, SourceFails(c) PROVE AllHeld' /\ Lasting
  <2>1. /\ call[c].kind = "upload" /\ UNCHANGED <<socket, rcv>>
        /\ table' = [table EXCEPT !["core"] = @ \ {c}]
        /\ call' = Settled({c}, "aborted") \/ call' = call
    BY <1>5 DEF SourceFails, netVars
  <2>2. \A d \in Calls : call'[d].conn = call[d].conn /\ call'[d].kind = call[d].kind
    BY <1>c, <2>1
  <2>3. table'["core"] = table["core"] \ {c}
    BY <1>b, <2>1
  <2> QED BY <1>a, <2>1, <2>2, <2>3 DEF Drops
<1>6. ASSUME NEW c \in Calls, ReaderCancels(c) PROVE AllHeld' /\ Lasting
  <2>1. /\ UNCHANGED socket
        /\ table' = [table EXCEPT !["core"] = @ \ {c}] \/ table' = table
        /\ \E b : rcv' = [rcv EXCEPT ![c].failed = @ \/ b, ![c].reader = "stopped"]
        /\ call' = Settled({c}, "aborted") \/ call' = call
    BY <1>6 DEF ReaderCancels, netVars
  <2>2. \A d \in Calls : call'[d].conn = call[d].conn /\ call'[d].kind = call[d].kind
    BY <1>c, <2>1
  <2>3. table'["core"] = table["core"] \ {c} \/ table'["core"] = table["core"]
    BY <1>b, <2>1
  <2>4. /\ \A d \in Calls \ {c} : rcv'[d] = rcv[d]
        /\ rcv'[c].reader = "stopped" /\ rcv'[c].ended = rcv[c].ended
    BY <1>b, <2>1 DEF Receivers
  <2> QED BY <1>a, <2>1, <2>2, <2>3, <2>4 DEF Drops
<1>7. ASSUME NEW c \in Calls, Take(c) \/ ReadsToEnd(c) \/ ReadFails(c) \/ HandlerStops(c) PROVE AllHeld' /\ Lasting
  <2>1. /\ UNCHANGED <<call, table, socket>> /\ rcv[c].reader = "busy"
        /\ \A d \in Calls \ {c} : rcv'[d] = rcv[d]
        /\ rcv'[c].ended = rcv[c].ended /\ rcv'[c].failed = rcv[c].failed
    BY <1>b, <1>7 DEF Take, ReadsToEnd, ReadFails, HandlerStops, netVars, Receivers
  <2> QED BY <1>a, <2>1 DEF Drops
<1>8. ASSUME NEW c \in Calls, NEW ok \in BOOLEAN, HandlerReturns(c, ok) PROVE AllHeld' /\ Lasting
  <2>1. UNCHANGED <<call, rcv, socket>> /\ table'["core"] = table["core"]
    BY <1>b, <1>8 DEF HandlerReturns, netVars
  <2> QED BY <1>a, <2>1 DEF Drops
<1>9. ASSUME NEW n \in Conns, Fail(n) PROVE AllHeld' /\ Lasting
  <2>1. Cut("core", Calls) /\ call' = Settled(Waiting \cup {c \in pending : call[c].phase = "pending"}, "lost")
    BY <1>9 DEF Fail
  <2>2. \A c \in Calls : call'[c].conn = call[c].conn /\ call'[c].kind = call[c].kind
    BY <1>c, <2>1
  <2> QED BY <1>a, <1>b, <2>1, <2>2, CutDrops
<1>10. CASE Close
  <2>1. Cut("core", Calls) /\ call' = Settled({c \in pending : call[c].phase = "pending"}, "lost")
    BY <1>10 DEF Close
  <2>2. \A c \in Calls : call'[c].conn = call[c].conn /\ call'[c].kind = call[c].kind
    BY <1>c, <2>1
  <2> QED BY <1>a, <1>b, <2>1, <2>2, CutDrops
<1>11. ASSUME NEW n \in Conns, WorkerNotices(n) PROVE AllHeld' /\ Lasting
  <2>1. Cut("worker", {c \in Calls : call[c].conn = n}) /\ UNCHANGED <<call, socket>>
    BY <1>11 DEF WorkerNotices
  <2> QED BY <1>a, <1>b, <2>1, CutDrops
<1>12. CASE WorkerDies
  <2>1. /\ UNCHANGED <<call, socket>> /\ table'["core"] = table["core"]
        /\ \A c \in Calls : rcv'[c] = IF call[c].kind = "upload" /\ rcv[c].reader = "busy"
                                      THEN [rcv[c] EXCEPT !.reader = "gone"] ELSE rcv[c]
    BY <1>b, <1>12 DEF WorkerDies
  <2>2. \A c \in Calls : rcv'[c].ended = rcv[c].ended /\ (call[c].kind # "upload" => rcv'[c] = rcv[c])
    BY <1>b, <2>1 DEF Receivers
  <2> QED BY <1>a, <2>1, <2>2 DEF Drops
<1>13. CASE HandshakeTimeout
  <2>1. call' = Settled(Waiting, "timeout") /\ UNCHANGED <<socket, table, rcv>>
    BY <1>13 DEF HandshakeTimeout
  <2>2. \A c \in Calls : call'[c].conn = call[c].conn /\ call'[c].kind = call[c].kind
    BY <1>c, <2>1
  <2> QED BY <1>a, <2>1, <2>2 DEF Drops
<1>14. ASSUME NEW n \in Conns, WorkerReads(n) PROVE AllHeld' /\ Lasting
  <2> DEFINE f == Head(wire["worker"][n])
  <2>1. f \in Frames /\ Placed(f, "worker", n)
    BY <1>14, <1>b, HeadIs DEF WorkerReads
  <2>2. CASE f.type = "execute" /\ Attach(f.call) /\ UNCHANGED <<call, socket>>
    <3> HIDE DEF f
    <3>1. f.call \in Calls
      BY <2>1, <2>2 DEF Frames, HandshakeFrames, CallFrames
    <3>2. /\ table'["core"] = table["core"]
          /\ rcv' = IF call[f.call].kind = "upload" THEN [rcv EXCEPT ![f.call].reader = "busy"] ELSE rcv
      BY <1>b, <2>2 DEF Attach
    <3>3. \A c \in Calls : rcv'[c].ended = rcv[c].ended /\ (call[c].kind # "upload" => rcv'[c] = rcv[c])
      BY <1>b, <3>1, <3>2 DEF Receivers
    <3> QED BY <1>a, <2>2, <3>2, <3>3 DEF Drops
  <2>3. CASE IsStreamFrame(f) /\ HandleStream("worker", n, f) /\ UNCHANGED socket
    <3> HIDE DEF f
    <3> QED BY <1>a, <1>b, <2>1, <2>3, HandleDrops
  <2> QED BY <1>1, <1>14, <2>2, <2>3 DEF WorkerReads, netVars
<1>15. ASSUME NEW n \in Conns, CoreReads(n) PROVE AllHeld' /\ Lasting
  <2> DEFINE f == Head(wire["core"][n])
  <2>1. f \in Frames
    BY <1>15, <1>b, HeadIs DEF CoreReads
  <2>2. CASE HandshakeEnds(n)
    <3>1. /\ \E w : StartAll(Waiting, SetToSeq(Waiting), call, w)
          /\ UNCHANGED <<socket, rcv>>
          /\ Waiting \in SUBSET Calls
          /\ \A c \in Waiting : call[c].conn = 0
      BY <1>b, <2>2 DEF HandshakeEnds, Waiting, Kept
    <3> QED BY <1>b, <3>1, StartHeld
  <2>3. CASE f.type = "reply" /\ Reply(n, f.call, f.n = 1)
    <3> HIDE DEF f
    <3> DEFINE c == f.call
    <3>1. c \in Calls
      BY <2>1, <2>3 DEF Frames, HandshakeFrames, CallFrames
    <3>2. /\ call' = Settled({c}, IF f.n = 1 THEN "ok" ELSE "failed")
          /\ table' = [table EXCEPT !["core"] = @ \ {c}]
          /\ rcv' = IF call[c].kind = "download" THEN [rcv EXCEPT ![c].failed = @ \/ ~rcv[c].ended] ELSE rcv
          /\ UNCHANGED socket
      BY <2>3 DEF Reply, netVars
    <3>3. \A d \in Calls : call'[d].conn = call[d].conn /\ call'[d].kind = call[d].kind
      BY <1>c, <3>2
    <3> HIDE DEF c
    <3>4. table'["core"] = table["core"] \ {c}
      BY <1>b, <3>2
    <3>5. /\ \A d \in Calls \ {c} : rcv'[d] = rcv[d]
          /\ rcv'[c].reader = rcv[c].reader /\ rcv'[c].ended = rcv[c].ended
          /\ rcv[c].failed => rcv'[c].failed
          /\ call[c].kind = "download" => rcv'[c].failed \/ rcv'[c].ended
      BY <1>b, <3>1, <3>2 DEF Receivers
    <3>6. ASSUME NEW d \in Calls PROVE Drops(d)
      BY <1>b, <3>2, <3>3, <3>4, <3>5 DEF Drops, Held
    <3> QED BY <1>a, <3>6
  <2>4. CASE IsStreamFrame(f) /\ HandleStream("core", n, f) /\ UNCHANGED socket
    <3> HIDE DEF f
    <3> QED BY <1>a, <1>b, <2>1, <2>4, HandleDrops
  <2> QED BY <1>1, <1>15, <2>2, <2>3, <2>4 DEF CoreReads, netVars
<1>16. CASE UNCHANGED vars
  BY <1>1, <1>16 DEF vars, netVars
<1>17. ASSUME NEW c \in Calls, Send(c) \/ SourceEnds(c) PROVE AllHeld' /\ Lasting
  BY <1>1, <1>17 DEF Send, SourceEnds, netVars
<1>18. ASSUME NEW n \in Conns, Connected(n) \/ Breaks(n) PROVE AllHeld' /\ Lasting
  BY <1>1, <1>18 DEF Connected, Breaks
<1> QED BY <1>2, <1>3, <1>4, <1>5, <1>6, <1>7, <1>8, <1>9, <1>10, <1>11, <1>12, <1>13, <1>14, <1>15,
           <1>16, <1>17, <1>18 DEF Next

-----------------------------------------------------------------------------
(* All of it *)

LEMMA StreamInductive == StreamInv /\ AllHeld /\ [Next]_vars => StreamInv'
<1> SUFFICES ASSUME StreamInv, AllHeld, [Next]_vars PROVE StreamInv'
  OBVIOUS
<1>a. Orderly'
  BY HeldSaysWhole, HeldInductive, OrderInductive DEF StreamInv
<1>1. CASE UNCHANGED vars
  <2>1. ASSUME NEW c \in Calls PROVE Kept(c)' /\ Steady(c)
    <3>1. Fades(c)
      BY <1>1, Untouched DEF vars
    <3> QED BY <3>1, FadesSteady
  <2>2. HandlersKnown' /\ wire' = wire /\ UNCHANGED <<socket, opened, up, down>>
    BY <1>1 DEF vars, netVars, StreamInv, HandlersKnown
  <2> QED BY <1>a, <2>1, <2>2, QuietStep
<1>2. ASSUME NEW c \in Calls, NEW k \in KindsOf[c], Begin(c, k) PROVE StreamInv'
  BY <1>a, <1>2, BeginStreams
<1>3. ASSUME NEW c \in Calls, BeginTooLarge(c) PROVE StreamInv'
  BY <1>a, <1>3, BeginTooLargeStreams
<1>4. ASSUME NEW c \in Calls, Deadline(c) PROVE StreamInv'
  BY <1>a, <1>4, DeadlineStreams
<1>5. ASSUME NEW c \in Calls, Send(c) \/ SourceEnds(c) PROVE StreamInv'
  BY <1>a, <1>5, SendStreams
<1>6. ASSUME NEW c \in Calls, SourceFails(c) PROVE StreamInv'
  BY <1>a, <1>6, SourceFailsStreams
<1>7. ASSUME NEW c \in Calls, Take(c) PROVE StreamInv'
  BY <1>a, <1>7, TakeStreams
<1>8. ASSUME NEW c \in Calls, ReadsToEnd(c) \/ ReadFails(c) \/ HandlerStops(c) PROVE StreamInv'
  BY <1>a, <1>8, ReadersStreams
<1>9. ASSUME NEW c \in Calls, ReaderCancels(c) PROVE StreamInv'
  BY <1>a, <1>9, ReaderCancelsStreams
<1>10. ASSUME NEW c \in Calls, NEW ok \in BOOLEAN, HandlerReturns(c, ok) PROVE StreamInv'
  BY <1>a, <1>10, HandlerReturnsStreams
<1>11. ASSUME NEW n \in Conns, Connected(n) PROVE StreamInv'
  BY <1>a, <1>11, ConnectedStreams
<1>12. ASSUME NEW n \in Conns, Fail(n) PROVE StreamInv'
  BY <1>a, <1>12, FailStreamsEnd
<1>13. ASSUME NEW n \in Conns, WorkerReads(n) PROVE StreamInv'
  BY <1>a, <1>13, WorkerReadsStreams
<1>14. ASSUME NEW n \in Conns, WorkerNotices(n) PROVE StreamInv'
  BY <1>a, <1>14, WorkerNoticesStreams
<1>15. ASSUME NEW n \in Conns, CoreReads(n) PROVE StreamInv'
  BY <1>a, <1>15, CoreReadsStreams
<1>16. ASSUME NEW n \in Conns, Breaks(n) PROVE StreamInv'
  BY <1>a, <1>16, BreaksStreams
<1>17. CASE HandshakeTimeout
  BY <1>a, <1>17, HandshakeTimeoutStreams
<1>18. CASE Close
  BY <1>a, <1>18, CloseStreams
<1>19. CASE WorkerDies
  BY <1>a, <1>19, WorkerDiesStreams
<1> QED BY <1>1, <1>2, <1>3, <1>4, <1>5, <1>6, <1>7, <1>8, <1>9, <1>10, <1>11, <1>12, <1>13, <1>14, <1>15,
           <1>16, <1>17, <1>18, <1>19 DEF Next

LEMMA AlwaysStreams == Spec => [](StreamInv /\ AllHeld)
<1>1. Init => AllHeld
  BY DEF Init, AllHeld, Held, FreshReceiver, Sides
<1> QED BY <1>1, InitStreams, StreamInductive, HeldInductive, PTL DEF Spec

LEMMA StreamsAccepted == StreamInv => FramesAreAccepted
<1> SUFFICES ASSUME StreamInv, NEW s \in Sides, NEW n \in Conns, wire[s][n] # <<>>, NEW f, f = Head(wire[s][n]),
                    f.type \in {"streamOpen", "streamData", "streamEnd"}, f.call \in table[s]
             PROVE  ReceiverSide(f.call) = s /\ Accepts(f.call, f)
  BY DEF FramesAreAccepted
<1>1. PICK c : c = f.call
  OBVIOUS
<1>2. f \in CallFrames
  BY HeadIs DEF Frames, HandshakeFrames
<1>3. c \in Calls /\ c \in table[s] /\ f \in Stream(c) /\ f.type \in ToReceiver
  BY <1>1, <1>2 DEF CallFrames, Stream, ToReceiver
<1> QED BY <1>1, <1>3, Accepted

LEMMA EndsWhole == StreamInv => EndMeansWhole
<1> SUFFICES ASSUME StreamInv, NEW c \in Calls, rcv[c].reader = "whole"
             PROVE  snd[c].feed = "ended" /\ rcv[c].taken = snd[c].seq
  BY DEF EndMeansWhole
<1> QED BY DEF StreamInv, Kept

-----------------------------------------------------------------------------
(* The theorems *)

LEMMA AlwaysInv == Spec => []Inv
BY InitInv, Inductive, PTL DEF Spec

\* The client's records of calls, slots and sockets keep their types.
THEOREM TypeCorrect == Spec => []TypeOK
BY AlwaysInv, PTL DEF Inv

\* However many calls share a handshake, whatever breaks, and in whatever order the ends of sockets
\* are noticed: a call that waits has a slot, and a slot is on the socket the client still has.
THEOREM NobodyWaitsInVain == Spec => []NothingWaitsOnALostSocket
BY AlwaysInv, PTL DEF Inv

\* A connection the worker has not seen "ready" of is refused for a request only where its handshake
\* had met the timeout.
LEMMA TurnsKept == StreamInv /\ [Next]_vars =>
    [\A n \in refused' \ refused :
        \/ n \in late
        \/ LET f == Head(wire["worker"][n]) IN
           /\ f.type = "streamAck" /\ call[f.call].conn # n
           /\ call[f.call].kind = "download" /\ rcv[f.call].ended]_vars
<1> SUFFICES ASSUME StreamInv, [Next]_vars, NEW n \in refused' \ refused, n \notin late
             PROVE  Astray(Head(wire["worker"][n]), n)
  BY DEF Astray
<1>1. n \in Conns /\ WorkerReads(n) /\ n \notin served /\ wire["worker"][n] # <<>>
      /\ Head(wire["worker"][n]).type \notin {"hello", "ready"}
  <2>1. refused' # refused
    OBVIOUS
  <2>2. PICK m \in Conns : WorkerReads(m)
    <3>1. ASSUME NEW m \in Conns, CoreReads(m) PROVE FALSE
      BY <2>1, <3>1 DEF CoreReads, HandshakeEnds, Reply, netVars
    <3>2. ASSUME NEW c \in Calls, NEW k \in KindsOf[c], Begin(c, k) PROVE FALSE
      BY <2>1, <3>2 DEF Begin
    <3>3. ASSUME NEW c \in Calls, \/ Send(c) \/ SourceEnds(c) \/ SourceFails(c) \/ Take(c) \/ ReadsToEnd(c)
                                  \/ ReadFails(c) \/ HandlerStops(c) \/ ReaderCancels(c) \/ BeginTooLarge(c)
                                  \/ Deadline(c) \/ \E ok \in BOOLEAN : HandlerReturns(c, ok)
          PROVE  FALSE
      <4>1. UNCHANGED netVars
        BY <3>3 DEF Send, SourceEnds, SourceFails, Take, ReadsToEnd, ReadFails, HandlerStops, ReaderCancels,
                    BeginTooLarge, Deadline, HandlerReturns
      <4> QED BY <2>1, <4>1 DEF netVars
    <3>4. ASSUME NEW m \in Conns, Connected(m) \/ Fail(m) \/ WorkerNotices(m) \/ Breaks(m) PROVE FALSE
      BY <2>1, <3>4 DEF Connected, Fail, WorkerNotices, Breaks
    <3>5. ~(HandshakeTimeout \/ Close \/ WorkerDies \/ UNCHANGED vars)
      BY <2>1 DEF HandshakeTimeout, Close, WorkerDies, vars, netVars
    <3> QED BY <3>1, <3>2, <3>3, <3>4, <3>5 DEF Next
  <2>3. /\ refused' = refused \cup {m} /\ m \notin served /\ wire["worker"][m] # <<>>
        /\ Head(wire["worker"][m]).type \notin {"hello", "ready"}
    BY <2>1, <2>2 DEF WorkerReads, netVars
  <2> QED BY <2>2, <2>3
<1>2. Turn(n) /\ stage[n] \in {"opening", "greeted", "ready"}
  BY <1>1 DEF StreamInv, Orderly, StreamTypes
<1>3. Hello.type = "hello" /\ ReadyFrame.type = "ready"
  BY DEF Hello, ReadyFrame, Frame
<1> QED BY <1>1, <1>2, <1>3 DEF Turn, EndsAstray

\* However many calls come during a handshake: none of their requests makes the worker refuse a connection,
\* unless the handshake met its timeout.  What else makes it refuse one is told in full: the late
\* acknowledgement of a download that was whole before its own connection was lost.
THEOREM NobodySpeaksOutOfTurn == Spec => RequestsKeepTheirTurn
BY AlwaysStreams, TurnsKept, PTL DEF Spec, RequestsKeepTheirTurn

\* For every window and length of a stream: however requests, streams, aborts, deadlines, lost sockets and the
\* end of the worker interleave, a frame that reaches a receiver which still listens passes all of its checks.
THEOREM ReceiversAccept == Spec => []FramesAreAccepted
BY AlwaysStreams, StreamsAccepted, PTL

\* For every window and length of a stream: a reader that was told of the end had all that was sent, and the
\* sender had come to its end.
THEOREM WholeAtTheEnd == Spec => []EndMeansWhole
BY AlwaysStreams, EndsWhole, PTL
=============================================================================
