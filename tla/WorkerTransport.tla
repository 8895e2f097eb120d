------------------------- MODULE WorkerTransport -------------------------
(***************************************************************************)
(* The socket between the core and the execution worker, packages/ipc: the *)
(* handshake that concurrent calls share, requests and their replies, the  *)
(* deadlines, and the streams that carry an upload or a download beside    *)
(* their request.  What is written between two awaits is one step, for     *)
(* neither program does anything else meanwhile.  A frame keeps its type,  *)
(* its call and one number; a chunk is counted, never looked into.         *)
(*                                                                         *)
(* Sockets take what is written, however slow the other side reads.  The   *)
(* requests that wait for a handshake are written in one order, whichever; *)
(* one too large for a frame keeps its slot until its deadline.            *)
(***************************************************************************)
EXTENDS Naturals, Sequences, FiniteSets, SequencesExt

CONSTANTS
    Calls,       \* requests of the core, each made at most once
    KindsOf,     \* per call, the kinds it may have: "plain", "upload", "download"
    Window,      \* STREAM_WINDOW: chunks a sender may have in flight
    MaxChunks,   \* bound: chunks of one stream
    MaxConns,    \* bound: connections the client opens
    MaxBreaks    \* bound: connections that break, or that the client closes, under a live worker

ASSUME CallsAssumption == IsFiniteSet(Calls)
ASSUME BoundAssumption == MaxConns \in Nat
ASSUME WindowAssumption == Window \in Nat \ {0}
ASSUME KindsAssumption == KindsOf \in [Calls -> SUBSET {"plain", "upload", "download"}]

VARIABLES
    call,        \* per call its kind, its phase and its outcome at the caller
    pending,     \* the reply slots of the client
    socket,      \* this.socket: the connection it is, 0 for none
    opened,      \* connections opened so far
    connecting,  \* the handshake that callers share is under way
    stage,       \* per connection, what the client has done in the handshake
    served,      \* per connection, the worker has seen "ready"
    up,          \* per side, the connections whose end it has not noticed
    down,        \* the connections that are at an end
    wire,        \* per side and connection, the frames on their way to it
    handler,     \* per call, the handler in the worker
    table,       \* per side, the calls with an entry in the StreamTable
    snd,         \* per call, the ChunkSender and the code that feeds it
    rcv,         \* per call, the ChunkReceiver and the code that reads it
    alive,       \* the worker process runs
    closed,      \* the client was closed
    refused,     \* connections the worker destroyed for a frame out of turn
    late         \* connections whose handshake met its timeout

netVars == <<socket, opened, connecting, stage, served, up, down, closed, refused, late, alive>>
vars == <<call, pending, netVars, wire, handler, table, snd, rcv>>

Sides == {"core", "worker"}
Conns == 1..MaxConns
Frame(type, c, n) == [type |-> type, call |-> c, n |-> n]
NoCall == "none"

Streams(c) == call[c].kind \in {"upload", "download"}
SenderSide(c) == IF call[c].kind = "upload" THEN "core" ELSE "worker"
ReceiverSide(c) == IF call[c].kind = "upload" THEN "worker" ELSE "core"

FreshSender == [seq |-> 0, acked |-> 0, opened |-> FALSE, failed |-> FALSE, feed |-> "off"]
FreshReceiver == [opened |-> FALSE, next |-> 0, taken |-> 0, ended |-> FALSE, failed |-> FALSE, reader |-> "off"]

Init ==
    /\ call = [c \in Calls |-> [kind |-> "plain", phase |-> "idle", outcome |-> "none", conn |-> 0]]
    /\ pending = {}
    /\ socket = 0
    /\ opened = 0
    /\ connecting = FALSE
    /\ stage = [n \in Conns |-> "opening"]
    /\ served = {}
    /\ up = [s \in Sides |-> {}]
    /\ down = {}
    /\ wire = [s \in Sides |-> [n \in Conns |-> <<>>]]
    /\ handler = [c \in Calls |-> "off"]
    /\ table = [s \in Sides |-> {}]
    /\ snd = [c \in Calls |-> FreshSender]
    /\ rcv = [c \in Calls |-> FreshReceiver]
    /\ alive = TRUE
    /\ closed = FALSE
    /\ refused = {}
    /\ late = {}

(***************************************************************************)
(* Frames and tables.  Nothing is written to a socket that is destroyed.   *)
(***************************************************************************)
Peer(s) == IF s = "core" THEN "worker" ELSE "core"

\* The wires w after side s has written frames on connection n.
Written(w, s, n, frames) ==
    IF n = 0 \/ n \in down \/ n \notin up[s] THEN w
    ELSE [w EXCEPT ![Peer(s)][n] = @ \o frames]

\* The wires w after side s has read a frame of connection n.
Read(s, n) == [wire EXCEPT ![s][n] = Tail(@)]

\* Mutant: the reader of an aborted stream is not woken.
CutSenders(s, cs) ==
    LET gone == cs \cap table[s] IN
    /\ table' = [table EXCEPT ![s] = @ \ gone]
    /\ snd' = [c \in Calls |-> IF c \in gone /\ SenderSide(c) = s
                               THEN [snd[c] EXCEPT !.failed = TRUE] ELSE snd[c]]
    /\ UNCHANGED rcv

\* The entries of cs leave the table of side s and what they hold there fails.
Cut(s, cs) ==
    LET gone == cs \cap table[s] IN
    /\ table' = [table EXCEPT ![s] = @ \ gone]
    /\ snd' = [c \in Calls |-> IF c \in gone /\ SenderSide(c) = s
                               THEN [snd[c] EXCEPT !.failed = TRUE] ELSE snd[c]]
    /\ rcv' = [c \in Calls |-> IF c \in gone /\ ReceiverSide(c) = s
                               THEN [rcv[c] EXCEPT !.failed = @ \/ ~rcv[c].ended] ELSE rcv[c]]

\* The frame that tells the peer of an abort, if there is something to abort.
AbortFrames(s, c) == IF c \in table[s] THEN <<Frame("streamAbort", c, 0)>> ELSE <<>>

\* The callers of cs learn how their call ended.
Settled(cs, outcome) ==
    [c \in Calls |-> IF c \in cs THEN [call[c] EXCEPT !.phase = "done", !.outcome = outcome] ELSE call[c]]

(***************************************************************************)
(* Connecting.  Callers wait for one handshake.                            *)
(***************************************************************************)
Waiting == {c \in Calls : call[c].phase = "connecting"}

\* The slots, streams and requests of the calls cs on the socket there is.
StartAll(cs, order, calls0, w) ==
    /\ call' = [c \in Calls |-> IF c \in cs
                                THEN [calls0[c] EXCEPT !.phase = "pending", !.conn = socket] ELSE calls0[c]]
    /\ pending' = pending \cup cs
    /\ table' = [table EXCEPT !["core"] = @ \cup {c \in cs : calls0[c].kind # "plain"}]
    /\ wire' = Written(w, "core", socket, [i \in DOMAIN order |-> Frame("execute", order[i], 0)])
    /\ snd' = [c \in Calls |-> IF c \in cs /\ calls0[c].kind = "upload" THEN [snd[c] EXCEPT !.feed = "busy"] ELSE snd[c]]

\* Mutant: a caller goes on as soon as there is a socket object.
BeginOnSocket(c, k) ==
    /\ call[c].phase = "idle"
    /\ ~closed
    /\ IF socket # 0
       THEN /\ StartAll({c}, <<c>>, [call EXCEPT ![c] = [@ EXCEPT !.kind = k]], wire)
            /\ UNCHANGED netVars
       ELSE /\ opened < MaxConns
            /\ opened' = opened + 1
            /\ socket' = opened'
            /\ connecting' = TRUE
            /\ up' = [s \in Sides |-> up[s] \cup {opened'}]
            /\ call' = [call EXCEPT ![c] = [@ EXCEPT !.kind = k, !.phase = "connecting"]]
            /\ UNCHANGED <<pending, wire, table, snd, stage, served, down, closed, refused, late, alive>>
    /\ UNCHANGED <<handler, rcv>>

\* execute, executeWithUpload or executeWithDownload: on the socket there is, or after the handshake.
Begin(c, k) ==
    /\ call[c].phase = "idle"
    /\ ~closed
    /\ IF connecting \/ socket = 0
       THEN /\ call' = [call EXCEPT ![c] = [@ EXCEPT !.kind = k, !.phase = "connecting"]]
            /\ IF connecting THEN UNCHANGED <<socket, opened, connecting, up, down>>
               ELSE /\ opened < MaxConns
                    /\ opened' = opened + 1
                    /\ socket' = opened'
                    /\ connecting' = TRUE
                    /\ up' = [s \in Sides |-> IF s = "core" \/ alive THEN up[s] \cup {opened'} ELSE up[s]]
                    /\ down' = IF alive THEN down ELSE down \cup {opened'}
            /\ UNCHANGED <<pending, wire, table, snd>>
       ELSE /\ StartAll({c}, <<c>>, [call EXCEPT ![c] = [@ EXCEPT !.kind = k]], wire)
            /\ UNCHANGED <<socket, opened, connecting, up, down>>
    /\ UNCHANGED <<stage, served, closed, refused, late, alive, handler, rcv>>

\* A request that does not fit a frame fails, after its slot was registered.
BeginTooLarge(c) ==
    /\ call[c].phase = "idle"
    /\ socket # 0
    /\ ~connecting
    /\ call' = [call EXCEPT ![c] = [@ EXCEPT !.phase = "done", !.outcome = "failed", !.conn = socket]]
    /\ pending' = pending \cup {c}
    /\ UNCHANGED <<netVars, wire, handler, table, snd, rcv>>

\* The connection stands: hello.
Connected(n) ==
    /\ n \in up["core"] \ down
    /\ n <= opened
    /\ stage[n] = "opening"
    /\ stage' = [stage EXCEPT ![n] = "greeted"]
    /\ wire' = Written(wire, "core", n, <<Frame("hello", NoCall, 0)>>)
    /\ UNCHANGED <<call, pending, socket, opened, connecting, served, up, down, closed, refused, late, alive,
                   handler, table, snd, rcv>>

\* Ten seconds pass: the callers that wait are told, the socket stays.
HandshakeTimeout ==
    /\ connecting
    /\ socket # 0
    /\ stage[socket] # "ready"
    /\ connecting' = FALSE
    /\ late' = late \cup {socket}
    /\ call' = Settled(Waiting, "timeout")
    /\ UNCHANGED <<pending, socket, opened, stage, served, up, down, closed, refused, alive,
                   wire, handler, table, snd, rcv>>

\* Mutant: only the streams and the handshake learn of the end of a socket.
FailStreams(n) ==
    /\ n \in down \cap up["core"]
    /\ up' = [up EXCEPT !["core"] = @ \ {n}]
    /\ connecting' = FALSE
    /\ Cut("core", Calls)
    /\ call' = Settled(Waiting, "lost")
    /\ socket' = IF socket = n THEN 0 ELSE socket
    /\ wire' = [wire EXCEPT !["core"][n] = <<>>]
    /\ UNCHANGED <<pending, opened, stage, served, down, closed, refused, late, alive, handler>>

\* fail: the end of a socket fails its callers and its streams.
Fail(n) ==
    /\ n \in down \cap up["core"]
    /\ up' = [up EXCEPT !["core"] = @ \ {n}]
    /\ connecting' = FALSE
    /\ Cut("core", Calls)
    /\ call' = Settled(Waiting \cup {c \in pending : call[c].phase = "pending"}, "lost")
    /\ pending' = {}
    /\ socket' = IF socket = n THEN 0 ELSE socket
    /\ wire' = [wire EXCEPT !["core"][n] = <<>>]
    /\ UNCHANGED <<opened, stage, served, down, closed, refused, late, alive, handler>>

Close ==
    /\ ~closed
    /\ Cardinality(down) < MaxBreaks
    /\ closed' = TRUE
    /\ socket' = 0
    /\ down' = IF socket = 0 THEN down ELSE down \cup {socket}
    /\ Cut("core", Calls)
    /\ call' = Settled({c \in pending : call[c].phase = "pending"}, "lost")
    /\ pending' = {}
    /\ UNCHANGED <<opened, connecting, stage, served, up, refused, late, alive, wire, handler>>

\* The deadline of a call; nobody waits any more for one that was too large.
Deadline(c) ==
    /\ c \in pending
    /\ pending' = pending \ {c}
    /\ call' = IF call[c].phase = "pending" THEN Settled({c}, "timeout") ELSE call
    /\ wire' = Written(wire, "core", socket, AbortFrames("core", c))
    /\ Cut("core", {c})
    /\ UNCHANGED <<netVars, handler>>

(***************************************************************************)
(* Streams.                                                                *)
(***************************************************************************)
Queued(c) == IF rcv[c].failed THEN 0 ELSE rcv[c].next - rcv[c].taken

\* ChunkReceiver and StreamTable.handle: what the receiver says to a frame.
Accepts(c, f) ==
    CASE f.type = "streamOpen" -> ~rcv[c].opened
      [] f.type = "streamData" -> rcv[c].opened /\ ~rcv[c].ended /\ f.n = rcv[c].next /\ Queued(c) < Window
      [] f.type = "streamEnd"  -> rcv[c].opened /\ ~rcv[c].ended /\ f.n = rcv[c].next

Received(c, f) ==
    CASE f.type = "streamOpen" -> [rcv[c] EXCEPT !.opened = TRUE, !.reader = IF @ = "off" THEN "busy" ELSE @]
      [] f.type = "streamData" -> [rcv[c] EXCEPT !.next = @ + 1]
      [] f.type = "streamEnd"  -> [rcv[c] EXCEPT !.ended = TRUE]

IsStreamFrame(f) == f.type \in {"streamOpen", "streamData", "streamEnd", "streamAck", "streamAbort"}

\* An abort at side s of the stream of c; at the core it rejects the call.
AbortAt(s, c, w, notify) ==
    /\ wire' = IF notify THEN Written(w, s, call[c].conn, AbortFrames(s, c)) ELSE w
    /\ Cut(s, {c})
    /\ IF s = "core" /\ c \in table[s]
       THEN /\ call' = IF c \in pending /\ call[c].phase = "pending" THEN Settled({c}, "aborted") ELSE call
            /\ pending' = pending \ {c}
       ELSE UNCHANGED <<call, pending>>

\* StreamTable.handle
HandleStream(s, n, f) ==
    LET c == f.call
        ToReceiver == f.type \in {"streamOpen", "streamData", "streamEnd"}
    IN
    \/ /\ c \notin table[s]
       /\ wire' = Written(Read(s, n), s, n, IF ToReceiver THEN <<Frame("streamAbort", c, 0)>> ELSE <<>>)
       /\ UNCHANGED <<call, pending, table, snd, rcv>>
    \/ /\ c \in table[s]
       /\ f.type = "streamAbort"
       /\ AbortAt(s, c, Read(s, n), FALSE)
    \/ /\ c \in table[s]
       /\ f.type = "streamAck"
       /\ wire' = Read(s, n)
       /\ snd' = IF SenderSide(c) = s /\ f.n + 1 > snd[c].acked
                 THEN [snd EXCEPT ![c].acked = f.n + 1] ELSE snd
       /\ UNCHANGED <<call, pending, table, rcv>>
    \/ /\ c \in table[s]
       /\ ToReceiver
       /\ IF ReceiverSide(c) = s /\ Accepts(c, f)
          THEN /\ wire' = Read(s, n)
               /\ rcv' = [rcv EXCEPT ![c] = Received(c, f)]
               /\ UNCHANGED <<call, pending, table, snd>>
          ELSE AbortAt(s, c, Read(s, n), TRUE)

(***************************************************************************)
(* The code at the two ends of a stream: the source of an upload and the   *)
(* reader of a download at the core, the handler in the worker.            *)
(***************************************************************************)
OpenFrames(c) == IF snd[c].opened THEN <<>> ELSE <<Frame("streamOpen", c, 0)>>

\* Mutant: one chunk more than the window.
SendOneMore(c) ==
    /\ snd[c].feed = "busy"
    /\ ~snd[c].failed
    /\ snd[c].seq - snd[c].acked <= Window
    /\ snd[c].seq < MaxChunks
    /\ wire' = Written(wire, SenderSide(c), call[c].conn, OpenFrames(c) \o <<Frame("streamData", c, snd[c].seq)>>)
    /\ snd' = [snd EXCEPT ![c].seq = @ + 1, ![c].opened = TRUE]
    /\ UNCHANGED <<call, pending, netVars, handler, table, rcv>>

\* sendNow: a chunk goes when the window allows it.
Send(c) ==
    /\ snd[c].feed = "busy"
    /\ ~snd[c].failed
    /\ snd[c].seq - snd[c].acked < Window
    /\ snd[c].seq < MaxChunks
    /\ wire' = Written(wire, SenderSide(c), call[c].conn, OpenFrames(c) \o <<Frame("streamData", c, snd[c].seq)>>)
    /\ snd' = [snd EXCEPT ![c].seq = @ + 1, ![c].opened = TRUE]
    /\ UNCHANGED <<call, pending, netVars, handler, table, rcv>>

\* The source of an upload is exhausted.
SourceEnds(c) ==
    /\ snd[c].feed = "busy"
    /\ call[c].kind = "upload"
    /\ ~snd[c].failed
    /\ wire' = Written(wire, "core", call[c].conn, OpenFrames(c) \o <<Frame("streamEnd", c, snd[c].seq)>>)
    /\ snd' = [snd EXCEPT ![c] = [@ EXCEPT !.opened = TRUE, !.feed = "ended"]]
    /\ UNCHANGED <<call, pending, netVars, handler, table, rcv>>

\* The source throws, or the stream has failed under it: the pump aborts what is left.
SourceFails(c) ==
    /\ snd[c].feed = "busy"
    /\ call[c].kind = "upload"
    /\ wire' = Written(wire, "core", call[c].conn, AbortFrames("core", c))
    /\ table' = [table EXCEPT !["core"] = @ \ {c}]
    /\ snd' = [snd EXCEPT ![c] = [@ EXCEPT !.failed = TRUE, !.feed = "failed"]]
    /\ call' = IF c \in table["core"] \cap pending THEN Settled({c}, "aborted") ELSE call
    /\ pending' = IF c \in table["core"] THEN pending \ {c} ELSE pending
    /\ UNCHANGED <<netVars, handler, rcv>>

\* The socket that side s of the stream of c writes on: the worker keeps a table per
\* connection, the client writes on the socket it has now.
LinkOf(s, c) == IF s = "core" THEN socket ELSE call[c].conn

\* A chunk is acknowledged when it is consumed.  The queue of a download that came to
\* its end outlives the loss of its socket, and so do its acknowledgements.
Take(c) ==
    /\ rcv[c].reader = "busy"
    /\ Queued(c) > 0
    /\ rcv' = [rcv EXCEPT ![c].taken = @ + 1]
    /\ wire' = Written(wire, ReceiverSide(c), LinkOf(ReceiverSide(c), c),
                      <<Frame("streamAck", c, rcv[c].taken)>>)
    /\ UNCHANGED <<call, pending, netVars, handler, table, snd>>

\* Mutant: the end is looked at before the chunks that are still queued.
ReadsEndFirst(c) ==
    /\ rcv[c].reader = "busy"
    /\ rcv[c].ended
    /\ rcv' = [rcv EXCEPT ![c].reader = "whole"]
    /\ UNCHANGED <<call, pending, netVars, wire, handler, table, snd>>

\* The reader has had everything.
ReadsToEnd(c) ==
    /\ rcv[c].reader = "busy"
    /\ rcv[c].ended
    /\ Queued(c) = 0
    /\ rcv' = [rcv EXCEPT ![c].reader = "whole"]
    /\ UNCHANGED <<call, pending, netVars, wire, handler, table, snd>>

ReadFails(c) ==
    /\ rcv[c].reader = "busy"
    /\ rcv[c].failed
    /\ rcv' = [rcv EXCEPT ![c].reader = "failed"]
    /\ UNCHANGED <<call, pending, netVars, wire, handler, table, snd>>

\* The handler of an upload reads no further; its reply will close the stream.
HandlerStops(c) ==
    /\ rcv[c].reader = "busy"
    /\ call[c].kind = "upload"
    /\ rcv' = [rcv EXCEPT ![c].reader = "stopped"]
    /\ UNCHANGED <<call, pending, netVars, wire, handler, table, snd>>

\* The reader of a download leaves its loop: onCancel.
ReaderCancels(c) ==
    /\ rcv[c].reader = "busy"
    /\ call[c].kind = "download"
    /\ rcv[c].taken > 0
    /\ ~rcv[c].failed
    /\ LET cancels == c \in table["core"] /\ ~rcv[c].ended IN
       /\ wire' = IF cancels THEN Written(wire, "core", call[c].conn, AbortFrames("core", c)) ELSE wire
       /\ table' = IF cancels THEN [table EXCEPT !["core"] = @ \ {c}] ELSE table
       /\ call' = IF cancels /\ c \in pending THEN Settled({c}, "aborted") ELSE call
       /\ pending' = IF cancels THEN pending \ {c} ELSE pending
       /\ rcv' = [rcv EXCEPT ![c].failed = @ \/ cancels, ![c].reader = "stopped"]
    /\ UNCHANGED <<netVars, handler, snd>>

(***************************************************************************)
(* The worker.                                                             *)
(***************************************************************************)
\* attachStream, or a plain request.
Attach(c) ==
    /\ handler' = [handler EXCEPT ![c] = "running"]
    /\ table' = IF Streams(c) THEN [table EXCEPT !["worker"] = @ \cup {c}] ELSE table
    /\ snd' = IF call[c].kind = "download" THEN [snd EXCEPT ![c].feed = "busy"] ELSE snd
    /\ rcv' = IF call[c].kind = "upload" THEN [rcv EXCEPT ![c].reader = "busy"] ELSE rcv

\* A frame arrives at the worker: the handshake, and what the handshake allows.
WorkerReads(n) ==
    /\ alive
    /\ n \in up["worker"]
    /\ wire["worker"][n] # <<>>
    /\ LET f == Head(wire["worker"][n]) IN
       \/ /\ n \notin served
          /\ f.type = "hello"
          /\ wire' = Written(Read("worker", n), "worker", n, <<Frame("helloAck", NoCall, 0)>>)
          /\ UNCHANGED <<call, pending, netVars, handler, table, snd, rcv>>
       \/ /\ n \notin served
          /\ f.type = "ready"
          /\ served' = served \cup {n}
          /\ wire' = Read("worker", n)
          /\ UNCHANGED <<call, pending, socket, opened, connecting, stage, up, down, closed, refused, late, alive,
                         handler, table, snd, rcv>>
       \/ /\ n \notin served
          /\ f.type \notin {"hello", "ready"}
          /\ refused' = refused \cup {n}
          /\ down' = down \cup {n}
          /\ up' = [up EXCEPT !["worker"] = @ \ {n}]
          /\ wire' = [wire EXCEPT !["worker"][n] = <<>>]
          /\ UNCHANGED <<call, pending, socket, opened, connecting, stage, served, closed, late, alive,
                         handler, table, snd, rcv>>
       \/ /\ n \in served
          /\ f.type = "execute"
          /\ Attach(f.call)
          /\ wire' = Read("worker", n)
          /\ UNCHANGED <<call, pending, netVars>>
       \/ /\ n \in served
          /\ IsStreamFrame(f)
          /\ HandleStream("worker", n, f)
          /\ UNCHANGED <<netVars, handler>>

\* The socket is gone: the streams of the connection fail; the handlers go on.
WorkerNotices(n) ==
    /\ alive
    /\ n \in down \cap up["worker"]
    /\ up' = [up EXCEPT !["worker"] = @ \ {n}]
    /\ wire' = [wire EXCEPT !["worker"][n] = <<>>]
    /\ Cut("worker", {c \in Calls : call[c].conn = n})
    /\ UNCHANGED <<call, pending, socket, opened, connecting, stage, served, down, closed, refused, late, alive, handler>>

\* What is written when the handler of c returns: beforeReply, the reply, afterReply.
ReplyFrames(c, ok) ==
    LET reply == <<Frame("reply", c, IF ok THEN 1 ELSE 0)>> IN
    CASE ~ok -> AbortFrames("worker", c) \o reply
      [] ok /\ call[c].kind = "plain"  -> reply
      [] ok /\ call[c].kind = "upload" -> reply \o (IF rcv[c].ended THEN <<>> ELSE AbortFrames("worker", c))
      [] ok /\ call[c].kind = "download" ->
            (IF c \in table["worker"] THEN OpenFrames(c) \o <<Frame("streamEnd", c, snd[c].seq)>> ELSE <<>>) \o reply

HandlerReturns(c, ok) ==
    /\ alive
    /\ handler[c] = "running"
    /\ call[c].kind = "upload" => rcv[c].reader # "busy"
    /\ handler' = [handler EXCEPT ![c] = "returned"]
    /\ wire' = Written(wire, "worker", call[c].conn, ReplyFrames(c, ok))
    /\ table' = [table EXCEPT !["worker"] = @ \ {c}]
    /\ snd' = IF call[c].kind = "download"
              THEN [snd EXCEPT ![c].feed = IF ok /\ c \in table["worker"] THEN "ended" ELSE "failed"] ELSE snd
    /\ UNCHANGED <<call, pending, netVars, rcv>>

(***************************************************************************)
(* The client reads.                                                       *)
(***************************************************************************)
\* helloAck: "ready", and the requests that waited for it.
HandshakeEnds(n) ==
    /\ stage' = [stage EXCEPT ![n] = "ready"]
    /\ connecting' = FALSE
    /\ StartAll(Waiting, SetToSeq(Waiting), call, Written(Read("core", n), "core", n, <<Frame("ready", NoCall, 0)>>))
    /\ UNCHANGED <<socket, opened, served, up, down, closed, refused, late, alive, handler, rcv>>

\* The reply of c: what the caller of each kind of call does with it before anything else happens.
Reply(n, c, ok) ==
    /\ pending' = pending \ {c}
    /\ call' = Settled({c}, IF ok THEN "ok" ELSE "failed")
    /\ table' = [table EXCEPT !["core"] = @ \ {c}]
    /\ wire' = IF call[c].kind = "upload" /\ ~ok
               THEN Written(Read("core", n), "core", n, AbortFrames("core", c)) ELSE Read("core", n)
    /\ snd' = IF call[c].kind = "upload" THEN [snd EXCEPT ![c].failed = TRUE] ELSE snd
    /\ rcv' = IF call[c].kind = "download" THEN [rcv EXCEPT ![c].failed = @ \/ ~rcv[c].ended] ELSE rcv
    /\ UNCHANGED <<netVars, handler>>

CoreReads(n) ==
    /\ ~closed
    /\ n \in up["core"]
    /\ wire["core"][n] # <<>>
    /\ LET f == Head(wire["core"][n]) IN
       \/ /\ f.type = "helloAck"
          /\ HandshakeEnds(n)
       \/ /\ f.type = "reply"
          /\ f.call \in pending
          /\ Reply(n, f.call, f.n = 1)
       \/ /\ f.type = "reply"
          /\ f.call \notin pending
          /\ wire' = Read("core", n)
          /\ UNCHANGED <<call, pending, netVars, handler, table, snd, rcv>>
       \/ /\ IsStreamFrame(f)
          /\ HandleStream("core", n, f)
          /\ UNCHANGED <<netVars, handler>>

(***************************************************************************)
(* The world.                                                              *)
(***************************************************************************)
WorkerDies ==
    /\ alive
    /\ alive' = FALSE
    /\ down' = 1..opened
    /\ up' = [up EXCEPT !["worker"] = {}]
    /\ handler' = [c \in Calls |-> IF handler[c] = "running" THEN "gone" ELSE handler[c]]
    /\ table' = [table EXCEPT !["worker"] = {}]
    /\ snd' = [c \in Calls |-> IF call[c].kind = "download" /\ snd[c].feed = "busy"
                               THEN [snd[c] EXCEPT !.feed = "gone"] ELSE snd[c]]
    /\ rcv' = [c \in Calls |-> IF call[c].kind = "upload" /\ rcv[c].reader = "busy"
                               THEN [rcv[c] EXCEPT !.reader = "gone"] ELSE rcv[c]]
    /\ wire' = [wire EXCEPT !["worker"] = [n \in Conns |-> <<>>]]
    /\ UNCHANGED <<call, pending, socket, opened, connecting, stage, served, closed, refused, late>>

Breaks(n) ==
    /\ alive
    /\ n \in (1..opened) \ down
    /\ Cardinality(down) < MaxBreaks
    /\ down' = down \cup {n}
    /\ UNCHANGED <<call, pending, socket, opened, connecting, stage, served, up, closed, refused, late, alive,
                   wire, handler, table, snd, rcv>>

Next ==
    \/ \E c \in Calls :
        \/ \E k \in KindsOf[c] : Begin(c, k)
        \/ BeginTooLarge(c)
        \/ Deadline(c)
        \/ Send(c)
        \/ SourceEnds(c)
        \/ SourceFails(c)
        \/ Take(c)
        \/ ReadsToEnd(c)
        \/ ReadFails(c)
        \/ HandlerStops(c)
        \/ ReaderCancels(c)
        \/ \E ok \in BOOLEAN : HandlerReturns(c, ok)
    \/ \E n \in Conns :
        \/ Connected(n)
        \/ Fail(n)
        \/ WorkerReads(n)
        \/ WorkerNotices(n)
        \/ CoreReads(n)
        \/ Breaks(n)
    \/ HandshakeTimeout
    \/ Close
    \/ WorkerDies

Spec == Init /\ [][Next]_vars

\* Sockets deliver, and the code at the two ends of a stream goes on to its end.  No timer is
\* relied on, and nobody is relied on to give up.
MayStream == {c \in Calls : KindsOf[c] # {"plain"}}

Fairness ==
    /\ \A n \in Conns :
        /\ WF_vars(Connected(n) \/ CoreReads(n) \/ Fail(n))
        /\ WF_vars(WorkerReads(n) \/ WorkerNotices(n))
    /\ \A c \in MayStream :
        /\ WF_vars(\/ Send(c)
                   \/ snd[c].seq = MaxChunks /\ SourceEnds(c)
                   \/ snd[c].failed /\ SourceFails(c))
        /\ WF_vars(Take(c) \/ ReadsToEnd(c) \/ ReadFails(c))
    /\ \A c \in Calls :
        WF_vars(/\ call[c].kind = "download" => snd[c].seq = MaxChunks \/ snd[c].failed
                /\ \E ok \in BOOLEAN : HandlerReturns(c, ok))

FairSpec == Spec /\ Fairness

(***************************************************************************)
(* Properties.                                                             *)
(***************************************************************************)
CallRecords == [kind : {"plain", "upload", "download"}, phase : {"idle", "connecting", "pending", "done"},
                outcome : {"none", "ok", "failed", "lost", "timeout", "aborted"}, conn : Nat]

\* The types of what the client keeps of its calls and sockets (client.ts:76).
TypeOK ==
    /\ call \in [Calls -> CallRecords]
    /\ pending \in SUBSET Calls
    /\ socket \in Nat
    /\ opened \in Nat
    /\ up \in [Sides -> SUBSET (Nat \ {0})]
    /\ closed \in BOOLEAN

\* An open client hears of no socket but the one it has; a closed one has none and no callers.
OneSocket ==
    /\ ~closed => up["core"] \subseteq {socket}
    /\ closed => socket = 0 /\ pending = {}

\* A slot waits for an answer on the socket the client has: when a socket is lost, or the client
\* closed, all its callers are told at once and not at their deadline (client.ts:148).
NothingWaitsOnALostSocket ==
    /\ \A c \in pending : socket # 0 /\ call[c].conn = socket
    /\ \A c \in Calls : call[c].phase = "pending" => c \in pending

\* No request is ever out of turn at the worker, unless the handshake had met its timeout:
\* callers that come during a handshake wait for it (client.ts:93).  What else the worker
\* destroys a socket for is the late acknowledgement of a download that was whole when its
\* own socket was lost: it goes to the socket there is, whose handshake is under way
\* (client.ts:81, stream.ts:97).
RequestsKeepTheirTurn ==
    [][\A n \in refused' \ refused :
          \/ n \in late
          \/ LET f == Head(wire["worker"][n]) IN
             /\ f.type = "streamAck" /\ call[f.call].conn # n
             /\ call[f.call].kind = "download" /\ rcv[f.call].ended]_vars

\* A stream between this client and this worker never runs into the checks of the receiver:
\* order, window, length, one open and one end (stream.ts:73).
FramesAreAccepted ==
    \A s \in Sides, n \in Conns :
        wire[s][n] # <<>> =>
            LET f == Head(wire[s][n]) IN
            f.type \in {"streamOpen", "streamData", "streamEnd"} /\ f.call \in table[s]
                => ReceiverSide(f.call) = s /\ Accepts(f.call, f)

\* A reader that sees the end of a stream has had every chunk of a sender that has come to its
\* end, whatever was aborted, lost or closed on the way (stream.ts:88, stream-client.ts:112).
EndMeansWhole ==
    \A c \in Calls : rcv[c].reader = "whole" => snd[c].feed = "ended" /\ rcv[c].taken = snd[c].seq

\* Every call is answered, and then its source, its reader, its handler and both its stream
\* entries are gone, with no help of a deadline, as long as the code at both ends goes on.
Quiet(c) ==
    /\ call[c].phase = "done"
    /\ handler[c] # "running"
    /\ snd[c].feed # "busy"
    /\ rcv[c].reader # "busy"
    /\ \A s \in Sides : c \notin table[s]
CallsSettle == \A c \in Calls : call[c].phase # "idle" ~> Quiet(c)
=============================================================================
