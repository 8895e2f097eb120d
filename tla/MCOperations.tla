---------------------------- MODULE MCOperations ----------------------------
(***************************************************************************)
(* Operations for TLC: a call that edits file p1 or builds, and a call     *)
(* that edits p1 or p2, downloads, builds or runs a command.               *)
(***************************************************************************)
EXTENDS Operations

CONSTANTS s1, s2, p1, p2

Req(session, kind, path, to) ==
    [session |-> session, kind |-> kind, path |-> path, to |-> to, guarded |-> FALSE,
     effect |-> "SOURCE_MUTATION", keys |-> {}]
Guarded(req) == [req EXCEPT !.guarded = TRUE]

Edits(session, a, b) == {Guarded(Req(session, "write", a, a)), Req(session, "create", a, a),
                         Req(session, "delete", a, a), Req(session, "move", a, b)}
Build(session) == [Req(session, "command", p1, p1) EXCEPT !.effect = "BUILD_OUTPUT", !.keys = Keys]

EditsAndOthers == [o \in Ops |->
    IF o = 1 THEN Edits(s1, p1, p2) \cup {Build(s1)}
    ELSE Edits(s1, p2, p1) \cup {Guarded(Req(s1, "write", p1, p1)), Req(s1, "create", p1, p1),
                              Req(s1, "download", p1, p1), Req(s2, "command", p1, p1), Build(s2),
                              [Build(s2) EXCEPT !.effect = "READ_ONLY"]}]
MCSkips == {{}, {p1}}
=============================================================================
