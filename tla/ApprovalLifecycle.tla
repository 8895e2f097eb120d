------------------------- MODULE ApprovalLifecycle -------------------------
(***************************************************************************)
(* What an approval ticket promises, whatever session, restart or race it  *)
(* meets (docs/specs/2026-09-17-floating-ip-oauth-continuity-design.md,    *)
(* section 5): it is decided before it is armed, armed before it runs, it  *)
(* starts its operation when it begins to run and at no other moment, and  *)
(* once closed it stays closed.  Several tickets may move in one step: a   *)
(* restart closes all of them.                                             *)
(***************************************************************************)
EXTENDS Naturals

CONSTANT Tickets

VARIABLES phase, started

Successors(p) == CASE p = "absent"    -> {"absent", "undecided"}
                   [] p = "undecided" -> {"undecided", "armed", "closed"}
                   [] p = "armed"     -> {"armed", "running", "closed"}
                   [] p = "running"   -> {"running", "closed"}
                   [] OTHER           -> {"closed"}

Init == /\ phase = [t \in Tickets |-> "absent"]
        /\ started = [t \in Tickets |-> 0]

Starts(t) == phase[t] = "armed" /\ phase'[t] = "running"

Next == /\ phase' = [t \in Tickets |-> phase'[t]]
        /\ \A t \in Tickets : phase'[t] \in Successors(phase[t])
        /\ started' = [t \in Tickets |-> IF Starts(t) THEN started[t] + 1 ELSE started[t]]

Spec == Init /\ [][Next]_<<phase, started>>
=============================================================================
