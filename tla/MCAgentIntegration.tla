------------------------- MODULE MCAgentIntegration -------------------------
(***************************************************************************)
(* Agent integration for TLC: batches over two agents and operations on    *)
(* one, with two launchers.                                                *)
(***************************************************************************)
EXTENDS AgentIntegration

CONSTANTS t1, t2

Command(kind, version, todo) == [kind |-> kind, version |-> version, todo |-> todo]
MCCommands == {Command("install", 1, <<t1, t2>>), Command("install", 2, <<t1>>),
               Command("replace", 2, <<t1>>), Command("uninstall", None, <<t1, t2>>)}
ProductSymmetry == Permutations(Products)
=============================================================================
