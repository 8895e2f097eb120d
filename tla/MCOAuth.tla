------------------------------ MODULE MCOAuth ------------------------------
(***************************************************************************)
(* OAuth for TLC: clients of one name, two scopes, small lifetimes.        *)
(***************************************************************************)
EXTENDS OAuth

CONSTANTS c1, c2, mcp, offline

SameName == [c \in Clients |-> "MCP client"]

TwoScopes == {{mcp}, {mcp, offline}}
=============================================================================
