--------------------------- MODULE MCSyncClients ---------------------------
(***************************************************************************)
(* An instance of SyncClients for TLC: the kinds in pairs.                 *)
(***************************************************************************)
EXTENDS SyncClients
CONSTANTS arm, editor, page, mcp
Pairs == {{arm, editor}, {arm, page}, {editor, mcp}}
=============================================================================
