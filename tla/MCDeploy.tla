------------------------------ MODULE MCDeploy ------------------------------
(* A small instance of Deploy for TLC: the conversation component and one   *)
(* MCP server, which is enough for a mixture of releases.                   *)
EXTENDS Deploy

Two == <<"conversation", "mcp">>
=============================================================================
