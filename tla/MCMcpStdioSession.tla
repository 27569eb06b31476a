------------------------- MODULE MCMcpStdioSession -------------------------
(* A small instance of McpStdioSession. *)
EXTENDS McpStdioSession
=============================================================================
