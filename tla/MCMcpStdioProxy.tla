-------------------------- MODULE MCMcpStdioProxy --------------------------
(* Small instances of McpStdioProxy: requests, and recoveries, are interchangeable. *)
EXTENDS McpStdioProxy, TLC

Symmetry == Permutations(Request) \cup Permutations(Recoverer)
=============================================================================
