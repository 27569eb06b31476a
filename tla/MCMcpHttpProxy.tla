--------------------------- MODULE MCMcpHttpProxy ---------------------------
(* Small instances of McpHttpProxy: requests and recoverers are interchangeable. *)
EXTENDS McpHttpProxy, TLC

Symmetry == Permutations(Request) \cup Permutations(Recoverer)

\* Two servers with a tool each: a tool that exists may be asked of the wrong server.
Key(server, tool) == [registry |-> server, tool |-> tool, interface |-> "i1"]
MCRoutes == {[server |-> "s1", tool |-> "t1", key |-> Key("s1", "t1"), scopes |-> {"a"}],
             [server |-> "s2", tool |-> "t2", key |-> Key("s2", "t2"), scopes |-> {"a", "b"}]}
MCGranted == {[key |-> a.key, scopes |-> a.scopes] : a \in MCRoutes}
=============================================================================
