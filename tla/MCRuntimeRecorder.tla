------------------------- MODULE MCRuntimeRecorder -------------------------
(* A small instance of RuntimeRecorder. *)
EXTENDS RuntimeRecorder, TLC

MCHeader ==
  [session_id |-> "s", created_at |-> 0, runtime_identity |-> "r1", policy |-> "p1",
   credential_policy |-> "credential policy", scopes |-> {"model.invoke"}]

\* A lawful body, and one of each kind that its parser, or the chain, refuses.
Spawn(outcome) ==
  [kind |-> "process", operation |-> "spawn", outcome |-> outcome, exit |-> "none",
   signal |-> FALSE]
Write1(outcome) ==
  [kind |-> "file", operation |-> "write", outcome |-> outcome, target |-> FALSE,
   changed |-> TRUE, bytes |-> 1]
Send(bytes) ==
  [kind |-> "network", operation |-> "send", outcome |-> "success", length |-> 1,
   bytes |-> bytes]
Scopes(resolved) ==
  [kind |-> "credential_scope", policy |-> "credential policy",
   requested |-> {"model.invoke", "admin"}, resolved |-> resolved, slots |-> TRUE,
   decision |-> "allowed", delivery |-> "broker_handle"]
MCBodies ==
  {Spawn("running"), Spawn("completed"), Write1("blocked"), Send(0),
   Scopes({"admin"}), Scopes({"model.invoke"})}
MCStamps == {<<0, 1>>, <<1, 0>>}
MCEnds == {<<"completed", FALSE>>, <<"crashed", TRUE>>, <<"completed", TRUE>>}

Run(runtime, policy, configuration) ==
  [runtime_id |-> runtime, policy |-> policy, configuration |-> configuration,
   workload |-> "w"]
MCRuntimes == {Run("r1", "p1", "c1"), Run("r1", "p2", "c1"), Run("r2", "p1", "c1")}

Boxed(credentials, networks) ==
  [user |-> "agent", read_only |-> TRUE, privileged |-> FALSE, cap_drop_all |-> TRUE,
   no_new_privileges |-> TRUE, host_network |-> FALSE, host_pid |-> FALSE,
   docker_socket |-> FALSE, credentials |-> credentials, networks |-> networks]
Inspect(policy, agent) ==
  [runtime_id |-> "r1", policy |-> policy, configuration |-> "c1", workload |-> "w",
   agent |-> agent, gateway |-> Boxed(TRUE, {"inner", "outer"}), network |-> "inner",
   internal |-> TRUE, direct_egress |-> "blocked", gateway_reach |-> "allowed"]
MCInspections ==
  {Inspect("p1", Boxed(FALSE, {"inner"})), Inspect("p2", Boxed(FALSE, {"inner"})),
   Inspect("p1", Boxed(TRUE, {"inner"})), Inspect("p1", Boxed(FALSE, {"inner", "outer"}))}

Interchangeable == Permutations(Process) \cup Permutations(Occurrence)
=============================================================================
