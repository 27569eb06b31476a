------------------------ MODULE ContainerEnforcement ------------------------
(***************************************************************************)
(* What src/container-enforcement.ts measures of an agent container and    *)
(* its gateway, and what it accepts as a receipt of that.                  *)
(*                                                                         *)
(* An inspection holds what the Docker daemon answers (external: two       *)
(* containers, a network and two probes); a receipt is derived from it.    *)
(* The inspections and the probes are made one after the other and nothing *)
(* holds the containers still between them, so an inspection here is what  *)
(* was answered, not a state the containers were in at one instant.        *)
(***************************************************************************)
EXTENDS Integers, FiniteSets

\* What `docker inspect` says of a container.
Container(Network) ==
  [user : {"", "0", "root", "agent"}, read_only : BOOLEAN, privileged : BOOLEAN,
   cap_drop_all : BOOLEAN, no_new_privileges : BOOLEAN, host_network : BOOLEAN,
   host_pid : BOOLEAN, docker_socket : BOOLEAN, credentials : BOOLEAN,
   networks : SUBSET Network]

\* verifySecurityPosture of what securityPosture derives.
PostureSound(c, requireNoCredentials) ==
  /\ c.user \notin {"", "0", "root"}
  /\ c.read_only /\ c.cap_drop_all /\ c.no_new_privileges
  /\ ~c.privileged /\ ~c.host_network /\ ~c.host_pid /\ ~c.docker_socket
  /\ requireNoCredentials => ~c.credentials

\* collectDockerContainerEnforcement gives a receipt for this inspection.
Collectable(x) ==
  /\ PostureSound(x.agent, FALSE) /\ PostureSound(x.gateway, FALSE)
  /\ x.internal
  /\ x.agent.networks = {x.network}
  /\ x.network \in x.gateway.networks /\ Cardinality(x.gateway.networks) >= 2
  /\ ~x.agent.credentials
  /\ x.direct_egress = "blocked"
  /\ x.gateway_reach = "allowed"

ContainerReceiptOf(x) ==
  [runtime_id |-> x.runtime_id, policy |-> x.policy, configuration |-> x.configuration,
   workload |-> x.workload, agent |-> x.agent, gateway |-> x.gateway,
   internal |-> x.internal, agent_networks |-> 1,
   gateway_networks |-> Cardinality(x.gateway.networks),
   direct_egress |-> x.direct_egress, gateway_reach |-> x.gateway_reach,
   coverage |-> "egress_and_credentials_only"]

\* verifyContainerEnforcementReceipt
ContainerVerifies(k) ==
  /\ PostureSound(k.agent, TRUE) /\ PostureSound(k.gateway, FALSE)
  /\ k.internal /\ k.agent_networks = 1 /\ k.gateway_networks >= 2
  /\ k.direct_egress = "blocked" /\ k.gateway_reach = "allowed"
  /\ k.coverage = "egress_and_credentials_only"
=============================================================================
