---------------------------- MODULE MCSdkReader ----------------------------
(* The SDK recorder and a reader of its bundle on a small instance. *)
EXTENDS SdkReader, TLC

\* Logical operations, and contexts, are interchangeable.
Symmetry == Permutations(Logical) \cup Permutations(Context)

\* Clocks that move with one operation and its retry; two operations with a clock
\* that stands still.
Bounded ==
  clock = 0 \/ (chain < MaxChain /\ Cardinality({d.occurrence[1] : d \in admitted}) < 2)

\* Two requirements of the starter profile, and one only partly observed.
MCRequirement ==
  {[surfaces |-> {"decision.identity", "policy.receipt", "tool.identity", "tool.request",
                  "tool.result"},
    isolation |-> FALSE, visibility |-> FALSE, world |-> FALSE],
   [surfaces |-> {"credential.scopes", "filesystem.effects"},
    isolation |-> TRUE, visibility |-> FALSE, world |-> FALSE]}
=============================================================================
