--------------------------- MODULE EvidenceLedger ---------------------------
(***************************************************************************)
(* What every recorder of the guard promises the application and whoever   *)
(* reads the evidence later, whatever the recorder's files look like.      *)
(*                                                                         *)
(* An operation the application asks for is either admitted, and then the  *)
(* recorder owes a terminal record for it, or it is censored, and then its *)
(* record is written without the operation ever being handed out.  The     *)
(* evidence is sealed once, when nothing is owed, and never changes after  *)
(* that.                                                                   *)
(*                                                                         *)
(* The detailed recorders implement this module under the refinement       *)
(* mappings they state.                                                    *)
(***************************************************************************)
CONSTANT Operation

VARIABLES owed,      \* operations handed out whose outcome is not recorded yet
          recorded,  \* operations whose outcome is in the evidence
          sealed     \* the evidence is final

ledger == <<owed, recorded, sealed>>

Init == owed = {} /\ recorded = {} /\ sealed = FALSE

Admit(o) ==
  /\ ~sealed
  /\ o \notin owed \cup recorded
  /\ owed' = owed \cup {o}
  /\ UNCHANGED <<recorded, sealed>>

Censor(o) ==
  /\ ~sealed
  /\ o \notin owed \cup recorded
  /\ recorded' = recorded \cup {o}
  /\ UNCHANGED <<owed, sealed>>

Record(o) ==
  /\ ~sealed
  /\ o \in owed
  /\ owed' = owed \ {o}
  /\ recorded' = recorded \cup {o}
  /\ UNCHANGED sealed

Seal ==
  /\ ~sealed
  /\ owed = {}
  /\ sealed' = TRUE
  /\ UNCHANGED <<owed, recorded>>

Next ==
  \/ \E o \in Operation : Admit(o) \/ Censor(o) \/ Record(o)
  \/ Seal

Spec == Init /\ [][Next]_ledger
=============================================================================
