------------------------ MODULE MCLangChainCallback ------------------------
(* Two runs of the framework beside one operation of the application. *)
EXTENDS LangChainCallback, TLC

Symmetry == Permutations(Run)
MCLogical == Run \cup {"direct"}

\* Several operations with a clock that stands still, and one with a clock that moves.
Moved == clock # 0 \/ \E i \in 1 .. Len(log) : log[i].observed # 0
Bounded == Moved => Cardinality(Decisions(log)) < 2
=============================================================================
