----------------------------- MODULE MCLiveImport -----------------------------
(***************************************************************************)
(* Two imports of a competition of two matches between two teams, of any   *)
(* kind and in any overlap: the second also stands for a retry or a rerun. *)
(***************************************************************************)
EXTENDS LiveImport, TLC

CONSTANTS a, b, v, w

MCImport == {v, w}
MCTeam == {a, b}
MCMatch == {1, 2}
MCSide == <<[home |-> a, away |-> b], [home |-> b, away |-> a]>>
MCRequest ==
  {[kind |-> "competition", eraGiven |-> f, force |-> f] : f \in BOOLEAN}
    \cup [kind : {"match"}, match : {2}, force : BOOLEAN]
MCFaults == 2

Symmetry == Permutations(Import)

=============================================================================
