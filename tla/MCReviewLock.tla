---------------------------- MODULE MCReviewLock ----------------------------
(***************************************************************************)
(* Two sessions and one fault: a session dies, is suspended with the       *)
(* mutex, or starves, and the other one finds what it left.                *)
(***************************************************************************)
EXTENDS ReviewLock

CONSTANTS s1, s2

MCSession == {s1, s2}

=============================================================================
