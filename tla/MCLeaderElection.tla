-------------------------- MODULE MCLeaderElection --------------------------
(***************************************************************************)
(* The leader election of three machines: production runs two, the third   *)
(* lets a stale leader, its successor and a standby meet.                  *)
(***************************************************************************)
EXTENDS LeaderElection

CONSTANTS m1, m2, m3

MCMachine == {m1, m2, m3}

=============================================================================
