--------------------------- MODULE MCSeparateParts ---------------------------
(***************************************************************************)
(* Two parts that have nothing to do with each other, checked side by      *)
(* side: a behaviour is either one of the wait for a review or one of a    *)
(* player's advancements, and the other part never leaves its first state. *)
(***************************************************************************)
EXTENDS WaitForPrReview, PlayerAdvancements

VARIABLE part

MCTriggerTimes == {1}
MCCharacteristic == <<"MA">>

WaitAtRest == ~handled /\ triggerAt = Horizon + 1
PlayerAtRest == site = "bbl"

MCInit ==
  /\ WaitInit /\ AdvInit
  /\ part \in {"wait", "player"}
  /\ part = "wait" => PlayerAtRest
  /\ part = "player" => WaitAtRest

MCWait == part = "wait" /\ WaitNext /\ UNCHANGED <<part, advVars>>

MCPlayer == part = "player" /\ AdvNext /\ UNCHANGED <<part, waitVars>>

MCNext == MCWait \/ MCPlayer

MCSpec == MCInit /\ [][MCNext]_<<part, waitVars, advVars>>

\* Nothing is claimed of the order of a TP player's advancements once a part of it
\* is hidden for good: such a state need not be followed.
MCWhole == site = "tp" => whole

=============================================================================
