---------------------------- MODULE LeaderLease ----------------------------
(***************************************************************************)
(* What the leader election of apps/discord-bot promises, with the         *)
(* database, the gateway and the timers taken away.                        *)
(*                                                                         *)
(* A machine is elected while nobody else leads, may then open a Discord   *)
(* session, and gives the lease up of its own accord only when it has no   *)
(* session.  The lease can also be lost behind the machine's back; a       *)
(* machine that lost it stays entitled (it does not know) and is not       *)
(* elected again before it has stepped down or exited.                     *)
(***************************************************************************)
CONSTANTS Machine, NoOne

VARIABLES
  leader,     \* who holds the lease, or NoOne
  entitled,   \* the machines that believe they hold it
  serving     \* the machines with a Discord session, or with one on its way

leaseVars == <<leader, entitled, serving>>

LeaseInit ==
  /\ leader = NoOne
  /\ entitled = {}
  /\ serving = {}

Elect(m) ==
  /\ leader \in {NoOne, m}
  /\ m \notin entitled
  /\ leader' = m
  /\ entitled' = entitled \cup {m}
  /\ UNCHANGED serving

\* The holder's connection is gone; nobody told the holder.
Lose ==
  /\ leader' = NoOne
  /\ UNCHANGED <<entitled, serving>>

Open(m) ==
  /\ m \in entitled
  /\ serving' = serving \cup {m}
  /\ UNCHANGED <<leader, entitled>>

Close(m) ==
  /\ serving' = serving \ {m}
  /\ UNCHANGED <<leader, entitled>>

StepDown(m) ==
  /\ m \in entitled \ serving
  /\ entitled' = entitled \ {m}
  /\ leader' \in IF leader = m THEN {NoOne, m} ELSE {leader}
  /\ UNCHANGED serving

\* The process ends: whatever it had goes with it.
Exit(m) ==
  /\ entitled' = entitled \ {m}
  /\ serving' = serving \ {m}
  /\ leader' = IF leader = m THEN NoOne ELSE leader

LeaseNext ==
  \/ Lose
  \/ \E m \in Machine : Elect(m) \/ Open(m) \/ Close(m) \/ StepDown(m) \/ Exit(m)

LeaseSpec == LeaseInit /\ [][LeaseNext]_leaseVars

=============================================================================
