--------------------------- MODULE LeaderElection ---------------------------
(***************************************************************************)
(* Which of the bot's machines owns the Discord gateway session.           *)
(*                                                                         *)
(* Every machine runs LeaderElectionService.run(): take a session-scoped   *)
(* Postgres advisory lock, connect to Discord, finish the startup sequence *)
(* and then watch the lock.  The module has one action per step of that    *)
(* program between two awaits, one per thing the database or Discord does  *)
(* in between, and one per failure.  MaxFaults bounds the failures of a    *)
(* behaviour.                                                              *)
(***************************************************************************)
EXTENDS Naturals

CONSTANTS
  Machine,     \* the app's machines (production runs two)
  NoOne,       \* the lock is free
  Orphan,      \* the lock belongs to a session whose client is gone
  MaxFaults    \* how many failures a behaviour may contain

ASSUME OwnersAreDistinct == NoOne \notin Machine /\ Orphan \notin Machine /\ NoOne # Orphan
ASSUME MaxFaultsIsNat == MaxFaults \in Nat

VARIABLES
  pc,        \* where run() / becomeActive() / monitorLock() of each machine stands
  conn,      \* the lock client's one connection (max: 1) of each machine
  gateway,   \* the Discord session of each machine
  owner,     \* whose database session holds the advisory lock
  holds,     \* how many times that session has taken it (the lock is re-entrant)
  leaked,    \* history: how many of those a failed unlock left behind
  faults     \* failures so far

vars == <<pc, conn, gateway, owner, holds, leaked, faults>>

(***************************************************************************)
(*  down       no process; Fly restarts it                                 *)
(*  waiting    between two calls of tryAcquire()                           *)
(*  asking     pg_try_advisory_lock sent; granted / denied: its reply is   *)
(*             on the way back                                             *)
(*  connecting in discordClient.connect()                                  *)
(*  releasing  connect() failed, lock.release() under way                  *)
(*  flushing   registering the slash commands                              *)
(*  notifying  the insights cron runs, the startup message is being posted *)
(*  active     becomeActive() returned true, monitorLock() runs            *)
(***************************************************************************)
Step == {"down", "waiting", "asking", "granted", "denied", "connecting",
         "releasing", "flushing", "notifying", "active"}

\* "cut": Postgres has ended the session, the client has not noticed.
Connection == {"none", "up", "cut"}

\* "closing": client.destroy() was called and is not awaited.
Session == {"closed", "opening", "open", "closing"}

TypeOK ==
  /\ pc \in [Machine -> Step]
  /\ conn \in [Machine -> Connection]
  /\ gateway \in [Machine -> Session]
  /\ owner \in Machine \cup {NoOne, Orphan}
  /\ holds \in Nat
  /\ leaked \in Nat
  /\ faults \in Nat

\* connect() has resolved: the machine answers interactions.
Serving(m) == pc[m] \in {"flushing", "notifying", "active"}

\* Between tryAcquire()'s answer at the server and the end of release().
Entitled(m) == pc[m] \in {"granted", "connecting", "releasing"} \/ Serving(m)

\* A session Discord delivers events to, or one it is about to open.
Live(m) == gateway[m] \in {"opening", "open"}

Init ==
  /\ pc = [m \in Machine |-> "waiting"]
  /\ conn = [m \in Machine |-> "none"]
  /\ gateway = [m \in Machine |-> "closed"]
  /\ owner = NoOne
  /\ holds = 0
  /\ leaked = 0
  /\ faults = 0

Fault ==
  /\ faults < MaxFaults
  /\ faults' = faults + 1

\* The end of a database session frees what it held.
FreeLock ==
  /\ owner' = NoOne
  /\ holds' = 0
  /\ leaked' = 0

-----------------------------------------------------------------------------
(* AdvisoryLockService.tryAcquire().  A reserve() that fails returns false   *)
(* and changes nothing: it is the machine waiting longer.                    *)

\* sql.reserve(): the pooled connection if there is one, a new one otherwise.
\* destroy() of an earlier attempt is over by then: the retry sleep is 15 s.
Reserve(m) ==
  /\ pc[m] = "waiting"
  /\ gateway[m] = "closed"
  /\ pc' = [pc EXCEPT ![m] = "asking"]
  /\ conn' = [conn EXCEPT ![m] = IF @ = "none" THEN "up" ELSE @]
  /\ UNCHANGED <<gateway, owner, holds, leaked, faults>>

\* Postgres runs pg_try_advisory_lock; the session that has the lock gets it again.
TryLock(m) ==
  /\ pc[m] = "asking"
  /\ conn[m] = "up"
  /\ IF owner \in {NoOne, m}
     THEN /\ owner' = m
          /\ holds' = holds + 1
          /\ pc' = [pc EXCEPT ![m] = "granted"]
     ELSE /\ pc' = [pc EXCEPT ![m] = "denied"]
          /\ UNCHANGED <<owner, holds>>
  /\ UNCHANGED <<conn, gateway, leaked, faults>>

\* tryAcquire() returns true (even when the session died after it answered):
\* becomeActive() calls connect(), which starts the login.
Granted(m) ==
  /\ pc[m] = "granted"
  /\ conn[m] # "none"
  /\ pc' = [pc EXCEPT ![m] = "connecting"]
  /\ gateway' = [gateway EXCEPT ![m] = "opening"]
  /\ UNCHANGED <<conn, owner, holds, leaked, faults>>

\* tryAcquire() returns false and puts the connection back into the pool.
Denied(m) ==
  /\ pc[m] = "denied"
  /\ pc' = [pc EXCEPT ![m] = "waiting"]
  /\ UNCHANGED <<conn, gateway, owner, holds, leaked, faults>>

\* The query fails with its connection; the catch branch returns false.
QueryFails(m) ==
  /\ pc[m] \in {"asking", "granted", "denied"}
  /\ conn[m] # "up"
  /\ pc' = [pc EXCEPT ![m] = "waiting"]
  /\ conn' = [conn EXCEPT ![m] = "none"]
  /\ UNCHANGED <<gateway, owner, holds, leaked, faults>>

-----------------------------------------------------------------------------
(* DiscordClientService.connect() and what becomeActive() makes of it.       *)

SessionOpens(m) ==
  /\ pc[m] = "connecting"
  /\ gateway[m] = "opening"
  /\ gateway' = [gateway EXCEPT ![m] = "open"]
  /\ UNCHANGED <<pc, conn, owner, holds, leaked, faults>>

Ready(m) ==
  /\ pc[m] = "connecting"
  /\ gateway[m] = "open"
  /\ pc' = [pc EXCEPT ![m] = "flushing"]
  /\ UNCHANGED <<conn, gateway, owner, holds, leaked, faults>>

\* login() rejects: no session was opened.
LoginFails(m) ==
  /\ Fault
  /\ pc[m] = "connecting"
  /\ gateway[m] = "opening"
  /\ pc' = [pc EXCEPT ![m] = "releasing"]
  /\ gateway' = [gateway EXCEPT ![m] = "closed"]
  /\ UNCHANGED <<conn, owner, holds, leaked>>

\* Mutant: the timeout rejects without abandoning the login.
ReadyTimeoutNoDestroy(m) ==
  /\ Fault
  /\ pc[m] = "connecting"
  /\ pc' = [pc EXCEPT ![m] = "releasing"]
  /\ UNCHANGED <<conn, gateway, owner, holds, leaked>>

\* No ready event in time: destroy() is started, not awaited, and connect() rejects.
ReadyTimeout(m) ==
  /\ Fault
  /\ pc[m] = "connecting"
  /\ pc' = [pc EXCEPT ![m] = "releasing"]
  /\ gateway' = [gateway EXCEPT ![m] = "closing"]
  /\ UNCHANGED <<conn, owner, holds, leaked>>

DestroyDone(m) ==
  /\ gateway[m] = "closing"
  /\ gateway' = [gateway EXCEPT ![m] = "closed"]
  /\ UNCHANGED <<pc, conn, owner, holds, leaked, faults>>

-----------------------------------------------------------------------------
(* AdvisoryLockService.release(), called only when connect() has failed.     *)

\* Mutant: the connection goes back to the pool with the lock still taken.
ReleaseWithoutUnlock(m) ==
  /\ pc[m] = "releasing"
  /\ pc' = [pc EXCEPT ![m] = "waiting"]
  /\ conn' = [conn EXCEPT ![m] = IF @ = "up" THEN "up" ELSE "none"]
  /\ UNCHANGED <<gateway, owner, holds, leaked, faults>>

\* Mutant: the hold is counted back without a live session to unlock it in.
ReleaseAlwaysCounts(m) ==
  /\ pc[m] = "releasing"
  /\ pc' = [pc EXCEPT ![m] = "waiting"]
  /\ holds' = holds - 1
  /\ owner' = IF holds = 1 THEN NoOne ELSE owner
  /\ conn' = [conn EXCEPT ![m] = IF @ = "up" THEN "up" ELSE "none"]
  /\ UNCHANGED <<gateway, leaked, faults>>

\* pg_advisory_unlock takes one hold back; on a dead connection it fails and
\* the failure is only logged.
Release(m) ==
  /\ pc[m] = "releasing"
  /\ pc' = [pc EXCEPT ![m] = "waiting"]
  /\ IF conn[m] = "up"
     THEN /\ holds' = holds - 1
          /\ owner' = IF holds = 1 THEN NoOne ELSE owner
          /\ UNCHANGED <<conn, leaked>>
     ELSE /\ conn' = [conn EXCEPT ![m] = "none"]
          /\ UNCHANGED <<owner, holds, leaked>>
  /\ UNCHANGED <<gateway, faults>>

\* The unlock query fails on a connection that lives on: the failure is only
\* logged, and the connection returns to the pool with the lock.
UnlockFails(m) ==
  /\ Fault
  /\ pc[m] = "releasing"
  /\ conn[m] = "up"
  /\ pc' = [pc EXCEPT ![m] = "waiting"]
  /\ leaked' = leaked + 1
  /\ UNCHANGED <<conn, gateway, owner, holds>>

-----------------------------------------------------------------------------
(* The steps after connect(), and the ends of the process.                   *)

\* commandRegistry.flush() is done; scheduler.start() runs in the same step.
CommandsFlushed(m) ==
  /\ pc[m] = "flushing"
  /\ pc' = [pc EXCEPT ![m] = "notifying"]
  /\ UNCHANGED <<conn, gateway, owner, holds, leaked, faults>>

StartupPosted(m) ==
  /\ pc[m] = "notifying"
  /\ pc' = [pc EXCEPT ![m] = "active"]
  /\ UNCHANGED <<conn, gateway, owner, holds, leaked, faults>>

\* process.exit: the gateway session ends, and with the socket the database
\* session, once Postgres sees it close.
ProcessEnds(m) ==
  /\ pc' = [pc EXCEPT ![m] = "down"]
  /\ conn' = [conn EXCEPT ![m] = "none"]
  /\ gateway' = [gateway EXCEPT ![m] = "closed"]
  /\ owner' = IF owner = m THEN Orphan ELSE owner
  /\ UNCHANGED <<holds, leaked>>

\* Mutant: a failure after connect() is treated like a failure of connect().
StartupFailsReleases(m) ==
  /\ Fault
  /\ pc[m] \in {"flushing", "notifying"}
  /\ pc' = [pc EXCEPT ![m] = "releasing"]
  /\ UNCHANGED <<conn, gateway, owner, holds, leaked>>

\* flush(), start() or postActiveStartupMessage() throws.
StartupFails(m) ==
  /\ Fault
  /\ pc[m] \in {"flushing", "notifying"}
  /\ ProcessEnds(m)

\* Mutant: the monitor takes an error for an answer and goes on.
LostLockIgnored(m) ==
  /\ pc[m] = "active"
  /\ conn[m] = "up"
  /\ owner # m
  /\ ProcessEnds(m)
  /\ UNCHANGED faults

\* isStillHeld() is false: this session is dead or does not have the lock.  A
\* check that finds the lock changes nothing.
LostLock(m) ==
  /\ pc[m] = "active"
  /\ conn[m] # "up" \/ owner # m
  /\ ProcessEnds(m)
  /\ UNCHANGED faults

\* The health check itself fails on a connection that is fine.
CheckFails(m) ==
  /\ Fault
  /\ pc[m] = "active"
  /\ conn[m] = "up"
  /\ ProcessEnds(m)

\* A deploy, a crash, an out-of-memory kill: no shutdown hook is enabled.
Kill(m) ==
  /\ Fault
  /\ pc[m] # "down"
  /\ ProcessEnds(m)

Start(m) ==
  /\ pc[m] = "down"
  /\ pc' = [pc EXCEPT ![m] = "waiting"]
  /\ UNCHANGED <<conn, gateway, owner, holds, leaked, faults>>

-----------------------------------------------------------------------------
(* What happens to a lock connection (Postgres and the network).             *)

\* Postgres ends the session first: the lock is free at once.
ServerDrops(m) ==
  /\ Fault
  /\ conn[m] = "up"
  /\ conn' = [conn EXCEPT ![m] = "cut"]
  /\ IF owner = m THEN FreeLock ELSE UNCHANGED <<owner, holds, leaked>>
  /\ UNCHANGED <<pc, gateway>>

\* The client sees the break first: the session lives on until Postgres notices.
ClientDrops(m) ==
  /\ Fault
  /\ conn[m] = "up"
  /\ conn' = [conn EXCEPT ![m] = "none"]
  /\ owner' = IF owner = m THEN Orphan ELSE owner
  /\ UNCHANGED <<pc, gateway, holds, leaked>>

OrphanEnds ==
  /\ owner = Orphan
  /\ FreeLock
  /\ UNCHANGED <<pc, conn, gateway, faults>>

-----------------------------------------------------------------------------

\* What happens without a failure.
Progress(m) ==
  \/ Start(m) \/ Reserve(m) \/ TryLock(m) \/ Granted(m) \/ Denied(m) \/ QueryFails(m)
  \/ SessionOpens(m) \/ Ready(m) \/ DestroyDone(m) \/ Release(m)
  \/ CommandsFlushed(m) \/ StartupPosted(m) \/ LostLock(m)

Failure(m) ==
  \/ LoginFails(m) \/ ReadyTimeout(m) \/ UnlockFails(m) \/ StartupFails(m)
  \/ CheckFails(m) \/ Kill(m) \/ ServerDrops(m) \/ ClientDrops(m)

Next ==
  \/ OrphanEnds
  \/ \E m \in Machine : Progress(m) \/ Failure(m)

\* The loop of a machine that runs goes on, Fly restarts one that ended,
\* Discord answers, and Postgres ends a session whose client is gone.
Fairness ==
  /\ WF_vars(OrphanEnds)
  /\ \A m \in Machine : WF_vars(Progress(m))

Spec == Init /\ [][Next]_vars

FairSpec == Spec /\ Fairness

-----------------------------------------------------------------------------
(* Properties.                                                               *)

\* A Discord session that is open, or about to open, belongs to a machine that
\* has the lock, or whose lock connection is gone: no path of the election
\* gives the lock up, or has it taken back by a stale unlock, under a session.
\* Two machines have sessions at once, then, only if one lost its connection.
SessionBackedByLock ==
  \A m \in Machine : Live(m) /\ conn[m] = "up" => owner = m

\* The lock's re-entrant count is what its owner must unlock: one hold while
\* the machine is between tryAcquire() and the end of release() or of the
\* process, plus what failed unlocks left.  A machine that only waits keeps the
\* lock from the others just when an unlock failed.
HoldsAccountedFor ==
  /\ (holds = 0) <=> (owner = NoOne)
  /\ \A m \in Machine :
       owner = m => holds = leaked + IF Entitled(m) THEN 1 ELSE 0

\* Once connect() has resolved, a machine answers Discord until its process
\* ends, and a machine whose lock is gone never gets it back in that process.
ServingEndsInExit ==
  [][\A m \in Machine : Serving(m) =>
        /\ Serving(m)' \/ pc'[m] = "down"
        /\ owner' = m => owner = m]_vars

\* When failures stop, one machine becomes active with the lock for good, and
\* no other machine keeps a session: a stale leader exits, an orphaned lock is
\* freed, a failed connect does not keep the lock away from the others.
OneLeaderInTheEnd ==
  <>[](\E m \in Machine :
         /\ pc[m] = "active" /\ conn[m] = "up" /\ owner = m
         /\ \A n \in Machine \ {m} : gateway[n] = "closed")

\* The election implements the lease: a machine is elected only when it does
\* not already believe it leads, and steps down by itself only sessionless.
Lease == INSTANCE LeaderLease WITH
  leader <- IF owner \in Machine THEN owner ELSE NoOne,
  entitled <- {m \in Machine : Entitled(m)},
  serving <- {m \in Machine : Live(m)}

ImplementsLease == Lease!LeaseSpec

\* The comment on LOCK_HEALTH_CHECK_INTERVAL_MS: the overlap of two sessions is
\* at most one health-check interval.  Without a running monitor no interval
\* bounds it, so a stale leader beside a new session must be a monitored one.
OverlapIsMonitored ==
  \A m, n \in Machine :
    m # n /\ Serving(m) /\ conn[m] # "up" /\ gateway[n] = "open" /\ conn[n] = "up"
      => pc[m] = "active"

=============================================================================
