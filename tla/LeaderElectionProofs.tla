------------------------ MODULE LeaderElectionProofs ------------------------
(***************************************************************************)
(* The leader election is safe for every set of machines and every number  *)
(* of failures.                                                            *)
(*                                                                         *)
(* The properties follow from an invariant about the two facts the code    *)
(* keeps together: the lock belongs to a connection that lives, and a      *)
(* machine between tryAcquire() and release() whose connection lives has   *)
(* the lock.                                                               *)
(***************************************************************************)
EXTENDS LeaderElection, TLAPS

\* The lock is owned through a live connection.
OwnerConnected == \A m \in Machine : owner = m => conn[m] = "up"

\* A machine that took the lock has it for as long as its connection lives.
EntitledOwns == \A m \in Machine : Entitled(m) /\ conn[m] = "up" => owner = m

\* A session is live exactly while connect() runs or has resolved.
SessionFollowsStep ==
  \A m \in Machine : Live(m) <=> pc[m] = "connecting" \/ Serving(m)

\* A machine that serves has its session open, not merely on the way.
ServingIsOpen == \A m \in Machine : Serving(m) => gateway[m] = "open"

\* Nothing a failed unlock left behind outlives the session that holds it.
LeakedIsHeld == owner = NoOne => leaked = 0

IInv ==
  /\ TypeOK
  /\ OwnerConnected
  /\ EntitledOwns
  /\ SessionFollowsStep
  /\ ServingIsOpen
  /\ HoldsAccountedFor
  /\ LeakedIsHeld

LEMMA InitIInv == Init => IInv
<1> SUFFICES ASSUME Init PROVE IInv
  OBVIOUS
<1> USE OwnersAreDistinct DEF Init
<1>1. TypeOK
  BY DEF TypeOK, Step, Connection, Session
<1>2. OwnerConnected /\ EntitledOwns /\ HoldsAccountedFor /\ LeakedIsHeld
  BY DEF OwnerConnected, EntitledOwns, HoldsAccountedFor, LeakedIsHeld, Entitled, Serving
<1>3. SessionFollowsStep /\ ServingIsOpen
  BY DEF SessionFollowsStep, ServingIsOpen, Serving, Live
<1> QED
  BY <1>1, <1>2, <1>3 DEF IInv

LEMMA StepIInv == IInv /\ [Next]_vars => IInv'
<1> SUFFICES ASSUME IInv, [Next]_vars PROVE IInv'
  OBVIOUS
<1> USE OwnersAreDistinct
     DEF IInv, TypeOK, OwnerConnected, EntitledOwns, SessionFollowsStep, ServingIsOpen,
         HoldsAccountedFor, LeakedIsHeld, Entitled, Serving, Live,
         Step, Connection, Session
<1>1. ASSUME NEW m \in Machine, Start(m) PROVE IInv'
  BY <1>1 DEF Start
<1>2. ASSUME NEW m \in Machine, Reserve(m) PROVE IInv'
  BY <1>2 DEF Reserve
<1>3. ASSUME NEW m \in Machine, TryLock(m) PROVE IInv'
  BY <1>3 DEF TryLock
<1>4. ASSUME NEW m \in Machine, Granted(m) PROVE IInv'
  BY <1>4 DEF Granted
<1>5. ASSUME NEW m \in Machine, Denied(m) PROVE IInv'
  BY <1>5 DEF Denied
<1>6. ASSUME NEW m \in Machine, QueryFails(m) PROVE IInv'
  BY <1>6 DEF QueryFails
<1>7. ASSUME NEW m \in Machine, SessionOpens(m) PROVE IInv'
  BY <1>7 DEF SessionOpens
<1>8. ASSUME NEW m \in Machine, Ready(m) PROVE IInv'
  BY <1>8 DEF Ready
<1>9. ASSUME NEW m \in Machine, DestroyDone(m) PROVE IInv'
  BY <1>9 DEF DestroyDone
<1>10. ASSUME NEW m \in Machine, Release(m) PROVE IInv'
  BY <1>10 DEF Release
<1>11. ASSUME NEW m \in Machine, CommandsFlushed(m) PROVE IInv'
  BY <1>11 DEF CommandsFlushed
<1>12. ASSUME NEW m \in Machine, StartupPosted(m) PROVE IInv'
  BY <1>12 DEF StartupPosted
<1>13. ASSUME NEW m \in Machine, LostLock(m) PROVE IInv'
  BY <1>13 DEF LostLock, ProcessEnds
<1>14. ASSUME NEW m \in Machine, LoginFails(m) PROVE IInv'
  BY <1>14 DEF LoginFails, Fault
<1>15. ASSUME NEW m \in Machine, ReadyTimeout(m) PROVE IInv'
  BY <1>15 DEF ReadyTimeout, Fault
<1>16. ASSUME NEW m \in Machine, UnlockFails(m) PROVE IInv'
  BY <1>16 DEF UnlockFails, Fault
<1>17. ASSUME NEW m \in Machine, StartupFails(m) PROVE IInv'
  BY <1>17 DEF StartupFails, Fault, ProcessEnds
<1>18. ASSUME NEW m \in Machine, CheckFails(m) PROVE IInv'
  BY <1>18 DEF CheckFails, Fault, ProcessEnds
<1>19. ASSUME NEW m \in Machine, Kill(m) PROVE IInv'
  BY <1>19 DEF Kill, Fault, ProcessEnds
<1>20. ASSUME NEW m \in Machine, ServerDrops(m) PROVE IInv'
  BY <1>20 DEF ServerDrops, Fault, FreeLock
<1>21. ASSUME NEW m \in Machine, ClientDrops(m) PROVE IInv'
  BY <1>21 DEF ClientDrops, Fault
<1>22. CASE OrphanEnds
  BY <1>22 DEF OrphanEnds, FreeLock
<1>23. CASE UNCHANGED vars
  BY <1>23 DEF vars
<1> QED
  BY <1>1, <1>2, <1>3, <1>4, <1>5, <1>6, <1>7, <1>8, <1>9, <1>10, <1>11, <1>12, <1>13, <1>14, <1>15, <1>16, <1>17, <1>18, <1>19, <1>20, <1>21, <1>22, <1>23 DEF Next, Progress, Failure

LEMMA Invariance == Spec => []IInv
BY InitIInv, StepIInv, PTL DEF Spec

-----------------------------------------------------------------------------

\* Every variable keeps its type: in particular no release, not even one on a
\* dead connection, takes the lock's hold count below zero.
THEOREM TypeCorrect == Spec => []TypeOK
<1>1. IInv => TypeOK
  BY DEF IInv
<1> QED
  BY <1>1, Invariance, PTL

\* No path through becomeActive(), release() and tryAcquire() leaves a Discord
\* session without the lock, unless the lock connection itself is gone.
THEOREM SessionsAreBacked == Spec => []SessionBackedByLock
<1>1. IInv => SessionBackedByLock
  BY DEF IInv, EntitledOwns, SessionFollowsStep, SessionBackedByLock, Entitled
<1> QED
  BY <1>1, Invariance, PTL

\* The re-entrant hold count is one per election in progress plus the holds
\* failed unlocks left: a waiting machine keeps the lock only after those.
THEOREM HoldsAreAccountedFor == Spec => []HoldsAccountedFor
<1>1. IInv => HoldsAccountedFor
  BY DEF IInv
<1> QED
  BY <1>1, Invariance, PTL

-----------------------------------------------------------------------------

\* A machine stops answering Discord only by ending its process, and does not
\* win the lock a second time while it answers.
THEOREM ServingEndsWithTheProcess == Spec => ServingEndsInExit
<1> DEFINE A == \A m \in Machine : Serving(m) =>
                   /\ Serving(m)' \/ pc'[m] = "down"
                   /\ owner' = m => owner = m
<1>1. IInv /\ [Next]_vars => [A]_vars
  <2> SUFFICES ASSUME IInv, Next PROVE A
    OBVIOUS
  <2> SUFFICES ASSUME NEW m \in Machine, Serving(m)
               PROVE  /\ Serving(m)' \/ pc'[m] = "down"
                      /\ owner' = m => owner = m
    OBVIOUS
  <2> USE OwnersAreDistinct DEF IInv, TypeOK, ServingIsOpen, Serving
  <2>1. CASE OrphanEnds
    BY <2>1 DEF OrphanEnds, FreeLock
  <2>2. ASSUME NEW n \in Machine, Progress(n)
        PROVE  /\ Serving(m)' \/ pc'[m] = "down"
               /\ owner' = m => owner = m
    BY <2>2 DEF Progress, Start, Reserve, TryLock, Granted, Denied, QueryFails,
         SessionOpens, Ready, DestroyDone, Release, CommandsFlushed, StartupPosted,
         LostLock, ProcessEnds
  <2>3. ASSUME NEW n \in Machine, Failure(n)
        PROVE  /\ Serving(m)' \/ pc'[m] = "down"
               /\ owner' = m => owner = m
    BY <2>3 DEF Failure, LoginFails, ReadyTimeout, UnlockFails, StartupFails, CheckFails,
         Kill, ServerDrops, ClientDrops, ProcessEnds, FreeLock
  <2> QED
    BY <2>1, <2>2, <2>3 DEF Next
<1> QED
  BY <1>1, Invariance, PTL DEF Spec, ServingEndsInExit

-----------------------------------------------------------------------------
(* The election implements the lease.  leader, entitled and serving of the   *)
(* lease are read off the election's state; most steps leave them alone.     *)

LeaderBar == IF owner \in Machine THEN owner ELSE NoOne

EntitledBar == {m \in Machine : Entitled(m)}

ServingBar == {m \in Machine : Live(m)}

\* The steps the lease does not see.
LEMMA QuietSteps ==
  ASSUME IInv, NEW m \in Machine,
         \/ Start(m) \/ Reserve(m) \/ Denied(m) \/ SessionOpens(m)
         \/ Ready(m) \/ DestroyDone(m) \/ CommandsFlushed(m) \/ StartupPosted(m)
  PROVE  UNCHANGED <<LeaderBar, EntitledBar, ServingBar>>
<1> USE DEF IInv, TypeOK, LeaderBar, EntitledBar, ServingBar, Entitled, Live, Serving
<1>1. CASE Start(m)
  BY <1>1 DEF Start
<1>2. CASE Reserve(m)
  BY <1>2 DEF Reserve
<1>3. CASE Denied(m)
  BY <1>3 DEF Denied
<1>4. CASE SessionOpens(m)
  BY <1>4 DEF SessionOpens
<1>5. CASE Ready(m)
  BY <1>5 DEF Ready
<1>6. CASE DestroyDone(m)
  BY <1>6 DEF DestroyDone
<1>7. CASE CommandsFlushed(m)
  BY <1>7 DEF CommandsFlushed
<1>8. CASE StartupPosted(m)
  BY <1>8 DEF StartupPosted
<1> QED
  BY <1>1, <1>2, <1>3, <1>4, <1>5, <1>6, <1>7, <1>8

\* The steps the lease sees, each with the lease action it is.
LEMMA LeaseSteps ==
  ASSUME IInv, NEW m \in Machine,
         \/ TryLock(m) \/ Granted(m) \/ QueryFails(m) \/ Release(m) \/ LostLock(m)
         \/ Failure(m)
  PROVE  [Lease!LeaseNext]_(Lease!leaseVars)
<1> USE OwnersAreDistinct DEF IInv, TypeOK, Entitled, Live, Serving, Lease!LeaseNext, Lease!leaseVars
<1>1. CASE TryLock(m)
  BY <1>1 DEF TryLock, Lease!Elect
<1>2. CASE Granted(m)
  BY <1>2 DEF Granted, Lease!Open
<1>3. CASE QueryFails(m)
  BY <1>3 DEF QueryFails, OwnerConnected, SessionFollowsStep, Lease!StepDown
<1>4. CASE Release(m)
  BY <1>4 DEF Release, OwnerConnected, SessionFollowsStep, EntitledOwns, Lease!StepDown
<1>5. CASE UnlockFails(m)
  BY <1>5 DEF UnlockFails, SessionFollowsStep, EntitledOwns, Lease!StepDown
<1>6. CASE LoginFails(m) \/ ReadyTimeout(m)
  BY <1>6 DEF LoginFails, ReadyTimeout, Lease!Close
<1>7. ASSUME ProcessEnds(m) PROVE Lease!Exit(m)
  BY <1>7 DEF ProcessEnds, Lease!Exit
<1>8. CASE LostLock(m) \/ StartupFails(m) \/ CheckFails(m) \/ Kill(m)
  BY <1>7, <1>8 DEF LostLock, StartupFails, CheckFails, Kill
<1>9. CASE ServerDrops(m)
  BY <1>9 DEF ServerDrops, FreeLock, Lease!Lose
<1>10. CASE ClientDrops(m)
  BY <1>10 DEF ClientDrops, Lease!Lose
<1> QED
  BY <1>1, <1>2, <1>3, <1>4, <1>5, <1>6, <1>8, <1>9, <1>10 DEF Failure

\* Every behaviour of the election is one of the lease: a machine is elected
\* only when it does not believe it leads, gives the lock up by itself only
\* without a session, and a lost lock never frees a session of its own.
THEOREM ElectionImplementsLease == Spec => ImplementsLease
<1>1. Init => Lease!LeaseInit
  BY OwnersAreDistinct DEF Init, Lease!LeaseInit, Entitled, Serving, Live
<1>2. IInv /\ [Next]_vars => [Lease!LeaseNext]_(Lease!leaseVars)
  <2> SUFFICES ASSUME IInv, [Next]_vars PROVE [Lease!LeaseNext]_(Lease!leaseVars)
    OBVIOUS
  <2>1. CASE OrphanEnds
    BY <2>1, OwnersAreDistinct DEF OrphanEnds, FreeLock, Lease!leaseVars, Entitled, Live, Serving
  <2>2. ASSUME NEW m \in Machine, Progress(m) \/ Failure(m)
        PROVE  [Lease!LeaseNext]_(Lease!leaseVars)
    <3>1. CASE UNCHANGED <<LeaderBar, EntitledBar, ServingBar>>
      BY <3>1 DEF LeaderBar, EntitledBar, ServingBar, Lease!leaseVars
    <3> QED
      BY <2>2, <3>1, QuietSteps, LeaseSteps DEF Progress
  <2>3. CASE UNCHANGED vars
    BY <2>3 DEF vars, Lease!leaseVars, Entitled, Live, Serving
  <2> QED
    BY <2>1, <2>2, <2>3 DEF Next
<1> QED
  BY <1>1, <1>2, Invariance, PTL DEF Spec, ImplementsLease, Lease!LeaseSpec

=============================================================================
