----------------------------- MODULE ReviewLock -----------------------------
(***************************************************************************)
(* The review lock of dev-workflow-cli: sessions on one machine take turns *)
(* at triggering reviews, through a JSON file that each command reads,     *)
(* changes and replaces while it holds a mutex file.                       *)
(*                                                                         *)
(* Every command is a process of its own, so the module has one action per *)
(* file operation.  A session runs one command at a time.  It can die at   *)
(* any point, be suspended, or wait so long for the mutex that it clears   *)
(* it by force.                                                            *)
(***************************************************************************)
EXTENDS Naturals, Sequences

CONSTANTS
  Session,    \* the sessions, by their worktree's branch name
  None,       \* no session
  FaultKinds, \* what may go wrong: "death", "stall", "failed write"
  MaxFaults   \* how many of them may happen

ASSUME NoneIsNoSession == None \notin Session
ASSUME FaultsAreKnown == FaultKinds \subseteq {"death", "stall", "failed write"}
ASSUME MaxFaultsIsNat == MaxFaults \in Nat

VARIABLES
  file,      \* the state file: who holds the lock, who queues for it
  mutex,     \* the mutex file: who created it
  old,       \* it is older than MUTEX_STALE_MS
  pc,        \* where each session's command stands
  op,        \* the command
  copy,      \* the state it read
  won,       \* the answer it will print
  waited,    \* lockMutex() has waited for MUTEX_MAX_WAIT_MS
  forced,    \* lockMutex() has had its one forced clear
  held,      \* the sessions whose last command told them they hold the lock
  silent,    \* sessions whose stamp on file is older than REVIEW_LOCK_STALE_MS
  intruded,  \* history: a mutex was cleared under a process that is alive
  faults

vars == <<file, mutex, old, pc, op, copy, won, waited, forced, held, silent, intruded, faults>>

State == [holder : Session \cup {None}, queue : Seq(Session)]

Empty == [holder |-> None, queue |-> <<>>]

\* "waiting": between two polls of acquire().  "try" and "stat": in
\* lockMutex().  "clear": it has decided to unlink the mutex.
Place == {"idle", "waiting", "try", "stat", "clear", "read", "write", "unlock"}

\* The queue names each session once, and never the holder: a repeated acquire
\* leaves no ticket that would hand the lock back to its own holder later.  This
\* survives even lost updates.
TicketsAreSound ==
  /\ \A i, j \in 1..Len(file.queue) : file.queue[i] = file.queue[j] => i = j
  /\ \A i \in 1..Len(file.queue) : file.queue[i] # file.holder

\* The type of every variable, and of what readAt() may find on file.
TypeOK ==
  /\ file \in State /\ TicketsAreSound
  /\ mutex \in Session \cup {None}
  /\ old \in BOOLEAN
  /\ pc \in [Session -> Place]
  /\ op \in [Session -> {"none", "acquire", "heartbeat", "release", "broken"}]
  /\ copy \in [Session -> State]
  /\ won \in [Session -> BOOLEAN]
  /\ waited \subseteq Session
  /\ forced \subseteq Session
  /\ held \subseteq Session
  /\ silent \subseteq Session
  /\ intruded \in BOOLEAN
  /\ faults \in 0..MaxFaults

Init ==
  /\ file = Empty
  /\ mutex = None
  /\ old = FALSE
  /\ pc = [s \in Session |-> "idle"]
  /\ op = [s \in Session |-> "none"]
  /\ copy = [s \in Session |-> Empty]
  /\ won = [s \in Session |-> FALSE]
  /\ waited = {} /\ forced = {}
  /\ held = {} /\ silent = {}
  /\ intruded = FALSE
  /\ faults = 0

\* The session is in mutate()'s read-modify-write cycle.
Inside(s) == pc[s] \in {"read", "write", "unlock"}

\* The mutex was left behind by a process that died.
Orphaned == mutex # None /\ ~Inside(mutex)

Fault(kind) ==
  /\ kind \in FaultKinds
  /\ faults < MaxFaults
  /\ faults' = faults + 1

Goto(s, place) == pc' = [pc EXCEPT ![s] = place]

\* The command's process is gone.
Ended(s) ==
  /\ Goto(s, "idle")
  /\ op' = [op EXCEPT ![s] = "none"]

-----------------------------------------------------------------------------
(* ReviewLockService: the changes of the state, as functions of it.          *)

\* The queue without the tickets of the sessions that are gone.
Without(queue, gone) ==
  LET left[n \in 0..Len(queue)] ==
        IF n = 0 THEN <<>>
        ELSE IF queue[n] \in gone THEN left[n - 1]
        ELSE Append(left[n - 1], queue[n])
  IN left[Len(queue)]

\* Mutant: a new ticket is added as a list of its own.
LiveQueueNested(queue, s) ==
  LET withSelf ==
        IF \E i \in 1..Len(queue) : queue[i] = s THEN queue ELSE Append(queue, <<s>>)
  IN Without(withSelf, silent \ {s})

\* Mutant: a ticket that is refreshed goes to the end of the queue.
LiveQueueRenewed(queue, s) ==
  Append(Without(queue, silent \cup {s}), s)

\* The caller's ticket, added at the end if it has none, and every other
\* ticket that is not stale.
LiveQueue(queue, s) ==
  LET withSelf == IF \E i \in 1..Len(queue) : queue[i] = s THEN queue ELSE Append(queue, s)
  IN Without(withSelf, silent \ {s})

\* Mutant: every holder counts as stale.
FreeWhenAsked(holder) == TRUE

\* Mutant: a stale holder keeps the lock.
FreeWhenReleased(holder) == holder = None

IsFree(holder) == holder = None \/ holder \in silent

\* The lock is the caller's already, or it is free and the caller's turn.
Wins(state, s) ==
  \/ state.holder = s
  \/ Head(LiveQueue(state.queue, s)) = s /\ IsFree(state.holder)

\* Mutant: the caller queues before it is found to hold the lock.
AcquiredQueueFirst(state, s) ==
  LET queue == LiveQueue(state.queue, s)
  IN IF state.holder = s THEN [state EXCEPT !.queue = queue]
     ELSE IF Wins(state, s) THEN [holder |-> s, queue |-> Tail(queue)]
     ELSE [state EXCEPT !.queue = queue]

\* tryAcquire()
Acquired(state, s) ==
  LET queue == LiveQueue(state.queue, s)
  IN IF state.holder = s THEN state
     ELSE IF Wins(state, s) THEN [holder |-> s, queue |-> Tail(queue)]
     ELSE [state EXCEPT !.queue = queue]

\* releaseFrom()
Released(state, s) ==
  IF state.holder = s
  THEN [state EXCEPT !.holder = None]
  ELSE [state EXCEPT !.queue = Without(@, {s})]

-----------------------------------------------------------------------------
(* ReviewLockStateService.mutate().                                          *)

\* A command starts; until it ends, the session does not rely on the lock.
Begin(s, command) ==
  /\ Goto(s, "try")
  /\ op' = [op EXCEPT ![s] = command]
  /\ held' = held \ {s}
  /\ UNCHANGED <<file, mutex, old, copy, won, waited, forced, silent, intruded, faults>>

Acquire(s) == pc[s] = "idle" /\ Begin(s, "acquire")

Heartbeat(s) == pc[s] = "idle" /\ s \in held /\ Begin(s, "heartbeat")

Release(s) == pc[s] = "idle" /\ Begin(s, "release")

\* acquire()'s next poll.
Poll(s) == pc[s] = "waiting" /\ Begin(s, "acquire")

\* acquire() gives up; its ticket stays in the queue.
TimesOut(s) ==
  /\ pc[s] = "waiting"
  /\ Ended(s)
  /\ UNCHANGED <<file, mutex, old, copy, won, waited, forced, held, silent, intruded, faults>>

\* Mutant: the mutex file is opened without the exclusive flag.
AlwaysCreatable == TRUE

\* open(..., 'wx') creates the file.
Creatable == mutex = None

TryCreate(s) ==
  /\ pc[s] = "try"
  /\ IF Creatable
     THEN /\ mutex' = s /\ old' = FALSE
          /\ waited' = waited \ {s} /\ forced' = forced \ {s}
          /\ Goto(s, "read")
     ELSE Goto(s, "stat") /\ UNCHANGED <<mutex, old, waited, forced>>
  /\ UNCHANGED <<file, op, copy, won, held, silent, intruded, faults>>

\* Mutant: lockMutex() waits for the mutex however long it takes.
NeverOverdue(s) == FALSE

\* The mutex there is now is stale, or the call has waited long enough.
Overdue(s) == (mutex # None /\ old) \/ s \in waited

\* The age of the mutex decides: sleep and try again, clear it by force (when
\* it is still there), or throw.
Stat(s) ==
  /\ pc[s] = "stat"
  /\ IF ~Overdue(s)
     THEN Goto(s, "try") /\ UNCHANGED <<op, waited, forced>>
     ELSE IF s \in forced
     THEN /\ Ended(s)
          /\ waited' = waited \ {s} /\ forced' = forced \ {s}
     ELSE /\ forced' = forced \cup {s}
          /\ Goto(s, IF mutex = None THEN "try" ELSE "clear")
          /\ UNCHANGED <<op, waited>>
  /\ UNCHANGED <<file, mutex, old, copy, won, held, silent, intruded, faults>>

\* unlink(): whichever mutex file is there by now.
Clear(s) ==
  /\ pc[s] = "clear"
  /\ mutex' = None
  /\ old' = FALSE
  /\ intruded' = (intruded \/ (mutex # None /\ Inside(mutex)))
  /\ Goto(s, "try")
  /\ UNCHANGED <<file, op, copy, won, waited, forced, held, silent, faults>>

Read(s) ==
  /\ pc[s] = "read"
  /\ copy' = [copy EXCEPT ![s] = file]
  /\ Goto(s, "write")
  /\ UNCHANGED <<file, mutex, old, op, won, waited, forced, held, silent, intruded, faults>>

\* The change was applied to what was read; its result replaces the file (rename).
Replaces(s) ==
  /\ pc[s] = "write"
  /\ copy' = [copy EXCEPT ![s] = Empty]
  /\ Goto(s, "unlock")
  /\ UNCHANGED <<mutex, old, op, waited, forced, held, intruded, faults>>

\* Whatever the outcome, the caller's stamp is new: on its ticket or on the lock.
WriteAcquire(s) ==
  /\ op[s] = "acquire"
  /\ file' = Acquired(copy[s], s)
  /\ won' = [won EXCEPT ![s] = Wins(copy[s], s)]
  /\ silent' = silent \ {s}
  /\ Replaces(s)

WriteHeartbeat(s) ==
  /\ op[s] = "heartbeat"
  /\ file' = copy[s]
  /\ won' = [won EXCEPT ![s] = copy[s].holder = s]
  /\ silent' = IF copy[s].holder = s THEN silent \ {s} ELSE silent
  /\ Replaces(s)

WriteRelease(s) ==
  /\ op[s] = "release"
  /\ file' = Released(copy[s], s)
  /\ won' = [won EXCEPT ![s] = FALSE]
  /\ UNCHANGED silent
  /\ Replaces(s)

Write(s) == WriteAcquire(s) \/ WriteHeartbeat(s) \/ WriteRelease(s)

\* The file cannot be written; the mutex is removed all the same.
WriteFails(s) ==
  /\ Fault("failed write")
  /\ pc[s] = "write"
  /\ op' = [op EXCEPT ![s] = "broken"]
  /\ won' = [won EXCEPT ![s] = FALSE]
  /\ copy' = [copy EXCEPT ![s] = Empty]
  /\ Goto(s, "unlock")
  /\ UNCHANGED <<file, mutex, old, waited, forced, held, silent, intruded>>

\* unlink(), again whichever file is there; the command answers, or polls on.
Unlock(s) ==
  /\ pc[s] = "unlock"
  /\ mutex' = None
  /\ old' = FALSE
  /\ held' = IF won[s] THEN held \cup {s} ELSE held
  /\ won' = [won EXCEPT ![s] = FALSE]
  /\ IF op[s] = "acquire" /\ ~won[s]
     THEN Goto(s, "waiting") /\ UNCHANGED op
     ELSE Ended(s)
  /\ UNCHANGED <<file, copy, waited, forced, silent, intruded, faults>>

-----------------------------------------------------------------------------
(* What happens to a session, and time.                                      *)

\* The session is killed, inside a command or between two: its files stay.
Dies(s) ==
  /\ Fault("death")
  /\ Ended(s)
  /\ copy' = [copy EXCEPT ![s] = Empty]
  /\ won' = [won EXCEPT ![s] = FALSE]
  /\ waited' = waited \ {s}
  /\ forced' = forced \ {s}
  /\ held' = held \ {s}
  /\ UNCHANGED <<file, mutex, old, silent, intruded>>

\* The mutex grows old: because nobody is left to remove it, or because its
\* process is suspended inside.
GrowsOld ==
  /\ mutex # None /\ ~old
  /\ old' = TRUE
  /\ IF Orphaned THEN UNCHANGED faults ELSE Fault("stall")
  /\ UNCHANGED <<file, mutex, pc, op, copy, won, waited, forced, held, silent, intruded>>

\* A call has waited its five seconds: on an orphan, or losing every try to
\* processes that come and go.
WaitsLong(s) ==
  /\ pc[s] \in {"try", "stat"} /\ s \notin waited
  /\ waited' = waited \cup {s}
  /\ IF Orphaned THEN UNCHANGED faults ELSE Fault("stall")
  /\ UNCHANGED <<file, mutex, old, pc, op, copy, won, forced, held, silent, intruded>>

OnFile == {file.holder} \cup {file.queue[i] : i \in 1..Len(file.queue)}

\* A hundred minutes have passed since the session's last stamp.
FallsSilent(s) ==
  /\ s \in OnFile \ (silent \cup {None})
  /\ silent' = silent \cup {s}
  /\ UNCHANGED <<file, mutex, old, pc, op, copy, won, waited, forced, held, intruded, faults>>

-----------------------------------------------------------------------------

Command(s) ==
  \/ TryCreate(s) \/ Stat(s) \/ Clear(s) \/ Read(s) \/ Write(s) \/ Unlock(s) \/ Poll(s)

Caller(s) == Acquire(s) \/ Heartbeat(s) \/ Release(s) \/ TimesOut(s)

Trouble(s) == WriteFails(s) \/ Dies(s) \/ WaitsLong(s) \/ FallsSilent(s)

Next ==
  \/ GrowsOld
  \/ \E s \in Session : Command(s) \/ Caller(s) \/ Trouble(s)

Spec == Init /\ [][Next]_vars

\* Processes run on; a call that tries every 50 ms meets the mutex free between
\* commands that are minutes apart; the skills release what they took (or start the next
\* command, over and over); time passes for a mutex nobody will remove and for
\* a session that is not running.
Fairness ==
  /\ WF_vars(Orphaned /\ GrowsOld)
  /\ \A s \in Session :
       /\ WF_vars(Command(s))
       /\ SF_vars(mutex = None /\ TryCreate(s)) /\ SF_vars(mutex = None /\ Stat(s))
       /\ SF_vars(s \in held /\ Release(s))
       /\ WF_vars(pc[s] = "idle" /\ s \notin held /\ FallsSilent(s))

FairSpec == Spec /\ Fairness

-----------------------------------------------------------------------------
(* Properties.                                                               *)

\* The mutex serialises the read-modify-write cycles until somebody clears it
\* under a process that is alive.
OneAtATime ==
  ~intruded => \A s, t \in Session : Inside(s) /\ Inside(t) => s = t

\* A session that was told it holds the lock, and has kept its heartbeat, is the
\* holder on file: no reclaim and no lost update takes the lock away from it.
HoldersAgree ==
  ~intruded => \A s \in held \ silent : file.holder = s

\* Sessions get the lock in the order they queued: whoever gets it has only
\* stale tickets before it, and those that stay keep their order.
NobodyJumpsTheQueue ==
  [][~intruded =>
      /\ \A s \in Session \ {file.holder} : file'.holder = s =>
           \A i \in 1..Len(file.queue) :
             file.queue[i] \in silent \cup {s}
               \/ \E j \in 1..(i - 1) : file.queue[j] = s
      /\ \A i, j \in 1..Len(file'.queue) : i < j =>
           \A k, l \in 1..Len(file.queue) :
             file.queue[k] = file'.queue[i] /\ file.queue[l] = file'.queue[j] => k < l]_vars

\* Every command ends, whatever a dead process left behind: it gets the mutex,
\* clears it, or throws.
EveryCommandEnds ==
  \A s \in Session : pc[s] \notin {"idle", "waiting"} ~> pc[s] \in {"idle", "waiting"}

\* A session that goes on polling, and keeps its ticket fresh, gets the lock in
\* the end: dead holders and dead tickets before it are reclaimed.
WaitersAreServed ==
  \A s \in Session :
    pc[s] = "waiting" ~> s \in held \cup silent \/ pc[s] = "idle" \/ intruded

\* ReviewLockStateService: the mutex serialises whole read-modify-write cycles,
\* "so two simultaneous acquires cannot both decide they won".
OneWinner ==
  \A s, t \in held \ silent : s = t

=============================================================================
