------------------------ MODULE UpsertByExternalIds ------------------------
(***************************************************************************)
(* upsertByExternalIds(), the preamble of every game-data upsert: find the *)
(* one row the payload's external ids name, insert or update it, and add   *)
(* the external ids that are missing, in one READ COMMITTED transaction    *)
(* that is run again when another transaction commits one of those ids     *)
(* first.                                                                  *)
(*                                                                         *)
(* Each member of Call is one call of the function; calls run              *)
(* concurrently (two importers, the bot's feed import, a slash command).   *)
(* The row that a call would insert in its n-th attempt is named <<c, n>>, *)
(* which is as unique as the serial column it stands for.                  *)
(***************************************************************************)
EXTENDS Naturals, Sequences

CONSTANTS
  Call,          \* the calls of one behaviour
  ExtId,         \* (external system, external id) pairs
  Kind,          \* values of a column detectSemanticConflict protects
  Absent,        \* a column the payload says nothing about (undefined)
  None,          \* no row
  Payloads,      \* the payloads a call may carry
  MaxAttempts    \* MAX_UPSERT_ATTEMPTS

\* External ids are a non-empty list (the request schemas demand one), in any
\* order and possibly with repetitions.  "columns" says where the payload has
\* the ordinary columns: in values, in createOnlyValues, or nowhere.
Payload == [ids : Seq(ExtId), kind : Kind \cup {Absent},
            columns : SUBSET {"values", "createOnly"}]

Row == Call \X (1..MaxAttempts)

ASSUME PayloadsAreTyped == Payloads \subseteq Payload
ASSUME PayloadsAreNonEmpty == \A load \in Payloads : load.ids # <<>>
ASSUME AttemptsArePositive == MaxAttempts \in Nat \ {0}
ASSUME MarksAreDistinct == Absent \notin Kind /\ None \notin Kind \cup Row

VARIABLES
  row,       \* committed entity rows: the protected column of each
  owner,     \* committed external-id rows: the row each pair belongs to
  pc,        \* where each call stands, or how it ended
  load,      \* its payload
  attempt,   \* its current attempt
  seen,      \* the pairs its resolve query found
  target,    \* the row it updates or inserts
  at,        \* the next position of load.ids to insert
  pending    \* pairs inserted by its open transaction

vars == <<row, owner, pc, load, attempt, seen, target, at, pending>>

Failed == {"conflict", "missing", "exhausted", "deadlock", "failed"}

\* "check": the select of detectSemanticConflict; "hook": the external ids are
\* in, afterUpsert and COMMIT remain.
Stage == {"resolve", "check", "write", "ids", "hook", "ok"} \cup Failed

TypeOK ==
  /\ row \in [Row -> Kind \cup {None}]
  /\ owner \in [ExtId -> Row \cup {None}]
  /\ pc \in [Call -> Stage]
  /\ load \in [Call -> Payloads]
  /\ attempt \in [Call -> 1..MaxAttempts]
  /\ seen \in [Call -> SUBSET ExtId]
  /\ target \in [Call -> Row \cup {None}]
  /\ at \in [Call -> Nat \ {0}]
  /\ pending \in [Call -> SUBSET ExtId]

Ids(c) == load[c].ids

IdSet(c) == {Ids(c)[i] : i \in 1..Len(Ids(c))}

\* The row this attempt would insert, and whether it is inserting it.
NewRow(c) == <<c, attempt[c]>>
Created(c) == target[c] = NewRow(c)

\* values is empty once undefined is stripped: the row is read, not updated.
SaysNothing(c) == load[c].kind = Absent /\ "values" \notin load[c].columns

\* missingRequiredColumns: an insert lacks a required column.
Incomplete(c) == load[c].kind = Absent \/ load[c].columns = {}

\* An UPDATE keeps its row locked until the transaction ends.
LocksRow(c, r) ==
  pc[c] \in {"ids", "hook"} /\ target[c] = r /\ ~SaysNothing(c)

Init ==
  /\ row = [r \in Row |-> None]
  /\ owner = [e \in ExtId |-> None]
  /\ pc = [c \in Call |-> "resolve"]
  /\ load \in [Call -> Payloads]
  /\ attempt = [c \in Call |-> 1]
  /\ seen = [c \in Call |-> {}]
  /\ target = [c \in Call |-> None]
  /\ at = [c \in Call |-> 1]
  /\ pending = [c \in Call |-> {}]

\* The transaction rolls back and the call ends with an error.
Abort(c, outcome) ==
  /\ pc' = [pc EXCEPT ![c] = outcome]
  /\ seen' = [seen EXCEPT ![c] = {}]
  /\ target' = [target EXCEPT ![c] = None]
  /\ at' = [at EXCEPT ![c] = 1]
  /\ pending' = [pending EXCEPT ![c] = {}]
  /\ UNCHANGED <<row, owner, load, attempt>>

-----------------------------------------------------------------------------

\* resolveExistingByExternalIds: which committed rows do the pairs name?
Resolve(c) ==
  /\ pc[c] = "resolve"
  /\ LET found  == {e \in IdSet(c) : owner[e] # None}
         owners == {owner[e] : e \in found}
     IN \/ /\ \E r, s \in owners : r # s
           /\ Abort(c, "conflict")
        \/ /\ owners = {}
           /\ pc' = [pc EXCEPT ![c] = "write"]
           /\ seen' = [seen EXCEPT ![c] = {}]
           /\ target' = [target EXCEPT ![c] = NewRow(c)]
           /\ UNCHANGED <<row, owner, load, attempt, at, pending>>
        \/ \E r \in owners :
             /\ owners = {r}
             /\ pc' = [pc EXCEPT ![c] = "check"]
             /\ seen' = [seen EXCEPT ![c] = found]
             /\ target' = [target EXCEPT ![c] = r]
             /\ UNCHANGED <<row, owner, load, attempt, at, pending>>

\* Mutant: the stored row is never compared with the payload.
CheckNothing(c) ==
  /\ pc[c] = "check"
  /\ pc' = [pc EXCEPT ![c] = "write"]
  /\ UNCHANGED <<row, owner, load, attempt, seen, target, at, pending>>

\* detectSemanticConflict, for the entities that have such a column.
Check(c) ==
  /\ pc[c] = "check"
  /\ IF load[c].kind # Absent /\ load[c].kind # row[target[c]]
     THEN Abort(c, "conflict")
     ELSE /\ pc' = [pc EXCEPT ![c] = "write"]
          /\ UNCHANGED <<row, owner, load, attempt, seen, target, at, pending>>

\* Mutant: the entity row is committed on its own.
InsertRowAlone(c) ==
  /\ pc[c] = "write"
  /\ Created(c)
  /\ ~Incomplete(c)
  /\ pc' = [pc EXCEPT ![c] = "ids"]
  /\ row' = [row EXCEPT ![target[c]] = load[c].kind]
  /\ UNCHANGED <<owner, load, attempt, seen, target, at, pending>>

\* INSERT of the entity row, refused when a required column is missing.
InsertRow(c) ==
  /\ pc[c] = "write"
  /\ Created(c)
  /\ IF Incomplete(c)
     THEN Abort(c, "missing")
     ELSE /\ pc' = [pc EXCEPT ![c] = "ids"]
          /\ UNCHANGED <<row, owner, load, attempt, seen, target, at, pending>>

\* UPDATE of the entity row, which waits for another transaction's update of
\* it; a payload without columns only reads the row.
UpdateRow(c) ==
  /\ pc[c] = "write"
  /\ ~Created(c)
  /\ SaysNothing(c) \/ \A d \in Call \ {c} : ~LocksRow(d, target[c])
  /\ pc' = [pc EXCEPT ![c] = "ids"]
  /\ UNCHANGED <<row, owner, load, attempt, seen, target, at, pending>>

-----------------------------------------------------------------------------
(* insertMissingExternalIds: one INSERT whose rows go in in payload order.   *)

\* The next pair, while the list is not exhausted.
NextId(c) == Ids(c)[at[c]]

Inserting(c) == pc[c] = "ids" /\ at[c] <= Len(Ids(c))

\* Every pair that was not found by the resolve query is in.
IdsDone(c) ==
  /\ pc[c] = "ids"
  /\ at[c] > Len(Ids(c))
  /\ pc' = [pc EXCEPT ![c] = "hook"]
  /\ UNCHANGED <<row, owner, load, attempt, seen, target, at, pending>>

SkipSeenId(c) ==
  /\ Inserting(c)
  /\ NextId(c) \in seen[c]
  /\ at' = [at EXCEPT ![c] = @ + 1]
  /\ UNCHANGED <<row, owner, pc, load, attempt, seen, target, pending>>

\* The unique constraint lets the pair in when nobody has it, committed or not.
InsertId(c) ==
  /\ Inserting(c)
  /\ NextId(c) \notin seen[c]
  /\ owner[NextId(c)] = None
  /\ \A d \in Call : NextId(c) \notin pending[d]
  /\ pending' = [pending EXCEPT ![c] = @ \cup {NextId(c)}]
  /\ at' = [at EXCEPT ![c] = @ + 1]
  /\ UNCHANGED <<row, owner, pc, load, attempt, seen, target>>

\* The transaction rolls back and the attempt starts over.
Retry(c) ==
  /\ pc' = [pc EXCEPT ![c] = "resolve"]
  /\ attempt' = [attempt EXCEPT ![c] = @ + 1]
  /\ seen' = [seen EXCEPT ![c] = {}]
  /\ target' = [target EXCEPT ![c] = None]
  /\ at' = [at EXCEPT ![c] = 1]
  /\ pending' = [pending EXCEPT ![c] = {}]
  /\ UNCHANGED <<row, owner, load>>

\* The pair is committed by now, or twice in the payload.
Violates(c) ==
  /\ Inserting(c)
  /\ NextId(c) \notin seen[c]
  /\ owner[NextId(c)] # None \/ NextId(c) \in pending[c]

\* Mutant: the pair is moved to this row (ON CONFLICT DO UPDATE).
StealId(c) ==
  /\ Violates(c)
  /\ owner' = [owner EXCEPT ![NextId(c)] = target[c]]
  /\ at' = [at EXCEPT ![c] = @ + 1]
  /\ UNCHANGED <<row, pc, load, attempt, seen, target, pending>>

\* Mutant: the pair is left with its owner (ON CONFLICT DO NOTHING).
TolerateViolation(c) ==
  /\ Violates(c)
  /\ at' = [at EXCEPT ![c] = @ + 1]
  /\ UNCHANGED <<row, owner, pc, load, attempt, seen, target, pending>>

\* Mutant: only the failed statement is repeated, with what the first resolve saw.
RetryStatement(c) ==
  /\ Violates(c)
  /\ IF attempt[c] = MaxAttempts
     THEN Abort(c, "exhausted")
     ELSE /\ attempt' = [attempt EXCEPT ![c] = @ + 1]
          /\ at' = [at EXCEPT ![c] = @ + 1]
          /\ target' = [target EXCEPT ![c] = <<c, attempt[c] + 1>>]
          /\ UNCHANGED <<row, owner, pc, load, seen, pending>>

\* Mutant: a lost race is tried again without end.
LoseRaceForever(c) ==
  /\ Violates(c)
  /\ pc' = [pc EXCEPT ![c] = "resolve"]
  /\ at' = [at EXCEPT ![c] = 1]
  /\ pending' = [pending EXCEPT ![c] = {}]
  /\ UNCHANGED <<row, owner, load, attempt, seen, target>>

\* Mutant: the attempt counter is never compared with its limit.
LoseRaceUncounted(c) ==
  /\ Violates(c)
  /\ Retry(c)

\* The unique violation on the external-id table: the loop goes round again.
LoseRace(c) ==
  /\ Violates(c)
  /\ IF attempt[c] = MaxAttempts THEN Abort(c, "exhausted") ELSE Retry(c)

-----------------------------------------------------------------------------

\* The protected column after the call's INSERT or UPDATE.
Written(c) == IF load[c].kind = Absent THEN row[target[c]] ELSE load[c].kind

\* afterUpsert has run and the transaction commits: row and pairs at once.
Commit(c) ==
  /\ pc[c] = "hook"
  /\ row' = [row EXCEPT ![target[c]] = Written(c)]
  /\ owner' = [e \in ExtId |-> IF e \in pending[c] THEN target[c] ELSE owner[e]]
  /\ pc' = [pc EXCEPT ![c] = "ok"]
  /\ seen' = [seen EXCEPT ![c] = {}]
  /\ at' = [at EXCEPT ![c] = 1]
  /\ pending' = [pending EXCEPT ![c] = {}]
  /\ UNCHANGED <<load, attempt, target>>

InTransaction(c) == pc[c] \in {"resolve", "check", "write", "ids", "hook"}

\* The hook throws, or the connection is lost before COMMIT.
Fails(c) ==
  /\ InTransaction(c)
  /\ Abort(c, "failed")

\* Whose transaction the call waits for, if any.
WaitsFor(c, d) ==
  /\ c # d
  /\ \/ pc[c] = "write" /\ ~Created(c) /\ ~SaysNothing(c) /\ LocksRow(d, target[c])
     \/ Inserting(c) /\ NextId(c) \notin seen[c] /\ NextId(c) \in pending[d]

\* Postgres ends one transaction of a cycle with an error that is not a unique
\* violation, so the loop does not catch it.
DeadlockVictim(c) ==
  /\ \E cycle \in SUBSET Call :
       /\ c \in cycle
       /\ \A d \in cycle : \E e \in cycle : WaitsFor(d, e)
       /\ \A e \in cycle : \E d \in cycle : WaitsFor(d, e)
  /\ Abort(c, "deadlock")

Work(c) ==
  \/ Resolve(c) \/ Check(c) \/ InsertRow(c) \/ UpdateRow(c)
  \/ SkipSeenId(c) \/ InsertId(c) \/ LoseRace(c) \/ IdsDone(c) \/ Commit(c)
  \/ DeadlockVictim(c)

Next == \E c \in Call : Work(c) \/ Fails(c)

Spec == Init /\ [][Next]_vars

\* A call that can go on does; a deadlock is detected.
FairSpec == Spec /\ \A c \in Call : WF_vars(Work(c))

-----------------------------------------------------------------------------
(* Properties.                                                               *)

\* A committed entity row is named by at least one external id: whatever fails
\* between the two inserts, no row is left that no later upsert could find.
NoOrphanRow ==
  \A r \in Row : row[r] # None => \E e \in ExtId : owner[e] = r

\* A call that succeeded left every pair of its payload with the row it
\* returned, however many others ran beside it.
SuccessOwnsItsIds ==
  \A c \in Call : pc[c] = "ok" =>
    row[target[c]] # None /\ \A e \in IdSet(c) : owner[e] = target[c]

\* A call that succeeds after losing a race updates the winner's row: it never
\* reports a row of its own as created.
RetryNeverCreates ==
  \A c \in Call : pc[c] = "ok" /\ attempt[c] > 1 => ~Created(c)

\* A call that ended with an error left neither rows nor pairs behind.
FailureLeavesNothing ==
  \A c \in Call : pc[c] \in Failed =>
    \A n \in 1..MaxAttempts :
      row[<<c, n>>] = None /\ \A e \in ExtId : owner[e] # <<c, n>>

\* A pair keeps its owner, and a row its protected column, whatever runs
\* between the check of a call and its update.
IdentityNeverChanges ==
  [][/\ \A e \in ExtId : owner[e] # None => owner'[e] = owner[e]
     /\ \A r \in Row : row[r] # None => row'[r] = row[r]]_vars

\* Every call ends: retries are bounded and no wait is for ever.
EveryCallEnds ==
  \A c \in Call : <>(pc[c] \in Failed \cup {"ok"})

\* "Losing the external-id unique-constraint race is not the caller's problem":
\* no call is ended by the way its inserts and another call's race.
RaceIsNotTheCallersProblem ==
  \A c \in Call : pc[c] # "deadlock"

=============================================================================
