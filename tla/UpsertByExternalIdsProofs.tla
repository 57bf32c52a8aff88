--------------------- MODULE UpsertByExternalIdsProofs ---------------------
(***************************************************************************)
(* upsertByExternalIds is correct for any number of concurrent calls, any  *)
(* payloads and any number of attempts.                                    *)
(*                                                                         *)
(* The invariant has a part about the tables, which only a commit touches, *)
(* and a part about each call.  Committed rows and pairs never change      *)
(* owner, so a step of one call keeps the part of every other (LocalStays);*)
(* what remains is each action's effect on the call that takes it.         *)
(***************************************************************************)
EXTENDS UpsertByExternalIds, TLAPS

\* The stages in which a call has chosen its row.
Chosen(c) == pc[c] \in {"check", "write", "ids", "hook"}

\* A pair in an open transaction is in no other one and not committed, and only
\* a transaction that inserts has such pairs.
PendingIsExclusive ==
  \A c \in Call :
    /\ \A e \in pending[c] : owner[e] = None
    /\ \A d \in Call \ {c} : pending[c] \cap pending[d] = {}
    /\ pending[c] # {} => pc[c] \in {"ids", "hook"}

\* A committed pair belongs to a committed row.
OwnerExists == \A e \in ExtId : owner[e] # None => row[owner[e]] # None

\* A row is committed by the call it is named after, in its last attempt.
RowHasCommitted ==
  \A c \in Call, n \in 1..MaxAttempts :
    row[<<c, n>>] # None => pc[c] = "ok" /\ n = attempt[c] /\ target[c] = <<c, n>>

\* An open call works on its own new row or on a committed one, and what it saw
\* still belongs to that row.
TargetIsSound(c) ==
  Chosen(c) =>
    /\ target[c] \in Row
    /\ ~Created(c) => row[target[c]] # None
    /\ pc[c] = "check" => ~Created(c)
    /\ \A e \in seen[c] : owner[e] = target[c]

\* The positions the insert has passed are settled, and what it put in was there.
PassedIsSettled(c) ==
  pc[c] \in {"ids", "hook"} =>
    /\ \A i \in 1..Len(Ids(c)) : i < at[c] => Ids(c)[i] \in seen[c] \cup pending[c]
    /\ \A e \in pending[c] : \E i \in 1..Len(Ids(c)) : i < at[c] /\ Ids(c)[i] = e

\* A new row starts from nothing, is complete, and takes no pair twice.
NewRowIsSound(c) ==
  pc[c] \in {"write", "ids", "hook"} /\ Created(c) =>
    /\ seen[c] = {}
    /\ pc[c] # "write" => load[c].kind # Absent
    /\ pc[c] # "write" => \A i, j \in 1..Len(Ids(c)) :
                            i < j /\ j < at[c] => Ids(c)[i] # Ids(c)[j]

\* The insert starts at the first pair and is over before the hook.
InsertIsWhole(c) ==
  /\ pc[c] \in {"resolve", "check", "write"} => at[c] = 1
  /\ pc[c] = "hook" => at[c] > Len(Ids(c))

\* A call that lost a race finds a committed pair the next time, unless its own
\* payload repeats one.
Repeats(c) == \E i, j \in 1..Len(Ids(c)) : i < j /\ Ids(c)[i] = Ids(c)[j]

RetryFindsWinner(c) ==
  attempt[c] > 1 =>
    /\ Repeats(c) \/ \E e \in IdSet(c) : owner[e] # None
    /\ pc[c] \in {"write", "ids", "hook"} /\ Created(c) => Repeats(c)

\* The check has compared the payload with the committed row, which no commit
\* has changed since.
KindAgrees(c) ==
  pc[c] \in {"write", "ids", "hook"} /\ ~Created(c) =>
    load[c].kind \in {Absent, row[target[c]]}

\* What a call that is over promises.
Outcome(c) ==
  pc[c] = "ok" =>
    /\ target[c] \in Row
    /\ row[target[c]] # None
    /\ \A e \in IdSet(c) : owner[e] = target[c]
    /\ attempt[c] > 1 => ~Created(c)

Local(c) ==
  /\ TargetIsSound(c)
  /\ PassedIsSettled(c)
  /\ NewRowIsSound(c)
  /\ InsertIsWhole(c)
  /\ RetryFindsWinner(c)
  /\ KindAgrees(c)
  /\ Outcome(c)

Tables ==
  /\ PendingIsExclusive
  /\ OwnerExists
  /\ RowHasCommitted
  /\ NoOrphanRow

IInv ==
  /\ TypeOK
  /\ Tables
  /\ \A c \in Call : Local(c)

-----------------------------------------------------------------------------

\* Rows and pairs that are committed stay as they are.
Grows ==
  /\ \A r \in Row : row[r] # None => row'[r] = row[r]
  /\ \A e \in ExtId : owner[e] # None => owner'[e] = owner[e]

\* The step is not one of this call.
Rests(c) ==
  /\ pc'[c] = pc[c] /\ load'[c] = load[c] /\ attempt'[c] = attempt[c]
  /\ seen'[c] = seen[c] /\ target'[c] = target[c] /\ at'[c] = at[c]
  /\ pending'[c] = pending[c]

\* A call's part of the invariant survives the steps of the others.
LEMMA LocalStays ==
  ASSUME TypeOK, NEW c \in Call, Local(c), Rests(c), Grows
  PROVE  Local(c)'
<1>1. /\ Ids(c)' = Ids(c) /\ IdSet(c)' = IdSet(c)
      /\ Created(c)' = Created(c) /\ Chosen(c)' = Chosen(c)
      /\ Repeats(c)' = Repeats(c)
  BY DEF Rests, Ids, IdSet, Created, NewRow, Chosen, Repeats
<1>2. IdSet(c) \subseteq ExtId /\ seen[c] \subseteq ExtId
  BY PayloadsAreTyped DEF TypeOK, IdSet, Ids, Payload
<1>3. (TargetIsSound(c) /\ Outcome(c))'
  BY <1>1, <1>2, MarksAreDistinct DEF Local, TargetIsSound, Outcome, Rests, Grows
<1>6. KindAgrees(c)'
  BY <1>1 DEF Local, TargetIsSound, Chosen, KindAgrees, Rests, Grows
<1>4. (PassedIsSettled(c) /\ NewRowIsSound(c) /\ InsertIsWhole(c))'
  BY <1>1 DEF Local, PassedIsSettled, NewRowIsSound, InsertIsWhole, Rests
<1>5. RetryFindsWinner(c)'
  BY <1>1, <1>2 DEF Local, RetryFindsWinner, Rests, Grows
<1> QED
  BY <1>3, <1>4, <1>5, <1>6 DEF Local

LEMMA InitIInv == Init => IInv
<1> SUFFICES ASSUME Init PROVE IInv
  OBVIOUS
<1> USE AttemptsArePositive, MarksAreDistinct DEF Init
<1>1. TypeOK
  BY DEF TypeOK, Stage, Failed
<1>2. Tables
  BY DEF Tables, PendingIsExclusive, OwnerExists, RowHasCommitted, NoOrphanRow, Row
<1>3. ASSUME NEW c \in Call PROVE Local(c)
  BY DEF Local, TargetIsSound, PassedIsSettled, NewRowIsSound, InsertIsWhole,
         RetryFindsWinner, KindAgrees, Outcome, Chosen
<1> QED
  BY <1>1, <1>2, <1>3 DEF IInv

\* A call that ends with an error gives everything back.
LEMMA AbortIInv ==
  ASSUME IInv, NEW c \in Call, NEW outcome \in Failed, InTransaction(c), Abort(c, outcome)
  PROVE  IInv'
<1> USE DEF IInv, Abort, InTransaction
<1>1. TypeOK'
  BY DEF TypeOK, Stage
<1>2. Tables'
  BY DEF Tables, PendingIsExclusive, OwnerExists, RowHasCommitted, NoOrphanRow, TypeOK,
         Failed
<1>3. Local(c)'
  <2>1. pc'[c] \in Failed /\ IdSet(c)' = IdSet(c) /\ Repeats(c)' = Repeats(c)
    BY DEF TypeOK, IdSet, Repeats, Ids
  <2>2. Failed \cap {"resolve", "check", "write", "ids", "hook", "ok"} = {}
    BY DEF Failed
  <2> QED
    BY <2>1, <2>2 DEF Local, TargetIsSound, PassedIsSettled, NewRowIsSound, InsertIsWhole,
       RetryFindsWinner, KindAgrees, Outcome, Chosen
<1>4. ASSUME NEW d \in Call, d # c PROVE Local(d)'
  BY <1>4, LocalStays DEF Rests, Grows, TypeOK
<1> QED
  BY <1>1, <1>2, <1>3, <1>4

\* The tables' part when nothing is committed: only the exclusiveness of the
\* open transactions' pairs is at stake.
LEMMA TablesStay ==
  ASSUME IInv, NEW c \in Call, UNCHANGED <<row, owner, load>>,
         pc[c] # "ok", pc'[c] # "ok",
         \A d \in Call \ {c} : Rests(d), PendingIsExclusive'
  PROVE  Tables'
<1>1. RowHasCommitted'
  BY DEF IInv, Tables, RowHasCommitted, Rests
<1>2. (OwnerExists /\ NoOrphanRow)'
  BY DEF IInv, Tables, OwnerExists, NoOrphanRow
<1> QED
  BY <1>1, <1>2 DEF Tables

LEMMA ResolveIInv ==
  ASSUME IInv, NEW c \in Call, Resolve(c)
  PROVE  IInv'
<1> DEFINE found  == {e \in IdSet(c) : owner[e] # None}
           owners == {owner[e] : e \in found}
<1> USE MarksAreDistinct, PayloadsAreTyped
<1>0. IdSet(c) \subseteq ExtId /\ Ids(c)' = Ids(c) /\ IdSet(c)' = IdSet(c)
  BY DEF IInv, TypeOK, IdSet, Ids, Payload, Resolve, Abort
<1>1. CASE Abort(c, "conflict")
  BY <1>1, AbortIInv DEF Resolve, InTransaction, Failed
<1>2. ASSUME pc' = [pc EXCEPT ![c] = "write"], seen' = [seen EXCEPT ![c] = {}],
             target' = [target EXCEPT ![c] = NewRow(c)],
             owners = {},
             UNCHANGED <<row, owner, load, attempt, at, pending>>, pc[c] = "resolve"
      PROVE  IInv'
  <2>1. TypeOK'
    BY <1>2 DEF IInv, TypeOK, Stage, NewRow, Row
  <2>2. \A d \in Call \ {c} : Rests(d)
    BY <1>2 DEF Rests, IInv, TypeOK
  <2>3. PendingIsExclusive'
    BY <1>2 DEF IInv, TypeOK, Tables, PendingIsExclusive
  <2>4. Tables'
    BY <1>2, <2>2, <2>3, TablesStay DEF IInv, TypeOK
  <2>5. Created(c)' /\ target'[c] \in Row /\ seen'[c] = {} /\ pc'[c] = "write"
    BY <1>2 DEF Created, NewRow, IInv, TypeOK, Row
  <2>6. \A e \in IdSet(c) : owner[e] = None
    BY <1>2
  <2>7. RetryFindsWinner(c)'
    BY <1>2, <2>6, ZenonT(30) DEF IInv, Local, RetryFindsWinner, Repeats, IdSet, Ids, TypeOK
  <2>8. Local(c)'
    BY <1>2, <2>5, <2>7 DEF IInv, TypeOK, Local, TargetIsSound, PassedIsSettled,
       NewRowIsSound, InsertIsWhole, KindAgrees, Outcome
  <2>9. ASSUME NEW d \in Call, d # c PROVE Local(d)'
    BY <1>2, <2>2, <2>9, LocalStays DEF IInv, Grows
  <2> QED
    BY <2>1, <2>4, <2>8, <2>9 DEF IInv
<1>3. ASSUME NEW r \in owners, owners = {r},
             pc' = [pc EXCEPT ![c] = "check"], seen' = [seen EXCEPT ![c] = found],
             target' = [target EXCEPT ![c] = r],
             UNCHANGED <<row, owner, load, attempt, at, pending>>, pc[c] = "resolve"
      PROVE  IInv'
  <2>1. r \in Row /\ row[r] # None
    BY <1>0, <1>3 DEF IInv, TypeOK, Tables, OwnerExists
  <2>2. TypeOK'
    BY <1>0, <1>3, <2>1 DEF IInv, TypeOK, Stage
  <2>3. \A d \in Call \ {c} : Rests(d)
    BY <1>3 DEF Rests, IInv, TypeOK
  <2>4. PendingIsExclusive'
    BY <1>3 DEF IInv, TypeOK, Tables, PendingIsExclusive
  <2>5. Tables'
    BY <1>3, <2>3, <2>4, TablesStay DEF IInv, TypeOK
  <2>6. ~Created(c)'
    <3>1. row[<<c, attempt[c]>>] = None
      BY <1>3 DEF IInv, TypeOK, Tables, RowHasCommitted
    <3>2. target'[c] = r /\ attempt'[c] = attempt[c]
      BY <1>3 DEF IInv, TypeOK
    <3> QED
      BY <2>1, <3>1, <3>2 DEF Created, NewRow
  <2>7. TargetIsSound(c)'
    BY <1>3, <2>1, <2>6 DEF TargetIsSound, IInv, TypeOK
  <2>8. RetryFindsWinner(c)'
    BY <1>3, <2>6 DEF IInv, Local, RetryFindsWinner, Repeats, IdSet, Ids, TypeOK
  <2>9. Local(c)'
    BY <1>3, <2>6, <2>7, <2>8 DEF IInv, TypeOK, Local, PassedIsSettled, NewRowIsSound,
       InsertIsWhole, KindAgrees, Outcome
  <2>10. ASSUME NEW d \in Call, d # c PROVE Local(d)'
    BY <1>3, <2>3, <2>10, LocalStays DEF IInv, Grows
  <2> QED
    BY <2>2, <2>5, <2>9, <2>10 DEF IInv
<1> QED
  BY <1>1, <1>2, <1>3 DEF Resolve

\* Check, InsertRow and UpdateRow let a call go on, or end it.
LEMMA WriteIInv ==
  ASSUME IInv, NEW c \in Call, Check(c) \/ InsertRow(c) \/ UpdateRow(c)
  PROVE  IInv'
<1>1. CASE \E outcome \in {"conflict", "missing"} : Abort(c, outcome)
  BY <1>1, AbortIInv DEF Check, InsertRow, UpdateRow, InTransaction, Failed
<1>2. CASE /\ \/ /\ pc[c] = "check" /\ pc' = [pc EXCEPT ![c] = "write"]
                 /\ load[c].kind \in {Absent, row[target[c]]}
              \/ /\ pc[c] = "write" /\ pc' = [pc EXCEPT ![c] = "ids"]
                 /\ Created(c) => load[c].kind # Absent
           /\ UNCHANGED <<row, owner, load, attempt, seen, target, at, pending>>
  <2> USE <1>2
  <2>1. pc[c] \in {"check", "write"}
    OBVIOUS
  <2>2. TypeOK'
    BY <2>1 DEF IInv, TypeOK, Stage
  <2>3. \A d \in Call \ {c} : Rests(d)
    BY <2>1 DEF Rests, IInv, TypeOK
  <2>4. PendingIsExclusive'
    BY <2>1 DEF IInv, TypeOK, Tables, PendingIsExclusive
  <2>5. Tables'
    BY <2>1, <2>3, <2>4, TablesStay DEF IInv, TypeOK
  <2>6. /\ Created(c)' = Created(c) /\ Repeats(c)' = Repeats(c)
        /\ IdSet(c)' = IdSet(c) /\ Ids(c)' = Ids(c)
    BY DEF Created, NewRow, Repeats, IdSet, Ids
  <2>7. at[c] = 1 /\ pending[c] = {}
    BY <2>1 DEF IInv, Local, InsertIsWhole, Tables, PendingIsExclusive
  <2>8. Local(c)'
    BY <2>1, <2>6, <2>7 DEF IInv, TypeOK, Local, TargetIsSound, PassedIsSettled,
       NewRowIsSound, InsertIsWhole, RetryFindsWinner, KindAgrees, Outcome, Chosen
  <2>9. ASSUME NEW d \in Call, d # c PROVE Local(d)'
    BY <2>3, <2>9, LocalStays DEF IInv, Grows
  <2> QED
    BY <2>2, <2>5, <2>8, <2>9 DEF IInv
<1> QED
  BY <1>1, <1>2 DEF Check, InsertRow, UpdateRow, Incomplete

\* A position that is passed is settled: seen before, or inserted now.
LEMMA PassIdIInv ==
  ASSUME IInv, NEW c \in Call, SkipSeenId(c) \/ InsertId(c)
  PROVE  IInv'
<1>1. /\ pc[c] = "ids" /\ at[c] <= Len(Ids(c)) /\ at[c] \in Nat \ {0}
      /\ UNCHANGED <<row, owner, pc, load, attempt, seen, target>>
      /\ at' = [at EXCEPT ![c] = @ + 1]
      /\ \/ NextId(c) \in seen[c] /\ pending' = pending
         \/ /\ NextId(c) \notin seen[c] /\ owner[NextId(c)] = None
            /\ \A d \in Call : NextId(c) \notin pending[d]
            /\ pending' = [pending EXCEPT ![c] = @ \cup {NextId(c)}]
  BY DEF SkipSeenId, InsertId, Inserting, IInv, TypeOK
<1>2. load[c].ids \in Seq(ExtId)
  BY PayloadsAreTyped DEF IInv, TypeOK, Payload
<1>3. at[c] \in 1..Len(Ids(c)) /\ NextId(c) = Ids(c)[at[c]] /\ NextId(c) \in ExtId
  BY <1>1, <1>2 DEF NextId, Ids
<1>4. TypeOK'
  <2>1. pending' \in [Call -> SUBSET ExtId]
    <3>1. pending \in [Call -> SUBSET ExtId] /\ pending[c] \cup {NextId(c)} \in SUBSET ExtId
      BY <1>3 DEF IInv, TypeOK
    <3> QED
      BY <1>1, <3>1
  <2>2. at' \in [Call -> Nat \ {0}]
    BY <1>1 DEF IInv, TypeOK
  <2> QED
    BY <1>1, <2>1, <2>2 DEF IInv, TypeOK
<1>5. \A d \in Call \ {c} : Rests(d)
  BY <1>1 DEF Rests, IInv, TypeOK
<1>6. PendingIsExclusive'
  <2> DEFINE new == NextId(c)
  <2>1. CASE pending' = pending
    BY <1>1, <2>1 DEF IInv, Tables, PendingIsExclusive
  <2>2. CASE /\ owner[new] = None /\ \A d \in Call : new \notin pending[d]
             /\ pending' = [pending EXCEPT ![c] = @ \cup {new}]
    <3> HIDE DEF new
    <3>1. pending'[c] = pending[c] \cup {new} /\ \A d \in Call \ {c} : pending'[d] = pending[d]
      BY <2>2 DEF IInv, TypeOK
    <3> QED
      BY <1>1, <2>2, <3>1 DEF IInv, Tables, PendingIsExclusive
  <2> QED
    BY <1>1, <2>1, <2>2
<1>7. Tables'
  BY <1>1, <1>5, <1>6, TablesStay DEF IInv, TypeOK
<1>8. /\ Created(c)' = Created(c) /\ Repeats(c)' = Repeats(c)
      /\ IdSet(c)' = IdSet(c) /\ Ids(c)' = Ids(c) /\ Chosen(c)' = Chosen(c)
      /\ at'[c] = at[c] + 1
  BY <1>1 DEF Created, NewRow, Repeats, IdSet, Ids, Chosen, IInv, TypeOK
<1>9. /\ pending[c] \subseteq pending'[c]
      /\ NextId(c) \in seen[c] \cup pending'[c]
  BY <1>1 DEF IInv, TypeOK
<1>10. PassedIsSettled(c)'
  <2>1. ASSUME NEW i \in 1..Len(Ids(c)), i < at[c] + 1
        PROVE  Ids(c)[i] \in seen[c] \cup pending'[c]
    <3>1. CASE i < at[c]
      BY <1>1, <1>9, <3>1 DEF IInv, Local, PassedIsSettled
    <3>2. CASE i = at[c]
      BY <1>3, <1>9, <3>2
    <3> QED
      BY <1>1, <2>1, <3>1, <3>2
  <2>2. ASSUME NEW e \in pending'[c]
        PROVE  \E i \in 1..Len(Ids(c)) : i < at[c] + 1 /\ Ids(c)[i] = e
    <3>1. CASE e \in pending[c]
      BY <1>1, <3>1 DEF IInv, Local, PassedIsSettled
    <3>2. CASE e = NextId(c)
      BY <1>1, <1>3, <3>2
    <3> QED
      BY <1>1, <2>2, <3>1, <3>2 DEF IInv, TypeOK
  <2> QED
    BY <1>1, <1>8, <2>1, <2>2 DEF PassedIsSettled
<1>11. NewRowIsSound(c)'
  <2> SUFFICES ASSUME Created(c)
               PROVE  /\ seen[c] = {} /\ load[c].kind # Absent
                      /\ \A i, j \in 1..Len(Ids(c)) :
                           i < j /\ j < at[c] + 1 => Ids(c)[i] # Ids(c)[j]
    BY <1>1, <1>8 DEF NewRowIsSound
  <2>1. /\ seen[c] = {} /\ load[c].kind # Absent
        /\ \A i, j \in 1..Len(Ids(c)) : i < j /\ j < at[c] => Ids(c)[i] # Ids(c)[j]
    BY <1>1 DEF IInv, Local, NewRowIsSound
  <2>2. \A i \in 1..Len(Ids(c)) : i < at[c] => Ids(c)[i] \in pending[c]
    BY <1>1, <2>1 DEF IInv, Local, PassedIsSettled
  <2>3. NextId(c) \notin pending[c]
    BY <1>1, <2>1
  <2>4. ASSUME NEW i \in 1..Len(Ids(c)), NEW j \in 1..Len(Ids(c)), i < j, j < at[c] + 1
        PROVE  Ids(c)[i] # Ids(c)[j]
    <3>1. CASE j < at[c]
      BY <2>1, <2>4, <3>1
    <3>2. CASE j = at[c]
      BY <1>3, <2>2, <2>3, <2>4, <3>2
    <3> QED
      BY <1>1, <2>4, <3>1, <3>2
  <2> QED
    BY <2>1, <2>4
<1>12. Local(c)'
  BY <1>1, <1>8, <1>10, <1>11 DEF IInv, Local, TargetIsSound, InsertIsWhole,
     RetryFindsWinner, KindAgrees, Outcome
<1>13. ASSUME NEW d \in Call, d # c PROVE Local(d)'
  BY <1>1, <1>5, <1>13, LocalStays DEF IInv, Grows
<1> QED
  BY <1>4, <1>7, <1>12, <1>13 DEF IInv

\* A lost race leaves a committed pair behind, unless the payload repeats one.
LEMMA LoseRaceIInv ==
  ASSUME IInv, NEW c \in Call, LoseRace(c)
  PROVE  IInv'
<1>1. CASE Abort(c, "exhausted")
  BY <1>1, AbortIInv DEF LoseRace, Violates, Inserting, InTransaction, Failed
<1>2. CASE attempt[c] # MaxAttempts /\ Retry(c)
  <2> USE <1>2
  <2>1. /\ pc[c] = "ids" /\ at[c] <= Len(Ids(c)) /\ at[c] \in Nat \ {0}
        /\ owner[NextId(c)] # None \/ NextId(c) \in pending[c]
        /\ NextId(c) \notin seen[c]
    BY DEF LoseRace, Violates, Inserting, IInv, TypeOK
  <2>2. at[c] \in 1..Len(Ids(c)) /\ NextId(c) = Ids(c)[at[c]] /\ NextId(c) \in IdSet(c)
    <3>1. load[c].ids \in Seq(ExtId)
      BY PayloadsAreTyped DEF IInv, TypeOK, Payload
    <3> QED
      BY <2>1, <3>1 DEF NextId, Ids, IdSet
  <2>3. TypeOK'
    BY AttemptsArePositive DEF IInv, TypeOK, Stage, Retry
  <2>4. \A d \in Call \ {c} : Rests(d)
    BY DEF Rests, IInv, TypeOK, Retry
  <2>5. PendingIsExclusive'
    BY DEF IInv, TypeOK, Tables, PendingIsExclusive, Retry
  <2>6. Tables'
    BY <2>1, <2>4, <2>5, TablesStay DEF IInv, TypeOK, Retry
  <2>7. IdSet(c)' = IdSet(c) /\ Repeats(c)' = Repeats(c)
    BY DEF Retry, IdSet, Repeats, Ids
  <2>8. Repeats(c) \/ \E e \in IdSet(c) : owner[e] # None
    <3>1. CASE NextId(c) \in pending[c]
      BY <2>1, <2>2, <3>1 DEF IInv, Local, PassedIsSettled, Repeats
    <3> QED
      BY <2>1, <2>2, <3>1
  <2>9. Local(c)'
    BY <2>7, <2>8 DEF Local, TargetIsSound, PassedIsSettled, NewRowIsSound, InsertIsWhole,
       RetryFindsWinner, KindAgrees, Outcome, Chosen, Retry, IInv, TypeOK
  <2>10. ASSUME NEW d \in Call, d # c PROVE Local(d)'
    BY <2>4, <2>10, LocalStays DEF IInv, Grows, Retry
  <2> QED
    BY <2>3, <2>6, <2>9, <2>10 DEF IInv
<1> QED
  BY <1>1, <1>2 DEF LoseRace

LEMMA IdsDoneIInv ==
  ASSUME IInv, NEW c \in Call, IdsDone(c)
  PROVE  IInv'
<1> USE DEF IdsDone
<1>1. TypeOK'
  BY DEF IInv, TypeOK, Stage
<1>2. \A d \in Call \ {c} : Rests(d)
  BY DEF Rests, IInv, TypeOK
<1>3. PendingIsExclusive'
  BY DEF IInv, TypeOK, Tables, PendingIsExclusive
<1>4. Tables'
  BY <1>2, <1>3, TablesStay DEF IInv, TypeOK
<1>5. /\ Created(c)' = Created(c) /\ Repeats(c)' = Repeats(c)
      /\ IdSet(c)' = IdSet(c) /\ Ids(c)' = Ids(c)
  BY DEF Created, NewRow, Repeats, IdSet, Ids
<1>6. Local(c)'
  <2>1. /\ pc[c] = "ids" /\ pc'[c] = "hook" /\ at[c] > Len(Ids(c))
        /\ UNCHANGED <<row, owner, load, attempt, seen, target, at, pending>>
    BY DEF IInv, TypeOK
  <2>2. (TargetIsSound(c) /\ KindAgrees(c) /\ Outcome(c))'
    BY <1>5, <2>1 DEF IInv, Local, TargetIsSound, KindAgrees, Outcome, Chosen
  <2>3. (PassedIsSettled(c) /\ NewRowIsSound(c))'
    BY <1>5, <2>1 DEF IInv, Local, PassedIsSettled, NewRowIsSound
  <2>4. (InsertIsWhole(c) /\ RetryFindsWinner(c))'
    BY <1>5, <2>1 DEF IInv, Local, InsertIsWhole, RetryFindsWinner
  <2> HIDE DEF IdsDone
  <2> QED
    BY <2>2, <2>3, <2>4 DEF Local
<1>7. ASSUME NEW d \in Call, d # c PROVE Local(d)'
  BY <1>2, <1>7, LocalStays DEF IInv, Grows
<1> QED
  BY <1>1, <1>4, <1>6, <1>7 DEF IInv

\* A call in the hook stage has all its pairs; a new row has at least one.
LEMMA HookIsComplete ==
  ASSUME IInv, NEW c \in Call, pc[c] = "hook"
  PROVE  /\ target[c] \in Row
         /\ IdSet(c) \subseteq seen[c] \cup pending[c]
         /\ IdSet(c) # {}
         /\ Created(c) => /\ seen[c] = {} /\ load[c].kind \in Kind /\ attempt[c] = 1
                          /\ row[target[c]] = None
         /\ ~Created(c) => /\ row[target[c]] # None
                           /\ load[c].kind \in {Absent, row[target[c]]}
<1>1. load[c].ids \in Seq(ExtId) /\ load[c].ids # <<>> /\ load[c].kind \in Kind \cup {Absent}
  BY PayloadsAreTyped, PayloadsAreNonEmpty DEF IInv, TypeOK, Payload
<1>2. Len(Ids(c)) \in Nat \ {0} /\ at[c] \in Nat /\ at[c] > Len(Ids(c))
  BY <1>1 DEF Ids, IInv, Local, InsertIsWhole, TypeOK
<1>3. IdSet(c) \subseteq seen[c] \cup pending[c]
  BY <1>2 DEF IInv, Local, PassedIsSettled, InsertIsWhole, IdSet, TypeOK
<1>4. Ids(c)[1] \in IdSet(c)
  BY <1>2 DEF IdSet
<1>5. /\ target[c] \in Row
      /\ ~Created(c) => row[target[c]] # None /\ load[c].kind \in {Absent, row[target[c]]}
  BY DEF IInv, Local, TargetIsSound, Chosen, KindAgrees
<1>6. ASSUME Created(c)
      PROVE  seen[c] = {} /\ load[c].kind \in Kind /\ attempt[c] = 1 /\ row[target[c]] = None
  <2>1. seen[c] = {} /\ load[c].kind \in Kind
    BY <1>1, <1>6 DEF IInv, Local, NewRowIsSound
  <2>2. \A i, j \in 1..Len(Ids(c)) : i < j => Ids(c)[i] # Ids(c)[j]
    <3>1. \A i, j \in 1..Len(Ids(c)) : i < j /\ j < at[c] => Ids(c)[i] # Ids(c)[j]
      BY <1>6 DEF IInv, Local, NewRowIsSound
    <3> QED
      BY <1>2, <3>1
  <2>3. ~(attempt[c] > 1)
    BY <1>6, <2>2 DEF IInv, Local, RetryFindsWinner, Repeats
  <2>4. row[<<c, attempt[c]>>] = None
    BY DEF IInv, TypeOK, Tables, RowHasCommitted
  <2> QED
    BY <1>6, <2>1, <2>3, <2>4 DEF IInv, TypeOK, Created, NewRow
<1> QED
  BY <1>3, <1>4, <1>5, <1>6

\* The commit publishes the row and its pairs together.
LEMMA CommitIInv ==
  ASSUME IInv, NEW c \in Call, Commit(c)
  PROVE  /\ IInv'
         /\ Grows
<1> DEFINE t == target[c]
<1> USE DEF Commit
<1>1. /\ t \in Row /\ IdSet(c) \subseteq seen[c] \cup pending[c] /\ IdSet(c) # {}
      /\ Created(c) => /\ seen[c] = {} /\ load[c].kind \in Kind /\ attempt[c] = 1
                       /\ row[t] = None
      /\ ~Created(c) => row[t] # None /\ load[c].kind \in {Absent, row[t]}
  BY HookIsComplete
<1>2. Written(c) \in Kind /\ (row[t] # None => Written(c) = row[t])
  <2>1. row[t] \in Kind \cup {None}
    BY <1>1 DEF IInv, TypeOK
  <2> QED
    BY <1>1, <2>1, MarksAreDistinct DEF Written
<1>3. TypeOK'
  BY <1>1, <1>2 DEF IInv, TypeOK, Stage
<1>4. \A d \in Call \ {c} : Rests(d)
  BY DEF Rests, IInv, TypeOK
<1>5. \A e \in ExtId : owner[e] # None => owner'[e] = owner[e]
  BY DEF IInv, Tables, PendingIsExclusive
<1>6. /\ row'[t] # None /\ (row[t] # None => row'[t] = row[t])
      /\ \A r \in Row : r # t => row'[r] = row[r]
  <2>1. row'[t] = Written(c) /\ \A r \in Row : r # t => row'[r] = row[r]
    BY <1>1 DEF IInv, TypeOK
  <2> QED
    BY <1>2, <2>1, MarksAreDistinct
<1>7. Grows
  BY <1>5, <1>6 DEF Grows
<1>8. \A e \in IdSet(c) : e \in ExtId /\ owner'[e] = t
  <2>1. IdSet(c) \subseteq ExtId
    BY <1>1 DEF IInv, TypeOK
  <2>2. \A e \in seen[c] : owner[e] = t /\ owner[e] # None
    BY <1>1, MarksAreDistinct DEF IInv, Local, TargetIsSound, Chosen
  <2> QED
    BY <1>1, <1>5, <2>1, <2>2
<1>9. PendingIsExclusive'
  BY <1>3 DEF IInv, TypeOK, Tables, PendingIsExclusive
<1>10. OwnerExists'
  BY <1>6, <1>1 DEF IInv, TypeOK, Tables, OwnerExists
<1>11. NoOrphanRow'
  <2> SUFFICES ASSUME NEW r \in Row, row'[r] # None PROVE \E e \in ExtId : owner'[e] = r
    BY DEF NoOrphanRow
  <2>1. CASE r = t
    BY <1>1, <1>8, <2>1
  <2>2. CASE r # t
    BY <1>5, <1>6, <2>2, MarksAreDistinct DEF IInv, Tables, NoOrphanRow
  <2> QED
    BY <2>1, <2>2
<1>12. RowHasCommitted'
  <2> SUFFICES ASSUME NEW d \in Call, NEW n \in 1..MaxAttempts, row'[<<d, n>>] # None
               PROVE  pc'[d] = "ok" /\ n = attempt'[d] /\ target'[d] = <<d, n>>
    BY DEF RowHasCommitted
  <2>1. <<d, n>> \in Row
    BY DEF Row
  <2>2. CASE row[<<d, n>>] # None
    BY <1>4, <2>2 DEF IInv, TypeOK, Tables, RowHasCommitted, Rests
  <2>3. CASE row[<<d, n>>] = None
    <3>1. t = <<d, n>> /\ Created(c)
      BY <1>1, <1>6, <2>1, <2>3
    <3> QED
      BY <3>1 DEF Created, NewRow, IInv, TypeOK
  <2> QED
    BY <2>2, <2>3
<1>13. Local(c)'
  <2>1. /\ Created(c)' = Created(c) /\ IdSet(c)' = IdSet(c) /\ pc'[c] = "ok"
        /\ Repeats(c)' = Repeats(c) /\ target'[c] = t /\ attempt'[c] = attempt[c]
    BY DEF Created, NewRow, IdSet, Ids, Repeats, IInv, TypeOK
  <2>2. Outcome(c)'
    BY <1>1, <1>6, <1>8, <2>1 DEF Outcome
  <2>3. RetryFindsWinner(c)'
    BY <1>1, <1>8, <2>1, MarksAreDistinct, ZenonT(30) DEF RetryFindsWinner
  <2> QED
    BY <2>1, <2>2, <2>3 DEF Local, TargetIsSound, PassedIsSettled, NewRowIsSound,
       InsertIsWhole, KindAgrees, Chosen
<1>14. ASSUME NEW d \in Call, d # c PROVE Local(d)'
  BY <1>4, <1>7, <1>14, LocalStays DEF IInv
<1> QED
  BY <1>3, <1>7, <1>9, <1>10, <1>11, <1>12, <1>13, <1>14 DEF IInv, Tables

LEMMA StepIInv == IInv /\ [Next]_vars => IInv'
<1> SUFFICES ASSUME IInv, [Next]_vars PROVE IInv'
  OBVIOUS
<1>1. ASSUME NEW c \in Call, Work(c) PROVE IInv'
  <2>1. CASE DeadlockVictim(c)
    <3>1. InTransaction(c)
      BY <2>1 DEF DeadlockVictim, WaitsFor, Inserting, InTransaction
    <3> QED
      BY <2>1, <3>1, AbortIInv DEF DeadlockVictim, Failed
  <2> QED
    BY <1>1, <2>1, ResolveIInv, WriteIInv, PassIdIInv, LoseRaceIInv, IdsDoneIInv,
       CommitIInv DEF Work
<1>2. ASSUME NEW c \in Call, Fails(c) PROVE IInv'
  BY <1>2, AbortIInv DEF Fails, Failed
<1>3. CASE UNCHANGED vars
  <2>1. TypeOK' /\ Tables'
    BY <1>3 DEF vars, IInv, TypeOK, Tables, PendingIsExclusive, OwnerExists,
       RowHasCommitted, NoOrphanRow
  <2>2. ASSUME NEW c \in Call PROVE Local(c)'
    BY <1>3, LocalStays DEF vars, IInv, Rests, Grows
  <2> QED
    BY <2>1, <2>2 DEF IInv
<1> QED
  BY <1>1, <1>2, <1>3 DEF Next

LEMMA Invariance == Spec => []IInv
BY InitIInv, StepIInv, PTL DEF Spec

-----------------------------------------------------------------------------

\* The tables, the calls and their open transactions keep their types.
THEOREM TypeCorrect == Spec => []TypeOK
<1>1. IInv => TypeOK
  BY DEF IInv
<1> QED
  BY <1>1, Invariance, PTL

\* The two inserts of a create stand or fall together.
THEOREM NoOrphans == Spec => []NoOrphanRow
<1>1. IInv => NoOrphanRow
  BY DEF IInv, Tables
<1> QED
  BY <1>1, Invariance, PTL

\* The row a successful call returns has every pair of its payload.
THEOREM SuccessOwnsIds == Spec => []SuccessOwnsItsIds
<1>1. IInv => SuccessOwnsItsIds
  BY DEF IInv, Local, Outcome, SuccessOwnsItsIds
<1> QED
  BY <1>1, Invariance, PTL

\* A call that lost a race never creates a second row for the same pairs.
THEOREM RetriesNeverCreate == Spec => []RetryNeverCreates
<1>1. IInv => RetryNeverCreates
  BY DEF IInv, Local, Outcome, RetryNeverCreates
<1> QED
  BY <1>1, Invariance, PTL

\* No attempt of a call that failed has left a row or a pair.
THEOREM FailuresLeaveNothing == Spec => []FailureLeavesNothing
<1>1. ASSUME IInv PROVE FailureLeavesNothing
  <2> SUFFICES ASSUME NEW c \in Call, pc[c] \in Failed, NEW n \in 1..MaxAttempts
               PROVE  row[<<c, n>>] = None /\ \A e \in ExtId : owner[e] # <<c, n>>
    BY DEF FailureLeavesNothing
  <2>1. pc[c] # "ok" /\ <<c, n>> \in Row /\ <<c, n>> # None
    BY MarksAreDistinct DEF Failed, Row
  <2>2. row[<<c, n>>] = None
    BY <1>1, <2>1 DEF IInv, Tables, RowHasCommitted
  <2> QED
    BY <1>1, <2>1, <2>2 DEF IInv, Tables, OwnerExists
<1> QED
  BY <1>1, Invariance, PTL

\* No step moves a committed pair to another row or changes a protected column.
THEOREM IdentityIsStable == Spec => IdentityNeverChanges
<1>1. ASSUME IInv, [Next]_vars PROVE Grows
  <2>1. CASE UNCHANGED <<row, owner>>
    BY <2>1 DEF Grows
  <2>2. ASSUME NEW c \in Call, Commit(c) PROVE Grows
    BY <1>1, <2>2, CommitIInv
  <2> QED
    BY <1>1, <2>1, <2>2 DEF Next, Work, vars, Resolve, Check, InsertRow, UpdateRow,
       SkipSeenId, InsertId, LoseRace, IdsDone, DeadlockVictim, Fails, Abort, Retry
<1>2. IInv /\ [Next]_vars =>
        [/\ \A e \in ExtId : owner[e] # None => owner'[e] = owner[e]
         /\ \A r \in Row : row[r] # None => row'[r] = row[r]]_vars
  BY <1>1 DEF Grows
<1> QED
  BY <1>2, Invariance, PTL DEF Spec, IdentityNeverChanges

=============================================================================
