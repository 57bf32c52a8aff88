-------------------------- MODULE ReviewLockProofs --------------------------
(***************************************************************************)
(* The review lock excludes, for every set of sessions and any number of   *)
(* faults, until a mutex is cleared under a process that is alive.         *)
(*                                                                         *)
(* The argument has two levels.  The mutex names the one session inside    *)
(* mutate(), so what that session read is what the file says when it       *)
(* replaces it; and a change computed from the file as it is takes the     *)
(* lock from nobody who kept the heartbeat.  Types are kept as weak as     *)
(* that needs: a state is a record, whatever its queue is.  The queue      *)
(* comes after that: what Without makes of one, by induction, and so that  *)
(* its tickets are distinct and keep their order.                          *)
(***************************************************************************)
EXTENDS ReviewLock, Counting, TLAPS

IsState(x) == x = [holder |-> x.holder, queue |-> x.queue]

Types ==
  /\ IsState(file)
  /\ DOMAIN copy = Session /\ copy = [s \in Session |-> copy[s]]
  /\ \A s \in Session : IsState(copy[s])
  /\ pc \in [Session -> Place]
  /\ op \in [Session -> {"none", "acquire", "heartbeat", "release", "broken"}]
  /\ won \in [Session -> BOOLEAN]
  /\ mutex \in Session \cup {None}
  /\ held \subseteq Session
  /\ intruded \in BOOLEAN

\* The mutex belongs to the session inside.
InsideOwnsMutex == ~intruded => \A s \in Session : Inside(s) => mutex = s

\* What a session is about to change is what the file says.
CopyIsCurrent == ~intruded => \A s \in Session : pc[s] = "write" => copy[s] = file

\* A session about to answer "yes" is the holder on file.
AnswerIsTrue ==
  ~intruded => \A s \in Session :
    pc[s] = "unlock" /\ won[s] /\ s \notin silent => file.holder = s

\* A session relies on the lock between commands only.
HeldIsIdle == \A s \in held : pc[s] = "idle"

IInv ==
  /\ Types
  /\ InsideOwnsMutex
  /\ CopyIsCurrent
  /\ AnswerIsTrue
  /\ HoldersAgree
  /\ HeldIsIdle

-----------------------------------------------------------------------------
(* The policy, as functions of the state.                                    *)

\* The caller that wins is the holder afterwards.
LEMMA WinnerHolds ==
  ASSUME NEW x, IsState(x), NEW s \in Session, Wins(x, s)
  PROVE  Acquired(x, s).holder = s
<1>1. CASE x.holder = s
  BY <1>1 DEF Acquired
<1>2. CASE x.holder # s
  BY <1>2 DEF Acquired
<1> QED
  BY <1>1, <1>2

\* An acquire leaves the lock with a holder that kept its heartbeat.
LEMMA AcquireRespectsHolder ==
  ASSUME NEW x, IsState(x), NEW s \in Session, NEW t \in Session,
         x.holder = s, s \notin silent, s # t
  PROVE  Acquired(x, t).holder = s
<1>1. ~Wins(x, t)
  BY NoneIsNoSession DEF Wins, IsFree
<1>2. Acquired(x, t) = [x EXCEPT !.queue = LiveQueue(x.queue, t)]
  BY <1>1 DEF Acquired
<1>3. x = [holder |-> x.holder, queue |-> x.queue]
  BY DEF IsState
<1> QED
  BY <1>2, <1>3

\* A release leaves the lock with any other holder.
LEMMA ReleaseRespectsHolder ==
  ASSUME NEW x, IsState(x), NEW s \in Session, NEW t \in Session,
         x.holder = s, s # t
  PROVE  Released(x, t).holder = s
  BY DEF Released, IsState

\* Both make states of states.
LEMMA PolicyMakesStates ==
  ASSUME NEW x, IsState(x), NEW s \in Session
  PROVE  IsState(Acquired(x, s)) /\ IsState(Released(x, s))
<1>1. IsState(Acquired(x, s))
  <2> DEFINE q == LiveQueue(x.queue, s)
  <2>1. Acquired(x, s) \in {x, [holder |-> s, queue |-> Tail(q)], [x EXCEPT !.queue = q]}
    BY DEF Acquired
  <2> HIDE DEF q
  <2>2. IsState([holder |-> s, queue |-> Tail(q)]) /\ IsState([x EXCEPT !.queue = q])
    BY DEF IsState
  <2> QED
    BY <2>1, <2>2
<1>2. IsState(Released(x, s))
  <2> DEFINE q == Without(x.queue, {s})
  <2>1. Released(x, s) \in {[x EXCEPT !.holder = None], [x EXCEPT !.queue = q]}
    BY DEF Released
  <2> HIDE DEF q
  <2>2. IsState([x EXCEPT !.holder = None]) /\ IsState([x EXCEPT !.queue = q])
    BY DEF IsState
  <2> QED
    BY <2>1, <2>2
<1> QED
  BY <1>1, <1>2

-----------------------------------------------------------------------------
(* The commands.                                                             *)

LEMMA InitIInv == Init => IInv
<1> SUFFICES ASSUME Init PROVE IInv
  OBVIOUS
<1>1. Types
  BY DEF Init, Types, IsState, Empty, Place
<1>2. InsideOwnsMutex /\ CopyIsCurrent /\ AnswerIsTrue /\ HoldersAgree /\ HeldIsIdle
  BY DEF Init, InsideOwnsMutex, Inside, CopyIsCurrent, AnswerIsTrue, HoldersAgree, HeldIsIdle
<1> QED
  BY <1>1, <1>2 DEF IInv


\* Replacing the file keeps the invariant if the answer is true of the new file
\* and no holder that kept its heartbeat loses the lock.
LEMMA ReplacesIInv ==
  ASSUME IInv, NEW s \in Session, NEW b \in BOOLEAN, Replaces(s),
         IsState(file'),
         won' = [won EXCEPT ![s] = b],
         silent' \in {silent, silent \ {s}},
         ~intruded /\ b => file'.holder = s,
         ~intruded => \A t \in held \ silent : file'.holder = t
  PROVE  IInv'
<1> USE DEF IInv, Types, Replaces, Goto
<1>1. Types'
  BY DEF Place, IsState, Empty
<1>2. InsideOwnsMutex' /\ HeldIsIdle'
  BY DEF InsideOwnsMutex, Inside, HeldIsIdle
<1>3. ~intruded => \A t \in Session : Inside(t) => t = s
  BY DEF InsideOwnsMutex, Inside
<1>4. CopyIsCurrent' /\ AnswerIsTrue'
  BY <1>3 DEF CopyIsCurrent, AnswerIsTrue, Inside
<1>5. HoldersAgree'
  BY DEF HoldersAgree, HeldIsIdle
<1> QED
  BY <1>1, <1>2, <1>4, <1>5

LEMMA WriteIInv ==
  ASSUME IInv, NEW s \in Session, Write(s)
  PROVE  IInv'
<1> USE DEF IInv, Types
<1>1. IsState(copy[s]) /\ IsState(file)
  OBVIOUS
<1>2. ~intruded => copy[s] = file
  BY DEF Write, WriteAcquire, WriteHeartbeat, WriteRelease, Replaces, CopyIsCurrent
<1>3. ~intruded => \A t \in held \ silent : copy[s].holder = t /\ t # s /\ t \in Session
  BY <1>2 DEF Write, WriteAcquire, WriteHeartbeat, WriteRelease, Replaces,
              HoldersAgree, HeldIsIdle
<1>4. CASE WriteAcquire(s)
  <2>1. Wins(copy[s], s) \in BOOLEAN
    BY DEF Wins
  <2>2. IsState(file') /\ (Wins(copy[s], s) => file'.holder = s)
    BY <1>1, <1>4, PolicyMakesStates, WinnerHolds DEF WriteAcquire
  <2>3. ~intruded => \A t \in held \ silent : file'.holder = t
    BY <1>1, <1>3, <1>4, AcquireRespectsHolder DEF WriteAcquire
  <2> QED
    BY <1>4, <2>1, <2>2, <2>3, ReplacesIInv DEF WriteAcquire
<1>5. CASE WriteHeartbeat(s)
  <2>1. IsState(file') /\ ~intruded => \A t \in held \ silent : file'.holder = t
    BY <1>1, <1>3, <1>5 DEF WriteHeartbeat
  <2>2. (copy[s].holder = s) \in BOOLEAN /\ (copy[s].holder = s => file'.holder = s)
    BY <1>5 DEF WriteHeartbeat
  <2>3. IsState(file')
    BY <1>1, <1>5 DEF WriteHeartbeat
  <2> QED
    BY <1>5, <2>1, <2>2, <2>3, ReplacesIInv DEF WriteHeartbeat
<1>6. CASE WriteRelease(s)
  <2>1. IsState(file')
    BY <1>1, <1>6, PolicyMakesStates DEF WriteRelease
  <2>2. ~intruded => \A t \in held \ silent : file'.holder = t
    BY <1>1, <1>3, <1>6, ReleaseRespectsHolder DEF WriteRelease
  <2> QED
    BY <1>6, <2>1, <2>2, ReplacesIInv DEF WriteRelease
<1> QED
  BY <1>4, <1>5, <1>6 DEF Write

LEMMA StepIInv == IInv /\ [Next]_vars => IInv'
<1> SUFFICES ASSUME IInv, [Next]_vars PROVE IInv'
  OBVIOUS
<1> USE NoneIsNoSession
     DEF IInv, Types, InsideOwnsMutex, CopyIsCurrent, AnswerIsTrue, HoldersAgree,
         HeldIsIdle, Inside, Place, Goto, Ended
<1>1. ASSUME NEW s \in Session, TryCreate(s) PROVE IInv'
  BY <1>1 DEF TryCreate, Creatable
<1>2. ASSUME NEW s \in Session, Stat(s) PROVE IInv'
  BY <1>2 DEF Stat
<1>3. ASSUME NEW s \in Session, Clear(s) PROVE IInv'
  BY <1>3 DEF Clear
<1>4. ASSUME NEW s \in Session, Read(s) PROVE IInv'
  BY <1>4 DEF Read
<1>5. ASSUME NEW s \in Session, Write(s) PROVE IInv'
  BY <1>5, WriteIInv
<1>6. ASSUME NEW s \in Session, Unlock(s) PROVE IInv'
  BY <1>6 DEF Unlock
<1>7. ASSUME NEW s \in Session, Acquire(s) \/ Heartbeat(s) \/ Release(s) \/ Poll(s)
      PROVE  IInv'
  BY <1>7 DEF Acquire, Heartbeat, Release, Poll, Begin
<1>8. ASSUME NEW s \in Session, TimesOut(s) PROVE IInv'
  BY <1>8 DEF TimesOut
<1>9. ASSUME NEW s \in Session, WriteFails(s) PROVE IInv'
  BY <1>9 DEF WriteFails, Empty, IsState
<1>10. ASSUME NEW s \in Session, Dies(s) PROVE IInv'
  BY <1>10 DEF Dies, Empty, IsState
<1>11. ASSUME NEW s \in Session, WaitsLong(s) \/ FallsSilent(s) PROVE IInv'
  BY <1>11 DEF WaitsLong, FallsSilent
<1>12. CASE GrowsOld
  BY <1>12 DEF GrowsOld
<1>13. CASE UNCHANGED vars
  BY <1>13 DEF vars
<1> QED
  BY <1>1, <1>2, <1>3, <1>4, <1>5, <1>6, <1>7, <1>8, <1>9, <1>10, <1>11, <1>12, <1>13
     DEF Next, Command, Caller, Trouble

LEMMA Invariance == Spec => []IInv
BY InitIInv, StepIInv, PTL DEF Spec

-----------------------------------------------------------------------------

\* mutate() excludes: until a mutex is cleared under a live process, at most one
\* session is between lockMutex() and unlockMutex().
THEOREM Exclusion == Spec => []OneAtATime
<1>1. IInv => OneAtATime
  BY DEF IInv, InsideOwnsMutex, OneAtATime
<1> QED
  BY <1>1, Invariance, PTL

\* acquire() and heartbeat() answer truly, and the answer lasts: until then, a
\* session that was told it holds the lock and kept its heartbeat is the holder.
THEOREM AnswersLast == Spec => []HoldersAgree
<1>1. IInv => HoldersAgree
  BY DEF IInv
<1> QED
  BY <1>1, Invariance, PTL

-----------------------------------------------------------------------------
(* The queue: what Without computes.                                         *)

\* f is built up to n as Without builds its result.
Builds(f, n, queue, gone) ==
  f = [i \in 0..n |->
         IF i = 0 THEN <<>>
         ELSE IF queue[i] \in gone THEN f[i - 1]
         ELSE Append(f[i - 1], queue[i])]

LEMMA WithoutIsBuilt ==
  ASSUME NEW S, NEW queue \in Seq(S), NEW gone
  PROVE  \E f : Builds(f, Len(queue), queue, gone) /\ Without(queue, gone) = f[Len(queue)]
<1> DEFINE P == {n \in Nat : \E f : Builds(f, n, queue, gone)}
<1>1. 0 \in P
  <2>1. Builds([i \in 0..0 |-> <<>>], 0, queue, gone)
    BY DEF Builds
  <2> QED
    BY <2>1
<1>2. ASSUME NEW n \in Nat, n \in P PROVE n + 1 \in P
  <2>1. PICK f : Builds(f, n, queue, gone)
    BY <1>2
  <2> DEFINE e == IF queue[n + 1] \in gone THEN f[n] ELSE Append(f[n], queue[n + 1])
             g == [i \in 0..(n + 1) |-> IF i = n + 1 THEN e ELSE f[i]]
  <2>2. \A i \in 0..n : f[i] = IF i = 0 THEN <<>>
                               ELSE IF queue[i] \in gone THEN f[i - 1]
                               ELSE Append(f[i - 1], queue[i])
    BY <2>1 DEF Builds
  <2>3. \A i \in 0..n : g[i] = f[i]
    OBVIOUS
  <2>4. g[n + 1] = e
    OBVIOUS
  <2>5. \A i \in 0..(n + 1) : g[i] = IF i = 0 THEN <<>>
                                     ELSE IF queue[i] \in gone THEN g[i - 1]
                                     ELSE Append(g[i - 1], queue[i])
    <3> SUFFICES ASSUME NEW i \in 0..(n + 1)
                 PROVE  g[i] = IF i = 0 THEN <<>>
                               ELSE IF queue[i] \in gone THEN g[i - 1]
                               ELSE Append(g[i - 1], queue[i])
      OBVIOUS
    <3>1. CASE i = n + 1
      <4>1. g[i - 1] = f[n] /\ i # 0
        BY <2>3, <3>1
      <4> QED
        BY <2>4, <3>1, <4>1
    <3>2. CASE i # n + 1
      <4>1. i \in 0..n /\ (i # 0 => i - 1 \in 0..n)
        BY <3>2
      <4> QED
        BY <2>2, <2>3, <4>1
    <3> QED
      BY <3>1, <3>2
  <2>6. g = [i \in 0..(n + 1) |-> g[i]]
    OBVIOUS
  <2> HIDE DEF g
  <2>7. Builds(g, n + 1, queue, gone)
    BY <2>5, <2>6 DEF Builds
  <2> QED
    BY <2>7
<1>3. Nat \subseteq P
  <2> HIDE DEF P
  <2> QED
    BY <1>1, <1>2, NatSetInduction
<1>4. Len(queue) \in Nat
  OBVIOUS
<1>5. PICK f : Builds(f, Len(queue), queue, gone)
  BY <1>3, <1>4
<1> DEFINE left[n \in 0..Len(queue)] ==
        IF n = 0 THEN <<>>
        ELSE IF queue[n] \in gone THEN left[n - 1]
        ELSE Append(left[n - 1], queue[n])
<1>6. left = CHOOSE g : Builds(g, Len(queue), queue, gone)
  BY DEF Builds
<1>7. Without(queue, gone) = left[Len(queue)]
  BY DEF Without
<1> HIDE DEF left
<1>8. Builds(left, Len(queue), queue, gone)
  BY <1>5, <1>6
<1> QED
  BY <1>7, <1>8

\* left is what remains of the first n tickets: h says which they are.
Remains(h, left, n, queue, gone) ==
  /\ h \in [1..Len(left) -> 1..n]
  /\ \A i, j \in 1..Len(left) : i < j => h[i] < h[j]
  /\ \A i \in 1..Len(left) : left[i] = queue[h[i]] /\ queue[h[i]] \notin gone
  /\ \A k \in 1..n : queue[k] \notin gone => \E i \in 1..Len(left) : h[i] = k

\* Who remains is whoever is not gone, in the order of the queue.
LEMMA WithoutKeepsTheOrder ==
  ASSUME NEW S, NEW queue \in Seq(S), NEW gone
  PROVE  /\ Without(queue, gone) \in Seq(S)
         /\ \E h : Remains(h, Without(queue, gone), Len(queue), queue, gone)
<1>1. PICK f : Builds(f, Len(queue), queue, gone) /\ Without(queue, gone) = f[Len(queue)]
  BY WithoutIsBuilt
<1>2. \A i \in 0..Len(queue) : f[i] = IF i = 0 THEN <<>>
                                      ELSE IF queue[i] \in gone THEN f[i - 1]
                                      ELSE Append(f[i - 1], queue[i])
  BY <1>1 DEF Builds
<1> DEFINE P == {n \in Nat : n <= Len(queue) =>
                   f[n] \in Seq(S) /\ \E h : Remains(h, f[n], n, queue, gone)}
<1>3. 0 \in P
  <2>1. f[0] = <<>>
    BY <1>2
  <2>2. Remains([i \in 1..0 |-> 0], f[0], 0, queue, gone)
    BY <2>1 DEF Remains
  <2>3. (\E h : Remains(h, f[0], 0, queue, gone)) /\ f[0] \in Seq(S)
    BY <2>1, <2>2
  <2> QED
    BY <2>3
<1>4. ASSUME NEW n \in Nat, n \in P PROVE n + 1 \in P
  <2> SUFFICES ASSUME n + 1 <= Len(queue)
               PROVE  /\ f[n + 1] \in Seq(S)
                      /\ \E h : Remains(h, f[n + 1], n + 1, queue, gone)
    OBVIOUS
  <2>1. PICK h : Remains(h, f[n], n, queue, gone)
    BY <1>4
  <2>2. f[n] \in Seq(S) /\ Len(f[n]) \in Nat /\ n + 1 \in 1..Len(queue) /\ queue[n + 1] \in S
    BY <1>4
  <2>3. CASE queue[n + 1] \in gone
    <3>1. f[n + 1] = f[n]
      BY <1>2, <2>2, <2>3
    <3>2. Remains(h, f[n], n + 1, queue, gone)
      BY <2>1, <2>2, <2>3 DEF Remains
    <3> QED
      BY <2>2, <3>1, <3>2
  <2>4. CASE queue[n + 1] \notin gone
    <3> DEFINE m == Len(f[n]) + 1
               left == f[n + 1]
               g == [i \in 1..m |-> IF i = m THEN n + 1 ELSE h[i]]
    <3>1. left = Append(f[n], queue[n + 1])
      <4>1. n + 1 \in 0..Len(queue) /\ n + 1 # 0 /\ (n + 1) - 1 = n
        BY <2>2
      <4> QED
        BY <1>2, <2>4, <4>1
    <3>2. /\ left \in Seq(S) /\ Len(left) = m /\ m \in Nat
          /\ left[m] = queue[n + 1]
          /\ \A i \in 1..m : i # m => i \in 1..Len(f[n]) /\ left[i] = f[n][i]
      BY <2>2, <3>1
    <3> HIDE DEF left
    <3>3. /\ g \in [1..m -> 1..(n + 1)]
          /\ \A i, j \in 1..m : i < j => g[i] < g[j]
      <4>1. m \in Nat /\ m \in 1..m /\ \A i \in 1..m : i # m => i \in 1..Len(f[n])
        BY <2>2
      <4>2. /\ g[m] = n + 1
            /\ \A i \in 1..m : i # m => g[i] = h[i]
        BY <4>1
      <4>3. \A i \in 1..Len(f[n]) : h[i] \in 1..n
        BY <2>1 DEF Remains
      <4>4. \A i \in 1..m : g[i] \in 1..(n + 1)
        BY <4>1, <4>2, <4>3
      <4>5. g \in [1..m -> 1..(n + 1)]
        BY <4>4
      <4>6. ASSUME NEW i \in 1..m, NEW j \in 1..m, i < j PROVE g[i] < g[j]
        <5>1. i # m /\ i \in 1..Len(f[n]) /\ g[i] = h[i]
          BY <4>1, <4>2, <4>6
        <5>2. CASE j = m
          BY <4>2, <4>3, <5>1, <5>2
        <5>3. CASE j # m
          <6>1. j \in 1..Len(f[n]) /\ g[j] = h[j]
            BY <4>1, <4>2, <5>3
          <6> QED
            BY <2>1, <4>6, <5>1, <6>1 DEF Remains
        <5> QED
          BY <5>2, <5>3
      <4> QED
        BY <4>5, <4>6
    <3>4. \A i \in 1..m : left[i] = queue[g[i]] /\ queue[g[i]] \notin gone
      BY <2>1, <2>4, <3>2 DEF Remains
    <3>5. ASSUME NEW k \in 1..(n + 1), queue[k] \notin gone PROVE \E i \in 1..m : g[i] = k
      <4>1. CASE k = n + 1
        <5>1. m \in 1..m
          BY <2>2
        <5>2. g[m] = k
          BY <4>1, <5>1
        <5> QED
          BY <5>1, <5>2, Zenon
      <4>2. CASE k \in 1..n
        <5>1. PICK i \in 1..Len(f[n]) : h[i] = k
          BY <2>1, <3>5, <4>2 DEF Remains
        <5>2. i \in 1..m /\ i # m
          BY <2>2, <5>1
        <5>3. g[i] = k
          BY <5>1, <5>2, Zenon
        <5> QED
          BY <5>2, <5>3
      <4>3. k = n + 1 \/ k \in 1..n
        OBVIOUS
      <4> QED
        BY <4>1, <4>2, <4>3, Zenon
    <3>6. Remains(g, left, n + 1, queue, gone)
      BY <3>2, <3>3, <3>4, <3>5 DEF Remains
    <3> QED
      BY <3>2, <3>6 DEF left
  <2> QED
    BY <2>3, <2>4
<1>5. Nat \subseteq P
  <2> HIDE DEF P
  <2> QED
    BY <1>3, <1>4, NatSetInduction
<1> QED
  BY <1>1, <1>5

-----------------------------------------------------------------------------
(* The policy keeps the queue sound and in order.                            *)

Distinct(queue) == \A i, j \in 1..Len(queue) : queue[i] = queue[j] => i = j

\* TicketsAreSound of any state, with its type.
Sound(x) ==
  /\ x \in State
  /\ Distinct(x.queue)
  /\ \A i \in 1..Len(x.queue) : x.queue[i] # x.holder

\* later names tickets in the order that queue has them in.
InOrder(later, queue) ==
  \A i, j \in 1..Len(later) : i < j =>
    \A k, l \in 1..Len(queue) : queue[k] = later[i] /\ queue[l] = later[j] => k < l

\* left has every ticket of queue but those of sessions that are gone.
Kept(left, queue, gone) ==
  /\ left \in Seq(Session) /\ Distinct(left)
  /\ \A i \in 1..Len(left) : \E k \in 1..Len(queue) : left[i] = queue[k]
  /\ \A i \in 1..Len(left) : left[i] \notin gone
  /\ InOrder(left, queue)
  /\ \A k \in 1..Len(queue) : queue[k] \notin gone => \E i \in 1..Len(left) : left[i] = queue[k]

LEMMA WithoutIsSound ==
  ASSUME NEW queue \in Seq(Session), Distinct(queue), NEW gone
  PROVE  Kept(Without(queue, gone), queue, gone)
<1> DEFINE left == Without(queue, gone)
<1>1. left \in Seq(Session)
  BY WithoutKeepsTheOrder
<1>2. PICK h : Remains(h, left, Len(queue), queue, gone)
  BY WithoutKeepsTheOrder
<1> HIDE DEF left
<1>3. /\ \A i \in 1..Len(left) : h[i] \in 1..Len(queue) /\ left[i] = queue[h[i]]
      /\ \A i, j \in 1..Len(left) : i < j => h[i] < h[j]
      /\ \A i \in 1..Len(left) : left[i] \notin gone
      /\ \A k \in 1..Len(queue) : queue[k] \notin gone => \E i \in 1..Len(left) : h[i] = k
  BY <1>2 DEF Remains
<1>4. Len(left) \in Nat /\ Len(queue) \in Nat
  BY <1>1
<1>5. \A i, j \in 1..Len(left) : left[i] = left[j] => i = j
  <2> SUFFICES ASSUME NEW i \in 1..Len(left), NEW j \in 1..Len(left), left[i] = left[j]
               PROVE  i = j
    OBVIOUS
  <2>1. h[i] = h[j]
    BY <1>3 DEF Distinct
  <2>2. ~(i < j) /\ ~(j < i)
    BY <1>3, <1>4, <2>1
  <2> QED
    BY <1>4, <2>2
<1>6. InOrder(left, queue)
  BY <1>3, SMTT(30) DEF Distinct, InOrder
<1>7. \A k \in 1..Len(queue) : queue[k] \notin gone => \E i \in 1..Len(left) : left[i] = queue[k]
  BY <1>3
<1> QED
  BY <1>1, <1>3, <1>5, <1>6, <1>7 DEF left, Kept, Distinct

LEMMA LiveQueueIsSound ==
  ASSUME NEW queue \in Seq(Session), Distinct(queue), NEW s \in Session
  PROVE  LET live == LiveQueue(queue, s)
         IN /\ live \in Seq(Session) /\ live # <<>> /\ Distinct(live)
            /\ \A i \in 1..Len(live) : live[i] = s \/ \E k \in 1..Len(queue) : live[i] = queue[k]
            /\ InOrder(live, queue)
            /\ Head(live) = s => \A i \in 1..Len(queue) :
                 queue[i] \in silent \cup {s} \/ \E j \in 1..(i - 1) : queue[j] = s
<1> DEFINE withSelf == IF \E i \in 1..Len(queue) : queue[i] = s THEN queue ELSE Append(queue, s)
           gone == silent \ {s}
           live == Without(withSelf, gone)
<1>1. live = LiveQueue(queue, s)
  BY DEF LiveQueue
\* The queue with the caller's own ticket.
<1>2. /\ withSelf \in Seq(Session) /\ Len(queue) <= Len(withSelf)
      /\ \A i \in 1..Len(queue) : i \in 1..Len(withSelf) /\ withSelf[i] = queue[i]
      /\ \A i \in 1..Len(withSelf) : i \in 1..Len(queue) \/ withSelf[i] = s
      /\ \E i \in 1..Len(withSelf) : withSelf[i] = s
      /\ Distinct(withSelf)
  <2>1. CASE \E i \in 1..Len(queue) : queue[i] = s
    BY <2>1
  <2>2. CASE ~\E i \in 1..Len(queue) : queue[i] = s
    <3>1. withSelf = Append(queue, s)
      BY <2>2
    <3>2. /\ withSelf \in Seq(Session) /\ Len(withSelf) = Len(queue) + 1
          /\ Len(queue) \in Nat /\ withSelf[Len(queue) + 1] = s
          /\ \A i \in 1..Len(queue) : withSelf[i] = queue[i]
      BY <3>1
    <3> HIDE DEF withSelf
    <3>3. \A i \in 1..Len(withSelf) : i \in 1..Len(queue) \/ i = Len(queue) + 1
      BY <3>2
    <3>4. Distinct(withSelf)
      BY <2>2, <3>2, <3>3 DEF Distinct
    <3>5. Len(queue) + 1 \in 1..Len(withSelf) /\ \A i \in 1..Len(queue) : i \in 1..Len(withSelf)
      BY <3>2
    <3> QED
      BY <3>2, <3>3, <3>4, <3>5
  <2> QED
    BY <2>1, <2>2
<1>3. live = Without(withSelf, gone)
  OBVIOUS
<1> HIDE DEF withSelf, live
<1>4. Kept(live, withSelf, gone)
  BY <1>2, <1>3, WithoutIsSound
<1>5. /\ live \in Seq(Session) /\ Distinct(live)
      /\ \A i \in 1..Len(live) : \E k \in 1..Len(withSelf) : live[i] = withSelf[k]
      /\ InOrder(live, withSelf)
      /\ \A k \in 1..Len(withSelf) : withSelf[k] \notin gone =>
           \E i \in 1..Len(live) : live[i] = withSelf[k]
  BY <1>4 DEF Kept
<1>6. \A i \in 1..Len(live) : live[i] = s \/ \E k \in 1..Len(queue) : live[i] = queue[k]
  BY <1>2, <1>5
<1>7. InOrder(live, queue)
  BY <1>2, <1>5 DEF InOrder
<1>8. live # <<>>
  <2>1. PICK i \in 1..Len(live) : live[i] = s
    BY <1>2, <1>5
  <2> QED
    BY <2>1
<1>9. ASSUME Head(live) = s, NEW i \in 1..Len(queue), queue[i] \notin silent \cup {s}
      PROVE  \E j \in 1..(i - 1) : queue[j] = s
  <2>1. withSelf[i] = queue[i] /\ i \in 1..Len(withSelf) /\ withSelf[i] \notin gone
    BY <1>2, <1>9
  <2>2. PICK a \in 1..Len(live) : live[a] = withSelf[i]
    BY <1>5, <2>1
  <2>3. live[1] = s /\ 1 \in 1..Len(live) /\ 1 < a
    <3>1. Len(live) \in Nat /\ Len(live) > 0 /\ live[1] = s
      BY <1>5, <1>8, <1>9
    <3> QED
      BY <1>9, <2>1, <2>2, <3>1
  <2>4. PICK j \in 1..Len(withSelf) : withSelf[j] = s
    BY <1>2
  <2>5. j < i
    BY <1>5, <2>1, <2>2, <2>3, <2>4 DEF InOrder
  <2> QED
    BY <1>2, <2>4, <2>5
<1> QED
  BY <1>1, <1>5, <1>6, <1>7, <1>8, <1>9

\* tryAcquire() keeps the state sound and the order; whoever it gives the lock
\* has only stale tickets before it.
LEMMA AcquiredIsSound ==
  ASSUME NEW x, Sound(x), NEW s \in Session
  PROVE  /\ Sound(Acquired(x, s))
         /\ InOrder(Acquired(x, s).queue, x.queue)
         /\ \A t \in Session : t # x.holder /\ Acquired(x, s).holder = t =>
              \A i \in 1..Len(x.queue) :
                x.queue[i] \in silent \cup {t} \/ \E j \in 1..(i - 1) : x.queue[j] = t
<1> DEFINE live == LiveQueue(x.queue, s)
<1>1. /\ x \in State /\ x.queue \in Seq(Session) /\ x.holder \in Session \cup {None}
      /\ Distinct(x.queue) /\ x = [holder |-> x.holder, queue |-> x.queue]
      /\ \A i \in 1..Len(x.queue) : x.queue[i] # x.holder
  BY DEF Sound, State
<1>2. InOrder(x.queue, x.queue)
  BY <1>1 DEF InOrder, Distinct
<1>3. /\ live \in Seq(Session) /\ live # <<>> /\ Distinct(live)
      /\ \A i \in 1..Len(live) : live[i] = s \/ \E k \in 1..Len(x.queue) : live[i] = x.queue[k]
      /\ InOrder(live, x.queue)
      /\ Head(live) = s => \A i \in 1..Len(x.queue) :
           x.queue[i] \in silent \cup {s} \/ \E j \in 1..(i - 1) : x.queue[j] = s
  BY <1>1, LiveQueueIsSound
<1>4. CASE x.holder = s
  BY <1>1, <1>2, <1>4 DEF Acquired
<1>5. CASE x.holder # s /\ Wins(x, s)
  <2>1. Acquired(x, s) = [holder |-> s, queue |-> Tail(live)] /\ Head(live) = s
    BY <1>5 DEF Acquired, Wins
  <2> HIDE DEF live
  <2>2. /\ Tail(live) \in Seq(Session) /\ Len(Tail(live)) = Len(live) - 1 /\ Len(live) \in Nat \ {0}
        /\ \A i \in 1..Len(Tail(live)) : i + 1 \in 1..Len(live) /\ Tail(live)[i] = live[i + 1]
        /\ live[1] = s /\ 1 \in 1..Len(live)
    BY <1>3, <2>1
  <2>3. Distinct(Tail(live)) /\ \A i \in 1..Len(Tail(live)) : Tail(live)[i] # s
    BY <1>3, <2>2 DEF Distinct
  <2>4. InOrder(Tail(live), x.queue)
    BY <1>3, <2>2 DEF InOrder
  <2>5. Sound(Acquired(x, s))
    BY <2>1, <2>2, <2>3 DEF Sound, State
  <2> QED
    BY <1>3, <2>1, <2>4, <2>5
<1>6. CASE x.holder # s /\ ~Wins(x, s)
  <2>1. Acquired(x, s) = [holder |-> x.holder, queue |-> live]
    BY <1>1, <1>6 DEF Acquired
  <2> HIDE DEF live
  <2>2. Sound(Acquired(x, s))
    BY <1>1, <1>3, <1>6, <2>1 DEF Sound, State
  <2> QED
    BY <1>3, <2>1, <2>2
<1> QED
  BY <1>4, <1>5, <1>6

\* releaseFrom() keeps them too, and gives the lock to nobody.
LEMMA ReleasedIsSound ==
  ASSUME NEW x, Sound(x), NEW s \in Session
  PROVE  /\ Sound(Released(x, s))
         /\ InOrder(Released(x, s).queue, x.queue)
         /\ Released(x, s).holder \in {x.holder, None}
<1> DEFINE left == Without(x.queue, {s})
<1>1. /\ x \in State /\ x.queue \in Seq(Session) /\ x.holder \in Session \cup {None}
      /\ Distinct(x.queue) /\ x = [holder |-> x.holder, queue |-> x.queue]
      /\ \A i \in 1..Len(x.queue) : x.queue[i] # x.holder /\ x.queue[i] \in Session
  BY DEF Sound, State
<1>2. CASE x.holder = s
  <2>1. Released(x, s) = [holder |-> None, queue |-> x.queue]
    BY <1>1, <1>2 DEF Released
  <2> QED
    BY <1>1, <2>1, NoneIsNoSession DEF Sound, State, InOrder, Distinct
<1>3. CASE x.holder # s
  <2>1. Released(x, s) = [holder |-> x.holder, queue |-> left]
    BY <1>1, <1>3 DEF Released
  <2>2. left = Without(x.queue, {s})
    OBVIOUS
  <2> HIDE DEF left
  <2>3. /\ left \in Seq(Session) /\ Distinct(left) /\ InOrder(left, x.queue)
        /\ \A i \in 1..Len(left) : \E k \in 1..Len(x.queue) : left[i] = x.queue[k]
    <3>1. Kept(left, x.queue, {s})
      BY <1>1, <2>2, WithoutIsSound
    <3> QED
      BY <3>1 DEF Kept
  <2> QED
    BY <1>1, <2>1, <2>3 DEF Sound, State
<1> QED
  BY <1>2, <1>3

-----------------------------------------------------------------------------
(* The queue under the commands.                                             *)

\* What is on file, and what each session read, is sound.
QInv == TypeOK /\ \A s \in Session : Sound(copy[s])

LEMMA EmptyIsSound == Sound(Empty)
BY DEF Sound, State, Empty, Distinct

LEMMA InitQInv == Init => QInv
<1> SUFFICES ASSUME Init PROVE QInv
  OBVIOUS
<1>1. file \in State /\ TicketsAreSound /\ Sound(Empty)
  BY EmptyIsSound DEF Init, TicketsAreSound, Sound, State, Empty, Distinct
<1>2. TypeOK
  <2>1. /\ mutex \in Session \cup {None} /\ faults \in 0..MaxFaults
        /\ waited \subseteq Session /\ forced \subseteq Session
        /\ held \subseteq Session /\ silent \subseteq Session
    BY MaxFaultsIsNat DEF Init
  <2>2. old \in BOOLEAN /\ intruded \in BOOLEAN /\ won \in [Session -> BOOLEAN]
    BY DEF Init
  <2>3. /\ pc \in [Session -> Place] /\ copy \in [Session -> State]
        /\ op \in [Session -> {"none", "acquire", "heartbeat", "release", "broken"}]
    BY <1>1 DEF Init, Place, Sound
  <2> QED
    BY <1>1, <2>1, <2>2, <2>3 DEF TypeOK
<1> QED
  BY <1>1, <1>2 DEF Init, QInv

LEMMA FileIsSound == QInv => Sound(file)
BY DEF QInv, TypeOK, TicketsAreSound, Sound, Distinct

\* Replacing the file by a sound state.
LEMMA ReplacesQInv ==
  ASSUME QInv, NEW s \in Session, NEW b \in BOOLEAN, Replaces(s),
         Sound(file'),
         won' = [won EXCEPT ![s] = b],
         silent' \in {silent, silent \ {s}}
  PROVE  QInv'
<1>1. file' \in State /\ TicketsAreSound'
  BY DEF Sound, Distinct, TicketsAreSound
<1>2. /\ pc' \in [Session -> Place] /\ copy' \in [Session -> State] /\ won' \in [Session -> BOOLEAN]
      /\ silent' \subseteq Session
  BY EmptyIsSound DEF QInv, TypeOK, Replaces, Goto, Place, Sound
<1>3. TypeOK'
  BY <1>1, <1>2 DEF QInv, TypeOK, Replaces
<1>4. \A t \in Session : Sound(copy'[t])
  BY EmptyIsSound DEF QInv, TypeOK, Replaces
<1> QED
  BY <1>3, <1>4 DEF QInv

LEMMA WriteQInv ==
  ASSUME QInv, NEW s \in Session, Write(s)
  PROVE  QInv'
<1>1. Sound(copy[s])
  BY DEF QInv
<1>2. CASE WriteAcquire(s)
  <2>1. Wins(copy[s], s) \in BOOLEAN
    BY DEF Wins
  <2>2. Sound(file')
    BY <1>1, <1>2, AcquiredIsSound DEF WriteAcquire
  <2> QED
    BY <1>2, <2>1, <2>2, ReplacesQInv DEF WriteAcquire
<1>3. CASE WriteHeartbeat(s)
  BY <1>1, <1>3, ReplacesQInv DEF WriteHeartbeat
<1>4. CASE WriteRelease(s)
  <2>1. Sound(file')
    BY <1>1, <1>4, ReleasedIsSound DEF WriteRelease
  <2> QED
    BY <1>4, <2>1, ReplacesQInv DEF WriteRelease
<1> QED
  BY <1>2, <1>3, <1>4 DEF Write

LEMMA StepQInv == QInv /\ [Next]_vars => QInv'
<1> SUFFICES ASSUME QInv, [Next]_vars PROVE QInv'
  OBVIOUS
<1> USE NoneIsNoSession, MaxFaultsIsNat
     DEF QInv, TypeOK, TicketsAreSound, Place, Goto, Ended, Fault
<1>1. ASSUME NEW s \in Session, TryCreate(s) PROVE QInv'
  BY <1>1 DEF TryCreate
<1>2. ASSUME NEW s \in Session, Stat(s) PROVE QInv'
  BY <1>2 DEF Stat
<1>3. ASSUME NEW s \in Session, Clear(s) PROVE QInv'
  BY <1>3 DEF Clear
<1>4. ASSUME NEW s \in Session, Read(s) PROVE QInv'
  BY <1>4, FileIsSound DEF Read, Sound
<1>5. ASSUME NEW s \in Session, Write(s) PROVE QInv'
  BY <1>5, WriteQInv
<1>6. ASSUME NEW s \in Session, Unlock(s) PROVE QInv'
  BY <1>6 DEF Unlock
<1>7. ASSUME NEW s \in Session, Acquire(s) \/ Heartbeat(s) \/ Release(s) \/ Poll(s)
      PROVE  QInv'
  BY <1>7 DEF Acquire, Heartbeat, Release, Poll, Begin
<1>8. ASSUME NEW s \in Session, TimesOut(s) PROVE QInv'
  BY <1>8 DEF TimesOut
<1>9. ASSUME NEW s \in Session, WriteFails(s) \/ Dies(s) PROVE QInv'
  <2>1. /\ copy' = [copy EXCEPT ![s] = Empty] /\ Empty \in State /\ Sound(Empty)
        /\ faults < MaxFaults /\ faults' = faults + 1
    BY <1>9, EmptyIsSound DEF WriteFails, Dies, Sound
  <2>2. copy' \in [Session -> State] /\ \A t \in Session : Sound(copy'[t])
    BY <2>1
  <2>3. faults' \in 0..MaxFaults
    BY <2>1
  <2> QED
    BY <1>9, <2>2, <2>3 DEF WriteFails, Dies
<1>10. ASSUME NEW s \in Session, WaitsLong(s) \/ FallsSilent(s) PROVE QInv'
  BY <1>10 DEF WaitsLong, FallsSilent
<1>11. CASE GrowsOld
  BY <1>11 DEF GrowsOld
<1>12. CASE UNCHANGED vars
  BY <1>12 DEF vars
<1> QED
  BY <1>1, <1>2, <1>3, <1>4, <1>5, <1>6, <1>7, <1>8, <1>9, <1>10, <1>11, <1>12
     DEF Next, Command, Caller, Trouble

LEMMA QueueInvariance == Spec => []QInv
BY InitQInv, StepQInv, PTL DEF Spec

\* Every variable keeps its type, and the file its shape: the queue names no
\* session twice and never the holder, not even when updates are lost.
THEOREM TypeCorrect == Spec => []TypeOK
<1>1. QInv => TypeOK
  BY DEF QInv
<1> QED
  BY <1>1, QueueInvariance, PTL

\* What one step does to the lock and the queue.
KeepsTheOrder ==
  ~intruded =>
    /\ \A s \in Session \ {file.holder} : file'.holder = s =>
         \A i \in 1..Len(file.queue) :
           file.queue[i] \in silent \cup {s} \/ \E j \in 1..(i - 1) : file.queue[j] = s
    /\ InOrder(file'.queue, file.queue)

LEMMA StepKeepsTheOrder ==
  ASSUME IInv, QInv, [Next]_vars
  PROVE  KeepsTheOrder
<1>1. CASE UNCHANGED file
  BY <1>1, FileIsSound DEF KeepsTheOrder, InOrder, Sound, Distinct
\* A command that writes writes a function of the file as it is.
<1>2. ASSUME NEW s \in Session, Write(s), ~intruded PROVE KeepsTheOrder
  <2>1. copy[s] = file /\ Sound(file)
    BY <1>2, FileIsSound
       DEF IInv, CopyIsCurrent, Write, WriteAcquire, WriteHeartbeat, WriteRelease, Replaces
  <2>2. CASE WriteAcquire(s)
    BY <2>1, <2>2, AcquiredIsSound, SMTT(30) DEF WriteAcquire, KeepsTheOrder
  <2>3. CASE WriteHeartbeat(s)
    BY <1>1, <2>1, <2>3 DEF WriteHeartbeat
  <2>4. CASE WriteRelease(s)
    BY <2>1, <2>4, ReleasedIsSound, NoneIsNoSession DEF WriteRelease, KeepsTheOrder
  <2> QED
    BY <1>2, <2>2, <2>3, <2>4 DEF Write
<1>3. ASSUME NEW s \in Session, Write(s), intruded PROVE KeepsTheOrder
  BY <1>3 DEF KeepsTheOrder
<1>4. (\E s \in Session : Write(s)) \/ UNCHANGED file
  BY DEF Next, Command, Caller, Trouble, GrowsOld, TryCreate, Stat, Clear, Read, Unlock, Poll,
         Acquire, Heartbeat, Release, Begin, TimesOut, WriteFails, Dies, WaitsLong, FallsSilent,
         vars
<1> QED
  BY <1>1, <1>2, <1>3, <1>4

\* The lock goes to whoever has only stale tickets before it, and the tickets that
\* stay keep their order, until a mutex is cleared under a live process.
THEOREM QueueIsFair == Spec => NobodyJumpsTheQueue
<1>1. IInv /\ QInv /\ [Next]_vars => KeepsTheOrder
  BY StepKeepsTheOrder
<1> QED
  BY <1>1, Invariance, QueueInvariance, PTL
     DEF Spec, NobodyJumpsTheQueue, KeepsTheOrder, InOrder

=============================================================================
