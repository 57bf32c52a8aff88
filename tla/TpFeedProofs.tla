---------------------------- MODULE TpFeedProofs ----------------------------
(***************************************************************************)
(* Proofs about the TP gate and the TP feed, for any visits, notifications,*)
(* tournaments, back-offs and numbers of retries and restarts.             *)
(*                                                                         *)
(* The gate keeps its silence because the check and the request happen in  *)
(* one turn: while a turn lasts no other request can start a back-off, so  *)
(* the back-off that was over at the check is over at the request.  The    *)
(* feed keeps its promises because its job, the visit of that job and the  *)
(* notifications that wait for it move together.                           *)
(***************************************************************************)
EXTENDS TpFeed, TLAPS

-----------------------------------------------------------------------------
(* The gate.                                                                 *)

\* A turn is only given to a request of the queue, outside a back-off.
TurnIsQueued == turn # "free" => line # <<>> /\ cool = 0

\* A visit has one request at a time in the queue, and waits for it.
LineIsOfWaiters ==
  /\ \A i, j \in 1..Len(line) : line[i] = line[j] => i = j
  /\ \A i \in 1..Len(line) : reply[line[i]] = "waiting"

\* No error promises more silence than the back-off in force, and whoever met it,
\* or was refused because of it, knows its end.
BlockIsTold ==
  /\ \A v \in Visit : retryIn[v] <= cool
  /\ cool > 0 => \E v \in Visit : retryIn[v] = cool

GInv == GateTypeOK /\ TurnIsQueued /\ LineIsOfWaiters /\ BlockIsTold

LEMMA InitGInv == GateInit => GInv
BY BackoffIsPositive, MinGapIsNat
   DEF GateInit, GInv, GateTypeOK, Reply, TurnIsQueued, LineIsOfWaiters, BlockIsTold

LEMMA LessIsLess ==
  ASSUME NEW m \in Nat, NEW n \in Nat, m <= n
  PROVE  /\ Less(m) \in Nat /\ Less(m) <= m
         /\ Less(m) <= Less(n)
BY DEF Less

\* The request at the head is that of a visit that waits; without it the rest of
\* the queue is as it was.
LEMMA HeadWaits ==
  ASSUME GInv, line # <<>>
  PROVE  /\ Head(line) \in Visit /\ reply[Head(line)] = "waiting"
         /\ Tail(line) \in Seq(Visit)
         /\ \A i, j \in 1..Len(Tail(line)) : Tail(line)[i] = Tail(line)[j] => i = j
         /\ \A i \in 1..Len(Tail(line)) :
              Tail(line)[i] # Head(line) /\ reply[Tail(line)[i]] = "waiting"
<1>1. line \in Seq(Visit) /\ Len(line) \in Nat \ {0} /\ Head(line) = line[1]
  BY DEF GInv, GateTypeOK
<1>2. /\ Tail(line) \in Seq(Visit) /\ Len(Tail(line)) = Len(line) - 1
      /\ \A i \in 1..Len(Tail(line)) : i + 1 \in 1..Len(line) /\ Tail(line)[i] = line[i + 1]
  BY <1>1
<1> QED
  BY <1>1, <1>2 DEF GInv, LineIsOfWaiters

LEMMA EnterStep ==
  ASSUME GInv, NEW v \in Visit, reply[v] # "waiting", Enter(v)
  PROVE  GInv'
<1>1. /\ line' \in Seq(Visit) /\ line' # <<>>
      /\ Len(line') = Len(line) + 1 /\ Len(line) \in Nat /\ line'[Len(line) + 1] = v
      /\ \A i \in 1..Len(line) : line'[i] = line[i] /\ line[i] \in Visit
  BY DEF GInv, GateTypeOK, Enter
<1>2. GateTypeOK' /\ TurnIsQueued'
  BY <1>1 DEF GInv, GateTypeOK, TurnIsQueued, Enter, Reply
<1>3. LineIsOfWaiters'
  <2>1. \A i \in 1..Len(line) : line[i] # v
    BY DEF GInv, LineIsOfWaiters
  <2>2. \A i \in 1..Len(line') :
          IF i = Len(line) + 1 THEN line'[i] = v ELSE i \in 1..Len(line) /\ line'[i] = line[i]
    BY <1>1
  <2>3. reply \in [Visit -> Reply] /\ reply' = [reply EXCEPT ![v] = "waiting"]
    BY DEF GInv, GateTypeOK, Enter
  <2> QED
    BY <1>1, <2>1, <2>2, <2>3 DEF GInv, LineIsOfWaiters
<1>4. BlockIsTold'
  BY DEF GInv, BlockIsTold, Enter
<1> QED
  BY <1>2, <1>3, <1>4 DEF GInv

\* A request that settles gives its place up; the others keep theirs.
LEMMA SettleStep ==
  ASSUME GInv, NEW answer \in Reply \ {"waiting"}, Settle(answer)
  PROVE  /\ line' \in Seq(Visit) /\ turn' = "free" /\ gap' \in 0..MinGap
         /\ reply' \in [Visit -> Reply]
         /\ Head(line) \in Visit /\ reply[Head(line)] = "waiting"
         /\ cool = 0 /\ LineIsOfWaiters'
<1>1. line # <<>> /\ cool = 0
  BY DEF GInv, TurnIsQueued, Settle
<1>2. LineIsOfWaiters'
  BY <1>1, HeadWaits DEF GInv, GateTypeOK, Settle, LineIsOfWaiters
<1> QED
  BY <1>1, <1>2, HeadWaits, MinGapIsNat DEF GInv, GateTypeOK, Settle

\* What serving a request does to the visits: only the one whose request it is
\* learns something, and a new block is learned.
LEMMA ServeStep ==
  ASSUME GInv, Serve
  PROVE  /\ GInv'
         /\ Head(line) \in Visit /\ reply[Head(line)] = "waiting"
         /\ \A v \in Visit \ {Head(line)} : reply'[v] = reply[v]
         /\ reply'[Head(line)] # "none"
         /\ retryIn'[Head(line)] = cool' \/ UNCHANGED <<cool, retryIn>>
<1> DEFINE h == Head(line)
<1>1. line # <<>>
  BY DEF Serve, Refuse, Admit, Send, Failed, Forbidden, Answered, Settle, GInv, TurnIsQueued
<1>2. h \in Visit /\ reply[h] = "waiting" /\ Tail(line) \in Seq(Visit)
  BY <1>1, HeadWaits
<1>3. CASE Refuse
  <2>1. LineIsOfWaiters'
    BY <1>1, <1>2, <1>3, HeadWaits DEF Refuse, LineIsOfWaiters, GInv, GateTypeOK
  <2>2. GateTypeOK' /\ TurnIsQueued'
    BY <1>2, <1>3 DEF Refuse, GInv, GateTypeOK, TurnIsQueued, Reply
  <2>3. retryIn'[h] = cool' /\ cool' = cool /\ BlockIsTold'
    BY <1>2, <1>3 DEF Refuse, GInv, GateTypeOK, BlockIsTold
  <2> QED
    BY <1>2, <1>3, <2>1, <2>2, <2>3 DEF Refuse, GInv, GateTypeOK
<1>4. CASE Admit \/ Send
  BY <1>1, <1>2, <1>4
     DEF Admit, Send, GInv, GateTypeOK, TurnIsQueued, LineIsOfWaiters, BlockIsTold
<1>5. CASE Failed
  BY <1>2, <1>5, SettleStep
     DEF Failed, Settle, Reply, GInv, GateTypeOK, TurnIsQueued, BlockIsTold
<1>6. ASSUME NEW answer \in {"ok", "error"}, Answered(answer)
      PROVE  /\ GInv' /\ \A v \in Visit \ {h} : reply'[v] = reply[v]
             /\ reply'[h] # "none" /\ UNCHANGED <<cool, retryIn>>
  <2>1. answer \in Reply \ {"waiting"}
    BY DEF Reply
  <2>2. /\ line' \in Seq(Visit) /\ turn' = "free" /\ gap' \in 0..MinGap
        /\ reply' \in [Visit -> Reply] /\ LineIsOfWaiters'
    BY <1>6, <2>1, SettleStep DEF Answered
  <2>3. strikes' \in 0..Len(Backoff) /\ UNCHANGED <<cool, retryIn>>
    BY <1>6, BackoffIsPositive DEF Answered
  <2>4. reply' = [reply EXCEPT ![h] = answer]
    BY <1>6 DEF Answered, Settle
  <2> QED
    BY <1>2, <2>2, <2>3, <2>4 DEF GInv, GateTypeOK, TurnIsQueued, BlockIsTold
<1>7. CASE Forbidden
  <2>1. /\ line' \in Seq(Visit) /\ turn' = "free" /\ gap' \in 0..MinGap
        /\ reply' \in [Visit -> Reply] /\ LineIsOfWaiters'
    BY <1>7, SettleStep DEF Forbidden, Reply
  <2>2. Len(Backoff) \in Nat \ {0} /\ strikes' \in 1..Len(Backoff)
    BY <1>7, BackoffIsPositive DEF Forbidden, GInv, GateTypeOK
  <2>3. cool' \in Nat \ {0} /\ cool = 0
    BY <1>7, <2>2, SettleStep, BackoffIsPositive DEF Forbidden, Reply
  <2>4. retryIn' \in [Visit -> Nat] /\ retryIn'[h] = cool' /\ BlockIsTold'
    BY <1>2, <1>7, <2>3 DEF Forbidden, GInv, GateTypeOK, BlockIsTold
  <2>5. reply' = [reply EXCEPT ![h] = "forbidden"]
    BY <1>7 DEF Forbidden, Settle
  <2> QED
    BY <1>2, <2>1, <2>2, <2>3, <2>4, <2>5 DEF GInv, GateTypeOK, TurnIsQueued
<1> QED
  BY <1>2, <1>3, <1>4, <1>5, <1>6, <1>7 DEF Serve, Refuse, Admit, Send, Failed, Settle

LEMMA ElapseStep ==
  ASSUME GInv, Elapse
  PROVE  GInv'
<1>1. /\ cool' \in Nat /\ (cool = 0 => cool' = 0)
      /\ gap' \in 0..MinGap
  BY MinGapIsNat DEF Elapse, Less, GInv, GateTypeOK
<1>2. ASSUME NEW v \in Visit
      PROVE  retryIn'[v] \in Nat /\ retryIn'[v] <= cool' /\ (retryIn[v] = cool => retryIn'[v] = cool')
  BY LessIsLess DEF Elapse, GInv, GateTypeOK, BlockIsTold
<1>3. cool' > 0 => cool > 0
  BY DEF Elapse, Less, GInv, GateTypeOK
<1>4. BlockIsTold'
  BY <1>2, <1>3 DEF BlockIsTold, GInv
<1> QED
  BY <1>1, <1>2, <1>4 DEF Elapse, GInv, GateTypeOK, TurnIsQueued, LineIsOfWaiters

LEMMA StepGInv == GInv /\ [GateNext]_gateVars => GInv'
<1>1. CASE GInv /\ UNCHANGED gateVars
  BY <1>1 DEF gateVars, GInv, GateTypeOK, TurnIsQueued, LineIsOfWaiters, BlockIsTold
<1> QED
  BY <1>1, ServeStep, ElapseStep, EnterStep DEF GateNext, Tick, Ask

LEMMA GateInvariance == GateSpec => []GInv
BY InitGInv, StepGInv, PTL DEF GateSpec

\* The gate's queue, timers and answers keep their types.
THEOREM GateTypeCorrect == GateSpec => []GateTypeOK
<1>1. GInv => GateTypeOK
  BY DEF GInv
<1> QED
  BY <1>1, GateInvariance, PTL

LEMMA SilenceFollows == GInv => SilenceIsKept
<1>1. ASSUME GInv, turn # "free", NEW v \in Visit PROVE retryIn[v] = 0
  <2>1. retryIn[v] \in Nat /\ retryIn[v] <= cool /\ cool = 0
    BY <1>1 DEF GInv, GateTypeOK, TurnIsQueued, BlockIsTold
  <2> QED
    BY <2>1
<1> QED
  BY <1>1 DEF SilenceIsKept

\* While any TpBlockedError is before its retryAt, no request is under way.
THEOREM SilenceHolds == GateSpec => []SilenceIsKept
BY SilenceFollows, GateInvariance, PTL

-----------------------------------------------------------------------------
(* The feed: the invariant.                                                  *)

\* A visit that imports is that of the running job or of a command that runs; a
\* visit that does not waits for nothing.
VisitsAreUsed ==
  /\ \A v \in Visit : import[v] = "idle" => reply[v] = "none"
  /\ import[Feed] # "idle" <=> stage = "importing"
  /\ \A c \in Command : import[c] # "idle" <=> outcome[c] = "running"
  /\ \A v \in Visit : import[v] = "backfill" => HasCompetition(v)

\* A job is in the queue once, for itself, and until it has a result.
JobsAreOpen ==
  /\ \A i, j \in 1..Len(jobs) : jobs[i] = jobs[j] => i = j
  /\ \A i \in 1..Len(jobs) : host[jobs[i]] = jobs[i] /\ verdict[jobs[i]] = "none"
  /\ stage # "delay" => jobs # <<>>

\* Whoever others wait for waits for itself; nobody joins a job past its delay.
HostsAreHosts ==
  /\ \A n \in Notice : host[n] # None => host[host[n]] = host[n]
  /\ \A n \in Notice : host[n] = None => verdict[n] = "none"
  /\ \A s \in Slug : joinable[s] # None => host[joinable[s]] = joinable[s]
  /\ stage # "delay" => \A s \in Slug : joinable[s] # Head(jobs)

\* A handler that has returned knew the result.
HandledIsSettled ==
  /\ \A n \in told : host[n] = n
  /\ \A n \in over : host[n] # None /\ verdict[host[n]] # "none"
  /\ told \subseteq over /\ marked \subseteq over

\* A retry is left whenever one is waited for or under way; a backfill is forced
\* only for a competition.
RetriesFit ==
  /\ stage = "delay" => ~tried /\ ~force
  /\ stage = "pausing" \/ (stage = "importing" /\ tried) => retries < BlockRetries
  /\ stage # "delay" /\ force => HasCompetition(Feed)

FInv ==
  /\ TypeOK /\ GInv /\ VisitsAreUsed /\ JobsAreOpen /\ HostsAreHosts /\ HandledIsSettled
  /\ RetriesFit /\ JoinedInTime /\ BareIsVisible /\ FailureToldOnce /\ RetryFindsTheGateOpen

LEMMA InitFInv == Init => FInv
<1> SUFFICES ASSUME Init PROVE FInv
  OBVIOUS
<1>1. GInv
  BY InitGInv DEF Init
<1>2. TypeOK
  <2>1. /\ jobs \in Seq(Notice) /\ wait \in Nat /\ gaveUp \in Nat \cup {None}
        /\ marked \subseteq Notice /\ told \subseteq Notice /\ over \subseteq Notice
    BY DEF Init
  <2>5. tried \in BOOLEAN /\ force \in BOOLEAN /\ blocked \in BOOLEAN
    BY DEF Init
  <2>2. /\ retries \in 0..BlockRetries /\ restarts \in 0..MaxRestarts
        /\ stage \in {"delay", "importing", "announcing", "pausing"}
    BY BoundsAreNat DEF Init
  <2>3. /\ comp \in [Slug -> {"absent", "bare", "full"}]
        /\ import \in [Visit -> {"idle", "core", "backfill"}]
        /\ asOf \in [Visit -> SUBSET Notice]
        /\ outcome \in [Command -> {"none", "running", "ok", "failed", "lost"}]
    BY DEF Init
  <2>4. /\ joinable \in [Slug -> Notice \cup {None}] /\ host \in [Notice -> Notice \cup {None}]
        /\ verdict \in [Notice -> {"none", "ok", "failed", "gaveUp", "lost"}]
    BY DEF Init
  <2> QED
    BY <1>1, <2>1, <2>2, <2>3, <2>4, <2>5 DEF TypeOK, GInv
<1>3. VisitsAreUsed /\ JoinedInTime /\ BareIsVisible /\ RetryFindsTheGateOpen
  BY VisitsAreFeedAndCommands
     DEF Init, GateInit, VisitsAreUsed, JoinedInTime, BareIsVisible, RetryFindsTheGateOpen
<1>4. JobsAreOpen /\ HostsAreHosts /\ HandledIsSettled /\ RetriesFit /\ FailureToldOnce
  BY DEF Init, JobsAreOpen, HostsAreHosts, HandledIsSettled, RetriesFit, FailureToldOnce
<1> QED
  BY <1>1, <1>2, <1>3, <1>4 DEF FInv

-----------------------------------------------------------------------------
(* Facts that several steps need.                                            *)

LEMMA RunningJob ==
  ASSUME FInv, jobs # <<>>
  PROVE  /\ Head(jobs) \in Notice /\ Head(jobs) = jobs[1] /\ Len(jobs) \in Nat \ {0}
         /\ host[Head(jobs)] = Head(jobs) /\ verdict[Head(jobs)] = "none"
         /\ Head(jobs) \notin over
         /\ PageOf(Feed) = Page[Head(jobs)]
         /\ PageOf(Feed).kind \in PageKind /\ PageOf(Feed).slug \in Slug
<1>1. jobs \in Seq(Notice) /\ Head(jobs) = jobs[1] /\ Len(jobs) \in Nat \ {0}
  BY DEF FInv, TypeOK
<1>2. Head(jobs) \in Notice /\ host[Head(jobs)] = Head(jobs) /\ verdict[Head(jobs)] = "none"
  BY <1>1 DEF FInv, JobsAreOpen
<1> QED
  BY <1>1, <1>2, PagesAreTyped DEF FInv, HandledIsSettled, PageOf

LEMMA RestOfJobs ==
  ASSUME FInv, jobs # <<>>
  PROVE  /\ Tail(jobs) \in Seq(Notice)
         /\ \A i, j \in 1..Len(Tail(jobs)) : Tail(jobs)[i] = Tail(jobs)[j] => i = j
         /\ \A i \in 1..Len(Tail(jobs)) :
              /\ Tail(jobs)[i] # Head(jobs) /\ Tail(jobs)[i] \in Notice
              /\ host[Tail(jobs)[i]] = Tail(jobs)[i] /\ verdict[Tail(jobs)[i]] = "none"
<1>1. jobs \in Seq(Notice) /\ Len(jobs) \in Nat \ {0} /\ Head(jobs) = jobs[1]
  BY RunningJob DEF FInv, TypeOK
<1>2. /\ Tail(jobs) \in Seq(Notice) /\ Len(Tail(jobs)) = Len(jobs) - 1
      /\ \A i \in 1..Len(Tail(jobs)) : i + 1 \in 1..Len(jobs) /\ Tail(jobs)[i] = jobs[i + 1]
  BY <1>1
<1> QED
  BY <1>1, <1>2 DEF FInv, JobsAreOpen

\* A visit imports a page of its own.
LEMMA ImportedPage ==
  ASSUME FInv, NEW v \in Visit, import[v] # "idle"
  PROVE  /\ PageOf(v).kind \in PageKind /\ PageOf(v).slug \in Slug
         /\ v = Feed => jobs # <<>>
         /\ v # Feed => v \in Command /\ PageOf(v) = Page[v]
<1>1. CASE v = Feed
  BY <1>1, RunningJob DEF FInv, VisitsAreUsed, JobsAreOpen
<1>2. CASE v # Feed
  BY <1>2, VisitsAreFeedAndCommands, PagesAreTyped DEF PageOf
<1> QED
  BY <1>1, <1>2

\* While a job pauses its visit has no request.
LEMMA PauseIsQuiet ==
  ASSUME FInv, stage = "pausing"
  PROVE  reply[Feed] = "none" /\ import[Feed] = "idle"
BY VisitsAreFeedAndCommands DEF FInv, VisitsAreUsed

\* What the end of a job does, whatever its result, to all but the competitions.
LEMMA SettleJobStep ==
  ASSUME FInv, jobs # <<>>, NEW result \in {"ok", "failed", "gaveUp"}, SettleJob(result),
         UNCHANGED <<host, marked, told, over>>, joinable' \in {joinable, NoLongerJoinable}
  PROVE  /\ jobs' \in Seq(Notice) /\ verdict' \in [Notice -> {"none", "ok", "failed", "gaveUp", "lost"}]
         /\ joinable' \in [Slug -> Notice \cup {None}]
         /\ retries' \in 0..BlockRetries /\ wait' \in Nat
         /\ tried' = FALSE /\ force' = FALSE /\ stage' = "delay"
         /\ JobsAreOpen' /\ HostsAreHosts' /\ HandledIsSettled' /\ RetriesFit'
         /\ JoinedInTime' /\ FailureToldOnce' /\ RetryFindsTheGateOpen'
<1> DEFINE h == Head(jobs)
<1>1. h \in Notice /\ host[h] = h /\ verdict[h] = "none" /\ h \notin over
  BY RunningJob
<1>2. stage' = "delay" /\ jobs' = Tail(jobs) /\ verdict' = [verdict EXCEPT ![h] = result]
  BY DEF SettleJob
<1>3. \A n \in Notice : verdict'[n] = IF n = h THEN result ELSE verdict[n]
  BY <1>2 DEF FInv, TypeOK
<1>4. joinable' \in [Slug -> Notice \cup {None}]
      /\ \A s \in Slug : joinable'[s] \in {joinable[s], None}
  BY DEF FInv, TypeOK, NoLongerJoinable
<1>5. JobsAreOpen'
  BY <1>2, <1>3, RestOfJobs DEF JobsAreOpen
<1>6. HostsAreHosts'
  BY <1>1, <1>2, <1>3, <1>4, NoneIsNothing DEF FInv, HostsAreHosts
<1>7. HandledIsSettled'
  <2>1. \A n \in over : n \in Notice /\ host[n] \in Notice
    BY DEF FInv, HandledIsSettled, TypeOK
  <2> QED
    BY <1>1, <1>3, <2>1 DEF FInv, HandledIsSettled
<1>8. FailureToldOnce'
  <2>1. \A n \in told \cup marked : host[n] \in Notice /\ host[n] # h
    BY <1>1 DEF FInv, HandledIsSettled, TypeOK
  <2> QED
    BY <1>3, <2>1 DEF FInv, FailureToldOnce
<1>9. JoinedInTime' /\ RetryFindsTheGateOpen' /\ RetriesFit'
  BY <1>2 DEF JoinedInTime, RetryFindsTheGateOpen, RetriesFit, SettleJob
<1>10. verdict' \in [Notice -> {"none", "ok", "failed", "gaveUp", "lost"}]
  BY <1>2 DEF FInv, TypeOK
<1> QED
  BY <1>2, <1>4, <1>5, <1>6, <1>7, <1>8, <1>9, <1>10, RestOfJobs, BoundsAreNat
     DEF SettleJob


LEMMA LeaveStep ==
  ASSUME GInv, NEW v \in Visit, reply[v] # "waiting", Leave(v)
  PROVE  GInv'
<1>1. \A i \in 1..Len(line) : line[i] # v
  BY DEF GInv, LineIsOfWaiters
<1>2. LineIsOfWaiters'
  BY <1>1 DEF GInv, GateTypeOK, LineIsOfWaiters, Leave
<1> QED
  BY <1>2 DEF GInv, GateTypeOK, TurnIsQueued, BlockIsTold, Leave, Reply

\* A visit whose import may return has its answer.
LEMMA AnswerIsIn ==
  ASSUME FInv, NEW v \in Visit, Succeeds(v) \/ FailsWithErrors(v) \/ Blocked(v)
  PROVE  import[v] # "idle" /\ reply[v] # "waiting"
BY DEF Succeeds, FailsWithErrors, Blocked

-----------------------------------------------------------------------------
(* One lemma for each step.                                                  *)

LEMMA ServeRequestStep ==
  ASSUME FInv, ServeRequest
  PROVE  FInv'
<1>1. GInv /\ Serve /\ UNCHANGED feedVars
  BY DEF ServeRequest, FInv
<1>2. GInv' /\ GateTypeOK'
  BY <1>1, ServeStep DEF GInv
<1>3. TypeOK'
  BY <1>1, <1>2 DEF FInv, TypeOK, feedVars
<1>4. VisitsAreUsed'
  <2>1. \A v \in Visit : import[v] = "idle" => reply'[v] = "none"
    BY <1>1, ServeStep DEF FInv, VisitsAreUsed
  <2> QED
    BY <1>1, <2>1 DEF FInv, VisitsAreUsed, feedVars, HasCompetition, PageOf
<1>5. JobsAreOpen' /\ HostsAreHosts' /\ HandledIsSettled' /\ FailureToldOnce'
  BY <1>1 DEF FInv, JobsAreOpen, HostsAreHosts, HandledIsSettled, FailureToldOnce, feedVars
<1>6. RetriesFit' /\ JoinedInTime' /\ BareIsVisible'
  BY <1>1 DEF FInv, RetriesFit, JoinedInTime, BareIsVisible, Posted, Running, HasCompetition,
              PageOf, feedVars
<1>7. RetryFindsTheGateOpen'
  <2> SUFFICES ASSUME stage = "pausing"
               PROVE  gaveUp = None /\ (cool' > wait => \E c \in Command : retryIn'[c] = cool')
    BY <1>1 DEF RetryFindsTheGateOpen, feedVars
  <2>1. gaveUp = None /\ (cool > wait => \E c \in Command : retryIn[c] = cool)
    BY DEF FInv, RetryFindsTheGateOpen
  <2>2. Head(line) \in Command
    BY <1>1, ServeStep, PauseIsQuiet, VisitsAreFeedAndCommands
  <2> QED
    BY <1>1, <2>1, <2>2, ServeStep
<1> QED
  BY <1>2, <1>3, <1>4, <1>5, <1>6, <1>7 DEF FInv

LEMMA PassStep ==
  ASSUME FInv, Pass
  PROVE  FInv'
<1>1. /\ Elapse /\ wait' = Less(wait)
      /\ gaveUp' = (IF gaveUp = None THEN None ELSE Less(gaveUp))
      /\ UNCHANGED <<comp, import, asOf, outcome, jobs, stage, joinable, host, verdict, tried,
                     retries, force, blocked, marked, told, over, restarts>>
  BY DEF Pass
<1>2. GInv' /\ GateTypeOK'
  BY <1>1, ElapseStep DEF FInv, GInv
<1>3. wait' \in Nat /\ gaveUp' \in Nat \cup {None} /\ (gaveUp = None => gaveUp' = None)
  BY <1>1 DEF FInv, TypeOK, Less
<1>4. TypeOK'
  BY <1>1, <1>2, <1>3 DEF FInv, TypeOK
<1>5. VisitsAreUsed'
  BY <1>1 DEF FInv, VisitsAreUsed, HasCompetition, PageOf, Elapse
<1>6. JobsAreOpen' /\ HostsAreHosts' /\ HandledIsSettled' /\ FailureToldOnce'
  BY <1>1 DEF FInv, JobsAreOpen, HostsAreHosts, HandledIsSettled, FailureToldOnce
<1>7. RetriesFit' /\ JoinedInTime' /\ BareIsVisible'
  BY <1>1 DEF FInv, RetriesFit, JoinedInTime, BareIsVisible, Posted, Running, HasCompetition,
              PageOf
<1>8. RetryFindsTheGateOpen'
  <2> SUFFICES ASSUME stage = "pausing"
               PROVE  gaveUp' = None /\ (cool' > wait' => \E c \in Command : retryIn'[c] = cool')
    BY <1>1 DEF RetryFindsTheGateOpen
  <2>1. gaveUp = None /\ (cool > wait => \E c \in Command : retryIn[c] = cool)
    BY DEF FInv, RetryFindsTheGateOpen
  <2>2. cool \in Nat /\ wait \in Nat /\ cool' = Less(cool) /\ wait' = Less(wait)
    BY <1>1 DEF FInv, TypeOK, GateTypeOK, Elapse
  <2>3. cool' > wait' => cool > wait
    BY <2>2 DEF Less
  <2>4. \A c \in Command : retryIn[c] = cool => retryIn'[c] = cool'
    BY <1>1, VisitsAreFeedAndCommands DEF Elapse
  <2> QED
    BY <1>3, <2>1, <2>3, <2>4
<1> QED
  BY <1>2, <1>4, <1>5, <1>6, <1>7, <1>8 DEF FInv

LEMMA EnqueueStep ==
  ASSUME FInv, NEW n \in Notice, Enqueue(n)
  PROVE  FInv'
<1>1. /\ host[n] = None /\ verdict[n] = "none" /\ n # None
      /\ UNCHANGED <<gateVars, comp, import, asOf, outcome, stage, verdict, Retry, Block,
                     Listener, restarts>>
      /\ \A m \in Notice : host[m] = m => m # n
  BY NoneIsNothing DEF Enqueue, FInv, HostsAreHosts
<1>2. GInv' /\ GateTypeOK'
  BY <1>1 DEF FInv, GInv, GateTypeOK, gateVars, TurnIsQueued, LineIsOfWaiters, BlockIsTold
<1>3. RetryFindsTheGateOpen'
  BY <1>1 DEF FInv, RetryFindsTheGateOpen, gateVars, Block, Retry
<1>4. /\ \A i \in 1..Len(jobs) : jobs[i] \in Notice /\ jobs[i] # n /\ host[jobs[i]] = jobs[i]
      /\ jobs \in Seq(Notice) /\ Len(jobs) \in Nat
  BY <1>1 DEF FInv, TypeOK, JobsAreOpen
<1>5. /\ Page[n].slug \in Slug /\ Key(n) \subseteq {Page[n].slug}
  BY PagesAreTyped DEF Key
\* The rest depends on whose job the notification waits for.
<1> DEFINE Rest == /\ host' \in [Notice -> Notice \cup {None}] /\ jobs' \in Seq(Notice)
                   /\ joinable' \in [Slug -> Notice \cup {None}]
                   /\ JobsAreOpen' /\ HostsAreHosts' /\ host'[n] # None
                   /\ \A m \in Notice \ {n} : host'[m] = host[m]
                   /\ jobs # <<>> => jobs' # <<>> /\ Head(jobs') = Head(jobs)
                   /\ stage # "delay" => jobs # <<>> /\ host'[n] # Head(jobs')
<1>6. ASSUME \E s \in Key(n) : joinable[s] # None PROVE Rest
  <2> DEFINE j == joinable[Page[n].slug]
  <2>1. /\ host' = [host EXCEPT ![n] = j] /\ UNCHANGED <<jobs, joinable>>
        /\ j \in Notice /\ host[j] = j /\ j # n /\ j # None
        /\ stage # "delay" => j # Head(jobs)
    BY <1>1, <1>5, <1>6, NoneIsNothing DEF Enqueue, FInv, TypeOK, HostsAreHosts
  <2>2. host' \in [Notice -> Notice \cup {None}] /\ host'[n] = j
        /\ \A m \in Notice \ {n} : host'[m] = host[m]
    BY <2>1 DEF FInv, TypeOK
  <2>3. JobsAreOpen'
    BY <1>1, <1>4, <2>1, <2>2 DEF FInv, JobsAreOpen
  <2>4. HostsAreHosts'
    <3>1. \A m \in Notice : host'[m] # None => host'[host'[m]] = host'[m]
      BY <1>1, <2>1, <2>2 DEF FInv, HostsAreHosts, TypeOK
    <3>2. \A s \in Slug : joinable[s] # None => joinable[s] \in Notice /\ joinable[s] # n
      BY <1>1 DEF FInv, HostsAreHosts, TypeOK
    <3> QED
      BY <1>1, <2>1, <2>2, <3>1, <3>2 DEF FInv, HostsAreHosts
  <2> QED
    BY <1>1, <2>1, <2>2, <2>3, <2>4 DEF FInv, TypeOK, JobsAreOpen
<1>7. ASSUME ~\E s \in Key(n) : joinable[s] # None PROVE Rest
  <2>1. /\ host' = [host EXCEPT ![n] = n] /\ jobs' = Append(jobs, n)
        /\ joinable' = [s \in Slug |-> IF s \in Key(n) THEN n ELSE joinable[s]]
    BY <1>7 DEF Enqueue
  <2>2. host' \in [Notice -> Notice \cup {None}] /\ host'[n] = n
        /\ \A m \in Notice \ {n} : host'[m] = host[m]
    BY <2>1 DEF FInv, TypeOK
  <2>3. /\ jobs' \in Seq(Notice) /\ jobs' # <<>> /\ Len(jobs') = Len(jobs) + 1
        /\ jobs'[Len(jobs) + 1] = n /\ \A i \in 1..Len(jobs) : jobs'[i] = jobs[i]
        /\ jobs # <<>> => Head(jobs') = Head(jobs) /\ Head(jobs) = jobs[1] /\ 1 \in 1..Len(jobs)
    BY <1>4, <2>1
  <2>4. joinable' \in [Slug -> Notice \cup {None}]
        /\ \A s \in Slug : joinable'[s] \in {n, joinable[s]}
    BY <2>1 DEF FInv, TypeOK
  <2>5. JobsAreOpen'
    <3>1. \A i \in 1..Len(jobs') :
            IF i = Len(jobs) + 1 THEN jobs'[i] = n ELSE i \in 1..Len(jobs) /\ jobs'[i] = jobs[i]
      BY <1>4, <2>3
    <3> QED
      BY <1>1, <1>4, <2>2, <2>3, <3>1 DEF FInv, JobsAreOpen
  <2>6. HostsAreHosts'
    <3>1. \A m \in Notice : host'[m] # None => host'[host'[m]] = host'[m]
      BY <1>1, <2>2 DEF FInv, HostsAreHosts, TypeOK
    <3>2. \A s \in Slug : joinable[s] # None => joinable[s] \in Notice /\ joinable[s] # n
      BY <1>1 DEF FInv, HostsAreHosts, TypeOK
    <3>3. \A s \in Slug : joinable'[s] # None => host'[joinable'[s]] = joinable'[s]
      BY <2>2, <2>4, <3>2 DEF FInv, HostsAreHosts
    <3>4. stage # "delay" => \A s \in Slug : joinable'[s] # Head(jobs')
      BY <1>4, <2>3, <2>4 DEF FInv, HostsAreHosts, JobsAreOpen
    <3> QED
      BY <1>1, <2>2, <3>1, <3>3, <3>4 DEF FInv, HostsAreHosts
  <2>7. stage # "delay" => jobs # <<>> /\ host'[n] # Head(jobs')
    BY <1>4, <2>2, <2>3 DEF FInv, JobsAreOpen
  <2> QED
    BY <1>1, <2>2, <2>3, <2>4, <2>5, <2>6, <2>7
<1>8. Rest
  BY <1>6, <1>7
<1>9. TypeOK'
  BY <1>1, <1>2, <1>8 DEF FInv, TypeOK, Retry, Block, Listener
<1>10. \A v \in Visit : import[v] # "idle" => PageOf(v)' = PageOf(v)
  BY <1>8 DEF PageOf, FInv, VisitsAreUsed, JobsAreOpen
<1>11. stage # "delay" => PageOf(Feed)' = PageOf(Feed)
  BY <1>8 DEF PageOf, FInv, JobsAreOpen
<1>12. VisitsAreUsed' /\ RetriesFit' /\ BareIsVisible'
  BY <1>1, <1>10, <1>11 DEF FInv, VisitsAreUsed, RetriesFit, BareIsVisible, HasCompetition,
                           gateVars, Retry
<1>13. JoinedInTime'
  BY <1>1, <1>8 DEF FInv, JoinedInTime, JobsAreOpen, Posted, Running
<1>14. HandledIsSettled' /\ FailureToldOnce'
  <2>1. n \notin told /\ n \notin over /\ told \subseteq Notice /\ over \subseteq Notice
    BY <1>1 DEF FInv, HandledIsSettled, TypeOK
  <2> QED
    BY <1>1, <1>8, <2>1 DEF FInv, HandledIsSettled, FailureToldOnce, Listener
<1> QED
  BY <1>2, <1>3, <1>8, <1>9, <1>12, <1>13, <1>14 DEF FInv

LEMMA HandledStep ==
  ASSUME FInv, NEW n \in Notice, Handled(n)
  PROVE  FInv'
<1>1. /\ n \in Notice \ over /\ host[n] # None
      /\ verdict[host[n]] \in {"ok", "failed", "gaveUp"}
      /\ over' = over \cup {n}
      /\ UNCHANGED <<gateVars, comp, import, asOf, outcome, jobs, stage, joinable, host,
                     verdict, Retry, Block, restarts>>
  BY DEF Handled, Posted
<1>2. /\ marked' \subseteq Notice /\ told' \subseteq told \cup {n} /\ told \subseteq told'
      /\ n \in told' \ told => host[n] = n
      /\ n \in told' \ told => verdict[host[n]] \in {"failed", "gaveUp"}
      /\ marked' \subseteq marked \cup {n}
      /\ n \in marked' \ marked => verdict[host[n]] = "ok"
  BY DEF Handled, AlreadyReported, FInv, TypeOK
<1>3. GInv' /\ GateTypeOK'
  BY <1>1 DEF FInv, GInv, GateTypeOK, gateVars, TurnIsQueued, LineIsOfWaiters, BlockIsTold
<1>4. TypeOK'
  BY <1>1, <1>2, <1>3 DEF FInv, TypeOK, Retry, Block
<1>5. VisitsAreUsed' /\ JobsAreOpen' /\ HostsAreHosts' /\ RetriesFit'
  BY <1>1 DEF FInv, VisitsAreUsed, JobsAreOpen, HostsAreHosts, RetriesFit, HasCompetition,
              PageOf, gateVars, Retry
<1>6. JoinedInTime' /\ BareIsVisible' /\ RetryFindsTheGateOpen'
  BY <1>1 DEF FInv, JoinedInTime, BareIsVisible, RetryFindsTheGateOpen, Posted, Running,
              PageOf, gateVars, Retry, Block
<1>7. HandledIsSettled'
  BY <1>1, <1>2 DEF FInv, HandledIsSettled
<1>8. FailureToldOnce'
  <2>1. \A m \in told' : host[m] = m
    BY <1>1, <1>7 DEF HandledIsSettled
  <2> QED
    BY <1>1, <1>2, <2>1 DEF FInv, FailureToldOnce
<1> QED
  BY <1>3, <1>4, <1>5, <1>6, <1>7, <1>8 DEF FInv

LEMMA StartBackfillStep ==
  ASSUME FInv, NEW v \in Visit, StartBackfill(v)
  PROVE  FInv'
<1>1. /\ import[v] = "core" /\ reply[v] = "ok" /\ HasCompetition(v)
      /\ comp' = Written(v) /\ import' = [import EXCEPT ![v] = "backfill"]
      /\ Enter(v)
      /\ UNCHANGED <<asOf, outcome, stage, Queue, verdict, Retry, Block, Listener, restarts>>
  BY DEF StartBackfill, BackfillDue
<1>2. /\ UNCHANGED <<asOf, outcome, stage, jobs, joinable, host, verdict, tried, retries, force,
                     wait, blocked, gaveUp, marked, told, over, restarts, cool, retryIn>>
      /\ reply' = [reply EXCEPT ![v] = "waiting"]
  BY <1>1 DEF Queue, Retry, Block, Listener, Enter
<1>3. GInv' /\ GateTypeOK'
  BY <1>1, EnterStep DEF FInv, GInv
<1>4. /\ comp' \in [Slug -> {"absent", "bare", "full"}]
      /\ \A s \in Slug : comp'[s] = "bare" => comp[s] = "bare" \/ s = PageOf(v).slug
  BY <1>1 DEF Written, FInv, TypeOK
<1>5. /\ import' \in [Visit -> {"idle", "core", "backfill"}]
      /\ \A w \in Visit : import'[w] = IF w = v THEN "backfill" ELSE import[w]
      /\ \A w \in Visit \ {v} : reply'[w] = reply[w]
  BY <1>1, <1>2 DEF FInv, TypeOK, GateTypeOK
<1>6. TypeOK'
  BY <1>2, <1>3, <1>4, <1>5 DEF FInv, TypeOK
<1>7. VisitsAreUsed'
  BY <1>1, <1>2, <1>5, VisitsAreFeedAndCommands DEF FInv, VisitsAreUsed, HasCompetition, PageOf
<1>8. JobsAreOpen' /\ HostsAreHosts' /\ HandledIsSettled' /\ FailureToldOnce'
  BY <1>2 DEF FInv, JobsAreOpen, HostsAreHosts, HandledIsSettled, FailureToldOnce
<1>9. RetriesFit' /\ JoinedInTime' /\ RetryFindsTheGateOpen'
  BY <1>2 DEF FInv, RetriesFit, JoinedInTime, RetryFindsTheGateOpen, Posted, Running,
              HasCompetition, PageOf
<1>10. BareIsVisible'
  <2> SUFFICES ASSUME NEW s \in Slug, comp'[s] = "bare"
               PROVE  \/ \E w \in Visit : import'[w] = "backfill" /\ PageOf(w).slug = s
                      \/ stage # "delay" /\ force /\ PageOf(Feed).slug = s
                      \/ \E n \in Notice : /\ Page[n].slug = s
                                           /\ verdict[n] \in {"failed", "gaveUp", "lost"}
                      \/ \E c \in Command : Page[c].slug = s /\ outcome[c] \in {"failed", "lost"}
    BY <1>2 DEF BareIsVisible, PageOf
  <2>1. CASE s = PageOf(v).slug
    BY <1>5, <2>1
  <2>2. CASE comp[s] = "bare"
    BY <1>5, <2>2 DEF FInv, BareIsVisible
  <2> QED
    BY <1>4, <2>1, <2>2
<1> QED
  BY <1>3, <1>6, <1>7, <1>8, <1>9, <1>10 DEF FInv

LEMMA StartCommandStep ==
  ASSUME FInv, NEW c \in Command, StartCommand(c)
  PROVE  FInv'
<1> DEFINE seen == {n \in Notice : verdict[n] = "gaveUp"}
<1>1. /\ outcome[c] = "none" /\ outcome' = [outcome EXCEPT ![c] = "running"]
      /\ import' = [import EXCEPT ![c] = "core"] /\ asOf' = [asOf EXCEPT ![c] = seen]
      /\ Enter(c) /\ reply' = [reply EXCEPT ![c] = "waiting"]
      /\ UNCHANGED <<comp, stage, jobs, joinable, host, verdict, tried, retries, force, wait,
                     blocked, gaveUp, marked, told, over, restarts, cool, retryIn>>
  BY DEF StartCommand, Dispatch, Enter, Queue, Retry, Block, Listener
<1>2. c \in Visit /\ c # Feed
  BY VisitsAreFeedAndCommands
<1>3. import[c] = "idle" /\ reply[c] = "none"
  BY <1>1, <1>2 DEF FInv, VisitsAreUsed, TypeOK
<1>4. GInv' /\ GateTypeOK'
  BY <1>1, <1>2, <1>3, EnterStep DEF FInv, GInv
<1>5. /\ import' \in [Visit -> {"idle", "core", "backfill"}]
      /\ asOf' \in [Visit -> SUBSET Notice] /\ asOf'[Feed] = asOf[Feed]
      /\ \A w \in Visit : import'[w] = IF w = c THEN "core" ELSE import[w]
      /\ \A w \in Visit \ {c} : reply'[w] = reply[w]
  BY <1>1, <1>2, VisitsAreFeedAndCommands DEF FInv, TypeOK, GateTypeOK
<1>6. /\ outcome' \in [Command -> {"none", "running", "ok", "failed", "lost"}]
      /\ \A d \in Command : outcome'[d] = IF d = c THEN "running" ELSE outcome[d]
  BY <1>1 DEF FInv, TypeOK
<1>7. TypeOK'
  BY <1>1, <1>4, <1>5, <1>6 DEF FInv, TypeOK
<1>8. VisitsAreUsed'
  BY <1>1, <1>2, <1>5, <1>6, VisitsAreFeedAndCommands
     DEF FInv, VisitsAreUsed, HasCompetition, PageOf
<1>9. JobsAreOpen' /\ HostsAreHosts' /\ HandledIsSettled' /\ FailureToldOnce'
  BY <1>1 DEF FInv, JobsAreOpen, HostsAreHosts, HandledIsSettled, FailureToldOnce
<1>10. RetriesFit' /\ JoinedInTime' /\ RetryFindsTheGateOpen'
  BY <1>1, <1>5 DEF FInv, RetriesFit, JoinedInTime, RetryFindsTheGateOpen, Posted, Running,
                    HasCompetition, PageOf
<1>11. BareIsVisible'
  BY <1>1, <1>3, <1>5, <1>6 DEF FInv, BareIsVisible, PageOf
<1> QED
  BY <1>4, <1>7, <1>8, <1>9, <1>10, <1>11 DEF FInv

LEMMA EndCommandStep ==
  ASSUME FInv, NEW c \in Command, EndCommand(c)
  PROVE  FInv'
<1>1. /\ Leave(c) /\ import' = [import EXCEPT ![c] = "idle"]
      /\ reply' = [reply EXCEPT ![c] = "none"]
      /\ UNCHANGED <<asOf, stage, jobs, joinable, host, verdict, tried, retries, force, wait,
                     blocked, gaveUp, marked, told, over, restarts, cool, retryIn>>
  BY DEF EndCommand, Leave, Queue, Retry, Block, Listener
<1>2. c \in Visit /\ c # Feed /\ PageOf(c) = Page[c] /\ Page[c].slug \in Slug
  BY VisitsAreFeedAndCommands, PagesAreTyped DEF PageOf
<1>3. import[c] # "idle" /\ reply[c] # "waiting" /\ outcome[c] = "running"
  BY <1>2, AnswerIsIn DEF EndCommand, FInv, VisitsAreUsed
<1>4. GInv' /\ GateTypeOK'
  BY <1>1, <1>2, <1>3, LeaveStep DEF FInv, GInv
<1>5. /\ import' \in [Visit -> {"idle", "core", "backfill"}]
      /\ \A w \in Visit : import'[w] = IF w = c THEN "idle" ELSE import[w]
      /\ \A w \in Visit : reply'[w] = IF w = c THEN "none" ELSE reply[w]
  BY <1>1 DEF FInv, TypeOK, GateTypeOK
\* Whatever becomes bare, or was being backfilled, is reported or full.
<1>6. /\ comp' \in [Slug -> {"absent", "bare", "full"}]
      /\ \E o \in {"ok", "failed"} :
           /\ outcome' = [outcome EXCEPT ![c] = o]
           /\ \A s \in Slug : comp'[s] = "bare" =>
                \/ o = "failed" /\ Page[c].slug = s
                \/ comp[s] = "bare" /\ ~(import[c] = "backfill" /\ Page[c].slug = s)
  <2>1. CASE Succeeds(c) /\ outcome' = [outcome EXCEPT ![c] = "ok"]
    BY <1>2, <2>1 DEF Succeeds, FInv, TypeOK
  <2>2. CASE FailsWithErrors(c) /\ outcome' = [outcome EXCEPT ![c] = "failed"]
    BY <1>2, <2>2 DEF FailsWithErrors, Written, FInv, TypeOK
  <2>3. CASE Blocked(c) /\ UNCHANGED comp /\ outcome' = [outcome EXCEPT ![c] = "failed"]
    BY <2>3 DEF FInv, TypeOK
  <2> QED
    BY <2>1, <2>2, <2>3 DEF EndCommand
<1>7. PICK o \in {"ok", "failed"} :
        /\ outcome' = [outcome EXCEPT ![c] = o]
        /\ \A s \in Slug : comp'[s] = "bare" =>
             \/ o = "failed" /\ Page[c].slug = s
             \/ comp[s] = "bare" /\ ~(import[c] = "backfill" /\ Page[c].slug = s)
  BY <1>6
<1>8. /\ outcome' \in [Command -> {"none", "running", "ok", "failed", "lost"}]
      /\ \A d \in Command : outcome'[d] = IF d = c THEN o ELSE outcome[d]
  BY <1>7 DEF FInv, TypeOK
<1>9. TypeOK'
  BY <1>1, <1>4, <1>5, <1>6, <1>8 DEF FInv, TypeOK
<1>10. VisitsAreUsed'
  BY <1>1, <1>2, <1>5, <1>8, VisitsAreFeedAndCommands
     DEF FInv, VisitsAreUsed, HasCompetition, PageOf
<1>11. JobsAreOpen' /\ HostsAreHosts' /\ HandledIsSettled' /\ FailureToldOnce'
  BY <1>1 DEF FInv, JobsAreOpen, HostsAreHosts, HandledIsSettled, FailureToldOnce
<1>12. RetriesFit' /\ JoinedInTime' /\ RetryFindsTheGateOpen'
  BY <1>1 DEF FInv, RetriesFit, JoinedInTime, RetryFindsTheGateOpen, Posted, Running,
              HasCompetition, PageOf
<1>13. BareIsVisible'
  <2> SUFFICES ASSUME NEW s \in Slug, comp'[s] = "bare"
               PROVE  \/ \E w \in Visit : import'[w] = "backfill" /\ PageOf(w).slug = s
                      \/ stage # "delay" /\ force /\ PageOf(Feed).slug = s
                      \/ \E n \in Notice : /\ Page[n].slug = s
                                           /\ verdict[n] \in {"failed", "gaveUp", "lost"}
                      \/ \E d \in Command : Page[d].slug = s /\ outcome'[d] \in {"failed", "lost"}
    BY <1>1 DEF BareIsVisible, PageOf
  <2>1. CASE o = "failed" /\ Page[c].slug = s
    BY <1>8, <2>1
  <2>2. CASE comp[s] = "bare" /\ ~(import[c] = "backfill" /\ Page[c].slug = s)
    <3>1. \A w \in Visit : import[w] = "backfill" /\ PageOf(w).slug = s => import'[w] = "backfill"
      BY <1>2, <1>5, <2>2
    <3>2. \A d \in Command : outcome[d] \in {"failed", "lost"} => outcome'[d] = outcome[d]
      BY <1>3, <1>8
    <3> QED
      BY <2>2, <3>1, <3>2 DEF FInv, BareIsVisible
  <2> QED
    BY <1>7, <2>1, <2>2
<1> QED
  BY <1>4, <1>9, <1>10, <1>11, <1>12, <1>13 DEF FInv

\* What is bare and of the competition of no job stays visible when a job settles.
LEMMA SettledIsVisible ==
  ASSUME FInv, jobs # <<>>, NEW result \in {"ok", "failed", "gaveUp"}, SettleJob(result),
         UNCHANGED outcome, \A c \in Command : import'[c] = import[c],
         NEW s \in Slug, comp'[s] = "bare",
         \/ result # "ok" /\ PageOf(Feed).slug = s
         \/ /\ comp[s] = "bare"
            /\ ~(import[Feed] = "backfill" /\ PageOf(Feed).slug = s)
            /\ ~(stage # "delay" /\ force /\ PageOf(Feed).slug = s)
  PROVE  \/ \E v \in Visit : import'[v] = "backfill" /\ PageOf(v)'.slug = s
         \/ \E n \in Notice : Page[n].slug = s /\ verdict'[n] \in {"failed", "gaveUp", "lost"}
         \/ \E c \in Command : Page[c].slug = s /\ outcome'[c] \in {"failed", "lost"}
<1>1. /\ Head(jobs) \in Notice /\ verdict[Head(jobs)] = "none"
      /\ PageOf(Feed) = Page[Head(jobs)]
  BY RunningJob
<1>2. \A n \in Notice : verdict'[n] = IF n = Head(jobs) THEN result ELSE verdict[n]
  BY DEF SettleJob, FInv, TypeOK
<1>3. CASE result # "ok" /\ PageOf(Feed).slug = s
  BY <1>1, <1>2, <1>3
<1>4. CASE /\ comp[s] = "bare"
           /\ ~(import[Feed] = "backfill" /\ PageOf(Feed).slug = s)
           /\ ~(stage # "delay" /\ force /\ PageOf(Feed).slug = s)
  <2>1. \A n \in Notice : verdict[n] \in {"failed", "gaveUp", "lost"} => verdict'[n] = verdict[n]
    BY <1>1, <1>2
  <2>2. \A v \in Visit : import[v] = "backfill" /\ PageOf(v).slug = s =>
          import'[v] = "backfill" /\ PageOf(v)'.slug = s
    BY <1>4, VisitsAreFeedAndCommands DEF PageOf
  <2> QED
    BY <1>4, <2>1, <2>2 DEF FInv, BareIsVisible
<1> QED
  BY <1>3, <1>4

LEMMA EndDelayStep ==
  ASSUME FInv, EndDelay
  PROVE  FInv'
<1>1. /\ jobs # <<>> /\ stage = "delay" /\ joinable' = NoLongerJoinable
      /\ UNCHANGED <<comp, outcome, host, blocked, gaveUp, marked, told, over, restarts>>
  BY DEF EndDelay, Block, Listener
<1>2. import[Feed] = "idle" /\ reply[Feed] = "none" /\ Feed \in Visit
  BY <1>1, VisitsAreFeedAndCommands DEF FInv, VisitsAreUsed
<1>3. ASSUME SettleJob("failed"), UNCHANGED <<gateVars, import, asOf>> PROVE FInv'
  <2>1. GInv' /\ GateTypeOK'
    BY <1>3 DEF FInv, GInv, GateTypeOK, gateVars, TurnIsQueued, LineIsOfWaiters, BlockIsTold
  <2>2. /\ jobs' \in Seq(Notice)
        /\ verdict' \in [Notice -> {"none", "ok", "failed", "gaveUp", "lost"}]
        /\ joinable' \in [Slug -> Notice \cup {None}]
        /\ retries' \in 0..BlockRetries /\ wait' \in Nat
        /\ tried' = FALSE /\ force' = FALSE /\ stage' = "delay"
        /\ JobsAreOpen' /\ HostsAreHosts' /\ HandledIsSettled' /\ RetriesFit'
        /\ JoinedInTime' /\ FailureToldOnce' /\ RetryFindsTheGateOpen'
    BY <1>1, <1>3, SettleJobStep
  <2>3. TypeOK'
    BY <1>1, <1>3, <2>1, <2>2 DEF FInv, TypeOK
  <2>4. VisitsAreUsed'
    BY <1>1, <1>2, <1>3, <2>2 DEF FInv, VisitsAreUsed, HasCompetition, PageOf, gateVars
  <2>5. BareIsVisible'
    BY <1>1, <1>2, <1>3, SettledIsVisible DEF BareIsVisible
  <2> QED
    BY <2>1, <2>2, <2>3, <2>4, <2>5 DEF FInv
<1>4. ASSUME stage' = "importing", Dispatch(Feed, Posted), UNCHANGED <<jobs, verdict, Retry>>
      PROVE  FInv'
  <2>1. /\ import' = [import EXCEPT ![Feed] = "core"] /\ asOf' = [asOf EXCEPT ![Feed] = Posted]
        /\ Enter(Feed) /\ reply' = [reply EXCEPT ![Feed] = "waiting"]
        /\ UNCHANGED <<tried, retries, force, wait>>
    BY <1>4 DEF Dispatch, Enter, Retry
  <2>2. GInv' /\ GateTypeOK'
    BY <1>2, <2>1, EnterStep DEF FInv, GInv
  <2>3. /\ import' \in [Visit -> {"idle", "core", "backfill"}]
        /\ asOf' \in [Visit -> SUBSET Notice] /\ asOf'[Feed] = Posted
        /\ \A v \in Visit : import'[v] = IF v = Feed THEN "core" ELSE import[v]
        /\ \A v \in Visit \ {Feed} : reply'[v] = reply[v]
    BY <1>2, <2>1 DEF FInv, TypeOK, GateTypeOK, Posted
  <2>4. /\ joinable' \in [Slug -> Notice \cup {None}]
        /\ \A s \in Slug : joinable'[s] # Head(jobs)
        /\ \A s \in Slug : joinable'[s] # None => joinable'[s] = joinable[s]
    BY <1>1, RunningJob, NoneIsNothing DEF FInv, TypeOK, NoLongerJoinable
  <2>5. TypeOK'
    BY <1>1, <1>4, <2>1, <2>2, <2>3, <2>4 DEF FInv, TypeOK
  <2>6. VisitsAreUsed'
    BY <1>1, <1>2, <1>4, <2>3, VisitsAreFeedAndCommands
       DEF FInv, VisitsAreUsed, HasCompetition, PageOf
  <2>7. JobsAreOpen' /\ HostsAreHosts' /\ HandledIsSettled' /\ FailureToldOnce'
    BY <1>1, <1>4, <2>4
       DEF FInv, JobsAreOpen, HostsAreHosts, HandledIsSettled, FailureToldOnce
  <2>8. RetriesFit' /\ JoinedInTime' /\ RetryFindsTheGateOpen'
    BY <1>1, <1>4, <2>1, <2>3
       DEF FInv, RetriesFit, JoinedInTime, RetryFindsTheGateOpen, Posted
  <2>9. BareIsVisible'
    BY <1>1, <1>2, <1>4, <2>3 DEF FInv, BareIsVisible, PageOf
  <2> QED
    BY <2>2, <2>5, <2>6, <2>7, <2>8, <2>9 DEF FInv
<1> QED
  BY <1>3, <1>4 DEF EndDelay

LEMMA JobReturnsStep ==
  ASSUME FInv, JobReturns
  PROVE  FInv'
<1>1. /\ stage = "importing" /\ Leave(Feed)
      /\ import' = [import EXCEPT ![Feed] = "idle"] /\ reply' = [reply EXCEPT ![Feed] = "none"]
      /\ gaveUp' = None /\ blocked' = FALSE
      /\ UNCHANGED <<asOf, outcome, joinable, host, marked, told, over, restarts, cool, retryIn>>
  BY DEF JobReturns, Leave, Listener
<1>2. /\ Feed \in Visit /\ jobs # <<>> /\ import[Feed] # "idle" /\ reply[Feed] # "waiting"
      /\ PageOf(Feed).slug \in Slug
  BY <1>1, AnswerIsIn, RunningJob, VisitsAreFeedAndCommands DEF JobReturns, FInv, JobsAreOpen
<1>3. GInv' /\ GateTypeOK'
  BY <1>1, <1>2, LeaveStep DEF FInv, GInv
<1>4. /\ import' \in [Visit -> {"idle", "core", "backfill"}]
      /\ \A v \in Visit : import'[v] = IF v = Feed THEN "idle" ELSE import[v]
      /\ \A v \in Visit : reply'[v] = IF v = Feed THEN "none" ELSE reply[v]
  BY <1>1 DEF FInv, TypeOK, GateTypeOK
\* An import that was forced and succeeds has done the backfill.
<1>5. /\ comp' \in [Slug -> {"absent", "bare", "full"}]
      /\ \E result \in {"ok", "failed"} :
           /\ SettleJob(result)
           /\ \A s \in Slug : comp'[s] = "bare" =>
                \/ result # "ok" /\ PageOf(Feed).slug = s
                \/ /\ comp[s] = "bare"
                   /\ ~(import[Feed] = "backfill" /\ PageOf(Feed).slug = s)
                   /\ ~(stage # "delay" /\ force /\ PageOf(Feed).slug = s)
  <2>1. CASE Succeeds(Feed) /\ SettleJob("ok")
    <3>1. CASE import[Feed] = "core" /\ ~BackfillDue(Feed) /\ UNCHANGED comp
      <4>1. ~force
        BY <1>1, <3>1 DEF FInv, RetriesFit, BackfillDue, Forced
      <4> QED
        BY <2>1, <3>1, <4>1 DEF FInv, TypeOK
    <3>2. CASE import[Feed] = "backfill" /\ comp' = [comp EXCEPT ![PageOf(Feed).slug] = "full"]
      BY <1>2, <2>1, <3>2 DEF FInv, TypeOK
    <3> QED
      BY <2>1, <3>1, <3>2 DEF Succeeds
  <2>2. CASE FailsWithErrors(Feed) /\ SettleJob("failed")
    <3>1. /\ comp' \in [Slug -> {"absent", "bare", "full"}]
          /\ \A s \in Slug : comp'[s] = "bare" => comp[s] = "bare" \/ PageOf(Feed).slug = s
      BY <1>2, <2>2 DEF FailsWithErrors, Written, FInv, TypeOK
    <3> QED
      BY <2>2, <3>1
  <2> QED
    BY <2>1, <2>2 DEF JobReturns
<1>6. PICK result \in {"ok", "failed"} :
        /\ SettleJob(result)
        /\ \A s \in Slug : comp'[s] = "bare" =>
             \/ result # "ok" /\ PageOf(Feed).slug = s
             \/ /\ comp[s] = "bare"
                /\ ~(import[Feed] = "backfill" /\ PageOf(Feed).slug = s)
                /\ ~(stage # "delay" /\ force /\ PageOf(Feed).slug = s)
  BY <1>5
<1>7. /\ jobs' \in Seq(Notice)
      /\ verdict' \in [Notice -> {"none", "ok", "failed", "gaveUp", "lost"}]
      /\ joinable' \in [Slug -> Notice \cup {None}]
      /\ retries' \in 0..BlockRetries /\ wait' \in Nat
      /\ tried' = FALSE /\ force' = FALSE /\ stage' = "delay"
      /\ JobsAreOpen' /\ HostsAreHosts' /\ HandledIsSettled' /\ RetriesFit'
      /\ JoinedInTime' /\ FailureToldOnce' /\ RetryFindsTheGateOpen'
  BY <1>1, <1>2, <1>6, SettleJobStep
<1>8. TypeOK'
  BY <1>1, <1>3, <1>4, <1>5, <1>7 DEF FInv, TypeOK
<1>9. VisitsAreUsed'
  BY <1>1, <1>4, <1>7, VisitsAreFeedAndCommands DEF FInv, VisitsAreUsed, HasCompetition, PageOf
<1>10. BareIsVisible'
  <2>1. \A c \in Command : import'[c] = import[c]
    BY <1>4, VisitsAreFeedAndCommands
  <2> QED
    BY <1>1, <1>2, <1>6, <2>1, SettledIsVisible DEF BareIsVisible
<1> QED
  BY <1>3, <1>7, <1>8, <1>9, <1>10 DEF FInv

LEMMA JobIsBlockedStep ==
  ASSUME FInv, JobIsBlocked
  PROVE  FInv'
<1>1. /\ stage = "importing" /\ stage' = "announcing" /\ blocked' = TRUE
      /\ force' = (force \/ import[Feed] = "backfill")
      /\ retries' = (IF CountsAsRetry THEN retries + 1 ELSE retries)
      /\ Leave(Feed)
      /\ import' = [import EXCEPT ![Feed] = "idle"] /\ reply' = [reply EXCEPT ![Feed] = "none"]
      /\ UNCHANGED <<comp, asOf, outcome, jobs, joinable, host, verdict, tried, wait, gaveUp,
                     marked, told, over, restarts, cool, retryIn>>
  BY DEF JobIsBlocked, Leave, Queue, Listener
<1>2. Feed \in Visit /\ import[Feed] # "idle" /\ reply[Feed] # "waiting" /\ jobs # <<>>
  BY <1>1, AnswerIsIn, VisitsAreFeedAndCommands DEF JobIsBlocked, FInv, JobsAreOpen
<1>3. GInv' /\ GateTypeOK'
  BY <1>1, <1>2, LeaveStep DEF FInv, GInv
<1>4. /\ import' \in [Visit -> {"idle", "core", "backfill"}]
      /\ \A v \in Visit : import'[v] = IF v = Feed THEN "idle" ELSE import[v]
      /\ \A v \in Visit : reply'[v] = IF v = Feed THEN "none" ELSE reply[v]
  BY <1>1 DEF FInv, TypeOK, GateTypeOK
<1>5. retries' \in 0..BlockRetries
  BY <1>1, BoundsAreNat DEF CountsAsRetry, FInv, TypeOK, RetriesFit
<1>6. force' \in BOOLEAN /\ blocked' \in BOOLEAN
  BY <1>1
<1>7. TypeOK'
  BY <1>1, <1>3, <1>4, <1>5, <1>6 DEF FInv, TypeOK
<1>8. VisitsAreUsed'
  BY <1>1, <1>4, VisitsAreFeedAndCommands DEF FInv, VisitsAreUsed, HasCompetition, PageOf
<1>9. JobsAreOpen' /\ HostsAreHosts' /\ HandledIsSettled' /\ FailureToldOnce'
  BY <1>1 DEF FInv, JobsAreOpen, HostsAreHosts, HandledIsSettled, FailureToldOnce
<1>10. RetriesFit' /\ JoinedInTime' /\ RetryFindsTheGateOpen'
  BY <1>1, <1>2 DEF FInv, VisitsAreUsed, RetriesFit, JoinedInTime, RetryFindsTheGateOpen,
                    HasCompetition, PageOf
\* A backfill that was under way is forced from now on.
<1>11. BareIsVisible'
  BY <1>1, <1>4 DEF FInv, BareIsVisible, PageOf
<1> QED
  BY <1>3, <1>7, <1>8, <1>9, <1>10, <1>11 DEF FInv

LEMMA AfterBlockStep ==
  ASSUME FInv, AfterBlock
  PROVE  FInv'
<1>1. /\ stage = "announcing" /\ jobs # <<>>
      /\ UNCHANGED <<gateVars, comp, import, asOf, outcome, joinable, host, blocked, marked,
                     told, over, restarts>>
  BY DEF AfterBlock, Listener, FInv, JobsAreOpen
<1>2. import[Feed] = "idle" /\ Feed \in Visit
  BY <1>1, VisitsAreFeedAndCommands DEF FInv, VisitsAreUsed
<1>3. GInv' /\ GateTypeOK'
  BY <1>1 DEF FInv, GInv, GateTypeOK, gateVars, TurnIsQueued, LineIsOfWaiters, BlockIsTold
<1>4. ASSUME NEW result \in {"failed", "gaveUp"}, SettleJob(result),
             gaveUp' \in {gaveUp, retryIn[Feed]}
      PROVE  FInv'
  <2>1. /\ jobs' \in Seq(Notice)
        /\ verdict' \in [Notice -> {"none", "ok", "failed", "gaveUp", "lost"}]
        /\ joinable' \in [Slug -> Notice \cup {None}]
        /\ retries' \in 0..BlockRetries /\ wait' \in Nat
        /\ tried' = FALSE /\ force' = FALSE /\ stage' = "delay"
        /\ JobsAreOpen' /\ HostsAreHosts' /\ HandledIsSettled' /\ RetriesFit'
        /\ JoinedInTime' /\ FailureToldOnce' /\ RetryFindsTheGateOpen'
    BY <1>1, <1>4, SettleJobStep
  <2>2. gaveUp' \in Nat \cup {None}
    BY <1>2, <1>4 DEF FInv, TypeOK, GateTypeOK
  <2>3. TypeOK'
    BY <1>1, <1>3, <2>1, <2>2 DEF FInv, TypeOK
  <2>4. VisitsAreUsed'
    BY <1>1, <1>2, <2>1 DEF FInv, VisitsAreUsed, HasCompetition, PageOf, gateVars
  <2>5. BareIsVisible'
    BY <1>1, <1>4, <2>1, SettledIsVisible DEF BareIsVisible
  <2> QED
    BY <1>3, <2>1, <2>3, <2>4, <2>5 DEF FInv
<1>5. ASSUME ~FailsFast, ~LastRetryWasBlocked, stage' = "pausing", wait' = UntilRetry,
             UNCHANGED <<jobs, verdict, tried, retries, force, gaveUp>>
      PROVE  FInv'
  <2>1. wait' \in Nat /\ retryIn[Feed] \in Nat /\ cool \in Nat /\ wait' >= retryIn[Feed]
    BY <1>2, <1>5, BoundsAreNat DEF UntilRetry, FInv, TypeOK, GateTypeOK
  <2>2. TypeOK'
    BY <1>1, <1>3, <1>5, <2>1 DEF FInv, TypeOK
  <2>3. VisitsAreUsed'
    BY <1>1, <1>5 DEF FInv, VisitsAreUsed, HasCompetition, PageOf, gateVars
  <2>4. JobsAreOpen' /\ HostsAreHosts' /\ HandledIsSettled' /\ FailureToldOnce'
    BY <1>1, <1>5 DEF FInv, JobsAreOpen, HostsAreHosts, HandledIsSettled, FailureToldOnce
  <2>5. RetriesFit' /\ JoinedInTime'
    BY <1>1, <1>5, BoundsAreNat
       DEF FInv, TypeOK, RetriesFit, JoinedInTime, HasCompetition, PageOf, LastRetryWasBlocked
  <2>6. BareIsVisible'
    BY <1>1, <1>5 DEF FInv, BareIsVisible, PageOf
  \* The block that is over later than the sleep is not the one the job met.
  <2>7. RetryFindsTheGateOpen'
    <3>1. cool > wait' => \E c \in Command : retryIn[c] = cool
      BY <2>1, VisitsAreFeedAndCommands DEF FInv, GInv, BlockIsTold
    <3> QED
      BY <1>1, <1>5, <3>1 DEF RetryFindsTheGateOpen, FailsFast, gateVars
  <2> QED
    BY <1>3, <2>2, <2>3, <2>4, <2>5, <2>6, <2>7 DEF FInv
<1> QED
  BY <1>4, <1>5 DEF AfterBlock

LEMMA EndPauseStep ==
  ASSUME FInv, EndPause
  PROVE  FInv'
<1>1. /\ stage = "pausing" /\ stage' = "importing" /\ tried' = TRUE
      /\ import' = [import EXCEPT ![Feed] = "core"] /\ asOf' = [asOf EXCEPT ![Feed] = Posted]
      /\ Enter(Feed) /\ reply' = [reply EXCEPT ![Feed] = "waiting"]
      /\ UNCHANGED <<comp, outcome, jobs, joinable, host, verdict, retries, force, wait,
                     blocked, gaveUp, marked, told, over, restarts>>
  BY DEF EndPause, Dispatch, Enter, Queue, Block, Listener
<1>2. Feed \in Visit /\ import[Feed] = "idle" /\ reply[Feed] = "none"
  BY <1>1, PauseIsQuiet, VisitsAreFeedAndCommands
<1>3. GInv' /\ GateTypeOK'
  BY <1>1, <1>2, EnterStep DEF FInv, GInv
<1>4. /\ import' \in [Visit -> {"idle", "core", "backfill"}]
      /\ asOf' \in [Visit -> SUBSET Notice] /\ asOf'[Feed] = Posted
      /\ \A v \in Visit : import'[v] = IF v = Feed THEN "core" ELSE import[v]
      /\ \A v \in Visit \ {Feed} : reply'[v] = reply[v]
  BY <1>1, <1>2 DEF FInv, TypeOK, GateTypeOK, Posted
<1>5. TypeOK'
  BY <1>1, <1>3, <1>4 DEF FInv, TypeOK
<1>6. VisitsAreUsed'
  BY <1>1, <1>2, <1>4, VisitsAreFeedAndCommands
     DEF FInv, VisitsAreUsed, HasCompetition, PageOf
<1>7. JobsAreOpen' /\ HostsAreHosts' /\ HandledIsSettled' /\ FailureToldOnce'
  BY <1>1 DEF FInv, JobsAreOpen, HostsAreHosts, HandledIsSettled, FailureToldOnce
<1>8. RetriesFit' /\ JoinedInTime' /\ RetryFindsTheGateOpen'
  BY <1>1, <1>4 DEF FInv, RetriesFit, JoinedInTime, RetryFindsTheGateOpen, Posted,
                    HasCompetition, PageOf
<1>9. BareIsVisible'
  BY <1>1, <1>2, <1>4 DEF FInv, BareIsVisible, PageOf
<1> QED
  BY <1>3, <1>5, <1>6, <1>7, <1>8, <1>9 DEF FInv

LEMMA RestartStep ==
  ASSUME FInv, Restart
  PROVE  FInv'
<1>1. /\ line' = <<>> /\ turn' = "free" /\ cool' = 0 /\ strikes' = 0 /\ gap' = 0
      /\ reply' = [v \in Visit |-> "none"] /\ retryIn' = [v \in Visit |-> 0]
      /\ import' = [v \in Visit |-> "idle"]
  BY DEF Restart
<1>2. /\ jobs' = <<>> /\ stage' = "delay" /\ joinable' = [s \in Slug |-> None]
      /\ tried' = FALSE /\ retries' = 0 /\ force' = FALSE /\ wait' = 0
      /\ blocked' = FALSE /\ gaveUp' = None
      /\ over' = over \cup Posted
      /\ UNCHANGED <<comp, asOf, host, marked, told>>
  BY DEF Restart
<1>3. GInv' /\ GateTypeOK'
  BY <1>1, BackoffIsPositive, MinGapIsNat
     DEF GInv, GateTypeOK, Reply, TurnIsQueued, LineIsOfWaiters, BlockIsTold
<1>4. /\ outcome' \in [Command -> {"none", "running", "ok", "failed", "lost"}]
      /\ \A c \in Command :
           outcome'[c] = IF outcome[c] = "running" THEN "lost" ELSE outcome[c]
  BY DEF Restart, FInv, TypeOK
<1>5. /\ verdict' \in [Notice -> {"none", "ok", "failed", "gaveUp", "lost"}]
      /\ \A n \in Notice :
           verdict'[n] = IF n \in Posted \ over THEN "lost" ELSE verdict[n]
  BY DEF Restart, FInv, TypeOK
<1>6. TypeOK'
  <2>1. import' \in [Visit -> {"idle", "core", "backfill"}] /\ jobs' \in Seq(Notice)
        /\ joinable' \in [Slug -> Notice \cup {None}] /\ over' \subseteq Notice
    BY <1>1, <1>2 DEF FInv, TypeOK, Posted
  <2>2. retries' \in 0..BlockRetries /\ restarts' \in 0..MaxRestarts
    BY BoundsAreNat DEF Restart, FInv, TypeOK
  <2>3. tried' \in BOOLEAN /\ force' \in BOOLEAN /\ blocked' \in BOOLEAN
    BY <1>2
  <2> QED
    BY <1>2, <1>3, <1>4, <1>5, <2>1, <2>2, <2>3 DEF FInv, TypeOK
<1>7. VisitsAreUsed' /\ JobsAreOpen' /\ RetriesFit' /\ JoinedInTime' /\ RetryFindsTheGateOpen'
  <2>1. \A c \in Command : outcome'[c] # "running"
    BY <1>4
  <2> QED
    BY <1>1, <1>2, <2>1, VisitsAreFeedAndCommands
       DEF VisitsAreUsed, JobsAreOpen, RetriesFit, JoinedInTime, RetryFindsTheGateOpen
<1>8. HostsAreHosts'
  BY <1>2, <1>5 DEF FInv, HostsAreHosts, Posted
<1>9. HandledIsSettled'
  <2>1. ASSUME NEW n \in over' PROVE host[n] # None /\ verdict'[host[n]] # "none"
    <3>1. n \in Notice /\ host[n] # None /\ host[n] \in Notice /\ host[host[n]] = host[n]
      BY <1>2, <2>1 DEF FInv, TypeOK, HandledIsSettled, HostsAreHosts, Posted
    <3>2. host[n] \in over => verdict[host[n]] # "none"
      BY <3>1 DEF FInv, HandledIsSettled
    <3> QED
      BY <1>5, <3>1, <3>2 DEF Posted
  <2> QED
    BY <1>2, <2>1 DEF FInv, HandledIsSettled
<1>10. FailureToldOnce'
  <2>1. \A n \in told \cup marked : n \in Notice /\ host[n] \in Notice /\ verdict[host[n]] # "none"
    BY DEF FInv, HandledIsSettled, TypeOK
  <2>2. \A n \in told : host[n] \in over
    BY DEF FInv, HandledIsSettled
  <2>3. \A n \in told \cup marked : verdict'[host[n]] \in {verdict[host[n]], "lost"}
    BY <1>5, <2>1
  <2>4. \A n \in told : verdict'[host[n]] = verdict[host[n]]
    BY <1>5, <2>1, <2>2
  <2> QED
    BY <1>2, <2>3, <2>4 DEF FInv, FailureToldOnce
\* Whoever was at work on a competition is lost with the process.
<1>11. BareIsVisible'
  <2> SUFFICES ASSUME NEW s \in Slug, comp[s] = "bare"
               PROVE  \/ \E n \in Notice : /\ Page[n].slug = s
                                           /\ verdict'[n] \in {"failed", "gaveUp", "lost"}
                      \/ \E c \in Command : Page[c].slug = s /\ outcome'[c] \in {"failed", "lost"}
    BY <1>2 DEF BareIsVisible
  <2>1. CASE stage # "delay" /\ PageOf(Feed).slug = s
    <3>1. /\ jobs # <<>> /\ Head(jobs) \in Notice /\ host[Head(jobs)] = Head(jobs)
          /\ Head(jobs) \notin over /\ PageOf(Feed) = Page[Head(jobs)]
      BY <2>1, RunningJob DEF FInv, JobsAreOpen
    <3> QED
      BY <1>5, <2>1, <3>1, NoneIsNothing DEF Posted
  <2>2. CASE \E c \in Command : import[c] = "backfill" /\ PageOf(c).slug = s
    BY <1>4, <2>2, VisitsAreFeedAndCommands DEF FInv, VisitsAreUsed, PageOf
  <2>3. CASE \E n \in Notice : Page[n].slug = s /\ verdict[n] \in {"failed", "gaveUp", "lost"}
    BY <1>5, <2>3
  <2>4. CASE \E c \in Command : Page[c].slug = s /\ outcome[c] \in {"failed", "lost"}
    BY <1>4, <2>4
  <2> QED
    BY <2>1, <2>2, <2>3, <2>4, VisitsAreFeedAndCommands DEF FInv, VisitsAreUsed, BareIsVisible
<1> QED
  BY <1>3, <1>6, <1>7, <1>8, <1>9, <1>10, <1>11 DEF FInv

LEMMA UnchangedFInv == FInv /\ UNCHANGED vars => FInv'
<1> SUFFICES ASSUME FInv, UNCHANGED gateVars, UNCHANGED feedVars PROVE FInv'
  BY DEF vars
<1>1. GInv' /\ GateTypeOK'
  BY DEF FInv, GInv, GateTypeOK, gateVars, TurnIsQueued, LineIsOfWaiters, BlockIsTold
<1>2. TypeOK'
  BY <1>1 DEF FInv, TypeOK, feedVars
<1>3. VisitsAreUsed' /\ RetriesFit' /\ BareIsVisible'
  BY DEF FInv, VisitsAreUsed, RetriesFit, BareIsVisible, HasCompetition, PageOf, gateVars,
         feedVars
<1>4. JobsAreOpen' /\ HostsAreHosts' /\ HandledIsSettled' /\ FailureToldOnce'
  BY DEF FInv, JobsAreOpen, HostsAreHosts, HandledIsSettled, FailureToldOnce, feedVars
<1>5. JoinedInTime' /\ RetryFindsTheGateOpen'
  BY DEF FInv, JoinedInTime, RetryFindsTheGateOpen, Posted, Running, gateVars, feedVars
<1> QED
  BY <1>1, <1>2, <1>3, <1>4, <1>5 DEF FInv

-----------------------------------------------------------------------------
(* The theorems about the feed.                                              *)

LEMMA StepFInv == FInv /\ [Next]_vars => FInv'
<1> SUFFICES ASSUME FInv, Next PROVE FInv'
  BY UnchangedFInv
<1>1. CASE ServeRequest \/ Pass \/ Restart
  BY <1>1, ServeRequestStep, PassStep, RestartStep
<1>2. CASE FeedStep
  BY <1>2, EndDelayStep, StartBackfillStep, JobReturnsStep, JobIsBlockedStep, AfterBlockStep,
     EndPauseStep, VisitsAreFeedAndCommands DEF FeedStep
<1>3. CASE \E n \in Notice : Enqueue(n) \/ Handled(n)
  BY <1>3, EnqueueStep, HandledStep
<1>4. CASE \E c \in Command : StartCommand(c) \/ CommandStep(c)
  BY <1>4, StartCommandStep, StartBackfillStep, EndCommandStep, VisitsAreFeedAndCommands
     DEF CommandStep
<1> QED
  BY <1>1, <1>2, <1>3, <1>4 DEF Next

LEMMA Invariance == Spec => []FInv
BY InitFInv, StepFInv, PTL DEF Spec

\* The feed's queue, its retries, what it has posted and the gate below keep their types.
THEOREM TypeCorrect == Spec => []TypeOK
<1>1. FInv => TypeOK
  BY DEF FInv
<1> QED
  BY <1>1, Invariance, PTL

\* A notification that merges never joins a job that has begun to read TP before
\* it was posted.
THEOREM MergesInTime == Spec => []JoinedInTime
<1>1. FInv => JoinedInTime
  BY DEF FInv
<1> QED
  BY <1>1, Invariance, PTL

\* A competition whose backfill is missing is being worked on, will be, or can be seen
\* to lack it, whatever blocks, failures and restarts come between.
THEOREM BareNeverHides == Spec => []BareIsVisible
<1>1. FInv => BareIsVisible
  BY DEF FInv
<1> QED
  BY <1>1, Invariance, PTL

\* At most one message reports the failure of a job, however many notifications joined
\* it, and none of these is marked, whether the message is posted or dropped.
THEOREM OneReportPerJob == Spec => []FailureToldOnce
<1>1. FInv => FailureToldOnce
  BY DEF FInv
<1> QED
  BY <1>1, Invariance, PTL

\* A job that sleeps wakes after the block it met: only a later visit's block can
\* last longer.
THEOREM RetriesWaitLongEnough == Spec => []RetryFindsTheGateOpen
<1>1. FInv => RetryFindsTheGateOpen
  BY DEF FInv
<1> QED
  BY <1>1, Invariance, PTL

\* The gate keeps its silence under the feed and the commands too, through retries
\* and restarts.
THEOREM FeedSilenceHolds == Spec => []SilenceIsKept
<1>1. FInv => SilenceIsKept
  BY SilenceFollows DEF FInv
<1> QED
  BY <1>1, Invariance, PTL

=============================================================================
