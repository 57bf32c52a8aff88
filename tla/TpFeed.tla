------------------------------- MODULE TpFeed -------------------------------
(***************************************************************************)
(* The TP notification feed of apps/discord-bot: a message becomes an      *)
(* import job (or joins a queued one), jobs run one at a time, an import   *)
(* that TP blocks waits and is run again, and a message whose import had   *)
(* no real failure is marked.  /importtp commands import beside it, through*)
(* the same gate and into the same database.                               *)
(*                                                                         *)
(* An import is modelled by what a block can tell apart: the requests      *)
(* before its competition is written (one stands for all of them), and     *)
(* those of the competition's backfill.                                    *)
(***************************************************************************)
EXTENDS TpGate

CONSTANTS
  Feed,          \* the visit of the job that runs
  Command,       \* /importtp runs, each a visit of its own
  Notice,        \* TP notifications
  Page,          \* what each notification and command imports
  Slug,          \* tournaments
  BlockRetries,  \* TP_FEED_BLOCK_RETRIES
  Margin,        \* TP_FEED_BLOCK_MARGIN_MS
  MaxRestarts,   \* how often the process may restart in a behaviour
  None

\* "roster" stands for every import without a competition, "wrong" for a link
\* that is not the page the notification should point to, "scores" is what a
\* trophy announcement imports.
PageKind == {"match", "competition", "scores", "roster", "wrong"}

ASSUME VisitsAreFeedAndCommands == Visit = Command \cup {Feed} /\ Feed \notin Command
ASSUME PagesAreTyped ==
  Page \in [Notice \cup Command -> [kind : PageKind, slug : Slug]]
ASSUME BoundsAreNat == BlockRetries \in Nat /\ Margin \in Nat /\ MaxRestarts \in Nat
ASSUME NoneIsNothing == None \notin Notice /\ None \notin Nat

VARIABLES
  comp,      \* the competition in the database: absent, without its backfill, or full
  import,    \* how far each visit's import is
  asOf,      \* history: what had been posted (had given up, for a command) when it began
  outcome,   \* what each command replied
  jobs,      \* the queue of feed jobs, each named after the notice that queued it
  stage,     \* what the job at the head is doing
  joinable,  \* queuedTrophyJobs
  host,      \* the job whose result each notice waits for
  verdict,   \* the result of each job
  tried,     \* whether the job has been dispatched before (attempt > 0)
  retries,   \* retries TP answered with a block
  force,     \* forceMatchBackfill
  wait,      \* the time left of the sleep before the next retry
  blocked,   \* whether the block has been announced
  gaveUp,    \* gaveUpOn: the time left of its retryAt
  marked,    \* notices with a check mark
  told,      \* notices whose import failure was posted, and not dropped
  over,      \* notices whose handler has returned
  restarts

feedVars == <<comp, import, asOf, outcome, jobs, stage, joinable, host, verdict, tried,
              retries, force, wait, blocked, gaveUp, marked, told, over, restarts>>

vars == <<gateVars, feedVars>>

Queue == <<jobs, joinable, host>>
Retry == <<tried, retries, force, wait>>
Block == <<blocked, gaveUp>>
Listener == <<marked, told, over>>

TypeOK ==
  /\ GateTypeOK
  /\ comp \in [Slug -> {"absent", "bare", "full"}]
  /\ import \in [Visit -> {"idle", "core", "backfill"}]
  /\ asOf \in [Visit -> SUBSET Notice]
  /\ outcome \in [Command -> {"none", "running", "ok", "failed", "lost"}]
  /\ jobs \in Seq(Notice)
  /\ stage \in {"delay", "importing", "announcing", "pausing"}
  /\ joinable \in [Slug -> Notice \cup {None}]
  /\ host \in [Notice -> Notice \cup {None}]
  /\ verdict \in [Notice -> {"none", "ok", "failed", "gaveUp", "lost"}]
  /\ tried \in BOOLEAN
  /\ retries \in 0..BlockRetries
  /\ force \in BOOLEAN
  /\ wait \in Nat
  /\ blocked \in BOOLEAN
  /\ gaveUp \in Nat \cup {None}
  /\ marked \subseteq Notice
  /\ told \subseteq Notice
  /\ over \subseteq Notice
  /\ restarts \in 0..MaxRestarts

Init ==
  /\ GateInit
  /\ comp = [s \in Slug |-> "absent"]
  /\ import = [v \in Visit |-> "idle"]
  /\ asOf = [v \in Visit |-> {}]
  /\ outcome = [c \in Command |-> "none"]
  /\ jobs = <<>>
  /\ stage = "delay"
  /\ joinable = [s \in Slug |-> None]
  /\ host = [n \in Notice |-> None]
  /\ verdict = [n \in Notice |-> "none"]
  /\ tried = FALSE /\ retries = 0 /\ force = FALSE /\ wait = 0
  /\ blocked = FALSE /\ gaveUp = None
  /\ marked = {} /\ told = {} /\ over = {}
  /\ restarts = 0

Posted == {n \in Notice : host[n] # None}

\* The job at the head of the queue; its predecessor has settled.
Running(n) == jobs # <<>> /\ n = Head(jobs)

\* What a visit imports, while it imports.
PageOf(v) == IF v = Feed THEN Page[Head(jobs)] ELSE Page[v]

-----------------------------------------------------------------------------
(* TpFeedImportService.enqueue(), called before the handler's first await.   *)

\* Only trophy announcements with a competition link merge.
Key(n) == IF Page[n].kind = "scores" THEN {Page[n].slug} ELSE {}

Enqueue(n) ==
  /\ host[n] = None
  /\ IF \E s \in Key(n) : joinable[s] # None
     THEN /\ host' = [host EXCEPT ![n] = joinable[Page[n].slug]]
          /\ UNCHANGED <<jobs, joinable>>
     ELSE /\ host' = [host EXCEPT ![n] = n]
          /\ jobs' = Append(jobs, n)
          /\ joinable' = [s \in Slug |-> IF s \in Key(n) THEN n ELSE joinable[s]]
  /\ UNCHANGED <<gateVars, comp, import, asOf, outcome, stage, verdict, Retry, Block,
                 Listener, restarts>>

-----------------------------------------------------------------------------
(* The imports of packages/import-tp-live, through the gate.                 *)

\* dispatch(): the import's first request.
Dispatch(v, seen) ==
  /\ import' = [import EXCEPT ![v] = "core"]
  /\ asOf' = [asOf EXCEPT ![v] = seen]
  /\ Enter(v)

\* Mutant: only the page forces the backfill.
ForcedByPage(v) == PageOf(v).kind = "scores"

\* The backfill runs even if the competition exists already.
Forced(v) == PageOf(v).kind = "scores" \/ (v = Feed /\ force)

HasCompetition(v) == PageOf(v).kind \in {"match", "competition", "scores"}

\* Writing the competition creates it.
Creates(v) == HasCompetition(v) /\ comp[PageOf(v).slug] = "absent"

BackfillDue(v) == HasCompetition(v) /\ (Creates(v) \/ Forced(v))

\* The competition after it was written.
Written(v) == [comp EXCEPT ![PageOf(v).slug] = IF @ = "absent" THEN "bare" ELSE @]

\* The competition is written and its backfill's first request made.
StartBackfill(v) ==
  /\ import[v] = "core" /\ reply[v] = "ok"
  /\ BackfillDue(v)
  /\ comp' = Written(v)
  /\ import' = [import EXCEPT ![v] = "backfill"]
  /\ Enter(v)
  /\ UNCHANGED <<asOf, outcome, stage, Queue, verdict, Retry, Block, Listener, restarts>>

\* The import returns and no stage reported an error.
Succeeds(v) ==
  /\ reply[v] = "ok"
  /\ \/ import[v] = "core" /\ ~BackfillDue(v) /\ UNCHANGED comp
     \/ import[v] = "backfill" /\ comp' = [comp EXCEPT ![PageOf(v).slug] = "full"]

\* It returns with errors: a request failed, a stage did, or the database threw,
\* perhaps after the competition was written.
FailsWithErrors(v) ==
  /\ import[v] # "idle"
  /\ \/ reply[v] \in {"ok", "error"} /\ UNCHANGED comp
     \/ import[v] = "core" /\ reply[v] = "ok" /\ Creates(v) /\ comp' = Written(v)

\* It throws a TpBlockedError.
Blocked(v) == import[v] # "idle" /\ reply[v] \in {"forbidden", "refused"}

\* The visit is over and its last answer used.
Leave(v) ==
  /\ import' = [import EXCEPT ![v] = "idle"]
  /\ reply' = [reply EXCEPT ![v] = "none"]
  /\ UNCHANGED <<line, turn, cool, strikes, gap, retryIn, asOf>>

-----------------------------------------------------------------------------
(* ImportTpCommandService.execute().                                         *)

StartCommand(c) ==
  /\ outcome[c] = "none"
  /\ outcome' = [outcome EXCEPT ![c] = "running"]
  /\ Dispatch(c, {n \in Notice : verdict[n] = "gaveUp"})
  /\ UNCHANGED <<comp, stage, Queue, verdict, Retry, Block, Listener, restarts>>

EndCommand(c) ==
  /\ \/ Succeeds(c) /\ outcome' = [outcome EXCEPT ![c] = "ok"]
     \/ FailsWithErrors(c) /\ outcome' = [outcome EXCEPT ![c] = "failed"]
     \/ Blocked(c) /\ UNCHANGED comp /\ outcome' = [outcome EXCEPT ![c] = "failed"]
  /\ Leave(c)
  /\ UNCHANGED <<stage, Queue, verdict, Retry, Block, Listener, restarts>>

-----------------------------------------------------------------------------
(* TpFeedImportService.run(): one job after the other.                       *)

\* The job settles, and the next one's delay starts.
SettleJob(result) ==
  /\ verdict' = [verdict EXCEPT ![Head(jobs)] = result]
  /\ jobs' = Tail(jobs)
  /\ stage' = "delay"
  /\ tried' = FALSE /\ retries' = 0 /\ force' = FALSE /\ wait' = 0

\* Mutant: the job stays joinable until it settles.
StaysJoinable == joinable

\* From here on a further announcement must queue a job of its own.
NoLongerJoinable == [s \in Slug |-> IF joinable[s] = Head(jobs) THEN None ELSE joinable[s]]

\* The import delay is over: the link is wrong, the job fails fast because an
\* earlier one gave up on a block that still holds, or the import starts.
EndDelay ==
  /\ jobs # <<>> /\ stage = "delay"
  /\ joinable' = NoLongerJoinable
  /\ IF Page[Head(jobs)].kind = "wrong" \/ (gaveUp # None /\ gaveUp > 0)
     THEN /\ SettleJob("failed")
          /\ UNCHANGED <<gateVars, import, asOf>>
     ELSE /\ stage' = "importing"
          /\ Dispatch(Feed, Posted)
          /\ UNCHANGED <<jobs, verdict, Retry>>
  /\ UNCHANGED <<comp, outcome, host, Block, Listener, restarts>>

\* The import got through, whatever it reports: the block is over.
JobReturns ==
  /\ stage = "importing"
  /\ \/ Succeeds(Feed) /\ SettleJob("ok")
     \/ FailsWithErrors(Feed) /\ SettleJob("failed")
  /\ Leave(Feed)
  /\ gaveUp' = None
  /\ blocked' = FALSE
  /\ UNCHANGED <<outcome, joinable, host, Listener, restarts>>

\* Mutant: the counter starts again with every attempt.
NeverCounts == FALSE

\* Only a retry TP itself answered with a block counts.
CountsAsRetry == tried /\ reply[Feed] = "forbidden"

\* TpBlockedError: the block is announced unless it has been; what the error
\* says is noted.
JobIsBlocked ==
  /\ stage = "importing"
  /\ Blocked(Feed)
  /\ blocked' = TRUE
  /\ force' = (force \/ import[Feed] = "backfill")
  /\ retries' = IF CountsAsRetry THEN retries + 1 ELSE retries
  /\ stage' = "announcing"
  /\ Leave(Feed)
  /\ UNCHANGED <<comp, outcome, Queue, verdict, tried, wait, gaveUp, Listener, restarts>>

\* Mutant: a job does not look at what an earlier one gave up on.
NeverFailsFast == FALSE

\* An earlier job gave up, and no import has got through since.
FailsFast == gaveUp # None

\* Mutant: one retry too many.
OneMoreRetry == retries > BlockRetries

LastRetryWasBlocked == retries >= BlockRetries

\* Mutant: Math.min for Math.max.
OnlyTheMargin == Margin

\* untilRetry(): the rest of the back-off, and a margin.
UntilRetry == retryIn[Feed] + Margin

\* The announcement is posted.  The job fails fast, gives up after its last
\* retry, or sleeps until the block's back-off ends.
AfterBlock ==
  /\ stage = "announcing"
  /\ \/ /\ FailsFast
        /\ SettleJob("failed")
        /\ UNCHANGED gaveUp
     \/ /\ ~FailsFast /\ LastRetryWasBlocked
        /\ SettleJob("gaveUp")
        /\ gaveUp' = retryIn[Feed]
     \/ /\ ~FailsFast /\ ~LastRetryWasBlocked
        /\ stage' = "pausing"
        /\ wait' = UntilRetry
        /\ UNCHANGED <<jobs, verdict, tried, retries, force, gaveUp>>
  /\ UNCHANGED <<gateVars, comp, import, asOf, outcome, joinable, host, blocked, Listener,
                 restarts>>

EndPause ==
  /\ stage = "pausing"
  /\ wait = 0
  /\ stage' = "importing"
  /\ tried' = TRUE
  /\ Dispatch(Feed, Posted)
  /\ UNCHANGED <<comp, outcome, Queue, verdict, retries, force, wait, Block, Listener,
                 restarts>>

-----------------------------------------------------------------------------
(* TpFeedListenerService.handleMessage(), after its job's result is in.      *)

\* Mutant: a merged notification's failure is reported like any other.
AlreadyReportedIgnored(n) == FALSE

\* The result came from a job another notification queued.
AlreadyReported(n) == host[n] # n

\* described: the line that describes the notification was posted before, or there
\* is no debug channel.  posted: there is one, and takes the line about the failure.
\* A post that fails is logged and dropped.
Handled(n) ==
  /\ n \in Posted \ over
  /\ verdict[host[n]] \in {"ok", "failed", "gaveUp"}
  /\ over' = over \cup {n}
  /\ IF verdict[host[n]] = "ok"
     THEN /\ \E described \in BOOLEAN :
               marked' = IF described THEN marked \cup {n} ELSE marked
          /\ UNCHANGED told
     ELSE /\ \E posted \in BOOLEAN :
               told' = IF posted /\ ~AlreadyReported(n) THEN told \cup {n} ELSE told
          /\ UNCHANGED marked
  /\ UNCHANGED <<gateVars, comp, import, asOf, outcome, jobs, stage, joinable, host, verdict,
                 Retry, Block, restarts>>

-----------------------------------------------------------------------------

\* A restart or deploy: all but the database and the posted messages is lost.
Restart ==
  /\ restarts < MaxRestarts
  /\ restarts' = restarts + 1
  /\ line' = <<>> /\ turn' = "free" /\ cool' = 0 /\ strikes' = 0 /\ gap' = 0
  /\ reply' = [v \in Visit |-> "none"]
  /\ retryIn' = [v \in Visit |-> 0]
  /\ import' = [v \in Visit |-> "idle"]
  /\ outcome' = [c \in Command |-> IF outcome[c] = "running" THEN "lost" ELSE outcome[c]]
  /\ jobs' = <<>> /\ stage' = "delay"
  /\ joinable' = [s \in Slug |-> None]
  /\ verdict' = [n \in Notice |->
                   IF n \in Posted \ over THEN "lost" ELSE verdict[n]]
  /\ tried' = FALSE /\ retries' = 0 /\ force' = FALSE /\ wait' = 0
  /\ blocked' = FALSE /\ gaveUp' = None
  /\ over' = over \cup Posted
  /\ UNCHANGED <<comp, asOf, host, marked, told>>

\* Time passes for the gate and for the feed's timers.
Pass ==
  /\ Counting \/ wait > 0 \/ (gaveUp # None /\ gaveUp > 0)
  /\ Elapse
  /\ wait' = Less(wait)
  /\ gaveUp' = IF gaveUp = None THEN None ELSE Less(gaveUp)
  /\ UNCHANGED <<comp, import, asOf, outcome, jobs, stage, joinable, host, verdict, tried,
                 retries, force, blocked, marked, told, over, restarts>>

FeedStep == EndDelay \/ StartBackfill(Feed) \/ JobReturns \/ JobIsBlocked \/ AfterBlock
              \/ EndPause

CommandStep(c) == StartBackfill(c) \/ EndCommand(c)

ServeRequest == Serve /\ UNCHANGED feedVars

Next ==
  \/ ServeRequest \/ Pass \/ FeedStep \/ Restart
  \/ \E n \in Notice : Enqueue(n) \/ Handled(n)
  \/ \E c \in Command : StartCommand(c) \/ CommandStep(c)

Spec == Init /\ [][Next]_vars

\* Timers fire, requests are answered or aborted, handlers and imports go on.
Fairness ==
  /\ WF_vars(ServeRequest) /\ WF_vars(Pass) /\ WF_vars(FeedStep)
  /\ \A n \in Notice : WF_vars(Handled(n))
  /\ \A c \in Command : WF_vars(CommandStep(c))

FairSpec == Spec /\ Fairness

-----------------------------------------------------------------------------
(* Properties.                                                               *)

\* A notification waits only for an import that reads TP after it was posted:
\* merging never joins a job that is past its delay.
JoinedInTime ==
  \A n \in Posted : Running(host[n]) /\ stage = "importing" => n \in asOf[Feed]

\* A competition without its backfill is being worked on, will be by a forced
\* retry, or can be seen to lack it: the job of a notification of it came to nothing,
\* so that its mark is missing, or a command's reply does not say that all went well.
BareIsVisible ==
  \A s \in Slug : comp[s] = "bare" =>
    \/ \E v \in Visit : import[v] = "backfill" /\ PageOf(v).slug = s
    \/ stage # "delay" /\ force /\ PageOf(Feed).slug = s
    \/ \E n \in Notice : Page[n].slug = s /\ verdict[n] \in {"failed", "gaveUp", "lost"}
    \/ \E c \in Command : Page[c].slug = s /\ outcome[c] \in {"failed", "lost"}

\* A burst's failure is posted at most once, however many notifications joined the
\* job, and only if the job failed.  Nothing may be posted at all (there is no debug
\* channel, or the post is dropped), so no notification of the burst has a mark then,
\* whoever joined it and whatever restarts come after.
FailureToldOnce ==
  /\ \A m, n \in told : host[m] = host[n] => m = n
  /\ \A n \in told : verdict[host[n]] \in {"failed", "gaveUp"}
  /\ \A n \in marked : verdict[host[n]] \notin {"failed", "gaveUp"}

\* A job that waits has nobody's give-up before it, and sleeps past the block it
\* met: the gate can be blocked for longer only by another visit, and then a
\* command was told so.
RetryFindsTheGateOpen ==
  stage = "pausing" =>
    /\ gaveUp = None
    /\ cool > wait => \E c \in Command : retryIn[c] = cool

\* Every notification is answered, though TP may block for ever and commands may
\* extend the block: a job gives up in the end, and those behind it get their turn.
EveryNoticeIsAnswered == \A n \in Notice : n \in Posted ~> n \in over

\* docs/discord-bot/tp-feed.md: an import that was given up is reported, and
\* "running /importtp on its link later brings it in".
RerunBringsItIn ==
  \A c \in Command, n \in Notice :
    /\ outcome[c] = "ok" /\ n \in asOf[c] /\ Page[c] = Page[n]
    /\ \A v \in Visit : import[v] = "idle"
    => comp[Page[n].slug] = "full"

=============================================================================
