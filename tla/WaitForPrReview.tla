--------------------------- MODULE WaitForPrReview ---------------------------
(***************************************************************************)
(* The wait-for-pr-review command of tools/dev-workflow-cli: it polls a    *)
(* pull request until somebody has reviewed it, asks CodeRabbit once for a *)
(* review, and ends at its deadline.  One poll is up to three calls of gh, *)
(* each with a bound of its own, while the pull request goes on changing.  *)
(*                                                                         *)
(* A comment is modelled by what it says.  Comments the caller excludes by *)
(* their id are those that qualify no more, and are left out; of the       *)
(* reviews, the first one may be excluded.                                 *)
(***************************************************************************)
EXTENDS Integers, Sequences, FiniteSets

CONSTANTS
  Timeout,      \* timeoutMs
  Interval,     \* intervalMs
  Settling,     \* TRIGGER_SETTLE_MS
  Drift,        \* bound: how late a timer may fire
  TriggerTimes, \* when a caller may ask for a trigger
  MaxChanges    \* bound: what happens to the pull request

ASSUME WaitBoundsAreNat ==
  /\ {Timeout, Interval, Settling, Drift, MaxChanges} \subseteq Nat
  /\ Interval > 0 /\ TriggerTimes \subseteq Nat

\* A review with a text; one without, but with new inline comments; one with
\* nothing but replies.
ReviewKind == {"text", "inline", "hollow"}

\* What CodeRabbit may post: that it is rate limited (a comment, or an edit of the
\* rolling one), that it could not update a comment, that it does not review this
\* repository by itself.
Notice == {"limit", "limitEdit", "notUpdated", "starGate"}

VARIABLES
  clock,
  head,        \* the number of commits pushed
  reviews,     \* the reviews submitted, in order
  clean,       \* the commit of the last pass with nothing to report, or -1
  notices,     \* what CodeRabbit has posted
  handled,     \* excludeReviewId: the caller knows the first review
  triggerAt,   \* triggerAfterEpochSeconds; past every clock when it is not given

  step,        \* the call under way, or what the loop does
  left,        \* the time the call, or the sleep, has left
  polled,      \* what the reviews call returned
  outcome,     \* what the poll found
  discarded,   \* discardedReviewIds
  triggered,
  result,

  asked,       \* history: trigger comments posted, or tried
  since,       \* history: the head, and whether asked, as the poll began
  hidden       \* history: polls that saw a text behind a hollow review

prVars == <<head, reviews, clean, notices>>
callerVars == <<handled, triggerAt>>
pollVars == <<polled, outcome>>
loopVars == <<discarded, triggered, result, asked, since, hidden>>
waitVars == <<clock, prVars, callerVars, step, left, pollVars, loopVars>>

Horizon == Timeout + 2 * Interval + Settling + Drift

Nobody == 0
Nothing == [review |-> Nobody, pass |-> -1, discard |-> Nobody, notices |-> {}]
NotPolled == [candidate |-> Nobody, head |-> -1, notices |-> {}, hides |-> FALSE]
Pending == [kind |-> "none", review |-> Nobody, pass |-> -1]

PollStep == {"reviews", "lookup", "rolling", "trigger"}

WaitInit ==
  /\ clock = 0 /\ head = 0 /\ clean = -1 /\ notices = {}
  /\ handled \in BOOLEAN
  /\ reviews = IF handled THEN <<"text">> ELSE <<>>
  /\ triggerAt \in TriggerTimes \cup {Horizon + 1}
  /\ step = "reviews" /\ left = Timeout
  /\ polled = NotPolled /\ outcome = Nothing
  /\ discarded = {} /\ triggered = FALSE /\ result = Pending
  /\ asked = 0 /\ since = [head |-> 0, asked |-> FALSE] /\ hidden = 0

-----------------------------------------------------------------------------
(* The pull request: its author, its reviewers and CodeRabbit.               *)

PrChanges ==
  /\ step \in PollStep \cup {"sleep"}
  /\ head + Len(reviews) + (clean + 1) + Cardinality(notices) < MaxChanges
  /\ \/ /\ head' = head + 1
        /\ UNCHANGED <<reviews, clean, notices>>
     \/ /\ \E k \in ReviewKind : reviews' = Append(reviews, k)
        /\ UNCHANGED <<head, clean, notices>>
     \/ /\ \E commit \in clean + 1..head : clean' = commit
        /\ UNCHANGED <<head, reviews, notices>>
     \/ /\ \E n \in Notice \ notices : notices' = notices \cup {n}
        /\ UNCHANGED <<head, reviews, clean>>
  /\ UNCHANGED <<clock, callerVars, step, left, pollVars, loopVars>>

\* Time passes in a call, up to its bound, and in a sleep.
WaitPasses ==
  /\ step \in PollStep \cup {"sleep"} /\ left > 0
  /\ clock' = IF clock < Horizon THEN clock + 1 ELSE clock
  /\ left' = left - 1
  /\ UNCHANGED <<prVars, callerVars, step, pollVars, loopVars>>

-----------------------------------------------------------------------------
(* poll()                                                                    *)

\* Mutant: the wait never looks at its deadline.
NeverOverdue == FALSE

Overdue == clock >= Timeout

\* budgetMs()
Budget == IF clock < Timeout THEN Timeout - clock ELSE Interval

Call(next) == step' = next /\ left' = Budget

\* Mutant: only the last discard is excluded.
ExcludedOne ==
  (IF handled THEN {1} ELSE {}) \cup {n \in discarded : \A k \in discarded : k <= n}

Excluded == discarded \cup (IF handled THEN {1} ELSE {})

\* reviewFilter(): the first review that is not excluded, if there is one.
Candidates ==
  LET open == {n \in DOMAIN reviews : n \notin Excluded} IN
  IF open = {} THEN {Nobody} ELSE {n \in open : \A k \in open : n <= k}

\* What one answer of gh pr view says.  The head may be missing from it.
Answer(n, known) ==
  [candidate |-> n,
   head |-> IF known THEN head ELSE -1,
   notices |-> notices \ {"limitEdit"},
   hides |-> n # Nobody /\ reviews[n] = "hollow"
               /\ \E k \in DOMAIN reviews \ Excluded : reviews[k] = "text"]

\* The outcome of a poll that ends here.
Found(what) == outcome' = what /\ step' = "decide" /\ left' = 0

\* The reviews call ended without a review to trust: the rolling comment is
\* looked at, unless the deadline has passed.
Onward(what) ==
  IF Overdue THEN Found(Nothing) ELSE Call("rolling") /\ outcome' = what

PolledReviews ==
  /\ step = "reviews"
  /\ \/ \E n \in Candidates, known \in BOOLEAN :
          LET said == Answer(n, known) IN
          /\ polled' = said
          /\ IF n = Nobody THEN Onward([Nothing EXCEPT !.notices = said.notices])
             ELSE IF reviews[n] = "text"
             THEN Found([Nothing EXCEPT !.review = n, !.notices = said.notices])
             ELSE Call("lookup") /\ UNCHANGED outcome
     \/ polled' = NotPolled /\ Found(Nothing)
  /\ UNCHANGED <<clock, prVars, callerVars, loopVars>>

\* Mutant: a look-up that could not answer is taken for a yes.
TrustedUnless(n, answered) == ~answered \/ reviews[n] = "inline"

\* hasGenuineInlineComments(), where no answer counts as a no.
Trusted(n, answered) == answered /\ reviews[n] = "inline"

\* checkedReview(): a review without a text is found or discarded.
LookedUp ==
  /\ step = "lookup"
  /\ LET n == polled.candidate IN
     \E answered \in BOOLEAN :
       IF Trusted(n, answered)
       THEN Onward([Nothing EXCEPT !.review = n, !.notices = polled.notices])
       ELSE Onward([Nothing EXCEPT !.discard = n, !.notices = polled.notices])
  /\ UNCHANGED <<clock, prVars, callerVars, polled, loopVars>>

\* coversHeadCommit(): the head as the reviews call reported it.
CoversHead == clean # -1 /\ clean = polled.head

\* pollRollingComment(): what it matched replaces the finding, a discard excepted.
PolledRolling ==
  /\ step = "rolling"
  /\ \/ /\ "limitEdit" \in notices
        /\ Found([Nothing EXCEPT !.notices = {"limit"}, !.discard = outcome.discard])
     \/ /\ "limitEdit" \notin notices /\ CoversHead
        /\ Found([Nothing EXCEPT !.pass = clean, !.discard = outcome.discard])
     \/ /\ "limitEdit" \notin notices /\ ~CoversHead
        /\ Found(outcome)
     \/ Found(outcome)
  /\ UNCHANGED <<clock, prVars, callerVars, polled, loopVars>>

-----------------------------------------------------------------------------
(* run()                                                                     *)

Return(kind) ==
  /\ result' = [kind |-> kind, review |-> outcome.review, pass |-> outcome.pass]
  /\ step' = "done" /\ left' = 0

\* One sleep, unless the deadline has passed.
Sleep(time) ==
  IF Overdue THEN Return("timedOut")
  ELSE /\ step' = "sleep"
       /\ \E late \in 0..Drift : left' = time + late
       /\ UNCHANGED result

TriggerDue == ~triggered /\ (clock >= triggerAt \/ "starGate" \in outcome.notices)

Decide ==
  /\ step = "decide"
  /\ hidden' = IF polled.hides /\ ~Overdue THEN hidden + 1 ELSE hidden
  /\ discarded' = discarded \cup ({outcome.discard} \ {Nobody})
  /\ IF outcome.review # Nobody \/ outcome.pass # -1
     THEN Return("found") /\ UNCHANGED <<triggered, asked>>
     ELSE IF TriggerDue
     THEN Call("trigger") /\ triggered' = TRUE /\ asked' = asked + 1 /\ UNCHANGED result
     ELSE /\ UNCHANGED <<triggered, asked>>
          /\ IF "limit" \in outcome.notices THEN Return("rateLimited")
             ELSE IF "notUpdated" \in outcome.notices THEN Return("commentUpdateFailed")
             ELSE Sleep(Interval)
  /\ UNCHANGED <<clock, prVars, callerVars, pollVars, since>>

\* Mutant: what the poll found before the trigger is reported after it.
AfterTriggerReport ==
  IF "limit" \in outcome.notices THEN Return("rateLimited") ELSE Sleep(Settling)

\* justTriggered: the findings are those of before the trigger.
AfterTrigger == Sleep(Settling)

\* triggerReview() has posted its comment, or failed.
Triggered ==
  /\ step = "trigger"
  /\ AfterTrigger
  /\ UNCHANGED <<clock, prVars, callerVars, pollVars, discarded, triggered, asked, since, hidden>>

\* Awake, perhaps late: the next poll, unless the deadline has passed.
Wake ==
  /\ step = "sleep" /\ left = 0
  /\ IF Overdue THEN Return("timedOut") /\ UNCHANGED <<since, pollVars>>
     ELSE /\ Call("reviews")
          /\ since' = [head |-> head, asked |-> asked > 0]
          /\ polled' = NotPolled /\ outcome' = Nothing
          /\ UNCHANGED result
  /\ UNCHANGED <<clock, prVars, callerVars, discarded, triggered, asked, hidden>>

WaitStep == PolledReviews \/ LookedUp \/ PolledRolling \/ Decide \/ Triggered \/ Wake

WaitNext == PrChanges \/ WaitPasses \/ WaitStep

WaitSpec == WaitInit /\ [][WaitNext]_waitVars

-----------------------------------------------------------------------------
(* Properties.                                                               *)

\* What is found is a review: neither one the caller has handled nor one without
\* content, and a pass with nothing to report covers what was the head when the
\* poll began, or later.  It is found by the deadline.
FoundIsGenuine ==
  result.kind = "found" =>
    /\ clock <= Timeout
    /\ result.pass # -1 => result.pass >= since.head
    /\ result.review # Nobody =>
         /\ reviews[result.review] # "hollow"
         /\ handled => result.review # 1

\* Reviews without content do not hide one with a text: every poll that meets one
\* in front of it gets past it for good.
TextIsNotHidden == hidden <= Cardinality(discarded)

\* CodeRabbit is asked at most once, and an answer given after that is from a poll
\* that began later.
AnswersTheTrigger ==
  /\ asked <= 1
  /\ result.kind \in {"rateLimited", "commentUpdateFailed"} /\ asked > 0 => since.asked

\* A wait ends in time: what is under way at the deadline is a look-up and the
\* trigger that follows it, or a sleep, and nothing comes after it.
EndsInTime ==
  step # "done" =>
    \/ clock <= Timeout + 2 * Interval
    \/ step = "sleep" /\ \E pause \in {Interval, Settling} : clock < Timeout + pause + Drift

=============================================================================
