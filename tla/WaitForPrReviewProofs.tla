------------------------ MODULE WaitForPrReviewProofs ------------------------
(***************************************************************************)
(* Proofs about WaitForPrReview for any bounds and any changes of the pull *)
(* request: what is found is a review, hollow reviews do not hide one, the *)
(* trigger is answered, and the wait ends in time.                         *)
(***************************************************************************)
EXTENDS WaitForPrReview, FiniteSetTheorems, TLAPS

Kind == {"none", "found", "timedOut", "rateLimited", "commentUpdateFailed"}

OutcomeType == [review : Nat, pass : Int, discard : Nat, notices : SUBSET Notice]

Types ==
  /\ clock \in Nat /\ head \in Nat /\ reviews \in Seq(ReviewKind)
  /\ clean \in Int /\ clean >= -1 /\ notices \subseteq Notice
  /\ handled \in BOOLEAN /\ triggerAt \in Nat
  /\ step \in PollStep \cup {"decide", "sleep", "done"} /\ left \in Nat
  /\ polled \in [candidate : Nat, head : Int, notices : SUBSET Notice, hides : BOOLEAN]
  /\ outcome \in OutcomeType
  /\ discarded \in SUBSET Nat /\ IsFiniteSet(discarded)
  /\ triggered \in BOOLEAN /\ result \in [kind : Kind, review : Nat, pass : Int]
  /\ asked \in Nat /\ since \in [head : Nat, asked : BOOLEAN] /\ hidden \in Nat

\* Each call's budget, counted from where the poll's calls may begin.
InTime ==
  /\ step \in {"reviews", "rolling"} => clock + left <= Timeout
  /\ step = "lookup" => clock + left <= Timeout + Interval
  /\ step = "decide" => clock <= Timeout + Interval
  /\ step = "trigger" => clock + left <= Timeout + 2 * Interval
  /\ step = "sleep" =>
       \E pause \in {Interval, Settling} : clock + left < Timeout + pause + Drift

\* The poll under way began after the trigger, if one was posted.
PollIsCurrent ==
  /\ step # "done" => result = Pending
  /\ asked = IF triggered THEN 1 ELSE 0
  /\ step \in {"reviews", "lookup", "rolling", "decide"} => since.asked = triggered

IsReview(n) ==
  n \in DOMAIN reviews /\ reviews[n] # "hollow" /\ (handled => n # 1)

\* What the poll has found so far is worth being returned.
FindsReviews ==
  /\ since.head <= head
  /\ step \in {"lookup", "rolling", "decide"} =>
       /\ polled.head # -1 => polled.head >= since.head
       /\ polled.candidate # Nobody =>
            polled.candidate \in DOMAIN reviews /\ (handled => polled.candidate # 1)
  /\ step = "lookup" => polled.candidate # Nobody
  /\ step \in {"rolling", "decide"} /\ outcome.review # Nobody =>
       IsReview(outcome.review) /\ clock <= Timeout
  /\ step \in {"rolling", "decide"} /\ outcome.pass # -1 =>
       outcome.pass >= since.head /\ clock <= Timeout

\* A review that hides another is about to be discarded, for the first time.
DiscardsTheHiding ==
  /\ step \in {"lookup", "rolling", "decide"} /\ polled.hides =>
       /\ polled.candidate # Nobody /\ polled.candidate \notin discarded
       /\ polled.candidate \in DOMAIN reviews /\ reviews[polled.candidate] = "hollow"
  /\ step = "rolling" /\ polled.hides => outcome.discard = polled.candidate
  /\ step = "decide" /\ polled.hides => Overdue \/ outcome.discard = polled.candidate

IInv ==
  /\ Types /\ InTime /\ PollIsCurrent /\ FindsReviews /\ DiscardsTheHiding
  /\ FoundIsGenuine /\ TextIsNotHidden /\ AnswersTheTrigger

-----------------------------------------------------------------------------

LEMMA Bounds ==
  Timeout \in Nat /\ Interval \in Nat /\ Settling \in Nat /\ Drift \in Nat /\ Horizon \in Nat
BY WaitBoundsAreNat DEF Horizon

LEMMA Numbers ==
  ASSUME Types
  PROVE clock \in Nat /\ left \in Nat /\ head \in Nat /\ since.head \in Nat
BY DEF Types

LEMMA Sums ==
  ASSUME NEW a \in Nat, NEW b \in Nat, NEW c \in Nat
  PROVE a + b <= c => a <= c
OBVIOUS

LEMMA InitInv == WaitInit => IInv
<1> SUFFICES ASSUME WaitInit PROVE IInv
  OBVIOUS
<1> USE WaitBoundsAreNat DEF WaitInit
<1>1. Types
  <2>1. reviews \in Seq(ReviewKind)
    <3>1. <<"text">> \in Seq(ReviewKind) /\ <<>> \in Seq(ReviewKind)
      BY DEF ReviewKind
    <3>2. QED
      BY <3>1
  <2>2. triggerAt \in Nat /\ clock \in Nat /\ left \in Nat
    BY Bounds
  <2>3. polled \in [candidate : Nat, head : Int, notices : SUBSET Notice, hides : BOOLEAN]
    BY DEF NotPolled, Nobody
  <2>4. outcome \in OutcomeType
    BY DEF OutcomeType, Nothing, Nobody
  <2>5. discarded \in SUBSET Nat /\ IsFiniteSet(discarded)
    BY FS_EmptySet
  <2>6. result \in [kind : Kind, review : Nat, pass : Int]
    BY DEF Pending, Kind, Nobody
  <2>7. since \in [head : Nat, asked : BOOLEAN]
    OBVIOUS
  <2>8. /\ head \in Nat /\ clean \in Int /\ clean >= -1 /\ notices \subseteq Notice
        /\ step \in PollStep \cup {"decide", "sleep", "done"}
        /\ asked \in Nat /\ hidden \in Nat
    BY DEF PollStep
  <2>9. handled \in BOOLEAN /\ triggered \in BOOLEAN
    OBVIOUS
  <2>10. QED
    BY <2>1, <2>2, <2>3, <2>4, <2>5, <2>6, <2>7, <2>8, <2>9 DEF Types
<1>2. InTime /\ PollIsCurrent /\ FindsReviews /\ DiscardsTheHiding
  <2>1. step = "reviews" /\ clock + left <= Timeout
    OBVIOUS
  <2>2. since.head <= head
    OBVIOUS
  <2>3. since.asked = triggered
    BY Zenon
  <2>4. asked = IF triggered THEN 1 ELSE 0
    OBVIOUS
  <2>5. QED
    BY <2>1, <2>2, <2>3, <2>4 DEF InTime, PollIsCurrent, FindsReviews, DiscardsTheHiding
<1>3. FoundIsGenuine /\ AnswersTheTrigger
  BY DEF FoundIsGenuine, AnswersTheTrigger, Pending
<1>4. TextIsNotHidden
  BY FS_EmptySet DEF TextIsNotHidden
<1>5. QED
  BY <1>1, <1>2, <1>3, <1>4 DEF IInv

LEMMA PrChangesInv == IInv /\ PrChanges => IInv'
<1> SUFFICES ASSUME IInv, PrChanges PROVE IInv'
  OBVIOUS
<1> USE DEF PrChanges, callerVars, pollVars, loopVars
<1>1. Types /\ step # "done" /\ result = Pending
  BY DEF IInv, PollIsCurrent, PollStep
<1>2. /\ head' \in Nat /\ head' >= head /\ clean' \in Int /\ clean' >= -1
      /\ reviews' \in Seq(ReviewKind) /\ notices' \subseteq Notice
      /\ \A n \in DOMAIN reviews : n \in DOMAIN reviews' /\ reviews'[n] = reviews[n]
  <2>1. CASE head' = head + 1 /\ UNCHANGED <<reviews, clean, notices>>
    BY <1>1, <2>1 DEF Types
  <2>2. CASE /\ \E k \in ReviewKind : reviews' = Append(reviews, k)
             /\ UNCHANGED <<head, clean, notices>>
    BY <1>1, <2>2 DEF Types
  <2>3. CASE /\ \E commit \in clean + 1..head : clean' = commit
             /\ UNCHANGED <<head, reviews, notices>>
    BY <1>1, <2>3 DEF Types
  <2>4. CASE /\ \E n \in Notice \ notices : notices' = notices \cup {n}
             /\ UNCHANGED <<head, reviews, clean>>
    BY <1>1, <2>4 DEF Types
  <2>5. QED
    BY <2>1, <2>2, <2>3, <2>4
<1>3. Types'
  BY <1>1, <1>2 DEF Types
<1>4. InTime' /\ PollIsCurrent'
  BY DEF IInv, InTime, PollIsCurrent
<1>5. FindsReviews' /\ DiscardsTheHiding'
  BY <1>1, <1>2 DEF IInv, Types, FindsReviews, IsReview, DiscardsTheHiding, Overdue
<1>6. FoundIsGenuine' /\ TextIsNotHidden' /\ AnswersTheTrigger'
  BY <1>1 DEF IInv, FoundIsGenuine, TextIsNotHidden, AnswersTheTrigger, Pending
<1>7. QED
  BY <1>3, <1>4, <1>5, <1>6 DEF IInv

LEMMA WaitPassesInv == IInv /\ WaitPasses => IInv'
<1> SUFFICES ASSUME IInv, WaitPasses PROVE IInv'
  OBVIOUS
<1> USE DEF WaitPasses, prVars, callerVars, pollVars, loopVars
<1>1. Types /\ step \in PollStep \cup {"sleep"} /\ result = Pending
  BY DEF IInv, PollIsCurrent, PollStep
<1>2. /\ clock' \in Nat /\ left' \in Nat /\ clock <= clock' /\ clock' + left' <= clock + left
      /\ clock' <= clock' + left'
  <2>1. left > 0 /\ left' = left - 1 /\ clock' = IF clock < Horizon THEN clock + 1 ELSE clock
    OBVIOUS
  <2>2. QED
    BY <1>1, <2>1, Bounds, Numbers
<1>3. Types'
  BY <1>1, <1>2 DEF Types
<1>4. InTime'
  <2>1. CASE step = "sleep"
    <3>1. PICK pause \in {Interval, Settling} : clock + left < Timeout + pause + Drift
      BY <2>1 DEF IInv, InTime
    <3>2. clock' + left' < Timeout + pause + Drift
      BY <1>1, <1>2, <3>1, Bounds, Numbers
    <3>3. QED
      BY <2>1, <3>2 DEF InTime
  <2>2. CASE step \in PollStep
    BY <1>1, <1>2, <2>2, Bounds, Numbers DEF IInv, InTime, PollStep
  <2>3. QED
    BY <1>1, <2>1, <2>2
<1>5. PollIsCurrent' /\ DiscardsTheHiding'
  BY <1>1 DEF IInv, PollIsCurrent, DiscardsTheHiding, PollStep
<1>6. FindsReviews'
  <2>1. step = "rolling" => clock' <= Timeout
    BY <1>1, <1>2, <1>4, Bounds, Numbers DEF InTime
  <2>2. QED
    BY <1>1, <2>1 DEF IInv, FindsReviews, IsReview, PollStep
<1>7. FoundIsGenuine' /\ TextIsNotHidden' /\ AnswersTheTrigger'
  BY <1>1 DEF IInv, FoundIsGenuine, TextIsNotHidden, AnswersTheTrigger, Pending
<1>8. QED
  BY <1>3, <1>4, <1>5, <1>6, <1>7 DEF IInv

-----------------------------------------------------------------------------
(* What the steps of a poll have in common.                                  *)

LEMMA BudgetIsBounded ==
  ASSUME Types
  PROVE Budget \in Nat /\ clock + Budget = IF clock < Timeout THEN Timeout ELSE clock + Interval
BY WaitBoundsAreNat DEF Types, Budget

LEMMA NothingIsTyped ==
  /\ Nothing \in OutcomeType /\ Nothing.review = Nobody /\ Nothing.pass = -1
  /\ Nothing.discard = Nobody /\ Nobody = 0
BY DEF Nothing, Nobody, OutcomeType

LEMMA CandidatesAreOpen ==
  ASSUME Types, NEW n \in Candidates, n # Nobody
  PROVE n \in Nat /\ n \in DOMAIN reviews /\ n \notin Excluded
BY DEF Types, Candidates

LEMMA OnwardEnds ==
  ASSUME Types, NEW what \in OutcomeType, Onward(what)
  PROVE /\ step' \in {"decide", "rolling"} /\ left' \in Nat /\ outcome' \in OutcomeType
        /\ step' = "decide" => Overdue /\ outcome' = Nothing
        /\ step' = "rolling" => outcome' = what /\ clock + left' <= Timeout
<1>1. CASE Overdue
  BY <1>1, NothingIsTyped DEF Onward, Found
<1>2. CASE ~Overdue
  BY <1>2, BudgetIsBounded, WaitBoundsAreNat DEF Onward, Call, Overdue, Types
<1>3. QED
  BY <1>1, <1>2

\* What a step of the poll leaves to show.
LEMMA PollStepInv ==
  ASSUME IInv, UNCHANGED <<clock, prVars, callerVars, loopVars>>,
         step \in PollStep \cup {"decide"}, step' \in PollStep \cup {"decide"},
         step' # "trigger", step # "trigger",
         left' \in Nat, outcome' \in OutcomeType,
         polled' \in [candidate : Nat, head : Int, notices : SUBSET Notice, hides : BOOLEAN],
         InTime', FindsReviews', DiscardsTheHiding'
  PROVE IInv'
<1> USE DEF prVars, callerVars, loopVars
<1>1. Types'
  BY DEF IInv, Types
<1>2. PollIsCurrent'
  BY DEF IInv, PollIsCurrent, PollStep
<1>3. FoundIsGenuine' /\ TextIsNotHidden' /\ AnswersTheTrigger'
  BY DEF IInv, FoundIsGenuine, TextIsNotHidden, AnswersTheTrigger
<1>4. QED
  BY <1>1, <1>2, <1>3 DEF IInv

LEMMA PolledReviewsInv == IInv /\ PolledReviews => IInv'
<1> SUFFICES ASSUME IInv, PolledReviews PROVE IInv'
  OBVIOUS
<1>0. step = "reviews" /\ UNCHANGED <<clock, prVars, callerVars, loopVars>>
  BY DEF PolledReviews
<1>1. /\ Types /\ clock <= Timeout /\ clock \in Nat
      /\ since.head <= head /\ since.head \in Nat /\ head \in Nat
  BY <1>0, Bounds, Numbers DEF IInv, InTime, FindsReviews
<1> USE DEF prVars, callerVars, loopVars
<1>2. CASE polled' = NotPolled /\ Found(Nothing)
  <2>1. /\ step' = "decide" /\ left' \in Nat /\ outcome' = Nothing /\ outcome' \in OutcomeType
        /\ polled'.candidate = Nobody /\ polled'.head = -1 /\ ~polled'.hides
        /\ polled' \in [candidate : Nat, head : Int, notices : SUBSET Notice, hides : BOOLEAN]
    BY <1>2, NothingIsTyped DEF Found, NotPolled
  <2>2. InTime'
    BY <1>0, <1>1, <2>1, Bounds DEF InTime
  <2>3. FindsReviews' /\ DiscardsTheHiding'
    BY <1>0, <1>1, <2>1, NothingIsTyped DEF FindsReviews, DiscardsTheHiding
  <2>4. QED
    BY <1>0, <2>1, <2>2, <2>3, PollStepInv DEF PollStep
<1>3. ASSUME NEW n \in Candidates, NEW known \in BOOLEAN, polled' = Answer(n, known),
             IF n = Nobody THEN Onward([Nothing EXCEPT !.notices = Answer(n, known).notices])
             ELSE IF reviews[n] = "text"
             THEN Found([Nothing EXCEPT !.review = n, !.notices = Answer(n, known).notices])
             ELSE Call("lookup") /\ UNCHANGED outcome
      PROVE IInv'
  <2>1. n \in Nat /\ (n # Nobody => n \in DOMAIN reviews /\ n \notin Excluded)
    <3>1. CASE n = Nobody
      BY <3>1 DEF Nobody
    <3>2. CASE n # Nobody
      BY <1>1, <3>2, CandidatesAreOpen
    <3>3. QED
      BY <3>1, <3>2
  <2>2. /\ polled'.candidate = n /\ polled'.head \in {head, -1}
        /\ polled'.hides => n # Nobody /\ reviews[n] = "hollow"
        /\ polled' \in [candidate : Nat, head : Int, notices : SUBSET Notice, hides : BOOLEAN]
        /\ Answer(n, known).notices \in SUBSET Notice
    <3> DEFINE hides == n # Nobody /\ reviews[n] = "hollow"
                          /\ \E k \in DOMAIN reviews \ Excluded : reviews[k] = "text"
    <3>1. notices \ {"limitEdit"} \in SUBSET Notice
      BY <1>1 DEF Types
    <3>2. hides \in BOOLEAN /\ (hides => n # Nobody /\ reviews[n] = "hollow")
      OBVIOUS
    <3>3. Answer(n, known) = [candidate |-> n, head |-> IF known THEN head ELSE -1,
                              notices |-> notices \ {"limitEdit"}, hides |-> hides]
      BY DEF Answer
    <3> HIDE DEF hides
    <3>4. QED
      BY <1>1, <1>3, <2>1, <3>1, <3>2, <3>3
  <2>3. n # Nobody => n \notin discarded /\ (handled => n # 1)
    BY <2>1 DEF Excluded
  <2>4. CASE n = Nobody
    <3> DEFINE what == [Nothing EXCEPT !.notices = Answer(n, known).notices]
    <3>1. what \in OutcomeType /\ what.review = Nobody /\ what.pass = -1
      BY <2>2, NothingIsTyped DEF Nothing, OutcomeType
    <3>2. Onward(what)
      BY <1>3, <2>4
    <3>3. /\ step' \in {"decide", "rolling"} /\ left' \in Nat /\ outcome' \in OutcomeType
          /\ outcome' \in {Nothing, what} /\ (step' = "rolling" => clock + left' <= Timeout)
      BY <1>1, <3>1, <3>2, OnwardEnds
    <3>4. outcome'.review = Nobody /\ outcome'.pass = -1 /\ ~polled'.hides
      BY <2>2, <2>4, <3>1, <3>3, NothingIsTyped
    <3>5. InTime'
      BY <1>0, <1>1, <3>3, Bounds DEF InTime
    <3>6. FindsReviews' /\ DiscardsTheHiding'
      BY <1>0, <1>1, <2>2, <2>3, <2>4, <3>3, <3>4 DEF FindsReviews, DiscardsTheHiding
    <3>7. QED
      BY <1>0, <2>2, <3>3, <3>5, <3>6, PollStepInv DEF PollStep
  <2>5. CASE n # Nobody /\ reviews[n] = "text"
    <3> DEFINE what == [Nothing EXCEPT !.review = n, !.notices = Answer(n, known).notices]
    <3>1. what \in OutcomeType /\ what.review = n /\ what.pass = -1
      BY <2>1, <2>2, NothingIsTyped DEF Nothing, OutcomeType
    <3>2. step' = "decide" /\ left' \in Nat /\ outcome' = what
      <4>1. Found(what)
        BY <1>3, <2>5
      <4>2. QED
        BY <4>1 DEF Found
    <3>3. ~polled'.hides
      BY <2>2, <2>5
    <3>4. InTime'
      BY <1>0, <1>1, <3>2, Bounds DEF InTime
    <3>5. FindsReviews' /\ DiscardsTheHiding'
      BY <1>0, <1>1, <2>1, <2>2, <2>3, <2>5, <3>1, <3>2, <3>3
      DEF FindsReviews, DiscardsTheHiding, IsReview
    <3>6. QED
      BY <1>0, <2>2, <3>1, <3>2, <3>4, <3>5, PollStepInv DEF PollStep
  <2>6. CASE n # Nobody /\ reviews[n] # "text"
    <3>1. step' = "lookup" /\ left' = Budget /\ outcome' = outcome
      BY <1>3, <2>6 DEF Call
    <3>2. left' \in Nat /\ outcome' \in OutcomeType /\ clock + left' <= Timeout + Interval
      <4>1. outcome \in OutcomeType
        BY <1>1 DEF Types
      <4>2. QED
        BY <1>1, <3>1, <4>1, BudgetIsBounded, Bounds
    <3>3. InTime'
      BY <1>0, <3>1, <3>2 DEF InTime
    <3>4. FindsReviews' /\ DiscardsTheHiding'
      BY <1>0, <1>1, <2>1, <2>2, <2>3, <2>6, <3>1 DEF FindsReviews, DiscardsTheHiding
    <3>5. QED
      BY <1>0, <2>2, <3>1, <3>2, <3>3, <3>4, PollStepInv DEF PollStep
  <2>7. QED
    BY <2>4, <2>5, <2>6
<1>4. QED
  BY <1>2, <1>3 DEF PolledReviews

LEMMA LookedUpInv == IInv /\ LookedUp => IInv'
<1> SUFFICES ASSUME IInv, LookedUp PROVE IInv'
  OBVIOUS
<1> DEFINE n == polled.candidate
<1>0. step = "lookup" /\ UNCHANGED <<clock, prVars, callerVars, polled, loopVars>>
  BY DEF LookedUp
<1>1. Types /\ clock \in Nat /\ clock + left <= Timeout + Interval
  BY <1>0, Numbers DEF IInv, InTime
<1> USE DEF prVars, callerVars, loopVars
<1>2. /\ n \in Nat /\ n # Nobody /\ n \in DOMAIN reviews /\ (handled => n # 1)
      /\ polled.notices \in SUBSET Notice
      /\ polled \in [candidate : Nat, head : Int, notices : SUBSET Notice, hides : BOOLEAN]
  BY <1>0, <1>1 DEF IInv, FindsReviews, Types
<1>3. PICK what \in OutcomeType :
        /\ Onward(what) /\ what.pass = -1
        /\ \/ what.review = n /\ reviews[n] = "inline"
           \/ what.review = Nobody /\ what.discard = n
  <2>1. [Nothing EXCEPT !.review = n, !.notices = polled.notices] \in OutcomeType
    BY <1>2, NothingIsTyped DEF Nothing, OutcomeType
  <2>2. [Nothing EXCEPT !.discard = n, !.notices = polled.notices] \in OutcomeType
    BY <1>2, NothingIsTyped DEF Nothing, OutcomeType
  <2>3. PICK answered \in BOOLEAN :
          IF Trusted(n, answered)
          THEN Onward([Nothing EXCEPT !.review = n, !.notices = polled.notices])
          ELSE Onward([Nothing EXCEPT !.discard = n, !.notices = polled.notices])
    BY DEF LookedUp
  <2>4. CASE Trusted(n, answered)
    BY <2>1, <2>3, <2>4, NothingIsTyped DEF Trusted, Nothing
  <2>5. CASE ~Trusted(n, answered)
    BY <2>2, <2>3, <2>5, NothingIsTyped DEF Nothing
  <2>6. QED
    BY <2>4, <2>5
<1>4. /\ step' \in {"decide", "rolling"} /\ left' \in Nat /\ outcome' \in OutcomeType
      /\ step' = "decide" => Overdue /\ outcome' = Nothing
      /\ step' = "rolling" => outcome' = what /\ clock + left' <= Timeout
  BY <1>1, <1>3, OnwardEnds
<1>5. InTime'
  <2>1. left \in Nat /\ clock' = clock
    BY <1>0, <1>1, Numbers
  <2>2. clock <= Timeout + Interval
    BY <1>1, <2>1, Bounds
  <2>3. CASE step' = "rolling"
    <3>1. clock + left' <= Timeout
      BY <1>4, <2>3
    <3>2. QED
      BY <2>1, <2>3, <3>1 DEF InTime
  <2>4. CASE step' = "decide"
    BY <2>1, <2>2, <2>4 DEF InTime
  <2>5. QED
    BY <1>4, <2>3, <2>4
<1>6. FindsReviews'
  <2>1. step' = "rolling" => clock <= Timeout
    <3>1. clock \in Nat /\ left' \in Nat /\ Timeout \in Nat
      BY <1>1, <1>4, Bounds
    <3>2. clock + left' <= Timeout => clock <= Timeout
      BY <3>1, Sums
    <3>3. QED
      BY <1>4, <3>2
  <2>2. QED
    BY <1>0, <1>2, <1>3, <1>4, <2>1, NothingIsTyped DEF IInv, FindsReviews, IsReview
<1>7. DiscardsTheHiding'
  <2>1. polled.hides => n \notin discarded /\ reviews[n] = "hollow"
    BY <1>0 DEF IInv, DiscardsTheHiding
  <2>2. QED
    BY <1>0, <1>2, <1>3, <1>4, <2>1 DEF DiscardsTheHiding, Overdue
<1>8. QED
  BY <1>0, <1>2, <1>4, <1>5, <1>6, <1>7, PollStepInv DEF PollStep

LEMMA PolledRollingInv == IInv /\ PolledRolling => IInv'
<1> SUFFICES ASSUME IInv, PolledRolling PROVE IInv'
  OBVIOUS
<1>0. step = "rolling" /\ UNCHANGED <<clock, prVars, callerVars, polled, loopVars>>
  BY DEF PolledRolling
<1>1. Types /\ clock \in Nat /\ clock <= Timeout
  BY <1>0, Bounds, Numbers DEF IInv, InTime
<1> USE DEF prVars, callerVars, loopVars
<1>2. /\ outcome \in OutcomeType /\ outcome.discard \in Nat /\ clean \in Int
      /\ polled \in [candidate : Nat, head : Int, notices : SUBSET Notice, hides : BOOLEAN]
  BY <1>1 DEF Types, OutcomeType
<1>3. PICK what \in OutcomeType :
        /\ Found(what) /\ what.discard = outcome.discard
        /\ \/ what = outcome
           \/ what.review = Nobody /\ what.pass = -1
           \/ what.review = Nobody /\ what.pass = clean /\ CoversHead
  <2>1. [Nothing EXCEPT !.notices = {"limit"}, !.discard = outcome.discard] \in OutcomeType
    BY <1>2, NothingIsTyped DEF Nothing, OutcomeType, Notice
  <2>2. [Nothing EXCEPT !.pass = clean, !.discard = outcome.discard] \in OutcomeType
    BY <1>2, NothingIsTyped DEF Nothing, OutcomeType
  <2>3. CASE Found([Nothing EXCEPT !.notices = {"limit"}, !.discard = outcome.discard])
    BY <2>1, <2>3, NothingIsTyped DEF Nothing
  <2>4. CASE CoversHead /\ Found([Nothing EXCEPT !.pass = clean, !.discard = outcome.discard])
    BY <2>2, <2>4, NothingIsTyped DEF Nothing
  <2>5. CASE Found(outcome)
    BY <1>2, <2>5
  <2>6. QED
    BY <2>3, <2>4, <2>5 DEF PolledRolling
<1>4. step' = "decide" /\ left' \in Nat /\ outcome' = what
  BY <1>3 DEF Found
<1>5. InTime'
  BY <1>0, <1>1, <1>4, Bounds DEF InTime
<1>6. FindsReviews'
  BY <1>0, <1>1, <1>3, <1>4 DEF IInv, FindsReviews, IsReview, CoversHead
<1>7. DiscardsTheHiding'
  BY <1>0, <1>3, <1>4 DEF IInv, DiscardsTheHiding
<1>8. QED
  BY <1>0, <1>2, <1>4, <1>5, <1>6, <1>7, PollStepInv DEF PollStep

-----------------------------------------------------------------------------
(* What the steps of the loop have in common.                                *)

ResultType == [kind : Kind, review : Nat, pass : Int]

LEMMA ReturnEnds ==
  ASSUME Types, NEW kind \in Kind, Return(kind)
  PROVE /\ step' = "done" /\ left' \in Nat /\ result' \in ResultType /\ result'.kind = kind
        /\ result'.review = outcome.review /\ result'.pass = outcome.pass
BY DEF Types, OutcomeType, Return, ResultType

LEMMA SleepEnds ==
  ASSUME Types, NEW time \in {Interval, Settling}, Sleep(time)
  PROVE /\ left' \in Nat
        /\ \/ step' = "done" /\ result' \in ResultType /\ result'.kind = "timedOut"
           \/ /\ step' = "sleep" /\ result' = result
              /\ \E pause \in {Interval, Settling} : clock + left' < Timeout + pause + Drift
<1>1. CASE Overdue
  <2>1. Return("timedOut") /\ "timedOut" \in Kind
    BY <1>1 DEF Sleep, Kind
  <2>2. QED
    BY <2>1, ReturnEnds
<1>2. CASE ~Overdue
  <2>1. PICK late \in 0..Drift : left' = time + late
    BY <1>2 DEF Sleep
  <2>2. step' = "sleep" /\ result' = result /\ clock < Timeout
    BY <1>2, Bounds, Numbers DEF Sleep, Overdue
  <2>3. time \in Nat /\ late \in Nat /\ late <= Drift
    BY Bounds
  <2>4. left' \in Nat /\ clock + left' < Timeout + time + Drift
    BY <2>1, <2>2, <2>3, Bounds, Numbers
  <2>5. QED
    BY <2>2, <2>4
<1>3. QED
  BY <1>1, <1>2

\* A step that leaves the poll: what is left to show.
LEMMA LeaveInv ==
  ASSUME IInv, UNCHANGED <<clock, prVars, callerVars, pollVars, since>>,
         discarded' \in SUBSET Nat, IsFiniteSet(discarded'),
         hidden' \in Nat, hidden' <= Cardinality(discarded'),
         triggered' \in BOOLEAN, asked' = IF triggered' THEN 1 ELSE 0,
         left' \in Nat, result' \in ResultType,
         \/ step' = "trigger" /\ clock + left' <= Timeout + 2 * Interval /\ result' = Pending
         \/ /\ step' = "sleep" /\ result' = Pending
            /\ \E pause \in {Interval, Settling} : clock + left' < Timeout + pause + Drift
         \/ step' = "done" /\ FoundIsGenuine' /\ AnswersTheTrigger'
  PROVE IInv'
<1> USE DEF prVars, callerVars, pollVars
<1>1. asked' \in Nat /\ asked' <= 1
  OBVIOUS
<1>2. step' \in PollStep \cup {"decide", "sleep", "done"}
  BY DEF PollStep
<1>3. Types'
  BY <1>1, <1>2 DEF IInv, Types, ResultType
<1>4. InTime'
  BY DEF InTime
<1>5. PollIsCurrent'
  BY DEF PollIsCurrent
<1>6. FindsReviews' /\ DiscardsTheHiding' /\ TextIsNotHidden'
  BY DEF IInv, FindsReviews, DiscardsTheHiding, TextIsNotHidden
<1>7. FoundIsGenuine' /\ AnswersTheTrigger'
  <2>1. Pending.kind = "none"
    BY DEF Pending
  <2>2. QED
    BY <1>1, <2>1 DEF FoundIsGenuine, AnswersTheTrigger
<1>8. QED
  BY <1>3, <1>4, <1>5, <1>6, <1>7 DEF IInv

LEMMA DecideInv == IInv /\ Decide => IInv'
<1> SUFFICES ASSUME IInv, Decide PROVE IInv'
  OBVIOUS
<1>0. /\ step = "decide"
      /\ UNCHANGED <<clock, prVars, callerVars, pollVars, since>>
      /\ hidden' = IF polled.hides /\ ~Overdue THEN hidden + 1 ELSE hidden
      /\ discarded' = discarded \cup ({outcome.discard} \ {Nobody})
  BY DEF Decide
<1>1. /\ Types /\ result = Pending /\ since.asked = triggered
      /\ asked = (IF triggered THEN 1 ELSE 0) /\ clock <= Timeout + Interval
  <2>1. /\ Types /\ result = Pending /\ clock <= Timeout + Interval
        /\ asked = (IF triggered THEN 1 ELSE 0)
    BY <1>0 DEF IInv, InTime, PollIsCurrent
  <2>2. since.asked = triggered
    BY <1>0, Zenon DEF IInv, PollIsCurrent
  <2>3. QED
    BY <2>1, <2>2
<1>2. /\ discarded' \in SUBSET Nat /\ IsFiniteSet(discarded')
      /\ hidden' \in Nat /\ hidden' <= Cardinality(discarded')
  <2>1. /\ discarded \in SUBSET Nat /\ IsFiniteSet(discarded) /\ hidden \in Nat
        /\ outcome.discard \in Nat /\ hidden <= Cardinality(discarded)
    BY <1>1 DEF IInv, Types, OutcomeType, TextIsNotHidden
  <2>2. CASE outcome.discard = Nobody
    <3>1. discarded' = discarded
      BY <1>0, <2>2
    <3>2. ~(polled.hides /\ ~Overdue)
      BY <1>0, <2>2 DEF IInv, DiscardsTheHiding
    <3>3. QED
      BY <1>0, <2>1, <3>1, <3>2
  <2>3. CASE outcome.discard # Nobody
    <3>1. discarded' = discarded \cup {outcome.discard}
      BY <1>0, <2>3
    <3>2. /\ IsFiniteSet(discarded')
          /\ Cardinality(discarded') =
               IF outcome.discard \in discarded THEN Cardinality(discarded)
               ELSE Cardinality(discarded) + 1
      BY <2>1, <3>1, FS_AddElement
    <3>3. polled.hides /\ ~Overdue => outcome.discard \notin discarded
      BY <1>0 DEF IInv, DiscardsTheHiding
    <3>4. Cardinality(discarded) \in Nat
      BY <2>1, FS_CardinalityType
    <3>5. CASE polled.hides /\ ~Overdue
      <4>1. hidden' = hidden + 1 /\ Cardinality(discarded') = Cardinality(discarded) + 1
        BY <1>0, <3>2, <3>3, <3>5
      <4>2. hidden' \in Nat /\ hidden' <= Cardinality(discarded')
        BY <2>1, <3>4, <4>1
      <4>3. QED
        BY <2>1, <3>1, <3>2, <4>2
    <3>6. CASE ~(polled.hides /\ ~Overdue)
      <4>1. hidden' = hidden
        BY <1>0, <3>6
      <4>2. Cardinality(discarded) <= Cardinality(discarded') /\ Cardinality(discarded') \in Nat
        BY <3>2, <3>4
      <4>3. hidden' \in Nat /\ hidden' <= Cardinality(discarded')
        BY <2>1, <3>4, <4>1, <4>2
      <4>4. QED
        BY <2>1, <3>1, <3>2, <4>3
    <3>7. QED
      BY <3>5, <3>6
  <2>4. QED
    BY <2>2, <2>3
<1>3. CASE /\ outcome.review # Nobody \/ outcome.pass # -1
           /\ Return("found") /\ UNCHANGED <<triggered, asked>>
  <2>1. /\ step' = "done" /\ left' \in Nat /\ result' \in ResultType /\ result'.kind = "found"
        /\ result'.review = outcome.review /\ result'.pass = outcome.pass
    BY <1>1, <1>3, ReturnEnds DEF Kind
  <2>2. FoundIsGenuine'
    <3>1. clock <= Timeout /\ clock' = clock
      BY <1>0, <1>3 DEF IInv, FindsReviews
    <3>2. outcome.pass # -1 => outcome.pass >= since.head
      BY <1>0 DEF IInv, FindsReviews
    <3>3. outcome.review # Nobody => IsReview(outcome.review)
      BY <1>0 DEF IInv, FindsReviews
    <3>4. UNCHANGED <<since, reviews, handled>>
      BY <1>0 DEF prVars, callerVars
    <3>5. QED
      BY <2>1, <3>1, <3>2, <3>3, <3>4 DEF FoundIsGenuine, IsReview
  <2>3. AnswersTheTrigger'
    BY <1>1, <1>3, <2>1 DEF AnswersTheTrigger
  <2>4. triggered' \in BOOLEAN /\ asked' = IF triggered' THEN 1 ELSE 0
    BY <1>1, <1>3 DEF Types
  <2>5. QED
    BY <1>0, <1>2, <2>1, <2>2, <2>3, <2>4, LeaveInv
<1>4. CASE Call("trigger") /\ triggered' = TRUE /\ asked' = asked + 1 /\ UNCHANGED result /\ TriggerDue
  <2>1. step' = "trigger" /\ left' = Budget /\ result' = Pending
    BY <1>1, <1>4 DEF Call
  <2>2. triggered' = TRUE /\ asked' = 1
    BY <1>1, <1>4 DEF TriggerDue
  <2>3. left' \in Nat /\ clock + left' <= Timeout + 2 * Interval
    <3>1. Budget \in Nat /\ clock + Budget = IF clock < Timeout THEN Timeout ELSE clock + Interval
      BY <1>1, BudgetIsBounded
    <3>2. QED
      BY <1>1, <2>1, <3>1, Bounds, Numbers
  <2>4. result' \in ResultType
    BY <2>1 DEF Pending, ResultType, Kind, Nobody
  <2>5. triggered' \in BOOLEAN /\ asked' = IF triggered' THEN 1 ELSE 0
    BY <2>2
  <2>6. QED
    BY <1>0, <1>2, <2>1, <2>3, <2>4, <2>5, LeaveInv
<1>5. ASSUME NEW kind \in {"rateLimited", "commentUpdateFailed"},
             Return(kind), UNCHANGED <<triggered, asked>>
      PROVE IInv'
  <2>1. step' = "done" /\ left' \in Nat /\ result' \in ResultType /\ result'.kind = kind
    BY <1>1, <1>5, ReturnEnds DEF Kind
  <2>2. FoundIsGenuine'
    BY <2>1 DEF FoundIsGenuine
  <2>3. AnswersTheTrigger'
    <3>1. asked' = asked /\ since' = since /\ asked <= 1
      BY <1>0, <1>1, <1>5
    <3>2. asked > 0 => since.asked
      BY <1>1
    <3>3. QED
      BY <3>1, <3>2 DEF AnswersTheTrigger
  <2>4. triggered' \in BOOLEAN /\ asked' = IF triggered' THEN 1 ELSE 0
    BY <1>1, <1>5 DEF Types
  <2>5. QED
    BY <1>0, <1>2, <2>1, <2>2, <2>3, <2>4, LeaveInv
<1>6. CASE Sleep(Interval) /\ UNCHANGED <<triggered, asked>>
  <2>1. /\ left' \in Nat
        /\ \/ step' = "done" /\ result' \in ResultType /\ result'.kind = "timedOut"
           \/ /\ step' = "sleep" /\ result' = result
              /\ \E pause \in {Interval, Settling} : clock + left' < Timeout + pause + Drift
    BY <1>1, <1>6, SleepEnds
  <2>2. triggered' \in BOOLEAN /\ asked' = (IF triggered' THEN 1 ELSE 0) /\ asked' <= 1
    BY <1>1, <1>6 DEF Types
  <2>3. result' \in ResultType
    BY <1>1, <2>1 DEF Types, ResultType
  <2>4. step' = "done" => FoundIsGenuine' /\ AnswersTheTrigger'
    BY <2>1, <2>2 DEF FoundIsGenuine, AnswersTheTrigger
  <2>5. QED
    BY <1>0, <1>1, <1>2, <2>1, <2>2, <2>3, <2>4, LeaveInv
<1>7. QED
  BY <1>3, <1>4, <1>5, <1>6 DEF Decide

LEMMA TriggeredInv == IInv /\ Triggered => IInv'
<1> SUFFICES ASSUME IInv, Triggered PROVE IInv'
  OBVIOUS
<1>0. /\ step = "trigger" /\ Sleep(Settling)
      /\ UNCHANGED <<clock, prVars, callerVars, pollVars, discarded, triggered, asked, since, hidden>>
  BY DEF Triggered, AfterTrigger
<1>1. Types /\ result = Pending /\ asked = IF triggered THEN 1 ELSE 0
  BY <1>0 DEF IInv, PollIsCurrent
<1>2. /\ left' \in Nat
      /\ \/ step' = "done" /\ result' \in ResultType /\ result'.kind = "timedOut"
         \/ /\ step' = "sleep" /\ result' = result
            /\ \E pause \in {Interval, Settling} : clock + left' < Timeout + pause + Drift
  BY <1>0, <1>1, SleepEnds
<1>3. triggered' \in BOOLEAN /\ asked' = (IF triggered' THEN 1 ELSE 0) /\ asked' <= 1
  BY <1>0, <1>1 DEF Types
<1>4. result' \in ResultType
  BY <1>1, <1>2 DEF Types, ResultType
<1>5. step' = "done" => FoundIsGenuine' /\ AnswersTheTrigger'
  BY <1>2, <1>3 DEF FoundIsGenuine, AnswersTheTrigger
<1>6. /\ discarded' \in SUBSET Nat /\ IsFiniteSet(discarded')
      /\ hidden' \in Nat /\ hidden' <= Cardinality(discarded')
  BY <1>0, <1>1 DEF IInv, Types, TextIsNotHidden
<1>7. QED
  BY <1>0, <1>1, <1>2, <1>3, <1>4, <1>5, <1>6, LeaveInv

LEMMA WakeInv == IInv /\ Wake => IInv'
<1> SUFFICES ASSUME IInv, Wake PROVE IInv'
  OBVIOUS
<1>0. /\ step = "sleep"
      /\ UNCHANGED <<clock, prVars, callerVars, discarded, triggered, asked, hidden>>
  BY DEF Wake
<1>1. Types /\ result = Pending /\ asked = IF triggered THEN 1 ELSE 0
  BY <1>0 DEF IInv, PollIsCurrent
<1>2. CASE Return("timedOut") /\ UNCHANGED <<since, pollVars>>
  <2>1. step' = "done" /\ left' \in Nat /\ result' \in ResultType /\ result'.kind = "timedOut"
    BY <1>1, <1>2, ReturnEnds DEF Kind
  <2>2. triggered' \in BOOLEAN /\ asked' = (IF triggered' THEN 1 ELSE 0) /\ asked' <= 1
    BY <1>0, <1>1 DEF Types
  <2>3. FoundIsGenuine' /\ AnswersTheTrigger'
    BY <2>1, <2>2 DEF FoundIsGenuine, AnswersTheTrigger
  <2>4. /\ discarded' \in SUBSET Nat /\ IsFiniteSet(discarded')
        /\ hidden' \in Nat /\ hidden' <= Cardinality(discarded')
    BY <1>0, <1>1 DEF IInv, Types, TextIsNotHidden
  <2>5. QED
    BY <1>0, <1>2, <2>1, <2>2, <2>3, <2>4, LeaveInv
<1>3. CASE /\ ~Overdue /\ Call("reviews") /\ UNCHANGED result
           /\ since' = [head |-> head, asked |-> asked > 0]
           /\ polled' = NotPolled /\ outcome' = Nothing
  <2> USE DEF prVars, callerVars
  <2>1. step' = "reviews" /\ left' \in Nat /\ clock + left' <= Timeout
    BY <1>1, <1>3, BudgetIsBounded, Bounds, Numbers DEF Call, Overdue
  <2>2. since'.head = head /\ since' \in [head : Nat, asked : BOOLEAN] /\ since'.asked = (asked > 0)
    <3> DEFINE answered == asked > 0
    <3>1. head \in Nat /\ answered \in BOOLEAN /\ since' = [head |-> head, asked |-> answered]
      BY <1>1, <1>3, Numbers
    <3> HIDE DEF answered
    <3>2. since'.head = head /\ since' \in [head : Nat, asked : BOOLEAN] /\ since'.asked = answered
      BY <3>1
    <3>3. QED
      BY <3>2 DEF answered
  <2>3. since'.asked = triggered'
    <3>1. CASE triggered = TRUE
      <4>1. since'.asked = TRUE
        BY <1>1, <2>2, <3>1
      <4>2. QED
        BY <1>0, <3>1, <4>1
    <3>2. CASE triggered = FALSE
      <4>1. since'.asked = FALSE
        BY <1>1, <2>2, <3>2
      <4>2. QED
        BY <1>0, <3>2, <4>1
    <3>3. QED
      BY <1>1, <3>1, <3>2 DEF Types
  <2>4. polled' \in [candidate : Nat, head : Int, notices : SUBSET Notice, hides : BOOLEAN]
    BY <1>3 DEF NotPolled, Nobody
  <2>5. Types'
    BY <1>0, <1>1, <1>3, <2>1, <2>2, <2>4, NothingIsTyped DEF Types, PollStep
  <2>6. InTime'
    BY <1>0, <2>1 DEF InTime
  <2>7. PollIsCurrent'
    <3>1. result' = Pending /\ asked' = IF triggered' THEN 1 ELSE 0
      BY <1>0, <1>1, <1>3
    <3>2. QED
      BY <2>1, <2>3, <3>1 DEF PollIsCurrent
  <2>8. FindsReviews' /\ DiscardsTheHiding'
    <3>1. since'.head <= head'
      BY <1>0, <1>1, <2>2, Numbers
    <3>2. QED
      BY <2>1, <3>1 DEF FindsReviews, DiscardsTheHiding
  <2>9. FoundIsGenuine' /\ TextIsNotHidden' /\ AnswersTheTrigger'
    BY <1>0, <1>1, <1>3 DEF IInv, FoundIsGenuine, TextIsNotHidden, AnswersTheTrigger, Pending
  <2>10. QED
    BY <2>5, <2>6, <2>7, <2>8, <2>9 DEF IInv
<1>4. QED
  BY <1>2, <1>3 DEF Wake

-----------------------------------------------------------------------------

LEMMA NextInv == IInv /\ [WaitNext]_waitVars => IInv'
<1> SUFFICES ASSUME IInv, [WaitNext]_waitVars PROVE IInv'
  OBVIOUS
<1>1. CASE PrChanges
  BY <1>1, PrChangesInv
<1>2. CASE WaitPasses
  BY <1>2, WaitPassesInv
<1>3. CASE PolledReviews
  BY <1>3, PolledReviewsInv
<1>4. CASE LookedUp
  BY <1>4, LookedUpInv
<1>5. CASE PolledRolling
  BY <1>5, PolledRollingInv
<1>6. CASE Decide
  BY <1>6, DecideInv
<1>7. CASE Triggered
  BY <1>7, TriggeredInv
<1>8. CASE Wake
  BY <1>8, WakeInv
<1>9. CASE UNCHANGED waitVars
  BY <1>9 DEF waitVars, prVars, callerVars, pollVars, loopVars, IInv, Types, InTime,
     PollIsCurrent, FindsReviews, IsReview, DiscardsTheHiding, Overdue, FoundIsGenuine,
     TextIsNotHidden, AnswersTheTrigger
<1>10. QED
  BY <1>1, <1>2, <1>3, <1>4, <1>5, <1>6, <1>7, <1>8, <1>9 DEF WaitNext, WaitStep

LEMMA Inductive == WaitSpec => []IInv
<1>1. WaitInit => IInv
  BY InitInv
<1>2. IInv /\ [WaitNext]_waitVars => IInv'
  BY NextInv
<1>3. QED
  BY <1>1, <1>2, PTL DEF WaitSpec

\* Whatever the pull request and CodeRabbit do, what the wait returns as found is a
\* review nobody has handled, or a pass over the head, and it is found in time.
THEOREM FindsAreGenuine == WaitSpec => []FoundIsGenuine
<1>1. IInv => FoundIsGenuine
  BY DEF IInv
<1>2. QED
  BY <1>1, Inductive, PTL

\* A poll that meets a review without content in front of one with a text discards
\* it, once: no number of them keeps the wait from the text.
THEOREM TextsAreNotHidden == WaitSpec => []TextIsNotHidden
<1>1. IInv => TextIsNotHidden
  BY DEF IInv
<1>2. QED
  BY <1>1, Inductive, PTL

\* CodeRabbit is asked once at most, and no answer of before the question is
\* returned after it.
THEOREM TriggersAreAnswered == WaitSpec => []AnswersTheTrigger
<1>1. IInv => AnswersTheTrigger
  BY DEF IInv
<1>2. QED
  BY <1>1, Inductive, PTL

\* The wait overruns its deadline by two bounded calls, or by one sleep.
THEOREM WaitsEnd == WaitSpec => []EndsInTime
<1>1. IInv => EndsInTime
  <2> SUFFICES ASSUME IInv PROVE EndsInTime
    OBVIOUS
  <2>1. Types /\ step \in PollStep \cup {"decide", "sleep", "done"}
    BY DEF IInv, Types
  <2>2. CASE step = "sleep"
    <3>1. PICK pause \in {Interval, Settling} : clock + left < Timeout + pause + Drift
      BY <2>2 DEF IInv, InTime
    <3>2. clock < Timeout + pause + Drift
      BY <2>1, <3>1, Bounds, Numbers
    <3>3. QED
      BY <2>2, <3>2 DEF EndsInTime
  <2>3. CASE step \in PollStep \cup {"decide"}
    <3>1. clock <= Timeout + 2 * Interval
      BY <2>1, <2>3, Bounds, Numbers DEF IInv, InTime, PollStep
    <3>2. QED
      BY <3>1 DEF EndsInTime
  <2>4. QED
    BY <2>1, <2>2, <2>3 DEF EndsInTime
<1>2. QED
  BY <1>1, Inductive, PTL

=============================================================================
