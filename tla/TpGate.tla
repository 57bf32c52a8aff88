------------------------------- MODULE TpGate -------------------------------
(***************************************************************************)
(* TpGateService: the one gate every request to TourPlay (TP) in the       *)
(* process passes through, and the request a TpFetcherService session      *)
(* makes in its turn.                                                      *)
(*                                                                         *)
(* Requests queue first in, first out.  The one at the head is refused     *)
(* while a back-off is in force; otherwise it waits for the pacing gap, is *)
(* sent, and its answer may start a back-off.  A visit (session) makes one *)
(* request at a time.                                                      *)
(*                                                                         *)
(* Times are kept as the time left, counted down by Tick: "blockedUntil"   *)
(* is cool, a TpBlockedError's "retryAt" is retryIn, and 0 is now or past. *)
(***************************************************************************)
EXTENDS Naturals, Sequences

CONSTANTS
  Visit,     \* the sessions that make requests
  Backoff,   \* BACKOFF_MS: the back-off after the n-th 403 in a row
  MinGap     \* MIN_DELAY_MS: the least time between two requests

ASSUME BackoffIsPositive == Backoff \in Seq(Nat \ {0}) /\ Backoff # <<>>
ASSUME MinGapIsNat == MinGap \in Nat

VARIABLES
  line,      \* the requests in the queue, the head's turn first
  turn,      \* what the head's request is doing
  cool,      \* blockedUntil: how long TP is left alone
  strikes,   \* blocksInARow, up to the last entry of Backoff
  gap,       \* lastRequestAt + delay: how long the next request is paced
  reply,     \* what each visit's last request came to
  retryIn    \* the retryAt of the last TpBlockedError each visit was given

gateVars == <<line, turn, cool, strikes, gap, reply, retryIn>>

\* "forbidden": TP answered 403; "refused": the gate did not contact TP.
Reply == {"none", "waiting", "ok", "error", "forbidden", "refused"}

GateTypeOK ==
  /\ line \in Seq(Visit)
  /\ turn \in {"free", "pacing", "sent"}
  /\ cool \in Nat
  /\ strikes \in 0..Len(Backoff)
  /\ gap \in 0..MinGap
  /\ reply \in [Visit -> Reply]
  /\ retryIn \in [Visit -> Nat]

GateInit ==
  /\ line = <<>>
  /\ turn = "free"
  /\ cool = 0
  /\ strikes = 0
  /\ gap = 0
  /\ reply = [v \in Visit |-> "none"]
  /\ retryIn = [v \in Visit |-> 0]

\* run(): the visit's request joins the queue.
Enter(v) ==
  /\ line' = Append(line, v)
  /\ reply' = [reply EXCEPT ![v] = "waiting"]
  /\ UNCHANGED <<turn, cool, strikes, gap, retryIn>>

Ask(v) ==
  /\ reply[v] # "waiting"
  /\ Enter(v)

\* take(), while the back-off is in force.
Refuse ==
  /\ turn = "free" /\ line # <<>>
  /\ cool > 0
  /\ line' = Tail(line)
  /\ reply' = [reply EXCEPT ![Head(line)] = "refused"]
  /\ retryIn' = [retryIn EXCEPT ![Head(line)] = cool]
  /\ UNCHANGED <<turn, cool, strikes, gap>>

\* Mutant: the back-off is never looked at.
AdmitAnyway ==
  /\ turn = "free" /\ line # <<>>
  /\ turn' = "pacing"
  /\ UNCHANGED <<line, cool, strikes, gap, reply, retryIn>>

\* take(), otherwise: the pacing starts.
Admit ==
  /\ turn = "free" /\ line # <<>>
  /\ cool = 0
  /\ turn' = "pacing"
  /\ UNCHANGED <<line, cool, strikes, gap, reply, retryIn>>

Send ==
  /\ turn = "pacing"
  /\ gap = 0
  /\ turn' = "sent"
  /\ UNCHANGED <<line, cool, strikes, gap, reply, retryIn>>

\* The head's request settles, whatever its answer, and the next one's turn comes.
Settle(answer) ==
  /\ turn = "sent"
  /\ turn' = "free"
  /\ line' = Tail(line)
  /\ gap' = MinGap
  /\ reply' = [reply EXCEPT ![Head(line)] = answer]

\* A 2xx answer; its body may not be JSON.
Answered(answer) ==
  /\ answer \in {"ok", "error"}
  /\ Settle(answer)
  /\ strikes' = 0
  /\ UNCHANGED <<cool, retryIn>>

\* Mutant: the caller of a failed request never hears of it.
FailedSilently ==
  /\ Settle("waiting")
  /\ UNCHANGED <<cool, strikes, retryIn>>

\* Another status, a network error, or the request timeout.
Failed ==
  /\ Settle("error")
  /\ UNCHANGED <<cool, strikes, retryIn>>

\* Mutant: the count of blocks in a row runs past the last back-off.
ForbiddenUncapped ==
  /\ Settle("forbidden")
  /\ strikes' = strikes + 1
  /\ cool' = IF strikes' \in DOMAIN Backoff THEN Backoff[strikes'] ELSE Backoff[Len(Backoff)]
  /\ retryIn' = [retryIn EXCEPT ![Head(line)] = cool']

\* 403: block() starts the next back-off.
Forbidden ==
  /\ Settle("forbidden")
  /\ strikes' = IF strikes < Len(Backoff) THEN strikes + 1 ELSE strikes
  /\ cool' = Backoff[strikes']
  /\ retryIn' = [retryIn EXCEPT ![Head(line)] = cool']

\* One unit of time less.
Less(n) == IF n > 0 THEN n - 1 ELSE 0

Elapse ==
  /\ cool' = Less(cool)
  /\ gap' = Less(gap)
  /\ retryIn' = [v \in Visit |-> Less(retryIn[v])]
  /\ UNCHANGED <<line, turn, strikes, reply>>

Counting == cool > 0 \/ gap > 0 \/ \E v \in Visit : retryIn[v] > 0

Tick == Counting /\ Elapse

\* What the gate and TP do with the request whose turn it is.
Serve ==
  \/ Refuse \/ Admit \/ Send \/ Failed \/ Forbidden
  \/ \E answer \in {"ok", "error"} : Answered(answer)

GateNext == Serve \/ Tick \/ \E v \in Visit : Ask(v)

GateSpec == GateInit /\ [][GateNext]_gateVars

-----------------------------------------------------------------------------
(* Properties.                                                               *)

\* No request is under way while a TpBlockedError that any visit was given is
\* still before its retryAt: what the error says about TP being left alone is
\* kept, though the check and the request are separated by the pacing.
SilenceIsKept == turn # "free" => \A v \in Visit : retryIn[v] = 0

\* Every request settles: neither a refused nor a failed one stops the queue.
EveryRequestSettles ==
  \A v \in Visit : reply[v] = "waiting" ~> reply[v] # "waiting"

=============================================================================
