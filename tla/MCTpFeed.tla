------------------------------ MODULE MCTpFeed ------------------------------
(***************************************************************************)
(* One competition, the end of one of its matches, two announcements of    *)
(* its trophies, and an /importtp of the same match: jobs merge, block     *)
(* each other, give up, and meet an import they did not start.             *)
(***************************************************************************)
EXTENDS TpFeed

CONSTANTS feed, cmd, m, t1, t2, r, w, s

MCVisit == {feed, cmd}
MCCommand == {cmd}
MCNotice == {m, t1, t2}
MCSlug == {s}
MCBackoff == <<1, 2>>

MCPage ==
  [n \in MCNotice \cup MCCommand |->
     [kind |-> IF n \in {t1, t2} THEN "scores" ELSE "match", slug |-> s]]

\* The instance of the liveness run: beside the match, an import without a
\* competition and a notification with a wrong link; the first back-off is the last.
MCNoticeLive == {m, r, w}
MCBackoffLive == <<1>>

MCPageLive ==
  [n \in MCNoticeLive \cup MCCommand |->
     [kind |-> CASE n = r -> "roster" [] n = w -> "wrong" [] OTHER -> "match", slug |-> s]]

=============================================================================
