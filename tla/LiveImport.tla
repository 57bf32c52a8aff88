------------------------------ MODULE LiveImport ------------------------------
(***************************************************************************)
(* The live imports of packages/import-tp-live: one competition of TP,     *)
(* imported as a whole (TpLiveCompetitionImportService) or because of one  *)
(* of its matches (TpLiveMatchImportService), by several imports that may  *)
(* overlap and that TP keeps changing under.                               *)
(*                                                                         *)
(* Covered: a request that fails, a TP block anywhere, a stage that        *)
(* reports errors, a database error that is thrown, a restart.  Left out:  *)
(* the pacing and retries around an import (TpGate, TpFeed), the links and *)
(* awards themselves, and the names, eras and types of a competition,      *)
(* which no property here is about.                                        *)
(***************************************************************************)
EXTENDS Naturals, FiniteSets, FiniteSetsExt

CONSTANTS
  Import,   \* the imports of a behaviour
  Team,     \* the competition's registered teams, each standing for its players
  Match,    \* its matches, each numbered by the date it is played on
  Side,     \* the two teams of each match
  Request,  \* what an import may be asked for
  Faults,   \* bound: how many things go wrong in a behaviour
  None

RequestType ==
  [kind : {"competition"}, eraGiven : BOOLEAN, force : BOOLEAN]
    \cup [kind : {"match"}, match : Match, force : BOOLEAN]

ASSUME MatchesAreDates == Match \subseteq Nat /\ IsFiniteSet(Match)
ASSUME SidesAreTeams == Side \in [Match -> [home : Team, away : Team]]
ASSUME RequestsAreTyped == Request \subseteq RequestType
ASSUME FaultsAreCounted == Faults \in Nat
ASSUME NoneIsNothing ==
  /\ None \notin Match \cup Import
  /\ None \notin [start : Match, end : Match \cup {None}]

VARIABLES
  played,     \* TP: the matches with a recorded result
  published,  \* TP: whether it has published the awards
  faults,     \* what may still go wrong

  comp,       \* the stored competition: its start and end date
  rows,       \* the stored matches
  counted,    \* the matches whose events are stored
  spp,        \* who wrote each team's SPP totals last, and whether they are settled

  pc,         \* the stage of each import
  ask,        \* what it was asked for
  bracket,    \* the completed matches in the bracket it fetched
  awards,     \* what its awards fetch returned
  seen,       \* the stored competition as it read it
  created,    \* whether its upsert created the competition
  backfilling,
  todo,       \* the matches its backfill has yet to import
  skewed,     \* whether its backfill reported errors
  trouble,    \* whether any of its stages did
  facts,      \* the teams whose SPP facts it collected
  excluded,   \* eventFailedPlayerIds
  extras,     \* history: the counted matches its extra awards were computed from
  ended       \* how it came back to its caller

tpVars == <<played, published>>
dbVars == <<comp, rows, counted, spp>>
plan == <<ask, bracket, awards, seen, created, backfilling, todo>>
notes == <<skewed, trouble, facts, excluded, extras>>
vars == <<tpVars, dbVars, faults, pc, plan, notes, ended>>

Stage == {"match", "bracket", "teams", "awards", "read", "write", "link", "row",
          "backfill", "reread", "rewrite", "extras", "settle", "done"}

Competition == [start : Match, end : Match \cup {None}]

TypeOK ==
  /\ played \subseteq Match
  /\ published \in BOOLEAN
  /\ faults \in 0..Faults
  /\ comp \in Competition \cup {None}
  /\ rows \subseteq Match
  /\ counted \subseteq rows
  /\ spp \in [Team -> [by : Import \cup {None}, settled : BOOLEAN]]
  /\ pc \in [Import -> Stage]
  /\ ask \in [Import -> Request]
  /\ bracket \in [Import -> SUBSET Match]
  /\ awards \in [Import -> {"unknown", "none", "some"}]
  /\ seen \in [Import -> Competition \cup {None}]
  /\ created \in [Import -> BOOLEAN]
  /\ backfilling \in [Import -> BOOLEAN]
  /\ todo \in [Import -> SUBSET Match]
  /\ skewed \in [Import -> BOOLEAN]
  /\ trouble \in [Import -> BOOLEAN]
  /\ facts \in [Import -> SUBSET Team]
  /\ excluded \in [Import -> SUBSET Team]
  /\ extras \in [Import -> {None} \cup SUBSET Match]
  /\ ended \in [Import -> {"no", "returned", "threw", "blocked", "interrupted", "lost"}]

Init ==
  /\ played = {} /\ published = FALSE /\ faults = Faults
  /\ comp = None /\ rows = {} /\ counted = {}
  /\ spp = [t \in Team |-> [by |-> None, settled |-> TRUE]]
  /\ ask \in [Import -> Request]
  /\ pc = [v \in Import |-> IF ask[v].kind = "match" THEN "match" ELSE "bracket"]
  /\ bracket = [v \in Import |-> {}]
  /\ awards = [v \in Import |-> "unknown"]
  /\ seen = [v \in Import |-> None]
  /\ created = [v \in Import |-> FALSE]
  /\ backfilling = [v \in Import |-> FALSE]
  /\ todo = [v \in Import |-> {}]
  /\ skewed = [v \in Import |-> FALSE]
  /\ trouble = [v \in Import |-> FALSE]
  /\ facts = [v \in Import |-> {}]
  /\ excluded = [v \in Import |-> {}]
  /\ extras = [v \in Import |-> None]
  /\ ended = [v \in Import |-> "no"]

-----------------------------------------------------------------------------
(* TP goes on: results come in, in any order of dates, then the awards.      *)

Play == \E m \in Match \ played :
  played' = played \cup {m} /\ UNCHANGED <<published, dbVars, faults, pc, plan, notes, ended>>

Publish ==
  /\ played = Match /\ ~published
  /\ published' = TRUE
  /\ UNCHANGED <<played, dbVars, faults, pc, plan, notes, ended>>

-----------------------------------------------------------------------------
(* Helpers.                                                                  *)

Go(v, stage) == pc' = [pc EXCEPT ![v] = stage] /\ UNCHANGED ended

End(v, how) == pc' = [pc EXCEPT ![v] = "done"] /\ ended' = [ended EXCEPT ![v] = how]

\* Something that can also go well went wrong.
Fault(wrong) ==
  IF wrong THEN faults > 0 /\ faults' = faults - 1 ELSE UNCHANGED faults

Reported(v, wrong) == trouble' = [trouble EXCEPT ![v] = @ \/ wrong]

Noted(v, wrong) == Fault(wrong) /\ Reported(v, wrong)

OfCompetition(v) == ask[v].kind = "competition"

Sides(m) == {Side[m].home, Side[m].away}

\* A roster import writes TP's own totals.
Imported(v, teams) ==
  spp' = [t \in Team |-> IF t \in teams THEN [by |-> v, settled |-> FALSE] ELSE spp[t]]

\* Mutant: only the facts of matches' players are kept, not the registered teams'.
CollectedFromMatches(v, teams) ==
  facts' = [facts EXCEPT ![v] = IF pc[v] = "teams" THEN @ ELSE @ \cup teams]

\* The facts to settle them by.
Collected(v, teams) == facts' = [facts EXCEPT ![v] = @ \cup teams]

-----------------------------------------------------------------------------

\* importTeams(): the match, refused unless completed, and its teams; the away
\* team only after the home team.
FetchMatch(v) ==
  /\ pc[v] = "match"
  /\ LET m == ask[v].match IN
     \/ /\ m \in played
        /\ Imported(v, Sides(m)) /\ Collected(v, Sides(m))
        /\ Go(v, "bracket") /\ UNCHANGED <<faults, trouble>>
     \/ \E some \in IF m \in played THEN {{}, {Side[m].home}} ELSE {{}} :
          /\ Imported(v, some) /\ UNCHANGED facts /\ End(v, "returned")
          /\ Reported(v, TRUE) /\ Fault(m \in played)
  /\ UNCHANGED <<tpVars, comp, rows, counted, plan, skewed, excluded, extras>>

\* fetchBracket(): all of it or nothing.
FetchBracket(v) ==
  /\ pc[v] = "bracket"
  /\ \/ /\ bracket' = [bracket EXCEPT ![v] = played]
        /\ Go(v, IF OfCompetition(v) THEN "teams" ELSE "read")
        /\ UNCHANGED <<faults, trouble>>
     \/ UNCHANGED bracket /\ End(v, "returned") /\ Noted(v, TRUE)
  /\ UNCHANGED <<tpVars, dbVars, ask, awards, seen, created, backfilling, todo, skewed, facts,
                 excluded, extras>>

\* importRegisteredTeams(): the inscriptions, then every team that can be had.
\* For a competition, the teams settle the era unless it is given; for a match's
\* backfill, they are linked, and the awards are fetched only for linked teams.
ImportRegistered(v) ==
  /\ pc[v] = "teams"
  /\ \E teams \in SUBSET Team, inscribed, agreed, linked \in BOOLEAN :
       /\ ~inscribed => teams = {}
       /\ Imported(v, teams) /\ Collected(v, teams)
       /\ Noted(v, ~inscribed \/ ~agreed \/ ~linked \/ teams # Team)
       /\ IF OfCompetition(v)
          THEN /\ linked
               /\ ask[v].eraGiven \/ teams = {} => agreed = ask[v].eraGiven
               /\ IF ~agreed THEN End(v, "returned")
                  ELSE Go(v, IF inscribed THEN "awards" ELSE "read")
          ELSE /\ agreed
               /\ Go(v, IF inscribed /\ linked THEN "awards" ELSE "backfill")
  /\ UNCHANGED <<tpVars, comp, rows, counted, plan, skewed, excluded, extras>>

\* fetchAwards(): an unfinished competition has none; a failure says nothing.
FetchAwards(v) ==
  /\ pc[v] = "awards"
  /\ \E answered \in BOOLEAN :
       /\ awards' = [awards EXCEPT ![v] =
            IF ~answered THEN "unknown" ELSE IF published THEN "some" ELSE "none"]
       /\ Noted(v, ~answered)
  /\ Go(v, IF OfCompetition(v) THEN "read" ELSE "backfill")
  /\ UNCHANGED <<tpVars, dbVars, ask, bracket, seen, created, backfilling, todo, skewed, facts,
                 excluded, extras>>

-----------------------------------------------------------------------------
(* TpCompetitionUpsertService.upsertCompetition().  A competition's import,  *)
(* and a match import that finishes one, overlay what is stored.             *)

Overlays(v) == OfCompetition(v) \/ pc[v] = "rewrite"

Finished(v) == awards[v] = "some"

\* Mutant: what is stored is not merged into the derived span.
DatesOfTheBracket(v) == bracket[v]

\* datesToDerive(): what is stored only ever widens.
DatesToDerive(v) ==
  bracket[v] \cup (IF seen[v] = None THEN {} ELSE {seen[v].start, seen[v].end} \ {None})

\* Mutant: an unknown state is taken for an unfinished one.
ResetUnlessFinished(v, stored) == IF Finished(v) THEN Max(DatesToDerive(v)) ELSE None

\* Mutant: the end date is derived like the start date.
EndAlways(v, stored) == Max(DatesToDerive(v))

\* endDateField()
EndDate(v, stored) ==
  IF Finished(v) THEN Max(DatesToDerive(v))
  ELSE IF seen[v] = None \/ (Overlays(v) /\ awards[v] = "none") THEN None
  ELSE stored

Derives(v) == seen[v] = None \/ (Overlays(v) /\ bracket[v] # {})

\* The row after the upsert, which finds a competition another import created
\* since it was looked up, and then only updates it.
Upserted(v) ==
  LET stored == IF comp = None THEN None ELSE comp.end IN
  IF Derives(v)
  THEN [start |-> Min(DatesToDerive(v)), end |-> EndDate(v, stored)]
  ELSE [comp EXCEPT !.end = IF Overlays(v) /\ awards[v] = "none" THEN None ELSE @]

\* The stage after an upsert that failed: a competition's import has nothing
\* else to do, a match's cannot go on; finishing goes on to the extra awards.
AfterFailure(v) ==
  /\ Reported(v, TRUE)
  /\ IF pc[v] \in {"read", "write"} THEN End(v, "returned") ELSE Go(v, "extras")

\* The competition is looked up, and its dates when they are needed.  A look-up
\* that rejects is not caught here.
Read(v) ==
  /\ pc[v] \in {"read", "reread"}
  /\ \/ /\ comp # None \/ bracket[v] # {}
        /\ seen' = [seen EXCEPT ![v] = comp]
        /\ Go(v, IF pc[v] = "read" THEN "write" ELSE "rewrite")
        /\ UNCHANGED <<faults, trouble>>
     \/ AfterFailure(v) /\ Fault(comp # None \/ bracket[v] # {}) /\ UNCHANGED seen
     \/ End(v, "threw") /\ Fault(TRUE) /\ UNCHANGED <<seen, trouble>>
  /\ UNCHANGED <<tpVars, dbVars, ask, bracket, awards, created, backfilling, todo, skewed,
                 facts, excluded, extras>>

Write(v) ==
  /\ pc[v] \in {"write", "rewrite"}
  /\ \/ /\ comp' = Upserted(v)
        /\ created' = [created EXCEPT ![v] = @ \/ comp = None]
        /\ Go(v, IF pc[v] = "rewrite" THEN "extras"
                 ELSE IF OfCompetition(v) THEN "link" ELSE "row")
        /\ UNCHANGED <<faults, trouble>>
     \/ AfterFailure(v) /\ Fault(TRUE) /\ UNCHANGED <<comp, created>>
  /\ UNCHANGED <<tpVars, rows, counted, spp, ask, bracket, awards, seen, backfilling, todo,
                 skewed, facts, excluded, extras>>

\* Mutant: a competition that exists is never backfilled, nor one just created.
OnlyWhenForced(v) == ask[v].force

BackfillDue(v) == created[v] \/ ask[v].force

StartBackfill(v) ==
  /\ backfilling' = [backfilling EXCEPT ![v] = TRUE]
  /\ todo' = [todo EXCEPT ![v] = bracket[v]]

\* linkParticipants() and importAwards() of a competition's import.
LinkAndAward(v) ==
  /\ pc[v] = "link"
  /\ \/ /\ \E wrong \in BOOLEAN : Noted(v, wrong)
        /\ IF BackfillDue(v)
           THEN StartBackfill(v) /\ Go(v, "backfill")
           ELSE Go(v, "extras") /\ UNCHANGED <<backfilling, todo>>
     \/ End(v, "threw") /\ Fault(TRUE) /\ UNCHANGED <<trouble, backfilling, todo>>
  /\ UNCHANGED <<tpVars, dbVars, ask, bracket, awards, seen, created, skewed, facts, excluded,
                 extras>>

-----------------------------------------------------------------------------
(* TpMatchDataImportService.writeMatch(), for a match import and a backfill. *)

Stored(m) == rows' = rows \cup {m} /\ counted' = counted \cup {m}

\* Mutant: the events are imported although the row was not written.
EventsWithoutRow(m) == UNCHANGED rows /\ counted' \in {counted, counted \cup {m}}

\* The row, its participation or its events report errors.
StoredInPart(m) == rows' \in {rows, rows \cup {m}} /\ UNCHANGED counted

\* The match an import is for.  What comes next depends on the upsert before.
WriteRow(v) ==
  /\ pc[v] = "row"
  /\ \/ /\ \E whole \in BOOLEAN :
             /\ IF whole THEN Stored(ask[v].match) ELSE StoredInPart(ask[v].match)
             /\ Noted(v, ~whole)
             /\ IF BackfillDue(v) THEN Go(v, "teams")
                ELSE IF whole THEN Go(v, "settle") ELSE End(v, "returned")
        /\ IF BackfillDue(v) THEN StartBackfill(v) ELSE UNCHANGED <<backfilling, todo>>
     \/ /\ StoredInPart(ask[v].match)
        /\ End(v, "threw") /\ Fault(TRUE) /\ UNCHANGED <<trouble, backfilling, todo>>
  /\ UNCHANGED <<tpVars, comp, spp, ask, bracket, awards, seen, created, skewed, facts, excluded,
                 extras>>

Exclude(v, teams) == excluded' = [excluded EXCEPT ![v] = @ \cup teams]

Failed(v) == skewed' = [skewed EXCEPT ![v] = TRUE] /\ Noted(v, TRUE)

\* TpCompetitionMatchesBackfillService.backfill(): the next match of the bracket.
\* Its result names the players of the teams it imported; nothing does when it throws.
BackfillMatch(v) ==
  /\ pc[v] = "backfill" /\ todo[v] # {}
  /\ LET m == Min(todo[v]) IN
     /\ todo' = [todo EXCEPT ![v] = @ \ {m}]
     /\ \/ /\ Stored(m) /\ Imported(v, Sides(m)) /\ Collected(v, Sides(m))
           /\ UNCHANGED <<faults, skewed, trouble, excluded>>
        \/ /\ StoredInPart(m) /\ Imported(v, Sides(m)) /\ Collected(v, Sides(m))
           /\ Exclude(v, Sides(m)) /\ Failed(v)
        \/ \E some \in {{}, {Side[m].home}} :
             /\ Imported(v, some) /\ Collected(v, some) /\ Exclude(v, some) /\ Failed(v)
             /\ UNCHANGED <<rows, counted>>
        \/ /\ StoredInPart(m) /\ Imported(v, Sides(m)) /\ Failed(v)
           /\ UNCHANGED <<facts, excluded>>
  /\ UNCHANGED <<tpVars, comp, pc, ask, bracket, awards, seen, created, backfilling, extras,
                 ended>>

EndBackfill(v) ==
  /\ pc[v] = "backfill" /\ todo[v] = {}
  /\ Go(v, IF OfCompetition(v) THEN "extras" ELSE IF Finished(v) THEN "reread" ELSE "settle")
  /\ UNCHANGED <<tpVars, dbVars, faults, plan, notes>>

\* Mutant: errors of the backfill do not hold the extra awards back.
NeverSkipped(v) == FALSE

\* skippedForBackfillErrors()
Skipped(v) == backfilling[v] /\ skewed[v]

\* computeExtras(), for a finished competition.
AwardExtras(v) ==
  /\ pc[v] = "extras"
  /\ Go(v, "settle")
  /\ IF ~Finished(v) THEN UNCHANGED <<faults, extras, trouble>>
     ELSE IF Skipped(v) THEN Reported(v, TRUE) /\ UNCHANGED <<faults, extras>>
     ELSE \/ extras' = [extras EXCEPT ![v] = counted] /\ UNCHANGED <<faults, trouble>>
          \/ UNCHANGED extras /\ Noted(v, TRUE)
  /\ UNCHANGED <<tpVars, dbVars, plan, skewed, facts, excluded>>

Settled(v) == facts[v] \ excluded[v]

\* settle(): a chunk that fails leaves its players as the rosters wrote them.
Settle(v) ==
  /\ pc[v] = "settle"
  /\ \E teams \in SUBSET Settled(v) :
       /\ spp' = [t \in Team |-> IF t \in teams THEN [by |-> v, settled |-> TRUE] ELSE spp[t]]
       /\ Noted(v, teams # Settled(v))
  /\ End(v, "returned")
  /\ UNCHANGED <<tpVars, comp, rows, counted, plan, skewed, facts, excluded, extras>>

-----------------------------------------------------------------------------
(* What can happen to an import at any time.                                 *)

\* Mutant: the error does not say that it interrupted a backfill.
NeverInterrupted(v) == "blocked"

HowBlocked(v) == IF backfilling[v] THEN "interrupted" ELSE "blocked"

\* TP blocks a request: a TpBlockedError leaves the import, which may have
\* imported teams in the stage it is in.
Block(v) ==
  /\ pc[v] \in {"match", "bracket", "teams", "awards"} \/ (pc[v] = "backfill" /\ todo[v] # {})
  /\ \E some \in SUBSET CASE pc[v] = "match" -> IF ask[v].match \in played
                                                 THEN {Side[ask[v].match].home} ELSE {}
                         [] pc[v] = "teams" -> Team
                         [] pc[v] = "backfill" -> {Side[Min(todo[v])].home}
                         [] OTHER -> {} : Imported(v, some)
  /\ End(v, HowBlocked(v)) /\ Fault(TRUE)
  /\ UNCHANGED <<tpVars, comp, rows, counted, plan, notes>>

\* The process stops.
Lose(v) ==
  /\ pc[v] # "done"
  /\ End(v, "lost") /\ Fault(TRUE)
  /\ UNCHANGED <<tpVars, dbVars, plan, notes>>

Next ==
  \/ Play \/ Publish
  \/ \E v \in Import :
       \/ FetchMatch(v) \/ FetchBracket(v) \/ ImportRegistered(v) \/ FetchAwards(v)
       \/ Read(v) \/ Write(v) \/ LinkAndAward(v) \/ WriteRow(v)
       \/ BackfillMatch(v) \/ EndBackfill(v) \/ AwardExtras(v) \/ Settle(v)
       \/ Block(v) \/ Lose(v)

Spec == Init /\ [][Next]_vars

-----------------------------------------------------------------------------
(* Properties.                                                               *)

\* A competition with an end date is finished: TP had published its awards.
EndDateMeansFinished == comp # None /\ comp.end # None => published

\* ImportLiveCompetitionOptions.forceMatchBackfill: "a competition this import
\* newly creates always has its completed matches backfilled"; a block that
\* prevents it says so, so that the retry forces the backfill.  Only a restart or
\* a database error between the two leaves it to chance.
CreatedIsBackfilled ==
  \A v \in Import : pc[v] = "done" /\ created[v] =>
    \/ ended[v] \in {"lost", "threw", "interrupted"}
    \/ ended[v] = "returned" /\ backfilling[v] /\ todo[v] = {}

\* An import that reports no error leaves no total as a roster wrote it: whatever
\* it imported more than once, it settles last.
CleanImportSettles ==
  \A v \in Import : ended[v] = "returned" /\ ~trouble[v] =>
    \A t \in Team : spp[t].by = v => spp[t].settled

\* The extra awards of an import that backfills are computed from every match of
\* the bracket it backfilled: "an award computed from incomplete matches is never
\* corrected later".
ExtrasSeeTheBackfill ==
  \A v \in Import : extras[v] # None /\ backfilling[v] => bracket[v] \subseteq extras[v]

\* An upsert narrows the stored dates, or forgets the end, only when it overlaps
\* another import's, or knows that the competition was not finished.
SpanOnlyWidens ==
  [][ comp # None /\ comp' # comp =>
        \E v \in Import :
          /\ pc[v] \in {"write", "rewrite"}
          /\ \/ seen[v] # comp
             \/ /\ comp'.start <= comp.start
                /\ comp.end # None =>
                     IF comp'.end = None THEN awards[v] = "none" ELSE comp'.end >= comp.end ]_vars

\* SettleSppOptions.excludePlayerIds: the players of a match whose events failed to
\* import are left unsettled, since their "imported-event sum is incomplete".
SettledSumsAreComplete ==
  \A v \in Import, t \in Team :
    ended[v] = "returned" /\ backfilling[v] /\ spp[t] = [by |-> v, settled |-> TRUE] =>
      \A m \in bracket[v] : t \in Sides(m) => m \in counted

=============================================================================
