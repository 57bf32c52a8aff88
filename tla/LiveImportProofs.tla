-------------------------- MODULE LiveImportProofs --------------------------
(***************************************************************************)
(* Proofs about LiveImport for any imports, teams, matches, requests and   *)
(* number of faults: its types, and what its invariants and the action     *)
(* property claim.                                                         *)
(***************************************************************************)
EXTENDS LiveImport, Counting, TLAPS

\* The stages before an import's upsert, and those of a competition's backfill by
\* a match import.
Early(v) ==
  \/ pc[v] \in {"match", "bracket", "read", "write"}
  \/ pc[v] \in {"teams", "awards"} /\ OfCompetition(v)

Late(v) == pc[v] \in {"teams", "awards"} /\ ~OfCompetition(v)

\* What an import knows to be final is, and what it needs for its upsert it has.
KnowsFinished(v) ==
  /\ awards[v] = "some" => published
  /\ seen[v] # None => comp # None /\ (seen[v].end = None \/ published)
  /\ pc[v] \in {"write", "rewrite"} => seen[v] # None \/ bracket[v] # {}

\* Where a created competition's backfill is.
BackfillFollows(v) ==
  /\ Early(v) => ~created[v] /\ ~backfilling[v]
  /\ pc[v] \in {"link", "row"} => ~backfilling[v]
  /\ pc[v] = "link" => OfCompetition(v)
  /\ pc[v] \in {"match", "row"} => ~OfCompetition(v)
  /\ Late(v) \/ pc[v] = "backfill" => backfilling[v]
  /\ pc[v] \in {"reread", "rewrite"} => backfilling[v] /\ todo[v] = {}
  /\ pc[v] \in {"extras", "settle"} /\ created[v] => backfilling[v]
  /\ pc[v] \in {"extras", "settle"} /\ backfilling[v] => todo[v] = {}

CreatedEnds(v) ==
  pc[v] = "done" /\ created[v] =>
    \/ ended[v] \in {"lost", "threw", "interrupted"}
    \/ ended[v] = "returned" /\ backfilling[v] /\ todo[v] = {}

\* A backfill without errors has counted what it is done with.
BackfillCounts(v) ==
  /\ backfilling[v] /\ ~skewed[v] => bracket[v] \ todo[v] \subseteq counted
  /\ extras[v] # None => pc[v] \in {"settle", "done"}
  /\ extras[v] # None /\ backfilling[v] => bracket[v] \subseteq extras[v]

\* What an import without trouble has imported last, it has collected.
CollectsAll(v) ==
  /\ ended[v] = "no" <=> pc[v] # "done"
  /\ ended[v] = "no" /\ ~trouble[v] => excluded[v] = {}
  /\ ended[v] = "no" /\ ~trouble[v] =>
       \A t \in Team : spp[t].by = v /\ ~spp[t].settled => t \in facts[v]
  /\ ended[v] = "returned" /\ ~trouble[v] =>
       \A t \in Team : spp[t].by = v => spp[t].settled

Local(v) ==
  KnowsFinished(v) /\ BackfillFollows(v) /\ CreatedEnds(v) /\ BackfillCounts(v) /\ CollectsAll(v)

IInv == TypeOK /\ EndDateMeansFinished /\ \A v \in Import : Local(v)

-----------------------------------------------------------------------------
(* Dates.                                                                    *)

LEMMA DatesHaveEnds ==
  ASSUME NEW S \in SUBSET Match, S # {}
  PROVE  \E first, last \in S : \A m \in S : first <= m /\ m <= last
<1>1. S \in SUBSET Nat /\ IsFiniteSet(S)
  BY MatchesAreDates, FS_Subset
<1> QED
  BY <1>1, FiniteSetHasEnds

LEMMA FirstIsFirst ==
  ASSUME NEW S \in SUBSET Match, S # {}
  PROVE Min(S) \in S /\ \A m \in S : Min(S) <= m
<1>1. PICK first \in S : \A m \in S : first <= m
  BY DatesHaveEnds
<1>2. QED
  BY <1>1, MatchesAreDates DEF Min

LEMMA LastIsLast ==
  ASSUME NEW S \in SUBSET Match, S # {}
  PROVE Max(S) \in S /\ \A m \in S : m <= Max(S)
<1>1. PICK last \in S : \A m \in S : m <= last
  BY DatesHaveEnds
<1>2. QED
  BY <1>1, MatchesAreDates DEF Max

-----------------------------------------------------------------------------
(* The other imports.                                                        *)

Rests(w) ==
  /\ pc'[w] = pc[w] /\ ask'[w] = ask[w] /\ bracket'[w] = bracket[w]
  /\ awards'[w] = awards[w] /\ seen'[w] = seen[w] /\ created'[w] = created[w]
  /\ backfilling'[w] = backfilling[w] /\ todo'[w] = todo[w] /\ skewed'[w] = skewed[w]
  /\ trouble'[w] = trouble[w] /\ facts'[w] = facts[w] /\ excluded'[w] = excluded[w]
  /\ extras'[w] = extras[w] /\ ended'[w] = ended[w]

\* What a step leaves to the imports that do not take it.
Grows(v) ==
  /\ published => published'
  /\ comp # None => comp' # None
  /\ counted \subseteq counted'
  /\ \A t \in Team : spp'[t] = spp[t] \/ spp'[t].by = v

LEMMA LocalStays ==
  ASSUME NEW v, NEW w \in Import, w # v, Local(w), Rests(w), Grows(v)
  PROVE Local(w)'
<1> USE DEF Rests, Grows
<1>1. KnowsFinished(w)'
  BY DEF Local, KnowsFinished
<1>2. BackfillFollows(w)'
  BY DEF Local, BackfillFollows, Early, Late, OfCompetition
<1>3. CreatedEnds(w)'
  BY DEF Local, CreatedEnds
<1>4. BackfillCounts(w)'
  BY DEF Local, BackfillCounts
<1>5. CollectsAll(w)'
  BY DEF Local, CollectsAll
<1>6. QED
  BY <1>1, <1>2, <1>3, <1>4, <1>5 DEF Local

\* A step of v: what is left to show.
LEMMA StepOf ==
  ASSUME IInv, NEW v \in Import, TypeOK', EndDateMeansFinished', Local(v)', Grows(v),
         \A w \in Import \ {v} : Rests(w)
  PROVE IInv'
<1>1. ASSUME NEW w \in Import, w # v PROVE Local(w)'
  BY <1>1, LocalStays DEF IInv
<1>2. QED
  BY <1>1 DEF IInv

-----------------------------------------------------------------------------

LEMMA InitInv == Init => IInv
<1> SUFFICES ASSUME Init PROVE IInv
  OBVIOUS
<1>1. TypeOK
  <2>1. pc \in [Import -> Stage]
    BY DEF Init, Stage
  <2>2. faults \in 0..Faults
    BY FaultsAreCounted DEF Init
  <2>3. spp \in [Team -> [by : Import \cup {None}, settled : BOOLEAN]]
    BY DEF Init
  <2>4. extras \in [Import -> {None} \cup SUBSET Match]
    BY DEF Init
  <2>5. QED
    BY <2>1, <2>2, <2>3, <2>4 DEF Init, TypeOK
<1>2. EndDateMeansFinished
  BY DEF Init, EndDateMeansFinished
<1>3. ASSUME NEW v \in Import PROVE Local(v)
  BY DEF Init, Local, KnowsFinished, BackfillFollows, Early, Late, OfCompetition, CreatedEnds,
         BackfillCounts, CollectsAll
<1>4. QED
  BY <1>1, <1>2, <1>3 DEF IInv

-----------------------------------------------------------------------------
(* The helpers: what each leaves typed, and to whom.                         *)

LEMMA Going ==
  ASSUME TypeOK, NEW v \in Import, NEW stage \in Stage, Go(v, stage)
  PROVE /\ pc' \in [Import -> Stage] /\ pc'[v] = stage /\ ended' = ended
        /\ \A w \in Import \ {v} : pc'[w] = pc[w]
BY DEF Go, TypeOK

LEMMA Ending ==
  ASSUME TypeOK, NEW v \in Import,
         NEW how \in {"returned", "threw", "blocked", "interrupted", "lost"}, End(v, how)
  PROVE /\ pc' \in [Import -> Stage] /\ pc'[v] = "done" /\ ended'[v] = how
        /\ ended' \in [Import -> {"no", "returned", "threw", "blocked", "interrupted", "lost"}]
        /\ \A w \in Import \ {v} : pc'[w] = pc[w] /\ ended'[w] = ended[w]
BY DEF End, TypeOK, Stage

LEMMA Faulting ==
  ASSUME TypeOK, NEW wrong, Fault(wrong)
  PROVE faults' \in 0..Faults
BY FaultsAreCounted DEF Fault, TypeOK

LEMMA Reporting ==
  ASSUME TypeOK, NEW v \in Import, NEW wrong \in BOOLEAN, Reported(v, wrong)
  PROVE /\ trouble' \in [Import -> BOOLEAN] /\ trouble'[v] = (trouble[v] \/ wrong)
        /\ \A w \in Import \ {v} : trouble'[w] = trouble[w]
BY DEF Reported, TypeOK

LEMMA Importing ==
  ASSUME TypeOK, NEW v \in Import, NEW teams \in SUBSET Team, Imported(v, teams)
  PROVE /\ spp' \in [Team -> [by : Import \cup {None}, settled : BOOLEAN]]
        /\ \A t \in Team : IF t \in teams THEN spp'[t] = [by |-> v, settled |-> FALSE]
                                         ELSE spp'[t] = spp[t]
BY DEF Imported, TypeOK

LEMMA Collecting ==
  ASSUME TypeOK, NEW v \in Import, NEW teams \in SUBSET Team, Collected(v, teams)
  PROVE /\ facts' \in [Import -> SUBSET Team] /\ facts'[v] = facts[v] \cup teams
        /\ \A w \in Import \ {v} : facts'[w] = facts[w]
BY DEF Collected, TypeOK

-----------------------------------------------------------------------------
(* The steps of an import.                                                   *)

LEMMA FetchBracketInv ==
  ASSUME IInv, NEW v \in Import, FetchBracket(v)
  PROVE IInv'
<1> USE DEF FetchBracket, dbVars, tpVars, Noted, OfCompetition
<1>0. TypeOK /\ EndDateMeansFinished /\ Local(v)
  BY DEF IInv
<1>1. CASE /\ bracket' = [bracket EXCEPT ![v] = played]
           /\ Go(v, IF OfCompetition(v) THEN "teams" ELSE "read")
           /\ UNCHANGED <<faults, trouble>>
  <2>1. /\ pc' \in [Import -> Stage] /\ ended' = ended
        /\ pc'[v] = IF OfCompetition(v) THEN "teams" ELSE "read"
        /\ \A w \in Import \ {v} : pc'[w] = pc[w]
    BY <1>0, <1>1, Going DEF Stage
  <2>2. TypeOK'
    BY <1>0, <1>1, <2>1 DEF TypeOK
  <2>3. Local(v)'
    BY <1>0, <1>1, <2>1 DEF TypeOK, Local, KnowsFinished, BackfillFollows, Early, Late, CreatedEnds,
       BackfillCounts, CollectsAll
  <2>4. Grows(v) /\ \A w \in Import \ {v} : Rests(w)
    BY <1>0, <1>1, <2>1 DEF TypeOK, Grows, Rests
  <2>5. QED
    BY <1>0, <2>2, <2>3, <2>4, StepOf DEF EndDateMeansFinished
<1>2. CASE UNCHANGED bracket /\ End(v, "returned") /\ Noted(v, TRUE)
  <2>1. /\ pc' \in [Import -> Stage] /\ pc'[v] = "done" /\ ended'[v] = "returned"
        /\ ended' \in [Import -> {"no", "returned", "threw", "blocked", "interrupted", "lost"}]
        /\ \A w \in Import \ {v} : pc'[w] = pc[w] /\ ended'[w] = ended[w]
    BY <1>0, <1>2, Ending
  <2>2. /\ faults' \in 0..Faults /\ trouble' \in [Import -> BOOLEAN] /\ trouble'[v]
        /\ \A w \in Import \ {v} : trouble'[w] = trouble[w]
    BY <1>0, <1>2, Faulting, Reporting
  <2>3. TypeOK'
    BY <1>0, <1>2, <2>1, <2>2 DEF TypeOK
  <2>4. Local(v)'
    BY <1>0, <1>2, <2>1, <2>2 DEF TypeOK, Local, KnowsFinished, BackfillFollows, Early, Late,
       CreatedEnds, BackfillCounts, CollectsAll
  <2>5. Grows(v) /\ \A w \in Import \ {v} : Rests(w)
    BY <1>0, <1>2, <2>1, <2>2 DEF TypeOK, Grows, Rests
  <2>6. QED
    BY <1>0, <2>3, <2>4, <2>5, StepOf DEF EndDateMeansFinished
<1>3. QED
  BY <1>1, <1>2

LEMMA FetchAwardsInv ==
  ASSUME IInv, NEW v \in Import, FetchAwards(v)
  PROVE IInv'
<1> USE DEF FetchAwards, dbVars, tpVars, Noted, OfCompetition
<1>0. TypeOK /\ EndDateMeansFinished /\ Local(v)
  BY DEF IInv
<1>1. /\ pc' \in [Import -> Stage] /\ ended' = ended
      /\ pc'[v] = IF OfCompetition(v) THEN "read" ELSE "backfill"
      /\ \A w \in Import \ {v} : pc'[w] = pc[w]
  BY <1>0, Going DEF Stage
<1>2. PICK answered \in BOOLEAN :
        /\ awards' = [awards EXCEPT ![v] =
             IF ~answered THEN "unknown" ELSE IF published THEN "some" ELSE "none"]
        /\ Noted(v, ~answered)
  OBVIOUS
<1>3. /\ faults' \in 0..Faults /\ trouble' \in [Import -> BOOLEAN]
      /\ trouble'[v] = (trouble[v] \/ ~answered)
      /\ \A w \in Import \ {v} : trouble'[w] = trouble[w]
  BY <1>0, <1>2, Faulting, Reporting
<1>4. TypeOK'
  BY <1>0, <1>1, <1>2, <1>3 DEF TypeOK
<1>5. Local(v)'
  BY <1>0, <1>1, <1>2, <1>3 DEF TypeOK, Local, KnowsFinished, BackfillFollows, Early, Late, CreatedEnds,
       BackfillCounts, CollectsAll
<1>6. Grows(v) /\ \A w \in Import \ {v} : Rests(w)
  BY <1>0, <1>1, <1>2, <1>3 DEF TypeOK, Grows, Rests
<1>7. QED
  BY <1>0, <1>4, <1>5, <1>6, StepOf DEF EndDateMeansFinished

LEMMA ImportRegisteredInv ==
  ASSUME IInv, NEW v \in Import, ImportRegistered(v)
  PROVE IInv'
<1> USE DEF ImportRegistered, tpVars, plan, Noted, OfCompetition
<1>0. TypeOK /\ EndDateMeansFinished /\ Local(v)
  BY DEF IInv
<1>1. PICK teams \in SUBSET Team, inscribed, agreed, linked \in BOOLEAN :
        /\ Imported(v, teams) /\ Collected(v, teams)
        /\ Noted(v, ~inscribed \/ ~agreed \/ ~linked \/ teams # Team)
        /\ IF OfCompetition(v)
           THEN IF ~agreed THEN End(v, "returned")
                ELSE Go(v, IF inscribed THEN "awards" ELSE "read")
           ELSE Go(v, IF inscribed /\ linked THEN "awards" ELSE "backfill")
  OBVIOUS
<1>2. /\ spp' \in [Team -> [by : Import \cup {None}, settled : BOOLEAN]]
      /\ \A t \in Team : IF t \in teams THEN spp'[t] = [by |-> v, settled |-> FALSE]
                                       ELSE spp'[t] = spp[t]
      /\ facts' \in [Import -> SUBSET Team] /\ facts'[v] = facts[v] \cup teams
      /\ \A w \in Import \ {v} : facts'[w] = facts[w]
  BY <1>0, <1>1, Importing, Collecting
<1>3. /\ faults' \in 0..Faults /\ trouble' \in [Import -> BOOLEAN]
      /\ trouble'[v] = (trouble[v] \/ ~inscribed \/ ~agreed \/ ~linked \/ teams # Team)
      /\ \A w \in Import \ {v} : trouble'[w] = trouble[w]
  <2>1. (~inscribed \/ ~agreed \/ ~linked \/ teams # Team) \in BOOLEAN
    OBVIOUS
  <2>2. QED
    BY <1>0, <1>1, <2>1, Faulting, Reporting
<1>4. /\ pc' \in [Import -> Stage] /\ ended' \in [Import -> {"no", "returned", "threw", "blocked", "interrupted", "lost"}]
      /\ \/ ~OfCompetition(v) /\ pc'[v] \in {"awards", "backfill"} /\ ended'[v] = ended[v]
         \/ OfCompetition(v) /\ pc'[v] \in {"awards", "read"} /\ ended'[v] = ended[v]
         \/ OfCompetition(v) /\ pc'[v] = "done" /\ ended'[v] = "returned" /\ ~agreed
      /\ \A w \in Import \ {v} : pc'[w] = pc[w] /\ ended'[w] = ended[w]
  <2>1. CASE ~OfCompetition(v)
    BY <1>0, <1>1, <2>1, Going DEF Stage, TypeOK
  <2>2. CASE OfCompetition(v) /\ agreed
    BY <1>0, <1>1, <2>2, Going DEF Stage, TypeOK
  <2>3. CASE OfCompetition(v) /\ ~agreed
    BY <1>0, <1>1, <2>3, Ending
  <2>4. QED
    BY <2>1, <2>2, <2>3
<1>5. TypeOK'
  BY <1>0, <1>2, <1>3, <1>4 DEF TypeOK
<1>6. Local(v)'
  BY <1>0, <1>2, <1>3, <1>4 DEF notes, TypeOK, Local, KnowsFinished, BackfillFollows, Early, Late, CreatedEnds,
       BackfillCounts, CollectsAll
<1>7. Grows(v) /\ \A w \in Import \ {v} : Rests(w)
  BY <1>0, <1>2, <1>3, <1>4 DEF TypeOK, Grows, Rests
<1>8. QED
  BY <1>0, <1>5, <1>6, <1>7, StepOf DEF EndDateMeansFinished

LEMMA FetchMatchInv ==
  ASSUME IInv, NEW v \in Import, FetchMatch(v)
  PROVE IInv'
<1> USE DEF FetchMatch, tpVars, plan
<1> DEFINE m == ask[v].match
<1>0. TypeOK /\ EndDateMeansFinished /\ Local(v)
  BY DEF IInv
<1>a. ~OfCompetition(v) /\ m \in Match /\ Sides(m) \in SUBSET Team /\ Side[m].home \in Team
  BY <1>0, RequestsAreTyped, SidesAreTeams
     DEF TypeOK, Local, BackfillFollows, OfCompetition, RequestType, Sides
<1>1. CASE /\ Imported(v, Sides(m)) /\ Collected(v, Sides(m))
           /\ Go(v, "bracket") /\ UNCHANGED <<faults, trouble>>
  <2>1. /\ pc' \in [Import -> Stage] /\ ended' = ended /\ pc'[v] = "bracket"
        /\ \A w \in Import \ {v} : pc'[w] = pc[w]
    BY <1>0, <1>1, Going DEF Stage
  <2>2. /\ spp' \in [Team -> [by : Import \cup {None}, settled : BOOLEAN]]
        /\ \A t \in Team : IF t \in Sides(m) THEN spp'[t] = [by |-> v, settled |-> FALSE]
                                            ELSE spp'[t] = spp[t]
        /\ facts' \in [Import -> SUBSET Team] /\ facts'[v] = facts[v] \cup Sides(m)
        /\ \A w \in Import \ {v} : facts'[w] = facts[w]
    BY <1>0, <1>a, <1>1, Importing, Collecting
  <2>3. TypeOK'
    BY <1>0, <1>1, <2>1, <2>2 DEF TypeOK
  <2>4. Local(v)'
    BY <1>0, <1>a, <1>1, <2>1, <2>2 DEF OfCompetition, TypeOK, Local, KnowsFinished, BackfillFollows, Early, Late, CreatedEnds,
       BackfillCounts, CollectsAll
  <2>5. Grows(v) /\ \A w \in Import \ {v} : Rests(w)
    BY <1>0, <1>1, <2>1, <2>2 DEF TypeOK, Grows, Rests
  <2>6. QED
    BY <1>0, <2>3, <2>4, <2>5, StepOf DEF EndDateMeansFinished
<1>2. CASE \E some \in IF m \in played THEN {{}, {Side[m].home}} ELSE {{}} :
             /\ Imported(v, some) /\ UNCHANGED facts /\ End(v, "returned")
             /\ Reported(v, TRUE) /\ Fault(m \in played)
  <2>1. PICK some \in SUBSET Team :
          /\ Imported(v, some) /\ UNCHANGED facts /\ End(v, "returned")
          /\ Reported(v, TRUE) /\ Fault(m \in played)
    BY <1>a, <1>2
  <2>2. /\ pc' \in [Import -> Stage] /\ pc'[v] = "done" /\ ended'[v] = "returned"
        /\ ended' \in [Import -> {"no", "returned", "threw", "blocked", "interrupted", "lost"}]
        /\ \A w \in Import \ {v} : pc'[w] = pc[w] /\ ended'[w] = ended[w]
    BY <1>0, <2>1, Ending
  <2>3. /\ spp' \in [Team -> [by : Import \cup {None}, settled : BOOLEAN]]
        /\ \A t \in Team : IF t \in some THEN spp'[t] = [by |-> v, settled |-> FALSE]
                                        ELSE spp'[t] = spp[t]
        /\ faults' \in 0..Faults /\ trouble' \in [Import -> BOOLEAN] /\ trouble'[v]
        /\ \A w \in Import \ {v} : trouble'[w] = trouble[w]
    BY <1>0, <2>1, Importing, Faulting, Reporting
  <2>4. TypeOK'
    BY <1>0, <2>1, <2>2, <2>3 DEF TypeOK
  <2>5. Local(v)'
    BY <1>0, <1>a, <2>1, <2>2, <2>3 DEF OfCompetition, TypeOK, Local, KnowsFinished, BackfillFollows, Early, Late, CreatedEnds,
       BackfillCounts, CollectsAll
  <2>6. Grows(v) /\ \A w \in Import \ {v} : Rests(w)
    BY <1>0, <2>1, <2>2, <2>3 DEF TypeOK, Grows, Rests
  <2>7. QED
    BY <1>0, <2>4, <2>5, <2>6, StepOf DEF EndDateMeansFinished
<1>3. QED
  BY <1>1, <1>2

LEMMA ReadInv ==
  ASSUME IInv, NEW v \in Import, Read(v)
  PROVE IInv'
<1> USE DEF Read, dbVars, tpVars, OfCompetition
<1>0. TypeOK /\ EndDateMeansFinished /\ Local(v)
  BY DEF IInv
<1>1. CASE /\ comp # None \/ bracket[v] # {}
           /\ seen' = [seen EXCEPT ![v] = comp]
           /\ Go(v, IF pc[v] = "read" THEN "write" ELSE "rewrite")
           /\ UNCHANGED <<faults, trouble>>
  <2>1. /\ pc' \in [Import -> Stage] /\ ended' = ended
        /\ pc'[v] = IF pc[v] = "read" THEN "write" ELSE "rewrite"
        /\ \A w \in Import \ {v} : pc'[w] = pc[w]
    BY <1>0, <1>1, Going DEF Stage
  <2>2. TypeOK'
    BY <1>0, <1>1, <2>1 DEF TypeOK
  <2>3. Local(v)'
    BY <1>0, <1>1, <2>1 DEF EndDateMeansFinished, TypeOK, Local, KnowsFinished, BackfillFollows, Early, Late, CreatedEnds,
       BackfillCounts, CollectsAll
  <2>4. Grows(v) /\ \A w \in Import \ {v} : Rests(w)
    BY <1>0, <1>1, <2>1 DEF TypeOK, Grows, Rests
  <2>5. QED
    BY <1>0, <2>2, <2>3, <2>4, StepOf DEF EndDateMeansFinished
<1>2. CASE AfterFailure(v) /\ Fault(comp # None \/ bracket[v] # {}) /\ UNCHANGED seen
  <2>1. /\ pc' \in [Import -> Stage] /\ ended' \in [Import -> {"no", "returned", "threw", "blocked", "interrupted", "lost"}]
        /\ \/ pc[v] = "read" /\ pc'[v] = "done" /\ ended'[v] = "returned"
           \/ pc[v] = "reread" /\ pc'[v] = "extras" /\ ended'[v] = ended[v]
        /\ \A w \in Import \ {v} : pc'[w] = pc[w] /\ ended'[w] = ended[w]
    <3>1. CASE pc[v] = "read"
      BY <1>0, <1>2, <3>1, Ending DEF AfterFailure
    <3>2. CASE pc[v] = "reread"
      BY <1>0, <1>2, <3>2, Going DEF AfterFailure, Stage, TypeOK
    <3>3. QED
      BY <3>1, <3>2
  <2>2. /\ faults' \in 0..Faults /\ trouble' \in [Import -> BOOLEAN] /\ trouble'[v]
        /\ \A w \in Import \ {v} : trouble'[w] = trouble[w]
    BY <1>0, <1>2, Faulting, Reporting DEF AfterFailure
  <2>3. TypeOK'
    BY <1>0, <1>2, <2>1, <2>2 DEF TypeOK
  <2>4. Local(v)'
    BY <1>0, <1>2, <2>1, <2>2 DEF TypeOK, Local, KnowsFinished, BackfillFollows, Early, Late, CreatedEnds,
       BackfillCounts, CollectsAll
  <2>5. Grows(v) /\ \A w \in Import \ {v} : Rests(w)
    BY <1>0, <1>2, <2>1, <2>2 DEF TypeOK, Grows, Rests
  <2>6. QED
    BY <1>0, <2>3, <2>4, <2>5, StepOf DEF EndDateMeansFinished
<1>3. CASE End(v, "threw") /\ Fault(TRUE) /\ UNCHANGED <<seen, trouble>>
  <2>1. /\ pc' \in [Import -> Stage] /\ pc'[v] = "done" /\ ended'[v] = "threw"
        /\ ended' \in [Import -> {"no", "returned", "threw", "blocked", "interrupted", "lost"}]
        /\ \A w \in Import \ {v} : pc'[w] = pc[w] /\ ended'[w] = ended[w]
    BY <1>0, <1>3, Ending
  <2>2. faults' \in 0..Faults
    BY <1>0, <1>3, Faulting
  <2>3. TypeOK'
    BY <1>0, <1>3, <2>1, <2>2 DEF TypeOK
  <2>4. Local(v)'
    BY <1>0, <1>3, <2>1 DEF TypeOK, Local, KnowsFinished, BackfillFollows, Early, Late, CreatedEnds,
       BackfillCounts, CollectsAll
  <2>5. Grows(v) /\ \A w \in Import \ {v} : Rests(w)
    BY <1>0, <1>3, <2>1 DEF TypeOK, Grows, Rests
  <2>6. QED
    BY <1>0, <2>3, <2>4, <2>5, StepOf DEF EndDateMeansFinished
<1>4. QED
  BY <1>1, <1>2, <1>3

\* What an upsert derives its dates from.
LEMMA DatesAreKnown ==
  ASSUME TypeOK, NEW v \in Import, Local(v), pc[v] \in {"write", "rewrite"}
  PROVE /\ DatesToDerive(v) \in SUBSET Match /\ DatesToDerive(v) # {}
        /\ Min(DatesToDerive(v)) \in Match /\ Max(DatesToDerive(v)) \in Match
<1>1. seen[v] # None =>
        seen[v].start \in Match /\ {seen[v].start, seen[v].end} \ {None} \in SUBSET Match
  BY DEF TypeOK, Competition
<1>2. DatesToDerive(v) \in SUBSET Match /\ DatesToDerive(v) # {}
  <2>1. bracket[v] \in SUBSET Match /\ (seen[v] # None \/ bracket[v] # {})
    BY DEF TypeOK, Local, KnowsFinished
  <2>2. CASE seen[v] = None
    BY <2>1, <2>2 DEF DatesToDerive
  <2>3. CASE seen[v] # None
    <3>1. seen[v].start \in {seen[v].start, seen[v].end} \ {None}
      BY <1>1, <2>3, NoneIsNothing
    <3>2. QED
      BY <1>1, <2>1, <2>3, <3>1 DEF DatesToDerive
  <2>4. QED
    BY <2>2, <2>3
<1>3. QED
  BY <1>2, FirstIsFirst, LastIsLast

\* What an upsert leaves of the competition.
LEMMA UpsertedIsSound ==
  ASSUME IInv, NEW v \in Import, pc[v] \in {"write", "rewrite"}
  PROVE /\ Upserted(v) \in Competition /\ Upserted(v) # None
        /\ Upserted(v).end # None => published
<1>0. TypeOK /\ EndDateMeansFinished /\ Local(v)
  BY DEF IInv
<1> DEFINE stored == IF comp = None THEN None ELSE comp.end
<1>1. stored \in Match \cup {None} /\ (stored # None => published)
  BY <1>0 DEF TypeOK, Competition, EndDateMeansFinished
<1>2. /\ EndDate(v, stored) \in Match \cup {None}
      /\ EndDate(v, stored) # None => published
  BY <1>0, <1>1, DatesAreKnown DEF EndDate, Finished, Local, KnowsFinished
<1>3. CASE Derives(v)
  <2>1. Upserted(v) = [start |-> Min(DatesToDerive(v)), end |-> EndDate(v, stored)]
    BY <1>3 DEF Upserted
  <2>2. QED
    BY <1>0, <1>2, <2>1, DatesAreKnown, NoneIsNothing DEF Competition
<1>4. CASE ~Derives(v)
  <2>1. comp # None /\ comp \in Competition
    BY <1>0, <1>4 DEF Derives, Local, KnowsFinished, TypeOK
  <2>2. Upserted(v) \in Competition /\ Upserted(v).end \in {None, comp.end}
    BY <1>4, <2>1 DEF Upserted, Competition
  <2>3. QED
    BY <1>0, <2>1, <2>2, NoneIsNothing DEF Competition, EndDateMeansFinished
<1>5. QED
  BY <1>3, <1>4

LEMMA WriteInv ==
  ASSUME IInv, NEW v \in Import, Write(v)
  PROVE IInv'
<1> USE DEF Write, tpVars, OfCompetition
<1>0. TypeOK /\ EndDateMeansFinished /\ Local(v)
  BY DEF IInv
<1>1. CASE /\ comp' = Upserted(v)
           /\ created' = [created EXCEPT ![v] = @ \/ comp = None]
           /\ Go(v, IF pc[v] = "rewrite" THEN "extras"
                    ELSE IF OfCompetition(v) THEN "link" ELSE "row")
           /\ UNCHANGED <<faults, trouble>>
  <2>1. /\ pc' \in [Import -> Stage] /\ ended' = ended
        /\ pc'[v] = IF pc[v] = "rewrite" THEN "extras"
                    ELSE IF OfCompetition(v) THEN "link" ELSE "row"
        /\ \A w \in Import \ {v} : pc'[w] = pc[w]
    BY <1>0, <1>1, Going DEF Stage
  <2>2. comp' \in Competition /\ comp' # None /\ (comp'.end # None => published)
    BY <1>1, UpsertedIsSound
  <2>3. created' \in [Import -> BOOLEAN] /\ \A w \in Import \ {v} : created'[w] = created[w]
    BY <1>0, <1>1 DEF TypeOK
  <2>4. TypeOK'
    BY <1>0, <1>1, <2>1, <2>2, <2>3 DEF TypeOK
  <2>5. Local(v)'
    BY <1>0, <1>1, <2>1, <2>2 DEF TypeOK, Local, KnowsFinished, BackfillFollows, Early, Late, CreatedEnds,
       BackfillCounts, CollectsAll
  <2>6. Grows(v) /\ \A w \in Import \ {v} : Rests(w)
    BY <1>0, <1>1, <2>1, <2>2, <2>3 DEF TypeOK, Grows, Rests
  <2>7. QED
    BY <1>0, <2>2, <2>4, <2>5, <2>6, StepOf DEF EndDateMeansFinished
<1>2. CASE AfterFailure(v) /\ Fault(TRUE) /\ UNCHANGED <<comp, created>>
  <2>1. /\ pc' \in [Import -> Stage] /\ ended' \in [Import -> {"no", "returned", "threw", "blocked", "interrupted", "lost"}]
        /\ \/ pc[v] = "write" /\ pc'[v] = "done" /\ ended'[v] = "returned"
           \/ pc[v] = "rewrite" /\ pc'[v] = "extras" /\ ended'[v] = ended[v]
        /\ \A w \in Import \ {v} : pc'[w] = pc[w] /\ ended'[w] = ended[w]
    <3>1. CASE pc[v] = "write"
      BY <1>0, <1>2, <3>1, Ending DEF AfterFailure
    <3>2. CASE pc[v] = "rewrite"
      BY <1>0, <1>2, <3>2, Going DEF AfterFailure, Stage, TypeOK
    <3>3. QED
      BY <3>1, <3>2
  <2>2. /\ faults' \in 0..Faults /\ trouble' \in [Import -> BOOLEAN] /\ trouble'[v]
        /\ \A w \in Import \ {v} : trouble'[w] = trouble[w]
    BY <1>0, <1>2, Faulting, Reporting DEF AfterFailure
  <2>3. TypeOK'
    BY <1>0, <1>2, <2>1, <2>2 DEF TypeOK
  <2>4. Local(v)'
    BY <1>0, <1>2, <2>1, <2>2 DEF TypeOK, Local, KnowsFinished, BackfillFollows, Early, Late, CreatedEnds,
       BackfillCounts, CollectsAll
  <2>5. Grows(v) /\ \A w \in Import \ {v} : Rests(w)
    BY <1>0, <1>2, <2>1, <2>2 DEF TypeOK, Grows, Rests
  <2>6. QED
    BY <1>0, <1>2, <2>3, <2>4, <2>5, StepOf DEF EndDateMeansFinished
<1>3. QED
  BY <1>1, <1>2

LEMMA Starting ==
  ASSUME TypeOK, NEW v \in Import, StartBackfill(v)
  PROVE /\ backfilling' \in [Import -> BOOLEAN] /\ backfilling'[v]
        /\ todo' \in [Import -> SUBSET Match] /\ todo'[v] = bracket[v]
        /\ \A w \in Import \ {v} : backfilling'[w] = backfilling[w] /\ todo'[w] = todo[w]
<1>1. /\ backfilling' \in [Import -> BOOLEAN] /\ backfilling'[v]
      /\ \A w \in Import \ {v} : backfilling'[w] = backfilling[w]
  BY DEF StartBackfill, TypeOK
<1>2. /\ todo' \in [Import -> SUBSET Match] /\ todo'[v] = bracket[v]
      /\ \A w \in Import \ {v} : todo'[w] = todo[w]
  BY DEF StartBackfill, TypeOK
<1>3. QED
  BY <1>1, <1>2

LEMMA LinkAndAwardInv ==
  ASSUME IInv, NEW v \in Import, LinkAndAward(v)
  PROVE IInv'
<1> USE DEF LinkAndAward, dbVars, tpVars, Noted, OfCompetition
<1>0. TypeOK /\ EndDateMeansFinished /\ Local(v)
  BY DEF IInv
<1>b. ~BackfillDue(v) => ~created[v]
  BY DEF BackfillDue
<1>1. CASE /\ \E wrong \in BOOLEAN : Noted(v, wrong)
           /\ IF BackfillDue(v)
              THEN StartBackfill(v) /\ Go(v, "backfill")
              ELSE Go(v, "extras") /\ UNCHANGED <<backfilling, todo>>
  <2>1. /\ pc' \in [Import -> Stage] /\ ended' = ended
        /\ pc'[v] = IF BackfillDue(v) THEN "backfill" ELSE "extras"
        /\ \A w \in Import \ {v} : pc'[w] = pc[w]
    BY <1>0, <1>1, Going DEF Stage
  <2>2. /\ faults' \in 0..Faults /\ trouble' \in [Import -> BOOLEAN]
        /\ trouble[v] => trouble'[v]
        /\ \A w \in Import \ {v} : trouble'[w] = trouble[w]
    BY <1>0, <1>1, Faulting, Reporting
  <2>3. /\ backfilling' \in [Import -> BOOLEAN] /\ todo' \in [Import -> SUBSET Match]
        /\ BackfillDue(v) => backfilling'[v] /\ todo'[v] = bracket[v]
        /\ ~BackfillDue(v) => UNCHANGED <<backfilling, todo>>
        /\ \A w \in Import \ {v} : backfilling'[w] = backfilling[w] /\ todo'[w] = todo[w]
    <3>1. CASE BackfillDue(v)
      BY <1>0, <1>1, <3>1, Starting
    <3>2. CASE ~BackfillDue(v)
      BY <1>0, <1>1, <3>2 DEF TypeOK
    <3>3. QED
      BY <3>1, <3>2
  <2>4. TypeOK'
    BY <1>0, <2>1, <2>2, <2>3 DEF TypeOK
  <2>5. Local(v)'
    BY <1>0, <1>b, <2>1, <2>2, <2>3 DEF TypeOK, Local, KnowsFinished, BackfillFollows, Early, Late, CreatedEnds,
       BackfillCounts, CollectsAll
  <2>6. Grows(v) /\ \A w \in Import \ {v} : Rests(w)
    BY <1>0, <2>1, <2>2, <2>3 DEF TypeOK, Grows, Rests
  <2>7. QED
    BY <1>0, <2>4, <2>5, <2>6, StepOf DEF EndDateMeansFinished
<1>2. CASE End(v, "threw") /\ Fault(TRUE) /\ UNCHANGED <<trouble, backfilling, todo>>
  <2>1. /\ pc' \in [Import -> Stage] /\ pc'[v] = "done" /\ ended'[v] = "threw"
        /\ ended' \in [Import -> {"no", "returned", "threw", "blocked", "interrupted", "lost"}]
        /\ \A w \in Import \ {v} : pc'[w] = pc[w] /\ ended'[w] = ended[w]
    BY <1>0, <1>2, Ending
  <2>2. faults' \in 0..Faults
    BY <1>0, <1>2, Faulting
  <2>3. TypeOK'
    BY <1>0, <1>2, <2>1, <2>2 DEF TypeOK
  <2>4. Local(v)'
    BY <1>0, <1>2, <2>1 DEF TypeOK, Local, KnowsFinished, BackfillFollows, Early, Late, CreatedEnds,
       BackfillCounts, CollectsAll
  <2>5. Grows(v) /\ \A w \in Import \ {v} : Rests(w)
    BY <1>0, <1>2, <2>1 DEF TypeOK, Grows, Rests
  <2>6. QED
    BY <1>0, <2>3, <2>4, <2>5, StepOf DEF EndDateMeansFinished
<1>3. QED
  BY <1>1, <1>2

LEMMA Storing ==
  ASSUME TypeOK, NEW m \in Match, Stored(m) \/ StoredInPart(m)
  PROVE /\ rows' \subseteq Match /\ counted' \subseteq rows' /\ counted \subseteq counted'
        /\ Stored(m) => m \in counted'
BY DEF TypeOK, Stored, StoredInPart

LEMMA WriteRowInv ==
  ASSUME IInv, NEW v \in Import, WriteRow(v)
  PROVE IInv'
<1> USE DEF WriteRow, tpVars, Noted, OfCompetition
<1> DEFINE m == ask[v].match
<1>0. TypeOK /\ EndDateMeansFinished /\ Local(v)
  BY DEF IInv
<1>a. ~OfCompetition(v) /\ m \in Match
  BY <1>0, RequestsAreTyped DEF TypeOK, Local, BackfillFollows, RequestType
<1>b. Stored(m) \/ StoredInPart(m)
  OBVIOUS
<1>c. /\ rows' \subseteq Match /\ counted' \subseteq rows' /\ counted \subseteq counted'
  BY <1>0, <1>a, <1>b, Storing
<1>d. ~BackfillDue(v) => ~created[v]
  BY DEF BackfillDue
<1>1. CASE /\ \E whole \in BOOLEAN :
                /\ IF whole THEN Stored(ask[v].match) ELSE StoredInPart(ask[v].match)
                /\ Noted(v, ~whole)
                /\ IF BackfillDue(v) THEN Go(v, "teams")
                   ELSE IF whole THEN Go(v, "settle") ELSE End(v, "returned")
           /\ IF BackfillDue(v) THEN StartBackfill(v) ELSE UNCHANGED <<backfilling, todo>>
  <2>1. PICK whole \in BOOLEAN :
          /\ Noted(v, ~whole)
          /\ IF BackfillDue(v) THEN Go(v, "teams")
             ELSE IF whole THEN Go(v, "settle") ELSE End(v, "returned")
    BY <1>1
  <2>2. /\ pc' \in [Import -> Stage] /\ ended' \in [Import -> {"no", "returned", "threw", "blocked", "interrupted", "lost"}]
        /\ \/ BackfillDue(v) /\ pc'[v] = "teams" /\ ended'[v] = ended[v]
           \/ ~BackfillDue(v) /\ pc'[v] = "settle" /\ ended'[v] = ended[v]
           \/ ~BackfillDue(v) /\ pc'[v] = "done" /\ ended'[v] = "returned" /\ ~whole
        /\ \A w \in Import \ {v} : pc'[w] = pc[w] /\ ended'[w] = ended[w]
    <3>1. CASE BackfillDue(v) \/ whole
      BY <1>0, <2>1, <3>1, Going DEF Stage, TypeOK
    <3>2. CASE ~BackfillDue(v) /\ ~whole
      BY <1>0, <2>1, <3>2, Ending
    <3>3. QED
      BY <3>1, <3>2
  <2>3. /\ faults' \in 0..Faults /\ trouble' \in [Import -> BOOLEAN]
        /\ trouble'[v] = (trouble[v] \/ ~whole)
        /\ \A w \in Import \ {v} : trouble'[w] = trouble[w]
    BY <1>0, <2>1, Faulting, Reporting
  <2>4. /\ backfilling' \in [Import -> BOOLEAN] /\ todo' \in [Import -> SUBSET Match]
        /\ BackfillDue(v) => backfilling'[v] /\ todo'[v] = bracket[v]
        /\ ~BackfillDue(v) => UNCHANGED <<backfilling, todo>>
        /\ \A w \in Import \ {v} : backfilling'[w] = backfilling[w] /\ todo'[w] = todo[w]
    <3>1. CASE BackfillDue(v)
      BY <1>0, <1>1, <3>1, Starting
    <3>2. CASE ~BackfillDue(v)
      BY <1>0, <1>1, <3>2 DEF TypeOK
    <3>3. QED
      BY <3>1, <3>2
  <2>5. TypeOK'
    BY <1>0, <1>c, <2>2, <2>3, <2>4 DEF TypeOK
  <2>6. Local(v)'
    BY <1>0, <1>a, <1>c, <1>d, <2>2, <2>3, <2>4 DEF TypeOK, Local, KnowsFinished, BackfillFollows, Early, Late, CreatedEnds,
       BackfillCounts, CollectsAll
  <2>7. Grows(v) /\ \A w \in Import \ {v} : Rests(w)
    BY <1>0, <1>c, <2>2, <2>3, <2>4 DEF TypeOK, Grows, Rests
  <2>8. QED
    BY <1>0, <2>5, <2>6, <2>7, StepOf DEF EndDateMeansFinished
<1>2. CASE End(v, "threw") /\ Fault(TRUE) /\ UNCHANGED <<trouble, backfilling, todo>>
  <2>1. /\ pc' \in [Import -> Stage] /\ pc'[v] = "done" /\ ended'[v] = "threw"
        /\ ended' \in [Import -> {"no", "returned", "threw", "blocked", "interrupted", "lost"}]
        /\ \A w \in Import \ {v} : pc'[w] = pc[w] /\ ended'[w] = ended[w]
    BY <1>0, <1>2, Ending
  <2>2. faults' \in 0..Faults
    BY <1>0, <1>2, Faulting
  <2>3. TypeOK'
    BY <1>0, <1>2, <1>c, <2>1, <2>2 DEF TypeOK
  <2>4. Local(v)'
    BY <1>0, <1>2, <1>c, <2>1 DEF TypeOK, Local, KnowsFinished, BackfillFollows, Early, Late, CreatedEnds,
       BackfillCounts, CollectsAll
  <2>5. Grows(v) /\ \A w \in Import \ {v} : Rests(w)
    BY <1>0, <1>2, <1>c, <2>1 DEF TypeOK, Grows, Rests
  <2>6. QED
    BY <1>0, <2>3, <2>4, <2>5, StepOf DEF EndDateMeansFinished
<1>3. QED
  BY <1>1, <1>2

LEMMA Excluding ==
  ASSUME TypeOK, NEW v \in Import, NEW teams \in SUBSET Team, Exclude(v, teams)
  PROVE /\ excluded' \in [Import -> SUBSET Team]
        /\ \A w \in Import \ {v} : excluded'[w] = excluded[w]
BY DEF Exclude, TypeOK

LEMMA Failing ==
  ASSUME TypeOK, NEW v \in Import, Failed(v)
  PROVE /\ skewed' \in [Import -> BOOLEAN] /\ skewed'[v]
        /\ faults' \in 0..Faults /\ trouble' \in [Import -> BOOLEAN] /\ trouble'[v]
        /\ \A w \in Import \ {v} : skewed'[w] = skewed[w] /\ trouble'[w] = trouble[w]
<1>1. /\ skewed' \in [Import -> BOOLEAN] /\ skewed'[v]
      /\ \A w \in Import \ {v} : skewed'[w] = skewed[w]
  BY DEF Failed, TypeOK
<1>2. QED
  BY <1>1, Faulting, Reporting DEF Failed, Noted

LEMMA BackfillMatchInv ==
  ASSUME IInv, NEW v \in Import, BackfillMatch(v)
  PROVE IInv'
<1> USE DEF BackfillMatch, tpVars
<1> DEFINE m == Min(todo[v])
<1>0. TypeOK /\ EndDateMeansFinished /\ Local(v)
  BY DEF IInv
<1>a. /\ m \in todo[v] /\ m \in Match /\ Sides(m) \in SUBSET Team
      /\ {Side[m].home} \in SUBSET Team
  BY <1>0, FirstIsFirst, SidesAreTeams DEF TypeOK, Sides
<1>b. /\ todo' \in [Import -> SUBSET Match] /\ todo'[v] = todo[v] \ {m}
      /\ \A w \in Import \ {v} : todo'[w] = todo[w]
  BY <1>0 DEF TypeOK
<1> DEFINE
  Teams(teams) ==
    /\ spp' \in [Team -> [by : Import \cup {None}, settled : BOOLEAN]]
    /\ \A t \in Team : IF t \in teams THEN spp'[t] = [by |-> v, settled |-> FALSE]
                                     ELSE spp'[t] = spp[t]
  Facts(teams) ==
    /\ facts' \in [Import -> SUBSET Team] /\ facts'[v] = facts[v] \cup teams
    /\ \A w \in Import \ {v} : facts'[w] = facts[w]
  Rows == rows' \subseteq Match /\ counted' \subseteq rows' /\ counted \subseteq counted'
  Bad ==
    /\ skewed' \in [Import -> BOOLEAN] /\ skewed'[v]
    /\ faults' \in 0..Faults /\ trouble' \in [Import -> BOOLEAN] /\ trouble'[v]
    /\ \A w \in Import \ {v} : skewed'[w] = skewed[w] /\ trouble'[w] = trouble[w]
  Others ==
    /\ excluded' \in [Import -> SUBSET Team]
    /\ \A w \in Import \ {v} : excluded'[w] = excluded[w]
  Good == m \in counted' /\ UNCHANGED <<faults, skewed, trouble, excluded>>
<1>c. /\ Rows /\ Others
      /\ \/ Good /\ Teams(Sides(m)) /\ Facts(Sides(m))
         \/ Bad /\ \E some, given \in SUBSET Team : Teams(some) /\ Facts(given)
  <2>1. CASE /\ Stored(m) /\ Imported(v, Sides(m)) /\ Collected(v, Sides(m))
             /\ UNCHANGED <<faults, skewed, trouble, excluded>>
    <3>1. Rows /\ m \in counted'
      BY <1>0, <1>a, <2>1, Storing
    <3>2. Teams(Sides(m)) /\ Facts(Sides(m))
      BY <1>0, <1>a, <2>1, Importing, Collecting
    <3>3. Others
      BY <1>0, <2>1 DEF TypeOK
    <3>4. QED
      BY <2>1, <3>1, <3>2, <3>3
  <2>2. CASE /\ StoredInPart(m) /\ Imported(v, Sides(m)) /\ Collected(v, Sides(m))
             /\ Exclude(v, Sides(m)) /\ Failed(v)
    <3>1. Rows
      BY <1>0, <1>a, <2>2, Storing
    <3>2. Teams(Sides(m)) /\ Facts(Sides(m))
      BY <1>0, <1>a, <2>2, Importing, Collecting
    <3>3. Bad /\ Others
      BY <1>0, <1>a, <2>2, Excluding, Failing
    <3> HIDE DEF Teams, Facts, Rows, Bad, Others
    <3>4. QED
      BY <1>a, <3>1, <3>2, <3>3
  <2>3. CASE \E some \in {{}, {Side[m].home}} :
               /\ Imported(v, some) /\ Collected(v, some) /\ Exclude(v, some) /\ Failed(v)
               /\ UNCHANGED <<rows, counted>>
    <3>1. PICK some \in SUBSET Team :
               /\ Imported(v, some) /\ Collected(v, some) /\ Exclude(v, some) /\ Failed(v)
               /\ UNCHANGED <<rows, counted>>
      BY <1>a, <2>3
    <3>2. Rows
      BY <1>0, <3>1 DEF TypeOK
    <3>3. Bad /\ Others /\ Teams(some) /\ Facts(some)
      BY <1>0, <3>1, Importing, Collecting, Excluding, Failing
    <3>4. QED
      BY <3>2, <3>3
  <2>4. CASE /\ StoredInPart(m) /\ Imported(v, Sides(m)) /\ Failed(v)
             /\ UNCHANGED <<facts, excluded>>
    <3>1. Facts({})
      <4>1. facts[v] \cup {} = facts[v]
        OBVIOUS
      <4>2. QED
        BY <1>0, <2>4, <4>1 DEF TypeOK
    <3>b. Others
      BY <1>0, <2>4 DEF TypeOK
    <3>2. Rows /\ Bad /\ Teams(Sides(m))
      BY <1>0, <1>a, <2>4, Storing, Importing, Failing
    <3> HIDE DEF Teams, Facts, Rows, Bad, Others
    <3>3. {} \in SUBSET Team
      OBVIOUS
    <3>4. QED
      BY <1>a, <3>1, <3>b, <3>2, <3>3
  <2>5. QED
    BY <2>1, <2>2, <2>3, <2>4
<1>1. PICK some, given \in SUBSET Team :
        Teams(some) /\ Facts(given) /\ ((Good /\ some = given) \/ Bad)
  BY <1>a, <1>c
<1>2. TypeOK'
  BY <1>0, <1>b, <1>c, <1>1 DEF TypeOK
<1>3. KnowsFinished(v)' /\ BackfillFollows(v)' /\ CreatedEnds(v)'
  BY <1>0, <1>b DEF TypeOK, Local, KnowsFinished, BackfillFollows, Early, Late, CreatedEnds,
       BackfillCounts, CollectsAll
<1>4. BackfillCounts(v)'
  BY <1>0, <1>a, <1>b, <1>c, <1>1 DEF TypeOK, Local, BackfillCounts
<1>5. CollectsAll(v)'
  BY <1>0, <1>c, <1>1 DEF TypeOK, Local, CollectsAll
<1>6. Grows(v) /\ \A w \in Import \ {v} : Rests(w)
  BY <1>0, <1>b, <1>c, <1>1 DEF TypeOK, Grows, Rests
<1>7. QED
  BY <1>0, <1>2, <1>3, <1>4, <1>5, <1>6, StepOf DEF EndDateMeansFinished, Local

LEMMA EndBackfillInv ==
  ASSUME IInv, NEW v \in Import, EndBackfill(v)
  PROVE IInv'
<1> USE DEF EndBackfill, tpVars, dbVars, plan, notes, OfCompetition
<1>0. TypeOK /\ EndDateMeansFinished /\ Local(v)
  BY DEF IInv
<1>1. /\ pc' \in [Import -> Stage] /\ ended' = ended
      /\ pc'[v] \in {"extras", "reread", "settle"}
      /\ \A w \in Import \ {v} : pc'[w] = pc[w]
  BY <1>0, Going DEF Stage
<1>2. TypeOK'
  BY <1>0, <1>1 DEF TypeOK
<1>3. Local(v)'
  BY <1>0, <1>1 DEF TypeOK, Local, KnowsFinished, BackfillFollows, Early, Late, CreatedEnds,
       BackfillCounts, CollectsAll
<1>4. Grows(v) /\ \A w \in Import \ {v} : Rests(w)
  BY <1>0, <1>1 DEF TypeOK, Grows, Rests
<1>5. QED
  BY <1>0, <1>2, <1>3, <1>4, StepOf DEF EndDateMeansFinished

LEMMA AwardExtrasInv ==
  ASSUME IInv, NEW v \in Import, AwardExtras(v)
  PROVE IInv'
<1> USE DEF AwardExtras, tpVars, dbVars, plan, OfCompetition
<1>0. TypeOK /\ EndDateMeansFinished /\ Local(v)
  BY DEF IInv
<1>1. /\ pc' \in [Import -> Stage] /\ ended' = ended /\ pc'[v] = "settle"
      /\ \A w \in Import \ {v} : pc'[w] = pc[w]
  BY <1>0, Going DEF Stage
<1>2. /\ faults' \in 0..Faults /\ trouble' \in [Import -> BOOLEAN]
      /\ trouble[v] => trouble'[v]
      /\ \A w \in Import \ {v} : trouble'[w] = trouble[w]
  BY <1>0, Faulting, Reporting DEF Noted, TypeOK
<1>3. \/ extras' = extras
      \/ extras' = [extras EXCEPT ![v] = counted] /\ ~Skipped(v)
  OBVIOUS
<1>4. /\ extras' \in [Import -> {None} \cup SUBSET Match]
      /\ \A w \in Import \ {v} : extras'[w] = extras[w]
      /\ extras'[v] = extras[v] \/ (extras'[v] = counted /\ ~Skipped(v))
  <2>1. counted \in {None} \cup SUBSET Match
    BY <1>0 DEF TypeOK
  <2>2. QED
    BY <1>0, <1>3, <2>1 DEF TypeOK
<1>5. TypeOK'
  BY <1>0, <1>1, <1>2, <1>4 DEF TypeOK
<1>6. Local(v)'
  <2>1. KnowsFinished(v)' /\ BackfillFollows(v)' /\ CreatedEnds(v)' /\ CollectsAll(v)'
    BY <1>0, <1>1, <1>2 DEF TypeOK, Local, KnowsFinished, BackfillFollows, Early, Late, CreatedEnds,
       BackfillCounts, CollectsAll
  <2>2. BackfillCounts(v)'
    BY <1>0, <1>1, <1>4 DEF TypeOK, Local, BackfillFollows, BackfillCounts, Skipped
  <2>3. QED
    BY <2>1, <2>2 DEF Local
<1>7. Grows(v) /\ \A w \in Import \ {v} : Rests(w)
  BY <1>0, <1>1, <1>2, <1>4 DEF TypeOK, Grows, Rests
<1>8. QED
  BY <1>0, <1>5, <1>6, <1>7, StepOf DEF EndDateMeansFinished

LEMMA SettleInv ==
  ASSUME IInv, NEW v \in Import, Settle(v)
  PROVE IInv'
<1> USE DEF Settle, tpVars, plan, Noted, OfCompetition
<1>0. TypeOK /\ EndDateMeansFinished /\ Local(v)
  BY DEF IInv
<1>1. PICK teams \in SUBSET Settled(v) :
        /\ spp' = [t \in Team |-> IF t \in teams THEN [by |-> v, settled |-> TRUE] ELSE spp[t]]
        /\ Noted(v, teams # Settled(v))
  OBVIOUS
<1>2. /\ pc' \in [Import -> Stage] /\ pc'[v] = "done" /\ ended'[v] = "returned"
      /\ ended' \in [Import -> {"no", "returned", "threw", "blocked", "interrupted", "lost"}]
      /\ \A w \in Import \ {v} : pc'[w] = pc[w] /\ ended'[w] = ended[w]
  BY <1>0, Ending
<1>3. /\ faults' \in 0..Faults /\ trouble' \in [Import -> BOOLEAN]
      /\ trouble'[v] = (trouble[v] \/ teams # Settled(v))
      /\ \A w \in Import \ {v} : trouble'[w] = trouble[w]
  <2>1. (teams # Settled(v)) \in BOOLEAN
    OBVIOUS
  <2>2. QED
    BY <1>0, <1>1, <2>1, Faulting, Reporting
<1>4. /\ spp' \in [Team -> [by : Import \cup {None}, settled : BOOLEAN]]
      /\ \A t \in Team : IF t \in teams THEN spp'[t] = [by |-> v, settled |-> TRUE]
                                       ELSE spp'[t] = spp[t]
  BY <1>0, <1>1 DEF TypeOK
<1>5. TypeOK'
  BY <1>0, <1>2, <1>3, <1>4 DEF TypeOK
<1>6. KnowsFinished(v)' /\ BackfillFollows(v)' /\ CreatedEnds(v)' /\ BackfillCounts(v)'
  BY <1>0, <1>2 DEF TypeOK, Local, KnowsFinished, BackfillFollows, Early, Late, CreatedEnds,
       BackfillCounts, CollectsAll
<1>7. CollectsAll(v)'
  BY <1>0, <1>2, <1>3, <1>4 DEF TypeOK, Local, CollectsAll, Settled
<1>8. Grows(v) /\ \A w \in Import \ {v} : Rests(w)
  BY <1>0, <1>2, <1>3, <1>4 DEF TypeOK, Grows, Rests
<1>9. QED
  BY <1>0, <1>5, <1>6, <1>7, <1>8, StepOf DEF EndDateMeansFinished, Local

LEMMA BlockInv ==
  ASSUME IInv, NEW v \in Import, Block(v)
  PROVE IInv'
<1> USE DEF Block, tpVars, plan, notes, OfCompetition
<1>0. TypeOK /\ EndDateMeansFinished /\ Local(v)
  BY DEF IInv
<1>1. PICK some \in SUBSET Team : Imported(v, some)
  <2>1. pc[v] = "match" => Side[ask[v].match].home \in Team
    BY <1>0, RequestsAreTyped, SidesAreTeams DEF TypeOK, Local, BackfillFollows, RequestType
  <2>2. pc[v] = "backfill" => Side[Min(todo[v])].home \in Team
    BY <1>0, FirstIsFirst, SidesAreTeams DEF TypeOK
  <2>3. CASE pc[v] = "match"
    BY <2>1, <2>3
  <2>4. CASE pc[v] = "backfill"
    BY <2>2, <2>4
  <2>5. CASE pc[v] \in {"bracket", "teams", "awards"}
    BY <2>5
  <2>6. QED
    BY <2>3, <2>4, <2>5
<1>2. /\ pc' \in [Import -> Stage] /\ pc'[v] = "done" /\ ended'[v] = HowBlocked(v)
      /\ ended' \in [Import -> {"no", "returned", "threw", "blocked", "interrupted", "lost"}]
      /\ \A w \in Import \ {v} : pc'[w] = pc[w] /\ ended'[w] = ended[w]
  BY <1>0, Ending DEF HowBlocked
<1>3. /\ faults' \in 0..Faults
      /\ spp' \in [Team -> [by : Import \cup {None}, settled : BOOLEAN]]
      /\ \A t \in Team : IF t \in some THEN spp'[t] = [by |-> v, settled |-> FALSE]
                                      ELSE spp'[t] = spp[t]
  BY <1>0, <1>1, Faulting, Importing
<1>4. TypeOK'
  BY <1>0, <1>2, <1>3 DEF TypeOK
<1>5. Local(v)'
  BY <1>0, <1>2 DEF HowBlocked, TypeOK, Local, KnowsFinished, BackfillFollows, Early, Late, CreatedEnds,
       BackfillCounts, CollectsAll
<1>6. Grows(v) /\ \A w \in Import \ {v} : Rests(w)
  BY <1>0, <1>2, <1>3 DEF TypeOK, Grows, Rests
<1>7. QED
  BY <1>0, <1>4, <1>5, <1>6, StepOf DEF EndDateMeansFinished

LEMMA LoseInv ==
  ASSUME IInv, NEW v \in Import, Lose(v)
  PROVE IInv'
<1> USE DEF Lose, tpVars, dbVars, plan, notes, OfCompetition
<1>0. TypeOK /\ EndDateMeansFinished /\ Local(v)
  BY DEF IInv
<1>1. /\ pc' \in [Import -> Stage] /\ pc'[v] = "done" /\ ended'[v] = "lost"
      /\ ended' \in [Import -> {"no", "returned", "threw", "blocked", "interrupted", "lost"}]
      /\ \A w \in Import \ {v} : pc'[w] = pc[w] /\ ended'[w] = ended[w]
  BY <1>0, Ending
<1>2. faults' \in 0..Faults
  BY <1>0, Faulting
<1>3. TypeOK'
  BY <1>0, <1>1, <1>2 DEF TypeOK
<1>4. Local(v)'
  BY <1>0, <1>1 DEF TypeOK, Local, KnowsFinished, BackfillFollows, Early, Late, CreatedEnds,
       BackfillCounts, CollectsAll
<1>5. Grows(v) /\ \A w \in Import \ {v} : Rests(w)
  BY <1>0, <1>1 DEF TypeOK, Grows, Rests
<1>6. QED
  BY <1>0, <1>3, <1>4, <1>5, StepOf DEF EndDateMeansFinished

\* What TP does is a step of no import.
LEMMA TpInv ==
  ASSUME IInv, Play \/ Publish
  PROVE IInv'
<1> USE DEF Play, Publish, dbVars, plan, notes
<1>1. TypeOK /\ EndDateMeansFinished /\ \A w \in Import : Local(w)
  BY DEF IInv
<1>2. /\ played' \subseteq Match /\ published' \in BOOLEAN /\ (published => published')
      /\ UNCHANGED <<dbVars, faults, pc, plan, notes, ended>>
  BY <1>1 DEF TypeOK
<1>3. TypeOK'
  BY <1>1, <1>2 DEF TypeOK
<1>4. EndDateMeansFinished'
  BY <1>1, <1>2 DEF EndDateMeansFinished
<1>5. ASSUME NEW w \in Import PROVE Local(w)'
  <2>1. Rests(w) /\ Grows(None)
    BY <1>2 DEF Rests, Grows
  <2>2. QED
    BY <1>1, <2>1, LocalStays, NoneIsNothing
<1>6. QED
  BY <1>3, <1>4, <1>5 DEF IInv

LEMMA NextInv == IInv /\ [Next]_vars => IInv'
<1> SUFFICES ASSUME IInv, [Next]_vars PROVE IInv'
  OBVIOUS
<1>1. CASE UNCHANGED vars
  BY <1>1 DEF vars, tpVars, dbVars, plan, notes, IInv, TypeOK, EndDateMeansFinished, Local,
     KnowsFinished, BackfillFollows, Early, Late, OfCompetition, CreatedEnds, BackfillCounts,
     CollectsAll
<1>2. CASE Play \/ Publish
  BY <1>2, TpInv
<1>3. ASSUME NEW v \in Import,
             \/ FetchMatch(v) \/ FetchBracket(v) \/ ImportRegistered(v) \/ FetchAwards(v)
             \/ Read(v) \/ Write(v) \/ LinkAndAward(v) \/ WriteRow(v)
             \/ BackfillMatch(v) \/ EndBackfill(v) \/ AwardExtras(v) \/ Settle(v)
             \/ Block(v) \/ Lose(v)
      PROVE IInv'
  BY <1>3, FetchMatchInv, FetchBracketInv, ImportRegisteredInv, FetchAwardsInv, ReadInv, WriteInv,
     LinkAndAwardInv, WriteRowInv, BackfillMatchInv, EndBackfillInv, AwardExtrasInv, SettleInv,
     BlockInv, LoseInv
<1>4. QED
  BY <1>1, <1>2, <1>3 DEF Next

LEMMA Inductive == Spec => []IInv
BY InitInv, NextInv, PTL DEF Spec

-----------------------------------------------------------------------------

\* TpLiveCompetitionImportService, TpLiveMatchImportService: what the imports keep
\* and store is always well-typed, and no event is stored without its match.
THEOREM TypeCorrect == Spec => []TypeOK
<1>1. IInv => TypeOK
  BY DEF IInv
<1>2. QED
  BY <1>1, Inductive, PTL

\* endDateField(): however imports overlap, a stored end date means that TP had
\* published the awards.
THEOREM FinishedIsTold == Spec => []EndDateMeansFinished
<1>1. IInv => EndDateMeansFinished
  BY DEF IInv
<1>2. QED
  BY <1>1, Inductive, PTL

\* forceMatchBackfill: whoever creates the competition backfills all the matches of
\* its bracket, unless it is interrupted in a way its caller is told of.
THEOREM CreationIsFollowed == Spec => []CreatedIsBackfilled
<1>1. IInv => CreatedIsBackfilled
  BY DEF IInv, Local, CreatedEnds, CreatedIsBackfilled
<1>2. QED
  BY <1>1, Inductive, PTL

\* settle(): an import without errors settles whatever it imported last.
THEOREM NothingIsLeftUnsettled == Spec => []CleanImportSettles
<1>1. IInv => CleanImportSettles
  BY DEF IInv, Local, CollectsAll, CleanImportSettles
<1>2. QED
  BY <1>1, Inductive, PTL

\* skippedForBackfillErrors(): extra awards are never computed from a backfill that
\* lacks a match.
THEOREM ExtrasAreComplete == Spec => []ExtrasSeeTheBackfill
<1>1. IInv => ExtrasSeeTheBackfill
  BY DEF IInv, Local, BackfillCounts, ExtrasSeeTheBackfill
<1>2. QED
  BY <1>1, Inductive, PTL

-----------------------------------------------------------------------------
(* The span of a competition.                                                *)

Widens ==
  comp # None /\ comp' # comp =>
    \E v \in Import :
      /\ pc[v] \in {"write", "rewrite"}
      /\ \/ seen[v] # comp
         \/ /\ comp'.start <= comp.start
            /\ comp.end # None =>
                 IF comp'.end = None THEN awards[v] = "none" ELSE comp'.end >= comp.end

LEMMA UpsertWidens ==
  ASSUME TypeOK, NEW v \in Import, Local(v), pc[v] \in {"write", "rewrite"},
         comp # None, seen[v] = comp, comp' = Upserted(v)
  PROVE /\ comp'.start <= comp.start
        /\ comp.end # None =>
             IF comp'.end = None THEN awards[v] = "none" ELSE comp'.end >= comp.end
<1>1. comp \in Competition /\ comp.start \in Match /\ comp.end \in Match \cup {None}
  BY DEF TypeOK, Competition
<1>2. comp.start \in Nat /\ (comp.end # None => comp.end \in Nat)
  BY <1>1, MatchesAreDates
<1>3. CASE Derives(v)
  <2>1. DatesToDerive(v) \in SUBSET Match /\ DatesToDerive(v) # {}
    BY DatesAreKnown
  <2>2. comp.start \in DatesToDerive(v) /\ (comp.end # None => comp.end \in DatesToDerive(v))
    BY <1>1, NoneIsNothing DEF DatesToDerive
  <2>3. comp' = [start |-> Min(DatesToDerive(v)), end |-> EndDate(v, comp.end)]
    BY <1>3 DEF Upserted
  <2>4. comp'.start <= comp.start
    BY <2>1, <2>2, <2>3, FirstIsFirst
  <2>5. ASSUME comp.end # None
        PROVE IF comp'.end = None THEN awards[v] = "none" ELSE comp'.end >= comp.end
    <3>1. Max(DatesToDerive(v)) \in Match /\ comp.end <= Max(DatesToDerive(v))
      BY <2>1, <2>2, <2>5, LastIsLast
    <3>2. Max(DatesToDerive(v)) # None /\ Max(DatesToDerive(v)) >= comp.end
      BY <1>2, <2>5, <3>1, MatchesAreDates, NoneIsNothing
    <3>3. comp'.end = EndDate(v, comp.end) /\ comp.end >= comp.end
      BY <1>2, <2>3, <2>5
    <3>4. QED
      BY <2>5, <3>2, <3>3 DEF EndDate
  <2>6. QED
    BY <2>4, <2>5
<1>4. CASE ~Derives(v)
  <2>1. /\ comp'.start = comp.start
        /\ comp'.end = IF Overlays(v) /\ awards[v] = "none" THEN None ELSE comp.end
    BY <1>1, <1>4 DEF Upserted, Competition
  <2>2. QED
    BY <1>2, <2>1
<1>5. QED
  BY <1>3, <1>4

LEMMA StepWidens == IInv /\ [Next]_vars => Widens
<1> SUFFICES ASSUME IInv, [Next]_vars, comp # None, comp' # comp
             PROVE \E v \in Import :
                     /\ pc[v] \in {"write", "rewrite"}
                     /\ \/ seen[v] # comp
                        \/ /\ comp'.start <= comp.start
                           /\ comp.end # None =>
                                IF comp'.end = None THEN awards[v] = "none"
                                ELSE comp'.end >= comp.end
  BY DEF Widens
<1>1. PICK v \in Import : Write(v)
  BY DEF Next, vars, tpVars, dbVars, plan, notes, Play, Publish, FetchMatch, FetchBracket,
     ImportRegistered, FetchAwards, Read, LinkAndAward, WriteRow, BackfillMatch, EndBackfill,
     AwardExtras, Settle, Block, Lose
<1>2. pc[v] \in {"write", "rewrite"} /\ comp' = Upserted(v)
  BY <1>1 DEF Write
<1>3. QED
  BY <1>2, UpsertWidens DEF IInv

\* upsertCompetition(): only an upsert that overlaps another, or that knows the
\* competition unfinished, narrows its span.
THEOREM SpansWiden == Spec => SpanOnlyWidens
<1>1. IInv /\ [Next]_vars => [Widens]_vars
  BY StepWidens
<1>2. QED
  BY <1>1, Inductive, PTL DEF Spec, SpanOnlyWidens, Widens

=============================================================================
