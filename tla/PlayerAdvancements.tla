-------------------------- MODULE PlayerAdvancements --------------------------
(***************************************************************************)
(* The advancements of one player, as packages/game-data stores them: a    *)
(* row per skill and per characteristic increase, the paid ones numbered   *)
(* in the order they were taken as far as it is known (orderConfirmed).    *)
(*                                                                         *)
(* Written by the import of BBL, which lists every advancement in order;   *)
(* by the live and the bulk import of TP, which work the order out from    *)
(* what is stored and from the SPP spent; and by a curated trophy award,   *)
(* whose granted skill costs nothing.  One importer and the curator may    *)
(* overlap, and each of their calls can fail.                              *)
(*                                                                         *)
(* Left out: how a skill was rolled, the variants of a skill, the skills   *)
(* TP itself flags as extra (Hatred stands for them), and the prices: the  *)
(* stored unspent SPP of an era with fixed thresholds is modelled by the   *)
(* number of paid advancements it was worked out from.                     *)
(***************************************************************************)
EXTENDS Integers, Sequences, FiniteSets, SequencesExt

CONSTANTS
  Skill,
  Starting,        \* the starting skills among them
  Hatred,          \* the skills that are always free extras
  Characteristic,  \* in stat-line order
  MaxGained,       \* bound: the advancements a player takes
  MaxImports,      \* bound: the imports of the player
  MaxCurations,    \* bound: the calls that record an award
  Unknown

ASSUME SkillsAreSorted ==
  Starting \cup Hatred \subseteq Skill /\ Starting \cap Hatred = {} /\ IsFiniteSet(Starting)
ASSUME CharacteristicsAreNoSkills == Range(Characteristic) \cap Skill = {}
ASSUME CharacteristicsAreListed ==
  Characteristic \in Seq(Range(Characteristic)) /\ IsInjective(Characteristic)
ASSUME AdvancementBoundsAreNat == {MaxGained, MaxImports, MaxCurations} \subseteq Nat
ASSUME UnknownIsNothing == Unknown \notin Skill \cup Range(Characteristic) \cup Nat

VARIABLES
  site,        \* where the player is imported from
  gained,      \* what he has really gained, in order
  rows,        \* the stored rows, by id; order 0 is none
  award,       \* the skill his trophy award grants
  unspent,     \* players.unspent_spp: the paid advancements it was priced by

  stage,       \* the importer
  told,        \* the complete report it imports, or Unknown
  entries,     \* the entries of its next sync
  pending,     \* those whose order is to be deduced, with when each was gained
  planned,     \* what its sync read, and the rows it planned
  imports,     \* imports begun

  curation,    \* the award's call
  curations,   \* calls made

  overlapped,  \* history: the last call to begin met the other one
  shown,       \* history: the report a numbered import stored, while it stands
  whole,       \* history: nothing was stored that hides, or guessed wrong, an order
  exact        \* history: the unspent SPP was worked out after the last marking

advStore == <<rows, award, unspent>>
importer == <<stage, told, entries, pending, planned, imports>>
curator == <<curation, curations>>
advHistory == <<overlapped, shown, whole, exact>>
advVars == <<site, gained, advStore, importer, curator, advHistory>>

Increase == Range(Characteristic)
Idle == [step |-> "idle", old |-> Unknown, count |-> 0]
NotPlanned == [read |-> <<>>, granted |-> Unknown, rows |-> <<>>, count |-> 0]

AdvInit ==
  /\ site \in {"bbl", "tp"}
  /\ gained = <<>> /\ rows = <<>> /\ award = Unknown /\ unspent = Unknown
  /\ stage = "idle" /\ told = Unknown /\ entries = <<>> /\ pending = <<>>
  /\ planned = NotPlanned /\ imports = 0
  /\ curation = Idle /\ curations = 0
  /\ overlapped = FALSE /\ shown = Unknown /\ whole = TRUE /\ exact = TRUE

-----------------------------------------------------------------------------
(* Rows.                                                                     *)

Paid(row) == row.what \notin Starting /\ ~row.free /\ ~row.removed

PaidRows(table) == {i \in DOMAIN table : Paid(table[i])}

IsStored(table, what) == \E i \in DOMAIN table : table[i].what = what

\* Confirmed first, then ordered, then unordered; ties by order, then by index.
Rank(x) == IF x.confirmed THEN 0 ELSE IF x.order # 0 THEN 1 ELSE 2

Precedes(x, i, y, j) ==
  \/ Rank(x) < Rank(y)
  \/ Rank(x) = Rank(y) /\ (x.order < y.order \/ (x.order = y.order /\ i < j))

PlaceOf(i, ids, table) == Cardinality({j \in ids : Precedes(table[j], j, table[i], i)})

AtPlace(place, ids, table) == CHOOSE i \in ids : PlaceOf(i, ids, table) = place

\* The numbers of a set, in their order.
Ascending(S) ==
  [k \in 1..Cardinality(S) |-> CHOOSE n \in S : Cardinality({m \in S : m < n}) = k - 1]

-----------------------------------------------------------------------------
(* PlayerAdvancementSyncPlannerService and CharacteristicAdvancementPlanner-  *)
(* Service: the rows that a sync plans, from the rows it read.               *)

\* isFreeExtra()
FreeExtra(what, granted) ==
  what \in Skill \ Starting /\ (what \in Hatred \/ what = granted)

EntryIsFree(e, table, granted) ==
  \/ FreeExtra(e.what, granted)
  \/ e.what \in Skill \ Starting /\ \E i \in DOMAIN table : table[i].what = e.what /\ table[i].free

\* Mutant: a free extra keeps its slot in the numbering.
NotClosed(list, table, granted) ==
  [x \in DOMAIN list |->
     IF EntryIsFree(list[x], table, granted) THEN [list[x] EXCEPT !.confirmed = FALSE] ELSE list[x]]

\* closeFreeExtraSlots()
Closed(list, table, granted) ==
  LET slots == {list[x].order : x \in {y \in DOMAIN list :
                  EntryIsFree(list[y], table, granted) /\ list[y].confirmed}} IN
  [x \in DOMAIN list |->
     IF EntryIsFree(list[x], table, granted) THEN [list[x] EXCEPT !.confirmed = FALSE]
     ELSE IF list[x].confirmed
     THEN [list[x] EXCEPT !.order = @ - Cardinality({s \in slots : s < @})]
     ELSE list[x]]

\* skillUpdateValues()
SkillRow(row, e, granted) ==
  IF e.what \in Starting THEN [row EXCEPT !.order = 0, !.confirmed = FALSE]
  ELSE IF row.free \/ FreeExtra(e.what, granted)
  THEN [row EXCEPT !.order = e.order, !.confirmed = FALSE, !.free = TRUE]
  ELSE IF e.confirmed \/ ~row.confirmed
  THEN [row EXCEPT !.order = e.order, !.confirmed = @ \/ e.confirmed]
  ELSE row

\* keptValues()
KeptRow(row, e) ==
  IF row.confirmed /\ ~e.confirmed THEN row
  ELSE [row EXCEPT !.order = e.order, !.confirmed = @ \/ e.confirmed]

RowsOf(what, table) == {i \in DOMAIN table : table[i].what = what}

Active(what, table) == {i \in DOMAIN table : table[i].what = what /\ ~table[i].removed}

Gone(what, table) == {i \in DOMAIN table : table[i].what = what /\ table[i].removed}

SentFor(what, list) == {x \in DOMAIN list : list[x].what = what}

\* planCharacteristic(): the active rows best first, then the removed ones.
RowPlace(i, table) ==
  LET active == Active(table[i].what, table) IN
  IF i \in active THEN PlaceOf(i, active, table)
  ELSE Cardinality(active) + Cardinality({j \in Gone(table[i].what, table) : j < i})

\* planCharacteristic(): rows and entries are paired best first, what is left of
\* the rows is removed, what is left of the entries revives a removed row.
IncreaseRow(i, list, table) ==
  LET sent == SentFor(table[i].what, list)
      e == list[AtPlace(RowPlace(i, table), sent, list)]
  IN IF RowPlace(i, table) >= Cardinality(sent)
     THEN [table[i] EXCEPT !.order = 0, !.confirmed = FALSE, !.removed = TRUE]
     ELSE IF table[i].removed
     THEN [table[i] EXCEPT !.order = e.order, !.confirmed = e.confirmed, !.removed = FALSE]
     ELSE KeptRow(table[i], e)

NewRow(e, granted) ==
  [what |-> e.what, order |-> e.order, removed |-> FALSE,
   free |-> FreeExtra(e.what, granted), confirmed |-> e.confirmed /\ ~FreeExtra(e.what, granted)]

\* An entry that a stored row is found for.
Fits(x, list, table) ==
  IF list[x].what \in Skill THEN IsStored(table, list[x].what)
  ELSE PlaceOf(x, SentFor(list[x].what, list), list)
         < Cardinality(RowsOf(list[x].what, table))

UpdatedRow(i, list, table, granted) ==
  LET sent == SentFor(table[i].what, list) IN
  IF table[i].what \in Increase THEN IncreaseRow(i, list, table)
  ELSE IF sent # {} THEN SkillRow(table[i], list[CHOOSE x \in sent : TRUE], granted)
  ELSE table[i]

\* planSkills() and planCharacteristics()
PlannedRows(sent, table, granted) ==
  LET list == Closed(sent, table, granted)
      new == Ascending({x \in DOMAIN list : ~Fits(x, list, table)})
  IN [i \in DOMAIN table |-> UpdatedRow(i, list, table, granted)]
       \o [k \in DOMAIN new |-> NewRow(list[new[k]], granted)]

-----------------------------------------------------------------------------
(* TpAdvancementOrderService.liveEntries()                                   *)

Occurrence(what, n) ==
  CHOOSE i \in DOMAIN gained :
    gained[i] = what /\ Cardinality({j \in 1..i : gained[j] = what}) = n

PaidIn(base, stored) == {i \in base : Paid(stored[i])}

\* plannedStored(): in a bulk import, paid rows that are all unconfirmed are planned
\* as if they were not stored.
Base(bulk, stored) ==
  LET active == {i \in DOMAIN stored : ~stored[i].removed}
      paid == PaidIn(active, stored) IN
  IF bulk /\ ~\E i \in paid : stored[i].confirmed THEN active \ paid ELSE active

\* In a bulk import a confirmed history is kept: TP's list says nothing of the rest.
AsListed(bulk, base, stored) == bulk /\ PaidIn(base, stored) # {}

FirstNumber(base, stored) == Cardinality(PaidIn(base, stored)) + 1

\* newSkills()
NewSkills(list, base, stored) ==
  {x \in DOMAIN list :
     /\ list[x] \notin Starting /\ ~FreeExtra(list[x], award)
     /\ \A i \in base : stored[i].what # list[x]}

Of(c, base, stored) == {i \in base : stored[i].what = c}

\* The increases of a report: <<k, n>> is the n-th of the characteristic k.
Counted(counts) ==
  UNION {{k} \X (1..counts[Characteristic[k]]) : k \in DOMAIN Characteristic}

\* increases(): those above what is stored.
Added(counts, base, stored) ==
  {s \in Counted(counts) : Cardinality(Of(Characteristic[s[1]], base, stored)) < s[2]}

ComesBefore(s, t) == s[1] < t[1] \/ (s[1] = t[1] /\ s[2] < t[2])

\* Increases in the order of the stat line.
InLine(S) ==
  [k \in 1..Cardinality(S) |-> CHOOSE s \in S : Cardinality({t \in S : ComesBefore(t, s)}) = k - 1]

\* increases(): a stored one that is sent again, best first.
Again(s, base, stored) ==
  LET c == Characteristic[s[1]]
      row == stored[AtPlace(s[2] - 1, Of(c, base, stored), stored)] IN
  [what |-> c, order |-> row.order, confirmed |-> row.confirmed]

\* characteristicEntries()
Unordered(s) == [what |-> Characteristic[s[1]], order |-> 0, confirmed |-> FALSE]

\* Mutant: several new advancements are confirmed in the order TP lists them.
NothingWaits(check, baseline, count) == check

\* What waits for its order to be deduced: everything when the spend is known, or
\* several new advancements.
Waits(check, baseline, count) == check \/ (baseline /\ count > 1)

\* The entries for the skills as listed and the increases as counted; check says
\* that the spend is known.
LiveEntries(list, counts, check, bulk, stored) ==
  LET base == Base(bulk, stored)
      asListed == AsListed(bulk, base, stored)
      baseline == ~bulk /\ base # {}
      new == IF asListed THEN {} ELSE NewSkills(list, base, stored)
      added == IF asListed THEN {} ELSE Added(counts, base, stored)
      waits == Waits(check, baseline, Cardinality(new) + Cardinality(added))
      sure == baseline /\ ~waits
      first == FirstNumber(base, stored)
      again == InLine(Counted(counts) \ added)
      above == InLine(added)
      skills == [x \in DOMAIN list |->
        [what |-> list[x],
         order |-> IF list[x] \in Starting THEN 0
                   ELSE IF x \in new THEN first + Cardinality({y \in new : y < x})
                   ELSE x - Cardinality(Starting),
         confirmed |-> x \in new /\ sure]]
      kept == [k \in DOMAIN again |->
        IF asListed THEN Unordered(again[k]) ELSE Again(again[k], base, stored)]
      increases == [k \in DOMAIN above |->
        [what |-> Characteristic[above[k][1]], order |-> first + Cardinality(new) + k - 1,
         confirmed |-> sure]]
      before == Len(skills) + Len(kept)
      waiting == IF waits THEN new \cup {before + k : k \in DOMAIN above} ELSE {}
  IN [entries |-> skills \o kept \o increases,
      pending |-> [x \in waiting |->
        IF x \in new THEN Occurrence(list[x], 1)
        ELSE LET s == above[x - before] IN Occurrence(Characteristic[s[1]], s[2])]]

-----------------------------------------------------------------------------
(* The player, and the importer.                                             *)

Busy == stage # "idle"
Curating == curation.step # "idle"

\* A skill is gained once, an increase again and again.  An import works from one
\* page or roster as it was: what is gained during it could as well come after it.
Gain ==
  /\ ~Busy /\ ~Curating /\ Len(gained) < MaxGained
  /\ \E what \in (Skill \ (Starting \cup Range(gained))) \cup Increase :
       /\ site = "bbl" => what \notin Hatred
       /\ gained' = Append(gained, what)
  /\ UNCHANGED <<site, advStore, importer, curator, advHistory>>

BeginImport ==
  /\ stage = "idle" /\ imports < MaxImports
  /\ imports' = imports + 1
  /\ overlapped' = Curating

EndImport ==
  stage' = "idle" /\ told' = Unknown /\ entries' = <<>> /\ pending' = <<>>
  /\ planned' = NotPlanned

StartingList == SetToSeq(Starting)

\* readSkillsCell() and syncPlayerSkills() of BBL: everything gained is numbered;
\* a skill that cannot be resolved is left out.
BblScrape ==
  /\ site = "bbl" /\ BeginImport
  /\ \E out \in SUBSET (Skill \cap Range(gained)) :
       LET list == StartingList \o gained IN
       /\ told' = IF out = {} THEN gained ELSE Unknown
       /\ entries' = LET kept == Ascending({x \in DOMAIN list : list[x] \notin out}) IN
            [k \in DOMAIN kept |->
               LET x == kept[k] IN
               [what |-> list[x], confirmed |-> list[x] \notin Starting,
                order |-> IF list[x] \in Starting THEN 0 ELSE x - Cardinality(Starting)]]
  /\ stage' = "sync"
  /\ UNCHANGED <<site, gained, advStore, pending, planned, curator, shown, whole, exact>>

\* syncPlayer() of TP: the stored rows are read first, then the free extras.
TpRead ==
  /\ site = "tp" /\ BeginImport
  /\ planned' = [NotPlanned EXCEPT !.read = rows]
  /\ stage' = "stored"
  /\ UNCHANGED <<site, gained, advStore, told, entries, pending, curator, shown, whole, exact>>

\* TP lists the gained skills in any order, a skill that cannot be resolved left
\* out, and the increases as a count that injuries may hide from.
TpPlan ==
  /\ stage = "stored"
  /\ \E check, bulk \in BOOLEAN, short \in SUBSET (Increase \cap Range(gained)),
        list \in SetToAllKPermutations(Skill \cap Range(gained)) :
       LET counts == [c \in Increase |->
             Cardinality({i \in DOMAIN gained : gained[i] = c}) - (IF c \in short THEN 1 ELSE 0)]
           plan == LiveEntries(StartingList \o list, counts, check, bulk, planned.read)
           complete == Range(list) = Skill \cap Range(gained) /\ short = {}
       IN /\ entries' = plan.entries /\ pending' = plan.pending
          /\ told' = IF complete THEN gained ELSE Unknown
  /\ stage' = "sync" /\ planned' = NotPlanned
  /\ UNCHANGED <<site, gained, advStore, imports, curator, advHistory>>

\* sync(): the award is read, then the rows.
SyncReadsAward ==
  /\ stage = "sync"
  /\ stage' = "granted" /\ planned' = [planned EXCEPT !.granted = award]
  /\ UNCHANGED <<site, gained, advStore, told, entries, pending, imports, curator, advHistory>>

SyncPlans ==
  /\ stage = "granted"
  /\ stage' = "write"
  /\ planned' = [planned EXCEPT !.read = rows, !.rows = PlannedRows(entries, rows, planned.granted)]
  /\ UNCHANGED <<site, gained, advStore, told, entries, pending, imports, curator, advHistory>>

\* Only the columns that the plan changes are written, to the rows as they are now.
Written ==
  [i \in DOMAIN planned.rows |->
     IF i > Len(rows) THEN planned.rows[i]
     ELSE [column \in DOMAIN rows[i] |->
             IF planned.rows[i][column] = planned.read[i][column]
             THEN rows[i][column] ELSE planned.rows[i][column]]]

\* Mutant: the stored unspent SPP outlives the advancements it was worked out from.
KeptUnspent == unspent

\* What a sync that writes leaves of the unspent SPP.
ClearedUnspent == Unknown

\* The batch is written as one transaction, if it changes anything.
SyncWrites ==
  /\ stage = "write"
  /\ IF planned.rows = planned.read THEN UNCHANGED <<rows, unspent>>
     ELSE rows' = Written /\ unspent' = ClearedUnspent
  /\ shown' = IF overlapped THEN Unknown ELSE IF site = "bbl" THEN told ELSE shown
  /\ whole' = (whole /\ ~overlapped /\ told # Unknown
                 /\ PaidRows(planned.read) \subseteq PaidRows(planned.rows))
  /\ IF site = "bbl"
     THEN stage' = "settle" /\ UNCHANGED <<told, entries, pending, planned>>
     ELSE IF pending = <<>> THEN EndImport
     ELSE stage' = "deduce" /\ UNCHANGED <<told, entries, pending, planned>>
  /\ UNCHANGED <<site, gained, award, imports, curator, overlapped, exact>>

\* A failed sync changes nothing; BBL's closing sync of the SPP runs all the same.
ImportFails ==
  /\ Busy /\ stage # "deduce"
  /\ IF site = "bbl" /\ stage \in {"sync", "granted", "write"}
     THEN stage' = "settle" /\ UNCHANGED <<told, entries, pending, planned>>
     ELSE EndImport
  /\ UNCHANGED <<site, gained, advStore, imports, curator, advHistory>>

\* deducedEntries(): no order is found; or the real one; or, when the spend does
\* not tell the orders apart, the order of the entries is taken, right or wrong.
Deduce ==
  /\ stage = "deduce"
  /\ \/ EndImport /\ UNCHANGED whole
     \/ LET waiting == DOMAIN pending
            first == CHOOSE n \in {entries[x].order : x \in waiting} :
                        \A x \in waiting : n <= entries[x].order
            InOrder(x) == first + Cardinality({y \in waiting : pending[y] < pending[x]})
            Listed(x) == entries[x].order
            Confirmed(Number(_)) == [x \in DOMAIN entries |->
              IF x \in waiting
              THEN [entries[x] EXCEPT !.order = Number(x), !.confirmed = TRUE]
              ELSE entries[x]]
        IN /\ \/ entries' = Confirmed(InOrder) /\ UNCHANGED whole
              \/ /\ entries' = Confirmed(Listed)
                 /\ whole' = (whole /\ Confirmed(InOrder) = Confirmed(Listed))
           /\ stage' = "sync" /\ pending' = <<>> /\ planned' = NotPlanned
           /\ UNCHANGED told
  /\ UNCHANGED <<site, gained, advStore, imports, curator, overlapped, shown, exact>>

\* withUnspentSpp() and applyWrites(): the price is worked out, then stored.
Settles ==
  /\ stage = "settle"
  /\ stage' = "price" /\ planned' = [NotPlanned EXCEPT !.count = Cardinality(PaidRows(rows))]
  /\ UNCHANGED <<site, gained, advStore, told, entries, pending, imports, curator, advHistory>>

StoresUnspent ==
  /\ stage = "price"
  /\ unspent' = planned.count
  /\ exact' = ~overlapped
  /\ EndImport
  /\ UNCHANGED <<site, gained, rows, award, imports, curator, overlapped, shown, whole>>

-----------------------------------------------------------------------------
(* TrophyAwardsService.upsert() and overlayGrantedSkill(), markTrophyGranted(), *)
(* unmarkTrophyGranted() and refreshFixedThreshold().                          *)

At(step) == curation' = [curation EXCEPT !.step = step]

EndCuration == curation' = Idle

\* The award takes the skill; the one it granted before is unmarked first.  An award
\* that grants the skill already is marked and priced again.
Curate ==
  /\ curation.step = "idle" /\ curations < MaxCurations
  /\ curations' = curations + 1
  /\ overlapped' = Busy
  /\ \E granted \in (Skill \ Starting) \cup {Unknown} :
       /\ granted = award => granted # Unknown
       /\ award' = granted
       /\ curation' = [Idle EXCEPT
            !.step = IF granted # award /\ award # Unknown THEN "unmark"
                     ELSE "mark",
            !.old = award]
  /\ UNCHANGED <<site, gained, rows, unspent, importer, shown, whole, exact>>

\* The row stays unconfirmed at its number, and the slot it had stays closed.
Unmark ==
  /\ curation.step = "unmark"
  /\ LET freed == IF curation.old \in Hatred \/ curation.old = award THEN {}
                  ELSE {i \in DOMAIN rows : rows[i].what = curation.old /\ rows[i].free} IN
     IF freed = {} THEN UNCHANGED <<rows, shown, whole, exact>>
     ELSE /\ rows' = [i \in DOMAIN rows |-> [rows[i] EXCEPT !.free = @ /\ i \notin freed]]
          /\ shown' = Unknown /\ whole' = FALSE /\ exact' = FALSE
  /\ At("mark")
  /\ UNCHANGED <<site, gained, award, unspent, importer, curations, overlapped>>

\* Mutant: the slot of the freed row stays open.
SlotKept(row, slots) == row

\* close(): each row that stays paid moves down over the slots below it.
MovedDown(row, slots) ==
  IF row.confirmed /\ ~row.free /\ ~row.removed
  THEN [row EXCEPT !.order = @ - Cardinality({s \in slots : s < @})]
  ELSE row

Mark ==
  /\ curation.step = "mark"
  /\ LET marked == IF award \in Hatred THEN {}
                   ELSE {i \in DOMAIN rows : rows[i].what = award /\ ~rows[i].free}
         slots == {rows[i].order : i \in {j \in marked : rows[j].confirmed}}
     IN /\ IF marked = {} THEN UNCHANGED <<rows, exact>>
           ELSE /\ rows' = [i \in DOMAIN rows |->
                     IF i \in marked THEN [rows[i] EXCEPT !.free = TRUE, !.confirmed = FALSE]
                     ELSE MovedDown(rows[i], slots)]
                /\ exact' = FALSE
        /\ whole' = (whole /\ ~overlapped /\ \A i \in marked : rows[i].confirmed)
        /\ shown' = IF overlapped THEN Unknown ELSE shown
  /\ At("refresh")
  /\ UNCHANGED <<site, gained, award, unspent, importer, curations, overlapped>>

\* A price by kind, as in the eras of TP, does not depend on the history.
Refresh ==
  /\ curation.step = "refresh"
  /\ IF site = "tp" THEN EndCuration
     ELSE curation' = [curation EXCEPT !.step = "price", !.count = Cardinality(PaidRows(rows))]
  /\ UNCHANGED <<site, gained, advStore, importer, curations, advHistory>>

StoresRefreshed ==
  /\ curation.step = "price"
  /\ unspent' = curation.count
  /\ exact' = ~overlapped
  /\ EndCuration
  /\ UNCHANGED <<site, gained, rows, award, importer, curations, overlapped, shown, whole>>

CurationFails ==
  /\ Curating
  /\ EndCuration
  /\ UNCHANGED <<site, gained, advStore, importer, curations, advHistory>>

AdvNext ==
  \/ Gain
  \/ BblScrape \/ TpRead \/ TpPlan \/ SyncReadsAward \/ SyncPlans \/ SyncWrites
  \/ Deduce \/ Settles \/ StoresUnspent \/ ImportFails
  \/ Curate \/ Unmark \/ Mark \/ Refresh \/ StoresRefreshed \/ CurationFails

AdvSpec == AdvInit /\ [][AdvNext]_advVars

-----------------------------------------------------------------------------
(* Properties.                                                               *)

IsFreeNow(what) == \E i \in DOMAIN rows : rows[i].what = what /\ rows[i].free

\* The number of an advancement among the reported ones that are not free.
NumberOf(p) == Cardinality({q \in 1..p : ~IsFreeNow(shown[q])})

\* What an import of BBL that nothing disturbed has numbered stays right while
\* awards come: the paid advancements are those reported, numbered from 1 in the
\* order they were taken, with no gap and no number twice (there are as many numbers
\* as paid rows).
NumberingIsTrue ==
  shown # Unknown =>
    /\ \A i \in PaidRows(rows) : rows[i].confirmed
    /\ {rows[i].order : i \in PaidRows(rows)} = 1..Cardinality(PaidRows(rows))
    /\ {<<rows[i].order, rows[i].what>> : i \in PaidRows(rows)}
         = {<<NumberOf(p), shown[p]>> : p \in {q \in DOMAIN shown : ~IsFreeNow(shown[q])}}

\* The order TP's imports confirm is the real one: each confirmed row can be told when
\* it was gained, in the order of the numbers.  `whole` excepts what the code can not
\* know or gets wrong: a sync that an award overlapped, that was not told of
\* everything, or that takes a paid row out of the numbering; an award that overlapped,
\* is taken back, or is for an advancement of unconfirmed order; and a deduction that
\* the spend does not decide, which confirms the order of the entries, when that
\* is not the real one (TP lists skills in an order of its own).
ConfirmedOrderIsTrue ==
  site = "tp" /\ whole =>
    LET confirmed == {i \in PaidRows(rows) : rows[i].confirmed} IN
    /\ Cardinality({rows[i].order : i \in confirmed}) = Cardinality(confirmed)
    /\ \A i \in confirmed : rows[i].order \in 1..Cardinality(PaidRows(rows))
    /\ \E at \in [confirmed -> DOMAIN gained] :
         \A i, j \in confirmed :
           /\ gained[at[i]] = rows[i].what
           /\ rows[i].order < rows[j].order => at[i] < at[j]

\* The stored unspent SPP is the price of the stored advancements, whatever was
\* marked, imported or left half done before the last one that worked it out.
UnspentIsExact ==
  exact /\ unspent # Unknown => unspent = Cardinality(PaidRows(rows))

=============================================================================
