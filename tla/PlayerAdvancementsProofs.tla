----------------------- MODULE PlayerAdvancementsProofs -----------------------
(***************************************************************************)
(* Proofs about PlayerAdvancements for any skills, advancements, imports   *)
(* and awards.                                                             *)
(*                                                                         *)
(* The stored unspent SPP is the price of the stored rows: what a sync     *)
(* plans plays no part, only that it clears the price whenever it writes,  *)
(* and that a price is stored only of rows nobody has changed since it was *)
(* worked out, unless two calls overlapped.                                *)
(*                                                                         *)
(* The numbering that an undisturbed import of BBL stores is true: the     *)
(* invariant NInv says how rows, plan and report are related between the   *)
(* steps.  A plan pairs the advancements of a complete report that are not *)
(* free with the rows that stay paid, one to one, by the places of both,   *)
(* and an award that makes one free takes its number out.                  *)
(*                                                                         *)
(* The order that the imports of TP confirm is true: the invariant OInv    *)
(* gives every stored advancement the moment it was taken, the confirmed   *)
(* ones numbered in the order of theirs, and says how the entries that an  *)
(* import has in hand fit the rows: each has its moment too, those that    *)
(* wait for their order come after all that is confirmed, and no confirmed *)
(* row loses its entry.                                                    *)
(***************************************************************************)
EXTENDS PlayerAdvancements, Counting, TLAPS

\* The records in which a price waits to be stored have a place for it.
HasCounts ==
  /\ "count" \in DOMAIN planned
  /\ "step" \in DOMAIN curation /\ "count" \in DOMAIN curation

\* Two calls under way at once are known to overlap.
OverlapIsKnown == Busy /\ Curating => overlapped

\* A price that waits to be stored is that of the rows as they are.
PriceIsCurrent ==
  ~overlapped =>
    /\ stage = "price" => planned.count = Cardinality(PaidRows(rows))
    /\ curation.step = "price" => curation.count = Cardinality(PaidRows(rows))

PInv == HasCounts /\ OverlapIsKnown /\ PriceIsCurrent /\ UnspentIsExact

-----------------------------------------------------------------------------

\* A player without advancements.
LEMMA InitInv == AdvInit => PInv
BY DEF AdvInit, PInv, HasCounts, OverlapIsKnown, PriceIsCurrent, UnspentIsExact, NotPlanned,
   Idle, Busy, Curating

\* A step that leaves the rows, the price and the overlap as they are, and does not
\* begin a call or the storing of a price.
LEMMA QuietStep ==
  ASSUME PInv, UNCHANGED <<rows, unspent, overlapped, exact>>, HasCounts',
         \/ stage' \notin {"idle", "price"} /\ Busy
         \/ stage' = "idle"
         \/ stage' = stage /\ planned' = planned,
         \/ curation'.step \notin {"idle", "price"} /\ Curating
         \/ curation'.step = "idle"
         \/ curation' = curation
  PROVE PInv'
<1>1. OverlapIsKnown'
  BY DEF PInv, OverlapIsKnown, Busy, Curating
<1>2. PriceIsCurrent'
  BY DEF PInv, PriceIsCurrent, PaidRows, Paid
<1>3. UnspentIsExact'
  BY DEF PInv, UnspentIsExact, PaidRows, Paid
<1>4. QED
  BY <1>1, <1>2, <1>3 DEF PInv

\* The importer's steps that only plan.
LEMMA PlanningInv ==
  ASSUME PInv, TpPlan \/ SyncReadsAward \/ SyncPlans \/ Deduce \/ ImportFails \/ Gain
  PROVE PInv'
<1> USE DEF advStore, curator, importer, advHistory
<1>1. CASE Gain
  <2>1. UNCHANGED <<rows, unspent, overlapped, exact, stage, planned, curation>>
    BY <1>1 DEF Gain
  <2>2. HasCounts'
    BY <2>1 DEF PInv, HasCounts
  <2>3. QED
    BY <2>1, <2>2, QuietStep
<1>2. CASE TpPlan
  <2>1. /\ UNCHANGED <<rows, unspent, overlapped, exact, curation>>
        /\ stage = "stored" /\ stage' = "sync" /\ planned' = NotPlanned
    BY <1>2 DEF TpPlan
  <2>2. HasCounts'
    BY <2>1 DEF PInv, HasCounts, NotPlanned
  <2>3. QED
    BY <2>1, <2>2, QuietStep DEF Busy
<1>3. CASE SyncReadsAward \/ SyncPlans
  <2>1. /\ UNCHANGED <<rows, unspent, overlapped, exact, curation>>
        /\ stage \in {"sync", "granted"} /\ stage' \in {"granted", "write"}
        /\ DOMAIN planned' = DOMAIN planned
    BY <1>3 DEF SyncReadsAward, SyncPlans
  <2>2. HasCounts'
    BY <2>1 DEF PInv, HasCounts
  <2>3. QED
    BY <2>1, <2>2, QuietStep DEF Busy
<1>4. CASE Deduce
  <2>1. /\ UNCHANGED <<rows, unspent, overlapped, exact, curation>>
        /\ stage = "deduce" /\ stage' \in {"idle", "sync"} /\ planned' = NotPlanned
    BY <1>4 DEF Deduce, EndImport
  <2>2. HasCounts'
    BY <2>1 DEF PInv, HasCounts, NotPlanned
  <2>3. QED
    BY <2>1, <2>2, QuietStep DEF Busy
<1>5. CASE ImportFails
  <2>1. /\ UNCHANGED <<rows, unspent, overlapped, exact, curation>>
        /\ Busy /\ stage' \in {"idle", "settle"} /\ planned' \in {planned, NotPlanned}
    BY <1>5 DEF ImportFails, EndImport
  <2>2. HasCounts'
    BY <2>1 DEF PInv, HasCounts, NotPlanned
  <2>3. QED
    BY <2>1, <2>2, QuietStep DEF Busy
<1>6. QED
  BY <1>1, <1>2, <1>3, <1>4, <1>5

\* An import that begins stores no price.
LEMMA BeginInv ==
  ASSUME PInv, BblScrape \/ TpRead
  PROVE PInv'
<1> USE DEF advStore, curator
<1>1. /\ stage = "idle" /\ stage' \in {"sync", "stored"} /\ overlapped' = Curating
      /\ UNCHANGED <<rows, unspent, exact, curation>>
  BY DEF BblScrape, TpRead, BeginImport
<1>2. "count" \in DOMAIN planned'
  BY DEF BblScrape, TpRead, NotPlanned, PInv, HasCounts
<1>3. HasCounts' /\ OverlapIsKnown'
  BY <1>1, <1>2 DEF PInv, HasCounts, OverlapIsKnown, Curating
<1>4. PriceIsCurrent' /\ UnspentIsExact'
  BY <1>1 DEF PInv, PriceIsCurrent, UnspentIsExact, PaidRows, Paid, Curating
<1>5. QED
  BY <1>3, <1>4 DEF PInv

\* A sync that writes clears the price.
LEMMA SyncWritesInv ==
  ASSUME PInv, SyncWrites
  PROVE PInv'
<1> USE DEF curator
<1>1. /\ stage = "write" /\ stage' \in {"idle", "settle", "deduce"}
      /\ UNCHANGED <<overlapped, exact, curation>>
      /\ planned' \in {planned, NotPlanned}
      /\ UNCHANGED <<rows, unspent>> \/ unspent' = Unknown
  BY DEF SyncWrites, EndImport, ClearedUnspent
<1>2. HasCounts' /\ OverlapIsKnown'
  BY <1>1 DEF PInv, HasCounts, OverlapIsKnown, Busy, Curating, NotPlanned
<1>3. PriceIsCurrent'
  BY <1>1 DEF PInv, PriceIsCurrent, OverlapIsKnown, Busy, Curating, PaidRows, Paid
<1>4. UnspentIsExact'
  BY <1>1 DEF PInv, UnspentIsExact, PaidRows, Paid
<1>5. QED
  BY <1>2, <1>3, <1>4 DEF PInv

\* BBL's import works the price out, then stores it.
LEMMA SettlingInv ==
  ASSUME PInv, Settles \/ StoresUnspent
  PROVE PInv'
<1> USE DEF advStore, curator, advHistory
<1>1. CASE Settles
  <2>1. /\ stage = "settle" /\ stage' = "price"
        /\ planned' = [NotPlanned EXCEPT !.count = Cardinality(PaidRows(rows))]
        /\ UNCHANGED <<rows, unspent, overlapped, exact, curation>>
    BY <1>1 DEF Settles
  <2>2. planned'.count = Cardinality(PaidRows(rows)) /\ "count" \in DOMAIN planned'
    BY <2>1 DEF NotPlanned
  <2>3. HasCounts' /\ OverlapIsKnown'
    BY <2>1, <2>2 DEF PInv, HasCounts, OverlapIsKnown, Busy, Curating
  <2>4. PriceIsCurrent' /\ UnspentIsExact'
    BY <2>1, <2>2 DEF PInv, PriceIsCurrent, UnspentIsExact, PaidRows, Paid
  <2>5. QED
    BY <2>3, <2>4 DEF PInv
<1>2. CASE StoresUnspent
  <2>1. /\ stage = "price" /\ stage' = "idle" /\ planned' = NotPlanned
        /\ unspent' = planned.count /\ exact' = ~overlapped
        /\ UNCHANGED <<rows, overlapped, curation>>
    BY <1>2 DEF StoresUnspent, EndImport
  <2>2. HasCounts' /\ OverlapIsKnown' /\ PriceIsCurrent'
    BY <2>1 DEF PInv, HasCounts, OverlapIsKnown, PriceIsCurrent, Busy, Curating, NotPlanned,
       PaidRows, Paid
  <2>3. UnspentIsExact'
    BY <2>1 DEF PInv, PriceIsCurrent, UnspentIsExact, PaidRows, Paid
  <2>4. QED
    BY <2>2, <2>3 DEF PInv
<1>3. QED
  BY <1>1, <1>2

\* An award that begins while an import is under way overlaps it.
LEMMA CurateInv ==
  ASSUME PInv, Curate
  PROVE PInv'
<1> USE DEF importer
<1>1. /\ curation.step = "idle" /\ overlapped' = Busy
      /\ UNCHANGED <<rows, unspent, exact, stage, planned>>
  BY DEF Curate
<1>2. curation'.step \in {"unmark", "mark"} /\ {"step", "count"} \subseteq DOMAIN curation'
  BY DEF Curate, Idle
<1>3. HasCounts' /\ OverlapIsKnown'
  BY <1>1, <1>2 DEF PInv, HasCounts, OverlapIsKnown, Busy
<1>4. PriceIsCurrent' /\ UnspentIsExact'
  BY <1>1, <1>2 DEF PInv, PriceIsCurrent, UnspentIsExact, PaidRows, Paid, Busy
<1>5. QED
  BY <1>3, <1>4 DEF PInv

\* Marking tells that the price is no longer exact.
LEMMA MarkingInv ==
  ASSUME PInv, Unmark \/ Mark
  PROVE PInv'
<1> USE DEF importer
<1>1. /\ Curating /\ UNCHANGED <<unspent, overlapped, stage, planned>>
      /\ UNCHANGED <<rows, exact>> \/ exact' = FALSE
  BY DEF Unmark, Mark, Curating
<1>2. curation'.step \in {"mark", "refresh"} /\ {"step", "count"} \subseteq DOMAIN curation'
  BY DEF Unmark, Mark, At, PInv, HasCounts
<1>3. HasCounts' /\ OverlapIsKnown'
  BY <1>1, <1>2 DEF PInv, HasCounts, OverlapIsKnown, Busy
<1>4. PriceIsCurrent'
  BY <1>1, <1>2 DEF PInv, OverlapIsKnown, PriceIsCurrent, PaidRows, Paid, Busy
<1>5. UnspentIsExact'
  BY <1>1 DEF PInv, UnspentIsExact, PaidRows, Paid
<1>6. QED
  BY <1>3, <1>4, <1>5 DEF PInv

\* The award's call works the price out, then stores it, or fails.
LEMMA PricingInv ==
  ASSUME PInv, Refresh \/ StoresRefreshed \/ CurationFails
  PROVE PInv'
<1> USE DEF advStore, importer, advHistory
<1>1. CASE Refresh
  <2>1. /\ curation.step = "refresh" /\ Curating
        /\ UNCHANGED <<rows, unspent, overlapped, exact, stage, planned>>
        /\ \/ curation' = Idle
           \/ curation' = [curation EXCEPT !.step = "price", !.count = Cardinality(PaidRows(rows))]
    BY <1>1 DEF Refresh, EndCuration, Curating
  <2>2. /\ HasCounts'
        /\ curation'.step = "price" => curation'.count = Cardinality(PaidRows(rows))
    <3> DEFINE price == Cardinality(PaidRows(rows))
    <3>1. /\ curation' = Idle \/ curation' = [curation EXCEPT !.step = "price", !.count = price]
          /\ {"step", "count"} \subseteq DOMAIN curation /\ "count" \in DOMAIN planned'
      BY <2>1 DEF PInv, HasCounts
    <3> HIDE DEF price
    <3>2. CASE curation' = Idle
      BY <3>1, <3>2 DEF HasCounts, Idle
    <3>3. CASE curation' = [curation EXCEPT !.step = "price", !.count = price]
      <4>1. DOMAIN curation' = DOMAIN curation /\ curation'.count = price
        BY <3>1, <3>3
      <4>2. QED
        BY <3>1, <4>1 DEF HasCounts, price
    <3>4. QED
      BY <3>1, <3>2, <3>3
  <2>3. OverlapIsKnown'
    BY <2>1 DEF PInv, OverlapIsKnown, Busy
  <2>4. PriceIsCurrent' /\ UnspentIsExact'
    BY <2>1, <2>2 DEF PInv, PriceIsCurrent, UnspentIsExact, PaidRows, Paid
  <2>5. QED
    BY <2>2, <2>3, <2>4 DEF PInv
<1>2. CASE StoresRefreshed
  <2>1. /\ curation.step = "price" /\ curation' = Idle
        /\ unspent' = curation.count /\ exact' = ~overlapped
        /\ UNCHANGED <<rows, overlapped, stage, planned>>
    BY <1>2 DEF StoresRefreshed, EndCuration
  <2>2. HasCounts' /\ OverlapIsKnown' /\ PriceIsCurrent'
    BY <2>1 DEF PInv, HasCounts, OverlapIsKnown, PriceIsCurrent, Idle, Busy, Curating,
       PaidRows, Paid
  <2>3. UnspentIsExact'
    BY <2>1 DEF PInv, PriceIsCurrent, UnspentIsExact, PaidRows, Paid
  <2>4. QED
    BY <2>2, <2>3 DEF PInv
<1>3. CASE CurationFails
  <2>1. UNCHANGED <<rows, unspent, overlapped, exact, stage, planned>> /\ curation' = Idle
    BY <1>3 DEF CurationFails, EndCuration
  <2>2. HasCounts' /\ curation'.step = "idle"
    BY <2>1 DEF PInv, HasCounts, Idle
  <2>3. QED
    BY <2>1, <2>2, QuietStep
<1>4. QED
  BY <1>1, <1>2, <1>3

-----------------------------------------------------------------------------

\* Every step keeps the price right.
LEMMA NextInv == PInv /\ [AdvNext]_advVars => PInv'
<1> SUFFICES ASSUME PInv, [AdvNext]_advVars PROVE PInv'
  OBVIOUS
<1>1. CASE TpPlan \/ SyncReadsAward \/ SyncPlans \/ Deduce \/ ImportFails \/ Gain
  BY <1>1, PlanningInv
<1>2. CASE BblScrape \/ TpRead
  BY <1>2, BeginInv
<1>3. CASE SyncWrites
  BY <1>3, SyncWritesInv
<1>4. CASE Settles \/ StoresUnspent
  BY <1>4, SettlingInv
<1>5. CASE Curate
  BY <1>5, CurateInv
<1>6. CASE Unmark \/ Mark
  BY <1>6, MarkingInv
<1>7. CASE Refresh \/ StoresRefreshed \/ CurationFails
  BY <1>7, PricingInv
<1>8. CASE UNCHANGED advVars
  BY <1>8 DEF advVars, advStore, importer, curator, advHistory, PInv, HasCounts,
     OverlapIsKnown, PriceIsCurrent, UnspentIsExact, PaidRows, Paid, Busy, Curating
<1>9. QED
  BY <1>1, <1>2, <1>3, <1>4, <1>5, <1>6, <1>7, <1>8 DEF AdvNext

\* The stored unspent SPP of an era with fixed thresholds is the price of the stored
\* advancements, whatever is imported, awarded or left half done in between, for any
\* player and any number of calls.
THEOREM PricesAreExact == AdvSpec => []UnspentIsExact
<1>1. AdvInit => PInv
  BY InitInv
<1>2. PInv /\ [AdvNext]_advVars => PInv'
  BY NextInv
<1>3. PInv => UnspentIsExact
  BY DEF PInv
<1>4. QED
  BY <1>1, <1>2, <1>3, PTL DEF AdvSpec

-----------------------------------------------------------------------------
(* The numbering: the invariant.                                              *)

\* The columns of a row, and of an entry.
Columns == {"what", "order", "removed", "free", "confirmed"}
EntryColumns == {"what", "order", "confirmed"}

\* A skill is never removed, an increase never free.
IsRow(row) ==
  /\ Columns \subseteq DOMAIN row
  /\ row.order \in Int
  /\ row.removed \in BOOLEAN /\ row.free \in BOOLEAN /\ row.confirmed \in BOOLEAN
  /\ row.what \in Skill => ~row.removed
  /\ row.what \in Increase => ~row.free

IsEntry(e) == EntryColumns \subseteq DOMAIN e /\ e.order \in Int /\ e.confirmed \in BOOLEAN

\* Nothing is stored, or listed, that the player does not have, and no skill twice.
NamesWhatHeHas(table) ==
  /\ Len(table) \in Nat /\ DOMAIN table = 1..Len(table)
  /\ \A i \in DOMAIN table : table[i].what \in Starting \cup Range(gained)
  /\ \A i, j \in DOMAIN table : table[i].what = table[j].what /\ table[i].what \in Skill => i = j

IsTable(table) == NamesWhatHeHas(table) /\ \A i \in DOMAIN table : IsRow(table[i])

IsEntryList(list) == NamesWhatHeHas(list) /\ \A x \in DOMAIN list : IsEntry(list[x])

\* The entries of a complete report: the starting skills, then what was gained with
\* its numbers.
IsComplete(list) ==
  LET first == Cardinality(Starting) IN
  /\ Len(list) = first + Len(gained)
  /\ \A x \in 1..first : list[x].what \in Starting /\ ~list[x].confirmed
  /\ \A p \in DOMAIN gained :
       list[first + p].what = gained[p] /\ list[first + p].order = p /\ list[first + p].confirmed

FreeIn(what, table) == \E i \in DOMAIN table : table[i].what = what /\ table[i].free

NumberIn(p, list, table) == Cardinality({q \in 1..p : ~FreeIn(list[q], table)})

\* The paid rows of a table are the advancements of a report that are not free, with
\* their numbers.
Numbered(table, list) ==
  /\ \A i \in PaidRows(table) : table[i].confirmed
  /\ \A i, j \in PaidRows(table) : table[i].order = table[j].order => i = j
  /\ \A i \in PaidRows(table) : \E p \in DOMAIN list :
       /\ ~FreeIn(list[p], table)
       /\ table[i].what = list[p] /\ table[i].order = NumberIn(p, list, table)
  /\ \A p \in DOMAIN list : ~FreeIn(list[p], table) =>
       \E i \in PaidRows(table) :
         table[i].what = list[p] /\ table[i].order = NumberIn(p, list, table)

\* A skill is gained once, and is none of those the player started with.
IsReport(list) ==
  /\ list \in Seq(Skill \cup Increase)
  /\ \A p \in DOMAIN list : list[p] \notin Starting
  /\ \A p, q \in DOMAIN list : list[p] = list[q] /\ list[p] \in Skill => p = q

\* What the import of BBL has in hand.
ImportIsSound ==
  /\ stage \in {"idle", "sync", "granted", "write", "settle", "price"}
  /\ stage \in {"sync", "granted"} =>
       IsEntryList(entries) /\ (told # Unknown => told = gained /\ IsComplete(entries))
  /\ stage = "write" =>
       /\ IsTable(planned.rows) /\ IsTable(planned.read)
       /\ DOMAIN planned.read = DOMAIN rows /\ DOMAIN rows \subseteq DOMAIN planned.rows
       /\ \A i \in DOMAIN rows :
            rows[i].what = planned.read[i].what /\ rows[i].what = planned.rows[i].what
       /\ ~overlapped => planned.read = rows
       /\ told # Unknown => told = gained /\ Numbered(planned.rows, told)

RecordsAreWhole ==
  /\ {"read", "granted", "rows", "count"} \subseteq DOMAIN planned
  /\ {"step", "old", "count"} \subseteq DOMAIN curation

NInv ==
  /\ PInv
  /\ site \in {"bbl", "tp"}
  /\ IsReport(gained)
  /\ award \in (Skill \ Starting) \cup {Unknown}
  /\ site = "tp" => shown = Unknown
  /\ site = "bbl" =>
       /\ IsTable(rows)
       /\ ImportIsSound
       /\ RecordsAreWhole
       /\ shown # Unknown => IsReport(shown) /\ Numbered(rows, shown)

-----------------------------------------------------------------------------
(* The places of rows and entries.                                            *)

\* The place of a row or entry among those of one kind.
LEMMA PlacesOfRows ==
  ASSUME NEW table, NEW ids, ids \subseteq Nat, IsFiniteSet(ids),
         \A i \in ids : table[i].order \in Int
  PROVE  /\ \A i \in ids : PlaceOf(i, ids, table) \in 0..(Cardinality(ids) - 1)
         /\ \A i, j \in ids : PlaceOf(i, ids, table) = PlaceOf(j, ids, table) => i = j
         /\ \A k \in 0..(Cardinality(ids) - 1) :
              AtPlace(k, ids, table) \in ids /\ PlaceOf(AtPlace(k, ids, table), ids, table) = k
<1> DEFINE before == [i \in ids |-> {j \in ids : Precedes(table[j], j, table[i], i)}]
           f == [i \in ids |-> PlaceOf(i, ids, table)]
<1>0. \A i, j \in ids : j \in before[i] <=> Precedes(table[j], j, table[i], i)
  OBVIOUS
<1>1. \A i \in ids : i \in Int /\ table[i].order \in Int /\ Rank(table[i]) \in Int
  <2> HIDE DEF before, f
  <2>1. \A i \in ids : Rank(table[i]) \in {0, 1, 2}
    BY DEF Rank
  <2>2. ASSUME NEW i \in ids PROVE i \in Int
    <3>1. i \in Nat
      OBVIOUS
    <3> QED
      BY <3>1
  <2> QED
    BY <2>1, <2>2
<1>2. \A x \in ids : before[x] \subseteq ids /\ x \notin before[x]
  <2>1. \A x \in ids : ~Precedes(table[x], x, table[x], x)
    <3> HIDE DEF before, f
    <3> QED
      BY <1>1 DEF Precedes
  <2> QED
    BY <2>1
<1>3. \A x, y, z \in ids : x \in before[y] /\ y \in before[z] => x \in before[z]
  <2> SUFFICES ASSUME NEW x \in ids, NEW y \in ids, NEW z \in ids,
                      Precedes(table[x], x, table[y], y), Precedes(table[y], y, table[z], z)
               PROVE  Precedes(table[x], x, table[z], z)
    BY <1>0
  <2> DEFINE rx == Rank(table[x])
             ry == Rank(table[y])
             rz == Rank(table[z])
             ox == table[x].order
             oy == table[y].order
             oz == table[z].order
  <2>2. /\ rx < ry \/ (rx = ry /\ (ox < oy \/ (ox = oy /\ x < y)))
        /\ ry < rz \/ (ry = rz /\ (oy < oz \/ (oy = oz /\ y < z)))
    BY DEF Precedes
  <2>3. {x, y, z, rx, ry, rz, ox, oy, oz} \subseteq Int
    BY <1>1
  <2>4. rx < rz \/ (rx = rz /\ (ox < oz \/ (ox = oz /\ x < z)))
    <3> HIDE DEF rx, ry, rz, ox, oy, oz
    <3> QED
      BY <2>2, <2>3
  <2> QED
    BY <2>4 DEF Precedes
<1>4. \A x, y \in ids : x # y => x \in before[y] \/ y \in before[x]
  <2> SUFFICES ASSUME NEW x \in ids, NEW y \in ids, x # y
               PROVE  Precedes(table[x], x, table[y], y) \/ Precedes(table[y], y, table[x], x)
    BY <1>0
  <2>1. /\ x \in Int /\ y \in Int /\ table[x].order \in Int /\ table[y].order \in Int
        /\ Rank(table[x]) \in Int /\ Rank(table[y]) \in Int
    BY <1>1
  <2> QED
    BY <2>1 DEF Precedes
<1>5. \A x \in ids : f[x] = Cardinality(before[x]) /\ f[x] = PlaceOf(x, ids, table)
  BY DEF PlaceOf
<1> HIDE DEF before, f
<1>6. /\ \A x \in ids : PlaceOf(x, ids, table) \in 0..(Cardinality(ids) - 1)
      /\ \A x, z \in ids : x \in before[z] => PlaceOf(x, ids, table) < PlaceOf(z, ids, table)
      /\ \A k \in 0..(Cardinality(ids) - 1) : \E x \in ids : PlaceOf(x, ids, table) = k
  <2>1. /\ \A x \in ids : f[x] \in 0..(Cardinality(ids) - 1)
        /\ \A x, z \in ids : x \in before[z] => f[x] < f[z]
        /\ \A k \in 0..(Cardinality(ids) - 1) : \E x \in ids : f[x] = k
    <3>1. Orders(before, ids)
      BY <1>2, <1>3, <1>4 DEF Orders
    <3>2. Counts(f, before, ids)
      BY <1>5 DEF Counts
    <3>3. Places(f, before, ids)
      BY <3>1, <3>2, PlacesAreTaken
    <3> QED
      BY <3>3 DEF Places
  <2> QED
    BY <1>5, <2>1
<1>7. \A i, j \in ids : PlaceOf(i, ids, table) = PlaceOf(j, ids, table) => i = j
  <2> SUFFICES ASSUME NEW i \in ids, NEW j \in ids, i # j
               PROVE  PlaceOf(i, ids, table) # PlaceOf(j, ids, table)
    OBVIOUS
  <2>1. PlaceOf(i, ids, table) \in Int /\ PlaceOf(j, ids, table) \in Int
    BY <1>6, FS_CardinalityType
  <2>2. \/ PlaceOf(i, ids, table) < PlaceOf(j, ids, table)
        \/ PlaceOf(j, ids, table) < PlaceOf(i, ids, table)
    BY <1>4, <1>6
  <2> QED
    BY <2>1, <2>2
<1>8. ASSUME NEW k \in 0..(Cardinality(ids) - 1)
      PROVE  AtPlace(k, ids, table) \in ids /\ PlaceOf(AtPlace(k, ids, table), ids, table) = k
  BY <1>6 DEF AtPlace
<1> QED
  BY <1>6, <1>7, <1>8

\* The numbers of a finite set, in their order.
LEMMA AscendingListsAll ==
  ASSUME NEW S, S \subseteq Nat, IsFiniteSet(S)
  PROVE  /\ Cardinality(S) \in Nat
         /\ Ascending(S) = [k \in 1..Cardinality(S) |-> Ascending(S)[k]]
         /\ \A k \in 1..Cardinality(S) :
              Ascending(S)[k] \in S /\ Cardinality({m \in S : m < Ascending(S)[k]}) = k - 1
         /\ \A n \in S : \E k \in 1..Cardinality(S) : Ascending(S)[k] = n
<1> DEFINE n == Cardinality(S)
           before == [x \in S |-> {m \in S : m < x}]
           f == [x \in S |-> Cardinality({m \in S : m < x})]
<1>0. n \in Nat
  BY FS_CardinalityType
<1>1. \A x, y \in S : y \in before[x] <=> y < x
  OBVIOUS
<1>2. \A x \in S : f[x] = Cardinality({m \in S : m < x}) /\ f[x] = Cardinality(before[x])
  OBVIOUS
<1>3. \A x \in S : before[x] \subseteq S /\ x \notin before[x]
  OBVIOUS
<1> HIDE DEF before, f
<1>n. \A x \in S : x \in Int
  OBVIOUS
<1>4. \A x, y, z \in S : x \in before[y] /\ y \in before[z] => x \in before[z]
  <2> SUFFICES ASSUME NEW x \in S, NEW y \in S, NEW z \in S, x < y, y < z PROVE x < z
    BY <1>1
  <2>1. x \in Int /\ y \in Int /\ z \in Int
    BY <1>n
  <2> QED
    BY <2>1
<1>5. \A x, y \in S : x # y => x \in before[y] \/ y \in before[x]
  <2> SUFFICES ASSUME NEW x \in S, NEW y \in S, ~(x < y), ~(y < x) PROVE x = y
    BY <1>1
  <2>1. x \in Int /\ y \in Int
    BY <1>n
  <2> QED
    BY <2>1
<1>6. /\ \A x \in S : f[x] \in 0..(n - 1)
      /\ \A x, z \in S : x < z => f[x] < f[z]
      /\ \A k \in 0..(n - 1) : \E x \in S : f[x] = k
  <2>1. /\ \A x \in S : f[x] \in 0..(n - 1)
        /\ \A x, z \in S : x \in before[z] => f[x] < f[z]
        /\ \A k \in 0..(n - 1) : \E x \in S : f[x] = k
    <3>1. Orders(before, S)
      BY <1>3, <1>4, <1>5 DEF Orders
    <3>2. Counts(f, before, S)
      BY <1>2 DEF Counts
    <3>3. Places(f, before, S)
      BY <3>1, <3>2, PlacesAreTaken
    <3> QED
      BY <3>3 DEF Places
  <2> QED
    BY <1>1, <2>1
<1>7. ASSUME NEW k \in 1..n
      PROVE  Ascending(S)[k] \in S /\ f[Ascending(S)[k]] = k - 1
  <2>1. k - 1 \in 0..(n - 1)
    BY <1>0
  <2>2. PICK x \in S : f[x] = k - 1
    BY <1>6, <2>1
  <2>3. Ascending(S)[k] = CHOOSE y \in S : Cardinality({m \in S : m < y}) = k - 1
    BY DEF Ascending
  <2>4. Cardinality({m \in S : m < x}) = k - 1
    BY <1>2, <2>2
  <2>5. Ascending(S)[k] \in S /\ Cardinality({m \in S : m < Ascending(S)[k]}) = k - 1
    BY <2>3, <2>4
  <2> QED
    BY <1>2, <2>5
<1>8. ASSUME NEW x \in S PROVE \E k \in 1..n : Ascending(S)[k] = x
  <2> DEFINE k == f[x] + 1
             y == Ascending(S)[k]
  <2>1. k \in 1..n /\ f[x] \in Int
    BY <1>0, <1>6
  <2>2. y \in S /\ f[y] = f[x]
    BY <1>7, <2>1
  <2> HIDE DEF y
  <2>3. y = x
    <3>1. x \in Nat /\ y \in Nat
      BY <2>2
    <3>2. ~(x < y) /\ ~(y < x)
      BY <1>6, <2>1, <2>2
    <3> QED
      BY <3>1, <3>2
  <2> QED
    BY <2>1, <2>3 DEF y
<1>9. Ascending(S) = [k \in 1..n |-> Ascending(S)[k]]
  <2> DEFINE G(k) == CHOOSE y \in S : Cardinality({m \in S : m < y}) = k - 1
  <2>1. Ascending(S) = [k \in 1..n |-> G(k)]
    BY DEF Ascending
  <2> HIDE DEF G
  <2> QED
    BY <2>1
<1>10. \A k \in 1..n : Cardinality({m \in S : m < Ascending(S)[k]}) = k - 1
  BY <1>2, <1>7
<1> QED
  BY <1>0, <1>7, <1>8, <1>9, <1>10

\* The increases are no skills.
LEMMA KindsDiffer == \A what : ~(what \in Skill /\ what \in Increase)
BY CharacteristicsAreNoSkills DEF Increase

\* What a row or an entry names is a skill or an increase.
LEMMA ReportNames ==
  ASSUME IsReport(gained), NEW what, what \in Starting \cup Range(gained)
  PROVE  what \in Skill \/ what \in Increase
<1>1. CASE what \in Starting
  BY <1>1, SkillsAreSorted
<1>2. CASE what \in Range(gained)
  <2>1. PICK p \in DOMAIN gained : what = gained[p]
    BY <1>2 DEF Range
  <2>2. gained[p] \in Skill \cup Increase
    BY <2>1 DEF IsReport
  <2> QED
    BY <2>1, <2>2
<1> QED
  BY <1>1, <1>2

\* The numbers of a finite set by how many are below.
LEMMA NumbersHavePlaces ==
  ASSUME NEW S, S \subseteq Nat, IsFiniteSet(S)
  PROVE  /\ \A x \in S : Cardinality({m \in S : m < x}) \in 0..(Cardinality(S) - 1)
         /\ \A x, y \in S : Cardinality({m \in S : m < x}) = Cardinality({m \in S : m < y}) => x = y
         /\ \A k \in 0..(Cardinality(S) - 1) : \E x \in S : Cardinality({m \in S : m < x}) = k
<1> DEFINE n == Cardinality(S)
           Below(x) == Cardinality({m \in S : m < x})
           a == Ascending(S)
<1>1. /\ n \in Nat
      /\ \A k \in 1..n : a[k] \in S /\ Below(a[k]) = k - 1
      /\ \A x \in S : \E k \in 1..n : a[k] = x
  BY AscendingListsAll
<1> HIDE DEF n, Below, a
<1>2. \A x \in S : Below(x) \in 0..(n - 1)
  BY <1>1
<1>3. \A x, y \in S : Below(x) = Below(y) => x = y
  <2> SUFFICES ASSUME NEW x \in S, NEW y \in S, Below(x) = Below(y) PROVE x = y
    OBVIOUS
  <2>1. PICK k \in 1..n : a[k] = x
    BY <1>1
  <2>2. PICK l \in 1..n : a[l] = y
    BY <1>1
  <2>3. k - 1 = l - 1
    BY <1>1, <2>1, <2>2
  <2> QED
    BY <1>1, <2>1, <2>2, <2>3
<1>4. \A k \in 0..(n - 1) : \E x \in S : Below(x) = k
  <2> SUFFICES ASSUME NEW k \in 0..(n - 1) PROVE \E x \in S : Below(x) = k
    OBVIOUS
  <2>1. k + 1 \in 1..n
    BY <1>1
  <2>2. a[k + 1] \in S /\ Below(a[k + 1]) = k
    BY <1>1, <2>1
  <2> QED
    BY <2>2
<1> QED
  BY <1>2, <1>3, <1>4 DEF n, Below

\* planCharacteristic(): each stored row of a characteristic has a place of its own,
\* and every place is taken.
LEMMA RowPlacesPair ==
  ASSUME NEW table, NEW len \in Nat, DOMAIN table = 1..len, NEW what,
         \A i \in DOMAIN table : table[i].order \in Int /\ table[i].removed \in BOOLEAN
  PROVE  /\ IsFiniteSet(RowsOf(what, table)) /\ Cardinality(RowsOf(what, table)) \in Nat
         /\ \A i \in RowsOf(what, table) :
              RowPlace(i, table) \in 0..(Cardinality(RowsOf(what, table)) - 1)
         /\ \A i, j \in RowsOf(what, table) : RowPlace(i, table) = RowPlace(j, table) => i = j
         /\ \A k \in 0..(Cardinality(RowsOf(what, table)) - 1) :
              \E i \in RowsOf(what, table) : RowPlace(i, table) = k
<1> DEFINE rs == RowsOf(what, table)
           ac == Active(what, table)
           go == Gone(what, table)
           Below(i) == Cardinality({j \in go : j < i})
<1>1. IsFiniteSet(rs) /\ IsFiniteSet(ac) /\ IsFiniteSet(go)
  <2>1. IsFiniteSet(1..len)
    BY FS_Interval
  <2>2. rs \in SUBSET (1..len) /\ ac \in SUBSET (1..len) /\ go \in SUBSET (1..len)
    BY DEF RowsOf, Active, Gone
  <2> HIDE DEF rs, ac, go
  <2> QED
    BY <2>1, <2>2, FS_Subset
<1>2. rs = ac \cup go /\ ac \cap go = {} /\ ac \subseteq Nat /\ go \subseteq Nat
  BY DEF RowsOf, Active, Gone
<1>3. \A i \in ac : RowPlace(i, table) = PlaceOf(i, ac, table)
  BY DEF RowPlace, Active
<1>4. \A i \in go : RowPlace(i, table) = Cardinality(ac) + Below(i)
  BY DEF RowPlace, Active, Gone
<1>5. /\ \A i \in ac : PlaceOf(i, ac, table) \in 0..(Cardinality(ac) - 1)
      /\ \A i, j \in ac : PlaceOf(i, ac, table) = PlaceOf(j, ac, table) => i = j
      /\ \A k \in 0..(Cardinality(ac) - 1) : \E i \in ac : PlaceOf(i, ac, table) = k
  <2>1. \A i \in ac : table[i].order \in Int
    BY DEF Active
  <2> HIDE DEF ac
  <2>2. \A k \in 0..(Cardinality(ac) - 1) :
           AtPlace(k, ac, table) \in ac /\ PlaceOf(AtPlace(k, ac, table), ac, table) = k
    BY <1>1, <1>2, <2>1, PlacesOfRows
  <2> QED
    BY <1>1, <1>2, <2>1, <2>2, PlacesOfRows
<1>6. /\ \A i \in go : Below(i) \in 0..(Cardinality(go) - 1)
      /\ \A i, j \in go : Below(i) = Below(j) => i = j
      /\ \A k \in 0..(Cardinality(go) - 1) : \E i \in go : Below(i) = k
  <2> HIDE DEF go
  <2> QED
    BY <1>1, <1>2, NumbersHavePlaces
<1>7. Cardinality(ac) \in Nat /\ Cardinality(go) \in Nat /\ Cardinality(rs) = Cardinality(ac) + Cardinality(go)
  <2> HIDE DEF rs, ac, go
  <2>1. Cardinality(ac) \in Nat /\ Cardinality(go) \in Nat
    BY <1>1, FS_CardinalityType
  <2>2. Cardinality(ac \cup go) = Cardinality(ac) + Cardinality(go) - Cardinality(ac \cap go)
    BY <1>1, FS_Union
  <2>3. Cardinality(ac \cap go) = 0
    BY <1>2, FS_EmptySet
  <2>4. Cardinality(rs) = Cardinality(ac \cup go)
    BY <1>2
  <2> QED
    BY <2>1, <2>2, <2>3, <2>4
<1> HIDE DEF rs, ac, go, Below
<1>8. \A i \in rs : RowPlace(i, table) \in 0..(Cardinality(rs) - 1)
  <2> SUFFICES ASSUME NEW i \in rs PROVE RowPlace(i, table) \in 0..(Cardinality(rs) - 1)
    OBVIOUS
  <2>1. CASE i \in ac
    BY <1>3, <1>5, <1>7, <2>1
  <2>2. CASE i \in go
    BY <1>4, <1>6, <1>7, <2>2
  <2> QED
    BY <1>2, <2>1, <2>2
<1>9. \A i, j \in rs : RowPlace(i, table) = RowPlace(j, table) => i = j
  <2> SUFFICES ASSUME NEW i \in rs, NEW j \in rs, RowPlace(i, table) = RowPlace(j, table)
               PROVE  i = j
    OBVIOUS
  <2>1. \A k \in ac : RowPlace(k, table) \in 0..(Cardinality(ac) - 1)
    BY <1>3, <1>5
  <2>2. \A k \in go : RowPlace(k, table) >= Cardinality(ac) /\ Below(k) \in Int
    BY <1>4, <1>6, <1>7
  <2>3. CASE i \in ac /\ j \in ac
    BY <1>3, <1>5, <2>3
  <2>4. CASE i \in go /\ j \in go
    <3>1. Below(i) = Below(j)
      BY <1>4, <1>7, <2>2, <2>4
    <3> QED
      BY <1>6, <2>4, <3>1
  <2>5. CASE (i \in ac /\ j \in go) \/ (i \in go /\ j \in ac)
    BY <1>7, <2>1, <2>2, <2>5
  <2>6. (i \in ac \/ i \in go) /\ (j \in ac \/ j \in go)
    BY <1>2
  <2> QED
    BY <2>3, <2>4, <2>5, <2>6
<1>10. \A k \in 0..(Cardinality(rs) - 1) : \E i \in rs : RowPlace(i, table) = k
  <2> SUFFICES ASSUME NEW k \in 0..(Cardinality(rs) - 1) PROVE \E i \in rs : RowPlace(i, table) = k
    OBVIOUS
  <2>1. CASE k < Cardinality(ac)
    <3>1. PICK i \in ac : PlaceOf(i, ac, table) = k
      BY <1>5, <1>7, <2>1
    <3> QED
      BY <1>2, <1>3, <3>1
  <2>2. CASE k >= Cardinality(ac)
    <3>1. k - Cardinality(ac) \in 0..(Cardinality(go) - 1)
      BY <1>7, <2>2
    <3>2. PICK i \in go : Below(i) = k - Cardinality(ac)
      BY <1>6, <3>1
    <3>3. RowPlace(i, table) = k
      BY <1>4, <1>7, <3>2
    <3> QED
      BY <1>2, <3>3
  <2> QED
    BY <1>7, <2>1, <2>2
<1> QED
  BY <1>1, <1>7, <1>8, <1>9, <1>10 DEF rs

-----------------------------------------------------------------------------
(* closeFreeExtraSlots(), and the rows a sync plans one by one.               *)

\* An advancement whose entry is free: by its own, by the award, or as it is stored.
FreeSlot(what, table, granted) ==
  /\ what \in Skill \ Starting
  /\ what \in Hatred \/ what = granted \/ \E i \in DOMAIN table : table[i].what = what /\ table[i].free

\* isFreeExtra(), or free as it is stored.
LEMMA EntryFree ==
  ASSUME NEW e, NEW table, NEW granted
  PROVE  EntryIsFree(e, table, granted) <=> FreeSlot(e.what, table, granted)
BY DEF EntryIsFree, FreeExtra, FreeSlot

\* closeFreeExtraSlots(): entry by entry.
SlotsOf(list, table, granted) ==
  {list[x].order : x \in {y \in DOMAIN list :
     FreeSlot(list[y].what, table, granted) /\ list[y].confirmed}}

BelowIn(slots, order) == Cardinality({s \in slots : s < order})

\* Each entry after closeFreeExtraSlots().
LEMMA ClosedEntries ==
  ASSUME NEW list, NEW table, NEW granted
  PROVE  /\ DOMAIN Closed(list, table, granted) = DOMAIN list
         /\ \A x \in DOMAIN list :
              Closed(list, table, granted)[x] =
                IF FreeSlot(list[x].what, table, granted) THEN [list[x] EXCEPT !.confirmed = FALSE]
                ELSE IF list[x].confirmed
                THEN [list[x] EXCEPT !.order =
                        list[x].order - BelowIn(SlotsOf(list, table, granted), list[x].order)]
                ELSE list[x]
<1> DEFINE slots == {list[x].order : x \in {y \in DOMAIN list :
                  EntryIsFree(list[y], table, granted) /\ list[y].confirmed}}
<1>1. slots = SlotsOf(list, table, granted)
  <2>1. {y \in DOMAIN list : EntryIsFree(list[y], table, granted) /\ list[y].confirmed}
          = {y \in DOMAIN list : FreeSlot(list[y].what, table, granted) /\ list[y].confirmed}
    BY EntryFree
  <2> QED
    BY <2>1 DEF SlotsOf
<1>2. Closed(list, table, granted) =
        [x \in DOMAIN list |->
           IF EntryIsFree(list[x], table, granted) THEN [list[x] EXCEPT !.confirmed = FALSE]
           ELSE IF list[x].confirmed
           THEN [list[x] EXCEPT !.order = list[x].order - Cardinality({s \in slots : s < list[x].order})]
           ELSE list[x]]
  BY DEF Closed
<1>3. \A x \in DOMAIN list : EntryIsFree(list[x], table, granted) <=> FreeSlot(list[x].what, table, granted)
  BY EntryFree
<1>4. \A x \in DOMAIN list : Cardinality({s \in slots : s < list[x].order})
                              = BelowIn(SlotsOf(list, table, granted), list[x].order)
  BY <1>1 DEF BelowIn
<1> HIDE DEF slots
<1> QED
  BY <1>2, <1>3, <1>4

\* It changes no entry's advancement.
LEMMA ClosedIsAList ==
  ASSUME NEW list, NEW table, NEW granted, IsEntryList(list)
  PROVE  /\ IsEntryList(Closed(list, table, granted))
         /\ Len(Closed(list, table, granted)) = Len(list)
         /\ DOMAIN Closed(list, table, granted) = DOMAIN list
         /\ \A x \in DOMAIN list : Closed(list, table, granted)[x].what = list[x].what
<1> DEFINE c == Closed(list, table, granted)
           slots == SlotsOf(list, table, granted)
<1>1. Len(list) \in Nat /\ DOMAIN list = 1..Len(list) /\ \A x \in DOMAIN list : IsEntry(list[x])
  BY DEF IsEntryList, NamesWhatHeHas
<1>2. DOMAIN c = DOMAIN list /\ c = [x \in DOMAIN list |-> c[x]]
  <2>1. DOMAIN c = DOMAIN list
    BY ClosedEntries
  <2> QED
    BY <2>1 DEF Closed
<1>3. Len(c) = Len(list)
  <2> HIDE DEF c
  <2> QED
    BY <1>1, <1>2
<1>4. \A order \in Int : BelowIn(slots, order) \in Nat
  <2> SUFFICES ASSUME NEW order \in Int PROVE BelowIn(slots, order) \in Nat
    OBVIOUS
  <2>1. IsFiniteSet(DOMAIN list)
    BY <1>1, FS_Interval
  <2> DEFINE ys == {y \in DOMAIN list : FreeSlot(list[y].what, table, granted) /\ list[y].confirmed}
             f == [y \in DOMAIN list |-> list[y].order]
             below == {s \in slots : s < order}
  <2>2. IsFiniteSet(ys)
    <3>1. ys \in SUBSET (DOMAIN list)
      OBVIOUS
    <3> HIDE DEF ys
    <3> QED
      BY <2>1, <3>1, FS_Subset
  <2>3. slots = {f[y] : y \in ys}
    BY DEF SlotsOf
  <2>4. IsFiniteSet(slots)
    <3> HIDE DEF slots, f, ys
    <3> QED
      BY <2>2, <2>3, ImageIsFinite
  <2>5. below \in SUBSET slots
    OBVIOUS
  <2>6. Cardinality(below) \in Nat
    <3> HIDE DEF below, slots
    <3> QED
      BY <2>4, <2>5, FS_Subset, FS_CardinalityType
  <2> QED
    BY <2>6 DEF BelowIn
<1>5. ASSUME NEW x \in DOMAIN list
      PROVE  c[x].what = list[x].what /\ IsEntry(c[x])
  <2>1. IsEntry(list[x])
    BY <1>1
  <2>2. c[x] = IF FreeSlot(list[x].what, table, granted) THEN [list[x] EXCEPT !.confirmed = FALSE]
               ELSE IF list[x].confirmed
               THEN [list[x] EXCEPT !.order = list[x].order - BelowIn(slots, list[x].order)]
               ELSE list[x]
    BY ClosedEntries
  <2>3. BelowIn(slots, list[x].order) \in Nat
    BY <1>4, <2>1 DEF IsEntry
  <2> HIDE DEF c, slots
  <2>4. CASE c[x] = [list[x] EXCEPT !.confirmed = FALSE]
    BY <2>1, <2>4 DEF IsEntry, EntryColumns
  <2>5. CASE c[x] = [list[x] EXCEPT !.order = list[x].order - BelowIn(slots, list[x].order)]
    BY <2>1, <2>3, <2>5 DEF IsEntry, EntryColumns
  <2>6. CASE c[x] = list[x]
    BY <2>1, <2>6
  <2> QED
    BY <2>2, <2>4, <2>5, <2>6
<1>6. IsEntryList(c)
  <2> HIDE DEF c
  <2> QED
    BY <1>1, <1>2, <1>3, <1>5 DEF IsEntryList, NamesWhatHeHas
<1> QED
  BY <1>2, <1>3, <1>5, <1>6

-----------------------------------------------------------------------------
(* Rows that a sync plans are rows.                                           *)

\* The entries of one advancement are finitely many.
LEMMA SentForIsFinite ==
  ASSUME NEW list, NEW what, Len(list) \in Nat, DOMAIN list = 1..Len(list)
  PROVE  /\ SentFor(what, list) \subseteq Nat /\ IsFiniteSet(SentFor(what, list))
         /\ Cardinality(SentFor(what, list)) \in Nat
<1>1. IsFiniteSet(1..Len(list))
  BY FS_Interval
<1>2. SentFor(what, list) \in SUBSET (1..Len(list))
  BY DEF SentFor
<1> QED
  BY <1>1, <1>2, FS_Subset, FS_CardinalityType

\* planCharacteristic() keeps a row in shape.
LEMMA IncreaseRowIsRow ==
  ASSUME NEW table, IsTable(table), NEW list, IsEntryList(list),
         NEW i \in DOMAIN table, table[i].what \in Increase
  PROVE  IsRow(IncreaseRow(i, list, table)) /\ IncreaseRow(i, list, table).what = table[i].what
<1> DEFINE sent == SentFor(table[i].what, list)
           place == RowPlace(i, table)
           e == list[AtPlace(place, sent, list)]
           row == table[i]
<1>1. IsRow(row) /\ row.what \in Increase /\ ~(row.what \in Skill)
  BY KindsDiffer DEF IsTable
<1>2. place \in Nat
  <2>1. place \in 0..(Cardinality(RowsOf(row.what, table)) - 1)
        /\ Cardinality(RowsOf(row.what, table)) \in Nat
    <3>1. i \in RowsOf(row.what, table)
      BY DEF RowsOf
    <3> QED
      BY <3>1, RowPlacesPair DEF IsTable, IsRow, NamesWhatHeHas
  <2> QED
    BY <2>1
<1>3. sent \subseteq Nat /\ IsFiniteSet(sent) /\ Cardinality(sent) \in Nat
  BY SentForIsFinite DEF IsEntryList, NamesWhatHeHas
<1>4. ~(place >= Cardinality(sent)) => IsEntry(e)
  <2> SUFFICES ASSUME ~(place >= Cardinality(sent)) PROVE IsEntry(e)
    OBVIOUS
  <2>1. \A x \in sent : x \in DOMAIN list /\ list[x].order \in Int
    BY DEF SentFor, IsEntryList, IsEntry
  <2>2. place \in 0..(Cardinality(sent) - 1)
    BY <1>2, <1>3
  <2>3. AtPlace(place, sent, list) \in sent
    <3> HIDE DEF sent, place
    <3> QED
      BY <1>3, <2>1, <2>2, PlacesOfRows
  <2> QED
    BY <2>1, <2>3 DEF IsEntryList
<1>5. IncreaseRow(i, list, table) =
        IF place >= Cardinality(sent)
        THEN [row EXCEPT !.order = 0, !.confirmed = FALSE, !.removed = TRUE]
        ELSE IF row.removed
        THEN [row EXCEPT !.order = e.order, !.confirmed = e.confirmed, !.removed = FALSE]
        ELSE KeptRow(row, e)
  BY DEF IncreaseRow
<1> HIDE DEF sent, place, e, row
<1>6. CASE place >= Cardinality(sent)
  BY <1>1, <1>5, <1>6 DEF IsRow, Columns, row
<1>7. CASE ~(place >= Cardinality(sent)) /\ row.removed
  BY <1>1, <1>4, <1>5, <1>7 DEF IsRow, Columns, IsEntry, row
<1>8. CASE ~(place >= Cardinality(sent)) /\ ~row.removed
  <2>1. IncreaseRow(i, list, table) = KeptRow(row, e) /\ IsEntry(e)
    BY <1>4, <1>5, <1>8
  <2>2. IsRow(KeptRow(row, e)) /\ KeptRow(row, e).what = row.what
    BY <1>1, <2>1 DEF KeptRow, IsRow, Columns, IsEntry
  <2> QED
    BY <2>1, <2>2 DEF row
<1> QED
  BY <1>6, <1>7, <1>8

\* skillUpdateValues() keeps a row in shape.
LEMMA SkillRowIsRow ==
  ASSUME NEW row, IsRow(row), NEW e, IsEntry(e), NEW granted, row.what \in Skill
  PROVE  IsRow(SkillRow(row, e, granted)) /\ SkillRow(row, e, granted).what = row.what
<1>1. row.what \notin Increase
  BY KindsDiffer
<1>2. \/ SkillRow(row, e, granted) = [row EXCEPT !.order = 0, !.confirmed = FALSE]
      \/ SkillRow(row, e, granted) = [row EXCEPT !.order = e.order, !.confirmed = FALSE, !.free = TRUE]
      \/ SkillRow(row, e, granted) = [row EXCEPT !.order = e.order,
                                                !.confirmed = row.confirmed \/ e.confirmed]
      \/ SkillRow(row, e, granted) = row
  BY DEF SkillRow
<1> DEFINE new == SkillRow(row, e, granted)
<1> HIDE DEF new
<1>3. CASE new = [row EXCEPT !.order = 0, !.confirmed = FALSE]
  BY <1>1, <1>3 DEF IsRow, Columns, new
<1>4. CASE new = [row EXCEPT !.order = e.order, !.confirmed = FALSE, !.free = TRUE]
  BY <1>1, <1>4 DEF IsRow, Columns, IsEntry, new
<1>5. CASE new = [row EXCEPT !.order = e.order, !.confirmed = row.confirmed \/ e.confirmed]
  BY <1>1, <1>5 DEF IsRow, Columns, IsEntry, new
<1>6. CASE new = row
  BY <1>6 DEF new
<1> QED
  BY <1>2, <1>3, <1>4, <1>5, <1>6 DEF new

\* An added row is in shape.
LEMMA NewRowIsRow ==
  ASSUME NEW e, IsEntry(e), NEW granted, e.what \in Skill \/ e.what \in Increase
  PROVE  IsRow(NewRow(e, granted)) /\ NewRow(e, granted).what = e.what
<1>1. FreeExtra(e.what, granted) \in BOOLEAN /\ (e.what \in Increase => ~FreeExtra(e.what, granted))
  BY KindsDiffer DEF FreeExtra
<1> DEFINE free == FreeExtra(e.what, granted)
           new == [what |-> e.what, order |-> e.order, removed |-> FALSE,
                   free |-> free, confirmed |-> e.confirmed /\ ~free]
<1>2. NewRow(e, granted) = new
  BY DEF NewRow
<1> HIDE DEF free
<1>3. IsRow(new) /\ new.what = e.what
  BY <1>1 DEF IsRow, Columns, IsEntry, free
<1> QED
  BY <1>2, <1>3

\* A planned update keeps a stored row in shape, and its advancement.
LEMMA UpdatedRowIsRow ==
  ASSUME IsReport(gained), NEW table, IsTable(table), NEW list, IsEntryList(list), NEW granted,
         NEW i \in DOMAIN table
  PROVE  IsRow(UpdatedRow(i, list, table, granted))
         /\ UpdatedRow(i, list, table, granted).what = table[i].what
<1> DEFINE sent == SentFor(table[i].what, list)
<1>0. IsRow(table[i]) /\ (table[i].what \in Skill \/ table[i].what \in Increase)
  BY ReportNames DEF IsTable, NamesWhatHeHas
<1>1. CASE table[i].what \in Increase
  BY <1>1, IncreaseRowIsRow DEF UpdatedRow
<1>2. CASE table[i].what \notin Increase /\ sent # {}
  <2> DEFINE e == list[CHOOSE x \in sent : TRUE]
  <2>1. UpdatedRow(i, list, table, granted) = SkillRow(table[i], e, granted)
    BY <1>2 DEF UpdatedRow
  <2>2. IsEntry(e)
    <3>1. (CHOOSE x \in sent : TRUE) \in sent
      BY <1>2
    <3> QED
      BY <3>1 DEF SentFor, IsEntryList
  <2> HIDE DEF e
  <2> QED
    BY <1>0, <1>2, <2>1, <2>2, SkillRowIsRow
<1>3. CASE table[i].what \notin Increase /\ sent = {}
  BY <1>0, <1>3 DEF UpdatedRow
<1> QED
  BY <1>1, <1>2, <1>3

-----------------------------------------------------------------------------
(* planSkills() and planCharacteristics(): the planned table.                 *)

\* The entries that no stored row is found for.
Unstored(list, table) == {x \in DOMAIN list : ~Fits(x, list, table)}

\* A plan updates every stored row in its place and adds a row for each such entry.
LEMMA PlanOfRows ==
  ASSUME NEW sent, IsEntryList(sent), NEW table, IsTable(table), NEW granted,
         NEW list, list = Closed(sent, table, granted),
         NEW new, new = Unstored(list, table),
         NEW rs, rs = PlannedRows(sent, table, granted)
  PROVE  /\ Cardinality(new) \in Nat /\ IsFiniteSet(new) /\ new \subseteq Nat
         /\ Len(rs) = Len(table) + Cardinality(new)
         /\ DOMAIN rs = 1..(Len(table) + Cardinality(new))
         /\ \A i \in DOMAIN table : rs[i] = UpdatedRow(i, list, table, granted)
         /\ \A k \in 1..Cardinality(new) :
              rs[Len(table) + k] = NewRow(list[Ascending(new)[k]], granted)
<1>1. Len(table) \in Nat /\ DOMAIN table = 1..Len(table)
  BY DEF IsTable, NamesWhatHeHas
<1>2. Len(list) \in Nat /\ DOMAIN list = 1..Len(list)
  BY ClosedIsAList DEF IsEntryList, NamesWhatHeHas
<1>3. IsFiniteSet(new) /\ new \subseteq Nat
  <2>1. new \in SUBSET (1..Len(list))
    BY <1>2 DEF Unstored
  <2>2. IsFiniteSet(1..Len(list))
    BY <1>2, FS_Interval
  <2>3. IsFiniteSet(new)
    BY <2>1, <2>2, FS_Subset
  <2> QED
    BY <2>1, <2>3
<1>4. /\ Cardinality(new) \in Nat
      /\ Ascending(new) = [k \in 1..Cardinality(new) |-> Ascending(new)[k]]
  BY <1>3, AscendingListsAll
<1> DEFINE m == Cardinality(new)
           f == [i \in DOMAIN table |-> UpdatedRow(i, list, table, granted)]
           g == [k \in DOMAIN Ascending(new) |-> NewRow(list[Ascending(new)[k]], granted)]
<1>5. rs = f \o g
  BY DEF PlannedRows, Unstored
<1>6. DOMAIN Ascending(new) = 1..m
  BY <1>4
<1>7. f = [i \in 1..Len(table) |-> f[i]] /\ g = [k \in 1..m |-> g[k]]
  BY <1>1, <1>6
<1>8. /\ \A i \in DOMAIN table : f[i] = UpdatedRow(i, list, table, granted)
      /\ \A k \in 1..m : g[k] = NewRow(list[Ascending(new)[k]], granted)
  BY <1>6
<1> HIDE DEF m, f, g
<1>9. m \in Nat
  BY <1>4 DEF m
<1>10. /\ Len(f \o g) = Len(table) + m /\ DOMAIN (f \o g) = 1..(Len(table) + m)
       /\ \A i \in 1..Len(table) : (f \o g)[i] = f[i]
       /\ \A k \in 1..m : (f \o g)[Len(table) + k] = g[k]
  BY <1>1, <1>7, <1>9, Appended
<1> QED
  BY <1>1, <1>3, <1>5, <1>8, <1>9, <1>10 DEF m

\* A row of a plan is a stored one or the new one of an entry.
LEMMA PlannedOrNew ==
  ASSUME NEW table, IsTable(table), NEW m \in Nat, NEW i \in 1..(Len(table) + m)
  PROVE  i \in DOMAIN table \/ \E k \in 1..m : i = Len(table) + k
<1>1. Len(table) \in Nat /\ DOMAIN table = 1..Len(table)
  BY DEF IsTable, NamesWhatHeHas
<1>2. CASE i > Len(table)
  <2>1. i - Len(table) \in 1..m /\ i = Len(table) + (i - Len(table))
    BY <1>1, <1>2
  <2> QED
    BY <2>1
<1> QED
  BY <1>1, <1>2

\* A plan keeps the rows in shape.
LEMMA PlannedIsATable ==
  ASSUME IsReport(gained), NEW sent, IsEntryList(sent), NEW table, IsTable(table), NEW granted
  PROVE  /\ IsTable(PlannedRows(sent, table, granted))
         /\ DOMAIN table \subseteq DOMAIN PlannedRows(sent, table, granted)
         /\ \A i \in DOMAIN table : PlannedRows(sent, table, granted)[i].what = table[i].what
<1> DEFINE list == Closed(sent, table, granted)
           new == Unstored(list, table)
           m == Cardinality(new)
           n == Len(table)
           rs == PlannedRows(sent, table, granted)
           a == Ascending(new)
<1>1. /\ m \in Nat /\ IsFiniteSet(new) /\ new \subseteq Nat
      /\ Len(rs) = n + m
      /\ DOMAIN rs = 1..(n + m)
      /\ \A i \in DOMAIN table : rs[i] = UpdatedRow(i, list, table, granted)
      /\ \A k \in 1..m : rs[n + k] = NewRow(list[a[k]], granted)
  BY PlanOfRows
<1>2. IsEntryList(list)
  BY ClosedIsAList
<1>3. n \in Nat /\ DOMAIN table = 1..n
  BY DEF IsTable, NamesWhatHeHas
<1>4. /\ \A k \in 1..m : a[k] \in new
      /\ \A k, l \in 1..m : a[k] = a[l] => k = l
  <2>1. \A k \in 1..m : a[k] \in new /\ Cardinality({x \in new : x < a[k]}) = k - 1
    BY <1>1, AscendingListsAll
  <2>2. \A k, l \in 1..m : a[k] = a[l] => k - 1 = l - 1
    BY <2>1
  <2>3. \A k \in 1..m : k \in Int
    OBVIOUS
  <2>4. \A k, l \in 1..m : k - 1 = l - 1 => k = l
    BY <2>3
  <2> HIDE DEF a, m, new
  <2> QED
    BY <2>1, <2>2, <2>4
<1>5. \A x \in new : x \in DOMAIN list /\ ~Fits(x, list, table)
  BY DEF Unstored
<1> HIDE DEF list, new, m, n, rs, a
<1>6. \A i \in DOMAIN table : IsRow(rs[i]) /\ rs[i].what = table[i].what
  BY <1>1, <1>2, UpdatedRowIsRow
<1>7. ASSUME NEW k \in 1..m
      PROVE  /\ IsRow(rs[n + k]) /\ rs[n + k].what = list[a[k]].what
             /\ list[a[k]].what \in Starting \cup Range(gained)
  <2>1. a[k] \in DOMAIN list
    BY <1>4, <1>5
  <2>2. IsEntry(list[a[k]]) /\ list[a[k]].what \in Starting \cup Range(gained)
    BY <1>2, <2>1 DEF IsEntryList, NamesWhatHeHas
  <2>3. list[a[k]].what \in Skill \/ list[a[k]].what \in Increase
    BY <2>2, ReportNames
  <2> QED
    BY <1>1, <2>2, <2>3, NewRowIsRow
<1>8. \A i \in DOMAIN rs : i \in DOMAIN table \/ \E k \in 1..m : i = n + k
  <2>1. \A i \in 1..(Len(table) + m) : i \in DOMAIN table \/ \E k \in 1..m : i = Len(table) + k
    BY <1>1, PlannedOrNew
  <2> QED
    BY <1>1, <2>1 DEF n
<1>9. \A i \in DOMAIN rs : IsRow(rs[i]) /\ rs[i].what \in Starting \cup Range(gained)
  <2>1. \A i \in DOMAIN table : table[i].what \in Starting \cup Range(gained)
    BY DEF IsTable, NamesWhatHeHas
  <2> SUFFICES ASSUME NEW i \in DOMAIN rs
               PROVE  IsRow(rs[i]) /\ rs[i].what \in Starting \cup Range(gained)
    OBVIOUS
  <2>2. CASE i \in DOMAIN table
    BY <1>6, <2>1, <2>2
  <2>3. CASE \E k \in 1..m : i = n + k
    BY <1>7, <2>3
  <2> QED
    BY <1>8, <2>2, <2>3
<1>10. ASSUME NEW i \in DOMAIN rs, NEW j \in DOMAIN rs,
              rs[i].what = rs[j].what, rs[i].what \in Skill
       PROVE  i = j
  <2>1. ASSUME NEW x \in DOMAIN table, NEW k \in 1..m, rs[n + k].what \in Skill
        PROVE  rs[x].what # rs[n + k].what
    <3>1. ~Fits(a[k], list, table) /\ list[a[k]].what \in Skill
      BY <1>4, <1>5, <1>7, <2>1
    <3>2. \A y \in DOMAIN table : table[y].what # list[a[k]].what
      BY <3>1 DEF Fits, IsStored
    <3> QED
      BY <1>6, <1>7, <3>2
  <2>2. CASE i \in DOMAIN table /\ j \in DOMAIN table
    BY <1>6, <1>10, <2>2 DEF IsTable, NamesWhatHeHas
  <2>3. CASE i \in DOMAIN table /\ \E k \in 1..m : j = n + k
    BY <1>10, <2>1, <2>3
  <2>4. CASE j \in DOMAIN table /\ \E k \in 1..m : i = n + k
    BY <1>10, <2>1, <2>4
  <2>5. CASE (\E k \in 1..m : i = n + k) /\ (\E k \in 1..m : j = n + k)
    <3>1. PICK k \in 1..m : i = n + k
      BY <2>5
    <3>2. PICK l \in 1..m : j = n + l
      BY <2>5
    <3>3. list[a[k]].what = list[a[l]].what /\ list[a[k]].what \in Skill
      BY <1>7, <1>10, <3>1, <3>2
    <3>4. a[k] = a[l]
      <4>1. a[k] \in DOMAIN list /\ a[l] \in DOMAIN list
        BY <1>4, <1>5
      <4> QED
        BY <1>2, <3>3, <4>1 DEF IsEntryList, NamesWhatHeHas
    <3> QED
      BY <1>4, <3>1, <3>2, <3>4
  <2> QED
    BY <1>8, <2>2, <2>3, <2>4, <2>5
<1>11. IsTable(rs)
  <2>1. Len(rs) \in Nat /\ DOMAIN rs = 1..Len(rs)
    BY <1>1, <1>3
  <2>2. \A i, j \in DOMAIN rs : rs[i].what = rs[j].what /\ rs[i].what \in Skill => i = j
    BY <1>10
  <2> QED
    BY <1>9, <2>1, <2>2 DEF IsTable, NamesWhatHeHas
<1>12. DOMAIN table \subseteq DOMAIN rs
  BY <1>1, <1>3
<1> QED
  BY <1>6, <1>11, <1>12 DEF rs

-----------------------------------------------------------------------------
(* Which entry gives a planned row its number.                                *)

\* Entries that confirm exactly what is not free, and miss no stored skill.
IsFit(list, table, granted) ==
  /\ IsEntryList(list)
  /\ \A x \in DOMAIN list : list[x].what \notin Starting =>
       (list[x].confirmed <=> ~FreeSlot(list[x].what, table, granted))
  /\ \A i \in DOMAIN table : table[i].what \in Skill \ Starting => SentFor(table[i].what, list) # {}

\* Row u has the order of entry e for good.
Takes(u, e) == Paid(u) /\ u.confirmed /\ u.order = e.order /\ u.what = e.what

\* A stored increase takes the entry at its place, if there is one.
LEMMA IncreaseTakes ==
  ASSUME NEW table, IsTable(table), NEW granted, NEW list, IsFit(list, table, granted),
         NEW i \in DOMAIN table, table[i].what \in Increase,
         NEW u, u = UpdatedRow(i, list, table, granted),
         NEW sent, sent = SentFor(table[i].what, list),
         NEW place, place = RowPlace(i, table)
  PROVE  /\ Paid(u) => place \in 0..(Cardinality(sent) - 1)
         /\ place \in 0..(Cardinality(sent) - 1) =>
              /\ AtPlace(place, sent, list) \in sent
              /\ PlaceOf(AtPlace(place, sent, list), sent, list) = place
              /\ Takes(u, list[AtPlace(place, sent, list)])
<1> DEFINE e == list[AtPlace(place, sent, list)]
           row == table[i]
<1>1. IsRow(row) /\ row.what \in Increase /\ ~(row.what \in Skill) /\ ~(row.what \in Starting)
  BY KindsDiffer, SkillsAreSorted DEF IsTable
<1>2. place \in Nat
  <2>1. place \in 0..(Cardinality(RowsOf(row.what, table)) - 1)
        /\ Cardinality(RowsOf(row.what, table)) \in Nat
    <3>1. i \in RowsOf(row.what, table)
      BY DEF RowsOf
    <3> QED
      BY <3>1, RowPlacesPair DEF IsTable, IsRow, NamesWhatHeHas
  <2> QED
    BY <2>1
<1>3. sent \subseteq Nat /\ IsFiniteSet(sent) /\ Cardinality(sent) \in Nat
  BY SentForIsFinite DEF IsFit, IsEntryList, NamesWhatHeHas
<1>4. u = IF place >= Cardinality(sent)
          THEN [row EXCEPT !.order = 0, !.confirmed = FALSE, !.removed = TRUE]
          ELSE IF row.removed
          THEN [row EXCEPT !.order = e.order, !.confirmed = e.confirmed, !.removed = FALSE]
          ELSE KeptRow(row, e)
  BY DEF UpdatedRow, IncreaseRow
<1>5. IsEntryList(list)
  BY DEF IsFit
<1>6. IsRow(u) /\ u.what = row.what
  BY <1>5, IncreaseRowIsRow DEF UpdatedRow
<1>7. Paid(u) => place \in 0..(Cardinality(sent) - 1)
  <2> SUFFICES ASSUME place >= Cardinality(sent) PROVE ~Paid(u)
    BY <1>2, <1>3
  <2>1. u.removed
    BY <1>1, <1>4 DEF IsRow, Columns
  <2> QED
    BY <2>1 DEF Paid
<1>8. ASSUME place \in 0..(Cardinality(sent) - 1)
      PROVE  /\ AtPlace(place, sent, list) \in sent
             /\ PlaceOf(AtPlace(place, sent, list), sent, list) = place
             /\ Takes(u, e)
  <2>1. \A x \in sent : x \in DOMAIN list /\ list[x].order \in Int /\ list[x].what = row.what
    BY <1>5 DEF SentFor, IsEntryList, IsEntry
  <2>2. /\ AtPlace(place, sent, list) \in sent
        /\ PlaceOf(AtPlace(place, sent, list), sent, list) = place
    BY <1>3, <1>8, <2>1, PlacesOfRows
  <2>3. IsEntry(e) /\ e.what = row.what
    BY <1>5, <2>1, <2>2 DEF IsEntryList
  <2>4. e.confirmed
    <3>1. ~FreeSlot(e.what, table, granted)
      BY <1>1, <2>3 DEF FreeSlot
    <3> QED
      BY <1>1, <2>1, <2>2, <2>3, <3>1 DEF IsFit
  <2>5. ~(place >= Cardinality(sent))
    BY <1>2, <1>3, <1>8
  <2> HIDE DEF e
  <2>6. u.order = e.order /\ u.confirmed /\ ~u.removed
    <3>1. CASE row.removed
      BY <1>1, <1>4, <2>4, <2>5, <3>1 DEF IsRow, Columns
    <3>2. CASE ~row.removed
      <4>1. u = [row EXCEPT !.order = e.order, !.confirmed = row.confirmed \/ e.confirmed]
        BY <1>4, <2>4, <2>5, <3>2 DEF KeptRow
      <4> QED
        BY <1>1, <2>4, <3>2, <4>1 DEF IsRow, Columns
    <3> QED
      BY <1>1, <3>1, <3>2 DEF IsRow
  <2>7. Paid(u)
    BY <1>1, <1>6, <2>6 DEF Paid, IsRow
  <2> QED
    BY <1>6, <2>2, <2>3, <2>6, <2>7 DEF Takes
<1> QED
  BY <1>7, <1>8

\* A stored skill takes its entry, unless that is free: then it is free.
LEMMA SkillTakes ==
  ASSUME NEW table, IsTable(table), NEW granted, NEW list, IsFit(list, table, granted),
         NEW i \in DOMAIN table, table[i].what \in Skill \ Starting,
         NEW u, u = UpdatedRow(i, list, table, granted),
         NEW sent, sent = SentFor(table[i].what, list)
  PROVE  /\ (CHOOSE x \in sent : TRUE) \in sent
         /\ u.free <=> FreeSlot(table[i].what, table, granted)
         /\ Paid(u) <=> ~FreeSlot(table[i].what, table, granted)
         /\ Paid(u) => Takes(u, list[CHOOSE x \in sent : TRUE])
<1> DEFINE y == CHOOSE x \in sent : TRUE
           e == list[y]
           row == table[i]
           free == FreeSlot(row.what, table, granted)
<1>1. IsRow(row) /\ row.what \in Skill /\ ~(row.what \in Increase) /\ ~(row.what \in Starting)
  BY KindsDiffer DEF IsTable
<1>2. y \in sent
  BY DEF IsFit
<1>3. IsEntry(e) /\ e.what = row.what /\ y \in DOMAIN list
  BY <1>2 DEF IsFit, IsEntryList, SentFor
<1>4. e.confirmed <=> ~free
  BY <1>1, <1>3 DEF IsFit
<1>5. u = SkillRow(row, e, granted)
  BY <1>1, <1>2 DEF UpdatedRow
<1>6. free <=> row.free \/ FreeExtra(e.what, granted)
  <2>1. (\E j \in DOMAIN table : table[j].what = row.what /\ table[j].free) <=> row.free
    <3>1. \A j \in DOMAIN table : table[j].what = row.what => j = i
      BY <1>1 DEF IsTable, NamesWhatHeHas
    <3> QED
      BY <3>1
  <2> HIDE DEF e
  <2> QED
    BY <1>1, <1>3, <2>1 DEF FreeSlot, FreeExtra
<1> HIDE DEF e, y, free
<1>7. CASE free
  <2>1. u = [row EXCEPT !.order = e.order, !.confirmed = FALSE, !.free = TRUE]
    BY <1>1, <1>3, <1>5, <1>6, <1>7 DEF SkillRow
  <2>2. u.free = TRUE
    BY <1>1, <2>1 DEF IsRow, Columns
  <2> QED
    BY <1>2, <1>7, <2>2 DEF Paid, free, y
<1>8. CASE ~free
  <2>1. u = [row EXCEPT !.order = e.order, !.confirmed = row.confirmed \/ e.confirmed]
    BY <1>1, <1>3, <1>4, <1>5, <1>6, <1>8 DEF SkillRow
  <2>2. ~u.free /\ ~u.removed /\ u.confirmed /\ u.order = e.order /\ u.what = row.what
    BY <1>1, <1>4, <1>6, <1>8, <2>1 DEF IsRow, Columns
  <2>3. Paid(u)
    BY <1>1, <2>2 DEF Paid
  <2> QED
    BY <1>2, <1>3, <1>8, <2>2, <2>3 DEF Takes, free, y, e
<1> QED
  BY <1>7, <1>8

\* So does a new row.
LEMMA NewTakes ==
  ASSUME NEW table, IsTable(table), NEW granted, NEW list, IsFit(list, table, granted),
         IsReport(gained),
         NEW x \in Unstored(list, table), list[x].what \notin Starting,
         NEW u, u = NewRow(list[x], granted)
  PROVE  /\ u.free <=> FreeSlot(list[x].what, table, granted)
         /\ Paid(u) <=> ~FreeSlot(list[x].what, table, granted)
         /\ Paid(u) => Takes(u, list[x])
<1> DEFINE e == list[x]
           free == FreeExtra(e.what, granted)
<1>1. x \in DOMAIN list /\ ~Fits(x, list, table)
  BY DEF Unstored
<1>2. IsEntry(e) /\ (e.what \in Skill \/ e.what \in Increase)
  BY <1>1, ReportNames DEF IsFit, IsEntryList, NamesWhatHeHas
<1>3. free <=> FreeSlot(e.what, table, granted)
  <2>1. CASE e.what \in Skill
    <3>1. \A j \in DOMAIN table : table[j].what # e.what
      BY <1>1, <2>1 DEF Fits, IsStored
    <3> QED
      BY <2>1, <3>1 DEF FreeExtra, FreeSlot
  <2>2. CASE ~(e.what \in Skill)
    BY <2>2 DEF FreeExtra, FreeSlot
  <2> QED
    BY <2>1, <2>2
<1>4. e.confirmed <=> ~free
  BY <1>1, <1>3 DEF IsFit
<1>5. u = [what |-> e.what, order |-> e.order, removed |-> FALSE,
           free |-> free, confirmed |-> e.confirmed /\ ~free]
  BY DEF NewRow
<1>6. free \in BOOLEAN /\ e.what \notin Starting
  BY DEF FreeExtra
<1> DEFINE sure == e.confirmed /\ ~free
<1>a. u = [what |-> e.what, order |-> e.order, removed |-> FALSE, free |-> free, confirmed |-> sure]
  BY <1>5
<1>b. sure \in BOOLEAN /\ (sure <=> ~free)
  BY <1>4
<1> HIDE DEF free, e, sure
<1>7. u.free = free /\ u.removed = FALSE /\ u.what = e.what /\ u.order = e.order
      /\ u.confirmed = sure
  BY <1>a
<1>8. Paid(u) <=> ~free
  BY <1>6, <1>7 DEF Paid
<1> QED
  BY <1>3, <1>b, <1>6, <1>7, <1>8 DEF Takes, e

\* The entry that a planned row is paired with.
PairOf(i, list, table) ==
  IF i \in DOMAIN table
  THEN IF table[i].what \in Increase
       THEN AtPlace(RowPlace(i, table), SentFor(table[i].what, list), list)
       ELSE CHOOSE x \in SentFor(table[i].what, list) : TRUE
  ELSE Ascending(Unstored(list, table))[i - Len(table)]

\* An entry of a paid advancement.
IsPaidEntry(x, list, table, granted) ==
  x \in DOMAIN list /\ list[x].what \notin Starting /\ ~FreeSlot(list[x].what, table, granted)

\* A stored paid row is paired with an entry that a stored row is found for.
LEMMA StoredPairs ==
  ASSUME IsReport(gained), NEW table, IsTable(table), NEW granted,
         NEW list, IsFit(list, table, granted),
         NEW i \in DOMAIN table, Paid(UpdatedRow(i, list, table, granted)),
         NEW x, x = PairOf(i, list, table)
  PROVE  /\ IsPaidEntry(x, list, table, granted) /\ Fits(x, list, table)
         /\ Takes(UpdatedRow(i, list, table, granted), list[x])
         /\ list[x].what = table[i].what
         /\ table[i].what \in Increase =>
              PlaceOf(x, SentFor(table[i].what, list), list) = RowPlace(i, table)
<1> DEFINE u == UpdatedRow(i, list, table, granted)
           sent == SentFor(table[i].what, list)
           place == RowPlace(i, table)
<1>0. IsEntryList(list) /\ u.what = table[i].what
  BY UpdatedRowIsRow DEF IsFit
<1>1. table[i].what \in Skill \/ table[i].what \in Increase
  BY ReportNames DEF IsTable, NamesWhatHeHas
<1>2. table[i].what \notin Starting
  BY <1>0 DEF Paid
<1>3. CASE table[i].what \in Increase
  <2>1. x = AtPlace(place, sent, list)
    BY <1>3 DEF PairOf
  <2>2. /\ place \in 0..(Cardinality(sent) - 1)
        /\ x \in sent /\ PlaceOf(x, sent, list) = place /\ Takes(u, list[x])
    BY <1>3, <2>1, IncreaseTakes
  <2>3. x \in DOMAIN list /\ list[x].what = table[i].what
    BY <2>2 DEF SentFor
  <2>4. ~(table[i].what \in Skill)
    BY <1>3, KindsDiffer
  <2>5. ~FreeSlot(list[x].what, table, granted)
    BY <2>3, <2>4 DEF FreeSlot
  <2>6. Fits(x, list, table)
    <3>1. i \in RowsOf(table[i].what, table)
      BY DEF RowsOf
    <3>2. place \in 0..(Cardinality(RowsOf(table[i].what, table)) - 1)
          /\ Cardinality(RowsOf(table[i].what, table)) \in Nat
      BY <3>1, RowPlacesPair DEF IsTable, IsRow, NamesWhatHeHas
    <3> HIDE DEF place, sent
    <3>3. place < Cardinality(RowsOf(table[i].what, table))
      BY <3>2
    <3> QED
      BY <2>2, <2>3, <2>4, <3>3 DEF Fits, sent
  <2> QED
    BY <1>2, <2>2, <2>3, <2>5, <2>6 DEF IsPaidEntry
<1>4. CASE table[i].what \in Skill
  <2>0. ~(table[i].what \in Increase)
    BY <1>4, KindsDiffer
  <2>1. x = CHOOSE y \in sent : TRUE
    BY <2>0 DEF PairOf
  <2>2. x \in sent /\ Takes(u, list[x]) /\ ~FreeSlot(table[i].what, table, granted)
    BY <1>2, <1>4, <2>1, SkillTakes
  <2>3. x \in DOMAIN list /\ list[x].what = table[i].what
    BY <2>2 DEF SentFor
  <2>4. Fits(x, list, table)
    BY <1>4, <2>3 DEF Fits, IsStored
  <2> QED
    BY <1>2, <2>0, <2>2, <2>3, <2>4 DEF IsPaidEntry
<1> QED
  BY <1>1, <1>3, <1>4

\* A stored row is paired with each entry that one is found for.
LEMMA FoundIsPaired ==
  ASSUME IsReport(gained), NEW table, IsTable(table), NEW granted,
         NEW list, IsFit(list, table, granted),
         NEW x, IsPaidEntry(x, list, table, granted), Fits(x, list, table)
  PROVE  \E i \in DOMAIN table :
           Paid(UpdatedRow(i, list, table, granted)) /\ PairOf(i, list, table) = x
<1> DEFINE what == list[x].what
           sent == SentFor(what, list)
<1>1. IsEntryList(list) /\ x \in DOMAIN list /\ what \notin Starting
      /\ ~FreeSlot(what, table, granted)
  BY DEF IsFit, IsPaidEntry
<1>2. what \in Skill \/ what \in Increase
  BY <1>1, ReportNames DEF IsEntryList, NamesWhatHeHas
<1>3. x \in sent
  BY <1>1 DEF SentFor
<1>4. CASE what \in Skill
  <2>1. PICK i \in DOMAIN table : table[i].what = what
    BY <1>4 DEF Fits, IsStored
  <2>2. Paid(UpdatedRow(i, list, table, granted)) /\ (CHOOSE y \in sent : TRUE) \in sent
    BY <1>1, <1>4, <2>1, SkillTakes
  <2>3. PairOf(i, list, table) = CHOOSE y \in sent : TRUE
    BY <1>4, <2>1, KindsDiffer DEF PairOf
  <2>4. \A y \in sent : y = x
    BY <1>1, <1>4 DEF SentFor, IsEntryList, NamesWhatHeHas
  <2> QED
    BY <2>2, <2>3, <2>4
<1>5. CASE what \in Increase
  <2> DEFINE place == PlaceOf(x, sent, list)
  <2>1. sent \subseteq Nat /\ IsFiniteSet(sent) /\ \A y \in sent : list[y].order \in Int
    BY <1>1, SentForIsFinite DEF IsEntryList, NamesWhatHeHas, SentFor, IsEntry
  <2>2. /\ place \in 0..(Cardinality(sent) - 1)
        /\ \A y \in sent : PlaceOf(y, sent, list) = place => y = x
    <3> HIDE DEF sent
    <3> QED
      BY <1>3, <2>1, PlacesOfRows
  <2>3. ~(what \in Skill)
    BY <1>5, KindsDiffer
  <2>4. place < Cardinality(RowsOf(what, table))
    BY <2>3 DEF Fits
  <2>5. PICK i \in RowsOf(what, table) : RowPlace(i, table) = place
    <3>1. /\ Cardinality(RowsOf(what, table)) \in Nat
          /\ \A k \in 0..(Cardinality(RowsOf(what, table)) - 1) :
               \E i \in RowsOf(what, table) : RowPlace(i, table) = k
      BY RowPlacesPair DEF IsTable, IsRow, NamesWhatHeHas
    <3>2. Cardinality(sent) \in Nat
      BY <1>1, SentForIsFinite DEF IsEntryList, NamesWhatHeHas
    <3> HIDE DEF place, sent, what
    <3>3. place \in 0..(Cardinality(RowsOf(what, table)) - 1)
      BY <2>2, <2>4, <3>1, <3>2
    <3> QED
      BY <3>1, <3>3
  <2>6. i \in DOMAIN table /\ table[i].what = what
    BY DEF RowsOf
  <2>7. PairOf(i, list, table) = AtPlace(place, sent, list)
    BY <1>5, <2>5, <2>6 DEF PairOf
  <2>8. /\ AtPlace(place, sent, list) \in sent
        /\ PlaceOf(AtPlace(place, sent, list), sent, list) = place
        /\ Takes(UpdatedRow(i, list, table, granted), list[AtPlace(place, sent, list)])
    <3>1. place = RowPlace(i, table) /\ sent = SentFor(table[i].what, list)
          /\ table[i].what \in Increase
      BY <1>5, <2>5, <2>6
    <3> HIDE DEF place, sent, what
    <3> QED
      BY <2>2, <2>6, <3>1, IncreaseTakes
  <2> QED
    BY <2>2, <2>6, <2>7, <2>8 DEF Takes
<1> QED
  BY <1>2, <1>4, <1>5

\* The paid rows of a plan and the entries of paid advancements, one to one.
LEMMA PlanPairs ==
  ASSUME IsReport(gained), NEW sent, IsEntryList(sent), NEW table, IsTable(table), NEW granted,
         NEW list, list = Closed(sent, table, granted), IsFit(list, table, granted),
         NEW rs, rs = PlannedRows(sent, table, granted)
  PROVE  /\ \A i \in PaidRows(rs) :
              /\ IsPaidEntry(PairOf(i, list, table), list, table, granted)
              /\ Takes(rs[i], list[PairOf(i, list, table)])
         /\ \A i, j \in PaidRows(rs) : PairOf(i, list, table) = PairOf(j, list, table) => i = j
         /\ \A x : IsPaidEntry(x, list, table, granted) =>
              \E i \in PaidRows(rs) : PairOf(i, list, table) = x
<1> DEFINE new == Unstored(list, table)
           m == Cardinality(new)
           n == Len(table)
           a == Ascending(new)
           pair(i) == PairOf(i, list, table)
<1>1. /\ m \in Nat /\ IsFiniteSet(new) /\ new \subseteq Nat
      /\ DOMAIN rs = 1..(n + m)
      /\ \A i \in DOMAIN table : rs[i] = UpdatedRow(i, list, table, granted)
      /\ \A k \in 1..m : rs[n + k] = NewRow(list[a[k]], granted)
  BY PlanOfRows
<1>2. n \in Nat /\ DOMAIN table = 1..n
  BY DEF IsTable, NamesWhatHeHas
<1>3. /\ \A k \in 1..m : a[k] \in new
      /\ \A x \in new : \E k \in 1..m : a[k] = x
      /\ \A k, l \in 1..m : a[k] = a[l] => k = l
  <2>1. /\ \A k \in 1..m : a[k] \in new /\ Cardinality({x \in new : x < a[k]}) = k - 1
        /\ \A x \in new : \E k \in 1..m : a[k] = x
    BY <1>1, AscendingListsAll
  <2>2. \A k, l \in 1..m : a[k] = a[l] => k - 1 = l - 1
    BY <2>1
  <2>3. \A k \in 1..m : k \in Int
    OBVIOUS
  <2>4. \A k, l \in 1..m : k - 1 = l - 1 => k = l
    BY <2>3
  <2> HIDE DEF a, m, new
  <2> QED
    BY <2>1, <2>2, <2>4
<1>4. \A k \in 1..m : pair(n + k) = a[k]
  <2> SUFFICES ASSUME NEW k \in 1..m PROVE pair(n + k) = a[k]
    OBVIOUS
  <2>1. ~(n + k \in DOMAIN table) /\ n + k - n = k
    BY <1>1, <1>2
  <2>2. pair(n + k) = a[n + k - n]
    BY <2>1 DEF PairOf
  <2> HIDE DEF a, m, n, pair
  <2> QED
    BY <2>1, <2>2
<1>5. \A x \in new : x \in DOMAIN list /\ ~Fits(x, list, table)
  BY DEF Unstored
<1>6. \A i \in DOMAIN rs : i \in DOMAIN table \/ \E k \in 1..m : i = n + k
  <2>1. \A i \in 1..(Len(table) + m) : i \in DOMAIN table \/ \E k \in 1..m : i = Len(table) + k
    BY <1>1, PlannedOrNew
  <2> QED
    BY <1>1, <2>1 DEF n
<1>7. ASSUME NEW i \in DOMAIN table, Paid(rs[i])
      PROVE  /\ IsPaidEntry(pair(i), list, table, granted) /\ Fits(pair(i), list, table)
             /\ Takes(rs[i], list[pair(i)])
             /\ list[pair(i)].what = table[i].what
             /\ table[i].what \in Increase =>
                  PlaceOf(pair(i), SentFor(table[i].what, list), list) = RowPlace(i, table)
  <2>1. rs[i] = UpdatedRow(i, list, table, granted)
    BY <1>1
  <2> QED
    BY <1>7, <2>1, StoredPairs
<1>8. ASSUME NEW k \in 1..m
      PROVE  /\ Paid(rs[n + k]) => IsPaidEntry(a[k], list, table, granted) /\ Takes(rs[n + k], list[a[k]])
             /\ IsPaidEntry(a[k], list, table, granted) => Paid(rs[n + k])
  <2>1. a[k] \in new /\ a[k] \in DOMAIN list /\ rs[n + k] = NewRow(list[a[k]], granted)
    BY <1>1, <1>3, <1>5
  <2>2. CASE list[a[k]].what \in Starting
    <3>1. rs[n + k].what = list[a[k]].what
      BY <2>1 DEF NewRow
    <3> QED
      BY <2>2, <3>1 DEF Paid, IsPaidEntry
  <2>3. CASE list[a[k]].what \notin Starting
    <3> DEFINE x == a[k]
    <3>1. x \in Unstored(list, table) /\ list[x].what \notin Starting
          /\ rs[n + k] = NewRow(list[x], granted)
      BY <2>1, <2>3
    <3> HIDE DEF x, a
    <3>2. /\ Paid(rs[n + k]) <=> ~FreeSlot(list[x].what, table, granted)
          /\ Paid(rs[n + k]) => Takes(rs[n + k], list[x])
      BY <3>1, NewTakes
    <3> QED
      BY <2>1, <2>3, <3>2 DEF IsPaidEntry, x
  <2> QED
    BY <2>2, <2>3
<1> HIDE DEF new, m, n, a, pair
<1>9. \A i \in PaidRows(rs) :
        IsPaidEntry(pair(i), list, table, granted) /\ Takes(rs[i], list[pair(i)])
  <2> SUFFICES ASSUME NEW i \in PaidRows(rs)
               PROVE  IsPaidEntry(pair(i), list, table, granted) /\ Takes(rs[i], list[pair(i)])
    OBVIOUS
  <2>1. i \in DOMAIN rs /\ Paid(rs[i])
    BY DEF PaidRows
  <2>2. CASE i \in DOMAIN table
    BY <1>7, <2>1, <2>2
  <2>3. CASE \E k \in 1..m : i = n + k
    BY <1>4, <1>8, <2>1, <2>3
  <2> QED
    BY <1>6, <2>1, <2>2, <2>3
<1>10. ASSUME NEW i \in PaidRows(rs), NEW j \in PaidRows(rs), pair(i) = pair(j)
       PROVE  i = j
  <2>1. i \in DOMAIN rs /\ Paid(rs[i]) /\ j \in DOMAIN rs /\ Paid(rs[j])
    BY DEF PaidRows
  <2>2. CASE i \in DOMAIN table /\ j \in DOMAIN table
    <3>1. table[i].what = table[j].what
      BY <1>7, <1>10, <2>1, <2>2
    <3>2. table[i].what \in Skill \/ table[i].what \in Increase
      BY <2>2, ReportNames DEF IsTable, NamesWhatHeHas
    <3>3. CASE table[i].what \in Skill
      BY <2>2, <3>1, <3>3 DEF IsTable, NamesWhatHeHas
    <3>4. CASE table[i].what \in Increase
      <4>1. RowPlace(i, table) = RowPlace(j, table)
        BY <1>7, <1>10, <2>1, <2>2, <3>1, <3>4
      <4>2. i \in RowsOf(table[i].what, table) /\ j \in RowsOf(table[i].what, table)
        BY <2>2, <3>1 DEF RowsOf
      <4> QED
        BY <4>1, <4>2, RowPlacesPair DEF IsTable, IsRow, NamesWhatHeHas
    <3> QED
      BY <3>2, <3>3, <3>4
  <2>3. CASE i \in DOMAIN table /\ \E k \in 1..m : j = n + k
    BY <1>3, <1>4, <1>5, <1>7, <1>10, <2>1, <2>3
  <2>4. CASE j \in DOMAIN table /\ \E k \in 1..m : i = n + k
    BY <1>3, <1>4, <1>5, <1>7, <1>10, <2>1, <2>4
  <2>5. CASE (\E k \in 1..m : i = n + k) /\ (\E k \in 1..m : j = n + k)
    BY <1>3, <1>4, <1>10, <2>5
  <2> QED
    BY <1>6, <2>1, <2>2, <2>3, <2>4, <2>5
<1>11. ASSUME NEW x, IsPaidEntry(x, list, table, granted)
       PROVE  \E i \in PaidRows(rs) : pair(i) = x
  <2>1. CASE Fits(x, list, table)
    <3>1. PICK i \in DOMAIN table :
            Paid(UpdatedRow(i, list, table, granted)) /\ PairOf(i, list, table) = x
      BY <1>11, <2>1, FoundIsPaired
    <3>2. i \in DOMAIN rs
      BY <1>1, <1>2
    <3> QED
      BY <1>1, <3>1, <3>2 DEF PaidRows, pair
  <2>2. CASE ~Fits(x, list, table)
    <3>1. x \in new
      BY <1>11, <2>2 DEF IsPaidEntry, new, Unstored
    <3>2. PICK k \in 1..m : a[k] = x
      BY <1>3, <3>1
    <3>3. n + k \in DOMAIN rs
      BY <1>1, <1>2
    <3> QED
      BY <1>4, <1>8, <1>11, <3>2, <3>3 DEF PaidRows
  <2> QED
    BY <2>1, <2>2
<1> QED
  BY <1>9, <1>10, <1>11 DEF pair

-----------------------------------------------------------------------------
(* The numbers of a complete report.                                          *)

\* What is free in a plan's rows is what the plan took for free.
LEMMA FreeAsPlanned ==
  ASSUME IsReport(gained), NEW sent, IsEntryList(sent), NEW table, IsTable(table), NEW granted,
         NEW list, list = Closed(sent, table, granted), IsFit(list, table, granted),
         NEW rs, rs = PlannedRows(sent, table, granted),
         NEW what, what \notin Starting, NEW x \in DOMAIN list, list[x].what = what
  PROVE  FreeIn(what, rs) <=> FreeSlot(what, table, granted)
<1> DEFINE new == Unstored(list, table)
           m == Cardinality(new)
           n == Len(table)
           a == Ascending(new)
<1>1. /\ m \in Nat /\ IsFiniteSet(new) /\ new \subseteq Nat
      /\ DOMAIN rs = 1..(n + m)
      /\ \A i \in DOMAIN table : rs[i] = UpdatedRow(i, list, table, granted)
      /\ \A k \in 1..m : rs[n + k] = NewRow(list[a[k]], granted)
  BY PlanOfRows
<1>2. n \in Nat /\ DOMAIN table = 1..n
  BY DEF IsTable, NamesWhatHeHas
<1>3. /\ \A k \in 1..m : a[k] \in new
      /\ \A y \in new : \E k \in 1..m : a[k] = y
  BY <1>1, AscendingListsAll
<1>4. \A i \in DOMAIN rs : i \in DOMAIN table \/ \E k \in 1..m : i = n + k
  <2>1. \A i \in 1..(Len(table) + m) : i \in DOMAIN table \/ \E k \in 1..m : i = Len(table) + k
    BY <1>1, PlannedOrNew
  <2> QED
    BY <1>1, <2>1 DEF n
<1>5. IsTable(rs) /\ IsEntryList(list)
  BY PlannedIsATable DEF IsFit
<1>6. what \in Skill \/ what \in Increase
  BY <1>5, ReportNames DEF IsEntryList, NamesWhatHeHas
<1>7. CASE what \in Increase
  <2>1. ~(what \in Skill)
    BY <1>7, KindsDiffer
  <2>2. \A i \in DOMAIN rs : rs[i].what = what => ~rs[i].free
    BY <1>5, <1>7 DEF IsTable, IsRow
  <2> QED
    BY <2>1, <2>2 DEF FreeIn, FreeSlot
<1> HIDE DEF new, m, n, a
<1>8. CASE what \in Skill
  <2>1. ASSUME NEW i \in DOMAIN table, table[i].what = what
        PROVE  rs[i].free <=> FreeSlot(what, table, granted)
    BY <1>1, <1>8, <2>1, SkillTakes
  <2>2. ASSUME NEW k \in 1..m, list[a[k]].what = what
        PROVE  rs[n + k].free <=> FreeSlot(what, table, granted)
    <3> DEFINE y == a[k]
    <3>1. y \in Unstored(list, table) /\ list[y].what \notin Starting
          /\ rs[n + k] = NewRow(list[y], granted)
      BY <1>1, <1>3, <2>2 DEF new
    <3> HIDE DEF y
    <3>2. rs[n + k].free <=> FreeSlot(list[y].what, table, granted)
      BY <3>1, NewTakes
    <3> QED
      BY <2>2, <3>2 DEF y
  <2>3. \A k \in 1..m : rs[n + k].what = list[a[k]].what
    <3> SUFFICES ASSUME NEW k \in 1..m PROVE rs[n + k].what = list[a[k]].what
      OBVIOUS
    <3>1. rs[n + k] = NewRow(list[a[k]], granted)
      BY <1>1
    <3> QED
      BY <3>1 DEF NewRow
  <2>4. \A i \in DOMAIN table : rs[i].what = table[i].what
    BY PlannedIsATable
  <2>5. \A i \in DOMAIN rs : rs[i].what = what => (rs[i].free <=> FreeSlot(what, table, granted))
    <3> SUFFICES ASSUME NEW i \in DOMAIN rs, rs[i].what = what
                 PROVE  rs[i].free <=> FreeSlot(what, table, granted)
      OBVIOUS
    <3>1. CASE i \in DOMAIN table
      BY <2>1, <2>4, <3>1
    <3>2. CASE \E k \in 1..m : i = n + k
      BY <2>2, <2>3, <3>2
    <3> QED
      BY <1>4, <3>1, <3>2
  <2>6. \E i \in DOMAIN rs : rs[i].what = what
    <3>1. CASE \E i \in DOMAIN table : table[i].what = what
      <4>1. PICK i \in DOMAIN table : table[i].what = what
        BY <3>1
      <4>2. i \in DOMAIN rs
        BY <1>1, <1>2
      <4> QED
        BY <2>4, <4>1, <4>2
    <3>2. CASE ~\E i \in DOMAIN table : table[i].what = what
      <4>1. x \in new
        BY <1>8, <3>2 DEF new, Unstored, Fits, IsStored
      <4>2. PICK k \in 1..m : a[k] = x
        BY <1>3, <4>1
      <4>3. n + k \in DOMAIN rs
        BY <1>1, <1>2
      <4> QED
        BY <2>3, <4>2, <4>3
    <3> QED
      BY <3>1, <3>2
  <2> QED
    BY <2>5, <2>6 DEF FreeIn
<1> QED
  BY <1>6, <1>7, <1>8

\* closeFreeExtraSlots() numbers the advancements of a complete report that are not
\* free from 1 on, without gap.
FreePositions(table, granted) == {p \in DOMAIN gained : FreeSlot(gained[p], table, granted)}

NumberOfEntry(p, table, granted) ==
  Cardinality({q \in 1..p : q \notin FreePositions(table, granted)})

\* The numbers that the entries of a complete report have after that.
LEMMA ClosedNumbers ==
  ASSUME IsReport(gained), NEW sent, IsEntryList(sent), IsComplete(sent),
         NEW table, IsTable(table), NEW granted,
         NEW list, list = Closed(sent, table, granted),
         NEW first, first = Cardinality(Starting)
  PROVE  /\ IsFit(list, table, granted)
         /\ first \in Nat
         /\ \A x \in DOMAIN list :
              list[x].what \notin Starting => \E p \in DOMAIN gained : x = first + p
         /\ \A p \in DOMAIN gained : first + p \in DOMAIN list /\ list[first + p].what = gained[p]
         /\ \A p \in DOMAIN gained : p \notin FreePositions(table, granted) =>
              list[first + p].order = NumberOfEntry(p, table, granted)
<1> DEFINE free == FreePositions(table, granted)
           slots == SlotsOf(sent, table, granted)
<1>0. first \in Nat /\ Len(gained) \in Nat /\ DOMAIN gained = 1..Len(gained)
  BY SkillsAreSorted, FS_CardinalityType DEF IsReport
<1>1. /\ IsEntryList(list) /\ DOMAIN list = DOMAIN sent
      /\ \A x \in DOMAIN list : list[x].what = sent[x].what
  BY ClosedIsAList
<1>2. /\ DOMAIN sent = 1..(first + Len(gained))
      /\ \A x \in 1..first : sent[x].what \in Starting /\ ~sent[x].confirmed
      /\ \A p \in DOMAIN gained :
           sent[first + p].what = gained[p] /\ sent[first + p].order = p /\ sent[first + p].confirmed
  BY DEF IsComplete, IsEntryList, NamesWhatHeHas
<1>3. \A p \in DOMAIN gained : first + p \in DOMAIN sent /\ gained[p] \notin Starting
  BY <1>0, <1>2 DEF IsReport
<1>4. \A x \in DOMAIN sent : x \in 1..first \/ \E p \in DOMAIN gained : x = first + p
  <2> SUFFICES ASSUME NEW x \in DOMAIN sent, x \notin 1..first
               PROVE  \E p \in DOMAIN gained : x = first + p
    OBVIOUS
  <2>1. x - first \in DOMAIN gained /\ x = first + (x - first)
    BY <1>0, <1>2
  <2> QED
    BY <2>1
<1>5. slots = free
  <2>1. ASSUME NEW x \in DOMAIN sent, FreeSlot(sent[x].what, table, granted), sent[x].confirmed
        PROVE  sent[x].order \in free
    <3>1. PICK p \in DOMAIN gained : x = first + p
      BY <1>2, <1>4, <2>1
    <3> QED
      BY <1>2, <2>1, <3>1 DEF FreePositions
  <2>2. ASSUME NEW p \in free
        PROVE  /\ first + p \in DOMAIN sent /\ FreeSlot(sent[first + p].what, table, granted)
               /\ sent[first + p].confirmed /\ sent[first + p].order = p
    BY <1>2, <1>3 DEF FreePositions
  <2>3. slots \subseteq free
    BY <2>1 DEF SlotsOf
  <2>4. free \subseteq slots
    <3> SUFFICES ASSUME NEW p \in free PROVE p \in slots
      OBVIOUS
    <3> DEFINE x == first + p
    <3>1. x \in DOMAIN sent /\ FreeSlot(sent[x].what, table, granted) /\ sent[x].confirmed
          /\ sent[x].order = p
      BY <2>2
    <3> HIDE DEF x
    <3> QED
      BY <3>1 DEF SlotsOf
  <2> QED
    BY <2>3, <2>4
<1>6. ASSUME NEW x \in DOMAIN list
      PROVE  list[x] = IF FreeSlot(sent[x].what, table, granted) THEN [sent[x] EXCEPT !.confirmed = FALSE]
                       ELSE IF sent[x].confirmed
                       THEN [sent[x] EXCEPT !.order = sent[x].order - BelowIn(slots, sent[x].order)]
                       ELSE sent[x]
  <2> DEFINE c == Closed(sent, table, granted)
  <2>1. x \in DOMAIN sent /\ list = c
    BY <1>1
  <2>2. c[x] = IF FreeSlot(sent[x].what, table, granted) THEN [sent[x] EXCEPT !.confirmed = FALSE]
               ELSE IF sent[x].confirmed
               THEN [sent[x] EXCEPT !.order = sent[x].order - BelowIn(slots, sent[x].order)]
               ELSE sent[x]
    BY <2>1, ClosedEntries
  <2> HIDE DEF c, slots
  <2> QED
    BY <2>1, <2>2
<1> HIDE DEF slots
<1>7. ASSUME NEW p \in DOMAIN gained
      PROVE  /\ list[first + p].confirmed <=> p \notin free
             /\ p \notin free => list[first + p].order = p - BelowIn(free, p)
  <2> DEFINE x == first + p
             e == sent[x]
  <2>1. x \in DOMAIN list /\ e.what = gained[p] /\ e.order = p /\ e.confirmed /\ IsEntry(e)
    BY <1>1, <1>2, <1>3 DEF IsEntryList
  <2>2. list[x] = IF FreeSlot(e.what, table, granted) THEN [e EXCEPT !.confirmed = FALSE]
                  ELSE IF e.confirmed
                  THEN [e EXCEPT !.order = e.order - BelowIn(slots, e.order)]
                  ELSE e
    BY <1>6, <2>1
  <2>3. FreeSlot(e.what, table, granted) <=> p \in free
    BY <2>1 DEF FreePositions
  <2> HIDE DEF x, e, free
  <2>4. CASE p \in free
    <3>1. list[x] = [e EXCEPT !.confirmed = FALSE]
      BY <2>2, <2>3, <2>4
    <3>2. list[x].confirmed = FALSE
      BY <2>1, <3>1 DEF IsEntry, EntryColumns
    <3> QED
      BY <2>4, <3>2 DEF x
  <2>5. CASE p \notin free
    <3>1. list[x] = [e EXCEPT !.order = p - BelowIn(free, p)]
      BY <1>5, <2>1, <2>2, <2>3, <2>5
    <3>2. list[x].confirmed = e.confirmed /\ list[x].order = p - BelowIn(free, p)
      BY <2>1, <3>1 DEF IsEntry, EntryColumns
    <3> QED
      BY <2>1, <2>5, <3>2 DEF x
  <2> QED
    BY <2>4, <2>5
<1>8. ASSUME NEW p \in DOMAIN gained, p \notin free
      PROVE  p - BelowIn(free, p) = NumberOfEntry(p, table, granted)
  <2> DEFINE B == {s \in free : s < p}
             A == {q \in 1..p : q \notin free}
  <2>1. p \in Nat /\ p >= 1 /\ free \subseteq DOMAIN gained
    BY <1>0 DEF FreePositions
  <2>2. A = (1..p) \ B /\ B \subseteq 1..p
    BY <1>0, <1>8, <2>1
  <2>3. IsFiniteSet(1..p) /\ Cardinality(1..p) = p
    <3>1. /\ IsFiniteSet(1..p)
          /\ Cardinality(1..p) = IF 1 > p THEN 0 ELSE p - 1 + 1
      BY <2>1, FS_Interval
    <3> QED
      BY <2>1, <3>1
  <2>4. NumberOfEntry(p, table, granted) = Cardinality(A) /\ BelowIn(free, p) = Cardinality(B)
    BY DEF NumberOfEntry, BelowIn
  <2> HIDE DEF A, B, free
  <2>5. Cardinality((1..p) \ B) = Cardinality(1..p) - Cardinality((1..p) \cap B)
    BY <2>3, FS_Difference
  <2>6. (1..p) \cap B = B
    BY <2>2
  <2> QED
    BY <2>2, <2>3, <2>4, <2>5, <2>6
<1>9. \A x \in DOMAIN list : list[x].what \notin Starting =>
        (list[x].confirmed <=> ~FreeSlot(list[x].what, table, granted))
  <2> SUFFICES ASSUME NEW x \in DOMAIN list, list[x].what \notin Starting
               PROVE  list[x].confirmed <=> ~FreeSlot(list[x].what, table, granted)
    OBVIOUS
  <2>1. PICK p \in DOMAIN gained : x = first + p
    BY <1>1, <1>2, <1>4
  <2>2. list[x].what = gained[p]
    BY <1>1, <1>2, <2>1
  <2> QED
    BY <1>7, <2>1, <2>2 DEF FreePositions
<1>10. \A i \in DOMAIN table : table[i].what \in Skill \ Starting => SentFor(table[i].what, list) # {}
  <2> SUFFICES ASSUME NEW i \in DOMAIN table, table[i].what \in Skill \ Starting
               PROVE  SentFor(table[i].what, list) # {}
    OBVIOUS
  <2>1. table[i].what \in Range(gained)
    BY DEF IsTable, NamesWhatHeHas
  <2>2. PICK p \in DOMAIN gained : gained[p] = table[i].what
    BY <2>1 DEF Range
  <2>3. first + p \in SentFor(table[i].what, list)
    BY <1>1, <1>2, <1>3, <2>2 DEF SentFor
  <2> QED
    BY <2>3
<1>11. IsFit(list, table, granted)
  BY <1>1, <1>9, <1>10 DEF IsFit
<1> QED
  BY <1>0, <1>1, <1>2, <1>3, <1>4, <1>7, <1>8, <1>11

\* The plan of a complete report leaves its advancements, without the free ones,
\* numbered in their order.
LEMMA CompletePlanIsNumbered ==
  ASSUME IsReport(gained), NEW sent, IsEntryList(sent), IsComplete(sent),
         NEW table, IsTable(table), NEW granted,
         NEW rs, rs = PlannedRows(sent, table, granted)
  PROVE  Numbered(rs, gained)
<1> DEFINE list == Closed(sent, table, granted)
           first == Cardinality(Starting)
           free == FreePositions(table, granted)
           number(p) == NumberOfEntry(p, table, granted)
           pair(i) == PairOf(i, list, table)
<1>1. /\ IsFit(list, table, granted)
      /\ first \in Nat
      /\ \A x \in DOMAIN list :
           list[x].what \notin Starting => \E p \in DOMAIN gained : x = first + p
      /\ \A p \in DOMAIN gained : first + p \in DOMAIN list /\ list[first + p].what = gained[p]
      /\ \A p \in DOMAIN gained : p \notin free => list[first + p].order = number(p)
  BY ClosedNumbers
<1>2. Len(gained) \in Nat /\ DOMAIN gained = 1..Len(gained) /\ \A p \in DOMAIN gained : gained[p] \notin Starting
  BY DEF IsReport
<1>3. /\ \A i \in PaidRows(rs) :
           IsPaidEntry(pair(i), list, table, granted) /\ Takes(rs[i], list[pair(i)])
      /\ \A i, j \in PaidRows(rs) : pair(i) = pair(j) => i = j
      /\ \A x : IsPaidEntry(x, list, table, granted) => \E i \in PaidRows(rs) : pair(i) = x
  BY <1>1, PlanPairs
<1>4. \A p \in DOMAIN gained : FreeIn(gained[p], rs) <=> p \in free
  <2> SUFFICES ASSUME NEW p \in DOMAIN gained PROVE FreeIn(gained[p], rs) <=> p \in free
    OBVIOUS
  <2> DEFINE x == first + p
  <2>1. x \in DOMAIN list /\ list[x].what = gained[p] /\ gained[p] \notin Starting
    BY <1>1, <1>2
  <2>2. FreeIn(gained[p], rs) <=> FreeSlot(gained[p], table, granted)
    <3> HIDE DEF x
    <3> QED
      BY <1>1, <2>1, FreeAsPlanned
  <2> QED
    BY <2>2 DEF FreePositions
<1>5. \A p \in DOMAIN gained : NumberIn(p, gained, rs) = number(p)
  <2> SUFFICES ASSUME NEW p \in DOMAIN gained PROVE NumberIn(p, gained, rs) = number(p)
    OBVIOUS
  <2>1. {q \in 1..p : ~FreeIn(gained[q], rs)} = {q \in 1..p : q \notin free}
    BY <1>2, <1>4
  <2> QED
    BY <2>1 DEF NumberIn, NumberOfEntry
<1>6. \A p, q \in DOMAIN gained : q \notin free /\ p < q => number(p) < number(q)
  BY <1>2, NumbersGrow DEF NumberOfEntry
<1>7. \A p \in DOMAIN gained : number(p) \in Nat
  <2> SUFFICES ASSUME NEW p \in DOMAIN gained PROVE number(p) \in Nat
    OBVIOUS
  <2>1. p \in Nat
    BY <1>2
  <2>2. Cardinality({k \in 1..p : k \notin free}) \in Nat
    <3> HIDE DEF free
    <3> QED
      BY <2>1, NumbersGrow
  <2> QED
    BY <2>2 DEF NumberOfEntry
<1> HIDE DEF list, first, free, number, pair
<1>8. ASSUME NEW x, IsPaidEntry(x, list, table, granted)
      PROVE  \E p \in DOMAIN gained : x = first + p /\ p \notin free
  <2>1. PICK p \in DOMAIN gained : x = first + p
    BY <1>1, <1>8 DEF IsPaidEntry
  <2>2. p \notin free
    BY <1>1, <1>8, <2>1 DEF IsPaidEntry, FreePositions, free
  <2> QED
    BY <2>1, <2>2
<1>9. ASSUME NEW p \in DOMAIN gained, p \notin free
      PROVE  IsPaidEntry(first + p, list, table, granted)
  BY <1>1, <1>2, <1>9 DEF IsPaidEntry, FreePositions, free
<1>10. ASSUME NEW i \in PaidRows(rs)
       PROVE  \E p \in DOMAIN gained :
                /\ pair(i) = first + p /\ p \notin free
                /\ rs[i].what = gained[p] /\ rs[i].order = number(p) /\ rs[i].confirmed
  <2>1. PICK p \in DOMAIN gained : pair(i) = first + p /\ p \notin free
    BY <1>3, <1>8
  <2>2. Takes(rs[i], list[first + p])
    BY <1>3, <2>1
  <2> QED
    BY <1>1, <2>1, <2>2 DEF Takes
<1>11. \A i, j \in PaidRows(rs) : rs[i].order = rs[j].order => i = j
  <2> SUFFICES ASSUME NEW i \in PaidRows(rs), NEW j \in PaidRows(rs), rs[i].order = rs[j].order
               PROVE  i = j
    OBVIOUS
  <2>1. PICK p \in DOMAIN gained : pair(i) = first + p /\ p \notin free /\ rs[i].order = number(p)
    BY <1>10
  <2>2. PICK q \in DOMAIN gained : pair(j) = first + q /\ q \notin free /\ rs[j].order = number(q)
    BY <1>10
  <2>3. p = q
    <3>0. p \in Nat /\ q \in Nat
      BY <1>2
    <3>1. number(p) = number(q) /\ number(p) \in Nat /\ p \in Nat /\ q \in Nat
      BY <1>7, <2>1, <2>2, <3>0
    <3>2. ~(p < q) /\ ~(q < p)
      BY <1>6, <2>1, <2>2, <3>1
    <3> QED
      BY <3>1, <3>2
  <2> QED
    BY <1>3, <2>1, <2>2, <2>3
<1>12. ASSUME NEW p \in DOMAIN gained, ~FreeIn(gained[p], rs)
       PROVE  \E i \in PaidRows(rs) : rs[i].what = gained[p] /\ rs[i].order = NumberIn(p, gained, rs)
  <2>1. p \notin free
    BY <1>4, <1>12
  <2>2. PICK i \in PaidRows(rs) : pair(i) = first + p
    BY <1>3, <1>9, <2>1
  <2>3. Takes(rs[i], list[first + p])
    BY <1>3, <2>2
  <2> QED
    BY <1>1, <1>5, <2>1, <2>2, <2>3 DEF Takes
<1>13. \A i \in PaidRows(rs) : rs[i].confirmed
  BY <1>10
<1>14. \A i \in PaidRows(rs) : \E p \in DOMAIN gained :
         /\ ~FreeIn(gained[p], rs)
         /\ rs[i].what = gained[p] /\ rs[i].order = NumberIn(p, gained, rs)
  BY <1>4, <1>5, <1>10
<1> QED
  BY <1>11, <1>12, <1>13, <1>14 DEF Numbered

-----------------------------------------------------------------------------
(* The numbering as the property states it.                                   *)

\* f numbers the members of N from 1 on, and S holds the numbers.
NumbersAll(f, S, N) ==
  /\ \A p \in N : f[p] = BelowIn(N, p) + 1
  /\ \A s : s \in S <=> \E p \in N : s = f[p]

NoNumberTwice(f, N) == \A p, q \in N : f[p] = f[q] => p = q

\* The numbers are those from 1 on, each once.
LEMMA AllPlacesAreNumbers ==
  ASSUME NEW N, N \subseteq Nat \ {0}, IsFiniteSet(N),
         NEW S, NEW f, NumbersAll(f, S, N)
  PROVE  S = 1..Cardinality(N) /\ NoNumberTwice(f, N)
<1> USE DEF NumbersAll, NoNumberTwice
<1> DEFINE n == Cardinality(N)
           Below(p) == Cardinality({q \in N : q < p})
           g == [p \in N |-> Below(p)]
<1>1. /\ \A p \in N : g[p] \in 0..(n - 1)
      /\ \A p, q \in N : g[p] = g[q] => p = q
      /\ \A k \in 0..(n - 1) : \E p \in N : g[p] = k
  <2>1. /\ \A p \in N : Below(p) \in 0..(n - 1)
        /\ \A p, q \in N : Below(p) = Below(q) => p = q
        /\ \A k \in 0..(n - 1) : \E p \in N : Below(p) = k
    <3> SUFFICES N \subseteq Nat /\ IsFiniteSet(N)
      BY NumbersHavePlaces
    <3> QED
      OBVIOUS
  <2> HIDE DEF Below, n
  <2> QED
    BY <2>1
<1>2. \A p \in N : f[p] = g[p] + 1
  BY DEF BelowIn
<1>3. n \in Nat
  BY FS_CardinalityType
<1> HIDE DEF n, g, Below
<1>4. S \subseteq 1..n
  <2> SUFFICES ASSUME NEW p \in N PROVE f[p] \in 1..n
    OBVIOUS
  <2>1. g[p] \in 0..(n - 1) /\ f[p] = g[p] + 1
    BY <1>1, <1>2
  <2> QED
    BY <1>3, <2>1
<1>5. 1..n \subseteq S
  <2> SUFFICES ASSUME NEW k \in 1..n PROVE k \in S
    OBVIOUS
  <2>1. k - 1 \in 0..(n - 1)
    BY <1>3
  <2>2. PICK p \in N : g[p] = k - 1
    BY <1>1, <2>1
  <2>3. k \in Int /\ f[p] = (k - 1) + 1
    BY <1>2, <2>2
  <2>4. f[p] = k
    BY <2>3
  <2> QED
    BY <2>4
<1>6. \A p, q \in N : f[p] = f[q] => p = q
  <2> SUFFICES ASSUME NEW p \in N, NEW q \in N, f[p] = f[q] PROVE p = q
    OBVIOUS
  <2>1. g[p] \in Int /\ g[q] \in Int
    BY <1>1, <1>3
  <2>2. g[p] = g[q]
    BY <1>2, <2>1
  <2> QED
    BY <1>1, <2>2
<1> QED
  BY <1>4, <1>5, <1>6 DEF n

\* The paid rows of a numbered table are as many as its numbers.
LEMMA NumberedHasNoGap ==
  ASSUME NEW table, NEW list, Len(list) \in Nat, DOMAIN list = 1..Len(list),
         Len(table) \in Nat, DOMAIN table = 1..Len(table), Numbered(table, list)
  PROVE  {table[i].order : i \in PaidRows(table)} = 1..Cardinality(PaidRows(table))
<1> DEFINE N == {p \in DOMAIN list : ~FreeIn(list[p], table)}
           f == [p \in N |-> NumberIn(p, list, table)]
           S == {f[p] : p \in N}
           orders == {table[i].order : i \in PaidRows(table)}
           h == [i \in PaidRows(table) |-> table[i].order]
<1>1. IsFiniteSet(N) /\ N \subseteq Nat \ {0} /\ IsFiniteSet(PaidRows(table))
  <2>1. IsFiniteSet(1..Len(list)) /\ IsFiniteSet(1..Len(table))
    BY FS_Interval
  <2>2. N \in SUBSET (1..Len(list)) /\ PaidRows(table) \in SUBSET (1..Len(table))
    BY DEF PaidRows
  <2>3. N \subseteq Nat \ {0}
    OBVIOUS
  <2> HIDE DEF N
  <2> QED
    BY <2>1, <2>2, <2>3, FS_Subset
<1>2. \A p \in N : f[p] = BelowIn(N, p) + 1
  <2> SUFFICES ASSUME NEW p \in N PROVE f[p] = BelowIn(N, p) + 1
    OBVIOUS
  <2> DEFINE B == {q \in N : q < p}
  <2>1. {q \in 1..p : ~FreeIn(list[q], table)} = B \cup {p}
    <3>1. \A q : q \in 1..p <=> q \in DOMAIN list /\ (q < p \/ q = p)
      OBVIOUS
    <3> QED
      BY <3>1
  <2>2. B \in SUBSET N /\ p \notin B
    OBVIOUS
  <2>3. f[p] = Cardinality(B \cup {p})
    BY <2>1 DEF NumberIn
  <2> HIDE DEF B, N, f
  <2>4. IsFiniteSet(B)
    BY <1>1, <2>2, FS_Subset
  <2>5. Cardinality(B \cup {p}) = Cardinality(B) + 1
    BY <2>2, <2>4, FS_AddElement
  <2> QED
    BY <2>3, <2>5 DEF B, BelowIn
<1>3. S = orders
  <2>1. \A i \in PaidRows(table) : \E p \in N : table[i].order = NumberIn(p, list, table)
    BY DEF Numbered
  <2>2. \A p \in N : \E i \in PaidRows(table) : table[i].order = NumberIn(p, list, table)
    BY DEF Numbered
  <2>3. \A p \in N : f[p] = NumberIn(p, list, table)
    OBVIOUS
  <2> HIDE DEF N, f
  <2>4. S \subseteq orders
    BY <2>2, <2>3
  <2>5. orders \subseteq S
    BY <2>1, <2>3
  <2> QED
    BY <2>4, <2>5
<1>4. S = 1..Cardinality(N) /\ NoNumberTwice(f, N)
  <2>1. \A s : s \in S <=> \E p \in N : s = f[p]
    <3> HIDE DEF N, f
    <3> QED
      OBVIOUS
  <2> HIDE DEF N, f, S
  <2>2. NumbersAll(f, S, N)
    BY <1>2, <2>1 DEF NumbersAll
  <2> QED
    BY <1>1, <2>2, AllPlacesAreNumbers
<1>5. h \in Bijection(PaidRows(table), orders)
  <2>1. \A i, j \in PaidRows(table) : h[i] = h[j] => i = j
    BY DEF Numbered
  <2> QED
    BY <2>1 DEF Bijection, Injection, Surjection, IsInjective
<1>6. f \in Bijection(N, S)
  <2> HIDE DEF N
  <2> QED
    BY <1>4 DEF NoNumberTwice, Bijection, Injection, Surjection, IsInjective
<1>7. Cardinality(PaidRows(table)) = Cardinality(N)
  <2>1. Cardinality(orders) = Cardinality(PaidRows(table))
    <3> HIDE DEF orders, h
    <3> QED
      BY <1>1, <1>5, FS_Bijection DEF ExistsBijection
  <2>2. Cardinality(S) = Cardinality(N)
    <3> HIDE DEF S, f, N
    <3> QED
      BY <1>1, <1>6, FS_Bijection DEF ExistsBijection
  <2> HIDE DEF S, orders, N
  <2> QED
    BY <1>3, <2>1, <2>2
<1> HIDE DEF S, N
<1> QED
  BY <1>3, <1>4, <1>7

\* A numbered table is what the property asks for.
LEMMA NumberedIsTrue ==
  ASSUME IsTable(rows), shown # Unknown => IsReport(shown) /\ Numbered(rows, shown)
  PROVE  NumberingIsTrue
<1> SUFFICES ASSUME shown # Unknown PROVE NumberingIsTrue
  BY DEF NumberingIsTrue
<1>1. /\ Len(shown) \in Nat /\ DOMAIN shown = 1..Len(shown)
      /\ Len(rows) \in Nat /\ DOMAIN rows = 1..Len(rows)
  BY DEF IsReport, IsTable, NamesWhatHeHas
<1>2. {rows[i].order : i \in PaidRows(rows)} = 1..Cardinality(PaidRows(rows))
  BY <1>1, NumberedHasNoGap
<1>3. \A what : IsFreeNow(what) <=> FreeIn(what, rows)
  BY DEF IsFreeNow, FreeIn
<1>4. \A p \in DOMAIN shown : NumberOf(p) = NumberIn(p, shown, rows)
  <2> SUFFICES ASSUME NEW p \in DOMAIN shown PROVE NumberOf(p) = NumberIn(p, shown, rows)
    OBVIOUS
  <2>1. {q \in 1..p : ~IsFreeNow(shown[q])} = {q \in 1..p : ~FreeIn(shown[q], rows)}
    BY <1>3
  <2> QED
    BY <2>1 DEF NumberOf, NumberIn
<1> DEFINE A == {<<rows[i].order, rows[i].what>> : i \in PaidRows(rows)}
           P == {q \in DOMAIN shown : ~IsFreeNow(shown[q])}
           B == {<<NumberOf(p), shown[p]>> : p \in P}
<1>5. \A i \in PaidRows(rows) : \E p \in P : rows[i].what = shown[p] /\ rows[i].order = NumberOf(p)
  BY <1>3, <1>4 DEF Numbered
<1>6. \A p \in P : \E i \in PaidRows(rows) : rows[i].what = shown[p] /\ rows[i].order = NumberOf(p)
  BY <1>3, <1>4 DEF Numbered
<1>7. A = B
  <2> HIDE DEF P
  <2>1. A \subseteq B
    BY <1>5
  <2>2. B \subseteq A
    BY <1>6
  <2> QED
    BY <2>1, <2>2
<1> QED
  BY <1>2, <1>7 DEF NumberingIsTrue, Numbered

-----------------------------------------------------------------------------
(* The steps of the importer and of the award keep the invariant.             *)

\* What is in shape stays so while the player keeps what he has gained.
LEMMA TableStays ==
  ASSUME IsTable(rows), UNCHANGED rows, Range(gained) \subseteq Range(gained')
  PROVE  IsTable(rows)'
BY DEF IsTable, NamesWhatHeHas

\* So does a plan.
LEMMA PlanStays ==
  ASSUME IsTable(planned.rows), IsTable(planned.read), UNCHANGED <<gained, planned>>
  PROVE  IsTable(planned.rows)' /\ IsTable(planned.read)'
BY DEF IsTable, NamesWhatHeHas

\* So do the entries.
LEMMA EntriesStay ==
  ASSUME IsEntryList(entries), UNCHANGED <<gained, entries>>
  PROVE  IsEntryList(entries)' /\ (IsComplete(entries) => IsComplete(entries)')
BY DEF IsEntryList, NamesWhatHeHas, IsComplete

\* A step of the curator that leaves the import alone.
LEMMA SoundStays ==
  ASSUME ImportIsSound, UNCHANGED <<gained, stage, told, entries, planned>>,
         DOMAIN rows' = DOMAIN rows, \A i \in DOMAIN rows : rows'[i].what = rows[i].what,
         stage = "write" /\ ~overlapped' => ~overlapped /\ UNCHANGED rows
  PROVE  ImportIsSound'
<1>1. stage \in {"idle", "sync", "granted", "write", "settle", "price"}
  BY DEF ImportIsSound
<1>2. CASE stage \in {"sync", "granted"}
  <2>1. IsEntryList(entries) /\ (told # Unknown => told = gained /\ IsComplete(entries))
    BY <1>2 DEF ImportIsSound
  <2> QED
    BY <1>1, <1>2, <2>1, EntriesStay DEF ImportIsSound
<1>3. CASE stage = "write"
  <2>1. /\ IsTable(planned.rows) /\ IsTable(planned.read)
        /\ DOMAIN planned.read = DOMAIN rows /\ DOMAIN rows \subseteq DOMAIN planned.rows
        /\ \A i \in DOMAIN rows :
             rows[i].what = planned.read[i].what /\ rows[i].what = planned.rows[i].what
        /\ ~overlapped => planned.read = rows
        /\ told # Unknown => told = gained /\ Numbered(planned.rows, told)
    BY <1>3 DEF ImportIsSound
  <2>2. IsTable(planned.rows)' /\ IsTable(planned.read)'
    BY <2>1, PlanStays
  <2>3. (~overlapped => planned.read = rows)'
    BY <1>3, <2>1
  <2>4. Numbered(planned.rows, told) => Numbered(planned.rows, told)'
    OBVIOUS
  <2> QED
    BY <1>1, <1>3, <2>1, <2>2, <2>3, <2>4 DEF ImportIsSound
<1>4. CASE stage \in {"idle", "settle", "price"}
  BY <1>4 DEF ImportIsSound
<1> QED
  BY <1>1, <1>2, <1>3, <1>4

\* A step that leaves the store alone.
LEMMA StoreStays ==
  ASSUME NInv, PInv', UNCHANGED <<site, rows, award, shown>>, IsReport(gained)',
         Range(gained) \subseteq Range(gained'),
         site = "bbl" => ImportIsSound' /\ RecordsAreWhole'
  PROVE  NInv'
<1>1. site = "bbl" => IsTable(rows)'
  BY TableStays DEF NInv
<1>2. site = "bbl" /\ shown # Unknown => IsReport(shown)' /\ Numbered(rows, shown)'
  BY DEF NInv, IsReport
<1> QED
  BY <1>1, <1>2 DEF NInv

\* A player without advancements.
LEMMA InitNInv == AdvInit => NInv
<1> SUFFICES ASSUME AdvInit PROVE NInv
  OBVIOUS
<1>1. PInv
  BY DEF AdvInit, PInv, HasCounts, OverlapIsKnown, PriceIsCurrent, UnspentIsExact, NotPlanned,
     Idle, Busy, Curating
<1>2. IsReport(gained) /\ IsTable(rows)
  BY DEF AdvInit, IsReport, IsTable, NamesWhatHeHas
<1>3. ImportIsSound
  BY DEF AdvInit, ImportIsSound
<1>4. RecordsAreWhole
  BY DEF AdvInit, RecordsAreWhole, NotPlanned, Idle
<1> QED
  BY <1>1, <1>2, <1>3, <1>4 DEF AdvInit, NInv

\* The columns of two tables are the same.
SameColumns(a, b) ==
  /\ DOMAIN a = DOMAIN b
  /\ \A i \in DOMAIN a : /\ a[i].what = b[i].what /\ a[i].order = b[i].order
                         /\ a[i].removed = b[i].removed /\ a[i].free = b[i].free
                         /\ a[i].confirmed = b[i].confirmed

\* Such tables are numbered alike.
LEMMA NumberedAlike ==
  ASSUME NEW a, NEW b, SameColumns(a, b), NEW list, Numbered(a, list)
  PROVE  Numbered(b, list)
<1>1. PaidRows(a) = PaidRows(b) /\ PaidRows(a) \subseteq DOMAIN a
  BY DEF SameColumns, PaidRows, Paid
<1>2. \A what : FreeIn(what, a) <=> FreeIn(what, b)
  BY DEF SameColumns, FreeIn
<1>3. \A p : NumberIn(p, list, a) = NumberIn(p, list, b)
  <2> SUFFICES ASSUME NEW p PROVE NumberIn(p, list, a) = NumberIn(p, list, b)
    OBVIOUS
  <2>1. {q \in 1..p : ~FreeIn(list[q], a)} = {q \in 1..p : ~FreeIn(list[q], b)}
    BY <1>2
  <2> QED
    BY <2>1 DEF NumberIn
<1>4. \A i \in PaidRows(b) : a[i].what = b[i].what /\ a[i].order = b[i].order
                            /\ a[i].confirmed = b[i].confirmed
  BY <1>1 DEF SameColumns
<1>5. /\ \A i \in PaidRows(b) : b[i].confirmed
      /\ \A i, j \in PaidRows(b) : b[i].order = b[j].order => i = j
  BY <1>1, <1>4 DEF Numbered
<1>6. \A i \in PaidRows(b) : \E p \in DOMAIN list :
        ~FreeIn(list[p], b) /\ b[i].what = list[p] /\ b[i].order = NumberIn(p, list, b)
  BY <1>1, <1>2, <1>3, <1>4 DEF Numbered
<1>7. \A p \in DOMAIN list : ~FreeIn(list[p], b) =>
        \E i \in PaidRows(b) : b[i].what = list[p] /\ b[i].order = NumberIn(p, list, b)
  BY <1>1, <1>2, <1>3, <1>4 DEF Numbered
<1> QED
  BY <1>5, <1>6, <1>7 DEF Numbered

\* What a sync writes is in shape, and is what it planned if nobody came in between.
LEMMA WrittenRows ==
  ASSUME IsTable(rows), IsTable(planned.rows), DOMAIN rows \subseteq DOMAIN planned.rows,
         \A i \in DOMAIN rows :
           rows[i].what = planned.read[i].what /\ rows[i].what = planned.rows[i].what,
         NEW w, w = Written
  PROVE  /\ Len(w) \in Nat /\ DOMAIN w = 1..Len(w)
         /\ \A i \in DOMAIN w : IsRow(w[i]) /\ w[i].what \in Starting \cup Range(gained)
         /\ \A i, j \in DOMAIN w : w[i].what = w[j].what /\ w[i].what \in Skill => i = j
         /\ planned.read = rows => SameColumns(planned.rows, w)
<1> DEFINE new == planned.rows
           read == planned.read
<1>1. /\ IsTable(new) /\ IsTable(rows)
      /\ DOMAIN rows \subseteq DOMAIN new
      /\ \A i \in DOMAIN rows : rows[i].what = read[i].what /\ rows[i].what = new[i].what
  OBVIOUS
<1>2. /\ Len(rows) \in Nat /\ DOMAIN rows = 1..Len(rows)
      /\ Len(new) \in Nat /\ DOMAIN new = 1..Len(new)
      /\ \A i \in DOMAIN rows : IsRow(rows[i])
      /\ \A i \in DOMAIN new : IsRow(new[i]) /\ new[i].what \in Starting \cup Range(gained)
      /\ \A i, j \in DOMAIN new : new[i].what = new[j].what /\ new[i].what \in Skill => i = j
  BY <1>1 DEF IsTable, NamesWhatHeHas
<1> DEFINE merged(i) == [column \in DOMAIN rows[i] |->
                           IF new[i][column] = read[i][column] THEN rows[i][column] ELSE new[i][column]]
<1>3. w = [i \in DOMAIN new |-> IF i > Len(rows) THEN new[i] ELSE merged(i)]
  BY DEF Written
<1>4. DOMAIN w = 1..Len(new) /\ Len(w) = Len(new)
  <2>1. DOMAIN w = 1..Len(new)
    BY <1>2, <1>3
  <2>2. w \in Seq({w[i] : i \in 1..Len(new)})
    <3> DEFINE T == {w[i] : i \in 1..Len(new)}
    <3>1. w \in [1..Len(new) -> T]
      BY <1>3, <2>1
    <3> HIDE DEF T
    <3> QED
      BY <1>2, <3>1 DEF T
  <2> QED
    BY <1>2, <2>1, <2>2
<1>5. ASSUME NEW i \in DOMAIN rows
      PROVE  /\ \A c \in Columns : merged(i)[c] \in {rows[i][c], new[i][c]}
             /\ \A c \in Columns : read[i][c] = rows[i][c] => merged(i)[c] = new[i][c]
             /\ Columns \subseteq DOMAIN merged(i)
  <2>1. Columns \subseteq DOMAIN rows[i]
    BY <1>2 DEF IsRow
  <2> QED
    BY <2>1
<1>6. \A i \in DOMAIN w : w[i] = IF i \in DOMAIN rows THEN merged(i) ELSE new[i]
  <2> HIDE DEF merged, new
  <2> QED
    BY <1>2, <1>3
<1> HIDE DEF merged
<1>7. ASSUME NEW i \in DOMAIN w
      PROVE  /\ IsRow(w[i]) /\ w[i].what = new[i].what
             /\ read = rows => /\ w[i].order = new[i].order /\ w[i].removed = new[i].removed
                               /\ w[i].free = new[i].free /\ w[i].confirmed = new[i].confirmed
  <2>0. i \in DOMAIN new /\ IsRow(new[i])
    BY <1>2, <1>4
  <2>1. CASE i \in DOMAIN rows
    <3> DEFINE row == merged(i)
    <3>0. Columns = {"what", "order", "removed", "free", "confirmed"}
      BY DEF Columns
    <3>1. /\ Columns \subseteq DOMAIN row /\ row = w[i]
          /\ row.what \in {rows[i].what, new[i].what} /\ row.order \in {rows[i].order, new[i].order}
          /\ row.removed \in {rows[i].removed, new[i].removed}
          /\ row.free \in {rows[i].free, new[i].free}
          /\ row.confirmed \in {rows[i].confirmed, new[i].confirmed}
      BY <1>5, <1>6, <2>1, <3>0
    <3>2. read = rows => /\ row.order = new[i].order /\ row.removed = new[i].removed
                         /\ row.free = new[i].free /\ row.confirmed = new[i].confirmed
      BY <1>5, <2>1, <3>0
    <3>3. rows[i].what = new[i].what /\ IsRow(rows[i])
      BY <1>1, <1>2, <2>1
    <3> HIDE DEF row, new, read
    <3>4. IsRow(row)
      BY <2>0, <3>1, <3>3 DEF IsRow
    <3> QED
      BY <3>1, <3>2, <3>3, <3>4
  <2>2. CASE i \notin DOMAIN rows
    BY <1>6, <2>0, <2>2
  <2> QED
    BY <2>1, <2>2
<1> HIDE DEF new, read
<1>8. \A i \in DOMAIN w : IsRow(w[i]) /\ w[i].what \in Starting \cup Range(gained)
  BY <1>2, <1>4, <1>7
<1>9. \A i, j \in DOMAIN w : w[i].what = w[j].what /\ w[i].what \in Skill => i = j
  BY <1>2, <1>4, <1>7
<1>10. read = rows => SameColumns(new, w)
  BY <1>2, <1>4, <1>7 DEF SameColumns
<1> QED
  BY <1>2, <1>4, <1>8, <1>9, <1>10 DEF new, read

\* What a sync of BBL writes is such a table.
LEMMA WrittenIsATable ==
  ASSUME IsTable(rows), ImportIsSound, stage = "write", NEW w, w = Written
  PROVE  /\ Len(w) \in Nat /\ DOMAIN w = 1..Len(w)
         /\ \A i \in DOMAIN w : IsRow(w[i]) /\ w[i].what \in Starting \cup Range(gained)
         /\ \A i, j \in DOMAIN w : w[i].what = w[j].what /\ w[i].what \in Skill => i = j
         /\ planned.read = rows => SameColumns(planned.rows, w)
BY WrittenRows DEF ImportIsSound

\* The write of a sync.
LEMMA SyncWritesNInv ==
  ASSUME NInv, PInv', SyncWrites, site = "bbl"
  PROVE  NInv'
<1> USE DEF curator
<1>1. /\ stage = "write" /\ stage' = "settle"
      /\ UNCHANGED <<told, entries, pending, planned, site, gained, award, curation, overlapped>>
      /\ UNCHANGED rows \/ rows' = Written
      /\ planned.rows = planned.read => UNCHANGED rows
      /\ planned.rows # planned.read => rows' = Written
      /\ shown' = IF overlapped THEN Unknown ELSE told
  BY DEF SyncWrites
<1>2. /\ IsTable(rows) /\ ImportIsSound /\ RecordsAreWhole /\ IsReport(gained)
  BY DEF NInv
<1>3. /\ ~overlapped => planned.read = rows
      /\ told # Unknown => told = gained /\ Numbered(planned.rows, told)
  BY <1>1, <1>2 DEF ImportIsSound
<1>4. IsTable(rows)'
  <2>1. CASE UNCHANGED rows
    BY <1>1, <1>2, <2>1, TableStays
  <2>2. CASE rows' = Written
    <3> DEFINE w == Written
    <3>1. /\ Len(w) \in Nat /\ DOMAIN w = 1..Len(w)
          /\ \A i \in DOMAIN w : IsRow(w[i]) /\ w[i].what \in Starting \cup Range(gained)
          /\ \A i, j \in DOMAIN w : w[i].what = w[j].what /\ w[i].what \in Skill => i = j
      BY <1>1, <1>2, WrittenIsATable
    <3>2. rows' = w
      BY <2>2
    <3> HIDE DEF w
    <3> QED
      BY <1>1, <3>1, <3>2 DEF IsTable, NamesWhatHeHas
  <2> QED
    BY <1>1, <2>1, <2>2
<1>5. ASSUME shown' # Unknown PROVE IsReport(shown)' /\ Numbered(rows, shown)'
  <2>1. ~overlapped /\ shown' = gained /\ planned.read = rows /\ Numbered(planned.rows, gained)
    BY <1>1, <1>3, <1>5
  <2>2. CASE planned.rows = planned.read
    BY <1>1, <1>2, <2>1, <2>2
  <2>3. CASE planned.rows # planned.read
    <3> DEFINE w == Written
    <3>1. SameColumns(planned.rows, w)
      BY <1>1, <1>2, <2>1, WrittenIsATable
    <3>2. rows' = w
      BY <1>1, <2>3
    <3> HIDE DEF w
    <3>3. Numbered(w, gained)
      BY <2>1, <3>1, NumberedAlike
    <3> QED
      BY <1>2, <2>1, <3>2, <3>3
  <2> QED
    BY <2>2, <2>3
<1>6. ImportIsSound'
  BY <1>1 DEF ImportIsSound
<1>7. RecordsAreWhole'
  BY <1>1, <1>2 DEF RecordsAreWhole
<1>8. IsReport(gained)'
  BY <1>1, <1>2
<1> QED
  BY <1>1, <1>4, <1>5, <1>6, <1>7, <1>8 DEF NInv

\* The starting skills, each once.
LEMMA StartingIsListed ==
  /\ Cardinality(Starting) \in Nat
  /\ StartingList = [k \in 1..Cardinality(Starting) |-> StartingList[k]]
  /\ \A k \in 1..Cardinality(Starting) : StartingList[k] \in Starting
  /\ \A k, l \in 1..Cardinality(Starting) : StartingList[k] = StartingList[l] => k = l
<1> DEFINE n == Cardinality(Starting)
<1>1. n \in Nat /\ IsFiniteSet(Starting)
  BY SkillsAreSorted, FS_CardinalityType
<1>2. \E f \in [1..n -> Starting] : IsInjective(f)
  <2>1. PICK m \in Nat : ExistsBijection(1..m, Starting)
    BY <1>1, FS_NatBijection
  <2>2. m = n
    BY <2>1, FS_CountingElements
  <2>3. PICK f : f \in Bijection(1..n, Starting)
    BY <2>1, <2>2 DEF ExistsBijection
  <2> QED
    BY <2>3 DEF Bijection, Injection
<1>3. StartingList \in [1..n -> Starting] /\ IsInjective(StartingList)
  BY <1>2 DEF StartingList, SetToSeq
<1> HIDE DEF n
<1>4. StartingList = [k \in 1..n |-> StartingList[k]] /\ \A k \in 1..n : StartingList[k] \in Starting
  BY <1>3
<1>5. \A k, l \in 1..n : StartingList[k] = StartingList[l] => k = l
  BY <1>3 DEF IsInjective
<1> QED
  BY <1>1, <1>4, <1>5 DEF n

\* The page lists the starting skills, then what was gained.
LEMMA PageIsAList ==
  ASSUME IsReport(gained), NEW list, list = StartingList \o gained,
         NEW first, first = Cardinality(Starting)
  PROVE  /\ first \in Nat /\ Len(gained) \in Nat /\ DOMAIN gained = 1..Len(gained)
         /\ DOMAIN list = 1..(first + Len(gained))
         /\ \A x \in 1..first : list[x] \in Starting
         /\ \A p \in DOMAIN gained : list[first + p] = gained[p]
         /\ \A x \in DOMAIN list : list[x] \in Starting \cup Range(gained)
         /\ \A x, y \in DOMAIN list : list[x] = list[y] /\ list[x] \in Skill => x = y
<1>1. /\ first \in Nat
      /\ StartingList = [k \in 1..first |-> StartingList[k]]
      /\ \A k \in 1..first : StartingList[k] \in Starting
      /\ \A k, l \in 1..first : StartingList[k] = StartingList[l] => k = l
  BY StartingIsListed
<1>2. /\ Len(gained) \in Nat /\ DOMAIN gained = 1..Len(gained)
      /\ gained = [k \in 1..Len(gained) |-> gained[k]]
      /\ \A p \in DOMAIN gained : gained[p] \notin Starting /\ gained[p] \in Range(gained)
      /\ \A p, q \in DOMAIN gained : gained[p] = gained[q] /\ gained[p] \in Skill => p = q
  <2>1. \A p \in DOMAIN gained : gained[p] \in Range(gained)
    BY DEF Range
  <2> QED
    BY <2>1 DEF IsReport
<1> DEFINE n == Len(gained)
<1>3. /\ DOMAIN list = 1..(first + n)
      /\ \A x \in 1..first : list[x] = StartingList[x]
      /\ \A p \in 1..n : list[first + p] = gained[p]
  <2> DEFINE s == StartingList
  <2>1. s = [k \in 1..first |-> s[k]]
    BY <1>1
  <2> HIDE DEF s
  <2>2. /\ DOMAIN (s \o gained) = 1..(first + n)
        /\ \A x \in 1..first : (s \o gained)[x] = s[x]
        /\ \A p \in 1..n : (s \o gained)[first + p] = gained[p]
    BY <1>1, <1>2, <2>1, Appended
  <2> QED
    BY <2>2 DEF s
<1> HIDE DEF n
<1>4. ASSUME NEW x \in DOMAIN list
      PROVE  \/ x \in 1..first /\ list[x] = StartingList[x] /\ list[x] \in Starting
             \/ \E p \in DOMAIN gained :
                  x = first + p /\ list[x] = gained[p] /\ list[x] \notin Starting
  <2>1. CASE x \in 1..first
    BY <1>1, <1>3, <2>1
  <2>2. CASE x \notin 1..first
    <3>1. x - first \in DOMAIN gained /\ x = first + (x - first)
      BY <1>1, <1>2, <1>3, <2>2 DEF n
    <3>2. PICK p \in DOMAIN gained : x = first + p
      BY <3>1
    <3>3. list[x] = gained[p]
      BY <1>2, <1>3, <3>2 DEF n
    <3> QED
      BY <1>2, <3>2, <3>3
  <2> QED
    BY <2>1, <2>2
<1>5. \A x \in DOMAIN list : list[x] \in Starting \cup Range(gained)
  BY <1>2, <1>4
<1>6. ASSUME NEW x \in DOMAIN list, NEW y \in DOMAIN list, list[x] = list[y], list[x] \in Skill
      PROVE  x = y
  <2>1. CASE list[x] \in Starting
    <3>1. x \in 1..first /\ list[x] = StartingList[x]
      BY <1>4, <2>1
    <3>2. y \in 1..first /\ list[y] = StartingList[y]
      BY <1>4, <1>6, <2>1
    <3>3. StartingList[x] = StartingList[y]
      BY <1>6, <3>1, <3>2
    <3> QED
      BY <1>1, <3>1, <3>2, <3>3
  <2>2. CASE list[x] \notin Starting
    <3>1. PICK p \in DOMAIN gained : x = first + p /\ list[x] = gained[p]
      BY <1>4, <2>2
    <3>2. PICK q \in DOMAIN gained : y = first + q /\ list[y] = gained[q]
      BY <1>4, <1>6, <2>2
    <3>3. p = q
      BY <1>2, <1>6, <3>1, <3>2
    <3> QED
      BY <3>1, <3>2, <3>3
  <2> QED
    BY <2>1, <2>2
<1> QED
  BY <1>1, <1>2, <1>3, <1>4, <1>5, <1>6 DEF n

\* The entries the import makes of the page.
IsScrape(sent, kept, list) ==
  sent = [k \in DOMAIN kept |->
            LET x == kept[k] IN
            [what |-> list[x], confirmed |-> list[x] \notin Starting,
             order |-> IF list[x] \in Starting THEN 0 ELSE x - Cardinality(Starting)]]

IsKept(kept, list, out) == kept = Ascending({x \in DOMAIN list : list[x] \notin out})

\* They are entries of what he has, and complete when nothing is left out.
LEMMA ScrapedEntries ==
  ASSUME IsReport(gained), NEW list, list = StartingList \o gained, NEW out,
         NEW kept, IsKept(kept, list, out), NEW sent, IsScrape(sent, kept, list)
  PROVE  IsEntryList(sent) /\ (out = {} => IsComplete(sent))
<1> DEFINE first == Cardinality(Starting)
           K == {x \in DOMAIN list : list[x] \notin out}
           n == Cardinality(K)
           entry(x) == [what |-> list[x], confirmed |-> list[x] \notin Starting,
                        order |-> IF list[x] \in Starting THEN 0 ELSE x - first]
<1>1. /\ first \in Nat /\ Len(gained) \in Nat /\ DOMAIN gained = 1..Len(gained)
      /\ DOMAIN list = 1..(first + Len(gained))
      /\ \A x \in 1..first : list[x] \in Starting
      /\ \A p \in DOMAIN gained : list[first + p] = gained[p]
      /\ \A x \in DOMAIN list : list[x] \in Starting \cup Range(gained)
      /\ \A x, y \in DOMAIN list : list[x] = list[y] /\ list[x] \in Skill => x = y
  BY PageIsAList
<1>2. IsFiniteSet(K) /\ K \subseteq Nat /\ K \subseteq DOMAIN list /\ (out = {} => K = DOMAIN list)
  <2>1. IsFiniteSet(1..(first + Len(gained)))
    BY <1>1, FS_Interval
  <2>2. K \in SUBSET (1..(first + Len(gained)))
    BY <1>1
  <2>3. out = {} => K = DOMAIN list
    OBVIOUS
  <2>4. K \subseteq Nat /\ K \subseteq DOMAIN list
    BY <1>1
  <2> HIDE DEF K
  <2>5. IsFiniteSet(K)
    BY <2>1, <2>2, FS_Subset
  <2> QED
    BY <2>3, <2>4, <2>5
<1>3. kept = Ascending(K)
  BY DEF IsKept
<1> HIDE DEF first, K
<1>4. /\ n \in Nat
      /\ kept = [k \in 1..n |-> kept[k]]
      /\ \A k \in 1..n : kept[k] \in K /\ BelowIn(K, kept[k]) = k - 1
      /\ \A x \in K : \E k \in 1..n : kept[k] = x
  <2> DEFINE a == Ascending(K)
  <2>1. /\ n \in Nat
        /\ a = [k \in 1..n |-> a[k]]
        /\ \A k \in 1..n : a[k] \in K /\ BelowIn(K, a[k]) = k - 1
        /\ \A x \in K : \E k \in 1..n : a[k] = x
    BY <1>2, AscendingListsAll DEF BelowIn
  <2> HIDE DEF a
  <2> QED
    BY <1>3, <2>1 DEF a
<1>5. DOMAIN kept = 1..n
  <2> HIDE DEF n
  <2> QED
    BY <1>4
<1> HIDE DEF n
<1>6. sent = [k \in 1..n |-> entry(kept[k])]
  BY <1>5 DEF first, IsScrape
<1>7. \A x : /\ entry(x).what = list[x] /\ entry(x).confirmed = (list[x] \notin Starting)
             /\ entry(x).order = IF list[x] \in Starting THEN 0 ELSE x - first
             /\ DOMAIN entry(x) = EntryColumns
  BY DEF EntryColumns
<1> HIDE DEF entry
<1>8. /\ DOMAIN sent = 1..n /\ Len(sent) = n
      /\ \A k \in 1..n : sent[k] = entry(kept[k])
  <2>1. DOMAIN sent = 1..n /\ \A k \in 1..n : sent[k] = entry(kept[k])
    BY <1>6
  <2>2. sent \in Seq({entry(kept[k]) : k \in 1..n})
    BY <1>4, <1>6
  <2> QED
    BY <1>4, <2>1, <2>2
<1>9. \A k, l \in 1..n : kept[k] = kept[l] => k = l
  <2> SUFFICES ASSUME NEW k \in 1..n, NEW l \in 1..n, kept[k] = kept[l] PROVE k = l
    OBVIOUS
  <2>1. k - 1 = l - 1
    BY <1>4
  <2> QED
    BY <1>4, <2>1
<1>10. NamesWhatHeHas(sent)
  <2>1. \A k \in 1..n : sent[k].what = list[kept[k]] /\ kept[k] \in DOMAIN list
    BY <1>2, <1>4, <1>7, <1>8
  <2>2. \A k \in DOMAIN sent : sent[k].what \in Starting \cup Range(gained)
    BY <1>1, <1>8, <2>1
  <2>3. ASSUME NEW k \in DOMAIN sent, NEW l \in DOMAIN sent,
               sent[k].what = sent[l].what, sent[k].what \in Skill
        PROVE  k = l
    <3>1. k \in 1..n /\ l \in 1..n
      BY <1>8
    <3> DEFINE x == kept[k]
               y == kept[l]
    <3>0. /\ x \in DOMAIN list /\ y \in DOMAIN list
          /\ sent[k].what = list[x] /\ sent[l].what = list[y]
      BY <2>1, <3>1
    <3> HIDE DEF x, y
    <3>2. x = y
      BY <1>1, <2>3, <3>0
    <3> USE DEF x, y
    <3> QED
      BY <1>9, <3>1, <3>2
  <2> QED
    BY <1>4, <1>8, <2>2, <2>3 DEF NamesWhatHeHas
<1>11. \A k \in DOMAIN sent : IsEntry(sent[k])
  <2> SUFFICES ASSUME NEW k \in 1..n PROVE IsEntry(entry(kept[k]))
    BY <1>8
  <2>1. kept[k] \in Nat
    BY <1>2, <1>4
  <2> DEFINE x == kept[k]
  <2>2. entry(x).order = (IF list[x] \in Starting THEN 0 ELSE x - first) /\ x \in Nat /\ first \in Nat
    BY <1>1, <1>7, <2>1
  <2>3. entry(x).confirmed = (list[x] \notin Starting) /\ DOMAIN entry(x) = EntryColumns
    BY <1>7
  <2> HIDE DEF x
  <2>4. entry(x).order \in Int
    BY <2>2
  <2>5. entry(x).confirmed \in BOOLEAN
    BY <2>3
  <2> QED
    BY <2>3, <2>4, <2>5 DEF IsEntry, x
<1>12. ASSUME out = {} PROVE IsComplete(sent)
  <2> DEFINE m == first + Len(gained)
  <2>1. K = 1..m /\ m \in Nat
    BY <1>1, <1>2, <1>12
  <2>2. n = m
    BY <2>1, FS_Interval DEF n
  <2>3. ASSUME NEW x \in 1..m PROVE BelowIn(K, x) = x - 1
    <3>1. {s \in K : s < x} = 1..(x - 1)
      BY <2>1
    <3>2. x \in Int /\ x >= 1
      BY <2>1
    <3>3. Cardinality(1..(x - 1)) = IF 1 > x - 1 THEN 0 ELSE (x - 1) - 1 + 1
      BY <3>2, FS_Interval
    <3>4. Cardinality(1..(x - 1)) = x - 1
      BY <3>2, <3>3
    <3> QED
      BY <3>1, <3>4 DEF BelowIn
  <2>4. \A k \in 1..m : kept[k] = k
    <3> SUFFICES ASSUME NEW k \in 1..m PROVE kept[k] = k
      OBVIOUS
    <3>1. kept[k] \in 1..m /\ BelowIn(K, kept[k]) = k - 1
      BY <1>4, <2>1, <2>2
    <3>2. kept[k] - 1 = k - 1
      BY <2>3, <3>1
    <3> QED
      BY <2>1, <3>1, <3>2
  <2>5. \A k \in 1..m : sent[k] = entry(k)
    BY <1>8, <2>2, <2>4
  <2>6. \A x \in 1..first : x \in 1..m
    BY <1>1
  <2>7. \A p \in DOMAIN gained :
          first + p \in 1..m /\ gained[p] \notin Starting /\ p \in Nat /\ first \in Nat
    BY <1>1 DEF IsReport
  <2>8. ASSUME NEW x \in 1..first PROVE sent[x].what \in Starting /\ ~sent[x].confirmed
    <3>1. sent[x] = entry(x) /\ list[x] \in Starting
      BY <1>1, <2>5, <2>6
    <3> QED
      BY <1>7, <3>1
  <2>9. \A p \in DOMAIN gained :
          sent[first + p].what = gained[p] /\ sent[first + p].order = p /\ sent[first + p].confirmed
    <3> SUFFICES ASSUME NEW p \in DOMAIN gained
                 PROVE  sent[first + p].what = gained[p] /\ sent[first + p].order = p
                        /\ sent[first + p].confirmed
      OBVIOUS
    <3> DEFINE x == first + p
    <3>0. x \in 1..m /\ gained[p] \notin Starting /\ p \in Nat /\ first \in Nat
      <4> HIDE DEF m
      <4> QED
        BY <2>7
    <3>4. x - first = p
      <4> HIDE DEF m
      <4> QED
        BY <3>0
    <3>2. sent[x] = entry(x)
      BY <2>5, <3>0
    <3>3. list[x] = gained[p]
      BY <1>1, Zenon
    <3>1. sent[x] = entry(x) /\ list[x] = gained[p] /\ list[x] \notin Starting /\ x - first = p
      BY <3>0, <3>2, <3>3, <3>4
    <3> HIDE DEF x
    <3> QED
      BY <1>7, <3>1 DEF x
  <2>10. Len(sent) = first + Len(gained)
    BY <1>8, <2>2
  <2> QED
    BY <2>8, <2>9, <2>10 DEF IsComplete, first
<1> QED
  BY <1>10, <1>11, <1>12 DEF IsEntryList

\* A skill that is gained is new to him.
LEMMA GainedIsReport ==
  ASSUME IsReport(gained), Gain
  PROVE  IsReport(gained)' /\ Range(gained) \subseteq Range(gained')
<1>1. PICK what \in (Skill \ (Starting \cup Range(gained))) \cup Increase :
        gained' = Append(gained, what)
  BY DEF Gain
<1>2. /\ gained \in Seq(Skill \cup Increase) /\ what \in Skill \cup Increase
      /\ what \notin Starting
  BY KindsDiffer, SkillsAreSorted DEF IsReport
<1>3. /\ gained' \in Seq(Skill \cup Increase) /\ Len(gained') = Len(gained) + 1
      /\ \A p \in DOMAIN gained : gained'[p] = gained[p]
      /\ gained'[Len(gained) + 1] = what
      /\ DOMAIN gained = 1..Len(gained) /\ Len(gained) \in Nat
      /\ DOMAIN gained' = 1..(Len(gained) + 1)
  BY <1>1, <1>2
<1>4. \A p \in DOMAIN gained' : p \in DOMAIN gained \/ p = Len(gained) + 1
  BY <1>3
<1>5. Range(gained) \subseteq Range(gained')
  BY <1>3 DEF Range
<1>6. \A p \in DOMAIN gained : gained[p] \in Skill => gained[p] # what
  BY <1>1, KindsDiffer DEF Range
<1>7. \A p \in DOMAIN gained' : gained'[p] \notin Starting
  BY <1>1, <1>2, <1>3, <1>4 DEF IsReport
<1>8. \A p, q \in DOMAIN gained' : gained'[p] = gained'[q] /\ gained'[p] \in Skill => p = q
  BY <1>1, <1>3, <1>4, <1>6 DEF IsReport
<1>9. IsReport(gained)'
  BY <1>3, <1>7, <1>8 DEF IsReport
<1> QED
  BY <1>5, <1>9

\* The importer's steps that leave the store alone.
LEMMA PreparingNInv ==
  ASSUME NInv, PInv', site = "bbl",
         Gain \/ BblScrape \/ SyncReadsAward \/ SyncPlans
  PROVE  NInv'
<1> USE DEF advStore, importer, curator, advHistory
<1>1. /\ IsTable(rows) /\ ImportIsSound /\ RecordsAreWhole /\ IsReport(gained)
  BY DEF NInv
<1>2. CASE Gain
  <2>1. IsReport(gained)' /\ Range(gained) \subseteq Range(gained')
    BY <1>1, <1>2, GainedIsReport
  <2>2. /\ UNCHANGED <<site, rows, award, shown, stage, told, entries, planned, curation>>
        /\ stage = "idle"
    BY <1>2 DEF Gain, Busy
  <2>3. ImportIsSound' /\ RecordsAreWhole'
    BY <1>1, <2>2 DEF ImportIsSound, RecordsAreWhole
  <2> QED
    BY <2>1, <2>2, <2>3, StoreStays
<1>3. CASE BblScrape
  <2> DEFINE list == StartingList \o gained
  <2>1. PICK out \in SUBSET (Skill \cap Range(gained)) :
          /\ told' = IF out = {} THEN gained ELSE Unknown
          /\ entries' = LET kept == Ascending({x \in DOMAIN list : list[x] \notin out}) IN
               [k \in DOMAIN kept |->
                  LET x == kept[k] IN
                  [what |-> list[x], confirmed |-> list[x] \notin Starting,
                   order |-> IF list[x] \in Starting THEN 0 ELSE x - Cardinality(Starting)]]
    BY <1>3 DEF BblScrape
  <2>2. /\ UNCHANGED <<site, gained, rows, award, shown, planned, curation>>
        /\ stage' = "sync"
    BY <1>3 DEF BblScrape
  <2> DEFINE kept == Ascending({x \in DOMAIN list : list[x] \notin out})
             sent == [k \in DOMAIN kept |->
                  LET x == kept[k] IN
                  [what |-> list[x], confirmed |-> list[x] \notin Starting,
                   order |-> IF list[x] \in Starting THEN 0 ELSE x - Cardinality(Starting)]]
  <2>3. IsKept(kept, list, out) /\ IsScrape(sent, kept, list) /\ entries' = sent
    BY <2>1 DEF IsKept, IsScrape
  <2> HIDE DEF kept, sent
  <2>4. IsEntryList(sent) /\ (out = {} => IsComplete(sent))
    BY <1>1, <2>3, ScrapedEntries
  <2> HIDE DEF list
  <2>5. IsEntryList(entries)'
    BY <2>2, <2>3, <2>4 DEF IsEntryList, NamesWhatHeHas
  <2>6. told' # Unknown => out = {} /\ told' = gained
    BY <2>1
  <2>7. told' # Unknown => IsComplete(entries)'
    BY <2>2, <2>3, <2>4, <2>6 DEF IsComplete
  <2>8. ImportIsSound' /\ RecordsAreWhole'
    BY <1>1, <2>2, <2>5, <2>6, <2>7 DEF ImportIsSound, RecordsAreWhole
  <2>9. IsReport(gained)'
    BY <1>1, <2>2
  <2> QED
    BY <2>2, <2>8, <2>9, StoreStays
<1>4. CASE SyncReadsAward
  <2>1. /\ UNCHANGED <<site, gained, rows, award, shown, told, entries, curation>>
        /\ stage = "sync" /\ stage' = "granted" /\ DOMAIN planned' = DOMAIN planned
    BY <1>4 DEF SyncReadsAward
  <2>2. IsEntryList(entries) /\ (told # Unknown => told = gained /\ IsComplete(entries))
    BY <1>1, <2>1 DEF ImportIsSound
  <2>3. ImportIsSound' /\ RecordsAreWhole'
    BY <1>1, <2>1, <2>2, EntriesStay DEF ImportIsSound, RecordsAreWhole
  <2>4. IsReport(gained)'
    BY <1>1, <2>1
  <2> QED
    BY <2>1, <2>3, <2>4, StoreStays
<1>5. CASE SyncPlans
  <2> DEFINE rs == PlannedRows(entries, rows, planned.granted)
  <2>1. /\ UNCHANGED <<site, gained, rows, award, shown, told, entries, curation>>
        /\ stage = "granted" /\ stage' = "write"
        /\ planned' = [planned EXCEPT !.read = rows, !.rows = rs]
    BY <1>5 DEF SyncPlans
  <2>2. IsEntryList(entries) /\ (told # Unknown => told = gained /\ IsComplete(entries))
    BY <1>1, <2>1 DEF ImportIsSound
  <2>3. /\ IsTable(rs) /\ DOMAIN rows \subseteq DOMAIN rs
        /\ \A i \in DOMAIN rows : rs[i].what = rows[i].what
    BY <1>1, <2>2, PlannedIsATable
  <2>4. told # Unknown => Numbered(rs, gained)
    BY <1>1, <2>2, CompletePlanIsNumbered
  <2> HIDE DEF rs
  <2>5. planned'.read = rows /\ planned'.rows = rs /\ DOMAIN planned' = DOMAIN planned
    BY <1>1, <2>1 DEF RecordsAreWhole
  <2>6. IsTable(planned.rows)' /\ IsTable(planned.read)'
    BY <1>1, <2>1, <2>3, <2>5 DEF IsTable, NamesWhatHeHas
  <2>7. told' # Unknown => Numbered(planned.rows, told)'
    BY <2>1, <2>2, <2>4, <2>5
  <2>8. told' # Unknown => told' = gained'
    BY <2>1, <2>2
  <2>9. ImportIsSound'
    BY <2>1, <2>3, <2>5, <2>6, <2>7, <2>8 DEF ImportIsSound
  <2>10. RecordsAreWhole'
    BY <1>1, <2>1, <2>5 DEF RecordsAreWhole
  <2>11. IsReport(gained)'
    BY <1>1, <2>1
  <2> QED
    BY <2>1, <2>9, <2>10, <2>11, StoreStays
<1> QED
  BY <1>2, <1>3, <1>4, <1>5

\* The steps that end an import.
LEMMA EndingNInv ==
  ASSUME NInv, PInv', site = "bbl", ImportFails \/ Settles \/ StoresUnspent
  PROVE  NInv'
<1> USE DEF advStore, importer, curator, advHistory
<1>1. ImportIsSound /\ RecordsAreWhole /\ IsReport(gained)
  BY DEF NInv
<1>2. UNCHANGED <<site, gained, rows, award, shown, curation>>
  BY DEF ImportFails, Settles, StoresUnspent, EndImport
<1>3. stage' \in {"idle", "settle", "price"}
  BY DEF ImportFails, Settles, StoresUnspent, EndImport
<1>4. DOMAIN planned' = DOMAIN planned \/ DOMAIN planned' = DOMAIN NotPlanned
  BY DEF ImportFails, Settles, StoresUnspent, EndImport
<1>5. {"read", "granted", "rows", "count"} \subseteq DOMAIN NotPlanned
  BY DEF NotPlanned
<1>6. ImportIsSound'
  BY <1>3 DEF ImportIsSound
<1>7. RecordsAreWhole'
  BY <1>1, <1>2, <1>4, <1>5 DEF RecordsAreWhole
<1>8. IsReport(gained)'
  BY <1>1, <1>2
<1> QED
  BY <1>2, <1>6, <1>7, <1>8, StoreStays

\* A new award changes no row.
LEMMA CurateNInv ==
  ASSUME NInv, PInv', site = "bbl", Curate
  PROVE  NInv'
<1> USE DEF importer
<1>1. /\ IsTable(rows) /\ ImportIsSound /\ RecordsAreWhole /\ IsReport(gained)
  BY DEF NInv
<1>2. /\ UNCHANGED <<site, gained, rows, shown, stage, told, entries, planned>>
      /\ award' \in (Skill \ Starting) \cup {Unknown}
      /\ overlapped' = Busy
      /\ {"step", "old", "count"} \subseteq DOMAIN curation'
  BY DEF Curate, Idle
<1>3. stage = "write" => overlapped'
  BY <1>2 DEF Busy
<1>4. ImportIsSound'
  BY <1>1, <1>2, <1>3, SoundStays
<1>5. RecordsAreWhole'
  BY <1>1, <1>2 DEF RecordsAreWhole
<1>6. IsTable(rows)'
  BY <1>1, <1>2, TableStays
<1>7. IsReport(gained)' /\ (shown' # Unknown => IsReport(shown)' /\ Numbered(rows, shown)')
  BY <1>1, <1>2 DEF NInv
<1> QED
  BY <1>2, <1>4, <1>5, <1>6, <1>7 DEF NInv

\* The curator's steps that leave the rows alone.
LEMMA PricingNInv ==
  ASSUME NInv, PInv', site = "bbl", Refresh \/ StoresRefreshed \/ CurationFails
  PROVE  NInv'
<1> USE DEF advStore, importer, advHistory
<1>1. /\ ImportIsSound /\ RecordsAreWhole /\ IsReport(gained)
  BY DEF NInv
<1>2. /\ UNCHANGED <<site, gained, rows, award, shown, stage, told, entries, planned, overlapped>>
  BY DEF Refresh, StoresRefreshed, CurationFails
<1>3. DOMAIN curation' = DOMAIN curation \/ DOMAIN curation' = DOMAIN Idle
  BY DEF Refresh, StoresRefreshed, CurationFails, EndCuration
<1>4. ImportIsSound'
  BY <1>1, <1>2, SoundStays
<1>5. RecordsAreWhole'
  BY <1>1, <1>2, <1>3 DEF RecordsAreWhole, Idle
<1>6. IsReport(gained)'
  BY <1>1, <1>2
<1> QED
  BY <1>2, <1>4, <1>5, <1>6, StoreStays

\* An unmarked skill ends what the report said of the rows.
LEMMA UnmarkNInv ==
  ASSUME NInv, PInv', site = "bbl", Unmark
  PROVE  NInv'
<1> USE DEF importer
<1>1. /\ IsTable(rows) /\ ImportIsSound /\ RecordsAreWhole /\ IsReport(gained)
  BY DEF NInv
<1>2. /\ UNCHANGED <<site, gained, award, stage, told, entries, planned, overlapped>>
      /\ Curating /\ DOMAIN curation' = DOMAIN curation
  BY DEF Unmark, At, Curating
<1> DEFINE freed == IF curation.old \in Hatred \/ curation.old = award THEN {}
                    ELSE {i \in DOMAIN rows : rows[i].what = curation.old /\ rows[i].free}
<1>3.   \/ UNCHANGED <<rows, shown>>
        \/ /\ rows' = [i \in DOMAIN rows |-> [rows[i] EXCEPT !.free = @ /\ i \notin freed]]
           /\ shown' = Unknown
  <2>1. \/ UNCHANGED <<rows, shown, whole, exact>>
        \/ /\ rows' = [i \in DOMAIN rows |-> [rows[i] EXCEPT !.free = @ /\ i \notin freed]]
           /\ shown' = Unknown /\ whole' = FALSE /\ exact' = FALSE
    BY DEF Unmark
  <2> QED
    BY <2>1
<1> HIDE DEF freed
<1>4. RecordsAreWhole' /\ IsReport(gained)'
  BY <1>1, <1>2 DEF RecordsAreWhole
<1>5. Busy => overlapped
  BY <1>2 DEF NInv, PInv, OverlapIsKnown
<1>6. stage = "write" => overlapped
  BY <1>5 DEF Busy
<1>7. CASE UNCHANGED <<rows, shown>>
  <2>1. ImportIsSound'
    BY <1>1, <1>2, <1>6, <1>7, SoundStays
  <2> QED
    BY <1>2, <1>4, <1>7, <2>1, StoreStays
<1>8. CASE /\ rows' = [i \in DOMAIN rows |-> [rows[i] EXCEPT !.free = @ /\ i \notin freed]]
           /\ shown' = Unknown
  <2>1. \A i \in DOMAIN rows : IsRow(rows[i])
    BY <1>1 DEF IsTable
  <2>2. ASSUME NEW i \in DOMAIN rows
        PROVE  IsRow(rows'[i]) /\ rows'[i].what = rows[i].what
    <3>1. rows'[i] = [rows[i] EXCEPT !.free = rows[i].free /\ i \notin freed]
      BY <1>8
    <3>2. (rows[i].free /\ i \notin freed) \in BOOLEAN
      BY <2>1 DEF IsRow
    <3> DEFINE row == rows[i]
               free == row.free /\ i \notin freed
    <3>3. rows'[i] = [row EXCEPT !.free = free] /\ free \in BOOLEAN /\ IsRow(row)
          /\ (free => row.free)
      BY <2>1, <3>1, <3>2
    <3> HIDE DEF row, free
    <3>4. IsRow([row EXCEPT !.free = free]) /\ [row EXCEPT !.free = free].what = row.what
      BY <3>3 DEF IsRow, Columns
    <3> QED
      BY <3>3, <3>4 DEF row
  <2>3. DOMAIN rows' = DOMAIN rows /\ Len(rows') = Len(rows)
    <3>1. DOMAIN rows' = 1..Len(rows) /\ Len(rows) \in Nat
      BY <1>1, <1>8 DEF IsTable, NamesWhatHeHas
    <3> DEFINE r(i) == [rows[i] EXCEPT !.free = @ /\ i \notin freed]
    <3>2. rows' = [i \in 1..Len(rows) |-> r(i)]
      BY <1>1, <1>8 DEF IsTable, NamesWhatHeHas
    <3> HIDE DEF r
    <3>3. rows' \in Seq({r(i) : i \in 1..Len(rows)})
      BY <3>1, <3>2
    <3> QED
      BY <1>1, <3>1, <3>3 DEF IsTable, NamesWhatHeHas
  <2>4. IsTable(rows)'
    BY <1>1, <1>2, <2>2, <2>3 DEF IsTable, NamesWhatHeHas
  <2>5. ImportIsSound'
    BY <1>1, <1>2, <1>6, <2>2, <2>3, SoundStays
  <2> QED
    BY <1>2, <1>4, <1>8, <2>4, <2>5 DEF NInv
<1> QED
  BY <1>3, <1>7, <1>8

\* The numbers of a report grow, and are as many as the advancements up to there.
LEMMA NumbersInOrder ==
  ASSUME NEW list, IsReport(list), NEW table
  PROVE  /\ Len(list) \in Nat /\ DOMAIN list = 1..Len(list)
         /\ \A p \in DOMAIN list : NumberIn(p, list, table) \in Nat
         /\ \A p, q \in DOMAIN list : p < q /\ ~FreeIn(list[q], table) =>
              NumberIn(p, list, table) < NumberIn(q, list, table)
<1> DEFINE free == {q \in DOMAIN list : FreeIn(list[q], table)}
<1>1. Len(list) \in Nat /\ DOMAIN list = 1..Len(list)
  BY DEF IsReport
<1>2. ASSUME NEW p \in DOMAIN list
      PROVE  p \in Nat /\ NumberIn(p, list, table) = Cardinality({q \in 1..p : q \notin free})
  <2>1. p \in Nat /\ 1..p \subseteq DOMAIN list
    BY <1>1
  <2>2. {q \in 1..p : ~FreeIn(list[q], table)} = {q \in 1..p : q \notin free}
    BY <2>1
  <2> QED
    BY <2>1, <2>2 DEF NumberIn
<1>3. ASSUME NEW p \in DOMAIN list PROVE NumberIn(p, list, table) \in Nat
  <2>1. p \in Nat /\ NumberIn(p, list, table) = Cardinality({q \in 1..p : q \notin free})
    BY <1>2
  <2> HIDE DEF free
  <2> QED
    BY <2>1, NumbersGrow
<1>4. ASSUME NEW p \in DOMAIN list, NEW q \in DOMAIN list, p < q, ~FreeIn(list[q], table)
      PROVE  NumberIn(p, list, table) < NumberIn(q, list, table)
  <2>1. /\ p \in Nat /\ NumberIn(p, list, table) = Cardinality({k \in 1..p : k \notin free})
        /\ q \in Nat /\ NumberIn(q, list, table) = Cardinality({k \in 1..q : k \notin free})
    BY <1>2
  <2>2. q \notin free
    BY <1>4
  <2> HIDE DEF free
  <2>3. Cardinality({k \in 1..p : k \notin free}) < Cardinality({k \in 1..q : k \notin free})
    BY <1>4, <2>1, <2>2, NumbersGrow
  <2> QED
    BY <2>1, <2>3
<1> QED
  BY <1>1, <1>3, <1>4

\* Row i0 becomes free and the confirmed rows above it move down by one.
ClosesSlotOf(i0, table, new) ==
  /\ DOMAIN new = DOMAIN table
  /\ new[i0].what = table[i0].what /\ new[i0].free
  /\ \A i \in DOMAIN table \ {i0} :
       /\ new[i].what = table[i].what /\ new[i].free = table[i].free
       /\ new[i].removed = table[i].removed /\ new[i].confirmed = table[i].confirmed
       /\ i \in PaidRows(table) /\ table[i].confirmed =>
            new[i].order = table[i].order - (IF table[i0].order < table[i].order THEN 1 ELSE 0)

\* An advancement that becomes free leaves the rest numbered.
LEMMA ClosedSlotIsNumbered ==
  ASSUME NEW list, IsReport(list), NEW table, IsTable(table), Numbered(table, list),
         NEW i0 \in DOMAIN table, table[i0].what \in Skill \ Starting, ~table[i0].free,
         NEW new, ClosesSlotOf(i0, table, new)
  PROVE  Numbered(new, list)
<1> DEFINE what == table[i0].what
           number(p) == NumberIn(p, list, table)
           closed(p) == NumberIn(p, list, new)
<1>1. /\ Len(list) \in Nat /\ DOMAIN list = 1..Len(list)
      /\ \A p \in DOMAIN list : number(p) \in Nat /\ closed(p) \in Nat
      /\ \A p, q \in DOMAIN list : p < q /\ ~FreeIn(list[q], table) => number(p) < number(q)
      /\ \A p, q \in DOMAIN list : p < q /\ ~FreeIn(list[q], new) => closed(p) < closed(q)
  BY NumbersInOrder
<1>2. /\ \A i \in DOMAIN table : IsRow(table[i])
      /\ \A i, j \in DOMAIN table : table[i].what = table[j].what /\ table[i].what \in Skill => i = j
  BY DEF IsTable, NamesWhatHeHas
<1>3. i0 \in PaidRows(table)
  BY <1>2 DEF PaidRows, Paid, IsRow
<1>4. PICK p0 \in DOMAIN list : ~FreeIn(list[p0], table) /\ what = list[p0] /\ table[i0].order = number(p0)
  BY <1>3 DEF Numbered
<1>5. \A p \in DOMAIN list : list[p] = what => p = p0
  BY <1>4 DEF IsReport
<1>6. PaidRows(new) = PaidRows(table) \ {i0}
  BY DEF ClosesSlotOf, PaidRows, Paid
<1>7. \A w : FreeIn(w, new) <=> FreeIn(w, table) \/ w = what
  BY DEF ClosesSlotOf, FreeIn
<1>8. ASSUME NEW p \in DOMAIN list
      PROVE  closed(p) = number(p) - (IF p0 <= p THEN 1 ELSE 0)
  <2> DEFINE A == {q \in 1..p : ~FreeIn(list[q], table)}
             B == {q \in 1..p : ~FreeIn(list[q], new)}
  <2>1. p \in Nat /\ p0 \in Nat /\ p0 >= 1 /\ 1..p \subseteq DOMAIN list
    BY <1>1
  <2>2. B = A \ {p0}
    BY <1>4, <1>5, <1>7, <2>1
  <2>3. IsFiniteSet(A)
    <3>1. IsFiniteSet(1..p) /\ A \in SUBSET (1..p)
      BY <2>1, FS_Interval
    <3> HIDE DEF A
    <3> QED
      BY <3>1, FS_Subset
  <2>4. p0 \in A <=> p0 <= p
    BY <1>4, <2>1
  <2>5. number(p) = Cardinality(A) /\ closed(p) = Cardinality(B)
    BY DEF NumberIn
  <2> HIDE DEF A, B, number, closed
  <2>6. Cardinality(A \ {p0}) = IF p0 \in A THEN Cardinality(A) - 1 ELSE Cardinality(A)
    BY <2>3, FS_RemoveElement
  <2>7. Cardinality(A) \in Int
    BY <2>3, FS_CardinalityType
  <2> QED
    BY <2>2, <2>4, <2>5, <2>6, <2>7
<1> HIDE DEF number, closed
<1>9. ASSUME NEW p \in DOMAIN list, p # p0, ~FreeIn(list[p], table)
      PROVE  closed(p) = number(p) - (IF table[i0].order < number(p) THEN 1 ELSE 0)
  <2>1. p \in Nat /\ p0 \in Nat /\ number(p) \in Nat /\ number(p0) \in Nat
    BY <1>1
  <2>2. CASE p0 < p
    <3>1. number(p0) < number(p)
      BY <1>1, <1>9, <2>2
    <3> QED
      BY <1>4, <1>8, <2>1, <2>2, <3>1
  <2>3. CASE p < p0
    <3>1. number(p) < number(p0)
      BY <1>1, <1>4, <2>3
    <3> QED
      BY <1>4, <1>8, <2>1, <2>3, <3>1
  <2> QED
    BY <1>9, <2>1, <2>2, <2>3
<1>10. ASSUME NEW i \in PaidRows(new)
       PROVE  \E p \in DOMAIN list :
                /\ ~FreeIn(list[p], new) /\ table[i].order = number(p)
                /\ new[i].what = list[p] /\ new[i].order = closed(p) /\ new[i].confirmed
  <2>1. i \in PaidRows(table) /\ i \in DOMAIN table \ {i0}
    BY <1>6 DEF PaidRows
  <2>2. PICK p \in DOMAIN list :
          ~FreeIn(list[p], table) /\ table[i].what = list[p] /\ table[i].order = number(p)
    BY <2>1 DEF Numbered, number
  <2>3. list[p] # what /\ p # p0
    BY <1>2, <1>4, <2>1, <2>2
  <2>4. table[i].confirmed
    BY <2>1 DEF Numbered
  <2>5. /\ new[i].what = table[i].what /\ new[i].confirmed
        /\ new[i].order = number(p) - (IF table[i0].order < number(p) THEN 1 ELSE 0)
    BY <2>1, <2>2, <2>4 DEF ClosesSlotOf
  <2>6. new[i].order = closed(p)
    BY <1>9, <2>2, <2>3, <2>5
  <2> QED
    BY <1>7, <2>2, <2>3, <2>5, <2>6
<1>11. \A i, j \in PaidRows(new) : new[i].order = new[j].order => i = j
  <2> SUFFICES ASSUME NEW i \in PaidRows(new), NEW j \in PaidRows(new), new[i].order = new[j].order
               PROVE  i = j
    OBVIOUS
  <2>1. PICK p \in DOMAIN list :
          ~FreeIn(list[p], new) /\ table[i].order = number(p) /\ new[i].order = closed(p)
    BY <1>10
  <2>2. PICK q \in DOMAIN list :
          ~FreeIn(list[q], new) /\ table[j].order = number(q) /\ new[j].order = closed(q)
    BY <1>10
  <2>3. p = q
    <3>0. p \in Nat /\ q \in Nat
      BY <1>1
    <3>1. p \in Nat /\ q \in Nat /\ closed(p) \in Nat /\ closed(p) = closed(q)
      BY <1>1, <2>1, <2>2, <3>0
    <3>2. ~(p < q) /\ ~(q < p)
      BY <1>1, <2>1, <2>2, <3>1
    <3> QED
      BY <3>1, <3>2
  <2> QED
    BY <1>6, <2>1, <2>2, <2>3 DEF Numbered
<1>12. ASSUME NEW p \in DOMAIN list, ~FreeIn(list[p], new)
       PROVE  \E i \in PaidRows(new) : new[i].what = list[p] /\ new[i].order = closed(p)
  <2>1. ~FreeIn(list[p], table) /\ list[p] # what /\ p # p0
    BY <1>4, <1>7, <1>12
  <2>2. PICK i \in PaidRows(table) : table[i].what = list[p] /\ table[i].order = number(p)
    BY <2>1 DEF Numbered, number
  <2>3. i \in DOMAIN table \ {i0} /\ i \in PaidRows(new)
    BY <1>6, <2>1, <2>2 DEF PaidRows
  <2>4. /\ new[i].what = table[i].what
        /\ new[i].order = number(p) - (IF table[i0].order < number(p) THEN 1 ELSE 0)
    BY <2>2, <2>3 DEF ClosesSlotOf, Numbered
  <2> QED
    BY <1>9, <2>1, <2>2, <2>3, <2>4
<1>13. \A i \in PaidRows(new) : new[i].confirmed
  BY <1>10
<1>14. \A i \in PaidRows(new) : \E p \in DOMAIN list :
         ~FreeIn(list[p], new) /\ new[i].what = list[p] /\ new[i].order = NumberIn(p, list, new)
  BY <1>10 DEF closed
<1>15. \A p \in DOMAIN list : ~FreeIn(list[p], new) =>
         \E i \in PaidRows(new) : new[i].what = list[p] /\ new[i].order = NumberIn(p, list, new)
  BY <1>12 DEF closed
<1> QED
  BY <1>11, <1>13, <1>14, <1>15 DEF Numbered

\* The marking of row i0 keeps what the rows name, and closes its slot if it has one.
MarksRow(i0, table, new) ==
  /\ i0 \in DOMAIN table /\ table[i0].what \in Skill \ Starting /\ ~table[i0].free
  /\ DOMAIN new = DOMAIN table /\ Len(new) = Len(table)
  /\ \A i \in DOMAIN table : IsRow(new[i]) /\ new[i].what = table[i].what
  /\ table[i0].confirmed => ClosesSlotOf(i0, table, new)

\* markTrophyGranted() changes no row or marks one, whose order was not known if that
\* hides the order of the rest.
LEMMA MarkMarks ==
  ASSUME IsReport(gained), award \in (Skill \ Starting) \cup {Unknown}, IsTable(rows), Mark
  PROVE  \/ UNCHANGED rows
         \/ \E i0 : MarksRow(i0, rows, rows') /\ (whole' => rows[i0].confirmed)
<1> DEFINE marked == IF award \in Hatred THEN {}
                     ELSE {i \in DOMAIN rows : rows[i].what = award /\ ~rows[i].free}
           slots == {rows[i].order : i \in {j \in marked : rows[j].confirmed}}
           freed(row) == [row EXCEPT !.free = TRUE, !.confirmed = FALSE]
           new(i) == IF i \in marked THEN freed(rows[i]) ELSE MovedDown(rows[i], slots)
<1>1. /\ marked = {} => UNCHANGED rows
      /\ marked # {} => rows' = [i \in DOMAIN rows |-> new(i)]
      /\ whole' => \A i \in marked : rows[i].confirmed
  BY DEF Mark
<1>2. /\ \A i \in DOMAIN rows : IsRow(rows[i])
      /\ \A i \in DOMAIN rows : rows[i].what \in Starting \cup Range(gained)
      /\ \A i, j \in DOMAIN rows : rows[i].what = rows[j].what /\ rows[i].what \in Skill => i = j
      /\ Len(rows) \in Nat /\ DOMAIN rows = 1..Len(rows)
  BY DEF IsTable, NamesWhatHeHas
<1>3. marked \subseteq DOMAIN rows /\ \A i \in marked : rows[i].what = award /\ ~rows[i].free
  OBVIOUS
<1>4. CASE marked = {}
  BY <1>1, <1>4
<1>5. CASE marked # {}
  <2>1. PICK i0 \in marked : TRUE
    BY <1>5
  <2>2. award \in Skill \ Starting
    <3>1. award \in Skill \/ award \in Increase
      BY <1>2, <1>3, <2>1, ReportNames
    <3> QED
      BY <3>1, UnknownIsNothing DEF Increase
  <2>3. marked = {i0}
    BY <1>2, <1>3, <2>1, <2>2
  <2>4. slots = IF rows[i0].confirmed THEN {rows[i0].order} ELSE {}
    BY <2>3
  <2>5. rows' = [i \in DOMAIN rows |-> new(i)]
    BY <1>1, <1>5
  <2> HIDE DEF marked, slots
  <2>6. ASSUME NEW row, IsRow(row)
        PROVE  /\ IsRow(freed(row)) \/ row.what \in Increase
               /\ freed(row).what = row.what /\ freed(row).free
    BY <2>6 DEF IsRow, Columns
  <2>7. ASSUME NEW row, IsRow(row), NEW below, below = Cardinality({s \in slots : s < row.order})
        PROVE  /\ below \in Int
               /\ MovedDown(row, slots) =
                    IF row.confirmed /\ ~row.free /\ ~row.removed
                    THEN [row EXCEPT !.order = row.order - below] ELSE row
    <3>1. IsFiniteSet(slots)
      BY <2>4, FS_EmptySet, FS_Singleton
    <3>2. {s \in slots : s < row.order} \in SUBSET slots
      OBVIOUS
    <3>3. below \in Nat
      BY <2>7, <3>1, <3>2, FS_Subset, FS_CardinalityType
    <3> QED
      BY <2>7, <3>3 DEF MovedDown
  <2>8. ASSUME NEW row, IsRow(row)
        PROVE  /\ IsRow(MovedDown(row, slots)) /\ MovedDown(row, slots).what = row.what
               /\ MovedDown(row, slots).free = row.free
               /\ MovedDown(row, slots).removed = row.removed
               /\ MovedDown(row, slots).confirmed = row.confirmed
    <3> DEFINE below == Cardinality({s \in slots : s < row.order})
               moved == MovedDown(row, slots)
    <3>1. below \in Int
          /\ moved = IF row.confirmed /\ ~row.free /\ ~row.removed
                     THEN [row EXCEPT !.order = row.order - below] ELSE row
      BY <2>7, <2>8
    <3> HIDE DEF below, moved
    <3>2. CASE moved = row
      BY <2>8, <3>2 DEF moved
    <3>3. CASE moved = [row EXCEPT !.order = row.order - below]
      <4>1. IsRow(moved) /\ moved.what = row.what /\ moved.free = row.free
            /\ moved.removed = row.removed /\ moved.confirmed = row.confirmed
        BY <2>8, <3>1, <3>3 DEF IsRow, Columns
      <4> QED
        BY <4>1 DEF moved
    <3> QED
      BY <3>1, <3>2, <3>3
  <2> HIDE DEF freed
  <2>9. ASSUME NEW i \in DOMAIN rows
        PROVE  /\ rows'[i] = IF i = i0 THEN freed(rows[i]) ELSE MovedDown(rows[i], slots)
               /\ IsRow(rows'[i]) /\ rows'[i].what = rows[i].what
    <3>1. rows'[i] = IF i = i0 THEN freed(rows[i]) ELSE MovedDown(rows[i], slots)
      BY <2>3, <2>5
    <3>2. CASE i = i0
      <4>1. IsRow(rows[i]) /\ rows[i].what = award /\ rows[i].what \notin Increase
        BY <1>2, <1>3, <2>1, <2>2, <3>2, KindsDiffer DEF marked
      <4> QED
        BY <2>6, <3>1, <3>2, <4>1
    <3>3. CASE i # i0
      BY <1>2, <2>8, <3>1, <3>3
    <3> QED
      BY <3>1, <3>2, <3>3
  <2>10. DOMAIN rows' = DOMAIN rows /\ Len(rows') = Len(rows)
    <3> HIDE DEF new
    <3>1. DOMAIN rows' = DOMAIN rows
      BY <2>5
    <3>2. rows' = [i \in 1..Len(rows) |-> new(i)]
      BY <1>2, <2>5
    <3>3. rows' \in Seq({new(i) : i \in 1..Len(rows)})
      BY <1>2, <3>2
    <3> QED
      BY <1>2, <3>1, <3>3
  <2>11. i0 \in DOMAIN rows /\ rows[i0].what \in Skill \ Starting /\ ~rows[i0].free
    BY <1>3, <2>1, <2>2 DEF marked
  <2>12. whole' => rows[i0].confirmed
    BY <1>1, <2>1
  <2>13. ASSUME rows[i0].confirmed, NEW i \in PaidRows(rows), i # i0, rows[i].confirmed
        PROVE  rows'[i].order = rows[i].order - (IF rows[i0].order < rows[i].order THEN 1 ELSE 0)
    <3> DEFINE row == rows[i]
               below == Cardinality({s \in slots : s < row.order})
    <3>1. i \in DOMAIN rows /\ row.confirmed /\ ~row.free /\ ~row.removed /\ IsRow(row)
      BY <1>2, <2>13 DEF PaidRows, Paid
    <3>2. rows'[i] = [row EXCEPT !.order = row.order - below]
      <4>1. rows'[i] = MovedDown(rows[i], slots)
        BY <2>9, <2>13, <3>1
      <4>2. MovedDown(row, slots) =
                  IF row.confirmed /\ ~row.free /\ ~row.removed
                  THEN [row EXCEPT !.order = row.order - below] ELSE row
        BY <2>7, <3>1
      <4> HIDE DEF below
      <4> QED
        BY <3>1, <4>1, <4>2
    <3>3. below = IF rows[i0].order < rows[i].order THEN 1 ELSE 0
      <4>1. CASE rows[i0].order < rows[i].order
        <5>1. {s \in slots : s < row.order} = {rows[i0].order}
          BY <2>4, <2>13, <4>1
        <5> QED
          BY <4>1, <5>1, FS_Singleton
      <4>2. CASE ~(rows[i0].order < rows[i].order)
        <5>1. {s \in slots : s < row.order} = {}
          BY <2>4, <2>13, <4>2
        <5> QED
          BY <4>2, <5>1, FS_EmptySet
      <4> QED
        BY <4>1, <4>2
    <3> HIDE DEF below, row
    <3>4. rows'[i].order = row.order - below
      BY <3>1, <3>2 DEF IsRow, Columns
    <3> QED
      BY <3>3, <3>4 DEF row
  <2>14. ASSUME NEW i \in DOMAIN rows, i # i0
         PROVE  /\ rows'[i].what = rows[i].what /\ rows'[i].free = rows[i].free
                /\ rows'[i].removed = rows[i].removed /\ rows'[i].confirmed = rows[i].confirmed
    BY <1>2, <2>8, <2>9, <2>14
  <2>15. rows'[i0].what = rows[i0].what /\ rows'[i0].free
    BY <1>2, <2>6, <2>9, <2>11
  <2> DEFINE table == rows'
  <2>16. rows[i0].confirmed => ClosesSlotOf(i0, rows, table)
    BY <2>10, <2>13, <2>14, <2>15 DEF ClosesSlotOf
  <2>17. MarksRow(i0, rows, table)
    BY <2>9, <2>10, <2>11, <2>16 DEF MarksRow
  <2> HIDE DEF table
  <2> QED
    BY <2>12, <2>17 DEF table
<1> QED
  BY <1>4, <1>5

\* A marked skill takes its number out, and those above move down.
LEMMA MarkNInv ==
  ASSUME NInv, PInv', site = "bbl", Mark
  PROVE  NInv'
<1> USE DEF importer
<1>1. /\ IsTable(rows) /\ ImportIsSound /\ RecordsAreWhole /\ IsReport(gained)
      /\ award \in (Skill \ Starting) \cup {Unknown}
  BY DEF NInv
<1>2. /\ UNCHANGED <<site, gained, award, stage, told, entries, planned, overlapped>>
      /\ Curating /\ DOMAIN curation' = DOMAIN curation
      /\ shown' = Unknown \/ shown' = shown
  BY DEF Mark, At, Curating
<1>3. RecordsAreWhole' /\ IsReport(gained)'
  BY <1>1, <1>2 DEF RecordsAreWhole
<1>4. stage = "write" => overlapped
  BY <1>2 DEF NInv, PInv, OverlapIsKnown, Busy
<1>5. UNCHANGED rows \/ \E i0 : MarksRow(i0, rows, rows') /\ (whole' => rows[i0].confirmed)
  BY <1>1, MarkMarks
<1>6. CASE UNCHANGED rows
  <2>1. ImportIsSound' /\ IsTable(rows)'
    BY <1>1, <1>2, <1>4, <1>6, SoundStays, TableStays
  <2>2. shown' # Unknown => IsReport(shown)' /\ Numbered(rows, shown)'
    BY <1>2, <1>6 DEF NInv
  <2> QED
    BY <1>1, <1>2, <1>3, <2>1, <2>2 DEF NInv
<1>7. ASSUME NEW i0, MarksRow(i0, rows, rows') PROVE NInv'
  <2>1. /\ i0 \in DOMAIN rows /\ rows[i0].what \in Skill \ Starting /\ ~rows[i0].free
        /\ DOMAIN rows' = DOMAIN rows /\ Len(rows') = Len(rows)
        /\ \A i \in DOMAIN rows : IsRow(rows'[i]) /\ rows'[i].what = rows[i].what
        /\ rows[i0].confirmed => ClosesSlotOf(i0, rows, rows')
    BY <1>7 DEF MarksRow
  <2>2. IsTable(rows)'
    BY <1>1, <1>2, <2>1 DEF IsTable, NamesWhatHeHas
  <2>3. ImportIsSound'
    BY <1>1, <1>2, <1>4, <2>1, SoundStays
  <2>4. ASSUME shown' # Unknown PROVE IsReport(shown)' /\ Numbered(rows, shown)'
    <3>1. shown' = shown /\ IsReport(shown) /\ Numbered(rows, shown)
      BY <1>2, <2>4 DEF NInv
    <3>2. i0 \in PaidRows(rows)
      BY <1>1, <2>1 DEF PaidRows, Paid, IsRow, IsTable
    <3>3. ClosesSlotOf(i0, rows, rows')
      BY <2>1, <3>1, <3>2 DEF Numbered
    <3>4. PICK table : table = rows'
      OBVIOUS
    <3>5. Numbered(table, shown)
      BY <1>1, <2>1, <3>1, <3>3, <3>4, ClosedSlotIsNumbered
    <3> QED
      BY <3>1, <3>4, <3>5
  <2> QED
    BY <1>1, <1>2, <1>3, <2>2, <2>3, <2>4 DEF NInv
<1> QED
  BY <1>5, <1>6, <1>7

\* The player of TP: nothing is numbered for good.
LEMMA TpNInv ==
  ASSUME NInv, PInv', AdvNext, site # "bbl"
  PROVE  NInv'
<1> USE DEF advStore, importer, curator, advHistory
<1>1. /\ site = "tp" /\ shown = Unknown /\ IsReport(gained)
      /\ award \in (Skill \ Starting) \cup {Unknown}
  BY DEF NInv
<1>2. CASE Gain
  <2>1. UNCHANGED <<site, award, shown>>
    BY <1>2 DEF Gain
  <2> QED
    BY <1>1, <1>2, <2>1, GainedIsReport DEF NInv
<1>3. CASE Curate
  BY <1>1, <1>3 DEF NInv, Curate
<1>4. CASE UNCHANGED <<site, gained, award>> /\ shown' = Unknown
  BY <1>1, <1>4 DEF NInv
<1>5. CASE BblScrape \/ TpRead \/ TpPlan \/ SyncReadsAward \/ SyncPlans \/ Deduce \/ Settles
           \/ StoresUnspent \/ ImportFails \/ Refresh \/ StoresRefreshed \/ CurationFails
  <2>1. UNCHANGED <<site, gained, award, shown>>
    BY <1>5 DEF BblScrape, TpRead, TpPlan, SyncReadsAward, SyncPlans, Deduce, Settles,
       StoresUnspent, ImportFails, Refresh, StoresRefreshed, CurationFails
  <2> QED
    BY <1>1, <1>4, <2>1
<1>6. CASE SyncWrites
  <2>1. UNCHANGED <<site, gained, award>> /\ shown' \in {shown, Unknown}
    BY <1>1, <1>6 DEF SyncWrites
  <2> QED
    BY <1>1, <1>4, <2>1
<1>7. CASE Unmark
  <2>1. UNCHANGED <<site, gained, award>> /\ shown' \in {shown, Unknown}
    BY <1>7 DEF Unmark
  <2> QED
    BY <1>1, <1>4, <2>1
<1>8. CASE Mark
  <2>1. UNCHANGED <<site, gained, award>> /\ shown' \in {shown, Unknown}
    BY <1>8 DEF Mark
  <2> QED
    BY <1>1, <1>4, <2>1
<1> QED
  BY <1>2, <1>3, <1>5, <1>6, <1>7, <1>8 DEF AdvNext

\* Every step keeps the invariant.
LEMMA NextNInv == NInv /\ [AdvNext]_advVars => NInv'
<1> SUFFICES ASSUME NInv, [AdvNext]_advVars PROVE NInv'
  OBVIOUS
<1>1. PInv'
  BY NextInv DEF NInv
<1>2. CASE UNCHANGED advVars
  <2> USE DEF advVars, advStore, importer, curator, advHistory
  <2>1. UNCHANGED <<site, gained, rows, award, shown, stage, told, entries, planned, curation, overlapped>>
    BY <1>2
  <2>2. site = "bbl" => ImportIsSound' /\ RecordsAreWhole'
    BY <2>1, SoundStays DEF NInv, RecordsAreWhole
  <2>3. IsReport(gained)'
    BY <2>1 DEF NInv
  <2> QED
    BY <1>1, <2>1, <2>2, <2>3, StoreStays
<1>3. CASE AdvNext /\ site # "bbl"
  BY <1>1, <1>3, TpNInv
<1>4. CASE AdvNext /\ site = "bbl"
  <2>1. CASE Gain \/ BblScrape \/ SyncReadsAward \/ SyncPlans
    BY <1>1, <1>4, <2>1, PreparingNInv
  <2>2. CASE SyncWrites
    BY <1>1, <1>4, <2>2, SyncWritesNInv
  <2>3. CASE ImportFails \/ Settles \/ StoresUnspent
    BY <1>1, <1>4, <2>3, EndingNInv
  <2>4. CASE Curate
    BY <1>1, <1>4, <2>4, CurateNInv
  <2>5. CASE Unmark
    BY <1>1, <1>4, <2>5, UnmarkNInv
  <2>6. CASE Mark
    BY <1>1, <1>4, <2>6, MarkNInv
  <2>7. CASE Refresh \/ StoresRefreshed \/ CurationFails
    BY <1>1, <1>4, <2>7, PricingNInv
  <2>8. ~TpRead /\ ~TpPlan /\ ~Deduce
    BY <1>4 DEF NInv, ImportIsSound, TpRead, TpPlan, Deduce
  <2> QED
    BY <1>4, <2>1, <2>2, <2>3, <2>4, <2>5, <2>6, <2>7, <2>8 DEF AdvNext
<1> QED
  BY <1>2, <1>3, <1>4

\* The invariant gives the property.
LEMMA NInvIsTrue == NInv => NumberingIsTrue
<1> SUFFICES ASSUME NInv PROVE NumberingIsTrue
  OBVIOUS
<1>1. CASE site = "bbl"
  BY <1>1, NumberedIsTrue DEF NInv
<1>2. CASE site = "tp"
  BY <1>2 DEF NInv, NumberingIsTrue
<1> QED
  BY <1>1, <1>2 DEF NInv

\* What an import of BBL that nothing disturbed has numbered stays right while awards
\* come: the paid advancements are those reported, numbered from 1 in the order they
\* were taken, for any player and any number of imports and awards.
THEOREM NumberingHolds == AdvSpec => []NumberingIsTrue
<1>1. AdvInit => NInv
  BY InitNInv
<1>2. NInv /\ [AdvNext]_advVars => NInv'
  BY NextNInv
<1>3. NInv => NumberingIsTrue
  BY NInvIsTrue
<1>4. QED
  BY <1>1, <1>2, <1>3, PTL DEF AdvSpec

-----------------------------------------------------------------------------
(* The order that TP's imports confirm: the invariant.                        *)

\* The rows of a table, or the entries of a list, that tell of something gained.
Taken(table) == {i \in DOMAIN table : table[i].what \notin Starting}

\* Each is given a moment of its own, among the first n, when that was gained.
IsDated(table, at, n) ==
  /\ at = [i \in Taken(table) |-> at[i]]
  /\ \A i \in Taken(table) : at[i] \in 1..n /\ gained[at[i]] = table[i].what
  /\ \A i, j \in Taken(table) : at[i] = at[j] => i = j
  /\ \A p \in 1..n : \E i \in Taken(table) : at[i] = p

\* Numbers go up with the moments.
InStep(marks) == \A a, b \in marks : a[1] < b[1] <=> a[2] < b[2]

\* The rows whose order is confirmed, with their numbers and moments.
SureRows(table) == {i \in PaidRows(table) : table[i].confirmed}

RowMarks(table, at) == {<<table[i].order, at[i]>> : i \in SureRows(table)}

\* The rows are what was gained up to some moment, and the confirmed ones are numbered
\* in the order they were gained.
IsInOrder(table, at, n) ==
  /\ IsTable(table)
  /\ \A i \in DOMAIN table : ~table[i].removed
  /\ IsDated(table, at, n)
  /\ InStep(RowMarks(table, at))
  /\ \A i \in SureRows(table) : table[i].order \in 1..Cardinality(PaidRows(table))

\* The moments whose advancement is paid once the sync is done.
PaidMoments(table, granted) == {p \in DOMAIN gained : ~FreeSlot(gained[p], table, granted)}

\* The entries whose order is confirmed, with theirs.
SureEntries(list) == {x \in DOMAIN list : list[x].confirmed}

EntryMarks(list, at) == {<<list[x].order, at[x]>> : x \in SureEntries(list)}

\* The entries are all that was gained, and what they confirm is paid.
IsListed(list, when, table, granted) ==
  /\ IsEntryList(list)
  /\ list = [x \in DOMAIN list |-> [what |-> list[x].what, order |-> list[x].order,
                                     confirmed |-> list[x].confirmed]]
  /\ IsDated(list, when, Len(gained))
  /\ \A x \in SureEntries(list) :
       /\ x \in Taken(list) /\ ~FreeSlot(list[x].what, table, granted)
       /\ list[x].order \in 1..Cardinality(PaidMoments(table, granted))

\* A confirmed increase meets a confirmed entry, or is told its own moment.
AreKept(list, when, table, at, waits) ==
  \/ \A c \in Increase :
       Cardinality({i \in SureRows(table) : table[i].what = c})
         <= Cardinality({x \in SureEntries(list) : list[x].what = c})
  \/ /\ DOMAIN waits = {}
     /\ \A i \in SureRows(table) :
          table[i].what \in Increase => when[PairOf(i, list, table)] = at[i]

\* What waits was gained after all that is confirmed, and is numbered after it.
ComeLater(list, when, table, at, granted, waits) ==
  /\ \A x \in DOMAIN waits :
       x \in Taken(list) /\ ~FreeSlot(list[x].what, table, granted) /\ waits[x] = when[x]
  /\ DOMAIN waits # {} =>
       \E first \in DOMAIN gained :
         /\ \E x \in DOMAIN waits : list[x].order = first
         /\ \A x \in DOMAIN waits : first <= list[x].order
         /\ \A m \in RowMarks(table, at) \cup EntryMarks(list, when) :
              m[1] < first /\ \A x \in DOMAIN waits : m[2] < when[x]
         /\ first - 1 + Cardinality(DOMAIN waits) <= Cardinality(PaidMoments(table, granted))

\* Entries that a sync can take into such a table.
FitsIn(list, when, table, at, granted, waits) ==
  /\ IsListed(list, when, table, granted)
  /\ InStep(RowMarks(table, at) \cup EntryMarks(list, when))
  /\ AreKept(list, when, table, at, waits)
  /\ ComeLater(list, when, table, at, granted, waits)

\* Everything gained is sent.
SendsAll(list) == IsEntryList(list) /\ \A p \in DOMAIN gained : SentFor(gained[p], list) # {}

\* No award waits to make a stored advancement free.
StaysPaid(table, granted) == \A i \in PaidRows(table) : ~FreeExtra(table[i].what, granted)

\* What the import of TP has in hand, when nobody comes in between.
LiveIsSound(at) ==
  /\ stage = "stored" => planned.read = rows
  /\ stage = "granted" => planned.granted = award
  /\ stage = "write" => planned.read = rows /\ planned.rows = PlannedRows(entries, rows, award)
  /\ stage \in {"sync", "granted", "write", "deduce"} /\ told # Unknown =>
       /\ pending # <<>> => DOMAIN pending # {}
       /\ stage = "deduce" => StaysPaid(rows, award)
       /\ SendsAll(entries)
       /\ StaysPaid(rows, award) =>
            \E when \in [Taken(entries) -> DOMAIN gained] :
              FitsIn(entries, when, rows, at, award, pending)

\* The invariant: the rows are in order, and the import has in hand what keeps them so.
OInv ==
  /\ RecordsAreWhole
  /\ site = "tp" /\ whole =>
       \E n \in 0..Len(gained) : \E at \in [Taken(rows) -> 1..n] :
         IsInOrder(rows, at, n) /\ (~overlapped => LiveIsSound(at))

-----------------------------------------------------------------------------
(* Which entry a row meets in a sync that is told everything.                 *)

\* Every stored advancement is sent.
Covers(list, table) ==
  /\ IsEntryList(list)
  /\ \A i \in DOMAIN table : ~table[i].removed
  /\ \A c \in Increase : Cardinality(RowsOf(c, table)) <= Cardinality(SentFor(c, list))
  /\ \A i \in Taken(table) : table[i].what \in Skill => SentFor(table[i].what, list) # {}

\* Row u is what a sync makes of the row i that meets entry e, or of e alone: it is
\* confirmed by the entry, or was before.
IsMet(u, e, i, table, granted) ==
  /\ u.what = e.what /\ ~u.removed
  /\ Paid(u) <=> ~FreeSlot(e.what, table, granted)
  /\ Paid(u) /\ e.confirmed => u.confirmed /\ u.order = e.order
  /\ Paid(u) /\ u.confirmed /\ ~e.confirmed =>
       i \in SureRows(table) /\ table[i].order = u.order

\* A stored increase meets the entry at its place.
LEMMA IncreaseMeets ==
  ASSUME NEW table, IsTable(table), NEW granted, NEW list, Covers(list, table),
         NEW i \in DOMAIN table, table[i].what \in Increase,
         NEW u, u = UpdatedRow(i, list, table, granted),
         NEW x, x = PairOf(i, list, table)
  PROVE  /\ x \in SentFor(table[i].what, list) /\ x \in Taken(list) /\ Fits(x, list, table)
         /\ PlaceOf(x, SentFor(table[i].what, list), list) = RowPlace(i, table)
         /\ IsMet(u, list[x], i, table, granted)
<1> DEFINE what == table[i].what
           sent == SentFor(what, list)
           place == RowPlace(i, table)
           row == table[i]
           e == list[x]
<1>1. IsRow(row) /\ what \in Increase /\ ~(what \in Skill) /\ ~(what \in Starting) /\ ~row.removed
  BY KindsDiffer, SkillsAreSorted DEF IsTable, Covers
<1>2. /\ Cardinality(RowsOf(what, table)) \in Nat
      /\ place \in 0..(Cardinality(RowsOf(what, table)) - 1)
  <2>1. i \in RowsOf(what, table)
    BY DEF RowsOf
  <2> QED
    BY <2>1, RowPlacesPair DEF IsTable, IsRow, NamesWhatHeHas
<1>3. sent \subseteq Nat /\ IsFiniteSet(sent) /\ Cardinality(sent) \in Nat
  BY SentForIsFinite DEF Covers, IsEntryList, NamesWhatHeHas
<1>4. Cardinality(RowsOf(what, table)) <= Cardinality(sent)
  BY DEF Covers
<1>5. x = AtPlace(place, sent, list)
  BY DEF PairOf
<1>6. \A y \in sent : y \in DOMAIN list /\ IsEntry(list[y]) /\ list[y].what = what
  BY DEF SentFor, Covers, IsEntryList
<1>7. u = IF place >= Cardinality(sent)
          THEN [row EXCEPT !.order = 0, !.confirmed = FALSE, !.removed = TRUE]
          ELSE IF row.removed
          THEN [row EXCEPT !.order = e.order, !.confirmed = e.confirmed, !.removed = FALSE]
          ELSE KeptRow(row, e)
  BY <1>5 DEF UpdatedRow, IncreaseRow
<1>8. x \in sent /\ PlaceOf(x, sent, list) = place
  <2>1. place \in 0..(Cardinality(sent) - 1)
    <3> HIDE DEF place, sent, what
    <3> QED
      BY <1>2, <1>3, <1>4
  <2>2. \A y \in sent : list[y].order \in Int
    BY <1>6 DEF IsEntry
  <2>3. /\ AtPlace(place, sent, list) \in sent
        /\ PlaceOf(AtPlace(place, sent, list), sent, list) = place
    <3> HIDE DEF place, sent, what
    <3> QED
      BY <1>3, <2>1, <2>2, PlacesOfRows
  <2> HIDE DEF place, sent, what
  <2> QED
    BY <1>5, <2>3
<1>9. IsEntry(e) /\ e.what = what /\ x \in DOMAIN list
  BY <1>6, <1>8
<1>10. ~(place >= Cardinality(sent)) /\ place < Cardinality(RowsOf(what, table))
  <2> HIDE DEF place, sent, what
  <2> QED
    BY <1>2, <1>3, <1>4
<1>11. Fits(x, list, table) /\ x \in Taken(list)
  BY <1>1, <1>8, <1>9, <1>10 DEF Fits, Taken
<1>12. ~FreeSlot(e.what, table, granted)
  BY <1>1, <1>9 DEF FreeSlot
<1>13. IsMet(u, e, i, table, granted)
  <2>1. u = KeptRow(row, e)
    BY <1>1, <1>7, <1>10
  <2>2. row.free = FALSE /\ row.removed = FALSE
    BY <1>1 DEF IsRow
  <2> HIDE DEF e
  <2>3. CASE row.confirmed /\ ~e.confirmed
    <3>1. u = row
      BY <2>1, <2>3 DEF KeptRow
    <3>2. Paid(row)
      BY <1>1, <2>2 DEF Paid
    <3> QED
      BY <1>9, <1>12, <2>2, <2>3, <3>1, <3>2 DEF IsMet, SureRows, PaidRows
  <2>4. CASE ~(row.confirmed /\ ~e.confirmed)
    <3> DEFINE sure == row.confirmed \/ e.confirmed
    <3>1. u = [row EXCEPT !.order = e.order, !.confirmed = sure]
      BY <2>1, <2>4 DEF KeptRow
    <3>2. sure = e.confirmed
      BY <1>1, <1>9, <2>4 DEF IsRow, IsEntry
    <3> HIDE DEF sure
    <3>3. u.order = e.order /\ u.confirmed = e.confirmed /\ u.what = what /\ u.free = FALSE
          /\ u.removed = FALSE
      BY <1>1, <2>2, <3>1, <3>2 DEF IsRow, Columns
    <3>4. Paid(u)
      BY <1>1, <3>3 DEF Paid
    <3> QED
      BY <1>9, <1>12, <3>3, <3>4 DEF IsMet
  <2> QED
    BY <2>3, <2>4
<1> QED
  BY <1>8, <1>11, <1>13

\* A stored skill meets its entry.
LEMMA SkillMeets ==
  ASSUME NEW table, IsTable(table), NEW granted, NEW list, Covers(list, table),
         NEW i \in DOMAIN table, table[i].what \in Skill \ Starting,
         NEW u, u = UpdatedRow(i, list, table, granted),
         NEW x, x = PairOf(i, list, table)
  PROVE  /\ x \in SentFor(table[i].what, list) /\ x \in Taken(list) /\ Fits(x, list, table)
         /\ IsMet(u, list[x], i, table, granted)
<1> DEFINE sent == SentFor(table[i].what, list)
           e == list[x]
           row == table[i]
           free == FreeSlot(row.what, table, granted)
<1>1. /\ IsRow(row) /\ row.what \in Skill /\ ~(row.what \in Increase) /\ ~(row.what \in Starting)
      /\ ~row.removed
  BY KindsDiffer DEF IsTable, Covers
<1>2. x \in sent
  <2>1. x = CHOOSE y \in sent : TRUE
    BY <1>1 DEF PairOf
  <2>2. sent # {}
    BY <1>1 DEF Covers, Taken
  <2> QED
    BY <2>1, <2>2
<1>3. IsEntry(e) /\ e.what = row.what /\ x \in DOMAIN list
  BY <1>2 DEF Covers, IsEntryList, SentFor
<1>4. x \in Taken(list) /\ Fits(x, list, table)
  BY <1>1, <1>3 DEF Taken, Fits, IsStored
<1>5. u = SkillRow(row, e, granted)
  <2>1. x = CHOOSE y \in sent : TRUE
    BY <1>1 DEF PairOf
  <2> QED
    BY <1>1, <1>2, <2>1 DEF UpdatedRow
<1>6. free <=> row.free \/ FreeExtra(e.what, granted)
  <2>1. (\E j \in DOMAIN table : table[j].what = row.what /\ table[j].free) <=> row.free
    <3>1. \A j \in DOMAIN table : table[j].what = row.what => j = i
      BY <1>1 DEF IsTable, NamesWhatHeHas
    <3> QED
      BY <3>1
  <2> HIDE DEF e
  <2> QED
    BY <1>1, <1>3, <2>1 DEF FreeSlot, FreeExtra
<1> HIDE DEF e, free
<1>7. CASE free
  <2>1. u = [row EXCEPT !.order = e.order, !.confirmed = FALSE, !.free = TRUE]
    BY <1>1, <1>3, <1>5, <1>6, <1>7 DEF SkillRow
  <2>2. u.free = TRUE /\ u.what = row.what /\ u.removed = row.removed
    BY <1>1, <2>1 DEF IsRow, Columns
  <2>3. ~Paid(u)
    BY <2>2 DEF Paid
  <2> QED
    BY <1>1, <1>2, <1>3, <1>4, <1>7, <2>2, <2>3 DEF IsMet, free, e
<1>8. CASE ~free
  <2>1. row.free = FALSE /\ row.removed = FALSE
    BY <1>1, <1>6, <1>8 DEF IsRow
  <2>2. u = IF e.confirmed \/ ~row.confirmed
            THEN [row EXCEPT !.order = e.order, !.confirmed = row.confirmed \/ e.confirmed]
            ELSE row
    BY <1>1, <1>3, <1>5, <1>6, <1>8 DEF SkillRow
  <2>3. CASE row.confirmed /\ ~e.confirmed
    <3>1. u = row /\ Paid(row)
      BY <1>1, <2>1, <2>2, <2>3 DEF Paid
    <3> QED
      BY <1>1, <1>2, <1>3, <1>4, <1>8, <2>3, <3>1 DEF IsMet, SureRows, PaidRows, free, e
  <2>4. CASE ~(row.confirmed /\ ~e.confirmed)
    <3> DEFINE sure == row.confirmed \/ e.confirmed
    <3>1. u = [row EXCEPT !.order = e.order, !.confirmed = sure]
      BY <1>1, <1>3, <2>2, <2>4 DEF IsRow, IsEntry
    <3>2. sure = e.confirmed
      BY <1>1, <1>3, <2>4 DEF IsRow, IsEntry
    <3> HIDE DEF sure
    <3>3. u.order = e.order /\ u.confirmed = e.confirmed /\ u.what = row.what /\ u.free = FALSE
          /\ u.removed = FALSE
      BY <1>1, <2>1, <3>1, <3>2 DEF IsRow, Columns
    <3>4. Paid(u)
      BY <1>1, <3>3 DEF Paid
    <3> QED
      BY <1>2, <1>3, <1>4, <1>8, <3>3, <3>4 DEF IsMet, free, e
  <2> QED
    BY <2>3, <2>4
<1> QED
  BY <1>7, <1>8

\* So does a new row.
LEMMA NewMeets ==
  ASSUME NEW table, IsTable(table), NEW granted, NEW list, IsEntryList(list), IsReport(gained),
         NEW x \in Unstored(list, table), list[x].what \notin Starting,
         NEW u, u = NewRow(list[x], granted), NEW i
  PROVE  IsMet(u, list[x], i, table, granted)
<1> DEFINE e == list[x]
           free == FreeExtra(e.what, granted)
           sure == e.confirmed /\ ~free
<1>1. x \in DOMAIN list /\ ~Fits(x, list, table)
  BY DEF Unstored
<1>2. IsEntry(e) /\ (e.what \in Skill \/ e.what \in Increase)
  BY <1>1, ReportNames DEF IsEntryList, NamesWhatHeHas
<1>3. free <=> FreeSlot(e.what, table, granted)
  <2>1. CASE e.what \in Skill
    <3>1. \A j \in DOMAIN table : table[j].what # e.what
      BY <1>1, <2>1 DEF Fits, IsStored
    <3> QED
      BY <2>1, <3>1 DEF FreeExtra, FreeSlot
  <2>2. CASE ~(e.what \in Skill)
    BY <2>2 DEF FreeExtra, FreeSlot
  <2> QED
    BY <2>1, <2>2
<1>4. u = [what |-> e.what, order |-> e.order, removed |-> FALSE, free |-> free, confirmed |-> sure]
  BY DEF NewRow
<1>5. free \in BOOLEAN /\ e.what \notin Starting /\ (sure => e.confirmed) /\ (e.confirmed /\ ~free => sure)
      /\ sure \in BOOLEAN
  BY <1>2 DEF FreeExtra, IsEntry
<1> HIDE DEF free, e, sure
<1>6. u.free = free /\ u.removed = FALSE /\ u.what = e.what /\ u.order = e.order
      /\ u.confirmed = sure
  BY <1>4
<1>7. Paid(u) <=> ~free
  BY <1>5, <1>6 DEF Paid
<1> QED
  BY <1>3, <1>5, <1>6, <1>7 DEF IsMet, e

\* A stored row meets each entry that one is found for.
LEMMA FoundIsMet ==
  ASSUME IsReport(gained), NEW table, IsTable(table), NEW granted,
         NEW list, Covers(list, table), NEW x \in Taken(list), Fits(x, list, table)
  PROVE  \E i \in Taken(table) : PairOf(i, list, table) = x
<1> DEFINE what == list[x].what
           sent == SentFor(what, list)
<1>1. IsEntryList(list) /\ x \in DOMAIN list /\ what \notin Starting
  BY DEF Covers, Taken
<1>2. what \in Skill \/ what \in Increase
  BY <1>1, ReportNames DEF IsEntryList, NamesWhatHeHas
<1>3. x \in sent
  BY <1>1 DEF SentFor
<1>4. CASE what \in Skill
  <2>1. PICK i \in DOMAIN table : table[i].what = what
    BY <1>4 DEF Fits, IsStored
  <2>2. i \in Taken(table) /\ PairOf(i, list, table) \in sent
    BY <1>1, <1>4, <2>1, SkillMeets DEF Taken
  <2>3. \A y \in sent : y = x
    BY <1>1, <1>4 DEF SentFor, IsEntryList, NamesWhatHeHas
  <2> QED
    BY <2>2, <2>3
<1>5. CASE what \in Increase
  <2> DEFINE place == PlaceOf(x, sent, list)
  <2>1. sent \subseteq Nat /\ IsFiniteSet(sent) /\ \A y \in sent : list[y].order \in Int
    BY <1>1, SentForIsFinite DEF IsEntryList, NamesWhatHeHas, SentFor, IsEntry
  <2>2. /\ place \in 0..(Cardinality(sent) - 1)
        /\ \A y \in sent : PlaceOf(y, sent, list) = place => y = x
    <3> HIDE DEF sent
    <3> QED
      BY <1>3, <2>1, PlacesOfRows
  <2>3. ~(what \in Skill)
    BY <1>5, KindsDiffer
  <2>4. place < Cardinality(RowsOf(what, table))
    BY <2>3 DEF Fits
  <2>5. PICK i \in RowsOf(what, table) : RowPlace(i, table) = place
    <3>1. /\ Cardinality(RowsOf(what, table)) \in Nat
          /\ \A k \in 0..(Cardinality(RowsOf(what, table)) - 1) :
               \E i \in RowsOf(what, table) : RowPlace(i, table) = k
      BY RowPlacesPair DEF IsTable, IsRow, NamesWhatHeHas
    <3>2. Cardinality(sent) \in Nat
      BY <1>1, SentForIsFinite DEF IsEntryList, NamesWhatHeHas
    <3> HIDE DEF place, sent, what
    <3>3. place \in 0..(Cardinality(RowsOf(what, table)) - 1)
      BY <2>2, <2>4, <3>1, <3>2
    <3> QED
      BY <3>1, <3>3
  <2>6. i \in DOMAIN table /\ table[i].what = what /\ i \in Taken(table)
    BY <1>1 DEF RowsOf, Taken
  <2>7. /\ PairOf(i, list, table) \in sent
        /\ PlaceOf(PairOf(i, list, table), sent, list) = place
    <3>1. sent = SentFor(table[i].what, list) /\ table[i].what \in Increase
      BY <1>5, <2>6
    <3> HIDE DEF sent, what, place
    <3> QED
      BY <2>5, <2>6, <3>1, IncreaseMeets
  <2> QED
    BY <2>2, <2>6, <2>7
<1> QED
  BY <1>2, <1>4, <1>5

\* closeFreeExtraSlots() changes nothing in entries that confirm only what is paid.
LEMMA NothingToClose ==
  ASSUME NEW list, NEW table, NEW granted, NEW when, IsListed(list, when, table, granted)
  PROVE  Closed(list, table, granted) = list
<1> DEFINE c == Closed(list, table, granted)
<1>1. /\ Len(list) \in Nat /\ DOMAIN list = 1..Len(list)
      /\ \A x \in DOMAIN list : IsEntry(list[x])
      /\ \A x \in DOMAIN list : list[x] = [what |-> list[x].what, order |-> list[x].order,
                                          confirmed |-> list[x].confirmed]
      /\ list = [x \in DOMAIN list |-> list[x]]
      /\ \A x \in DOMAIN list : list[x].confirmed => ~FreeSlot(list[x].what, table, granted)
  <2> DEFINE e(x) == [what |-> list[x].what, order |-> list[x].order, confirmed |-> list[x].confirmed]
  <2>1. list = [x \in DOMAIN list |-> e(x)]
    BY DEF IsListed
  <2> HIDE DEF e
  <2>2. (\A x \in DOMAIN list : list[x] = e(x)) /\ list = [x \in DOMAIN list |-> list[x]]
    BY <2>1
  <2> QED
    BY <2>2 DEF IsListed, IsEntryList, NamesWhatHeHas, SureEntries, e
<1>2. SlotsOf(list, table, granted) = {}
  BY <1>1 DEF SlotsOf
<1>3. \A order : BelowIn(SlotsOf(list, table, granted), order) = 0
  <2> SUFFICES ASSUME NEW order PROVE Cardinality({s \in {} : s < order}) = 0
    BY <1>2 DEF BelowIn
  <2>1. {s \in {} : s < order} = {}
    OBVIOUS
  <2> QED
    BY <2>1, FS_EmptySet
<1>4. /\ DOMAIN c = DOMAIN list
      /\ \A x \in DOMAIN list :
           c[x] = IF FreeSlot(list[x].what, table, granted) THEN [list[x] EXCEPT !.confirmed = FALSE]
                  ELSE IF list[x].confirmed
                  THEN [list[x] EXCEPT !.order =
                          list[x].order - BelowIn(SlotsOf(list, table, granted), list[x].order)]
                  ELSE list[x]
  BY ClosedEntries
<1>5. c = [x \in DOMAIN list |-> c[x]]
  BY <1>4 DEF Closed
<1> HIDE DEF c
<1>6. ASSUME NEW x \in DOMAIN list PROVE c[x] = list[x]
  <2> DEFINE e == list[x]
  <2>1. /\ IsEntry(e)
        /\ e = [what |-> e.what, order |-> e.order, confirmed |-> e.confirmed]
        /\ e.confirmed => ~FreeSlot(e.what, table, granted)
    BY <1>1
  <2>2. c[x] = IF FreeSlot(e.what, table, granted) THEN [e EXCEPT !.confirmed = FALSE]
               ELSE IF e.confirmed THEN [e EXCEPT !.order = e.order - 0]
               ELSE e
    BY <1>3, <1>4
  <2> HIDE DEF e
  <2>3. e.order - 0 = e.order
    BY <2>1 DEF IsEntry
  <2>4. [e EXCEPT !.order = e.order] = e
    BY <2>1
  <2>5. ~e.confirmed => [e EXCEPT !.confirmed = FALSE] = e
    <3>1. ~e.confirmed => e.confirmed = FALSE
      BY <2>1 DEF IsEntry
    <3> QED
      BY <2>1, <3>1
  <2>6. c[x] = e
    BY <2>1, <2>2, <2>3, <2>4, <2>5
  <2> QED
    BY <2>6 DEF e
<1>7. c = list
  BY <1>1, <1>5, <1>6
<1> QED
  BY <1>7 DEF c

\* Entries that tell everything cover a table that tells a part of it.
LEMMA ListCovers ==
  ASSUME IsReport(gained), NEW table, NEW at, NEW n \in 0..Len(gained),
         IsTable(table), \A i \in DOMAIN table : ~table[i].removed, IsDated(table, at, n),
         NEW list, NEW when, IsEntryList(list), IsDated(list, when, Len(gained))
  PROVE  Covers(list, table)
<1> DEFINE meets == [i \in Taken(table) |-> CHOOSE x \in Taken(list) : when[x] = at[i]]
<1>1. Len(gained) \in Nat
  BY DEF IsReport
<1>2. ASSUME NEW i \in Taken(table)
      PROVE  /\ meets[i] \in Taken(list) /\ when[meets[i]] = at[i]
             /\ list[meets[i]].what = table[i].what
  <2>1. at[i] \in 1..Len(gained) /\ gained[at[i]] = table[i].what
    BY <1>1 DEF IsDated
  <2>2. \E x \in Taken(list) : when[x] = at[i]
    BY <2>1 DEF IsDated
  <2>3. meets[i] \in Taken(list) /\ when[meets[i]] = at[i]
    BY <2>2
  <2> HIDE DEF meets
  <2>4. gained[when[meets[i]]] = list[meets[i]].what
    BY <2>3 DEF IsDated
  <2> QED
    BY <2>1, <2>3, <2>4
<1> HIDE DEF meets
<1>3. \A i, j \in Taken(table) : meets[i] = meets[j] => i = j
  <2>1. \A i, j \in Taken(table) : at[i] = at[j] => i = j
    BY DEF IsDated
  <2> QED
    BY <1>2, <2>1
<1>4. ASSUME NEW c \in Increase
      PROVE  Cardinality(RowsOf(c, table)) <= Cardinality(SentFor(c, list))
  <2>1. c \notin Starting
    BY SkillsAreSorted, KindsDiffer
  <2>2. \A i \in RowsOf(c, table) : i \in Taken(table) /\ table[i].what = c
    BY <2>1 DEF RowsOf, Taken
  <2>3. \A i \in RowsOf(c, table) : meets[i] \in SentFor(c, list)
    BY <1>2, <2>2 DEF SentFor, Taken
  <2>4. \A i, j \in RowsOf(c, table) : meets[i] = meets[j] => i = j
    BY <1>3, <2>2
  <2>5. IsFiniteSet(SentFor(c, list))
    BY SentForIsFinite DEF IsEntryList, NamesWhatHeHas
  <2> QED
    BY <2>3, <2>4, <2>5, OneToOne
<1>5. \A i \in Taken(table) : SentFor(table[i].what, list) # {}
  BY <1>2 DEF SentFor, Taken
<1> QED
  BY <1>4, <1>5 DEF Covers

\* The rows of such a plan and the entries of what was gained, one to one.
LEMMA PlanMeets ==
  ASSUME IsReport(gained), NEW table, IsTable(table), NEW granted,
         NEW list, Covers(list, table), Closed(list, table, granted) = list,
         NEW rs, rs = PlannedRows(list, table, granted)
  PROVE  /\ \A i \in Taken(rs) :
              /\ PairOf(i, list, table) \in Taken(list)
              /\ IsMet(rs[i], list[PairOf(i, list, table)], i, table, granted)
         /\ \A i, j \in Taken(rs) : PairOf(i, list, table) = PairOf(j, list, table) => i = j
         /\ \A x \in Taken(list) : \E i \in Taken(rs) : PairOf(i, list, table) = x
         /\ \A i \in DOMAIN rs : ~rs[i].removed
         /\ Taken(table) \subseteq Taken(rs)
<1> DEFINE new == Unstored(list, table)
           m == Cardinality(new)
           n == Len(table)
           a == Ascending(new)
           pair(i) == PairOf(i, list, table)
<1>0. IsEntryList(list) /\ \A i \in DOMAIN table : ~table[i].removed
  BY DEF Covers
<1>1. /\ m \in Nat /\ IsFiniteSet(new) /\ new \subseteq Nat
      /\ DOMAIN rs = 1..(n + m)
      /\ \A i \in DOMAIN table : rs[i] = UpdatedRow(i, list, table, granted)
      /\ \A k \in 1..m : rs[n + k] = NewRow(list[a[k]], granted)
  BY <1>0, PlanOfRows
<1>2. n \in Nat /\ DOMAIN table = 1..n
  BY DEF IsTable, NamesWhatHeHas
<1>3. /\ \A k \in 1..m : a[k] \in new
      /\ \A x \in new : \E k \in 1..m : a[k] = x
      /\ \A k, l \in 1..m : a[k] = a[l] => k = l
  <2>1. /\ \A k \in 1..m : a[k] \in new /\ Cardinality({x \in new : x < a[k]}) = k - 1
        /\ \A x \in new : \E k \in 1..m : a[k] = x
    BY <1>1, AscendingListsAll
  <2>2. \A k, l \in 1..m : a[k] = a[l] => k - 1 = l - 1
    BY <2>1
  <2>3. \A k \in 1..m : k \in Int
    OBVIOUS
  <2>4. \A k, l \in 1..m : k - 1 = l - 1 => k = l
    BY <2>3
  <2> HIDE DEF a, m, new
  <2> QED
    BY <2>1, <2>2, <2>4
<1>4. \A k \in 1..m : pair(n + k) = a[k]
  <2> SUFFICES ASSUME NEW k \in 1..m PROVE pair(n + k) = a[k]
    OBVIOUS
  <2>1. ~(n + k \in DOMAIN table) /\ n + k - n = k
    BY <1>1, <1>2
  <2>2. pair(n + k) = a[n + k - n]
    BY <2>1 DEF PairOf
  <2> HIDE DEF a, m, n, pair
  <2> QED
    BY <2>1, <2>2
<1>5. \A x \in new : x \in DOMAIN list /\ ~Fits(x, list, table)
  BY DEF Unstored
<1>6. \A i \in DOMAIN rs : i \in DOMAIN table \/ \E k \in 1..m : i = n + k
  <2>1. \A i \in 1..(Len(table) + m) : i \in DOMAIN table \/ \E k \in 1..m : i = Len(table) + k
    BY <1>1, PlannedOrNew
  <2> QED
    BY <1>1, <2>1 DEF n
<1>7. ASSUME NEW i \in DOMAIN table
      PROVE  rs[i].what = table[i].what /\ (i \in Taken(rs) <=> i \in Taken(table))
  <2>1. rs[i].what = table[i].what /\ i \in DOMAIN rs
    BY <1>0, <1>1, <1>2, UpdatedRowIsRow
  <2> QED
    BY <2>1 DEF Taken
<1>8. ASSUME NEW i \in Taken(table)
      PROVE  /\ pair(i) \in Taken(list) /\ Fits(pair(i), list, table)
             /\ IsMet(rs[i], list[pair(i)], i, table, granted)
             /\ list[pair(i)].what = table[i].what
             /\ table[i].what \in Increase =>
                  PlaceOf(pair(i), SentFor(table[i].what, list), list) = RowPlace(i, table)
  <2>1. i \in DOMAIN table /\ table[i].what \notin Starting
    BY DEF Taken
  <2>2. rs[i] = UpdatedRow(i, list, table, granted)
    BY <1>1, <2>1
  <2>3. table[i].what \in Skill \/ table[i].what \in Increase
    BY <2>1, ReportNames DEF IsTable, NamesWhatHeHas
  <2>4. \A x \in SentFor(table[i].what, list) : list[x].what = table[i].what
    BY DEF SentFor
  <2>5. CASE table[i].what \in Skill
    <3>1. table[i].what \notin Increase
      BY <2>5, KindsDiffer
    <3> QED
      BY <2>1, <2>2, <2>4, <2>5, <3>1, SkillMeets
  <2>6. CASE table[i].what \in Increase
    BY <2>1, <2>2, <2>4, <2>6, IncreaseMeets
  <2> QED
    BY <2>3, <2>5, <2>6
<1>9. ASSUME NEW k \in 1..m
      PROVE  /\ rs[n + k].what = list[a[k]].what /\ ~rs[n + k].removed
             /\ n + k \in DOMAIN rs
             /\ n + k \in Taken(rs) => /\ a[k] \in Taken(list)
                                       /\ IsMet(rs[n + k], list[a[k]], n + k, table, granted)
  <2> DEFINE x == a[k]
  <2>1. x \in new /\ x \in DOMAIN list /\ rs[n + k] = NewRow(list[x], granted) /\ n + k \in DOMAIN rs
    BY <1>1, <1>2, <1>3, <1>5
  <2> HIDE DEF x
  <2>2. rs[n + k].what = list[x].what /\ ~rs[n + k].removed
    BY <2>1 DEF NewRow
  <2>3. ASSUME n + k \in Taken(rs)
        PROVE  x \in Taken(list) /\ IsMet(rs[n + k], list[x], n + k, table, granted)
    <3>1. list[x].what \notin Starting
      BY <2>2, <2>3 DEF Taken
    <3> HIDE DEF n, m
    <3> QED
      BY <1>0, <2>1, <3>1, NewMeets DEF Taken
  <2> QED
    BY <2>1, <2>2, <2>3 DEF x
<1> HIDE DEF new, m, n, a, pair
<1>10. \A i \in Taken(rs) : i \in Taken(table) \/ \E k \in 1..m : i = n + k
  BY <1>6, <1>7 DEF Taken
<1>11. \A i \in Taken(rs) :
         pair(i) \in Taken(list) /\ IsMet(rs[i], list[pair(i)], i, table, granted)
  BY <1>4, <1>8, <1>9, <1>10
<1>12. ASSUME NEW i \in Taken(rs), NEW j \in Taken(rs), pair(i) = pair(j)
       PROVE  i = j
  <2>1. CASE i \in Taken(table) /\ j \in Taken(table)
    <3>1. table[i].what = table[j].what
      BY <1>8, <1>12, <2>1
    <3>2. /\ i \in DOMAIN table /\ j \in DOMAIN table
          /\ table[i].what \in Skill \/ table[i].what \in Increase
      BY <2>1, ReportNames DEF IsTable, NamesWhatHeHas, Taken
    <3>3. CASE table[i].what \in Skill
      BY <3>1, <3>2, <3>3 DEF IsTable, NamesWhatHeHas
    <3>4. CASE table[i].what \in Increase
      <4>1. RowPlace(i, table) = RowPlace(j, table)
        BY <1>8, <1>12, <2>1, <3>1, <3>4
      <4>2. i \in RowsOf(table[i].what, table) /\ j \in RowsOf(table[i].what, table)
        BY <3>1, <3>2 DEF RowsOf
      <4> QED
        BY <4>1, <4>2, RowPlacesPair DEF IsTable, IsRow, NamesWhatHeHas
    <3> QED
      BY <3>2, <3>3, <3>4
  <2>2. CASE i \in Taken(table) /\ \E k \in 1..m : j = n + k
    BY <1>3, <1>4, <1>5, <1>8, <1>12, <2>2
  <2>3. CASE j \in Taken(table) /\ \E k \in 1..m : i = n + k
    BY <1>3, <1>4, <1>5, <1>8, <1>12, <2>3
  <2>4. CASE (\E k \in 1..m : i = n + k) /\ (\E k \in 1..m : j = n + k)
    BY <1>3, <1>4, <1>12, <2>4
  <2> QED
    BY <1>10, <2>1, <2>2, <2>3, <2>4
<1>13. ASSUME NEW x \in Taken(list)
       PROVE  \E i \in Taken(rs) : pair(i) = x
  <2>1. CASE Fits(x, list, table)
    <3>1. PICK i \in Taken(table) : PairOf(i, list, table) = x
      BY <2>1, FoundIsMet
    <3>2. i \in Taken(rs)
      BY <1>7, <3>1 DEF Taken
    <3> QED
      BY <3>1, <3>2 DEF pair
  <2>2. CASE ~Fits(x, list, table)
    <3>1. x \in new
      BY <2>2 DEF Taken, new, Unstored
    <3>2. PICK k \in 1..m : a[k] = x
      BY <1>3, <3>1
    <3>3. n + k \in Taken(rs)
      BY <1>9, <3>2 DEF Taken
    <3> QED
      BY <1>4, <3>2, <3>3
  <2> QED
    BY <2>1, <2>2
<1>14. ASSUME NEW i \in DOMAIN rs PROVE ~rs[i].removed
  <2>1. CASE \E k \in 1..m : i = n + k
    BY <1>9, <2>1
  <2>2. CASE i \in DOMAIN table /\ i \in Taken(table)
    BY <1>8, <2>2 DEF IsMet
  <2>3. CASE i \in DOMAIN table /\ i \notin Taken(table)
    <3>1. rs[i].what \in Starting /\ IsRow(rs[i])
      BY <1>0, <1>1, <1>7, <2>3, UpdatedRowIsRow DEF Taken
    <3> QED
      BY <3>1, SkillsAreSorted DEF IsRow
  <2> QED
    BY <1>6, <2>1, <2>2, <2>3
<1>15. Taken(table) \subseteq Taken(rs)
  BY <1>7 DEF Taken
<1> QED
  BY <1>11, <1>12, <1>13, <1>14, <1>15 DEF pair

\* Best first: among enough confirmed entries a confirmed increase meets one of them.
LEMMA ConfirmedMeets ==
  ASSUME NEW table, IsTable(table), NEW list, Covers(list, table), NEW c \in Increase,
         Cardinality({i \in SureRows(table) : table[i].what = c})
           <= Cardinality({x \in SureEntries(list) : list[x].what = c}),
         NEW i \in SureRows(table), table[i].what = c
  PROVE  list[PairOf(i, list, table)].confirmed
<1> DEFINE active == Active(c, table)
           sent == SentFor(c, list)
           sure == {j \in SureRows(table) : table[j].what = c}
           sureSent == {y \in SureEntries(list) : list[y].what = c}
           x == PairOf(i, list, table)
           ahead == {j \in active : Precedes(table[j], j, table[i], i)}
           aheadSent == {y \in sent : Precedes(list[y], y, list[x], x)}
<1>0. i \in DOMAIN table /\ ~table[i].removed /\ table[i].confirmed
  BY DEF SureRows, PaidRows, Covers
<1>1. /\ x \in sent /\ PlaceOf(x, sent, list) = RowPlace(i, table)
  <2>1. \A u : u = UpdatedRow(i, list, table, Unknown) =>
          x \in SentFor(table[i].what, list)
          /\ PlaceOf(x, SentFor(table[i].what, list), list) = RowPlace(i, table)
    BY <1>0, IncreaseMeets
  <2> QED
    BY <2>1
<1>2. i \in active /\ RowPlace(i, table) = Cardinality(ahead)
  BY <1>0 DEF Active, RowPlace, PlaceOf
<1>3. PlaceOf(x, sent, list) = Cardinality(aheadSent)
  BY DEF PlaceOf
<1>4. IsFiniteSet(sure) /\ IsFiniteSet(sent)
  <2>1. Len(table) \in Nat /\ DOMAIN table = 1..Len(table)
    BY DEF IsTable, NamesWhatHeHas
  <2>2. IsFiniteSet(1..Len(table)) /\ sure \in SUBSET (1..Len(table))
    BY <2>1, FS_Interval DEF SureRows, PaidRows
  <2>3. IsFiniteSet(sure)
    <3> HIDE DEF sure
    <3> QED
      BY <2>2, FS_Subset
  <2> QED
    BY <2>3, SentForIsFinite DEF Covers, IsEntryList, NamesWhatHeHas
<1>5. ahead \subseteq sure \ {i} /\ i \in sure
  <2>1. Rank(table[i]) = 0
    BY <1>0 DEF Rank
  <2>2. ASSUME NEW j \in ahead PROVE j \in sure
    <3>1. j \in DOMAIN table /\ table[j].what = c /\ ~table[j].removed /\ IsRow(table[j])
      BY DEF Active, IsTable
    <3>2. Rank(table[j]) <= 0
      BY <2>1 DEF Precedes, Rank
    <3>3. table[j].confirmed
      BY <3>2 DEF Rank
    <3>4. Paid(table[j])
      BY <3>1, SkillsAreSorted, KindsDiffer DEF Paid, IsRow
    <3> QED
      BY <3>1, <3>3, <3>4 DEF SureRows, PaidRows
  <2>3. i \notin ahead
    <3>1. IsRow(table[i]) /\ i \in Int
      BY <1>0 DEF IsTable, NamesWhatHeHas
    <3>2. ~Precedes(table[i], i, table[i], i)
      BY <2>1, <3>1 DEF Precedes, IsRow
    <3> QED
      BY <3>2
  <2>4. i \in sure
    OBVIOUS
  <2> QED
    BY <2>2, <2>3, <2>4
<1>6. ASSUME ~list[x].confirmed PROVE sureSent \subseteq aheadSent
  <2>1. Rank(list[x]) \in {1, 2}
    BY <1>6 DEF Rank
  <2>2. ASSUME NEW y \in sureSent PROVE y \in aheadSent
    <3>1. y \in sent /\ list[y].confirmed
      BY DEF SureEntries, SentFor
    <3>2. Rank(list[y]) = 0
      BY <3>1 DEF Rank
    <3> QED
      BY <2>1, <3>1, <3>2 DEF Precedes
  <2> QED
    BY <2>2
<1>7. aheadSent \subseteq sent
  OBVIOUS
<1>8. Cardinality(sure) <= Cardinality(sureSent)
  OBVIOUS
<1>9. Cardinality(ahead) = Cardinality(aheadSent)
  BY <1>1, <1>2, <1>3
<1> HIDE DEF sure, sureSent, ahead, aheadSent, sent, active
<1>10. /\ Cardinality(ahead) \in Nat /\ Cardinality(sure) \in Nat
       /\ Cardinality(ahead) <= Cardinality(sure) - 1
  <2>1. IsFiniteSet(sure \ {i}) /\ Cardinality(sure \ {i}) = Cardinality(sure) - 1
    BY <1>4, <1>5, FS_RemoveElement
  <2>2. IsFiniteSet(ahead) /\ Cardinality(ahead) <= Cardinality(sure \ {i})
    BY <1>5, <2>1, FS_Subset
  <2> QED
    BY <1>4, <2>1, <2>2, FS_CardinalityType
<1>11. ASSUME ~list[x].confirmed PROVE FALSE
  <2>1. IsFiniteSet(aheadSent)
    BY <1>4, <1>7, FS_Subset
  <2>2. IsFiniteSet(sureSent) /\ Cardinality(sureSent) <= Cardinality(aheadSent)
    BY <1>6, <1>11, <2>1, FS_Subset
  <2>3. Cardinality(sureSent) \in Nat /\ Cardinality(aheadSent) \in Nat
    BY <2>1, <2>2, FS_CardinalityType
  <2> QED
    BY <1>8, <1>9, <1>10, <2>2, <2>3
<1> QED
  BY <1>11

\* The moments of the rows after a sync: those of the entries they meet.
After(rs, list, when, table) == [i \in Taken(rs) |-> when[PairOf(i, list, table)]]

\* What holds when a sync that is told everything has planned its rows.
Syncs(list, when, table, at, n, granted, waits, rs) ==
  /\ n \in 0..Len(gained)
  /\ IsInOrder(table, at, n)
  /\ FitsIn(list, when, table, at, granted, waits)
  /\ rs = PlannedRows(list, table, granted)

\* Every row that stands for something gained has its own moment.
LEMMA SyncDates ==
  ASSUME IsReport(gained), NEW table, NEW at, NEW n, NEW granted, NEW list, NEW when, NEW waits,
         NEW rs, Syncs(list, when, table, at, n, granted, waits, rs)
  PROVE  /\ Covers(list, table)
         /\ \A i \in Taken(rs) :
              /\ PairOf(i, list, table) \in Taken(list)
              /\ IsMet(rs[i], list[PairOf(i, list, table)], i, table, granted)
         /\ \A i, j \in Taken(rs) : PairOf(i, list, table) = PairOf(j, list, table) => i = j
         /\ \A x \in Taken(list) : \E i \in Taken(rs) : PairOf(i, list, table) = x
         /\ \A i \in DOMAIN rs : ~rs[i].removed
         /\ Taken(table) \subseteq Taken(rs)
         /\ IsTable(rs) /\ \A i \in DOMAIN table : rs[i].what = table[i].what
         /\ IsDated(rs, After(rs, list, when, table), Len(gained))
<1>1. /\ IsTable(table) /\ (\A i \in DOMAIN table : ~table[i].removed) /\ IsDated(table, at, n)
      /\ IsEntryList(list) /\ IsDated(list, when, Len(gained)) /\ n \in 0..Len(gained)
      /\ rs = PlannedRows(list, table, granted)
  BY DEF Syncs, IsInOrder, FitsIn, IsListed
<1>2. Covers(list, table)
  BY <1>1, ListCovers
<1>3. Closed(list, table, granted) = list
  BY NothingToClose DEF Syncs, FitsIn
<1>4. /\ \A i \in Taken(rs) :
              /\ PairOf(i, list, table) \in Taken(list)
              /\ IsMet(rs[i], list[PairOf(i, list, table)], i, table, granted)
      /\ \A i, j \in Taken(rs) : PairOf(i, list, table) = PairOf(j, list, table) => i = j
      /\ \A x \in Taken(list) : \E i \in Taken(rs) : PairOf(i, list, table) = x
      /\ \A i \in DOMAIN rs : ~rs[i].removed
      /\ Taken(table) \subseteq Taken(rs)
  BY <1>1, <1>2, <1>3, PlanMeets
<1>5. IsTable(rs) /\ \A i \in DOMAIN table : rs[i].what = table[i].what
  BY <1>1, PlannedIsATable
<1> DEFINE after == After(rs, list, when, table)
           pair(i) == PairOf(i, list, table)
<1>6. /\ after = [i \in Taken(rs) |-> after[i]]
      /\ \A i \in Taken(rs) : after[i] = when[pair(i)]
  BY DEF After
<1>7. /\ \A x \in Taken(list) : when[x] \in 1..Len(gained) /\ gained[when[x]] = list[x].what
      /\ \A x, y \in Taken(list) : when[x] = when[y] => x = y
      /\ \A p \in 1..Len(gained) : \E x \in Taken(list) : when[x] = p
  BY <1>1 DEF IsDated
<1>8. \A i \in Taken(rs) : rs[i].what = list[pair(i)].what
  BY <1>4 DEF IsMet
<1> HIDE DEF after, pair
<1>9. /\ \A i \in Taken(rs) : pair(i) \in Taken(list)
      /\ \A i, j \in Taken(rs) : pair(i) = pair(j) => i = j
      /\ \A x \in Taken(list) : \E i \in Taken(rs) : pair(i) = x
  BY <1>4 DEF pair
<1>10. IsDated(rs, after, Len(gained))
  BY <1>6, <1>7, <1>8, <1>9 DEF IsDated
<1> QED
  BY <1>2, <1>4, <1>5, <1>10 DEF after

\* A confirmed row has the number of a confirmed entry or the one it had, and the
\* moment that goes with it.
LEMMA SyncMarks ==
  ASSUME IsReport(gained), NEW table, NEW at, NEW n, NEW granted, NEW list, NEW when, NEW waits,
         NEW rs, Syncs(list, when, table, at, n, granted, waits, rs)
  PROVE  RowMarks(rs, After(rs, list, when, table)) \subseteq RowMarks(table, at) \cup EntryMarks(list, when)
<1> DEFINE after == After(rs, list, when, table)
<1> SUFFICES ASSUME NEW i \in SureRows(rs)
             PROVE  <<rs[i].order, after[i]>> \in RowMarks(table, at) \cup EntryMarks(list, when)
  BY DEF RowMarks
<1> DEFINE x == PairOf(i, list, table)
<1>1. i \in Taken(rs) /\ Paid(rs[i]) /\ rs[i].confirmed
  BY DEF SureRows, PaidRows, Paid, Taken
<1>2. after[i] = when[x]
  BY <1>1 DEF After
<1>3. x \in Taken(list) /\ IsMet(rs[i], list[x], i, table, granted) /\ Covers(list, table)
  BY <1>1, SyncDates
<1>4. CASE list[x].confirmed
  <2>1. rs[i].order = list[x].order
    BY <1>1, <1>3, <1>4 DEF IsMet
  <2>2. x \in SureEntries(list)
    BY <1>3, <1>4 DEF Taken, SureEntries
  <2> HIDE DEF x, after
  <2> QED
    BY <1>2, <2>1, <2>2 DEF EntryMarks
<1>5. CASE ~list[x].confirmed
  <2>1. i \in SureRows(table) /\ table[i].order = rs[i].order
    BY <1>1, <1>3, <1>5 DEF IsMet
  <2>2. i \in DOMAIN table /\ i \in Taken(table)
    BY <2>1 DEF SureRows, PaidRows, Paid, Taken
  <2>3. rs[i].what = table[i].what
    BY <2>2, SyncDates
  <2>4. list[x].what = table[i].what
    BY <1>3, <2>3 DEF IsMet
  <2>5. /\ at[i] \in DOMAIN gained /\ gained[at[i]] = table[i].what
        /\ when[x] \in DOMAIN gained /\ gained[when[x]] = list[x].what
    <3>1. IsDated(table, at, n) /\ IsDated(list, when, Len(gained)) /\ n \in 0..Len(gained)
      BY DEF Syncs, IsInOrder, FitsIn, IsListed
    <3>2. DOMAIN gained = 1..Len(gained) /\ Len(gained) \in Nat
      BY DEF IsReport
    <3> HIDE DEF x
    <3>3. at[i] \in 1..n /\ gained[at[i]] = table[i].what
      BY <2>2, <3>1 DEF IsDated
    <3>4. when[x] \in 1..Len(gained) /\ gained[when[x]] = list[x].what
      BY <1>3, <3>1 DEF IsDated
    <3> QED
      BY <3>1, <3>2, <3>3, <3>4
  <2>6. table[i].what \in Skill \/ table[i].what \in Increase
    BY <2>2, ReportNames DEF Syncs, IsInOrder, IsTable, NamesWhatHeHas
  <2>7. CASE table[i].what \in Skill
    <3>1. when[x] = at[i]
      BY <2>4, <2>5, <2>7 DEF IsReport
    <3> HIDE DEF x, after
    <3> QED
      BY <1>2, <2>1, <3>1 DEF RowMarks
  <2>8. CASE table[i].what \in Increase
    <3>1. AreKept(list, when, table, at, waits) /\ IsTable(table)
      BY DEF Syncs, FitsIn, IsInOrder
    <3>2. when[x] = at[i]
      <4>1. ~\A c \in Increase : Cardinality({j \in SureRows(table) : table[j].what = c})
                                   <= Cardinality({y \in SureEntries(list) : list[y].what = c})
        BY <1>3, <1>5, <2>1, <2>8, <3>1, ConfirmedMeets
      <4> QED
        BY <2>1, <2>8, <3>1, <4>1 DEF AreKept
    <3> HIDE DEF x, after
    <3> QED
      BY <1>2, <2>1, <3>2 DEF RowMarks
  <2> QED
    BY <2>6, <2>7, <2>8
<1> QED
  BY <1>4, <1>5

\* What is free is free still, and as much is paid as the plan took for paid.
LEMMA SyncCounts ==
  ASSUME IsReport(gained), NEW table, NEW at, NEW n, NEW granted, NEW list, NEW when, NEW waits,
         NEW rs, Syncs(list, when, table, at, n, granted, waits, rs)
  PROVE  /\ \A what \in Range(gained) : FreeSlot(what, rs, granted) <=> FreeSlot(what, table, granted)
         /\ PaidMoments(rs, granted) = PaidMoments(table, granted)
         /\ Cardinality(PaidRows(rs)) = Cardinality(PaidMoments(table, granted))
         /\ Cardinality(PaidRows(rs)) \in Nat /\ IsFiniteSet(PaidRows(rs))
<1> DEFINE after == After(rs, list, when, table)
           pair(i) == PairOf(i, list, table)
<1>1. /\ \A i \in Taken(rs) : pair(i) \in Taken(list) /\ IsMet(rs[i], list[pair(i)], i, table, granted)
      /\ \A i \in DOMAIN rs : ~rs[i].removed
      /\ Taken(table) \subseteq Taken(rs)
      /\ \A i \in DOMAIN table : rs[i].what = table[i].what
      /\ IsDated(rs, after, Len(gained)) /\ IsTable(rs)
  BY SyncDates
<1>2. \A i \in Taken(rs) : i \in DOMAIN rs /\ rs[i].what \notin Starting
        /\ (Paid(rs[i]) <=> ~FreeSlot(rs[i].what, table, granted))
        /\ (Paid(rs[i]) <=> ~rs[i].free)
  <2> SUFFICES ASSUME NEW i \in Taken(rs)
               PROVE  i \in DOMAIN rs /\ rs[i].what \notin Starting
                      /\ (Paid(rs[i]) <=> ~FreeSlot(rs[i].what, table, granted))
                      /\ (Paid(rs[i]) <=> ~rs[i].free)
    OBVIOUS
  <2>1. IsMet(rs[i], list[pair(i)], i, table, granted) /\ i \in DOMAIN rs /\ rs[i].what \notin Starting
    BY <1>1 DEF Taken
  <2> HIDE DEF pair
  <2>2. rs[i].what = list[pair(i)].what /\ ~rs[i].removed
        /\ (Paid(rs[i]) <=> ~FreeSlot(list[pair(i)].what, table, granted))
    BY <2>1 DEF IsMet
  <2> QED
    BY <2>1, <2>2 DEF Paid
<1> HIDE DEF after, pair
<1>3. ASSUME NEW what \in Range(gained)
      PROVE  FreeSlot(what, rs, granted) <=> FreeSlot(what, table, granted)
  <2>1. what \notin Starting
    BY DEF Range, IsReport
  <2>2. ASSUME NEW i \in DOMAIN rs, rs[i].what = what, rs[i].free PROVE FreeSlot(what, table, granted)
    <3>1. i \in Taken(rs)
      BY <2>1, <2>2 DEF Taken
    <3> QED
      BY <1>2, <2>2, <3>1
  <2>3. ASSUME NEW i \in DOMAIN table, table[i].what = what, FreeSlot(what, table, granted)
        PROVE  i \in DOMAIN rs /\ rs[i].what = what /\ rs[i].free
    <3>1. i \in Taken(rs) /\ rs[i].what = what
      BY <1>1, <2>1, <2>3 DEF Taken
    <3> QED
      BY <1>2, <2>3, <3>1
  <2> QED
    BY <2>2, <2>3 DEF FreeSlot
<1>4. PaidMoments(rs, granted) = PaidMoments(table, granted)
  <2>1. \A p \in DOMAIN gained : gained[p] \in Range(gained)
    BY DEF Range
  <2> QED
    BY <1>3, <2>1 DEF PaidMoments
<1>5. DOMAIN gained = 1..Len(gained) /\ Len(gained) \in Nat
  BY DEF IsReport
<1>6. /\ \A i \in Taken(rs) : after[i] \in DOMAIN gained /\ gained[after[i]] = rs[i].what
      /\ \A i, j \in Taken(rs) : after[i] = after[j] => i = j
      /\ \A p \in DOMAIN gained : \E i \in Taken(rs) : after[i] = p
  BY <1>1, <1>5 DEF IsDated
<1>7. PaidRows(rs) \subseteq Taken(rs)
  BY DEF PaidRows, Paid, Taken
<1>8. \A i \in PaidRows(rs) : after[i] \in PaidMoments(table, granted)
  BY <1>2, <1>6, <1>7 DEF PaidRows, PaidMoments
<1>9. \A p \in PaidMoments(table, granted) : \E i \in PaidRows(rs) : after[i] = p
  BY <1>2, <1>6 DEF PaidRows, PaidMoments
<1>10. IsFiniteSet(PaidMoments(table, granted))
  <2>1. PaidMoments(table, granted) \in SUBSET (1..Len(gained)) /\ IsFiniteSet(1..Len(gained))
    BY <1>5, FS_Interval DEF PaidMoments
  <2> QED
    BY <2>1, FS_Subset
<1>11. \A i, j \in PaidRows(rs) : after[i] = after[j] => i = j
  BY <1>6, <1>7
<1>12. IsFiniteSet(PaidRows(rs)) /\ Cardinality(PaidRows(rs)) = Cardinality(PaidMoments(table, granted))
  BY <1>8, <1>9, <1>10, <1>11, AsMany
<1>13. Cardinality(PaidRows(rs)) \in Nat
  BY <1>12, FS_CardinalityType
<1> QED
  BY <1>3, <1>4, <1>12, <1>13

-----------------------------------------------------------------------------
(* What a sync makes of rows in order, and the order that is deduced.         *)

\* After a sync that takes nothing out of the numbering the order is still the real one.
LEMMA SyncInOrder ==
  ASSUME IsReport(gained), NEW table, NEW at, NEW n, NEW granted, NEW list, NEW when, NEW waits,
         NEW rs, Syncs(list, when, table, at, n, granted, waits, rs),
         PaidRows(table) \subseteq PaidRows(rs)
  PROVE  IsInOrder(rs, After(rs, list, when, table), Len(gained))
<1> DEFINE after == After(rs, list, when, table)
           paid == Cardinality(PaidRows(rs))
<1>1. IsTable(rs) /\ (\A i \in DOMAIN rs : ~rs[i].removed) /\ IsDated(rs, after, Len(gained))
  BY SyncDates
<1>2. InStep(RowMarks(rs, after))
  <2>1. RowMarks(rs, after) \subseteq RowMarks(table, at) \cup EntryMarks(list, when)
    BY SyncMarks
  <2>2. InStep(RowMarks(table, at) \cup EntryMarks(list, when))
    BY DEF Syncs, FitsIn
  <2> HIDE DEF after
  <2> QED
    BY <2>1, <2>2 DEF InStep
<1>3. paid = Cardinality(PaidMoments(table, granted)) /\ paid \in Nat
      /\ Cardinality(PaidRows(table)) \in Nat /\ Cardinality(PaidRows(table)) <= paid
  <2>1. /\ paid = Cardinality(PaidMoments(table, granted)) /\ paid \in Nat /\ IsFiniteSet(PaidRows(rs))
    BY SyncCounts
  <2>2. IsFiniteSet(PaidRows(table)) /\ Cardinality(PaidRows(table)) <= paid
    BY <2>1, FS_Subset
  <2> QED
    BY <2>1, <2>2, FS_CardinalityType
<1>4. ASSUME NEW i \in SureRows(rs) PROVE rs[i].order \in 1..paid
  <2> DEFINE x == PairOf(i, list, table)
  <2>1. i \in Taken(rs) /\ Paid(rs[i]) /\ rs[i].confirmed
    BY DEF SureRows, PaidRows, Paid, Taken
  <2>2. x \in Taken(list) /\ IsMet(rs[i], list[x], i, table, granted)
    BY <2>1, SyncDates
  <2>3. CASE list[x].confirmed
    <3>1. rs[i].order = list[x].order /\ x \in SureEntries(list)
      BY <2>1, <2>2, <2>3 DEF IsMet, Taken, SureEntries
    <3>2. list[x].order \in 1..Cardinality(PaidMoments(table, granted))
      BY <3>1 DEF Syncs, FitsIn, IsListed
    <3> QED
      BY <1>3, <3>1, <3>2
  <2>4. CASE ~list[x].confirmed
    <3>1. i \in SureRows(table) /\ table[i].order = rs[i].order
      BY <2>1, <2>2, <2>4 DEF IsMet
    <3>2. table[i].order \in 1..Cardinality(PaidRows(table))
      BY <3>1 DEF Syncs, IsInOrder
    <3> HIDE DEF paid
    <3> QED
      BY <1>3, <3>1, <3>2
  <2> QED
    BY <2>3, <2>4
<1> QED
  BY <1>1, <1>2, <1>4 DEF IsInOrder

\* And the entries, some of which wait for their order, fit the rows they became.
LEMMA SyncFits ==
  ASSUME IsReport(gained), NEW table, NEW at, NEW n, NEW granted, NEW list, NEW when, NEW waits,
         NEW rs, Syncs(list, when, table, at, n, granted, waits, rs), DOMAIN waits # {}
  PROVE  FitsIn(list, when, rs, After(rs, list, when, table), granted, waits)
<1> DEFINE after == After(rs, list, when, table)
           pair(i) == PairOf(i, list, table)
<1>0. FitsIn(list, when, table, at, granted, waits) /\ IsTable(table)
  BY DEF Syncs, IsInOrder
<1>1. /\ \A what \in Range(gained) : FreeSlot(what, rs, granted) <=> FreeSlot(what, table, granted)
      /\ PaidMoments(rs, granted) = PaidMoments(table, granted)
  BY SyncCounts
<1>2. \A x \in Taken(list) : FreeSlot(list[x].what, rs, granted) <=> FreeSlot(list[x].what, table, granted)
  <2>1. \A x \in Taken(list) : list[x].what \in Range(gained)
    BY <1>0 DEF FitsIn, IsListed, IsEntryList, NamesWhatHeHas, Taken
  <2> QED
    BY <1>1, <2>1
<1>3. RowMarks(rs, after) \subseteq RowMarks(table, at) \cup EntryMarks(list, when)
  BY SyncMarks
<1>4. Covers(list, table)
  BY SyncDates
<1>5. /\ \A i \in Taken(rs) : pair(i) \in Taken(list) /\ IsMet(rs[i], list[pair(i)], i, table, granted)
      /\ \A i, j \in Taken(rs) : pair(i) = pair(j) => i = j
      /\ \A i \in DOMAIN table : rs[i].what = table[i].what
  BY SyncDates
<1>6. IsListed(list, when, rs, granted)
  <2> HIDE DEF after, pair
  <2>1. IsListed(list, when, table, granted)
    BY <1>0 DEF FitsIn
  <2> DEFINE plain == [x \in DOMAIN list |-> [what |-> list[x].what, order |-> list[x].order,
                                     confirmed |-> list[x].confirmed]]
  <2>2. /\ IsEntryList(list) /\ list = plain
        /\ IsDated(list, when, Len(gained))
        /\ \A x \in SureEntries(list) :
             /\ x \in Taken(list) /\ ~FreeSlot(list[x].what, table, granted)
             /\ list[x].order \in 1..Cardinality(PaidMoments(table, granted))
    BY <2>1 DEF IsListed
  <2>3. \A x \in SureEntries(list) :
             /\ x \in Taken(list) /\ ~FreeSlot(list[x].what, rs, granted)
             /\ list[x].order \in 1..Cardinality(PaidMoments(rs, granted))
    BY <1>1, <1>2, <2>2
  <2> QED
    BY <2>2, <2>3 DEF IsListed
<1>7. InStep(RowMarks(rs, after) \cup EntryMarks(list, when))
  <2>1. InStep(RowMarks(table, at) \cup EntryMarks(list, when))
    BY <1>0 DEF FitsIn
  <2>2. RowMarks(rs, after) \cup EntryMarks(list, when) \subseteq RowMarks(table, at) \cup EntryMarks(list, when)
    BY <1>3
  <2> HIDE DEF after
  <2> QED
    BY <2>1, <2>2 DEF InStep
<1>8. AreKept(list, when, rs, after, waits)
  <2>1. \A c \in Increase :
          Cardinality({i \in SureRows(table) : table[i].what = c})
            <= Cardinality({x \in SureEntries(list) : list[x].what = c})
    BY <1>0 DEF FitsIn, AreKept
  <2>2. ASSUME NEW c \in Increase
        PROVE  Cardinality({i \in SureRows(rs) : rs[i].what = c})
                 <= Cardinality({x \in SureEntries(list) : list[x].what = c})
    <3> DEFINE R == {i \in SureRows(rs) : rs[i].what = c}
               S == {x \in SureEntries(list) : list[x].what = c}
    <3>1. ASSUME NEW i \in R PROVE pair(i) \in S /\ i \in Taken(rs)
      <4>1. i \in Taken(rs) /\ Paid(rs[i]) /\ rs[i].confirmed /\ rs[i].what = c
        BY DEF SureRows, PaidRows, Paid, Taken
      <4>2. pair(i) \in Taken(list) /\ IsMet(rs[i], list[pair(i)], i, table, granted)
        BY <1>5, <4>1
      <4>3. ASSUME ~list[pair(i)].confirmed PROVE FALSE
        <5>1. i \in SureRows(table)
          BY <4>1, <4>2, <4>3 DEF IsMet
        <5>2. table[i].what = c
          BY <1>5, <4>1, <5>1 DEF SureRows, PaidRows
        <5>3. list[pair(i)].confirmed
          BY <1>0, <1>4, <2>1, <5>1, <5>2, ConfirmedMeets
        <5> QED
          BY <4>3, <5>3
      <4>4. list[pair(i)].what = c
        BY <4>1, <4>2 DEF IsMet
      <4> QED
        BY <4>1, <4>2, <4>3, <4>4 DEF SureEntries, Taken
    <3>2. \A i, j \in R : pair(i) = pair(j) => i = j
      BY <1>5, <3>1
    <3>3. IsFiniteSet(S)
      <4>1. S \in SUBSET SentFor(c, list)
        BY DEF SureEntries, SentFor
      <4>2. IsFiniteSet(SentFor(c, list))
        BY <1>4, SentForIsFinite DEF Covers, IsEntryList, NamesWhatHeHas
      <4> HIDE DEF S
      <4> QED
        BY <4>1, <4>2, FS_Subset
    <3> DEFINE f == [i \in R |-> pair(i)]
    <3>4. /\ \A i \in R : f[i] \in S
          /\ \A i, j \in R : f[i] = f[j] => i = j
      BY <3>1, <3>2
    <3> HIDE DEF R, S, f, pair
    <3>5. Cardinality(R) <= Cardinality(S)
      BY <3>3, <3>4, OneToOne
    <3> QED
      BY <3>5 DEF R, S
  <2> QED
    BY <2>2 DEF AreKept
<1>9. ComeLater(list, when, rs, after, granted, waits)
  <2>1. ComeLater(list, when, table, at, granted, waits)
    BY <1>0 DEF FitsIn
  <2>2. \A x \in DOMAIN waits :
          x \in Taken(list) /\ ~FreeSlot(list[x].what, rs, granted) /\ waits[x] = when[x]
    BY <1>2, <2>1 DEF ComeLater
  <2>3. PICK first \in DOMAIN gained :
         /\ \E x \in DOMAIN waits : list[x].order = first
         /\ \A x \in DOMAIN waits : first <= list[x].order
         /\ \A m \in RowMarks(table, at) \cup EntryMarks(list, when) :
              m[1] < first /\ \A x \in DOMAIN waits : m[2] < when[x]
         /\ first - 1 + Cardinality(DOMAIN waits) <= Cardinality(PaidMoments(table, granted))
    BY <2>1 DEF ComeLater
  <2> HIDE DEF after, pair
  <2>4. \A m \in RowMarks(rs, after) \cup EntryMarks(list, when) :
              m[1] < first /\ \A x \in DOMAIN waits : m[2] < when[x]
    BY <1>3, <2>3
  <2> QED
    BY <1>1, <2>2, <2>3, <2>4 DEF ComeLater
<1> QED
  BY <1>6, <1>7, <1>8, <1>9 DEF FitsIn

\* When a sync leaves everything paid that was, no award waited to make it free.
LEMMA KeptMeansPaid ==
  ASSUME IsReport(gained), NEW table, IsTable(table), NEW granted, NEW list, SendsAll(list),
         NEW rs, rs = PlannedRows(list, table, granted), PaidRows(table) \subseteq PaidRows(rs)
  PROVE  StaysPaid(table, granted)
<1> SUFFICES ASSUME NEW i \in PaidRows(table), FreeExtra(table[i].what, granted) PROVE FALSE
  BY DEF StaysPaid
<1> DEFINE row == table[i]
           c == Closed(list, table, granted)
           sent == SentFor(row.what, c)
           e == c[CHOOSE x \in sent : TRUE]
<1>1. /\ i \in DOMAIN table /\ i \in PaidRows(rs) /\ IsRow(row)
      /\ row.what \in Skill \ Starting /\ row.what \notin Increase
  BY KindsDiffer DEF FreeExtra, PaidRows, IsTable
<1>2. /\ IsEntryList(list) /\ IsEntryList(c) /\ DOMAIN c = DOMAIN list
      /\ \A x \in DOMAIN list : c[x].what = list[x].what
  BY ClosedIsAList DEF SendsAll
<1>3. \E x \in DOMAIN list : list[x].what = row.what
  <2>1. row.what \in Range(gained)
    BY <1>1 DEF IsTable, NamesWhatHeHas
  <2>2. PICK p \in DOMAIN gained : row.what = gained[p]
    BY <2>1 DEF Range
  <2> QED
    BY <2>2 DEF SendsAll, SentFor
<1>4. rs[i] = UpdatedRow(i, c, table, granted)
  BY <1>1, <1>2, PlanOfRows
<1> HIDE DEF c
<1>5. (CHOOSE x \in sent : TRUE) \in sent
  BY <1>2, <1>3 DEF SentFor
<1>6. e.what = row.what /\ IsEntry(e)
  BY <1>2, <1>5 DEF SentFor, IsEntryList
<1>7. rs[i] = SkillRow(row, e, granted)
  BY <1>1, <1>4, <1>5 DEF UpdatedRow
<1> HIDE DEF e
<1>8. SkillRow(row, e, granted) = [row EXCEPT !.order = e.order, !.confirmed = FALSE, !.free = TRUE]
  BY <1>1, <1>6 DEF SkillRow
<1>9. rs[i].free = TRUE
  BY <1>1, <1>7, <1>8 DEF IsRow, Columns
<1> QED
  BY <1>1, <1>9 DEF PaidRows, Paid

\* Moments, by how many of a finite set of them come before.
LEMMA MomentsHavePlaces ==
  ASSUME NEW S, IsFiniteSet(S), NEW when, \A x \in S : when[x] \in Int,
         \A x, y \in S : when[x] = when[y] => x = y
  PROVE  /\ Cardinality(S) \in Nat
         /\ \A x \in S : Cardinality({y \in S : when[y] < when[x]}) \in 0..(Cardinality(S) - 1)
         /\ \A x, y \in S : when[x] < when[y] <=>
              Cardinality({z \in S : when[z] < when[x]}) < Cardinality({z \in S : when[z] < when[y]})
         /\ \A k \in 0..(Cardinality(S) - 1) :
              \E x \in S : Cardinality({y \in S : when[y] < when[x]}) = k
<1> DEFINE before == [x \in S |-> {y \in S : when[y] < when[x]}]
           f == [x \in S |-> Cardinality({y \in S : when[y] < when[x]})]
           n == Cardinality(S)
<1>1. \A x \in S : f[x] = Cardinality(before[x])
                   /\ f[x] = Cardinality({y \in S : when[y] < when[x]})
  OBVIOUS
<1>2. \A x, y \in S : y \in before[x] <=> when[y] < when[x]
  OBVIOUS
<1>3. \A x \in S : before[x] \subseteq S /\ x \notin before[x]
  OBVIOUS
<1>4. n \in Nat
  BY FS_CardinalityType
<1> HIDE DEF before, f, n
<1>5. Orders(before, S)
  <2>1. \A x, y, z \in S : x \in before[y] /\ y \in before[z] => x \in before[z]
    <3> SUFFICES ASSUME NEW x \in S, NEW y \in S, NEW z \in S, when[x] < when[y], when[y] < when[z]
                 PROVE  when[x] < when[z]
      BY <1>2
    <3>1. when[x] \in Int /\ when[y] \in Int /\ when[z] \in Int
      OBVIOUS
    <3> QED
      BY <3>1
  <2>2. \A x, y \in S : x # y => x \in before[y] \/ y \in before[x]
    <3> SUFFICES ASSUME NEW x \in S, NEW y \in S, ~(when[x] < when[y]), ~(when[y] < when[x])
                 PROVE  x = y
      BY <1>2
    <3>1. when[x] \in Int /\ when[y] \in Int
      OBVIOUS
    <3> QED
      BY <3>1
  <2> QED
    BY <1>3, <2>1, <2>2 DEF Orders
<1>6. Counts(f, before, S)
  BY <1>1 DEF Counts
<1>7. /\ \A x \in S : f[x] \in 0..(n - 1)
      /\ \A x, z \in S : x \in before[z] => f[x] < f[z]
      /\ \A k \in 0..(n - 1) : \E x \in S : f[x] = k
  BY <1>5, <1>6, PlacesAreTaken DEF Places, n
<1>8. ASSUME NEW x \in S, NEW y \in S PROVE when[x] < when[y] <=> f[x] < f[y]
  <2>1. f[x] \in Int /\ f[y] \in Int /\ when[x] \in Int /\ when[y] \in Int
    BY <1>4, <1>7
  <2>2. when[x] < when[y] => f[x] < f[y]
    BY <1>2, <1>7
  <2>3. when[y] < when[x] => f[y] < f[x]
    BY <1>2, <1>7
  <2>4. when[x] = when[y] => f[x] = f[y]
    OBVIOUS
  <2> QED
    BY <2>1, <2>2, <2>3, <2>4
<1> QED
  BY <1>1, <1>4, <1>7, <1>8 DEF n

\* deducedEntries(), when the real order is found.
Deduced(list, waits, first) ==
  [x \in DOMAIN list |->
     IF x \in DOMAIN waits
     THEN [list[x] EXCEPT
             !.order = first + Cardinality({y \in DOMAIN waits : waits[y] < waits[x]}),
             !.confirmed = TRUE]
     ELSE list[x]]

\* Deduce numbers from the least number of an entry that waits.
IsFirst(first, list, waits) ==
  first = CHOOSE n \in {list[x].order : x \in DOMAIN waits} :
            \A x \in DOMAIN waits : n <= list[x].order

\* It fits the rows that the entries became while their order was not known.
LEMMA DeducedFits ==
  ASSUME IsReport(gained), NEW table, NEW at, NEW n \in 0..Len(gained), IsInOrder(table, at, n),
         NEW granted, NEW list, NEW when, NEW waits,
         FitsIn(list, when, table, at, granted, waits),
         NEW first, IsFirst(first, list, waits),
         NEW deduced, deduced = Deduced(list, waits, first)
  PROVE  FitsIn(deduced, when, table, at, granted, <<>>)
<1> DEFINE W == DOMAIN waits
           below(x) == Cardinality({y \in W : waits[y] < waits[x]})
           paid == Cardinality(PaidMoments(table, granted))
           plain == [x \in DOMAIN list |-> [what |-> list[x].what, order |-> list[x].order,
                                            confirmed |-> list[x].confirmed]]
<1>1. /\ IsListed(list, when, table, granted) /\ IsEntryList(list) /\ list = plain
      /\ IsDated(list, when, Len(gained))
      /\ InStep(RowMarks(table, at) \cup EntryMarks(list, when))
      /\ AreKept(list, when, table, at, waits) /\ ComeLater(list, when, table, at, granted, waits)
  BY DEF FitsIn, IsListed
<1>2. Len(list) \in Nat /\ DOMAIN list = 1..Len(list) /\ \A x \in DOMAIN list : IsEntry(list[x])
  BY <1>1 DEF IsEntryList, NamesWhatHeHas
<1>3. ComeLater(deduced, when, table, at, granted, <<>>)
  BY DEF ComeLater
<1>4. CASE W = {}
  <2>1. deduced = [x \in DOMAIN list |-> list[x]]
    BY <1>4 DEF Deduced
  <2>2. list = [x \in DOMAIN list |-> list[x]]
    <3> DEFINE e(x) == [what |-> list[x].what, order |-> list[x].order, confirmed |-> list[x].confirmed]
    <3>1. list = [x \in DOMAIN list |-> e(x)]
      BY <1>1
    <3> HIDE DEF e
    <3> QED
      BY <3>1
  <2>3. deduced = list
    BY <2>1, <2>2
  <2>4. AreKept(list, when, table, at, <<>>)
    BY <1>1 DEF AreKept
  <2> QED
    BY <1>1, <1>3, <2>3, <2>4 DEF FitsIn
<1>5. CASE W # {}
  <2>1. PICK least \in DOMAIN gained :
         /\ \E x \in W : list[x].order = least
         /\ \A x \in W : least <= list[x].order
         /\ \A m \in RowMarks(table, at) \cup EntryMarks(list, when) :
              m[1] < least /\ \A x \in W : m[2] < when[x]
         /\ least - 1 + Cardinality(W) <= paid
    BY <1>1, <1>5 DEF ComeLater
  <2>2. /\ \A x \in W : x \in Taken(list) /\ ~FreeSlot(list[x].what, table, granted)
                        /\ waits[x] = when[x]
    BY <1>1 DEF ComeLater
  <2>3. /\ \A x \in Taken(list) : when[x] \in 1..Len(gained) /\ gained[when[x]] = list[x].what
        /\ \A x, y \in Taken(list) : when[x] = when[y] => x = y
        /\ \A p \in 1..Len(gained) : \E x \in Taken(list) : when[x] = p
        /\ when = [x \in Taken(list) |-> when[x]]
    BY <1>1 DEF IsDated
  <2>4. DOMAIN gained = 1..Len(gained) /\ Len(gained) \in Nat /\ least \in 1..Len(gained)
    BY <2>1 DEF IsReport
  <2>5. first = least
    <3>1. least \in {list[x].order : x \in W} /\ \A x \in W : least <= list[x].order
      BY <2>1
    <3>2. first \in {list[x].order : x \in W} /\ \A x \in W : first <= list[x].order
      BY <3>1 DEF IsFirst
    <3>3. first <= least /\ least <= first
      BY <3>1, <3>2
    <3>4. first \in Int /\ least \in Int
      <4>1. \A x \in W : list[x].order \in Int
        BY <1>2, <2>2 DEF Taken, IsEntry
      <4> QED
        BY <2>4, <3>2, <4>1
    <3> QED
      BY <3>3, <3>4
  <2>6. W \subseteq DOMAIN list /\ IsFiniteSet(W)
    <3>1. W \in SUBSET (DOMAIN list)
      BY <2>2 DEF Taken
    <3>2. IsFiniteSet(DOMAIN list)
      BY <1>2, FS_Interval
    <3> QED
      BY <3>1, <3>2, FS_Subset
  <2>7. paid \in Nat /\ Cardinality(W) \in Nat
    <3>1. PaidMoments(table, granted) \in SUBSET (1..Len(gained)) /\ IsFiniteSet(1..Len(gained))
      BY <2>4, FS_Interval DEF PaidMoments
    <3>2. IsFiniteSet(PaidMoments(table, granted))
      BY <3>1, FS_Subset
    <3> QED
      BY <2>6, <3>2, FS_CardinalityType
  <2>8. /\ \A x \in W : below(x) \in 0..(Cardinality(W) - 1)
        /\ \A x, y \in W : when[x] < when[y] <=> below(x) < below(y)
    <3>1. \A x \in W : when[x] \in Int
      BY <2>2, <2>3
    <3>2. \A x, y \in W : when[x] = when[y] => x = y
      BY <2>2, <2>3
    <3>3. \A x \in W : below(x) = Cardinality({y \in W : when[y] < when[x]})
      <4> SUFFICES ASSUME NEW x \in W
                   PROVE  {y \in W : waits[y] < waits[x]} = {y \in W : when[y] < when[x]}
        OBVIOUS
      <4> QED
        BY <2>2
    <3> DEFINE place(x) == Cardinality({y \in W : when[y] < when[x]})
    <3> HIDE DEF W
    <3>4. /\ \A x \in W : place(x) \in 0..(Cardinality(W) - 1)
          /\ \A x, y \in W : when[x] < when[y] <=> place(x) < place(y)
      BY <2>6, <3>1, <3>2, MomentsHavePlaces
    <3> HIDE DEF below, place
    <3>5. \A x \in W : below(x) = place(x)
      BY <3>3 DEF place
    <3> QED
      BY <3>4, <3>5
  <2>9. /\ DOMAIN deduced = DOMAIN list
        /\ deduced = [x \in DOMAIN list |-> deduced[x]]
        /\ \A x \in W : deduced[x] = [list[x] EXCEPT !.order = first + below(x), !.confirmed = TRUE]
        /\ \A x \in DOMAIN list : x \notin W => deduced[x] = list[x]
    BY <2>6 DEF Deduced
  <2> HIDE DEF below, W, paid
  <2>10. ASSUME NEW x \in DOMAIN list
         PROVE  /\ deduced[x].what = list[x].what /\ IsEntry(deduced[x])
                /\ deduced[x] = [what |-> deduced[x].what, order |-> deduced[x].order,
                                 confirmed |-> deduced[x].confirmed]
                /\ x \in W => deduced[x].order = first + below(x) /\ deduced[x].confirmed
    <3> DEFINE e == list[x]
               d == deduced[x]
    <3>1. IsEntry(e)
      BY <1>2
    <3>2. e = [what |-> e.what, order |-> e.order, confirmed |-> e.confirmed]
      BY <1>1
    <3>3. CASE x \notin W
      BY <2>9, <3>1, <3>2, <3>3
    <3>4. CASE x \in W
      <4>1. first + below(x) \in Int
        BY <2>4, <2>5, <2>7, <2>8, <3>4
      <4>2. d = [e EXCEPT !.order = first + below(x), !.confirmed = TRUE]
        BY <2>9, <3>4
      <4> HIDE DEF e, d
      <4>3. d = [what |-> e.what, order |-> first + below(x), confirmed |-> TRUE]
        BY <3>2, <4>2
      <4>4. d.what = e.what /\ d.order = first + below(x) /\ d.confirmed = TRUE
            /\ EntryColumns \subseteq DOMAIN d
        BY <4>3 DEF EntryColumns
      <4> QED
        BY <4>1, <4>3, <4>4 DEF IsEntry, e, d
    <3> QED
      BY <3>3, <3>4
  <2>11. Taken(deduced) = Taken(list)
    BY <2>9, <2>10 DEF Taken
  <2>12. Len(deduced) = Len(list)
    <3>1. deduced = [x \in 1..Len(list) |-> deduced[x]] /\ Len(list) \in Nat
      BY <1>2, <2>9
    <3> QED
      BY <3>1
  <2>13. IsEntryList(deduced)
    <3>1. /\ \A x \in DOMAIN list : list[x].what \in Starting \cup Range(gained)
          /\ \A x, y \in DOMAIN list : list[x].what = list[y].what /\ list[x].what \in Skill => x = y
      BY <1>1 DEF IsEntryList, NamesWhatHeHas
    <3>2. \A x \in DOMAIN list : deduced[x].what = list[x].what /\ IsEntry(deduced[x])
      BY <2>10
    <3>3. /\ Len(deduced) \in Nat /\ DOMAIN deduced = 1..Len(deduced)
          /\ DOMAIN deduced = DOMAIN list
      BY <1>2, <2>9, <2>12
    <3> QED
      BY <3>1, <3>2, <3>3 DEF IsEntryList, NamesWhatHeHas
  <2>14. deduced = [x \in DOMAIN deduced |->
                     [what |-> deduced[x].what, order |-> deduced[x].order,
                      confirmed |-> deduced[x].confirmed]]
    <3> DEFINE e(x) == [what |-> deduced[x].what, order |-> deduced[x].order,
                        confirmed |-> deduced[x].confirmed]
    <3>1. \A x \in DOMAIN list : deduced[x] = e(x)
      BY <2>10
    <3> HIDE DEF e
    <3>2. deduced = [x \in DOMAIN deduced |-> e(x)]
      BY <2>9, <3>1
    <3> QED
      BY <3>2 DEF e
  <2>15. IsDated(deduced, when, Len(gained))
    <3>1. \A x \in Taken(list) : deduced[x].what = list[x].what
      BY <2>10 DEF Taken
    <3> QED
      BY <2>3, <2>11, <3>1 DEF IsDated
  <2>16. \A x \in SureEntries(deduced) : x \in W \/ (x \in SureEntries(list) /\ deduced[x] = list[x])
    BY <2>9 DEF SureEntries
  <2>17. ASSUME NEW x \in W
         PROVE  /\ x \in Taken(list) /\ deduced[x].order = first + below(x)
                /\ deduced[x].order \in 1..paid /\ deduced[x].order >= first
                /\ deduced[x].what = list[x].what
    <3>1. x \in DOMAIN list /\ x \in Taken(list)
      BY <2>2, <2>6
    <3>2. deduced[x].order = first + below(x) /\ deduced[x].what = list[x].what
      BY <2>10, <3>1
    <3> QED
      BY <2>1, <2>4, <2>5, <2>7, <2>8, <3>1, <3>2
  <2>18. \A x \in SureEntries(deduced) :
           /\ x \in Taken(deduced) /\ ~FreeSlot(deduced[x].what, table, granted)
           /\ deduced[x].order \in 1..paid
    <3>1. \A x \in SureEntries(list) :
           /\ x \in Taken(list) /\ ~FreeSlot(list[x].what, table, granted)
           /\ list[x].order \in 1..paid
      BY <1>1 DEF IsListed, paid
    <3> QED
      BY <2>2, <2>11, <2>16, <2>17, <3>1
  <2>19. IsListed(deduced, when, table, granted)
    BY <2>13, <2>14, <2>15, <2>18 DEF IsListed, paid
  <2> DEFINE old == RowMarks(table, at) \cup EntryMarks(list, when)
             new == {<<first + below(x), when[x]>> : x \in W}
  <2>20. RowMarks(table, at) \cup EntryMarks(deduced, when) \subseteq old \cup new
    <3>1. ASSUME NEW x \in SureEntries(deduced) PROVE <<deduced[x].order, when[x]>> \in old \cup new
      <4>1. CASE x \in W
        BY <2>17, <4>1
      <4>2. CASE x \in SureEntries(list) /\ deduced[x] = list[x]
        BY <4>2 DEF EntryMarks
      <4> QED
        BY <2>16, <4>1, <4>2
    <3> HIDE DEF new
    <3> QED
      BY <3>1 DEF EntryMarks
  <2>21. InStep(old \cup new)
    <3>1. \A m \in old : m[1] \in Int /\ m[2] \in Int
      <4>1. ASSUME NEW i \in SureRows(table) PROVE table[i].order \in Int /\ at[i] \in Int
        <5>1. i \in Taken(table) /\ i \in DOMAIN table
          BY DEF SureRows, PaidRows, Paid, Taken
        <5>2. IsRow(table[i]) /\ at[i] \in 1..n
          BY <5>1 DEF IsInOrder, IsTable, IsDated
        <5> QED
          BY <5>2 DEF IsRow
      <4>2. ASSUME NEW x \in SureEntries(list) PROVE list[x].order \in Int /\ when[x] \in Int
        <5>1. x \in DOMAIN list /\ x \in Taken(list)
          BY <1>1 DEF SureEntries, IsListed
        <5> QED
          BY <1>2, <2>3, <5>1 DEF IsEntry
      <4> QED
        BY <4>1, <4>2 DEF RowMarks, EntryMarks
    <3>2. \A m \in old : m[1] < first /\ \A x \in W : m[2] < when[x]
      BY <2>1, <2>5
    <3>3. \A x \in W : /\ first + below(x) \in Int /\ first <= first + below(x)
                       /\ when[x] \in Int
      BY <2>2, <2>3, <2>4, <2>5, <2>7, <2>8
    <3>4. first \in Int /\ \A x \in W : below(x) \in Int
      BY <2>4, <2>5, <2>7, <2>8
    <3>5. \A a, b \in old : a[1] < b[1] <=> a[2] < b[2]
      BY <1>1 DEF InStep
    <3> HIDE DEF old
    <3>6. ASSUME NEW a \in old, NEW x \in W
          PROVE  /\ a[1] < first + below(x) /\ a[2] < when[x]
                 /\ ~(first + below(x) < a[1]) /\ ~(when[x] < a[2])
      <4>1. a[1] \in Int /\ a[2] \in Int /\ a[1] < first /\ a[2] < when[x]
        BY <3>1, <3>2
      <4> QED
        BY <3>3, <3>4, <4>1
    <3>7. ASSUME NEW x \in W, NEW y \in W
          PROVE  first + below(x) < first + below(y) <=> when[x] < when[y]
      <4>1. first \in Int /\ below(x) \in Int /\ below(y) \in Int
        BY <3>4
      <4>2. when[x] < when[y] <=> below(x) < below(y)
        BY <2>8
      <4>3. first + below(x) < first + below(y) <=> below(x) < below(y)
        BY <4>1
      <4> QED
        BY <4>2, <4>3
    <3> QED
      BY <3>5, <3>6, <3>7 DEF InStep
  <2>22. InStep(RowMarks(table, at) \cup EntryMarks(deduced, when))
    <3> HIDE DEF old, new
    <3> QED
      BY <2>20, <2>21 DEF InStep
  <2>23. AreKept(deduced, when, table, at, <<>>)
    <3>1. \A c \in Increase : Cardinality({j \in SureRows(table) : table[j].what = c})
                               <= Cardinality({y \in SureEntries(list) : list[y].what = c})
      BY <1>1, <1>5 DEF AreKept, W
    <3>2. ASSUME NEW c \in Increase
          PROVE  Cardinality({j \in SureRows(table) : table[j].what = c})
                   <= Cardinality({y \in SureEntries(deduced) : deduced[y].what = c})
      <4> DEFINE R == {j \in SureRows(table) : table[j].what = c}
                 S == {y \in SureEntries(list) : list[y].what = c}
                 S2 == {y \in SureEntries(deduced) : deduced[y].what = c}
      <4>1. S \subseteq S2
        <5> SUFFICES ASSUME NEW y \in S PROVE y \in S2
          OBVIOUS
        <5>1. y \in DOMAIN list /\ list[y].confirmed /\ list[y].what = c
          BY DEF SureEntries
        <5>2. y \in DOMAIN deduced /\ deduced[y].what = c /\ deduced[y].confirmed
          <6>1. CASE y \in W
            BY <2>9, <2>10, <5>1, <6>1
          <6>2. CASE y \notin W
            BY <2>9, <5>1, <6>2
          <6> QED
            BY <6>1, <6>2
        <5> QED
          BY <5>2 DEF SureEntries
      <4>2. IsFiniteSet(S2)
        <5>0. DOMAIN deduced = 1..Len(list) /\ Len(list) \in Nat
          BY <1>2, <2>9
        <5>1. S2 \in SUBSET (1..Len(list)) /\ IsFiniteSet(1..Len(list))
          BY <5>0, FS_Interval DEF SureEntries
        <5> HIDE DEF S2
        <5> QED
          BY <5>1, FS_Subset
      <4>3. IsFiniteSet(R)
        <5>1. Len(table) \in Nat /\ DOMAIN table = 1..Len(table)
          BY DEF IsInOrder, IsTable, NamesWhatHeHas
        <5>2. R \in SUBSET (1..Len(table)) /\ IsFiniteSet(1..Len(table))
          BY <5>1, FS_Interval DEF SureRows, PaidRows
        <5> HIDE DEF R
        <5> QED
          BY <5>2, FS_Subset
      <4>4. Cardinality(R) <= Cardinality(S)
        BY <3>1
      <4> HIDE DEF R, S, S2
      <4>5. IsFiniteSet(S) /\ Cardinality(S) <= Cardinality(S2)
        BY <4>1, <4>2, FS_Subset
      <4>6. Cardinality(R) \in Nat /\ Cardinality(S) \in Nat /\ Cardinality(S2) \in Nat
        BY <4>2, <4>3, <4>5, FS_CardinalityType
      <4>7. Cardinality(R) <= Cardinality(S2)
        BY <4>4, <4>5, <4>6
      <4> QED
        BY <4>7 DEF R, S2
    <3> QED
      BY <3>2 DEF AreKept
  <2> QED
    BY <1>3, <2>19, <2>22, <2>23 DEF FitsIn
<1> QED
  BY <1>4, <1>5

\* Nothing is sent less.
LEMMA DeducedSendsAll ==
  ASSUME NEW list, SendsAll(list), NEW waits, NEW first,
         NEW deduced, deduced = Deduced(list, waits, first), IsEntryList(deduced)
  PROVE  SendsAll(deduced)
<1>1. Len(list) \in Nat /\ DOMAIN list = 1..Len(list) /\ \A x \in DOMAIN list : IsEntry(list[x])
  BY DEF SendsAll, IsEntryList, NamesWhatHeHas
<1>2. DOMAIN deduced = DOMAIN list
  BY DEF Deduced
<1>3. ASSUME NEW x \in DOMAIN list PROVE deduced[x].what = list[x].what
  <2>1. CASE x \in DOMAIN waits
    <3>1. deduced[x] = [list[x] EXCEPT
             !.order = first + Cardinality({y \in DOMAIN waits : waits[y] < waits[x]}),
             !.confirmed = TRUE]
      BY <2>1 DEF Deduced
    <3> QED
      BY <3>1
  <2>2. CASE x \notin DOMAIN waits
    BY <2>2 DEF Deduced
  <2> QED
    BY <2>1, <2>2
<1>4. ASSUME NEW p \in DOMAIN gained PROVE SentFor(gained[p], deduced) # {}
  <2>1. PICK x \in DOMAIN list : list[x].what = gained[p]
    BY DEF SendsAll, SentFor
  <2> QED
    BY <1>2, <1>3, <2>1 DEF SentFor
<1> QED
  BY <1>4 DEF SendsAll

\* syncPlayer() of TP: the starting skills and the skills that were gained, each once.
IsRoster(list) ==
  /\ Cardinality(Starting) \in Nat
  /\ Len(list) \in Nat /\ DOMAIN list = 1..Len(list)
  /\ \A x \in DOMAIN list : list[x] \in Starting \cup (Skill \cap Range(gained))
  /\ \A x, y \in DOMAIN list : list[x] = list[y] => x = y
  /\ \A what \in Skill \cap Range(gained) : \E x \in DOMAIN list : list[x] = what

\* A complete report of TP is such a list.
LEMMA RosterIsListed ==
  ASSUME IsReport(gained), NEW list \in SetToAllKPermutations(Skill \cap Range(gained)),
         Range(list) = Skill \cap Range(gained)
  PROVE  IsRoster(StartingList \o list)
<1> DEFINE S == Skill \cap Range(gained)
           first == Cardinality(Starting)
           both == StartingList \o list
<1>1. IsFiniteSet(S)
  <2>1. Len(gained) \in Nat /\ DOMAIN gained = 1..Len(gained)
    BY DEF IsReport
  <2>2. IsFiniteSet(DOMAIN gained)
    BY <2>1, FS_Interval
  <2>3. Range(gained) = {gained[p] : p \in DOMAIN gained}
    BY DEF Range
  <2>4. IsFiniteSet(Range(gained))
    BY <2>2, <2>3, ImageIsFinite
  <2>5. S \in SUBSET Range(gained)
    OBVIOUS
  <2> HIDE DEF S
  <2> QED
    BY <2>4, <2>5, FS_Subset
<1>2. PICK s \in SUBSET S : list \in SetToSeqs(s)
  BY DEF SetToAllKPermutations
<1>3. IsFiniteSet(s) /\ Cardinality(s) \in Nat
  <2> HIDE DEF S
  <2> QED
    BY <1>1, <1>2, FS_Subset, FS_CardinalityType
<1> DEFINE m == Cardinality(s)
<1>4. list \in [1..m -> s] /\ \A x, y \in 1..m : x # y => list[x] # list[y]
  BY <1>2 DEF SetToSeqs
<1> HIDE DEF m
<1>5. m \in Nat /\ list = [x \in 1..m |-> list[x]] /\ \A x \in 1..m : list[x] \in S
  BY <1>3, <1>4 DEF m
<1>6. /\ first \in Nat
      /\ StartingList = [k \in 1..first |-> StartingList[k]]
      /\ \A k \in 1..first : StartingList[k] \in Starting
      /\ \A k, l \in 1..first : StartingList[k] = StartingList[l] => k = l
  BY StartingIsListed
<1> HIDE DEF first
<1>7. /\ Len(both) = first + m /\ DOMAIN both = 1..(first + m)
      /\ \A x \in 1..first : both[x] = StartingList[x]
      /\ \A k \in 1..m : both[first + k] = list[k]
  BY <1>5, <1>6, Appended
<1> HIDE DEF both
<1>8. ASSUME NEW x \in 1..(first + m) PROVE x \in 1..first \/ \E k \in 1..m : x = first + k
  <2>1. ~(x \in 1..first) => x - first \in 1..m /\ x = first + (x - first)
    BY <1>5, <1>6
  <2> QED
    BY <2>1
<1>9. \A what \in S : what \notin Starting
  BY DEF IsReport, Range
<1>10. \A x \in DOMAIN both : both[x] \in Starting \cup S
  BY <1>5, <1>6, <1>7, <1>8
<1>11. ASSUME NEW x \in DOMAIN both, NEW y \in DOMAIN both, both[x] = both[y] PROVE x = y
  <2>1. CASE both[x] \in Starting
    <3>1. \A k \in 1..m : list[k] \notin Starting
      BY <1>5, <1>9
    <3>2. x \in 1..first /\ y \in 1..first
      BY <1>7, <1>8, <1>11, <2>1, <3>1
    <3> QED
      BY <1>6, <1>7, <1>11, <3>2
  <2>2. CASE both[x] \notin Starting
    <3>1. PICK k \in 1..m : x = first + k
      BY <1>6, <1>7, <1>8, <2>2
    <3>2. PICK l \in 1..m : y = first + l
      BY <1>6, <1>7, <1>8, <1>11, <2>2
    <3>3. list[k] = list[l]
      BY <1>7, <1>11, <3>1, <3>2
    <3> QED
      BY <1>4, <3>1, <3>2, <3>3 DEF m
  <2> QED
    BY <2>1, <2>2
<1>12. ASSUME NEW what \in S PROVE \E x \in DOMAIN both : both[x] = what
  <2>1. PICK k \in DOMAIN list : list[k] = what
    BY DEF Range
  <2>2. k \in 1..m
    BY <1>5, <2>1
  <2>3. first + k \in 1..(first + m) /\ both[first + k] = what
    BY <1>5, <1>6, <1>7, <2>1, <2>2
  <2> QED
    BY <1>7, <2>3
<1>13. Len(both) \in Nat /\ DOMAIN both = 1..Len(both)
  BY <1>5, <1>6, <1>7
<1> QED
  BY <1>6, <1>10, <1>11, <1>12, <1>13 DEF IsRoster, both, first

-----------------------------------------------------------------------------
(* What the import plans from what it read, and from a report.                *)

\* How often something was gained.
Times(what) == Cardinality({p \in DOMAIN gained : gained[p] = what})

\* Each time something was gained has its moment.
LEMMA OccurrenceIsThere ==
  ASSUME IsReport(gained), NEW what
  PROVE  /\ Times(what) \in Nat /\ IsFiniteSet({p \in DOMAIN gained : gained[p] = what})
         /\ \A j \in 1..Times(what) :
              /\ Occurrence(what, j) \in DOMAIN gained /\ gained[Occurrence(what, j)] = what
              /\ Cardinality({i \in 1..Occurrence(what, j) : gained[i] = what}) = j
<1> DEFINE P == {p \in DOMAIN gained : gained[p] = what}
<1>1. Len(gained) \in Nat /\ DOMAIN gained = 1..Len(gained)
  BY DEF IsReport
<1>2. P \subseteq Nat /\ IsFiniteSet(P) /\ Cardinality(P) \in Nat /\ Times(what) = Cardinality(P)
  <2>1. P \in SUBSET (1..Len(gained)) /\ IsFiniteSet(1..Len(gained))
    BY <1>1, FS_Interval
  <2>2. P \subseteq Nat
    BY <1>1
  <2>3. Times(what) = Cardinality(P)
    BY DEF Times
  <2> HIDE DEF P
  <2> QED
    BY <2>1, <2>2, <2>3, FS_Subset, FS_CardinalityType
<1>3. ASSUME NEW j \in 1..Times(what)
      PROVE  \E x \in DOMAIN gained :
               gained[x] = what /\ Cardinality({i \in 1..x : gained[i] = what}) = j
  <2>1. j - 1 \in 0..(Cardinality(P) - 1)
    BY <1>2
  <2>2. PICK x \in P : Cardinality({m \in P : m < x}) = j - 1
    <3> HIDE DEF P
    <3>1. \A k \in 0..(Cardinality(P) - 1) : \E x \in P : Cardinality({m \in P : m < x}) = k
      BY <1>2, NumbersHavePlaces
    <3> QED
      BY <2>1, <3>1
  <2> DEFINE Q == {m \in P : m < x}
  <2>3. x \in 1..Len(gained) /\ gained[x] = what
    BY <1>1
  <2>4. {i \in 1..x : gained[i] = what} = Q \cup {x}
    BY <1>1, <2>3
  <2>5. Q \in SUBSET P /\ x \notin Q
    BY <2>3
  <2>6. Cardinality(Q) = j - 1
    BY <2>2
  <2> HIDE DEF P, Q
  <2>7. IsFiniteSet(Q)
    BY <1>2, <2>5, FS_Subset
  <2>8. Cardinality(Q \cup {x}) = Cardinality(Q) + 1
    BY <2>5, <2>7, FS_AddElement
  <2>9. Cardinality({i \in 1..x : gained[i] = what}) = j
    BY <2>4, <2>6, <2>8
  <2> QED
    BY <1>1, <2>3, <2>9
<1>4. ASSUME NEW j \in 1..Times(what)
      PROVE  /\ Occurrence(what, j) \in DOMAIN gained /\ gained[Occurrence(what, j)] = what
             /\ Cardinality({i \in 1..Occurrence(what, j) : gained[i] = what}) = j
  BY <1>3 DEF Occurrence
<1> QED
  BY <1>2, <1>4

\* A skill is gained once.
LEMMA SkillIsThere ==
  ASSUME IsReport(gained), NEW what \in Skill \cap Range(gained)
  PROVE  Occurrence(what, 1) \in DOMAIN gained /\ gained[Occurrence(what, 1)] = what
<1> DEFINE P == {p \in DOMAIN gained : gained[p] = what}
<1>1. PICK p \in DOMAIN gained : gained[p] = what
  BY DEF Range
<1>2. P # {}
  BY <1>1
<1>3. IsFiniteSet(P) /\ Times(what) = Cardinality(P) /\ Times(what) \in Nat
  BY OccurrenceIsThere DEF Times
<1> HIDE DEF P
<1>4. Cardinality(P) # 0
  BY <1>2, <1>3, FS_EmptySet
<1>5. 1 \in 1..Times(what)
  BY <1>3, <1>4
<1> QED
  BY <1>5, OccurrenceIsThere

\* Increases are listed along the stat line, then by number, each once.
LEMMA InLineListsAll ==
  ASSUME NEW S, S \subseteq Nat \X Nat, IsFiniteSet(S)
  PROVE  /\ Cardinality(S) \in Nat
         /\ InLine(S) = [k \in 1..Cardinality(S) |-> InLine(S)[k]]
         /\ \A k \in 1..Cardinality(S) : InLine(S)[k] \in S
         /\ \A k, l \in 1..Cardinality(S) : InLine(S)[k] = InLine(S)[l] => k = l
         /\ \A s \in S : \E k \in 1..Cardinality(S) : InLine(S)[k] = s
         /\ \A k, l \in 1..Cardinality(S) : k < l => ComesBefore(InLine(S)[k], InLine(S)[l])
<1> DEFINE before == [s \in S |-> {t \in S : ComesBefore(t, s)}]
           Place(s) == Cardinality({t \in S : ComesBefore(t, s)})
           f == [s \in S |-> Place(s)]
           n == Cardinality(S)
<1>1. \A s \in S : f[s] = Cardinality(before[s]) /\ f[s] = Place(s)
  OBVIOUS
<1>2. \A s, t \in S : t \in before[s] <=> ComesBefore(t, s)
  OBVIOUS
<1>3. \A s \in S : s[1] \in Nat /\ s[2] \in Nat /\ s = <<s[1], s[2]>>
  OBVIOUS
<1>4. \A s \in S : before[s] \subseteq S
  OBVIOUS
<1>5. n \in Nat
  BY FS_CardinalityType
<1>6. InLine(S) = [k \in 1..n |-> CHOOSE s \in S : Place(s) = k - 1]
  BY DEF InLine
<1> HIDE DEF before, f, n, Place
<1>7. Orders(before, S)
  <2>1. \A s \in S : s \notin before[s]
    BY <1>2, <1>3 DEF ComesBefore
  <2>2. ASSUME NEW s \in S, NEW t \in S, NEW u \in S, ComesBefore(s, t), ComesBefore(t, u)
        PROVE  ComesBefore(s, u)
    <3>1. s[1] \in Int /\ s[2] \in Int /\ t[1] \in Int /\ t[2] \in Int /\ u[1] \in Int /\ u[2] \in Int
      BY <1>3
    <3> QED
      BY <2>2, <3>1 DEF ComesBefore
  <2>3. ASSUME NEW s \in S, NEW t \in S, ~ComesBefore(s, t), ~ComesBefore(t, s)
        PROVE  s = t
    <3>1. s[1] \in Int /\ s[2] \in Int /\ t[1] \in Int /\ t[2] \in Int
      BY <1>3
    <3>2. s[1] = t[1] /\ s[2] = t[2]
      BY <2>3, <3>1 DEF ComesBefore
    <3> QED
      BY <1>3, <3>2
  <2>4. \A s, t, u \in S : s \in before[t] /\ t \in before[u] => s \in before[u]
    BY <1>2, <2>2
  <2>5. \A s, t \in S : s # t => s \in before[t] \/ t \in before[s]
    BY <1>2, <2>3
  <2> QED
    BY <1>4, <2>1, <2>4, <2>5 DEF Orders
<1>8. Counts(f, before, S)
  BY <1>1 DEF Counts
<1>9. /\ \A s \in S : f[s] \in 0..(n - 1)
      /\ \A s, t \in S : s \in before[t] => f[s] < f[t]
      /\ \A k \in 0..(n - 1) : \E s \in S : f[s] = k
  BY <1>7, <1>8, PlacesAreTaken DEF Places, n
<1> DEFINE a == InLine(S)
<1>10. \A k \in 1..n : a[k] \in S /\ f[a[k]] = k - 1
  <2> SUFFICES ASSUME NEW k \in 1..n PROVE a[k] \in S /\ f[a[k]] = k - 1
    OBVIOUS
  <2>1. k - 1 \in 0..(n - 1)
    BY <1>5
  <2>2. \E s \in S : Place(s) = k - 1
    BY <1>1, <1>9, <2>1
  <2>3. a[k] = CHOOSE s \in S : Place(s) = k - 1
    BY <1>6
  <2> QED
    BY <1>1, <2>2, <2>3
<1>11. a = [k \in 1..n |-> a[k]]
  BY <1>6
<1> HIDE DEF a
<1>12. \A s, t \in S : f[s] = f[t] => s = t
  <2> SUFFICES ASSUME NEW s \in S, NEW t \in S, s # t PROVE f[s] # f[t]
    OBVIOUS
  <2>1. s \in before[t] \/ t \in before[s]
    BY <1>7 DEF Orders
  <2>2. f[s] < f[t] \/ f[t] < f[s]
    BY <1>9, <2>1
  <2>3. f[s] \in Int /\ f[t] \in Int
    BY <1>5, <1>9
  <2> QED
    BY <2>2, <2>3
<1>13. \A s \in S : \E k \in 1..n : a[k] = s
  <2> SUFFICES ASSUME NEW s \in S PROVE \E k \in 1..n : a[k] = s
    OBVIOUS
  <2>1. PICK k \in 1..n : k - 1 = f[s]
    <3>1. f[s] \in 0..(n - 1)
      BY <1>9
    <3> DEFINE m == f[s]
    <3>2. m \in 0..(n - 1)
      BY <3>1
    <3> HIDE DEF m
    <3>3. \E k \in 1..n : k - 1 = m
      <4> DEFINE k == m + 1
      <4>1. k \in 1..n /\ k - 1 = m
        BY <1>5, <3>2
      <4> HIDE DEF k
      <4> QED
        BY <4>1
    <3> QED
      BY <3>3 DEF m
  <2>2. a[k] \in S /\ f[a[k]] = f[s]
    BY <1>10, <2>1
  <2> QED
    BY <1>12, <2>2
<1>14. \A k, l \in 1..n : a[k] = a[l] => k = l
  <2> SUFFICES ASSUME NEW k \in 1..n, NEW l \in 1..n, a[k] = a[l] PROVE k = l
    OBVIOUS
  <2>1. k - 1 = l - 1
    BY <1>10
  <2> QED
    BY <1>5, <2>1
<1>15. \A k, l \in 1..n : k < l => ComesBefore(a[k], a[l])
  <2> SUFFICES ASSUME NEW k \in 1..n, NEW l \in 1..n, k < l PROVE ComesBefore(a[k], a[l])
    OBVIOUS
  <2>1. a[k] \in S /\ a[l] \in S /\ f[a[k]] = k - 1 /\ f[a[l]] = l - 1
    BY <1>10
  <2>2. ~(f[a[l]] < f[a[k]]) /\ f[a[k]] # f[a[l]]
    BY <1>5, <2>1
  <2>3. a[l] \notin before[a[k]] /\ a[k] # a[l]
    BY <1>9, <2>1, <2>2
  <2>4. a[k] \in before[a[l]]
    BY <1>7, <2>1, <2>3 DEF Orders
  <2> QED
    BY <1>2, <2>1, <2>4
<1> QED
  BY <1>5, <1>10, <1>11, <1>13, <1>14, <1>15 DEF a, n

\* plannedStored(): the stored rows that the import starts from are those of the first
\* moments, or none that is paid.
IsBase(base, first, table, at) ==
  /\ base \subseteq DOMAIN table
  /\ \A i \in Taken(table) : i \in base /\ table[i].what \in Increase => at[i] \in 1..first
  /\ \A p \in 1..first : \E i \in Taken(table) : i \in base /\ at[i] = p
  /\ \A i \in SureRows(table) : i \in base /\ at[i] \in 1..first
  /\ \A i \in DOMAIN table : i \notin base => Paid(table[i])
  /\ PaidIn(base, table) # {} => base = DOMAIN table

\* What is stored in order is such rows.
LEMMA BaseIsThere ==
  ASSUME NEW table, NEW at, NEW n \in 0..Len(gained), IsInOrder(table, at, n), NEW bulk
  PROVE  \E first \in 0..n : IsBase(Base(bulk, table), first, table, at)
<1> DEFINE active == {i \in DOMAIN table : ~table[i].removed}
           paid == PaidIn(active, table)
<1>1. IsTable(table) /\ (\A i \in DOMAIN table : ~table[i].removed) /\ IsDated(table, at, n)
  BY DEF IsInOrder
<1>2. active = DOMAIN table /\ paid = PaidRows(table)
  BY <1>1 DEF PaidIn, PaidRows
<1>3. \A i \in Taken(table) : table[i].what \in Increase => Paid(table[i])
  BY <1>1 DEF Taken, Paid, IsTable, IsRow
<1>4. \A i \in SureRows(table) : i \in Taken(table) /\ i \in DOMAIN table
  BY DEF SureRows, PaidRows, Paid, Taken
<1>5. Base(bulk, table) = IF bulk /\ ~\E i \in paid : table[i].confirmed
                          THEN DOMAIN table \ PaidRows(table) ELSE DOMAIN table
  BY <1>2 DEF Base
<1>6. CASE bulk /\ ~\E i \in paid : table[i].confirmed
  <2> DEFINE base == DOMAIN table \ PaidRows(table)
  <2>1. Base(bulk, table) = base
    BY <1>5, <1>6
  <2>2. SureRows(table) = {}
    BY <1>2, <1>6 DEF SureRows
  <2>3. \A i \in Taken(table) : ~(i \in base /\ table[i].what \in Increase)
    BY <1>3 DEF PaidRows, Taken
  <2>4. PaidIn(base, table) = {}
    BY DEF PaidIn, PaidRows
  <2>5. \A i \in DOMAIN table : i \notin base => Paid(table[i])
    BY DEF PaidRows
  <2> HIDE DEF base
  <2>6. base \subseteq DOMAIN table
    BY DEF base
  <2>7. IsBase(base, 0, table, at)
    BY <2>2, <2>3, <2>4, <2>5, <2>6 DEF IsBase
  <2>8. 0 \in 0..n
    OBVIOUS
  <2> QED
    BY <2>1, <2>7, <2>8
<1>7. CASE ~(bulk /\ ~\E i \in paid : table[i].confirmed)
  <2>1. Base(bulk, table) = DOMAIN table
    BY <1>5, <1>7
  <2>2. IsBase(DOMAIN table, n, table, at)
    <3>1. /\ \A i \in Taken(table) : i \in DOMAIN table /\ at[i] \in 1..n
          /\ \A p \in 1..n : \E i \in Taken(table) : at[i] = p
      BY <1>1 DEF IsDated, Taken
    <3> QED
      BY <1>4, <3>1 DEF IsBase
  <2>3. n \in 0..n
    OBVIOUS
  <2> QED
    BY <2>1, <2>2, <2>3
<1> QED
  BY <1>6, <1>7

\* The increases of a complete report.
IsCounted(counts) == \A c \in Increase : counts[c] = Times(c)

\* They are finitely many, each one a time that a characteristic was gained.
LEMMA CountedPairs ==
  ASSUME IsReport(gained), NEW counts, IsCounted(counts)
  PROVE  /\ Counted(counts) \subseteq Nat \X Nat /\ IsFiniteSet(Counted(counts))
         /\ \A s \in Counted(counts) :
              /\ s = <<s[1], s[2]>> /\ s[1] \in DOMAIN Characteristic
              /\ Characteristic[s[1]] \in Increase
              /\ s[2] \in 1..Times(Characteristic[s[1]])
         /\ \A k \in DOMAIN Characteristic : \A j \in 1..Times(Characteristic[k]) :
              <<k, j>> \in Counted(counts)
<1> DEFINE S == Counted(counts)
           last == Len(Characteristic)
           N == Len(gained)
<1>1. last \in Nat /\ DOMAIN Characteristic = 1..last
  BY CharacteristicsAreListed
<1>2. \A k \in DOMAIN Characteristic : Characteristic[k] \in Increase
  BY DEF Increase, Range
<1>3. N \in Nat /\ DOMAIN gained = 1..N
  BY DEF IsReport
<1>4. ASSUME NEW c \in Increase PROVE Times(c) \in 0..N
  <2> DEFINE P == {p \in DOMAIN gained : gained[p] = c}
  <2>1. P \in SUBSET (1..N) /\ IsFiniteSet(1..N) /\ Cardinality(1..N) <= N
    <3>1. IsFiniteSet(1..N) /\ Cardinality(1..N) = IF 1 > N THEN 0 ELSE N - 1 + 1
      BY <1>3, FS_Interval
    <3>2. Cardinality(1..N) = N
      BY <1>3, <3>1
    <3> QED
      BY <1>3, <3>1, <3>2
  <2>2. Times(c) = Cardinality(P) /\ Times(c) \in Nat
    BY OccurrenceIsThere DEF Times
  <2>3. Cardinality(1..N) \in Nat
    BY <2>1, FS_CardinalityType
  <2> HIDE DEF P
  <2>4. Cardinality(P) <= Cardinality(1..N)
    BY <2>1, FS_Subset
  <2> HIDE DEF N
  <2> QED
    BY <1>3, <2>1, <2>2, <2>3, <2>4
<1>5. ASSUME NEW k \in DOMAIN Characteristic
      PROVE  counts[Characteristic[k]] = Times(Characteristic[k])
  BY <1>2 DEF IsCounted
<1>6. ASSUME NEW s \in S
      PROVE  \E k \in DOMAIN Characteristic : \E j \in 1..Times(Characteristic[k]) : s = <<k, j>>
  <2>1. PICK k \in DOMAIN Characteristic : s \in {k} \X (1..counts[Characteristic[k]])
    BY DEF Counted
  <2>2. s \in {k} \X (1..Times(Characteristic[k]))
    BY <1>5, <2>1
  <2> QED
    BY <2>2
<1>7. ASSUME NEW k \in DOMAIN Characteristic, NEW j \in 1..Times(Characteristic[k])
      PROVE  <<k, j>> \in S
  <2>1. <<k, j>> \in {k} \X (1..counts[Characteristic[k]])
    BY <1>5
  <2> QED
    BY <2>1 DEF Counted
<1> HIDE DEF S
<1>8. ASSUME NEW s \in S
      PROVE  /\ s = <<s[1], s[2]>> /\ s[1] \in DOMAIN Characteristic
             /\ Characteristic[s[1]] \in Increase /\ s[2] \in 1..Times(Characteristic[s[1]])
             /\ s \in (1..last) \X (1..N)
  <2>0. PICK k \in DOMAIN Characteristic : \E j \in 1..Times(Characteristic[k]) : s = <<k, j>>
    BY <1>6
  <2>1. PICK j \in 1..Times(Characteristic[k]) : s = <<k, j>>
    BY <2>0
  <2>2. s[1] = k /\ s[2] = j
    BY <2>1
  <2>3. Characteristic[k] \in Increase /\ Times(Characteristic[k]) \in 0..N
    BY <1>2, <1>4
  <2>4. k \in 1..last /\ j \in 1..N
    BY <1>1, <1>3, <2>3
  <2> QED
    BY <2>1, <2>2, <2>3, <2>4
<1>9. IsFiniteSet(S)
  <2> DEFINE A == 1..last
             B == 1..N
  <2>1. IsFiniteSet(A) /\ IsFiniteSet(B)
    BY <1>1, <1>3, FS_Interval
  <2>2. S \in SUBSET (A \X B)
    BY <1>8
  <2> HIDE DEF A, B
  <2>3. IsFiniteSet(A \X B)
    BY <2>1, FS_Product
  <2> QED
    BY <2>2, <2>3, FS_Subset
<1>10. S \subseteq Nat \X Nat
  <2>1. (1..last) \X (1..N) \subseteq Nat \X Nat
    BY <1>1, <1>3
  <2> QED
    BY <1>8, <2>1
<1> QED
  BY <1>7, <1>8, <1>9, <1>10 DEF S

\* An increase that is stored has a row, best first; one that is not is the next of its
\* characteristic.
MomentOf(c, j, base, table, at) ==
  IF j <= Cardinality(Of(c, base, table))
  THEN at[AtPlace(j - 1, Of(c, base, table), table)] ELSE Occurrence(c, j)

\* Every increase of one characteristic has such a moment, each one another.
LEMMA MomentsOfOne ==
  ASSUME IsReport(gained), NEW table, NEW at, NEW n \in 0..Len(gained), IsInOrder(table, at, n),
         NEW base, NEW first \in 0..n, IsBase(base, first, table, at),
         NEW c \in Increase
  PROVE  /\ IsFiniteSet(Of(c, base, table)) /\ Cardinality(Of(c, base, table)) \in 0..Times(c)
         /\ Times(c) \in Nat
         /\ \A j \in 1..Times(c) : MomentOf(c, j, base, table, at) \in DOMAIN gained
                              /\ gained[MomentOf(c, j, base, table, at)] = c
         /\ \A i, j \in 1..Times(c) :
              MomentOf(c, i, base, table, at) = MomentOf(c, j, base, table, at) => i = j
         /\ \A p \in DOMAIN gained : gained[p] = c =>
              \E j \in 1..Times(c) : MomentOf(c, j, base, table, at) = p
         /\ \A j \in 1..Times(c) : j <= Cardinality(Of(c, base, table)) =>
              /\ AtPlace(j - 1, Of(c, base, table), table) \in Of(c, base, table)
              /\ PlaceOf(AtPlace(j - 1, Of(c, base, table), table), Of(c, base, table), table) = j - 1
              /\ MomentOf(c, j, base, table, at) = at[AtPlace(j - 1, Of(c, base, table), table)]
              /\ MomentOf(c, j, base, table, at) <= first
         /\ \A j \in 1..Times(c) : ~(j <= Cardinality(Of(c, base, table))) =>
              MomentOf(c, j, base, table, at) = Occurrence(c, j)
              /\ first < MomentOf(c, j, base, table, at)
<1> DEFINE when == [j \in 1..Times(c) |-> MomentOf(c, j, base, table, at)]
           S == Of(c, base, table)
           q == Cardinality(S)
           T == Times(c)
           P == {p \in DOMAIN gained : gained[p] = c}
           Q == {p \in 1..first : gained[p] = c}
<1>1. /\ IsTable(table) /\ IsDated(table, at, n) /\ Len(gained) \in Nat /\ n \in Nat /\ first \in Nat
      /\ DOMAIN gained = 1..Len(gained) /\ first <= Len(gained)
  BY DEF IsInOrder, IsReport
<1>2. DOMAIN table = 1..Len(table) /\ Len(table) \in Nat /\ \A i \in DOMAIN table : table[i].order \in Int
  BY <1>1 DEF IsTable, NamesWhatHeHas, IsRow
<1>3. S \subseteq DOMAIN table /\ \A i \in S : i \in Taken(table) /\ i \in base /\ table[i].what = c
  <2>1. c \notin Starting
    BY KindsDiffer, SkillsAreSorted
  <2> QED
    BY <2>1 DEF Of, IsBase, Taken
<1>4. IsFiniteSet(S) /\ S \subseteq Nat /\ q \in Nat
  <2>1. IsFiniteSet(1..Len(table)) /\ S \in SUBSET (1..Len(table))
    BY <1>2, <1>3, FS_Interval
  <2>2. S \subseteq Nat
    BY <2>1
  <2> HIDE DEF S
  <2>3. IsFiniteSet(S)
    BY <2>1, FS_Subset
  <2> QED
    BY <2>2, <2>3, FS_CardinalityType
<1>5. /\ T = Cardinality(P) /\ T \in Nat /\ IsFiniteSet(P)
      /\ \A j \in 1..T : /\ Occurrence(c, j) \in DOMAIN gained /\ gained[Occurrence(c, j)] = c
                         /\ Cardinality({i \in 1..Occurrence(c, j) : gained[i] = c}) = j
  BY OccurrenceIsThere DEF Times
<1>6. Q \subseteq P
  BY <1>1
<1>7. IsFiniteSet(Q) /\ Cardinality(Q) <= T
  <2> HIDE DEF P, Q
  <2> QED
    BY <1>5, <1>6, FS_Subset
<1>8. \A i \in S : at[i] \in Q
  <2> SUFFICES ASSUME NEW i \in S PROVE at[i] \in Q
    OBVIOUS
  <2>1. at[i] \in 1..first
    BY <1>3 DEF IsBase
  <2>2. gained[at[i]] = c
    BY <1>1, <1>3 DEF IsDated
  <2> QED
    BY <2>1, <2>2
<1>9. \A i, j \in S : at[i] = at[j] => i = j
  BY <1>1, <1>3 DEF IsDated
<1>10. \A p \in Q : \E i \in S : at[i] = p
  <2> SUFFICES ASSUME NEW p \in Q PROVE \E i \in S : at[i] = p
    OBVIOUS
  <2>1. PICK i \in Taken(table) : i \in base /\ at[i] = p
    BY DEF IsBase
  <2>2. table[i].what = c
    BY <1>1, <2>1 DEF IsDated
  <2>3. i \in S
    BY <2>1, <2>2 DEF Of
  <2> QED
    BY <2>1, <2>3
<1>11. q = Cardinality(Q)
  <2> HIDE DEF S, Q
  <2> QED
    BY <1>7, <1>8, <1>9, <1>10, AsMany
<1>12. q \in 0..T
  <2> HIDE DEF S, T, Q, q
  <2> QED
    BY <1>4, <1>5, <1>7, <1>11
<1>13. \A k \in 0..(q - 1) : AtPlace(k, S, table) \in S /\ PlaceOf(AtPlace(k, S, table), S, table) = k
  <2>1. \A i \in S : table[i].order \in Int
    BY <1>2, <1>3
  <2> HIDE DEF S
  <2> QED
    BY <1>4, <2>1, PlacesOfRows
<1>14. \A j \in 1..T : when[j] = IF j <= q THEN at[AtPlace(j - 1, S, table)] ELSE Occurrence(c, j)
  BY DEF MomentOf
<1>21. \A j \in 1..T : when[j] = MomentOf(c, j, base, table, at)
  OBVIOUS
<1> HIDE DEF S, P, Q, q, T, when
<1>15. ASSUME NEW j \in 1..T, j <= q
       PROVE  /\ AtPlace(j - 1, S, table) \in S /\ PlaceOf(AtPlace(j - 1, S, table), S, table) = j - 1
              /\ when[j] = at[AtPlace(j - 1, S, table)] /\ when[j] \in Q
  <2>1. j - 1 \in 0..(q - 1)
    BY <1>4, <1>5, <1>15
  <2> QED
    BY <1>8, <1>13, <1>14, <1>15, <2>1
<1>16. ASSUME NEW j \in 1..T, ~(j <= q)
       PROVE  when[j] = Occurrence(c, j) /\ when[j] \in P /\ first < when[j]
  <2> DEFINE o == Occurrence(c, j)
             B == {i \in 1..o : gained[i] = c}
  <2>1. when[j] = o
    BY <1>14, <1>16
  <2>2. o \in 1..Len(gained) /\ gained[o] = c /\ Cardinality(B) = j
    BY <1>1, <1>5
  <2>3. o \in P
    BY <1>1, <2>2 DEF P
  <2>4. ASSUME o <= first PROVE FALSE
    <3>1. B \subseteq Q
      BY <1>1, <2>2, <2>4 DEF Q
    <3> HIDE DEF B
    <3>2. Cardinality(B) <= Cardinality(Q)
      BY <1>7, <3>1, FS_Subset
    <3>3. j <= q
      BY <1>11, <2>2, <3>2
    <3> QED
      BY <1>16, <3>3
  <2> QED
    BY <1>1, <2>1, <2>2, <2>3, <2>4
<1>17. \A j \in 1..T : when[j] \in P
  BY <1>6, <1>15, <1>16
<1>18. \A i, j \in 1..T : when[i] = when[j] => i = j
  <2> SUFFICES ASSUME NEW i \in 1..T, NEW j \in 1..T, when[i] = when[j] PROVE i = j
    OBVIOUS
  <2>0. i \in Int /\ j \in Int
    BY <1>5
  <2>1. \A p \in Q : p \in Int /\ p <= first
    BY <1>1 DEF Q
  <2>2. CASE i <= q /\ j <= q
    <3>1. AtPlace(i - 1, S, table) = AtPlace(j - 1, S, table)
      BY <1>9, <1>15, <2>2
    <3>2. i - 1 = j - 1
      BY <1>15, <2>2, <3>1
    <3> QED
      BY <2>0, <3>2
  <2>3. CASE ~(i <= q) /\ ~(j <= q)
    <3>1. Occurrence(c, i) = Occurrence(c, j)
      BY <1>16, <2>3
    <3> QED
      BY <1>5, <3>1
  <2>4. CASE i <= q /\ ~(j <= q)
    <3>1. when[i] <= first /\ first < when[j] /\ when[i] \in Int
      BY <1>15, <1>16, <2>1, <2>4
    <3> QED
      BY <1>1, <3>1
  <2>5. CASE ~(i <= q) /\ j <= q
    <3>1. when[j] <= first /\ first < when[i] /\ when[j] \in Int
      BY <1>15, <1>16, <2>1, <2>5
    <3> QED
      BY <1>1, <3>1
  <2> QED
    BY <2>2, <2>3, <2>4, <2>5
<1>19. \A p \in P : \E j \in 1..T : when[j] = p
  <2>1. when \in [1..T -> P]
    <3> DEFINE m(j) == MomentOf(c, j, base, table, at)
    <3>1. when = [j \in 1..T |-> m(j)]
      BY DEF T, when
    <3> HIDE DEF m
    <3> QED
      BY <1>17, <3>1
  <2>2. when \in Injection(1..T, P)
    BY <1>18, <2>1, Fun_IsInj, Zenon
  <2>3. Cardinality(1..T) = Cardinality(P)
    <3>0. T \in Int /\ 1 \in Int
      BY <1>5
    <3>1. Cardinality(1..T) = (IF 1 > T THEN 0 ELSE T - 1 + 1)
      BY <3>0, FS_Interval
    <3>2. Cardinality(1..T) = T
      BY <1>5, <3>1
    <3> QED
      BY <1>5, <3>2
  <2>4. when \in Surjection(1..T, P)
    BY <1>5, <2>2, <2>3, FS_Injection
  <2> QED
    BY <2>4 DEF Surjection
<1>20. \A p \in Q : p <= first
  BY <1>1 DEF Q
<1>22. \A j \in 1..T : j <= q => when[j] <= first
  BY <1>15, <1>20
<1>23. \A j \in 1..T : when[j] \in DOMAIN gained /\ gained[when[j]] = c
  BY <1>17 DEF P
<1>24. \A p \in DOMAIN gained : gained[p] = c => \E j \in 1..T : when[j] = p
  BY <1>19 DEF P
<1> HIDE DEF when
<1> DEFINE m(j) == MomentOf(c, j, base, table, at)
<1> HIDE DEF m
<1>25. \A j \in 1..T : when[j] = m(j)
  BY <1>21 DEF m
<1>26. /\ \A j \in 1..T : m(j) \in DOMAIN gained /\ gained[m(j)] = c
       /\ \A i, j \in 1..T : m(i) = m(j) => i = j
  BY <1>18, <1>23, <1>25
<1>27. \A p \in DOMAIN gained : gained[p] = c => \E j \in 1..T : m(j) = p
  BY <1>24, <1>25
<1>28. \A j \in 1..T : j <= q =>
         /\ AtPlace(j - 1, S, table) \in S /\ PlaceOf(AtPlace(j - 1, S, table), S, table) = j - 1
         /\ m(j) = at[AtPlace(j - 1, S, table)] /\ m(j) <= first
  BY <1>15, <1>22, <1>25
<1>29. \A j \in 1..T : ~(j <= q) => m(j) = Occurrence(c, j) /\ first < m(j)
  BY <1>16, <1>25
<1> QED
  BY <1>4, <1>5, <1>12, <1>26, <1>27, <1>28, <1>29 DEF S, q, T, m

\* The moment of the increase s.
Moment(s, base, table, at) == MomentOf(Characteristic[s[1]], s[2], base, table, at)

\* The increase that an entry after the skills is for.
PairAt(x, p) ==
  LET skills == Len(p.list)
      kept == Cardinality(p.again)
  IN IF x <= skills + kept THEN InLine(p.again)[x - skills]
     ELSE InLine(p.added)[x - skills - kept]

\* A function, as the entries have to be to be told from their members.
IsFunction(f) == f = [x \in DOMAIN f |-> f[x]]

\* liveEntries(): what it worked out from a complete report, and the entries.
IsLive(p, table, at) ==
  LET skills == Len(p.list)
      kept == Cardinality(p.again)
      size == skills + kept + Cardinality(p.added)
      first == FirstNumber(p.base, table)
  IN
  /\ p.n \in 0..Len(gained) /\ IsInOrder(table, at, p.n)
  /\ p.upto \in 0..p.n /\ IsBase(p.base, p.upto, table, at)
  /\ IsRoster(p.list) /\ IsCounted(p.counts)
  /\ p.listed \in BOOLEAN /\ p.sure \in BOOLEAN /\ p.waits \in BOOLEAN
  /\ p.again = Counted(p.counts) \ p.added
  /\ p.listed => p.new = {} /\ p.added = {} /\ p.base = DOMAIN table
  /\ ~p.listed => /\ p.new = NewSkills(p.list, p.base, table)
                  /\ p.added = Added(p.counts, p.base, table)
  /\ p.sure => ~p.waits /\ ~p.listed /\ Cardinality(p.new) + Cardinality(p.added) <= 1
  /\ Len(p.entries) = size /\ DOMAIN p.entries = 1..size
  /\ IsFunction(p.entries)
  /\ \A x \in 1..skills : p.entries[x] =
       [what |-> p.list[x],
        order |-> IF p.list[x] \in Starting THEN 0
                  ELSE IF x \in p.new THEN first + Cardinality({y \in p.new : y < x})
                  ELSE x - Cardinality(Starting),
        confirmed |-> x \in p.new /\ p.sure]
  /\ \A k \in 1..kept : p.entries[skills + k] =
       IF p.listed THEN Unordered(InLine(p.again)[k]) ELSE Again(InLine(p.again)[k], p.base, table)
  /\ \A k \in 1..Cardinality(p.added) : p.entries[skills + kept + k] =
       [what |-> Characteristic[InLine(p.added)[k][1]],
        order |-> first + Cardinality(p.new) + k - 1, confirmed |-> p.sure]
  /\ DOMAIN p.pending =
       IF p.waits THEN p.new \cup {skills + kept + k : k \in 1..Cardinality(p.added)} ELSE {}
  /\ \A x \in DOMAIN p.pending : p.pending[x] =
       IF x \in p.new THEN Occurrence(p.list[x], 1)
       ELSE Occurrence(Characteristic[PairAt(x, p)[1]], PairAt(x, p)[2])

\* A complete report makes such entries.
LEMMA LiveIsMade ==
  ASSUME IsReport(gained), NEW table, NEW at, NEW n \in 0..Len(gained), IsInOrder(table, at, n),
         NEW check \in BOOLEAN, NEW bulk \in BOOLEAN, NEW list, IsRoster(list),
         NEW counts, IsCounted(counts), NEW plan, plan = LiveEntries(list, counts, check, bulk, table)
  PROVE  \E p : IsLive(p, table, at) /\ p.entries = plan.entries /\ p.pending = plan.pending
<1> DEFINE base == Base(bulk, table)
           asListed == AsListed(bulk, base, table)
           baseline == ~bulk /\ base # {}
           new == IF asListed THEN {} ELSE NewSkills(list, base, table)
           added == IF asListed THEN {} ELSE Added(counts, base, table)
           waits == Waits(check, baseline, Cardinality(new) + Cardinality(added))
           sure == baseline /\ ~waits
           first == FirstNumber(base, table)
           rest == Counted(counts) \ added
           again == InLine(rest)
           above == InLine(added)
           skill(x) == [what |-> list[x],
              order |-> IF list[x] \in Starting THEN 0
                        ELSE IF x \in new THEN first + Cardinality({y \in new : y < x})
                        ELSE x - Cardinality(Starting),
              confirmed |-> x \in new /\ sure]
           keep(k) == IF asListed THEN Unordered(again[k]) ELSE Again(again[k], base, table)
           increase(k) == [what |-> Characteristic[above[k][1]],
              order |-> first + Cardinality(new) + k - 1, confirmed |-> sure]
           skills == [x \in DOMAIN list |-> skill(x)]
           kept == [k \in DOMAIN again |-> keep(k)]
           increases == [k \in DOMAIN above |-> increase(k)]
           before == Len(skills) + Len(kept)
           waiting == IF waits THEN new \cup {before + k : k \in DOMAIN above} ELSE {}
           takenAt(x) == IF x \in new THEN Occurrence(list[x], 1)
                         ELSE LET s == above[x - before] IN Occurrence(Characteristic[s[1]], s[2])
           a == Len(list)
           b == Cardinality(rest)
           d == Cardinality(added)
<1>1. plan = [entries |-> skills \o kept \o increases, pending |-> [x \in waiting |-> takenAt(x)]]
  BY DEF LiveEntries
<1>2. PICK upto \in 0..n : IsBase(base, upto, table, at)
  BY BaseIsThere
<1>3. /\ Counted(counts) \subseteq Nat \X Nat /\ IsFiniteSet(Counted(counts))
  BY CountedPairs
<1>4. added \subseteq Counted(counts)
  BY DEF Added
<1>5. rest \in SUBSET Counted(counts) /\ added \in SUBSET Counted(counts)
  BY <1>4
<1>6. IsFiniteSet(rest) /\ IsFiniteSet(added) /\ rest \subseteq Nat \X Nat /\ added \subseteq Nat \X Nat
  <2> HIDE DEF rest, added
  <2> QED
    BY <1>3, <1>5, FS_Subset
<1>7. /\ b \in Nat /\ d \in Nat
      /\ again = [k \in 1..b |-> again[k]] /\ above = [k \in 1..d |-> above[k]]
  <2> HIDE DEF rest, added
  <2> QED
    BY <1>6, InLineListsAll
<1>8. DOMAIN again = 1..b /\ DOMAIN above = 1..d
  <2> HIDE DEF again, above, b, d
  <2> QED
    BY <1>7
<1>9. a \in Nat /\ DOMAIN list = 1..a
  BY DEF IsRoster
<1>10. asListed \in BOOLEAN /\ sure \in BOOLEAN /\ waits \in BOOLEAN
  BY DEF AsListed, Waits
<1>11. asListed => bulk /\ base = DOMAIN table
  BY <1>2 DEF AsListed, IsBase
<1>12. sure => ~waits /\ ~asListed /\ Cardinality(new) + d <= 1
  <2>1. IsFiniteSet(new)
    <3>1. new \in SUBSET (1..a) /\ IsFiniteSet(1..a)
      BY <1>9, FS_Interval DEF NewSkills
    <3> HIDE DEF new
    <3> QED
      BY <3>1, FS_Subset
  <2>2. Cardinality(new) \in Nat
    <3> HIDE DEF new
    <3> QED
      BY <2>1, FS_CardinalityType
  <2> SUFFICES ASSUME sure PROVE ~waits /\ ~asListed /\ Cardinality(new) + d <= 1
    OBVIOUS
  <2>3. ~waits /\ baseline /\ ~asListed
    BY <1>11
  <2>4. ~(Cardinality(new) + d > 1)
    <3> DEFINE m == Cardinality(new) + d
    <3>1. waits = Waits(check, baseline, m)
      OBVIOUS
    <3> HIDE DEF m, waits, baseline, sure, new, added, d
    <3>2. ~(m > 1)
      BY <2>3, <3>1 DEF Waits
    <3> QED
      BY <3>2 DEF m
  <2> HIDE DEF new, d
  <2> QED
    BY <1>7, <2>2, <2>3, <2>4
<1> HIDE DEF base, asListed, baseline, new, added, waits, sure, first, rest, again, above, a, b, d
<1> HIDE DEF skill, keep, increase
<1>13. /\ Len(skills) = a /\ Len(kept) = b
       /\ skills = [x \in 1..a |-> skills[x]] /\ kept = [k \in 1..b |-> kept[k]]
       /\ increases = [k \in 1..d |-> increases[k]]
       /\ \A x \in 1..a : skills[x] = skill(x)
       /\ \A k \in 1..b : kept[k] = keep(k)
       /\ \A k \in 1..d : increases[k] = increase(k)
  BY <1>7, <1>8, <1>9
<1>14. before = a + b
  BY <1>13
<1>15. waiting = IF waits THEN new \cup {a + b + k : k \in 1..d} ELSE {}
  BY <1>8, <1>14
<1> DEFINE E == skills \o kept \o increases
           size == a + b + d
<1> HIDE DEF skills, kept, increases, before
<1>16. /\ Len(E) = size /\ DOMAIN E = 1..size
       /\ \A x \in 1..a : E[x] = skill(x)
       /\ \A k \in 1..b : E[a + k] = keep(k)
       /\ \A k \in 1..d : E[a + b + k] = increase(k)
  <2> DEFINE f == skills \o kept
  <2>1. /\ Len(f) = a + b /\ DOMAIN f = 1..(a + b)
        /\ \A x \in 1..a : f[x] = skills[x]
        /\ \A k \in 1..b : f[a + k] = kept[k]
    BY <1>7, <1>9, <1>13, Appended
  <2>2. f = [x \in 1..(a + b) |-> f[x]]
    BY <1>7, <1>9, <1>13
  <2>3. a + b \in Nat
    BY <1>7, <1>9
  <2> HIDE DEF f
  <2>4. /\ Len(f \o increases) = a + b + d /\ DOMAIN (f \o increases) = 1..(a + b + d)
        /\ \A x \in 1..(a + b) : (f \o increases)[x] = f[x]
        /\ \A k \in 1..d : (f \o increases)[a + b + k] = increases[k]
    BY <1>7, <1>13, <2>2, <2>3, Appended
  <2>5. E = f \o increases
    BY DEF f
  <2>6. \A x \in 1..a : x \in 1..(a + b)
    BY <1>7, <1>9
  <2>7. \A k \in 1..b : a + k \in 1..(a + b)
    BY <1>7, <1>9
  <2>8. \A x \in 1..a : f[x] = skills[x]
    BY <2>1
  <2> HIDE DEF E
  <2>9. \A x \in 1..a : E[x] = skill(x)
    BY <1>13, <2>4, <2>5, <2>6, <2>8
  <2>10. \A k \in 1..b : E[a + k] = keep(k)
    BY <1>13, <2>1, <2>4, <2>5, <2>7
  <2>11. \A k \in 1..d : E[a + b + k] = increase(k)
    <3>1. \A k \in 1..d : E[a + b + k] = increases[k] /\ increases[k] = increase(k)
      BY <1>13, <2>4, <2>5
    <3> QED
      BY <3>1
  <2>12. Len(E) = size /\ DOMAIN E = 1..size
    BY <2>4, <2>5
  <2> QED
    BY <2>9, <2>10, <2>11, <2>12
<1>16a. IsFunction(E)
  <2> DEFINE f == skills \o kept
  <2>1. f = [x \in 1..(a + b) |-> f[x]] /\ Len(f) = a + b
    BY <1>7, <1>9, <1>13
  <2> HIDE DEF f
  <2>2. E = f \o increases
    BY DEF f
  <2>3. a + b \in Nat /\ d \in Nat
    BY <1>7, <1>9
  <2>4. f \o increases = [x \in 1..(a + b + d) |-> (f \o increases)[x]]
    BY <1>13, <2>1, <2>3, AppendedIsFunction
  <2> HIDE DEF E
  <2>5. E = [x \in 1..size |-> E[x]]
    BY <2>2, <2>4
  <2> QED
    BY <1>16, <2>5 DEF IsFunction
<1> DEFINE p == [n |-> n, upto |-> upto, base |-> base, list |-> list, counts |-> counts,
                 new |-> new, added |-> added, again |-> rest, listed |-> asListed,
                 sure |-> sure, waits |-> waits, entries |-> plan.entries,
                 pending |-> plan.pending]
<1>17. plan.entries = E /\ plan.pending = [x \in waiting |-> takenAt(x)]
  <2> HIDE DEF E, waiting, takenAt
  <2> QED
    BY <1>1 DEF E
<1>18. /\ p.n = n /\ p.upto = upto /\ p.base = base /\ p.list = list /\ p.counts = counts
       /\ p.new = new /\ p.added = added /\ p.again = rest /\ p.listed = asListed
       /\ p.sure = sure /\ p.waits = waits /\ p.entries = plan.entries /\ p.pending = plan.pending
  OBVIOUS
<1> HIDE DEF p, E, waiting
<1>19. /\ \A k \in 1..d : PairAt(a + b + k, p) = above[k]
       /\ Len(p.list) = a /\ Cardinality(p.again) = b
       /\ Cardinality(p.added) = d /\ InLine(p.again) = again /\ InLine(p.added) = above
       /\ FirstNumber(p.base, table) = first
  <2>1. /\ Len(p.list) = a /\ Cardinality(p.again) = b
        /\ Cardinality(p.added) = d /\ InLine(p.again) = again /\ InLine(p.added) = above
        /\ FirstNumber(p.base, table) = first
    BY <1>18 DEF a, b, d, again, above, first
  <2>2. ASSUME NEW k \in 1..d PROVE PairAt(a + b + k, p) = above[k]
    <3> DEFINE x == a + b + k
    <3>1. ~(x <= a + b) /\ x - a - b = k
      BY <1>7, <1>9
    <3>2. PairAt(x, p) = IF x <= Len(p.list) + Cardinality(p.again)
                         THEN InLine(p.again)[x - Len(p.list)]
                         ELSE InLine(p.added)[x - Len(p.list) - Cardinality(p.again)]
      BY DEF PairAt
    <3> HIDE DEF x
    <3>3. PairAt(x, p) = above[k]
      BY <2>1, <3>1, <3>2
    <3> QED
      BY <3>3 DEF x
  <2> QED
    BY <2>1, <2>2
<1>20. /\ DOMAIN plan.pending = waiting
       /\ \A x \in waiting : plan.pending[x] =
            IF x \in new THEN Occurrence(list[x], 1)
            ELSE Occurrence(Characteristic[PairAt(x, p)[1]], PairAt(x, p)[2])
  <2>1. DOMAIN plan.pending = waiting /\ \A x \in waiting : plan.pending[x] = takenAt(x)
    <3> HIDE DEF takenAt
    <3> QED
      BY <1>17
  <2>2. ASSUME NEW x \in waiting, x \notin new
        PROVE  takenAt(x) = Occurrence(Characteristic[PairAt(x, p)[1]], PairAt(x, p)[2])
    <3>1. PICK k \in 1..d : x = a + b + k
      BY <1>15, <2>2 DEF waiting
    <3>2. x - before = k
      BY <1>7, <1>9, <1>14, <3>1
    <3>3. PairAt(x, p) = above[k]
      BY <1>19, <3>1
    <3> QED
      BY <2>2, <3>2, <3>3
  <2>3. ASSUME NEW x \in waiting, x \in new PROVE takenAt(x) = Occurrence(list[x], 1)
    BY <2>3
  <2> HIDE DEF takenAt
  <2> QED
    BY <2>1, <2>2, <2>3
<1>21. /\ asListed => new = {} /\ added = {} /\ base = DOMAIN table
       /\ ~asListed => new = NewSkills(list, base, table) /\ added = Added(counts, base, table)
       /\ rest = Counted(counts) \ added
  BY <1>11 DEF new, added, rest
<1>22. waiting = IF waits THEN new \cup {a + b + k : k \in 1..d} ELSE {}
  BY <1>15
<1>23. IsLive(p, table, at)
  <2>1. /\ p.n \in 0..Len(gained) /\ IsInOrder(table, at, p.n)
        /\ p.upto \in 0..p.n /\ IsBase(p.base, p.upto, table, at)
        /\ IsRoster(p.list) /\ IsCounted(p.counts)
        /\ p.listed \in BOOLEAN /\ p.sure \in BOOLEAN /\ p.waits \in BOOLEAN
    BY <1>2, <1>10, <1>18
  <2>2. /\ p.again = Counted(p.counts) \ p.added
        /\ p.listed => p.new = {} /\ p.added = {} /\ p.base = DOMAIN table
        /\ ~p.listed => /\ p.new = NewSkills(p.list, p.base, table)
                        /\ p.added = Added(p.counts, p.base, table)
    BY <1>18, <1>21
  <2>3. p.sure => ~p.waits /\ ~p.listed /\ Cardinality(p.new) + Cardinality(p.added) <= 1
    BY <1>12, <1>18, <1>19
  <2>4. /\ p.entries = E /\ Len(p.list) + Cardinality(p.again) + Cardinality(p.added) = size
        /\ Len(p.list) = a /\ Cardinality(p.again) = b /\ Cardinality(p.added) = d
    BY <1>17, <1>18, <1>19
  <2>5. \A x \in 1..a : p.entries[x] =
          [what |-> p.list[x],
           order |-> IF p.list[x] \in Starting THEN 0
                     ELSE IF x \in p.new THEN FirstNumber(p.base, table) + Cardinality({y \in p.new : y < x})
                     ELSE x - Cardinality(Starting),
           confirmed |-> x \in p.new /\ p.sure]
    BY <1>16, <1>18, <1>19, <2>4 DEF skill
  <2>6. \A k \in 1..b : p.entries[a + k] =
          IF p.listed THEN Unordered(InLine(p.again)[k]) ELSE Again(InLine(p.again)[k], p.base, table)
    BY <1>16, <1>18, <1>19, <2>4 DEF keep
  <2>7. \A k \in 1..d : p.entries[a + b + k] =
          [what |-> Characteristic[InLine(p.added)[k][1]],
           order |-> FirstNumber(p.base, table) + Cardinality(p.new) + k - 1, confirmed |-> p.sure]
    BY <1>16, <1>18, <1>19, <2>4 DEF increase
  <2>8. /\ DOMAIN p.pending = IF p.waits THEN p.new \cup {a + b + k : k \in 1..d} ELSE {}
        /\ \A x \in DOMAIN p.pending : p.pending[x] =
             IF x \in p.new THEN Occurrence(p.list[x], 1)
             ELSE Occurrence(Characteristic[PairAt(x, p)[1]], PairAt(x, p)[2])
    BY <1>18, <1>20, <1>22
  <2>9. /\ Len(p.entries) = size /\ DOMAIN p.entries = 1..size
        /\ IsFunction(p.entries)
    BY <1>16, <1>16a, <2>4
  <2> HIDE DEF size
  <2>10. {a + b + k : k \in 1..d}
           = {Len(p.list) + Cardinality(p.again) + k : k \in 1..Cardinality(p.added)}
    BY <2>4
  <2> QED
    BY <2>1, <2>2, <2>3, <2>4, <2>5, <2>6, <2>7, <2>8, <2>9, <2>10 DEF IsLive
<1> QED
  BY <1>18, <1>23

\* Every increase of the report has an entry.
EachIsSent(p) ==
  \A s \in Counted(p.counts) :
    \E x \in DOMAIN p.entries : ~(x <= Len(p.list)) /\ PairAt(x, p) = s

\* After the skills there is an entry for each increase: those sent again, then those added.
LEMMA LivePairs ==
  ASSUME IsReport(gained), NEW table, NEW at, NEW p, IsLive(p, table, at),
         NEW a, a = Len(p.list), NEW b, b = Cardinality(p.again), NEW d, d = Cardinality(p.added)
  PROVE  /\ a \in Nat /\ b \in Nat /\ d \in Nat
         /\ p.added \subseteq Counted(p.counts) /\ p.again \subseteq Counted(p.counts)
         /\ IsFiniteSet(p.added) /\ IsFiniteSet(p.again)
         /\ Len(p.entries) = a + b + d /\ DOMAIN p.entries = 1..(a + b + d)
         /\ p.new \subseteq 1..a /\ IsFiniteSet(p.new) /\ Cardinality(p.new) \in Nat
         /\ \A x \in DOMAIN p.entries : ~(x <= a) =>
              /\ PairAt(x, p) \in Counted(p.counts)
              /\ x <= a + b => PairAt(x, p) \in p.again /\ x - a \in 1..b
                               /\ PairAt(x, p) = InLine(p.again)[x - a] /\ x = a + (x - a)
              /\ ~(x <= a + b) => PairAt(x, p) \in p.added /\ x - a - b \in 1..d
                                  /\ PairAt(x, p) = InLine(p.added)[x - a - b] /\ x = a + b + (x - a - b)
         /\ \A x, y \in DOMAIN p.entries :
              ~(x <= a) /\ ~(y <= a) /\ PairAt(x, p) = PairAt(y, p) => x = y
         /\ EachIsSent(p)
         /\ \A x, y \in DOMAIN p.entries :
              ~(x <= a) /\ x < y /\ y <= a + b => ComesBefore(PairAt(x, p), PairAt(y, p))
<1> DEFINE S == Counted(p.counts)
           A == p.again
           D == p.added
<1>1. S \subseteq Nat \X Nat /\ IsFiniteSet(S)
  BY CountedPairs DEF IsLive
<1>2. D \subseteq S /\ A = S \ D
  BY DEF IsLive, Added
<1>3. A \in SUBSET S /\ D \in SUBSET S
  BY <1>2
<1> HIDE DEF S, A, D
<1>4. IsFiniteSet(A) /\ IsFiniteSet(D) /\ A \subseteq Nat \X Nat /\ D \subseteq Nat \X Nat
  BY <1>1, <1>3, FS_Subset
<1>5. /\ b \in Nat /\ \A k \in 1..b : InLine(A)[k] \in A
      /\ \A k, l \in 1..b : InLine(A)[k] = InLine(A)[l] => k = l
      /\ \A s \in A : \E k \in 1..b : InLine(A)[k] = s
      /\ \A k, l \in 1..b : k < l => ComesBefore(InLine(A)[k], InLine(A)[l])
  <2>1. b = Cardinality(A)
    BY DEF A
  <2> QED
    BY <1>4, <2>1, InLineListsAll
<1>6. /\ d \in Nat /\ \A k \in 1..d : InLine(D)[k] \in D
      /\ \A k, l \in 1..d : InLine(D)[k] = InLine(D)[l] => k = l
      /\ \A s \in D : \E k \in 1..d : InLine(D)[k] = s
  <2>1. d = Cardinality(D)
    BY DEF D
  <2> QED
    BY <1>4, <2>1, InLineListsAll
<1>7. a \in Nat /\ DOMAIN p.list = 1..a
  BY DEF IsLive, IsRoster
<1> DEFINE size == a + b + d
<1>8. Len(p.entries) = size /\ DOMAIN p.entries = 1..size
  BY DEF IsLive
<1>9. p.new \subseteq 1..a /\ IsFiniteSet(p.new) /\ Cardinality(p.new) \in Nat
  <2>1. p.new \in SUBSET (1..a)
    BY <1>7 DEF IsLive, NewSkills
  <2>0. IsFiniteSet(1..a)
    BY <1>7, FS_Interval
  <2>2. IsFiniteSet(p.new)
    BY <2>0, <2>1, FS_Subset
  <2> QED
    BY <2>1, <2>2, FS_CardinalityType
<1>10. ASSUME NEW x \in 1..size, ~(x <= a), x <= a + b
       PROVE  /\ x - a \in 1..b /\ x = a + (x - a) /\ PairAt(x, p) = InLine(A)[x - a] /\ PairAt(x, p) \in A
  <2>1. x - a \in 1..b /\ x = a + (x - a)
    BY <1>5, <1>6, <1>7, <1>10
  <2>2. PairAt(x, p) = IF x <= a + b THEN InLine(A)[x - a] ELSE InLine(D)[x - a - b]
    BY DEF PairAt, A, D
  <2>3. PairAt(x, p) = InLine(A)[x - a]
    BY <1>10, <2>2
  <2> QED
    BY <1>5, <2>1, <2>3
<1>11. ASSUME NEW x \in 1..size, ~(x <= a), ~(x <= a + b)
       PROVE  /\ x - a - b \in 1..d /\ x = a + b + (x - a - b)
              /\ PairAt(x, p) = InLine(D)[x - a - b] /\ PairAt(x, p) \in D
  <2>1. x - a - b \in 1..d /\ x = a + b + (x - a - b)
    BY <1>5, <1>6, <1>7, <1>11
  <2>2. PairAt(x, p) = IF x <= a + b THEN InLine(A)[x - a] ELSE InLine(D)[x - a - b]
    BY DEF PairAt, A, D
  <2>3. PairAt(x, p) = InLine(D)[x - a - b]
    BY <1>11, <2>2
  <2> QED
    BY <1>6, <2>1, <2>3
<1>12. ASSUME NEW x \in 1..size, NEW y \in 1..size, ~(x <= a), ~(y <= a), PairAt(x, p) = PairAt(y, p)
       PROVE  x = y
  <2>1. ~(PairAt(x, p) \in A /\ PairAt(x, p) \in D)
    BY <1>2
  <2>2. CASE x <= a + b
    <3>1. y <= a + b
      BY <1>10, <1>11, <1>12, <2>1, <2>2
    <3> DEFINE k == x - a
               l == y - a
    <3>2. k \in 1..b /\ l \in 1..b /\ InLine(A)[k] = InLine(A)[l]
      BY <1>10, <1>12, <2>2, <3>1
    <3>3. k = l
      <4> HIDE DEF k, l
      <4> QED
        BY <1>5, <3>2
    <3> QED
      BY <1>5, <1>6, <1>7, <3>3
  <2>3. CASE ~(x <= a + b)
    <3>1. ~(y <= a + b)
      BY <1>10, <1>11, <1>12, <2>1, <2>3
    <3> DEFINE k == x - a - b
               l == y - a - b
    <3>2. k \in 1..d /\ l \in 1..d /\ InLine(D)[k] = InLine(D)[l]
      BY <1>11, <1>12, <2>3, <3>1
    <3>3. k = l
      <4> HIDE DEF k, l
      <4> QED
        BY <1>6, <3>2
    <3> QED
      BY <1>5, <1>6, <1>7, <3>3
  <2> QED
    BY <2>2, <2>3
<1>13. ASSUME NEW s \in S PROVE \E x \in 1..size : ~(x <= a) /\ PairAt(x, p) = s
  <2>1. CASE s \in A
    <3>1. PICK k \in 1..b : InLine(A)[k] = s
      BY <1>5, <2>1
    <3> DEFINE x == a + k
    <3>2. x \in 1..size /\ ~(x <= a) /\ x <= a + b /\ x - a = k
      BY <1>5, <1>6, <1>7
    <3> HIDE DEF x
    <3>3. PairAt(x, p) = s
      BY <1>10, <3>1, <3>2
    <3> QED
      BY <3>2, <3>3
  <2>2. CASE s \in D
    <3>1. PICK k \in 1..d : InLine(D)[k] = s
      BY <1>6, <2>2
    <3> DEFINE x == a + b + k
    <3>2. x \in 1..size /\ ~(x <= a) /\ ~(x <= a + b) /\ x - a - b = k
      BY <1>5, <1>6, <1>7
    <3> HIDE DEF x
    <3>3. PairAt(x, p) = s
      BY <1>11, <3>1, <3>2
    <3> QED
      BY <3>2, <3>3
  <2> QED
    BY <1>2, <2>1, <2>2
<1>14. ASSUME NEW x \in 1..size, NEW y \in 1..size, ~(x <= a), x < y, y <= a + b
       PROVE  ComesBefore(PairAt(x, p), PairAt(y, p))
  <2>1. ~(y <= a) /\ x <= a + b /\ x - a < y - a
    BY <1>5, <1>6, <1>7, <1>14
  <2> DEFINE k == x - a
             l == y - a
  <2>2. k \in 1..b /\ l \in 1..b /\ PairAt(x, p) = InLine(A)[k] /\ PairAt(y, p) = InLine(A)[l]
    BY <1>10, <1>14, <2>1
  <2>3. k < l
    BY <2>1
  <2> HIDE DEF k, l
  <2> QED
    BY <1>5, <2>2, <2>3
<1>15. \A x \in DOMAIN p.entries : ~(x <= a) =>
         /\ PairAt(x, p) \in S
         /\ x <= a + b => PairAt(x, p) \in A /\ x - a \in 1..b
                          /\ PairAt(x, p) = InLine(A)[x - a] /\ x = a + (x - a)
         /\ ~(x <= a + b) => PairAt(x, p) \in D /\ x - a - b \in 1..d
                             /\ PairAt(x, p) = InLine(D)[x - a - b] /\ x = a + b + (x - a - b)
  <2> HIDE DEF size
  <2> QED
    BY <1>3, <1>8, <1>10, <1>11
<1>16. \A x, y \in DOMAIN p.entries :
         ~(x <= a) /\ ~(y <= a) /\ PairAt(x, p) = PairAt(y, p) => x = y
  BY <1>8, <1>12
<1>17. EachIsSent(p)
  BY <1>8, <1>13 DEF EachIsSent, S
<1>18. \A x, y \in DOMAIN p.entries :
         ~(x <= a) /\ x < y /\ y <= a + b => ComesBefore(PairAt(x, p), PairAt(y, p))
  BY <1>8, <1>14
<1> QED
  BY <1>3, <1>4, <1>5, <1>6, <1>7, <1>8, <1>9, <1>15, <1>16, <1>17, <1>18 DEF S, A, D, size

\* What an entry after the skills says.
LEMMA LiveIncrease ==
  ASSUME IsReport(gained), NEW table, NEW at, NEW p, IsLive(p, table, at),
         NEW x \in DOMAIN p.entries, ~(x <= Len(p.list)), NEW s, s = PairAt(x, p),
         NEW e, e = p.entries[x], NEW b, b = Cardinality(p.again)
  PROVE  /\ e.what = Characteristic[s[1]]
         /\ x <= Len(p.list) + b =>
              /\ s \in p.again
              /\ p.listed => e = Unordered(s)
              /\ ~p.listed => e = Again(s, p.base, table)
         /\ ~(x <= Len(p.list) + b) =>
              /\ s \in p.added /\ e.confirmed = p.sure
              /\ e.order = FirstNumber(p.base, table) + Cardinality(p.new) + (x - Len(p.list) - b) - 1
              /\ x - Len(p.list) - b \in 1..Cardinality(p.added)
              /\ e = [what |-> e.what, order |-> e.order, confirmed |-> e.confirmed]
<1> DEFINE a == Len(p.list)
           d == Cardinality(p.added)
<1>0. a = Len(p.list) /\ d = Cardinality(p.added) /\ ~(x <= a)
  OBVIOUS
<1>1. /\ a \in Nat /\ b \in Nat /\ d \in Nat
      /\ x <= a + b => s \in p.again /\ x - a \in 1..b /\ s = InLine(p.again)[x - a] /\ x = a + (x - a)
      /\ ~(x <= a + b) => s \in p.added /\ x - a - b \in 1..d /\ s = InLine(p.added)[x - a - b]
                          /\ x = a + b + (x - a - b)
  <2> HIDE DEF a, d
  <2>1. /\ a \in Nat /\ b \in Nat /\ d \in Nat
        /\ \A y \in DOMAIN p.entries : ~(y <= a) =>
              /\ y <= a + b => PairAt(y, p) \in p.again /\ y - a \in 1..b
                               /\ PairAt(y, p) = InLine(p.again)[y - a] /\ y = a + (y - a)
              /\ ~(y <= a + b) => PairAt(y, p) \in p.added /\ y - a - b \in 1..d
                                  /\ PairAt(y, p) = InLine(p.added)[y - a - b] /\ y = a + b + (y - a - b)
    BY <1>0, LivePairs
  <2> QED
    BY <1>0, <2>1
<1>2. /\ \A k \in 1..b : p.entries[a + k] =
           IF p.listed THEN Unordered(InLine(p.again)[k]) ELSE Again(InLine(p.again)[k], p.base, table)
      /\ \A k \in 1..d : p.entries[a + b + k] =
           [what |-> Characteristic[InLine(p.added)[k][1]],
            order |-> FirstNumber(p.base, table) + Cardinality(p.new) + k - 1, confirmed |-> p.sure]
  BY DEF IsLive
<1> HIDE DEF a, d
<1>3. CASE x <= a + b
  <2> DEFINE k == x - a
  <2>1. k \in 1..b /\ s = InLine(p.again)[k] /\ x = a + k
    BY <1>1, <1>3
  <2> HIDE DEF k
  <2>2. e = IF p.listed THEN Unordered(s) ELSE Again(s, p.base, table)
    BY <1>2, <2>1
  <2>3. Unordered(s).what = Characteristic[s[1]] /\ Again(s, p.base, table).what = Characteristic[s[1]]
    BY DEF Unordered, Again
  <2> QED
    BY <1>1, <1>3, <2>2, <2>3 DEF a
<1>4. CASE ~(x <= a + b)
  <2> DEFINE k == x - a - b
  <2>1. k \in 1..d /\ s = InLine(p.added)[k] /\ x = a + b + k
    BY <1>1, <1>4
  <2> HIDE DEF k
  <2>2. e = [what |-> Characteristic[s[1]],
             order |-> FirstNumber(p.base, table) + Cardinality(p.new) + k - 1, confirmed |-> p.sure]
    BY <1>2, <2>1
  <2>3. /\ e.what = Characteristic[s[1]] /\ e.confirmed = p.sure
        /\ e.order = FirstNumber(p.base, table) + Cardinality(p.new) + k - 1
        /\ e = [what |-> e.what, order |-> e.order, confirmed |-> e.confirmed]
    BY <2>2
  <2> QED
    BY <1>1, <1>4, <2>1, <2>3 DEF a, d, k
<1> QED
  BY <1>3, <1>4

\* Each increase of the report has a moment of its own.
LEMMA MomentsOfIncreases ==
  ASSUME IsReport(gained), NEW table, NEW at, NEW p, IsLive(p, table, at)
  PROVE  /\ \A s \in Counted(p.counts) :
              /\ Moment(s, p.base, table, at) \in DOMAIN gained
              /\ gained[Moment(s, p.base, table, at)] = Characteristic[s[1]]
              /\ s[2] <= Cardinality(Of(Characteristic[s[1]], p.base, table)) =>
                   /\ AtPlace(s[2] - 1, Of(Characteristic[s[1]], p.base, table), table)
                        \in Of(Characteristic[s[1]], p.base, table)
                   /\ PlaceOf(AtPlace(s[2] - 1, Of(Characteristic[s[1]], p.base, table), table),
                              Of(Characteristic[s[1]], p.base, table), table) = s[2] - 1
                   /\ Moment(s, p.base, table, at)
                        = at[AtPlace(s[2] - 1, Of(Characteristic[s[1]], p.base, table), table)]
                   /\ Moment(s, p.base, table, at) <= p.upto
              /\ ~(s[2] <= Cardinality(Of(Characteristic[s[1]], p.base, table))) =>
                   /\ Moment(s, p.base, table, at) = Occurrence(Characteristic[s[1]], s[2])
                   /\ p.upto < Moment(s, p.base, table, at)
         /\ \A s, t \in Counted(p.counts) :
              Moment(s, p.base, table, at) = Moment(t, p.base, table, at) => s = t
         /\ \A q \in DOMAIN gained : gained[q] \in Increase =>
              \E s \in Counted(p.counts) : Moment(s, p.base, table, at) = q
<1>1. /\ p.n \in 0..Len(gained) /\ IsInOrder(table, at, p.n)
      /\ p.upto \in 0..p.n /\ IsBase(p.base, p.upto, table, at) /\ IsCounted(p.counts)
  BY DEF IsLive
<1>2. /\ \A s \in Counted(p.counts) :
           /\ s = <<s[1], s[2]>> /\ s[1] \in DOMAIN Characteristic
           /\ Characteristic[s[1]] \in Increase
           /\ s[2] \in 1..Times(Characteristic[s[1]])
      /\ \A k \in DOMAIN Characteristic : \A j \in 1..Times(Characteristic[k]) :
           <<k, j>> \in Counted(p.counts)
  BY <1>1, CountedPairs
<1> DEFINE when(c, j) == MomentOf(c, j, p.base, table, at)
<1>3. ASSUME NEW c \in Increase
      PROVE  /\ \A j \in 1..Times(c) : when(c, j) \in DOMAIN gained /\ gained[when(c, j)] = c
             /\ \A i, j \in 1..Times(c) : when(c, i) = when(c, j) => i = j
             /\ \A q \in DOMAIN gained : gained[q] = c => \E j \in 1..Times(c) : when(c, j) = q
             /\ \A j \in 1..Times(c) : j <= Cardinality(Of(c, p.base, table)) =>
                  /\ AtPlace(j - 1, Of(c, p.base, table), table) \in Of(c, p.base, table)
                  /\ PlaceOf(AtPlace(j - 1, Of(c, p.base, table), table), Of(c, p.base, table), table)
                       = j - 1
                  /\ when(c, j) = at[AtPlace(j - 1, Of(c, p.base, table), table)]
                  /\ when(c, j) <= p.upto
             /\ \A j \in 1..Times(c) : ~(j <= Cardinality(Of(c, p.base, table))) =>
                  when(c, j) = Occurrence(c, j) /\ p.upto < when(c, j)
  BY <1>1, MomentsOfOne
<1>4. ASSUME NEW s \in Counted(p.counts)
      PROVE  /\ Moment(s, p.base, table, at) = when(Characteristic[s[1]], s[2])
             /\ Characteristic[s[1]] \in Increase /\ s[2] \in 1..Times(Characteristic[s[1]])
  BY <1>2 DEF Moment
<1> HIDE DEF when
<1>5. ASSUME NEW s \in Counted(p.counts), NEW t \in Counted(p.counts),
             Moment(s, p.base, table, at) = Moment(t, p.base, table, at)
      PROVE  s = t
  <2>1. Characteristic[s[1]] = Characteristic[t[1]]
    BY <1>3, <1>4, <1>5
  <2>2. s[1] = t[1]
    BY <1>2, <2>1, CharacteristicsAreListed DEF IsInjective
  <2>3. s[2] = t[2]
    BY <1>3, <1>4, <1>5, <2>1
  <2> QED
    BY <1>2, <2>2, <2>3
<1>6. ASSUME NEW q \in DOMAIN gained, gained[q] \in Increase
      PROVE  \E s \in Counted(p.counts) : Moment(s, p.base, table, at) = q
  <2>1. PICK j \in 1..Times(gained[q]) : when(gained[q], j) = q
    BY <1>3, <1>6
  <2>2. PICK k \in DOMAIN Characteristic : Characteristic[k] = gained[q]
    BY <1>6 DEF Increase, Range
  <2>3. <<k, j>> \in Counted(p.counts)
    BY <1>2, <2>2
  <2>4. Moment(<<k, j>>, p.base, table, at) = q
    BY <1>4, <2>1, <2>2, <2>3
  <2> QED
    BY <2>3, <2>4
<1>7. ASSUME NEW s \in Counted(p.counts), NEW c, c = Characteristic[s[1]], NEW j, j = s[2]
      PROVE  /\ Moment(s, p.base, table, at) \in DOMAIN gained
             /\ gained[Moment(s, p.base, table, at)] = c
             /\ j <= Cardinality(Of(c, p.base, table)) =>
                   /\ AtPlace(j - 1, Of(c, p.base, table), table) \in Of(c, p.base, table)
                   /\ PlaceOf(AtPlace(j - 1, Of(c, p.base, table), table), Of(c, p.base, table), table)
                        = j - 1
                   /\ Moment(s, p.base, table, at) = at[AtPlace(j - 1, Of(c, p.base, table), table)]
                   /\ Moment(s, p.base, table, at) <= p.upto
             /\ ~(j <= Cardinality(Of(c, p.base, table))) =>
                   /\ Moment(s, p.base, table, at) = Occurrence(c, j)
                   /\ p.upto < Moment(s, p.base, table, at)
  <2>1. Moment(s, p.base, table, at) = when(c, j) /\ c \in Increase /\ j \in 1..Times(c)
    BY <1>4, <1>7
  <2> QED
    BY <1>3, <2>1
<1> QED
  BY <1>5, <1>6, <1>7

\* When what an entry is for was gained.
LiveWhen(p, table, at) ==
  [x \in Taken(p.entries) |->
     IF x <= Len(p.list) THEN Occurrence(p.list[x], 1) ELSE Moment(PairAt(x, p), p.base, table, at)]

\* The first number after the paid rows.
LEMMA FirstNumberIsNat ==
  ASSUME NEW table, IsTable(table), NEW base, base \subseteq DOMAIN table
  PROVE  /\ FirstNumber(base, table) \in Nat /\ IsFiniteSet(PaidIn(base, table))
         /\ Cardinality(PaidIn(base, table)) \in Nat
         /\ FirstNumber(base, table) = Cardinality(PaidIn(base, table)) + 1
<1>1. Len(table) \in Nat /\ DOMAIN table = 1..Len(table)
  BY DEF IsTable, NamesWhatHeHas
<1>2. PaidIn(base, table) \in SUBSET (1..Len(table)) /\ IsFiniteSet(1..Len(table))
  BY <1>1, FS_Interval DEF PaidIn
<1>3. IsFiniteSet(PaidIn(base, table)) /\ Cardinality(PaidIn(base, table)) \in Nat
  BY <1>2, FS_Subset, FS_CardinalityType
<1> QED
  BY <1>3 DEF FirstNumber

\* An increase that is sent again is stored.
LEMMA AgainIsStored ==
  ASSUME IsReport(gained), NEW table, NEW at, NEW p, IsLive(p, table, at), ~p.listed,
         NEW s \in p.again
  PROVE  /\ s \in Counted(p.counts)
         /\ s[2] <= Cardinality(Of(Characteristic[s[1]], p.base, table))
<1>1. s \in Counted(p.counts) /\ s \notin Added(p.counts, p.base, table)
  BY DEF IsLive
<1>2. ~(Cardinality(Of(Characteristic[s[1]], p.base, table)) < s[2])
  BY <1>1 DEF Added
<1>3. Characteristic[s[1]] \in Increase /\ s[2] \in 1..Times(Characteristic[s[1]])
  BY <1>1, CountedPairs DEF IsLive
<1> DEFINE c == Characteristic[s[1]]
<1>4. Cardinality(Of(c, p.base, table)) \in 0..Times(c) /\ Times(c) \in Nat
  <2>1. c \in Increase
    BY <1>3
  <2>2. /\ p.n \in 0..Len(gained) /\ IsInOrder(table, at, p.n)
        /\ p.upto \in 0..p.n /\ IsBase(p.base, p.upto, table, at)
    BY DEF IsLive
  <2> HIDE DEF c
  <2> QED
    BY <2>1, <2>2, MomentsOfOne
<1> HIDE DEF c
<1>5. s[2] \in Int /\ Cardinality(Of(c, p.base, table)) \in Int
  BY <1>3, <1>4 DEF c
<1> QED
  BY <1>1, <1>2, <1>5 DEF c

\* The entries of a complete report: what each is for, and that each is well formed.
LEMMA LiveEntriesAre ==
  ASSUME IsReport(gained), NEW table, NEW at, NEW p, IsLive(p, table, at),
         NEW x \in DOMAIN p.entries, NEW e, e = p.entries[x]
  PROVE  /\ IsEntry(e) /\ e = [what |-> e.what, order |-> e.order, confirmed |-> e.confirmed]
         /\ x <= Len(p.list) =>
              /\ x \in DOMAIN p.list /\ e.what = p.list[x]
              /\ e.what \in Skill
              /\ e.confirmed <=> x \in p.new /\ p.sure
         /\ ~(x <= Len(p.list)) =>
              /\ PairAt(x, p) \in Counted(p.counts) /\ e.what = Characteristic[PairAt(x, p)[1]]
              /\ e.what \in Increase /\ x \in Taken(p.entries)
<1> DEFINE a == Len(p.list)
           b == Cardinality(p.again)
           d == Cardinality(p.added)
           s == PairAt(x, p)
           first == FirstNumber(p.base, table)
<1>1. /\ IsTable(table) /\ p.base \subseteq DOMAIN table /\ IsRoster(p.list) /\ IsCounted(p.counts)
  BY DEF IsLive, IsInOrder, IsBase
<1>2. first \in Nat /\ first \in Int
  BY <1>1, FirstNumberIsNat
<1>3. /\ a \in Nat /\ b \in Nat /\ d \in Nat /\ x \in 1..(a + b + d)
      /\ p.new \subseteq 1..a /\ IsFiniteSet(p.new) /\ Cardinality(p.new) \in Nat
      /\ ~(x <= a) => s \in Counted(p.counts)
      /\ ~(x <= a) /\ x <= a + b => s \in p.again
  <2>1. a = Len(p.list) /\ b = Cardinality(p.again) /\ d = Cardinality(p.added)
    OBVIOUS
  <2> HIDE DEF a, b, d
  <2>2. /\ a \in Nat /\ b \in Nat /\ d \in Nat /\ DOMAIN p.entries = 1..(a + b + d)
        /\ p.new \subseteq 1..a /\ IsFiniteSet(p.new) /\ Cardinality(p.new) \in Nat
    BY <2>1, LivePairs
  <2>3. \A y \in DOMAIN p.entries : ~(y <= a) =>
             /\ PairAt(y, p) \in Counted(p.counts)
             /\ y <= a + b => PairAt(y, p) \in p.again
    BY <2>1, LivePairs
  <2> QED
    BY <2>2, <2>3
<1>4. p.sure \in BOOLEAN /\ p.listed \in BOOLEAN
  BY DEF IsLive
<1>5. CASE x <= a
  <2>1. x \in 1..a /\ x \in DOMAIN p.list
    BY <1>1, <1>3, <1>5 DEF IsRoster
  <2>2. e = [what |-> p.list[x],
             order |-> IF p.list[x] \in Starting THEN 0
                       ELSE IF x \in p.new THEN first + Cardinality({y \in p.new : y < x})
                       ELSE x - Cardinality(Starting),
             confirmed |-> x \in p.new /\ p.sure]
    BY <2>1 DEF IsLive
  <2>3. Cardinality({y \in p.new : y < x}) \in Nat
    <3>1. {y \in p.new : y < x} \in SUBSET p.new
      OBVIOUS
    <3>2. IsFiniteSet({y \in p.new : y < x})
      BY <1>3, <3>1, FS_Subset
    <3> QED
      BY <3>2, FS_CardinalityType
  <2> DEFINE below == Cardinality({y \in p.new : y < x})
             o == IF p.list[x] \in Starting THEN 0
                  ELSE IF x \in p.new THEN first + below ELSE x - Cardinality(Starting)
  <2>4. o \in Int
    <3>1. below \in Nat
      BY <2>3
    <3>2. Cardinality(Starting) \in Nat /\ x \in Int
      BY <1>1, <1>3, <2>1 DEF IsRoster
    <3> HIDE DEF below, first
    <3> QED
      BY <1>2, <3>1, <3>2
  <2> DEFINE c == x \in p.new /\ p.sure
  <2>6. e = [what |-> p.list[x], order |-> o, confirmed |-> c] /\ c \in BOOLEAN
    BY <1>4, <2>2
  <2>6a. c <=> x \in p.new /\ p.sure
    OBVIOUS
  <2> HIDE DEF o, c
  <2>7. /\ e.what = p.list[x] /\ e.order = o /\ (e.confirmed <=> x \in p.new /\ p.sure)
        /\ e.confirmed \in BOOLEAN /\ EntryColumns \subseteq DOMAIN e
        /\ e = [what |-> e.what, order |-> e.order, confirmed |-> e.confirmed]
    BY <2>6, <2>6a DEF EntryColumns
  <2>8. p.list[x] \in Skill
    BY <1>1, <2>1, SkillsAreSorted DEF IsRoster
  <2>9. IsEntry(e)
    BY <2>4, <2>7 DEF IsEntry
  <2> HIDE DEF below, first
  <2> QED
    BY <1>5, <2>1, <2>6a, <2>7, <2>8, <2>9 DEF a, below, first
<1>6. CASE ~(x <= a)
  <2>1. s \in Counted(p.counts)
    BY <1>3, <1>6
  <2>2. Characteristic[s[1]] \in Increase
    BY <1>1, <2>1, CountedPairs
  <2>3. /\ e.what = Characteristic[s[1]]
        /\ x <= a + b => /\ s \in p.again
                         /\ p.listed => e = Unordered(s)
                         /\ ~p.listed => e = Again(s, p.base, table)
        /\ ~(x <= a + b) =>
              /\ e.confirmed = p.sure
              /\ e.order = first + Cardinality(p.new) + (x - a - b) - 1
              /\ e = [what |-> e.what, order |-> e.order, confirmed |-> e.confirmed]
    BY <1>6, LiveIncrease
  <2>4. x \in Taken(p.entries)
    BY <2>2, <2>3, KindsDiffer, SkillsAreSorted DEF Taken
  <2>5. /\ e.order \in Int /\ e.confirmed \in BOOLEAN
        /\ e = [what |-> e.what, order |-> e.order, confirmed |-> e.confirmed]
    <3>1. CASE x <= a + b /\ p.listed
      <4>1. e = [what |-> Characteristic[s[1]], order |-> 0, confirmed |-> FALSE]
        BY <2>3, <3>1 DEF Unordered
      <4> QED
        BY <4>1
    <3>2. CASE x <= a + b /\ ~p.listed
      <4> DEFINE c == Characteristic[s[1]]
                 i == AtPlace(s[2] - 1, Of(c, p.base, table), table)
      <4>1. i \in Of(c, p.base, table)
        <5>1. s[2] <= Cardinality(Of(Characteristic[s[1]], p.base, table))
          BY <2>3, <3>2, AgainIsStored
        <5> QED
          BY <2>1, <5>1, MomentsOfIncreases
      <4>2. i \in DOMAIN table
        BY <1>1, <4>1 DEF Of
      <4>3. table[i].order \in Int /\ table[i].confirmed \in BOOLEAN
        BY <1>1, <4>2 DEF IsTable, IsRow
      <4>4. e = [what |-> c, order |-> table[i].order, confirmed |-> table[i].confirmed]
        BY <2>3, <3>2 DEF Again
      <4> HIDE DEF i, c
      <4> QED
        BY <4>3, <4>4
    <3>3. CASE ~(x <= a + b)
      <4>1. first + Cardinality(p.new) + (x - a - b) - 1 \in Int
        <5> HIDE DEF first, a, b, d
        <5> QED
          BY <1>2, <1>3
      <4> QED
        BY <1>4, <2>3, <3>3, <4>1
    <3> QED
      BY <3>1, <3>2, <3>3
  <2>6. EntryColumns \subseteq DOMAIN e
    BY <2>5 DEF EntryColumns
  <2>7. IsEntry(e)
    BY <2>5, <2>6 DEF IsEntry
  <2> QED
    BY <1>6, <2>1, <2>2, <2>3, <2>4, <2>5, <2>7
<1> QED
  BY <1>5, <1>6

\* A new skill follows what is stored, in the order it is listed in.
LEMMA LiveNewSkill ==
  ASSUME NEW table, NEW at, NEW p, IsLive(p, table, at), NEW x \in p.new
  PROVE  /\ x \in DOMAIN p.list /\ p.list[x] \notin Starting /\ ~p.listed
         /\ ~FreeExtra(p.list[x], award) /\ \A i \in p.base : table[i].what # p.list[x]
         /\ p.entries[x].order = FirstNumber(p.base, table) + BelowIn(p.new, x)
<1>1. /\ ~p.listed /\ x \in NewSkills(p.list, p.base, table)
  BY DEF IsLive
<1>2. /\ x \in DOMAIN p.list /\ p.list[x] \notin Starting
      /\ ~FreeExtra(p.list[x], award) /\ \A i \in p.base : table[i].what # p.list[x]
  BY <1>1 DEF NewSkills
<1> DEFINE below == Cardinality({y \in p.new : y < x})
<1>3. x \in 1..Len(p.list)
  BY <1>2 DEF IsLive, IsRoster
<1>4. p.entries[x] =
       [what |-> p.list[x],
        order |-> IF p.list[x] \in Starting THEN 0
                  ELSE IF x \in p.new THEN FirstNumber(p.base, table) + below
                  ELSE x - Cardinality(Starting),
        confirmed |-> x \in p.new /\ p.sure]
  BY <1>3 DEF IsLive
<1> HIDE DEF below
<1>5. p.entries[x].order = FirstNumber(p.base, table) + below
  BY <1>2, <1>4
<1> QED
  BY <1>1, <1>2, <1>5 DEF below, BelowIn

\* They are all that was gained, each with its moment.
LEMMA LiveIsDated ==
  ASSUME IsReport(gained), NEW table, NEW at, NEW p, IsLive(p, table, at),
         NEW when, when = LiveWhen(p, table, at)
  PROVE  /\ IsEntryList(p.entries) /\ SendsAll(p.entries)
         /\ IsDated(p.entries, when, Len(gained))
<1> DEFINE E == p.entries
           a == Len(p.list)
           N == Len(gained)
<1>1. IsRoster(p.list) /\ IsTable(table) /\ a \in Nat /\ DOMAIN p.list = 1..a
  BY DEF IsLive, IsInOrder, IsRoster
<1>2. DOMAIN gained = 1..N /\ N \in Nat
  BY DEF IsReport
<1>3. /\ Len(E) \in Nat /\ DOMAIN E = 1..Len(E) /\ a <= Len(E)
      /\ \A x, y \in DOMAIN E : ~(x <= a) /\ ~(y <= a) /\ PairAt(x, p) = PairAt(y, p) => x = y
      /\ \A s \in Counted(p.counts) : \E x \in DOMAIN E : ~(x <= a) /\ PairAt(x, p) = s
  <2> DEFINE b == Cardinality(p.again)
             d == Cardinality(p.added)
  <2>1. b = Cardinality(p.again) /\ d = Cardinality(p.added) /\ a = Len(p.list)
    OBVIOUS
  <2> HIDE DEF b, d, a
  <2>2. /\ b \in Nat /\ d \in Nat /\ a \in Nat /\ Len(E) = a + b + d /\ DOMAIN E = 1..(a + b + d)
    BY <2>1, LivePairs
  <2>3. \A x, y \in DOMAIN E : ~(x <= a) /\ ~(y <= a) /\ PairAt(x, p) = PairAt(y, p) => x = y
    BY <2>1, LivePairs
  <2>4. \A s \in Counted(p.counts) : \E x \in DOMAIN E : ~(x <= a) /\ PairAt(x, p) = s
    <3>1. EachIsSent(p)
      BY <2>1, LivePairs
    <3> QED
      BY <2>1, <3>1 DEF EachIsSent
  <2> HIDE DEF E
  <2> QED
    BY <2>2, <2>3, <2>4
<1>4. ASSUME NEW x \in DOMAIN E
      PROVE  /\ IsEntry(E[x])
             /\ x <= a => x \in DOMAIN p.list /\ E[x].what = p.list[x] /\ E[x].what \in Skill
             /\ ~(x <= a) => /\ PairAt(x, p) \in Counted(p.counts) /\ x \in Taken(E)
                             /\ E[x].what = Characteristic[PairAt(x, p)[1]]
                             /\ E[x].what \in Increase
  <2> DEFINE e == E[x]
  <2>1. e = p.entries[x] /\ x \in DOMAIN p.entries
    OBVIOUS
  <2> HIDE DEF e
  <2>2. /\ IsEntry(e)
        /\ x <= Len(p.list) => x \in DOMAIN p.list /\ e.what = p.list[x] /\ e.what \in Skill
        /\ ~(x <= Len(p.list)) => /\ PairAt(x, p) \in Counted(p.counts) /\ x \in Taken(p.entries)
                                  /\ e.what = Characteristic[PairAt(x, p)[1]]
                                  /\ e.what \in Increase
    BY <2>1, LiveEntriesAre
  <2> QED
    BY <2>2 DEF e
<1>5. /\ \A s \in Counted(p.counts) :
           /\ Moment(s, p.base, table, at) \in DOMAIN gained
           /\ gained[Moment(s, p.base, table, at)] = Characteristic[s[1]]
      /\ \A s, t \in Counted(p.counts) :
           Moment(s, p.base, table, at) = Moment(t, p.base, table, at) => s = t
      /\ \A q \in DOMAIN gained : gained[q] \in Increase =>
           \E s \in Counted(p.counts) : Moment(s, p.base, table, at) = q
  BY MomentsOfIncreases
<1>6. /\ when = [x \in Taken(E) |-> when[x]]
      /\ \A x \in Taken(E) : when[x] = IF x <= a THEN Occurrence(p.list[x], 1)
                                       ELSE Moment(PairAt(x, p), p.base, table, at)
  <2> DEFINE w(x) == IF x <= a THEN Occurrence(p.list[x], 1)
                     ELSE Moment(PairAt(x, p), p.base, table, at)
  <2>1. when = [x \in Taken(E) |-> w(x)]
    BY DEF LiveWhen
  <2> HIDE DEF w, E
  <2>2. when = [x \in Taken(E) |-> when[x]] /\ \A x \in Taken(E) : when[x] = w(x)
    BY <2>1
  <2> QED
    BY <2>2 DEF w
<1>7. ASSUME NEW x \in Taken(E)
      PROVE  /\ when[x] \in DOMAIN gained /\ gained[when[x]] = E[x].what /\ x \in DOMAIN E
             /\ x <= a => when[x] = Occurrence(p.list[x], 1)
  <2>0. x \in DOMAIN E /\ E[x].what \notin Starting
    BY DEF Taken
  <2>1. CASE x <= a
    <3>1. p.list[x] \in Skill \cap Range(gained) /\ E[x].what = p.list[x]
      BY <1>1, <1>4, <2>0, <2>1 DEF IsRoster
    <3> QED
      BY <1>6, <2>0, <2>1, <3>1, SkillIsThere
  <2>2. CASE ~(x <= a)
    BY <1>4, <1>5, <1>6, <2>0, <2>2
  <2> QED
    BY <2>1, <2>2
<1> HIDE DEF E
<1>8. ASSUME NEW x \in Taken(E), NEW y \in Taken(E), when[x] = when[y] PROVE x = y
  <2>1. x \in DOMAIN E /\ y \in DOMAIN E /\ E[x].what = E[y].what
    BY <1>7, <1>8
  <2>2. CASE x <= a
    <3>1. y <= a
      BY <1>4, <2>1, <2>2, KindsDiffer
    <3>2. p.list[x] = p.list[y]
      BY <1>4, <2>1, <2>2, <3>1
    <3> QED
      BY <1>1, <1>4, <2>1, <2>2, <3>1, <3>2 DEF IsRoster
  <2>3. CASE ~(x <= a)
    <3>1. ~(y <= a)
      BY <1>4, <2>1, <2>3, KindsDiffer
    <3>2. Moment(PairAt(x, p), p.base, table, at) = Moment(PairAt(y, p), p.base, table, at)
      BY <1>6, <1>8, <2>3, <3>1
    <3> QED
      BY <1>3, <1>4, <1>5, <2>1, <2>3, <3>1, <3>2
  <2> QED
    BY <2>2, <2>3
<1>9. ASSUME NEW q \in DOMAIN gained PROVE \E x \in Taken(E) : when[x] = q
  <2>1. gained[q] \in Skill \cup Increase /\ gained[q] \notin Starting
    BY DEF IsReport
  <2>2. CASE gained[q] \in Skill
    <3>1. gained[q] \in Skill \cap Range(gained)
      BY <2>2 DEF Range
    <3>2. PICK x \in DOMAIN p.list : p.list[x] = gained[q]
      BY <1>1, <3>1 DEF IsRoster
    <3>3. x \in DOMAIN E /\ x <= a
      BY <1>1, <1>3
    <3>4. x \in Taken(E)
      BY <1>4, <2>1, <3>2, <3>3 DEF Taken
    <3>5. gained[when[x]] = gained[q] /\ when[x] \in DOMAIN gained
      BY <1>4, <1>7, <3>2, <3>3, <3>4
    <3>6. when[x] = q
      BY <2>2, <3>5 DEF IsReport
    <3> QED
      BY <3>4, <3>6
  <2>3. CASE gained[q] \in Increase
    <3>1. PICK s \in Counted(p.counts) : Moment(s, p.base, table, at) = q
      BY <1>5, <2>3
    <3>2. PICK x \in DOMAIN E : ~(x <= a) /\ PairAt(x, p) = s
      BY <1>3
    <3> QED
      BY <1>4, <1>6, <3>1, <3>2
  <2> QED
    BY <2>1, <2>2, <2>3
<1>10. IsDated(E, when, N)
  BY <1>2, <1>6, <1>7, <1>8, <1>9 DEF IsDated
<1>11. IsEntryList(E)
  <2>1. ASSUME NEW x \in DOMAIN E PROVE E[x].what \in Starting \cup Range(gained)
    <3>1. CASE x \in Taken(E)
      BY <1>7, <3>1 DEF Range
    <3>2. CASE x \notin Taken(E)
      BY <2>1, <3>2 DEF Taken
    <3> QED
      BY <3>1, <3>2
  <2>2. ASSUME NEW x \in DOMAIN E, NEW y \in DOMAIN E, E[x].what = E[y].what, E[x].what \in Skill
        PROVE  x = y
    <3>1. x <= a /\ y <= a
      BY <1>4, <2>2, KindsDiffer
    <3> QED
      BY <1>1, <1>4, <2>2, <3>1 DEF IsRoster
  <2> QED
    BY <1>3, <1>4, <2>1, <2>2 DEF IsEntryList, NamesWhatHeHas
<1>12. SendsAll(E)
  <2>1. ASSUME NEW q \in DOMAIN gained PROVE SentFor(gained[q], E) # {}
    <3>1. PICK x \in Taken(E) : when[x] = q
      BY <1>9
    <3>2. x \in SentFor(gained[q], E)
      BY <1>7, <3>1 DEF SentFor
    <3> QED
      BY <3>2
  <2> QED
    BY <1>11, <2>1 DEF SendsAll
<1> QED
  BY <1>10, <1>11, <1>12 DEF E

\* The entries for what is not stored.
Fresh(p) ==
  p.new \cup {Len(p.list) + Cardinality(p.again) + k : k \in 1..Cardinality(p.added)}

\* They are numbered from the first number on.
LEMMA FreshAreNumbered ==
  ASSUME IsReport(gained), NEW table, NEW at, NEW p, IsLive(p, table, at),
         NEW first, first = FirstNumber(p.base, table)
  PROVE  /\ IsFiniteSet(Fresh(p)) /\ Fresh(p) \subseteq DOMAIN p.entries
         /\ Cardinality(Fresh(p)) \in Nat
         /\ Cardinality(Fresh(p)) = Cardinality(p.new) + Cardinality(p.added)
         /\ \A x \in Fresh(p) :
              /\ x \in p.new
                 \/ (~(x <= Len(p.list)) /\ ~(x <= Len(p.list) + Cardinality(p.again)))
              /\ p.entries[x].order \in first..(first + Cardinality(Fresh(p)) - 1)
         /\ Fresh(p) # {} => \E x \in Fresh(p) : p.entries[x].order = first
<1> DEFINE a == Len(p.list)
           b == Cardinality(p.again)
           d == Cardinality(p.added)
           m == Cardinality(p.new)
           D == {a + b + k : k \in 1..d}
           F == Fresh(p)
<1>1. /\ a \in Nat /\ b \in Nat /\ d \in Nat /\ m \in Nat
      /\ DOMAIN p.entries = 1..(a + b + d)
      /\ p.new \subseteq 1..a /\ IsFiniteSet(p.new)
  <2>1. a = Len(p.list) /\ b = Cardinality(p.again) /\ d = Cardinality(p.added)
    OBVIOUS
  <2> HIDE DEF a, b, d
  <2>2. /\ a \in Nat /\ b \in Nat /\ d \in Nat
        /\ p.new \subseteq 1..a /\ IsFiniteSet(p.new) /\ Cardinality(p.new) \in Nat
        /\ DOMAIN p.entries = 1..(a + b + d)
    BY <2>1, LivePairs
  <2> QED
    BY <2>2
<1>2. first \in Nat
  <2>1. IsTable(table) /\ p.base \subseteq DOMAIN table
    BY DEF IsLive, IsInOrder, IsBase
  <2> QED
    BY <2>1, FirstNumberIsNat
<1>3. F = p.new \cup D
  BY DEF Fresh
<1>4. \A k \in 1..d : p.entries[a + b + k].order = first + m + k - 1
  <2>1. \A k \in 1..d : p.entries[a + b + k] =
          [what |-> Characteristic[InLine(p.added)[k][1]],
           order |-> first + m + k - 1, confirmed |-> p.sure]
    BY DEF IsLive
  <2> HIDE DEF a, b, d, m
  <2> SUFFICES ASSUME NEW k \in 1..d PROVE p.entries[a + b + k].order = first + m + k - 1
    OBVIOUS
  <2> DEFINE o == first + m + k - 1
             c == Characteristic[InLine(p.added)[k][1]]
  <2>2. p.entries[a + b + k] = [what |-> c, order |-> o, confirmed |-> p.sure]
    BY <2>1
  <2> HIDE DEF o, c
  <2>3. p.entries[a + b + k].order = o
    BY <2>2
  <2> QED
    BY <2>3 DEF o
<1> DEFINE below(x) == BelowIn(p.new, x)
<1>5. \A x \in p.new : p.entries[x].order = first + below(x)
  BY LiveNewSkill
<1>6. /\ \A x \in p.new : below(x) \in 0..(m - 1)
      /\ \A k \in 0..(m - 1) : \E x \in p.new : below(x) = k
  <2>1. p.new \subseteq Nat
    BY <1>1
  <2> QED
    BY <1>1, <2>1, NumbersHavePlaces DEF BelowIn
<1> HIDE DEF a, b, d, m, below, F
<1>7. D = (a + b + 1)..(a + b + d)
  <2>1. \A y \in (a + b + 1)..(a + b + d) : y - a - b \in 1..d /\ y = a + b + (y - a - b)
    BY <1>1
  <2>2. \A k \in 1..d : a + b + k \in (a + b + 1)..(a + b + d)
    BY <1>1
  <2> QED
    BY <2>1, <2>2
<1>8. IsFiniteSet(D) /\ Cardinality(D) = d
  <2> DEFINE l == a + b + 1
             h == a + b + d
  <2>1. l \in Int /\ h \in Int
    BY <1>1
  <2>2. D = l..h
    BY <1>7
  <2> HIDE DEF l, h, D
  <2>3. IsFiniteSet(D) /\ Cardinality(D) = (IF l > h THEN 0 ELSE h - l + 1)
    BY <2>1, <2>2, FS_Interval
  <2>4. (IF l > h THEN 0 ELSE h - l + 1) = d
    BY <1>1 DEF l, h
  <2> QED
    BY <2>3, <2>4
<1>9. p.new \cap D = {}
  BY <1>1, <1>7
<1> HIDE DEF D
<1>10. IsFiniteSet(F) /\ Cardinality(F) = m + d
  <2>1. IsFiniteSet(p.new \cup D)
        /\ Cardinality(p.new \cup D) = Cardinality(p.new) + Cardinality(D) - Cardinality(p.new \cap D)
    BY <1>1, <1>8, FS_Union
  <2>2. Cardinality(p.new \cap D) = 0
    BY <1>9, FS_EmptySet
  <2>3. Cardinality(F) = m + d - 0
    BY <1>3, <1>8, <2>1, <2>2 DEF m
  <2> QED
    BY <1>1, <1>3, <2>1, <2>3
<1>11. F \subseteq DOMAIN p.entries
  BY <1>1, <1>3, <1>7
<1>12. ASSUME NEW x \in F
       PROVE  /\ x \in p.new \/ (~(x <= a) /\ ~(x <= a + b))
              /\ p.entries[x].order \in first..(first + Cardinality(F) - 1)
  <2>1. CASE x \in p.new
    <3>1. first + below(x) \in first..(first + (m + d) - 1)
      BY <1>1, <1>2, <1>6, <2>1
    <3> QED
      BY <1>5, <1>10, <2>1, <3>1
  <2>2. CASE x \in D
    <3>1. PICK k \in 1..d : x = a + b + k
      BY <2>2 DEF D
    <3>2. first + m + k - 1 \in first..(first + (m + d) - 1)
      BY <1>1, <1>2
    <3>3. ~(x <= a) /\ ~(x <= a + b)
      BY <1>1, <3>1
    <3> QED
      BY <1>4, <1>10, <3>1, <3>2, <3>3
  <2> QED
    BY <1>3, <2>1, <2>2
<1>13. ASSUME F # {} PROVE \E x \in F : p.entries[x].order = first
  <2>1. CASE p.new # {}
    <3>1. m # 0
      BY <1>1, <2>1, FS_EmptySet DEF m
    <3>2. 0 \in 0..(m - 1)
      BY <1>1, <3>1
    <3>3. PICK x \in p.new : below(x) = 0
      BY <1>6, <3>2
    <3>4. p.entries[x].order = first
      BY <1>2, <1>5, <3>3
    <3> QED
      BY <1>3, <3>4
  <2>2. CASE p.new = {}
    <3>1. m = 0
      BY <2>2, FS_EmptySet DEF m
    <3>2. d # 0
      BY <1>1, <1>3, <1>8, <1>13, <2>2, FS_EmptySet
    <3>3. 1 \in 1..d /\ a + b + 1 \in F
      BY <1>1, <1>3, <1>7, <3>2
    <3>4. p.entries[a + b + 1].order = first + m + 1 - 1
      BY <1>4, <3>3
    <3>5. p.entries[a + b + 1].order = first
      BY <1>2, <3>1, <3>4
    <3> QED
      BY <3>3, <3>5
  <2> QED
    BY <2>1, <2>2
<1>14. Cardinality(F) \in Nat
  BY <1>1, <1>10
<1> QED
  BY <1>10, <1>11, <1>12, <1>13, <1>14 DEF F, a, b, d, m

\* They are for what is paid, and was gained after all that the import starts from.
LEMMA FreshComeLater ==
  ASSUME IsReport(gained), NEW table, NEW at, NEW p, IsLive(p, table, at),
         NEW when, when = LiveWhen(p, table, at), NEW x \in Fresh(p)
  PROVE  /\ x \in Taken(p.entries) /\ ~FreeSlot(p.entries[x].what, table, award)
         /\ when[x] \in DOMAIN gained /\ gained[when[x]] = p.entries[x].what
         /\ p.upto < when[x]
         /\ \A i \in PaidIn(p.base, table) : i \in Taken(table) => at[i] # when[x]
         /\ when[x] = IF x \in p.new THEN Occurrence(p.list[x], 1)
                      ELSE Occurrence(Characteristic[PairAt(x, p)[1]], PairAt(x, p)[2])
<1> DEFINE a == Len(p.list)
           e == p.entries[x]
<1>1. /\ x \in DOMAIN p.entries
      /\ x \in p.new \/ (~(x <= a) /\ ~(x <= a + Cardinality(p.again)))
  BY FreshAreNumbered
<1>2. /\ IsTable(table) /\ IsBase(p.base, p.upto, table, at) /\ IsDated(table, at, p.n)
      /\ p.base \subseteq DOMAIN table
      /\ p.upto \in 0..p.n /\ p.n \in 0..Len(gained) /\ IsRoster(p.list)
  BY DEF IsLive, IsInOrder, IsBase
<1>3. /\ x <= a => x \in DOMAIN p.list /\ e.what = p.list[x] /\ e.what \in Skill
      /\ ~(x <= a) => /\ PairAt(x, p) \in Counted(p.counts)
                      /\ e.what = Characteristic[PairAt(x, p)[1]]
                      /\ e.what \in Increase /\ x \in Taken(p.entries)
  <2>1. e = p.entries[x]
    OBVIOUS
  <2> HIDE DEF e
  <2> QED
    BY <1>1, <2>1, LiveEntriesAre
<1>4. DOMAIN gained = 1..Len(gained) /\ Len(gained) \in Nat
  BY DEF IsReport
<1>5. IsDated(p.entries, when, Len(gained))
  BY LiveIsDated
<1>6. ASSUME NEW y \in Taken(p.entries)
      PROVE  /\ when[y] \in DOMAIN gained /\ gained[when[y]] = p.entries[y].what
             /\ when[y] = IF y <= a THEN Occurrence(p.list[y], 1)
                          ELSE Moment(PairAt(y, p), p.base, table, at)
  <2> DEFINE w(z) == IF z <= a THEN Occurrence(p.list[z], 1)
                     ELSE Moment(PairAt(z, p), p.base, table, at)
  <2>1. when = [z \in Taken(p.entries) |-> w(z)]
    BY DEF LiveWhen
  <2> HIDE DEF w
  <2>2. when[y] = w(y)
    BY <2>1
  <2>3. when[y] \in DOMAIN gained /\ gained[when[y]] = p.entries[y].what
    BY <1>4, <1>5 DEF IsDated
  <2> QED
    BY <2>2, <2>3 DEF w
<1>7. CASE x \in p.new
  <2>1. /\ x \in DOMAIN p.list /\ p.list[x] \notin Starting
        /\ ~FreeExtra(p.list[x], award) /\ \A i \in p.base : table[i].what # p.list[x]
    BY <1>7, LiveNewSkill
  <2>2. x <= a
    BY <1>2, <2>1 DEF IsRoster
  <2>3. e.what = p.list[x] /\ e.what \in Skill
    BY <1>3, <2>2
  <2>4. x \in Taken(p.entries)
    BY <1>1, <2>1, <2>3 DEF Taken
  <2>5. ~FreeSlot(e.what, table, award)
    <3>1. ASSUME NEW i \in DOMAIN table, table[i].what = p.list[x], table[i].free PROVE FALSE
      <4>1. i \notin p.base
        BY <2>1, <3>1
      <4>2. Paid(table[i])
        BY <1>2, <4>1 DEF IsBase
      <4> QED
        BY <3>1, <4>2 DEF Paid
    <3>2. p.list[x] \in Skill
      BY <2>3
    <3> QED
      BY <2>1, <2>3, <3>1, <3>2 DEF FreeSlot, FreeExtra
  <2>6. /\ when[x] \in DOMAIN gained /\ gained[when[x]] = p.list[x]
        /\ when[x] = Occurrence(p.list[x], 1)
    BY <1>6, <2>2, <2>3, <2>4
  <2>7. \A i \in Taken(table) : i \in p.base => at[i] # when[x]
    <3> SUFFICES ASSUME NEW i \in Taken(table), i \in p.base, at[i] = when[x] PROVE FALSE
      OBVIOUS
    <3>1. table[i].what = p.list[x]
      BY <1>2, <2>6 DEF IsDated
    <3> QED
      BY <2>1, <3>1
  <2>8. p.upto < when[x]
    <3> SUFFICES ASSUME ~(p.upto < when[x]) PROVE FALSE
      OBVIOUS
    <3>1. when[x] \in 1..p.upto
      BY <1>2, <1>4, <2>6
    <3>2. PICK i \in Taken(table) : i \in p.base /\ at[i] = when[x]
      BY <1>2, <3>1 DEF IsBase
    <3> QED
      BY <2>7, <3>2
  <2>9. \A i \in PaidIn(p.base, table) : i \in Taken(table) => at[i] # when[x]
    BY <2>7 DEF PaidIn
  <2> QED
    BY <1>7, <2>3, <2>4, <2>5, <2>6, <2>8, <2>9
<1>8. CASE x \notin p.new
  <2>1. ~(x <= a) /\ ~(x <= a + Cardinality(p.again))
    BY <1>1, <1>8
  <2> DEFINE s == PairAt(x, p)
             c == Characteristic[s[1]]
  <2>2. /\ s \in Counted(p.counts) /\ e.what = c /\ c \in Increase /\ x \in Taken(p.entries)
    BY <1>3, <2>1
  <2>3. when[x] \in DOMAIN gained /\ gained[when[x]] = e.what /\ when[x] = Moment(s, p.base, table, at)
    BY <1>6, <2>1, <2>2
  <2>4. s \in p.added
    <3>1. x \in DOMAIN p.entries /\ ~(x <= Len(p.list)) /\ ~(x <= Len(p.list) + Cardinality(p.again))
      BY <1>1, <2>1
    <3> QED
      BY <3>1, LiveIncrease
  <2>5. Cardinality(Of(c, p.base, table)) < s[2]
    BY <2>4 DEF IsLive, Added
  <2>6. ~(s[2] <= Cardinality(Of(c, p.base, table)))
    <3>1. s[2] \in Int /\ Cardinality(Of(c, p.base, table)) \in Int
      <4>1. s[2] \in 1..Times(c) /\ IsCounted(p.counts)
        BY <2>2, CountedPairs DEF IsLive
      <4>2. Cardinality(Of(c, p.base, table)) \in 0..Times(c) /\ Times(c) \in Nat
        <5>1. /\ IsInOrder(table, at, p.n)
          BY DEF IsLive
        <5>2. c \in Increase
          BY <2>2
        <5> HIDE DEF c
        <5> QED
          BY <1>2, <5>1, <5>2, MomentsOfOne
      <4> QED
        BY <4>1, <4>2
    <3> QED
      BY <2>5, <3>1
  <2>7. when[x] = Occurrence(c, s[2]) /\ p.upto < when[x]
    BY <2>2, <2>3, <2>6, MomentsOfIncreases
  <2>8. ~FreeSlot(e.what, table, award)
    BY <2>2, KindsDiffer DEF FreeSlot
  <2>9. ASSUME NEW i \in PaidIn(p.base, table), i \in Taken(table), at[i] = when[x] PROVE FALSE
    <3>1. i \in p.base
      BY DEF PaidIn
    <3>2. table[i].what \in Increase
      BY <1>2, <2>2, <2>3, <2>9 DEF IsDated
    <3>3. at[i] \in 1..p.upto
      BY <1>2, <2>9, <3>1, <3>2 DEF IsBase
    <3> QED
      BY <1>2, <1>4, <2>3, <2>7, <2>9, <3>3
  <2> QED
    BY <1>8, <2>2, <2>3, <2>7, <2>8, <2>9
<1> QED
  BY <1>7, <1>8

\* What is paid before the import is paid after it, and so is what it adds.
LEMMA LiveBound ==
  ASSUME IsReport(gained), NEW table, NEW at, NEW p, IsLive(p, table, at), StaysPaid(table, award),
         NEW paid, paid = PaidMoments(table, award)
  PROVE  /\ IsFiniteSet(paid) /\ Cardinality(paid) \in Nat
         /\ Cardinality(PaidIn(p.base, table)) + Cardinality(Fresh(p)) <= Cardinality(paid)
         /\ Cardinality(PaidRows(table)) <= Cardinality(paid)
         /\ Cardinality(PaidRows(table)) \in Nat
<1> DEFINE when == LiveWhen(p, table, at)
           B == PaidIn(p.base, table)
           F == Fresh(p)
<1>1. /\ IsTable(table) /\ IsDated(table, at, p.n) /\ p.base \subseteq DOMAIN table
      /\ p.n \in 0..Len(gained)
  BY DEF IsLive, IsInOrder, IsBase
<1>2. DOMAIN gained = 1..Len(gained) /\ Len(gained) \in Nat
  BY DEF IsReport
<1>3. IsFiniteSet(paid) /\ Cardinality(paid) \in Nat
  <2>1. paid \in SUBSET (1..Len(gained)) /\ IsFiniteSet(1..Len(gained))
    BY <1>2, FS_Interval DEF PaidMoments
  <2>2. IsFiniteSet(paid)
    BY <2>1, FS_Subset
  <2> QED
    BY <2>2, FS_CardinalityType
<1>4. ASSUME NEW i \in PaidRows(table) PROVE at[i] \in paid /\ i \in Taken(table)
  <2>1. i \in DOMAIN table /\ i \in Taken(table) /\ Paid(table[i])
    BY DEF PaidRows, Paid, Taken
  <2>2. at[i] \in DOMAIN gained /\ gained[at[i]] = table[i].what
    BY <1>1, <1>2, <2>1 DEF IsDated
  <2>3. ~FreeSlot(table[i].what, table, award)
    <3>1. ~FreeExtra(table[i].what, award)
      BY DEF StaysPaid
    <3>2. ASSUME table[i].what \in Skill, NEW j \in DOMAIN table, table[j].what = table[i].what
          PROVE  ~table[j].free
      <4>1. i = j
        BY <1>1, <2>1, <3>2 DEF IsTable, NamesWhatHeHas
      <4> QED
        BY <2>1, <4>1 DEF Paid
    <3> QED
      BY <3>1, <3>2 DEF FreeSlot, FreeExtra
  <2> QED
    BY <2>1, <2>2, <2>3 DEF PaidMoments
<1>5. \A i, j \in PaidRows(table) : at[i] = at[j] => i = j
  BY <1>1, <1>4 DEF IsDated
<1>6. IsFiniteSet(PaidRows(table)) /\ Cardinality(PaidRows(table)) <= Cardinality(paid)
  <2> DEFINE R == PaidRows(table)
  <2>1. (\A i \in R : at[i] \in paid) /\ \A i, j \in R : at[i] = at[j] => i = j
    BY <1>4, <1>5
  <2> HIDE DEF R
  <2>2. IsFiniteSet(R) /\ Cardinality(R) <= Cardinality(paid)
    BY <1>3, <2>1, OneToOne
  <2> QED
    BY <2>2 DEF R
<1>7. B \subseteq PaidRows(table)
  BY <1>1 DEF PaidIn, PaidRows
<1>8. \A x \in F : /\ x \in Taken(p.entries) /\ when[x] \in paid
                   /\ \A i \in B : at[i] # when[x]
  <2> SUFFICES ASSUME NEW x \in F
               PROVE  x \in Taken(p.entries) /\ when[x] \in paid /\ \A i \in B : at[i] # when[x]
    OBVIOUS
  <2>0. when = LiveWhen(p, table, at)
    OBVIOUS
  <2> HIDE DEF when
  <2>1. /\ x \in Taken(p.entries) /\ ~FreeSlot(p.entries[x].what, table, award)
        /\ when[x] \in DOMAIN gained /\ gained[when[x]] = p.entries[x].what
        /\ \A i \in B : i \in Taken(table) => at[i] # when[x]
    BY <2>0, FreshComeLater
  <2>2. when[x] \in paid
    BY <2>1 DEF PaidMoments
  <2> QED
    BY <1>4, <1>7, <2>1, <2>2
<1>9. IsDated(p.entries, when, Len(gained))
  BY LiveIsDated
<1>10. \A x, y \in F : when[x] = when[y] => x = y
  BY <1>8, <1>9 DEF IsDated
<1> HIDE DEF when, B, F
<1> DEFINE P1 == {at[i] : i \in B}
           P2 == {when[x] : x \in F}
<1>11. IsFiniteSet(B) /\ Cardinality(B) \in Nat
  BY <1>6, <1>7, FS_Subset, FS_CardinalityType
<1>12. IsFiniteSet(F) /\ Cardinality(F) \in Nat
  BY FreshAreNumbered DEF F
<1>13. P1 \subseteq paid /\ P2 \subseteq paid /\ P1 \cap P2 = {}
  BY <1>4, <1>7, <1>8
<1>14. IsFiniteSet(P1) /\ IsFiniteSet(P2)
  <2> HIDE DEF P1, P2
  <2> QED
    BY <1>3, <1>13, FS_Subset
<1>15. Cardinality(B) = Cardinality(P1)
  <2>1. /\ \A i \in B : at[i] \in P1
        /\ \A i, j \in B : at[i] = at[j] => i = j
        /\ \A q \in P1 : \E i \in B : at[i] = q
    BY <1>5, <1>7
  <2> HIDE DEF P1
  <2> QED
    BY <1>14, <2>1, AsMany
<1>16. Cardinality(F) = Cardinality(P2)
  <2>1. /\ \A x \in F : when[x] \in P2
        /\ \A q \in P2 : \E x \in F : when[x] = q
    OBVIOUS
  <2> HIDE DEF P2
  <2> QED
    BY <1>10, <1>14, <2>1, AsMany
<1> HIDE DEF P1, P2
<1>17. Cardinality(P1 \cup P2) = Cardinality(P1) + Cardinality(P2)
  <2>1. Cardinality(P1 \cup P2) = Cardinality(P1) + Cardinality(P2) - Cardinality(P1 \cap P2)
    BY <1>14, FS_Union
  <2>2. Cardinality(P1 \cap P2) = 0
    BY <1>13, FS_EmptySet
  <2> QED
    BY <1>11, <1>12, <1>15, <1>16, <2>1, <2>2
<1>18. Cardinality(P1 \cup P2) <= Cardinality(paid)
  BY <1>3, <1>13, FS_Subset
<1>19. Cardinality(PaidRows(table)) \in Nat
  BY <1>6, FS_CardinalityType
<1> QED
  BY <1>3, <1>6, <1>15, <1>16, <1>17, <1>18, <1>19 DEF B, F

\* The confirmed rows are numbered below the first number.
LEMMA SureComesBefore ==
  ASSUME NEW table, NEW at, NEW p, IsLive(p, table, at), NEW i \in SureRows(table)
  PROVE  /\ i \in p.base /\ i \in Taken(table) /\ i \in DOMAIN table
         /\ at[i] \in 1..p.upto
         /\ table[i].order \in 1..Cardinality(PaidRows(table))
         /\ table[i].order < FirstNumber(p.base, table)
<1>1. /\ IsTable(table) /\ IsBase(p.base, p.upto, table, at)
      /\ table[i].order \in 1..Cardinality(PaidRows(table))
  BY DEF IsLive, IsInOrder
<1>2. i \in p.base /\ at[i] \in 1..p.upto /\ i \in DOMAIN table /\ i \in Taken(table) /\ Paid(table[i])
  BY <1>1 DEF IsBase, SureRows, PaidRows, Paid, Taken
<1>3. i \in PaidIn(p.base, table)
  BY <1>2 DEF PaidIn
<1>4. p.base = DOMAIN table
  BY <1>1, <1>3 DEF IsBase
<1>5. PaidIn(p.base, table) = PaidRows(table)
  BY <1>4 DEF PaidIn, PaidRows
<1>6. FirstNumber(p.base, table) = Cardinality(PaidRows(table)) + 1 /\ Cardinality(PaidRows(table)) \in Nat
  BY <1>1, <1>4, <1>5, FirstNumberIsNat
<1> QED
  BY <1>1, <1>2, <1>6

\* What the entries confirm is confirmed already, or is the only one that is new.
LEMMA LiveSure ==
  ASSUME IsReport(gained), NEW table, NEW at, NEW p, IsLive(p, table, at),
         NEW when, when = LiveWhen(p, table, at), NEW x \in SureEntries(p.entries)
  PROVE  \/ x \in Fresh(p) /\ p.sure
         \/ \E i \in SureRows(table) :
              /\ table[i].what = p.entries[x].what /\ table[i].what \in Increase
              /\ at[i] = when[x] /\ table[i].order = p.entries[x].order
              /\ x \in Taken(p.entries)
<1> DEFINE a == Len(p.list)
           b == Cardinality(p.again)
           d == Cardinality(p.added)
           e == p.entries[x]
<1>1. x \in DOMAIN p.entries /\ e.confirmed
  BY DEF SureEntries
<1>2. /\ x <= a => (e.confirmed <=> x \in p.new /\ p.sure)
      /\ ~(x <= a) => /\ PairAt(x, p) \in Counted(p.counts)
                      /\ e.what = Characteristic[PairAt(x, p)[1]]
                      /\ e.what \in Increase /\ x \in Taken(p.entries)
  <2>1. e = p.entries[x]
    OBVIOUS
  <2> HIDE DEF e
  <2> QED
    BY <1>1, <2>1, LiveEntriesAre
<1>3. CASE x <= a
  <2>1. x \in p.new /\ p.sure
    BY <1>1, <1>2, <1>3
  <2> QED
    BY <2>1 DEF Fresh
<1>4. CASE ~(x <= a)
  <2> DEFINE s == PairAt(x, p)
             c == Characteristic[s[1]]
  <2>1. /\ e.what = c
        /\ x <= a + b => /\ s \in p.again
                         /\ p.listed => e = Unordered(s)
                         /\ ~p.listed => e = Again(s, p.base, table)
        /\ ~(x <= a + b) => e.confirmed = p.sure /\ x - a - b \in 1..d
    <3>1. /\ x \in DOMAIN p.entries /\ ~(x <= Len(p.list))
          /\ s = PairAt(x, p) /\ e = p.entries[x] /\ b = Cardinality(p.again)
      BY <1>1, <1>4
    <3> HIDE DEF s, e, b
    <3>2. e.what = Characteristic[s[1]]
      BY <3>1, LiveIncrease
    <3>3. x <= Len(p.list) + b => s \in p.again
      BY <3>1, LiveIncrease
    <3>4. x <= Len(p.list) + b => (p.listed => e = Unordered(s))
      BY <3>1, LiveIncrease
    <3>5. x <= Len(p.list) + b => (~p.listed => e = Again(s, p.base, table))
      BY <3>1, LiveIncrease
    <3>6. ~(x <= Len(p.list) + b) =>
             e.confirmed = p.sure /\ x - Len(p.list) - b \in 1..Cardinality(p.added)
      BY <3>1, LiveIncrease
    <3> QED
      BY <3>2, <3>3, <3>4, <3>5, <3>6
  <2>2. CASE ~(x <= a + b)
    <3>1. x = a + b + (x - a - b)
      <4>1. a \in Nat /\ b \in Nat /\ d \in Nat /\ x \in Int
        <5>1. a = Len(p.list) /\ b = Cardinality(p.again) /\ d = Cardinality(p.added)
          OBVIOUS
        <5> HIDE DEF a, b, d
        <5>2. a \in Nat /\ b \in Nat /\ d \in Nat /\ DOMAIN p.entries = 1..(a + b + d)
          BY <5>1, LivePairs
        <5> QED
          BY <1>1, <5>2
      <4> HIDE DEF a, b, d
      <4> QED
        BY <4>1
    <3>2. x \in Fresh(p)
      <4> DEFINE k == x - a - b
      <4>1. k \in 1..d /\ x = a + b + k
        BY <2>1, <2>2, <3>1
      <4> HIDE DEF k
      <4> QED
        BY <4>1 DEF Fresh
    <3> QED
      BY <1>1, <2>1, <2>2, <3>2
  <2>3. CASE x <= a + b
    <3>1. ~p.listed
      <4> SUFFICES ASSUME p.listed PROVE FALSE
        OBVIOUS
      <4>1. e = [what |-> c, order |-> 0, confirmed |-> FALSE]
        BY <2>1, <2>3 DEF Unordered
      <4> QED
        BY <1>1, <4>1
    <3> DEFINE i == AtPlace(s[2] - 1, Of(c, p.base, table), table)
    <3>2. /\ s \in Counted(p.counts) /\ s[2] <= Cardinality(Of(c, p.base, table))
      BY <2>1, <2>3, <3>1, AgainIsStored
    <3>3. i \in Of(c, p.base, table) /\ Moment(s, p.base, table, at) = at[i]
      BY <3>2, MomentsOfIncreases
    <3>4. e = [what |-> c, order |-> table[i].order, confirmed |-> table[i].confirmed]
      BY <2>1, <2>3, <3>1 DEF Again
    <3>5. IsTable(table) /\ p.base \subseteq DOMAIN table /\ \A j \in DOMAIN table : ~table[j].removed
      BY DEF IsLive, IsInOrder, IsBase
    <3>6. c \in Increase /\ x \in Taken(p.entries)
      BY <1>2, <1>4
    <3>7. when[x] = Moment(s, p.base, table, at)
      <4> DEFINE w(z) == IF z <= a THEN Occurrence(p.list[z], 1)
                         ELSE Moment(PairAt(z, p), p.base, table, at)
      <4>1. when = [z \in Taken(p.entries) |-> w(z)]
        BY DEF LiveWhen
      <4> HIDE DEF w
      <4>2. when[x] = w(x)
        BY <3>6, <4>1
      <4> QED
        BY <1>4, <4>2 DEF w
    <3> HIDE DEF i, c, e
    <3>8. i \in DOMAIN table /\ table[i].what = c
      BY <3>3, <3>5 DEF Of
    <3>9. table[i].confirmed /\ table[i].order = e.order /\ e.what = c
      BY <1>1, <3>4
    <3>10. Paid(table[i])
      BY <3>5, <3>6, <3>8, KindsDiffer, SkillsAreSorted DEF Paid, IsTable, IsRow
    <3>11. i \in SureRows(table)
      BY <3>8, <3>9, <3>10 DEF SureRows, PaidRows
    <3> QED
      BY <3>3, <3>6, <3>7, <3>8, <3>9, <3>11 DEF e
  <2> QED
    BY <2>2, <2>3
<1> QED
  BY <1>3, <1>4

\* Entry x is the one that a stored increase i is sent again as.
IsSentAgain(x, i, p, table, at, when) ==
  LET s == PairAt(x, p)
      c == Characteristic[s[1]] IN
  /\ x \in DOMAIN p.entries /\ ~(x <= Len(p.list))
  /\ x <= Len(p.list) + Cardinality(p.again)
  /\ s \in Counted(p.counts) /\ s \in p.again
  /\ c = table[i].what /\ p.entries[x].what = c
  /\ s[2] <= Cardinality(Of(c, p.base, table))
  /\ i = AtPlace(s[2] - 1, Of(c, p.base, table), table)
  /\ PlaceOf(i, Of(c, p.base, table), table) = s[2] - 1
  /\ x \in Taken(p.entries) /\ when[x] = at[i]

\* Each confirmed increase is sent again.
LEMMA SureIsSent ==
  ASSUME IsReport(gained), NEW table, NEW at, NEW p, IsLive(p, table, at),
         NEW when, when = LiveWhen(p, table, at),
         NEW i \in SureRows(table), table[i].what \in Increase
  PROVE  \E x \in DOMAIN p.entries : IsSentAgain(x, i, p, table, at, when)
<1> DEFINE a == Len(p.list)
           b == Cardinality(p.again)
           q == at[i]
<1>1. /\ i \in p.base /\ i \in Taken(table) /\ i \in DOMAIN table /\ at[i] \in 1..p.upto
  BY SureComesBefore
<1>2. /\ IsTable(table) /\ IsDated(table, at, p.n) /\ p.base \subseteq DOMAIN table
      /\ p.upto \in 0..p.n /\ p.n \in 0..Len(gained) /\ p.again = Counted(p.counts) \ p.added
  BY DEF IsLive, IsInOrder, IsBase
<1>3. DOMAIN gained = 1..Len(gained) /\ Len(gained) \in Nat
  BY DEF IsReport
<1>4. q \in DOMAIN gained /\ gained[q] = table[i].what /\ q <= p.upto /\ q \in Nat /\ p.upto \in Nat
  BY <1>1, <1>2, <1>3 DEF IsDated
<1>5. PICK s \in Counted(p.counts) : Moment(s, p.base, table, at) = q
  BY <1>4, MomentsOfIncreases
<1> DEFINE c == Characteristic[s[1]]
<1>6. c = table[i].what /\ c \in Increase
  BY <1>4, <1>5, MomentsOfIncreases
<1>7. s[2] <= Cardinality(Of(c, p.base, table))
  <2> SUFFICES ASSUME ~(s[2] <= Cardinality(Of(c, p.base, table))) PROVE FALSE
    OBVIOUS
  <2>1. p.upto < q
    BY <1>5, MomentsOfIncreases
  <2> QED
    BY <1>4, <2>1
<1>8. PICK j : /\ j = AtPlace(s[2] - 1, Of(c, p.base, table), table)
               /\ j \in Of(c, p.base, table) /\ PlaceOf(j, Of(c, p.base, table), table) = s[2] - 1
               /\ q = at[j]
  BY <1>5, <1>7, MomentsOfIncreases
<1>9. j = i
  <2>1. j \in DOMAIN table /\ table[j].what = c
    BY <1>2, <1>8 DEF Of
  <2>2. j \in Taken(table)
    BY <1>6, <2>1, KindsDiffer, SkillsAreSorted DEF Taken
  <2> QED
    BY <1>1, <1>2, <1>8, <2>2 DEF IsDated
<1>10. s \in p.again
  <2> SUFFICES ASSUME s \in p.added PROVE FALSE
    BY <1>2
  <2>1. Cardinality(Of(c, p.base, table)) < s[2]
    BY DEF IsLive, Added
  <2>2. s[2] \in Nat /\ Cardinality(Of(c, p.base, table)) \in Nat
    <3>1. s[2] \in 1..Times(c) /\ IsCounted(p.counts)
      BY <1>5, CountedPairs DEF IsLive
    <3>2. Cardinality(Of(c, p.base, table)) \in 0..Times(c) /\ Times(c) \in Nat
      <4>1. /\ IsInOrder(table, at, p.n) /\ IsBase(p.base, p.upto, table, at)
        BY DEF IsLive
      <4> HIDE DEF c
      <4> QED
        BY <1>2, <1>6, <4>1, MomentsOfOne
    <3> QED
      BY <3>1, <3>2
  <2> QED
    BY <1>7, <2>1, <2>2
<1>11. PICK x \in DOMAIN p.entries : ~(x <= a) /\ PairAt(x, p) = s
  <2>1. EachIsSent(p)
    <3>1. a = Len(p.list) /\ b = Cardinality(p.again)
      OBVIOUS
    <3> HIDE DEF a, b
    <3> QED
      BY <3>1, LivePairs
  <2> QED
    BY <1>5, <2>1 DEF EachIsSent
<1>12. x <= a + b
  <2> SUFFICES ASSUME ~(x <= a + b) PROVE FALSE
    OBVIOUS
  <2>1. s \in p.added
    <3>1. /\ x \in DOMAIN p.entries /\ ~(x <= Len(p.list)) /\ s = PairAt(x, p)
          /\ b = Cardinality(p.again) /\ ~(x <= Len(p.list) + b)
      BY <1>11
    <3> HIDE DEF b
    <3> QED
      BY <3>1, LiveIncrease
  <2> QED
    BY <1>2, <1>10, <2>1
<1>13. x \in Taken(p.entries) /\ p.entries[x].what = c
  BY <1>11, LiveEntriesAre
<1>14. when[x] = q
  <2> DEFINE w(z) == IF z <= a THEN Occurrence(p.list[z], 1)
                     ELSE Moment(PairAt(z, p), p.base, table, at)
  <2>1. when = [z \in Taken(p.entries) |-> w(z)]
    BY DEF LiveWhen
  <2> HIDE DEF w
  <2>2. when[x] = w(x)
    BY <1>13, <2>1
  <2> QED
    BY <1>5, <1>11, <2>2 DEF w
<1>15. IsSentAgain(x, i, p, table, at, when)
  BY <1>6, <1>7, <1>8, <1>9, <1>10, <1>11, <1>12, <1>13, <1>14 DEF IsSentAgain
<1> QED
  BY <1>15

\* Entries without an order are told apart by where they are listed.
LEMMA UnorderedPlace ==
  ASSUME IsReport(gained), NEW table, NEW at, NEW p, IsLive(p, table, at), p.listed,
         NEW x \in DOMAIN p.entries, ~(x <= Len(p.list)), x <= Len(p.list) + Cardinality(p.again),
         NEW s, s = PairAt(x, p), NEW c, c = Characteristic[s[1]]
  PROVE  PlaceOf(x, SentFor(c, p.entries), p.entries) = s[2] - 1
<1> DEFINE a == Len(p.list)
           b == Cardinality(p.again)
           E == p.entries
           S == {y \in SentFor(c, E) : y < x}
           T == 1..(s[2] - 1)
<1>1. /\ p.again = Counted(p.counts) \ p.added /\ p.added = {}
      /\ Len(E) \in Nat /\ DOMAIN E = 1..Len(E) /\ IsCounted(p.counts)
  <2>1. IsEntryList(p.entries)
    BY LiveIsDated
  <2> QED
    BY <2>1 DEF IsLive, IsEntryList, NamesWhatHeHas
<1>2. /\ \A t \in Counted(p.counts) :
           /\ t = <<t[1], t[2]>> /\ t[1] \in DOMAIN Characteristic
           /\ Characteristic[t[1]] \in Increase
           /\ t[2] \in 1..Times(Characteristic[t[1]])
      /\ \A k \in DOMAIN Characteristic : \A j \in 1..Times(Characteristic[k]) :
           <<k, j>> \in Counted(p.counts)
      /\ \A t \in Counted(p.counts) : t[1] \in Nat
      /\ \A e \in Increase : Times(e) \in Nat
  <2>1. Counted(p.counts) \subseteq Nat \X Nat
    BY <1>1, CountedPairs
  <2>2. \A e \in Increase : Times(e) \in Nat
    BY OccurrenceIsThere
  <2>3. \A t \in Counted(p.counts) : t[1] \in Nat
    BY <2>1
  <2> QED
    BY <1>1, <2>2, <2>3, CountedPairs
<1>3. /\ \A y, z \in DOMAIN E : ~(y <= a) /\ ~(z <= a) /\ PairAt(y, p) = PairAt(z, p) => y = z
      /\ EachIsSent(p) /\ a \in Nat /\ b \in Nat /\ DOMAIN E = 1..(a + b)
  <2> DEFINE d == Cardinality(p.added)
  <2>1. a = Len(p.list) /\ b = Cardinality(p.again) /\ d = Cardinality(p.added)
    OBVIOUS
  <2>2. d = 0
    BY <1>1, FS_EmptySet
  <2> HIDE DEF a, b, d, E
  <2>3. \A y, z \in DOMAIN p.entries : ~(y <= a) /\ ~(z <= a) /\ PairAt(y, p) = PairAt(z, p) => y = z
    BY <2>1, LivePairs
  <2>4. EachIsSent(p) /\ a \in Nat /\ b \in Nat /\ d \in Nat /\ DOMAIN p.entries = 1..(a + b + d)
    BY <2>1, LivePairs
  <2>5. a + b + d = a + b
    BY <2>2, <2>4
  <2> QED
    BY <2>3, <2>4, <2>5 DEF E
<1>4. ASSUME NEW y \in DOMAIN E, NEW z \in DOMAIN E, ~(y <= a), y < z
      PROVE  ComesBefore(PairAt(y, p), PairAt(z, p))
  <2>1. z <= a + b
    BY <1>3
  <2> DEFINE d == Cardinality(p.added)
  <2>2. a = Len(p.list) /\ b = Cardinality(p.again) /\ d = Cardinality(p.added)
    OBVIOUS
  <2> HIDE DEF a, b, d
  <2> QED
    BY <1>4, <2>1, <2>2, LivePairs DEF E
<1>5. ASSUME NEW y \in SentFor(c, E)
      PROVE  /\ y \in DOMAIN E /\ ~(y <= a) /\ PairAt(y, p) \in Counted(p.counts)
             /\ PairAt(y, p)[1] = s[1] /\ E[y].order = 0 /\ ~E[y].confirmed
  <2>0. s \in Counted(p.counts) /\ c \in Increase
    BY LiveEntriesAre
  <2>1. y \in DOMAIN E /\ E[y].what = c
    BY DEF SentFor
  <2>2. ~(y <= a)
    BY <2>0, <2>1, LiveEntriesAre, KindsDiffer
  <2>3. PairAt(y, p) \in Counted(p.counts) /\ Characteristic[PairAt(y, p)[1]] = c
    BY <2>1, <2>2, LiveEntriesAre
  <2>4. PairAt(y, p)[1] = s[1]
    BY <1>2, <2>0, <2>3, CharacteristicsAreListed DEF IsInjective
  <2> DEFINE t == PairAt(y, p)
             e == E[y]
  <2>5. /\ y \in DOMAIN p.entries /\ ~(y <= Len(p.list)) /\ t = PairAt(y, p) /\ e = p.entries[y]
        /\ b = Cardinality(p.again) /\ y <= Len(p.list) + b
    BY <1>3, <2>1, <2>2
  <2> HIDE DEF t, e, b
  <2>6. e = Unordered(t)
    BY <2>5, LiveIncrease
  <2>7. e.order = 0 /\ ~e.confirmed
    BY <2>6 DEF Unordered
  <2> QED
    BY <2>1, <2>2, <2>3, <2>4, <2>7 DEF e
<1>6. x \in SentFor(c, E) /\ s \in Counted(p.counts) /\ c \in Increase
  <2>1. E[x].what = Characteristic[PairAt(x, p)[1]] /\ s \in Counted(p.counts) /\ c \in Increase
    BY LiveEntriesAre
  <2> QED
    BY <2>1 DEF SentFor
<1>7. PlaceOf(x, SentFor(c, E), E) = Cardinality(S)
  <2>1. \A y \in SentFor(c, E) : Precedes(E[y], y, E[x], x) <=> y < x
    BY <1>5, <1>6 DEF Precedes, Rank
  <2>2. {y \in SentFor(c, E) : Precedes(E[y], y, E[x], x)} = S
    BY <2>1
  <2> QED
    BY <2>2 DEF PlaceOf
<1>8. s[2] \in 1..Times(c) /\ Times(c) \in Nat /\ s[1] \in DOMAIN Characteristic /\ s[1] \in Nat
  BY <1>2, <1>6
<1> DEFINE f == [y \in S |-> PairAt(y, p)[2]]
<1>9. \A y \in S : f[y] \in T
  <2> SUFFICES ASSUME NEW y \in S PROVE PairAt(y, p)[2] \in T
    OBVIOUS
  <2>1. y \in SentFor(c, E) /\ y < x
    OBVIOUS
  <2>2. ComesBefore(PairAt(y, p), s)
    BY <1>4, <1>5, <2>1
  <2>3. PairAt(y, p)[1] = s[1] /\ PairAt(y, p)[2] \in 1..Times(c)
    BY <1>2, <1>5, <2>1
  <2>4. PairAt(y, p)[2] < s[2]
    BY <1>8, <2>2, <2>3 DEF ComesBefore
  <2> QED
    BY <1>8, <2>3, <2>4
<1>10. \A y, z \in S : f[y] = f[z] => y = z
  <2> SUFFICES ASSUME NEW y \in S, NEW z \in S, PairAt(y, p)[2] = PairAt(z, p)[2] PROVE y = z
    OBVIOUS
  <2>1. y \in SentFor(c, E) /\ z \in SentFor(c, E)
    OBVIOUS
  <2>2. PairAt(y, p)[1] = PairAt(z, p)[1] /\ PairAt(y, p) \in Counted(p.counts)
        /\ PairAt(z, p) \in Counted(p.counts)
    BY <1>5, <2>1
  <2>3. PairAt(y, p) = PairAt(z, p)
    BY <1>2, <2>2
  <2> QED
    BY <1>3, <1>5, <2>1, <2>3
<1>11. \A j \in T : \E y \in S : f[y] = j
  <2> SUFFICES ASSUME NEW j \in T PROVE \E y \in S : PairAt(y, p)[2] = j
    OBVIOUS
  <2>1. <<s[1], j>> \in Counted(p.counts)
    BY <1>2, <1>8
  <2>2. PICK y \in DOMAIN E : ~(y <= a) /\ PairAt(y, p) = <<s[1], j>>
    BY <1>3, <2>1 DEF EachIsSent
  <2>3. E[y].what = c
    BY <2>2, LiveEntriesAre
  <2>4. y # x
    <3>1. s[2] # j
      BY <1>8
    <3> QED
      BY <2>2, <3>1
  <2>5. ~(x < y)
    <3> SUFFICES ASSUME x < y PROVE FALSE
      OBVIOUS
    <3>1. ComesBefore(s, PairAt(y, p))
      BY <1>4
    <3> DEFINE t == PairAt(y, p)
    <3>2. t[1] = s[1] /\ t[2] = j
      BY <2>2
    <3> HIDE DEF t
    <3>3. ComesBefore(s, t)
      BY <3>1 DEF t
    <3> QED
      BY <1>8, <3>2, <3>3 DEF ComesBefore
  <2>6. y < x
    BY <1>1, <2>4, <2>5
  <2>7. y \in SentFor(c, E)
    BY <2>3 DEF SentFor
  <2> QED
    BY <2>2, <2>6, <2>7
<1>12. IsFiniteSet(T) /\ Cardinality(T) = s[2] - 1
  <2> DEFINE h == s[2] - 1
  <2>1. h \in Nat
    BY <1>8
  <2> HIDE DEF h
  <2>2. IsFiniteSet(1..h) /\ Cardinality(1..h) = h
    BY <2>1, FS_Interval
  <2> QED
    BY <2>2 DEF h
<1> HIDE DEF S, T, f
<1>13. Cardinality(S) = Cardinality(T)
  BY <1>9, <1>10, <1>11, <1>12, AsMany
<1> QED
  BY <1>7, <1>12, <1>13 DEF E

\* No confirmed increase loses its confirmation, or its moment.
LEMMA LiveKept ==
  ASSUME IsReport(gained), NEW table, NEW at, NEW p, IsLive(p, table, at),
         NEW when, when = LiveWhen(p, table, at)
  PROVE  AreKept(p.entries, when, table, at, p.pending)
<1> DEFINE E == p.entries
           a == Len(p.list)
           b == Cardinality(p.again)
<1>1. /\ IsTable(table) /\ IsDated(table, at, p.n) /\ p.base \subseteq DOMAIN table
      /\ \A i \in DOMAIN table : ~table[i].removed
  BY DEF IsLive, IsInOrder, IsBase
<1>2. /\ Len(table) \in Nat /\ DOMAIN table = 1..Len(table)
      /\ \A i \in DOMAIN table : IsRow(table[i])
  BY <1>1 DEF IsTable, NamesWhatHeHas
<1>3. /\ IsEntryList(E) /\ Len(E) \in Nat /\ DOMAIN E = 1..Len(E)
      /\ \A x \in DOMAIN E : IsEntry(E[x])
  <2>1. IsEntryList(E)
    BY LiveIsDated
  <2> QED
    BY <2>1 DEF IsEntryList, NamesWhatHeHas
<1>4. CASE ~p.listed
  <2> SUFFICES ASSUME NEW c \in Increase
               PROVE  Cardinality({i \in SureRows(table) : table[i].what = c})
                        <= Cardinality({x \in SureEntries(E) : E[x].what = c})
    BY DEF AreKept
  <2> DEFINE S == {i \in SureRows(table) : table[i].what = c}
             T == {x \in SureEntries(E) : E[x].what = c}
             f == [i \in S |-> CHOOSE x \in T : when[x] = at[i]]
  <2>1. IsFiniteSet(T)
    <3>1. T \in SUBSET (1..Len(E)) /\ IsFiniteSet(1..Len(E))
      BY <1>3, FS_Interval DEF SureEntries
    <3> HIDE DEF T
    <3> QED
      BY <3>1, FS_Subset
  <2>2. ASSUME NEW i \in S PROVE i \in Taken(table) /\ \E x \in T : when[x] = at[i]
    <3>0. i \in SureRows(table) /\ table[i].what = c
      OBVIOUS
    <3>1. PICK x \in DOMAIN E : IsSentAgain(x, i, p, table, at, when)
      BY <3>0, SureIsSent
    <3> DEFINE s == PairAt(x, p)
               e == E[x]
    <3>2. /\ s \in p.again /\ ~(x <= Len(p.list)) /\ x <= Len(p.list) + b
          /\ Characteristic[s[1]] = c /\ e.what = c /\ when[x] = at[i]
          /\ i = AtPlace(s[2] - 1, Of(c, p.base, table), table)
      BY <3>0, <3>1 DEF IsSentAgain
    <3>3. e = Again(s, p.base, table)
      <4>1. x \in DOMAIN p.entries /\ s = PairAt(x, p) /\ e = p.entries[x] /\ b = Cardinality(p.again)
        OBVIOUS
      <4> HIDE DEF s, e, b
      <4> QED
        BY <1>4, <3>2, <4>1, LiveIncrease
    <3>4. e = [what |-> c, order |-> table[i].order, confirmed |-> table[i].confirmed]
      <4> HIDE DEF s, e
      <4> QED
        BY <3>2, <3>3 DEF Again
    <3>5. table[i].confirmed
      BY <3>0 DEF SureRows
    <3>6. e.confirmed
      <4> HIDE DEF e
      <4> QED
        BY <3>4, <3>5
    <3>7. x \in T
      BY <3>2, <3>6 DEF SureEntries
    <3>8. i \in Taken(table)
      BY <3>0, SureComesBefore
    <3> QED
      BY <3>2, <3>7, <3>8
  <2>3. \A i \in S : f[i] \in T /\ when[f[i]] = at[i]
    <3> HIDE DEF S, T
    <3> QED
      BY <2>2
  <2>4. \A i, j \in S : f[i] = f[j] => i = j
    <3> HIDE DEF S, T, f
    <3> QED
      BY <1>1, <2>2, <2>3 DEF IsDated
  <2> HIDE DEF S, T, f
  <2>5. Cardinality(S) <= Cardinality(T)
    BY <2>1, <2>3, <2>4, OneToOne
  <2> QED
    BY <2>5 DEF S, T
<1>5. CASE p.listed
  <2>1. /\ p.new = {} /\ p.added = {} /\ p.base = DOMAIN table
        /\ DOMAIN p.pending = IF p.waits
             THEN p.new \cup {a + b + k : k \in 1..Cardinality(p.added)} ELSE {}
    BY <1>5 DEF IsLive
  <2>2. DOMAIN p.pending = {}
    <3>1. Cardinality(p.added) = 0
      BY <2>1, FS_EmptySet
    <3>2. \A k \in 1..Cardinality(p.added) : FALSE
      BY <3>1
    <3>3. {a + b + k : k \in 1..Cardinality(p.added)} = {}
      BY <3>2
    <3> HIDE DEF a, b
    <3> QED
      BY <2>1, <3>3
  <2>3. ASSUME NEW i \in SureRows(table), table[i].what \in Increase
        PROVE  when[PairOf(i, E, table)] = at[i]
    <3> DEFINE c == table[i].what
    <3>1. PICK x \in DOMAIN E : IsSentAgain(x, i, p, table, at, when)
      BY <2>3, SureIsSent
    <3> DEFINE s == PairAt(x, p)
               k == s[2] - 1
               sent == SentFor(c, E)
    <3>2. /\ ~(x <= Len(p.list)) /\ x <= Len(p.list) + Cardinality(p.again)
          /\ c = Characteristic[s[1]] /\ E[x].what = c /\ when[x] = at[i]
          /\ PlaceOf(i, Of(c, p.base, table), table) = k
      BY <3>1 DEF IsSentAgain
    <3>3. PlaceOf(x, sent, E) = k
      <4>1. s = PairAt(x, p) /\ c = Characteristic[s[1]]
        BY <3>2
      <4> HIDE DEF s, c
      <4> QED
        BY <1>5, <3>2, <4>1, UnorderedPlace
    <3>4. Active(c, table) = Of(c, p.base, table)
      BY <1>1, <2>1 DEF Active, Of
    <3>5. i \in DOMAIN table /\ i \in Active(c, table)
      BY <1>1, SureComesBefore DEF Active
    <3>6. RowPlace(i, table) = k
      BY <3>2, <3>4, <3>5 DEF RowPlace
    <3>7. PairOf(i, E, table) = AtPlace(k, sent, E)
      BY <2>3, <3>5, <3>6 DEF PairOf
    <3>8. x \in sent /\ sent \subseteq Nat /\ IsFiniteSet(sent) /\ \A y \in sent : E[y].order \in Int
      <4>1. x \in sent /\ sent \in SUBSET (1..Len(E)) /\ \A y \in sent : E[y].order \in Int
        BY <1>3, <3>2 DEF SentFor, IsEntry
      <4>2. IsFiniteSet(1..Len(E))
        BY <1>3, FS_Interval
      <4>3. IsFiniteSet(sent)
        BY <4>1, <4>2, FS_Subset
      <4> QED
        BY <1>3, <4>1, <4>3
    <3> HIDE DEF sent, k, s
    <3>9. AtPlace(k, sent, E) = x
      <4>1. /\ PlaceOf(x, sent, E) \in 0..(Cardinality(sent) - 1)
            /\ \A y, z \in sent : PlaceOf(y, sent, E) = PlaceOf(z, sent, E) => y = z
            /\ \A l \in 0..(Cardinality(sent) - 1) :
                 AtPlace(l, sent, E) \in sent /\ PlaceOf(AtPlace(l, sent, E), sent, E) = l
        BY <3>8, PlacesOfRows
      <4> QED
        BY <3>3, <3>8, <4>1
    <3> QED
      BY <3>2, <3>7, <3>9
  <2> QED
    BY <2>2, <2>3 DEF AreKept
<1> QED
  BY <1>4, <1>5

\* The marks of the entries are those of rows, or of the one entry that is new.
LEMMA LiveMarks ==
  ASSUME IsReport(gained), NEW table, NEW at, NEW p, IsLive(p, table, at),
         NEW when, when = LiveWhen(p, table, at), NEW m \in EntryMarks(p.entries, when)
  PROVE  \/ m \in RowMarks(table, at)
         \/ p.sure /\ \E x \in Fresh(p) : m = <<p.entries[x].order, when[x]>>
<1>1. PICK x \in SureEntries(p.entries) : m = <<p.entries[x].order, when[x]>>
  BY DEF EntryMarks
<1>2. CASE x \in Fresh(p) /\ p.sure
  BY <1>1, <1>2
<1>3. CASE ~(x \in Fresh(p) /\ p.sure)
  <2>0. \/ x \in Fresh(p) /\ p.sure
        \/ \E i \in SureRows(table) :
             /\ table[i].what = p.entries[x].what /\ table[i].what \in Increase
             /\ at[i] = when[x] /\ table[i].order = p.entries[x].order
             /\ x \in Taken(p.entries)
    BY LiveSure
  <2>1. PICK i \in SureRows(table) : at[i] = when[x] /\ table[i].order = p.entries[x].order
    BY <1>3, <2>0
  <2> QED
    BY <1>1, <2>1 DEF RowMarks
<1> QED
  BY <1>2, <1>3

\* The confirmed rows are numbered below what is new, and were gained before it.
LEMMA RowMarksAreBefore ==
  ASSUME IsReport(gained), NEW table, NEW at, NEW p, IsLive(p, table, at),
         NEW when, when = LiveWhen(p, table, at),
         NEW first, first = FirstNumber(p.base, table),
         NEW m \in RowMarks(table, at), NEW x \in Fresh(p)
  PROVE  /\ m[1] < first /\ first <= p.entries[x].order /\ m[2] < when[x]
         /\ m[1] < p.entries[x].order
         /\ {m[1], first, p.entries[x].order, m[2], when[x]} \subseteq Int
<1>1. PICK i \in SureRows(table) : m = <<table[i].order, at[i]>>
  BY DEF RowMarks
<1>2. /\ at[i] \in 1..p.upto /\ table[i].order \in 1..Cardinality(PaidRows(table))
      /\ table[i].order < first
  BY SureComesBefore
<1>3. p.upto < when[x] /\ when[x] \in DOMAIN gained
  BY FreshComeLater
<1>4. /\ p.upto \in 0..p.n /\ p.n \in 0..Len(gained) /\ Len(gained) \in Nat
      /\ DOMAIN gained = 1..Len(gained) /\ IsTable(table) /\ p.base \subseteq DOMAIN table
  BY DEF IsLive, IsReport, IsBase, IsInOrder
<1>5. first \in Nat
  BY <1>4, FirstNumberIsNat
<1>6. Cardinality(Fresh(p)) \in Nat /\ p.entries[x].order \in first..(first + Cardinality(Fresh(p)) - 1)
  BY FreshAreNumbered
<1>7. table[i].order \in Int
  BY <1>2
<1>8. m[1] = table[i].order /\ m[2] = at[i]
  BY <1>1
<1>9. at[i] \in Int /\ when[x] \in Int /\ p.upto \in Int
  BY <1>2, <1>3, <1>4
<1>10. p.entries[x].order \in Int /\ first <= p.entries[x].order
  BY <1>5, <1>6
<1>11. at[i] < when[x]
  BY <1>2, <1>3, <1>9
<1> QED
  BY <1>2, <1>5, <1>7, <1>8, <1>9, <1>10, <1>11

\* The numbers go up with the moments in both together.
LEMMA LiveInStep ==
  ASSUME IsReport(gained), NEW table, NEW at, NEW p, IsLive(p, table, at),
         NEW when, when = LiveWhen(p, table, at)
  PROVE  InStep(RowMarks(table, at) \cup EntryMarks(p.entries, when))
<1> DEFINE R == RowMarks(table, at)
           M == EntryMarks(p.entries, when)
           IsNew(m) == \E x \in Fresh(p) : m = <<p.entries[x].order, when[x]>>
<1>1. InStep(R)
  BY DEF IsLive, IsInOrder
<1>2. \A m \in M : m \in R \/ (p.sure /\ IsNew(m))
  BY LiveMarks
<1>3. ASSUME p.sure, NEW m, NEW l, IsNew(m), IsNew(l) PROVE m = l
  <2>1. PICK x \in Fresh(p) : m = <<p.entries[x].order, when[x]>>
    BY <1>3
  <2>2. PICK y \in Fresh(p) : l = <<p.entries[y].order, when[y]>>
    BY <1>3
  <2>3. IsFiniteSet(Fresh(p)) /\ Cardinality(Fresh(p)) \in Nat /\ Cardinality(Fresh(p)) <= 1
    <3>1. /\ IsFiniteSet(Fresh(p)) /\ Cardinality(Fresh(p)) \in Nat
          /\ Cardinality(Fresh(p)) = Cardinality(p.new) + Cardinality(p.added)
      BY FreshAreNumbered
    <3>2. Cardinality(p.new) + Cardinality(p.added) <= 1
      BY <1>3 DEF IsLive
    <3> QED
      BY <3>1, <3>2
  <2>4. x = y
    <3> DEFINE F == Fresh(p)
    <3>1. x \in F /\ y \in F /\ IsFiniteSet(F) /\ Cardinality(F) \in Nat /\ Cardinality(F) <= 1
      BY <2>3
    <3> HIDE DEF F
    <3>2. Cardinality(F) # 0
      BY <3>1, FS_EmptySet
    <3>3. Cardinality(F) = 1
      BY <3>1, <3>2
    <3>4. PICK z : F = {z}
      BY <3>1, <3>3, FS_Singleton
    <3> QED
      BY <3>1, <3>4
  <2> QED
    BY <2>1, <2>2, <2>4
<1>4. ASSUME NEW m \in R, NEW l, IsNew(l)
      PROVE  m[1] < l[1] /\ m[2] < l[2] /\ {m[1], l[1], m[2], l[2]} \subseteq Int
  <2>1. PICK x \in Fresh(p) : l = <<p.entries[x].order, when[x]>>
    BY <1>4
  <2>2. m[1] < p.entries[x].order /\ m[2] < when[x]
        /\ {m[1], p.entries[x].order, m[2], when[x]} \subseteq Int
    BY RowMarksAreBefore
  <2> QED
    BY <2>1, <2>2
<1>5. ASSUME NEW m, IsNew(m) PROVE m[1] \in Int /\ m[2] \in Int
  <2>1. PICK x \in Fresh(p) : m = <<p.entries[x].order, when[x]>>
    BY <1>5
  <2>2. x \in DOMAIN p.entries /\ when[x] \in DOMAIN gained
    BY FreshAreNumbered, FreshComeLater
  <2>3. IsEntry(p.entries[x])
    BY <2>2, LiveEntriesAre
  <2>4. when[x] \in Int
    BY <2>2 DEF IsReport
  <2> QED
    BY <2>1, <2>3, <2>4 DEF IsEntry
<1> HIDE DEF R, M, IsNew
<1>6. ASSUME NEW m \in R \cup M, NEW l \in R \cup M PROVE m[1] < l[1] <=> m[2] < l[2]
  <2>1. CASE m \in R /\ l \in R
    BY <1>1, <2>1 DEF InStep
  <2>2. CASE m \in R /\ IsNew(l)
    BY <1>4, <2>2
  <2>3. CASE IsNew(m) /\ l \in R
    BY <1>4, <2>3
  <2>4. CASE p.sure /\ IsNew(m) /\ IsNew(l)
    <3>1. m = l
      BY <1>3, <2>4
    <3>2. m[1] \in Int /\ m[2] \in Int
      BY <1>5, <2>4
    <3> QED
      BY <3>1, <3>2
  <2> QED
    BY <1>2, <2>1, <2>2, <2>3, <2>4
<1> QED
  BY <1>6 DEF InStep, R, M

\* What the entries confirm is paid, and numbered among what is.
LEMMA LiveIsListed ==
  ASSUME IsReport(gained), NEW table, NEW at, NEW p, IsLive(p, table, at), StaysPaid(table, award),
         NEW when, when = LiveWhen(p, table, at)
  PROVE  IsListed(p.entries, when, table, award)
<1> DEFINE E == p.entries
           paid == PaidMoments(table, award)
           first == FirstNumber(p.base, table)
<1>1. IsEntryList(E) /\ IsDated(E, when, Len(gained))
  BY LiveIsDated
<1>2. E = [x \in DOMAIN E |-> [what |-> E[x].what, order |-> E[x].order, confirmed |-> E[x].confirmed]]
  <2>1. E = [x \in DOMAIN E |-> E[x]]
    BY DEF IsLive, IsFunction
  <2>2. \A x \in DOMAIN E :
          E[x] = [what |-> E[x].what, order |-> E[x].order, confirmed |-> E[x].confirmed]
    BY LiveEntriesAre
  <2> HIDE DEF E
  <2> QED
    BY <2>1, <2>2
<1>3. /\ Cardinality(paid) \in Nat
      /\ Cardinality(PaidIn(p.base, table)) + Cardinality(Fresh(p)) <= Cardinality(paid)
      /\ Cardinality(PaidRows(table)) <= Cardinality(paid) /\ Cardinality(PaidRows(table)) \in Nat
  BY LiveBound
<1>4. Cardinality(PaidIn(p.base, table)) \in Nat /\ first = Cardinality(PaidIn(p.base, table)) + 1
  <2>1. IsTable(table) /\ p.base \subseteq DOMAIN table
    BY DEF IsLive, IsInOrder, IsBase
  <2> QED
    BY <2>1, FirstNumberIsNat
<1>5. ASSUME NEW x \in SureEntries(E)
      PROVE  /\ x \in Taken(E) /\ ~FreeSlot(E[x].what, table, award)
             /\ E[x].order \in 1..Cardinality(paid)
  <2>0. \/ x \in Fresh(p)
        \/ \E i \in SureRows(table) :
             /\ table[i].what = p.entries[x].what /\ table[i].what \in Increase
             /\ at[i] = when[x] /\ table[i].order = p.entries[x].order
             /\ x \in Taken(p.entries)
    BY LiveSure
  <2>1. CASE x \in Fresh(p)
    <3>1. x \in Taken(E) /\ ~FreeSlot(E[x].what, table, award)
      BY <2>1, FreshComeLater
    <3>2. /\ Cardinality(Fresh(p)) \in Nat
          /\ E[x].order \in first..(first + Cardinality(Fresh(p)) - 1)
      BY <2>1, FreshAreNumbered
    <3> DEFINE c == Cardinality(Fresh(p))
               d == Cardinality(PaidIn(p.base, table))
               m == Cardinality(paid)
               o == E[x].order
    <3>3. c \in Nat /\ d \in Nat /\ m \in Nat /\ d + c <= m /\ first = d + 1
          /\ o \in first..(first + c - 1)
      BY <1>3, <1>4, <3>2
    <3> HIDE DEF c, d, m, o, first
    <3>4. o \in 1..m
      BY <3>3
    <3> QED
      BY <3>1, <3>4 DEF m, o
  <2>2. ASSUME NEW i \in SureRows(table), table[i].what = E[x].what, table[i].what \in Increase,
               table[i].order = E[x].order, x \in Taken(E)
        PROVE  ~FreeSlot(E[x].what, table, award) /\ E[x].order \in 1..Cardinality(paid)
    <3>1. table[i].order \in 1..Cardinality(PaidRows(table))
      BY SureComesBefore
    <3>2. ~FreeSlot(E[x].what, table, award)
      BY <2>2, KindsDiffer DEF FreeSlot
    <3> HIDE DEF E, paid
    <3> QED
      BY <1>3, <2>2, <3>1, <3>2
  <2> QED
    BY <2>0, <2>1, <2>2
<1> QED
  BY <1>1, <1>2, <1>5 DEF IsListed

\* What waits comes after all that is confirmed.
LEMMA LiveComesLater ==
  ASSUME IsReport(gained), NEW table, NEW at, NEW p, IsLive(p, table, at), StaysPaid(table, award),
         NEW when, when = LiveWhen(p, table, at)
  PROVE  ComeLater(p.entries, when, table, at, award, p.pending)
<1> DEFINE W == DOMAIN p.pending
           paid == PaidMoments(table, award)
           first == FirstNumber(p.base, table)
<1>1. W = IF p.waits THEN Fresh(p) ELSE {}
  BY DEF IsLive, Fresh
<1>2. ASSUME NEW x \in W
      PROVE  /\ x \in Fresh(p) /\ x \in Taken(p.entries)
             /\ ~FreeSlot(p.entries[x].what, table, award) /\ p.pending[x] = when[x]
  <2>1. x \in Fresh(p)
    BY <1>1
  <2>2. p.pending[x] = IF x \in p.new THEN Occurrence(p.list[x], 1)
                       ELSE Occurrence(Characteristic[PairAt(x, p)[1]], PairAt(x, p)[2])
    BY DEF IsLive
  <2> QED
    BY <2>1, <2>2, FreshComeLater
<1>3. ASSUME W # {}
      PROVE \E one \in DOMAIN gained :
         /\ \E x \in W : p.entries[x].order = one
         /\ \A x \in W : one <= p.entries[x].order
         /\ \A m \in RowMarks(table, at) \cup EntryMarks(p.entries, when) :
              m[1] < one /\ \A x \in W : m[2] < when[x]
         /\ one - 1 + Cardinality(W) <= Cardinality(paid)
  <2>1. p.waits /\ W = Fresh(p) /\ ~p.sure
    BY <1>1, <1>3 DEF IsLive
  <2>2. /\ IsFiniteSet(paid) /\ Cardinality(paid) \in Nat
        /\ Cardinality(PaidIn(p.base, table)) + Cardinality(Fresh(p)) <= Cardinality(paid)
    BY LiveBound
  <2>3. Cardinality(PaidIn(p.base, table)) \in Nat /\ first = Cardinality(PaidIn(p.base, table)) + 1
    <3>1. IsTable(table) /\ p.base \subseteq DOMAIN table
      BY DEF IsLive, IsInOrder, IsBase
    <3> QED
      BY <3>1, FirstNumberIsNat
  <2>4. /\ IsFiniteSet(Fresh(p)) /\ Cardinality(Fresh(p)) \in Nat
        /\ \E x \in Fresh(p) : p.entries[x].order = first
        /\ \A x \in Fresh(p) :
             p.entries[x].order \in first..(first + Cardinality(Fresh(p)) - 1)
    BY <1>3, <2>1, FreshAreNumbered
  <2>5. Cardinality(Fresh(p)) # 0
    <3>1. IsFiniteSet(Fresh(p)) /\ Fresh(p) # {}
      BY <1>3, <2>1, <2>4
    <3> QED
      BY <3>1, FS_EmptySet
  <2>6. Cardinality(paid) <= Len(gained) /\ DOMAIN gained = 1..Len(gained) /\ Len(gained) \in Nat
    <3>1. DOMAIN gained = 1..Len(gained) /\ Len(gained) \in Nat
      BY DEF IsReport
    <3>2a. paid \in SUBSET (1..Len(gained))
      BY <3>1 DEF PaidMoments
    <3>2b. \A k \in Nat : IsFiniteSet(1..k) /\ Cardinality(1..k) = k
      BY FS_Interval
    <3>2. paid \in SUBSET (1..Len(gained)) /\ IsFiniteSet(1..Len(gained))
          /\ Cardinality(1..Len(gained)) = Len(gained)
      BY <3>1, <3>2a, <3>2b
    <3> HIDE DEF paid
    <3>3. Cardinality(paid) <= Cardinality(1..Len(gained))
      BY <3>2, FS_Subset
    <3> QED
      BY <3>1, <3>2, <3>3
  <2> DEFINE c == Cardinality(Fresh(p))
             d == Cardinality(PaidIn(p.base, table))
             m == Cardinality(paid)
             l == Len(gained)
  <2>7. first \in 1..l /\ first - 1 + c <= m /\ first \in Nat
    <3>1. c \in Nat /\ d \in Nat /\ m \in Nat /\ l \in Nat /\ d + c <= m /\ first = d + 1 /\ c # 0 /\ m <= l
      BY <2>2, <2>3, <2>4, <2>5, <2>6
    <3> HIDE DEF c, d, m, l, first
    <3> QED
      BY <3>1
  <2>8. \A x \in W : first <= p.entries[x].order
    <3> HIDE DEF first, W
    <3> QED
      BY <2>1, <2>4, <2>7
  <2>9. EntryMarks(p.entries, when) \subseteq RowMarks(table, at)
    BY <2>1, LiveMarks
  <2>10. ASSUME NEW k \in RowMarks(table, at) PROVE k[1] < first /\ \A x \in W : k[2] < when[x]
    <3>1. \A x \in Fresh(p) : k[1] < first /\ k[2] < when[x]
      BY RowMarksAreBefore
    <3> QED
      BY <2>1, <2>4, <3>1
  <2>11. \A k \in RowMarks(table, at) \cup EntryMarks(p.entries, when) :
              k[1] < first /\ \A x \in W : k[2] < when[x]
    BY <2>9, <2>10
  <2>12. \E x \in W : p.entries[x].order = first
    BY <2>1, <2>4
  <2>13. first \in DOMAIN gained /\ first - 1 + Cardinality(W) <= Cardinality(paid)
    BY <2>1, <2>6, <2>7
  <2> HIDE DEF first, W, paid
  <2> QED
    BY <2>8, <2>11, <2>12, <2>13
<1> QED
  BY <1>2, <1>3 DEF ComeLater

\* liveEntries(): what TP's import plans fits the rows it read.
LEMMA PlanFits ==
  ASSUME IsReport(gained), NEW table, NEW at, NEW n \in 0..Len(gained), IsInOrder(table, at, n),
         NEW check \in BOOLEAN, NEW bulk \in BOOLEAN, NEW list, IsRoster(list),
         NEW counts, IsCounted(counts), NEW plan, plan = LiveEntries(list, counts, check, bulk, table)
  PROVE  /\ SendsAll(plan.entries)
         /\ StaysPaid(table, award) =>
              \E when \in [Taken(plan.entries) -> DOMAIN gained] :
                FitsIn(plan.entries, when, table, at, award, plan.pending)
<1>1. PICK p : IsLive(p, table, at) /\ p.entries = plan.entries /\ p.pending = plan.pending
  BY LiveIsMade
<1> DEFINE when == LiveWhen(p, table, at)
<1>2. IsDated(p.entries, when, Len(gained)) /\ SendsAll(p.entries)
  BY <1>1, LiveIsDated
<1>3. ASSUME StaysPaid(table, award)
      PROVE  \E w \in [Taken(p.entries) -> DOMAIN gained] :
                FitsIn(p.entries, w, table, at, award, p.pending)
  <2>1. /\ IsListed(p.entries, when, table, award)
        /\ ComeLater(p.entries, when, table, at, award, p.pending)
        /\ InStep(RowMarks(table, at) \cup EntryMarks(p.entries, when))
        /\ AreKept(p.entries, when, table, at, p.pending)
    BY <1>1, <1>3, LiveIsListed, LiveComesLater, LiveInStep, LiveKept
  <2>2. when \in [Taken(p.entries) -> DOMAIN gained]
    <3>1. DOMAIN gained = 1..Len(gained)
      BY DEF IsReport
    <3> HIDE DEF when
    <3> QED
      BY <1>2, <3>1 DEF IsDated
  <2>3. FitsIn(p.entries, when, table, at, award, p.pending)
    BY <2>1 DEF FitsIn
  <2> HIDE DEF when
  <2> QED
    BY <2>2, <2>3
<1> QED
  BY <1>1, <1>2, <1>3

-----------------------------------------------------------------------------
(* The invariant, step by step, and the theorem.                              *)

\* A table in order is in order in the next state, whichever variable it is in.
LEMMA InOrderNext ==
  ASSUME UNCHANGED gained, NEW at, NEW n, NEW table, IsInOrder(table, at, n), rows' = table
  PROVE  IsInOrder(rows, at, n)'
<1>1. IsTable(table) => IsTable(rows)'
  BY DEF IsTable, NamesWhatHeHas
<1>2. IsDated(table, at, n) => IsDated(rows, at, n)'
  BY DEF IsDated
<1> QED
  BY <1>1, <1>2 DEF IsInOrder

\* Entries that send everything do so in the next state.
LEMMA SendsNext ==
  ASSUME UNCHANGED gained, NEW list, SendsAll(list), entries' = list
  PROVE  SendsAll(entries)'
<1>1. IsEntryList(list) => IsEntryList(entries)'
  BY DEF IsEntryList, NamesWhatHeHas
<1> QED
  BY <1>1 DEF SendsAll

\* So do entries that fit such a table.
LEMMA FitsNext ==
  ASSUME UNCHANGED gained, NEW list, NEW when, NEW table, NEW at, NEW granted, NEW waits,
         FitsIn(list, when, table, at, granted, waits),
         entries' = list, rows' = table, award' = granted, pending' = waits
  PROVE  FitsIn(entries, when, rows, at, award, pending)'
<1>1. IsEntryList(list) => IsEntryList(entries)'
  BY DEF IsEntryList, NamesWhatHeHas
<1>2. IsDated(list, when, Len(gained)) => IsDated(entries, when, Len(gained))'
  BY DEF IsDated
<1>3. PaidMoments(rows, award)' = PaidMoments(table, granted)
  BY DEF PaidMoments
<1>4. IsListed(list, when, table, granted) => IsListed(entries, when, rows, award)'
  BY <1>1, <1>2, <1>3 DEF IsListed
<1>5. ComeLater(list, when, table, at, granted, waits) =>
        ComeLater(entries, when, rows, at, award, pending)'
  BY <1>3 DEF ComeLater
<1> QED
  BY <1>4, <1>5 DEF FitsIn

\* What the import has in hand, in the next state.
LEMMA LiveNext ==
  ASSUME UNCHANGED gained, NEW at, NEW list, NEW waits, NEW table, NEW granted,
         entries' = list, pending' = waits, rows' = table, award' = granted,
         stage' = "stored" => planned'.read = table,
         stage' = "granted" => planned'.granted = granted,
         stage' = "write" => planned'.read = table /\ planned'.rows = PlannedRows(list, table, granted),
         stage' \in {"sync", "granted", "write", "deduce"} /\ told' # Unknown =>
           /\ waits # <<>> => DOMAIN waits # {}
           /\ stage' = "deduce" => StaysPaid(table, granted)
           /\ SendsAll(list)
           /\ StaysPaid(table, granted) =>
                \E when \in [Taken(list) -> DOMAIN gained] :
                  FitsIn(list, when, table, at, granted, waits)
  PROVE  LiveIsSound(at)'
<1>1. ASSUME stage' \in {"sync", "granted", "write", "deduce"}, told' # Unknown
      PROVE  /\ pending' # <<>> => DOMAIN pending' # {}
             /\ stage' = "deduce" => StaysPaid(rows, award)'
             /\ SendsAll(entries)'
             /\ StaysPaid(rows, award)' =>
                  \E when \in [Taken(entries') -> DOMAIN gained'] :
                    FitsIn(entries, when, rows, at, award, pending)'
  <2>1. SendsAll(entries)'
    BY <1>1, SendsNext
  <2>2. StaysPaid(rows, award)' <=> StaysPaid(table, granted)
    OBVIOUS
  <2>3. ASSUME StaysPaid(table, granted)
        PROVE  \E when \in [Taken(entries') -> DOMAIN gained'] :
                    FitsIn(entries, when, rows, at, award, pending)'
    <3>1. PICK when \in [Taken(list) -> DOMAIN gained] : FitsIn(list, when, table, at, granted, waits)
      BY <1>1, <2>3
    <3>2. FitsIn(entries, when, rows, at, award, pending)'
      BY <3>1, FitsNext
    <3>3. when \in [Taken(entries') -> DOMAIN gained']
      BY <3>1
    <3> QED
      BY <3>2, <3>3
  <2> QED
    BY <1>1, <2>1, <2>2, <2>3
<1>2. /\ stage' = "stored" => planned'.read = rows'
      /\ stage' = "granted" => planned'.granted = award'
      /\ stage' = "write" => planned'.read = rows' /\ planned'.rows = PlannedRows(entries', rows', award')
  OBVIOUS
<1> QED
  BY <1>1, <1>2 DEF LiveIsSound

\* The next state, when the rows are in order then.
LEMMA OrderNext ==
  ASSUME RecordsAreWhole', NEW n \in 0..Len(gained'), NEW at,
         IsInOrder(rows, at, n)', ~overlapped' => LiveIsSound(at)'
  PROVE  OInv'
<1>1. at \in [Taken(rows') -> 1..n]
  BY DEF IsInOrder, IsDated
<1> QED
  BY <1>1 DEF OInv

\* The records keep their columns.
LEMMA RecordsStay ==
  ASSUME RecordsAreWhole, AdvNext
  PROVE  RecordsAreWhole'
<1> USE DEF RecordsAreWhole, importer, curator, NotPlanned, Idle
<1>1. CASE Gain
  BY <1>1 DEF Gain
<1>2. CASE BblScrape \/ TpRead \/ TpPlan \/ SyncReadsAward \/ SyncPlans
  BY <1>2 DEF BblScrape, TpRead, TpPlan, SyncReadsAward, SyncPlans
<1>3. CASE SyncWrites \/ ImportFails \/ Deduce
  BY <1>3 DEF SyncWrites, ImportFails, Deduce, EndImport
<1>4. CASE Settles \/ StoresUnspent
  BY <1>4 DEF Settles, StoresUnspent, EndImport
<1>5. CASE Curate
  BY <1>5 DEF Curate
<1>6. CASE Unmark \/ Mark
  BY <1>6 DEF Unmark, Mark, At
<1>7. CASE Refresh \/ StoresRefreshed \/ CurationFails
  BY <1>7 DEF Refresh, StoresRefreshed, CurationFails, EndCuration
<1> QED
  BY <1>1, <1>2, <1>3, <1>4, <1>5, <1>6, <1>7 DEF AdvNext

\* A step that leaves the rows as they are, and after which no import is under way or
\* another call has come in between.
LEMMA RowsStay ==
  ASSUME OInv, RecordsAreWhole', UNCHANGED <<site, rows>>, whole' => whole,
         Len(gained) \in Nat, Len(gained') \in Nat, Len(gained) <= Len(gained'),
         \A i \in 1..Len(gained) : gained'[i] = gained[i],
         Range(gained) \subseteq Range(gained'),
         ~overlapped' => stage' \notin {"stored", "sync", "granted", "write", "deduce"}
  PROVE  OInv'
<1> SUFFICES ASSUME site = "tp", whole PROVE OInv'
  BY DEF OInv
<1>1. PICK n \in 0..Len(gained) : \E at \in [Taken(rows) -> 1..n] : IsInOrder(rows, at, n)
  BY DEF OInv
<1>2. PICK at \in [Taken(rows) -> 1..n] : IsInOrder(rows, at, n)
  BY <1>1
<1>3. IsInOrder(rows, at, n)'
  <2>1. IsTable(rows)'
    BY <1>2, TableStays DEF IsInOrder
  <2>2. IsDated(rows, at, n)'
    <3>1. IsDated(rows, at, n)
      BY <1>2 DEF IsInOrder
    <3>2. \A i \in Taken(rows) : gained'[at[i]] = gained[at[i]]
      BY <1>1, <3>1 DEF IsDated
    <3> QED
      BY <3>1, <3>2 DEF IsDated
  <2> QED
    BY <1>2, <2>1, <2>2 DEF IsInOrder
<1>4. ~overlapped' => LiveIsSound(at)'
  BY DEF LiveIsSound
<1> QED
  BY <1>1, <1>3, <1>4, OrderNext

\* A player without advancements.
LEMMA InitOInv == AdvInit => OInv
<1> SUFFICES ASSUME AdvInit PROVE OInv
  OBVIOUS
<1> DEFINE at == [i \in {} |-> 0]
<1>1. rows = <<>> /\ gained = <<>> /\ stage = "idle"
  BY DEF AdvInit
<1>2. Taken(rows) = {} /\ PaidRows(rows) = {} /\ SureRows(rows) = {}
  BY <1>1 DEF Taken, PaidRows, SureRows
<1>3. IsTable(rows)
  BY <1>1 DEF IsTable, NamesWhatHeHas
<1>4. IsInOrder(rows, at, 0)
  <2>1. IsDated(rows, at, 0)
    BY <1>2 DEF IsDated
  <2>2. InStep(RowMarks(rows, at))
    BY <1>2 DEF RowMarks, InStep
  <2> QED
    BY <1>1, <1>2, <1>3, <2>1, <2>2 DEF IsInOrder
<1>5. LiveIsSound(at)
  BY <1>1 DEF LiveIsSound
<1>6. RecordsAreWhole
  BY DEF AdvInit, RecordsAreWhole, NotPlanned, Idle
<1>7. at \in [Taken(rows) -> 1..0] /\ 0 \in 0..Len(gained)
  BY <1>1, <1>2
<1> HIDE DEF at
<1> QED
  BY <1>4, <1>5, <1>6, <1>7 DEF OInv

\* Steps of TP's importer that leave the rows as they are.
LEMMA KeepsRows ==
  ASSUME OInv, RecordsAreWhole', UNCHANGED <<site, rows, gained>>, whole' => whole,
         \A at : site = "tp" /\ whole /\ ~overlapped' /\ (~overlapped => LiveIsSound(at))
                   /\ (\E n \in 0..Len(gained) : IsInOrder(rows, at, n)) => LiveIsSound(at)'
  PROVE  OInv'
<1> SUFFICES ASSUME site = "tp", whole PROVE OInv'
  BY DEF OInv
<1>1. PICK n \in 0..Len(gained) : \E at \in [Taken(rows) -> 1..n] :
          IsInOrder(rows, at, n) /\ (~overlapped => LiveIsSound(at))
  BY DEF OInv
<1>2. PICK at \in [Taken(rows) -> 1..n] : IsInOrder(rows, at, n) /\ (~overlapped => LiveIsSound(at))
  BY <1>1
<1>3. IsInOrder(rows, at, n)'
  BY <1>2, InOrderNext
<1>4. ~overlapped' => LiveIsSound(at)'
  BY <1>1, <1>2
<1>5. n \in 0..Len(gained')
  BY <1>1
<1> QED
  BY <1>3, <1>4, <1>5, OrderNext

\* The rows are read.
LEMMA TpReadOInv ==
  ASSUME NInv, OInv, RecordsAreWhole', TpRead
  PROVE  OInv'
<1> USE DEF advStore, curator
<1>1. /\ UNCHANGED <<site, rows, gained, whole>> /\ stage' = "stored"
      /\ planned' = [NotPlanned EXCEPT !.read = rows]
  BY DEF TpRead
<1>2. planned'.read = rows'
  BY <1>1 DEF NotPlanned
<1>3. ASSUME NEW at PROVE LiveIsSound(at)'
  BY <1>1, <1>2 DEF LiveIsSound
<1> QED
  BY <1>1, <1>3, KeepsRows

\* syncPlayer() of TP: the entries are planned from the rows it read.
LEMMA TpPlanOInv ==
  ASSUME NInv, OInv, RecordsAreWhole', TpPlan
  PROVE  OInv'
<1> USE DEF advStore, curator, advHistory
<1>1. PICK check \in BOOLEAN, bulk \in BOOLEAN, short \in SUBSET (Increase \cap Range(gained)),
           list \in SetToAllKPermutations(Skill \cap Range(gained)) :
        LET counts == [c \in Increase |->
              Cardinality({i \in DOMAIN gained : gained[i] = c}) - (IF c \in short THEN 1 ELSE 0)]
            plan == LiveEntries(StartingList \o list, counts, check, bulk, planned.read)
            complete == Range(list) = Skill \cap Range(gained) /\ short = {}
        IN /\ entries' = plan.entries /\ pending' = plan.pending
           /\ told' = IF complete THEN gained ELSE Unknown
  BY DEF TpPlan
<1>2. /\ UNCHANGED <<site, rows, gained, award, whole, overlapped>>
      /\ stage = "stored" /\ stage' = "sync"
  BY DEF TpPlan
<1> DEFINE counts == [c \in Increase |->
              Cardinality({i \in DOMAIN gained : gained[i] = c}) - (IF c \in short THEN 1 ELSE 0)]
           plan == LiveEntries(StartingList \o list, counts, check, bulk, planned.read)
<1>3. /\ entries' = plan.entries /\ pending' = plan.pending
      /\ told' # Unknown => Range(list) = Skill \cap Range(gained) /\ short = {}
  BY <1>1
<1>4. IsReport(gained)
  BY DEF NInv
<1>5. ASSUME NEW at, site = "tp", whole, ~overlapped', ~overlapped => LiveIsSound(at),
             \E n \in 0..Len(gained) : IsInOrder(rows, at, n)
      PROVE  LiveIsSound(at)'
  <2>1. planned.read = rows
    BY <1>2, <1>5 DEF LiveIsSound
  <2>2. PICK n \in 0..Len(gained) : IsInOrder(rows, at, n)
    BY <1>5
  <2>3. ASSUME told' # Unknown
        PROVE  /\ pending' # <<>> => DOMAIN pending' # {}
               /\ SendsAll(plan.entries)
               /\ StaysPaid(rows, award) =>
                    \E when \in [Taken(plan.entries) -> DOMAIN gained] :
                      FitsIn(plan.entries, when, rows, at, award, plan.pending)
    <3>1. IsCounted(counts)
      <4> SUFFICES ASSUME NEW c \in Increase PROVE counts[c] = Times(c)
        BY DEF IsCounted
      <4>1. counts[c] = Times(c) - (IF c \in short THEN 1 ELSE 0)
        BY DEF Times
      <4>2. c \notin short /\ Times(c) \in Nat
        BY <1>3, <1>4, <2>3, OccurrenceIsThere
      <4> QED
        BY <4>1, <4>2
    <3>2. IsRoster(StartingList \o list)
      BY <1>3, <1>4, <2>3, RosterIsListed
    <3>3. plan = LiveEntries(StartingList \o list, counts, check, bulk, rows)
      BY <2>1
    <3> HIDE DEF counts, plan
    <3>4. /\ SendsAll(plan.entries)
          /\ StaysPaid(rows, award) =>
               \E when \in [Taken(plan.entries) -> DOMAIN gained] :
                 FitsIn(plan.entries, when, rows, at, award, plan.pending)
      BY <1>4, <2>2, <3>1, <3>2, <3>3, PlanFits
    <3>5. plan.pending = [x \in DOMAIN plan.pending |-> plan.pending[x]]
      BY <3>3 DEF LiveEntries
    <3>6. pending' # <<>> => DOMAIN pending' # {}
      BY <1>3, <3>5
    <3> QED
      BY <3>4, <3>6
  <2> HIDE DEF plan
  <2>4. stage' = "sync" /\ award' = award /\ rows' = rows
    BY <1>2
  <2> QED
    BY <1>2, <1>3, <2>3, <2>4, LiveNext
<1> QED
  BY <1>2, <1>5, KeepsRows

\* sync(): the award and the rows are read, the plan is made.
LEMMA SyncReadsOInv ==
  ASSUME NInv, OInv, RecordsAreWhole', SyncReadsAward \/ SyncPlans
  PROVE  OInv'
<1> USE DEF advStore, curator, advHistory
<1>1. /\ UNCHANGED <<site, rows, gained, award, whole, overlapped, entries, pending, told>>
      /\ \/ /\ stage = "sync" /\ stage' = "granted" /\ planned' = [planned EXCEPT !.granted = award]
         \/ /\ stage = "granted" /\ stage' = "write"
            /\ planned' = [planned EXCEPT !.read = rows,
                                          !.rows = PlannedRows(entries, rows, planned.granted)]
  BY DEF SyncReadsAward, SyncPlans
<1>2. {"read", "granted", "rows", "count"} \subseteq DOMAIN planned
  BY DEF OInv, RecordsAreWhole
<1>3. ASSUME NEW at, ~overlapped => LiveIsSound(at), ~overlapped'
      PROVE  LiveIsSound(at)'
  <2>1. LiveIsSound(at)
    BY <1>1, <1>3
  <2>2. told # Unknown =>
          /\ pending # <<>> => DOMAIN pending # {}
          /\ SendsAll(entries)
          /\ StaysPaid(rows, award) =>
               \E when \in [Taken(entries) -> DOMAIN gained] :
                 FitsIn(entries, when, rows, at, award, pending)
    BY <1>1, <2>1 DEF LiveIsSound
  <2>3. stage = "granted" => planned.granted = award
    BY <2>1 DEF LiveIsSound
  <2>4. stage' = "granted" => planned'.granted = award
    BY <1>1, <1>2
  <2>5. stage' = "write" => planned'.read = rows /\ planned'.rows = PlannedRows(entries, rows, award)
    <3>1. SUFFICES ASSUME stage' = "write"
          PROVE planned'.read = rows /\ planned'.rows = PlannedRows(entries, rows, award)
      OBVIOUS
    <3> DEFINE new == PlannedRows(entries, rows, planned.granted)
    <3>2. planned' = [planned EXCEPT !.read = rows, !.rows = new]
      BY <1>1, <3>1
    <3>3. new = PlannedRows(entries, rows, award)
      BY <1>1, <2>3, <3>1
    <3> HIDE DEF new
    <3> QED
      BY <1>2, <3>2, <3>3
  <2>6. stage' \in {"granted", "write"}
    BY <1>1
  <2> QED
    BY <1>1, <2>2, <2>4, <2>5, <2>6, LiveNext
<1> QED
  BY <1>1, <1>3, KeepsRows

\* deducedEntries(): the order that is deduced fits the rows.
LEMMA DeduceOInv ==
  ASSUME NInv, OInv, RecordsAreWhole', Deduce
  PROVE  OInv'
<1> USE DEF advStore, curator
<1> DEFINE waiting == DOMAIN pending
           first == CHOOSE n \in {entries[x].order : x \in waiting} :
                        \A x \in waiting : n <= entries[x].order
           place(x) == Cardinality({y \in waiting : pending[y] < pending[x]})
           InOrder == [x \in DOMAIN entries |->
              IF x \in waiting
              THEN [entries[x] EXCEPT !.order = first + place(x), !.confirmed = TRUE]
              ELSE entries[x]]
<1>0. /\ UNCHANGED <<site, rows, gained, award, overlapped>> /\ stage = "deduce"
      /\ \/ stage' = "idle"
         \/ stage' = "sync" /\ pending' = <<>> /\ UNCHANGED told
  BY DEF Deduce, EndImport
<1>1a. whole' => whole
  BY Zenon DEF Deduce
<1>1. /\ UNCHANGED <<site, rows, gained, award, overlapped>> /\ stage = "deduce"
      /\ whole' => whole
      /\ \/ stage' = "idle"
         \/ stage' = "sync" /\ pending' = <<>> /\ UNCHANGED told
  BY <1>0, <1>1a
<1>2. whole' => stage' = "idle" \/ entries' = InOrder
  <2> DEFINE Listed == [x \in DOMAIN entries |->
              IF x \in waiting
              THEN [entries[x] EXCEPT !.order = entries[x].order, !.confirmed = TRUE]
              ELSE entries[x]]
  <2>1. \/ stage' = "idle"
        \/ entries' = InOrder
        \/ entries' = Listed /\ whole' = (whole /\ InOrder = Listed)
    BY Zenon DEF Deduce, EndImport
  <2> HIDE DEF InOrder, Listed
  <2> QED
    BY <2>1
<1>3. IsReport(gained)
  BY DEF NInv
<1>4. ASSUME NEW at, site = "tp", whole', ~overlapped', ~overlapped => LiveIsSound(at),
             \E n \in 0..Len(gained) : IsInOrder(rows, at, n)
      PROVE  LiveIsSound(at)'
  <2>1. CASE stage' = "idle"
    BY <2>1 DEF LiveIsSound
  <2>2. CASE stage' # "idle"
    <3> DEFINE deduced == Deduced(entries, pending, first)
    <3>1. entries' = deduced /\ stage' = "sync" /\ pending' = <<>> /\ UNCHANGED told
      BY <1>1, <1>2, <1>4, <2>2 DEF Deduced
    <3>2. IsFirst(first, entries, pending)
      BY DEF IsFirst
    <3> HIDE DEF deduced, first
    <3>3. PICK n \in 0..Len(gained) : IsInOrder(rows, at, n)
      BY <1>4
    <3>4. ASSUME told # Unknown
          PROVE  SendsAll(deduced) /\ \E when \in [Taken(deduced) -> DOMAIN gained] :
                   FitsIn(deduced, when, rows, at, award, <<>>)
      <4>1. SendsAll(entries) /\ \E when \in [Taken(entries) -> DOMAIN gained] :
                   FitsIn(entries, when, rows, at, award, pending)
        BY <1>1, <1>4, <3>4 DEF LiveIsSound
      <4>2. PICK when \in [Taken(entries) -> DOMAIN gained] :
                   FitsIn(entries, when, rows, at, award, pending)
        BY <4>1
      <4>3. deduced = Deduced(entries, pending, first)
        BY DEF deduced
      <4>4. FitsIn(deduced, when, rows, at, award, <<>>)
        BY <1>3, <3>2, <3>3, <4>2, <4>3, DeducedFits
      <4>5. IsEntryList(deduced) /\ IsDated(deduced, when, Len(gained))
        BY <4>4 DEF FitsIn, IsListed
      <4>6. SendsAll(deduced)
        BY <4>1, <4>3, <4>5, DeducedSendsAll
      <4>7. when \in [Taken(deduced) -> DOMAIN gained]
        <5>1. DOMAIN gained = 1..Len(gained)
          BY <1>3 DEF IsReport
        <5> QED
          BY <4>5, <5>1 DEF IsDated
      <4> QED
        BY <4>4, <4>6, <4>7
    <3>5. stage' \notin {"stored", "granted", "write", "deduce"}
      BY <3>1
    <3> QED
      BY <1>1, <3>1, <3>4, <3>5, LiveNext
  <2> QED
    BY <2>1, <2>2
<1>5. CASE whole'
  BY <1>1, <1>4, <1>5, KeepsRows
<1>6. CASE ~whole'
  BY <1>6 DEF OInv
<1> QED
  BY <1>5, <1>6

\* The other steps that leave the rows as they are.
LEMMA QuietOInv ==
  ASSUME NInv, OInv, RecordsAreWhole', AdvNext, UNCHANGED <<site, rows>>, whole' => whole,
         Gain \/ UNCHANGED gained,
         ~overlapped' => stage' \notin {"stored", "sync", "granted", "write", "deduce"}
  PROVE  OInv'
<1>1. IsReport(gained)
  BY DEF NInv
<1>2. /\ Len(gained) \in Nat /\ Len(gained') \in Nat /\ Len(gained) <= Len(gained')
      /\ \A i \in 1..Len(gained) : gained'[i] = gained[i]
      /\ Range(gained) \subseteq Range(gained')
  <2>1. CASE UNCHANGED gained
    BY <1>1, <2>1 DEF IsReport
  <2>2. CASE Gain
    <3>1. PICK what \in Skill \cup Increase : gained' = Append(gained, what)
      BY <2>2 DEF Gain
    <3>2. gained \in Seq(Skill \cup Increase)
      BY <1>1 DEF IsReport
    <3>3. /\ Len(gained) \in Nat /\ Len(gained') = Len(gained) + 1
          /\ \A i \in 1..Len(gained) : gained'[i] = gained[i]
          /\ DOMAIN gained = 1..Len(gained) /\ DOMAIN gained' = 1..(Len(gained) + 1)
      BY <3>1, <3>2
    <3>4. \A i \in DOMAIN gained : i \in DOMAIN gained' /\ gained'[i] = gained[i]
      BY <3>3
    <3>5. Range(gained) \subseteq Range(gained')
      BY <3>4 DEF Range
    <3> QED
      BY <3>3, <3>5
  <2> QED
    BY <2>1, <2>2
<1> QED
  BY <1>2, RowsStay

\* They keep the invariant.
LEMMA QuietStepsOInv ==
  ASSUME NInv, OInv, RecordsAreWhole',
         \/ Gain \/ ImportFails \/ Settles \/ StoresUnspent \/ Curate
         \/ Refresh \/ StoresRefreshed \/ CurationFails,
         site = "tp"
  PROVE  OInv'
<1> USE DEF advStore, importer, curator, advHistory
<1>0. OverlapIsKnown
  BY DEF NInv, PInv
<1>1. CASE Gain
  <2>1. UNCHANGED <<site, rows, whole>> /\ stage' = "idle"
    BY <1>1 DEF Gain, Busy
  <2> QED
    BY <1>1, <2>1, QuietOInv DEF AdvNext
<1>2. CASE ImportFails
  <2>1. UNCHANGED <<site, rows, whole, gained>> /\ stage' = "idle"
    BY <1>2 DEF ImportFails, EndImport
  <2> QED
    BY <1>2, <2>1, QuietOInv DEF AdvNext
<1>3. CASE Settles \/ StoresUnspent
  <2>1. UNCHANGED <<site, rows, whole, gained>> /\ stage' \in {"idle", "price"}
    BY <1>3 DEF Settles, StoresUnspent, EndImport
  <2> QED
    BY <1>3, <2>1, QuietOInv DEF AdvNext
<1>4. CASE Curate
  <2>1. UNCHANGED <<site, rows, whole, gained, stage>> /\ overlapped' = Busy
    BY <1>4 DEF Curate
  <2>2. ~overlapped' => stage' = "idle"
    BY <2>1 DEF Busy
  <2> QED
    BY <1>4, <2>1, <2>2, QuietOInv DEF AdvNext
<1>5. CASE Refresh \/ StoresRefreshed \/ CurationFails
  <2>1. UNCHANGED <<site, rows, whole, gained, stage, overlapped>> /\ Curating
    BY <1>5 DEF Refresh, StoresRefreshed, CurationFails, Curating
  <2>2. ~overlapped' => stage' = "idle"
    BY <1>0, <2>1 DEF OverlapIsKnown, Busy
  <2> QED
    BY <1>5, <2>1, <2>2, QuietOInv DEF AdvNext
<1> QED
  BY <1>1, <1>2, <1>3, <1>4, <1>5

\* unmarkTrophyGranted(): what becomes paid again is of unknown order.
LEMMA UnmarkOInv ==
  ASSUME NInv, OInv, RecordsAreWhole', Unmark
  PROVE  OInv'
<1> USE DEF advStore, importer, curator, advHistory
<1>1. /\ UNCHANGED <<site, gained, stage, overlapped>> /\ Curating
      /\ UNCHANGED <<rows, whole>> \/ whole' = FALSE
  BY DEF Unmark, Curating
<1>2. ~overlapped' => stage' = "idle"
  BY <1>1 DEF NInv, PInv, OverlapIsKnown, Busy
<1>3. CASE UNCHANGED <<rows, whole>>
  BY <1>1, <1>2, <1>3, QuietOInv DEF AdvNext
<1>4. CASE whole' = FALSE
  BY <1>4 DEF OInv
<1> QED
  BY <1>1, <1>3, <1>4

\* What such tables have in common.
LEMMA AlikeParts ==
  ASSUME NEW a, NEW b, SameColumns(a, b)
  PROVE  /\ DOMAIN a = DOMAIN b /\ Taken(a) = Taken(b)
         /\ PaidRows(a) = PaidRows(b) /\ SureRows(a) = SureRows(b)
         /\ \A what, granted : FreeSlot(what, a, granted) <=> FreeSlot(what, b, granted)
         /\ \A granted : StaysPaid(a, granted) <=> StaysPaid(b, granted)
         /\ \A at : RowMarks(a, at) = RowMarks(b, at)
<1>1. /\ DOMAIN a = DOMAIN b
      /\ \A i \in DOMAIN a : /\ a[i].what = b[i].what /\ a[i].order = b[i].order
                             /\ a[i].removed = b[i].removed /\ a[i].free = b[i].free
                             /\ a[i].confirmed = b[i].confirmed
  BY DEF SameColumns
<1>2. Taken(a) = Taken(b) /\ PaidRows(a) = PaidRows(b) /\ PaidRows(a) \subseteq DOMAIN a
  BY <1>1 DEF Taken, PaidRows, Paid
<1>3. SureRows(a) = SureRows(b) /\ SureRows(a) \subseteq DOMAIN a
  BY <1>1, <1>2 DEF SureRows
<1>4. \A what, granted : FreeSlot(what, a, granted) <=> FreeSlot(what, b, granted)
  BY <1>1 DEF FreeSlot
<1>5. \A granted : StaysPaid(a, granted) <=> StaysPaid(b, granted)
  BY <1>1, <1>2 DEF StaysPaid
<1>6. ASSUME NEW at PROVE RowMarks(a, at) = RowMarks(b, at)
  <2>1. \A i \in SureRows(a) : a[i].order = b[i].order
    BY <1>1, <1>3
  <2> QED
    BY <1>3, <2>1 DEF RowMarks
<1> QED
  BY <1>1, <1>2, <1>3, <1>4, <1>5, <1>6

\* They are in order alike.
LEMMA InOrderAlike ==
  ASSUME NEW a, NEW b, SameColumns(a, b), IsTable(b), NEW at, NEW n, IsInOrder(a, at, n)
  PROVE  IsInOrder(b, at, n)
<1>1. /\ Taken(a) = Taken(b) /\ PaidRows(a) = PaidRows(b) /\ SureRows(a) = SureRows(b)
      /\ RowMarks(a, at) = RowMarks(b, at)
  BY AlikeParts
<1>2. /\ DOMAIN a = DOMAIN b
      /\ \A i \in DOMAIN a : /\ a[i].what = b[i].what /\ a[i].order = b[i].order
                             /\ a[i].removed = b[i].removed
  BY DEF SameColumns
<1>3. /\ \A i \in DOMAIN a : ~a[i].removed
      /\ IsDated(a, at, n) /\ InStep(RowMarks(a, at))
      /\ \A i \in SureRows(a) : a[i].order \in 1..Cardinality(PaidRows(a))
  BY DEF IsInOrder
<1>4. IsDated(b, at, n)
  <2>1. \A i \in Taken(a) : a[i].what = b[i].what
    BY <1>2 DEF Taken
  <2> QED
    BY <1>1, <1>3, <2>1 DEF IsDated
<1>5. \A i \in SureRows(b) : b[i].order \in 1..Cardinality(PaidRows(b))
  BY <1>1, <1>2, <1>3 DEF SureRows, PaidRows
<1> QED
  BY <1>1, <1>2, <1>3, <1>4, <1>5 DEF IsInOrder

\* What fits one fits the other.
LEMMA FitsAlike ==
  ASSUME NEW a, NEW b, SameColumns(a, b), NEW list, NEW when, NEW at, NEW granted, NEW waits,
         FitsIn(list, when, a, at, granted, waits)
  PROVE  FitsIn(list, when, b, at, granted, waits)
<1>1. /\ DOMAIN a = DOMAIN b /\ SureRows(a) = SureRows(b) /\ RowMarks(a, at) = RowMarks(b, at)
      /\ \A what : FreeSlot(what, a, granted) <=> FreeSlot(what, b, granted)
  BY AlikeParts
<1>2. \A i \in DOMAIN a : /\ a[i].what = b[i].what /\ a[i].order = b[i].order
                         /\ a[i].removed = b[i].removed /\ a[i].confirmed = b[i].confirmed
  BY DEF SameColumns
<1>3. PaidMoments(a, granted) = PaidMoments(b, granted)
  BY <1>1 DEF PaidMoments
<1>4. \A i \in DOMAIN a : PairOf(i, list, a) = PairOf(i, list, b)
  <2> SUFFICES ASSUME NEW i \in DOMAIN a PROVE PairOf(i, list, a) = PairOf(i, list, b)
    OBVIOUS
  <2> DEFINE c == a[i].what
  <2>1. Active(c, a) = Active(c, b) /\ Gone(c, a) = Gone(c, b) /\ Active(c, a) \subseteq DOMAIN a
        /\ c = b[i].what
    BY <1>1, <1>2 DEF Active, Gone
  <2>2. i \in Active(c, a) => PlaceOf(i, Active(c, a), a) = PlaceOf(i, Active(c, b), b)
    <3> SUFFICES ASSUME i \in Active(c, a)
                 PROVE  PlaceOf(i, Active(c, a), a) = PlaceOf(i, Active(c, b), b)
      OBVIOUS
    <3> DEFINE S == Active(c, a)
    <3>1. S = Active(c, b) /\ S \subseteq DOMAIN a
      BY <2>1
    <3> HIDE DEF S, c
    <3>2. \A j \in S : Precedes(a[j], j, a[i], i) <=> Precedes(b[j], j, b[i], i)
      BY <1>2, <3>1 DEF Precedes, Rank
    <3>3. {j \in S : Precedes(a[j], j, a[i], i)} = {j \in S : Precedes(b[j], j, b[i], i)}
      BY <3>2
    <3>4. PlaceOf(i, S, a) = PlaceOf(i, S, b)
      BY <3>3 DEF PlaceOf
    <3> QED
      BY <3>1, <3>4 DEF S
  <2>3. RowPlace(i, a) = RowPlace(i, b)
    BY <2>1, <2>2 DEF RowPlace
  <2> QED
    BY <1>1, <2>1, <2>3 DEF PairOf
<1>5. IsListed(list, when, b, granted) /\ ComeLater(list, when, b, at, granted, waits)
  <2>1. IsListed(list, when, a, granted) /\ ComeLater(list, when, a, at, granted, waits)
    BY DEF FitsIn
  <2>2. IsListed(list, when, b, granted)
    BY <1>1, <1>3, <2>1 DEF IsListed
  <2>3. ComeLater(list, when, b, at, granted, waits)
    BY <1>1, <1>3, <2>1 DEF ComeLater
  <2> QED
    BY <2>2, <2>3
<1>6. AreKept(list, when, b, at, waits)
  <2>0. AreKept(list, when, a, at, waits)
    BY DEF FitsIn
  <2>1. \A i \in SureRows(a) : i \in DOMAIN a /\ a[i].what = b[i].what
    BY <1>2 DEF SureRows, PaidRows
  <2>2. CASE \A c \in Increase :
               Cardinality({i \in SureRows(a) : a[i].what = c})
                 <= Cardinality({x \in SureEntries(list) : list[x].what = c})
    <3>1. \A c : {i \in SureRows(a) : a[i].what = c} = {i \in SureRows(b) : b[i].what = c}
      BY <1>1, <2>1
    <3> QED
      BY <2>2, <3>1 DEF AreKept
  <2>3. CASE /\ DOMAIN waits = {}
             /\ \A i \in SureRows(a) : a[i].what \in Increase => when[PairOf(i, list, a)] = at[i]
    <3>1. \A i \in SureRows(b) : b[i].what \in Increase => when[PairOf(i, list, b)] = at[i]
      BY <1>1, <1>4, <2>1, <2>3
    <3> QED
      BY <2>3, <3>1 DEF AreKept
  <2> QED
    BY <2>0, <2>2, <2>3 DEF AreKept
<1>7. InStep(RowMarks(b, at) \cup EntryMarks(list, when))
  BY <1>1 DEF FitsIn
<1> QED
  BY <1>5, <1>6, <1>7 DEF FitsIn

\* The sync that is told everything, and frees nothing of unknown order, writes rows in order.
LEMMA SyncWritesOInv ==
  ASSUME NInv, OInv, RecordsAreWhole', SyncWrites, site = "tp"
  PROVE  OInv'
<1> USE DEF curator
<1>1. /\ stage = "write" /\ UNCHANGED <<site, gained, award, overlapped>>
      /\ planned.rows = planned.read => UNCHANGED rows
      /\ planned.rows # planned.read => rows' = Written
      /\ whole' => /\ whole /\ ~overlapped /\ told # Unknown
                   /\ PaidRows(planned.read) \subseteq PaidRows(planned.rows)
      /\ pending = <<>> => stage' = "idle"
      /\ pending # <<>> => stage' = "deduce" /\ UNCHANGED <<told, entries, pending>>
  BY DEF SyncWrites, EndImport
<1>2. CASE ~whole'
  BY <1>2 DEF OInv
<1>3. CASE whole'
  <2>1. PICK n \in 0..Len(gained) : \E at \in [Taken(rows) -> 1..n] :
          IsInOrder(rows, at, n) /\ LiveIsSound(at)
    BY <1>1, <1>3 DEF OInv
  <2>2. PICK at \in [Taken(rows) -> 1..n] : IsInOrder(rows, at, n) /\ LiveIsSound(at)
    BY <2>1
  <2> DEFINE rs == planned.rows
  <2>3. /\ planned.read = rows /\ rs = PlannedRows(entries, rows, award)
        /\ pending # <<>> => DOMAIN pending # {}
        /\ SendsAll(entries)
        /\ StaysPaid(rows, award) =>
             \E when \in [Taken(entries) -> DOMAIN gained] :
               FitsIn(entries, when, rows, at, award, pending)
    BY <1>1, <1>3, <2>2 DEF LiveIsSound
  <2>4. IsReport(gained) /\ IsTable(rows) /\ PaidRows(rows) \subseteq PaidRows(rs)
    BY <1>1, <1>3, <2>2, <2>3 DEF NInv, IsInOrder
  <2> HIDE DEF rs
  <2>5. StaysPaid(rows, award)
    BY <2>3, <2>4, KeptMeansPaid
  <2>6. PICK when \in [Taken(entries) -> DOMAIN gained] :
          FitsIn(entries, when, rows, at, award, pending)
    BY <2>3, <2>5
  <2>7. Syncs(entries, when, rows, at, n, award, pending, rs)
    BY <2>1, <2>2, <2>3, <2>6 DEF Syncs
  <2> DEFINE A == After(rs, entries, when, rows)
             N == Len(gained)
  <2>8. IsInOrder(rs, A, N)
    BY <2>4, <2>7, SyncInOrder
  <2>9. /\ IsTable(rs) /\ \A i \in DOMAIN rows : rs[i].what = rows[i].what
    BY <2>4, <2>7, SyncDates
  <2>10. DOMAIN rows \subseteq DOMAIN rs
    <3>1. IsEntryList(entries)
      BY <2>3 DEF SendsAll
    <3> DEFINE c == Cardinality(Unstored(Closed(entries, rows, award), rows))
    <3>2. c \in Nat /\ DOMAIN rs = 1..(Len(rows) + c)
      BY <2>3, <2>4, <3>1, PlanOfRows
    <3>3. Len(rows) \in Nat /\ DOMAIN rows = 1..Len(rows)
      BY <2>4 DEF IsTable, NamesWhatHeHas
    <3> HIDE DEF c
    <3> QED
      BY <3>2, <3>3
  <2>11. SameColumns(rs, rows') /\ IsTable(rows')
    <3>1. CASE rs = planned.read
      <4>1. rows' = rs
        BY <1>1, <2>3, <3>1 DEF rs
      <4> QED
        BY <2>9, <4>1 DEF SameColumns
    <3>2. CASE rs # planned.read
      <4> DEFINE w == Written
      <4>0. rows' = w
        BY <1>1, <3>2 DEF rs
      <4>1. /\ Len(w) \in Nat /\ DOMAIN w = 1..Len(w)
            /\ \A i \in DOMAIN w : IsRow(w[i]) /\ w[i].what \in Starting \cup Range(gained)
            /\ \A i, j \in DOMAIN w : w[i].what = w[j].what /\ w[i].what \in Skill => i = j
            /\ SameColumns(rs, w)
        <5>1. /\ IsTable(planned.rows) /\ DOMAIN rows \subseteq DOMAIN planned.rows
              /\ \A i \in DOMAIN rows :
                   rows[i].what = planned.read[i].what /\ rows[i].what = planned.rows[i].what
          BY <2>3, <2>9, <2>10 DEF rs
        <5> HIDE DEF w
        <5> QED
          BY <2>3, <2>4, <5>1, WrittenRows DEF w, rs
      <4> HIDE DEF w
      <4>2. IsTable(w)
        BY <4>1 DEF IsTable, NamesWhatHeHas
      <4> QED
        BY <4>0, <4>1, <4>2
    <3> QED
      BY <3>1, <3>2
  <2>12. PICK v, m : v = A /\ m = N
    OBVIOUS
  <2> HIDE DEF A, N
  <2>13. IsInOrder(rows, v, m)'
    <3>1. IsInOrder(rows', v, m)
      BY <2>8, <2>11, <2>12, InOrderAlike
    <3>2. PICK w : w = rows'
      OBVIOUS
    <3>3. IsInOrder(w, v, m) /\ rows' = w /\ UNCHANGED gained
      BY <1>1, <3>1, <3>2
    <3> QED
      BY <3>3, InOrderNext
  <2>14. LiveIsSound(v)'
    <3>1. CASE pending = <<>>
      BY <1>1, <3>1 DEF LiveIsSound
    <3>2. CASE pending # <<>>
      <4>1. DOMAIN pending # {}
        BY <2>3, <3>2
      <4>2. FitsIn(entries, when, rs, v, award, pending)
        BY <2>4, <2>7, <2>12, <4>1, SyncFits DEF A
      <4>3. FitsIn(entries, when, rows', v, award, pending)
        BY <2>11, <4>2, FitsAlike
      <4>4. StaysPaid(rs, award)
        <5>1. ASSUME NEW i \in PaidRows(rs) PROVE ~FreeExtra(rs[i].what, award)
          <6> DEFINE x == PairOf(i, entries, rows)
          <6>1. i \in Taken(rs) /\ Paid(rs[i])
            BY DEF PaidRows, Paid, Taken
          <6>2. IsMet(rs[i], entries[x], i, rows, award)
            BY <2>4, <2>7, <6>1, SyncDates
          <6>3. rs[i].what = entries[x].what /\ ~FreeSlot(entries[x].what, rows, award)
            BY <6>1, <6>2 DEF IsMet
          <6> HIDE DEF x
          <6> QED
            BY <6>3 DEF FreeSlot, FreeExtra
        <5> QED
          BY <5>1 DEF StaysPaid
      <4>5. StaysPaid(rows', award)
        BY <2>11, <4>4, AlikeParts
      <4>6. PICK w : w = rows'
        OBVIOUS
      <4>7. /\ rows' = w /\ stage' = "deduce" /\ StaysPaid(w, award)
            /\ FitsIn(entries, when, w, v, award, pending)
            /\ entries' = entries /\ pending' = pending /\ award' = award /\ UNCHANGED gained
        BY <1>1, <3>2, <4>3, <4>5, <4>6
      <4>8. \E t \in [Taken(entries) -> DOMAIN gained] : FitsIn(entries, t, w, v, award, pending)
        BY <4>7
      <4>9. stage' \notin {"stored", "granted", "write"}
        BY <4>7
      <4> QED
        BY <2>3, <4>1, <4>7, <4>8, <4>9, LiveNext
    <3> QED
      BY <3>1, <3>2
  <2>15. m \in 0..Len(gained')
    <3>1. Len(gained) \in Nat /\ gained' = gained
      BY <1>1, <2>4 DEF IsReport
    <3> QED
      BY <2>12, <3>1 DEF N
  <2> QED
    BY <2>13, <2>14, <2>15, OrderNext
<1> QED
  BY <1>2, <1>3

\* Rows in order stay so when one of them becomes free and its slot is closed.
LEMMA ClosedSlotInOrder ==
  ASSUME NEW table, NEW at, NEW n \in Nat, IsInOrder(table, at, n),
         NEW i0 \in DOMAIN table, table[i0].what \in Skill \ Starting, ~table[i0].free,
         table[i0].confirmed, NEW new, ClosesSlotOf(i0, table, new), IsTable(new)
  PROVE  IsInOrder(new, at, n)
<1> DEFINE k == table[i0].order
           size == Cardinality(PaidRows(table))
           Down(x) == x - (IF k < x THEN 1 ELSE 0)
<1>1. /\ IsTable(table) /\ IsDated(table, at, n) /\ InStep(RowMarks(table, at))
      /\ \A i \in DOMAIN table : ~table[i].removed
      /\ \A i \in SureRows(table) : table[i].order \in 1..size
  BY DEF IsInOrder
<1>2. /\ \A i \in DOMAIN table : IsRow(table[i])
      /\ Len(table) \in Nat /\ DOMAIN table = 1..Len(table)
  BY <1>1 DEF IsTable, NamesWhatHeHas
<1>3. /\ DOMAIN new = DOMAIN table /\ new[i0].what = table[i0].what /\ new[i0].free
      /\ \A i \in DOMAIN table \ {i0} :
           /\ new[i].what = table[i].what /\ new[i].free = table[i].free
           /\ new[i].removed = table[i].removed /\ new[i].confirmed = table[i].confirmed
           /\ i \in PaidRows(table) /\ table[i].confirmed => new[i].order = Down(table[i].order)
  BY DEF ClosesSlotOf
<1>4. i0 \in PaidRows(table) /\ i0 \in SureRows(table) /\ i0 \in Taken(table)
  BY <1>1 DEF PaidRows, Paid, SureRows, Taken
<1>5. PaidRows(new) = PaidRows(table) \ {i0} /\ SureRows(new) = SureRows(table) \ {i0}
  BY <1>3 DEF PaidRows, Paid, SureRows
<1>6. Taken(new) = Taken(table) /\ \A i \in Taken(table) : new[i].what = table[i].what
  BY <1>3 DEF Taken
<1>7. IsDated(new, at, n)
  BY <1>1, <1>6 DEF IsDated
<1>8. \A i \in SureRows(table) : i \in Taken(table) /\ i \in DOMAIN table /\ i \in PaidRows(table) /\ table[i].confirmed
  BY DEF SureRows, PaidRows, Paid, Taken
<1>9. \A i \in SureRows(new) :
        i \in SureRows(table) /\ i # i0 /\ new[i].order = Down(table[i].order)
  BY <1>3, <1>5, <1>8
<1>10. \A i \in SureRows(table) : at[i] \in Nat /\ table[i].order \in Nat
  <2>1. \A i \in SureRows(table) : at[i] \in 1..n
    BY <1>1, <1>8 DEF IsDated
  <2>2. \A i \in SureRows(table) : table[i].order \in Int /\ table[i].order >= 1
    BY <1>1, <1>2, <1>8 DEF IsRow
  <2> QED
    BY <2>1, <2>2
<1>11. \A i, j \in SureRows(table) : table[i].order < table[j].order <=> at[i] < at[j]
  <2> SUFFICES ASSUME NEW i \in SureRows(table), NEW j \in SureRows(table)
               PROVE  table[i].order < table[j].order <=> at[i] < at[j]
    OBVIOUS
  <2>1. <<table[i].order, at[i]>> \in RowMarks(table, at) /\ <<table[j].order, at[j]>> \in RowMarks(table, at)
    BY DEF RowMarks
  <2> QED
    BY <1>1, <2>1 DEF InStep
<1>12. ASSUME NEW i \in SureRows(table), i # i0 PROVE table[i].order # k
  <2>1. at[i] # at[i0]
    BY <1>1, <1>4, <1>8, <1>12 DEF IsDated
  <2> QED
    BY <1>4, <1>10, <1>11, <2>1
<1>13. IsFiniteSet(PaidRows(table)) /\ size \in Nat /\ Cardinality(PaidRows(new)) = size - 1
  <2>1. IsFiniteSet(DOMAIN table) /\ PaidRows(table) \in SUBSET (DOMAIN table)
    BY <1>2, FS_Interval DEF PaidRows
  <2>2. IsFiniteSet(PaidRows(table))
    BY <2>1, FS_Subset
  <2> QED
    BY <1>4, <1>5, <2>2, FS_CardinalityType, FS_RemoveElement
<1> HIDE DEF size
<1>14. InStep(RowMarks(new, at))
  <2> SUFFICES ASSUME NEW i \in SureRows(new), NEW j \in SureRows(new)
               PROVE  new[i].order < new[j].order <=> at[i] < at[j]
    BY DEF InStep, RowMarks
  <2>1. /\ table[i].order # k /\ table[j].order # k
        /\ new[i].order = Down(table[i].order) /\ new[j].order = Down(table[j].order)
        /\ table[i].order < table[j].order <=> at[i] < at[j]
    BY <1>9, <1>11, <1>12
  <2>2. table[i].order \in Int /\ table[j].order \in Int /\ k \in Int
    BY <1>4, <1>9, <1>10
  <2>3. Down(table[i].order) < Down(table[j].order) <=> table[i].order < table[j].order
    BY <2>1, <2>2
  <2> QED
    BY <2>1, <2>3
<1>15. ASSUME NEW i \in SureRows(new) PROVE new[i].order \in 1..Cardinality(PaidRows(new))
  <2>1. /\ table[i].order # k /\ new[i].order = Down(table[i].order)
        /\ table[i].order \in 1..size /\ k \in 1..size
    BY <1>1, <1>4, <1>9, <1>12
  <2> QED
    BY <1>13, <2>1
<1>16. \A i \in DOMAIN new : ~new[i].removed
  <2>1. ~new[i0].removed
    BY <1>3 DEF IsTable, IsRow
  <2> QED
    BY <1>1, <1>3, <2>1
<1> QED
  BY <1>7, <1>14, <1>15, <1>16 DEF IsInOrder

\* markTrophyGranted(): a row of known order is closed.
LEMMA MarkOInv ==
  ASSUME NInv, OInv, RecordsAreWhole', Mark, site = "tp"
  PROVE  OInv'
<1> USE DEF importer
<1>1. /\ UNCHANGED <<site, gained, award, stage, overlapped>> /\ Curating
      /\ whole' => whole /\ ~overlapped
  BY DEF Mark, Curating
<1>2. CASE ~whole'
  BY <1>2 DEF OInv
<1>3. CASE whole'
  <2>1. whole /\ ~overlapped /\ stage' = "idle"
    BY <1>1, <1>3 DEF NInv, PInv, OverlapIsKnown, Busy
  <2>2. PICK n \in 0..Len(gained) : \E at \in [Taken(rows) -> 1..n] : IsInOrder(rows, at, n)
    BY <2>1 DEF OInv
  <2>3. PICK at \in [Taken(rows) -> 1..n] : IsInOrder(rows, at, n)
    BY <2>2
  <2>4. IsReport(gained) /\ IsTable(rows) /\ award \in (Skill \ Starting) \cup {Unknown}
    BY <2>3 DEF NInv, IsInOrder
  <2>5. UNCHANGED rows \/ \E i0 : MarksRow(i0, rows, rows') /\ (whole' => rows[i0].confirmed)
    BY <2>4, MarkMarks
  <2>6. CASE UNCHANGED rows
    BY <1>1, <2>1, <2>6, QuietOInv DEF AdvNext
  <2>7. ASSUME NEW i0, MarksRow(i0, rows, rows'), rows[i0].confirmed PROVE OInv'
    <3>1. PICK table : table = rows'
      OBVIOUS
    <3>2. /\ i0 \in DOMAIN rows /\ rows[i0].what \in Skill \ Starting /\ ~rows[i0].free
          /\ DOMAIN table = DOMAIN rows /\ Len(table) = Len(rows)
          /\ \A i \in DOMAIN rows : IsRow(table[i]) /\ table[i].what = rows[i].what
          /\ ClosesSlotOf(i0, rows, table)
      BY <2>7, <3>1 DEF MarksRow
    <3>3. IsTable(table)
      BY <2>4, <3>2 DEF IsTable, NamesWhatHeHas
    <3>4. IsInOrder(table, at, n)
      BY <2>2, <2>3, <2>7, <3>2, <3>3, ClosedSlotInOrder
    <3>5. IsInOrder(rows, at, n)'
      BY <1>1, <3>1, <3>4, InOrderNext
    <3>6. LiveIsSound(at)'
      BY <2>1 DEF LiveIsSound
    <3>7. n \in 0..Len(gained')
      BY <1>1, <2>2
    <3> QED
      BY <3>5, <3>6, <3>7, OrderNext
  <2> QED
    BY <1>3, <2>5, <2>6, <2>7
<1> QED
  BY <1>2, <1>3

\* Every step keeps the rows in order.
LEMMA NextOInv == NInv /\ OInv /\ [AdvNext]_advVars => OInv'
<1> SUFFICES ASSUME NInv, OInv, [AdvNext]_advVars PROVE OInv'
  OBVIOUS
<1>1. CASE UNCHANGED advVars
  <2> USE DEF advVars, advStore, importer, curator, advHistory
  <2>1. /\ UNCHANGED <<site, rows, gained, award, stage, told, entries, pending, planned,
                       curation, overlapped>>
        /\ whole' = whole
    BY <1>1
  <2>2. RecordsAreWhole'
    BY <2>1 DEF OInv, RecordsAreWhole
  <2>3. ASSUME NEW at, LiveIsSound(at), IsReport(gained) PROVE LiveIsSound(at)'
    <3>1. PICK list, waits, table, granted :
            list = entries /\ waits = pending /\ table = rows /\ granted = award
      OBVIOUS
    <3>2. /\ stage' = "stored" => planned'.read = table
          /\ stage' = "granted" => planned'.granted = granted
          /\ stage' = "write" => planned'.read = table /\ planned'.rows = PlannedRows(list, table, granted)
      BY <2>1, <2>3, <3>1 DEF LiveIsSound
    <3>3. stage' \in {"sync", "granted", "write", "deduce"} /\ told' # Unknown =>
            /\ waits # <<>> => DOMAIN waits # {}
            /\ stage' = "deduce" => StaysPaid(table, granted)
            /\ SendsAll(list)
            /\ StaysPaid(table, granted) =>
                 \E when \in [Taken(list) -> DOMAIN gained] :
                   FitsIn(list, when, table, at, granted, waits)
      BY <2>1, <2>3, <3>1 DEF LiveIsSound
    <3>4. entries' = list /\ pending' = waits /\ rows' = table /\ award' = granted
      BY <2>1, <3>1
    <3> QED
      BY <2>1, <3>2, <3>3, <3>4, LiveNext
  <2>4. IsReport(gained)
    BY DEF NInv
  <2>5. ASSUME NEW at, ~overlapped', ~overlapped => LiveIsSound(at) PROVE LiveIsSound(at)'
    BY <2>1, <2>3, <2>4, <2>5
  <2>6. whole' => whole
    BY <2>1, Zenon
  <2> QED
    BY <2>1, <2>2, <2>5, <2>6, KeepsRows
<1>2. CASE AdvNext
  <2>1. RecordsAreWhole'
    BY <1>2, RecordsStay DEF OInv
  <2>2. CASE site # "tp"
    <3>1. UNCHANGED site
      BY <1>2 DEF AdvNext, Gain, BblScrape, TpRead, TpPlan, SyncReadsAward, SyncPlans, SyncWrites,
         Deduce, Settles, StoresUnspent, ImportFails, Curate, Unmark, Mark, Refresh,
         StoresRefreshed, CurationFails
    <3> QED
      BY <2>1, <2>2, <3>1 DEF OInv
  <2>3. CASE site = "tp"
    <3>1. ~BblScrape
      BY <2>3 DEF BblScrape
    <3>2. CASE TpRead
      BY <2>1, <3>2, TpReadOInv
    <3>3. CASE TpPlan
      BY <2>1, <3>3, TpPlanOInv
    <3>4. CASE SyncReadsAward \/ SyncPlans
      BY <2>1, <3>4, SyncReadsOInv
    <3>5. CASE SyncWrites
      BY <2>1, <2>3, <3>5, SyncWritesOInv
    <3>6. CASE Deduce
      BY <2>1, <3>6, DeduceOInv
    <3>7. CASE Unmark
      BY <2>1, <3>7, UnmarkOInv
    <3>8. CASE Mark
      BY <2>1, <2>3, <3>8, MarkOInv
    <3>9. CASE \/ Gain \/ ImportFails \/ Settles \/ StoresUnspent \/ Curate
               \/ Refresh \/ StoresRefreshed \/ CurationFails
      BY <2>1, <2>3, <3>9, QuietStepsOInv
    <3> QED
      BY <1>2, <3>1, <3>2, <3>3, <3>4, <3>5, <3>6, <3>7, <3>8, <3>9 DEF AdvNext
  <2> QED
    BY <2>2, <2>3
<1> QED
  BY <1>1, <1>2

\* Rows in order show when what they confirm was gained.
LEMMA InOrderIsTrue ==
  ASSUME IsReport(gained), NEW n \in 0..Len(gained), NEW at, IsInOrder(rows, at, n)
  PROVE  ConfirmedOrderIsTrue
<1> DEFINE order == [i \in SureRows(rows) |-> rows[i].order]
           when == [i \in SureRows(rows) |-> at[i]]
<1>1. /\ IsTable(rows) /\ IsDated(rows, at, n) /\ InStep(RowMarks(rows, at))
      /\ \A i \in SureRows(rows) : rows[i].order \in 1..Cardinality(PaidRows(rows))
  BY DEF IsInOrder
<1>2. \A i \in SureRows(rows) : i \in Taken(rows) /\ i \in DOMAIN rows
  BY DEF SureRows, PaidRows, Paid, Taken
<1>3. /\ Len(rows) \in Nat /\ DOMAIN rows = 1..Len(rows)
      /\ Len(gained) \in Nat /\ DOMAIN gained = 1..Len(gained)
  BY <1>1 DEF IsTable, NamesWhatHeHas, IsReport
<1>4. \A i \in SureRows(rows) : at[i] \in DOMAIN gained /\ at[i] \in Nat /\ gained[at[i]] = rows[i].what
  BY <1>1, <1>2, <1>3 DEF IsDated
<1>5. \A i \in SureRows(rows) : rows[i].order \in Int
  BY <1>1, <1>2 DEF IsTable, IsRow
<1>6. \A i, j \in SureRows(rows) : rows[i].order < rows[j].order <=> at[i] < at[j]
  <2> SUFFICES ASSUME NEW i \in SureRows(rows), NEW j \in SureRows(rows)
               PROVE  rows[i].order < rows[j].order <=> at[i] < at[j]
    OBVIOUS
  <2>1. <<rows[i].order, at[i]>> \in RowMarks(rows, at) /\ <<rows[j].order, at[j]>> \in RowMarks(rows, at)
    BY DEF RowMarks
  <2> QED
    BY <1>1, <2>1 DEF InStep
<1>7. \A i, j \in SureRows(rows) : rows[i].order = rows[j].order => i = j
  <2> SUFFICES ASSUME NEW i \in SureRows(rows), NEW j \in SureRows(rows), rows[i].order = rows[j].order
               PROVE  i = j
    OBVIOUS
  <2>1. at[i] = at[j]
    BY <1>4, <1>5, <1>6
  <2> QED
    BY <1>1, <1>2, <2>1 DEF IsDated
<1>8. IsFiniteSet(SureRows(rows))
  <2>1. IsFiniteSet(DOMAIN rows) /\ SureRows(rows) \in SUBSET (DOMAIN rows)
    BY <1>2, <1>3, FS_Interval
  <2> QED
    BY <2>1, FS_Subset
<1>9. Cardinality({rows[i].order : i \in SureRows(rows)}) = Cardinality(SureRows(rows))
  <2> DEFINE S == SureRows(rows)
             T == {rows[i].order : i \in S}
  <2>1. IsFiniteSet(S) /\ IsFiniteSet(T)
    <3>1. T = {order[i] : i \in S}
      OBVIOUS
    <3> HIDE DEF T, order, S
    <3>2. IsFiniteSet(S)
      BY <1>8 DEF S
    <3> QED
      BY <3>1, <3>2, ImageIsFinite
  <2>2. /\ \A i \in S : order[i] \in T
        /\ \A i, j \in S : order[i] = order[j] => i = j
        /\ \A y \in T : \E i \in S : order[i] = y
    BY <1>7
  <2> HIDE DEF order, S, T
  <2>3. Cardinality(S) = Cardinality(T)
    BY <2>1, <2>2, AsMany
  <2> QED
    BY <2>3 DEF S, T
<1>10. /\ when \in [SureRows(rows) -> DOMAIN gained]
       /\ \A i, j \in SureRows(rows) :
            /\ gained[when[i]] = rows[i].what
            /\ rows[i].order < rows[j].order => when[i] < when[j]
  BY <1>4, <1>6
<1> HIDE DEF when
<1>11. \E t \in [SureRows(rows) -> DOMAIN gained] :
         \A i, j \in SureRows(rows) :
           /\ gained[t[i]] = rows[i].what
           /\ rows[i].order < rows[j].order => t[i] < t[j]
  BY <1>10
<1> QED
  BY <1>1, <1>9, <1>11 DEF ConfirmedOrderIsTrue, SureRows

\* The invariant gives the property.
LEMMA OInvIsTrue == NInv /\ OInv => ConfirmedOrderIsTrue
<1> SUFFICES ASSUME NInv, OInv, site = "tp", whole PROVE ConfirmedOrderIsTrue
  BY DEF ConfirmedOrderIsTrue
<1>1. IsReport(gained)
  BY DEF NInv
<1>2. PICK n \in 0..Len(gained) : \E at \in [Taken(rows) -> 1..n] : IsInOrder(rows, at, n)
  BY DEF OInv
<1> QED
  BY <1>1, <1>2, InOrderIsTrue

\* The order TP's imports confirm is the one in which the advancements were taken, for
\* any player, whatever TP lists and in whatever order, and for any number of imports
\* and awards, as long as nothing was stored that hides the order of the rest
\* and the deduction, where it had to guess, guessed right.
THEOREM ConfirmedOrderHolds == AdvSpec => []ConfirmedOrderIsTrue
<1>1. AdvInit => NInv /\ OInv
  BY InitNInv, InitOInv
<1>2. NInv /\ OInv /\ [AdvNext]_advVars => NInv' /\ OInv'
  BY NextNInv, NextOInv
<1>3. NInv /\ OInv => ConfirmedOrderIsTrue
  BY OInvIsTrue
<1>4. QED
  BY <1>1, <1>2, <1>3, PTL DEF AdvSpec

=============================================================================
