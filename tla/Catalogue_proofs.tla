--------------------------- MODULE Catalogue_proofs ---------------------------
(***************************************************************************)
(* Proofs about Catalogue, for any names, similarities, years, files,      *)
(* indexers and number of titles and faults.                               *)
(***************************************************************************)
EXTENDS Catalogue, TLAPS

------------------------------------------------------------------------------
(* The inductive invariant.                                                *)

\* No id is given out twice.
RowsNumbered == \A t \in TitleIds : titles[t] # Absent => t <= lastTitle

\* Files are under committed rows, which no rollback takes away.
FilesCommitted ==
  \A f \in Uids : titleOf[f] # NoTitle =>
    titles[titleOf[f]] # Absent /\ titles[titleOf[f]].by = Nobody

PlacedBelong ==
  \A f \in placed : titleOf[f] # NoTitle => Belongs(parse[f], titles[titleOf[f]])

\* The title a transaction has resolved its file to was one of the file's; if it is
\* gone since, its id is not used again.
AimsRight ==
  \A w \in Workers : at[w].pc = "place" =>
    /\ at[w].tid \in TitleIds /\ at[w].tid <= lastTitle
    /\ titles[at[w].tid] # Absent => Belongs(parse[at[w].uid], titles[at[w].tid])

\* The re-parse, phase by phase.
BatchesInFiles == phase # "files" => at[Reparser].pc = "idle"
VisitedPlaced == \A f \in visited : titleOf[f] # NoTitle => f \in placed
WholePlaced ==
  (phase = "delete" /\ whole) => \A f \in Uids : titleOf[f] # NoTitle => f \in placed
PresentKept ==
  phase = "delete" => \A f \in present : titleOf[f] # NoTitle /\ titleOf[f] \notin orphans

Rowwise == RowsNumbered /\ FilesCommitted /\ PlacedBelong /\ AimsRight
Runwise == BatchesInFiles /\ VisitedPlaced /\ WholePlaced /\ PresentKept
CatIInv == CatTypeOK /\ Rowwise /\ Runwise /\ LanguagesCover

------------------------------------------------------------------------------
(* Types.                                                                  *)

LEMMA CatConstants ==
  /\ MaxTitles \in Nat \ {0} /\ MaxCatFaults \in Nat
  /\ NoTitle \notin TitleIds /\ 1 \in TitleIds /\ TitleIds \subseteq Nat
  /\ AnyUid \in Uids /\ (CHOOSE n \in Names : TRUE) \in Names
  /\ Reparser \in Workers /\ \A h \in Indexers : h \in Workers /\ h # Reparser
  /\ Nobody \notin Workers
  BY CatalogueAssumption DEF TitleIds, NoTitle, AnyUid, Workers

\* The row that stands for none is not a row.
LEMMA AbsentIsNone == Absent \notin TitleRows
  BY CatalogueAssumption DEF Absent, TitleRows, Nobody

LEMMA FreshTypes ==
  /\ NoTransaction \in Transactions /\ NoTransaction.pc = "idle"
  /\ \A f \in Uids : AtFind(f) \in Transactions /\ AtFind(f).pc = "find"
  BY CatConstants DEF NoTransaction, AtFind, Transactions

------------------------------------------------------------------------------
LEMMA CatInitIInv == CatInit => CatIInv
<1> SUFFICES ASSUME CatInit PROVE CatIInv
  OBVIOUS
<1>1. PICK old \in SUBSET Uids, row \in TitleRows :
        /\ row.by = Nobody /\ row.langs = old
        /\ titleOf = [f \in Uids |-> IF f \in old THEN 1 ELSE NoTitle]
        /\ titles = [t \in TitleIds |-> IF t = 1 /\ old # {} THEN row ELSE Absent]
  BY DEF CatInit
<1>2. row # Absent
  BY AbsentIsNone
<1>3. CatTypeOK
  <2>1. titleOf \in [Uids -> TitleIds \cup {NoTitle}]
    BY <1>1, CatConstants
  <2>2. titles \in [TitleIds -> TitleRows \cup {Absent}]
    BY <1>1
  <2>3. at \in [Workers -> Transactions]
    BY FreshTypes DEF CatInit
  <2>4. lastTitle \in 0..MaxTitles /\ catFaults \in 0..MaxCatFaults
    BY CatConstants DEF CatInit
  <2>5. whole \in BOOLEAN
    BY DEF CatInit
  <2> QED  BY <2>1, <2>2, <2>3, <2>4, <2>5 DEF CatInit, CatTypeOK
<1>4. RowsNumbered
  <2>1. lastTitle = 1
    BY DEF CatInit
  <2> QED  BY <1>1, <2>1, CatConstants DEF RowsNumbered
<1>5. FilesCommitted
  BY <1>1, <1>2, CatConstants DEF FilesCommitted
<1>6. AimsRight
  BY FreshTypes DEF CatInit, AimsRight
<1>7. PlacedBelong /\ Runwise
  BY FreshTypes, CatConstants
  DEF CatInit, PlacedBelong, Runwise, BatchesInFiles, VisitedPlaced, WholePlaced, PresentKept
<1>8. LanguagesCover
  BY <1>1, CatConstants DEF LanguagesCover
<1> QED  BY <1>3, <1>4, <1>5, <1>6, <1>7, <1>8 DEF CatIInv, Rowwise

------------------------------------------------------------------------------
(* Steps.                                                                  *)

\* A worker that moves on in its transaction.
LEMMA CatMovesOn ==
  ASSUME CatIInv, NEW w \in Workers, NEW rec \in Transactions, CatGoto(w, rec),
         w = Reparser => phase = "files",
         rec.pc = "place" =>
           /\ rec.tid \in TitleIds /\ rec.tid <= lastTitle
           /\ titles[rec.tid] # Absent => Belongs(parse[rec.uid], titles[rec.tid]),
         UNCHANGED <<parse, titles, lastTitle, titleOf, catRest>>
  PROVE  CatIInv'
<1>1. /\ at'[w] = rec
      /\ \A k \in Workers \ {w} : at'[k] = at[k]
      /\ at' \in [Workers -> Transactions]
  BY DEF CatGoto, CatIInv, CatTypeOK
<1>2. CatTypeOK'
  BY <1>1 DEF CatIInv, CatTypeOK, catRest, runVars
<1>3. AimsRight'
  BY <1>1 DEF CatIInv, Rowwise, AimsRight, Belongs
<1>4. BatchesInFiles'
  BY <1>1, CatConstants DEF CatIInv, Runwise, BatchesInFiles, catRest, runVars
<1>5. /\ RowsNumbered' /\ FilesCommitted' /\ PlacedBelong'
      /\ VisitedPlaced' /\ WholePlaced' /\ PresentKept' /\ LanguagesCover'
  BY DEF CatIInv, Rowwise, Runwise, RowsNumbered, FilesCommitted, PlacedBelong, VisitedPlaced,
         WholePlaced, PresentKept, LanguagesCover, Belongs, catRest, runVars
<1> QED  BY <1>2, <1>3, <1>4, <1>5 DEF CatIInv, Rowwise, Runwise

LEMMA IndexStep ==
  ASSUME CatIInv, NEW h \in Indexers, NEW f \in Uids, Index(h, f)
  PROVE  CatIInv'
<1>1. h \in Workers /\ h # Reparser
  BY CatConstants
<1>2. AtFind(f) \in Transactions /\ AtFind(f).pc = "find"
  BY FreshTypes
<1> QED  BY <1>1, <1>2, CatMovesOn DEF Index

LEMMA NextBatchStep ==
  ASSUME CatIInv, NextBatch
  PROVE  CatIInv'
<1>1. PICK f \in Unvisited : CatGoto(Reparser, AtFind(f))
  BY DEF NextBatch
<1>2. f \in Uids /\ Reparser \in Workers
  BY CatConstants DEF Unvisited
<1>3. AtFind(f) \in Transactions /\ AtFind(f).pc = "find"
  BY <1>2, FreshTypes
<1> QED  BY <1>1, <1>2, <1>3, CatMovesOn DEF NextBatch

\* Who is inside a transaction: the re-parse only while it walks the files.
LEMMA InFiles ==
  ASSUME CatIInv, NEW w \in Workers, at[w].pc # "idle"
  PROVE  w = Reparser => phase = "files"
  BY DEF CatIInv, Runwise, BatchesInFiles

LEMMA FindStep ==
  ASSUME CatIInv, NEW w \in Workers, Find(w)
  PROVE  CatIInv'
<1> DEFINE p == parse[at[w].uid]
           Taken(t) == [at[w] EXCEPT !.pc = "place", !.tid = t, !.merging = TRUE,
                                     !.langs = titles[t].langs]
           Made == [at[w] EXCEPT !.pc = "create"]
<1>1. at[w] \in Transactions /\ at[w].pc = "find" /\ p \in Parses /\ at[w].uid \in Uids
  BY DEF Find, CatIInv, CatTypeOK, Transactions
<1>2. w = Reparser => phase = "files"
  BY <1>1, InFiles
<1>3. UNCHANGED <<parse, titles, lastTitle, titleOf, catRest>>
  BY DEF Find
<1>4. CASE CatGoto(w, Made)
  <2>1. Made \in Transactions /\ Made.pc = "create"
    BY <1>1 DEF Transactions
  <2> QED  BY <1>2, <1>3, <1>4, <2>1, CatMovesOn
<1>5. ASSUME NEW t \in Committed, Belongs(p, titles[t]), CatGoto(w, Taken(t))
      PROVE  CatIInv'
  <2>1. t \in TitleIds /\ titles[t] \in TitleRows /\ t <= lastTitle
    BY DEF Committed, Rows, CatIInv, CatTypeOK, Rowwise, RowsNumbered
  <2>2. titles[t].langs \in SUBSET Uids
    BY <2>1 DEF TitleRows
  <2>3. /\ Taken(t) \in Transactions
        /\ Taken(t).tid = t /\ Taken(t).uid = at[w].uid
    BY <1>1, <2>1, <2>2 DEF Transactions
  <2> HIDE DEF Taken
  <2> QED  BY <1>2, <1>3, <1>5, <2>1, <2>3, CatMovesOn
<1>6. \A t \in Exact(p) : t \in Committed /\ Belongs(p, titles[t])
  BY DEF Exact, Belongs, YearFits
<1>7. \A t \in Fuzzy(p) : t \in Committed /\ ({titles[t].name, p.name} \notin Superset =>
                                              Belongs(p, titles[t]))
  BY DEF Fuzzy, Belongs, YearFits
<1>8. \/ \E t \in Exact(p) : CatGoto(w, Taken(t))
      \/ \E t \in Fuzzy(p) : {titles[t].name, p.name} \notin Superset /\ CatGoto(w, Taken(t))
      \/ CatGoto(w, Made)
  BY DEF Find
<1> HIDE DEF Taken, Made, p
<1> QED  BY <1>4, <1>5, <1>6, <1>7, <1>8

LEMMA CreateStep ==
  ASSUME CatIInv, NEW w \in Workers, Create(w)
  PROVE  CatIInv'
<1> DEFINE p == parse[at[w].uid]
           same == {k \in Rows : SameKey(k, p)}
           row == [name |-> p.name, year |-> p.year, langs |-> {at[w].uid}, by |-> w]
           new == lastTitle + 1
           rec == [at[w] EXCEPT !.pc = "place", !.tid = new]
<1>1. at[w] \in Transactions /\ at[w].pc = "create" /\ p \in Parses /\ at[w].uid \in Uids
  BY DEF Create, CatIInv, CatTypeOK, Transactions
<1>2. w = Reparser => phase = "files"
  BY <1>1, InFiles
<1>3. CASE CatGoto(w, [at[w] EXCEPT !.pc = "refetch"]) /\ UNCHANGED <<titles, lastTitle>>
  <2> DEFINE again == [at[w] EXCEPT !.pc = "refetch"]
  <2>1. again \in Transactions /\ again.pc = "refetch"
    BY <1>1 DEF Transactions
  <2>2. UNCHANGED <<parse, titleOf, catRest>>
    BY DEF Create
  <2> HIDE DEF again
  <2> QED  BY <1>2, <1>3, <2>1, <2>2, CatMovesOn DEF again
<1>4. CASE /\ lastTitle < MaxTitles /\ lastTitle' = new
           /\ titles' = [titles EXCEPT ![new] = row]
           /\ CatGoto(w, rec)
  <2>1. new \in TitleIds /\ lastTitle' \in 0..MaxTitles /\ row \in TitleRows /\ row # Absent
    <3>1. lastTitle \in 0..MaxTitles
      BY DEF CatIInv, CatTypeOK
    <3>2. new \in TitleIds /\ lastTitle' \in 0..MaxTitles
      BY <1>4, <3>1, CatConstants DEF TitleIds
    <3>3. row \in TitleRows
      BY <1>1 DEF Parses, TitleRows
    <3> QED  BY <3>2, <3>3, AbsentIsNone
  <2>2. rec \in Transactions /\ rec.pc = "place" /\ rec.tid = new /\ rec.uid = at[w].uid
    BY <1>1, <2>1 DEF Transactions
  <2>3. titles[new] = Absent
    <3>1. ~(new <= lastTitle)
      BY DEF CatIInv, CatTypeOK
    <3> QED  BY <2>1, <3>1 DEF CatIInv, Rowwise, RowsNumbered
  <2>4. /\ at'[w] = rec
        /\ \A k \in Workers \ {w} : at'[k] = at[k]
        /\ at' \in [Workers -> Transactions]
    BY <1>4, <2>2 DEF CatGoto, CatIInv, CatTypeOK
  <2>5. /\ titles'[new] = row
        /\ \A t \in TitleIds \ {new} : titles'[t] = titles[t]
        /\ titles' \in [TitleIds -> TitleRows \cup {Absent}]
    BY <1>4, <2>1 DEF CatIInv, CatTypeOK
  <2>6. UNCHANGED <<parse, titleOf, phase, visited, orphans, whole, present, catFaults,
                    placed, outrun>>
    BY DEF Create, catRest, runVars
  <2>7. \A f \in Uids : titleOf[f] # NoTitle => titleOf[f] \in TitleIds \ {new}
    BY <2>3 DEF CatIInv, CatTypeOK, Rowwise, FilesCommitted
  <2>8. Belongs(p, row)
    BY DEF Belongs
  <2> HIDE DEF row, rec
  <2>9. CatTypeOK'
    BY <2>1, <2>4, <2>5, <2>6 DEF CatIInv, CatTypeOK
  <2>10. RowsNumbered'
    <3>1. lastTitle \in Nat
      BY DEF CatIInv, CatTypeOK
    <3> QED  BY <1>4, <2>1, <2>5, <3>1, CatConstants DEF CatIInv, Rowwise, RowsNumbered
  <2>11. FilesCommitted' /\ PlacedBelong' /\ LanguagesCover'
    BY <2>5, <2>6, <2>7
    DEF CatIInv, CatTypeOK, Rowwise, FilesCommitted, PlacedBelong, LanguagesCover, Belongs
  <2>12. AimsRight'
    <3>1. lastTitle \in Nat /\ lastTitle' = lastTitle + 1
      BY <1>4 DEF CatIInv, CatTypeOK
    <3> SUFFICES ASSUME NEW k \in Workers, at'[k].pc = "place"
                 PROVE  /\ at'[k].tid \in TitleIds /\ at'[k].tid <= lastTitle'
                        /\ titles'[at'[k].tid] # Absent =>
                             Belongs(parse'[at'[k].uid], titles'[at'[k].tid])
      BY DEF AimsRight, Belongs
    <3>2. CASE k = w
      BY <1>4, <2>1, <2>2, <2>4, <2>5, <2>6, <2>8, <3>1, <3>2, CatConstants
    <3>3. CASE k # w
      <4>1. at'[k] = at[k]
        BY <2>4, <3>3
      <4>2. /\ at[k].tid \in TitleIds /\ at[k].tid <= lastTitle
            /\ titles[at[k].tid] # Absent => Belongs(parse[at[k].uid], titles[at[k].tid])
        BY <4>1 DEF CatIInv, Rowwise, AimsRight
      <4>3. at[k].tid # new
        BY <4>2, <3>1, CatConstants
      <4>4. at[k].tid <= lastTitle'
        <5>1. at[k].tid \in Nat /\ at[k].tid <= lastTitle
          BY <4>2, CatConstants
        <5> HIDE <4>2
        <5> QED  BY <5>1, <3>1
      <4>5. titles'[at[k].tid] = titles[at[k].tid] /\ parse' = parse
        BY <2>5, <2>6, <4>2, <4>3
      <4> QED  BY <4>1, <4>2, <4>4, <4>5, Zenon
    <3> QED  BY <3>2, <3>3
  <2>13. Runwise'
    BY <1>2, <2>4, <2>6, CatConstants
    DEF CatIInv, Runwise, BatchesInFiles, VisitedPlaced, WholePlaced, PresentKept
  <2> QED  BY <2>9, <2>10, <2>11, <2>12, <2>13 DEF CatIInv, Rowwise
<1>5. \/ CatGoto(w, [at[w] EXCEPT !.pc = "refetch"]) /\ UNCHANGED <<titles, lastTitle>>
      \/ /\ lastTitle < MaxTitles /\ lastTitle' = new
         /\ titles' = [titles EXCEPT ![new] = row]
         /\ CatGoto(w, rec)
  BY DEF Create
<1> QED  BY <1>3, <1>4, <1>5

\* A transaction that is rolled back takes only its own row along.
LEMMA RollBackStep ==
  ASSUME CatIInv, NEW w \in Workers, RollBack(w), catFaults' \in 0..MaxCatFaults,
         UNCHANGED <<parse, lastTitle, titleOf, placed, outrun>>
  PROVE  CatIInv'
<1>1. /\ at'[w] = NoTransaction
      /\ \A k \in Workers \ {w} : at'[k] = at[k]
      /\ at' \in [Workers -> Transactions]
  BY FreshTypes DEF RollBack, CatGoto, CatIInv, CatTypeOK
<1>2. /\ \A t \in TitleIds : titles'[t] = IF titles[t].by = w THEN Absent ELSE titles[t]
      /\ titles' \in [TitleIds -> TitleRows \cup {Absent}]
  BY DEF RollBack, CatIInv, CatTypeOK
<1>3. \A f \in Uids : titleOf[f] # NoTitle =>
        titleOf[f] \in TitleIds /\ titles'[titleOf[f]] = titles[titleOf[f]]
  BY <1>2, CatConstants DEF CatIInv, CatTypeOK, Rowwise, FilesCommitted
<1>4. CatTypeOK'
  <2>1. /\ phase' \in {"off", "files", "delete"} /\ whole' \in BOOLEAN
        /\ visited' \subseteq Uids /\ orphans' \subseteq TitleIds /\ present' \subseteq Uids
    BY DEF RollBack, RunOver, runVars, CatIInv, CatTypeOK
  <2> QED  BY <1>1, <1>2, <2>1 DEF CatIInv, CatTypeOK
<1>5. RowsNumbered'
  BY <1>2 DEF CatIInv, Rowwise, RowsNumbered
<1>6. FilesCommitted' /\ PlacedBelong' /\ LanguagesCover'
  BY <1>3 DEF CatIInv, CatTypeOK, Rowwise, FilesCommitted, PlacedBelong, LanguagesCover, Belongs
<1>7. AimsRight'
  <2> SUFFICES ASSUME NEW k \in Workers, at'[k].pc = "place"
               PROVE  /\ at'[k].tid \in TitleIds /\ at'[k].tid <= lastTitle'
                      /\ titles'[at'[k].tid] # Absent =>
                           Belongs(parse'[at'[k].uid], titles'[at'[k].tid])
    BY DEF AimsRight, Belongs
  <2>1. at'[k] = at[k]
    BY <1>1, FreshTypes
  <2>2. /\ at[k].tid \in TitleIds /\ at[k].tid <= lastTitle
        /\ titles[at[k].tid] # Absent => Belongs(parse[at[k].uid], titles[at[k].tid])
    BY <2>1 DEF CatIInv, Rowwise, AimsRight
  <2>3. titles'[at[k].tid] # Absent => titles'[at[k].tid] = titles[at[k].tid]
    BY <1>2, <2>2
  <2>4. lastTitle' = lastTitle /\ parse' = parse
    OBVIOUS
  <2> QED  BY <2>1, <2>2, <2>3, <2>4, Zenon
<1>8. Runwise'
  <2>1. CASE w = Reparser
    BY <1>1, <2>1, FreshTypes
    DEF RollBack, RunOver, Runwise, BatchesInFiles, VisitedPlaced, WholePlaced, PresentKept
  <2>2. CASE w # Reparser
    BY <1>1, <2>2, CatConstants
    DEF RollBack, runVars, CatIInv, Runwise, BatchesInFiles, VisitedPlaced, WholePlaced,
        PresentKept
  <2> QED  BY <2>1, <2>2
<1> QED  BY <1>4, <1>5, <1>6, <1>7, <1>8 DEF CatIInv, Rowwise

LEMMA RefetchStep ==
  ASSUME CatIInv, NEW w \in Workers, Refetch(w)
  PROVE  CatIInv'
<1> DEFINE p == parse[at[w].uid]
           Found(k) == [at[w] EXCEPT !.pc = "place", !.tid = k]
<1>1. at[w] \in Transactions /\ at[w].pc = "refetch" /\ p \in Parses /\ at[w].uid \in Uids
  BY DEF Refetch, CatIInv, CatTypeOK, Transactions
<1>2. w = Reparser => phase = "files"
  BY <1>1, InFiles
<1>3. UNCHANGED <<parse, lastTitle, titleOf, catFaults, placed, outrun>>
  BY DEF Refetch
<1>4. CASE RollBack(w)
  BY <1>3, <1>4, RollBackStep DEF CatIInv, CatTypeOK
<1>5. ASSUME NEW k \in Committed, SameKey(k, p), CatGoto(w, Found(k)),
             UNCHANGED <<titles, runVars>>
      PROVE  CatIInv'
  <2>1. k \in TitleIds /\ k <= lastTitle
    BY DEF Committed, Rows, CatIInv, Rowwise, RowsNumbered
  <2>2. Found(k) \in Transactions /\ Found(k).tid = k /\ Found(k).uid = at[w].uid
    BY <1>1, <2>1 DEF Transactions
  <2>3. Belongs(p, titles[k])
    BY <1>5 DEF SameKey, Belongs
  <2> HIDE DEF Found
  <2> QED  BY <1>2, <1>3, <1>5, <2>1, <2>2, <2>3, CatMovesOn DEF catRest
<1>6. \/ RollBack(w)
      \/ \E k \in Committed : /\ SameKey(k, p) /\ CatGoto(w, Found(k))
                              /\ UNCHANGED <<titles, runVars>>
  BY DEF Refetch
<1> QED  BY <1>4, <1>5, <1>6

LEMMA AbortStep ==
  ASSUME CatIInv, NEW w \in Workers, Abort(w)
  PROVE  CatIInv'
<1>1. catFaults' \in 0..MaxCatFaults
  BY CatConstants DEF Abort, CatIInv, CatTypeOK
<1> QED  BY <1>1, RollBackStep DEF Abort

LEMMA MergedType ==
  ASSUME CatTypeOK, NEW t \in Transactions, titles[t.tid] \in TitleRows
  PROVE  Merged(t) \in SUBSET Uids
  BY DEF Merged, CatTypeOK, Transactions, TitleRows

LEMMA PlaceStep ==
  ASSUME CatIInv, NEW w \in Workers, Place(w)
  PROVE  CatIInv'
<1> DEFINE t == at[w]
           tid == at[w].tid
           uid == at[w].uid
           new == w = Reparser \/ titleOf[uid] = NoTitle
           langs == Merged(t)
<1>1. /\ t \in Transactions /\ t.pc = "place" /\ uid \in Uids /\ tid \in TitleIds
      /\ titles[tid] # Absent => Belongs(parse[uid], titles[tid])
  BY DEF Place, CatIInv, CatTypeOK, Transactions, Rowwise, AimsRight
<1>2. w = Reparser => phase = "files"
  BY <1>1, InFiles
<1>3. UNCHANGED <<parse, lastTitle, catFaults>>
  BY DEF Place
<1>4. CASE RollBack(w) /\ UNCHANGED <<titleOf, placed, outrun>>
  BY <1>3, <1>4, RollBackStep DEF CatIInv, CatTypeOK
<1>5. CASE /\ titles[tid] # Absent
           /\ titles' = [titles EXCEPT ![tid].langs = langs, ![tid].by = Nobody]
           /\ titleOf' = IF new THEN [titleOf EXCEPT ![uid] = tid] ELSE titleOf
           /\ placed' = IF new THEN placed \cup {uid} ELSE placed
           /\ outrun' = {f \in outrun \cup Overlapped(t) :
                           titleOf'[f] = NoTitle \/ f \notin titles'[titleOf'[f]].langs}
           /\ CatGoto(w, NoTransaction)
           /\ visited' = IF w = Reparser THEN visited \cup {uid} ELSE visited
           /\ UNCHANGED <<phase, orphans, whole, present>>
  <2>1. titles[tid] \in TitleRows
    BY <1>1, <1>5 DEF CatIInv, CatTypeOK
  <2>2. langs \in SUBSET Uids
    BY <1>1, <2>1, MergedType DEF CatIInv
  <2> HIDE DEF langs
  <2>3. /\ titles'[tid].name = titles[tid].name /\ titles'[tid].year = titles[tid].year
        /\ titles'[tid].langs = langs /\ titles'[tid].by = Nobody
        /\ titles'[tid] \in TitleRows
        /\ \A k \in TitleIds \ {tid} : titles'[k] = titles[k]
        /\ titles' \in [TitleIds -> TitleRows \cup {Absent}]
    <3> DEFINE row == [[titles[tid] EXCEPT !.langs = langs] EXCEPT !.by = Nobody]
    <3>1. /\ row \in TitleRows /\ row.name = titles[tid].name /\ row.year = titles[tid].year
          /\ row.langs = langs /\ row.by = Nobody
      BY <2>1, <2>2 DEF TitleRows
    <3>2. titles' = [titles EXCEPT ![tid] = row]
      BY <1>1, <1>5 DEF CatIInv, CatTypeOK
    <3> HIDE DEF row
    <3> QED  BY <1>1, <3>1, <3>2 DEF CatIInv, CatTypeOK
  <2>4. /\ at'[w] = NoTransaction
        /\ \A k \in Workers \ {w} : at'[k] = at[k]
        /\ at' \in [Workers -> Transactions]
    BY <1>5, FreshTypes DEF CatGoto, CatIInv, CatTypeOK
  <2>5. /\ \A f \in Uids \ {uid} : titleOf'[f] = titleOf[f]
        /\ new => titleOf'[uid] = tid
        /\ ~new => titleOf'[uid] = titleOf[uid]
        /\ titleOf' \in [Uids -> TitleIds \cup {NoTitle}]
        /\ titleOf'[uid] # NoTitle
    BY <1>1, <1>5, CatConstants DEF CatIInv, CatTypeOK
  <2>6. \A f \in Uids : titleOf'[f] \in TitleIds \cup {NoTitle}
    BY <2>5
  <2>7. titles'[tid] # Absent
    BY <2>3, AbsentIsNone
  <2>8. \A k \in TitleIds, f \in Uids :
          Belongs(parse[f], titles[k]) => Belongs(parse[f], titles'[k])
    BY <2>3 DEF Belongs
  <2>9. CatTypeOK'
    <3>1. outrun' \subseteq Uids
      BY <1>1, <1>5, <2>1 DEF CatIInv, CatTypeOK, Overlapped, Transactions, TitleRows
    <3> QED  BY <1>1, <1>3, <1>5, <2>3, <2>4, <2>5, <3>1 DEF CatIInv, CatTypeOK
  <2>10. RowsNumbered'
    BY <1>1, <1>3, <1>5, <2>3 DEF CatIInv, Rowwise, RowsNumbered
  <2>11. FilesCommitted'
    BY <1>1, <2>3, <2>5, <2>7 DEF CatIInv, CatTypeOK, Rowwise, FilesCommitted
  <2>12. PlacedBelong'
    <3> SUFFICES ASSUME NEW f \in placed', titleOf'[f] # NoTitle
                 PROVE  Belongs(parse[f], titles'[titleOf'[f]])
      BY <1>3 DEF PlacedBelong, Belongs
    <3>1. f \in Uids
      BY <2>9 DEF CatTypeOK
    <3>2. CASE f = uid /\ new
      BY <1>1, <1>5, <2>5, <2>8, <3>2
    <3>3. CASE ~(f = uid /\ new)
      <4>1. f \in placed /\ titleOf'[f] = titleOf[f]
        BY <1>5, <2>5, <3>1, <3>3
      <4>2. Belongs(parse[f], titles[titleOf[f]])
        BY <4>1 DEF CatIInv, Rowwise, PlacedBelong
      <4> QED  BY <2>6, <2>8, <3>1, <4>1, <4>2
    <3> QED  BY <3>2, <3>3
  <2>13. AimsRight'
    <3> SUFFICES ASSUME NEW k \in Workers, at'[k].pc = "place"
                 PROVE  /\ at'[k].tid \in TitleIds /\ at'[k].tid <= lastTitle'
                        /\ titles'[at'[k].tid] # Absent =>
                             Belongs(parse'[at'[k].uid], titles'[at'[k].tid])
      BY DEF AimsRight, Belongs
    <3>1. at'[k] = at[k]
      BY <2>4, FreshTypes
    <3>2. /\ at[k].tid \in TitleIds /\ at[k].tid <= lastTitle /\ at[k].uid \in Uids
          /\ titles[at[k].tid] # Absent => Belongs(parse[at[k].uid], titles[at[k].tid])
      BY <3>1 DEF CatIInv, CatTypeOK, Transactions, Rowwise, AimsRight
    <3>3. titles'[at[k].tid] # Absent => titles[at[k].tid] # Absent
      BY <1>5, <2>3, <3>2
    <3>4. lastTitle' = lastTitle /\ parse' = parse
      BY <1>3
    <3> QED  BY <2>8, <3>1, <3>2, <3>3, <3>4, Zenon
  <2>14. BatchesInFiles' /\ VisitedPlaced' /\ WholePlaced'
    BY <1>2, <1>5, <2>4, <2>5, FreshTypes, CatConstants
    DEF CatIInv, CatTypeOK, Runwise, BatchesInFiles, VisitedPlaced, WholePlaced
  <2>15. PresentKept'
    BY <1>2, <1>5, <2>5, CatConstants DEF CatIInv, CatTypeOK, Runwise, PresentKept
  <2>16. LanguagesCover'
    <3> SUFFICES ASSUME NEW f \in Uids, titleOf'[f] # NoTitle, f \notin outrun'
                 PROVE  f \in titles'[titleOf'[f]].langs
      BY DEF LanguagesCover
    <3>1. f \in outrun \cup Overlapped(t) => f \in titles'[titleOf'[f]].langs
      BY <1>5
    <3>2. ASSUME f \notin outrun, f \notin Overlapped(t)
          PROVE  f \in titles'[titleOf'[f]].langs
      <4>1. CASE titleOf'[f] # tid
        <5>1. titleOf'[f] = titleOf[f]
          BY <2>5, <4>1
        <5> QED  BY <2>3, <2>6, <3>2, <4>1, <5>1 DEF CatIInv, LanguagesCover
      <4>2. CASE titleOf'[f] = tid /\ f # uid
        <5>1. titleOf[f] = tid
          BY <2>5, <4>2
        <5>2. f \in titles[tid].langs
          BY <3>2, <5>1, <1>1, CatConstants DEF CatIInv, LanguagesCover
        <5>3. t.merging => f \in t.langs
          BY <3>2, <5>2 DEF Overlapped
        <5>4. f \in langs
          BY <5>2, <5>3 DEF langs, Merged
        <5> QED  BY <2>3, <4>2, <5>4
      <4>3. CASE titleOf'[f] = tid /\ f = uid
        <5>1. t.merging
          BY <3>2, <4>3 DEF Overlapped
        <5>2. uid \in t.langs => uid \in titles[tid].langs
          BY <3>2, <4>3, <5>1 DEF Overlapped
        <5>3. uid \in langs
          BY <5>1, <5>2 DEF langs, Merged
        <5> QED  BY <2>3, <4>3, <5>3
      <4> QED  BY <4>1, <4>2, <4>3
    <3> QED  BY <3>1, <3>2
  <2> QED  BY <2>9, <2>10, <2>11, <2>12, <2>13, <2>14, <2>15, <2>16 DEF CatIInv, Rowwise, Runwise
<1> QED  BY <1>4, <1>5 DEF Place

LEMMA StartReparseStep ==
  ASSUME CatIInv, StartReparse
  PROVE  CatIInv'
<1>1. phase' = "files"
      /\ UNCHANGED <<parse, titles, lastTitle, titleOf, at, visited, orphans, whole,
                     catFaults, placed, present, outrun>>
  BY DEF StartReparse
<1>2. CatTypeOK' /\ Runwise'
  BY <1>1 DEF CatIInv, CatTypeOK, Runwise, BatchesInFiles, VisitedPlaced, WholePlaced, PresentKept
<1>3. Rowwise' /\ LanguagesCover'
  BY <1>1 DEF CatIInv, Rowwise, RowsNumbered, FilesCommitted, PlacedBelong, AimsRight,
              LanguagesCover, Belongs
<1> QED  BY <1>2, <1>3 DEF CatIInv

LEMMA SelectOrphansStep ==
  ASSUME CatIInv, SelectOrphans
  PROVE  CatIInv'
<1>1. /\ at[Reparser].pc = "idle" /\ phase' = "delete"
      /\ whole' = (Unvisited = {})
      /\ orphans' = {t \in Committed : \A f \in Uids : titleOf[f] # t}
      /\ present' = {f \in Uids : titleOf[f] # NoTitle}
      /\ UNCHANGED <<parse, titles, lastTitle, titleOf, at, visited, catFaults, placed, outrun>>
  BY DEF SelectOrphans
<1>2. CatTypeOK'
  <2>1. orphans' \subseteq TitleIds /\ whole' \in BOOLEAN /\ present' \subseteq Uids
    BY <1>1 DEF Committed, Rows
  <2> QED  BY <1>1, <2>1 DEF CatIInv, CatTypeOK
<1>3. Rowwise' /\ LanguagesCover'
  BY <1>1 DEF CatIInv, Rowwise, RowsNumbered, FilesCommitted, PlacedBelong, AimsRight,
              LanguagesCover, Belongs
<1>4. BatchesInFiles' /\ VisitedPlaced' /\ PresentKept'
  BY <1>1 DEF CatIInv, Runwise, BatchesInFiles, VisitedPlaced, PresentKept
<1>5. WholePlaced'
  BY <1>1 DEF CatIInv, Runwise, VisitedPlaced, WholePlaced, Unvisited
<1> QED  BY <1>2, <1>3, <1>4, <1>5 DEF CatIInv, Runwise

\* Rows that go take their files along; nothing else changes about the others.
LEMMA WithoutStep ==
  ASSUME CatIInv, NEW gone \in SUBSET TitleIds, Without(gone),
         UNCHANGED <<parse, lastTitle, at, catFaults, outrun>>,
         \/ phase # "delete" /\ UNCHANGED runVars
         \/ at[Reparser].pc = "idle" /\ RunOver
  PROVE  CatIInv'
<1>1. /\ \A t \in TitleIds : titles'[t] = IF t \in gone THEN Absent ELSE titles[t]
      /\ \A f \in Uids : titleOf'[f] = IF titleOf[f] \in gone THEN NoTitle ELSE titleOf[f]
      /\ placed' = {f \in placed : titleOf[f] \notin gone}
  BY DEF Without
<1>2. \A f \in Uids : titleOf'[f] # NoTitle =>
        /\ titleOf'[f] = titleOf[f] /\ titleOf[f] \in TitleIds
        /\ titles'[titleOf'[f]] = titles[titleOf[f]]
        /\ f \in placed => f \in placed'
  BY <1>1, CatConstants DEF CatIInv, CatTypeOK
<1>3. CatTypeOK'
  <2>1. titles' \in [TitleIds -> TitleRows \cup {Absent}]
    BY DEF Without, CatIInv, CatTypeOK
  <2>2. titleOf' \in [Uids -> TitleIds \cup {NoTitle}]
    BY DEF Without, CatIInv, CatTypeOK
  <2>3. /\ phase' \in {"off", "files", "delete"} /\ whole' \in BOOLEAN
        /\ visited' \subseteq Uids /\ orphans' \subseteq TitleIds /\ present' \subseteq Uids
    BY DEF RunOver, runVars, CatIInv, CatTypeOK
  <2> QED  BY <1>1, <2>1, <2>2, <2>3 DEF CatIInv, CatTypeOK
<1>4. RowsNumbered'
  BY <1>1 DEF CatIInv, Rowwise, RowsNumbered
<1>5. FilesCommitted' /\ LanguagesCover'
  BY <1>2 DEF CatIInv, Rowwise, FilesCommitted, LanguagesCover
<1>6. PlacedBelong'
  BY <1>1, <1>2 DEF CatIInv, CatTypeOK, Rowwise, PlacedBelong, Belongs
<1>7. AimsRight'
  BY <1>1 DEF CatIInv, Rowwise, AimsRight, Belongs
<1>8. Runwise'
  <2>1. CASE phase # "delete" /\ UNCHANGED runVars
    BY <1>2, <2>1
    DEF runVars, CatIInv, CatTypeOK, Runwise, BatchesInFiles, VisitedPlaced, WholePlaced,
        PresentKept
  <2>2. CASE at[Reparser].pc = "idle" /\ RunOver
    BY <2>2 DEF RunOver, Runwise, BatchesInFiles, VisitedPlaced, WholePlaced, PresentKept
  <2> QED  BY <2>1, <2>2
<1> QED  BY <1>3, <1>4, <1>5, <1>6, <1>7, <1>8 DEF CatIInv, Rowwise

LEMMA DeletionsStep ==
  ASSUME CatIInv, DeleteOrphans \/ Wipe
  PROVE  CatIInv'
<1>1. CASE DeleteOrphans
  <2>1. orphans \in SUBSET TitleIds /\ at[Reparser].pc = "idle"
    BY <1>1 DEF DeleteOrphans, CatIInv, CatTypeOK, Runwise, BatchesInFiles
  <2> QED  BY <1>1, <2>1, WithoutStep DEF DeleteOrphans
<1>2. CASE Wipe
  BY <1>2, WithoutStep DEF Wipe
<1> QED  BY <1>1, <1>2

LEMMA RestartStep ==
  ASSUME CatIInv, CatWorkerRestarts
  PROVE  CatIInv'
<1>1. /\ \A t \in TitleIds : titles'[t] = IF t \in Committed THEN titles[t] ELSE Absent
      /\ \A w \in Workers : at'[w] = NoTransaction
      /\ phase' = "off" /\ visited' = {} /\ orphans' = {} /\ whole' = FALSE /\ present' = {}
      /\ UNCHANGED <<parse, lastTitle, titleOf, placed, outrun>>
  BY DEF CatWorkerRestarts, RunOver
<1>2. \A f \in Uids : titleOf[f] # NoTitle => titles'[titleOf[f]] = titles[titleOf[f]]
  BY <1>1 DEF CatIInv, CatTypeOK, Rowwise, FilesCommitted, Committed, Rows
<1>3. CatTypeOK'
  <2>1. titles' \in [TitleIds -> TitleRows \cup {Absent}]
    BY DEF CatWorkerRestarts, CatIInv, CatTypeOK
  <2>2. at' \in [Workers -> Transactions]
    BY FreshTypes DEF CatWorkerRestarts
  <2>3. catFaults' \in 0..MaxCatFaults
    BY CatConstants DEF CatWorkerRestarts, CatIInv, CatTypeOK
  <2>4. whole' \in BOOLEAN
    BY <1>1
  <2> QED  BY <1>1, <2>1, <2>2, <2>3, <2>4 DEF CatIInv, CatTypeOK
<1>4. RowsNumbered'
  BY <1>1 DEF CatIInv, Rowwise, RowsNumbered
<1>5. FilesCommitted' /\ PlacedBelong' /\ LanguagesCover'
  BY <1>1, <1>2 DEF CatIInv, CatTypeOK, Rowwise, FilesCommitted, PlacedBelong, LanguagesCover,
                    Belongs
<1>6. AimsRight' /\ Runwise'
  BY <1>1, FreshTypes, CatConstants
  DEF AimsRight, Runwise, BatchesInFiles, VisitedPlaced, WholePlaced, PresentKept
<1> QED  BY <1>3, <1>4, <1>5, <1>6 DEF CatIInv, Rowwise

LEMMA CatNextIInv ==
  ASSUME CatIInv, [CatNext]_catVars
  PROVE  CatIInv'
<1>1. CASE UNCHANGED catVars
  <2> USE <1>1 DEF catVars
  <2>1. CatTypeOK'
    BY DEF CatIInv, CatTypeOK
  <2>2. Rowwise' /\ LanguagesCover'
    BY DEF CatIInv, Rowwise, RowsNumbered, FilesCommitted, PlacedBelong, AimsRight,
           LanguagesCover, Belongs
  <2>3. Runwise'
    BY DEF CatIInv, Runwise, BatchesInFiles, VisitedPlaced, WholePlaced, PresentKept
  <2> QED  BY <2>1, <2>2, <2>3 DEF CatIInv
<1>2. CASE CatNext
  BY <1>2, FindStep, CreateStep, RefetchStep, PlaceStep, AbortStep, IndexStep, NextBatchStep,
     StartReparseStep, SelectOrphansStep, DeletionsStep, RestartStep
  DEF CatNext
<1> QED  BY <1>1, <1>2

THEOREM CatInductive == CatSpec => []CatIInv
<1>1. CatInit => CatIInv
  BY CatInitIInv
<1>2. CatIInv /\ [CatNext]_catVars => CatIInv'
  BY CatNextIInv
<1> QED  BY <1>1, <1>2, PTL DEF CatSpec

------------------------------------------------------------------------------
(* The theorems.                                                           *)

\* Rows, transactions and the state of the re-parse keep their types.
THEOREM CatTypeCorrect == CatSpec => []CatTypeOK
<1>1. CatIInv => CatTypeOK
  BY DEF CatIInv
<1> QED  BY <1>1, CatInductive, PTL

\* Whatever is created, swept, wiped or rolled back while a file is being resolved, it
\* ends under a title that exists and that it belongs to.
THEOREM RightTitleCorrect == CatSpec => []RightTitle
<1>1. ASSUME CatIInv
      PROVE  RightTitle
  BY <1>1 DEF CatIInv, CatTypeOK, Rowwise, Runwise, FilesCommitted, PlacedBelong, WholePlaced,
              RightTitle
<1>2. CatIInv => RightTitle
  BY <1>1
<1> QED  BY <1>2, CatInductive, PTL

\* No language of a file is missing from its title unless transactions overlapped.
THEOREM LanguagesCoverCorrect == CatSpec => []LanguagesCover
<1>1. CatIInv => LanguagesCover
  BY DEF CatIInv
<1> QED  BY <1>1, CatInductive, PTL

\* The sweep takes along only files that came after it had selected its titles.
LEMMA SparesStep ==
  ASSUME CatIInv, [CatNext]_catVars, NEW f \in Uids, titleOf[f] # NoTitle, titleOf'[f] = NoTitle
  PROVE  (\A t \in TitleIds : titles'[t] = Absent) \/ f \notin present
<1>1. CASE DeleteOrphans
  <2>1. phase = "delete" /\ titleOf[f] \in orphans
    BY <1>1 DEF DeleteOrphans, Without
  <2> QED  BY <2>1 DEF CatIInv, Runwise, PresentKept
<1>2. CASE Wipe
  BY <1>2 DEF Wipe, Without
<1>3. ASSUME NEW w \in Workers, Place(w)
      PROVE  FALSE
  <2>1. at[w].pc = "place" /\ at[w].tid # NoTitle
    BY <1>3, CatConstants DEF Place, CatIInv, Rowwise, AimsRight
  <2>2. \/ titleOf' = titleOf
        \/ titleOf' = [titleOf EXCEPT ![at[w].uid] = at[w].tid]
    BY <1>3 DEF Place
  <2> QED  BY <2>1, <2>2 DEF CatIInv, CatTypeOK
<1>4. CASE UNCHANGED titleOf
  BY <1>4
<1>5. \/ DeleteOrphans \/ Wipe \/ UNCHANGED titleOf
      \/ \E w \in Workers : Place(w)
  BY DEF CatNext, catVars, Find, Create, Refetch, Abort, Index, StartReparse, NextBatch,
         SelectOrphans, CatWorkerRestarts
<1> QED  BY <1>1, <1>2, <1>3, <1>4, <1>5

\* As the property of every step.
THEOREM SweepSparesCorrect == CatSpec => SweepSpares
<1>1. CatIInv /\ [CatNext]_catVars =>
        [\A f \in Uids : (titleOf[f] # NoTitle /\ titleOf'[f] = NoTitle) =>
           \/ \A t \in TitleIds : titles'[t] = Absent
           \/ f \notin present]_catVars
  BY SparesStep
<1> QED  BY <1>1, CatInductive, PTL DEF CatSpec, SweepSpares

==============================================================================
