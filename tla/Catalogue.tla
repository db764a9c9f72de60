------------------------------ MODULE Catalogue ------------------------------
(***************************************************************************)
(* Titles and files: a file is resolved to a title, which is found or made *)
(* (worker/resolver.py, shared/db/repos/titles.py), and inserted under it  *)
(* (worker/indexer.py), by live indexing, backfill and the re-parse, which *)
(* ends by deleting the titles left empty (worker/reparse.py).  A step is  *)
(* one SQL statement; the last one of a transaction commits it, under READ *)
(* COMMITTED.                                                              *)
(*                                                                         *)
(* A name stands for canonical title and season, which both lookups match  *)
(* together; each file speaks a language of its own, so that a set of      *)
(* languages is a set of files.  A batch of the re-parse is one file.      *)
(***************************************************************************)
EXTENDS Naturals, FiniteSets

CONSTANTS
  Names,
  Close,         \* pairs of names above the similarity threshold
  Superset,      \* those of them where one name's words contain the other's
  Years, NoYear,
  MaxTitles,     \* bound on the titles ever created
  Uids,          \* telegram_file_uid
  Indexers,      \* index_message calls in flight at once
  Reparser,
  MaxCatFaults   \* bound on aborted transactions and crashes

TitleIds == 1..MaxTitles
Workers == Indexers \cup {Reparser}
NoTitle == 0
Nobody == "nobody"

ASSUME CatalogueAssumption ==
  /\ MaxTitles \in Nat \ {0} /\ Uids # {} /\ Names # {}
  /\ Reparser \notin Indexers /\ Nobody \notin Workers /\ "absent" \notin Workers
  /\ NoYear \notin Years
  /\ Superset \subseteq Close /\ Close \subseteq SUBSET Names
  /\ MaxCatFaults \in Nat

VARIABLES
  parse,     \* what parse_media makes of each file
  titles,    \* rows by id, uncommitted ones included; by says whose they are
  lastTitle, \* the sequence their ids come from
  titleOf,   \* rows of files: the title of each file, or NoTitle
  at,        \* each transaction: where it is, and its locals
  phase,     \* the re-parse: off, files, delete
  visited,   \* the files it has dealt with
  orphans,   \* the titles it is about to delete
  whole,     \* whether it was not cancelled before it had seen all files
  catFaults,
  \* Ghosts.
  placed,    \* files whose row was written on the present parse
  present,   \* files indexed when the orphans were selected
  outrun     \* files whose language an overlapping transaction kept out of their title,
             \* or which found the title they had tried to create

catVars == <<parse, titles, lastTitle, titleOf, at, phase, visited, orphans, whole, catFaults,
             placed, present, outrun>>

runVars == <<phase, visited, orphans, whole, present>>

\* What resolving a title leaves alone.
catRest == <<runVars, catFaults, placed, outrun>>

Parses == [name : Names, year : Years \cup {NoYear}]
TitleRows == [name : Names, year : Years \cup {NoYear}, langs : SUBSET Uids,
              by : Workers \cup {Nobody}]
Absent == [name |-> CHOOSE n \in Names : TRUE, year |-> NoYear, langs |-> {}, by |-> "absent"]

\* langs is what the transaction read in the row it found; merging, whether it found it.
Transactions == [pc : {"idle", "find", "create", "refetch", "place"}, uid : Uids,
                 tid : TitleIds \cup {NoTitle}, langs : SUBSET Uids, merging : BOOLEAN]
AnyUid == CHOOSE f \in Uids : TRUE
AtFind(f) == [pc |-> "find", uid |-> f, tid |-> NoTitle, langs |-> {}, merging |-> FALSE]
NoTransaction == [AtFind(AnyUid) EXCEPT !.pc = "idle"]

CatTypeOK ==
  /\ parse \in [Uids -> Parses]
  /\ titles \in [TitleIds -> TitleRows \cup {Absent}]
  /\ lastTitle \in 0..MaxTitles
  /\ titleOf \in [Uids -> TitleIds \cup {NoTitle}]
  /\ at \in [Workers -> Transactions]
  /\ phase \in {"off", "files", "delete"} /\ whole \in BOOLEAN
  /\ visited \subseteq Uids /\ orphans \subseteq TitleIds
  /\ catFaults \in 0..MaxCatFaults
  /\ placed \subseteq Uids /\ present \subseteq Uids /\ outrun \subseteq Uids

Rows == {t \in TitleIds : titles[t] # Absent}
Committed == {t \in Rows : titles[t].by = Nobody}
\* An index some files of which an older parser has put under any title at all.
CatInit ==
  /\ parse \in [Uids -> Parses]
  /\ \E old \in SUBSET Uids, row \in TitleRows :
       /\ row.by = Nobody /\ row.langs = old
       /\ titleOf = [f \in Uids |-> IF f \in old THEN 1 ELSE NoTitle]
       /\ titles = [t \in TitleIds |-> IF t = 1 /\ old # {} THEN row ELSE Absent]
  /\ lastTitle = 1
  /\ at = [w \in Workers |-> NoTransaction]
  /\ phase = "off" /\ visited = {} /\ orphans = {} /\ whole = FALSE
  /\ catFaults = 0
  /\ placed = {} /\ present = {} /\ outrun = {}

CatGoto(w, rec) == at' = [at EXCEPT ![w] = rec]

------------------------------------------------------------------------------
(* resolve_title.                                                          *)

\* A known year must not contradict another; an unknown one never does.
YearFits(year, t) == year = NoYear \/ titles[t].year \in {year, NoYear}

\* find_exact: the row of that very year, or else one without; without a year, the
\* first of the name.
Exact(p) ==
  LET named == {t \in Committed : titles[t].name = p.name /\ YearFits(p.year, t)}
  IN {t \in named : \A k \in named :
        IF p.year = NoYear THEN t <= k
        ELSE titles[k].year = p.year => titles[t].year = p.year}

Slip_Fuzzy(p) ==  \* without the year
  {t \in Committed : {titles[t].name, p.name} \in Close}

\* find_fuzzy: the most similar row, any of these for the model.
Fuzzy(p) ==
  {t \in Committed : {titles[t].name, p.name} \in Close /\ YearFits(p.year, t)}

\* find_exact, then find_fuzzy, whose row is refused when _distinct_named_thing.
Find(w) ==
  /\ at[w].pc = "find"
  /\ LET p == parse[at[w].uid]
         Take(t) == CatGoto(w, [at[w] EXCEPT !.pc = "place", !.tid = t, !.merging = TRUE,
                                             !.langs = titles[t].langs])
         Make == CatGoto(w, [at[w] EXCEPT !.pc = "create"])
     IN \/ \E t \in Exact(p) : Take(t)
        \/ /\ Exact(p) = {}
           /\ \/ \E t \in Fuzzy(p) :
                   IF {titles[t].name, p.name} \in Superset THEN Make ELSE Take(t)
              \/ Fuzzy(p) = {} /\ Make
  /\ UNCHANGED <<parse, titles, lastTitle, titleOf, catRest>>

SameKey(t, p) == titles[t].name = p.name /\ titles[t].year = p.year

\* get_or_create: INSERT ... ON CONFLICT DO NOTHING.  It waits for an uncommitted row
\* of the same key.
Create(w) ==
  /\ at[w].pc = "create"
  /\ LET t == at[w]
         p == parse[t.uid]
         same == {k \in Rows : SameKey(k, p)}
     IN \/ /\ same \cap Committed # {}
           /\ CatGoto(w, [t EXCEPT !.pc = "refetch"])
           /\ UNCHANGED <<titles, lastTitle>>
        \/ /\ same = {} /\ lastTitle < MaxTitles
           /\ lastTitle' = lastTitle + 1
           /\ titles' = [titles EXCEPT ![lastTitle'] =
                [name |-> p.name, year |-> p.year, langs |-> {t.uid}, by |-> w]]
           /\ CatGoto(w, [t EXCEPT !.pc = "place", !.tid = lastTitle'])
  /\ UNCHANGED <<parse, titleOf, catRest>>

\* The run of the re-parse is over.
RunOver ==
  /\ phase' = "off" /\ visited' = {} /\ orphans' = {} /\ whole' = FALSE /\ present' = {}

\* What a transaction leaves when it is rolled back: its own row goes, and with the
\* re-parse's the run ends.
RollBack(w) ==
  /\ titles' = [t \in TitleIds |-> IF titles[t].by = w THEN Absent ELSE titles[t]]
  /\ CatGoto(w, NoTransaction)
  /\ IF w = Reparser THEN RunOver ELSE UNCHANGED runVars

\* The SELECT after a conflict.  The row may have been swept meanwhile, and the
\* assertion fails.
Refetch(w) ==
  /\ at[w].pc = "refetch"
  /\ LET same == {k \in Committed : SameKey(k, parse[at[w].uid])}
     IN \/ /\ \E k \in same : CatGoto(w, [at[w] EXCEPT !.pc = "place", !.tid = k])
           /\ UNCHANGED <<titles, runVars>>
        \/ same = {} /\ RollBack(w)
  /\ UNCHANGED <<parse, lastTitle, titleOf, catFaults, placed, outrun>>

------------------------------------------------------------------------------
(* index_message and a batch of reparse().                                 *)

\* A message with media arrives, for the first time or again.
Index(h, f) ==
  /\ at[h].pc = "idle"
  /\ CatGoto(h, AtFind(f))
  /\ UNCHANGED <<parse, titles, lastTitle, titleOf, catRest>>

Slip_Merged(t) ==  \* the new file's languages replace the old ones
  IF t.merging THEN {t.uid} ELSE titles[t.tid].langs

\* merge_metadata: the union of the languages the transaction had read with its own.
Merged(t) ==
  IF t.merging /\ t.uid \notin t.langs THEN t.langs \cup {t.uid} ELSE titles[t.tid].langs

\* Ghost: the languages that came or went since the transaction read the row, or the
\* one of a file that did not get to merge its own.
Overlapped(t) ==
  IF t.merging THEN (titles[t.tid].langs \ t.langs) \cup (t.langs \ titles[t.tid].langs)
  ELSE {t.uid}

\* insert_file, or the move to the new title; the merge is flushed before it and the
\* transaction committed after it.  A title deleted in the meantime fails both.
Place(w) ==
  /\ at[w].pc = "place"
  /\ LET t == at[w]
         new == w = Reparser \/ titleOf[t.uid] = NoTitle
         langs == Merged(t)
     IN \/ /\ titles[t.tid] = Absent
           /\ RollBack(w)
           /\ UNCHANGED <<titleOf, placed, outrun>>
        \/ /\ titles[t.tid] # Absent
           /\ titles' = [titles EXCEPT ![t.tid].langs = langs, ![t.tid].by = Nobody]
           /\ titleOf' = IF new THEN [titleOf EXCEPT ![t.uid] = t.tid] ELSE titleOf
           /\ placed' = IF new THEN placed \cup {t.uid} ELSE placed
           /\ outrun' = {f \in outrun \cup Overlapped(t) :
                           titleOf'[f] = NoTitle \/ f \notin titles'[titleOf'[f]].langs}
           /\ CatGoto(w, NoTransaction)
           /\ visited' = IF w = Reparser THEN visited \cup {t.uid} ELSE visited
           /\ UNCHANGED <<phase, orphans, whole, present>>
  /\ UNCHANGED <<parse, lastTitle, catFaults>>

------------------------------------------------------------------------------
(* The rest of reparse(), and the wipe.                                    *)

StartReparse ==
  /\ phase = "off"
  /\ phase' = "files"
  /\ UNCHANGED <<parse, titles, lastTitle, titleOf, at, visited, orphans, whole, catFaults,
                 placed, present, outrun>>

Unvisited == {f \in Uids \ visited : titleOf[f] # NoTitle}

NextBatch ==
  /\ phase = "files" /\ at[Reparser].pc = "idle"
  /\ \E f \in Unvisited : CatGoto(Reparser, AtFind(f))
  /\ UNCHANGED <<parse, titles, lastTitle, titleOf, catRest>>

Slip_SelectOrphans ==  \* counts a title empty when no file of this run is in it
  /\ phase = "files" /\ at[Reparser].pc = "idle"
  /\ phase' = "delete"
  /\ whole' = (Unvisited = {})
  /\ orphans' = {t \in Committed : \A f \in visited : titleOf[f] # t}
  /\ present' = {f \in Uids : titleOf[f] # NoTitle}
  /\ UNCHANGED <<parse, titles, lastTitle, titleOf, at, visited, catFaults, placed, outrun>>

\* After the last file, or after any batch when the run was cancelled.
SelectOrphans ==
  /\ phase = "files" /\ at[Reparser].pc = "idle"
  /\ phase' = "delete"
  /\ whole' = (Unvisited = {})
  /\ orphans' = {t \in Committed : \A f \in Uids : titleOf[f] # t}
  /\ present' = {f \in Uids : titleOf[f] # NoTitle}
  /\ UNCHANGED <<parse, titles, lastTitle, titleOf, at, visited, catFaults, placed, outrun>>

Without(gone) ==
  /\ titles' = [t \in TitleIds |-> IF t \in gone THEN Absent ELSE titles[t]]
  /\ titleOf' = [f \in Uids |-> IF titleOf[f] \in gone THEN NoTitle ELSE titleOf[f]]
  /\ placed' = {f \in placed : titleOf[f] \notin gone}

\* DELETE by id; the foreign key takes the files along.
DeleteOrphans ==
  /\ phase = "delete"
  /\ Without(orphans)
  /\ RunOver
  /\ UNCHANGED <<parse, lastTitle, at, catFaults, outrun>>

\* TRUNCATE, which waits for every transaction that has touched the tables.
Wipe ==
  /\ phase # "delete"
  /\ \A w \in Workers : at[w].pc \in {"idle", "find"}
  /\ Without(TitleIds)
  /\ UNCHANGED <<parse, lastTitle, at, runVars, catFaults, outrun>>

\* Postgres aborts a transaction, of two that deadlock for instance.
Abort(w) ==
  /\ catFaults < MaxCatFaults
  /\ at[w].pc # "idle"
  /\ RollBack(w)
  /\ catFaults' = catFaults + 1
  /\ UNCHANGED <<parse, lastTitle, titleOf, placed, outrun>>

\* The worker is killed and started again.
CatWorkerRestarts ==
  /\ catFaults < MaxCatFaults
  /\ titles' = [t \in TitleIds |-> IF t \in Committed THEN titles[t] ELSE Absent]
  /\ at' = [w \in Workers |-> NoTransaction]
  /\ RunOver
  /\ catFaults' = catFaults + 1
  /\ UNCHANGED <<parse, lastTitle, titleOf, placed, outrun>>

CatNext ==
  \/ \E w \in Workers : Find(w) \/ Create(w) \/ Refetch(w) \/ Place(w) \/ Abort(w)
  \/ \E h \in Indexers, f \in Uids : Index(h, f)
  \/ StartReparse \/ NextBatch \/ SelectOrphans \/ DeleteOrphans
  \/ Wipe \/ CatWorkerRestarts

CatSpec == CatInit /\ [][CatNext]_catVars

------------------------------------------------------------------------------
(* Properties.                                                             *)

\* Where the parser's reading of a file may put it: a title of its name, or of a
\* similar one that is not "a different thing", and never one of another year.
Belongs(p, row) ==
  /\ \/ row.name = p.name
     \/ {row.name, p.name} \in Close \ Superset
  /\ p.year # NoYear => row.year \in {p.year, NoYear}

\* Every file is under a title that exists.  One that the present parser has placed,
\* and after a full re-parse that is every file, is under a title it belongs to,
\* whatever was created, swept, wiped or rolled back while it was being resolved.
RightTitle ==
  \A f \in Uids : titleOf[f] # NoTitle =>
    /\ titles[titleOf[f]] # Absent
    /\ (f \in placed \/ (phase = "delete" /\ whole)) => Belongs(parse[f], titles[titleOf[f]])

\* Files disappear only with the whole index, or, at the end of a re-parse, when they
\* came in after the empty titles had been selected.
SweepSpares ==
  [][\A f \in Uids : (titleOf[f] # NoTitle /\ titleOf'[f] = NoTitle) =>
       \/ \A t \in TitleIds : titles'[t] = Absent
       \/ f \notin present]_catVars

\* A title's languages include those of its files (models.Title: "the union across
\* variants"), but for files whose merge an overlapping transaction overwrote, or
\* which lost the race to create the title.
LanguagesCover ==
  \A f \in Uids : titleOf[f] # NoTitle => f \in titles[titleOf[f]].langs \cup outrun

\* get_or_create: "conflict implies the row exists".  The SELECT after a conflict finds the
\* row, and only an abort by Postgres or a restart stops the transaction there.
ConflictImpliesRow ==
  [][\A w \in Workers :
       at[w].pc = "refetch" /\ at'[w].pc # "refetch" =>
         at'[w].pc = "place" \/ catFaults' > catFaults]_catVars

\* "No file is ever deleted" by a re-parse (the text of /reparse).
NoFileDeleted ==
  [][\A f \in Uids : (phase = "delete" /\ titleOf[f] # NoTitle) => titleOf'[f] # NoTitle]_catVars

==============================================================================
