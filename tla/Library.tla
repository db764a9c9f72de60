------------------------------ MODULE Library ------------------------------
(***************************************************************************)
(* The library: how files come under titles, and how both are searched.    *)
(* They are modelled apart, each with as much of the other as reaches it;  *)
(* part names the one that moves, and which instance of it.                *)
(***************************************************************************)
EXTENDS Catalogue, Search

Symmetry == INSTANCE TLC

VARIABLE part

vars == <<part, catVars, seaVars>>

------------------------------------------------------------------------------
(* The catalogue.  One name is close to all others; an older parser has    *)
(* put one file, perhaps more, under it, and misread only that file.       *)

OtherIndexers == Indexers \ {CHOOSE h \in Indexers : TRUE}
Hub == CHOOSE n \in Names : \A m \in Names \ {n} : {n, m} \in Close

\* Or that one file alone, indexed and posted again at once while a re-parse runs; or
\* three files in three languages of one title nobody has yet.
SpareUid == CHOOSE f \in Uids \ {AnyUid} : TRUE
InHub(year) == [name |-> Hub, year |-> year]

ParseInstance ==
  IF part \in {"indexing", "reparse", "again"}
  THEN {p \in [Uids -> Parses] : /\ \A f \in Uids \ {AnyUid} : p[f].name = Hub
                                 /\ p[SpareUid] = InHub(NoYear)}
  ELSE {[f \in Uids |-> InHub(NoYear)]}

CatInstance ==
  /\ titles[1] # Absent => titles[1].name = Hub /\ titleOf[AnyUid] = 1
  /\ part \in {"indexing", "reparse", "again"} => titleOf[SpareUid] = NoTitle
  /\ part \notin {"indexing", "reparse", "again"} => titles[1] = Absent

\* Two indexers and no re-parse, one and a re-parse, or both and one file.
CatMoves ==
  /\ CatNext
  /\ \/ part = "indexing" /\ phase' = "off" /\ \A w \in Workers : at'[w].uid # SpareUid
     \/ /\ part = "reparse"
        /\ \A w \in Workers : at'[w].uid # SpareUid
        /\ \A h \in OtherIndexers : at'[h].pc = "idle"
     \/ part = "again" /\ \A w \in Workers : at'[w].uid = AnyUid
     \/ part = "languages" /\ phase' = "off"

------------------------------------------------------------------------------
(* Searching.  One user refines, and another one searches; or one browses. *)

Searcher == CHOOSE u \in Users : TRUE
FirstAsk == CHOOSE h \in Asks : TRUE
Plain == CHOOSE p \in Phrases : TRUE
Tongue == CHOOSE l \in Tongues : TRUE
Res == CHOOSE r \in Resolutions : TRUE
OtherRes == CHOOSE r \in Resolutions \ {Res} : TRUE
Label(r, l, e) == [res |-> r, lang |-> l, ep |-> e]

\* One title in two versions that one phrase finds, whose row still shows a language it
\* had once, and one in that language that is close to it and whose name contains the
\* first one's; the other phrase finds nothing.  No file moves.
RefineInstance ==
  /\ shelf = [f \in SearchFiles |-> IF f < 3 THEN 1 ELSE 2]
  /\ label = [f \in SearchFiles |-> CASE f = 1 -> Label(Res, Any, 0)
                                      [] f = 2 -> Label(OtherRes, Any, 0)
                                      [] OTHER -> Label(Res, Tongue, 0)]
  /\ rowLangs = [t \in Shows |-> IF t = 3 THEN {} ELSE {Tongue}]
  /\ hits = [w \in Words |-> CASE w = Plain -> {1}
                                [] w \in Shows -> {t \in {1, 2} : w <= t}
                                [] OTHER -> {}]
  /\ near = [w \in Words |-> IF w = Plain THEN {2} ELSE {}]
  /\ shelfOps = MaxShelfOps

\* Two or three files of one title, the third perhaps of another; their episodes change.
BrowseInstance ==
  /\ shelf \in {[f \in SearchFiles |-> IF f = 3 THEN t ELSE 1] : t \in {1, 3}}
  /\ label \in {[f \in SearchFiles |-> CASE f = 1 -> Label(Res, Tongue, 1)
                                         [] f = 2 -> Label(OtherRes, Any, 2)
                                         [] OTHER -> Label(r, Any, e)] :
                  r \in Resolutions, e \in {0, 2}}
  /\ rowLangs = [t \in Shows |-> IF t = 1 THEN {Tongue} ELSE {}]
  /\ hits = [w \in Words |-> Shows] /\ near = [w \in Words |-> {}]
  /\ shelfOps = 0

\* The messages that begin: the first is the searcher's, the second a plain search.
Begun == {h \in Asks : asking[h].pc = "idle" /\ asking'[h].pc # "idle"}
FirstIsSearchers == \A h \in Begun : h = FirstAsk => asking'[h].by = Searcher
PlainSearch(h) ==
  /\ asking'[h].mod = Any /\ asking'[h].raw = Any
  /\ asking'[h].text = [word |-> Plain, mods |-> NoText]

SeaMoves ==
  /\ part \in {"refine", "browse"}
  /\ SeaNext
  /\ Cardinality(lists') < 2
  /\ FirstIsSearchers
  /\ \/ /\ part = "refine"
        /\ \A h \in Begun : IF h = FirstAsk
             THEN /\ asking'[h].raw \in {Any, Plain}
                  /\ asking'[h].mod = Any => asking'[h].text.mods = NoText
             ELSE PlainSearch(h)
        /\ \A u \in Users : /\ card'[u].is \in {"title", "list"} =>
                                 \/ card'[u] = card[u] \/ typed' # typed
                                 \/ card[u].is = "suggestions"
                            /\ u # Searcher /\ lastq'[u] = NoText => lastq[u] = NoText
     \/ /\ part = "browse"
        /\ \A h \in Begun :
             /\ h = FirstAsk /\ asking'[h].mod = Any /\ asking'[h].raw = Any
             /\ asking'[h].text.word = Plain /\ asking'[h].text.mods \in {NoText, <<Res>>}
        /\ shelf' = shelf
        /\ \A f \in SearchFiles : label'[f] = [label[f] EXCEPT !.ep = label'[f].ep]
        /\ lastq' # lastq => typed' # typed

------------------------------------------------------------------------------
\* What does not move stands still somewhere.
Init ==
  /\ part \in {"indexing", "reparse", "again", "languages", "refine", "browse"}
  /\ parse \in ParseInstance
  /\ CatInit /\ CatInstance
  /\ IF part = "browse" THEN BrowseInstance ELSE RefineInstance
  /\ SeaInit

Next ==
  /\ UNCHANGED part
  /\ \/ CatMoves /\ UNCHANGED seaVars
     \/ SeaMoves /\ UNCHANGED catVars

Spec == Init /\ [][Next]_vars

TypeOK == CatTypeOK /\ SeaTypeOK

\* Nothing tells one year from another.
YearSymmetry == Symmetry!Permutations(Years)

==============================================================================
