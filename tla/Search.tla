------------------------------- MODULE Search -------------------------------
(***************************************************************************)
(* Searching and browsing: typed messages, among them bare modifiers that  *)
(* refine the last search (bot/handlers/search.py), the result lists in    *)
(* Redis behind the cursors (shared/search), and the cards a user taps his *)
(* way through (bot/ui.py, bot/handlers/callbacks.py), while files are     *)
(* indexed, moved and re-labelled.  A step of a message is one Redis       *)
(* command or one read of the database; a tap is one step.                 *)
(*                                                                         *)
(* A title's number is its rank in any list, a file's its place among      *)
(* those of one episode; a list is then the set of its titles.  A search   *)
(* text is a word, which stands for title, year and season, and modifiers; *)
(* a title's number is also the word that is its canonical title.          *)
(***************************************************************************)
EXTENDS Naturals, Sequences, FiniteSets

CONSTANTS
  Shows,        \* titles
  SearchFiles,
  Phrases,      \* what a user may type for a title
  Resolutions, Tongues, Any,
  MaxEpisode,
  Users, Asks,  \* Asks: messages in flight at once
  PageSize, VariantsPerPage,
  MaxModifiers, MaxShelfOps

Modifiers == Resolutions \cup Tongues
NoEpisode == 0
Nowhere == 0
NoText == <<>>

ASSUME SearchAssumption ==
  /\ Shows \subseteq Nat \ {Nowhere} /\ SearchFiles \subseteq Nat
  /\ Resolutions \cap Tongues = {} /\ Any \notin Modifiers \cup Nat
  /\ {PageSize, VariantsPerPage, MaxModifiers} \subseteq Nat \ {0}
  /\ {MaxEpisode, MaxShelfOps} \subseteq Nat

Words == Phrases \cup Shows
Labels == [res : Resolutions \cup {Any}, lang : Tongues \cup {Any}, ep : 0..MaxEpisode]
Texts == [word : Words, mods : UNION {[1..n -> Modifiers] : n \in 0..MaxModifiers}]

VARIABLES
  shelf,     \* the title each file is under, or Nowhere
  label,     \* what the parser read in its name
  known,     \* the titles that have a row
  rowLangs,  \* titles.languages, in which files that left and lost merges show
  hits,      \* the titles a word is found in
  near,      \* the titles it resembles
  lists,     \* search:<qhash>, the cached lists
  lastq,     \* lastq:<scope>, by user
  asking,    \* each message in flight: where it is, and its locals
  card,      \* the card each user has in front of him
  shelfOps,
  typed      \* ghost: the text of the last message of each user that found something

seaVars == <<shelf, label, known, rowLangs, hits, near, lists, lastq, asking, card, shelfOps, typed>>
indexVars == <<shelf, label, known, rowLangs, hits, near, shelfOps>>

\* ep is an index into the list of episodes.
NoPick == [res |-> Any, lang |-> Any, ep |-> Any]

\* A card: what it is, the text behind it, the files behind it (all) and listed (shown),
\* as they were, and its buttons.  Ghosts: wanted, the filters the tapped button named;
\* moved, whether the episodes changed between the drawing of that button and the tap;
\* by, the message that a new card answers.
NoCard == [is |-> "none", text |-> NoText, all |-> {}, shown |-> {}, buttons |-> {},
           wanted |-> NoPick, moved |-> FALSE, by |-> NoText]

\* by: who; raw: the untouched phrase, while it can still be tried; prev, mod: the
\* refined search and the modifier, if it is a refinement; late: a ghost, whether
\* another message of the user has been answered in the meantime.
NoAsk == [pc |-> "idle", by |-> Any, text |-> NoText, raw |-> Any, prev |-> NoText, mod |-> Any,
          ids |-> {}, late |-> FALSE]

SeaTypeOK ==
  /\ shelf \in [SearchFiles -> Shows \cup {Nowhere}]
  /\ label \in [SearchFiles -> Labels]
  /\ known \subseteq Shows /\ rowLangs \in [Shows -> SUBSET Tongues]
  /\ hits \in [Words -> SUBSET Shows] /\ near \in [Words -> SUBSET Shows]
  /\ \A e \in lists : e.text \in Texts /\ e.ids \in (SUBSET Shows) \ {{}}
  /\ \A e, k \in lists : e.text = k.text => e = k
  /\ lastq \in [Users -> Texts \cup {NoText}] /\ typed \in [Users -> Texts \cup {NoText}]
  /\ \A h \in Asks : asking[h].pc \in {"idle", "ladder", "page"} /\ asking[h].ids \subseteq Shows
  /\ \A u \in Users : card[u].is \in {"none", "list", "title", "suggestions"}
  /\ shelfOps \in 0..MaxShelfOps

SeaInit ==
  /\ label \in [SearchFiles -> Labels]
  /\ shelf \in [SearchFiles -> Shows \cup {Nowhere}]
  /\ known = {shelf[f] : f \in SearchFiles} \ {Nowhere}
  /\ rowLangs \in [Shows -> SUBSET Tongues]
  /\ hits \in [Words -> SUBSET Shows] /\ near \in [Words -> SUBSET Shows]
  /\ lists = {}
  /\ lastq = [u \in Users |-> NoText] /\ typed = [u \in Users |-> NoText]
  /\ asking = [h \in Asks |-> NoAsk]
  /\ card = [u \in Users |-> NoCard]
  /\ shelfOps \in {0, MaxShelfOps}

------------------------------------------------------------------------------
(* search().                                                               *)

Said(text, kind) == {n \in DOMAIN text.mods : text.mods[n] \in kind}

\* parse_media keeps the first resolution it meets, and every language.
Resolution(text) ==
  LET said == Said(text, Resolutions)
  IN IF said = {} THEN Any ELSE text.mods[CHOOSE n \in said : \A k \in said : n <= k]
Languages(text) == {text.mods[n] : n \in Said(text, Tongues)}

\* variant_matches and variant_language_ok, which is lenient on missing data.
Fits(f, text) ==
  /\ Resolution(text) \in {Any, label[f].res}
  /\ Languages(text) = {} \/ label[f].lang \in Languages(text) \cup {Any}

FilesOf(t) == {f \in SearchFiles : shelf[f] = t}
Variants(t, text) == {f \in FilesOf(t) : Fits(f, text)}

\* search_title_ids: what is or contains the word; only when there is none, what
\* resembles it.  The languages are those of the row.
Ladder(text) ==
  LET Filtered(ts) == {t \in ts \cap known :
                         Languages(text) = {} \/ rowLangs[t] \cap Languages(text) # {}}
  IN IF Filtered(hits[text.word]) # {} THEN Filtered(hits[text.word])
     ELSE Filtered(near[text.word])

Cached(text) == {e \in lists : e.text = text}
Store(text, ids) == lists' = (lists \ Cached(text)) \cup {[text |-> text, ids |-> ids]}

OnPage(ids, offset) ==
  {t \in ids : Cardinality({k \in ids : k < t}) \in offset..(offset + PageSize - 1)}

\* The titles of the page, without those no file of which fits.
Results(text, ids, offset) == {t \in OnPage(ids, offset) : t \in known /\ Variants(t, text) # {}}

------------------------------------------------------------------------------
(* The cards: build_title, build_results, build_suggestions.               *)

Snapshot(fs) == {[file |-> f, res |-> label[f].res, lang |-> label[f].lang, ep |-> label[f].ep] :
                   f \in fs}

Button(to, title, offset, pick, page, wanted) ==
  [to |-> to, title |-> title, offset |-> offset, pick |-> pick, page |-> page, wanted |-> wanted]
CloseButton == Button("close", Nowhere, 0, NoPick, 0, NoPick)
Turn(offset) == Button("list", Nowhere, offset, NoPick, 0, NoPick)
OpenTitle(t, offset) == Button("title", t, offset, NoPick, 0, NoPick)
Meant(t) == Button("suggestion", t, 0, NoPick, 0, NoPick)

Slip_Chosen(pick, field, value) ==  \* forgets the other filters
  [NoPick EXCEPT ![field] = value]

\* A chip changes one filter and carries the others.
Chosen(pick, field, value) == [pick EXCEPT ![field] = value]

EpisodesOf(shots) == {s.ep : s \in shots} \ {NoEpisode}
Nth(eps, e) == Cardinality({k \in eps : k < e})

\* build_title.  An index past the end means all episodes, but the buttons keep it.
TitleCard(text, t, offset, pick, page, back) ==
  LET all == Variants(t, text)
      eps == EpisodesOf(Snapshot(all))
      tongues == {label[f].lang : f \in all} \ {Any}
      sizes == {label[f].res : f \in all} \ {Any}
      episode == {e \in eps : pick.ep = Nth(eps, e)}
      fit == {f \in all : /\ pick.lang = Any \/ label[f].lang \in {pick.lang, Any}
                          /\ pick.res \in {Any, label[f].res}
                          /\ episode = {} \/ label[f].ep \in episode}
      reset == fit = {}
      now == IF reset THEN NoPick ELSE pick
      means == IF reset \/ episode = {} THEN Any ELSE CHOOSE e \in episode : TRUE
      said == [now EXCEPT !.ep = means]
      listed == IF reset THEN all ELSE fit
      pages == (Cardinality(listed) + VariantsPerPage - 1) \div VariantsPerPage
      screen == IF page < pages THEN page ELSE pages - 1
      Rank(f) == Cardinality({g \in listed : label[g].ep < label[f].ep \/
                                             (label[g].ep = label[f].ep /\ g < f)})
      Chip(p, w, n) == Button("title", t, offset, p, n, w)
  IN [NoCard EXCEPT
        !.is = "title", !.text = text, !.all = Snapshot(all),
        !.shown = Snapshot({f \in listed : Rank(f) \div VariantsPerPage = screen}),
        !.wanted = said,
        !.buttons =
          (IF Cardinality(eps) < 2 THEN {} ELSE
             {Chip(Chosen(now, "ep", Any), [said EXCEPT !.ep = Any], 0)} \cup
             {Chip(Chosen(now, "ep", Nth(eps, e)), [said EXCEPT !.ep = e], 0) : e \in eps})
          \cup
          (IF Cardinality(sizes) < 2 THEN {} ELSE
             {Chip(Chosen(now, "res", r), [said EXCEPT !.res = r], 0) : r \in sizes \cup {Any}})
          \cup
          (IF Cardinality(tongues) < 2 THEN {} ELSE
             {Chip(Chosen(now, "lang", l), [said EXCEPT !.lang = l], 0) : l \in tongues \cup {Any}})
          \cup {Chip(now, said, n) :
                  n \in {k \in 0..(pages - 1) : k + 1 = screen \/ k = screen + 1}}
          \cup (IF back THEN {Turn(offset)} ELSE {})
          \cup {CloseButton}]

\* build_results.  A lone result on a lone page opens at once.
ResultsCard(text, ids, offset) ==
  LET found == Results(text, ids, offset)
      more == offset + PageSize < Cardinality(ids)
  IN IF Cardinality(found) = 1 /\ offset = 0 /\ ~more
     THEN TitleCard(text, CHOOSE t \in found : TRUE, 0, NoPick, 0, FALSE)
     ELSE [NoCard EXCEPT
             !.is = "list", !.text = text,
             !.shown = Snapshot(UNION {Variants(t, text) : t \in found}),
             !.buttons = {OpenTitle(t, offset) : t \in found} \cup {CloseButton}
               \cup (IF offset > 0 THEN {Turn(offset - PageSize)} ELSE {})
               \cup (IF more THEN {Turn(offset + PageSize)} ELSE {})]

------------------------------------------------------------------------------
(* _on_query.                                                              *)

SeaGoto(h, rec) == asking' = [asking EXCEPT ![h] = rec]

\* A search: c is the text without filler, raw the one with it.
Type(h, u, c, raw) ==
  /\ asking[h].pc = "idle"
  /\ SeaGoto(h, [NoAsk EXCEPT !.pc = "ladder", !.by = u, !.text = c,
                              !.raw = IF raw = c.word THEN Any ELSE raw])
  /\ UNCHANGED <<indexVars, lists, lastq, card, typed>>

\* A bare modifier, which does nothing more when there is nothing to refine.
Refine(h, u, m) ==
  /\ asking[h].pc = "idle"
  /\ lastq[u] # NoText /\ Len(lastq[u].mods) < MaxModifiers
  /\ SeaGoto(h, [NoAsk EXCEPT !.pc = "ladder", !.by = u, !.prev = lastq[u], !.mod = m,
                              !.text = [lastq[u] EXCEPT !.mods = Append(@, m)]])
  /\ UNCHANGED <<indexVars, lists, lastq, card, typed>>

\* Nothing found: the untouched text is tried, then suggestions are made.  A modifier
\* on its own has no title to suggest anything for.
Miss(h) ==
  LET a == asking[h]
  IN IF a.raw # Any
     THEN /\ SeaGoto(h, [a EXCEPT !.pc = "ladder", !.raw = Any,
                                  !.text = [a.text EXCEPT !.word = a.raw]])
          /\ UNCHANGED card
     ELSE /\ SeaGoto(h, NoAsk)
          /\ \/ UNCHANGED card
             \/ /\ a.mod = Any
                /\ \E t \in known :
                     card' = [card EXCEPT ![a.by] = [NoCard EXCEPT !.is = "suggestions",
                                                                   !.buttons = {Meant(t), CloseButton}]]

Slip_RunLadder(h) ==  \* caches the empty answer, too
  /\ asking[h].pc = "ladder"
  /\ LET ids == Ladder(asking[h].text)
     IN /\ Store(asking[h].text, ids)
        /\ SeaGoto(h, [asking[h] EXCEPT !.pc = "page", !.ids = ids])
        /\ UNCHANGED card
  /\ UNCHANGED <<indexVars, lastq, typed>>

RunLadder(h) ==
  /\ asking[h].pc = "ladder"
  /\ LET ids == Ladder(asking[h].text)
     IN \/ ids = {} /\ Miss(h) /\ UNCHANGED lists
        \/ /\ ids # {}
           /\ Store(asking[h].text, ids)
           /\ SeaGoto(h, [asking[h] EXCEPT !.pc = "page", !.ids = ids])
           /\ UNCHANGED card
  /\ UNCHANGED <<indexVars, lastq, typed>>

Slip_StoreLast(u, text) ==  \* per chat, not per user
  lastq' = [k \in Users |-> text]

\* store_last_query.
StoreLast(u, text) == lastq' = [lastq EXCEPT ![u] = text]

\* The first page, store_last_query and the reply.
AnswerPage(h) ==
  /\ asking[h].pc = "page"
  /\ LET a == asking[h]
     IN IF Results(a.text, a.ids, 0) = {}
        THEN Miss(h) /\ UNCHANGED <<lastq, typed>>
        ELSE /\ StoreLast(a.by, a.text)
             /\ typed' = [typed EXCEPT ![a.by] = a.text]
             /\ card' = [card EXCEPT ![a.by] =
                  [ResultsCard(a.text, a.ids, 0) EXCEPT
                     !.by = IF a.mod = Any \/ a.late THEN NoText
                            ELSE [prev |-> a.prev, mod |-> a.mod, typed |-> typed[a.by]]]]
             /\ asking' = [k \in Asks |-> IF k = h THEN NoAsk
                             ELSE IF asking[k].by = a.by THEN [asking[k] EXCEPT !.late = TRUE]
                             ELSE asking[k]]
  /\ UNCHANGED <<indexVars, lists>>

------------------------------------------------------------------------------
(* Taps.  What they find gone answers "expired" and leaves the card alone. *)

Redraw(u, new) == card' = [card EXCEPT ![u] = new]

TapList(u, b) ==
  \E e \in Cached(card[u].text) :
    /\ Results(e.text, e.ids, b.offset) # {}
    /\ Redraw(u, ResultsCard(e.text, e.ids, b.offset))
    /\ UNCHANGED lists

TapTitle(u, b) ==
  \E e \in Cached(card[u].text) :
    /\ b.title \in Results(e.text, e.ids, b.offset)
    /\ Redraw(u, [TitleCard(e.text, b.title, b.offset, b.pick, b.page, TRUE) EXCEPT
                    !.wanted = b.wanted,
                    !.moved =
                      /\ card[u].is = "title"
                      /\ EpisodesOf(card[u].all) #
                           EpisodesOf(Snapshot(Variants(b.title, e.text)))])
    /\ UNCHANGED lists

\* A suggestion is searched by its canonical title, which others may bear or contain.
TapSuggestion(u, b) ==
  LET text == [word |-> b.title, mods |-> <<>>]
      ids == Ladder(text)
  IN /\ b.title \in known
     /\ ids # {}
     /\ Store(text, ids)
     /\ IF Results(text, ids, 0) = {} THEN UNCHANGED card
        ELSE Redraw(u, ResultsCard(text, ids, 0))

Tap(u, b) ==
  /\ b \in card[u].buttons
  /\ \/ b.to = "list" /\ TapList(u, b)
     \/ b.to = "title" /\ TapTitle(u, b)
     \/ b.to = "suggestion" /\ TapSuggestion(u, b)
     \/ b.to = "close" /\ Redraw(u, NoCard) /\ UNCHANGED lists
  /\ UNCHANGED <<indexVars, lastq, asking, typed>>

------------------------------------------------------------------------------
(* Everybody else.                                                         *)

\* A file is indexed, or a re-parse reads its name differently; its language is merged
\* into the title's.
Shelve(f, t, l) ==
  /\ shelfOps < MaxShelfOps
  /\ shelf' = [shelf EXCEPT ![f] = t]
  /\ label' = [label EXCEPT ![f] = l]
  /\ known' = known \cup {t}
  /\ rowLangs' = [rowLangs EXCEPT ![t] = (IF t \in known THEN @ ELSE {}) \cup ({l.lang} \ {Any})]
  /\ shelfOps' = shelfOps + 1
  /\ UNCHANGED <<hits, near, lists, lastq, asking, card, typed>>

\* Empty titles are swept.
Sweep ==
  /\ known' = {t \in known : FilesOf(t) # {}}
  /\ UNCHANGED <<shelf, label, rowLangs, hits, near, shelfOps, lists, lastq, asking, card, typed>>

ListExpires(e) ==
  /\ e \in lists
  /\ lists' = lists \ {e}
  /\ UNCHANGED <<indexVars, lastq, asking, card, typed>>

LastQueryExpires(u) ==
  /\ lastq' = [lastq EXCEPT ![u] = NoText]
  /\ UNCHANGED <<indexVars, lists, asking, card, typed>>

SeaNext ==
  \/ \E h \in Asks, u \in Users :
       \/ \E w \in Phrases, raw \in Phrases, mods \in {NoText} \cup {<<m>> : m \in Modifiers} :
            Type(h, u, [word |-> w, mods |-> mods], raw)
       \/ \E m \in Modifiers : Refine(h, u, m)
  \/ \E h \in Asks : RunLadder(h) \/ AnswerPage(h)
  \/ \E u \in Users : (\E b \in card[u].buttons : Tap(u, b)) \/ LastQueryExpires(u)
  \/ \E f \in SearchFiles, t \in Shows, l \in Labels : Shelve(f, t, l)
  \/ Sweep
  \/ \E e \in lists : ListExpires(e)

SeaSpec == SeaInit /\ [][SeaNext]_seaVars

------------------------------------------------------------------------------
(* Properties.                                                             *)

\* A bare modifier narrows the last search this user typed (search.py:_resolve_query):
\* all the files of the card fit that search and the modifier, whatever others search,
\* index or sweep meanwhile, and however the cached lists come and go.  Not so when the
\* search had already named another resolution, which then stays, or a language,
\* to which the new one is added.
NarrowsLast ==
  \A u \in Users : card[u].by # NoText =>
    LET by == card[u].by
        named == Modifiers \cap {by.prev.mods[n] : n \in DOMAIN by.prev.mods}
        again == named \cap (IF by.mod \in Resolutions THEN Resolutions ELSE Tongues) # {}
    IN /\ by.prev = by.typed
       /\ ~again => \A s \in card[u].shown :
            /\ by.mod \in Resolutions => s.res = by.mod
            /\ by.mod \in Tongues => s.lang \in {by.mod, Any}
            /\ Resolution(by.prev) \in {Any, s.res}
            /\ Languages(by.prev) = {} \/ s.lang \in Languages(by.prev) \cup {Any}

\* The files of a title card fit all the filters the tapped button stood for: its own
\* and those that were active, of which none gets lost on the way through pages and
\* chips, unless a filter is shown as lifted because no file fits them all.  When the
\* title's episodes have changed since the button was drawn, whose data names one by
\* its index, the card may show another episode; but it keeps to the resolution and
\* the language, at least where every episode comes in them.
AsLabelled ==
  \A u \in Users : card[u].is = "title" =>
    LET w == card[u].wanted
        Kept(s) == w.res \in {Any, s.res} /\ (w.lang = Any \/ s.lang \in {w.lang, Any})
        Good(s) == Kept(s) /\ w.ep \in {Any, s.ep}
    IN /\ (~card[u].moved /\ \E s \in card[u].all : Good(s)) => \A s \in card[u].shown : Good(s)
       /\ (\A k \in card[u].all : \E s \in card[u].all : s.ep = k.ep /\ Kept(s)) =>
            \A s \in card[u].shown : Kept(s)

==============================================================================
