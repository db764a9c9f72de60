---------------------------- MODULE Library_proofs ----------------------------
(***************************************************************************)
(* Proofs about Search, for any titles, files, phrases, modifiers, users,  *)
(* messages and page sizes, and about Library, which composes it with      *)
(* Catalogue.                                                              *)
(***************************************************************************)
EXTENDS Library, Catalogue_proofs, FiniteSetTheorems, SequenceTheorems, WellFoundedInduction

------------------------------------------------------------------------------
(* Search: the inductive invariant.                                        *)

AskRecords ==
  [pc : {"idle", "ladder", "page"}, by : Users \cup {Any}, text : Texts \cup {NoText},
   raw : Phrases \cup {Any}, prev : Texts \cup {NoText}, mod : Modifiers \cup {Any},
   ids : SUBSET Shows, late : BOOLEAN]

Narrowed(text, m) == [text EXCEPT !.mods = Append(text.mods, m)]

\* A message on its way has a text and somebody who sent it; a refinement narrows the
\* last search its sender typed, and goes on doing so until he is answered something
\* else.
AskHolds(a, last) ==
  a.pc # "idle" =>
    /\ a.by \in Users /\ a.text \in Texts
    /\ a.mod # Any =>
         /\ a.raw = Any /\ a.prev \in Texts
         /\ a.text = Narrowed(a.prev, a.mod)
         /\ ~a.late => a.prev = last

AsksHold ==
  /\ asking \in [Asks -> AskRecords]
  /\ \A h \in Asks : AskHolds(asking[h], typed[asking[h].by])

IndexHolds ==
  /\ shelf \in [SearchFiles -> Shows \cup {Nowhere}]
  /\ label \in [SearchFiles -> Labels]
  /\ known \subseteq Shows
  /\ rowLangs \in [Shows -> SUBSET Tongues]
  /\ hits \in [Words -> SUBSET Shows] /\ near \in [Words -> SUBSET Shows]
  /\ shelfOps \in 0..MaxShelfOps

ListsHold ==
  /\ \A e \in lists : e.text \in Texts /\ e.ids \in (SUBSET Shows) \ {{}}
  /\ \A e, k \in lists : e.text = k.text => e = k

\* The last query on record is the text of the last message that found something.
LastIsTyped ==
  /\ lastq \in [Users -> Texts \cup {NoText}] /\ typed \in [Users -> Texts \cup {NoText}]
  /\ \A u \in Users : lastq[u] # NoText => lastq[u] = typed[u]

Picks == [res : Resolutions \cup {Any}, lang : Tongues \cup {Any}, ep : Nat \cup {Any}]

\* A button means the filters its data name, where an episode is named by its index.
Means(wanted, pick, eps) ==
  /\ wanted.res = pick.res /\ wanted.lang = pick.lang
  /\ \/ wanted.ep \in eps /\ pick.ep = Nth(eps, wanted.ep)
     \/ wanted.ep = Any /\ \A e \in eps : pick.ep # Nth(eps, e)

\* The buttons of a card lead to titles and say what they do.
ButtonsMean(c) ==
  \A b \in c.buttons :
    /\ b.to = "suggestion" => b.title \in Shows
    /\ b.to = "title" =>
         /\ b.pick \in Picks
         /\ IF c.is = "title" THEN Means(b.wanted, b.pick, EpisodesOf(c.all))
            ELSE b.pick = NoPick /\ b.wanted = NoPick

Kept(w, s) == w.res \in {Any, s.res} /\ (w.lang = Any \/ s.lang \in {w.lang, Any})
Good(w, s) == Kept(w, s) /\ w.ep \in {Any, s.ep}

Labelled(c) ==
  c.is = "title" =>
    /\ (~c.moved /\ \E s \in c.all : Good(c.wanted, s)) => \A s \in c.shown : Good(c.wanted, s)
    /\ (\A k \in c.all : \E s \in c.all : s.ep = k.ep /\ Kept(c.wanted, s)) =>
         \A s \in c.shown : Kept(c.wanted, s)

CardIs == {"none", "list", "title", "suggestions"}
CardHolds(c) == c.is \in CardIs /\ ButtonsMean(c) /\ Labelled(c)

CardsHold == DOMAIN card = Users /\ \A u \in Users : CardHolds(card[u])

\* NarrowsLast, of one card.
Narrows(c) ==
  c.by # NoText =>
    LET by == c.by
        named == Modifiers \cap {by.prev.mods[n] : n \in DOMAIN by.prev.mods}
        again == named \cap (IF by.mod \in Resolutions THEN Resolutions ELSE Tongues) # {}
    IN /\ by.prev = by.typed
       /\ ~again => \A s \in c.shown :
            /\ by.mod \in Resolutions => s.res = by.mod
            /\ by.mod \in Tongues => s.lang \in {by.mod, Any}
            /\ Resolution(by.prev) \in {Any, s.res}
            /\ Languages(by.prev) = {} \/ s.lang \in Languages(by.prev) \cup {Any}

SeaIInv == IndexHolds /\ ListsHold /\ LastIsTyped /\ AsksHold /\ CardsHold /\ NarrowsLast

------------------------------------------------------------------------------
(* Episodes, picks and title cards.                                        *)

LEMMA SeaConsts ==
  /\ MaxEpisode \in Nat /\ MaxModifiers \in Nat \ {0} /\ MaxShelfOps \in Nat
  /\ Any \notin Modifiers /\ Any \notin Nat /\ Resolutions \cap Tongues = {}
  /\ Shows \subseteq Nat
  BY SearchAssumption

\* The index of an episode names that episode.
LEMMA NthNames ==
  ASSUME NEW eps \in SUBSET Nat, IsFiniteSet(eps)
  PROVE  /\ \A e \in eps : Nth(eps, e) \in Nat
         /\ \A e, k \in eps : Nth(eps, e) = Nth(eps, k) => e = k
<1> DEFINE Below(e) == {k \in eps : k < e}
<1>1. \A e \in eps : IsFiniteSet(Below(e)) /\ Cardinality(Below(e)) \in Nat
  BY FS_Subset, FS_CardinalityType
<1>2. \A e \in eps : Nth(eps, e) = Cardinality(Below(e))
  BY DEF Nth
<1>3. ASSUME NEW e \in eps, NEW k \in eps, e < k
      PROVE  Nth(eps, e) # Nth(eps, k)
  <2>1. Below(e) \in SUBSET Below(k)
    <3>1. \A j \in eps : j < e => j < k
      BY <1>3
    <3> QED  BY <3>1
  <2>2. e \in Below(k) /\ e \notin Below(e)
    BY <1>3
  <2> HIDE DEF Below
  <2>3. Below(e) # Below(k)
    BY <2>2
  <2>4. Cardinality(Below(e)) # Cardinality(Below(k))
    BY <1>1, <2>1, <2>3, FS_Subset
  <2> QED  BY <1>2, <2>4
<1>4. \A e, k \in eps : e < k \/ k < e \/ e = k
  OBVIOUS
<1>5. \A e \in eps : Nth(eps, e) \in Nat
  BY <1>1, <1>2
<1>6. ASSUME NEW e \in eps, NEW k \in eps, Nth(eps, e) = Nth(eps, k)
      PROVE  e = k
  BY <1>3, <1>4, <1>6
<1> QED  BY <1>5, <1>6

LEMMA NoPickType == NoPick \in Picks /\ NoPick.res = Any /\ NoPick.lang = Any /\ NoPick.ep = Any
  BY DEF NoPick, Picks

\* A chip's data and what it stands for differ from the card's in the same filter.
LEMMA ChosenType ==
  ASSUME NEW pick \in Picks
  PROVE  /\ \A v \in Resolutions \cup {Any} :
              /\ Chosen(pick, "res", v) \in Picks /\ Chosen(pick, "res", v).res = v
              /\ Chosen(pick, "res", v).lang = pick.lang /\ Chosen(pick, "res", v).ep = pick.ep
         /\ \A v \in Tongues \cup {Any} :
              /\ Chosen(pick, "lang", v) \in Picks /\ Chosen(pick, "lang", v).lang = v
              /\ Chosen(pick, "lang", v).res = pick.res /\ Chosen(pick, "lang", v).ep = pick.ep
         /\ \A v \in Nat \cup {Any} :
              /\ Chosen(pick, "ep", v) \in Picks /\ Chosen(pick, "ep", v).ep = v
              /\ Chosen(pick, "ep", v).res = pick.res /\ Chosen(pick, "ep", v).lang = pick.lang
  BY DEF Chosen, Picks

LEMMA SnapshotOf ==
  ASSUME label \in [SearchFiles -> Labels], NEW fs \in SUBSET SearchFiles
  PROVE  /\ \A s \in Snapshot(fs) : \E f \in fs :
              s.res = label[f].res /\ s.lang = label[f].lang /\ s.ep = label[f].ep
         /\ \A gs \in SUBSET fs : Snapshot(gs) \subseteq Snapshot(fs)
         /\ EpisodesOf(Snapshot(fs)) \in SUBSET Nat /\ IsFiniteSet(EpisodesOf(Snapshot(fs)))
<1>1. \A s \in Snapshot(fs) : \E f \in fs :
        s.res = label[f].res /\ s.lang = label[f].lang /\ s.ep = label[f].ep
  BY DEF Snapshot
<1>2. \A gs \in SUBSET fs : Snapshot(gs) \subseteq Snapshot(fs)
  BY DEF Snapshot
<1>3. EpisodesOf(Snapshot(fs)) \in SUBSET (0..MaxEpisode)
  <2>1. \A f \in fs : label[f].ep \in 0..MaxEpisode
    BY DEF Labels
  <2> QED  BY <1>1, <2>1 DEF EpisodesOf
<1>4. IsFiniteSet(0..MaxEpisode)
  BY SeaConsts, FS_Interval
<1>5. IsFiniteSet(EpisodesOf(Snapshot(fs)))
  BY <1>3, <1>4, FS_Subset
<1>6. EpisodesOf(Snapshot(fs)) \in SUBSET Nat
  BY <1>3, SeaConsts
<1> QED  BY <1>1, <1>2, <1>5, <1>6

\* A title card lists files that fit its text, its buttons say what they do, and what
\* it lists fits whatever the pick it was drawn for means, if anything does.
DrawnFor(c, text, t, pick) ==
  /\ c.is = "title" /\ c.by = NoText /\ c.moved = FALSE /\ DOMAIN c = DOMAIN NoCard
  /\ c.all = Snapshot(Variants(t, text)) /\ c.shown \subseteq c.all
  /\ ButtonsMean(c)
  /\ \A w : Means(w, pick, EpisodesOf(c.all)) =>
       ((\E s \in c.all : Good(w, s)) => \A s \in c.shown : Good(w, s))
  /\ \A w : (/\ w.res = pick.res /\ w.lang = pick.lang
             /\ \A k \in c.all : \E s \in c.all : s.ep = k.ep /\ Kept(w, s)) =>
       \A s \in c.shown : Kept(w, s)
  /\ pick = NoPick => \A s : Good(c.wanted, s)

LEMMA TitleCardHolds ==
  ASSUME label \in [SearchFiles -> Labels], NEW text, NEW t \in Shows, NEW offset,
         NEW pick \in Picks, NEW page, NEW back,
         NEW c, c = TitleCard(text, t, offset, pick, page, back)
  PROVE  DrawnFor(c, text, t, pick)
<1> DEFINE all == Variants(t, text)
           eps == EpisodesOf(Snapshot(all))
           tongues == {label[f].lang : f \in all} \ {Any}
           sizes == {label[f].res : f \in all} \ {Any}
           episode == {e \in eps : pick.ep = Nth(eps, e)}
           fit == {f \in all : /\ pick.lang = Any \/ label[f].lang \in {pick.lang, Any}
                               /\ pick.res \in {Any, label[f].res}
                               /\ episode = {} \/ label[f].ep \in episode}
           reset == fit = {}
           now == IF reset THEN NoPick ELSE pick
           means == IF reset \/ episode = {} THEN Any ELSE CHOOSE e \in episode : TRUE
           said == [now EXCEPT !.ep = means]
           listed == IF reset THEN all ELSE fit
           pages == (Cardinality(listed) + VariantsPerPage - 1) \div VariantsPerPage
           screen == IF page < pages THEN page ELSE pages - 1
           Rank(f) == Cardinality({g \in listed : label[g].ep < label[f].ep \/
                                                  (label[g].ep = label[f].ep /\ g < f)})
           shown == {f \in listed : Rank(f) \div VariantsPerPage = screen}
           turns == {k \in 0..(pages - 1) : k + 1 = screen \/ k = screen + 1}
           Chip(p, w, n) == Button("title", t, offset, p, n, w)
           buttons ==
             (IF Cardinality(eps) < 2 THEN {} ELSE
               {Chip(Chosen(now, "ep", Any), [said EXCEPT !.ep = Any], 0)} \cup
               {Chip(Chosen(now, "ep", Nth(eps, e)), [said EXCEPT !.ep = e], 0) : e \in eps})
             \cup
             (IF Cardinality(sizes) < 2 THEN {} ELSE
               {Chip(Chosen(now, "res", r), [said EXCEPT !.res = r], 0) : r \in sizes \cup {Any}})
             \cup
             (IF Cardinality(tongues) < 2 THEN {} ELSE
               {Chip(Chosen(now, "lang", l), [said EXCEPT !.lang = l], 0) : l \in tongues \cup {Any}})
             \cup {Chip(now, said, n) : n \in turns}
             \cup (IF back THEN {Turn(offset)} ELSE {})
             \cup {CloseButton}
<1>1. c = [NoCard EXCEPT !.is = "title", !.text = text, !.all = Snapshot(all),
                         !.shown = Snapshot(shown), !.wanted = said, !.buttons = buttons]
  BY DEF TitleCard
<1> HIDE DEF shown, buttons, said, all
<1>2. /\ c.is = "title" /\ c.by = NoText /\ c.moved = FALSE /\ DOMAIN c = DOMAIN NoCard
      /\ c.all = Snapshot(all) /\ c.shown = Snapshot(shown) /\ c.wanted = said
      /\ c.buttons = buttons
  BY <1>1 DEF NoCard
<1>3. all \in SUBSET SearchFiles
  BY DEF all, Variants, FilesOf
<1>4. eps \in SUBSET Nat /\ IsFiniteSet(eps)
  BY <1>3, SnapshotOf
<1>5. /\ \A e \in eps : Nth(eps, e) \in Nat /\ Nth(eps, e) # Any /\ e # Any
      /\ \A e, k \in eps : Nth(eps, e) = Nth(eps, k) => e = k
  <2> HIDE DEF eps
  <2> QED  BY <1>4, NthNames, SeaConsts
<1> HIDE DEF eps
<1>6. /\ now \in Picks /\ said.res = now.res /\ said.lang = now.lang /\ said.ep = means
      /\ \A v : /\ [said EXCEPT !.res = v].res = v /\ [said EXCEPT !.res = v].lang = now.lang
                /\ [said EXCEPT !.res = v].ep = means
                /\ [said EXCEPT !.lang = v].lang = v /\ [said EXCEPT !.lang = v].res = now.res
                /\ [said EXCEPT !.lang = v].ep = means
                /\ [said EXCEPT !.ep = v].ep = v /\ [said EXCEPT !.ep = v].res = now.res
                /\ [said EXCEPT !.ep = v].lang = now.lang
  <2>1. now \in Picks
    BY NoPickType
  <2> HIDE DEF now, means
  <2> QED  BY <2>1 DEF said, Picks
<1>7. \/ means \in eps /\ now.ep = Nth(eps, means)
      \/ means = Any /\ \A e \in eps : now.ep # Nth(eps, e)
  <2>1. CASE reset
    BY <1>5, <2>1, NoPickType
  <2>2. CASE ~reset /\ episode = {}
    BY <2>2
  <2>3. CASE ~reset /\ episode # {}
    <3>1. means \in episode
      BY <2>3
    <3> QED  BY <2>3, <3>1
  <2> QED  BY <2>1, <2>2, <2>3
<1>8. ButtonsMean(c)
  <2> HIDE DEF now, means, sizes, tongues, turns
  <2>1. ASSUME NEW p \in Picks, NEW w, NEW n, Means(w, p, eps)
        PROVE  LET b == Chip(p, w, n)
               IN /\ b.to = "title" /\ b.title = t /\ b.pick \in Picks
                  /\ Means(b.wanted, b.pick, eps)
    BY <2>1 DEF Button
  <2>2. Means(said, now, eps)
    BY <1>6, <1>7 DEF Means
  <2>3. \A r \in sizes : r \in Resolutions
    BY <1>3 DEF sizes, Labels
  <2>4. \A l \in tongues : l \in Tongues
    BY <1>3 DEF tongues, Labels
  <2>5. Means([said EXCEPT !.ep = Any], Chosen(now, "ep", Any), eps)
    BY <1>5, <1>6, ChosenType DEF Means
  <2>6. \A e \in eps : Means([said EXCEPT !.ep = e], Chosen(now, "ep", Nth(eps, e)), eps)
    BY <1>5, <1>6, ChosenType DEF Means
  <2>7. \A r \in sizes \cup {Any} : Means([said EXCEPT !.res = r], Chosen(now, "res", r), eps)
    BY <1>6, <1>7, <2>3, ChosenType DEF Means
  <2>8. \A l \in tongues \cup {Any} : Means([said EXCEPT !.lang = l], Chosen(now, "lang", l), eps)
    BY <1>6, <1>7, <2>4, ChosenType DEF Means
  <2>9. /\ Chosen(now, "ep", Any) \in Picks
        /\ \A e \in eps : Chosen(now, "ep", Nth(eps, e)) \in Picks
        /\ \A r \in sizes \cup {Any} : Chosen(now, "res", r) \in Picks
        /\ \A l \in tongues \cup {Any} : Chosen(now, "lang", l) \in Picks
    BY <1>5, <1>6, <2>3, <2>4, ChosenType
  <2>10. ASSUME NEW b \in buttons
         PROVE  \/ b.to \in {"list", "close"}
                \/ \E p \in Picks : \E w, n : b = Chip(p, w, n) /\ Means(w, p, eps)
    <3>1. \/ b = Chip(Chosen(now, "ep", Any), [said EXCEPT !.ep = Any], 0)
          \/ \E e \in eps : b = Chip(Chosen(now, "ep", Nth(eps, e)), [said EXCEPT !.ep = e], 0)
          \/ \E r \in sizes \cup {Any} : b = Chip(Chosen(now, "res", r), [said EXCEPT !.res = r], 0)
          \/ \E l \in tongues \cup {Any} : b = Chip(Chosen(now, "lang", l), [said EXCEPT !.lang = l], 0)
          \/ \E n \in turns : b = Chip(now, said, n)
          \/ b = Turn(offset) \/ b = CloseButton
      BY <2>10 DEF buttons
    <3>2. Turn(offset).to = "list" /\ CloseButton.to = "close"
      BY DEF Turn, CloseButton, Button
    <3> HIDE DEF Chip
    <3>3. CASE b = Chip(Chosen(now, "ep", Any), [said EXCEPT !.ep = Any], 0)
      BY <2>5, <2>9, <3>3
    <3>4. ASSUME NEW e \in eps, b = Chip(Chosen(now, "ep", Nth(eps, e)), [said EXCEPT !.ep = e], 0)
          PROVE  \E p \in Picks : \E w, n : b = Chip(p, w, n) /\ Means(w, p, eps)
      BY <2>6, <2>9, <3>4
    <3>5. ASSUME NEW r \in sizes \cup {Any},
                 b = Chip(Chosen(now, "res", r), [said EXCEPT !.res = r], 0)
          PROVE  \E p \in Picks : \E w, n : b = Chip(p, w, n) /\ Means(w, p, eps)
      BY <2>7, <2>9, <3>5
    <3>6. ASSUME NEW l \in tongues \cup {Any},
                 b = Chip(Chosen(now, "lang", l), [said EXCEPT !.lang = l], 0)
          PROVE  \E p \in Picks : \E w, n : b = Chip(p, w, n) /\ Means(w, p, eps)
      BY <2>8, <2>9, <3>6
    <3>7. ASSUME NEW n \in turns, b = Chip(now, said, n)
          PROVE  \E p \in Picks : \E w, k : b = Chip(p, w, k) /\ Means(w, p, eps)
      BY <1>6, <2>2, <3>7
    <3> QED  BY <3>1, <3>2, <3>3, <3>4, <3>5, <3>6, <3>7
  <2>11. ASSUME NEW b \in c.buttons
         PROVE  /\ b.to # "suggestion"
                /\ b.to = "title" => b.pick \in Picks /\ Means(b.wanted, b.pick, eps)
    BY <1>2, <2>1, <2>10, <2>11
  <2> QED  BY <1>2, <2>11 DEF ButtonsMean, eps
<1>9. c.shown \subseteq c.all
  <2>1. shown \in SUBSET all
    BY DEF shown
  <2> QED  BY <1>2, <1>3, <2>1, SnapshotOf
<1>10. ASSUME NEW w, Means(w, pick, eps), NEW s0 \in c.all, Good(w, s0), NEW s \in c.shown
       PROVE  Good(w, s)
  <2>1. ASSUME NEW f \in all
        PROVE  f \in fit <=> Good(w, [file |-> f, res |-> label[f].res, lang |-> label[f].lang,
                                      ep |-> label[f].ep])
    <3>1. episode = {} \/ label[f].ep \in episode <=> w.ep \in {Any, label[f].ep}
      <4>1. CASE w.ep \in eps /\ pick.ep = Nth(eps, w.ep)
        BY <1>5, <1>10, <4>1
      <4>2. CASE w.ep = Any /\ \A e \in eps : pick.ep # Nth(eps, e)
        BY <4>2
      <4> QED  BY <1>10, <4>1, <4>2 DEF Means
    <3> QED  BY <1>10, <3>1 DEF Means, Good, Kept
  <2>2. \A r \in Snapshot(all) : \E f \in all :
          r = [file |-> f, res |-> label[f].res, lang |-> label[f].lang, ep |-> label[f].ep]
    BY DEF Snapshot
  <2>3. fit # {}
    BY <1>2, <1>10, <2>1, <2>2
  <2>4. shown \subseteq fit
    BY <2>3 DEF shown
  <2>5. PICK f \in fit :
          s = [file |-> f, res |-> label[f].res, lang |-> label[f].lang, ep |-> label[f].ep]
    BY <1>2, <2>4 DEF Snapshot
  <2> QED  BY <2>1, <2>5
<1>11. ASSUME pick = NoPick, NEW s
       PROVE  Good(c.wanted, s)
  <2>1. now = NoPick
    BY <1>11
  <2>2. means = Any
    BY <1>5, <1>7, <2>1, NoPickType
  <2> QED  BY <1>2, <1>6, <2>1, <2>2, NoPickType DEF Good, Kept
<1>12. ASSUME NEW w, w.res = pick.res, w.lang = pick.lang,
              \A k \in c.all : \E r \in c.all : r.ep = k.ep /\ Kept(w, r),
              NEW s \in c.shown
       PROVE  Kept(w, s)
  <2>1. \A r \in Snapshot(all) : \E f \in all :
          r = [file |-> f, res |-> label[f].res, lang |-> label[f].lang, ep |-> label[f].ep]
    BY DEF Snapshot
  <2>2. \A f \in all : f \in fit <=>
          /\ Kept(w, [file |-> f, res |-> label[f].res, lang |-> label[f].lang, ep |-> label[f].ep])
          /\ episode = {} \/ label[f].ep \in episode
    BY <1>12 DEF Kept
  <2>3. \E k \in c.all : episode = {} \/ k.ep \in episode
    <3>1. CASE episode = {}
      BY <1>9, <1>12, <3>1
    <3>2. CASE episode # {}
      BY <1>2, <3>2 DEF eps, EpisodesOf
    <3> QED  BY <3>1, <3>2
  <2>4. PICK r \in c.all : (episode = {} \/ r.ep \in episode) /\ Kept(w, r)
    BY <1>12, <2>3
  <2>5. fit # {}
    BY <1>2, <2>1, <2>2, <2>4
  <2>6. shown \subseteq fit
    BY <2>5 DEF shown
  <2>7. PICK f \in fit :
          s = [file |-> f, res |-> label[f].res, lang |-> label[f].lang, ep |-> label[f].ep]
    BY <1>2, <1>12, <2>6 DEF Snapshot
  <2> QED  BY <2>2, <2>7
<1> QED  BY <1>2, <1>8, <1>9, <1>10, <1>11, <1>12 DEF all, eps, DrawnFor

\* What a card lists are files that fit its text.
ListsFitting(c, text) ==
  \A s \in c.shown : \E f \in SearchFiles :
    Fits(f, text) /\ s.res = label[f].res /\ s.lang = label[f].lang

LEMMA VariantsFit ==
  ASSUME label \in [SearchFiles -> Labels], NEW text, NEW fs \in SUBSET SearchFiles,
         \A f \in fs : Fits(f, text), NEW c, c.shown \subseteq Snapshot(fs)
  PROVE  ListsFitting(c, text)
  BY SnapshotOf DEF ListsFitting

\* A drawn list, or the title card it opens at once.
LEMMA ResultsCardHolds ==
  ASSUME label \in [SearchFiles -> Labels], NEW text, NEW ids \in SUBSET Shows, NEW offset,
         NEW c, c = ResultsCard(text, ids, offset)
  PROVE  /\ CardHolds(c) /\ c.by = NoText /\ DOMAIN c = DOMAIN NoCard
         /\ ListsFitting(c, text)
<1> DEFINE found == Results(text, ids, offset)
           more == offset + PageSize < Cardinality(ids)
           buttons == {OpenTitle(t, offset) : t \in found} \cup {CloseButton}
                        \cup (IF offset > 0 THEN {Turn(offset - PageSize)} ELSE {})
                        \cup (IF more THEN {Turn(offset + PageSize)} ELSE {})
           shown == Snapshot(UNION {Variants(t, text) : t \in found})
<1>1. found \in SUBSET Shows
  BY DEF Results, OnPage
<1>2. CASE Cardinality(found) = 1 /\ offset = 0 /\ ~more
  <2> DEFINE t == CHOOSE k \in found : TRUE
  <2>1. t \in Shows
    <3>1. found # {}
      BY <1>2, FS_EmptySet
    <3> HIDE DEF found
    <3> QED  BY <1>1, <3>1
  <2> DEFINE back == FALSE
  <2>2. c = TitleCard(text, t, 0, NoPick, 0, back)
    BY <1>2 DEF ResultsCard
  <2> HIDE DEF t, back, found
  <2>3. DrawnFor(c, text, t, NoPick)
    BY <2>1, <2>2, NoPickType, TitleCardHolds
  <2>4. Variants(t, text) \in SUBSET SearchFiles /\ \A f \in Variants(t, text) : Fits(f, text)
    BY DEF Variants, FilesOf
  <2>5. ListsFitting(c, text)
    BY <2>3, <2>4, VariantsFit DEF DrawnFor
  <2> QED  BY <2>3, <2>5 DEF CardHolds, CardIs, Labelled, DrawnFor, Good
<1>3. CASE ~(Cardinality(found) = 1 /\ offset = 0 /\ ~more)
  <2>1. c = [NoCard EXCEPT !.is = "list", !.text = text, !.shown = shown, !.buttons = buttons]
    BY <1>3 DEF ResultsCard
  <2>2. \A b \in buttons : /\ b.to \in {"title", "list", "close"}
                           /\ b.to = "title" => b.pick = NoPick /\ b.wanted = NoPick
    BY DEF OpenTitle, Turn, CloseButton, Button
  <2> HIDE DEF shown, buttons
  <2>3. /\ c.is = "list" /\ c.by = NoText /\ c.shown = shown /\ c.buttons = buttons
        /\ DOMAIN c = DOMAIN NoCard
    BY <2>1 DEF NoCard
  <2>4. ButtonsMean(c)
    BY <2>2, <2>3, NoPickType DEF ButtonsMean
  <2>5. ListsFitting(c, text)
    <3> DEFINE fs == UNION {Variants(t, text) : t \in found}
    <3>1. fs \in SUBSET SearchFiles /\ \A f \in fs : Fits(f, text)
      BY DEF Variants, FilesOf
    <3>2. c.shown \subseteq Snapshot(fs)
      BY <2>3 DEF shown
    <3> HIDE DEF fs
    <3> QED  BY <3>1, <3>2, VariantsFit
  <2> QED  BY <2>3, <2>4, <2>5 DEF CardHolds, CardIs, Labelled
<1> QED  BY <1>2, <1>3

------------------------------------------------------------------------------
(* Texts.                                                                  *)

\* A set of numbers has a first one.
LEMMA FirstOf ==
  ASSUME NEW S \in SUBSET Nat, S # {}
  PROVE  \E n \in S : \A k \in S : n <= k
<1> DEFINE R == OpToRel(<, Nat)
<1>1. IsWellFoundedOn(R, Nat)
  BY NatLessThanWellFounded
<1>2. \A k, n \in Nat : k < n => <<k, n>> \in R
  BY DEF OpToRel
<1> HIDE DEF R
<1>3. PICK n \in S : \A k \in S : ~(<<k, n>> \in R)
  BY <1>1, WFMin
<1>4. \A k \in S : ~(k < n)
  BY <1>2, <1>3
<1> QED  BY <1>4

LEMMA TextType ==
  ASSUME NEW text \in Texts
  PROVE  /\ text.word \in Phrases \cup Shows
         /\ text.mods \in Seq(Modifiers) /\ Len(text.mods) \in 0..MaxModifiers
         /\ DOMAIN text.mods = 1..Len(text.mods)
         /\ \A word \in Phrases \cup Shows :
              [text EXCEPT !.word = word] \in Texts /\ [text EXCEPT !.word = word].mods = text.mods
<1>1. PICK n \in 0..MaxModifiers : text.mods \in [1..n -> Modifiers]
  BY DEF Texts
<1>2. n \in Nat
  BY SeaConsts
<1>3. text.mods \in Seq(Modifiers) /\ Len(text.mods) = n
  BY <1>1, <1>2
<1>4. \A word \in Phrases \cup Shows :
        [text EXCEPT !.word = word] \in Texts /\ [text EXCEPT !.word = word].mods = text.mods
  BY DEF Texts, Words
<1> QED  BY <1>1, <1>3, <1>4 DEF Texts, Words

\* A typed text, and the same with one modifier more.
LEMMA TypedType ==
  ASSUME NEW word \in Phrases \cup Shows
  PROVE  /\ [word |-> word, mods |-> <<>>] \in Texts
         /\ \A m \in Modifiers : [word |-> word, mods |-> <<m>>] \in Texts
<1>1. 0 \in 0..MaxModifiers /\ 1 \in 0..MaxModifiers
  BY SeaConsts
<1>2. <<>> \in [1..0 -> Modifiers]
  OBVIOUS
<1>3. \A m \in Modifiers : <<m>> \in [1..1 -> Modifiers]
  OBVIOUS
<1> QED  BY <1>1, <1>2, <1>3 DEF Texts, Words

LEMMA NarrowedType ==
  ASSUME NEW text \in Texts, Len(text.mods) < MaxModifiers, NEW m \in Modifiers
  PROVE  Narrowed(text, m) \in Texts
<1> DEFINE mods == Append(text.mods, m)
           n == Len(text.mods) + 1
<1>1. text.mods \in Seq(Modifiers) /\ n \in 0..MaxModifiers
  BY TextType, SeaConsts
<1>2. mods \in Seq(Modifiers) /\ Len(mods) = n
  BY <1>1, AppendProperties
<1>3. mods \in [1..n -> Modifiers]
  BY <1>2, LenProperties
<1> HIDE DEF mods, n
<1>4. mods \in UNION {[1..k -> Modifiers] : k \in 0..MaxModifiers}
  BY <1>1, <1>3
<1>5. [text EXCEPT !.mods = mods] \in Texts
  BY <1>4 DEF Texts
<1> QED  BY <1>5 DEF Narrowed, mods

\* A text narrowed by a modifier of a kind it did not name asks for that modifier, and
\* of the other kind for what it asked before.
LEMMA NarrowedAsks ==
  ASSUME NEW text \in Texts, NEW m \in Modifiers,
         ~(Modifiers \cap {text.mods[n] : n \in DOMAIN text.mods}
             \cap (IF m \in Resolutions THEN Resolutions ELSE Tongues) # {})
  PROVE  /\ m \in Resolutions =>
              /\ Resolution(text) = Any /\ Resolution(Narrowed(text, m)) = m
              /\ Languages(Narrowed(text, m)) = Languages(text)
         /\ m \in Tongues =>
              /\ Languages(text) = {} /\ Languages(Narrowed(text, m)) = {m}
              /\ Resolution(Narrowed(text, m)) = Resolution(text)
<1> DEFINE new == Narrowed(text, m)
           len == Len(text.mods)
<1>1. /\ text.mods \in Seq(Modifiers) /\ len \in Nat /\ DOMAIN text.mods = 1..len
      /\ \A n \in 1..len : text.mods[n] \in Modifiers
  BY TextType, ElementOfSeq
<1>2. /\ new.mods = Append(text.mods, m) /\ DOMAIN new.mods = 1..(len + 1)
      /\ new.mods[len + 1] = m /\ \A n \in 1..len : new.mods[n] = text.mods[n]
  <2>1. new.mods = Append(text.mods, m)
    BY DEF Narrowed, Texts
  <2> QED  BY <1>1, <2>1
<1>3. Resolutions \cap Tongues = {} /\ Modifiers = Resolutions \cup Tongues
  BY SeaConsts DEF Modifiers
<1> HIDE DEF new, len
<1>4. ASSUME NEW kind, m \notin kind
      PROVE  /\ Said(new, kind) = Said(text, kind)
             /\ \A n \in Said(text, kind) : new.mods[n] = text.mods[n]
  BY <1>1, <1>2, <1>4 DEF Said
<1>5. ASSUME NEW kind, m \in kind, \A n \in 1..len : text.mods[n] \notin kind
      PROVE  Said(text, kind) = {} /\ Said(new, kind) = {len + 1}
  BY <1>1, <1>2, <1>5 DEF Said
<1>6. CASE m \in Resolutions
  <2>1. m \notin Tongues /\ \A n \in 1..len : text.mods[n] \notin Resolutions
    BY <1>1, <1>3, <1>6
  <2>2. Said(text, Resolutions) = {} /\ Said(new, Resolutions) = {len + 1}
    BY <1>5, <1>6, <2>1
  <2>3. Resolution(text) = Any
    BY <2>2 DEF Resolution
  <2>4. Resolution(new) = m
    BY <1>1, <1>2, <2>2 DEF Resolution
  <2>5. Languages(new) = Languages(text)
    BY <1>4, <2>1 DEF Languages
  <2> QED  BY <1>3, <1>6, <2>1, <2>3, <2>4, <2>5 DEF new
<1>7. CASE m \in Tongues
  <2>1. m \notin Resolutions /\ \A n \in 1..len : text.mods[n] \notin Tongues
    BY <1>1, <1>3, <1>7
  <2>2. Said(text, Tongues) = {} /\ Said(new, Tongues) = {len + 1}
    BY <1>5, <1>7, <2>1
  <2>3. Languages(text) = {} /\ Languages(new) = {m}
    BY <1>2, <2>2 DEF Languages
  <2>4. Resolution(new) = Resolution(text)
    <3>1. Said(new, Resolutions) = Said(text, Resolutions)
      BY <1>4, <2>1
    <3>2. CASE Said(text, Resolutions) = {}
      BY <3>1, <3>2 DEF Resolution
    <3>3. CASE Said(text, Resolutions) # {}
      <4> DEFINE first == CHOOSE n \in Said(text, Resolutions) :
                            \A k \in Said(text, Resolutions) : n <= k
      <4>1. Resolution(text) = text.mods[first] /\ Resolution(new) = new.mods[first]
        BY <3>1, <3>3 DEF Resolution
      <4>2. first \in Said(text, Resolutions)
        <5>1. \E n \in Said(text, Resolutions) : \A k \in Said(text, Resolutions) : n <= k
          <6>1. Said(text, Resolutions) \in SUBSET Nat
            BY <1>1 DEF Said
          <6> QED  BY <3>3, <6>1, FirstOf
        <5> QED  BY <5>1
      <4> QED  BY <1>4, <2>1, <4>1, <4>2
    <3> QED  BY <3>2, <3>3
  <2> QED  BY <1>3, <1>7, <2>1, <2>3, <2>4 DEF new
<1> QED  BY <1>3, <1>6, <1>7

------------------------------------------------------------------------------
(* Search: the invariant is inductive.                                     *)

\* The parts of the type invariant follow.
LEMMA SeaIInvType == SeaIInv => SeaTypeOK
  BY DEF SeaIInv, IndexHolds, ListsHold, LastIsTyped, AsksHold, AskRecords, CardsHold, CardHolds,
         CardIs, SeaTypeOK

LEMMA NoAskType == NoAsk \in AskRecords /\ NoAsk.pc = "idle"
  BY DEF NoAsk, AskRecords

LEMMA NoCardHolds == CardHolds(NoCard) /\ NoCard.by = NoText
  BY DEF NoCard, CardHolds, CardIs, ButtonsMean, Labelled

LEMMA NarrowsEach == NarrowsLast <=> \A u \in Users : Narrows(card[u])
  BY DEF NarrowsLast, Narrows

LEMMA SeaInitIInv == SeaInit => SeaIInv
<1> SUFFICES ASSUME SeaInit PROVE SeaIInv
  OBVIOUS
<1>1. IndexHolds
  BY SeaConsts DEF SeaInit, IndexHolds
<1>2. ListsHold /\ LastIsTyped
  BY DEF SeaInit, ListsHold, LastIsTyped
<1>3. AsksHold
  BY NoAskType DEF SeaInit, AsksHold, AskHolds
<1>4. CardsHold
  BY NoCardHolds DEF SeaInit, CardsHold
<1>5. NarrowsLast
  BY NoCardHolds, NarrowsEach DEF SeaInit, Narrows
<1> QED  BY <1>1, <1>2, <1>3, <1>4, <1>5 DEF SeaIInv

\* A message moves on.
LEMMA GotoStep ==
  ASSUME AsksHold, NEW h \in Asks, NEW rec \in AskRecords, AskHolds(rec, typed[rec.by]),
         SeaGoto(h, rec), typed' = typed
  PROVE  AsksHold'
<1>1. asking' \in [Asks -> AskRecords]
  BY DEF AsksHold, SeaGoto
<1>2. ASSUME NEW k \in Asks
      PROVE  AskHolds(asking'[k], typed[asking'[k].by])
  BY <1>2 DEF AsksHold, SeaGoto
<1> QED  BY <1>1, <1>2 DEF AsksHold

\* A card is redrawn.
LEMMA CardStep ==
  ASSUME CardsHold, NarrowsLast, NEW u, NEW c, CardHolds(c), Narrows(c),
         card' = [card EXCEPT ![u] = c]
  PROVE  CardsHold' /\ NarrowsLast'
<1>1. DOMAIN card' = Users /\ \A k \in Users : card'[k] = card[k] \/ card'[k] = c
  BY DEF CardsHold
<1>2. CardsHold'
  BY <1>1 DEF CardsHold
<1>3. \A k \in Users : Narrows(card'[k])
  BY <1>1, NarrowsEach
<1>4. NarrowsLast'
  BY <1>3 DEF NarrowsLast, Narrows
<1> QED  BY <1>2, <1>4

\* The cards stay.
LEMMA CardsStay ==
  ASSUME CardsHold, NarrowsLast, card' = card
  PROVE  CardsHold' /\ NarrowsLast'
<1>1. \A u \in Users : Narrows(card'[u])
  BY NarrowsEach
<1>2. NarrowsLast'
  BY <1>1 DEF NarrowsLast, Narrows
<1> QED  BY <1>2 DEF CardsHold

\* A list is cached.
LEMMA StoreStep ==
  ASSUME ListsHold, NEW text \in Texts, NEW ids \in SUBSET Shows, ids # {}, Store(text, ids)
  PROVE  ListsHold'
<1> DEFINE new == [text |-> text, ids |-> ids]
<1>1. \A e \in lists' : e = new \/ (e \in lists /\ e.text # text)
  BY DEF Store, Cached
<1>2. new.text = text /\ new.text \in Texts /\ new.ids \in (SUBSET Shows) \ {{}}
  OBVIOUS
<1> HIDE DEF new
<1>3. \A e \in lists' : e.text \in Texts /\ e.ids \in (SUBSET Shows) \ {{}}
  BY <1>1, <1>2 DEF ListsHold
<1>4. \A e, k \in lists' : e.text = k.text => e = k
  BY <1>1, <1>2 DEF ListsHold
<1> QED  BY <1>3, <1>4 DEF ListsHold

LEMMA LadderShows ==
  ASSUME IndexHolds, NEW text
  PROVE  Ladder(text) \in SUBSET Shows
  BY DEF Ladder, IndexHolds

------------------------------------------------------------------------------
(* Messages.                                                               *)

LEMMA TypeStep ==
  ASSUME SeaIInv, NEW h \in Asks, NEW u \in Users, NEW c \in Texts, NEW raw \in Phrases,
         Type(h, u, c, raw)
  PROVE  SeaIInv'
<1> DEFINE rec == [NoAsk EXCEPT !.pc = "ladder", !.by = u, !.text = c,
                                !.raw = IF raw = c.word THEN Any ELSE raw]
<1>1. rec \in AskRecords /\ rec.by = u /\ rec.text = c /\ rec.mod = Any
  BY DEF NoAsk, AskRecords
<1>2. SeaGoto(h, rec) /\ UNCHANGED <<indexVars, lists, lastq, card, typed>>
  BY DEF Type
<1> HIDE DEF rec
<1>3. AskHolds(rec, typed[rec.by])
  BY <1>1 DEF AskHolds
<1>4. AsksHold'
  BY <1>1, <1>2, <1>3, GotoStep DEF SeaIInv
<1> QED  BY <1>2, <1>4, CardsStay DEF SeaIInv, IndexHolds, ListsHold, LastIsTyped, indexVars

LEMMA RefineStep ==
  ASSUME SeaIInv, NEW h \in Asks, NEW u \in Users, NEW m \in Modifiers, Refine(h, u, m)
  PROVE  SeaIInv'
<1> DEFINE last == lastq[u]
           rec == [NoAsk EXCEPT !.pc = "ladder", !.by = u, !.prev = last, !.mod = m,
                                !.text = Narrowed(last, m)]
<1>1. last \in Texts /\ last = typed[u] /\ Len(last.mods) < MaxModifiers
  BY DEF Refine, SeaIInv, LastIsTyped
<1>2. SeaGoto(h, rec) /\ UNCHANGED <<indexVars, lists, lastq, card, typed>>
  BY DEF Refine, Narrowed
<1>3. Narrowed(last, m) \in Texts
  BY <1>1, NarrowedType
<1> HIDE DEF last
<1>4. /\ rec \in AskRecords /\ rec.by = u /\ rec.text = Narrowed(last, m) /\ rec.mod = m
      /\ rec.raw = Any /\ rec.prev = last
  BY <1>1, <1>3 DEF NoAsk, AskRecords
<1> HIDE DEF rec
<1>5. AskHolds(rec, typed[rec.by])
  BY <1>1, <1>3, <1>4 DEF AskHolds
<1>6. AsksHold'
  BY <1>2, <1>4, <1>5, GotoStep DEF SeaIInv
<1> QED  BY <1>2, <1>6, CardsStay DEF SeaIInv, IndexHolds, ListsHold, LastIsTyped, indexVars

\* Nothing found: another attempt, or suggestions.
LEMMA MissStep ==
  ASSUME SeaIInv, NEW h \in Asks, asking[h].pc # "idle", Miss(h), typed' = typed
  PROVE  AsksHold' /\ CardsHold' /\ NarrowsLast'
<1> DEFINE a == asking[h]
<1>1. a \in AskRecords /\ AskHolds(a, typed[a.by]) /\ a.pc # "idle"
  BY DEF SeaIInv, AsksHold
<1>2. a.by \in Users /\ a.text \in Texts /\ (a.mod # Any => a.raw = Any)
  BY <1>1 DEF AskHolds
<1>3. CASE a.raw # Any
  <2> DEFINE text == [a.text EXCEPT !.word = a.raw]
             rec == [a EXCEPT !.pc = "ladder", !.raw = Any, !.text = text]
  <2>1. SeaGoto(h, rec) /\ card' = card
    BY <1>3 DEF Miss
  <2>2. a.raw \in Phrases
    BY <1>1, <1>3 DEF AskRecords
  <2>3. text \in Texts
    BY <1>2, <2>2, TextType
  <2> HIDE DEF text, a
  <2>4. rec \in AskRecords /\ rec.by = a.by /\ rec.text = text /\ rec.mod = a.mod
    BY <1>1, <2>3 DEF AskRecords
  <2> HIDE DEF rec
  <2>5. AskHolds(rec, typed[rec.by])
    BY <1>2, <1>3, <2>3, <2>4 DEF AskHolds
  <2>6. AsksHold'
    BY <2>1, <2>4, <2>5, GotoStep DEF SeaIInv
  <2> QED  BY <2>1, <2>6, CardsStay DEF SeaIInv
<1>4. CASE a.raw = Any
  <2>1. AsksHold'
    <3>1. SeaGoto(h, NoAsk)
      BY <1>4 DEF Miss
    <3>2. NoAsk \in AskRecords /\ AskHolds(NoAsk, typed[NoAsk.by])
      BY NoAskType DEF AskHolds
    <3> QED  BY <3>1, <3>2, GotoStep DEF SeaIInv
  <2>2. CASE card' = card
    BY <2>1, <2>2, CardsStay DEF SeaIInv
  <2>3. CASE card' # card
    <3>1. PICK t \in known :
            card' = [card EXCEPT ![a.by] = [NoCard EXCEPT !.is = "suggestions",
                                                          !.buttons = {Meant(t), CloseButton}]]
      BY <1>4, <2>3 DEF Miss
    <3> DEFINE c == [NoCard EXCEPT !.is = "suggestions", !.buttons = {Meant(t), CloseButton}]
    <3>2. /\ c.is = "suggestions" /\ c.by = NoText /\ c.buttons = {Meant(t), CloseButton}
      BY DEF NoCard
    <3>3. /\ Meant(t).to = "suggestion" /\ Meant(t).title = t /\ CloseButton.to = "close"
      BY DEF Meant, CloseButton, Button
    <3>4. t \in Shows
      BY DEF SeaIInv, IndexHolds
    <3>5. card' = [card EXCEPT ![a.by] = c]
      BY <3>1
    <3> HIDE DEF c, a
    <3>6. CardHolds(c) /\ Narrows(c)
      BY <3>2, <3>3, <3>4 DEF CardHolds, CardIs, ButtonsMean, Labelled, Narrows
    <3>7. CardsHold' /\ NarrowsLast'
      BY <3>5, <3>6, CardStep DEF SeaIInv
    <3> QED  BY <2>1, <3>7
  <2> QED  BY <2>2, <2>3
<1> QED  BY <1>3, <1>4

LEMMA RunLadderStep ==
  ASSUME SeaIInv, NEW h \in Asks, RunLadder(h)
  PROVE  SeaIInv'
<1> DEFINE a == asking[h]
           ids == Ladder(a.text)
<1>1. /\ a.pc = "ladder" /\ a \in AskRecords /\ AskHolds(a, typed[a.by])
      /\ UNCHANGED <<indexVars, lastq, typed>>
  BY DEF RunLadder, SeaIInv, AsksHold
<1>2. IndexHolds' /\ LastIsTyped'
  BY <1>1 DEF SeaIInv, IndexHolds, LastIsTyped, indexVars
<1>3. CASE Miss(h) /\ lists' = lists
  <2>1. AsksHold' /\ CardsHold' /\ NarrowsLast'
    BY <1>1, <1>3, MissStep
  <2> QED  BY <1>2, <1>3, <2>1 DEF SeaIInv, ListsHold
<1>4. CASE ~(Miss(h) /\ lists' = lists)
  <2> DEFINE rec == [a EXCEPT !.pc = "page", !.ids = ids]
  <2>1. ids # {} /\ Store(a.text, ids) /\ SeaGoto(h, rec) /\ card' = card
    BY <1>4 DEF RunLadder
  <2>2. ids \in SUBSET Shows
    BY LadderShows DEF SeaIInv
  <2> HIDE DEF ids
  <2>3. ListsHold'
    BY <1>1, <2>1, <2>2, StoreStep DEF SeaIInv, AskHolds
  <2> HIDE DEF a
  <2>4. rec \in AskRecords /\ rec.by = a.by /\ rec.text = a.text /\ rec.mod = a.mod
        /\ rec.raw = a.raw /\ rec.prev = a.prev /\ rec.late = a.late
    BY <1>1, <2>2 DEF AskRecords
  <2> HIDE DEF rec
  <2>5. AskHolds(rec, typed[rec.by])
    BY <1>1, <2>4 DEF AskHolds
  <2>6. AsksHold'
    BY <1>1, <2>1, <2>4, <2>5, GotoStep DEF SeaIInv
  <2> QED  BY <1>2, <2>1, <2>3, <2>6, CardsStay DEF SeaIInv
<1> QED  BY <1>3, <1>4

\* The card that answers a refinement keeps to the search it narrows.
LEMMA AnswerNarrows ==
  ASSUME NEW prev \in Texts, NEW mod \in Modifiers, NEW c, c.by.prev = prev, c.by.mod = mod,
         c.by.typed = prev, ListsFitting(c, Narrowed(prev, mod))
  PROVE  Narrows(c)
<1> SUFFICES
      ASSUME ~(Modifiers \cap {prev.mods[n] : n \in DOMAIN prev.mods}
                 \cap (IF mod \in Resolutions THEN Resolutions ELSE Tongues) # {}),
             NEW s \in c.shown
      PROVE  /\ mod \in Resolutions => s.res = mod
             /\ mod \in Tongues => s.lang \in {mod, Any}
             /\ Resolution(prev) \in {Any, s.res}
             /\ Languages(prev) = {} \/ s.lang \in Languages(prev) \cup {Any}
  BY DEF Narrows
<1> DEFINE new == Narrowed(prev, mod)
<1>1. /\ Resolution(new) \in {Any, s.res}
      /\ Languages(new) = {} \/ s.lang \in Languages(new) \cup {Any}
  BY DEF ListsFitting, Fits
<1>2. mod \in Resolutions \/ mod \in Tongues
  BY DEF Modifiers
<1>3. Any \notin Modifiers
  BY SeaConsts
<1>4. /\ mod \in Resolutions =>
           Resolution(prev) = Any /\ Resolution(new) = mod /\ Languages(new) = Languages(prev)
      /\ mod \in Tongues =>
           Languages(prev) = {} /\ Languages(new) = {mod} /\ Resolution(new) = Resolution(prev)
  BY NarrowedAsks
<1> HIDE DEF new
<1>5. Resolutions \cap Tongues = {}
  BY SeaConsts
<1>6. CASE mod \in Resolutions
  BY <1>1, <1>3, <1>4, <1>5, <1>6
<1>7. CASE mod \in Tongues
  BY <1>1, <1>3, <1>4, <1>5, <1>7
<1> QED  BY <1>2, <1>6, <1>7

LEMMA AnswerPageStep ==
  ASSUME SeaIInv, NEW h \in Asks, AnswerPage(h)
  PROVE  SeaIInv'
<1> DEFINE a == asking[h]
           u == a.by
<1>1. /\ a.pc = "page" /\ a \in AskRecords /\ AskHolds(a, typed[u])
      /\ UNCHANGED <<indexVars, lists>>
  BY DEF AnswerPage, SeaIInv, AsksHold
<1>2. IndexHolds' /\ ListsHold'
  BY <1>1 DEF SeaIInv, IndexHolds, ListsHold, indexVars
<1>3. /\ u \in Users /\ a.text \in Texts /\ a.ids \in SUBSET Shows
      /\ a.mod # Any => /\ a.mod \in Modifiers /\ a.prev \in Texts
                        /\ a.text = Narrowed(a.prev, a.mod)
                        /\ ~a.late => a.prev = typed[u]
  <2> HIDE DEF a
  <2> QED  BY <1>1 DEF AskHolds, AskRecords
<1>4. CASE Results(a.text, a.ids, 0) = {}
  <2>1. Miss(h) /\ UNCHANGED <<lastq, typed>>
    BY <1>4 DEF AnswerPage
  <2>2. AsksHold' /\ CardsHold' /\ NarrowsLast'
    BY <1>1, <2>1, MissStep
  <2>3. LastIsTyped'
    BY <2>1 DEF SeaIInv, LastIsTyped
  <2> QED  BY <1>2, <2>2, <2>3 DEF SeaIInv
<1>5. CASE Results(a.text, a.ids, 0) # {}
  <2> DEFINE drawn == ResultsCard(a.text, a.ids, 0)
             by == IF a.mod = Any \/ a.late THEN NoText
                   ELSE [prev |-> a.prev, mod |-> a.mod, typed |-> typed[u]]
             c == [drawn EXCEPT !.by = by]
  <2>1. /\ lastq' = [lastq EXCEPT ![u] = a.text] /\ typed' = [typed EXCEPT ![u] = a.text]
        /\ card' = [card EXCEPT ![u] = c]
        /\ asking' = [k \in Asks |-> IF k = h THEN NoAsk
                         ELSE IF asking[k].by = u THEN [asking[k] EXCEPT !.late = TRUE]
                         ELSE asking[k]]
    BY <1>5 DEF AnswerPage, StoreLast
  <2>2. LastIsTyped'
    BY <1>3, <2>1 DEF SeaIInv, LastIsTyped
  <2>3. ASSUME NEW k \in Asks
        PROVE  asking'[k] \in AskRecords /\ AskHolds(asking'[k], typed'[asking'[k].by])
    <3>1. asking[k] \in AskRecords /\ AskHolds(asking[k], typed[asking[k].by])
      BY DEF SeaIInv, AsksHold
    <3>2. CASE k = h
      BY <2>1, <3>2, NoAskType DEF AskHolds
    <3>3. CASE k # h /\ asking[k].by = u
      <4> DEFINE b == asking[k]
                 rec == [b EXCEPT !.late = TRUE]
      <4>1. asking'[k] = rec
        BY <2>1, <3>3
      <4> HIDE DEF b
      <4>2. /\ rec \in AskRecords /\ rec.late = TRUE /\ rec.pc = b.pc /\ rec.by = b.by
            /\ rec.text = b.text /\ rec.raw = b.raw /\ rec.prev = b.prev /\ rec.mod = b.mod
        BY <3>1 DEF AskRecords, b
      <4>3. AskHolds(b, typed[b.by])
        BY <3>1 DEF b
      <4> HIDE DEF rec
      <4> QED  BY <4>1, <4>2, <4>3 DEF AskHolds
    <3>4. CASE k # h /\ asking[k].by # u
      <4>1. asking'[k] = asking[k]
        BY <2>1, <3>4
      <4>2. asking[k].pc # "idle" => typed'[asking[k].by] = typed[asking[k].by]
        BY <2>1, <3>1, <3>4 DEF AskHolds, SeaIInv, LastIsTyped
      <4> QED  BY <3>1, <4>1, <4>2 DEF AskHolds
    <3> QED  BY <3>2, <3>3, <3>4
  <2>4. AsksHold'
    BY <2>1, <2>3 DEF AsksHold
  <2>5. /\ CardHolds(drawn) /\ drawn.by = NoText /\ DOMAIN drawn = DOMAIN NoCard
        /\ ListsFitting(drawn, a.text)
    <3> HIDE DEF a
    <3> QED  BY <1>3, ResultsCardHolds DEF SeaIInv, IndexHolds
  <2> HIDE DEF drawn, by, a
  <2>6. /\ c.is = drawn.is /\ c.by = by /\ c.shown = drawn.shown /\ c.buttons = drawn.buttons
        /\ c.all = drawn.all /\ c.wanted = drawn.wanted /\ c.moved = drawn.moved
    BY <2>5 DEF NoCard
  <2> HIDE DEF c
  <2>7. CardHolds(c) /\ ListsFitting(c, a.text)
    BY <2>5, <2>6 DEF CardHolds, ButtonsMean, Labelled, ListsFitting
  <2>8. Narrows(c)
    <3>1. CASE by = NoText
      BY <2>6, <3>1 DEF Narrows
    <3>2. CASE by # NoText
      <4>1. a.mod # Any /\ ~a.late
        BY <3>2 DEF by
      <4>2. by.prev = a.prev /\ by.mod = a.mod /\ by.typed = a.prev
        BY <1>3, <4>1 DEF by
      <4> QED  BY <1>3, <2>6, <2>7, <4>1, <4>2, AnswerNarrows
    <3> QED  BY <3>1, <3>2
  <2>9. CardsHold' /\ NarrowsLast'
    BY <2>1, <2>7, <2>8, CardStep DEF SeaIInv
  <2> QED  BY <1>2, <2>2, <2>4, <2>9 DEF SeaIInv
<1> QED  BY <1>4, <1>5

------------------------------------------------------------------------------
(* Taps.                                                                   *)

LEMMA TapTitleStep ==
  ASSUME SeaIInv, NEW u \in Users, NEW b \in card[u].buttons, b.to = "title", TapTitle(u, b)
  PROVE  CardsHold' /\ NarrowsLast'
<1> DEFINE old == card[u]
<1>1. PICK e \in Cached(old.text) :
        /\ b.title \in Results(e.text, e.ids, b.offset)
        /\ Redraw(u, [TitleCard(e.text, b.title, b.offset, b.pick, b.page, TRUE) EXCEPT
                        !.wanted = b.wanted,
                        !.moved =
                          /\ old.is = "title"
                          /\ EpisodesOf(old.all) #
                               EpisodesOf(Snapshot(Variants(b.title, e.text)))])
  BY DEF TapTitle
<1> DEFINE back == TRUE
           drawn == TitleCard(e.text, b.title, b.offset, b.pick, b.page, back)
           moved == /\ old.is = "title"
                    /\ EpisodesOf(old.all) # EpisodesOf(Snapshot(Variants(b.title, e.text)))
           c == [drawn EXCEPT !.wanted = b.wanted, !.moved = moved]
<1>2. card' = [card EXCEPT ![u] = c]
  BY <1>1 DEF Redraw
<1>3. b.title \in Shows
  BY <1>1 DEF Results, SeaIInv, IndexHolds
<1>4. /\ b.pick \in Picks
      /\ IF old.is = "title" THEN Means(b.wanted, b.pick, EpisodesOf(old.all))
         ELSE b.pick = NoPick /\ b.wanted = NoPick
  BY DEF SeaIInv, CardsHold, CardHolds, ButtonsMean
<1>5. DrawnFor(drawn, e.text, b.title, b.pick)
  <2> HIDE DEF back
  <2> QED  BY <1>3, <1>4, TitleCardHolds DEF SeaIInv, IndexHolds
<1> HIDE DEF drawn, moved, old
<1>6. /\ c.is = drawn.is /\ c.by = drawn.by /\ c.shown = drawn.shown /\ c.buttons = drawn.buttons
      /\ c.all = drawn.all /\ c.wanted = b.wanted /\ c.moved = moved
  BY <1>5 DEF DrawnFor, NoCard
<1> HIDE DEF c
<1>7. ButtonsMean(c)
  BY <1>5, <1>6 DEF DrawnFor, ButtonsMean
<1>8. Labelled(c)
  <2>1. b.wanted.res = b.pick.res /\ b.wanted.lang = b.pick.lang
    BY <1>4 DEF Means
  <2>2. (\A k \in c.all : \E s \in c.all : s.ep = k.ep /\ Kept(c.wanted, s)) =>
          \A s \in c.shown : Kept(c.wanted, s)
    BY <1>5, <1>6, <2>1 DEF DrawnFor
  <2>3. ASSUME ~moved, NEW s0 \in c.all, Good(c.wanted, s0), NEW s \in c.shown
        PROVE  Good(c.wanted, s)
    <3>1. CASE old.is = "title"
      <4>1. Means(b.wanted, b.pick, EpisodesOf(drawn.all))
        BY <1>4, <1>5, <2>3, <3>1 DEF moved, DrawnFor
      <4> QED  BY <1>5, <1>6, <2>3, <4>1 DEF DrawnFor
    <3>2. CASE old.is # "title"
      <4>1. b.wanted = NoPick
        BY <1>4, <3>2
      <4> QED  BY <1>6, <4>1, NoPickType DEF Good, Kept
    <3> QED  BY <3>1, <3>2
  <2> QED  BY <1>6, <2>2, <2>3 DEF Labelled
<1>9. CardHolds(c) /\ Narrows(c)
  BY <1>5, <1>6, <1>7, <1>8 DEF CardHolds, CardIs, DrawnFor, Narrows
<1> QED  BY <1>2, <1>9, CardStep DEF SeaIInv

\* A page of results, on a tap.
LEMMA RedrawResults ==
  ASSUME SeaIInv, NEW u, NEW text, NEW ids \in SUBSET Shows, NEW offset,
         Redraw(u, ResultsCard(text, ids, offset))
  PROVE  CardsHold' /\ NarrowsLast'
<1> DEFINE c == ResultsCard(text, ids, offset)
<1>1. CardHolds(c) /\ c.by = NoText
  BY ResultsCardHolds DEF SeaIInv, IndexHolds
<1>2. card' = [card EXCEPT ![u] = c]
  BY DEF Redraw
<1> HIDE DEF c
<1>3. Narrows(c)
  BY <1>1 DEF Narrows
<1> QED  BY <1>1, <1>2, <1>3, CardStep DEF SeaIInv

LEMMA TapSuggestionStep ==
  ASSUME SeaIInv, NEW u \in Users, NEW b \in card[u].buttons, b.to = "suggestion",
         TapSuggestion(u, b)
  PROVE  ListsHold' /\ CardsHold' /\ NarrowsLast'
<1> DEFINE text == [word |-> b.title, mods |-> <<>>]
           ids == Ladder(text)
<1>1. /\ ids # {} /\ Store(text, ids)
      /\ IF Results(text, ids, 0) = {} THEN UNCHANGED card ELSE Redraw(u, ResultsCard(text, ids, 0))
  BY DEF TapSuggestion
<1>2. b.title \in Shows
  BY DEF SeaIInv, CardsHold, CardHolds, ButtonsMean
<1>3. text \in Texts
  BY <1>2, TypedType
<1> HIDE DEF text
<1>4. ids \in SUBSET Shows
  BY LadderShows DEF SeaIInv
<1> HIDE DEF ids
<1>5. ListsHold'
  BY <1>1, <1>3, <1>4, StoreStep DEF SeaIInv
<1>6. CASE card' = card
  BY <1>5, <1>6, CardsStay DEF SeaIInv
<1>7. CASE Redraw(u, ResultsCard(text, ids, 0))
  BY <1>4, <1>5, <1>7, RedrawResults
<1> QED  BY <1>1, <1>6, <1>7

LEMMA TapStep ==
  ASSUME SeaIInv, NEW u \in Users, NEW b \in card[u].buttons, Tap(u, b)
  PROVE  SeaIInv'
<1>1. UNCHANGED <<indexVars, lastq, asking, typed>>
  BY DEF Tap
<1>2. IndexHolds' /\ LastIsTyped' /\ AsksHold'
  BY <1>1 DEF SeaIInv, IndexHolds, LastIsTyped, AsksHold, indexVars
<1>3. CASE b.to = "list" /\ TapList(u, b)
  <2>1. PICK e \in lists : Redraw(u, ResultsCard(e.text, e.ids, b.offset))
    BY <1>3 DEF TapList, Cached
  <2>2. e.ids \in SUBSET Shows
    BY DEF SeaIInv, ListsHold
  <2>3. CardsHold' /\ NarrowsLast'
    BY <2>1, <2>2, RedrawResults
  <2> QED  BY <1>2, <1>3, <2>3 DEF SeaIInv, ListsHold, TapList
<1>4. CASE b.to = "title" /\ TapTitle(u, b)
  <2>1. CardsHold' /\ NarrowsLast'
    BY <1>4, TapTitleStep
  <2> QED  BY <1>2, <1>4, <2>1 DEF SeaIInv, ListsHold, TapTitle
<1>5. CASE b.to = "suggestion" /\ TapSuggestion(u, b)
  BY <1>2, <1>5, TapSuggestionStep DEF SeaIInv
<1>6. CASE b.to = "close" /\ Redraw(u, NoCard) /\ UNCHANGED lists
  <2>1. CardsHold' /\ NarrowsLast'
    BY <1>6, NoCardHolds, CardStep DEF Redraw, Narrows, SeaIInv
  <2> QED  BY <1>2, <1>6, <2>1 DEF SeaIInv, ListsHold
<1> QED  BY <1>3, <1>4, <1>5, <1>6 DEF Tap

------------------------------------------------------------------------------
(* Everybody else, and the whole of Search.                                *)

LEMMA ShelveStep ==
  ASSUME SeaIInv, NEW f \in SearchFiles, NEW t \in Shows, NEW l \in Labels, Shelve(f, t, l)
  PROVE  SeaIInv'
<1>1. rowLangs' \in [Shows -> SUBSET Tongues]
  <2> DEFINE langs == (IF t \in known THEN rowLangs[t] ELSE {}) \cup ({l.lang} \ {Any})
  <2>1. rowLangs' = [rowLangs EXCEPT ![t] = langs]
    BY DEF Shelve, SeaIInv, IndexHolds
  <2>2. langs \in SUBSET Tongues
    BY DEF SeaIInv, IndexHolds, Labels
  <2> QED  BY <2>1, <2>2 DEF SeaIInv, IndexHolds
<1>2. IndexHolds'
  BY <1>1, SeaConsts DEF SeaIInv, IndexHolds, Shelve
<1> QED  BY <1>2, CardsStay DEF Shelve, SeaIInv, ListsHold, LastIsTyped, AsksHold

LEMMA SweepStep ==
  ASSUME SeaIInv, Sweep
  PROVE  SeaIInv'
<1>1. IndexHolds'
  BY DEF SeaIInv, IndexHolds, Sweep
<1> QED  BY <1>1, CardsStay DEF Sweep, SeaIInv, ListsHold, LastIsTyped, AsksHold

LEMMA ListExpiresStep ==
  ASSUME SeaIInv, NEW e, ListExpires(e)
  PROVE  SeaIInv'
<1>1. ListsHold'
  BY DEF SeaIInv, ListsHold, ListExpires
<1> QED  BY <1>1, CardsStay DEF ListExpires, SeaIInv, IndexHolds, LastIsTyped, AsksHold, indexVars

LEMMA LastQueryExpiresStep ==
  ASSUME SeaIInv, NEW u \in Users, LastQueryExpires(u)
  PROVE  SeaIInv'
<1>1. LastIsTyped'
  BY DEF SeaIInv, LastIsTyped, LastQueryExpires
<1> QED  BY <1>1, CardsStay DEF LastQueryExpires, SeaIInv, IndexHolds, ListsHold, AsksHold, indexVars

LEMMA SeaNextIInv == SeaIInv /\ [SeaNext]_seaVars => SeaIInv'
<1> SUFFICES ASSUME SeaIInv, [SeaNext]_seaVars PROVE SeaIInv'
  OBVIOUS
<1>1. ASSUME NEW h \in Asks, NEW u \in Users, NEW w \in Phrases, NEW raw \in Phrases,
             NEW mods \in {NoText} \cup {<<m>> : m \in Modifiers},
             Type(h, u, [word |-> w, mods |-> mods], raw)
      PROVE  SeaIInv'
  <2> DEFINE c == [word |-> w, mods |-> mods]
  <2>1. c \in Texts
    BY TypedType DEF NoText
  <2> HIDE DEF c
  <2>2. Type(h, u, c, raw)
    BY <1>1 DEF c
  <2> QED  BY <2>1, <2>2, TypeStep
<1>2. ASSUME UNCHANGED seaVars
      PROVE  SeaIInv'
  BY <1>2, CardsStay DEF seaVars, SeaIInv, IndexHolds, ListsHold, LastIsTyped, AsksHold
<1> QED  BY <1>1, <1>2, RefineStep, RunLadderStep, AnswerPageStep, TapStep, ShelveStep, SweepStep,
            ListExpiresStep, LastQueryExpiresStep DEF SeaNext

THEOREM SeaInductive == SeaSpec => []SeaIInv
<1> QED  BY SeaInitIInv, SeaNextIInv, PTL DEF SeaSpec

\* Lists, last queries, messages and cards keep their types, and a text has one list.
THEOREM SeaTypeCorrect == SeaSpec => []SeaTypeOK
<1> QED  BY SeaIInvType, SeaInductive, PTL

\* A bare modifier narrows the last search its user typed, and the answer keeps to
\* both, whatever is searched, indexed, swept or expires meanwhile.
THEOREM NarrowsLastCorrect == SeaSpec => []NarrowsLast
<1>1. SeaIInv => NarrowsLast
  BY DEF SeaIInv
<1> QED  BY <1>1, SeaInductive, PTL

\* A title card shows what the tapped button said, through any number of pages, chips
\* and changes of the index.
THEOREM AsLabelledCorrect == SeaSpec => []AsLabelled
<1>1. SeaIInv => AsLabelled
  BY DEF SeaIInv, CardsHold, CardHolds, Labelled, Good, Kept, AsLabelled
<1> QED  BY <1>1, SeaInductive, PTL

------------------------------------------------------------------------------
(* Library: each part of it is one of its own behaviours.                  *)

LEMMA LibraryStep ==
  ASSUME [Next]_vars
  PROVE  [CatNext]_catVars /\ [SeaNext]_seaVars
  BY DEF Next, CatMoves, SeaMoves, vars

\* The instances of the library restrict catalogue and search, and add nothing: every
\* behaviour of the composition is one of each.
THEOREM LibraryImplementsParts == Spec => CatSpec /\ SeaSpec
<1>1. Init => CatInit /\ SeaInit
  BY DEF Init
<1>2. [Next]_vars => [CatNext]_catVars /\ [SeaNext]_seaVars
  BY LibraryStep
<1> QED  BY <1>1, <1>2, PTL DEF Spec, CatSpec, SeaSpec

\* Everything the library keeps has its type.
THEOREM LibraryTypeCorrect == Spec => []TypeOK
<1>1. CatTypeOK /\ SeaTypeOK => TypeOK
  BY DEF TypeOK
<1> QED  BY <1>1, LibraryImplementsParts, CatTypeCorrect, SeaTypeCorrect, PTL

\* All that catalogue and search promise, of the composition as a whole: where files
\* are put, what their titles say of them, and what a user is shown.
THEOREM LibrarySafe ==
  Spec => [](RightTitle /\ LanguagesCover /\ NarrowsLast /\ AsLabelled) /\ SweepSpares
  BY LibraryImplementsParts, RightTitleCorrect, LanguagesCoverCorrect, NarrowsLastCorrect,
     AsLabelledCorrect, SweepSparesCorrect, PTL

==============================================================================
