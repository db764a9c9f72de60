---------------------------- MODULE Expiry_proofs ----------------------------
(***************************************************************************)
(* Proofs about Expiry, for any messages, users, handlers, lifetimes,      *)
(* batches and number of faults.                                           *)
(***************************************************************************)
EXTENDS Expiry, TLAPS

------------------------------------------------------------------------------
(* The inductive invariant.                                                *)

\* What a handler holds between its awaits: a message that is out, and whose record
\* of who caused it is its own.
HandHolds ==
  \A h \in Hands :
    /\ hand[h].pc \in {"notice", "schedule", "own"} =>
         /\ hand[h].m \in Messages /\ msg[hand[h].m] # "unsent"
         /\ hand[h].m \in Cards => opened[hand[h].m].by = hand[h].by
    /\ hand[h].pc = "notice" => hand[h].m \in Files
    /\ hand[h].pc = "own" => hand[h].m \in Cards
    /\ hand[h].pc = "drop" => hand[h].old \in Cards
    /\ hand[h].old \in Cards => msg[hand[h].old] # "unsent" /\ hand[h].pc # "idle"

\* Time passes after a message went out, an entry is not due before its time, and
\* only what went out is left behind or undeletable.
Timely ==
  \A m \in Messages :
    /\ msg[m] # "unsent" => opened[m].at <= expNow
    /\ due[m] # NoScore => msg[m] # "unsent" /\ due[m] >= opened[m].at + TTL(m)
    /\ m \in left \cup stuck => msg[m] # "unsent"

\* What the sweeper holds is over its time; what it has dealt with is gone, or is
\* undeletable and left.
SweepHolds ==
  /\ \A m \in sweep.fetched : msg[m] # "unsent" /\ expNow >= opened[m].at + TTL(m)
  /\ \A m \in sweep.fetched \ sweep.todo : msg[m] = "gone" \/ m \in left \cap stuck
  /\ sweep.pc = "zrem" => sweep.todo = {}
  /\ sweep.pc = "rewrite" =>
       sweep.m \in Files /\ sweep.m \in sweep.fetched \ sweep.todo

\* The record of a card's owner outlives the card's time, once it is written.
OwnerKept ==
  \A m \in Cards : (msg[m] # "unsent" /\ expNow < opened[m].at + CardTTL) =>
    \/ owner[m].until >= opened[m].at + CardTTL /\ owner[m].who = opened[m].by
    \/ m \in unowned
    \/ \E h \in Hands : hand[h].m = m /\ hand[h].pc \in {"schedule", "own"}

ExpLinks == HandHolds /\ Timely /\ SweepHolds /\ OwnerKept
ExpIInv == ExpTypeOK /\ ExpLinks /\ LeftOnlyByFault /\ NoticeTellsTruth

------------------------------------------------------------------------------
LEMMA ExpConsts ==
  /\ Messages \subseteq Nat /\ Cards \subseteq Messages /\ Files \subseteq Messages
  /\ Cards \cap Files = {} /\ NoMessage \notin Messages
  /\ CardTTL \in Nat \ {0} /\ FileTTL \in Nat \ {0}
  /\ ExpEnd \in Nat /\ MaxExpFaults \in Nat
  /\ NoScore \notin Nat
  /\ \A m \in Messages : TTL(m) \in Nat \ {0}
  /\ \A m \in Files : TTL(m) = FileTTL
  /\ SomeOwner \in Owners
<1>1. SomeOwner \in Owners
  BY ExpiryAssumption DEF SomeOwner
<1> QED  BY <1>1, ExpiryAssumption DEF Messages, NoScore, TTL

LEMMA IdleType ==
  /\ HandIdle \in HandRecords /\ HandIdle.pc = "idle" /\ HandIdle.old \notin Cards
  /\ SweepStart \in SweepRecords /\ SweepStart.fetched = {} /\ SweepStart.todo = {}
  /\ SweepStart.pc = "cards"
  BY ExpConsts DEF HandIdle, HandRecords, SweepStart, SweepRecords

LEMMA FailsType ==
  ASSUME ExpTypeOK, NEW failed \in BOOLEAN, Fails(failed)
  PROVE  expFaults' \in 0..MaxExpFaults
  BY ExpConsts DEF ExpTypeOK, Fails, Fault

LEMMA FaultType ==
  ASSUME ExpTypeOK, Fault
  PROVE  expFaults' \in 0..MaxExpFaults
  BY ExpConsts DEF ExpTypeOK, Fault

LEMMA ExpInitIInv == ExpInit => ExpIInv
<1> SUFFICES ASSUME ExpInit PROVE ExpIInv
  OBVIOUS
<1>1. ExpTypeOK
  BY ExpConsts, IdleType DEF ExpInit, ExpTypeOK
<1>2. ExpLinks
  <2>1. \A h \in Hands : hand[h] = HandIdle
    BY DEF ExpInit
  <2>2. HandHolds
    BY <2>1, IdleType DEF HandHolds
  <2>3. Timely /\ SweepHolds /\ OwnerKept
    BY ExpConsts, IdleType DEF ExpInit, Timely, SweepHolds, OwnerKept
  <2> QED  BY <2>2, <2>3 DEF ExpLinks
<1>3. LeftOnlyByFault /\ NoticeTellsTruth
  BY DEF ExpInit, LeftOnlyByFault, NoticeTellsTruth
<1> QED  BY <1>1, <1>2, <1>3 DEF ExpIInv

------------------------------------------------------------------------------
(* Sending.                                                                *)

\* A handler sends a message and goes on with it.
LEMMA ShownStep ==
  ASSUME ExpIInv, NEW h \in Hands, NEW m \in Messages, NEW u \in Owners, NEW rec \in HandRecords,
         Shown(m, u), hand' = [hand EXCEPT ![h] = rec],
         rec.m = m, rec.old \in Cards => msg[rec.old] # "unsent",
         \/ rec.pc = "schedule" /\ rec.by = u
         \/ rec.pc = "notice" /\ m \in Files,
         hand[h].pc \in {"idle", "open"},
         UNCHANGED <<expNow, notice, due, owner, sweep, expFaults, stuck, left, unowned>>
  PROVE  ExpIInv'
<1>1. /\ hand'[h] = rec
      /\ \A k \in Hands \ {h} : hand'[k] = hand[k]
      /\ hand' \in [Hands -> HandRecords]
  BY DEF ExpIInv, ExpTypeOK
<1>2. /\ msg[m] = "unsent" /\ msg'[m] = "shown"
      /\ opened'[m].by = u /\ opened'[m].at = expNow
      /\ \A k \in Messages \ {m} : msg'[k] = msg[k] /\ opened'[k] = opened[k]
  BY DEF Shown, ExpIInv, ExpTypeOK
<1>3. ExpTypeOK'
  <2>1. msg' \in [Messages -> {"unsent", "shown", "gone"}]
    BY DEF Shown, ExpIInv, ExpTypeOK
  <2>2. opened' \in [Messages -> [by : Owners, at : Nat]]
    BY ExpConsts DEF Shown, ExpIInv, ExpTypeOK
  <2> QED  BY <1>1, <2>1, <2>2 DEF ExpIInv, ExpTypeOK
<1>4. HandHolds'
  <2>1. rec.m \in Cards => opened'[m].by = rec.by
    BY <1>2, ExpConsts
  <2>2. rec.old \in Cards => msg'[rec.old] # "unsent"
    BY <1>2, ExpConsts
  <2>3. ASSUME NEW k \in Hands \ {h}
        PROVE  /\ hand[k].pc \in {"notice", "schedule", "own"} =>
                    msg'[hand[k].m] = msg[hand[k].m] /\ opened'[hand[k].m] = opened[hand[k].m]
               /\ hand[k].old \in Cards => msg'[hand[k].old] = msg[hand[k].old]
    BY <1>2, ExpConsts DEF ExpIInv, ExpLinks, HandHolds
  <2> QED  BY <1>1, <1>2, <2>1, <2>2, <2>3 DEF ExpIInv, ExpLinks, HandHolds
<1>5. Timely'
  BY <1>2, ExpConsts DEF ExpIInv, ExpTypeOK, ExpLinks, Timely
<1>6. SweepHolds'
  BY <1>2 DEF ExpIInv, ExpTypeOK, SweepRecords, ExpLinks, SweepHolds
<1>7. OwnerKept'
  BY <1>1, <1>2, ExpConsts DEF ExpIInv, ExpLinks, OwnerKept
<1>8. LeftOnlyByFault'
  BY <1>1, <1>2 DEF ExpIInv, LeftOnlyByFault
<1>9. NoticeTellsTruth'
  <2>1. notice[m] # "expired" \/ m \notin Files
    BY <1>2 DEF ExpIInv, NoticeTellsTruth, ExpLinks, Timely
  <2> QED  BY <1>2, <2>1, ExpConsts DEF ExpIInv, NoticeTellsTruth
<1> QED  BY <1>3, <1>4, <1>5, <1>6, <1>7, <1>8, <1>9 DEF ExpIInv, ExpLinks

LEMMA SendStep ==
  ASSUME ExpIInv, NEW h \in Hands,
         \/ \E u \in Owners, m \in Cards : SearchCard(h, u, m)
         \/ \E m \in Cards : SendReplacement(h, m)
         \/ \E m \in Files : DeliverFile(h, m)
  PROVE  ExpIInv'
<1>1. ASSUME NEW u \in Owners, NEW m \in Cards, SearchCard(h, u, m)
      PROVE  ExpIInv'
  <2> DEFINE rec == [pc |-> "schedule", m |-> m, old |-> NoMessage, by |-> u]
  <2>1. /\ rec \in HandRecords /\ rec.pc = "schedule" /\ rec.m = m /\ rec.by = u
        /\ rec.old \notin Cards
    BY ExpConsts DEF HandRecords
  <2>2. hand' = [hand EXCEPT ![h] = rec]
    BY <1>1 DEF SearchCard
  <2> HIDE DEF rec
  <2> QED  BY <1>1, <2>1, <2>2, ExpConsts, ShownStep DEF SearchCard
<1>2. ASSUME NEW m \in Cards, SendReplacement(h, m)
      PROVE  ExpIInv'
  <2> DEFINE rec == [hand[h] EXCEPT !.pc = "schedule", !.m = m]
  <2>1. /\ rec \in HandRecords /\ rec.pc = "schedule" /\ rec.m = m
        /\ rec.by = hand[h].by /\ hand[h].by \in Owners
        /\ rec.old = hand[h].old
    <3>1. hand[h] \in HandRecords
      BY DEF ExpIInv, ExpTypeOK
    <3>2. m \in Messages
      BY ExpConsts
    <3> QED  BY <3>1, <3>2 DEF HandRecords
  <2>2. hand' = [hand EXCEPT ![h] = rec]
    BY <1>2 DEF SendReplacement, ExpIInv, ExpTypeOK
  <2> HIDE DEF rec
  <2>3. rec.old \in Cards => msg[rec.old] # "unsent"
    BY <2>1 DEF ExpIInv, ExpLinks, HandHolds
  <2> QED  BY <1>2, <2>1, <2>2, <2>3, ExpConsts, ShownStep DEF SendReplacement
<1>3. ASSUME NEW m \in Files, DeliverFile(h, m)
      PROVE  ExpIInv'
  <2> DEFINE rec == [HandIdle EXCEPT !.pc = "notice", !.m = m]
  <2>1. rec \in HandRecords /\ rec.pc = "notice" /\ rec.m = m /\ rec.old \notin Cards
    BY ExpConsts DEF HandIdle, HandRecords
  <2>2. hand' = [hand EXCEPT ![h] = rec]
    BY <1>3 DEF DeliverFile
  <2> HIDE DEF rec
  <2> QED  BY <1>3, <2>1, <2>2, ExpConsts, ShownStep DEF DeliverFile
<1> QED  BY <1>1, <1>2, <1>3

LEMMA SendNoticeStep ==
  ASSUME ExpIInv, NEW h \in Hands, SendNotice(h)
  PROVE  ExpIInv'
<1> DEFINE m == hand[h].m
<1>1. hand[h] \in HandRecords /\ hand[h].pc = "notice" /\ m \in Files
  BY DEF SendNotice, ExpIInv, ExpTypeOK, ExpLinks, HandHolds
<1>2. /\ hand'[h].pc = "schedule" /\ hand'[h].m = m /\ hand'[h].by = hand[h].by
      /\ hand'[h].old = hand[h].old
      /\ \A k \in Hands \ {h} : hand'[k] = hand[k]
      /\ hand' \in [Hands -> HandRecords]
  BY <1>1 DEF SendNotice, ExpIInv, ExpTypeOK, HandRecords
<1>3. PICK failed \in BOOLEAN :
        /\ Fails(failed)
        /\ notice' = [notice EXCEPT ![m] = IF failed THEN "none" ELSE "warns"]
  BY DEF SendNotice
<1>4. /\ notice'[m] # "expired"
      /\ \A f \in Files \ {m} : notice'[f] = notice[f]
      /\ notice' \in [Files -> {"none", "warns", "expired"}]
  BY <1>1, <1>3 DEF ExpIInv, ExpTypeOK
<1>5. UNCHANGED <<expNow, msg, due, owner, sweep, stuck, opened, left, unowned>>
  BY DEF SendNotice
<1>6. ExpTypeOK'
  BY <1>2, <1>3, <1>4, <1>5, FailsType DEF ExpIInv, ExpTypeOK
<1>7. ExpLinks'
  <2>1. HandHolds'
    BY <1>1, <1>2, <1>5, ExpConsts DEF ExpIInv, ExpLinks, HandHolds
  <2>2. Timely' /\ SweepHolds'
    BY <1>5 DEF ExpIInv, ExpLinks, Timely, SweepHolds
  <2>3. OwnerKept'
    BY <1>1, <1>2, <1>5 DEF ExpIInv, ExpLinks, OwnerKept
  <2> QED  BY <2>1, <2>2, <2>3 DEF ExpLinks
<1>8. LeftOnlyByFault' /\ NoticeTellsTruth'
  BY <1>1, <1>2, <1>4, <1>5 DEF ExpIInv, LeftOnlyByFault, NoticeTellsTruth
<1> QED  BY <1>6, <1>7, <1>8 DEF ExpIInv

LEMMA ScheduleStep ==
  ASSUME ExpIInv, NEW h \in Hands, Schedule(h)
  PROVE  ExpIInv'
<1> DEFINE m == hand[h].m
           rec == IF m \in Cards THEN [hand[h] EXCEPT !.pc = "own"] ELSE HandIdle
<1>1. /\ hand[h] \in HandRecords /\ hand[h].pc = "schedule" /\ m \in Messages
      /\ msg[m] # "unsent" /\ opened[m].at <= expNow /\ opened[m].at \in Nat /\ expNow \in Nat
      /\ m \in Cards => opened[m].by = hand[h].by
  BY ExpConsts DEF Schedule, ExpIInv, ExpTypeOK, ExpLinks, HandHolds, Timely
<1>2. /\ rec \in HandRecords
      /\ m \in Cards => rec.pc = "own" /\ rec.m = m /\ rec.by = hand[h].by
      /\ m \notin Cards => rec.pc = "idle"
      /\ rec.old \in Cards => rec.old = hand[h].old /\ rec.pc # "idle"
  BY <1>1, IdleType DEF HandRecords
<1>3. hand' = [hand EXCEPT ![h] = rec]
  BY DEF Schedule, ExpIInv, ExpTypeOK
<1> HIDE DEF rec
<1>4. /\ hand'[h] = rec
      /\ \A k \in Hands \ {h} : hand'[k] = hand[k]
      /\ hand' \in [Hands -> HandRecords]
  BY <1>2, <1>3 DEF ExpIInv, ExpTypeOK
<1>5. PICK failed \in BOOLEAN :
        /\ Fails(failed)
        /\ due' = [due EXCEPT ![m] = IF failed THEN @ ELSE expNow + TTL(m)]
        /\ left' = IF failed THEN left \cup {m} ELSE left
  BY DEF Schedule
<1> DEFINE score == expNow + TTL(m)
<1>5a. score \in Nat /\ NoScore \notin Nat
  <2>1. TTL(m) \in Nat
    BY <1>1, ExpConsts
  <2> QED  BY <1>1, <2>1, ExpConsts
<1> HIDE DEF score
<1>5b. due' = [due EXCEPT ![m] = IF failed THEN @ ELSE score]
  BY <1>5 DEF score
<1>6. /\ \A k \in Messages \ {m} : due'[k] = due[k]
      /\ left \subseteq left' /\ left' \subseteq left \cup {m} /\ left' \subseteq Messages
      /\ m \in left' \/ due'[m] # NoScore
      /\ due'[m] = due[m] \/ due'[m] = score
      /\ due' \in [Messages -> Nat \cup {NoScore}]
  BY <1>1, <1>5, <1>5a, <1>5b DEF ExpIInv, ExpTypeOK
<1>7. UNCHANGED <<expNow, msg, notice, owner, sweep, stuck, opened, unowned>>
  BY DEF Schedule
<1>8. ExpTypeOK'
  BY <1>4, <1>5, <1>6, <1>7, FailsType DEF ExpIInv, ExpTypeOK
<1>9. ExpLinks'
  <2>1. HandHolds'
    BY <1>1, <1>2, <1>4, <1>7 DEF ExpIInv, ExpLinks, HandHolds
  <2>2. Timely'
    <3>1. TTL(m) \in Nat
      BY <1>1, ExpConsts
    <3> QED  BY <1>1, <1>6, <1>7, <3>1 DEF ExpIInv, ExpLinks, Timely, score
  <2>3. SweepHolds'
    BY <1>6, <1>7 DEF ExpIInv, ExpLinks, SweepHolds
  <2>4. OwnerKept'
    BY <1>1, <1>2, <1>4, <1>7 DEF ExpIInv, ExpLinks, OwnerKept
  <2> QED  BY <2>1, <2>2, <2>3, <2>4 DEF ExpLinks
<1>10. LeftOnlyByFault'
  BY <1>1, <1>4, <1>6, <1>7 DEF ExpIInv, LeftOnlyByFault
<1>11. NoticeTellsTruth'
  BY <1>6, <1>7 DEF ExpIInv, NoticeTellsTruth
<1> QED  BY <1>8, <1>9, <1>10, <1>11 DEF ExpIInv

LEMMA RememberStep ==
  ASSUME ExpIInv, NEW h \in Hands, Remember(h)
  PROVE  ExpIInv'
<1> DEFINE m == hand[h].m
           rec == AfterOwn(hand[h])
<1>1. /\ hand[h] \in HandRecords /\ hand[h].pc = "own" /\ m \in Cards /\ m \in Messages
      /\ msg[m] # "unsent" /\ opened[m].at <= expNow /\ opened[m].at \in Nat /\ expNow \in Nat
      /\ opened[m].by = hand[h].by
  <2>1. hand[h] \in HandRecords /\ hand[h].pc = "own"
    BY DEF Remember, ExpIInv, ExpTypeOK
  <2>2. m \in Cards /\ m \in Messages /\ msg[m] # "unsent" /\ opened[m].by = hand[h].by
    BY <2>1 DEF ExpIInv, ExpLinks, HandHolds
  <2>3. opened[m].at \in Nat /\ expNow \in Nat
    BY <2>2, ExpConsts DEF ExpIInv, ExpTypeOK
  <2>4. opened[m].at <= expNow
    BY <2>2 DEF ExpIInv, ExpLinks, Timely
  <2> QED  BY <2>1, <2>2, <2>3, <2>4
<1>2. /\ rec \in HandRecords /\ rec.pc \in {"idle", "drop"}
      /\ rec.pc = "drop" => rec.old \in Cards
      /\ rec.old \in Cards => rec.old = hand[h].old /\ rec.pc # "idle"
  BY <1>1, IdleType, ExpConsts DEF AfterOwn, HandRecords
<1>3. hand' = [hand EXCEPT ![h] = rec]
  BY DEF Remember, ExpIInv, ExpTypeOK
<1> HIDE DEF rec
<1>4. /\ hand'[h] = rec
      /\ \A k \in Hands \ {h} : hand'[k] = hand[k]
      /\ hand' \in [Hands -> HandRecords]
  BY <1>2, <1>3 DEF ExpIInv, ExpTypeOK
<1>5. PICK failed \in BOOLEAN :
        /\ Fails(failed)
        /\ owner' = [owner EXCEPT ![m] = IF failed THEN @
                       ELSE [who |-> hand[h].by, until |-> expNow + CardTTL]]
        /\ unowned' = IF failed THEN unowned \cup {m} ELSE unowned
  BY DEF Remember
<1>6. /\ owner' \in [Cards -> [who : Owners, until : Nat]]
      /\ \A k \in Cards \ {m} : owner'[k] = owner[k]
      /\ unowned \subseteq unowned' /\ unowned' \subseteq Cards
      /\ m \in unowned' \/ (owner'[m].until = expNow + CardTTL /\ owner'[m].who = hand[h].by)
  <2> DEFINE fresh == [who |-> hand[h].by, until |-> expNow + CardTTL]
  <2>1. fresh.who = hand[h].by /\ fresh.until = expNow + CardTTL
        /\ fresh \in [who : Owners, until : Nat]
    BY <1>1, ExpConsts DEF HandRecords
  <2>2. owner' = [owner EXCEPT ![m] = IF failed THEN @ ELSE fresh]
    BY <1>5
  <2> HIDE DEF fresh
  <2> QED  BY <1>1, <1>5, <2>1, <2>2 DEF ExpIInv, ExpTypeOK
<1>7. UNCHANGED <<expNow, msg, notice, due, sweep, stuck, opened, left>>
  BY DEF Remember
<1>8. ExpTypeOK'
  BY <1>4, <1>5, <1>6, <1>7, FailsType DEF ExpIInv, ExpTypeOK
<1>9. ExpLinks'
  <2>1. HandHolds'
    BY <1>1, <1>2, <1>4, <1>7 DEF ExpIInv, ExpLinks, HandHolds
  <2>2. Timely' /\ SweepHolds'
    BY <1>7 DEF ExpIInv, ExpLinks, Timely, SweepHolds
  <2>3. OwnerKept'
    <3>1. expNow + CardTTL >= opened[m].at + CardTTL
      BY <1>1, ExpConsts
    <3>2. ASSUME NEW k \in Cards \ {m}, \E g \in Hands : hand[g].m = k /\ hand[g].pc \in {"schedule", "own"}
          PROVE  \E g \in Hands : hand'[g].m = k /\ hand'[g].pc \in {"schedule", "own"}
      BY <3>2, <1>4
    <3> QED  BY <1>1, <1>6, <1>7, <3>1, <3>2 DEF ExpIInv, ExpLinks, OwnerKept
  <2> QED  BY <2>1, <2>2, <2>3 DEF ExpLinks
<1>10. LeftOnlyByFault' /\ NoticeTellsTruth'
  BY <1>1, <1>4, <1>7 DEF ExpIInv, LeftOnlyByFault, NoticeTellsTruth
<1> QED  BY <1>8, <1>9, <1>10 DEF ExpIInv

------------------------------------------------------------------------------
(* Taps, and the sweeper.                                                  *)

LEMMA OwnsType ==
  ASSUME ExpTypeOK, NEW u \in Owners, NEW m \in Cards, OwnsCard(u, m)
  PROVE  expFaults' \in 0..MaxExpFaults
<1>1. CASE UNCHANGED expFaults
  BY <1>1 DEF ExpTypeOK
<1>2. CASE \E failed \in BOOLEAN : Fails(failed)
  BY <1>2, FailsType
<1> QED  BY <1>1, <1>2 DEF OwnsCard, NobodyElse

\* A handler that takes up a tap holds nothing but the card that was tapped.
LEMMA TapStep ==
  ASSUME ExpIInv, NEW h \in Hands, NEW u \in Owners, NEW m \in Cards,
         TapCard(h, u, m) \/ CloseCard(h, u, m)
  PROVE  ExpIInv'
<1>0. PICK pc \in {"open", "drop"} : Tap(h, u, m, pc)
  BY DEF TapCard, CloseCard
<1> DEFINE rec == [pc |-> pc, m |-> NoMessage, old |-> m, by |-> u]
<1>1. rec \in HandRecords /\ rec.pc = pc /\ rec.old = m
  BY ExpConsts DEF HandRecords
<1>2. hand' = [hand EXCEPT ![h] = rec] /\ hand[h].pc = "idle" /\ msg[m] # "unsent"
  BY <1>0 DEF Tap, CanTap
<1> HIDE DEF rec
<1>3. /\ hand'[h] = rec
      /\ \A k \in Hands \ {h} : hand'[k] = hand[k]
      /\ hand' \in [Hands -> HandRecords]
  BY <1>1, <1>2 DEF ExpIInv, ExpTypeOK
<1>4. /\ OwnsCard(u, m)
      /\ UNCHANGED <<expNow, msg, notice, due, owner, sweep, stuck, opened, left, unowned>>
  BY <1>0 DEF Tap
<1>5. ExpTypeOK'
  BY <1>3, <1>4, OwnsType DEF ExpIInv, ExpTypeOK
<1>6. HandHolds' /\ Timely' /\ SweepHolds'
  BY <1>1, <1>2, <1>3, <1>4 DEF ExpIInv, ExpLinks, HandHolds, Timely, SweepHolds
<1>7. OwnerKept'
  BY <1>2, <1>3, <1>4 DEF ExpIInv, ExpLinks, OwnerKept
<1>8. LeftOnlyByFault' /\ NoticeTellsTruth'
  BY <1>2, <1>3, <1>4 DEF ExpIInv, LeftOnlyByFault, NoticeTellsTruth
<1> QED  BY <1>5, <1>6, <1>7, <1>8 DEF ExpIInv, ExpLinks

\* A handler that is done with a card, deleted or not, holds nothing any more.
LEMMA DroppedStep ==
  ASSUME ExpIInv, NEW h \in Hands, DropCard(h) \/ ReplacementFails(h)
  PROVE  ExpIInv'
<1>1. /\ hand' = [hand EXCEPT ![h] = HandIdle] /\ hand[h].pc \in {"open", "drop"}
      /\ UNCHANGED <<expNow, notice, due, owner, sweep, stuck, opened, left, unowned>>
      /\ expFaults' \in 0..MaxExpFaults
  BY FaultType DEF DropCard, ReplacementFails, ExpIInv, ExpTypeOK
<1>2. /\ hand'[h] = HandIdle
      /\ \A k \in Hands \ {h} : hand'[k] = hand[k]
      /\ hand' \in [Hands -> HandRecords]
  BY <1>1, IdleType DEF ExpIInv, ExpTypeOK
<1>3. /\ msg' \in [Messages -> {"unsent", "shown", "gone"}]
      /\ \A k \in Messages : msg'[k] = msg[k] \/ (msg'[k] = "gone" /\ msg[k] # "unsent")
  <2>1. CASE DropCard(h)
    <3>1. msg' = Deleted(hand[h].old) /\ msg[hand[h].old] # "unsent"
      BY <2>1 DEF DropCard, ExpIInv, ExpLinks, HandHolds
    <3> QED  BY <3>1 DEF Deleted, ExpIInv, ExpTypeOK
  <2>2. CASE ReplacementFails(h)
    BY <2>2 DEF ReplacementFails, ExpIInv, ExpTypeOK
  <2> QED  BY <2>1, <2>2
<1>4. ExpTypeOK'
  BY <1>1, <1>2, <1>3 DEF ExpIInv, ExpTypeOK
<1>5. HandHolds'
  BY <1>1, <1>2, <1>3, ExpConsts, IdleType DEF ExpIInv, ExpLinks, HandHolds
<1>6. Timely' /\ SweepHolds'
  BY <1>1, <1>3 DEF ExpIInv, ExpTypeOK, SweepRecords, ExpLinks, Timely, SweepHolds
<1>7. OwnerKept'
  BY <1>1, <1>2, <1>3, ExpConsts DEF ExpIInv, ExpLinks, OwnerKept
<1>8. LeftOnlyByFault' /\ NoticeTellsTruth'
  BY <1>1, <1>2, <1>3, ExpConsts DEF ExpIInv, LeftOnlyByFault, NoticeTellsTruth
<1> QED  BY <1>4, <1>5, <1>6, <1>7, <1>8 DEF ExpIInv, ExpLinks

\* The sweeper moves on, with what it holds still as SweepHolds says.
LEMMA SweepMoves ==
  ASSUME ExpIInv, sweep' \in SweepRecords, sweep'.todo \subseteq sweep'.fetched, SweepHolds',
         expFaults' \in 0..MaxExpFaults,
         UNCHANGED <<expNow, msg, notice, due, owner, hand, stuck, opened, left, unowned>>
  PROVE  ExpIInv'
<1>1. ExpTypeOK'
  BY DEF ExpIInv, ExpTypeOK
<1>2. HandHolds' /\ Timely' /\ OwnerKept'
  BY DEF ExpIInv, ExpLinks, HandHolds, Timely, OwnerKept
<1>3. LeftOnlyByFault' /\ NoticeTellsTruth'
  BY DEF ExpIInv, LeftOnlyByFault, NoticeTellsTruth
<1> QED  BY <1>1, <1>2, <1>3 DEF ExpIInv, ExpLinks

LEMMA FetchStep ==
  ASSUME ExpIInv, FetchDue \/ SweepFails
  PROVE  ExpIInv'
<1>1. CASE FetchDue
  <2>1. PICK q \in {Cards, Files} :
          /\ \E s \in Batches(q) :
               sweep' = IF s # {} THEN [SweepStart EXCEPT !.pc = "delete", !.fetched = s, !.todo = s]
                        ELSE [SweepStart EXCEPT !.pc = IF q = Cards THEN "files" ELSE "cards"]
          /\ UNCHANGED <<expNow, msg, notice, due, owner, hand, expFaults, stuck, opened, left, unowned>>
    BY <1>1 DEF FetchDue
  <2>2. PICK s \in Batches(q) :
          sweep' = IF s # {} THEN [SweepStart EXCEPT !.pc = "delete", !.fetched = s, !.todo = s]
                   ELSE [SweepStart EXCEPT !.pc = IF q = Cards THEN "files" ELSE "cards"]
    BY <2>1
  <2>3. s \subseteq Messages /\ \A m \in s : due[m] # NoScore /\ due[m] <= expNow
    BY <2>2, ExpConsts DEF Batches, DueIn
  <2>4. \A m \in s : msg[m] # "unsent" /\ expNow >= opened[m].at + TTL(m)
    <3> SUFFICES ASSUME NEW m \in s
                 PROVE  msg[m] # "unsent" /\ expNow >= opened[m].at + TTL(m)
      OBVIOUS
    <3>1. m \in Messages /\ due[m] \in Nat /\ expNow \in Nat /\ opened[m].at \in Nat
          /\ TTL(m) \in Nat
      BY <2>3, ExpConsts DEF ExpIInv, ExpTypeOK
    <3>2. msg[m] # "unsent" /\ due[m] >= opened[m].at + TTL(m)
      BY <2>3, <3>1 DEF ExpIInv, ExpLinks, Timely
    <3> QED  BY <2>3, <3>1, <3>2
  <2>5. /\ sweep' \in SweepRecords /\ sweep'.todo = sweep'.fetched
        /\ sweep'.fetched \subseteq s /\ sweep'.pc \notin {"zrem", "rewrite"}
    BY <2>2, <2>3, ExpConsts DEF SweepStart, SweepRecords
  <2>6. SweepHolds'
    BY <2>1, <2>4, <2>5 DEF SweepHolds
  <2> QED  BY <2>1, <2>5, <2>6, SweepMoves DEF ExpIInv, ExpTypeOK
<1>2. CASE SweepFails
  <2>1. sweep' = SweepStart /\ Fault
        /\ UNCHANGED <<expNow, msg, notice, due, owner, hand, stuck, opened, left, unowned>>
    BY <1>2 DEF SweepFails
  <2>2. SweepHolds'
    BY <2>1, IdleType DEF SweepHolds
  <2> QED  BY <2>1, <2>2, IdleType, FaultType, SweepMoves DEF ExpIInv
<1> QED  BY <1>1, <1>2

\* Where the sweeper goes from an entry.
LEMMA ProceedType ==
  ASSUME ExpIInv, NEW todo, todo \subseteq sweep.todo
  PROVE  /\ Proceed(todo) \in SweepRecords
         /\ Proceed(todo).todo = todo /\ Proceed(todo).fetched = sweep.fetched
         /\ Proceed(todo).pc \in {"zrem", "delete"}
         /\ Proceed(todo).pc = "zrem" => todo = {}
<1>1. sweep \in SweepRecords /\ todo \subseteq Messages
  BY DEF ExpIInv, ExpTypeOK, SweepRecords
<1> QED  BY <1>1 DEF Proceed, SweepRecords

LEMMA AfterDeleteType ==
  ASSUME ExpIInv, NEW m \in sweep.todo
  PROVE  /\ AfterDelete(m) \in SweepRecords
         /\ AfterDelete(m).todo = sweep.todo \ {m} /\ AfterDelete(m).fetched = sweep.fetched
         /\ AfterDelete(m).pc = "zrem" => AfterDelete(m).todo = {}
         /\ AfterDelete(m).pc = "rewrite" => AfterDelete(m).m = m /\ m \in Files
<1>1. sweep \in SweepRecords /\ sweep.todo \ {m} \subseteq Messages
  BY DEF ExpIInv, ExpTypeOK, SweepRecords
<1>2. CASE m \in Files /\ notice[m] # "none"
  BY <1>1, <1>2 DEF AfterDelete, SweepRecords
<1>3. CASE ~(m \in Files /\ notice[m] # "none")
  <2>1. AfterDelete(m) = Proceed(sweep.todo \ {m})
    BY <1>3 DEF AfterDelete
  <2>2. sweep.todo \ {m} \subseteq sweep.todo
    OBVIOUS
  <2> QED  BY <2>1, <2>2, ProceedType
<1> QED  BY <1>2, <1>3

LEMMA SweepDeleteStep ==
  ASSUME ExpIInv, SweepDelete
  PROVE  ExpIInv'
<1>1. PICK m \in sweep.todo :
        /\ msg' = Deleted(m) /\ left' = left \cup ({m} \cap stuck) /\ sweep' = AfterDelete(m)
  BY DEF SweepDelete
<1>2. UNCHANGED <<expNow, notice, due, owner, hand, stuck, expFaults, opened, unowned>>
  BY DEF SweepDelete
<1>3. m \in sweep.fetched /\ m \in Messages /\ msg[m] # "unsent"
  BY DEF ExpIInv, ExpTypeOK, SweepRecords, ExpLinks, SweepHolds
<1>4. /\ msg' \in [Messages -> {"unsent", "shown", "gone"}]
      /\ \A k \in Messages : msg'[k] = msg[k] \/ (msg'[k] = "gone" /\ msg[k] # "unsent")
      /\ msg'[m] = "gone" \/ m \in left' \cap stuck
  BY <1>1, <1>3 DEF Deleted, ExpIInv, ExpTypeOK
<1>5. left \subseteq left' /\ left' \subseteq Messages
  BY <1>1, <1>3 DEF ExpIInv, ExpTypeOK
<1>6. /\ sweep' \in SweepRecords
      /\ sweep'.todo = sweep.todo \ {m} /\ sweep'.fetched = sweep.fetched
      /\ sweep'.pc = "zrem" => sweep'.todo = {}
      /\ sweep'.pc = "rewrite" => sweep'.m = m /\ m \in Files
  BY <1>1, AfterDeleteType
<1>7. ExpTypeOK'
  BY <1>2, <1>4, <1>5, <1>6 DEF ExpIInv, ExpTypeOK
<1>8. HandHolds' /\ Timely'
  <2>1. HandHolds'
    BY <1>2, <1>4, ExpConsts DEF ExpIInv, ExpLinks, HandHolds
  <2>2. \A k \in left' : k \in left \/ k = m
    BY <1>1
  <2>3. Timely'
    BY <1>2, <1>3, <1>4, <2>2 DEF ExpIInv, ExpLinks, Timely
  <2> QED  BY <2>1, <2>3
<1>9. SweepHolds'
  <2>1. \A k \in sweep'.fetched : k \in Messages
    BY <1>6 DEF SweepRecords
  <2> QED  BY <1>2, <1>3, <1>4, <1>5, <1>6, <2>1 DEF ExpIInv, ExpLinks, SweepHolds
<1>10. OwnerKept'
  BY <1>2, <1>4, ExpConsts DEF ExpIInv, ExpLinks, OwnerKept
<1>11. LeftOnlyByFault' /\ NoticeTellsTruth'
  BY <1>2, <1>4, <1>5, ExpConsts DEF ExpIInv, LeftOnlyByFault, NoticeTellsTruth
<1> QED  BY <1>7, <1>8, <1>9, <1>10, <1>11 DEF ExpIInv, ExpLinks

LEMMA RewriteNoticeStep ==
  ASSUME ExpIInv, RewriteNotice
  PROVE  ExpIInv'
<1> DEFINE m == sweep.m
<1>1. /\ m \in Files /\ m \in sweep.fetched /\ (msg[m] = "gone" \/ m \in stuck)
      /\ expNow >= opened[m].at + FileTTL
  BY ExpConsts DEF RewriteNotice, ExpIInv, ExpLinks, SweepHolds
<1>2. PICK failed \in BOOLEAN :
        /\ Fails(failed)
        /\ notice' = [notice EXCEPT ![m] = IF failed THEN @ ELSE "expired"]
  BY DEF RewriteNotice
<1>3. /\ notice' \in [Files -> {"none", "warns", "expired"}]
      /\ \A f \in Files \ {m} : notice'[f] = notice[f]
  BY <1>1, <1>2 DEF ExpIInv, ExpTypeOK
<1>4. /\ sweep' = Proceed(sweep.todo)
      /\ UNCHANGED <<expNow, msg, due, owner, hand, stuck, opened, left, unowned>>
  BY DEF RewriteNotice
<1>5. /\ sweep' \in SweepRecords
      /\ sweep'.todo = sweep.todo /\ sweep'.fetched = sweep.fetched
      /\ sweep'.pc \in {"zrem", "delete"}
      /\ sweep'.pc = "zrem" => sweep'.todo = {}
  BY <1>4, ProceedType
<1>6. ExpTypeOK'
  BY <1>2, <1>3, <1>4, <1>5, FailsType DEF ExpIInv, ExpTypeOK
<1>7. ExpLinks'
  BY <1>4, <1>5 DEF ExpIInv, ExpLinks, HandHolds, Timely, SweepHolds, OwnerKept
<1>8. LeftOnlyByFault' /\ NoticeTellsTruth'
  BY <1>1, <1>3, <1>4 DEF ExpIInv, LeftOnlyByFault, NoticeTellsTruth
<1> QED  BY <1>6, <1>7, <1>8 DEF ExpIInv

\* Only what is gone or left loses its entry.
LEMMA DropEntriesStep ==
  ASSUME ExpIInv, DropEntries
  PROVE  ExpIInv'
<1>1. \A m \in sweep.fetched : m \in Messages /\ (msg[m] = "gone" \/ m \in left)
  BY DEF DropEntries, ExpIInv, ExpTypeOK, SweepRecords, ExpLinks, SweepHolds
<1>2. /\ due' \in [Messages -> Nat \cup {NoScore}]
      /\ \A m \in Messages : due'[m] = due[m] \/ (due'[m] = NoScore /\ m \in sweep.fetched)
  BY DEF DropEntries, ExpIInv, ExpTypeOK
<1>3. /\ sweep' \in SweepRecords /\ sweep'.fetched = {} /\ sweep'.todo = {}
      /\ sweep'.pc \in {"files", "cards"}
  BY ExpConsts DEF DropEntries, SweepStart, SweepRecords
<1>4. UNCHANGED <<expNow, msg, notice, owner, hand, expFaults, stuck, opened, left, unowned>>
  BY DEF DropEntries
<1>5. ExpTypeOK'
  BY <1>2, <1>3, <1>4 DEF ExpIInv, ExpTypeOK
<1>6. ExpLinks'
  BY <1>2, <1>3, <1>4 DEF ExpIInv, ExpLinks, HandHolds, Timely, SweepHolds, OwnerKept
<1>7. LeftOnlyByFault' /\ NoticeTellsTruth'
  BY <1>1, <1>2, <1>4 DEF ExpIInv, LeftOnlyByFault, NoticeTellsTruth
<1> QED  BY <1>5, <1>6, <1>7 DEF ExpIInv

LEMMA OutsideStep ==
  ASSUME ExpIInv, ExpBotRestarts \/ ExpRedisFlush \/ ExpTick \/ \E m \in Messages : BecomesStuck(m)
  PROVE  ExpIInv'
<1>1. CASE ExpBotRestarts
  <2>1. /\ hand' = [h \in Hands |-> HandIdle] /\ sweep' = SweepStart /\ Fault
        /\ left' = left \cup {hand[h].m : h \in {k \in Hands : hand[k].pc \in {"notice", "schedule"}}}
        /\ unowned' = unowned \cup {m \in Cards : \E h \in Hands :
                                      hand[h].m = m /\ hand[h].pc \in {"schedule", "own"}}
        /\ UNCHANGED <<expNow, msg, notice, due, owner, stuck, opened>>
    BY <1>1 DEF ExpBotRestarts
  <2>2. left' \subseteq Messages /\ unowned' \subseteq Cards
    BY <2>1 DEF ExpIInv, ExpTypeOK, ExpLinks, HandHolds
  <2>3. ExpTypeOK'
    BY <2>1, <2>2, IdleType, FaultType DEF ExpIInv, ExpTypeOK
  <2>5. HandHolds' /\ Timely' /\ SweepHolds'
    BY <2>1, IdleType DEF ExpIInv, ExpLinks, HandHolds, Timely, SweepHolds
  <2>6. OwnerKept'
    BY <2>1 DEF ExpIInv, ExpLinks, OwnerKept
  <2>7. LeftOnlyByFault' /\ NoticeTellsTruth'
    BY <2>1 DEF ExpIInv, LeftOnlyByFault, NoticeTellsTruth
  <2> QED  BY <2>3, <2>5, <2>6, <2>7 DEF ExpIInv, ExpLinks
<1>2. CASE ExpTick
  <2>1. /\ expNow' = expNow + 1 /\ expNow' \in 0..ExpEnd /\ expNow \in Nat
        /\ UNCHANGED <<msg, notice, due, owner, hand, sweep, expFaults, stuck, opened, left, unowned>>
    BY <1>2, ExpConsts DEF ExpTick, ExpIInv, ExpTypeOK
  <2>2. \A m \in Messages : opened[m].at \in Nat /\ TTL(m) \in Nat
    BY ExpConsts DEF ExpIInv, ExpTypeOK
  <2>3. ExpTypeOK'
    BY <2>1 DEF ExpIInv, ExpTypeOK
  <2>4. HandHolds' /\ LeftOnlyByFault'
    BY <2>1 DEF ExpIInv, ExpLinks, HandHolds, LeftOnlyByFault
  <2>4a. OwnerKept'
    BY <2>1, <2>2, ExpConsts DEF ExpIInv, ExpLinks, OwnerKept
  <2>5. Timely'
    BY <2>1, <2>2 DEF ExpIInv, ExpLinks, Timely
  <2>6. SweepHolds'
    <3>1. sweep.fetched \subseteq Messages
      BY DEF ExpIInv, ExpTypeOK, SweepRecords
    <3> QED  BY <2>1, <2>2, <3>1 DEF ExpIInv, ExpLinks, SweepHolds
  <2>7. NoticeTellsTruth'
    BY <2>1, <2>2, ExpConsts DEF ExpIInv, NoticeTellsTruth
  <2> QED  BY <2>3, <2>4, <2>4a, <2>5, <2>6, <2>7 DEF ExpIInv, ExpLinks
<1>3. ASSUME NEW m \in Messages, BecomesStuck(m)
      PROVE  ExpIInv'
  <2>1. /\ stuck' = stuck \cup {m} /\ Fault /\ msg[m] = "shown"
        /\ UNCHANGED <<expNow, msg, notice, due, owner, hand, sweep, opened, left, unowned>>
    BY <1>3 DEF BecomesStuck
  <2>2. ExpTypeOK'
    BY <2>1, FaultType DEF ExpIInv, ExpTypeOK
  <2>3. ExpLinks'
    BY <2>1 DEF ExpIInv, ExpLinks, HandHolds, Timely, SweepHolds, OwnerKept
  <2>4. LeftOnlyByFault' /\ NoticeTellsTruth'
    BY <2>1 DEF ExpIInv, LeftOnlyByFault, NoticeTellsTruth
  <2> QED  BY <2>2, <2>3, <2>4 DEF ExpIInv
<1>4. CASE ExpRedisFlush
  <2>1. /\ due' = [m \in Messages |-> NoScore] /\ Fault
        /\ owner' = [m \in Cards |-> [owner[m] EXCEPT !.until = 0]]
        /\ left' = left \cup {m \in Messages : due[m] # NoScore}
        /\ unowned' = unowned \cup {m \in Cards : owner[m].until > expNow}
        /\ UNCHANGED <<expNow, msg, notice, hand, sweep, stuck, opened>>
    BY <1>4 DEF ExpRedisFlush
  <2>2. ExpTypeOK'
    <3>1. owner' \in [Cards -> [who : Owners, until : Nat]]
      BY <2>1 DEF ExpIInv, ExpTypeOK
    <3> QED  BY <2>1, <3>1, FaultType DEF ExpIInv, ExpTypeOK
  <2>3. HandHolds' /\ SweepHolds'
    BY <2>1 DEF ExpIInv, ExpLinks, HandHolds, SweepHolds
  <2>4. Timely'
    BY <2>1 DEF ExpIInv, ExpLinks, Timely
  <2>5. OwnerKept'
    <3>1. \A m \in Cards : owner[m].until \in Nat /\ opened[m].at \in Nat
      BY ExpConsts DEF ExpIInv, ExpTypeOK
    <3>2. expNow \in Nat /\ CardTTL \in Nat
      BY ExpConsts DEF ExpIInv, ExpTypeOK
    <3> QED  BY <2>1, <3>1, <3>2 DEF ExpIInv, ExpLinks, OwnerKept
  <2>6. LeftOnlyByFault' /\ NoticeTellsTruth'
    BY <2>1 DEF ExpIInv, LeftOnlyByFault, NoticeTellsTruth
  <2> QED  BY <2>2, <2>3, <2>4, <2>5, <2>6 DEF ExpIInv, ExpLinks
<1> QED  BY <1>1, <1>2, <1>3, <1>4

LEMMA ExpNextIInv ==
  ASSUME ExpIInv, [ExpNext]_expVars
  PROVE  ExpIInv'
<1>1. CASE UNCHANGED expVars
  BY <1>1 DEF expVars, ExpIInv, ExpTypeOK, ExpLinks, HandHolds, Timely, SweepHolds, OwnerKept,
              LeftOnlyByFault, NoticeTellsTruth
<1>2. CASE ExpNext
  BY <1>2, SendStep, SendNoticeStep, ScheduleStep, RememberStep, TapStep, DroppedStep,
     FetchStep, SweepDeleteStep, RewriteNoticeStep, DropEntriesStep, OutsideStep
  DEF ExpNext, SweepStep
<1> QED  BY <1>1, <1>2

THEOREM ExpInductive == ExpSpec => []ExpIInv
<1>1. ExpInit => ExpIInv
  BY ExpInitIInv
<1>2. ExpIInv /\ [ExpNext]_expVars => ExpIInv'
  BY ExpNextIInv
<1> QED  BY <1>1, <1>2, PTL DEF ExpSpec

------------------------------------------------------------------------------
(* The theorems.                                                           *)

\* Messages, entries, handlers and sweeper keep their types.
THEOREM ExpTypeCorrect == ExpSpec => []ExpTypeOK
<1>1. ExpIInv => ExpTypeOK
  BY DEF ExpIInv
<1> QED  BY <1>1, ExpInductive, PTL

\* No order of sends, replacements, sweeps, failures, restarts and flushes loses a
\* message that no fault touched.
THEOREM LeftOnlyByFaultCorrect == ExpSpec => []LeftOnlyByFault
<1>1. ExpIInv => LeftOnlyByFault
  BY DEF ExpIInv
<1> QED  BY <1>1, ExpInductive, PTL

\* A notice never says "expired" before its file's time, or of a file that is still
\* there and could be deleted.
THEOREM NoticeTellsTruthCorrect == ExpSpec => []NoticeTellsTruth
<1>1. ExpIInv => NoticeTellsTruth
  BY DEF ExpIInv
<1> QED  BY <1>1, ExpInductive, PTL

\* A handler that was idle and now works on a card took up a tap on it.
LEMMA TapsOnly ==
  ASSUME ExpIInv, [ExpNext]_expVars, NEW h \in Hands, NEW m \in Cards,
         hand[h].pc = "idle", hand'[h].old = m
  PROVE  \E u \in Owners, pc \in {"open", "drop"} : Tap(h, u, m, pc)
<1>1. hand[h].old \notin Cards /\ hand \in [Hands -> HandRecords]
  BY DEF ExpIInv, ExpTypeOK, ExpLinks, HandHolds
<1>2. hand'[h] # hand[h]
  BY <1>1
<1>3. m # NoMessage /\ HandIdle.old \notin Cards
  BY ExpConsts, IdleType
<1>4. ASSUME NEW k \in Hands,
             \/ SendNotice(k) \/ Schedule(k) \/ Remember(k) \/ DropCard(k) \/ ReplacementFails(k)
             \/ \E c \in Cards : SendReplacement(k, c)
      PROVE  FALSE
  <2>1. hand[k].pc # "idle"
    BY <1>4 DEF SendNotice, Schedule, Remember, DropCard, ReplacementFails, SendReplacement
  <2>2. \A g \in Hands \ {k} : hand'[g] = hand[g]
    BY <1>1, <1>4 DEF SendNotice, Schedule, Remember, DropCard, ReplacementFails, SendReplacement
  <2> QED  BY <1>2, <2>1, <2>2
<1>5. ASSUME NEW k \in Hands, NEW u \in Owners, NEW c \in Cards, SearchCard(k, u, c)
      PROVE  FALSE
  <2>1. hand'[h] = hand[h] \/ hand'[h].old = NoMessage
    BY <1>1, <1>5 DEF SearchCard
  <2> QED  BY <1>2, <1>3, <2>1
<1>6. ASSUME NEW k \in Hands, NEW f \in Files, DeliverFile(k, f)
      PROVE  FALSE
  <2>1. hand'[h] = hand[h] \/ hand'[h].old = HandIdle.old
    BY <1>1, <1>6 DEF DeliverFile, HandIdle
  <2> QED  BY <1>2, <1>3, <2>1
<1>7. ASSUME NEW k \in Hands, NEW u \in Owners, NEW c \in Cards, NEW pc \in {"open", "drop"},
             Tap(k, u, c, pc)
      PROVE  Tap(h, u, m, pc)
  <2>1. hand'[h] = hand[h] \/ (k = h /\ hand'[h].old = c)
    BY <1>1, <1>7 DEF Tap
  <2> QED  BY <1>2, <1>7, <2>1
<1>8. CASE ExpBotRestarts
  BY <1>3, <1>8 DEF ExpBotRestarts
<1>9. hand' = hand => FALSE
  BY <1>2
<1>10. SweepStep \/ SweepFails \/ ExpRedisFlush \/ ExpTick \/ (\E k \in Messages : BecomesStuck(k))
         => hand' = hand
  BY DEF SweepStep, FetchDue, SweepDelete, RewriteNotice, DropEntries, SweepFails, ExpRedisFlush,
         ExpTick, BecomesStuck
<1>11. ExpNext
  BY <1>9 DEF expVars
<1>12. CASE \E k \in Hands, u \in Owners, c \in Cards : TapCard(k, u, c) \/ CloseCard(k, u, c)
  BY <1>7, <1>12 DEF TapCard, CloseCard
<1> QED  BY <1>4, <1>5, <1>6, <1>8, <1>9, <1>10, <1>11, <1>12 DEF ExpNext

\* Until a card's time is over only the user it came from closes or replaces it, and
\* exactly those others that OnlyOwnerDrives names: the record of the owner is right
\* whenever it is there, through every replacement, and goes only with a fault.
THEOREM OnlyOwnerDrivesCorrect == ExpSpec => OnlyOwnerDrives
<1> DEFINE Step ==
      \A h \in Hands, m \in Cards :
        (hand[h].pc = "idle" /\ hand'[h].old = m /\ expNow < opened[m].at + CardTTL) =>
          \/ hand'[h].by = opened[m].by
          \/ hand'[h].by \in Admins
          \/ m \in unowned
          \/ \E g \in Hands : hand[g].m = m /\ hand[g].pc \in {"schedule", "own"}
          \/ expFaults' # expFaults
<1>1. ExpIInv /\ [ExpNext]_expVars => [Step]_expVars
  <2> SUFFICES ASSUME ExpIInv, [ExpNext]_expVars, NEW h \in Hands, NEW m \in Cards,
                      hand[h].pc = "idle", hand'[h].old = m, expNow < opened[m].at + CardTTL,
                      hand'[h].by \notin Admins, m \notin unowned,
                      ~ \E g \in Hands : hand[g].m = m /\ hand[g].pc \in {"schedule", "own"},
                      expFaults' = expFaults
               PROVE  hand'[h].by = opened[m].by
    OBVIOUS
  <2>1. PICK u \in Owners, pc \in {"open", "drop"} : Tap(h, u, m, pc)
    BY TapsOnly
  <2>2. hand'[h].by = u /\ msg[m] # "unsent"
    BY <2>1 DEF Tap, CanTap, ExpIInv, ExpTypeOK
  <2>3. owner[m].until <= expNow \/ owner[m].who = u
    <3>1. expFaults \in Nat
      BY ExpConsts DEF ExpIInv, ExpTypeOK
    <3> QED  BY <2>1, <2>2, <3>1 DEF Tap, OwnsCard, NobodyElse, Fails, Fault
  <2>4. owner[m].until >= opened[m].at + CardTTL /\ owner[m].who = opened[m].by
    BY <2>2 DEF ExpIInv, ExpLinks, OwnerKept
  <2>5. owner[m].until \in Nat /\ opened[m].at \in Nat /\ expNow \in Nat /\ CardTTL \in Nat
    BY ExpConsts DEF ExpIInv, ExpTypeOK
  <2> QED  BY <2>2, <2>3, <2>4, <2>5
<1> QED  BY <1>1, ExpInductive, PTL DEF OnlyOwnerDrives, ExpSpec

==============================================================================
