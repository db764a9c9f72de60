------------------------------- MODULE Expiry -------------------------------
(***************************************************************************)
(* Messages that delete themselves: result cards in groups and delivered   *)
(* files in private chats.  bot/ephemeral.py, bot/ownership.py, the        *)
(* delivery in bot/delivery.py and the handlers that send, replace and     *)
(* close cards (bot/handlers/search.py, callbacks.py).  A step is one      *)
(* Telegram call or one Redis command.                                     *)
(***************************************************************************)
EXTENDS Integers, FiniteSets

CONSTANTS
  Cards, Files,      \* message ids, given out in order
  NoMessage,
  Owners,            \* users who search and tap
  Admins,            \* admin_ids among them
  Hands,             \* handler coroutines in flight at once
  CardTTL, FileTTL,  \* group_message_ttl and delivery_ttl
  BatchLimit,        \* _BATCH
  ExpEnd,            \* bound on time
  MaxExpFaults       \* bound on failing calls, restarts and flushes

Messages == Cards \cup Files

ASSUME ExpiryAssumption ==
  /\ Messages \subseteq Nat /\ IsFiniteSet(Messages)
  /\ Cards \cap Files = {} /\ NoMessage \notin Messages
  /\ Owners # {} /\ Admins \subseteq Owners
  /\ {CardTTL, FileTTL, BatchLimit} \subseteq Nat \ {0}
  /\ ExpEnd \in Nat /\ MaxExpFaults \in Nat

VARIABLES
  expNow,
  msg,       \* each message in its chat: unsent, shown, gone
  notice,    \* the warning under a file: none, warns, expired
  due,       \* scores of the sorted sets _KEY and _DELIVERY_KEY; NoScore: no entry
  owner,     \* cardowner:<message>: who, and when the key expires
  hand,      \* each handler: where it awaits, and its locals
  sweep,     \* the sweeper: where it awaits, what it fetched, what is left of it
  stuck,     \* messages Telegram refuses to delete
  expFaults,
  \* Ghosts.
  opened,    \* who caused a message, and when
  left,      \* messages a failing call, a restart or a flush left behind
  unowned    \* cards whose owner was not recorded, or lost, for the same reasons

expVars == <<expNow, msg, notice, due, owner, hand, sweep, stuck, expFaults, opened,
             left, unowned>>

NoScore == 0 - 1
SomeOwner == CHOOSE u \in Owners : TRUE
TTL(m) == IF m \in Cards THEN CardTTL ELSE FileTTL

HandRecords == [pc : {"idle", "open", "notice", "schedule", "own", "drop"},
                m : Messages \cup {NoMessage}, old : Cards \cup {NoMessage}, by : Owners]
HandIdle == [pc |-> "idle", m |-> NoMessage, old |-> NoMessage, by |-> SomeOwner]

SweepRecords == [pc : {"cards", "files", "delete", "rewrite", "zrem"},
                 fetched : SUBSET Messages, todo : SUBSET Messages,
                 m : Files \cup {NoMessage}]
SweepStart == [pc |-> "cards", fetched |-> {}, todo |-> {}, m |-> NoMessage]

ExpTypeOK ==
  /\ expNow \in 0..ExpEnd
  /\ msg \in [Messages -> {"unsent", "shown", "gone"}]
  /\ notice \in [Files -> {"none", "warns", "expired"}]
  /\ due \in [Messages -> Nat \cup {NoScore}]
  /\ owner \in [Cards -> [who : Owners, until : Nat]]
  /\ hand \in [Hands -> HandRecords]
  /\ sweep \in SweepRecords /\ sweep.todo \subseteq sweep.fetched
  /\ expFaults \in 0..MaxExpFaults
  /\ stuck \subseteq Messages
  /\ opened \in [Messages -> [by : Owners, at : Nat]]
  /\ left \subseteq Messages /\ unowned \subseteq Cards

ExpInit ==
  /\ expNow = 0
  /\ msg = [m \in Messages |-> "unsent"]
  /\ notice = [m \in Files |-> "none"]
  /\ due = [m \in Messages |-> NoScore]
  /\ owner = [m \in Cards |-> [who |-> SomeOwner, until |-> 0]]
  /\ hand = [h \in Hands |-> HandIdle]
  /\ sweep = SweepStart
  /\ stuck = {} /\ expFaults = 0
  /\ opened = [m \in Messages |-> [by |-> SomeOwner, at |-> 0]]
  /\ left = {} /\ unowned = {}

Fault == expFaults < MaxExpFaults /\ expFaults' = expFaults + 1

\* A call that may fail: how it does, or that it does not.
Fails(failed) == IF failed THEN Fault ELSE UNCHANGED expFaults

------------------------------------------------------------------------------
(* Sending.                                                                *)

Shown(m, u) ==
  /\ msg[m] = "unsent"
  /\ \A k \in Messages : (k < m /\ (k \in Cards <=> m \in Cards)) => msg[k] # "unsent"
  /\ msg' = [msg EXCEPT ![m] = "shown"]
  /\ opened' = [opened EXCEPT ![m] = [by |-> u, at |-> expNow]]

\* _on_query in a group: the card is sent; scheduling it and its owner follow.
SearchCard(h, u, m) ==
  /\ hand[h].pc = "idle"
  /\ Shown(m, u)
  /\ hand' = [hand EXCEPT ![h] = [pc |-> "schedule", m |-> m, old |-> NoMessage, by |-> u]]
  /\ UNCHANGED <<expNow, notice, due, owner, sweep, expFaults, stuck, left, unowned>>

\* send_file: the file is sent; the warning follows.
DeliverFile(h, m) ==
  /\ hand[h].pc = "idle"
  /\ Shown(m, SomeOwner)
  /\ hand' = [hand EXCEPT ![h] = [HandIdle EXCEPT !.pc = "notice", !.m = m]]
  /\ UNCHANGED <<expNow, notice, due, owner, sweep, expFaults, stuck, left, unowned>>

\* The warning; when it cannot be sent the expiry goes on with the notice id 0.
SendNotice(h) ==
  /\ hand[h].pc = "notice"
  /\ \E failed \in BOOLEAN :
       /\ Fails(failed)
       /\ notice' = [notice EXCEPT ![hand[h].m] = IF failed THEN "none" ELSE "warns"]
  /\ hand' = [hand EXCEPT ![h].pc = "schedule"]
  /\ UNCHANGED <<expNow, msg, due, owner, sweep, stuck, opened, left, unowned>>

\* schedule_delete and schedule_delivery_expiry: one ZADD, whose failure is swallowed.
Schedule(h) ==
  /\ hand[h].pc = "schedule"
  /\ LET m == hand[h].m IN
       /\ \E failed \in BOOLEAN :
            /\ Fails(failed)
            /\ due' = [due EXCEPT ![m] = IF failed THEN @ ELSE expNow + TTL(m)]
            /\ left' = IF failed THEN left \cup {m} ELSE left
       /\ hand' = [hand EXCEPT ![h] = IF m \in Cards THEN [@ EXCEPT !.pc = "own"] ELSE HandIdle]
  /\ UNCHANGED <<expNow, msg, notice, owner, sweep, stuck, opened, unowned>>

AfterOwn(t) == IF t.old = NoMessage THEN HandIdle ELSE [t EXCEPT !.pc = "drop"]

Slip_Remember(h) ==  \* a replaced card is rescheduled, its owner not carried over
  /\ hand[h].pc = "own"
  /\ owner' = IF hand[h].old # NoMessage THEN owner
              ELSE [owner EXCEPT ![hand[h].m] = [who |-> hand[h].by, until |-> expNow + CardTTL]]
  /\ hand' = [hand EXCEPT ![h] = AfterOwn(@)]
  /\ UNCHANGED <<expNow, msg, notice, due, sweep, expFaults, stuck, opened, left, unowned>>

\* ownership.remember: a SET EX, whose failure is swallowed.
Remember(h) ==
  /\ hand[h].pc = "own"
  /\ LET m == hand[h].m IN
       \E failed \in BOOLEAN :
         /\ Fails(failed)
         /\ owner' = [owner EXCEPT ![m] = IF failed THEN @
                        ELSE [who |-> hand[h].by, until |-> expNow + CardTTL]]
         /\ unowned' = IF failed THEN unowned \cup {m} ELSE unowned
  /\ hand' = [hand EXCEPT ![h] = AfterOwn(@)]
  /\ UNCHANGED <<expNow, msg, notice, due, sweep, stuck, opened, left>>

------------------------------------------------------------------------------
(* Taps on a card.                                                         *)

CanTap(m) == msg[m] = "shown"

\* owner_of finds nobody, because there is no record or because the lookup fails, or
\* this very user.
NobodyElse(u, m) ==
  \E failed \in BOOLEAN :
    Fails(failed) /\ (failed \/ owner[m].until <= expNow \/ owner[m].who = u)

\* An admin passes without a lookup.
OwnsCard(u, m) ==
  \/ u \in Admins /\ UNCHANGED expFaults
  \/ u \notin Admins /\ NobodyElse(u, m)

\* The guard every button passes first.
Tap(h, u, m, pc) ==
  /\ hand[h].pc = "idle"
  /\ CanTap(m) /\ OwnsCard(u, m)
  /\ hand' = [hand EXCEPT ![h] = [pc |-> pc, m |-> NoMessage, old |-> m, by |-> u]]
  /\ UNCHANGED <<expNow, msg, notice, due, owner, sweep, stuck, opened, left, unowned>>

\* A tap that turns a text card into a photo or back: the card cannot be edited.
TapCard(h, u, m) == Tap(h, u, m, "open")

\* _on_close: the card is deleted.
CloseCard(h, u, m) == Tap(h, u, m, "drop")

\* The replacement is sent, then re-tracked (_retrack_group_expiry), then the old
\* card deleted.
SendReplacement(h, m) ==
  /\ hand[h].pc = "open"
  /\ Shown(m, hand[h].by)
  /\ hand' = [hand EXCEPT ![h].pc = "schedule", ![h].m = m]
  /\ UNCHANGED <<expNow, notice, due, owner, sweep, expFaults, stuck, left, unowned>>

\* The replacement cannot be sent: the card is edited instead, or the handler fails.
ReplacementFails(h) ==
  /\ Fault
  /\ hand[h].pc = "open"
  /\ hand' = [hand EXCEPT ![h] = HandIdle]
  /\ UNCHANGED <<expNow, msg, notice, due, owner, sweep, stuck, opened, left, unowned>>

\* delete_messages: nothing happens to a message that cannot be deleted.
Deleted(m) == [msg EXCEPT ![m] = IF m \in stuck THEN @ ELSE "gone"]

\* msg.delete() of a replaced or closed card, whose failure is swallowed; it keeps
\* its own entry.
DropCard(h) ==
  /\ hand[h].pc = "drop"
  /\ msg' = Deleted(hand[h].old)
  /\ hand' = [hand EXCEPT ![h] = HandIdle]
  /\ UNCHANGED <<expNow, notice, due, owner, sweep, expFaults, stuck, opened, left, unowned>>

------------------------------------------------------------------------------
(* The sweeper: _sweep_group, then _sweep_deliveries.                      *)

DueIn(q) == {m \in q : due[m] # NoScore /\ due[m] <= expNow}

\* ZRANGEBYSCORE with a limit: the lowest scores.
Batches(q) ==
  {s \in SUBSET DueIn(q) :
     /\ Cardinality(s) = IF Cardinality(DueIn(q)) < BatchLimit THEN Cardinality(DueIn(q))
                         ELSE BatchLimit
     /\ \A m \in s, k \in DueIn(q) \ s : due[m] <= due[k]}

Slip_FetchDue ==  \* takes the entries out before it has dealt with them
  \E q \in {Cards, Files} :
    /\ sweep.pc = IF q = Cards THEN "cards" ELSE "files"
    /\ \E s \in Batches(q) :
         /\ due' = [m \in Messages |-> IF m \in s THEN NoScore ELSE due[m]]
         /\ sweep' = IF s # {} THEN [SweepStart EXCEPT !.pc = "delete", !.fetched = s, !.todo = s]
                     ELSE [SweepStart EXCEPT !.pc = IF q = Cards THEN "files" ELSE "cards"]
    /\ UNCHANGED <<expNow, msg, notice, owner, hand, expFaults, stuck, opened, left, unowned>>

FetchDue ==
  \E q \in {Cards, Files} :
    /\ sweep.pc = IF q = Cards THEN "cards" ELSE "files"
    /\ \E s \in Batches(q) :
         sweep' = IF s # {} THEN [SweepStart EXCEPT !.pc = "delete", !.fetched = s, !.todo = s]
                  ELSE [SweepStart EXCEPT !.pc = IF q = Cards THEN "files" ELSE "cards"]
    /\ UNCHANGED <<expNow, msg, notice, due, owner, hand, expFaults, stuck, opened, left, unowned>>

\* The loop goes on with the rest of the batch; a file with a notice has it
\* rewritten first.
Proceed(todo) ==
  [sweep EXCEPT !.pc = IF todo = {} THEN "zrem" ELSE "delete", !.todo = todo, !.m = NoMessage]
AfterDelete(m) ==
  IF m \in Files /\ notice[m] # "none"
  THEN [sweep EXCEPT !.pc = "rewrite", !.todo = @ \ {m}, !.m = m]
  ELSE Proceed(sweep.todo \ {m})

Slip_SweepDelete ==  \* reads the notice's id where the file's is
  /\ sweep.pc = "delete"
  /\ \E m \in sweep.todo :
       /\ msg' = IF m \in Files THEN msg ELSE Deleted(m)
       /\ sweep' = AfterDelete(m)
  /\ UNCHANGED <<expNow, notice, due, owner, hand, expFaults, stuck, opened, left, unowned>>

\* delete_messages for one entry; a failure is logged and the entry counts as done.
SweepDelete ==
  /\ sweep.pc = "delete"
  /\ \E m \in sweep.todo :
       /\ msg' = Deleted(m)
       /\ left' = left \cup ({m} \cap stuck)
       /\ sweep' = AfterDelete(m)
  /\ UNCHANGED <<expNow, notice, due, owner, hand, stuck, expFaults, opened, unowned>>

\* edit_message_text on the notice, whether the file could be deleted or not.
RewriteNotice ==
  /\ sweep.pc = "rewrite"
  /\ \E failed \in BOOLEAN :
       /\ Fails(failed)
       /\ notice' = [notice EXCEPT ![sweep.m] = IF failed THEN @ ELSE "expired"]
  /\ sweep' = Proceed(sweep.todo)
  /\ UNCHANGED <<expNow, msg, due, owner, hand, stuck, opened, left, unowned>>

Slip_DropEntries ==  \* keeps what could not be deleted
  /\ sweep.pc = "zrem"
  /\ due' = [m \in Messages |-> IF m \in sweep.fetched /\ msg[m] = "gone" THEN NoScore ELSE due[m]]
  /\ sweep' = [SweepStart EXCEPT !.pc = IF sweep.fetched \subseteq Cards THEN "files" ELSE "cards"]
  /\ UNCHANGED <<expNow, msg, notice, owner, hand, expFaults, stuck, opened, left, unowned>>

\* ZREM of the whole batch.
DropEntries ==
  /\ sweep.pc = "zrem"
  /\ due' = [m \in Messages |-> IF m \in sweep.fetched THEN NoScore ELSE due[m]]
  /\ sweep' = [SweepStart EXCEPT !.pc = IF sweep.fetched \subseteq Cards THEN "files" ELSE "cards"]
  /\ UNCHANGED <<expNow, msg, notice, owner, hand, expFaults, stuck, opened, left, unowned>>

\* Redis fails under the sweeper, which sleeps and begins again with the cards.
SweepFails ==
  /\ Fault
  /\ sweep.pc \in {"cards", "files", "zrem"}
  /\ sweep' = SweepStart
  /\ UNCHANGED <<expNow, msg, notice, due, owner, hand, stuck, opened, left, unowned>>

------------------------------------------------------------------------------

\* Telegram refuses to delete a message from now on: rights lost, or too old.
BecomesStuck(m) ==
  /\ Fault
  /\ msg[m] = "shown"
  /\ stuck' = stuck \cup {m}
  /\ UNCHANGED <<expNow, msg, notice, due, owner, hand, sweep, opened, left, unowned>>

\* Handlers and sweeper die with the process; what they had sent and not yet
\* scheduled, or not yet tagged with its owner, stays that way.
ExpBotRestarts ==
  /\ Fault
  /\ hand' = [h \in Hands |-> HandIdle]
  /\ sweep' = SweepStart
  /\ left' = left \cup {hand[h].m : h \in {k \in Hands : hand[k].pc \in {"notice", "schedule"}}}
  /\ unowned' = unowned \cup {m \in Cards : \E h \in Hands :
                                hand[h].m = m /\ hand[h].pc \in {"schedule", "own"}}
  /\ UNCHANGED <<expNow, msg, notice, due, owner, stuck, opened>>

\* Redis is flushed: no entry and no record is left.
ExpRedisFlush ==
  /\ Fault
  /\ due' = [m \in Messages |-> NoScore]
  /\ owner' = [m \in Cards |-> [owner[m] EXCEPT !.until = 0]]
  /\ left' = left \cup {m \in Messages : due[m] # NoScore}
  /\ unowned' = unowned \cup {m \in Cards : owner[m].until > expNow}
  /\ UNCHANGED <<expNow, msg, notice, hand, sweep, stuck, opened>>

ExpTick ==
  /\ expNow < ExpEnd
  /\ expNow' = expNow + 1
  /\ UNCHANGED <<msg, notice, due, owner, hand, sweep, expFaults, stuck, opened, left, unowned>>

SweepStep == FetchDue \/ SweepDelete \/ RewriteNotice \/ DropEntries

ExpNext ==
  \/ \E h \in Hands :
       \/ SendNotice(h) \/ Schedule(h) \/ Remember(h) \/ DropCard(h) \/ ReplacementFails(h)
       \/ \E u \in Owners :
            \E m \in Cards : SearchCard(h, u, m) \/ TapCard(h, u, m) \/ CloseCard(h, u, m)
       \/ \E m \in Cards : SendReplacement(h, m)
       \/ \E m \in Files : DeliverFile(h, m)
  \/ SweepStep \/ SweepFails
  \/ \E m \in Messages : BecomesStuck(m)
  \/ ExpBotRestarts \/ ExpRedisFlush
  \/ ExpTick

ExpSpec == ExpInit /\ [][ExpNext]_expVars

------------------------------------------------------------------------------
(* Properties.                                                             *)

\* A message that is still shown is due some time, or about to be scheduled, unless
\* a call about it failed, a restart fell between its sending and its scheduling, or
\* Redis was flushed: no order of sends, replacements, sweeps and restarts loses one otherwise.
LeftOnlyByFault ==
  \A m \in Messages :
    msg[m] = "shown" =>
      \/ m \in left
      \/ due[m] # NoScore
      \/ \E h \in Hands : hand[h].m = m /\ hand[h].pc \in {"notice", "schedule"}

\* An entry that is due is dealt with sooner or later: no message that cannot be
\* deleted, no full batch and no queue ahead of it wedges the sweeper.
DueIsRemoved ==
  \A m \in Messages :
    (due[m] # NoScore /\ due[m] <= expNow) ~> (due[m] = NoScore)

\* The notice says that its file expired only when its time was over and the file is
\* gone, or could not be deleted.
NoticeTellsTruth ==
  \A m \in Files :
    notice[m] = "expired" =>
      /\ expNow >= opened[m].at + FileTTL
      /\ (msg[m] = "gone" \/ m \in stuck)

\* Until a card's time is over nobody drives it, that is closes or replaces it, but
\* the user whose search or tap it came from, through every replacement.  Exactly
\* these others get through: an admin; a user whose tap falls before the record is
\* written, or whose lookup fails; anyone once the record was not written or was lost
\* (callbacks._owns_card reads no record as "yes").
OnlyOwnerDrives ==
  [][\A h \in Hands, m \in Cards :
       (hand[h].pc = "idle" /\ hand'[h].old = m /\ expNow < opened[m].at + CardTTL) =>
         \/ hand'[h].by = opened[m].by
         \/ hand'[h].by \in Admins
         \/ m \in unowned
         \/ \E g \in Hands : hand[g].m = m /\ hand[g].pc \in {"schedule", "own"}
         \/ expFaults' # expFaults]_expVars

==============================================================================
