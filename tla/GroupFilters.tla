---------------------------- MODULE GroupFilters ----------------------------
(***************************************************************************)
(* One group: its row, its keyword filters and their copy in Redis.        *)
(* bot/handlers/group_filters.py, bot/handlers/groups.py and the           *)
(* repositories behind them (shared/db/repos/filters.py, groups.py).       *)
(***************************************************************************)
EXTENDS Naturals, FiniteSets

CONSTANTS
  Words,         \* keywords
  Cap,           \* max_filters_per_group
  GrpTasks,      \* handler coroutines in flight at once
  MaxGrpOps,     \* bound on commands, joins and removals
  MaxGrpFaults   \* bound on handlers that raise and updates that are missed

ASSUME FiltersAssumption ==
  /\ IsFiniteSet(Words) /\ Words # {} /\ Cap \in Nat
  /\ MaxGrpOps \in Nat /\ MaxGrpFaults \in Nat

VARIABLES
  rows,       \* keywords with a row in filters
  rowsCopy,   \* the mapping cached in Redis, as a set of at most one
  group,      \* the row in groups: absent, active, inactive
  member,     \* whether the bot is in the chat
  seenKey,    \* grp:seen:<group>, the claim of touch_group
  grpTask, grpOps, grpFaults,
  lateAdds,   \* ghost: filters added on a mapping that was out of date
  overtaken   \* ghost: the removal overlapped a handler, was missed, or died

grpVars == <<rows, rowsCopy, group, member, seenKey, grpTask, grpOps, grpFaults,
             lateAdds, overtaken>>

GrpPcs == {"idle", "touch", "record", "deactivate", "get", "select", "fill",
           "insert", "drop"}

\* basis is the mapping the handler works with: of a filling handler what it
\* selected, of an inserting one what it checked the cap against.
GrpRecords == [pc : GrpPcs, adding : BOOLEAN, word : Words, basis : SUBSET Words]

AnyWord == CHOOSE w \in Words : TRUE
GrpAt(pc) == [pc |-> pc, adding |-> FALSE, word |-> AnyWord, basis |-> {}]

GrpTypeOK ==
  /\ rows \subseteq Words
  /\ rowsCopy \in {{}} \cup {{m} : m \in SUBSET Words}
  /\ group \in {"absent", "active", "inactive"}
  /\ member \in BOOLEAN /\ seenKey \in BOOLEAN /\ overtaken \in BOOLEAN
  /\ grpTask \in [GrpTasks -> GrpRecords]
  /\ grpOps \in 0..MaxGrpOps /\ grpFaults \in 0..MaxGrpFaults
  /\ lateAdds \in Nat

\* A group the bot was in before anybody kept books.
GrpInit ==
  /\ rows = {} /\ rowsCopy = {}
  /\ group = "absent" /\ member = TRUE /\ seenKey = FALSE
  /\ grpTask = [h \in GrpTasks |-> GrpAt("idle")]
  /\ grpOps = 0 /\ grpFaults = 0
  /\ lateAdds = 0 /\ overtaken = FALSE

GrpGoto(h, rec) == grpTask' = [grpTask EXCEPT ![h] = rec]
GrpReturn(h) == GrpGoto(h, GrpAt("idle"))

\* A handler is about to mark the group active.
WillActivate(h) ==
  grpTask[h].pc \in {"touch", "record", "insert"} \/ grpTask[h].adding

------------------------------------------------------------------------------
(* touch_group and the membership handlers.                                *)

\* _on_group_text: every text in the group, a command or not.
GroupText(h) ==
  /\ member
  /\ grpTask[h].pc = "idle"
  /\ GrpGoto(h, GrpAt("touch"))
  /\ UNCHANGED <<rows, rowsCopy, group, member, seenKey, grpOps, grpFaults, lateAdds, overtaken>>

\* SET NX EX: the one that sets the key records the group.  A text that begins with
\* "/" is of no further interest here.
Touch(h) ==
  /\ grpTask[h].pc = "touch"
  /\ seenKey' = TRUE
  /\ IF seenKey THEN \E next \in {"get", "idle"} : GrpGoto(h, GrpAt(next))
     ELSE GrpGoto(h, GrpAt("record"))
  /\ UNCHANGED <<rows, rowsCopy, group, member, grpOps, grpFaults, lateAdds, overtaken>>

\* upsert_group.  The text that claimed the key may go on to the filters; the welcome
\* of a group just joined does not, nor does a command.
Record(h) ==
  /\ grpTask[h].pc = "record"
  /\ group' = "active"
  /\ \E next \in {"get", "idle"} : GrpGoto(h, GrpAt(next))
  /\ UNCHANGED <<rows, rowsCopy, member, seenKey, grpOps, grpFaults, lateAdds, overtaken>>

Slip_SeenExpires == FALSE  \* the claim is set without an ex

SeenExpires ==
  /\ seenKey
  /\ seenKey' = FALSE
  /\ UNCHANGED <<rows, rowsCopy, group, member, grpTask, grpOps, grpFaults, lateAdds, overtaken>>

Added(h) ==
  /\ ~member /\ grpOps < MaxGrpOps
  /\ grpTask[h].pc = "idle"
  /\ member' = TRUE
  /\ GrpGoto(h, GrpAt("record"))
  /\ grpOps' = grpOps + 1
  /\ UNCHANGED <<rows, rowsCopy, group, seenKey, grpFaults, lateAdds, overtaken>>

Removed(h) ==
  /\ member /\ grpOps < MaxGrpOps
  /\ grpTask[h].pc = "idle"
  /\ member' = FALSE
  /\ GrpGoto(h, GrpAt("deactivate"))
  /\ overtaken' = (overtaken \/ \E k \in GrpTasks : WillActivate(k))
  /\ grpOps' = grpOps + 1
  /\ UNCHANGED <<rows, rowsCopy, group, seenKey, grpFaults, lateAdds>>

Slip_Deactivate(h) ==  \* goes through upsert_group, which always marks it active
  /\ grpTask[h].pc = "deactivate"
  /\ group' = "active"
  /\ GrpReturn(h)
  /\ UNCHANGED <<rows, rowsCopy, member, seenKey, grpOps, grpFaults, lateAdds, overtaken>>

\* set_active(False): an UPDATE, which finds no row of an unrecorded group.
Deactivate(h) ==
  /\ grpTask[h].pc = "deactivate"
  /\ group' = IF group = "absent" THEN group ELSE "inactive"
  /\ GrpReturn(h)
  /\ UNCHANGED <<rows, rowsCopy, member, seenKey, grpOps, grpFaults, lateAdds, overtaken>>

------------------------------------------------------------------------------
(* Filters.                                                                *)

AddFilter(h, w) ==
  /\ member /\ grpOps < MaxGrpOps
  /\ grpTask[h].pc = "idle"
  /\ GrpGoto(h, [GrpAt("get") EXCEPT !.adding = TRUE, !.word = w])
  /\ grpOps' = grpOps + 1
  /\ UNCHANGED <<rows, rowsCopy, group, member, seenKey, grpFaults, lateAdds, overtaken>>

\* /filters.
ListFilters(h) ==
  /\ member
  /\ grpTask[h].pc = "idle"
  /\ GrpGoto(h, GrpAt("get"))
  /\ UNCHANGED <<rows, rowsCopy, group, member, seenKey, grpOps, grpFaults, lateAdds, overtaken>>

Slip_Loaded(t, mapping) ==  \* one too many
  IF t.adding /\ (t.word \in mapping \/ Cardinality(mapping) <= Cap)
  THEN [t EXCEPT !.pc = "insert", !.basis = mapping]
  ELSE GrpAt("idle")

\* What follows _load_filters: a text is matched and answered or handed on; /filter
\* refuses a new keyword in a full group.
Loaded(t, mapping) ==
  IF t.adding /\ (t.word \in mapping \/ Cardinality(mapping) < Cap)
  THEN [t EXCEPT !.pc = "insert", !.basis = mapping]
  ELSE GrpAt("idle")

GetFilters(h) ==
  /\ grpTask[h].pc = "get"
  /\ \/ rowsCopy = {} /\ GrpGoto(h, [grpTask[h] EXCEPT !.pc = "select"])
     \/ \E mapping \in rowsCopy : GrpGoto(h, Loaded(grpTask[h], mapping))
  /\ UNCHANGED <<rows, rowsCopy, group, member, seenKey, grpOps, grpFaults, lateAdds, overtaken>>

SelectFilters(h) ==
  /\ grpTask[h].pc = "select"
  /\ GrpGoto(h, [grpTask[h] EXCEPT !.pc = "fill", !.basis = rows])
  /\ UNCHANGED <<rows, rowsCopy, group, member, seenKey, grpOps, grpFaults, lateAdds, overtaken>>

FillFilters(h) ==
  /\ grpTask[h].pc = "fill"
  /\ rowsCopy' = {grpTask[h].basis}
  /\ GrpGoto(h, Loaded(grpTask[h], grpTask[h].basis))
  /\ UNCHANGED <<rows, group, member, seenKey, grpOps, grpFaults, lateAdds, overtaken>>

\* filter_cache_ttl.
FiltersExpire ==
  /\ rowsCopy # {}
  /\ rowsCopy' = {}
  /\ UNCHANGED <<rows, group, member, seenKey, grpTask, grpOps, grpFaults, lateAdds, overtaken>>

\* upsert_group and add_filter, in one transaction; the keyword's row is replaced if
\* there is one.
InsertFilter(h) ==
  /\ grpTask[h].pc = "insert"
  /\ LET t == grpTask[h] IN
       /\ rows' = rows \cup {t.word}
       /\ lateAdds' = IF t.word \in rows \/ t.basis = rows THEN lateAdds ELSE lateAdds + 1
  /\ group' = "active"
  /\ GrpGoto(h, GrpAt("drop"))
  /\ UNCHANGED <<rowsCopy, member, seenKey, grpOps, grpFaults, overtaken>>

\* /stop and /stopall.
Stop(h, words) ==
  /\ member /\ grpOps < MaxGrpOps
  /\ grpTask[h].pc = "idle"
  /\ rows' = rows \ words
  /\ GrpGoto(h, GrpAt("drop"))
  /\ grpOps' = grpOps + 1
  /\ UNCHANGED <<rowsCopy, group, member, seenKey, grpFaults, lateAdds, overtaken>>

Invalidate(h) ==
  /\ grpTask[h].pc = "drop"
  /\ rowsCopy' = {}
  /\ GrpReturn(h)
  /\ UNCHANGED <<rows, group, member, seenKey, grpOps, grpFaults, lateAdds, overtaken>>

------------------------------------------------------------------------------

\* A handler raises where it is, or the bot is restarted under it.
GrpTaskDies(h) ==
  /\ grpFaults < MaxGrpFaults
  /\ grpTask[h].pc # "idle"
  /\ overtaken' = (overtaken \/ grpTask[h].pc = "deactivate")
  /\ GrpReturn(h)
  /\ grpFaults' = grpFaults + 1
  /\ UNCHANGED <<rows, rowsCopy, group, member, seenKey, grpOps, lateAdds>>

\* The bot is offline while it is added or removed.
MembershipMissed ==
  /\ grpFaults < MaxGrpFaults
  /\ member' = ~member
  /\ overtaken' = (overtaken \/ member)
  /\ grpFaults' = grpFaults + 1
  /\ UNCHANGED <<rows, rowsCopy, group, seenKey, grpTask, grpOps, lateAdds>>

GrpStep(h) ==
  \/ Touch(h) \/ Record(h) \/ Deactivate(h)
  \/ GetFilters(h) \/ SelectFilters(h) \/ FillFilters(h)
  \/ InsertFilter(h) \/ Invalidate(h)

GrpNext ==
  \/ \E h \in GrpTasks :
       \/ GrpStep(h) \/ GroupText(h) \/ ListFilters(h) \/ Added(h) \/ Removed(h) \/ GrpTaskDies(h)
       \/ Stop(h, Words)
       \/ \E w \in Words : AddFilter(h, w) \/ Stop(h, {w})
  \/ SeenExpires \/ FiltersExpire \/ MembershipMissed

GrpSpec == GrpInit /\ [][GrpNext]_grpVars

------------------------------------------------------------------------------
(* Properties.                                                             *)

\* The cap is passed only by filters that were checked against a mapping which was no
\* longer the group's when they were inserted, and by no more than one for each.
CapExceededOnlyByOverlap == Cardinality(rows) <= Cap + lateAdds

\* A group counts as active while the bot is out of it only until the removal is
\* written, or when that removal raced with a handler that records the group, was
\* missed or failed.
ActiveMeansMember ==
  (group = "active" /\ ~member) =>
    \/ overtaken
    \/ \E h \in GrpTasks : grpTask[h].pc = "deactivate"

\* A group where the bot stays and people keep writing is recorded sooner or later,
\* even if the handler that claimed the day's write died before it wrote.
GroupGetsRecorded ==
  (<>[]member /\ []<><<\E h \in GrpTasks : GroupText(h)>>_grpVars)
    => <>(group # "absent")

==============================================================================
