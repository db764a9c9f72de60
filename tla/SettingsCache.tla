---------------------------- MODULE SettingsCache ----------------------------
(***************************************************************************)
(* Runtime settings: bot_settings rows and their copies in Redis.          *)
(* shared/settings_store.py and the commands of                            *)
(* bot/handlers/access_admin.py that write them.  A step is one            *)
(* transaction or one Redis command, of either process.                    *)
(***************************************************************************)
EXTENDS Naturals, Sequences

CONSTANTS
  Keys,         \* setting keys
  Api, Gate,    \* SHORTENER_API and GATE_ENABLED among them
  Base,         \* SHORTENER_BASE; it also stands for the keys read and set alone
  Values,       \* what an admin may give a free-form setting
  On, Off,      \* the gate's "1" and "0"
  Unset,        \* no row
  Empty,        \* no copy in Redis
  CfgTasks,     \* handler coroutines in flight at once, of both processes
  MaxCfgOps,    \* bound on admin commands
  MaxCfgFaults  \* bound on handlers that raise

ASSUME SettingsAssumption ==
  /\ Keys = {Api, Base, Gate}
  /\ Api # Base /\ Api # Gate /\ Base # Gate
  /\ Values # {} /\ On # Off
  /\ Unset \notin Values \cup {On, Off} \cup {Empty}
  /\ Empty \notin Values \cup {On, Off}
  /\ MaxCfgOps \in Nat /\ MaxCfgFaults \in Nat

VARIABLES
  setting,   \* bot_settings: value of each key, or Unset
  copy,      \* Redis cfg:<key>; Unset is the sentinel _MISSING
  cfgTask,   \* each handler: where it awaits, and its locals
  cfgOps, cfgFaults,
  late       \* ghost: keys whose copy a write may have missed

cfgVars == <<setting, copy, cfgTask, cfgOps, cfgFaults, late>>

\* get_setting: get, select, fill.  set_setting and clear_setting: commit, drop.
CfgPcs == {"idle", "get", "select", "fill", "commit", "drop"}

\* What the handler goes on to do: a plain read, or /shortlink on.
Thens == {"nothing", "base", "turnon"}

RowValues(k) == {Unset} \cup (IF k = Gate THEN {On, Off} ELSE Values)

\* crossed is a ghost: the key was committed after this handler had read it.
CfgRecords == [pc : CfgPcs, key : Keys, val : UNION {RowValues(k) : k \in Keys}, then : Thens,
               after : {<<>>} \cup {<<v>> : v \in Values}, crossed : BOOLEAN]

CfgAt(pc, k, v) == [pc |-> pc, key |-> k, val |-> v, then |-> "nothing",
                    after |-> <<>>, crossed |-> FALSE]
CfgIdle == CfgAt("idle", Api, Unset)

CfgTypeOK ==
  /\ DOMAIN setting = Keys /\ DOMAIN copy = Keys
  /\ \A k \in Keys : setting[k] \in RowValues(k) /\ copy[k] \in RowValues(k) \cup {Empty}
  /\ cfgTask \in [CfgTasks -> CfgRecords]
  /\ cfgOps \in 0..MaxCfgOps /\ cfgFaults \in 0..MaxCfgFaults
  /\ late \subseteq Keys

CfgInit ==
  /\ setting = [k \in Keys |-> Unset]
  /\ copy = [k \in Keys |-> Empty]
  /\ cfgTask = [h \in CfgTasks |-> CfgIdle]
  /\ cfgOps = 0 /\ cfgFaults = 0
  /\ late = {}

CfgGoto(h, rec) == cfgTask' = [cfgTask EXCEPT ![h] = rec]

------------------------------------------------------------------------------
(* get_setting.                                                            *)

\* What a handler does with the value it got: shortener_config() reads the base
\* next, and /shortlink on refuses unless there is a token.
Got(t, v) ==
  CASE t.then = "base" ->
         IF v = Unset THEN CfgIdle ELSE [CfgAt("get", Base, Unset) EXCEPT !.then = "turnon"]
    [] t.then = "turnon" -> CfgAt("commit", Gate, On)
    [] OTHER -> CfgIdle

\* Any caller: gate_enabled, access_hours, poster_mode, /showconfig, and the reads
\* that commands make for the wording of their answers.
Read(h, k) ==
  /\ cfgTask[h].pc = "idle"
  /\ CfgGoto(h, CfgAt("get", k, Unset))
  /\ UNCHANGED <<setting, copy, cfgOps, cfgFaults, late>>

GetCopy(h) ==
  /\ cfgTask[h].pc = "get"
  /\ LET t == cfgTask[h] IN
       CfgGoto(h, IF copy[t.key] = Empty THEN [t EXCEPT !.pc = "select"]
                  ELSE Got(t, copy[t.key]))
  /\ UNCHANGED <<setting, copy, cfgOps, cfgFaults, late>>

SelectRow(h) ==
  /\ cfgTask[h].pc = "select"
  /\ CfgGoto(h, [cfgTask[h] EXCEPT !.pc = "fill", !.val = setting[cfgTask[h].key]])
  /\ UNCHANGED <<setting, copy, cfgOps, cfgFaults, late>>

Slip_FillCopy(h) ==  \* fills under the wrong key
  /\ cfgTask[h].pc = "fill"
  /\ LET t == cfgTask[h] IN
       /\ copy' = [copy EXCEPT ![Api] = t.val]
       /\ late' = IF t.crossed THEN late \cup {t.key} ELSE late \ {t.key}
       /\ CfgGoto(h, Got(t, t.val))
  /\ UNCHANGED <<setting, cfgOps, cfgFaults>>

FillCopy(h) ==
  /\ cfgTask[h].pc = "fill"
  /\ LET t == cfgTask[h] IN
       /\ copy' = [copy EXCEPT ![t.key] = t.val]
       /\ late' = IF t.crossed THEN late \cup {t.key} ELSE late \ {t.key}
       /\ CfgGoto(h, Got(t, t.val))
  /\ UNCHANGED <<setting, cfgOps, cfgFaults>>

Slip_ExpireCopy(k) == FALSE  \* the fill gives the key no ex

\* _CACHE_TTL.
ExpireCopy(k) ==
  /\ copy[k] # Empty
  /\ copy' = [copy EXCEPT ![k] = Empty]
  /\ late' = late \ {k}
  /\ UNCHANGED <<setting, cfgTask, cfgOps, cfgFaults>>

------------------------------------------------------------------------------
(* set_setting, clear_setting and the commands.                            *)

Command(h, rec) ==
  /\ cfgTask[h].pc = "idle"
  /\ cfgOps < MaxCfgOps
  /\ CfgGoto(h, rec)
  /\ cfgOps' = cfgOps + 1
  /\ UNCHANGED <<setting, copy, cfgFaults, late>>

\* /setlog, /setaccesshours, /postermode, /funmode, each on a key of its own; only
\* /setlog off clears.
SetPlain(h) == \E v \in Values \cup {Unset} : Command(h, CfgAt("commit", Base, v))

\* /setshortener: the token, then, if given, the url, as two settings.
SetShortener(h) ==
  \E v \in Values, urls \in {<<>>} \cup {<<w>> : w \in Values} :
    Command(h, [CfgAt("commit", Api, v) EXCEPT !.after = urls])

ShortlinkOff(h) == Command(h, CfgAt("commit", Gate, Off))

\* /shortlink on: shortener_config() first.
ShortlinkOn(h) == Command(h, [CfgAt("get", Api, Unset) EXCEPT !.then = "base"])

\* The transaction.  Whoever has read the row and not yet filled the copy now holds
\* an old value.
Commit(h) ==
  /\ cfgTask[h].pc = "commit"
  /\ LET key == cfgTask[h].key IN
       /\ setting' = [setting EXCEPT ![key] = cfgTask[h].val]
       /\ cfgTask' = [g \in CfgTasks |->
            IF g = h THEN [cfgTask[g] EXCEPT !.pc = "drop"]
            ELSE [cfgTask[g] EXCEPT !.crossed =
                    @ \/ (cfgTask[g].pc = "fill" /\ cfgTask[g].key = key)]]
  /\ UNCHANGED <<copy, cfgOps, cfgFaults, late>>

Dropped(t) ==
  IF t.after = <<>> THEN CfgIdle ELSE CfgAt("commit", Base, Head(t.after))

DropCopy(h) ==
  /\ cfgTask[h].pc = "drop"
  /\ copy' = [copy EXCEPT ![cfgTask[h].key] = Empty]
  /\ late' = late \ {cfgTask[h].key}
  /\ CfgGoto(h, Dropped(cfgTask[h]))
  /\ UNCHANGED <<setting, cfgOps, cfgFaults>>

------------------------------------------------------------------------------

\* A database or Redis error, or the end of the process: the handler stops where it
\* is.  Between the commit and the DEL that leaves the old copy behind.
CfgTaskDies(h) ==
  /\ cfgFaults < MaxCfgFaults
  /\ cfgTask[h].pc # "idle"
  /\ late' = IF cfgTask[h].pc = "drop" /\ copy[cfgTask[h].key] # Empty
             THEN late \cup {cfgTask[h].key} ELSE late
  /\ CfgGoto(h, CfgIdle)
  /\ cfgFaults' = cfgFaults + 1
  /\ UNCHANGED <<setting, copy, cfgOps>>

CfgStep(h) == GetCopy(h) \/ SelectRow(h) \/ FillCopy(h) \/ Commit(h) \/ DropCopy(h)

CfgNext ==
  \/ \E h \in CfgTasks :
       \/ CfgStep(h)
       \/ SetPlain(h) \/ SetShortener(h) \/ ShortlinkOn(h) \/ ShortlinkOff(h)
       \/ CfgTaskDies(h)
       \/ \E k \in Keys : Read(h, k)
  \/ \E k \in Keys : ExpireCopy(k)

CfgSpec == CfgInit /\ [][CfgNext]_cfgVars

------------------------------------------------------------------------------
(* Properties.                                                             *)

\* A copy differs from the row only while the writer is between its commit and its
\* DEL, or when a read that had begun before the commit filled it afterwards, or the
\* writer died in between.  (get_setting fills with what it selected earlier.)
StaleOnlyByOverlap ==
  \A k \in Keys :
    (copy[k] \notin {Empty, setting[k]}) =>
      \/ k \in late
      \/ \E h \in CfgTasks : cfgTask[h].pc = "drop" /\ cfgTask[h].key = k

\* Once the admins stop, every copy becomes true and stays true: no fill, fault or
\* race outlives the TTL.
CopiesConverge ==
  <>[](\A k \in Keys : copy[k] \in {Empty, setting[k]})

==============================================================================
