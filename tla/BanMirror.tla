------------------------------ MODULE BanMirror ------------------------------
(***************************************************************************)
(* Bans: users.is_banned in Postgres and its mirror in Redis.              *)
(* bot/guards.py, bot/handlers/moderation.py, shared/db/repos/users.py and *)
(* the start of bot/main.py.  A step is one transaction, one Redis command *)
(* or one pipeline (MULTI/EXEC); handlers interleave at every await.       *)
(***************************************************************************)
EXTENDS Naturals

CONSTANTS
  People,        \* Telegram users who are not admins
  BanTasks,      \* handler coroutines in flight at once, the start-up included
  MaxBanOps,     \* bound on admin commands
  MaxBanFaults   \* bound on flushes, restarts and handlers that raise

ASSUME BanAssumption ==
  /\ BanTasks # {} /\ People # {}
  /\ MaxBanOps \in Nat /\ MaxBanFaults \in Nat

VARIABLES
  banned,      \* users.is_banned
  mirror,      \* the Redis set "bans"
  loaded,      \* whether "bans:loaded" exists
  banTask,     \* each handler: where it awaits, and its locals
  banOps, banFaults,
  raced        \* ghost: users whose last change overlapped another write, or died

banVars == <<banned, mirror, loaded, banTask, banOps, banFaults, raced>>

BanPcs == {"idle", "sync", "read", "rebuild", "member"}

\* What a handler does once refresh_bans returns.
Afters == {"nothing", "check", "boot"}

\* flushed is a ghost: Redis lost its data while the handler was in flight.
BanRecords == [pc : BanPcs, user : People, want : BOOLEAN, after : Afters,
               cleared : SUBSET People, seen : SUBSET People, flushed : BOOLEAN]

AnyPerson == CHOOSE u \in People : TRUE
BanAt(pc, u) == [pc |-> pc, user |-> u, want |-> FALSE, after |-> "nothing",
                 cleared |-> {}, seen |-> {}, flushed |-> FALSE]
BanIdle == BanAt("idle", AnyPerson)

\* run(): the handlers already serve when refresh_bans starts.
BootTask == CHOOSE h \in BanTasks : TRUE
Booting == [h \in BanTasks |->
              IF h = BootTask THEN [BanAt("read", AnyPerson) EXCEPT !.after = "boot"]
              ELSE BanIdle]

BanTypeOK ==
  /\ banned \subseteq People /\ mirror \subseteq People
  /\ loaded \in BOOLEAN
  /\ banTask \in [BanTasks -> BanRecords]
  /\ banOps \in 0..MaxBanOps /\ banFaults \in 0..MaxBanFaults
  /\ raced \subseteq People

BanInit ==
  /\ banned = {} /\ mirror = {} /\ loaded = FALSE
  /\ banTask = Booting
  /\ banOps = 0 /\ banFaults = 0
  /\ raced = {}

BanReturn(h) == banTask' = [banTask EXCEPT ![h] = BanIdle]

------------------------------------------------------------------------------
(* Ghost bookkeeping.                                                      *)

\* Handler h has committed a change of u that the mirror has yet to see.
Owes(h, u) ==
  \/ banTask[h].pc = "sync" /\ banTask[h].user = u
  \/ u \in banTask[h].cleared

InFlight(u) == \E h \in BanTasks : Owes(h, u)

\* Another handler than h may still write the mirror from what it knows of u.
Contended(h, u) ==
  \E k \in BanTasks \ {h} : Owes(k, u) \/ banTask[k].pc = "rebuild"

\* A write of u's membership that agrees with Postgres, with no other one due,
\* repairs whatever a race left behind.
Repaired(h, u, member) == (u \in banned <=> member) /\ ~Contended(h, u)

------------------------------------------------------------------------------
(* Admin commands.                                                         *)

\* _apply_ban: the transaction.
SetBanned(h, u, want) ==
  /\ banTask[h].pc = "idle"
  /\ banOps < MaxBanOps
  /\ banned' = IF want THEN banned \cup {u} ELSE banned \ {u}
  /\ banTask' = [banTask EXCEPT ![h] = [BanAt("sync", u) EXCEPT !.want = want]]
  /\ raced' = IF Contended(h, u) THEN raced \cup {u} ELSE raced
  /\ banOps' = banOps + 1
  /\ UNCHANGED <<mirror, loaded, banFaults>>

\* sync_ban: SADD or SREM.
SyncBan(h) ==
  /\ banTask[h].pc = "sync"
  /\ LET user == banTask[h].user
         want == banTask[h].want
     IN /\ mirror' = IF want THEN mirror \cup {user} ELSE mirror \ {user}
        /\ raced' = {u \in raced : u # user \/ ~Repaired(h, u, want)}
  /\ BanReturn(h)
  /\ UNCHANGED <<banned, loaded, banOps, banFaults>>

UnbanAll(h) ==
  /\ banTask[h].pc = "idle"
  /\ banOps < MaxBanOps
  /\ banned' = {}
  /\ banTask' = [banTask EXCEPT ![h] = [BanAt("read", AnyPerson) EXCEPT !.cleared = banned]]
  /\ raced' = raced \cup {u \in banned : Contended(h, u)}
  /\ banOps' = banOps + 1
  /\ UNCHANGED <<mirror, loaded, banFaults>>

------------------------------------------------------------------------------
(* refresh_bans and is_banned.                                             *)

\* The SELECT.
ReadBanned(h) ==
  /\ banTask[h].pc = "read"
  /\ banTask' = [banTask EXCEPT ![h].pc = "rebuild", ![h].seen = banned]
  /\ UNCHANGED <<banned, mirror, loaded, banOps, banFaults, raced>>

Slip_Rebuild(h) ==  \* adds what it read without the DEL
  /\ banTask[h].pc = "rebuild"
  /\ mirror' = mirror \cup banTask[h].seen
  /\ loaded' = TRUE
  /\ raced' = {u \in raced : ~Repaired(h, u, u \in banTask[h].seen)}
  /\ banTask' = [banTask EXCEPT ![h] = IF @.after = "check" THEN BanAt("member", @.user)
                                       ELSE BanIdle]
  /\ UNCHANGED <<banned, banOps, banFaults>>

\* The pipeline: DEL, SADD, SET of the marker.
Rebuild(h) ==
  /\ banTask[h].pc = "rebuild"
  /\ mirror' = banTask[h].seen
  /\ loaded' = TRUE
  /\ raced' = {u \in raced : ~Repaired(h, u, u \in banTask[h].seen)}
  /\ banTask' = [banTask EXCEPT ![h] = IF @.after = "check" THEN BanAt("member", @.user)
                                       ELSE BanIdle]
  /\ UNCHANGED <<banned, banOps, banFaults>>

Slip_CheckLoaded(h, u) ==  \* takes an empty set for "nobody is banned"
  /\ banTask[h].pc = "idle"
  /\ banTask' = [banTask EXCEPT ![h] = BanAt("member", u)]
  /\ UNCHANGED <<banned, mirror, loaded, banOps, banFaults, raced>>

\* A message or a tap of u: EXISTS of the marker.
CheckLoaded(h, u) ==
  /\ banTask[h].pc = "idle"
  /\ banTask' = [banTask EXCEPT ![h] =
       IF loaded THEN BanAt("member", u)
       ELSE [BanAt("read", u) EXCEPT !.after = "check"]]
  /\ UNCHANGED <<banned, mirror, loaded, banOps, banFaults, raced>>

\* SISMEMBER; u is let through when absent.
CheckMember(h) ==
  /\ banTask[h].pc = "member"
  /\ BanReturn(h)
  /\ UNCHANGED <<banned, mirror, loaded, banOps, banFaults, raced>>

------------------------------------------------------------------------------
(* Faults.                                                                 *)

RedisFlush ==
  /\ banFaults < MaxBanFaults
  /\ mirror' = {} /\ loaded' = FALSE
  /\ banTask' = [h \in BanTasks |-> [banTask[h] EXCEPT !.flushed = @ \/ banTask[h].pc # "idle"]]
  /\ banFaults' = banFaults + 1
  /\ UNCHANGED <<banned, banOps, raced>>

\* Postgres or Redis fails a handler between two of its steps.
BanTaskDies(h) ==
  /\ banFaults < MaxBanFaults
  /\ banTask[h].pc # "idle" /\ banTask[h].after # "boot"
  /\ BanReturn(h)
  /\ raced' = raced \cup {u \in People : Owes(h, u)}
  /\ banFaults' = banFaults + 1
  /\ UNCHANGED <<banned, mirror, loaded, banOps>>

\* The process dies, or its start-up does, and it is started again.
BanBotRestarts ==
  /\ banFaults < MaxBanFaults
  /\ banTask' = Booting
  /\ raced' = raced \cup {u \in People : InFlight(u)}
  /\ banFaults' = banFaults + 1
  /\ UNCHANGED <<banned, mirror, loaded, banOps>>

------------------------------------------------------------------------------

BanStep(h) == SyncBan(h) \/ ReadBanned(h) \/ Rebuild(h) \/ CheckMember(h)

BanNext ==
  \/ \E h \in BanTasks :
       \/ BanStep(h)
       \/ UnbanAll(h)
       \/ BanTaskDies(h)
       \/ \E u \in People :
            \/ CheckLoaded(h, u)
            \/ \E want \in BOOLEAN : SetBanned(h, u, want)
  \/ RedisFlush
  \/ BanBotRestarts

BanSpec == BanInit /\ [][BanNext]_banVars

------------------------------------------------------------------------------
(* Properties.                                                             *)

\* A mirror that was built agrees with Postgres about everybody but those whose
\* change is still on its way, or whose change overlapped another write of the
\* mirror or died half-way; a later change or rebuild that runs alone repairs them.
\* (guards.sync_ban and refresh_bans write after the commit, from older reads.)
MirrorAgreesUnlessRaced ==
  loaded => \A u \in People \ raced :
              InFlight(u) \/ (u \in mirror <=> u \in banned)

\* A handler about to ask the mirror lets a banned user through only in such a
\* race, or when Redis was flushed after it had found the marker: "nobody is banned"
\* is never read out of a mirror that was not built (guards.is_banned).
BannedStayOut ==
  \A h \in BanTasks :
    (banTask[h].pc = "member" /\ banTask[h].user \in banned \ mirror) =>
      \/ banTask[h].flushed
      \/ banTask[h].user \in raced
      \/ InFlight(banTask[h].user)

==============================================================================
