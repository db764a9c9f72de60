---------------------------- MODULE Mirrors_proofs ----------------------------
(***************************************************************************)
(* Proofs about the copies in Redis: the bans, the settings, the group     *)
(* filters, and Mirrors, which composes them.  They hold for any people,   *)
(* values, keywords, cap, handlers, commands and faults.                   *)
(***************************************************************************)
EXTENDS Mirrors, FiniteSetTheorems, TLAPS

------------------------------------------------------------------------------
(* Bans: what a handler may rely on between its awaits.                    *)

\* Only /unbanall owes more than one user, and until its rebuild.
ClearedHeld ==
  \A h \in BanTasks : banTask[h].cleared # {} => banTask[h].pc \in {"read", "rebuild"}

\* What a handler is about to write into the mirror is what Postgres says of anybody
\* who has not been raced.
SeenIsTrue ==
  \A h \in BanTasks : banTask[h].pc = "rebuild" =>
    \A u \in People \ raced : u \in banTask[h].seen <=> u \in banned
WantIsTrue ==
  \A h \in BanTasks : (banTask[h].pc = "sync" /\ banTask[h].user \notin raced) =>
    (banTask[h].want <=> banTask[h].user \in banned)

\* The mirror is asked only after it was found or made.
MemberBuilt ==
  \A h \in BanTasks : banTask[h].pc = "member" => loaded \/ banTask[h].flushed

BanLinks == ClearedHeld /\ SeenIsTrue /\ WantIsTrue /\ MemberBuilt
BanIInv == BanTypeOK /\ BanLinks /\ MirrorAgreesUnlessRaced

------------------------------------------------------------------------------
LEMMA AnyPersonType == AnyPerson \in People
  BY BanAssumption DEF AnyPerson

\* A handler's locals at a fresh start are well typed, and owe nothing.
LEMMA BanAtType ==
  ASSUME NEW pc \in BanPcs, NEW u \in People
  PROVE  /\ BanAt(pc, u) \in BanRecords
         /\ BanAt(pc, u).pc = pc /\ BanAt(pc, u).user = u
         /\ BanAt(pc, u).cleared = {}
         /\ BanAt(pc, u).flushed = FALSE
  BY DEF BanAt, BanRecords, Afters

LEMMA BanIdleType ==
  BanIdle \in BanRecords /\ BanIdle.pc = "idle" /\ BanIdle.cleared = {}
  BY AnyPersonType, BanAtType DEF BanIdle, BanPcs

\* At start-up one handler is about to read, and the others are idle.
LEMMA BootingType ==
  /\ Booting \in [BanTasks -> BanRecords]
  /\ \A h \in BanTasks : Booting[h].pc \in {"read", "idle"} /\ Booting[h].cleared = {}
<1> DEFINE boot == [BanAt("read", AnyPerson) EXCEPT !.after = "boot"]
<1>1. boot \in BanRecords /\ boot.pc = "read" /\ boot.cleared = {}
  BY AnyPersonType DEF BanAt, BanRecords, BanPcs, Afters
<1> HIDE DEF boot
<1>2. Booting = [h \in BanTasks |-> IF h = BootTask THEN boot ELSE BanIdle]
  BY DEF Booting, boot
<1> QED  BY <1>1, <1>2, BanIdleType

\* Where a rebuild leaves its handler.
LEMMA RebuiltType ==
  ASSUME NEW w \in BanRecords
  PROVE  LET r == IF w.after = "check" THEN BanAt("member", w.user) ELSE BanIdle
         IN r \in BanRecords /\ r.pc \in {"member", "idle"} /\ r.cleared = {}
<1>1. w.user \in People /\ "member" \in BanPcs
  BY DEF BanRecords, BanPcs
<1> QED  BY <1>1, BanAtType, BanIdleType

------------------------------------------------------------------------------
(* Bans: initial states and steps.                                         *)

LEMMA BanInitIInv == BanInit => BanIInv
<1> SUFFICES ASSUME BanInit PROVE BanIInv
  OBVIOUS
<1>1. BanTypeOK
  <2>1. loaded \in BOOLEAN
    BY DEF BanInit
  <2>2. banOps \in 0..MaxBanOps /\ banFaults \in 0..MaxBanFaults
    BY BanAssumption DEF BanInit
  <2> QED  BY <2>1, <2>2, BootingType DEF BanInit, BanTypeOK
<1>2. BanLinks
  BY BootingType DEF BanInit, BanLinks, ClearedHeld, SeenIsTrue, WantIsTrue, MemberBuilt
<1>3. MirrorAgreesUnlessRaced
  BY DEF BanInit, MirrorAgreesUnlessRaced
<1> QED  BY <1>1, <1>2, <1>3 DEF BanIInv

LEMMA SetBannedStep ==
  ASSUME BanIInv, NEW h \in BanTasks, NEW u \in People, NEW want \in BOOLEAN,
         SetBanned(h, u, want)
  PROVE  BanIInv'
<1> DEFINE rec == [BanAt("sync", u) EXCEPT !.want = want]
<1>1. rec \in BanRecords /\ rec.pc = "sync" /\ rec.user = u /\ rec.want = want /\ rec.cleared = {}
  BY DEF BanAt, BanRecords, BanPcs, Afters
<1> HIDE DEF rec
<1>2. banTask' = [banTask EXCEPT ![h] = rec] /\ banTask[h].pc = "idle"
  BY DEF SetBanned, rec
<1>3. /\ banTask'[h] = rec
      /\ \A k \in BanTasks \ {h} : banTask'[k] = banTask[k]
      /\ banTask' \in [BanTasks -> BanRecords]
  BY <1>1, <1>2 DEF BanIInv, BanTypeOK
<1>4. /\ \A v \in People \ {u} : v \in banned' <=> v \in banned
      /\ u \in banned' <=> want
      /\ raced' = IF Contended(h, u) THEN raced \cup {u} ELSE raced
      /\ UNCHANGED <<mirror, loaded>>
  BY DEF SetBanned
<1>5. BanTypeOK'
  BY <1>3, BanAssumption DEF SetBanned, BanIInv, BanTypeOK
<1>6. ClearedHeld' /\ MemberBuilt'
  BY <1>1, <1>3, <1>4 DEF BanIInv, BanLinks, ClearedHeld, MemberBuilt
<1>7. SeenIsTrue'
  BY <1>1, <1>3, <1>4 DEF BanIInv, BanLinks, SeenIsTrue, Contended
<1>8. WantIsTrue'
  BY <1>1, <1>3, <1>4 DEF BanIInv, BanLinks, WantIsTrue, Contended, Owes, BanTypeOK, BanRecords
<1>9. MirrorAgreesUnlessRaced'
  <2>1. Owes(h, u)'
    BY <1>1, <1>3 DEF Owes
  <2>2. ASSUME NEW v \in People, InFlight(v)
        PROVE  InFlight(v)'
    <3>1. ~Owes(h, v)
      BY <1>2 DEF Owes, BanIInv, BanLinks, ClearedHeld
    <3> QED  BY <2>2, <3>1, <1>3 DEF InFlight, Owes
  <2> QED  BY <2>1, <2>2, <1>4 DEF BanIInv, MirrorAgreesUnlessRaced, InFlight
<1> QED  BY <1>5, <1>6, <1>7, <1>8, <1>9 DEF BanIInv, BanLinks

LEMMA SyncBanStep ==
  ASSUME BanIInv, NEW h \in BanTasks, SyncBan(h)
  PROVE  BanIInv'
<1> DEFINE user == banTask[h].user
           want == banTask[h].want
<1>1. user \in People /\ want \in BOOLEAN /\ banTask[h].pc = "sync" /\ banTask[h].cleared = {}
  BY DEF SyncBan, BanIInv, BanLinks, ClearedHeld, BanTypeOK, BanRecords
<1>2. /\ banTask'[h].pc = "idle" /\ banTask'[h].cleared = {}
      /\ \A k \in BanTasks \ {h} : banTask'[k] = banTask[k]
      /\ banTask' \in [BanTasks -> BanRecords]
  BY BanIdleType DEF SyncBan, BanReturn, BanIInv, BanTypeOK
<1>3. /\ \A v \in People \ {user} : v \in mirror' <=> v \in mirror
      /\ user \in mirror' <=> want
      /\ raced' = {v \in raced : v # user \/ ~Repaired(h, v, want)}
      /\ UNCHANGED <<banned, loaded>>
  BY <1>1 DEF SyncBan
<1>4. BanTypeOK'
  <2>1. mirror' \subseteq People
    BY <1>1 DEF SyncBan, BanIInv, BanTypeOK
  <2> QED  BY <2>1, <1>2, <1>3 DEF SyncBan, BanIInv, BanTypeOK
<1>5. ClearedHeld' /\ MemberBuilt'
  BY <1>2, <1>3 DEF BanIInv, BanLinks, ClearedHeld, MemberBuilt
<1>6. SeenIsTrue'
  BY <1>2, <1>3 DEF BanIInv, BanLinks, SeenIsTrue, Repaired, Contended
<1>7. WantIsTrue'
  BY <1>2, <1>3 DEF BanIInv, BanLinks, WantIsTrue, Repaired, Contended, Owes
<1>8. MirrorAgreesUnlessRaced'
  <2>1. user \notin raced' => (user \in mirror' <=> user \in banned')
    BY <1>1, <1>3 DEF BanIInv, BanLinks, WantIsTrue, Repaired
  <2>2. ASSUME NEW v \in People \ {user}, InFlight(v)
        PROVE  InFlight(v)'
    BY <2>2, <1>1, <1>2 DEF InFlight, Owes
  <2> QED  BY <2>1, <2>2, <1>1, <1>3 DEF BanIInv, MirrorAgreesUnlessRaced
<1> QED  BY <1>4, <1>5, <1>6, <1>7, <1>8 DEF BanIInv, BanLinks

LEMMA UnbanAllStep ==
  ASSUME BanIInv, NEW h \in BanTasks, UnbanAll(h)
  PROVE  BanIInv'
<1> DEFINE rec == [BanAt("read", AnyPerson) EXCEPT !.cleared = banned]
<1>1. rec \in BanRecords /\ rec.pc = "read" /\ rec.cleared = banned
  BY AnyPersonType DEF BanAt, BanRecords, BanPcs, Afters, BanIInv, BanTypeOK
<1> HIDE DEF rec
<1>2. banTask' = [banTask EXCEPT ![h] = rec] /\ banTask[h].pc = "idle"
  BY DEF UnbanAll, rec
<1>3. /\ banTask'[h] = rec
      /\ \A k \in BanTasks \ {h} : banTask'[k] = banTask[k]
      /\ banTask' \in [BanTasks -> BanRecords]
  BY <1>1, <1>2 DEF BanIInv, BanTypeOK
<1>4. /\ banned' = {}
      /\ raced' = raced \cup {u \in banned : Contended(h, u)}
      /\ UNCHANGED <<mirror, loaded>>
  BY DEF UnbanAll
<1>5. BanTypeOK'
  BY <1>3, <1>4, BanAssumption DEF UnbanAll, BanIInv, BanTypeOK
<1>6. ClearedHeld' /\ MemberBuilt'
  BY <1>1, <1>3, <1>4 DEF BanIInv, BanLinks, ClearedHeld, MemberBuilt
<1>7. SeenIsTrue'
  BY <1>1, <1>3, <1>4 DEF BanIInv, BanLinks, SeenIsTrue, Contended
<1>8. WantIsTrue'
  BY <1>1, <1>3, <1>4 DEF BanIInv, BanLinks, WantIsTrue, Contended, Owes, BanTypeOK, BanRecords
<1>9. MirrorAgreesUnlessRaced'
  <2>1. ASSUME NEW v \in banned
        PROVE  InFlight(v)'
    BY <1>1, <1>3 DEF InFlight, Owes
  <2>2. ASSUME NEW v \in People, InFlight(v)
        PROVE  InFlight(v)'
    <3>1. ~Owes(h, v)
      BY <1>2 DEF Owes, BanIInv, BanLinks, ClearedHeld
    <3> QED  BY <2>2, <3>1, <1>3 DEF InFlight, Owes
  <2> QED  BY <2>1, <2>2, <1>4 DEF BanIInv, MirrorAgreesUnlessRaced
<1> QED  BY <1>5, <1>6, <1>7, <1>8, <1>9 DEF BanIInv, BanLinks

LEMMA RebuildStep ==
  ASSUME BanIInv, NEW h \in BanTasks, Rebuild(h)
  PROVE  BanIInv'
<1> DEFINE seen == banTask[h].seen
           rec == IF banTask[h].after = "check" THEN BanAt("member", banTask[h].user)
                  ELSE BanIdle
<1>1. seen \subseteq People /\ banTask[h].pc = "rebuild" /\ banTask[h] \in BanRecords
  BY DEF Rebuild, BanIInv, BanTypeOK, BanRecords
<1>2. rec \in BanRecords /\ rec.pc \in {"member", "idle"} /\ rec.cleared = {}
  BY <1>1, RebuiltType
<1>3. banTask' = [banTask EXCEPT ![h] = rec]
  BY DEF Rebuild
<1> HIDE DEF rec
<1>4. /\ banTask'[h] = rec
      /\ \A k \in BanTasks \ {h} : banTask'[k] = banTask[k]
      /\ banTask' \in [BanTasks -> BanRecords]
  BY <1>2, <1>3 DEF BanIInv, BanTypeOK
<1>5. /\ mirror' = seen /\ loaded' = TRUE
      /\ raced' = {u \in raced : ~Repaired(h, u, u \in seen)}
      /\ UNCHANGED banned
  BY DEF Rebuild
<1>6. BanTypeOK'
  <2>1. loaded' \in BOOLEAN
    BY <1>5
  <2> QED  BY <2>1, <1>1, <1>4, <1>5 DEF Rebuild, BanIInv, BanTypeOK
<1>7. ClearedHeld' /\ MemberBuilt'
  BY <1>2, <1>4, <1>5 DEF BanIInv, BanLinks, ClearedHeld, MemberBuilt
<1>8. SeenIsTrue'
  BY <1>2, <1>4, <1>5 DEF BanIInv, BanLinks, SeenIsTrue, Repaired, Contended
<1>9. WantIsTrue'
  BY <1>2, <1>4, <1>5 DEF BanIInv, BanLinks, WantIsTrue, Repaired, Contended, Owes
<1>10. MirrorAgreesUnlessRaced'
  BY <1>1, <1>5 DEF BanIInv, BanLinks, SeenIsTrue, MirrorAgreesUnlessRaced, Repaired
<1> QED  BY <1>6, <1>7, <1>8, <1>9, <1>10 DEF BanIInv, BanLinks

\* A handler that only moves on, and owes nothing that it did not owe before.
LEMMA BanMovesOn ==
  ASSUME BanIInv, NEW h \in BanTasks, NEW rec \in BanRecords,
         banTask' = [banTask EXCEPT ![h] = rec],
         rec.pc \in {"read", "rebuild", "member", "idle"},
         rec.cleared = banTask[h].cleared, banTask[h].pc # "sync",
         rec.cleared # {} => rec.pc \in {"read", "rebuild"},
         rec.pc = "rebuild" => rec.seen = banned,
         rec.pc = "member" => loaded,
         UNCHANGED <<banned, mirror, loaded, banOps, banFaults, raced>>
  PROVE  BanIInv'
<1>1. /\ banTask'[h] = rec
      /\ \A k \in BanTasks \ {h} : banTask'[k] = banTask[k]
      /\ banTask' \in [BanTasks -> BanRecords]
  BY DEF BanIInv, BanTypeOK
<1>2. BanTypeOK'
  BY <1>1 DEF BanIInv, BanTypeOK
<1>3. BanLinks'
  BY <1>1 DEF BanIInv, BanLinks, ClearedHeld, SeenIsTrue, WantIsTrue, MemberBuilt
<1>4. \A u \in People : InFlight(u) => InFlight(u)'
  BY <1>1 DEF InFlight, Owes
<1>5. MirrorAgreesUnlessRaced'
  BY <1>4 DEF BanIInv, MirrorAgreesUnlessRaced
<1> QED  BY <1>2, <1>3, <1>5 DEF BanIInv

LEMMA BanReadersStep ==
  ASSUME BanIInv, NEW h \in BanTasks,
         \/ ReadBanned(h) \/ CheckMember(h)
         \/ \E u \in People : CheckLoaded(h, u)
  PROVE  BanIInv'
<1>1. CASE ReadBanned(h)
  <2> DEFINE rec == [banTask[h] EXCEPT !.pc = "rebuild", !.seen = banned]
  <2>1. /\ rec \in BanRecords /\ rec.pc = "rebuild" /\ rec.seen = banned
        /\ rec.cleared = banTask[h].cleared
    BY DEF BanIInv, BanTypeOK, BanRecords, BanPcs
  <2>2. banTask' = [banTask EXCEPT ![h] = rec]
    BY <1>1 DEF ReadBanned, BanIInv, BanTypeOK
  <2> HIDE DEF rec
  <2> QED  BY <1>1, <2>1, <2>2, BanMovesOn DEF ReadBanned
<1>2. CASE CheckMember(h)
  <2>1. banTask[h].cleared = {} /\ banTask[h].pc = "member"
    BY <1>2 DEF CheckMember, BanIInv, BanLinks, ClearedHeld
  <2> QED  BY <1>2, <2>1, BanIdleType, BanMovesOn DEF CheckMember, BanReturn
<1>3. ASSUME NEW u \in People, CheckLoaded(h, u)
      PROVE  BanIInv'
  <2>1. banTask[h].cleared = {} /\ banTask[h].pc = "idle"
    BY <1>3 DEF CheckLoaded, BanIInv, BanLinks, ClearedHeld
  <2>2. CASE loaded
    <3>1. /\ BanAt("member", u) \in BanRecords /\ BanAt("member", u).pc = "member"
          /\ BanAt("member", u).cleared = {}
      BY BanAtType DEF BanPcs
    <3>2. banTask' = [banTask EXCEPT ![h] = BanAt("member", u)]
      BY <1>3, <2>2 DEF CheckLoaded
    <3> QED  BY <1>3, <2>1, <2>2, <3>1, <3>2, BanMovesOn DEF CheckLoaded
  <2>3. CASE ~loaded
    <3> DEFINE rec == [BanAt("read", u) EXCEPT !.after = "check"]
    <3>1. rec \in BanRecords /\ rec.pc = "read" /\ rec.cleared = {}
      BY DEF BanAt, BanRecords, BanPcs, Afters
    <3>2. banTask' = [banTask EXCEPT ![h] = rec]
      BY <1>3, <2>3 DEF CheckLoaded
    <3> HIDE DEF rec
    <3> QED  BY <1>3, <2>1, <3>1, <3>2, BanMovesOn DEF CheckLoaded
  <2> QED  BY <2>2, <2>3
<1> QED  BY <1>1, <1>2, <1>3

LEMMA BanFaultStep ==
  ASSUME BanIInv,
         \/ RedisFlush \/ BanBotRestarts
         \/ \E h \in BanTasks : BanTaskDies(h)
  PROVE  BanIInv'
<1>1. CASE RedisFlush
  <2>1. \A h \in BanTasks : banTask[h] \in BanRecords
    BY DEF BanIInv, BanTypeOK
  <2>2. ASSUME NEW h \in BanTasks
        PROVE  /\ banTask'[h] \in BanRecords
               /\ banTask'[h].pc = banTask[h].pc /\ banTask'[h].user = banTask[h].user
               /\ banTask'[h].want = banTask[h].want
               /\ banTask'[h].cleared = banTask[h].cleared
               /\ banTask'[h].seen = banTask[h].seen
               /\ banTask[h].pc = "member" => banTask'[h].flushed
    <3> DEFINE f == banTask[h].flushed \/ banTask[h].pc # "idle"
    <3>1. f \in BOOLEAN
      OBVIOUS
    <3>2. banTask'[h] = [banTask[h] EXCEPT !.flushed = f]
      BY <1>1 DEF RedisFlush
    <3>3. banTask[h].pc = "member" => f
      OBVIOUS
    <3> HIDE DEF f
    <3>4. [banTask[h] EXCEPT !.flushed = f] \in BanRecords
      BY <2>1, <3>1 DEF BanRecords
    <3>5. [banTask[h] EXCEPT !.flushed = f].flushed = f
      BY <2>1 DEF BanRecords
    <3>6. banTask[h].pc = "member" => banTask'[h].flushed
      BY <3>2, <3>3, <3>5, Zenon
    <3> QED  BY <2>1, <3>2, <3>4, <3>6 DEF BanRecords
  <2>3. banTask' \in [BanTasks -> BanRecords]
    BY <1>1, <2>2 DEF RedisFlush
  <2>4. BanTypeOK'
    <3>1. loaded' \in BOOLEAN
      BY <1>1 DEF RedisFlush
    <3> QED  BY <1>1, <2>3, <3>1, BanAssumption DEF RedisFlush, BanIInv, BanTypeOK
  <2>5. ClearedHeld' /\ SeenIsTrue' /\ WantIsTrue'
    <3>1. UNCHANGED <<banned, raced>>
      BY <1>1 DEF RedisFlush
    <3>2. ClearedHeld'
      BY <2>2 DEF BanIInv, BanLinks, ClearedHeld
    <3>3. SeenIsTrue'
      BY <2>2, <3>1 DEF BanIInv, BanLinks, SeenIsTrue
    <3>4. WantIsTrue'
      BY <2>2, <3>1, Zenon DEF BanIInv, BanLinks, WantIsTrue
    <3> QED  BY <3>2, <3>3, <3>4
  <2>6. MemberBuilt' /\ MirrorAgreesUnlessRaced'
    BY <1>1, <2>2 DEF RedisFlush, MemberBuilt, MirrorAgreesUnlessRaced
  <2> QED  BY <2>4, <2>5, <2>6 DEF BanIInv, BanLinks
<1>2. CASE BanBotRestarts
  <2>1. BanTypeOK'
    BY <1>2, BootingType, BanAssumption DEF BanBotRestarts, BanIInv, BanTypeOK
  <2>2. BanLinks'
    BY <1>2, BootingType
    DEF BanBotRestarts, BanLinks, ClearedHeld, SeenIsTrue, WantIsTrue, MemberBuilt
  <2>3. MirrorAgreesUnlessRaced'
    BY <1>2 DEF BanBotRestarts, BanIInv, MirrorAgreesUnlessRaced
  <2> QED  BY <2>1, <2>2, <2>3 DEF BanIInv
<1>3. ASSUME NEW h \in BanTasks, BanTaskDies(h)
      PROVE  BanIInv'
  <2>1. /\ banTask'[h].pc = "idle" /\ banTask'[h].cleared = {}
        /\ \A k \in BanTasks \ {h} : banTask'[k] = banTask[k]
        /\ banTask' \in [BanTasks -> BanRecords]
    BY <1>3, BanIdleType DEF BanTaskDies, BanReturn, BanIInv, BanTypeOK
  <2>2. /\ raced' = raced \cup {u \in People : Owes(h, u)}
        /\ UNCHANGED <<banned, mirror, loaded>>
    BY <1>3 DEF BanTaskDies
  <2>3. BanTypeOK'
    BY <1>3, <2>1, <2>2, BanAssumption DEF BanTaskDies, BanIInv, BanTypeOK
  <2>4. BanLinks'
    BY <2>1, <2>2 DEF BanIInv, BanLinks, ClearedHeld, SeenIsTrue, WantIsTrue, MemberBuilt
  <2>5. ASSUME NEW u \in People \ raced', InFlight(u)
        PROVE  InFlight(u)'
    BY <2>1, <2>2, <2>5 DEF InFlight, Owes
  <2>6. MirrorAgreesUnlessRaced'
    BY <2>2, <2>5 DEF BanIInv, MirrorAgreesUnlessRaced
  <2> QED  BY <2>3, <2>4, <2>6 DEF BanIInv
<1> QED  BY <1>1, <1>2, <1>3

\* The inductive invariant is preserved by every step.
LEMMA BanNextIInv ==
  ASSUME BanIInv, [BanNext]_banVars
  PROVE  BanIInv'
<1>1. CASE UNCHANGED banVars
  BY <1>1 DEF banVars, BanIInv, BanTypeOK, BanLinks, ClearedHeld, SeenIsTrue, WantIsTrue,
              MemberBuilt, MirrorAgreesUnlessRaced, InFlight, Owes
<1>2. CASE BanNext
  BY <1>2, SetBannedStep, SyncBanStep, UnbanAllStep, RebuildStep, BanReadersStep, BanFaultStep
  DEF BanNext, BanStep
<1> QED  BY <1>1, <1>2

THEOREM BanInductive == BanSpec => []BanIInv
<1>1. BanInit => BanIInv
  BY BanInitIInv
<1>2. BanIInv /\ [BanNext]_banVars => BanIInv'
  BY BanNextIInv
<1> QED  BY <1>1, <1>2, PTL DEF BanSpec

------------------------------------------------------------------------------
(* Bans: the theorems.                                                     *)

\* Rows, mirror, handlers and counters keep their types.
THEOREM BanTypeCorrect == BanSpec => []BanTypeOK
<1>1. BanIInv => BanTypeOK
  BY DEF BanIInv
<1> QED  BY <1>1, BanInductive, PTL

\* However commands, rebuilds, checks, flushes and restarts interleave, a mirror that
\* is there agrees with Postgres but for changes on their way and those that raced.
THEOREM MirrorAgreesCorrect == BanSpec => []MirrorAgreesUnlessRaced
<1>1. BanIInv => MirrorAgreesUnlessRaced
  BY DEF BanIInv
<1> QED  BY <1>1, BanInductive, PTL

\* A banned user gets past the check only in such a race, or across a flush.
THEOREM BannedStayOutCorrect == BanSpec => []BannedStayOut
<1>1. ASSUME BanIInv
      PROVE  BannedStayOut
  BY <1>1 DEF BanIInv, BanLinks, MemberBuilt, MirrorAgreesUnlessRaced, BannedStayOut, BanTypeOK,
              BanRecords
<1>2. BanIInv => BannedStayOut
  BY <1>1
<1> QED  BY <1>2, BanInductive, PTL


------------------------------------------------------------------------------
(* Settings: what a handler may rely on between its awaits.                *)

\* A handler carries a value its key can have.
CarriesOwn ==
  \A h \in CfgTasks : cfgTask[h].pc \in {"fill", "commit"} =>
    cfgTask[h].val \in RowValues(cfgTask[h].key)

\* What a handler is about to fill the copy with is what the row says, unless a
\* commit has crossed it since it read.
FillIsTrue ==
  \A h \in CfgTasks : (cfgTask[h].pc = "fill" /\ ~cfgTask[h].crossed) =>
    cfgTask[h].val = setting[cfgTask[h].key]

CfgIInv == CfgTypeOK /\ CarriesOwn /\ FillIsTrue /\ StaleOnlyByOverlap

------------------------------------------------------------------------------
LEMMA KeysType == Api \in Keys /\ Base \in Keys /\ Gate \in Keys /\ Base # Gate /\ Api # Gate
  BY SettingsAssumption

LEMMA ValuesType ==
  /\ \A k \in Keys : RowValues(k) \subseteq UNION {RowValues(j) : j \in Keys}
  /\ \A k \in Keys : Unset \in RowValues(k)
  /\ \A v \in Values : v \in RowValues(Base) /\ v \in RowValues(Api)
  /\ On \in RowValues(Gate) /\ Off \in RowValues(Gate)
  BY KeysType DEF RowValues

LEMMA CfgAtType ==
  ASSUME NEW pc \in CfgPcs, NEW k \in Keys, NEW v \in RowValues(k)
  PROVE  /\ CfgAt(pc, k, v) \in CfgRecords
         /\ CfgAt(pc, k, v).pc = pc /\ CfgAt(pc, k, v).key = k /\ CfgAt(pc, k, v).val = v
         /\ \A then \in Thens : [CfgAt(pc, k, v) EXCEPT !.then = then] \in CfgRecords
  BY ValuesType DEF CfgAt, CfgRecords, Thens

LEMMA CfgIdleType == CfgIdle \in CfgRecords /\ CfgIdle.pc = "idle"
  BY KeysType, ValuesType, CfgAtType DEF CfgIdle, CfgPcs

\* A record that is neither about to fill nor to drop a copy, and carries a value of
\* its own key if it is about to commit one.
Fresh(rec) ==
  /\ rec \in CfgRecords
  /\ rec.pc \notin {"fill", "drop"}
  /\ rec.pc = "commit" => rec.val \in RowValues(rec.key)

\* Where a read, or the DEL of a command, leaves its handler.
LEMMA GotFresh ==
  ASSUME NEW t \in CfgRecords, NEW v
  PROVE  Fresh(Got(t, v))
<1>1. Fresh(CfgIdle)
  BY CfgIdleType DEF Fresh
<1>2. Fresh([CfgAt("get", Base, Unset) EXCEPT !.then = "turnon"])
  <2>1. [CfgAt("get", Base, Unset) EXCEPT !.then = "turnon"].pc = "get"
    BY DEF CfgAt
  <2> QED  BY <2>1, KeysType, ValuesType, CfgAtType DEF Fresh, CfgPcs, Thens
<1>3. Fresh(CfgAt("commit", Gate, On))
  BY KeysType, ValuesType, CfgAtType DEF Fresh, CfgPcs
<1> QED  BY <1>1, <1>2, <1>3 DEF Got

LEMMA DroppedFresh ==
  ASSUME NEW t \in CfgRecords
  PROVE  Fresh(Dropped(t))
<1>1. CASE t.after = <<>>
  BY <1>1, CfgIdleType DEF Fresh, Dropped
<1>2. CASE t.after # <<>>
  <2>1. PICK v \in Values : t.after = <<v>>
    BY <1>2 DEF CfgRecords
  <2>2. Head(t.after) = v
    BY <2>1
  <2> QED  BY <1>2, <2>2, KeysType, ValuesType, CfgAtType DEF Fresh, Dropped, CfgPcs
<1> QED  BY <1>1, <1>2

------------------------------------------------------------------------------
(* Settings: initial states and steps.                                     *)

LEMMA CfgInitIInv == CfgInit => CfgIInv
<1> SUFFICES ASSUME CfgInit PROVE CfgIInv
  OBVIOUS
<1>1. CfgTypeOK
  BY CfgIdleType, ValuesType, SettingsAssumption DEF CfgInit, CfgTypeOK
<1>2. CarriesOwn /\ FillIsTrue /\ StaleOnlyByOverlap
  BY CfgIdleType DEF CfgInit, CarriesOwn, FillIsTrue, StaleOnlyByOverlap
<1> QED  BY <1>1, <1>2 DEF CfgIInv

\* A handler that goes on without touching row or copy.
LEMMA GoesOn ==
  ASSUME CfgIInv, NEW h \in CfgTasks, NEW rec, Fresh(rec),
         cfgTask' = [cfgTask EXCEPT ![h] = rec],
         cfgTask[h].pc # "drop",
         cfgOps' \in 0..MaxCfgOps, cfgFaults' \in 0..MaxCfgFaults,
         UNCHANGED <<setting, copy, late>>
  PROVE  CfgIInv'
<1>1. /\ cfgTask'[h] = rec
      /\ \A k \in CfgTasks \ {h} : cfgTask'[k] = cfgTask[k]
      /\ cfgTask' \in [CfgTasks -> CfgRecords]
  BY DEF CfgIInv, CfgTypeOK, Fresh
<1>2. CfgTypeOK'
  BY <1>1 DEF CfgIInv, CfgTypeOK
<1>3. CarriesOwn' /\ FillIsTrue'
  BY <1>1 DEF CfgIInv, CarriesOwn, FillIsTrue, Fresh
<1>4. StaleOnlyByOverlap'
  BY <1>1 DEF CfgIInv, StaleOnlyByOverlap
<1> QED  BY <1>2, <1>3, <1>4 DEF CfgIInv

LEMMA CfgReadersStep ==
  ASSUME CfgIInv, NEW h \in CfgTasks,
         GetCopy(h) \/ SelectRow(h) \/ \E k \in Keys : Read(h, k)
  PROVE  CfgIInv'
<1> DEFINE t == cfgTask[h]
<1>1. t \in CfgRecords /\ t.key \in Keys
  BY DEF CfgIInv, CfgTypeOK, CfgRecords
<1>2. CASE GetCopy(h)
  <2>1. CASE copy[t.key] = Empty
    <3> DEFINE rec == [t EXCEPT !.pc = "select"]
    <3>1. Fresh(rec)
      BY <1>1 DEF Fresh, CfgRecords, CfgPcs
    <3>2. cfgTask' = [cfgTask EXCEPT ![h] = rec]
      BY <1>2, <2>1 DEF GetCopy, CfgGoto
    <3> HIDE DEF rec
    <3> QED  BY <1>2, <3>1, <3>2, GoesOn DEF GetCopy, CfgIInv, CfgTypeOK
  <2>2. CASE copy[t.key] # Empty
    <3>1. cfgTask' = [cfgTask EXCEPT ![h] = Got(t, copy[t.key])]
      BY <1>2, <2>2 DEF GetCopy, CfgGoto
    <3> QED  BY <1>1, <1>2, <3>1, GotFresh, GoesOn DEF GetCopy, CfgIInv, CfgTypeOK
  <2> QED  BY <2>1, <2>2
<1>3. CASE SelectRow(h)
  <2> DEFINE rec == [t EXCEPT !.pc = "fill", !.val = setting[t.key]]
  <2>1. setting[t.key] \in RowValues(t.key)
    BY <1>1 DEF CfgIInv, CfgTypeOK
  <2>2. rec \in CfgRecords /\ rec.pc = "fill" /\ rec.key = t.key /\ rec.val = setting[t.key]
    BY <1>1, <2>1, ValuesType DEF CfgRecords, CfgPcs
  <2>3. cfgTask' = [cfgTask EXCEPT ![h] = rec]
    BY <1>3 DEF SelectRow, CfgGoto
  <2> HIDE DEF rec
  <2>4. /\ cfgTask'[h] = rec
        /\ \A k \in CfgTasks \ {h} : cfgTask'[k] = cfgTask[k]
        /\ cfgTask' \in [CfgTasks -> CfgRecords]
    BY <2>2, <2>3 DEF CfgIInv, CfgTypeOK
  <2>5. CfgTypeOK'
    BY <1>3, <2>4 DEF SelectRow, CfgIInv, CfgTypeOK
  <2>6. CarriesOwn' /\ FillIsTrue'
    BY <1>3, <2>1, <2>2, <2>4 DEF SelectRow, CfgIInv, CarriesOwn, FillIsTrue
  <2>7. StaleOnlyByOverlap'
    BY <1>3, <2>4 DEF SelectRow, CfgIInv, StaleOnlyByOverlap
  <2> QED  BY <2>5, <2>6, <2>7 DEF CfgIInv
<1>4. ASSUME NEW k \in Keys, Read(h, k)
      PROVE  CfgIInv'
  <2>1. Fresh(CfgAt("get", k, Unset))
    BY ValuesType, CfgAtType DEF Fresh, CfgPcs
  <2> QED  BY <1>4, <2>1, GoesOn DEF Read, CfgGoto, CfgIInv, CfgTypeOK
<1> QED  BY <1>2, <1>3, <1>4

LEMMA CommandStep ==
  ASSUME CfgIInv, NEW h \in CfgTasks,
         SetPlain(h) \/ SetShortener(h) \/ ShortlinkOn(h) \/ ShortlinkOff(h)
  PROVE  CfgIInv'
<1>1. ASSUME NEW rec, Fresh(rec), Command(h, rec)
      PROVE  CfgIInv'
  <2>1. cfgOps' \in 0..MaxCfgOps
    BY <1>1, SettingsAssumption DEF Command, CfgIInv, CfgTypeOK
  <2> QED  BY <1>1, <2>1, GoesOn DEF Command, CfgGoto, CfgIInv, CfgTypeOK
<1>2. CASE SetPlain(h)
  <2>1. PICK v \in Values \cup {Unset} : Command(h, CfgAt("commit", Base, v))
    BY <1>2 DEF SetPlain
  <2>2. Fresh(CfgAt("commit", Base, v))
    BY KeysType, ValuesType, CfgAtType DEF Fresh, CfgPcs
  <2> QED  BY <1>1, <2>1, <2>2
<1>3. CASE SetShortener(h)
  <2>1. PICK v \in Values, urls \in {<<>>} \cup {<<w>> : w \in Values} :
          Command(h, [CfgAt("commit", Api, v) EXCEPT !.after = urls])
    BY <1>3 DEF SetShortener
  <2>2. Fresh([CfgAt("commit", Api, v) EXCEPT !.after = urls])
    BY KeysType, ValuesType DEF Fresh, CfgAt, CfgRecords, CfgPcs, Thens
  <2> QED  BY <1>1, <2>1, <2>2
<1>4. CASE ShortlinkOn(h)
  <2>1. [CfgAt("get", Api, Unset) EXCEPT !.then = "base"].pc = "get"
    BY DEF CfgAt
  <2>2. Fresh([CfgAt("get", Api, Unset) EXCEPT !.then = "base"])
    BY <2>1, KeysType, ValuesType, CfgAtType DEF Fresh, CfgPcs, Thens
  <2> QED  BY <1>1, <1>4, <2>2 DEF ShortlinkOn
<1>5. CASE ShortlinkOff(h)
  <2>1. Fresh(CfgAt("commit", Gate, Off))
    BY KeysType, ValuesType, CfgAtType DEF Fresh, CfgPcs
  <2> QED  BY <1>1, <1>5, <2>1 DEF ShortlinkOff
<1> QED  BY <1>2, <1>3, <1>4, <1>5

\* A stale fill is one a commit has crossed, and it is recorded.
LEMMA FillCopyStep ==
  ASSUME CfgIInv, NEW h \in CfgTasks, FillCopy(h)
  PROVE  CfgIInv'
<1> DEFINE t == cfgTask[h]
<1>1. t \in CfgRecords /\ t.key \in Keys /\ t.pc = "fill" /\ t.val \in RowValues(t.key)
  BY DEF FillCopy, CfgIInv, CfgTypeOK, CarriesOwn, CfgRecords
<1>2. Fresh(Got(t, t.val))
  BY <1>1, GotFresh
<1>3. /\ cfgTask'[h] = Got(t, t.val)
      /\ \A k \in CfgTasks \ {h} : cfgTask'[k] = cfgTask[k]
      /\ cfgTask' \in [CfgTasks -> CfgRecords]
  BY <1>2 DEF FillCopy, CfgGoto, Fresh, CfgIInv, CfgTypeOK
<1>4. /\ copy' = [copy EXCEPT ![t.key] = t.val]
      /\ late' = IF t.crossed THEN late \cup {t.key} ELSE late \ {t.key}
      /\ UNCHANGED <<setting, cfgOps, cfgFaults>>
  BY DEF FillCopy
<1>5. /\ copy'[t.key] = t.val
      /\ \A k \in Keys \ {t.key} : copy'[k] = copy[k] /\ (k \in late' <=> k \in late)
  BY <1>1, <1>4 DEF CfgIInv, CfgTypeOK
<1>6. CfgTypeOK'
  <2>1. DOMAIN copy' = Keys /\ late' \subseteq Keys
    BY <1>1, <1>4 DEF CfgIInv, CfgTypeOK
  <2> QED  BY <2>1, <1>1, <1>3, <1>4, <1>5 DEF CfgIInv, CfgTypeOK
<1>7. CarriesOwn' /\ FillIsTrue'
  BY <1>2, <1>3, <1>4 DEF CfgIInv, CarriesOwn, FillIsTrue, Fresh
<1>8. StaleOnlyByOverlap'
  <2>1. copy'[t.key] = setting'[t.key] \/ t.key \in late'
    BY <1>1, <1>4, <1>5 DEF CfgIInv, FillIsTrue
  <2>2. ASSUME NEW k \in Keys \ {t.key}, copy'[k] \notin {Empty, setting'[k]}, k \notin late'
        PROVE  \E g \in CfgTasks : cfgTask'[g].pc = "drop" /\ cfgTask'[g].key = k
    BY <2>2, <1>1, <1>3, <1>4, <1>5 DEF CfgIInv, StaleOnlyByOverlap
  <2> QED  BY <2>1, <2>2, <1>1 DEF StaleOnlyByOverlap
<1> QED  BY <1>6, <1>7, <1>8 DEF CfgIInv

LEMMA CommitStep ==
  ASSUME CfgIInv, NEW h \in CfgTasks, Commit(h)
  PROVE  CfgIInv'
<1> DEFINE t == cfgTask[h]
<1>1. t \in CfgRecords /\ t.key \in Keys /\ t.pc = "commit" /\ t.val \in RowValues(t.key)
  BY DEF Commit, CfgIInv, CfgTypeOK, CarriesOwn, CfgRecords
<1>2. \A g \in CfgTasks : cfgTask[g] \in CfgRecords
  BY DEF CfgIInv, CfgTypeOK
<1>3. ASSUME NEW g \in CfgTasks
      PROVE  /\ cfgTask'[g] \in CfgRecords
             /\ cfgTask'[g].key = cfgTask[g].key /\ cfgTask'[g].val = cfgTask[g].val
             /\ cfgTask'[g].pc = IF g = h THEN "drop" ELSE cfgTask[g].pc
             /\ (cfgTask[g].crossed \/ (cfgTask[g].pc = "fill" /\ cfgTask[g].key = t.key))
                  => (g = h \/ cfgTask'[g].crossed)
  <2>1. CASE g = h
    <3>1. cfgTask'[g] = [cfgTask[g] EXCEPT !.pc = "drop"]
      BY <2>1 DEF Commit
    <3> QED  BY <1>2, <2>1, <3>1 DEF CfgRecords, CfgPcs
  <2>2. CASE g # h
    <3> DEFINE f == cfgTask[g].crossed \/ (cfgTask[g].pc = "fill" /\ cfgTask[g].key = t.key)
    <3>1. cfgTask'[g] = [cfgTask[g] EXCEPT !.crossed = f]
      BY <2>2 DEF Commit
    <3>2. f \in BOOLEAN
      BY <1>2 DEF CfgRecords
    <3>3. ASSUME f PROVE f = TRUE
      BY <3>3, <3>2
    <3> HIDE DEF f
    <3>4. cfgTask'[g].crossed = f
      BY <1>2, <3>1 DEF CfgRecords
    <3>5. f => cfgTask'[g].crossed
      BY <3>4, Zenon
    <3>6. /\ cfgTask'[g] \in CfgRecords
          /\ cfgTask'[g].key = cfgTask[g].key /\ cfgTask'[g].val = cfgTask[g].val
          /\ cfgTask'[g].pc = cfgTask[g].pc
      BY <1>2, <3>1, <3>2 DEF CfgRecords
    <3> QED  BY <2>2, <3>5, <3>6 DEF f
  <2> QED  BY <2>1, <2>2
<1>4. /\ setting'[t.key] = t.val
      /\ \A k \in Keys \ {t.key} : setting'[k] = setting[k]
      /\ DOMAIN setting' = Keys
      /\ UNCHANGED <<copy, cfgOps, cfgFaults, late>>
  BY <1>1 DEF Commit, CfgIInv, CfgTypeOK
<1>5. CfgTypeOK'
  <2>1. cfgTask' \in [CfgTasks -> CfgRecords]
    BY <1>3 DEF Commit
  <2> QED  BY <2>1, <1>1, <1>4 DEF CfgIInv, CfgTypeOK
<1>6. CarriesOwn'
  BY <1>3 DEF CfgIInv, CarriesOwn
<1>7. FillIsTrue'
  <2> SUFFICES ASSUME NEW g \in CfgTasks, cfgTask'[g].pc = "fill", ~cfgTask'[g].crossed
               PROVE  cfgTask'[g].val = setting'[cfgTask'[g].key]
    BY DEF FillIsTrue
  <2>1. g # h /\ cfgTask[g].pc = "fill" /\ ~cfgTask[g].crossed /\ cfgTask[g].key # t.key
    BY <1>3
  <2>2. cfgTask[g].key \in Keys \ {t.key}
    BY <1>2, <2>1 DEF CfgRecords
  <2> QED  BY <1>3, <1>4, <2>1, <2>2 DEF CfgIInv, FillIsTrue
<1>8. StaleOnlyByOverlap'
  <2> SUFFICES ASSUME NEW k \in Keys, copy'[k] \notin {Empty, setting'[k]}, k \notin late'
               PROVE  \E g \in CfgTasks : cfgTask'[g].pc = "drop" /\ cfgTask'[g].key = k
    BY DEF StaleOnlyByOverlap
  <2>1. CASE k = t.key
    BY <1>3, <2>1
  <2>2. CASE k # t.key
    <3>1. PICK g \in CfgTasks : cfgTask[g].pc = "drop" /\ cfgTask[g].key = k
      BY <2>2, <1>4 DEF CfgIInv, StaleOnlyByOverlap
    <3> QED  BY <3>1, <1>3
  <2> QED  BY <2>1, <2>2
<1> QED  BY <1>5, <1>6, <1>7, <1>8 DEF CfgIInv

\* The steps that empty a copy.
LEMMA DropCopyStep ==
  ASSUME CfgIInv, NEW h \in CfgTasks, DropCopy(h)
  PROVE  CfgIInv'
<1> DEFINE t == cfgTask[h]
<1>1. t \in CfgRecords /\ t.key \in Keys /\ t.pc = "drop"
  BY DEF DropCopy, CfgIInv, CfgTypeOK, CfgRecords
<1>2. Fresh(Dropped(t))
  BY <1>1, DroppedFresh
<1>3. /\ cfgTask'[h] = Dropped(t)
      /\ \A k \in CfgTasks \ {h} : cfgTask'[k] = cfgTask[k]
      /\ cfgTask' \in [CfgTasks -> CfgRecords]
  BY <1>2 DEF DropCopy, CfgGoto, Fresh, CfgIInv, CfgTypeOK
<1>4. /\ copy'[t.key] = Empty
      /\ \A k \in Keys \ {t.key} : copy'[k] = copy[k] /\ (k \in late' <=> k \in late)
      /\ UNCHANGED <<setting, cfgOps, cfgFaults>>
  BY <1>1 DEF DropCopy, CfgIInv, CfgTypeOK
<1>5. CfgTypeOK'
  <2>1. DOMAIN copy' = Keys /\ late' \subseteq Keys
    BY DEF DropCopy, CfgIInv, CfgTypeOK
  <2> QED  BY <2>1, <1>3, <1>4 DEF CfgIInv, CfgTypeOK
<1>6. CarriesOwn' /\ FillIsTrue'
  BY <1>2, <1>3, <1>4 DEF CfgIInv, CarriesOwn, FillIsTrue, Fresh
<1>7. StaleOnlyByOverlap'
  BY <1>1, <1>3, <1>4 DEF CfgIInv, StaleOnlyByOverlap
<1> QED  BY <1>5, <1>6, <1>7 DEF CfgIInv

LEMMA ExpireCopyStep ==
  ASSUME CfgIInv, NEW k \in Keys, ExpireCopy(k)
  PROVE  CfgIInv'
<1>1. /\ copy'[k] = Empty
      /\ \A j \in Keys \ {k} : copy'[j] = copy[j] /\ (j \in late' <=> j \in late)
      /\ UNCHANGED <<setting, cfgTask, cfgOps, cfgFaults>>
  BY DEF ExpireCopy, CfgIInv, CfgTypeOK
<1>2. CfgTypeOK'
  <2>1. DOMAIN copy' = Keys /\ late' \subseteq Keys
    BY DEF ExpireCopy, CfgIInv, CfgTypeOK
  <2> QED  BY <2>1, <1>1 DEF CfgIInv, CfgTypeOK
<1>3. CarriesOwn' /\ FillIsTrue' /\ StaleOnlyByOverlap'
  BY <1>1 DEF CfgIInv, CarriesOwn, FillIsTrue, StaleOnlyByOverlap
<1> QED  BY <1>2, <1>3 DEF CfgIInv

LEMMA CfgTaskDiesStep ==
  ASSUME CfgIInv, NEW h \in CfgTasks, CfgTaskDies(h)
  PROVE  CfgIInv'
<1>1. /\ cfgTask'[h] = CfgIdle
      /\ \A k \in CfgTasks \ {h} : cfgTask'[k] = cfgTask[k]
      /\ cfgTask' \in [CfgTasks -> CfgRecords]
  BY CfgIdleType DEF CfgTaskDies, CfgGoto, CfgIInv, CfgTypeOK
<1>2. /\ late \subseteq late'
      /\ (cfgTask[h].pc = "drop" /\ copy[cfgTask[h].key] # Empty) => cfgTask[h].key \in late'
      /\ UNCHANGED <<setting, copy, cfgOps>>
  BY DEF CfgTaskDies
<1>3. CfgTypeOK'
  <2>1. cfgTask[h].key \in Keys
    BY DEF CfgIInv, CfgTypeOK, CfgRecords
  <2> QED  BY <2>1, <1>1, <1>2, SettingsAssumption DEF CfgTaskDies, CfgIInv, CfgTypeOK
<1>4. CarriesOwn' /\ FillIsTrue'
  BY <1>1, <1>2, CfgIdleType DEF CfgIInv, CarriesOwn, FillIsTrue
<1>5. StaleOnlyByOverlap'
  BY <1>1, <1>2 DEF CfgIInv, StaleOnlyByOverlap
<1> QED  BY <1>3, <1>4, <1>5 DEF CfgIInv

LEMMA CfgNextIInv ==
  ASSUME CfgIInv, [CfgNext]_cfgVars
  PROVE  CfgIInv'
<1>1. CASE UNCHANGED cfgVars
  BY <1>1 DEF cfgVars, CfgIInv, CfgTypeOK, CarriesOwn, FillIsTrue, StaleOnlyByOverlap
<1>2. CASE CfgNext
  BY <1>2, CfgReadersStep, CommandStep, FillCopyStep, CommitStep, DropCopyStep,
     ExpireCopyStep, CfgTaskDiesStep
  DEF CfgNext, CfgStep
<1> QED  BY <1>1, <1>2

THEOREM CfgInductive == CfgSpec => []CfgIInv
<1>1. CfgInit => CfgIInv
  BY CfgInitIInv
<1>2. CfgIInv /\ [CfgNext]_cfgVars => CfgIInv'
  BY CfgNextIInv
<1> QED  BY <1>1, <1>2, PTL DEF CfgSpec

------------------------------------------------------------------------------
(* Settings: the theorems.                                                 *)

\* Rows, copies, handlers and counters keep their types: no copy ever holds a value
\* of another key.
THEOREM CfgTypeCorrect == CfgSpec => []CfgTypeOK
<1>1. CfgIInv => CfgTypeOK
  BY DEF CfgIInv
<1> QED  BY <1>1, CfgInductive, PTL

\* However reads, commands, expiries and deaths interleave, a copy differs from its
\* row only before the writer's DEL, or after a fill or a death that crossed it.
THEOREM StaleOnlyByOverlapCorrect == CfgSpec => []StaleOnlyByOverlap
<1>1. CfgIInv => StaleOnlyByOverlap
  BY DEF CfgIInv
<1> QED  BY <1>1, CfgInductive, PTL

------------------------------------------------------------------------------
(* Group filters: what a handler may rely on between its awaits.           *)

\* A handler inserts only what the mapping it looked at had room for.
AskedForRoom ==
  \A h \in GrpTasks : grpTask[h].pc = "insert" =>
    \/ grpTask[h].word \in grpTask[h].basis
    \/ Cardinality(grpTask[h].basis) < Cap

\* Once the bot is out of the group, no handler is left that marks it active, unless
\* the removal overtook one.
OutIsQuiet ==
  (~member /\ ~overtaken) => \A h \in GrpTasks : ~WillActivate(h)

GrpIInv ==
  GrpTypeOK /\ AskedForRoom /\ OutIsQuiet /\ CapExceededOnlyByOverlap /\ ActiveMeansMember

\* The bounds are numbers, and so are the counters they bound.
LEMMA GrpConsts == Cap \in Nat /\ MaxGrpOps \in Nat /\ MaxGrpFaults \in Nat
  BY FiltersAssumption

LEMMA GrpCount ==
  /\ 0 \in 0..MaxGrpOps /\ 0 \in 0..MaxGrpFaults
  /\ \A n \in 0..MaxGrpOps : n < MaxGrpOps => n + 1 \in 0..MaxGrpOps
  /\ \A n \in 0..MaxGrpFaults : n < MaxGrpFaults => n + 1 \in 0..MaxGrpFaults
  BY GrpConsts

LEMMA GrpAtType ==
  ASSUME NEW pc \in GrpPcs
  PROVE  /\ GrpAt(pc) \in GrpRecords
         /\ GrpAt(pc).pc = pc /\ GrpAt(pc).adding = FALSE
<1>1. AnyWord \in Words
  BY FiltersAssumption DEF AnyWord
<1> QED  BY <1>1 DEF GrpAt, GrpRecords

\* The keywords of a group are finitely many.
LEMMA RowsFinite ==
  ASSUME NEW S \in SUBSET Words
  PROVE  IsFiniteSet(S) /\ Cardinality(S) \in Nat
  BY FiltersAssumption, FS_Subset, FS_CardinalityType

\* After _load_filters a handler inserts a keyword it found or found room for, or is
\* done; it is an adding one only in the first case.
LEMMA LoadedType ==
  ASSUME NEW t \in GrpRecords, NEW mapping \in SUBSET Words
  PROVE  /\ Loaded(t, mapping) \in GrpRecords
         /\ Loaded(t, mapping).pc \in {"insert", "idle"}
         /\ Loaded(t, mapping).pc = "insert" =>
              /\ t.adding
              /\ \/ Loaded(t, mapping).word \in Loaded(t, mapping).basis
                 \/ Cardinality(Loaded(t, mapping).basis) < Cap
         /\ Loaded(t, mapping).adding => t.adding
<1>1. CASE t.adding /\ (t.word \in mapping \/ Cardinality(mapping) < Cap)
  <2>1. Loaded(t, mapping) = [t EXCEPT !.pc = "insert", !.basis = mapping]
    BY <1>1 DEF Loaded
  <2>2. /\ Loaded(t, mapping) \in GrpRecords /\ Loaded(t, mapping).pc = "insert"
        /\ Loaded(t, mapping).word = t.word /\ Loaded(t, mapping).basis = mapping
    BY <2>1 DEF GrpRecords, GrpPcs
  <2> QED  BY <1>1, <2>2
<1>2. CASE ~(t.adding /\ (t.word \in mapping \/ Cardinality(mapping) < Cap))
  <2>1. Loaded(t, mapping) = GrpAt("idle")
    BY <1>2 DEF Loaded
  <2> QED  BY <2>1, GrpAtType DEF GrpPcs
<1> QED  BY <1>1, <1>2

LEMMA GrpInitIInv == GrpInit => GrpIInv
<1> SUFFICES ASSUME GrpInit PROVE GrpIInv
  OBVIOUS
<1>1. /\ GrpAt("idle") \in GrpRecords /\ GrpAt("idle").pc = "idle"
  BY GrpAtType DEF GrpPcs
<1>2. GrpTypeOK
  <2>1. grpTask \in [GrpTasks -> GrpRecords]
    BY <1>1 DEF GrpInit
  <2>2. rowsCopy \in {{}} \cup {{m} : m \in SUBSET Words}
    BY DEF GrpInit
  <2> QED  BY <2>1, <2>2, GrpCount DEF GrpInit, GrpTypeOK
<1>3. Cardinality(rows) = 0
  BY FS_EmptySet DEF GrpInit
<1>4. AskedForRoom /\ OutIsQuiet /\ CapExceededOnlyByOverlap /\ ActiveMeansMember
  BY <1>1, <1>3, GrpConsts
  DEF GrpInit, AskedForRoom, OutIsQuiet, CapExceededOnlyByOverlap, ActiveMeansMember
<1> QED  BY <1>2, <1>4 DEF GrpIInv

------------------------------------------------------------------------------
(* Group filters: the steps.                                               *)

\* A handler that goes on without touching the group's row, and adds no filter.
LEMMA GrpGoesOn ==
  ASSUME GrpIInv, NEW h \in GrpTasks, NEW rec \in GrpRecords,
         grpTask' = [grpTask EXCEPT ![h] = rec], grpTask[h].pc # "deactivate",
         rec.pc = "insert" => rec.word \in rec.basis \/ Cardinality(rec.basis) < Cap,
         (~member /\ ~overtaken) =>
           rec.pc \notin {"touch", "record", "insert"} /\ ~rec.adding,
         rows' \subseteq rows,
         rowsCopy' \in {{}} \cup {{m} : m \in SUBSET Words}, seenKey' \in BOOLEAN,
         grpOps' \in 0..MaxGrpOps, grpFaults' \in 0..MaxGrpFaults,
         UNCHANGED <<group, member, lateAdds, overtaken>>
  PROVE  GrpIInv'
<1>1. /\ grpTask'[h] = rec
      /\ \A k \in GrpTasks \ {h} : grpTask'[k] = grpTask[k]
      /\ grpTask' \in [GrpTasks -> GrpRecords]
  BY DEF GrpIInv, GrpTypeOK
<1>2. GrpTypeOK'
  BY <1>1 DEF GrpIInv, GrpTypeOK
<1>3. AskedForRoom'
  BY <1>1 DEF GrpIInv, AskedForRoom
<1>4. OutIsQuiet'
  BY <1>1 DEF GrpIInv, OutIsQuiet, WillActivate
<1>5. CapExceededOnlyByOverlap'
  <2>1. IsFiniteSet(rows) /\ Cardinality(rows) \in Nat /\ Cardinality(rows') \in Nat
    BY RowsFinite DEF GrpIInv, GrpTypeOK
  <2>2. Cardinality(rows') <= Cardinality(rows)
    BY <2>1, FS_Subset
  <2> QED  BY <2>1, <2>2, GrpConsts
      DEF GrpIInv, GrpTypeOK, CapExceededOnlyByOverlap
<1>6. ActiveMeansMember'
  BY <1>1 DEF GrpIInv, ActiveMeansMember
<1> QED  BY <1>2, <1>3, <1>4, <1>5, <1>6 DEF GrpIInv

LEMMA GroupTextStep ==
  ASSUME GrpIInv, NEW h \in GrpTasks,
         GroupText(h) \/ Touch(h) \/ ListFilters(h) \/ \E w \in Words : AddFilter(h, w)
  PROVE  GrpIInv'
<1> USE DEF GrpPcs
<1>1. CASE GroupText(h) \/ ListFilters(h)
  <2>1. PICK pc \in {"touch", "get"} : grpTask' = [grpTask EXCEPT ![h] = GrpAt(pc)]
    BY <1>1 DEF GroupText, ListFilters, GrpGoto
  <2> QED  BY <1>1, <2>1, GrpAtType, GrpGoesOn
      DEF GroupText, ListFilters, GrpIInv, GrpTypeOK
<1>2. CASE Touch(h)
  <2>1. PICK pc \in {"get", "idle", "record"} : grpTask' = [grpTask EXCEPT ![h] = GrpAt(pc)]
    BY <1>2 DEF Touch, GrpGoto
  <2>2. member \/ overtaken
    BY <1>2 DEF Touch, GrpIInv, OutIsQuiet, WillActivate
  <2> QED  BY <1>2, <2>1, <2>2, GrpAtType, GrpGoesOn DEF Touch, GrpIInv, GrpTypeOK
<1>3. ASSUME NEW w \in Words, AddFilter(h, w)
      PROVE  GrpIInv'
  <2> DEFINE rec == [GrpAt("get") EXCEPT !.adding = TRUE, !.word = w]
  <2>1. rec \in GrpRecords /\ rec.pc = "get"
    BY GrpAtType DEF GrpRecords
  <2>2. grpTask' = [grpTask EXCEPT ![h] = rec]
    BY <1>3 DEF AddFilter, GrpGoto
  <2>3. grpOps' \in 0..MaxGrpOps
    BY <1>3, GrpCount DEF AddFilter, GrpIInv, GrpTypeOK
  <2> HIDE DEF rec
  <2> QED  BY <1>3, <2>1, <2>2, <2>3, GrpGoesOn DEF AddFilter, GrpIInv, GrpTypeOK
<1> QED  BY <1>1, <1>2, <1>3

LEMMA LoadStep ==
  ASSUME GrpIInv, NEW h \in GrpTasks, GetFilters(h) \/ SelectFilters(h) \/ FillFilters(h)
  PROVE  GrpIInv'
<1> DEFINE t == grpTask[h]
<1>1. /\ t \in GrpRecords /\ t.basis \in SUBSET Words
      /\ t.pc \in {"get", "select", "fill"}
      /\ (~member /\ ~overtaken) => ~t.adding
  BY DEF GrpIInv, GrpTypeOK, GrpRecords, OutIsQuiet, WillActivate, GetFilters,
         SelectFilters, FillFilters
<1>2. ASSUME NEW pc \in {"select", "fill"}, NEW b \in SUBSET Words
      PROVE  /\ [t EXCEPT !.pc = pc] \in GrpRecords
             /\ [t EXCEPT !.pc = pc].pc = pc
             /\ [t EXCEPT !.pc = pc].adding = t.adding
             /\ [t EXCEPT !.pc = pc, !.basis = b] \in GrpRecords
             /\ [t EXCEPT !.pc = pc, !.basis = b].pc = pc
             /\ [t EXCEPT !.pc = pc, !.basis = b].adding = t.adding
  BY <1>1 DEF GrpRecords, GrpPcs
<1>3. CASE GetFilters(h)
  <2>1. CASE grpTask' = [grpTask EXCEPT ![h] = [t EXCEPT !.pc = "select"]]
    <3> DEFINE rec == [t EXCEPT !.pc = "select"]
    <3>1. rec \in GrpRecords /\ rec.pc = "select" /\ rec.adding = t.adding
      BY <1>2
    <3>2. grpTask' = [grpTask EXCEPT ![h] = rec]
      BY <2>1
    <3> HIDE DEF rec
    <3> QED  BY <1>1, <1>3, <3>1, <3>2, GrpGoesOn DEF GetFilters, GrpIInv, GrpTypeOK
  <2>2. ASSUME NEW mapping \in rowsCopy, grpTask' = [grpTask EXCEPT ![h] = Loaded(t, mapping)]
        PROVE  GrpIInv'
    <3>1. mapping \in SUBSET Words
      BY DEF GrpIInv, GrpTypeOK
    <3> QED  BY <1>1, <1>3, <2>2, <3>1, LoadedType, GrpGoesOn
        DEF GetFilters, GrpIInv, GrpTypeOK
  <2> QED  BY <1>3, <2>1, <2>2 DEF GetFilters, GrpGoto
<1>4. CASE SelectFilters(h)
  <2> DEFINE rec == [t EXCEPT !.pc = "fill", !.basis = rows]
  <2>1. rec \in GrpRecords /\ rec.pc = "fill" /\ rec.adding = t.adding
    BY <1>2 DEF GrpIInv, GrpTypeOK
  <2>2. grpTask' = [grpTask EXCEPT ![h] = rec]
    BY <1>4 DEF SelectFilters, GrpGoto
  <2> HIDE DEF rec
  <2> QED  BY <1>1, <1>4, <2>1, <2>2, GrpGoesOn DEF SelectFilters, GrpIInv, GrpTypeOK
<1>5. CASE FillFilters(h)
  <2>1. rowsCopy' \in {{}} \cup {{m} : m \in SUBSET Words}
    BY <1>1, <1>5 DEF FillFilters
  <2> QED  BY <1>1, <1>5, <2>1, LoadedType, GrpGoesOn
      DEF FillFilters, GrpGoto, GrpIInv, GrpTypeOK
<1> QED  BY <1>3, <1>4, <1>5

LEMMA StopStep ==
  ASSUME GrpIInv, NEW h \in GrpTasks,
         Invalidate(h) \/ \E words \in SUBSET Words : Stop(h, words)
  PROVE  GrpIInv'
<1>1. PICK pc \in {"idle", "drop"} : grpTask' = [grpTask EXCEPT ![h] = GrpAt(pc)]
  BY DEF Invalidate, Stop, GrpReturn, GrpGoto
<1>2. rows' \subseteq rows /\ grpOps' \in 0..MaxGrpOps
  BY GrpCount DEF Invalidate, Stop, GrpIInv, GrpTypeOK
<1> QED  BY <1>1, <1>2, GrpAtType, GrpGoesOn
    DEF Invalidate, Stop, GrpPcs, GrpIInv, GrpTypeOK

\* Only a keyword that is new to the rows, and was checked against a mapping that was
\* no longer theirs, can pass the cap, and then it is counted.
LEMMA InsertFilterStep ==
  ASSUME GrpIInv, NEW h \in GrpTasks, InsertFilter(h)
  PROVE  GrpIInv'
<1> DEFINE t == grpTask[h]
<1>1. t \in GrpRecords /\ t.word \in Words /\ t.pc = "insert"
  BY DEF InsertFilter, GrpIInv, GrpTypeOK, GrpRecords
<1>2. /\ rows' = rows \cup {t.word}
      /\ lateAdds' = IF t.word \in rows \/ t.basis = rows THEN lateAdds ELSE lateAdds + 1
      /\ group' = "active"
      /\ grpTask' = [grpTask EXCEPT ![h] = GrpAt("drop")]
      /\ UNCHANGED <<rowsCopy, member, seenKey, grpOps, grpFaults, overtaken>>
  BY DEF InsertFilter, GrpGoto
<1>3. /\ grpTask'[h] = GrpAt("drop")
      /\ \A k \in GrpTasks \ {h} : grpTask'[k] = grpTask[k]
      /\ grpTask' \in [GrpTasks -> GrpRecords]
      /\ grpTask'[h].pc = "drop" /\ ~grpTask'[h].adding
  BY <1>2, GrpAtType DEF GrpPcs, GrpIInv, GrpTypeOK
<1>4. GrpTypeOK'
  BY <1>1, <1>2, <1>3 DEF GrpIInv, GrpTypeOK
<1>5. AskedForRoom' /\ OutIsQuiet'
  BY <1>2, <1>3 DEF GrpIInv, AskedForRoom, OutIsQuiet, WillActivate
<1>6. CapExceededOnlyByOverlap'
  <2>1. /\ IsFiniteSet(rows) /\ Cardinality(rows) \in Nat
        /\ lateAdds \in Nat /\ Cap \in Nat
        /\ Cardinality(rows) <= Cap + lateAdds
    BY RowsFinite, GrpConsts DEF GrpIInv, GrpTypeOK, CapExceededOnlyByOverlap
  <2>2. CASE t.word \in rows
    <3>1. rows' = rows /\ lateAdds' = lateAdds
      BY <1>2, <2>2
    <3> QED  BY <2>1, <3>1 DEF CapExceededOnlyByOverlap
  <2>3. CASE t.word \notin rows
    <3>1. Cardinality(rows') = Cardinality(rows) + 1
      BY <1>2, <2>1, <2>3, FS_AddElement
    <3>2. CASE t.basis = rows
      <4>1. Cardinality(rows) < Cap
        BY <1>1, <2>3, <3>2 DEF GrpIInv, AskedForRoom
      <4> QED  BY <1>2, <2>1, <3>1, <3>2, <4>1 DEF CapExceededOnlyByOverlap
    <3>3. CASE t.basis # rows
      BY <1>2, <2>1, <2>3, <3>1, <3>3 DEF CapExceededOnlyByOverlap
    <3> QED  BY <3>2, <3>3
  <2> QED  BY <2>2, <2>3
<1>7. ActiveMeansMember'
  <2>1. member \/ overtaken
    BY <1>1 DEF GrpIInv, OutIsQuiet, WillActivate
  <2> QED  BY <1>2, <2>1 DEF ActiveMeansMember
<1> QED  BY <1>4, <1>5, <1>6, <1>7 DEF GrpIInv

\* The steps that write the group's row, or see the bot come and go.
LEMMA MembershipStep ==
  ASSUME GrpIInv, NEW h \in GrpTasks,
         Record(h) \/ Added(h) \/ Removed(h) \/ Deactivate(h) \/ GrpTaskDies(h)
  PROVE  GrpIInv'
<1>1. PICK pc \in {"idle", "get", "record", "deactivate"} :
        /\ grpTask' = [grpTask EXCEPT ![h] = GrpAt(pc)]
        /\ Record(h) => pc \in {"get", "idle"}
        /\ Added(h) => pc = "record"
        /\ Removed(h) => pc = "deactivate"
        /\ Deactivate(h) \/ GrpTaskDies(h) => pc = "idle"
  BY DEF Record, Added, Removed, Deactivate, GrpTaskDies, GrpReturn, GrpGoto
<1>2. /\ grpTask'[h].pc = pc /\ ~grpTask'[h].adding
      /\ \A k \in GrpTasks \ {h} : grpTask'[k] = grpTask[k]
      /\ grpTask' \in [GrpTasks -> GrpRecords]
  BY <1>1, GrpAtType DEF GrpPcs, GrpIInv, GrpTypeOK
<1>3. UNCHANGED <<rows, rowsCopy, seenKey, lateAdds>>
  BY DEF Record, Added, Removed, Deactivate, GrpTaskDies
<1>4. GrpTypeOK'
  <2>1. /\ group' \in {"absent", "active", "inactive"} /\ member' \in BOOLEAN
        /\ grpOps' \in 0..MaxGrpOps /\ grpFaults' \in 0..MaxGrpFaults
    BY GrpCount
    DEF Record, Added, Removed, Deactivate, GrpTaskDies, GrpIInv, GrpTypeOK
  <2>2. overtaken' \in BOOLEAN
    BY DEF Record, Added, Removed, Deactivate, GrpTaskDies, GrpIInv, GrpTypeOK
  <2> QED  BY <1>2, <1>3, <2>1, <2>2 DEF GrpIInv, GrpTypeOK
<1>5. AskedForRoom' /\ CapExceededOnlyByOverlap'
  BY <1>2, <1>3 DEF GrpIInv, AskedForRoom, CapExceededOnlyByOverlap
<1>6. OutIsQuiet' /\ ActiveMeansMember'
  <2> USE <1>1, <1>2 DEF GrpIInv, OutIsQuiet, ActiveMeansMember, WillActivate
  <2>1. CASE Record(h)
    <3>1. member \/ overtaken
      BY <2>1 DEF Record
    <3> QED  BY <2>1, <3>1 DEF Record
  <2>2. CASE Added(h)
    BY <2>2 DEF Added
  <2>3. CASE Removed(h)
    BY <2>3 DEF Removed
  <2>4. CASE Deactivate(h)
    BY <2>4 DEF Deactivate
  <2>5. CASE GrpTaskDies(h)
    BY <2>5 DEF GrpTaskDies
  <2> QED  BY <2>1, <2>2, <2>3, <2>4, <2>5
<1> QED  BY <1>4, <1>5, <1>6 DEF GrpIInv

\* What happens outside the handlers.
LEMMA GrpOutsideStep ==
  ASSUME GrpIInv, SeenExpires \/ FiltersExpire \/ MembershipMissed
  PROVE  GrpIInv'
<1>1. UNCHANGED <<rows, group, grpTask, grpOps, lateAdds>>
  BY DEF SeenExpires, FiltersExpire, MembershipMissed
<1>2. GrpTypeOK'
  <2>1. /\ rowsCopy' \in {{}} \cup {{m} : m \in SUBSET Words}
        /\ seenKey' \in BOOLEAN /\ member' \in BOOLEAN
        /\ grpFaults' \in 0..MaxGrpFaults
    BY GrpCount DEF SeenExpires, FiltersExpire, MembershipMissed, GrpIInv, GrpTypeOK
  <2>2. overtaken' \in BOOLEAN
    BY DEF SeenExpires, FiltersExpire, MembershipMissed, GrpIInv, GrpTypeOK
  <2> QED  BY <1>1, <2>1, <2>2 DEF GrpIInv, GrpTypeOK
<1>3. AskedForRoom' /\ CapExceededOnlyByOverlap'
  BY <1>1 DEF GrpIInv, AskedForRoom, CapExceededOnlyByOverlap
<1>4. OutIsQuiet' /\ ActiveMeansMember'
  BY <1>1 DEF GrpIInv, OutIsQuiet, ActiveMeansMember, WillActivate,
              SeenExpires, FiltersExpire, MembershipMissed
<1> QED  BY <1>2, <1>3, <1>4 DEF GrpIInv

LEMMA GrpNextIInv ==
  ASSUME GrpIInv, [GrpNext]_grpVars
  PROVE  GrpIInv'
<1>1. CASE UNCHANGED grpVars
  BY <1>1 DEF grpVars, GrpIInv, GrpTypeOK, AskedForRoom, OutIsQuiet, WillActivate,
              CapExceededOnlyByOverlap, ActiveMeansMember
<1>2. CASE GrpNext
  <2>1. \A w \in Words : {w} \in SUBSET Words
    OBVIOUS
  <2>2. Words \in SUBSET Words
    OBVIOUS
  <2> QED  BY <1>2, <2>1, <2>2, GroupTextStep, LoadStep, StopStep, InsertFilterStep,
              MembershipStep, GrpOutsideStep
      DEF GrpNext, GrpStep
<1> QED  BY <1>1, <1>2

THEOREM GrpInductive == GrpSpec => []GrpIInv
<1>1. GrpInit => GrpIInv
  BY GrpInitIInv
<1>2. GrpIInv /\ [GrpNext]_grpVars => GrpIInv'
  BY GrpNextIInv
<1> QED  BY <1>1, <1>2, PTL DEF GrpSpec

\* Rows, copy, group, handlers and counters keep their types.
THEOREM GrpTypeCorrect == GrpSpec => []GrpTypeOK
<1>1. GrpIInv => GrpTypeOK
  BY DEF GrpIInv
<1> QED  BY <1>1, GrpInductive, PTL

\* Whatever the cap and however /filter, /stop, fills and expiries interleave, the
\* rows pass the cap only by filters checked against an outdated mapping, by one each.
THEOREM CapExceededCorrect == GrpSpec => []CapExceededOnlyByOverlap
<1>1. GrpIInv => CapExceededOnlyByOverlap
  BY DEF GrpIInv
<1> QED  BY <1>1, GrpInductive, PTL

\* A group the bot was removed from does not stay active, unless the removal overtook a
\* handler that records the group, was missed, or failed.
THEOREM ActiveMeansMemberCorrect == GrpSpec => []ActiveMeansMember
<1>1. GrpIInv => ActiveMeansMember
  BY DEF GrpIInv
<1> QED  BY <1>1, GrpInductive, PTL

------------------------------------------------------------------------------
(* The composition.                                                        *)

\* A step of the composition is a step of one part and leaves the others alone.
LEMMA MirrorsStep ==
  ASSUME [Next]_vars
  PROVE  [BanNext]_banVars /\ [CfgNext]_cfgVars /\ [GrpNext]_grpVars
  BY DEF Next, vars

\* Every behaviour of the composition is one of each of its parts: what is proved of a
\* part alone, its action properties included, holds in the company of the others.
THEOREM MirrorsImplementsParts == Spec => BanSpec /\ CfgSpec /\ GrpSpec
<1>1. Init => BanInit /\ CfgInit /\ GrpInit
  BY DEF Init
<1>2. [Next]_vars => [BanNext]_banVars /\ [CfgNext]_cfgVars /\ [GrpNext]_grpVars
  BY MirrorsStep
<1> QED  BY <1>1, <1>2, PTL DEF Spec, BanSpec, CfgSpec, GrpSpec

\* Everything the composition keeps has its type.
THEOREM MirrorsTypeCorrect == Spec => []TypeOK
<1>1. BanTypeOK /\ CfgTypeOK /\ GrpTypeOK => TypeOK
  BY DEF TypeOK
<1> QED
  BY <1>1, MirrorsImplementsParts, BanTypeCorrect, CfgTypeCorrect, GrpTypeCorrect, PTL

\* All that the copies in Redis promise together, of the composition as a whole.
THEOREM MirrorsSafe ==
  Spec => [](/\ MirrorAgreesUnlessRaced /\ BannedStayOut
             /\ StaleOnlyByOverlap
             /\ CapExceededOnlyByOverlap /\ ActiveMeansMember)
  BY MirrorsImplementsParts, MirrorAgreesCorrect, BannedStayOutCorrect,
     StaleOnlyByOverlapCorrect, CapExceededCorrect, ActiveMeansMemberCorrect, PTL

==============================================================================
