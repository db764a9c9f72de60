--------------------------- MODULE IndexJobs_proofs ---------------------------
(***************************************************************************)
(* Proofs about IndexJobs, for any channels, message ids, batch size and   *)
(* number of faults.                                                       *)
(***************************************************************************)
EXTENDS IndexJobs, TLAPS

------------------------------------------------------------------------------
(* The inductive invariant: what a walker may rely on between its awaits.  *)

\* A row that is absent has no checkpoint; the walker is the only one that ends
\* a job.
RowInv(c) ==
  /\ job[c].status = "absent" => job[c].last = 0 /\ job[c].target = 0
  /\ walker[c].pc \in Mid \cup {"fail"} => job[c].status \in {"running", "absent"}

\* The batch in hand is a non-empty window.
BatchInv(c) ==
  /\ walker[c].pc \in {"fetch", "index"} =>
       1 <= walker[c].pos /\ walker[c].pos <= walker[c].end
  /\ walker[c].pc = "ckpt" => 1 <= walker[c].end

\* A walk no wipe overtook: the row is still the one it read, except that the
\* target may have been raised, and all it stepped over is handled.
WalkInv(c) ==
  ~walker[c].crossed =>
    /\ walker[c].pc \in Mid => job[c].status = "running"
    /\ walker[c].pc \in {"fetch", "index", "ckpt"} =>
         job[c].last < walker[c].end /\ walker[c].end <= job[c].target
    /\ walker[c].pc = "fetch" => walker[c].pos = job[c].last + 1
    /\ walker[c].pc = "index" =>
         \A id \in FileIds :
           job[c].last < id /\ id < walker[c].pos => id \in files[c] \cup passed[c]
    /\ walker[c].pc = "ckpt" =>
         \A id \in FileIds :
           job[c].last < id /\ id <= walker[c].end => id \in files[c] \cup passed[c]
    /\ walker[c].pc = "complete" => job[c].last >= walker[c].target

\* A walk a wipe did overtake finds a new row, which nobody has checkpointed.
CrossedInv(c) ==
  walker[c].crossed => walker[c].pc \in Mid /\ job[c].last = 0 /\ c \notin stale

LedgerInv(c) ==
  c \notin stale =>
    /\ job[c].last <= job[c].target
    /\ \A id \in FileIds : id <= job[c].last => id \in files[c] \cup passed[c]

ChannelInv(c) ==
  RowInv(c) /\ BatchInv(c) /\ WalkInv(c) /\ CrossedInv(c) /\ LedgerInv(c)

IInv == TypeOK /\ \A c \in Channels : ChannelInv(c)

------------------------------------------------------------------------------
(* Types.                                                                  *)

\* Walkers is closed under replacing fields by values in range.
LEMMA WalkersClosed ==
  ASSUME NEW w \in Walkers, NEW pc \in Pcs, NEW n \in 0..MaxMsg,
         NEW errs \in 0..(MaxConsecutiveErrors - 1)
  PROVE  /\ [w EXCEPT !.pc = pc, !.seen = n, !.errs = errs] \in Walkers
         /\ [w EXCEPT !.pc = pc, !.errs = errs] \in Walkers
BY DEF Walkers

\* Walkers is closed under taking a batch and stepping through it.
LEMMA WindowsClosed ==
  ASSUME NEW w \in Walkers, NEW pc \in Pcs, NEW pos \in 0..(MaxMsg + 1),
         NEW end \in 0..MaxMsg, NEW n \in 0..MaxMsg
  PROVE  /\ [w EXCEPT !.pos = pos, !.pc = pc] \in Walkers
         /\ [w EXCEPT !.pos = pos, !.end = end, !.target = n] \in Walkers
BY DEF Walkers

\* A walker at the start of a step, with an error count in range, is well typed.
LEMMA AtType ==
  ASSUME NEW pc \in Pcs, NEW errs \in 0..(MaxConsecutiveErrors - 1)
  PROVE  At(pc, errs) \in Walkers
BY IndexAssumption DEF At, Walkers

\* Every step keeps every variable in its type: TypeOK is inductive once the
\* batch in hand is known to be a window.
LEMMA TypeStep ==
  ASSUME TypeOK, \A c \in Channels : BatchInv(c), [Next]_vars
  PROVE  TypeOK'
<1> USE IndexAssumption DEF TypeOK, MsgIds
<1>0. Idle \in Walkers /\ 0 \in 0..(MaxConsecutiveErrors - 1)
  BY AtType DEF Idle, Pcs
<1>1. ASSUME NEW c \in Channels, NEW t \in MsgIds, UpsertJob(c, t)
      PROVE  TypeOK'
  BY <1>1 DEF UpsertJob, Jobs, Statuses, Larger
<1>2. ASSUME NEW c \in Channels, Post(c)
      PROVE  TypeOK'
  BY <1>2 DEF Post
<1>3. ASSUME NEW c \in Channels, NEW id \in MsgIds, LiveIndex(c, id) \/ LiveDrop(c, id)
      PROVE  TypeOK'
  BY <1>3 DEF LiveIndex, LiveDrop
<1>4. ASSUME NEW c \in Channels, DispatchJob(c)
      PROVE  TypeOK'
  BY <1>4, AtType DEF DispatchJob, Pcs
<1>5. ASSUME NEW c \in Channels, Walk(c)
      PROVE  TypeOK'
  <2> DEFINE w == walker[c]  j == job[c]
  <2>0. /\ w \in Walkers /\ j \in Jobs
        /\ w.errs \in 0..(MaxConsecutiveErrors - 1) /\ w.end \in 0..MaxMsg
        /\ j.last \in 0..MaxMsg /\ j.target \in 0..MaxMsg
    BY DEF Walkers, Jobs
  <2>1. CASE ReadJob(c)
    <3>1. CASE j.status # "running"
      BY <2>1, <3>1, <1>0 DEF ReadJob, Exhausted
    <3>2. CASE j.status = "running" /\ j.last + 1 > j.target
      <4>1. [At("complete", 0) EXCEPT !.target = j.target] \in Walkers
        BY <2>0, AtType DEF Walkers, Pcs
      <4> QED BY <2>1, <2>0, <3>2, <4>1 DEF ReadJob, Exhausted
    <3>3. CASE j.status = "running" /\ j.last + 1 <= j.target
      <4> DEFINE taken == [At("fetch", w.errs) EXCEPT
                             !.pos = j.last + 1,
                             !.end = Smaller(j.last + BatchSize, j.target),
                             !.target = j.target]
      <4>1. j.last + 1 \in 0..(MaxMsg + 1)
            /\ Smaller(j.last + BatchSize, j.target) \in 0..MaxMsg
        BY <2>0 DEF Smaller
      <4>2. taken \in Walkers
        <5>1. At("fetch", w.errs) \in Walkers
          BY <2>0, AtType DEF Pcs
        <5> QED BY <2>0, <4>1, <5>1, WindowsClosed DEF Pcs
      <4> HIDE DEF taken
      <4>3. walker' = [walker EXCEPT ![c] = taken]
        BY <2>1, <2>0, <3>3 DEF ReadJob, Exhausted, taken
      <4> QED BY <2>1, <4>2, <4>3 DEF ReadJob, Exhausted
    <3> QED BY <2>0, <3>1, <3>2, <3>3
  <2>2. CASE SetCompleted(c) \/ SetErrored(c)
    <3>1. At("report", 0) \in Walkers
      BY AtType DEF Pcs
    <3>2. \A s \in Statuses : [j EXCEPT !.status = s] \in Jobs
      BY <2>0 DEF Jobs
    <3> QED BY <2>0, <2>2, <3>1, <3>2 DEF SetCompleted, SetErrored, SetStatus, Statuses
  <2>4. CASE Report(c)
    BY <2>4, <1>0 DEF Report
  <2>5. CASE FetchOk(c)
    <3>1. [w EXCEPT !.pc = "index", !.seen = head[c], !.errs = 0] \in Walkers
      BY <2>0, <1>0, WalkersClosed DEF Pcs
    <3> QED BY <2>5, <3>1 DEF FetchOk
  <2>6. CASE FetchEmpty(c)
    <3>1. [w EXCEPT !.pc = "ckpt", !.errs = 0] \in Walkers
      BY <2>0, <1>0, WalkersClosed DEF Pcs
    <3> QED BY <2>6, <3>1 DEF FetchEmpty
  <2>7. CASE FetchError(c)
    <3>1. At("fail", 0) \in Walkers
      BY AtType DEF Pcs
    <3>2. CASE w.errs + 1 < MaxConsecutiveErrors
      <4>1. At("read", w.errs + 1) \in Walkers
        BY <2>0, <3>2, AtType DEF Pcs
      <4> QED BY <2>7, <2>0, <3>2, <4>1 DEF FetchError
    <3> QED BY <2>7, <2>0, <3>1, <3>2 DEF FetchError
  <2>8. CASE IndexMessage(c) \/ PassMessage(c)
    <3>1. w.pc = "index" /\ w.pos \in 0..MaxMsg
      BY <2>8, <2>0 DEF IndexMessage, PassMessage, BatchInv, Walkers
    <3>2. w.pos + 1 \in 0..(MaxMsg + 1)
      BY <3>1
    <3>3. \A pc \in Pcs : [w EXCEPT !.pos = w.pos + 1, !.pc = pc] \in Walkers
      BY <2>0, <3>2, WindowsClosed
    <3>4. walker' \in [Channels -> Walkers]
      BY <2>8, <3>3 DEF IndexMessage, PassMessage, NextId, Pcs
    <3>5. CASE IndexMessage(c)
      BY <3>5, <3>1, <3>4 DEF IndexMessage
    <3>6. CASE PassMessage(c)
      BY <3>6, <3>4 DEF PassMessage
    <3> QED BY <2>8, <3>5, <3>6
  <2>10. CASE Checkpoint(c)
    <3>1. At("read", 0) \in Walkers /\ [j EXCEPT !.last = w.end] \in Jobs
      BY <2>0, AtType DEF Pcs, Jobs
    <3> QED BY <2>10, <3>1 DEF Checkpoint
  <2> QED BY <1>5, <2>1, <2>2, <2>4, <2>5, <2>6, <2>7, <2>8, <2>10 DEF Walk
<1>6. ASSUME NEW c \in Channels, FloodWait(c) \/ WalkerDies(c)
      PROVE  TypeOK'
  <2>1. walker[c].errs \in 0..(MaxConsecutiveErrors - 1)
    BY DEF Walkers
  <2>2. At("read", walker[c].errs) \in Walkers
    BY <2>1, AtType DEF Pcs
  <2> QED BY <1>6, <1>0, <2>2 DEF FloodWait, WalkerDies
<1>7. CASE WipeIndex
  <2>1. Absent \in Jobs
    BY DEF Absent, Jobs, Statuses
  <2>2. ASSUME NEW c \in Channels
        PROVE  [walker[c] EXCEPT !.crossed = @ \/ walker[c].pc \in Mid] \in Walkers
    <3>1. walker[c] \in Walkers /\ (walker[c].crossed \/ walker[c].pc \in Mid) \in BOOLEAN
      OBVIOUS
    <3> QED BY <3>1 DEF Walkers
  <2> QED BY <1>7, <2>1, <2>2 DEF WipeIndex
<1>8. CASE DispatchPoll
  BY <1>8 DEF DispatchPoll, Running
<1>9. CASE DispatcherFails
  BY <1>9 DEF DispatcherFails
<1>10. CASE WorkerRestarts
  BY <1>10, <1>0 DEF WorkerRestarts
<1>11. CASE UNCHANGED vars
  BY <1>11 DEF vars
<1> QED BY <1>1, <1>2, <1>3, <1>4, <1>5, <1>6, <1>7, <1>8, <1>9, <1>10, <1>11 DEF Next

------------------------------------------------------------------------------
(* The inductive step.                                                     *)

\* A step that leaves a channel's row and task alone, and at most adds handled
\* messages, keeps the channel's invariant.
LEMMA Frame ==
  ASSUME NEW d \in Channels, ChannelInv(d),
         walker'[d] = walker[d], job'[d] = job[d],
         files[d] \subseteq files'[d], passed[d] \subseteq passed'[d],
         d \in stale' <=> d \in stale
  PROVE  ChannelInv(d)'
BY DEF ChannelInv, RowInv, BatchInv, WalkInv, CrossedInv, LedgerInv

\* A task that gives up its snapshot has nothing left to be wrong about.
LEMMA Drop ==
  ASSUME NEW d \in Channels, ChannelInv(d), NEW pc \in {"idle", "read"}, NEW errs,
         walker'[d] = At(pc, errs), job'[d] = job[d],
         files[d] \subseteq files'[d], passed[d] \subseteq passed'[d],
         d \in stale' <=> d \in stale
  PROVE  ChannelInv(d)'
BY DEF ChannelInv, RowInv, BatchInv, WalkInv, CrossedInv, LedgerInv, At, Mid

\* What a walker does to its own channel.
LEMMA WalkStep ==
  ASSUME IInv, TypeOK', NEW c \in Channels, Walk(c)
  PROVE  ChannelInv(c)'
<1> DEFINE w == walker[c]  j == job[c]
<1> USE IndexAssumption
<1>0. /\ ChannelInv(c)
      /\ w \in Walkers /\ j \in Jobs
      /\ w.end \in Int /\ w.pos \in Int /\ w.target \in Int
      /\ j.last \in Int /\ j.target \in Int /\ j.last >= 0
      /\ FileIds \subseteq Int
  BY DEF IInv, TypeOK, Walkers, Jobs, MsgIds
<1>1. CASE ReadJob(c)
  <2>1. CASE j.status # "running"
    BY <1>0, <1>1, <2>1, Drop DEF ReadJob, Exhausted, Idle, IInv, TypeOK
  <2>2. CASE j.status = "running" /\ j.last + 1 > j.target
    <3>1. walker'[c] = [At("complete", 0) EXCEPT !.target = j.target] /\ job' = job
      BY <1>0, <1>1, <2>2 DEF ReadJob, Exhausted, IInv, TypeOK
    <3> QED BY <1>0, <1>1, <2>2, <3>1
            DEF ReadJob, Exhausted, At, Mid, ChannelInv, RowInv, BatchInv, WalkInv, CrossedInv, LedgerInv
  <2>3. CASE j.status = "running" /\ j.last + 1 <= j.target
    <3> DEFINE end == Smaller(j.last + BatchSize, j.target)
    <3>1. end \in Int /\ j.last < end /\ end <= j.target
      BY <1>0, <2>3 DEF Smaller
    <3>2. /\ walker'[c] = [At("fetch", w.errs) EXCEPT !.pos = j.last + 1, !.end = end,
                                                      !.target = j.target]
          /\ job' = job
      BY <1>0, <1>1, <2>3 DEF ReadJob, Exhausted, IInv, TypeOK
    <3> HIDE DEF end
    <3> QED BY <1>0, <1>1, <2>3, <3>1, <3>2
            DEF ReadJob, Exhausted, At, Mid, ChannelInv, RowInv, BatchInv, WalkInv, CrossedInv, LedgerInv
  <2> QED BY <1>0, <2>1, <2>2, <2>3
<1>2. CASE SetCompleted(c) \/ SetErrored(c)
  <2>1. /\ walker'[c] = At("report", 0)
        /\ job'[c].last = j.last /\ job'[c].target = j.target
        /\ j.status = "absent" <=> job'[c].status = "absent"
        /\ UNCHANGED <<files, passed, stale>>
    BY <1>2 DEF SetCompleted, SetErrored, SetStatus, IInv, TypeOK, Jobs
  <2> QED BY <1>0, <2>1
          DEF At, Mid, ChannelInv, RowInv, BatchInv, WalkInv, CrossedInv, LedgerInv
<1>3. CASE Report(c)
  BY <1>0, <1>3, Drop DEF Report, Idle, IInv, TypeOK
<1>4. CASE FetchOk(c)
  <2>1. /\ walker'[c] = [w EXCEPT !.pc = "index", !.seen = head[c], !.errs = 0]
        /\ w.pc = "fetch" /\ UNCHANGED <<job, files, passed, stale>>
    BY <1>4 DEF FetchOk, IInv, TypeOK
  <2>2. /\ walker'[c].pc = "index" /\ walker'[c].pos = w.pos /\ walker'[c].end = w.end
        /\ walker'[c].crossed = w.crossed
    BY <1>0, <2>1 DEF Walkers
  <2> QED BY <1>0, <2>1, <2>2
          DEF Mid, ChannelInv, RowInv, BatchInv, WalkInv, CrossedInv, LedgerInv
<1>5. CASE FetchEmpty(c)
  <2>1. /\ walker'[c] = [w EXCEPT !.pc = "ckpt", !.errs = 0]
        /\ passed'[c] = passed[c] \cup (FileIds \cap (w.pos..w.end))
        /\ w.pc = "fetch" /\ UNCHANGED <<job, files, stale>>
    BY <1>5 DEF FetchEmpty, IInv, TypeOK
  <2>2. walker'[c].pc = "ckpt" /\ walker'[c].end = w.end /\ walker'[c].crossed = w.crossed
    BY <1>0, <2>1 DEF Walkers
  <2>3. ~w.crossed => \A id \in FileIds : j.last < id /\ id <= w.end => id \in passed'[c]
    BY <1>0, <2>1 DEF ChannelInv, WalkInv
  <2> QED BY <1>0, <2>1, <2>2, <2>3
          DEF Mid, ChannelInv, RowInv, BatchInv, WalkInv, CrossedInv, LedgerInv
<1>6. CASE FetchError(c)
  <2>1. CASE w.errs + 1 < MaxConsecutiveErrors
    BY <1>0, <1>6, <2>1, Drop DEF FetchError, IInv, TypeOK, Walkers
  <2>2. CASE w.errs + 1 >= MaxConsecutiveErrors
    <3>1. walker'[c] = At("fail", 0) /\ w.pc = "fetch" /\ UNCHANGED <<job, files, passed, stale>>
      BY <1>0, <1>6, <2>2 DEF FetchError, IInv, TypeOK, Walkers
    <3> QED BY <1>0, <3>1
            DEF At, Mid, ChannelInv, RowInv, BatchInv, WalkInv, CrossedInv, LedgerInv
  <2> QED BY <2>1, <2>2 DEF IInv, TypeOK, Walkers
<1>7. CASE IndexMessage(c) \/ PassMessage(c)
  <2>1. /\ w.pc = "index"
        /\ walker'[c] = [w EXCEPT !.pos = w.pos + 1,
                                  !.pc = IF w.pos = w.end THEN "ckpt" ELSE "index"]
        /\ UNCHANGED <<job, stale>>
        /\ files[c] \subseteq files'[c] /\ passed[c] \subseteq passed'[c]
        /\ w.pos \in FileIds => w.pos \in files'[c] \cup passed'[c]
    <3>0. TypeOK
      BY DEF IInv
    <3>1. CASE IndexMessage(c)
      <4>1. /\ w.pc = "index" /\ UNCHANGED <<job, stale, passed>>
            /\ files'[c] = files[c] \cup {w.pos}
        BY <3>0, <3>1 DEF IndexMessage, TypeOK
      <4> QED BY <3>0, <3>1, <4>1 DEF IndexMessage, NextId, TypeOK
    <3>2. CASE PassMessage(c)
      <4>1. /\ w.pc = "index" /\ UNCHANGED <<job, stale, files>>
            /\ passed'[c] = passed[c] \cup (FileIds \cap {w.pos})
        BY <3>0, <3>2 DEF PassMessage, TypeOK
      <4> QED BY <3>0, <3>2, <4>1 DEF PassMessage, NextId, TypeOK
    <3> QED BY <1>7, <3>1, <3>2
  <2>2. /\ walker'[c].pc = IF w.pos = w.end THEN "ckpt" ELSE "index"
        /\ walker'[c].pos = w.pos + 1 /\ walker'[c].end = w.end
        /\ walker'[c].crossed = w.crossed
    BY <1>0, <2>1 DEF Walkers
  <2>3. 1 <= w.pos /\ w.pos <= w.end
    BY <1>0, <2>1 DEF ChannelInv, BatchInv
  <2>4. ~w.crossed => \A id \in FileIds :
          j.last < id /\ id < w.pos + 1 => id \in files'[c] \cup passed'[c]
    BY <1>0, <2>1 DEF ChannelInv, WalkInv
  <2> QED BY <1>0, <2>1, <2>2, <2>3, <2>4
          DEF Mid, ChannelInv, RowInv, BatchInv, WalkInv, CrossedInv, LedgerInv
<1>8. CASE Checkpoint(c)
  <2>1. /\ w.pc = "ckpt" /\ walker'[c] = At("read", 0)
        /\ UNCHANGED <<files, passed>>
    BY <1>8 DEF Checkpoint, IInv, TypeOK
  <2>2. CASE j.status = "absent"
    BY <1>0, <1>8, <2>1, <2>2, Drop DEF Checkpoint
  <2>3. CASE j.status # "absent"
    <3>1. /\ job'[c] = [j EXCEPT !.last = w.end]
          /\ w.crossed => c \in stale'
          /\ c \in stale => c \in stale'
      BY <1>8, <2>3 DEF Checkpoint, IInv, TypeOK
    <3>2. job'[c].last = w.end /\ job'[c].status = j.status /\ job'[c].target = j.target
      BY <1>0, <3>1 DEF Jobs
    <3> QED BY <1>0, <2>1, <2>3, <3>1, <3>2
            DEF At, Mid, ChannelInv, RowInv, BatchInv, WalkInv, CrossedInv, LedgerInv
  <2> QED BY <2>2, <2>3
<1> QED BY <1>1, <1>2, <1>3, <1>4, <1>5, <1>6, <1>7, <1>8 DEF Walk

\* Every step of the system keeps the inductive invariant.
LEMMA InductiveStep ==
  ASSUME IInv, [Next]_vars
  PROVE  IInv'
<1> USE IndexAssumption
<1>0. TypeOK /\ TypeOK'
  BY TypeStep DEF IInv, ChannelInv
<1> SUFFICES ASSUME NEW d \in Channels
             PROVE  ChannelInv(d)'
  BY <1>0 DEF IInv
<1>00. ChannelInv(d)
  BY DEF IInv
<1>1. ASSUME NEW c \in Channels, NEW t \in MsgIds, UpsertJob(c, t)
      PROVE  ChannelInv(d)'
  <2>1. CASE c = d
    <3>1. /\ job[d].last \in Int /\ job[d].target \in Int /\ t \in Int /\ t >= 0
          /\ job'[d] = [status |-> "running", target |-> Larger(job[d].target, t),
                        last |-> job[d].last]
          /\ Larger(job[d].target, t) \in Int /\ Larger(job[d].target, t) >= job[d].target
          /\ UNCHANGED <<files, passed, stale, walker>>
          /\ walker[d].end \in Int
      BY <1>0, <1>1, <2>1 DEF UpsertJob, TypeOK, Jobs, Larger, MsgIds, Walkers
    <3> QED BY <1>00, <3>1
            DEF Mid, ChannelInv, RowInv, BatchInv, WalkInv, CrossedInv, LedgerInv
  <2>2. CASE c # d
    BY <1>0, <1>00, <1>1, <2>2, Frame DEF UpsertJob, TypeOK
  <2> QED BY <2>1, <2>2
<1>2. ASSUME NEW c \in Channels, NEW id \in MsgIds,
             LiveIndex(c, id) \/ LiveDrop(c, id)
      PROVE  ChannelInv(d)'
  BY <1>0, <1>00, <1>2, Frame DEF LiveIndex, LiveDrop, TypeOK
<1>10. ASSUME NEW c \in Channels, Post(c)
       PROVE  ChannelInv(d)'
  BY <1>00, <1>10, Frame DEF Post
<1>3. ASSUME NEW c \in Channels, DispatchJob(c)
      PROVE  ChannelInv(d)'
  <2>1. CASE c = d /\ walker[c].pc = "idle"
    BY <1>0, <1>00, <1>3, <2>1, Drop DEF DispatchJob, TypeOK
  <2>2. CASE c # d \/ walker[c].pc # "idle"
    BY <1>0, <1>00, <1>3, <2>2, Frame DEF DispatchJob, TypeOK
  <2> QED BY <2>1, <2>2
<1>4. ASSUME NEW c \in Channels, Walk(c)
      PROVE  ChannelInv(d)'
  <2>1. CASE c = d
    BY <1>0, <1>4, <2>1, WalkStep
  <2>2. CASE c # d
    <3>1. /\ walker'[d] = walker[d] /\ job'[d] = job[d]
          /\ d \in stale' <=> d \in stale
      BY <1>0, <1>4, <2>2 DEF Walk, ReadJob, SetCompleted, SetErrored, SetStatus, Report,
         FetchOk, FetchEmpty, FetchError, IndexMessage, PassMessage, NextId, Checkpoint, TypeOK
    <3>2. files[d] \subseteq files'[d] /\ passed[d] \subseteq passed'[d]
      BY <1>0, <1>4, <2>2 DEF Walk, ReadJob, SetCompleted, SetErrored, Report,
         FetchOk, FetchEmpty, FetchError, IndexMessage, PassMessage, Checkpoint, TypeOK
    <3> QED BY <1>00, <3>1, <3>2, Frame
  <2> QED BY <2>1, <2>2
<1>5. ASSUME NEW c \in Channels, FloodWait(c) \/ WalkerDies(c)
      PROVE  ChannelInv(d)'
  <2>1. CASE c = d
    BY <1>0, <1>00, <1>5, <2>1, Drop DEF FloodWait, WalkerDies, Idle, TypeOK
  <2>2. CASE c # d
    BY <1>0, <1>00, <1>5, <2>2, Frame DEF FloodWait, WalkerDies, TypeOK
  <2> QED BY <2>1, <2>2
<1>6. CASE WipeIndex
  <2>1. /\ walker[d] \in Walkers
        /\ walker'[d] = [walker[d] EXCEPT !.crossed = @ \/ walker[d].pc \in Mid]
        /\ job'[d] = Absent /\ stale' = {} /\ files'[d] = {} /\ passed'[d] = {}
    BY <1>0, <1>6 DEF WipeIndex, TypeOK
  <2>2. /\ walker'[d].pc = walker[d].pc /\ walker'[d].pos = walker[d].pos
        /\ walker'[d].end = walker[d].end
        /\ walker'[d].crossed <=> walker[d].crossed \/ walker[d].pc \in Mid
    BY <2>1 DEF Walkers
  <2>3. FileIds \subseteq Int /\ \A id \in FileIds : id > 0
    BY DEF MsgIds
  <2> QED BY <1>00, <2>1, <2>2, <2>3
          DEF Absent, Mid, ChannelInv, RowInv, BatchInv, WalkInv, CrossedInv, LedgerInv
<1>7. CASE DispatchPoll \/ DispatcherFails
  BY <1>00, <1>7, Frame DEF DispatchPoll, DispatcherFails
<1>8. CASE WorkerRestarts
  BY <1>0, <1>00, <1>8, Drop DEF WorkerRestarts, Idle, TypeOK
<1>9. CASE UNCHANGED vars
  BY <1>00, <1>9, Frame DEF vars
<1> QED BY <1>1, <1>2, <1>3, <1>4, <1>5, <1>6, <1>7, <1>8, <1>9, <1>10 DEF Next

\* The initial states satisfy it.
LEMMA InductiveInit == Init => IInv
<1> SUFFICES ASSUME Init
             PROVE  IInv
  OBVIOUS
<1> USE IndexAssumption
<1>1. Idle \in Walkers /\ Absent \in Jobs /\ Idle.pc = "idle" /\ Idle.crossed = FALSE
  BY AtType DEF Idle, Pcs, At, Absent, Jobs, Statuses
<1>2. TypeOK
  BY <1>1 DEF Init, TypeOK
<1>3. FileIds \subseteq Int /\ \A id \in FileIds : id > 0
  BY DEF MsgIds
<1>4. ASSUME NEW c \in Channels
      PROVE  ChannelInv(c)
  <2>1. job[c] = Absent /\ walker[c] = Idle /\ stale = {}
    BY DEF Init
  <2> QED BY <1>1, <1>3, <2>1
          DEF Absent, Mid, ChannelInv, RowInv, BatchInv, WalkInv, CrossedInv, LedgerInv
<1> QED BY <1>2, <1>4 DEF IInv

\* The inductive invariant holds in every reachable state.
THEOREM Inductive == Spec => []IInv
BY InductiveInit, InductiveStep, PTL DEF Spec

------------------------------------------------------------------------------
(* What follows from it.                                                   *)

\* Every variable of the indexing system stays in its type.
THEOREM TypeCorrect == Spec => []TypeOK
<1>1. IInv => TypeOK
  BY DEF IInv
<1> QED BY <1>1, Inductive, PTL

\* No file message at or below a checkpoint went unhandled, whatever the
\* interleaving of walkers, live handlers, admins, crashes and restarts.
THEOREM CheckpointCoveredCorrect == Spec => []CheckpointCovered
<1>1. IInv => CheckpointCovered
  <2> SUFFICES ASSUME IInv, NEW c \in Channels \ stale, NEW id \in FilesIn(1, job[c].last)
               PROVE  id \in Handled(c)
    BY DEF CheckpointCovered
  <2>1. id \in FileIds /\ id <= job[c].last
    BY IndexAssumption DEF FilesIn, IInv, TypeOK, Jobs, MsgIds
  <2> QED BY <2>1 DEF IInv, ChannelInv, LedgerInv, Handled
<1> QED BY <1>1, Inductive, PTL

\* A checkpoint never runs past its target.
THEOREM CheckpointWithinTargetCorrect == Spec => []CheckpointWithinTarget
<1>1. IInv => CheckpointWithinTarget
  BY DEF IInv, ChannelInv, LedgerInv, CheckpointWithinTarget
<1> QED BY <1>1, Inductive, PTL

\* No step short of a wipe takes a checkpoint back or a target down.
THEOREM NeverRescansCorrect == Spec => NeverRescans
<1> DEFINE A == \A c \in Channels : job'[c].status # "absent" =>
                  /\ job'[c].last >= job[c].last
                  /\ job'[c].target >= job[c].target
<1>1. IInv /\ [Next]_vars => [A]_vars
  <2> SUFFICES ASSUME IInv, Next, NEW d \in Channels, job'[d].status # "absent"
               PROVE  job'[d].last >= job[d].last /\ job'[d].target >= job[d].target
    OBVIOUS
  <2>0. /\ TypeOK /\ ChannelInv(d)
        /\ job[d] \in Jobs /\ job[d].last \in Int /\ job[d].target \in Int
        /\ walker[d].end \in Int
    BY IndexAssumption DEF IInv, TypeOK, Jobs, Walkers
  <2>1. CASE job' = job
    BY <2>0, <2>1
  <2>2. ASSUME NEW c \in Channels, NEW t \in MsgIds, UpsertJob(c, t)
        PROVE  job'[d].last >= job[d].last /\ job'[d].target >= job[d].target
    <3>1. CASE c = d
      <4>1. /\ job'[d].target = Larger(job[d].target, t) /\ job'[d].last = job[d].last
        BY <2>0, <2>2, <3>1 DEF UpsertJob, TypeOK
      <4> QED BY <2>0, <4>1, IndexAssumption DEF Larger, MsgIds
    <3> QED BY <2>0, <2>2, <3>1 DEF UpsertJob, TypeOK
  <2>3. ASSUME NEW c \in Channels, SetCompleted(c) \/ SetErrored(c)
        PROVE  job'[d].last >= job[d].last /\ job'[d].target >= job[d].target
    <3>1. job'[d].last = job[d].last /\ job'[d].target = job[d].target
      BY <2>0, <2>3 DEF SetCompleted, SetErrored, SetStatus, TypeOK, Jobs
    <3> QED BY <2>0, <3>1
  <2>4. ASSUME NEW c \in Channels, Checkpoint(c)
        PROVE  job'[d].last >= job[d].last /\ job'[d].target >= job[d].target
    <3>1. CASE c = d /\ job[d].status # "absent"
      <4>1. /\ job'[d].last = walker[d].end /\ job'[d].target = job[d].target
            /\ walker[d].pc = "ckpt"
        BY <2>0, <2>4, <3>1 DEF Checkpoint, TypeOK, Jobs
      <4>2. job[d].last <= walker[d].end
        BY <2>0, <4>1 DEF ChannelInv, BatchInv, WalkInv, CrossedInv
      <4> QED BY <2>0, <4>1, <4>2
    <3>2. CASE c # d \/ job[d].status = "absent"
      <4>1. job'[d] = job[d]
        BY <2>0, <2>4, <3>2 DEF Checkpoint, TypeOK
      <4> QED BY <2>0, <4>1
    <3> QED BY <3>1, <3>2
  <2>5. CASE WipeIndex
    BY <2>5 DEF WipeIndex, Absent
  <2> QED BY <2>1, <2>2, <2>3, <2>4, <2>5 DEF Next, Walk, ReadJob, Report, FetchOk,
         FetchEmpty, FetchError, IndexMessage, PassMessage, Post, LiveIndex, LiveDrop,
         DispatchJob, FloodWait, WalkerDies, DispatchPoll, DispatcherFails, WorkerRestarts
<1> QED BY <1>1, Inductive, PTL DEF Spec, NeverRescans

\* A job is completed only by a walk that reached the target it had read.
THEOREM CompletionEarnedCorrect == Spec => CompletionEarned
<1> DEFINE A == \A c \in Channels :
       /\ job[c].status = "running"
       /\ job'[c].status = "completed"
       /\ ~walker[c].crossed
       => job[c].last >= walker[c].target
<1>1. IInv /\ [Next]_vars => [A]_vars
  <2> SUFFICES ASSUME IInv, Next, NEW d \in Channels, job[d].status = "running",
                      job'[d].status = "completed", ~walker[d].crossed
               PROVE  job[d].last >= walker[d].target
    OBVIOUS
  <2>0. TypeOK /\ ChannelInv(d) /\ job[d] \in Jobs
    BY DEF IInv, TypeOK
  <2>1. SetCompleted(d)
    <3>1. ~WipeIndex
      BY DEF WipeIndex, Absent
    <3>2. ASSUME NEW c \in Channels, NEW t \in MsgIds, UpsertJob(c, t)
          PROVE  FALSE
      BY <2>0, <3>2 DEF UpsertJob, TypeOK
    <3>3. ASSUME NEW c \in Channels, SetErrored(c) \/ (SetCompleted(c) /\ c # d)
          PROVE  FALSE
      <4>1. CASE SetErrored(c)
        <5>1. CASE job' = job
          BY <5>1
        <5>2. CASE job' = [job EXCEPT ![c].status = "errored"]
          BY <2>0, <5>2 DEF TypeOK, Jobs
        <5> QED BY <4>1, <5>1, <5>2 DEF SetErrored, SetStatus
      <4>2. CASE SetCompleted(c) /\ c # d
        BY <2>0, <4>2 DEF SetCompleted, SetStatus, TypeOK
      <4> QED BY <3>3, <4>1, <4>2
    <3>4. ASSUME NEW c \in Channels, Checkpoint(c)
          PROVE  FALSE
      BY <2>0, <3>4 DEF Checkpoint, TypeOK
    <3>5. job' # job
      OBVIOUS
    <3> QED BY <3>1, <3>2, <3>3, <3>4, <3>5 DEF Next, Walk, ReadJob, Report, FetchOk,
         FetchEmpty, FetchError, IndexMessage, PassMessage, Post, LiveIndex, LiveDrop,
         DispatchJob, FloodWait, WalkerDies, DispatchPoll, DispatcherFails, WorkerRestarts
  <2> QED BY <2>0, <2>1 DEF SetCompleted, ChannelInv, WalkInv
<1> QED BY <1>1, Inductive, PTL DEF Spec, CompletionEarned

------------------------------------------------------------------------------
(* IndexJobs implements IndexLedger.                                       *)

Overtaken(c) == walker[c].crossed /\ walker[c].pc # "complete"
Void == stale \cup {c \in Channels : walker[c].crossed /\ walker[c].pc # "complete"}
HandledMap == [c \in Channels |-> Handled(c)]

\* A task that drops its snapshot is a stutter of the ledger, or gives its channel
\* back if a wipe had overtaken the task.
LEMMA LedgerDrop ==
  ASSUME IInv, NEW c \in Channels, NEW pc, NEW errs,
         walker' = [walker EXCEPT ![c] = At(pc, errs)],
         UNCHANGED <<job, files, passed, stale>>
  PROVE  [Ledger!Next]_(Ledger!vars)
<1>0. TypeOK /\ ChannelInv(c)
  BY DEF IInv
<1>1. HandledMap' = HandledMap
  BY DEF HandledMap, Handled
<1>2. \A d \in Channels : walker'[d].crossed /\ walker'[d].pc # "complete"
                           <=> d # c /\ Overtaken(d)
  BY <1>0 DEF Overtaken, At, TypeOK
<1>3. CASE ~Overtaken(c)
  <2>1. Void' = Void
    BY <1>2, <1>3 DEF Void, Overtaken
  <2> QED BY <1>1, <2>1 DEF Ledger!vars, HandledMap, Void, Overtaken
<1>4. CASE Overtaken(c)
  <2>1. c \notin stale
    BY <1>0, <1>4 DEF ChannelInv, CrossedInv, Overtaken
  <2>2. Void' = Void \ {c}
    BY <1>2, <1>4, <2>1 DEF Void, Overtaken
  <2>3. Ledger!Upto(job[c].last) \subseteq HandledMap[c]
    BY <1>0, <2>1, IndexAssumption
       DEF ChannelInv, LedgerInv, Ledger!Upto, HandledMap, Handled, MsgIds, TypeOK, Jobs
  <2>4. Ledger!Restore({c})
    BY <1>1, <2>2, <2>3 DEF Ledger!Restore, HandledMap, Void, Overtaken
  <2>5. {c} \in SUBSET Channels
    OBVIOUS
  <2> QED BY <2>4, <2>5 DEF Ledger!Next
<1> QED BY <1>3, <1>4

\* Handling a message, with the task's claim on its row unchanged.
LEMMA LedgerHandle ==
  ASSUME TypeOK, NEW c \in Channels, NEW ids \in SUBSET MsgIds,
         HandledMap' = [HandledMap EXCEPT ![c] = @ \cup ids],
         Void' = Void, UNCHANGED job
  PROVE  [Ledger!Next]_(Ledger!vars)
<1>1. Ledger!Handle(c, ids)
  BY DEF Ledger!Handle, HandledMap, Void, Overtaken
<1> QED BY <1>1 DEF Ledger!Next, Ledger!MsgIds, MsgIds

\* What a walker does is a step of the ledger.
LEMMA LedgerWalk ==
  ASSUME IInv, NEW c \in Channels, Walk(c)
  PROVE  [Ledger!Next]_(Ledger!vars)
<1> DEFINE w == walker[c]  j == job[c]
<1>0. /\ TypeOK /\ ChannelInv(c)
      /\ w \in Walkers /\ j \in Jobs /\ w.end \in 0..MaxMsg
  BY DEF IInv, TypeOK, Walkers
<1>1. CASE ReadJob(c)
  <2>1. HandledMap' = HandledMap /\ job' = job
    BY <1>1 DEF ReadJob, Exhausted, HandledMap, Handled
  <2>2. ~walker[c].crossed /\ ~walker'[c].crossed
    <3>1. ~w.crossed
      BY <1>0, <1>1 DEF ReadJob, Exhausted, ChannelInv, CrossedInv, Mid
    <3>2. CASE j.status # "running"
      <4>1. walker'[c] = Idle
        BY <1>0, <1>1, <3>2 DEF ReadJob, Exhausted, TypeOK
      <4> QED BY <3>1, <4>1 DEF Idle, At
    <3>3. CASE j.status = "running" /\ j.last + 1 > j.target
      <4>1. walker'[c] = [At("complete", 0) EXCEPT !.target = j.target]
        BY <1>0, <1>1, <3>3 DEF ReadJob, Exhausted, TypeOK, Jobs
      <4> QED BY <3>1, <4>1 DEF At
    <3>4. CASE j.status = "running" /\ j.last + 1 <= j.target
      <4> DEFINE end == Smaller(j.last + BatchSize, j.target)
      <4>1. walker'[c] = [At("fetch", w.errs) EXCEPT !.pos = j.last + 1, !.end = end,
                                                     !.target = j.target]
        BY <1>0, <1>1, <3>4, IndexAssumption DEF ReadJob, Exhausted, TypeOK, Jobs
      <4> HIDE DEF end
      <4> QED BY <3>1, <4>1 DEF At
    <3>5. j.last \in Int /\ j.target \in Int
      BY <1>0 DEF Jobs
    <3> QED BY <3>2, <3>3, <3>4, <3>5
  <2>3. \A d \in Channels : d # c => walker'[d] = walker[d]
    BY <1>0, <1>1 DEF ReadJob, Exhausted, TypeOK
  <2>4. Void' = Void
    BY <1>1, <2>2, <2>3 DEF Void, Overtaken, ReadJob
  <2> QED BY <2>1, <2>4 DEF Ledger!vars, HandledMap, Void, Overtaken
<1>2. CASE SetCompleted(c) \/ SetErrored(c)
  <2>1. HandledMap' = HandledMap
    BY <1>2 DEF SetCompleted, SetErrored, HandledMap, Handled
  <2>2. ~Overtaken(c) /\ j.status \in {"running", "absent"}
    BY <1>0, <1>2 DEF SetCompleted, SetErrored, ChannelInv, CrossedInv, RowInv, Mid, Overtaken
  <2>3. walker' = [walker EXCEPT ![c] = At("report", 0)] /\ stale' = stale
    BY <1>2 DEF SetCompleted, SetErrored
  <2>4. Void' = Void
    BY <1>0, <2>2, <2>3 DEF Void, Overtaken, At, TypeOK
  <2>5. ASSUME NEW status \in {"completed", "errored"}, SetStatus(c, status)
        PROVE  [Ledger!Next]_(Ledger!vars)
    <3>1. CASE j.status = "absent"
      BY <2>1, <2>4, <2>5, <3>1 DEF SetStatus, Ledger!vars, HandledMap, Void, Overtaken
    <3>2. CASE j.status = "running"
      <4>1. Ledger!Settle(c, status)
        BY <2>1, <2>4, <2>5, <3>2 DEF SetStatus, Ledger!Settle, HandledMap, Void, Overtaken
      <4> QED BY <4>1 DEF Ledger!Next
    <3> QED BY <2>2, <3>1, <3>2
  <2> QED BY <1>2, <2>5 DEF SetCompleted, SetErrored
<1>3. CASE Report(c)
  BY <1>3, LedgerDrop DEF Report, Idle
<1>4. CASE FetchOk(c)
  <2>1. walker' = [walker EXCEPT ![c] = [w EXCEPT !.pc = "index", !.seen = head[c], !.errs = 0]]
    BY <1>0, <1>4 DEF FetchOk, TypeOK
  <2>2. /\ walker'[c].pc # "complete" /\ walker[c].pc # "complete"
        /\ walker'[c].crossed = walker[c].crossed
    BY <1>0, <1>4, <2>1 DEF FetchOk, TypeOK, Walkers
  <2>3. Void' = Void
    BY <1>0, <1>4, <2>1, <2>2 DEF FetchOk, Void, Overtaken, TypeOK
  <2> QED BY <1>4, <2>3 DEF FetchOk, Ledger!vars, HandledMap, Handled, Void, Overtaken
<1>5. CASE FetchEmpty(c)
  <2> DEFINE window == FileIds \cap (w.pos..w.end)
  <2>1. walker' = [walker EXCEPT ![c] = [w EXCEPT !.pc = "ckpt", !.errs = 0]]
    BY <1>0, <1>5 DEF FetchEmpty, TypeOK
  <2>2. /\ walker'[c].pc # "complete" /\ walker[c].pc # "complete"
        /\ walker'[c].crossed = walker[c].crossed
    BY <1>0, <1>5, <2>1 DEF FetchEmpty, TypeOK, Walkers
  <2>3. Void' = Void
    BY <1>0, <1>5, <2>1, <2>2 DEF FetchEmpty, Void, Overtaken, TypeOK
  <2>4. HandledMap' = [HandledMap EXCEPT ![c] = @ \cup window]
    BY <1>0, <1>5 DEF FetchEmpty, HandledMap, Handled, TypeOK
  <2>5. window \in SUBSET MsgIds
    BY IndexAssumption
  <2> QED BY <1>0, <1>5, <2>3, <2>4, <2>5, LedgerHandle DEF FetchEmpty
<1>6. CASE FetchError(c)
  BY <1>6, LedgerDrop DEF FetchError
<1>7. CASE IndexMessage(c) \/ PassMessage(c)
  <2>1. PICK ids \in SUBSET MsgIds : HandledMap' = [HandledMap EXCEPT ![c] = @ \cup ids]
    <3>1. CASE IndexMessage(c)
      <4>1. {w.pos} \in SUBSET MsgIds
        BY <3>1, IndexAssumption DEF IndexMessage
      <4>2. HandledMap' = [HandledMap EXCEPT ![c] = @ \cup {w.pos}]
        BY <1>0, <3>1 DEF IndexMessage, HandledMap, Handled, TypeOK
      <4> QED BY <4>1, <4>2
    <3>2. CASE PassMessage(c)
      <4>1. FileIds \cap {w.pos} \in SUBSET MsgIds
        BY IndexAssumption
      <4>2. HandledMap' = [HandledMap EXCEPT ![c] = @ \cup (FileIds \cap {w.pos})]
        BY <1>0, <3>2 DEF PassMessage, HandledMap, Handled, TypeOK
      <4> QED BY <4>1, <4>2
    <3> QED BY <1>7, <3>1, <3>2
  <2>2. /\ walker' = [walker EXCEPT ![c] = [w EXCEPT !.pos = w.pos + 1,
                        !.pc = IF w.pos = w.end THEN "ckpt" ELSE "index"]]
        /\ w.pc = "index" /\ UNCHANGED <<job, stale>>
    BY <1>0, <1>7 DEF IndexMessage, PassMessage, NextId, TypeOK
  <2>3. /\ walker'[c].pc # "complete" /\ walker[c].pc # "complete"
        /\ walker'[c].crossed = walker[c].crossed
    BY <1>0, <2>2 DEF TypeOK, Walkers
  <2>4. Void' = Void
    BY <1>0, <2>2, <2>3 DEF Void, Overtaken, TypeOK
  <2> QED BY <1>0, <2>1, <2>2, <2>4, LedgerHandle
<1>8. CASE Checkpoint(c)
  <2>1. CASE j.status = "absent"
    BY <1>8, <2>1, LedgerDrop DEF Checkpoint
  <2>2. CASE j.status # "absent"
    <3>1. /\ walker' = [walker EXCEPT ![c] = At("read", 0)]
          /\ job' = [job EXCEPT ![c].last = w.end]
          /\ w.pc = "ckpt"
          /\ stale' = IF w.crossed THEN stale \cup {c} ELSE stale
      BY <1>8, <2>2 DEF Checkpoint
    <3>2. Void' = Void
      BY <1>0, <3>1 DEF Void, Overtaken, At, TypeOK
    <3>3. HandledMap' = HandledMap
      BY <1>8 DEF Checkpoint, HandledMap, Handled
    <3>4. j.status = "running" /\ w.end > j.last /\ w.end \in MsgIds
      BY <1>0, <2>2, <3>1
         DEF ChannelInv, RowInv, BatchInv, WalkInv, CrossedInv, Mid, MsgIds, Jobs
    <3>5. c \notin Void => w.end <= j.target /\ Ledger!Upto(w.end) \subseteq HandledMap[c]
      <4> SUFFICES ASSUME c \notin Void
                   PROVE  w.end <= j.target /\ Ledger!Upto(w.end) \subseteq HandledMap[c]
        OBVIOUS
      <4>1. ~w.crossed /\ c \notin stale
        BY <3>1 DEF Void, Overtaken
      <4>2. w.end <= j.target
        BY <1>0, <3>1, <4>1 DEF ChannelInv, WalkInv
      <4>3. ASSUME NEW id \in FileIds, id <= w.end
            PROVE  id \in Handled(c)
        <5>1. id \in Int /\ j.last \in Int
          BY <1>0, IndexAssumption DEF MsgIds, Jobs
        <5> QED BY <1>0, <3>1, <4>1, <4>3, <5>1
                DEF ChannelInv, WalkInv, LedgerInv, Handled
      <4> QED BY <1>0, <4>2, <4>3 DEF Ledger!Upto, HandledMap
    <3>6. Ledger!Advance(c, w.end)
      BY <3>1, <3>2, <3>3, <3>4, <3>5 DEF Ledger!Advance, HandledMap, Void, Overtaken
    <3> QED BY <3>4, <3>6 DEF Ledger!Next, Ledger!MsgIds, MsgIds
  <2> QED BY <2>1, <2>2
<1> QED BY <1>1, <1>2, <1>3, <1>4, <1>5, <1>6, <1>7, <1>8 DEF Walk

\* Every step of the system is a step of the ledger or a stutter.
LEMMA LedgerStep ==
  ASSUME IInv, [Next]_vars
  PROVE  [Ledger!Next]_(Ledger!vars)
<1>0. TypeOK
  BY DEF IInv
<1>1. ASSUME NEW c \in Channels, NEW t \in MsgIds, UpsertJob(c, t)
      PROVE  [Ledger!Next]_(Ledger!vars)
  <2>1. Larger(job[c].target, t) = IF t > job[c].target THEN t ELSE job[c].target
    <3>1. job[c].target \in Int /\ t \in Int
      BY <1>0, IndexAssumption DEF TypeOK, Jobs, MsgIds
    <3> QED BY <3>1 DEF Larger
  <2>2. Ledger!Request(c, t)
    BY <1>1, <2>1 DEF UpsertJob, Ledger!Request, Handled
  <2> QED BY <2>2 DEF Ledger!Next, Ledger!MsgIds, MsgIds
<1>2. ASSUME NEW c \in Channels, NEW id \in MsgIds, LiveIndex(c, id)
      PROVE  [Ledger!Next]_(Ledger!vars)
  <2>1. HandledMap' = [HandledMap EXCEPT ![c] = @ \cup {id}]
    BY <1>0, <1>2 DEF LiveIndex, HandledMap, Handled, TypeOK
  <2>2. Void' = Void /\ UNCHANGED job
    BY <1>2 DEF LiveIndex, Void, Overtaken
  <2>3. {id} \in SUBSET MsgIds
    OBVIOUS
  <2> HIDE DEF HandledMap, Void
  <2> QED BY <1>0, <2>1, <2>2, <2>3, LedgerHandle
<1>3. ASSUME NEW c \in Channels, DispatchJob(c)
      PROVE  [Ledger!Next]_(Ledger!vars)
  BY <1>3, LedgerDrop DEF DispatchJob, Ledger!vars, Handled
<1>4. ASSUME NEW c \in Channels, Walk(c)
      PROVE  [Ledger!Next]_(Ledger!vars)
  BY <1>4, LedgerWalk
<1>5. ASSUME NEW c \in Channels, FloodWait(c) \/ WalkerDies(c)
      PROVE  [Ledger!Next]_(Ledger!vars)
  BY <1>5, LedgerDrop DEF FloodWait, WalkerDies, Idle
<1>6. CASE WipeIndex
  <2>0. PICK overtaken : overtaken = Void'
    OBVIOUS
  <2>1. Ledger!Clear(overtaken)
    BY <1>6, <2>0 DEF WipeIndex, Ledger!Clear, Ledger!Absent, Absent, Handled, Void, Overtaken
  <2>2. overtaken \in SUBSET Channels
    BY <1>6, <2>0, TypeStep DEF Void, WipeIndex, IInv, ChannelInv, TypeOK
  <2> QED BY <2>1, <2>2 DEF Ledger!Next
<1>7. CASE WorkerRestarts
  <2>0. PICK cs : cs = {c \in Channels : Overtaken(c)}
    OBVIOUS
  <2>1. HandledMap' = HandledMap /\ job' = job
    BY <1>7 DEF WorkerRestarts, HandledMap, Handled
  <2>2. \A c \in cs : ChannelInv(c) /\ c \notin stale
    BY <2>0 DEF IInv, ChannelInv, CrossedInv, Overtaken
  <2>3. Void' = Void \ cs
    BY <1>7, <2>0, <2>2 DEF WorkerRestarts, Void, Overtaken, Idle, At
  <2>4. \A c \in cs : Ledger!Upto(job[c].last) \subseteq HandledMap[c]
    <3> SUFFICES ASSUME NEW c \in cs
                 PROVE  Ledger!Upto(job[c].last) \subseteq HandledMap[c]
      OBVIOUS
    <3>1. c \in Channels /\ ChannelInv(c) /\ c \notin stale
      BY <2>0, <2>2
    <3> QED BY <1>0, <3>1, IndexAssumption
            DEF ChannelInv, LedgerInv, Ledger!Upto, HandledMap, Handled, MsgIds, TypeOK, Jobs
  <2>5. Ledger!Restore(cs)
    BY <2>1, <2>3, <2>4 DEF Ledger!Restore, HandledMap, Void, Overtaken
  <2>6. cs \in SUBSET Channels
    BY <2>0
  <2> QED BY <2>5, <2>6 DEF Ledger!Next
<1>8. ASSUME UNCHANGED <<job, files, passed, stale, walker>>
      PROVE  [Ledger!Next]_(Ledger!vars)
  BY <1>8 DEF Ledger!vars, Handled
<1> QED BY <1>1, <1>2, <1>3, <1>4, <1>5, <1>6, <1>7, <1>8
        DEF Next, Post, LiveDrop, DispatchPoll, DispatcherFails, vars

\* The indexing system implements the ledger: crashes, batches and tasks are
\* details behind its promise.
THEOREM ImplementsLedgerCorrect == Spec => ImplementsLedger
<1>1. Init => Ledger!Init
  BY DEF Init, Idle, At, Ledger!Init, Ledger!Absent, Absent, Handled
<1>2. IInv /\ [Next]_vars => [Ledger!Next]_(Ledger!vars)
  BY LedgerStep
<1> QED BY <1>1, <1>2, Inductive, PTL DEF Spec, ImplementsLedger, Ledger!Spec
==============================================================================
