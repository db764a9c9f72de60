-------------------------- MODULE ReparseJob_proofs --------------------------
(***************************************************************************)
(* Proofs about ReparseJob, for any number of admins, batches, requests,   *)
(* crashes and Redis failures, with or without /reparse cancel.            *)
(***************************************************************************)
EXTENDS ReparseJob, SequenceTheorems, TLAPS

------------------------------------------------------------------------------
(* The inductive invariant.                                                *)

\* Past the last batch, a run that was not told to stop has done them all.
DoneIsAll ==
  /\ worker.pc = "titles" => worker.done = Batches
  /\ worker.pc \in {"cleanup", "finish"} /\ ~worker.stop => worker.done = Batches

IInv == TypeOK /\ DoneIsAll /\ OrphanedOnlyByRedis

Requests == [pc : AdminPcs, dry : BOOLEAN, saw : Statuses \X Rids]
Runs == [pc : WorkerPcs, dry : BOOLEAN, rid : Rids, done : 0..Batches, stop : BOOLEAN]

------------------------------------------------------------------------------
\* A worker with no run of its own is well typed wherever it stands.
LEMMA QuietType ==
  ASSUME NEW pc \in WorkerPcs
  PROVE  /\ Quiet \in Runs
         /\ [Quiet EXCEPT !.pc = pc] \in Runs
         /\ \A rid \in Rids : [Quiet EXCEPT !.pc = pc, !.rid = rid] \in Runs
<1>1. Quiet \in Runs
  BY ReparseAssumption DEF Quiet, Runs, WorkerPcs, Carrying, RunPcs, Rids
<1>2. ASSUME NEW r \in Runs
      PROVE  [r EXCEPT !.pc = pc] \in Runs
  BY DEF Runs
<1>3. ASSUME NEW r \in Runs, NEW rid \in Rids
      PROVE  [r EXCEPT !.rid = rid] \in Runs
  BY DEF Runs
<1>4. ASSUME NEW rid \in Rids
      PROVE  [Quiet EXCEPT !.pc = pc, !.rid = rid] \in Runs
  BY <1>1, <1>2, <1>3
<1> QED  BY <1>1, <1>2, <1>4

\* The hash as finish() leaves it is well typed.
LEMMA FinishedType ==
  ASSUME hash \in Hashes, NEW status \in Statuses
  PROVE  /\ Finished(status) \in Hashes
         /\ \A rid \in Rids : [Finished(status) EXCEPT !.shown = rid] \in Hashes
  BY DEF Finished, Hashes

\* Publishing counters changes neither the type nor the status of the hash.
LEMMA PublishKeeps ==
  ASSUME TypeOK, Publish
  PROVE  hash' \in Hashes /\ hash'.status = hash.status
  BY DEF TypeOK, Publish, Hashes

\* What a run has written is numbered by requests.
LEMMA WriteType ==
  ASSUME TypeOK, Write
  PROVE  wrote' \subseteq Rids
  BY DEF TypeOK, Write

\* A step of reparse() only moves the worker on: what it leaves to show.
LEMMA WorkerMoves ==
  ASSUME IInv, worker.pc \in RunPcs, hash' \in Hashes, hash'.status = hash.status,
         worker' \in Runs, worker'.pc # "idle", DoneIsAll', wrote' \subseteq Rids,
         UNCHANGED <<admin, tries, crashes, redisFaults, asked, crossed>>
  PROVE  IInv'
  BY DEF IInv, TypeOK, OrphanedOnlyByRedis, Orphaned, Runs

\* A handler that moves on keeps its type.
LEMMA HandlerMoves ==
  ASSUME NEW f \in [Admins -> Requests], NEW a \in Admins,
         NEW pc \in AdminPcs, NEW saw \in Statuses \X Rids
  PROVE  [f EXCEPT ![a].pc = pc, ![a].saw = saw] \in [Admins -> Requests]
<1> DEFINE r == [f[a] EXCEPT !.pc = pc, !.saw = saw]
<1>1. r \in Requests
  <2>1. f[a] \in Requests
    OBVIOUS
  <2>2. \A q \in Requests : [q EXCEPT !.pc = pc, !.saw = saw] \in Requests
    <3> DEFINE S == Statuses \X Rids
    <3>1. Requests = [pc : AdminPcs, dry : BOOLEAN, saw : S] /\ saw \in S
      BY DEF Requests
    <3> HIDE DEF S
    <3> QED  BY <3>1
  <2> QED  BY <2>1, <2>2
<1>2. [f EXCEPT ![a].pc = pc, ![a].saw = saw] = [f EXCEPT ![a] = r]
  OBVIOUS
<1> HIDE DEF r
<1> QED  BY <1>1, <1>2

\* The handlers in the bot.
LEMMA AdminStep ==
  ASSUME IInv, NEW a \in Admins,
         \/ \E dry \in BOOLEAN : RequestCheck(a, dry)
         \/ CancelCheck(a) \/ Handler(a) \/ HandlerDies(a)
  PROVE  IInv'
<1> USE ReparseAssumption DEF IInv, TypeOK, DoneIsAll, OrphanedOnlyByRedis, Orphaned
<1>0. /\ admin \in [Admins -> Requests]
      /\ Seen \in Statuses \X Rids
  BY DEF Requests, Seen, Hashes
<1>1. \A pc \in AdminPcs, saw \in Statuses \X Rids :
        [admin EXCEPT ![a].pc = pc, ![a].saw = saw] \in [Admins -> Requests]
  BY <1>0, HandlerMoves
<1>2. [admin EXCEPT ![a] = Rest] \in [Admins -> Requests]
  <2>1. Rest \in Requests
    BY DEF Rest, Requests, AdminPcs, Statuses, Rids
  <2> QED  BY <1>0, <2>1
<1>3. Crossing(a) => crossed' \in BOOLEAN
  BY DEF Crossing
<1>4. CASE \E dry \in BOOLEAN : RequestCheck(a, dry)
  <2>1. PICK dry \in BOOLEAN : RequestCheck(a, dry)
    BY <1>4
  <2>2. [pc |-> "checked", dry |-> dry, saw |-> Seen] \in Requests
    BY <1>0 DEF Requests, AdminPcs
  <2>3. admin' \in [Admins -> Requests]
    BY <1>0, <2>1, <2>2 DEF RequestCheck
  <2> QED  BY <2>1, <2>3 DEF RequestCheck, Requests
<1>5. CASE CancelCheck(a)
  <2>1. PICK pc \in {"sawRequested", "sawRunning"} :
          admin' = [admin EXCEPT ![a].pc = pc, ![a].saw = Seen]
    BY <1>5 DEF CancelCheck
  <2>2. pc \in AdminPcs
    BY DEF AdminPcs
  <2>3. admin' \in [Admins -> Requests]
    BY <1>0, <1>1, <2>1, <2>2
  <2> QED  BY <1>5, <2>3 DEF CancelCheck, Requests
<1>6. CASE RequestDelete(a)
  <2>1. Empty \in Hashes /\ Empty.status # "running"
    BY DEF Empty, Hashes, Statuses, Active, Rids
  <2>2. admin' \in [Admins -> Requests]
    <3>1. Seen' \in Statuses \X Rids
      BY <1>6, <2>1 DEF RequestDelete, Seen, Hashes
    <3> QED  BY <1>1, <1>6, <3>1 DEF RequestDelete, AdminPcs
  <2> QED  BY <1>3, <1>6, <2>1, <2>2 DEF RequestDelete, Requests
<1>7. CASE RequestSet(a)
  <2>1. admin' \in [Admins -> Requests]
    BY <1>2, <1>7 DEF RequestSet
  <2>2. asked' \in Seq(BOOLEAN) /\ Len(asked') \in Nat
    <3>1. admin[a].dry \in BOOLEAN
      BY DEF Requests
    <3> QED  BY <1>7, <3>1 DEF RequestSet
  <2>3. [hash EXCEPT !.status = "requested", !.dry = admin[a].dry, !.rid = Len(asked')]
          \in Hashes
    BY <2>2 DEF Hashes, Statuses, Active, Rids, Requests
  <2> QED  BY <1>3, <1>7, <2>1, <2>2, <2>3 DEF RequestSet, Requests, Hashes
<1>8. CASE CancelWrite(a)
  <2>1. admin' \in [Admins -> Requests]
    BY <1>2, <1>8 DEF CancelWrite
  <2>2. \/ hash' = [hash EXCEPT !.status = "cancelled"]
        \/ hash' = [hash EXCEPT !.cancel = TRUE]
    BY <1>8 DEF CancelWrite
  <2>3. hash' \in Hashes /\ (hash'.status = "running" => hash.status = "running")
    BY <2>2 DEF Hashes, Statuses, Active
  <2> QED  BY <1>3, <1>8, <2>1, <2>3 DEF CancelWrite, Requests
<1>9. CASE HandlerDies(a)
  <2>1. admin' \in [Admins -> Requests]
    BY <1>2, <1>9 DEF HandlerDies
  <2> QED  BY <1>9, <2>1 DEF HandlerDies, Requests
<1> QED
  BY <1>4, <1>5, <1>6, <1>7, <1>8, <1>9 DEF Handler

------------------------------------------------------------------------------
(* The worker.                                                             *)

\* The batches, titles and sweep of a run.
LEMMA RunStep ==
  ASSUME IInv, \/ Start \/ Batch \/ Poll \/ NoMoreFiles
               \/ RepairTitles \/ SweepOrphans \/ RunFails
  PROVE  IInv'
<1> USE ReparseAssumption DEF RunPcs
<1>0. worker \in Runs /\ hash \in Hashes /\ wrote \subseteq Rids
  BY DEF IInv, TypeOK, Runs
<1>1. CASE Start
  <2>1. worker' \in Runs
    BY <1>0, <1>1 DEF Start, Runs, WorkerPcs, Carrying, RunPcs
  <2> QED
    BY <1>0, <1>1, <2>1, WorkerMoves, PublishKeeps DEF Start, IInv, DoneIsAll, Runs
<1>2. CASE Batch
  <2>1. worker' \in Runs
    <3>1. worker.done + 1 \in 0..Batches
      BY <1>0, <1>2 DEF Batch, Runs
    <3>2. "poll" \in WorkerPcs
      BY DEF WorkerPcs, Carrying, RunPcs
    <3>3. worker' = [worker EXCEPT !.pc = "poll", !.done = worker.done + 1]
      BY <1>2 DEF Batch
    <3> QED  BY <1>0, <3>1, <3>2, <3>3 DEF Runs
  <2> QED
    BY <1>0, <1>2, <2>1, WorkerMoves, PublishKeeps, WriteType
    DEF Batch, IInv, DoneIsAll, Runs
<1>3. CASE Poll
  <2>1. worker' \in Runs /\ worker'.stop = hash.cancel
        /\ worker'.pc = IF hash.cancel THEN "cleanup" ELSE "batch"
    BY <1>0, <1>3 DEF Poll, Runs, Hashes, WorkerPcs, Carrying, RunPcs
  <2>2. DoneIsAll'
    BY <2>1 DEF DoneIsAll
  <2> QED
    BY <1>0, <1>3, <2>1, <2>2, WorkerMoves DEF Poll
<1>4. CASE NoMoreFiles
  <2>1. worker' \in Runs
    BY <1>0, <1>4 DEF NoMoreFiles, Runs, WorkerPcs, Carrying, RunPcs
  <2> QED
    BY <1>0, <1>4, <2>1, WorkerMoves DEF NoMoreFiles, IInv, DoneIsAll, Runs
<1>5. CASE RepairTitles
  <2>1. worker' \in Runs
    BY <1>0, <1>5 DEF RepairTitles, Runs, WorkerPcs, Carrying, RunPcs
  <2> QED
    BY <1>0, <1>5, <2>1, WorkerMoves, PublishKeeps, WriteType
    DEF RepairTitles, IInv, DoneIsAll, Runs
<1>6. CASE SweepOrphans
  <2>1. worker' \in Runs
    BY <1>0, <1>6 DEF SweepOrphans, Runs, WorkerPcs, Carrying, RunPcs
  <2> QED
    BY <1>0, <1>6, <2>1, WorkerMoves, PublishKeeps, WriteType
    DEF SweepOrphans, IInv, DoneIsAll, Runs
<1>7. CASE RunFails
  <2>1. worker' \in Runs
    BY <1>0, <1>7 DEF RunFails, Runs, WorkerPcs, Carrying, RunPcs
  <2> QED
    BY <1>0, <1>7, <2>1, WorkerMoves DEF RunFails, IInv, DoneIsAll, Runs
<1> QED  BY <1>1, <1>2, <1>3, <1>4, <1>5, <1>6, <1>7

\* The dispatcher around the run, and what goes wrong with it.
LEMMA DispatcherStep ==
  ASSUME IInv, \/ BootRead \/ BootClear \/ Claim \/ ReadClaimed
               \/ Finish \/ FinishFailed \/ RedisFails \/ WorkerRestarts
  PROVE  IInv'
<1> USE ReparseAssumption DEF IInv, TypeOK, DoneIsAll, OrphanedOnlyByRedis, Orphaned
<1>0. worker \in Runs /\ Quiet \in Runs /\ Quiet.pc = "idle"
  BY QuietType DEF Runs, WorkerPcs, Carrying, RunPcs, Quiet
<1>1. ASSUME NEW pc \in WorkerPcs
      PROVE  /\ [Quiet EXCEPT !.pc = pc] \in Runs
             /\ [Quiet EXCEPT !.pc = pc].pc = pc
             /\ \A rid \in Rids : /\ [Quiet EXCEPT !.pc = pc, !.rid = rid] \in Runs
                                  /\ [Quiet EXCEPT !.pc = pc, !.rid = rid].pc = pc
  BY QuietType DEF Quiet
<1>2. \A status \in Statuses : /\ Finished(status) \in Hashes
                               /\ Finished(status).status = status
  BY FinishedType DEF Finished, Hashes
<1>3. CASE BootRead
  <2>1. "clear" \in WorkerPcs
    BY DEF WorkerPcs, Carrying, RunPcs
  <2>2. worker' \in Runs /\ worker'.pc \in {"clear", "idle"}
        /\ (worker'.pc = "idle" => hash.status # "running")
    BY <1>0, <1>1, <1>3, <2>1 DEF BootRead
  <2> QED  BY <1>3, <2>2 DEF BootRead, Runs
<1>4. CASE BootClear
  <2>1. "failed" \in Statuses
    BY DEF Statuses
  <2> QED  BY <1>0, <1>2, <1>4, <2>1 DEF BootClear, Runs
<1>5. CASE Claim
  <2>1. "claimed" \in WorkerPcs /\ hash.rid \in Rids
    BY DEF WorkerPcs, Carrying, RunPcs, Hashes
  <2>2. worker' \in Runs /\ worker'.pc = "claimed"
    BY <1>1, <1>5, <2>1 DEF Claim
  <2>3. hash' \in Hashes
    BY <1>5 DEF Claim, Hashes, Statuses, Active
  <2> QED  BY <1>5, <2>2, <2>3 DEF Claim, Runs
<1>6. CASE ReadClaimed
  <2>1. worker' \in Runs /\ worker'.pc = "start"
    BY <1>0, <1>6 DEF ReadClaimed, Runs, WorkerPcs, Carrying, RunPcs, Hashes
  <2> QED  BY <1>6, <2>1 DEF ReadClaimed, Runs
<1>7. CASE Finish
  <2>1. PICK status \in {"cancelled", "done"} :
          hash' = [Finished(status) EXCEPT !.shown = worker.rid]
    BY <1>7 DEF Finish
  <2>2. status \in Statuses /\ worker.rid \in Rids
    BY <1>0 DEF Statuses, Runs
  <2>3. hash' \in Hashes
    BY <2>1, <2>2, FinishedType
  <2>4. hash'.status = status
    BY <1>2, <2>1, <2>2 DEF Hashes
  <2> QED  BY <1>0, <1>7, <2>3, <2>4 DEF Finish, Runs
<1>8. CASE FinishFailed
  <2>1. "failed" \in Statuses
    BY DEF Statuses
  <2> QED  BY <1>0, <1>2, <1>8, <2>1 DEF FinishFailed, Runs
<1>9. CASE RedisFails
  BY <1>0, <1>9 DEF RedisFails, Runs
<1>10. CASE WorkerRestarts
  <2>1. "boot" \in WorkerPcs
    BY DEF WorkerPcs, Carrying, RunPcs
  <2>2. worker' \in Runs /\ worker'.pc = "boot"
    BY <1>1, <1>10, <2>1 DEF WorkerRestarts
  <2> QED  BY <1>10, <2>2 DEF WorkerRestarts, Runs
<1> QED  BY <1>3, <1>4, <1>5, <1>6, <1>7, <1>8, <1>9, <1>10

------------------------------------------------------------------------------
\* IInv holds at the start and every step keeps it.
THEOREM Inductive == Spec => []IInv
<1>1. Init => IInv
  <2> SUFFICES ASSUME Init PROVE IInv
    OBVIOUS
  <2> USE ReparseAssumption
  <2>1. Empty \in Hashes /\ Empty.status = "idle"
    BY DEF Empty, Hashes, Statuses, Active, Rids
  <2>2. "boot" \in WorkerPcs
    BY DEF WorkerPcs, Carrying, RunPcs
  <2>3. worker \in Runs /\ worker.pc = "boot"
    BY <2>2, QuietType DEF Init, Quiet
  <2>4. admin \in [Admins -> Requests]
    <3>1. Rest \in Requests
      BY DEF Rest, Requests, AdminPcs, Statuses, Rids
    <3> QED  BY <3>1 DEF Init
  <2>5. asked \in Seq(BOOLEAN)
    BY DEF Init
  <2>6. tries = 0 /\ crashes = 0 /\ redisFaults = 0 /\ wrote = {}
        /\ hash = Empty
    BY DEF Init
  <2>7. TypeOK
    <3>1. /\ tries \in 0..MaxRequests /\ crashes \in 0..MaxCrashes
          /\ redisFaults \in 0..MaxRedisFaults
          /\ wrote \subseteq Rids /\ hash \in Hashes
      BY <2>1, <2>6
    <3>2. crossed \in BOOLEAN
      BY Zenon DEF Init
    <3> QED  BY <2>3, <2>4, <2>5, <3>1, <3>2 DEF TypeOK, Runs, Requests
  <2> QED
    BY <2>1, <2>3, <2>6, <2>7 DEF IInv, DoneIsAll, OrphanedOnlyByRedis, Orphaned
<1>2. IInv /\ [Next]_vars => IInv'
  <2> SUFFICES ASSUME IInv, [Next]_vars PROVE IInv'
    OBVIOUS
  <2>1. CASE UNCHANGED vars
    BY <2>1 DEF vars, IInv, TypeOK, DoneIsAll, OrphanedOnlyByRedis, Orphaned
  <2>2. CASE Next
    BY <2>2, AdminStep, RunStep, DispatcherStep DEF Next, Work
  <2> QED  BY <2>1, <2>2
<1> QED  BY <1>1, <1>2, PTL DEF Spec

\* The Redis hash, the handlers and the worker keep their types.
THEOREM TypeCorrect == Spec => []TypeOK
  BY Inductive, PTL DEF IInv

\* A run nobody is carrying out is the work of a Redis failure.
THEOREM OrphanedOnlyByRedisCorrect == Spec => []OrphanedOnlyByRedis
  BY Inductive, PTL DEF IInv

\* "done" means every batch was done, "cancelled" that an admin asked for it.
THEOREM FinishIsHonestCorrect == Spec => FinishIsHonest
<1> DEFINE Step ==
      /\ hash'.status = "done" /\ hash.status # "done" => worker.done = Batches
      /\ hash'.status = "cancelled" /\ hash.status # "cancelled" =>
           worker.stop \/ \E a \in Admins : admin[a].pc = "sawRequested"
<1>1. IInv /\ [Next]_vars => [Step]_vars
  <2> SUFFICES ASSUME IInv, Next PROVE Step
    BY DEF vars
  <2>0. hash \in Hashes /\ TypeOK
    BY DEF IInv, TypeOK
  <2>1. CASE Finish
    <3>1. hash'.status = IF worker.stop THEN "cancelled" ELSE "done"
      BY <2>0, <2>1 DEF Finish, Finished, Hashes
    <3>2. worker.stop \/ worker.done = Batches
      BY <2>1 DEF Finish, IInv, DoneIsAll
    <3>3. worker.stop \in BOOLEAN
      BY <2>0 DEF TypeOK
    <3> QED  BY <3>1, <3>2, <3>3
  <2>2. ASSUME NEW a \in Admins, CancelWrite(a)
        PROVE  Step
    BY <2>0, <2>2 DEF CancelWrite, Hashes
  <2>3. CASE Publish
    BY <2>0, <2>3, PublishKeeps
  <2>4. ASSUME hash'.status \in {hash.status, "idle", "requested", "running", "failed"}
        PROVE  Step
    BY <2>4
  <2>5. \/ Finish \/ Publish \/ \E a \in Admins : CancelWrite(a)
        \/ hash'.status \in {hash.status, "idle", "requested", "running", "failed"}
    <3>1. \/ UNCHANGED hash
          \/ hash' = Empty
          \/ \E a \in Admins : RequestSet(a) \/ CancelWrite(a)
          \/ hash' = Finished("failed")
          \/ Claim \/ Finish \/ Publish
      BY DEF Next, Handler, Work, RequestCheck, RequestDelete, CancelCheck, HandlerDies,
             BootRead, BootClear, ReadClaimed, Start, Batch, Poll, NoMoreFiles,
             RepairTitles, SweepOrphans, FinishFailed, RunFails, RedisFails,
             WorkerRestarts
    <3>2. ASSUME NEW a \in Admins, RequestSet(a)
          PROVE  hash'.status = "requested"
      BY <2>0, <3>2 DEF RequestSet, Hashes
    <3>3. ASSUME Claim
          PROVE  hash'.status = "running"
      BY <2>0, <3>3 DEF Claim, Hashes
    <3>4. Empty.status = "idle"
      BY DEF Empty
    <3>5. Finished("failed").status = "failed"
      BY <2>0 DEF Finished, Hashes
    <3> QED  BY <3>1, <3>2, <3>3, <3>4, <3>5
  <2> QED  BY <2>1, <2>2, <2>3, <2>4, <2>5
<1> QED  BY <1>1, Inductive, PTL DEF FinishIsHonest, Spec

------------------------------------------------------------------------------
(* What handlers know, and whose the job is.  request() and cancel() look  *)
(* and then write, so that two handlers, or one and the worker, may pull   *)
(* the state from under each other: crossed tells whether one has.         *)

\* What a handler between two commands has seen of the job.
HandlerSaw ==
  \A a \in Admins :
    /\ admin[a].pc = "checked" => admin[a].saw[1] \notin Active
    /\ admin[a].pc = "deleted" => admin[a].saw = <<"idle", 0>>
    /\ admin[a].pc = "sawRequested" => admin[a].saw[1] = "requested"
    /\ admin[a].pc = "sawRunning" => admin[a].saw[1] = "running"

\* A queued request has a number of its own, which no run carries.
OwnNumber ==
  /\ worker.rid \in 0..Len(asked) /\ hash.rid \in 0..Len(asked)
  /\ hash.status = "requested" => hash.rid # 0 /\ worker.rid # hash.rid

\* A worker at work is the one the hash tells of, and obeys its request.
WorkerOwns ==
  /\ worker.pc \notin {"boot", "idle"} => hash.status = "running"
  /\ worker.pc \in Carrying => worker.rid = hash.rid
  /\ worker.pc \in RunPcs \cup {"finish"} => worker.dry = hash.dry

\* What is queued or running is one of the requests, and as it was asked.
HashIsAsked ==
  hash.status \in Active => hash.rid \in 1..Len(asked) /\ hash.dry = asked[hash.rid]

\* A hash without a status shows nothing.
IdleShowsNothing == hash.status = "idle" => hash.shown = 0

Orderly == /\ WorkerOwns /\ HashIsAsked /\ IdleShowsNothing
           /\ DryRunWritesNothing /\ CountersOwn
SInv == IInv /\ HandlerSaw /\ OwnNumber /\ (crossed \/ Orderly)

\* The hash as the worker leaves it.
LEMMA HashTypes ==
  ASSUME hash \in Hashes
  PROVE  /\ \A status \in Statuses :
              /\ Finished(status).status = status /\ Finished(status).rid = hash.rid
              /\ Finished(status).dry = hash.dry /\ Finished(status).shown = hash.shown
         /\ \A n : /\ [hash EXCEPT !.shown = n].status = hash.status
                   /\ [hash EXCEPT !.shown = n].rid = hash.rid
                   /\ [hash EXCEPT !.shown = n].dry = hash.dry
                   /\ [hash EXCEPT !.shown = n].shown = n
  BY DEF Hashes, Finished

\* A step of the handler a changes nothing of the others.
LEMMA HandlerKnows ==
  ASSUME IInv, HandlerSaw, NEW a \in Admins,
         \/ \E dry \in BOOLEAN : RequestCheck(a, dry)
         \/ CancelCheck(a) \/ Handler(a) \/ HandlerDies(a)
  PROVE  HandlerSaw'
<1>0. admin \in [Admins -> Requests]
  BY DEF IInv, TypeOK, Requests
<1>1. \A b \in Admins \ {a} : admin'[b] = admin[b]
  BY <1>0 DEF RequestCheck, CancelCheck, Handler, RequestDelete, RequestSet, CancelWrite,
              HandlerDies
<1>2. Seen[1] = hash.status /\ Rest.pc = "idle"
  BY DEF Seen, Rest
<1>3. CASE \E dry \in BOOLEAN : RequestCheck(a, dry)
  <2>1. admin'[a].pc = "checked" /\ admin'[a].saw = Seen /\ hash.status \notin Active
    BY <1>0, <1>3 DEF RequestCheck
  <2> QED  BY <1>1, <1>2, <2>1 DEF HandlerSaw
<1>4. CASE CancelCheck(a)
  <2>1. /\ admin'[a].saw = Seen
        /\ \/ hash.status = "requested" /\ admin'[a].pc = "sawRequested"
           \/ hash.status = "running" /\ admin'[a].pc = "sawRunning"
    BY <1>0, <1>4 DEF CancelCheck, Requests
  <2> QED  BY <1>1, <1>2, <2>1 DEF HandlerSaw
<1>5. CASE RequestDelete(a)
  <2>1. admin'[a].saw = <<"idle", 0>> /\ admin'[a].pc = "deleted"
    BY <1>0, <1>5 DEF RequestDelete, Requests, Seen, Empty
  <2> QED  BY <1>1, <2>1 DEF HandlerSaw
<1>6. CASE RequestSet(a) \/ CancelWrite(a) \/ HandlerDies(a)
  <2>1. admin'[a].pc = "idle"
    BY <1>0, <1>2, <1>6 DEF RequestSet, CancelWrite, HandlerDies
  <2> QED  BY <1>1, <2>1 DEF HandlerSaw
<1> QED  BY <1>3, <1>4, <1>5, <1>6 DEF Handler

\* Numbers are handed out in order, and a run takes its own along.
LEMMA NumbersStep ==
  ASSUME IInv, OwnNumber, Next
  PROVE  OwnNumber'
<1>0. /\ hash \in Hashes /\ worker \in Runs /\ asked \in Seq(BOOLEAN)
      /\ admin \in [Admins -> Requests] /\ Len(asked) \in Nat
  BY DEF IInv, TypeOK, Runs, Requests
<1>1. Quiet.rid = 0 /\ \A pc : [Quiet EXCEPT !.pc = pc].rid = 0
  BY DEF Quiet
<1>2. ASSUME UNCHANGED asked, worker'.rid \in {0, worker.rid},
             hash'.rid = hash.rid, hash'.status = "requested" => hash.status = "requested"
      PROVE  OwnNumber'
  BY <1>0, <1>2 DEF OwnNumber
<1>3. ASSUME NEW a \in Admins, RequestSet(a)
      PROVE  OwnNumber'
  <2>1. admin[a].dry \in BOOLEAN
    BY <1>0 DEF Requests
  <2>2. Len(asked') = Len(asked) + 1 /\ worker' = worker
    BY <1>0, <1>3, <2>1 DEF RequestSet
  <2>3. hash'.rid = Len(asked')
    BY <1>0, <1>3 DEF RequestSet, Hashes
  <2> QED  BY <1>0, <2>2, <2>3 DEF OwnNumber
<1>4. ASSUME NEW a \in Admins, RequestDelete(a)
      PROVE  OwnNumber'
  BY <1>0, <1>4 DEF RequestDelete, Empty, OwnNumber
<1>5. ASSUME NEW a \in Admins, CancelWrite(a)
      PROVE  OwnNumber'
  <2>1. /\ hash'.rid = hash.rid /\ UNCHANGED <<asked, worker>>
        /\ hash'.status = "requested" => hash.status = "requested"
    BY <1>0, <1>5 DEF CancelWrite, Hashes
  <2> QED  BY <1>2, <2>1
<1>6. CASE Claim
  <2>1. /\ hash'.rid = hash.rid /\ hash'.status = "running" /\ UNCHANGED asked
        /\ worker'.rid = hash.rid
    BY <1>0, <1>6 DEF Claim, Hashes, Quiet
  <2> QED  BY <2>1 DEF OwnNumber
<1>7. CASE BootClear \/ Finish \/ FinishFailed
  <2>1. PICK status \in {"failed", "done", "cancelled"} :
          \/ hash' = Finished(status)
          \/ hash' = [Finished(status) EXCEPT !.shown = worker.rid]
    BY <1>7 DEF BootClear, Finish, FinishFailed
  <2>2. hash'.rid = hash.rid /\ hash'.status = status
    BY <1>0, <2>1 DEF Finished, Hashes
  <2>3. worker' = Quiet /\ UNCHANGED asked
    BY <1>7 DEF BootClear, Finish, FinishFailed
  <2> QED  BY <1>1, <1>2, <2>2, <2>3
<1>8. CASE /\ Publish \/ UNCHANGED hash
           /\ worker'.rid \in {0, worker.rid} /\ UNCHANGED asked
  <2>1. hash'.rid = hash.rid /\ hash'.status = hash.status
    BY <1>0, <1>8 DEF Publish, Hashes
  <2> QED  BY <1>2, <1>8, <2>1
<1>9. \/ \E a \in Admins : RequestSet(a) \/ RequestDelete(a) \/ CancelWrite(a)
      \/ Claim \/ BootClear \/ Finish \/ FinishFailed
      \/ /\ Publish \/ UNCHANGED hash
         /\ worker'.rid \in {0, worker.rid} /\ UNCHANGED asked
  <2>1. ASSUME \/ \E a \in Admins : \/ \E dry \in BOOLEAN : RequestCheck(a, dry)
                                    \/ CancelCheck(a) \/ HandlerDies(a)
               \/ BootRead \/ RedisFails \/ WorkerRestarts
        PROVE  UNCHANGED <<hash, asked>> /\ worker'.rid \in {0, worker.rid}
    BY <1>1, <2>1 DEF RequestCheck, CancelCheck, HandlerDies, BootRead, RedisFails,
                      WorkerRestarts
  <2>2. ASSUME \/ ReadClaimed \/ Start \/ Batch \/ Poll \/ NoMoreFiles \/ RepairTitles
               \/ SweepOrphans \/ RunFails
        PROVE  (Publish \/ UNCHANGED hash) /\ worker'.rid = worker.rid /\ UNCHANGED asked
    BY <1>0, <2>2 DEF ReadClaimed, Start, Batch, Poll, NoMoreFiles, RepairTitles,
                      SweepOrphans, RunFails, Runs
  <2> QED  BY <2>1, <2>2 DEF Next, Handler, Work
<1> QED  BY <1>3, <1>4, <1>5, <1>6, <1>7, <1>8, <1>9

\* A handler that writes over what it saw leaves the job in order.
LEMMA AdminOrder ==
  ASSUME SInv, NEW a \in Admins, ~crossed',
         \/ \E dry \in BOOLEAN : RequestCheck(a, dry)
         \/ CancelCheck(a) \/ Handler(a) \/ HandlerDies(a)
  PROVE  Orderly'
<1>1. /\ admin \in [Admins -> Requests] /\ hash \in Hashes /\ asked \in Seq(BOOLEAN)
  BY DEF SInv, IInv, TypeOK, Requests
<1>2. /\ ~crossed
      /\ Handler(a) => admin[a].saw[1] = hash.status
  <2>1. Crossing(a) => ~crossed /\ admin[a].saw = Seen
    BY Zenon DEF Crossing
  <2>2. Handler(a) => Crossing(a)
    BY Zenon DEF Handler, RequestDelete, RequestSet, CancelWrite
  <2>3. (\E dry \in BOOLEAN : RequestCheck(a, dry)) \/ CancelCheck(a) \/ HandlerDies(a)
          => crossed' = crossed
    BY Zenon DEF RequestCheck, CancelCheck, HandlerDies
  <2>4. Seen[1] = hash.status
    BY DEF Seen
  <2>5. ~crossed
    BY <2>1, <2>2, <2>3, Zenon
  <2> QED  BY <2>1, <2>2, <2>4, <2>5, Zenon
<1>3. /\ WorkerOwns /\ HashIsAsked /\ IdleShowsNothing
      /\ DryRunWritesNothing /\ CountersOwn /\ HandlerSaw
  BY <1>2 DEF SInv, Orderly
<1>4. hash.status # "running" => worker.pc \in {"boot", "idle"}
  BY <1>3 DEF WorkerOwns
<1>5. ASSUME UNCHANGED <<hash, worker, asked, wrote>>
      PROVE  Orderly'
  BY <1>3, <1>5 DEF Orderly, WorkerOwns, HashIsAsked, IdleShowsNothing,
                    DryRunWritesNothing, CountersOwn
<1>6. CASE RequestDelete(a)
  <2>1. hash.status # "running"
    BY <1>2, <1>3, <1>6 DEF Handler, HandlerSaw, RequestDelete, Active
  <2>2. /\ hash'.status = "idle" /\ hash'.shown = 0
        /\ UNCHANGED <<worker, asked, wrote>>
    BY <1>6 DEF RequestDelete, Empty
  <2>3. WorkerOwns'
    BY <1>4, <2>1, <2>2 DEF WorkerOwns, Carrying, RunPcs
  <2> QED  BY <1>3, <2>2, <2>3 DEF Orderly, HashIsAsked, IdleShowsNothing,
                                   DryRunWritesNothing, CountersOwn, Active
<1>7. CASE RequestSet(a)
  <2>1. hash.status = "idle" /\ hash.shown = 0
    BY <1>2, <1>3, <1>7 DEF Handler, HandlerSaw, RequestSet, IdleShowsNothing
  <2>2. admin[a].dry \in BOOLEAN /\ Len(asked) \in Nat
    BY <1>1 DEF Requests
  <2>3. /\ asked' = Append(asked, admin[a].dry)
        /\ Len(asked') = Len(asked) + 1
        /\ asked'[Len(asked')] = admin[a].dry
        /\ \A r \in 1..Len(asked) : asked'[r] = asked[r]
        /\ UNCHANGED <<worker, wrote>>
    BY <1>1, <1>7, <2>2 DEF RequestSet
  <2>4. /\ hash'.status = "requested" /\ hash'.dry = admin[a].dry
        /\ hash'.rid = Len(asked') /\ hash'.shown = 0
    BY <1>1, <1>7, <2>1 DEF RequestSet, Hashes
  <2>5. WorkerOwns'
    BY <1>4, <2>1, <2>3 DEF WorkerOwns, Carrying, RunPcs
  <2>6. HashIsAsked' /\ IdleShowsNothing' /\ CountersOwn'
    BY <2>2, <2>3, <2>4 DEF HashIsAsked, IdleShowsNothing, CountersOwn
  <2>7. DryRunWritesNothing'
    <3> SUFFICES ASSUME NEW r \in wrote
                 PROVE  r \in 1..Len(asked') /\ ~asked'[r]
      BY <2>3 DEF DryRunWritesNothing
    <3>1. r \in 1..Len(asked) /\ ~asked[r]
      BY <1>3 DEF DryRunWritesNothing
    <3> QED  BY <2>2, <2>3, <3>1
  <2> QED  BY <2>5, <2>6, <2>7 DEF Orderly
<1>8. CASE CancelWrite(a)
  <2>1. /\ UNCHANGED <<worker, asked, wrote>>
        /\ hash'.rid = hash.rid /\ hash'.dry = hash.dry /\ hash'.shown = hash.shown
        /\ \/ hash'.status = hash.status
           \/ hash.status = "requested" /\ hash'.status = "cancelled"
    BY <1>1, <1>2, <1>3, <1>8 DEF Handler, CancelWrite, HandlerSaw, Hashes
  <2>2. WorkerOwns'
    BY <1>3, <1>4, <2>1 DEF WorkerOwns, Carrying, RunPcs
  <2> QED  BY <1>3, <2>1, <2>2 DEF Orderly, HashIsAsked, IdleShowsNothing,
                                   DryRunWritesNothing, CountersOwn, Active
<1> QED
  BY <1>5, <1>6, <1>7, <1>8 DEF Handler, RequestCheck, CancelCheck, HandlerDies

\* A run moves on, and may publish its counters and write to the index.
LEMMA RunMovesOn ==
  ASSUME IInv, Orderly, worker.pc \in RunPcs,
         worker'.pc \in RunPcs \cup {"finish", "failing"},
         worker'.rid = worker.rid, worker'.dry = worker.dry,
         Publish \/ UNCHANGED hash, Write \/ UNCHANGED wrote, UNCHANGED asked
  PROVE  Orderly'
<1>1. /\ hash \in Hashes /\ hash.status = "running" /\ worker.rid = hash.rid
      /\ worker.dry = hash.dry
      /\ hash.rid \in 1..Len(asked) /\ hash.dry = asked[hash.rid]
  BY DEF IInv, TypeOK, Orderly, WorkerOwns, HashIsAsked, Carrying, RunPcs, Active
<1>2. /\ hash'.status = "running" /\ hash'.rid = hash.rid /\ hash'.dry = hash.dry
      /\ hash'.shown \in {hash.shown, hash.rid}
  <2>1. CASE hash' = hash
    BY <1>1, <2>1
  <2>2. CASE hash' = [hash EXCEPT !.shown = worker.rid]
    BY <1>1, <2>2 DEF Hashes
  <2> QED  BY <2>1, <2>2 DEF Publish
<1>3. WorkerOwns' /\ HashIsAsked' /\ IdleShowsNothing'
  BY <1>1, <1>2 DEF WorkerOwns, HashIsAsked, IdleShowsNothing
<1>4. CountersOwn'
  BY <1>2 DEF Orderly, CountersOwn
<1>5. DryRunWritesNothing'
  <2>1. \A r \in wrote : r \in 1..Len(asked) /\ ~asked[r]
    BY DEF Orderly, DryRunWritesNothing
  <2>2. CASE worker.dry \/ UNCHANGED wrote
    <3>1. wrote' = wrote
      BY <2>2 DEF Write
    <3> QED  BY <2>1, <3>1 DEF DryRunWritesNothing
  <2>3. CASE ~worker.dry /\ Write
    <3>1. wrote' = wrote \cup {hash.rid}
      BY <1>1, <2>3 DEF Write
    <3>2. ~asked[hash.rid]
      BY <1>1, <2>3
    <3> QED  BY <1>1, <2>1, <3>1, <3>2 DEF DryRunWritesNothing
  <2> QED  BY <2>2, <2>3
<1> QED  BY <1>3, <1>4, <1>5 DEF Orderly

LEMMA RunOrder ==
  ASSUME IInv, Orderly, \/ Start \/ Batch \/ Poll \/ NoMoreFiles
                        \/ RepairTitles \/ SweepOrphans \/ RunFails
  PROVE  Orderly'
<1>1. worker \in Runs
  BY DEF IInv, TypeOK, Runs
<1>2. worker.pc \in RunPcs /\ UNCHANGED asked
  BY DEF Start, Batch, Poll, NoMoreFiles, RepairTitles, SweepOrphans, RunFails, RunPcs
<1>3. (Publish \/ UNCHANGED hash) /\ (Write \/ UNCHANGED wrote)
  BY DEF Start, Batch, Poll, NoMoreFiles, RepairTitles, SweepOrphans, RunFails
<1>4. /\ worker'.pc \in RunPcs \cup {"finish", "failing"}
      /\ worker'.rid = worker.rid /\ worker'.dry = worker.dry
  BY <1>1 DEF Start, Batch, Poll, NoMoreFiles, RepairTitles, SweepOrphans, RunFails,
              RunPcs, Runs
<1> QED  BY <1>2, <1>3, <1>4, RunMovesOn

\* The dispatcher around the run, which writes nothing to the index.
LEMMA DispatcherOrder ==
  ASSUME IInv, Orderly, \/ BootRead \/ BootClear \/ Claim \/ ReadClaimed
                        \/ Finish \/ FinishFailed \/ RedisFails \/ WorkerRestarts
  PROVE  Orderly'
<1>1. /\ worker \in Runs /\ hash \in Hashes
      /\ WorkerOwns /\ HashIsAsked /\ IdleShowsNothing
      /\ DryRunWritesNothing /\ CountersOwn
  BY DEF IInv, TypeOK, Runs, Orderly
<1>2. UNCHANGED <<asked, wrote>>
  BY DEF BootRead, BootClear, Claim, ReadClaimed, Finish, FinishFailed, RedisFails,
         WorkerRestarts
<1>3. DryRunWritesNothing'
  BY <1>1, <1>2 DEF DryRunWritesNothing
<1>4. Quiet.pc = "idle"
  BY DEF Quiet
<1>5. CASE BootRead \/ RedisFails \/ WorkerRestarts
  <2>1. /\ UNCHANGED hash
        /\ worker'.pc \in {"boot", "idle", "clear"}
        /\ worker'.pc = "clear" => hash.status = "running"
    BY <1>4, <1>5 DEF BootRead, RedisFails, WorkerRestarts, Quiet
  <2>2. WorkerOwns'
    BY <2>1 DEF WorkerOwns, Carrying, RunPcs
  <2> QED  BY <1>1, <1>2, <1>3, <2>1, <2>2
      DEF Orderly, HashIsAsked, IdleShowsNothing, CountersOwn
<1>6. CASE BootClear \/ FinishFailed \/ Finish
  <2>1. /\ worker' = Quiet
        /\ \E status \in {"failed", "done", "cancelled"} :
             \/ hash' = Finished(status)
             \/ hash' = [Finished(status) EXCEPT !.shown = worker.rid] /\ worker.pc = "finish"
    BY <1>6 DEF BootClear, FinishFailed, Finish
  <2>2. PICK status \in {"failed", "done", "cancelled"} :
          \/ hash' = Finished(status)
          \/ hash' = [Finished(status) EXCEPT !.shown = worker.rid] /\ worker.pc = "finish"
    BY <2>1
  <2>3. status \in Statuses /\ status \notin Active \cup {"idle"}
    BY DEF Statuses, Active
  <2>4. hash'.status = status /\ hash'.rid = hash.rid
    BY <1>1, <2>2, <2>3, HashTypes DEF Finished, Hashes
  <2>5. hash'.shown \in {hash.shown, hash.rid}
    <3>1. CASE hash' = Finished(status)
      BY <1>1, <2>3, <3>1, HashTypes
    <3>2. CASE hash' = [Finished(status) EXCEPT !.shown = worker.rid] /\ worker.pc = "finish"
      <4>1. worker.rid = hash.rid
        BY <1>1, <3>2 DEF WorkerOwns, Carrying
      <4> QED  BY <1>1, <3>2, <4>1 DEF Finished, Hashes
    <3> QED  BY <2>2, <3>1, <3>2
  <2>6. WorkerOwns' /\ HashIsAsked' /\ IdleShowsNothing'
    BY <1>4, <2>1, <2>3, <2>4 DEF WorkerOwns, HashIsAsked, IdleShowsNothing, Carrying, RunPcs
  <2>7. CountersOwn'
    BY <1>1, <2>4, <2>5 DEF CountersOwn
  <2> QED  BY <1>3, <2>6, <2>7 DEF Orderly
<1>7. CASE Claim
  <2>1. /\ hash.status = "requested"
        /\ hash'.status = "running" /\ hash'.rid = hash.rid /\ hash'.dry = hash.dry
        /\ hash'.shown = hash.shown
    BY <1>1, <1>7 DEF Claim, Hashes
  <2>2. worker'.pc = "claimed" /\ worker'.rid = hash.rid
    BY <1>7 DEF Claim, Quiet
  <2>3. WorkerOwns'
    BY <2>1, <2>2 DEF WorkerOwns, RunPcs
  <2>4. HashIsAsked' /\ IdleShowsNothing' /\ CountersOwn'
    BY <1>1, <1>2, <2>1 DEF HashIsAsked, IdleShowsNothing, CountersOwn, Active
  <2> QED  BY <1>3, <2>3, <2>4 DEF Orderly
<1>8. CASE ReadClaimed
  <2>1. /\ worker.pc = "claimed" /\ UNCHANGED hash
        /\ worker'.pc = "start" /\ worker'.dry = hash.dry /\ worker'.rid = worker.rid
    BY <1>1, <1>8 DEF ReadClaimed, Runs
  <2>2. WorkerOwns'
    BY <1>1, <2>1 DEF WorkerOwns, Carrying
  <2> QED  BY <1>1, <1>2, <1>3, <2>1, <2>2
      DEF Orderly, HashIsAsked, IdleShowsNothing, CountersOwn
<1> QED  BY <1>5, <1>6, <1>7, <1>8

\* The worker writes over nothing: it has the state under its own eyes or owns it.
LEMMA WorkerStep ==
  ASSUME SInv, Work \/ RunFails \/ RedisFails \/ WorkerRestarts
  PROVE  /\ UNCHANGED <<admin, crossed>>
         /\ HandlerSaw' /\ (crossed' \/ Orderly')
<1>1. UNCHANGED <<admin, crossed>>
  BY DEF Work, BootRead, BootClear, Claim, ReadClaimed, Start, Batch, Poll, NoMoreFiles,
         RepairTitles, SweepOrphans, Finish, FinishFailed, RunFails, RedisFails,
         WorkerRestarts
<1>2. HandlerSaw'
  BY <1>1 DEF SInv, HandlerSaw
<1>3. CASE crossed
  BY <1>1, <1>2, <1>3
<1>4. CASE ~crossed
  <2>1. IInv /\ Orderly
    BY <1>4 DEF SInv
  <2>2. Orderly'
    BY <2>1, RunOrder, DispatcherOrder DEF Work
  <2> QED  BY <1>1, <1>2, <2>2
<1> QED  BY <1>3, <1>4

LEMMA SInductive == Spec => []SInv
<1>1. Init => HandlerSaw /\ OwnNumber /\ (crossed \/ Orderly)
  <2> SUFFICES ASSUME Init PROVE HandlerSaw /\ OwnNumber /\ Orderly
    OBVIOUS
  <2>1. \A a \in Admins : admin[a].pc = "idle"
    BY DEF Init, Rest
  <2>2. /\ worker.pc = "boot" /\ worker.rid = 0
        /\ hash.status = "idle" /\ hash.shown = 0 /\ hash.rid = 0
        /\ wrote = {} /\ asked = <<>>
    BY DEF Init, Empty, Quiet
  <2> QED
    BY <2>1, <2>2 DEF HandlerSaw, OwnNumber, Orderly, WorkerOwns, HashIsAsked,
         IdleShowsNothing, DryRunWritesNothing, CountersOwn, Carrying, RunPcs, Active
<1>2. IInv /\ HandlerSaw /\ OwnNumber /\ (crossed \/ Orderly) /\ [Next]_vars
        => HandlerSaw' /\ OwnNumber' /\ (crossed' \/ Orderly')
  <2> SUFFICES ASSUME SInv, [Next]_vars
               PROVE  HandlerSaw' /\ OwnNumber' /\ (crossed' \/ Orderly')
    BY DEF SInv
  <2>1. CASE UNCHANGED vars
    BY <2>1 DEF vars, SInv, HandlerSaw, OwnNumber, Orderly, WorkerOwns, HashIsAsked,
                IdleShowsNothing, DryRunWritesNothing, CountersOwn
  <2>2. CASE Next
    <3>1. OwnNumber'
      BY <2>2, NumbersStep DEF SInv
    <3>2. ASSUME NEW a \in Admins,
                 \/ \E dry \in BOOLEAN : RequestCheck(a, dry)
                 \/ CancelCheck(a) \/ Handler(a) \/ HandlerDies(a)
          PROVE  HandlerSaw' /\ (crossed' \/ Orderly')
      <4>1. HandlerSaw'
        BY <3>2, HandlerKnows DEF SInv
      <4>2. ~crossed' => Orderly'
        BY <3>2, AdminOrder
      <4> QED  BY <4>1, <4>2
    <3> QED  BY <2>2, <3>1, <3>2, WorkerStep DEF Next
  <2> QED  BY <2>1, <2>2
<1> QED  BY <1>1, <1>2, Inductive, PTL DEF Spec, SInv

------------------------------------------------------------------------------
(* What follows.                                                           *)

\* Until a handler writes over a state it had not seen, no dry run writes, the counters
\* on display are those of the request on display, and a cancelled job has no run: for
\* any number of handlers, however the worker crashes, a handler is cut short or Redis
\* fails.
THEOREM RunsAsAskedCorrect == Spec => []RunsAsAsked
<1>1. SInv => RunsAsAsked
  <2> SUFFICES ASSUME SInv, ~crossed PROVE RunsAsAsked
    BY DEF RunsAsAsked
  <2>1. CancelledIsStopped
    BY DEF SInv, Orderly, WorkerOwns, CancelledIsStopped, Carrying, RunPcs
  <2> QED  BY <2>1 DEF SInv, Orderly, RunsAsAsked
<1> QED  BY <1>1, SInductive, PTL

\* A queued request is claimed or cancelled, unless a handler acts on what it had read
\* before the request was there, or a run whose state such a handler took away ends.
THEOREM NoRequestLostCorrect == Spec => NoRequestLost
<1> DEFINE Claimed == hash'.rid = hash.rid /\ hash'.status \in {"requested", "running"}
           Called == /\ hash'.rid = hash.rid /\ hash'.status = "cancelled"
                     /\ \E a \in Admins : admin[a].saw = Seen /\ admin'[a] # admin[a]
           Stale == \E a \in Admins : admin[a].saw # Seen /\ admin'[a] # admin[a]
           Foreign == crossed /\ worker' # worker /\ worker.rid # hash.rid
           Step == hash.status = "requested" => Claimed \/ Called \/ Stale \/ Foreign
<1>1. SInv /\ [Next]_vars => [Step]_vars
  <2> SUFFICES ASSUME SInv, Next, hash.status = "requested"
               PROVE  Claimed \/ Called \/ Stale \/ Foreign
    BY DEF vars
  <2>0. /\ hash \in Hashes /\ worker \in Runs /\ admin \in [Admins -> Requests]
        /\ HandlerSaw /\ Seen[1] = "requested"
    BY DEF SInv, IInv, TypeOK, Runs, Requests, Seen
  <2>1. CASE UNCHANGED hash \/ Publish \/ Claim
    BY <2>0, <2>1 DEF Publish, Claim, Hashes
  <2>2. ASSUME NEW a \in Admins, RequestDelete(a) \/ RequestSet(a)
        PROVE  Stale
    <3>1. admin[a].pc # admin'[a].pc
      BY <2>0, <2>2 DEF RequestDelete, RequestSet, Rest, Requests
    <3>2. admin[a].saw[1] # "requested"
      BY <2>0, <2>2 DEF RequestDelete, RequestSet, HandlerSaw, Active
    <3> QED  BY <2>0, <3>1, <3>2
  <2>3. ASSUME NEW a \in Admins, CancelWrite(a)
        PROVE  Claimed \/ Called \/ Stale
    <3>1. admin[a].pc # admin'[a].pc
      BY <2>0, <2>3 DEF CancelWrite, Rest
    <3>2. /\ hash'.rid = hash.rid
          /\ hash'.status = "cancelled" \/ hash'.status = hash.status
      BY <2>0, <2>3 DEF CancelWrite, Hashes
    <3> QED  BY <3>1, <3>2
  <2>4. CASE BootClear \/ Finish \/ FinishFailed
    <3>1. worker.pc \in {"clear", "finish", "failing"} /\ worker' = Quiet
      BY <2>4 DEF BootClear, Finish, FinishFailed
    <3>2. worker' # worker /\ worker.rid # hash.rid
      BY <3>1 DEF SInv, OwnNumber, Quiet
    <3>3. crossed
      BY <3>1 DEF SInv, Orderly, WorkerOwns
    <3> QED  BY <3>2, <3>3
  <2>5. \/ UNCHANGED hash \/ Publish \/ Claim \/ BootClear \/ Finish \/ FinishFailed
        \/ \E a \in Admins : RequestDelete(a) \/ RequestSet(a) \/ CancelWrite(a)
    BY DEF Next, Handler, Work, RequestCheck, CancelCheck, HandlerDies, BootRead,
           ReadClaimed, Start, Batch, Poll, NoMoreFiles, RepairTitles, SweepOrphans,
           RunFails, RedisFails, WorkerRestarts
  <2> QED  BY <2>1, <2>2, <2>3, <2>4, <2>5
<1> QED  BY <1>1, SInductive, PTL DEF NoRequestLost, Spec

------------------------------------------------------------------------------
(* Admins who take turns, and do not cancel.                               *)

OneAtATime == (\A a, b \in Admins : a = b) /\ ~WithCancel

\* The one handler's view is the state.
ViewIsFresh ==
  \A a \in Admins : /\ admin[a].pc \in {"idle", "checked", "deleted"}
                    /\ admin[a].pc # "idle" => admin[a].saw = Seen

\* One handler at a time, and no cancel, never writes over a state it had not seen: what
\* RunsAsAsked and NoRequestLost say then holds without exception, whatever crashes.
THEOREM TurnsNeverCross == OneAtATime => (Spec => []~crossed)
<1> SUFFICES ASSUME OneAtATime PROVE Spec => []~crossed
  OBVIOUS
<1>1. Init => ~crossed /\ ViewIsFresh
  BY DEF Init, ViewIsFresh, Rest
<1>2. SInv /\ ~crossed /\ ViewIsFresh /\ [Next]_vars => ~crossed' /\ ViewIsFresh'
  <2> SUFFICES ASSUME SInv, ~crossed, ViewIsFresh, [Next]_vars
               PROVE  ~crossed' /\ ViewIsFresh'
    OBVIOUS
  <2>0. /\ admin \in [Admins -> Requests] /\ hash \in Hashes
        /\ Orderly /\ HandlerSaw
    BY DEF SInv, IInv, TypeOK, Requests
  <2>1. CASE UNCHANGED vars
    BY <2>1 DEF vars, ViewIsFresh, Seen
  <2>2. ASSUME NEW a \in Admins,
               \/ \E dry \in BOOLEAN : RequestCheck(a, dry)
               \/ CancelCheck(a) \/ Handler(a) \/ HandlerDies(a)
        PROVE  ~crossed' /\ ViewIsFresh'
    <3>1. \A b \in Admins : b = a
      BY DEF OneAtATime
    <3>2. ~CancelCheck(a) /\ ~CancelWrite(a)
      BY DEF OneAtATime, CancelCheck, CancelWrite, ViewIsFresh
    <3>3. CASE \E dry \in BOOLEAN : RequestCheck(a, dry)
      <4>1. /\ admin'[a].pc = "checked" /\ admin'[a].saw = Seen
            /\ hash' = hash /\ crossed' = crossed
        BY <2>0, <3>3 DEF RequestCheck
      <4>2. ViewIsFresh'
        BY <3>1, <4>1 DEF ViewIsFresh, Seen
      <4> QED  BY <4>1, <4>2
    <3>4. CASE RequestDelete(a)
      <4>1. admin[a].saw = Seen
        BY <3>4 DEF RequestDelete, ViewIsFresh
      <4>2. ~crossed'
        BY <3>4, <4>1, Zenon DEF RequestDelete, Crossing
      <4>3. admin'[a].pc = "deleted" /\ admin'[a].saw = Seen'
        BY <2>0, <3>4 DEF RequestDelete, Requests
      <4> QED  BY <3>1, <4>2, <4>3 DEF ViewIsFresh
    <3>5. CASE RequestSet(a)
      <4>1. admin[a].saw = Seen
        BY <3>5 DEF RequestSet, ViewIsFresh
      <4>2. ~crossed'
        BY <3>5, <4>1, Zenon DEF RequestSet, Crossing
      <4>3. admin'[a].pc = "idle"
        BY <2>0, <3>5 DEF RequestSet, Rest
      <4> QED  BY <3>1, <4>2, <4>3 DEF ViewIsFresh
    <3>6. CASE HandlerDies(a)
      <4>1. admin'[a].pc = "idle" /\ crossed' = crossed
        BY <2>0, <3>6 DEF HandlerDies, Rest
      <4> QED  BY <3>1, <4>1 DEF ViewIsFresh
    <3> QED  BY <2>2, <3>2, <3>3, <3>4, <3>5, <3>6 DEF Handler
  <2>3. CASE Work \/ RunFails \/ RedisFails \/ WorkerRestarts
    <3>1. UNCHANGED <<admin, crossed>>
      BY <2>3, WorkerStep
    <3>2. ASSUME NEW a \in Admins, admin[a].pc # "idle"
          PROVE  Seen' = Seen
      <4>1. hash.status \notin Active
        <5>1. admin[a].saw = Seen /\ admin[a].pc \in {"checked", "deleted"}
          BY <3>2 DEF ViewIsFresh
        <5> QED  BY <2>0, <5>1 DEF HandlerSaw, Seen, Active
      <4>2. worker.pc \in {"boot", "idle"}
        BY <2>0, <4>1 DEF Orderly, WorkerOwns, Active
      <4>3. UNCHANGED hash
        BY <2>3, <4>1, <4>2 DEF Work, BootRead, BootClear, Claim, ReadClaimed, Start, Batch,
             Poll, NoMoreFiles, RepairTitles, SweepOrphans, Finish, FinishFailed, RunFails,
             RedisFails, WorkerRestarts, RunPcs, Active
      <4> QED  BY <4>3 DEF Seen
    <3>3. ViewIsFresh'
      BY <3>1, <3>2 DEF ViewIsFresh
    <3> QED  BY <3>1, <3>3
  <2> QED  BY <2>1, <2>2, <2>3 DEF Next
<1> QED  BY <1>1, <1>2, SInductive, PTL DEF Spec

==============================================================================
