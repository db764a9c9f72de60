------------------------------ MODULE IndexJobs ------------------------------
(***************************************************************************)
(* Indexing of source channels: the index_progress rows an admin creates   *)
(* (shared/db/repos/progress.py), the dispatcher that keeps one backfill   *)
(* task per running row (worker/main.py), the walker that steps through a  *)
(* channel's history (worker/backfill.py), live indexing (worker/live.py)  *)
(* and /clear_index (stats.wipe_index).  One step is one database          *)
(* transaction or one Telegram answer: every await is a point where the    *)
(* other actors run.                                                       *)
(***************************************************************************)
EXTENDS Integers

CONSTANTS
  Channels,              \* source channels
  MaxMsg,                \* bound on message ids
  FileIds,               \* ids whose message carries an indexable file
  SourceChannels,        \* settings.source_channel_ids
  BatchSize,             \* settings.backfill_batch_size
  MaxConsecutiveErrors,  \* backfill._MAX_CONSECUTIVE_ERRORS
  MaxFaults              \* bound on crashes, exceptions and flood waits

MsgIds == 1..MaxMsg

ASSUME IndexAssumption ==
  /\ MaxMsg \in Nat
  /\ FileIds \subseteq MsgIds
  /\ BatchSize \in Nat \ {0}
  /\ MaxConsecutiveErrors \in Nat \ {0}
  /\ MaxFaults \in Nat

VARIABLES
  head,     \* newest message id of each channel
  job,      \* index_progress
  files,    \* message ids with a row in files (outcome INDEXED or DUPLICATE)
  inbox,    \* channel posts delivered to the worker, handler not finished
  listed,   \* channels of list_running the dispatcher has still to look at
  walker,   \* the backfill task of each channel, and its locals
  faults,   \* faults so far
  \* Ghosts: no code reads them.
  passed,   \* ids a walk stepped over without indexing them
  stale     \* channels whose row was written from a snapshot older than a wipe

vars == <<head, job, files, inbox, listed, walker, faults, passed, stale>>

Statuses == {"absent", "running", "completed", "errored"}
Absent == [status |-> "absent", target |-> 0, last |-> 0]

\* "idle" is a task that does not exist or is done(): the dispatcher treats
\* them alike.
Pcs == {"idle", "read", "fetch", "index", "ckpt", "complete", "fail", "report"}
Mid == {"fetch", "index", "ckpt", "complete"}  \* acting on a row it read

At(pc, errs) == [pc |-> pc, pos |-> 0, end |-> 0, target |-> 0, seen |-> 0,
                 errs |-> errs, crossed |-> FALSE]
Idle == At("idle", 0)

Larger(a, b) == IF a > b THEN a ELSE b

\* Slip_X is a plausible wrong version of X: each property below fails with one.
Slip_Smaller(a, b) == a
Smaller(a, b) == IF a < b THEN a ELSE b

Jobs == [status : Statuses, target : 0..MaxMsg, last : 0..MaxMsg]
Walkers == [pc : Pcs, pos : 0..(MaxMsg + 1), end : 0..MaxMsg, target : 0..MaxMsg,
            seen : 0..MaxMsg, errs : 0..(MaxConsecutiveErrors - 1), crossed : BOOLEAN]

TypeOK ==
  /\ head \in [Channels -> 0..MaxMsg]
  /\ job \in [Channels -> Jobs]
  /\ files \in [Channels -> SUBSET MsgIds]
  /\ inbox \in [Channels -> SUBSET MsgIds]
  /\ listed \in SUBSET Channels
  /\ walker \in [Channels -> Walkers]
  /\ faults \in 0..MaxFaults
  /\ passed \in [Channels -> SUBSET MsgIds]
  /\ stale \in SUBSET Channels

Init ==
  /\ head \in [Channels -> 0..MaxMsg]
  /\ job = [c \in Channels |-> Absent]
  /\ files = [c \in Channels |-> {}]
  /\ inbox = [c \in Channels |-> {}]
  /\ listed = {}
  /\ walker = [c \in Channels |-> Idle]
  /\ faults = 0
  /\ passed = [c \in Channels |-> {}]
  /\ stale = {}

------------------------------------------------------------------------------
(* Admins and the channel itself.                                          *)

Slip_UpsertJob(c, t) ==  \* the checkpoint is not kept
  /\ job' = [job EXCEPT ![c] = [status |-> "running",
                                target |-> Larger(@.target, t), last |-> 0]]
  /\ UNCHANGED <<head, files, inbox, listed, walker, faults, passed, stale>>

\* upsert_job, from a forwarded post, /index or worker.enqueue.
UpsertJob(c, t) ==
  /\ job' = [job EXCEPT ![c] = [status |-> "running",
                                target |-> Larger(@.target, t),
                                last   |-> @.last]]
  /\ UNCHANGED <<head, files, inbox, listed, walker, faults, passed, stale>>

Slip_WipeIndex ==  \* index_progress survives
  /\ files' = [c \in Channels |-> {}]
  /\ passed' = [c \in Channels |-> {}]
  /\ UNCHANGED <<head, job, inbox, listed, walker, faults, stale>>

\* wipe_index: titles, files and index_progress in one transaction.  It does
\* not stop the walkers, which keep the row they read.
WipeIndex ==
  /\ job' = [c \in Channels |-> Absent]
  /\ files' = [c \in Channels |-> {}]
  /\ walker' = [c \in Channels |->
                  [walker[c] EXCEPT !.crossed = @ \/ walker[c].pc \in Mid]]
  /\ passed' = [c \in Channels |-> {}]
  /\ stale' = {}
  /\ UNCHANGED <<head, inbox, listed, faults>>

\* A message is posted; the update reaches the worker at most once.
Post(c) ==
  /\ head[c] < MaxMsg
  /\ head' = [head EXCEPT ![c] = @ + 1]
  /\ \/ /\ head[c] + 1 \in FileIds
        /\ inbox' = [inbox EXCEPT ![c] = @ \cup {head[c] + 1}]
     \/ UNCHANGED inbox
  /\ UNCHANGED <<job, files, listed, walker, faults, passed, stale>>

------------------------------------------------------------------------------
(* Live indexing.                                                          *)

IsSourceChannel(c) == c \in SourceChannels \/ job[c].status # "absent"

LiveIndex(c, id) ==
  /\ id \in inbox[c]
  /\ IsSourceChannel(c)
  /\ files' = [files EXCEPT ![c] = @ \cup {id}]
  /\ inbox' = [inbox EXCEPT ![c] = @ \ {id}]
  /\ UNCHANGED <<head, job, listed, walker, faults, passed, stale>>

\* Not a source, or index_message raised: logged, and not tried again.
LiveDrop(c, id) ==
  /\ id \in inbox[c]
  /\ inbox' = [inbox EXCEPT ![c] = @ \ {id}]
  /\ UNCHANGED <<head, job, files, listed, walker, faults, passed, stale>>

------------------------------------------------------------------------------
(* The dispatcher.                                                         *)

Running == {c \in Channels : job[c].status = "running"}

DispatchPoll ==
  /\ listed = {}
  /\ listed' = Running
  /\ UNCHANGED <<head, job, files, inbox, walker, faults, passed, stale>>

DispatchJob(c) ==
  /\ c \in listed
  /\ listed' = listed \ {c}
  /\ walker' = IF walker[c].pc = "idle"
               THEN [walker EXCEPT ![c] = At("read", 0)] ELSE walker
  /\ UNCHANGED <<head, job, files, inbox, faults, passed, stale>>

------------------------------------------------------------------------------
(* The walker of one channel.                                              *)

Slip_Exhausted(j) == j.last + 1 >= j.target
Exhausted(j) == j.last + 1 > j.target

\* The top of the loop: re-read the job, then stop, finish or take a batch.
ReadJob(c) ==
  /\ walker[c].pc = "read"
  /\ \/ /\ job[c].status # "running"
        /\ walker' = [walker EXCEPT ![c] = Idle]
     \/ /\ job[c].status = "running"
        /\ Exhausted(job[c])
        /\ walker' = [walker EXCEPT ![c] = [At("complete", 0) EXCEPT
                                              !.target = job[c].target]]
     \/ /\ job[c].status = "running"
        /\ ~Exhausted(job[c])
        /\ walker' = [walker EXCEPT ![c] =
             [At("fetch", @.errs) EXCEPT
                !.pos    = job[c].last + 1,
                !.end    = Smaller(job[c].last + BatchSize, job[c].target),
                !.target = job[c].target]]
  /\ UNCHANGED <<head, job, files, inbox, listed, faults, passed, stale>>

\* set_status is an UPDATE by channel: it touches whatever row is there now.
SetStatus(c, status) ==
  job' = IF job[c].status = "absent" THEN job
         ELSE [job EXCEPT ![c].status = status]

SetCompleted(c) ==
  /\ walker[c].pc = "complete"
  /\ SetStatus(c, "completed")
  /\ walker' = [walker EXCEPT ![c] = At("report", 0)]
  /\ UNCHANGED <<head, files, inbox, listed, faults, passed, stale>>

Slip_SetErrored(c) ==  \* gives up without recording it
  /\ walker[c].pc = "fail"
  /\ walker' = [walker EXCEPT ![c] = At("report", 0)]
  /\ UNCHANGED <<head, job, files, inbox, listed, faults, passed, stale>>

SetErrored(c) ==
  /\ walker[c].pc = "fail"
  /\ SetStatus(c, "errored")
  /\ walker' = [walker EXCEPT ![c] = At("report", 0)]
  /\ UNCHANGED <<head, files, inbox, listed, faults, passed, stale>>

\* reporter.final is still awaited: the task is not done() before it.
Report(c) ==
  /\ walker[c].pc = "report"
  /\ walker' = [walker EXCEPT ![c] = Idle]
  /\ UNCHANGED <<head, job, files, inbox, listed, faults, passed, stale>>

\* get_messages answers: ids above the head come back as empty messages.
FetchOk(c) ==
  /\ walker[c].pc = "fetch"
  /\ walker' = [walker EXCEPT ![c].pc = "index", ![c].seen = head[c],
                              ![c].errs = 0]
  /\ UNCHANGED <<head, job, files, inbox, listed, faults, passed, stale>>

\* MessageIdsEmpty: Telegram has nothing in this window.
FetchEmpty(c) ==
  LET window == FileIds \cap (walker[c].pos..walker[c].end) IN
  /\ walker[c].pc = "fetch"
  /\ window \cap (1..head[c]) = {}
  /\ passed' = [passed EXCEPT ![c] = @ \cup window]
  /\ walker' = [walker EXCEPT ![c].pc = "ckpt", ![c].errs = 0]
  /\ UNCHANGED <<head, job, files, inbox, listed, faults, stale>>

Slip_FetchError(c) ==  \* never gives up
  /\ walker[c].pc = "fetch"
  /\ walker' = [walker EXCEPT ![c] = At("read", @.errs + 1)]
  /\ UNCHANGED <<head, job, files, inbox, listed, faults, passed, stale>>

FetchError(c) ==
  /\ walker[c].pc = "fetch"
  /\ \/ /\ walker[c].errs + 1 >= MaxConsecutiveErrors
        /\ walker' = [walker EXCEPT ![c] = At("fail", 0)]
     \/ /\ walker[c].errs + 1 < MaxConsecutiveErrors
        /\ walker' = [walker EXCEPT ![c] = At("read", @.errs + 1)]
  /\ UNCHANGED <<head, job, files, inbox, listed, faults, passed, stale>>

FloodWait(c) ==
  /\ walker[c].pc = "fetch"
  /\ faults < MaxFaults
  /\ faults' = faults + 1
  /\ walker' = [walker EXCEPT ![c] = At("read", @.errs)]
  /\ UNCHANGED <<head, job, files, inbox, listed, passed, stale>>

NextId(c) ==
  walker' = [walker EXCEPT ![c].pos = @ + 1,
                           ![c].pc = IF walker[c].pos = walker[c].end
                                     THEN "ckpt" ELSE "index"]

\* One message of the batch is indexed in a transaction of its own ...
IndexMessage(c) ==
  /\ walker[c].pc = "index"
  /\ walker[c].pos \in FileIds
  /\ walker[c].pos <= walker[c].seen
  /\ files' = [files EXCEPT ![c] = @ \cup {walker[c].pos}]
  /\ NextId(c)
  /\ UNCHANGED <<head, job, inbox, listed, faults, passed, stale>>

\* ... or it is empty or carries nothing to index, or indexing it raised and the
\* loop went on.
PassMessage(c) ==
  /\ walker[c].pc = "index"
  /\ passed' = [passed EXCEPT ![c] = @ \cup (FileIds \cap {walker[c].pos})]
  /\ NextId(c)
  /\ UNCHANGED <<head, job, files, inbox, listed, faults, stale>>

Slip_Checkpoint(c) ==  \* records the target instead of the batch's end
  /\ walker[c].pc = "ckpt"
  /\ job' = IF job[c].status = "absent" THEN job
            ELSE [job EXCEPT ![c].last = walker[c].target]
  /\ stale' = IF walker[c].crossed /\ job[c].status # "absent"
              THEN stale \cup {c} ELSE stale
  /\ walker' = [walker EXCEPT ![c] = At("read", 0)]
  /\ UNCHANGED <<head, files, inbox, listed, faults, passed>>

Checkpoint(c) ==
  /\ walker[c].pc = "ckpt"
  /\ job' = IF job[c].status = "absent" THEN job
            ELSE [job EXCEPT ![c].last = walker[c].end]
  /\ stale' = IF walker[c].crossed /\ job[c].status # "absent"
              THEN stale \cup {c} ELSE stale
  /\ walker' = [walker EXCEPT ![c] = At("read", 0)]
  /\ UNCHANGED <<head, files, inbox, listed, faults, passed>>

------------------------------------------------------------------------------
(* Faults.                                                                 *)

\* A database or network error outside index_message ends the task.
WalkerDies(c) ==
  /\ walker[c].pc \in {"read", "fetch", "ckpt", "complete", "fail"}
  /\ faults < MaxFaults
  /\ faults' = faults + 1
  /\ walker' = [walker EXCEPT ![c] = Idle]
  /\ UNCHANGED <<head, job, files, inbox, listed, passed, stale>>

\* An exception in the dispatcher's loop body drops the rest of its list.
DispatcherFails ==
  /\ listed # {}
  /\ faults < MaxFaults
  /\ faults' = faults + 1
  /\ listed' = {}
  /\ UNCHANGED <<head, job, files, inbox, walker, passed, stale>>

\* The worker process dies and is started again: only the database is left.
WorkerRestarts ==
  /\ faults < MaxFaults
  /\ faults' = faults + 1
  /\ inbox' = [c \in Channels |-> {}]
  /\ listed' = {}
  /\ walker' = [c \in Channels |-> Idle]
  /\ UNCHANGED <<head, job, files, passed, stale>>

------------------------------------------------------------------------------
Walk(c) ==
  \/ ReadJob(c) \/ SetCompleted(c) \/ SetErrored(c) \/ Report(c)
  \/ FetchOk(c) \/ FetchEmpty(c) \/ FetchError(c)
  \/ IndexMessage(c) \/ PassMessage(c) \/ Checkpoint(c)

Next ==
  \/ \E c \in Channels :
       \/ \E t \in MsgIds : UpsertJob(c, t)
       \/ Post(c)
       \/ \E id \in MsgIds : LiveIndex(c, id) \/ LiveDrop(c, id)
       \/ DispatchJob(c)
       \/ Walk(c)
       \/ FloodWait(c)
       \/ WalkerDies(c)
  \/ WipeIndex
  \/ DispatchPoll
  \/ DispatcherFails
  \/ WorkerRestarts

\* The poll loop and every task run on an event loop that starves nobody;
\* nothing obliges an admin, a poster or a fault to act.
Fairness ==
  /\ WF_vars(DispatchPoll)
  /\ \A c \in Channels : WF_vars(DispatchJob(c)) /\ WF_vars(Walk(c))

Spec == Init /\ [][Next]_vars
FairSpec == Spec /\ Fairness

------------------------------------------------------------------------------
(* Properties.                                                             *)

Handled(c) == files[c] \cup passed[c]
FilesIn(a, b) == FileIds \cap (a..b)

\* Every file message at or below a channel's checkpoint was indexed, or met by
\* a walk that could not index it: no interleaving of the walker, the live
\* handler, admins, crashes and restarts makes the checkpoint skip a message
\* nobody looked at.  The one exception is a row overwritten by a walk that a
\* /clear_index overtook.
CheckpointCovered ==
  \A c \in Channels \ stale : FilesIn(1, job[c].last) \subseteq Handled(c)

\* The checkpoint never runs past the target an admin asked for (same
\* exception), so "indexed last/target" in the progress report is a fraction.
CheckpointWithinTarget ==
  \A c \in Channels \ stale : job[c].last <= job[c].target

\* Short of a wipe no step takes a checkpoint back or a target down: a resumed,
\* restarted or re-requested job never rescans completed history.
NeverRescans ==
  [][\A c \in Channels : job'[c].status # "absent" =>
       /\ job'[c].last >= job[c].last
       /\ job'[c].target >= job[c].target]_vars

\* A job is marked completed only by a walk that reached the target it read,
\* unless the row it read was wiped meanwhile.
CompletionEarned ==
  [][\A c \in Channels :
       /\ job[c].status = "running"
       /\ job'[c].status = "completed"
       /\ ~walker[c].crossed
       => job[c].last >= walker[c].target]_vars

\* A running job always comes to an end - completed, errored or wiped - however
\* often its task or the worker died on the way: the dispatcher revives it.
RunningSettles ==
  \A c \in Channels :
    job[c].status = "running" ~> job[c].status # "running"

\* Every step is one the ledger allows.
Ledger == INSTANCE IndexLedger WITH
  row     <- job,
  handled <- [c \in Channels |-> Handled(c)],
  void    <- stale \cup {c \in Channels : walker[c].crossed /\ walker[c].pc # "complete"}
ImplementsLedger == Ledger!Spec

\* What docs.md:97 and the reply to /index promise: a job that is not running
\* any more, without an error, has reached its target.
CompletedReachesTarget ==
  \A c \in Channels : job[c].status = "completed" => job[c].last >= job[c].target

\* What the /clear_index dialog announces: the channels are indexed from scratch
\* afterwards, so no file of the channel below a checkpoint is missing, wipe or no
\* wipe.
ReindexFromScratch ==
  \A c \in Channels :
    FilesIn(1, Smaller(job[c].last, head[c])) \subseteq Handled(c)
==============================================================================
