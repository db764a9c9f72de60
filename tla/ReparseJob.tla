----------------------------- MODULE ReparseJob -----------------------------
(***************************************************************************)
(* The re-parse job: one Redis hash (shared/reparse_state.py) that the     *)
(* admins' handlers in the bot write (bot/handlers/admin.py) and the       *)
(* worker's dispatcher claims, runs and closes (worker/main.py, driving    *)
(* worker/reparse.py).  One step is one Redis command or one committed     *)
(* batch.  Which rows a batch rewrites is left out; whether it writes at   *)
(* all (dry run) is kept.                                                  *)
(***************************************************************************)
EXTENDS Integers, Sequences, FiniteSets

CONSTANTS
  Admins,          \* handlers that can be in flight at once
  WithCancel,      \* whether the admins use /reparse cancel
  Batches,         \* batches of files in the index
  MaxRequests,     \* bound on confirmed requests
  MaxCrashes,      \* bound on worker restarts and handlers cut short
  MaxRedisFaults   \* bound on Redis commands that fail in the worker

ASSUME ReparseAssumption ==
  /\ WithCancel \in BOOLEAN
  /\ Batches \in Nat
  /\ MaxRequests \in Nat
  /\ MaxCrashes \in Nat
  /\ MaxRedisFaults \in Nat

VARIABLES
  hash,         \* reparse:state; rid and shown are ghosts, see Hashes
  admin,        \* each handler: where it is between two Redis commands
  worker,       \* the dispatcher and the run it awaits inline
  tries,        \* requests begun
  crashes, redisFaults,
  asked,        \* ghost: the dry_run of every request queued, in order
  wrote,        \* ghost: requests whose run has written to the index
  crossed       \* ghost: whether a handler has written over a state that was no longer
                \* the one it had seen

vars == <<hash, admin, worker, tries, crashes, redisFaults, asked, wrote, crossed>>

Active == {"requested", "running"}
Statuses == Active \cup {"idle", "done", "failed", "cancelled"}
Rids == Nat

\* rid numbers the request the status belongs to; shown is the request whose run
\* published the counters /stats displays (0: none).
Hashes == [status : Statuses, dry : BOOLEAN, cancel : BOOLEAN,
           rid : Rids, shown : Rids]
Empty == [status |-> "idle", dry |-> FALSE, cancel |-> FALSE,
          rid |-> 0, shown |-> 0]

AdminPcs == {"idle", "checked", "deleted", "sawRequested", "sawRunning"}
RunPcs == {"start", "batch", "poll", "titles", "cleanup"}  \* inside reparse()
Carrying == RunPcs \cup {"claimed", "finish", "failing"}  \* with a request of its own
WorkerPcs == Carrying \cup {"boot", "clear", "idle"}
Rest == [pc |-> "idle", dry |-> FALSE, saw |-> <<"idle", 0>>]
Quiet == [pc |-> "idle", dry |-> FALSE, rid |-> 0, done |-> 0, stop |-> FALSE]

TypeOK ==
  /\ hash \in Hashes
  /\ admin \in [Admins -> [pc : AdminPcs, dry : BOOLEAN, saw : Statuses \X Rids]]
  /\ worker \in [pc : WorkerPcs, dry : BOOLEAN, rid : Rids, done : 0..Batches,
                 stop : BOOLEAN]
  /\ tries \in 0..MaxRequests
  /\ crashes \in 0..MaxCrashes
  /\ redisFaults \in 0..MaxRedisFaults
  /\ asked \in Seq(BOOLEAN)
  /\ wrote \subseteq Rids
  /\ crossed \in BOOLEAN

Init ==
  /\ hash = Empty
  /\ admin = [a \in Admins |-> Rest]
  /\ worker = [Quiet EXCEPT !.pc = "boot"]
  /\ tries = 0 /\ crashes = 0 /\ redisFaults = 0
  /\ asked = <<>>
  /\ wrote = {}
  /\ crossed = FALSE

------------------------------------------------------------------------------
(* request(), three Redis commands.                                        *)

\* What a handler knows of the job: the state it last read, or left behind.
Seen == <<hash.status, hash.rid>>
Crossing(a) == crossed' = (crossed \/ admin[a].saw # Seen)

Slip_RequestCheck(a, dry) ==  \* does not look whether a run is active
  /\ admin[a].pc = "idle" /\ tries < MaxRequests
  /\ tries' = tries + 1
  /\ admin' = [admin EXCEPT ![a] = [pc |-> "checked", dry |-> dry, saw |-> Seen]]
  /\ UNCHANGED <<hash, worker, crashes, redisFaults, asked, wrote, crossed>>

RequestCheck(a, dry) ==
  /\ admin[a].pc = "idle" /\ tries < MaxRequests
  /\ hash.status \notin Active
  /\ tries' = tries + 1
  /\ admin' = [admin EXCEPT ![a] = [pc |-> "checked", dry |-> dry, saw |-> Seen]]
  /\ UNCHANGED <<hash, worker, crashes, redisFaults, asked, wrote, crossed>>

Slip_RequestDelete(a) ==  \* the old hash is kept
  /\ admin[a].pc = "checked"
  /\ admin' = [admin EXCEPT ![a].pc = "deleted", ![a].saw = Seen]
  /\ Crossing(a)
  /\ UNCHANGED <<hash, worker, tries, crashes, redisFaults, asked, wrote>>

RequestDelete(a) ==
  /\ admin[a].pc = "checked"
  /\ hash' = Empty
  /\ admin' = [admin EXCEPT ![a].pc = "deleted", ![a].saw = Seen']
  /\ Crossing(a)
  /\ UNCHANGED <<worker, tries, crashes, redisFaults, asked, wrote>>

\* HSET merges: fields written since the DEL, such as cancel, survive.
RequestSet(a) ==
  /\ admin[a].pc = "deleted"
  /\ asked' = Append(asked, admin[a].dry)
  /\ hash' = [hash EXCEPT !.status = "requested", !.dry = admin[a].dry,
                          !.rid = Len(asked')]
  /\ admin' = [admin EXCEPT ![a] = Rest]
  /\ Crossing(a)
  /\ UNCHANGED <<worker, tries, crashes, redisFaults, wrote>>

------------------------------------------------------------------------------
(* cancel(): look at the status, then write what that status calls for.    *)

CancelCheck(a) ==
  /\ WithCancel
  /\ admin[a].pc = "idle"
  /\ \/ /\ hash.status = "requested"
        /\ admin' = [admin EXCEPT ![a].pc = "sawRequested", ![a].saw = Seen]
     \/ /\ hash.status = "running"
        /\ admin' = [admin EXCEPT ![a].pc = "sawRunning", ![a].saw = Seen]
  /\ UNCHANGED <<hash, worker, tries, crashes, redisFaults, asked, wrote, crossed>>

CancelWrite(a) ==
  /\ \/ /\ admin[a].pc = "sawRequested"
        /\ hash' = [hash EXCEPT !.status = "cancelled"]
     \/ /\ admin[a].pc = "sawRunning"
        /\ hash' = [hash EXCEPT !.cancel = TRUE]
  /\ admin' = [admin EXCEPT ![a] = Rest]
  /\ Crossing(a)
  /\ UNCHANGED <<worker, tries, crashes, redisFaults, asked, wrote>>

------------------------------------------------------------------------------
(* The worker: startup, then the dispatcher's poll.                        *)

Finished(status) == [hash EXCEPT !.status = status, !.cancel = FALSE]

\* _reconcile_reparse: read, then finish(FAILED) for a run nobody owns any more.
\* If Redis fails here the worker exits: WorkerRestarts.
BootRead ==
  /\ worker.pc = "boot"
  /\ worker' = IF hash.status = "running" THEN [Quiet EXCEPT !.pc = "clear"]
               ELSE Quiet
  /\ UNCHANGED <<hash, admin, tries, crashes, redisFaults, asked, wrote, crossed>>

BootClear ==
  /\ worker.pc = "clear"
  /\ hash' = Finished("failed")
  /\ worker' = Quiet
  /\ UNCHANGED <<admin, tries, crashes, redisFaults, asked, wrote, crossed>>

Slip_Claim ==  \* leaves a request alone that carries a cancel flag
  /\ worker.pc = "idle"
  /\ hash.status = "requested" /\ ~hash.cancel
  /\ hash' = [hash EXCEPT !.status = "running"]
  /\ worker' = [Quiet EXCEPT !.pc = "claimed", !.rid = hash.rid]
  /\ UNCHANGED <<admin, tries, crashes, redisFaults, asked, wrote, crossed>>

\* The Lua compare-and-set ...
Claim ==
  /\ worker.pc = "idle"
  /\ hash.status = "requested"
  /\ hash' = [hash EXCEPT !.status = "running"]
  /\ worker' = [Quiet EXCEPT !.pc = "claimed", !.rid = hash.rid]
  /\ UNCHANGED <<admin, tries, crashes, redisFaults, asked, wrote, crossed>>

\* ... and the HGETALL behind it, a command of its own.
ReadClaimed ==
  /\ worker.pc = "claimed"
  /\ worker' = [worker EXCEPT !.pc = "start", !.dry = hash.dry]
  /\ UNCHANGED <<hash, admin, tries, crashes, redisFaults, asked, wrote, crossed>>

------------------------------------------------------------------------------
(* reparse(): batches, each followed by a look at the cancel flag; then the *)
(* display titles, the orphan sweep, and finish().                         *)

\* Progress is written after the commit; a failure to write it is swallowed.
Publish == hash' \in {hash, [hash EXCEPT !.shown = worker.rid]}
Write == wrote' = IF worker.dry THEN wrote ELSE wrote \cup {worker.rid}

Start ==
  /\ worker.pc = "start"
  /\ worker' = [worker EXCEPT !.pc = "batch"]
  /\ Publish
  /\ UNCHANGED <<admin, tries, crashes, redisFaults, asked, wrote, crossed>>

Slip_BatchCursor ==  \* last_id stays where it was
  /\ worker.pc = "batch" /\ worker.done < Batches
  /\ worker' = [worker EXCEPT !.pc = "poll"]
  /\ Write
  /\ Publish
  /\ UNCHANGED <<admin, tries, crashes, redisFaults, asked, crossed>>

Batch ==
  /\ worker.pc = "batch" /\ worker.done < Batches
  /\ worker' = [worker EXCEPT !.pc = "poll", !.done = @ + 1]
  /\ Write
  /\ Publish
  /\ UNCHANGED <<admin, tries, crashes, redisFaults, asked, crossed>>

Slip_Poll ==  \* stops, but forgets to say it was stopped
  /\ worker.pc = "poll"
  /\ worker' = [worker EXCEPT !.pc = IF hash.cancel THEN "cleanup" ELSE "batch"]
  /\ UNCHANGED <<hash, admin, tries, crashes, redisFaults, asked, wrote, crossed>>

Poll ==
  /\ worker.pc = "poll"
  /\ worker' = [worker EXCEPT !.pc = IF hash.cancel THEN "cleanup" ELSE "batch",
                              !.stop = hash.cancel]
  /\ UNCHANGED <<hash, admin, tries, crashes, redisFaults, asked, wrote, crossed>>

NoMoreFiles ==
  /\ worker.pc = "batch" /\ worker.done = Batches
  /\ worker' = [worker EXCEPT !.pc = "titles"]
  /\ UNCHANGED <<hash, admin, tries, crashes, redisFaults, asked, wrote, crossed>>

\* Neither of these looks at the cancel flag.
RepairTitles ==
  /\ worker.pc = "titles"
  /\ worker' = [worker EXCEPT !.pc = "cleanup"]
  /\ Write
  /\ Publish
  /\ UNCHANGED <<admin, tries, crashes, redisFaults, asked, crossed>>

SweepOrphans ==
  /\ worker.pc = "cleanup"
  /\ worker' = [worker EXCEPT !.pc = "finish"]
  /\ Write
  /\ Publish
  /\ UNCHANGED <<admin, tries, crashes, redisFaults, asked, crossed>>

Finish ==
  /\ worker.pc = "finish"
  /\ hash' = [Finished(IF worker.stop THEN "cancelled" ELSE "done") EXCEPT
                !.shown = worker.rid]
  /\ worker' = Quiet
  /\ UNCHANGED <<admin, tries, crashes, redisFaults, asked, wrote, crossed>>

\* An exception out of reparse() (database, or the cancel poll) ...
RunFails ==
  /\ worker.pc \in RunPcs
  /\ worker' = [worker EXCEPT !.pc = "failing"]
  /\ UNCHANGED <<hash, admin, tries, crashes, redisFaults, asked, wrote, crossed>>

Slip_FinishFailed ==  \* the state is left as it is
  /\ worker.pc = "failing"
  /\ worker' = Quiet
  /\ UNCHANGED <<hash, admin, tries, crashes, redisFaults, asked, wrote, crossed>>

\* ... is caught by _run_reparse, which closes the job.
FinishFailed ==
  /\ worker.pc = "failing"
  /\ hash' = Finished("failed")
  /\ worker' = Quiet
  /\ UNCHANGED <<admin, tries, crashes, redisFaults, asked, wrote, crossed>>

------------------------------------------------------------------------------
(* Faults.                                                                 *)

\* Redis fails under the HGETALL of claim() or under finish(): the dispatcher
\* logs it and polls on.
RedisFails ==
  /\ worker.pc \in {"claimed", "finish", "failing"}
  /\ redisFaults < MaxRedisFaults
  /\ redisFaults' = redisFaults + 1
  /\ worker' = Quiet
  /\ UNCHANGED <<hash, admin, tries, crashes, asked, wrote, crossed>>

WorkerRestarts ==
  /\ crashes < MaxCrashes
  /\ crashes' = crashes + 1
  /\ worker' = [Quiet EXCEPT !.pc = "boot"]
  /\ UNCHANGED <<hash, admin, tries, redisFaults, asked, wrote, crossed>>

\* The bot dies between two commands of a handler, or Redis fails under one.
HandlerDies(a) ==
  /\ admin[a].pc # "idle"
  /\ crashes < MaxCrashes
  /\ crashes' = crashes + 1
  /\ admin' = [admin EXCEPT ![a] = Rest]
  /\ UNCHANGED <<hash, worker, tries, redisFaults, asked, wrote, crossed>>

------------------------------------------------------------------------------
Handler(a) == RequestDelete(a) \/ RequestSet(a) \/ CancelWrite(a)

Work == \/ BootRead \/ BootClear \/ Claim \/ ReadClaimed
        \/ Start \/ Batch \/ Poll \/ NoMoreFiles \/ RepairTitles \/ SweepOrphans
        \/ Finish \/ FinishFailed

Next ==
  \/ \E a \in Admins :
       \/ \E dry \in BOOLEAN : RequestCheck(a, dry)
       \/ CancelCheck(a)
       \/ Handler(a)
       \/ HandlerDies(a)
  \/ Work
  \/ RunFails
  \/ RedisFails
  \/ WorkerRestarts

Fairness == WF_vars(Work) /\ \A a \in Admins : WF_vars(Handler(a))

Spec == Init /\ [][Next]_vars
FairSpec == Spec /\ Fairness

------------------------------------------------------------------------------
(* Properties.                                                             *)

\* A run marked running that no worker is carrying out: it blocks every later
\* /reparse until the worker is restarted.
Orphaned == hash.status = "running" /\ worker.pc = "idle"

\* Only a Redis failure at the wrong moment leaves one behind: a worker crash, a
\* failing batch or a cancel never does.
OrphanedOnlyByRedis == Orphaned => redisFaults > 0

\* A queued request is claimed, or cancelled by an admin.  It is deleted, replaced or
\* cancelled unseen only by a handler that goes by a state it read before, and closed
\* unclaimed only by a run whose own state such a handler had written over.
NoRequestLost ==
  [][hash.status = "requested" =>
       \/ hash'.rid = hash.rid /\ hash'.status \in {"requested", "running"}
       \/ /\ hash'.rid = hash.rid /\ hash'.status = "cancelled"
          /\ \E a \in Admins : admin[a].saw = Seen /\ admin'[a] # admin[a]
       \/ \E a \in Admins : admin[a].saw # Seen /\ admin'[a] # admin[a]
       \/ crossed /\ worker' # worker /\ worker.rid # hash.rid]_vars

\* A run writes to the index only for a request that was not a dry run.
DryRunWritesNothing ==
  \A r \in wrote : r \in 1..Len(asked) /\ ~asked[r]

\* The counters on display belong to the request whose status is on display.
CountersOwn == hash.shown \in {0, hash.rid}

\* A job that cancel() closed while it was queued has no run in flight.
CancelledIsStopped ==
  hash.status = "cancelled" => ~(worker.pc \in Carrying /\ worker.rid = hash.rid)

\* Until a handler writes over a state it had not seen, a run does what its request
\* asked for, however the commands of handlers and worker interleave: no dry run writes,
\* no counters of another run stand under its status, and a cancelled job does not run.
RunsAsAsked == crossed \/ (DryRunWritesNothing /\ CountersOwn /\ CancelledIsStopped)

\* A queued request does not stay queued, and a run that started ends, whatever
\* crashed on the way.
QueuedIsServed == hash.status = "requested" ~> hash.status # "requested"
RunEnds == hash.status = "running" ~> hash.status # "running" \/ Orphaned

\* A run is closed as done only after every batch, and as cancelled only with an
\* admin's cancel seen by it or by a handler that found it still queued.
FinishIsHonest ==
  [][/\ hash'.status = "done" /\ hash.status # "done" => worker.done = Batches
     /\ hash'.status = "cancelled" /\ hash.status # "cancelled" =>
          worker.stop \/ \E a \in Admins : admin[a].pc = "sawRequested"]_vars
==============================================================================
