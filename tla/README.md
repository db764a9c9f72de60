# Verification of the filter bot

TLA+ models of the bot and worker in this repository, checked with TLC and, where
marked, proved with TLAPS. Paths are relative to the repository's root.

## 1. The system

Two processes share Postgres and Redis. The **bot** (`bot/`) answers users and
admins on Telegram; the **worker** (`worker/`) indexes source channels and runs the
long jobs. Both are asyncio programs: a handler or task runs alone until it awaits,
and then anything else may run. They never call each other: an admin's command
becomes a row in Postgres or a hash in Redis, and the worker polls.

| Component | State | Operations | What is hard |
|---|---|---|---|
| Backfill and dispatch: `worker/backfill.py`, `worker/main.py`, `shared/db/repos/progress.py` | `index_progress` rows; task handles | create job, poll, walk a batch, checkpoint, complete, give up | row read in one transaction and written in another; restarts in mid-batch; tasks that die |
| Live indexing: `worker/live.py`, `worker/indexer.py` | `files` | new post | races with the walker and with `/clear_index` |
| Wipe: `shared/db/repos/stats.py` | everything but users | `/clear_index` | walkers are not told |
| Re-parse: `shared/reparse_state.py`, `worker/reparse.py` | one Redis hash | request, cancel, claim, publish, finish | several Redis commands per operation; state outlives both processes |
| Access gate: `bot/gate.py`, `bot/access.py`, `shared/db/repos/users.py` | `users.access_until`, `verify:*` tokens | tap, mint, shorten, redeem, grant, revoke | racing taps, forwarded links, lost updates, faults between DEL and commit |
| Catalogue: `worker/resolver.py`, `repos/titles.py`, `repos/files.py` | `titles`, `files` | resolve, create, insert, orphan sweep | SELECT then DELETE with a cascade against concurrent inserts |
| Enrichment: `worker/enrich.py`, `repos/posters.py` | `titles.enrich_status`, `posters` | take pending, fetch, store | requests that fail; titles deleted or marked again meanwhile |
| Bans: `bot/guards.py`, `bot/handlers/moderation.py` | `users.banned`, Redis set | ban, unban, rebuild, check | the mirror is written after the commit, and rebuilt from an older read |
| Settings and filters: `shared/settings_store.py`, `bot/handlers/group_filters.py` | table rows, Redis copies | get, set, clear; add, stop, match | a stale fill after an invalidation; a cap checked on a copy |
| Delivery and expiry: `bot/delivery.py`, `bot/ephemeral.py` | messages, sorted sets | send, schedule, sweep | crash between send and schedule, or delete and ZREM |
| Rate governor: `shared/ratelimit.py` | two token buckets | take, wait, fail open | callers' clocks arrive out of order; bypasses |
| Groups: `bot/handlers/groups.py`, `repos/groups.py` | `groups`, a claim per day | record, join, leave | the claim is set before the write |
| Search: `shared/search/`, `bot/handlers/search.py`, `callbacks.py`, `bot/ui.py` | cached lists, last queries, cards in chats | query, refine, page, filter | lists that expire or change under a card; buttons drawn earlier than they are tapped |
| Observability: `shared/alerts.py`, `watchdog.py`, `logchannel.py`, `demand.py` | claims in Redis, a bounded queue | alert, log, count | claims, drops, edges |
| Parsing, NLU, wording, configuration | none | pure functions | - |

What makes each correct: a checkpoint never passes a message nobody looked at, and
jobs end; a re-parse that was requested is run, once, in the mode that was asked
for; a verification link pays once and to its owner, and the gate fails closed; a
file stands under a title it belongs to, and no sweep takes it away; the mirrors
agree with Postgres, or do so again after a race; a delivered file expires; sends
keep to the two rates; a card shows what its button said.

Anything that can go wrong and that a test would hardly reach is in the `hazards` of
`PROJECT.json`, each at its line, with the property that watches it or the reason
there is none.

## 2. Modules

| Module | Stands for | Checked by |
|---|---|---|
| `IndexLedger` | what the index promises about a channel; abstract | refined in `index_jobs` |
| `IndexJobs` | jobs, dispatcher, walkers, live handler, wipe | `index_*` |
| `ReparseJob` | the re-parse hash, handlers, dispatcher, run | `reparse_*` |
| `AccessGate` | gate, tokens, grants | `access*` |
| `BanMirror`, `SettingsCache`, `GroupFilters` | what Redis copies from Postgres | composed in `Mirrors`, `mirrors` |
| `Governor`, `Expiry`, `Enrichment` | what goes out and comes back | composed in `Outbound`, `outbound` |
| `Catalogue`, `Search` | files under titles, and the search for them | composed in `Library`, `catalogue*` |
| `IndexJobs_proofs`, `ReparseJob_proofs`, `AccessGate_proofs`, `Catalogue_proofs`, `Expiry_proofs` | proofs about one component | TLAPS |
| `Mirrors_proofs`, `Outbound_proofs`, `Library_proofs` | proofs about the other components and about the compositions | TLAPS |

In all of them a step is what the code does between two awaits that other actors can
observe: one transaction or SQL statement, one Redis command or pipeline, one
Telegram or HTTP answer. An operator `Slip_X` next to `X` is a plausible bug in X;
each checked property is known to fail with one of them put in X's place.

`Mirrors`, `Outbound` and `Library` put components side by side that share no state,
so that one run checks all of them: `part` is chosen at the start and names the one
that moves; the others stand still. Interleaving them would multiply the states and
add no behaviour. In `Library` and `Outbound`, `part` also chooses an instance of
the component, that is, a subset of its initial states and inputs (which users type,
how many indexers run); these restrictions are written there, and the component
modules, which the proofs are about, have none of them.

### IndexJobs

`job[c]` is the `index_progress` row of channel c (status, target, last), `files[c]`
the message ids with a row in `files`, `walker[c]` the backfill task with its locals
(window, snapshot of the target, consecutive errors), `listed` the rows the
dispatcher has read and not yet looked at, `inbox[c]` the live updates whose handler
has not finished. Two ghosts record history for the properties: `passed[c]`, the
messages a walk met and could not index (Telegram said empty, or indexing raised and
the loop went on), and `stale`, the rows written from a snapshot older than a wipe.

A walker cycles through `read` (ReadJob: the top of the loop), `fetch` (FetchOk,
FetchEmpty, FetchError, FloodWait), `index` (one message, one transaction each),
`ckpt`; or ends through `complete` or `fail` and `report`. `SetStatus` and
`Checkpoint` are UPDATEs by channel id and hit whatever row is there now: this is
where the two index findings come from. The live handler's source check and its
insert are one step (LiveIndex). A wipe between the two can only add a file row,
which no property is about. Pacing, progress messages and the status `paused`, which
nothing sets, are left out.

### ReparseJob

`hash` is the Redis hash, `admin[a]` a handler between two of its commands, `worker`
the dispatcher together with the run it awaits inline. request() is three commands
(HGET, DEL, HSET), cancel() two, claim() two (the Lua compare-and-set and the
HGETALL after it), finish() one. HSET merges fields, DEL drops them; `rid` and
`shown` are ghosts that say which request a status and the displayed counters belong
to, `saw` is the state a handler last read or left behind, and `crossed` remembers
that one wrote over a state it had not seen. A batch commits before the cancel flag is
looked at; a failure to publish progress is swallowed; an exception out of the run is
caught and closes the job. Which rows a batch changes is left out, whether it may write
is kept.

### AccessGate

`until[u]` is `users.access_until` (0 for NULL), `token[t]` the Redis key of a link
with its owner and expiry, `task[h]` a handler with its locals. Tap ... SendFile is
`gate.blocked` and the delivery behind it; RedeemGet, RedeemDelete are the two
commands of `redeem_token`; GrantRead and GrantWrite the two statements of
`grant_access`, reached from a redeemed link or from /addpremium. `sent` tokens are
those whose card reached a chat; anybody who sees it may open it, so RedeemGet lets
every user try. Handlers die on any fault (HandlerDies) and all of them with the
process (BotCrashes). Ghosts: `paid[t]` (burnt by its owner, grants it led to),
`granted`, `served`. The settings cache in front of `gate_enabled` is modelled
apart, in SettingsCache. A tap with the gate off changes nothing and is left out.

### BanMirror

`banned` is `users.is_banned`, `mirror` and `loaded` the Redis set and the marker
that says it was built, `banTask[h]` a handler between two steps. _apply_ban is
SetBanned (the transaction) and SyncBan; /unbanall is UnbanAll and a rebuild;
refresh_bans is ReadBanned and Rebuild (one MULTI/EXEC); is_banned is CheckLoaded, a
rebuild if need be, and CheckMember. The process starts with its handlers already
serving and a rebuild on its way (bot/main.py:60-67). Faults: Redis loses its data,
a handler dies, the bot restarts. The ghost `raced` holds the users whose change
overlapped another write of the mirror, or died; a write that agrees with Postgres
while nothing else is due takes them out again, so the ghost is no excuse once the
race is over.

### SettingsCache and GroupFilters

`setting` is the table, `copy` the keys in Redis, with the sentinel for a row that
does not exist. get_setting is three steps (GetCopy, SelectRow, FillCopy),
set_setting and clear_setting two (Commit, DropCopy). The commands decide from what
they read: /shortlink on reads token and base through the cache before it commits
the gate; /setshortener writes two settings in a row. Three keys are enough to tell
the ones a command reads together from the one it writes. The ghost `late` holds the
keys an overlapped fill or a dead writer may have left wrong.

GroupFilters is one group: its row, whether the bot is a member, the claim of
touch_group (SET NX EX, then the write), the filters and their cached mapping, of
which /filter checks the cap before its insert. `lateAdds` counts the inserts that
worked on an outdated mapping, `overtaken` says that a removal overlapped a handler
which records the group, was missed or died.

### Governor

`bucket[b]` is the hash of a bucket, `caller[c]` a coroutine in acquire(). A token
is Cost credits, a bucket earns Rate of them per tick: that keeps the script's
fractions in the integers. Every caller reads the clock (`now`) before its call
reaches Redis, so takes arrive out of order. TakePays, TakeWaits and TakeFails are
the three outcomes of the script: paid; told to wait, sleeping unless max_wait is
passed; Redis failing, where the message goes out ungoverned. `disorder` adds up how
far late callers set a bucket's clock back, the only thing that gives credit twice.
The assumption `Rate(b) * KeyTTL >= Limit(b)` is what the script's PEXPIRE is chosen
for; without it an expiring key would refill a bucket early.

### Expiry

`msg`, `notice`, `due`, `owner`: a message in its chat, the warning under a file,
its score in one of the sorted sets, the record of who may tap it. Handlers send,
warn, schedule, record the owner and drop a replaced card, in that order, any call
failing or the bot dying in between. A tap (Tap) is let through by _owns_card first
(OwnsCard): the recorded user, an admin, and everybody when there is no record or its
lookup fails. It then either opens a replacement (TapCard, SendReplacement), whose
owner is whoever tapped, or closes the card (CloseCard); the replacement may fail, and
the old card stays. The sweeper takes a batch of what is due, deletes one message
after the other, rewrites notices and drops the batch's entries at the end; dying
before that, it does all of it again. Telegram may refuse to delete a message for good
(`stuck`), and Redis may lose schedules and owners at any time (ExpRedisFlush).
Ghosts: who opened a message and when, what failures and flushes `left` behind or left
`unowned`.

### Enrichment

`enrich[t]` is enrich_status, `fetch[t]` what the batch in flight knows of title t:
the request it is about to make (with or without the year), or its outcome.
WriteBatch is the one transaction that settles the answered ones; a title that was
deleted is not touched. New titles, /enrichall, deletions, failing requests and lost
batches come from outside. The set `Unanswered` fails every time.

### Catalogue

`titles` are rows, those of open transactions included (`by`), `titleOf` the rows of
`files`, `at[w]` a transaction between two statements. resolve_title is Find (the
exact and the fuzzy lookup, which see committed rows only), Create (INSERT ... ON
CONFLICT DO NOTHING, which waits for an uncommitted row of the same key) and
Refetch, whose assertion fails if the row is gone. Place merges the languages,
inserts or moves the file, and commits; a title deleted meanwhile rolls it back. A
batch of the re-parse is one file. SelectOrphans and DeleteOrphans are the two
statements of the sweep; `present` is the ghost that knows which files were there at
the first. A name stands for canonical title with season; similarity and "a
different thing" are relations on names. Each file speaks its own language, so a
title's languages are a set of files; `outrun` holds those whose merge was lost.

Find is two statements in the code and one step here: a title of the same name that
is committed between the two is the most similar one for the second. The rows an older parser
left are in CatInit: any files under any one title.

### Search

`lists` are the cached result lists by search text, `lastq` the last query of each
user, `asking[h]` a message between two awaits, `card[u]` the card in front of user
u with its buttons, and what a button carries is what its callback data carries:
title, offset, filters, page. Ladder is search_title_ids (containment, and only
without a hit, resemblance); its language filter reads `rowLangs`, the column
titles.languages, which gains the language of every file shelved and loses none while
the row exists.
A tapped suggestion runs the same ladder on the title's canonical name, so titles are
words that can be searched (`Words`), each with hits of its own. Fits is the filter of
variants, ResultsCard and TitleCard are the cards of bot/ui.py. Type and Refine are the two ways into _on_query; Miss is
what follows when nothing is found (the untouched phrase, then suggestions). A tap
re-reads the cached list; when it is gone, or the title is, the bot answers
"expired" and the card stays. Episodes are chosen by index, as in the code; the
ghost `moved` says that the list of episodes changed between drawing and tapping.
AsLabelled asks a card that moved for less, but for something: the resolution and
language it stood for, wherever every episode comes in them.
Files are indexed and re-labelled, titles swept, keys dropped in between. A tap is
one step: nothing of what it reads is written by anybody else but the index.

## 3. Runs

| Run | Shows | Instance |
|---|---|---|
| `index_jobs` | the checkpoint covers what it passed and stays under the target; nothing is rescanned; completion is earned; jobs settle; IndexLedger is implemented | 1 channel, 3 ids of which 2 carry files, batch 2, 2 errors to give up, 1 fault |
| `index_completion` | *violated*: COMPLETED short of the target | 1 channel, 2 ids |
| `index_wipe` | *violated*: a wiped channel is not re-indexed from scratch | 1 channel, 2 ids |
| `reparse_overlap` | two handlers and cancel, all faults: a request is lost only to a handler that acts on a state it read before; until one does, each run is the one asked for, in its mode, with its own counters, and a cancelled job has none; a queued request is served, a run ends, a finish is honest, only Redis faults orphan a run | 2 handlers, 2 requests, 2 batches, 2 crashes, 1 Redis fault |
| `reparse_dry` | *violated*: a dry run writes | 2 handlers, no cancel |
| `access` | a link pays once, to its owner; a burnt link is paid unless something failed; the gate fails closed; a clock goes back only by revocation or overlap | 2 users, 2 handlers, 1 token, 2 grants of 1 or 2, 1 fault, 2 instants |
| `access_extends` | *violated*: a grant cuts another one back | 1 user, 2 handlers, grants of 1 and 3 |
| `mirrors` | the ban mirror is wrong only about users in a race, and lets none through otherwise; a copied setting is stale only after an overlap, and not for ever; the cap is passed only by overlapped inserts; an active group has the bot in it; a group people write in gets recorded | each part 2 handlers and 1 fault: 2 users and 3 commands; 3 settings, 2 commands; 2 keywords, cap 1, 2 commands |
| `outbound` | buckets give away no more than they earn, and the wait they ask for is long enough; only failures leave a message behind; notices tell the truth; only its owner drives a card, but for the exceptions it lists; what is due is removed; pending titles settle | 2 callers, 2 buckets, 3 instants; 2 users, one an admin: 2 cards with 1 handler, or 1 card with 2; or 1 card and 1 file with 2 handlers and 1 user; sweeps of 1, 1 fault, 3 instants; 3 titles in batches of 2, 1 of them failing every time, 2 commands, 1 fault |
| `catalogue` | files are under titles they belong to; languages are covered; a sweep spares what it saw; a refinement narrows the user's own search; a card shows what its button said | 3 names of which one is close to both others, 2 years, 3 titles, 1 fault: 2 indexers with 2 files, 1 and a re-parse with 2 files, 2 and a re-parse with 1 file, or 2 with 3 files of one title. Then 2 users, 2 phrases, 3 files, pages of 1, 2 modifiers; or 1 user tapping through cards while 1 file is re-labelled |
| `catalogue_sweep` | *violated*: a re-parse deletes a file | as `catalogue` |
| `catalogue_refetch` | *violated*: a conflict implies that the row exists | as `catalogue` |

The violated runs are disagreements between the code and what it says about itself;
`findings` quotes both sides. Each finding keeps a weaker property beside it that
does hold (CompletionEarned next to CompletedReachesTarget, CutBackOnlyByOverlap
next to GrantExtends, SweepSpares next to NoFileDeleted, and so on), so the passing
runs say how far the damage goes.

**Why the bounds are enough.** The races found and excluded involve two actors and
one resource: one walker and one admin, two handlers and one hash, two handlers and
one clock, two transactions and one title, a handler and a rebuild. Three message
ids with a batch of two give a full batch, a short last batch, an id with no file,
and targets inside and at the end of a batch. Two requests are enough for one to stand
in the way of the other: a handler that waits goes stale over the first and hits the
second. Two batches give a cancel before,
between and after the work. In `mirrors` the third ban command lets a change repair
what two others raced over, and a cap of 1 with two keywords is already exceeded by
two inserts. In `outbound` the global bucket starts with a token and a credit and
earns two of three credits a tick, so waits are rounded and differ between the two
buckets; a batch of one makes every second due message wait for another sweep; a
batch of two titles of which one always fails leaves one place for the others. In
`catalogue` the name close to both others gives the exact, the fuzzy and the refused
lookup, two years and none give every case of YearFits, and three languages of one
title are what two lost merges need. Three ids leave room for titles created after
another one has been swept. In its searches a page of one splits the smallest list.
One fault can fall on every step; the proofs remove the bounds for the safety
properties they cover. The years are symmetric: nothing but equality is asked of
them.

**Deadlock** is checked for the index. The other runs say `CHECK_DEADLOCK FALSE`:
once the bounds on commands, grants, faults and time are used up there is nothing
left to do.

**Fairness.** WF on the dispatcher's poll and on each task's own steps: the event
loop runs every ready coroutine, the poll loops never exit (every exception is
caught and the loop sleeps and goes on), and Telegram calls and transactions return
or raise. No admin, user, poster, cancel or fault is fair. In IndexJobs a FloodWait
sends a walker back without counting as an error, so an unbounded stream of them
would stall a job for ever; the bound on faults is what RunningSettles assumes.
RunEnds allows a run to stay RUNNING when a Redis failure hit its finish: nothing
but the next worker start repairs that, and OrphanedOnlyByRedis says that nothing
else causes it. In Mirrors a handler that has begun is fair, and so are the TTLs of
a setting's copy and of the claim: Redis drops a key whose time has passed.
GroupGetsRecorded assumes in its own text that people keep writing. The ban mirror
has no TTL and no liveness: nothing repairs it but a later write. In Outbound the
sweeper and the poster loop are fair, for they survive every exception and are
started again with their process; PendingSettles holds as long as fewer titles than
a batch holds fail every time (`EnrichmentAssumption`). `catalogue` needs none.

**What the code says and a run of its own does not show.** cancel()
reads REQUESTED, the worker claims, and cancel() then writes CANCELLED over RUNNING
(shared/reparse_state.py:137-143): the job reads as cancelled while its run goes on, the
next /reparse is accepted, and the first run's finish may close the new request before
anybody has claimed it. RunsAsAsked and NoRequestLost make exactly this exception, and
without it each of their parts is violated in `reparse_overlap`. An admin who taps
somebody's card that has to be sent anew becomes the recorded owner of the new one, so
that its user can no longer drive it; bot/handlers/callbacks.py:39-40 says that whoever
navigated there "is by definition the card's owner". A second resolution in a refinement is
ignored, the parser keeping the first ("resolution or label",
shared/parsing/filename.py:330); NarrowsLast leaves that case out. A tapped
suggestion does not become the last query (bot/handlers/callbacks.py:82-116), so a
modifier typed after it refines an older search. Episode chips carry an index into a
list that may have changed. A first page whose titles all lack the wanted resolution
counts as "nothing found" although later pages have some
(shared/search/service.py:197-213). `python -m worker.enrich_all` opens a
transaction on a session that has begun one by its first query
(worker/enrich_all.py:34-42), which SQLAlchemy refuses; /enrichall in the bot does
not share the fault, and Enrichment models that one.

## 4. Proofs

Every invariant and every action property that a passing run checks is also a
theorem, for all values of the constants, from the assumptions named in the modules.
These are types, non-emptiness and distinctness, and in `GovernorAssumption` also
that a bucket can hold a token and would be full again before its key expires. Each
component has the same shape: an inductive invariant (`IInv`, or with the
component's prefix `BanIInv`, `CatIInv`, ...), one lemma per action or group of
actions that it is kept, `Inductive`, and the theorems as corollaries.

*IndexJobs.* CheckpointCovered is not inductive: a walker about to write its
checkpoint must already have covered its window. The invariant has five parts:
RowInv (the row's numbers and what it covers), BatchInv (the window of a walker in
hand), WalkInv (what that walker has dealt with so far), CrossedInv (a walker a wipe
overtook and the rows it may spoil), LedgerInv (a void channel is one the ghosts
name). TypeOK, CheckpointCovered, CheckpointWithinTarget, NeverRescans and
CompletionEarned follow, and so does the refinement ImplementsLedger: every step is
a step of IndexLedger or a stutter.

*ReparseJob.* DoneIsAll (past the last batch, a run that was not stopped has done
all of them) carries FinishIsHonest; OrphanedOnlyByRedis is inductive with the
types. HandlerSaw says what a handler between two commands has read, OwnNumber that a
queued request has a number no run carries. Orderly is what holds until a handler
writes over a state it had not seen: a worker with a request is the one the hash tells
of and runs in the hash's mode (WorkerOwns), what is queued or running is what was
asked for (HashIsAsked), an empty hash shows nothing, and RunsAsAsked. A handler whose
view is fresh preserves it (AdminOrder), for its view tells it that nobody is at work.
NoRequestLost follows from all three, for any number of handlers, cancel included:
what takes a request away goes by another state than the one it would have to have
seen. TurnsNeverCross adds that the exception is empty for handlers that take turns and
do not cancel.

*AccessGate.* Links says what a handler may rely on between its awaits: it holds a
token (HoldsToken), it alone owes the grant for a burnt one (OwesAlone), a burnt
token is gone (BurntIsGone), only granted users have a clock or are past the check
(WoundIsGranted), and a computed expiry is not before the one read (WritesAhead).
TokenHonoured, BurntIsPaid and NoFreeFile are inductive with it;
CutBackOnlyByOverlap follows from WritesAhead.

*BanMirror.* MirrorAgreesUnlessRaced needs to know what is about to be written: what
a rebuild has read, and what a handler is about to sync, is what Postgres says of
anybody not in a race (SeenIsTrue, WantIsTrue); a handler that has cleared bans is
on its way to a rebuild (ClearedHeld); the mirror is asked only when it was built or
flushed since (MemberBuilt). BannedStayOut follows from the last and the mirror's
agreement.

*SettingsCache.* FillIsTrue: a handler about to fill the copy holds the row's value,
unless a commit crossed it. With CarriesOwn, for the types, StaleOnlyByOverlap is
inductive.

*GroupFilters.* CapExceededOnlyByOverlap counts: one insert adds one row, and either
the mapping it was checked against is still the group's, then there was room for it
(AskedForRoom), or the ghost counts it, too; an insert that replaces a filter adds
none. ActiveMeansMember needs OutIsQuiet: once the bot is out of the group, no
handler is left that marks it active, unless the removal overtook one.

*Governor.* SpendBounded is inductive with the types, from a lemma about one run of
the script (ChargeBounded): what a bucket gains is at most its rate times the time
that passed, or was set back. WaitSuffices rests on Funded: from its waking time on,
the buckets of a caller nobody disturbed hold a token, which is the arithmetic of
the ceiling (CeilDiv, BucketWaitMeaning) and of the larger of two waits.

*Expiry.* Links says what each actor relies on: a handler's message has been sent
and is its own user's (HandHolds), entries are not due before their time (Timely),
what the sweeper has dealt with is over its time and gone or left (SweepHolds), an
owner's record outlives the card unless it is one of `unowned` (OwnerKept).
LeftOnlyByFault and NoticeTellsTruth are inductive with it. OnlyOwnerDrives is an
action property: a handler that begins to drive a card has just passed OwnsCard, and
OwnerKept says whom the record names (TapsOnly).

*Catalogue.* Rowwise: ids are given out in order and never again, files are under
committed rows, placed files belong, and a transaction about to place its file aims
at a title that belongs or is gone (AimsRight). This is why a title swept and one
created meanwhile cannot be confused. Runwise follows the re-parse: what it has
visited is placed, after a whole walk that is everything (WholePlaced), and the
files present at the selection are under none of the orphans (PresentKept), from
which SweepSpares follows.

*Search.* AsLabelled is about what a card shows now, and rests on what the cards
before it offered: ButtonsMean says that every button of every card on display means
what its data says, episodes being named by an index into that card's list. That an
index names one episode is NthNames (the number of smaller episodes tells two of
them apart); that a drawn card has such buttons and lists what fits, whatever page
and filters it was drawn for, is TitleCardHolds. A tap on a title card whose episodes
are still those of the drawing then shows what the button stood for. NarrowsLast
follows the text instead: the last query on record is what the user typed last
(LastIsTyped), a refinement on its way is that query and one modifier more, until
its sender is answered something else (AsksHold), whatever is listed fits the text
(ResultsCardHolds), and a text narrowed by a modifier of a kind it had not named asks
for that modifier and for all it asked before (NarrowedAsks).

*Enrichment* has no safety property beyond its types (EnrTypeCorrect).

*Compositions.* `Mirrors`, `Outbound` and `Library` are their parts' steps with
restrictions on initial states and inputs. MirrorsImplementsParts,
OutboundImplementsParts and LibraryImplementsParts prove that: every behaviour of the
composition is one of each part's own specification. So what is proved of a part
holds in the composition (MirrorsSafe, OutboundSafe, LibrarySafe), and the instances
the runs choose restrict the checking, never the proofs.

*What the proofs changed.* `SearchAssumption` had left open that Any might be a
modifier or a number, and that the bounds are numbers; without that neither a filter
that is lifted nor an episode's index has a meaning of its own. The code has None for
Any. The type of the cached lists reads `(SUBSET Shows) \ {{}}` with its parentheses
now: without them TLC and the prover group it differently, and only one of the two
readings says that no empty list is cached.

*Only model-checked:* the liveness properties RunningSettles, QueuedIsServed,
RunEnds, CopiesConverge, GroupGetsRecorded, DueIsRemoved and PendingSettles, for
liveness under fairness is beyond the prover.

## 5. Plan

What is left, in order of importance: safety lemmas behind the liveness properties
(what each step leaves enabled, what decreases); that the exceptions the ghosts
`raced`, `late`, `overtaken` and `outrun` make are no wider than they need to be,
which is that they hold nothing as long as no two actors overlap; the season switcher
of a title card, which takes sibling titles of the same page; the gate composed with
the cache in front of its switch; the posters table.

## 6. Not modelled

The regular expressions of file name parsing and query understanding, and wording
and layout, are text functions with unit tests; what the models take from them are
names, years, resolutions, languages and episodes. Ranking is SQL over similarities;
the models take any order. The season switcher uses the same callback as a result's
button and adds no state. Posters are one UPSERT per title and are only shown.
Alerts, the watchdog, the log queue, the demand counters, health and fun mode are
counters or bounded queues in one place, on which nothing else relies. Migrations,
scripts and configuration have no behaviour of their own. Telegram, Postgres and
Redis are modelled by how the code uses them: an update delivered at most once,
committed statements that are atomic and isolated as in READ COMMITTED, commands
that are atomic.
