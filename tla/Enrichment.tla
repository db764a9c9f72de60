----------------------------- MODULE Enrichment -----------------------------
(***************************************************************************)
(* Posters: the background sweep that asks TMDB about every title marked   *)
(* pending (worker/enrich.py, enrich_dispatcher in worker/main.py), while  *)
(* titles come, go and are marked again.  A step is one HTTP request or    *)
(* one transaction.                                                        *)
(***************************************************************************)
EXTENDS Naturals, FiniteSets

CONSTANTS
  EnrIds,       \* titles, the lower the older
  Undated,      \* those without a year
  Unanswered,   \* those whose request fails every time
  EnrBatch,     \* enrich_batch_size
  MaxEnrOps,    \* bound on deletions and /enrichall
  MaxEnrFaults  \* bound on other failing requests and on restarts

ASSUME EnrichmentAssumption ==
  /\ EnrIds \subseteq Nat /\ IsFiniteSet(EnrIds)
  /\ Undated \subseteq EnrIds /\ Unanswered \subseteq EnrIds
  /\ EnrBatch \in Nat /\ Cardinality(Unanswered) < EnrBatch
  /\ MaxEnrOps \in Nat /\ MaxEnrFaults \in Nat

VARIABLES
  enrich,    \* enrich_status of each title; absent: not yet there
  fetch,     \* what the batch in flight knows of each of its titles; out: not in it
  enrOps, enrFaults

enrVars == <<enrich, fetch, enrOps, enrFaults>>

Outcomes == {"done", "nomatch"}
EnrStatuses == {"absent", "deleted", "pending", "skip"} \cup Outcomes

\* dated, undated: the request about to be made.
Fetches == {"out", "dated", "undated", "error"} \cup Outcomes

EnrTypeOK ==
  /\ enrich \in [EnrIds -> EnrStatuses]
  /\ fetch \in [EnrIds -> Fetches]
  /\ enrOps \in 0..MaxEnrOps /\ enrFaults \in 0..MaxEnrFaults

NoBatch == [t \in EnrIds |-> "out"]

\* What migration 0006 found it marked "skip".
EnrInit ==
  /\ enrich \in [EnrIds -> {"absent", "skip"}]
  /\ \A t, k \in EnrIds : (t < k /\ enrich[k] = "skip") => enrich[t] = "skip"
  /\ fetch = NoBatch
  /\ enrOps = 0 /\ enrFaults = 0

------------------------------------------------------------------------------
(* run_batch.                                                              *)

Pending == {t \in EnrIds : enrich[t] = "pending"}

\* The oldest of q, a batch at most.
Oldest(q) == {t \in q : Cardinality({k \in q : k <= t}) <= EnrBatch}

ListPending ==
  /\ fetch = NoBatch
  /\ Pending # {}
  /\ fetch' = [t \in EnrIds |-> IF t \notin Oldest(Pending) THEN "out"
                               ELSE IF t \in Undated THEN "undated" ELSE "dated"]
  /\ UNCHANGED <<enrich, enrOps, enrFaults>>

\* _search_once and what search and decide make of its answer: the first hit is taken
\* or refused; without any a dated request is repeated without the year.
Answered(t) ==
  {"done", "nomatch"} \cup (IF fetch[t] = "dated" THEN {"undated"} ELSE {})

Ask(t) ==
  /\ fetch[t] \in {"dated", "undated"} /\ t \notin Unanswered
  /\ \E a \in Answered(t) : fetch' = [fetch EXCEPT ![t] = a]
  /\ UNCHANGED <<enrich, enrOps, enrFaults>>

AskFails(t) ==
  /\ fetch[t] \in {"dated", "undated"}
  /\ \/ t \in Unanswered /\ UNCHANGED enrFaults
     \/ enrFaults < MaxEnrFaults /\ enrFaults' = enrFaults + 1
  /\ fetch' = [fetch EXCEPT ![t] = "error"]
  /\ UNCHANGED <<enrich, enrOps>>

Gathered == fetch # NoBatch /\ \A t \in EnrIds : fetch[t] \notin {"dated", "undated"}

Slip_WriteBatch ==  \* one failing request aborts the batch
  /\ Gathered
  /\ enrich' = IF \E t \in EnrIds : fetch[t] = "error" THEN enrich
               ELSE [t \in EnrIds |-> IF fetch[t] \in Outcomes /\ enrich[t] # "deleted"
                                      THEN fetch[t] ELSE enrich[t]]
  /\ fetch' = NoBatch
  /\ UNCHANGED <<enrOps, enrFaults>>

\* One transaction for all that were answered; an UPDATE does nothing to a title that
\* was deleted meanwhile.  When every request failed nothing is written either way.
WriteBatch ==
  /\ Gathered
  /\ enrich' = [t \in EnrIds |-> IF fetch[t] \in Outcomes /\ enrich[t] # "deleted"
                                 THEN fetch[t] ELSE enrich[t]]
  /\ fetch' = NoBatch
  /\ UNCHANGED <<enrOps, enrFaults>>

\* Postgres fails the transaction, or the worker is restarted.
BatchLost ==
  /\ fetch # NoBatch
  /\ enrFaults < MaxEnrFaults
  /\ fetch' = NoBatch
  /\ enrFaults' = enrFaults + 1
  /\ UNCHANGED <<enrich, enrOps>>

------------------------------------------------------------------------------
(* Everybody else.                                                         *)

\* The resolver makes the next title.
NewTitle(t) ==
  /\ enrich[t] = "absent" /\ \A k \in EnrIds : k < t => enrich[k] # "absent"
  /\ enrich' = [enrich EXCEPT ![t] = "pending"]
  /\ UNCHANGED <<fetch, enrOps, enrFaults>>

\* The orphan sweep or /clear_index deletes titles.
DeleteTitles(gone) ==
  /\ enrOps < MaxEnrOps
  /\ gone # {} /\ \A t \in gone : enrich[t] \notin {"absent", "deleted"}
  /\ enrich' = [t \in EnrIds |-> IF t \in gone THEN "deleted" ELSE enrich[t]]
  /\ enrOps' = enrOps + 1
  /\ UNCHANGED <<fetch, enrFaults>>

\* mark_all_pending.
EnrichAll ==
  /\ enrOps < MaxEnrOps
  /\ enrich' = [t \in EnrIds |-> IF enrich[t] \in {"skip", "nomatch"} THEN "pending" ELSE enrich[t]]
  /\ enrOps' = enrOps + 1
  /\ UNCHANGED <<fetch, enrFaults>>

EnrStep == ListPending \/ WriteBatch \/ \E t \in EnrIds : Ask(t) \/ AskFails(t)

EnrNext ==
  \/ EnrStep \/ BatchLost \/ EnrichAll
  \/ \E t \in EnrIds : NewTitle(t)
  \/ \E gone \in SUBSET EnrIds : DeleteTitles(gone)

EnrSpec == EnrInit /\ [][EnrNext]_enrVars

------------------------------------------------------------------------------
(* Properties.                                                             *)

\* A pending title whose requests can be answered is settled sooner or later, as long
\* as fewer titles than a batch holds fail every time: failing requests, titles that
\* are deleted or marked again, lost batches and restarts do not starve it.
PendingSettles ==
  \A t \in EnrIds \ Unanswered : (enrich[t] = "pending") ~> (enrich[t] # "pending")

==============================================================================
