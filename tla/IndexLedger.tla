----------------------------- MODULE IndexLedger -----------------------------
(***************************************************************************)
(* What the index promises about a source channel, without walkers,        *)
(* dispatcher, batches or crashes: a row with a checkpoint, and the set of *)
(* messages the system has dealt with.  The checkpoint may pass a file     *)
(* message only once that message was handled.  IndexJobs implements it.   *)
(***************************************************************************)
EXTENDS Integers

CONSTANTS Channels, MaxMsg, FileIds

VARIABLES
  row,      \* the channel's index_progress row
  handled,  \* messages indexed, or tried and given up on, since the last wipe
  void      \* channels a wipe overtook in mid-walk: nothing is promised there

vars == <<row, handled, void>>

MsgIds == 1..MaxMsg
Absent == [status |-> "absent", target |-> 0, last |-> 0]
Upto(n) == FileIds \cap (1..n)

Init ==
  /\ row = [c \in Channels |-> Absent]
  /\ handled = [c \in Channels |-> {}]
  /\ void = {}

\* An admin asks for the history up to t: the checkpoint survives, the target
\* never sinks.
Request(c, t) ==
  /\ row' = [row EXCEPT ![c] = [status |-> "running",
                                target |-> IF t > @.target THEN t ELSE @.target,
                                last   |-> @.last]]
  /\ UNCHANGED <<handled, void>>

Handle(c, ids) ==
  /\ handled' = [handled EXCEPT ![c] = @ \cup ids]
  /\ UNCHANGED <<row, void>>

\* The checkpoint moves forward, over handled messages only.
Advance(c, n) ==
  /\ row[c].status = "running"
  /\ n > row[c].last
  /\ c \notin void => n <= row[c].target /\ Upto(n) \subseteq handled[c]
  /\ row' = [row EXCEPT ![c].last = n]
  /\ UNCHANGED <<handled, void>>

Settle(c, status) ==
  /\ row[c].status = "running"
  /\ row' = [row EXCEPT ![c].status = status]
  /\ UNCHANGED <<handled, void>>

Clear(overtaken) ==
  /\ row' = [c \in Channels |-> Absent]
  /\ handled' = [c \in Channels |-> {}]
  /\ void' = overtaken

\* The overtaken walk is gone and left nothing behind.
Restore(cs) ==
  /\ \A c \in cs : Upto(row[c].last) \subseteq handled[c]
  /\ void' = void \ cs
  /\ UNCHANGED <<row, handled>>

Next ==
  \/ \E c \in Channels, t \in MsgIds : Request(c, t)
  \/ \E c \in Channels, ids \in SUBSET MsgIds : Handle(c, ids)
  \/ \E c \in Channels, n \in MsgIds : Advance(c, n)
  \/ \E c \in Channels, status \in {"completed", "errored"} : Settle(c, status)
  \/ \E overtaken \in SUBSET Channels : Clear(overtaken)
  \/ \E cs \in SUBSET Channels : Restore(cs)

Spec == Init /\ [][Next]_vars
==============================================================================
