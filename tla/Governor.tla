------------------------------ MODULE Governor ------------------------------
(***************************************************************************)
(* The outbound rate governor (shared/ratelimit.py): token buckets in      *)
(* Redis, taken from by a Lua script to which every caller, in either      *)
(* process, brings its own clock.                                          *)
(*                                                                         *)
(* Fractions of a token are counted in credits: a send costs Cost of them, *)
(* a bucket b earns Rate(b) per tick and holds at most Limit(b).           *)
(***************************************************************************)
EXTENDS Integers, FiniteSetsExt

CONSTANTS
  Global,     \* rl:global
  Chats,      \* chats with a bucket rl:chat:<id> each
  Callers,    \* coroutines in acquire() at once
  Cost,
  GlobalRate, GlobalLimit, ChatRate, ChatLimit,
  KeyTTL,     \* PEXPIRE
  MaxWait,    \* max_wait
  Jitter,     \* random.uniform(0, 0.05), in ticks
  Until       \* bound on time

Buckets == {Global} \cup Chats
Rate(b) == IF b = Global THEN GlobalRate ELSE ChatRate
Limit(b) == IF b = Global THEN GlobalLimit ELSE ChatLimit

ASSUME GovernorAssumption ==
  /\ Global \notin Chats
  /\ Cost \in Nat \ {0}
  /\ {GlobalRate, ChatRate} \subseteq Nat \ {0}
  /\ {GlobalLimit, ChatLimit} \subseteq Nat
  /\ KeyTTL \in Nat \ {0} /\ MaxWait \in Nat /\ Until \in Nat
  /\ Jitter \subseteq Nat
  \* By the time an idle key expires its bucket would have been full again.
  /\ \A b \in Buckets : Limit(b) >= Cost /\ Rate(b) * KeyTTL >= Limit(b)

VARIABLES
  wall,      \* the real time
  bucket,    \* the hash of each bucket; a key that expired keeps its last values
  caller,    \* each coroutine: where it awaits, and its locals
  \* Ghosts.
  spent,     \* credits taken out of each bucket
  disorder   \* how far behind the bucket the clocks of its callers were, in all

govVars == <<wall, bucket, caller, spent, disorder>>

BucketRecords == [live : BOOLEAN, tokens : Nat, ts : Nat, touched : Nat]

\* alone is a ghost: nobody has touched its buckets since the caller was told to wait.
CallerRecords == [pc : {"idle", "take", "sleep"}, used : SUBSET Buckets,
                  now : Nat, waited : Nat, wake : Nat, alone : BOOLEAN]

CallerIdle == [pc |-> "idle", used |-> {}, now |-> 0, waited |-> 0, wake |-> 0,
               alone |-> FALSE]

GovTypeOK ==
  /\ wall \in 0..Until
  /\ bucket \in [Buckets -> BucketRecords]
  /\ \A b \in Buckets : bucket[b].tokens <= Limit(b)
  /\ caller \in [Callers -> CallerRecords]
  /\ spent \in [Buckets -> Nat] /\ disorder \in [Buckets -> Nat]

GovInit ==
  /\ wall = 0
  /\ bucket = [b \in Buckets |-> [live |-> FALSE, tokens |-> Limit(b), ts |-> 0, touched |-> 0]]
  /\ caller = [c \in Callers |-> CallerIdle]
  /\ spent = [b \in Buckets |-> 0]
  /\ disorder = [b \in Buckets |-> 0]

------------------------------------------------------------------------------
(* The script.                                                             *)

AtLeastZero(n) == IF n < 0 THEN 0 ELSE n
Lower(m, n) == IF m < n THEN m ELSE n

Slip_Refill(b, now) ==  \* credits a clock that runs backwards
  IF ~bucket[b].live THEN Limit(b)
  ELSE Lower(Limit(b), bucket[b].tokens +
         Rate(b) * (IF now < bucket[b].ts THEN bucket[b].ts - now ELSE now - bucket[b].ts))

Refill(b, now) ==
  IF ~bucket[b].live THEN Limit(b)
  ELSE Lower(Limit(b), bucket[b].tokens + Rate(b) * AtLeastZero(now - bucket[b].ts))

\* math.ceil((1 - tokens) * 1000 / rate), or nothing when the bucket can pay.
BucketWait(b, credit) == (AtLeastZero(Cost - credit) + Rate(b) - 1) \div Rate(b)

Slip_ScriptWait(used, now) ==  \* the shorter of the two waits
  Min({BucketWait(b, Refill(b, now)) : b \in used})

ScriptWait(used, now) == Max({BucketWait(b, Refill(b, now)) : b \in used})

\* Where the caller's clock should at least be.
Expected(b) ==
  IF bucket[b].live THEN bucket[b].ts
  ELSE IF spent[b] = 0 THEN 0 ELSE bucket[b].ts + KeyTTL

\* The script's effect on bucket b: refilled, paid for if every bucket can pay, and
\* set to the caller's clock either way.
Charge(used, now, pay) ==
  /\ bucket' = [b \in Buckets |-> IF b \notin used THEN bucket[b] ELSE
       [live |-> TRUE, tokens |-> Refill(b, now) - pay, ts |-> now, touched |-> wall]]
  /\ spent' = [b \in Buckets |-> IF b \in used THEN spent[b] + pay ELSE spent[b]]
  /\ disorder' = [b \in Buckets |-> IF b \in used
       THEN disorder[b] + AtLeastZero(Expected(b) - now) ELSE disorder[b]]

\* The others can no longer count on the credit they saw.
Disturb(c, rec) ==
  caller' = [k \in Callers |->
    IF k = c THEN rec
    ELSE [caller[k] EXCEPT !.alone = @ /\ caller[k].used \cap caller[c].used = {}]]

------------------------------------------------------------------------------
(* acquire().                                                              *)

\* A governed method is called, with a chat or without one.
Acquire(c, used) ==
  /\ caller[c].pc = "idle"
  /\ caller' = [caller EXCEPT ![c] = [CallerIdle EXCEPT !.pc = "take", !.used = used, !.now = wall]]
  /\ UNCHANGED <<wall, bucket, spent, disorder>>

\* Both buckets pay, and the message goes out.
TakePays(c) ==
  /\ caller[c].pc = "take"
  /\ LET t == caller[c] IN
       /\ ScriptWait(t.used, t.now) = 0
       /\ Charge(t.used, t.now, Cost)
       /\ Disturb(c, CallerIdle)
  /\ UNCHANGED wall

\* Too early: sleep the wait and the jitter; past max_wait the message goes out all
\* the same.
TakeWaits(c) ==
  /\ caller[c].pc = "take"
  /\ LET t == caller[c]
         wait == ScriptWait(t.used, t.now)
     IN /\ wait > 0
        /\ Charge(t.used, t.now, 0)
        /\ \E jitter \in Jitter :
             LET waited == t.waited + wait + jitter IN
               Disturb(c, IF waited > MaxWait THEN CallerIdle
                          ELSE [t EXCEPT !.pc = "sleep", !.waited = waited, !.alone = TRUE,
                                         !.wake = wall + wait + jitter])
  /\ UNCHANGED wall

\* Redis fails: the message goes out ungoverned.
TakeFails(c) ==
  /\ caller[c].pc = "take"
  /\ caller' = [caller EXCEPT ![c] = CallerIdle]
  /\ UNCHANGED <<wall, bucket, spent, disorder>>

Slip_Retry(c) ==  \* asks again with the clock of the first call
  /\ caller[c].pc = "sleep"
  /\ wall >= caller[c].wake
  /\ caller' = [caller EXCEPT ![c].pc = "take"]
  /\ UNCHANGED <<wall, bucket, spent, disorder>>

\* The sleep is over; the clock is read again before the script is called.
Retry(c) ==
  /\ caller[c].pc = "sleep"
  /\ wall >= caller[c].wake
  /\ caller' = [caller EXCEPT ![c].pc = "take", ![c].now = wall]
  /\ UNCHANGED <<wall, bucket, spent, disorder>>

BucketExpires(b) ==
  /\ bucket[b].live
  /\ wall >= bucket[b].touched + KeyTTL
  /\ bucket' = [bucket EXCEPT ![b].live = FALSE]
  /\ UNCHANGED <<wall, caller, spent, disorder>>

GovTick ==
  /\ wall < Until
  /\ wall' = wall + 1
  /\ UNCHANGED <<bucket, caller, spent, disorder>>

GovNext ==
  \/ \E c \in Callers :
       \/ TakePays(c) \/ TakeWaits(c) \/ TakeFails(c) \/ Retry(c)
       \/ Acquire(c, {Global})
       \/ \E chat \in Chats : Acquire(c, {Global, chat})
  \/ \E b \in Buckets : BucketExpires(b)
  \/ GovTick

GovSpec == GovInit /\ [][GovNext]_govVars

------------------------------------------------------------------------------
(* Properties.                                                             *)

\* What was taken from a bucket and what is left never exceed its limit and what it
\* has earned on its callers' clocks, counting again only the time by which late
\* callers set the bucket back: expiry of the key, caps and refusals give nothing away.
SpendBounded ==
  \A b \in Buckets :
    spent[b] + bucket[b].tokens <= Limit(b) + Rate(b) * (bucket[b].ts + disorder[b])

\* A caller that slept as long as it was told, and whose buckets nobody touched
\* meanwhile, is served when it asks again: the wait is never too short, whichever
\* bucket it came from.
WaitSuffices ==
  \A c \in Callers :
    (caller[c].pc = "take" /\ caller[c].alone) => ScriptWait(caller[c].used, caller[c].now) = 0

==============================================================================
