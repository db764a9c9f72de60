--------------------------- MODULE Outbound_proofs ---------------------------
(***************************************************************************)
(* Proofs about the rate governor, the poster lookups and Outbound, which  *)
(* composes them with the messages of Expiry_proofs.  They hold for any    *)
(* chats, callers, costs, rates, limits, jitters, times, titles and faults.*)
(***************************************************************************)
EXTENDS Outbound, Expiry_proofs

------------------------------------------------------------------------------
(* Governor.                                                               *)

------------------------------------------------------------------------------
(* The inductive invariant.                                                *)

\* The buckets one send is charged to.
Governed == {{Global}} \cup {{Global, chat} : chat \in Chats}

\* A caller in acquire() has buckets to ask, and a clock of the past.
Asking ==
  \A c \in Callers :
    /\ caller[c].pc # "idle" => caller[c].used \in Governed
    /\ caller[c].pc = "idle" => ~caller[c].alone
    /\ caller[c].now <= wall

\* The buckets of a caller that nobody disturbed can pay it from its waking time on.
Funded ==
  \A c \in Callers : caller[c].alone =>
    \A b \in caller[c].used :
      /\ caller[c].pc = "sleep" => \A n \in Nat : n >= caller[c].wake => Refill(b, n) >= Cost
      /\ caller[c].pc = "take" => Refill(b, caller[c].now) >= Cost

GovIInv == GovTypeOK /\ Asking /\ Funded /\ SpendBounded

------------------------------------------------------------------------------
(* Arithmetic.                                                             *)

LEMMA Scale ==
  ASSUME NEW r \in Nat, NEW m \in Int, NEW n \in Int
  PROVE  /\ r * (m + n) = r * m + r * n
         /\ m <= n => r * m <= r * n
         /\ r * m \in Int
  BY SMT

\* ceil(x / r).
LEMMA CeilDiv ==
  ASSUME NEW r \in Nat \ {0}, NEW x \in Nat
  PROVE  /\ (x + r - 1) \div r \in Nat
         /\ r * ((x + r - 1) \div r) >= x
         /\ (x + r - 1) \div r = 0 <=> x = 0
  BY SMT

LEMMA BucketConsts ==
  ASSUME NEW b \in Buckets
  PROVE  /\ Rate(b) \in Nat /\ Rate(b) # 0 /\ Limit(b) \in Nat
         /\ Limit(b) >= Cost /\ Rate(b) * KeyTTL >= Limit(b)
         /\ Cost \in Nat /\ Cost # 0 /\ KeyTTL \in Nat
  BY GovernorAssumption DEF Rate, Limit, Buckets

------------------------------------------------------------------------------
(* What the script computes.                                               *)

LEMMA RefillType ==
  ASSUME GovTypeOK, NEW b \in Buckets, NEW now \in Nat
  PROVE  Refill(b, now) \in Nat /\ Refill(b, now) <= Limit(b)
<1>1. bucket[b].tokens \in Nat /\ bucket[b].ts \in Nat
  BY DEF GovTypeOK, BucketRecords
<1>2. AtLeastZero(now - bucket[b].ts) \in Nat
  BY <1>1 DEF AtLeastZero
<1>3. Rate(b) * AtLeastZero(now - bucket[b].ts) \in Nat
  BY <1>2, BucketConsts
<1> QED  BY <1>1, <1>3, BucketConsts DEF Refill, Lower

\* A later clock never finds less.
LEMMA RefillGrows ==
  ASSUME GovTypeOK, NEW b \in Buckets, NEW m \in Nat, NEW n \in Nat, m <= n
  PROVE  Refill(b, m) <= Refill(b, n)
<1> DEFINE a(k) == AtLeastZero(k - bucket[b].ts)
<1>1. bucket[b].tokens \in Nat /\ bucket[b].ts \in Nat
  BY DEF GovTypeOK, BucketRecords
<1>2. a(m) \in Nat /\ a(n) \in Nat /\ a(m) <= a(n)
  BY <1>1 DEF AtLeastZero
<1> HIDE DEF a
<1>3. Rate(b) * a(m) <= Rate(b) * a(n) /\ Rate(b) * a(m) \in Int /\ Rate(b) * a(n) \in Int
  BY <1>2, BucketConsts, Scale
<1> QED  BY <1>1, <1>3, BucketConsts DEF a, Refill, Lower

LEMMA BucketWaitMeaning ==
  ASSUME NEW b \in Buckets, NEW credit \in Nat
  PROVE  /\ BucketWait(b, credit) \in Nat
         /\ Rate(b) * BucketWait(b, credit) >= Cost - credit
         /\ BucketWait(b, credit) = 0 <=> credit >= Cost
<1> DEFINE x == AtLeastZero(Cost - credit)
<1>1. x \in Nat /\ x >= Cost - credit /\ (x = 0 <=> credit >= Cost)
  BY BucketConsts DEF AtLeastZero
<1> HIDE DEF x
<1>2. /\ (x + Rate(b) - 1) \div Rate(b) \in Nat
      /\ Rate(b) * ((x + Rate(b) - 1) \div Rate(b)) >= x
      /\ (x + Rate(b) - 1) \div Rate(b) = 0 <=> x = 0
  BY <1>1, BucketConsts, CeilDiv
<1>3. BucketWait(b, credit) = (x + Rate(b) - 1) \div Rate(b)
  BY DEF BucketWait, x
<1>4. Rate(b) * BucketWait(b, credit) \in Int
  BY <1>2, <1>3, BucketConsts, Scale
<1> QED  BY <1>1, <1>2, <1>3, <1>4, BucketConsts

LEMMA MaxOfTwo ==
  ASSUME NEW x \in Nat, NEW y \in Nat
  PROVE  Max({x, y}) \in {x, y} /\ Max({x, y}) >= x /\ Max({x, y}) >= y
<1>1. \E z \in {x, y} : \A w \in {x, y} : z >= w
  BY SMT
<1> QED  BY <1>1 DEF Max

\* The script's wait covers every bucket's, and is no wait when all can pay.
LEMMA ScriptWaitMeaning ==
  ASSUME GovTypeOK, NEW used \in Governed, NEW now \in Nat
  PROVE  /\ used \subseteq Buckets /\ used # {}
         /\ ScriptWait(used, now) \in Nat
         /\ \A b \in used : BucketWait(b, Refill(b, now)) <= ScriptWait(used, now)
         /\ (\A b \in used : Refill(b, now) >= Cost) <=> ScriptWait(used, now) = 0
<1> DEFINE w(b) == BucketWait(b, Refill(b, now))
<1>1. \A b \in Buckets : w(b) \in Nat /\ (w(b) = 0 <=> Refill(b, now) >= Cost)
  BY RefillType, BucketWaitMeaning
<1>2. ScriptWait(used, now) = Max({w(b) : b \in used})
  BY DEF ScriptWait
<1> HIDE DEF w
<1>3. PICK chat \in Buckets : used = {Global, chat}
  BY DEF Governed, Buckets
<1>4. Global \in Buckets
  BY DEF Buckets
<1>5. {w(b) : b \in used} = {w(Global), w(chat)}
  BY <1>3
<1>6. /\ Max({w(Global), w(chat)}) \in {w(Global), w(chat)}
      /\ Max({w(Global), w(chat)}) >= w(Global) /\ Max({w(Global), w(chat)}) >= w(chat)
  BY <1>1, <1>4, MaxOfTwo
<1>7. used \subseteq Buckets /\ used # {}
  BY <1>3, <1>4
<1>8. ScriptWait(used, now) \in Nat /\ \A b \in used : w(b) <= ScriptWait(used, now)
  BY <1>1, <1>2, <1>3, <1>4, <1>5, <1>6
<1>9. (\A b \in used : Refill(b, now) >= Cost) <=> ScriptWait(used, now) = 0
  BY <1>1, <1>2, <1>3, <1>4, <1>5, <1>6
<1> QED  BY <1>7, <1>8, <1>9 DEF w

------------------------------------------------------------------------------
(* The two things a call of the script may not do.                         *)

\* It gives nothing away.
LEMMA ChargeBounded ==
  ASSUME GovTypeOK, SpendBounded, NEW used \in Governed, NEW now \in Nat,
         NEW pay \in {0, Cost}, Charge(used, now, pay)
  PROVE  SpendBounded'
<1> SUFFICES ASSUME NEW b \in Buckets
             PROVE  spent'[b] + bucket'[b].tokens
                      <= Limit(b) + Rate(b) * (bucket'[b].ts + disorder'[b])
  BY DEF SpendBounded
<1> DEFINE ts == bucket[b].ts
           late == AtLeastZero(Expected(b) - now)
           old == Rate(b) * (ts + disorder[b])
           new == Rate(b) * (now + disorder[b] + late)
<1>1. /\ bucket[b].tokens \in Nat /\ ts \in Nat /\ spent[b] \in Nat /\ disorder[b] \in Nat
      /\ bucket[b].live \in BOOLEAN
  BY DEF GovTypeOK, BucketRecords
<1>2. spent[b] + bucket[b].tokens <= Limit(b) + old
  BY DEF SpendBounded
<1>3. CASE b \notin used
  BY <1>2, <1>3 DEF Charge
<1>4. CASE b \in used
  <2>1. /\ spent'[b] = spent[b] + pay /\ bucket'[b].tokens = Refill(b, now) - pay
        /\ bucket'[b].ts = now /\ disorder'[b] = disorder[b] + late
    BY <1>4 DEF Charge
  <2>2. Expected(b) \in Nat
    BY <1>1, BucketConsts DEF Expected
  <2>3. late \in Nat /\ now + late >= Expected(b)
    BY <2>2 DEF AtLeastZero
  <2>4. Refill(b, now) \in Nat /\ Refill(b, now) <= Limit(b)
    BY RefillType
  <2>5. old \in Int /\ new \in Int
    BY <1>1, <2>3, BucketConsts, Scale
  <2>6. spent[b] + Refill(b, now) <= Limit(b) + new
    <3>1. CASE bucket[b].live
      <4> DEFINE gap == AtLeastZero(now - ts)
      <4>1. gap \in Nat /\ ts + disorder[b] + gap <= now + disorder[b] + late
        BY <1>1, <2>3, <3>1 DEF AtLeastZero, Expected
      <4>2. Rate(b) * gap \in Int /\ Refill(b, now) <= bucket[b].tokens + Rate(b) * gap
        BY <1>1, <3>1, <4>1, <2>4, BucketConsts, Scale DEF Refill, Lower
      <4> HIDE DEF gap
      <4>3. Rate(b) * (ts + disorder[b] + gap) = old + Rate(b) * gap
        BY <1>1, <4>1, BucketConsts, Scale
      <4>4. Rate(b) * (ts + disorder[b] + gap) <= new
        BY <1>1, <2>3, <4>1, BucketConsts, Scale
      <4> HIDE DEF old, new
      <4> QED  BY <1>1, <1>2, <2>4, <2>5, <4>2, <4>3, <4>4, BucketConsts
    <3>2. CASE ~bucket[b].live /\ spent[b] = 0
      <4>1. 0 <= now + disorder[b] + late /\ Rate(b) * 0 = 0
        BY <1>1, <2>3, BucketConsts
      <4>2. new >= 0
        BY <1>1, <2>3, <4>1, BucketConsts, Scale
      <4> HIDE DEF new
      <4> QED  BY <3>2, <2>4, <2>5, <4>2, BucketConsts
    <3>3. CASE ~bucket[b].live /\ spent[b] # 0
      <4>1. ts + disorder[b] + KeyTTL <= now + disorder[b] + late
        BY <1>1, <2>3, <3>3, BucketConsts DEF Expected
      <4>2. Rate(b) * (ts + disorder[b] + KeyTTL) = old + Rate(b) * KeyTTL
        BY <1>1, BucketConsts, Scale
      <4>3. Rate(b) * (ts + disorder[b] + KeyTTL) <= new
        BY <1>1, <2>3, <4>1, BucketConsts, Scale
      <4>4. Rate(b) * KeyTTL \in Int
        BY BucketConsts, Scale
      <4> HIDE DEF old, new
      <4> QED  BY <1>1, <1>2, <2>4, <2>5, <4>2, <4>3, <4>4, BucketConsts
    <3> QED  BY <1>1, <3>1, <3>2, <3>3
  <2>7. new = Rate(b) * (now + (disorder[b] + late))
    <3>1. now + disorder[b] + late = now + (disorder[b] + late)
      BY <1>1, <2>3
    <3> QED  BY <3>1
  <2>8. pay \in Int
    BY BucketConsts
  <2> HIDE DEF new
  <2> QED  BY <1>1, <2>1, <2>4, <2>5, <2>6, <2>7, <2>8, BucketConsts
<1> QED  BY <1>3, <1>4

\* A refusal names a wait after which the buckets can pay.
LEMMA RefusalFunds ==
  ASSUME GovTypeOK, NEW used \in Governed, NEW now \in Nat, Charge(used, now, 0),
         NEW b \in used, NEW n \in Nat, n >= now + ScriptWait(used, now)
  PROVE  Refill(b, n)' >= Cost
<1> DEFINE credit == Refill(b, now)
           wait == BucketWait(b, credit)
<1>1. b \in Buckets /\ wait <= ScriptWait(used, now) /\ ScriptWait(used, now) \in Nat
  BY ScriptWaitMeaning
<1>2. credit \in Nat
  BY <1>1, RefillType
<1>3. wait \in Nat /\ Rate(b) * wait >= Cost - credit
  BY <1>1, <1>2, BucketWaitMeaning
<1>4. bucket'[b] = [live |-> TRUE, tokens |-> credit - 0, ts |-> now, touched |-> wall]
  BY <1>1 DEF Charge
<1>5. AtLeastZero(n - now) = n - now /\ wait <= n - now
  BY <1>1, <1>3 DEF AtLeastZero
<1>6. Refill(b, n)' = Lower(Limit(b), credit + Rate(b) * (n - now))
  BY <1>2, <1>4, <1>5 DEF Refill
<1> HIDE DEF credit, wait
<1>7. Rate(b) * wait <= Rate(b) * (n - now) /\ Rate(b) * (n - now) \in Int
      /\ Rate(b) * wait \in Int
  BY <1>1, <1>3, <1>5, BucketConsts, Scale
<1> QED  BY <1>1, <1>2, <1>3, <1>6, <1>7, BucketConsts DEF Lower

------------------------------------------------------------------------------
(* Initial states and steps.                                               *)

LEMMA CallerIdleType ==
  /\ CallerIdle \in CallerRecords /\ CallerIdle.pc = "idle" /\ ~CallerIdle.alone
  /\ CallerIdle.now = 0
  BY DEF CallerIdle, CallerRecords

LEMMA GovInitIInv == GovInit => GovIInv
<1> SUFFICES ASSUME GovInit PROVE GovIInv
  OBVIOUS
<1>1. GovTypeOK
  <2>1. \A b \in Buckets : Limit(b) \in Nat
    BY BucketConsts
  <2> QED  BY <2>1, CallerIdleType, GovernorAssumption DEF GovInit, GovTypeOK, BucketRecords
<1>2. Asking /\ Funded
  BY CallerIdleType DEF GovInit, Asking, Funded
<1>3. SpendBounded
  <2>1. ASSUME NEW b \in Buckets PROVE Rate(b) * 0 = 0
    BY BucketConsts
  <2> QED  BY <2>1, BucketConsts DEF GovInit, SpendBounded
<1> QED  BY <1>1, <1>2, <1>3 DEF GovIInv

\* What one call of the script does to the types.
LEMMA ChargeType ==
  ASSUME GovTypeOK, NEW used \in Governed, NEW now \in Nat, NEW pay \in {0, Cost},
         pay # 0 => ScriptWait(used, now) = 0, Charge(used, now, pay)
  PROVE  /\ bucket' \in [Buckets -> BucketRecords]
         /\ \A b \in Buckets : bucket'[b].tokens <= Limit(b)
         /\ spent' \in [Buckets -> Nat] /\ disorder' \in [Buckets -> Nat]
<1>1. \A b \in used : pay <= Refill(b, now)
  BY ScriptWaitMeaning, RefillType, BucketConsts
<1>2. pay \in Nat /\ wall \in Nat
  BY GovernorAssumption DEF GovTypeOK
<1>3. ASSUME NEW b \in Buckets
      PROVE  /\ bucket'[b] \in BucketRecords /\ bucket'[b].tokens <= Limit(b)
             /\ spent'[b] \in Nat /\ disorder'[b] \in Nat
  <2>1. bucket[b] \in BucketRecords /\ bucket[b].tokens <= Limit(b)
        /\ spent[b] \in Nat /\ disorder[b] \in Nat
    BY DEF GovTypeOK
  <2>2. CASE b \notin used
    BY <2>1, <2>2 DEF Charge
  <2>3. CASE b \in used
    <3> DEFINE rest == Refill(b, now) - pay
    <3>1. Refill(b, now) \in Nat /\ Refill(b, now) <= Limit(b)
      BY RefillType
    <3>2. rest \in Nat /\ rest <= Limit(b)
      BY <1>1, <1>2, <2>3, <3>1, BucketConsts
    <3>3. bucket'[b] = [live |-> TRUE, tokens |-> rest, ts |-> now, touched |-> wall]
      BY <2>3 DEF Charge
    <3> HIDE DEF rest
    <3>4. bucket'[b] \in BucketRecords /\ bucket'[b].tokens <= Limit(b)
      BY <1>2, <3>2, <3>3 DEF BucketRecords
    <3>5. Expected(b) \in Nat
      BY <2>1, BucketConsts DEF Expected, BucketRecords
    <3>6. AtLeastZero(Expected(b) - now) \in Nat
      BY <3>5 DEF AtLeastZero
    <3>7. spent'[b] \in Nat /\ disorder'[b] \in Nat
      BY <1>2, <2>1, <2>3, <3>6 DEF Charge
    <3> QED  BY <3>4, <3>7
  <2> QED  BY <2>2, <2>3
<1> QED  BY <1>3 DEF Charge

\* A caller that has asked the script, and what it does next.
LEMMA ScriptStep ==
  ASSUME GovIInv, NEW c \in Callers, caller[c].pc = "take", NEW pay \in {0, Cost},
         NEW rec \in CallerRecords,
         pay # 0 => ScriptWait(caller[c].used, caller[c].now) = 0,
         Charge(caller[c].used, caller[c].now, pay), Disturb(c, rec), UNCHANGED wall,
         rec.pc # "take", rec.now <= wall,
         rec.pc = "idle" => ~rec.alone,
         rec.pc = "sleep" =>
           /\ pay = 0 /\ rec.used = caller[c].used
           /\ rec.wake >= caller[c].now + ScriptWait(caller[c].used, caller[c].now)
  PROVE  GovIInv'
<1> DEFINE used == caller[c].used
           now == caller[c].now
<1>1. used \in Governed /\ now \in Nat
  BY DEF GovIInv, GovTypeOK, Asking, CallerRecords
<1>2. \A k \in Callers : caller[k] \in CallerRecords
  BY DEF GovIInv, GovTypeOK
<1>3. caller'[c] = rec
  BY DEF Disturb
<1>4. ASSUME NEW k \in Callers \ {c}
      PROVE  /\ caller'[k] \in CallerRecords
             /\ caller'[k].pc = caller[k].pc /\ caller'[k].used = caller[k].used
             /\ caller'[k].now = caller[k].now
             /\ ~caller'[k].alone
  <2> DEFINE f == caller[k].alone /\ caller[k].used \cap caller[c].used = {}
  <2>1. caller'[k] = [caller[k] EXCEPT !.alone = f]
    BY DEF Disturb
  <2>2. ~f
    <3>1. caller[k].alone => caller[k].used \in Governed
      BY DEF GovIInv, Asking
    <3> QED  BY <1>1, <3>1 DEF Governed
  <2>3. f = FALSE
    BY <2>2
  <2> HIDE DEF f
  <2> QED  BY <1>2, <2>1, <2>3 DEF CallerRecords
<1>5. GovTypeOK'
  <2>1. caller' \in [Callers -> CallerRecords]
    BY <1>3, <1>4 DEF Disturb
  <2> QED  BY <2>1, <1>1, ChargeType DEF GovIInv, GovTypeOK
<1>6. Asking'
  BY <1>1, <1>3, <1>4, <1>2 DEF GovIInv, Asking, CallerRecords
<1>7. Funded'
  <2>1. ASSUME rec.pc = "sleep", NEW b \in rec.used, NEW n \in Nat, n >= rec.wake
        PROVE  Refill(b, n)' >= Cost
    <3>1. n >= now + ScriptWait(used, now)
      <4>1. ScriptWait(used, now) \in Nat /\ rec.wake \in Nat
        BY <1>1, ScriptWaitMeaning DEF GovIInv, CallerRecords
      <4> QED  BY <1>1, <2>1, <4>1
    <3>2. b \in used /\ Charge(used, now, 0)
      BY <2>1
    <3> QED  BY <1>1, <2>1, <3>1, <3>2, RefusalFunds DEF GovIInv
  <2> QED  BY <1>3, <1>4, <2>1 DEF Funded
<1>8. SpendBounded'
  BY <1>1, ChargeBounded DEF GovIInv
<1> QED  BY <1>5, <1>6, <1>7, <1>8 DEF GovIInv

LEMMA TakePaysStep ==
  ASSUME GovIInv, NEW c \in Callers, TakePays(c)
  PROVE  GovIInv'
<1>1. wall \in Nat
  BY GovernorAssumption DEF GovIInv, GovTypeOK
<1>2. Cost \in {0, Cost}
  OBVIOUS
<1> QED  BY <1>1, <1>2, CallerIdleType, ScriptStep DEF TakePays

LEMMA TakeWaitsStep ==
  ASSUME GovIInv, NEW c \in Callers, TakeWaits(c)
  PROVE  GovIInv'
<1> DEFINE t == caller[c]
           wait == ScriptWait(t.used, t.now)
<1>1. t \in CallerRecords /\ t.used \in Governed /\ t.now \in Nat /\ t.now <= wall /\ t.pc = "take"
  BY DEF TakeWaits, GovIInv, GovTypeOK, Asking, CallerRecords
<1>2. wait \in Nat /\ wall \in Nat
  BY <1>1, ScriptWaitMeaning, GovernorAssumption DEF GovIInv, GovTypeOK
<1>3. PICK jitter \in Jitter :
        Disturb(c, IF t.waited + wait + jitter > MaxWait THEN CallerIdle
                   ELSE [t EXCEPT !.pc = "sleep", !.waited = t.waited + wait + jitter,
                                  !.alone = TRUE, !.wake = wall + wait + jitter])
  BY DEF TakeWaits
<1>4. jitter \in Nat
  BY GovernorAssumption
<1>5. Charge(t.used, t.now, 0) /\ UNCHANGED wall /\ 0 \in {0, Cost}
  BY DEF TakeWaits
<1>6. CASE t.waited + wait + jitter > MaxWait
  BY <1>1, <1>2, <1>3, <1>5, <1>6, CallerIdleType, ScriptStep
<1>7. CASE ~(t.waited + wait + jitter > MaxWait)
  <2> DEFINE rec == [t EXCEPT !.pc = "sleep", !.waited = t.waited + wait + jitter,
                              !.alone = TRUE, !.wake = wall + wait + jitter]
  <2>1. t.waited + wait + jitter \in Nat /\ wall + wait + jitter \in Nat
    BY <1>1, <1>2, <1>4 DEF CallerRecords
  <2>2. wall + wait + jitter >= t.now + wait
    BY <1>1, <1>2, <1>4
  <2> HIDE DEF wait
  <2>3. /\ rec \in CallerRecords /\ rec.pc = "sleep" /\ rec.now = t.now
        /\ rec.used = t.used /\ rec.wake = wall + wait + jitter
    BY <1>1, <2>1 DEF CallerRecords
  <2>4. Disturb(c, rec)
    BY <1>3, <1>7
  <2> HIDE DEF rec
  <2>5. rec.wake >= t.now + ScriptWait(t.used, t.now)
    BY <2>2, <2>3 DEF wait
  <2> QED  BY <1>1, <1>5, <2>3, <2>4, <2>5, ScriptStep
<1> QED  BY <1>6, <1>7

\* What the invariant asks of a caller that is not asleep.
Ready(rec) ==
  /\ rec \in CallerRecords /\ rec.now <= wall
  /\ rec.pc # "idle" => rec.used \in Governed
  /\ rec.pc = "idle" => ~rec.alone
  /\ rec.alone => \A b \in rec.used : rec.pc = "take" /\ Refill(b, rec.now) >= Cost

\* A caller that goes on without the script.
LEMMA CallerMoves ==
  ASSUME GovIInv, NEW c \in Callers, NEW rec, Ready(rec),
         caller' = [caller EXCEPT ![c] = rec],
         UNCHANGED <<wall, bucket, spent, disorder>>
  PROVE  GovIInv'
<1>1. /\ caller'[c] = rec
      /\ \A k \in Callers \ {c} : caller'[k] = caller[k]
      /\ caller' \in [Callers -> CallerRecords]
  BY DEF Ready, GovIInv, GovTypeOK
<1>2. \A b \in Buckets, n \in Nat : Refill(b, n)' = Refill(b, n)
  BY DEF Refill
<1>3. GovTypeOK' /\ SpendBounded'
  BY <1>1 DEF GovIInv, GovTypeOK, SpendBounded
<1>4. Asking'
  BY <1>1 DEF Ready, GovIInv, Asking
<1>5. Funded'
  <2>1. \A k \in Callers : caller'[k].used \subseteq Buckets /\ caller'[k].now \in Nat
    BY <1>1 DEF CallerRecords
  <2> QED  BY <1>1, <1>2, <2>1 DEF Ready, GovIInv, Funded
<1> QED  BY <1>3, <1>4, <1>5 DEF GovIInv

LEMMA CallerStep ==
  ASSUME GovIInv, NEW c \in Callers,
         \/ TakeFails(c) \/ Retry(c) \/ Acquire(c, {Global})
         \/ \E chat \in Chats : Acquire(c, {Global, chat})
  PROVE  GovIInv'
<1>1. caller[c] \in CallerRecords /\ wall \in Nat
  BY GovernorAssumption DEF GovIInv, GovTypeOK
<1>2. CASE TakeFails(c)
  <2>1. Ready(CallerIdle)
    BY <1>1, CallerIdleType DEF Ready
  <2> QED  BY <1>2, <2>1, CallerMoves DEF TakeFails
<1>3. CASE Retry(c)
  <2> DEFINE rec == [caller[c] EXCEPT !.pc = "take", !.now = wall]
  <2>1. /\ rec \in CallerRecords /\ rec.pc = "take" /\ rec.now = wall
        /\ rec.used = caller[c].used /\ rec.alone = caller[c].alone
    BY <1>1 DEF CallerRecords
  <2>2. caller' = [caller EXCEPT ![c] = rec]
    BY <1>3 DEF Retry
  <2> HIDE DEF rec
  <2>3. caller[c].alone => \A b \in caller[c].used : Refill(b, wall) >= Cost
    BY <1>1, <1>3 DEF Retry, GovIInv, Funded
  <2>4. caller[c].used \in Governed
    BY <1>3 DEF Retry, GovIInv, Asking
  <2>5. ASSUME rec.alone, NEW b \in rec.used
        PROVE  Refill(b, rec.now) >= Cost
    <3>1. caller[c].alone /\ b \in caller[c].used
      BY <2>1, <2>5
    <3> QED  BY <2>1, <2>3, <3>1
  <2>6. Ready(rec)
    BY <1>1, <2>1, <2>4, <2>5 DEF Ready
  <2> QED  BY <1>3, <2>2, <2>6, CallerMoves DEF Retry
<1>4. ASSUME NEW used \in Governed, Acquire(c, used)
      PROVE  GovIInv'
  <2> DEFINE rec == [CallerIdle EXCEPT !.pc = "take", !.used = used, !.now = wall]
  <2>1. used \subseteq Buckets
    BY DEF Governed, Buckets
  <2>2. /\ rec \in CallerRecords /\ rec.pc = "take" /\ rec.now = wall
        /\ rec.used = used /\ ~rec.alone
    BY <1>1, <2>1 DEF CallerIdle, CallerRecords
  <2>3. caller' = [caller EXCEPT ![c] = rec]
    BY <1>4 DEF Acquire
  <2> HIDE DEF rec
  <2>4. Ready(rec)
    BY <1>1, <2>2 DEF Ready
  <2> QED  BY <1>4, <2>3, <2>4, CallerMoves DEF Acquire
<1>5. {Global} \in Governed /\ \A chat \in Chats : {Global, chat} \in Governed
  BY DEF Governed
<1> QED  BY <1>2, <1>3, <1>4, <1>5

LEMMA ClockStep ==
  ASSUME GovIInv, GovTick \/ \E b \in Buckets : BucketExpires(b)
  PROVE  GovIInv'
<1>1. CASE GovTick
  <2>1. GovTypeOK' /\ SpendBounded'
    BY <1>1, GovernorAssumption DEF GovTick, GovIInv, GovTypeOK, SpendBounded
  <2>2. Asking'
    <3>1. \A c \in Callers : caller[c].now \in Nat
      BY DEF GovIInv, GovTypeOK, CallerRecords
    <3> QED  BY <1>1, <3>1, GovernorAssumption DEF GovTick, GovIInv, GovTypeOK, Asking
  <2>3. Funded'
    BY <1>1 DEF GovTick, GovIInv, Funded, Refill
  <2> QED  BY <2>1, <2>2, <2>3 DEF GovIInv
<1>2. ASSUME NEW b \in Buckets, BucketExpires(b)
      PROVE  GovIInv'
  <2>1. /\ bucket' = [bucket EXCEPT ![b].live = FALSE]
        /\ UNCHANGED <<wall, caller, spent, disorder>>
    BY <1>2 DEF BucketExpires
  <2>2. \A d \in Buckets : bucket[d] \in BucketRecords
    BY DEF GovIInv, GovTypeOK
  <2>3. /\ bucket' \in [Buckets -> BucketRecords] /\ ~bucket'[b].live
        /\ \A d \in Buckets : bucket'[d].tokens = bucket[d].tokens /\ bucket'[d].ts = bucket[d].ts
        /\ \A d \in Buckets \ {b} : bucket'[d] = bucket[d]
    BY <2>1, <2>2 DEF BucketRecords, GovIInv, GovTypeOK
  <2>4. GovTypeOK' /\ Asking' /\ SpendBounded'
    BY <2>1, <2>3 DEF GovIInv, GovTypeOK, Asking, SpendBounded
  <2>5. ASSUME NEW d \in Buckets, NEW n \in Nat, Refill(d, n) >= Cost
        PROVE  Refill(d, n)' >= Cost
    BY <2>3, <2>5, BucketConsts DEF Refill
  <2>6. Funded'
    <3>1. \A c \in Callers : caller[c].used \subseteq Buckets /\ caller[c].now \in Nat
      BY DEF GovIInv, GovTypeOK, CallerRecords
    <3> QED  BY <2>1, <2>5, <3>1 DEF GovIInv, Funded
  <2> QED  BY <2>4, <2>6 DEF GovIInv
<1> QED  BY <1>1, <1>2

LEMMA GovNextIInv ==
  ASSUME GovIInv, [GovNext]_govVars
  PROVE  GovIInv'
<1>1. CASE UNCHANGED govVars
  BY <1>1 DEF govVars, GovIInv, GovTypeOK, Asking, Funded, SpendBounded, Refill
<1>2. CASE GovNext
  BY <1>2, TakePaysStep, TakeWaitsStep, CallerStep, ClockStep DEF GovNext
<1> QED  BY <1>1, <1>2

THEOREM GovInductive == GovSpec => []GovIInv
<1>1. GovInit => GovIInv
  BY GovInitIInv
<1>2. GovIInv /\ [GovNext]_govVars => GovIInv'
  BY GovNextIInv
<1> QED  BY <1>1, <1>2, PTL DEF GovSpec

------------------------------------------------------------------------------
(* The theorems.                                                           *)

\* Buckets, callers and ghosts keep their types: no bucket is ever overdrawn or
\* holds more than its limit.
THEOREM GovTypeCorrect == GovSpec => []GovTypeOK
<1>1. GovIInv => GovTypeOK
  BY DEF GovIInv
<1> QED  BY <1>1, GovInductive, PTL

\* Whatever clocks the callers bring and whenever keys expire, a bucket never gives
\* more than its limit and what was earned on those clocks.
THEOREM SpendBoundedCorrect == GovSpec => []SpendBounded
<1>1. GovIInv => SpendBounded
  BY DEF GovIInv
<1> QED  BY <1>1, GovInductive, PTL

\* A caller that slept as long as it was told, alone, is served when it asks again,
\* for any rates and limits.
THEOREM WaitSufficesCorrect == GovSpec => []WaitSuffices
<1>1. ASSUME GovIInv
      PROVE  WaitSuffices
  <2> SUFFICES ASSUME NEW c \in Callers, caller[c].pc = "take", caller[c].alone
               PROVE  ScriptWait(caller[c].used, caller[c].now) = 0
    BY DEF WaitSuffices
  <2>1. caller[c].used \in Governed /\ caller[c].now \in Nat
    BY <1>1 DEF GovIInv, GovTypeOK, Asking, CallerRecords
  <2>2. \A b \in caller[c].used : Refill(b, caller[c].now) >= Cost
    BY <1>1 DEF GovIInv, Funded
  <2> QED  BY <1>1, <2>1, <2>2, ScriptWaitMeaning DEF GovIInv
<1>2. GovIInv => WaitSuffices
  BY <1>1
<1> QED  BY <1>2, GovInductive, PTL

------------------------------------------------------------------------------
(* Enrichment.  Its one safety property is its type: a batch in flight     *)
(* holds titles there are, each with a request or an outcome.              *)

LEMMA EnrCount ==
  /\ 0 \in 0..MaxEnrOps /\ 0 \in 0..MaxEnrFaults
  /\ \A n \in 0..MaxEnrOps : n < MaxEnrOps => n + 1 \in 0..MaxEnrOps
  /\ \A n \in 0..MaxEnrFaults : n < MaxEnrFaults => n + 1 \in 0..MaxEnrFaults
<1>1. MaxEnrOps \in Nat /\ MaxEnrFaults \in Nat
  BY EnrichmentAssumption
<1> QED  BY <1>1

LEMMA EnrNextType ==
  ASSUME EnrTypeOK, [EnrNext]_enrVars
  PROVE  EnrTypeOK'
<1>1. NoBatch \in [EnrIds -> Fetches]
  BY DEF NoBatch, Fetches
<1>2. /\ enrich \in [EnrIds -> EnrStatuses] /\ fetch \in [EnrIds -> Fetches]
      /\ enrOps \in 0..MaxEnrOps /\ enrFaults \in 0..MaxEnrFaults
  BY DEF EnrTypeOK
<1>3. CASE UNCHANGED enrVars
  BY <1>2, <1>3 DEF enrVars, EnrTypeOK
<1>4. CASE ListPending
  <2>1. fetch' \in [EnrIds -> Fetches]
    BY <1>4 DEF ListPending, Fetches
  <2> QED  BY <1>2, <1>4, <2>1 DEF ListPending, EnrTypeOK
<1>5. ASSUME NEW t \in EnrIds, Ask(t) \/ AskFails(t)
      PROVE  EnrTypeOK'
  <2>1. fetch' \in [EnrIds -> Fetches]
    BY <1>2, <1>5 DEF Ask, AskFails, Answered, Fetches, Outcomes
  <2>2. enrFaults' \in 0..MaxEnrFaults
    BY <1>2, <1>5, EnrCount DEF Ask, AskFails
  <2> QED  BY <1>2, <1>5, <2>1, <2>2 DEF Ask, AskFails, EnrTypeOK
<1>6. CASE WriteBatch
  <2>1. enrich' \in [EnrIds -> EnrStatuses]
    BY <1>2, <1>6 DEF WriteBatch, EnrStatuses
  <2> QED  BY <1>1, <1>2, <1>6, <2>1 DEF WriteBatch, EnrTypeOK
<1>7. CASE BatchLost
  BY <1>1, <1>2, <1>7, EnrCount DEF BatchLost, EnrTypeOK
<1>8. CASE EnrichAll \/ \E t \in EnrIds : NewTitle(t)
  <2>1. enrich' \in [EnrIds -> EnrStatuses]
    BY <1>2, <1>8 DEF EnrichAll, NewTitle, EnrStatuses
  <2>2. enrOps' \in 0..MaxEnrOps
    BY <1>2, <1>8, EnrCount DEF EnrichAll, NewTitle
  <2> QED  BY <1>2, <1>8, <2>1, <2>2 DEF EnrichAll, NewTitle, EnrTypeOK
<1>9. ASSUME NEW gone \in SUBSET EnrIds, DeleteTitles(gone)
      PROVE  EnrTypeOK'
  <2>1. enrich' \in [EnrIds -> EnrStatuses]
    BY <1>2, <1>9 DEF DeleteTitles, EnrStatuses
  <2>2. enrOps' \in 0..MaxEnrOps
    BY <1>2, <1>9, EnrCount DEF DeleteTitles
  <2> QED  BY <1>2, <1>9, <2>1, <2>2 DEF DeleteTitles, EnrTypeOK
<1> QED  BY <1>3, <1>4, <1>5, <1>6, <1>7, <1>8, <1>9 DEF EnrNext, EnrStep

\* Statuses, the batch in flight and counters keep their types.
THEOREM EnrTypeCorrect == EnrSpec => []EnrTypeOK
<1>1. EnrInit => EnrTypeOK
  <2> SUFFICES ASSUME EnrInit PROVE EnrTypeOK
    OBVIOUS
  <2>1. enrich \in [EnrIds -> EnrStatuses] /\ fetch \in [EnrIds -> Fetches]
    BY DEF EnrInit, EnrStatuses, NoBatch, Fetches
  <2> QED  BY <2>1, EnrCount DEF EnrInit, EnrTypeOK
<1>2. EnrTypeOK /\ [EnrNext]_enrVars => EnrTypeOK'
  BY EnrNextType
<1> QED  BY <1>1, <1>2, PTL DEF EnrSpec

------------------------------------------------------------------------------
(* The composition.                                                        *)

\* A step of the composition is a step of one part, and leaves the others alone.
LEMMA OutboundStep ==
  ASSUME [Next]_vars
  PROVE  [GovNext]_govVars /\ [ExpNext]_expVars /\ [EnrNext]_enrVars
  BY DEF Next, vars

\* Every behaviour of the composition is one of each of its parts, in each instance
\* of the messages.
THEOREM OutboundImplementsParts == Spec => GovSpec /\ ExpSpec /\ EnrSpec
<1>1. Init => GovInit /\ ExpInit /\ EnrInit
  BY DEF Init
<1>2. [Next]_vars => [GovNext]_govVars /\ [ExpNext]_expVars /\ [EnrNext]_enrVars
  BY OutboundStep
<1> QED  BY <1>1, <1>2, PTL DEF Spec, GovSpec, ExpSpec, EnrSpec

\* Everything the composition keeps has its type.
THEOREM OutboundTypeCorrect == Spec => []TypeOK
<1>1. GovTypeOK /\ ExpTypeOK /\ EnrTypeOK => TypeOK
  BY DEF TypeOK
<1> QED
  BY <1>1, OutboundImplementsParts, GovTypeCorrect, ExpTypeCorrect, EnrTypeCorrect, PTL

\* All that governor and messages promise together, of the composition as a whole.
THEOREM OutboundSafe ==
  Spec => /\ [](SpendBounded /\ WaitSuffices /\ LeftOnlyByFault /\ NoticeTellsTruth)
          /\ OnlyOwnerDrives
  BY OutboundImplementsParts, SpendBoundedCorrect, WaitSufficesCorrect,
     LeftOnlyByFaultCorrect, NoticeTellsTruthCorrect, OnlyOwnerDrivesCorrect, PTL

==============================================================================
