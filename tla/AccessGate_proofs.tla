-------------------------- MODULE AccessGate_proofs --------------------------
(***************************************************************************)
(* Proofs about AccessGate, for any users, handlers, tokens, durations and *)
(* number of faults.                                                      *)
(***************************************************************************)
EXTENDS AccessGate, TLAPS

------------------------------------------------------------------------------
(* The inductive invariant: what a handler may rely on between its awaits. *)

\* A handler that has a token in hand knows which one.
HoldsToken ==
  \A h \in Handlers : task[h].pc \in {"shorten", "burn"} => task[h].tok \in Tokens

\* A handler about to grant for a token has its burn to itself: nobody else owes
\* a grant for it and none was made.
OwesAlone ==
  \A t \in Tokens : \A h \in Owing(t) :
    /\ paid[t].burnt /\ paid[t].grants = 0
    /\ \A g \in Owing(t) : g = h

\* A burnt token never comes back.
BurntIsGone == \A t \in Tokens : paid[t].burnt => token[t].state = "gone"

\* A clock that was ever wound belongs to somebody granted access, and only they
\* are past the access check.
WoundIsGranted ==
  /\ \A u \in Users : until[u] > 0 => u \in granted
  /\ \A h \in Handlers : task[h].pc = "send" => task[h].user \in granted

\* The expiry a handler is about to write lies after the clock it read.
WritesAhead ==
  \A h \in Handlers : task[h].pc = "write" => task[h].expiry >= task[h].seen

Links == HoldsToken /\ OwesAlone /\ BurntIsGone /\ WoundIsGranted /\ WritesAhead
Promises == TokenHonoured /\ BurntIsPaid /\ NoFreeFile
IInv == TypeOK /\ Links /\ Promises

------------------------------------------------------------------------------
\* There is a user to put in the locals of an idle handler.
LEMMA AnyUserType == AnyUser \in Users
  BY AccessAssumption DEF AnyUser

\* Any handler's locals at a fresh start are well typed.
LEMMA AtType ==
  ASSUME NEW pc \in Pcs, NEW u \in Users
  PROVE  At(pc, u) \in Tasks
  BY DEF At, Tasks, Pcs

\* An idle handler's locals are well typed.
LEMMA IdleType == Idle \in Tasks
  BY AnyUserType, AtType DEF Idle, Pcs

\* Tasks is closed under taking a token in hand.
LEMMA TokTaken ==
  ASSUME NEW w \in Tasks, NEW pc \in Pcs, NEW tok \in Tokens \cup {NoToken}
  PROVE  [w EXCEPT !.pc = pc, !.tok = tok] \in Tasks
  BY DEF Tasks

\* And under computing a grant.
LEMMA TasksClosed ==
  ASSUME NEW w \in Tasks, NEW pc \in Pcs, NEW d \in Durations, NEW seen \in Nat,
         NEW e \in Nat
  PROVE  [w EXCEPT !.pc = pc, !.dur = d, !.seen = seen, !.expiry = e] \in Tasks
  BY DEF Tasks

\* So are the records of what a token paid for.
LEMMA PaidClosed ==
  ASSUME NEW r \in [burnt : BOOLEAN, grants : Nat]
  PROVE  /\ [r EXCEPT !.burnt = TRUE] \in [burnt : BOOLEAN, grants : Nat]
         /\ [r EXCEPT !.grants = @ + 1] \in [burnt : BOOLEAN, grants : Nat]
<1>1. [r EXCEPT !.burnt = TRUE] \in [burnt : BOOLEAN, grants : Nat]
  OBVIOUS
<1>2. [r EXCEPT !.grants = @ + 1] \in [burnt : BOOLEAN, grants : Nat]
  <2>1. r.burnt \in BOOLEAN /\ r.grants + 1 \in Nat
    OBVIOUS
  <2>2. [r EXCEPT !.grants = @ + 1] = [burnt |-> r.burnt, grants |-> r.grants + 1]
    OBVIOUS
  <2> QED  BY <2>1, <2>2, Zenon
<1> QED  BY <1>1, <1>2

\* Moving a handler on keeps its locals well typed.
LEMMA GotoType ==
  ASSUME TypeOK, NEW h \in Handlers, NEW pc \in Pcs, Goto(h, pc)
  PROVE  task' \in [Handlers -> Tasks]
<1>1. [task[h] EXCEPT !.pc = pc] \in Tasks
  BY DEF TypeOK, Tasks
<1> QED  BY <1>1 DEF Goto, TypeOK

\* Every step keeps the variables in their types.
LEMMA TypeStep ==
  ASSUME TypeOK, HoldsToken, [Next]_vars
  PROVE  TypeOK'
<1> USE AccessAssumption DEF TypeOK
<1>1. ASSUME NEW h \in Handlers, NEW u \in Users, Tap(h, u)
      PROVE  TypeOK'
  BY <1>1, AtType DEF Tap, Pcs
<1>2. ASSUME NEW h \in Handlers, NEW u \in Users, AddPremium(h, u)
      PROVE  TypeOK'
  BY <1>2, AtType DEF AddPremium, Pcs
<1>3. ASSUME NEW h \in Handlers, NEW u \in Users, NEW t \in Tokens, RedeemGet(h, u, t)
      PROVE  TypeOK'
  <2>1. [At("burn", u) EXCEPT !.tok = t, !.owner = token[t].owner] \in Tasks
    BY DEF At, Tasks, Pcs, TokenRecords
  <2> QED  BY <1>3, <2>1 DEF RedeemGet
<1>4. ASSUME NEW h \in Handlers, CheckAccess(h)
      PROVE  TypeOK'
  <2>1. (IF HasAccess(task[h].user) THEN "send" ELSE "mint") \in Pcs
    BY DEF Pcs
  <2> QED  BY <1>4, <2>1, GotoType DEF CheckAccess
<1>5. ASSUME NEW h \in Handlers, NEW t \in Tokens, MintToken(h, t)
      PROVE  TypeOK'
  <2>1. [state |-> "minted", owner |-> task[h].user, exp |-> now + TokenTTL]
          \in TokenRecords
    BY DEF Tasks, TokenRecords, TokenStates
  <2>2. [task[h] EXCEPT !.pc = "shorten", !.tok = t] \in Tasks
    <3>1. task[h] \in Tasks /\ "shorten" \in Pcs
      BY DEF Pcs
    <3> QED  BY <3>1, TokTaken
  <2> QED  BY <1>5, <2>1, <2>2 DEF MintToken
<1>6. ASSUME NEW h \in Handlers, Shorten(h)
      PROVE  TypeOK'
  <2>1. PICK t \in Tokens : t = task[h].tok
    BY <1>6 DEF Shorten, HoldsToken
  <2>2. [token[t] EXCEPT !.state = IF @ = "minted" THEN "sent" ELSE @] \in TokenRecords
    BY DEF TokenRecords, TokenStates
  <2>3. token' \in [Tokens -> TokenRecords]
    BY <1>6, <2>1, <2>2 DEF Shorten
  <2> QED  BY <1>6, <2>3, IdleType DEF Shorten, Return
<1>7. ASSUME NEW h \in Handlers, ShortenFails(h)
      PROVE  TypeOK'
  BY <1>7, IdleType DEF ShortenFails, Return
<1>8. ASSUME NEW h \in Handlers, SendFile(h)
      PROVE  TypeOK'
  BY <1>8, IdleType DEF SendFile, Return, Tasks
<1>9. ASSUME NEW h \in Handlers, RedeemDelete(h)
      PROVE  TypeOK'
  <2>1. PICK t \in Tokens : t = task[h].tok
    BY <1>9 DEF RedeemDelete, HoldsToken
  <2>2. task' \in [Handlers -> Tasks]
    BY <1>9, GotoType, IdleType DEF RedeemDelete, Return, Pcs
  <2>3. [token[t] EXCEPT !.state = "gone"] \in TokenRecords
    BY DEF TokenRecords, TokenStates
  <2>4. token' \in [Tokens -> TokenRecords]
    BY <1>9, <2>1, <2>3 DEF RedeemDelete, Burn
  <2>5. paid' \in [Tokens -> [burnt : BOOLEAN, grants : Nat]]
    <3>1. [paid[t] EXCEPT !.burnt = TRUE] \in [burnt : BOOLEAN, grants : Nat]
      BY PaidClosed
    <3>2. \/ UNCHANGED paid
          \/ paid' = [paid EXCEPT ![t] = [paid[t] EXCEPT !.burnt = TRUE]]
      BY <1>9, <2>1 DEF RedeemDelete
    <3> QED  BY <3>1, <3>2
  <2> QED  BY <1>9, <2>2, <2>4, <2>5 DEF RedeemDelete
<1>10. ASSUME NEW h \in Handlers, NEW d \in Durations, GrantRead(h, d)
       PROVE  TypeOK'
  <2>1. until[task[h].user] \in Nat /\ d \in Nat
    BY DEF Tasks
  <2>2. Base(until[task[h].user]) + d \in Nat
    BY <2>1 DEF Base
  <2>3. [task[h] EXCEPT !.pc = "write", !.dur = d, !.seen = until[task[h].user],
                        !.expiry = Base(until[task[h].user]) + d] \in Tasks
    <3>1. task[h] \in Tasks /\ "write" \in Pcs
      BY DEF Pcs
    <3> QED  BY <2>1, <2>2, <3>1, TasksClosed
  <2> QED  BY <1>10, <2>3 DEF GrantRead
<1>11. ASSUME NEW h \in Handlers, GrantWrite(h)
       PROVE  TypeOK'
  <2>1. task[h].user \in Users /\ task[h].expiry \in Nat
    BY DEF Tasks
  <2>2. paid' \in [Tokens -> [burnt : BOOLEAN, grants : Nat]]
    <3>1. CASE task[h].tok = NoToken
      BY <1>11, <3>1 DEF GrantWrite
    <3>2. CASE task[h].tok # NoToken
      <4>1. PICK t \in Tokens : t = task[h].tok
        BY <3>2 DEF Tasks
      <4>2. paid' = [paid EXCEPT ![t] = [paid[t] EXCEPT !.grants = @ + 1]]
        BY <1>11, <3>2, <4>1 DEF GrantWrite
      <4>3. [paid[t] EXCEPT !.grants = @ + 1] \in [burnt : BOOLEAN, grants : Nat]
        BY PaidClosed
      <4> QED  BY <4>2, <4>3
    <3> QED  BY <3>1, <3>2
  <2> QED  BY <1>11, <2>1, <2>2, IdleType DEF GrantWrite, Return
<1>12. ASSUME NEW u \in Users, RevokeAccess(u)
       PROVE  TypeOK'
  BY <1>12 DEF RevokeAccess
<1>13. ASSUME SetShortener \/ \E on \in BOOLEAN : Shortlink(on)
       PROVE  TypeOK'
  BY <1>13 DEF SetShortener, Shortlink
<1>14. ASSUME Tick
       PROVE  TypeOK'
  <2>1. token' \in [Tokens -> TokenRecords]
    <3>1. \A t \in Tokens : [token[t] EXCEPT !.state = "gone"] \in TokenRecords
      BY DEF TokenRecords, TokenStates
    <3> QED  BY <1>14, <3>1 DEF Tick
  <2> QED  BY <1>14, <2>1 DEF Tick
<1>15. ASSUME BotCrashes
       PROVE  TypeOK'
  BY <1>15, IdleType DEF BotCrashes
<1>16. ASSUME NEW h \in Handlers, HandlerDies(h)
       PROVE  TypeOK'
  BY <1>16, IdleType DEF HandlerDies, Return
<1>17. ASSUME UNCHANGED vars
       PROVE  TypeOK'
  BY <1>17 DEF vars
<1> QED
  BY <1>1, <1>2, <1>3, <1>4, <1>5, <1>6, <1>7, <1>8, <1>9, <1>10, <1>11, <1>12,
     <1>13, <1>14, <1>15, <1>16, <1>17 DEF Next

------------------------------------------------------------------------------
\* A step of one handler that neither burns nor pays, and after which that
\* handler owes nothing more than before, keeps what relates handlers and tokens.
LEMMA KeepsBooks ==
  ASSUME TypeOK, TypeOK', Links, Promises,
         NEW h \in Handlers,
         \A g \in Handlers : g # h => task'[g] = task[g],
         task'[h].pc \in {"shorten", "burn"} => task'[h].tok \in Tokens,
         task[h].pc \notin {"read", "write"},
         task'[h].pc \in {"read", "write"} => task'[h].tok = NoToken,
         \A t \in Tokens : token[t].state = "gone" => token'[t].state = "gone",
         UNCHANGED <<paid, faults>>
  PROVE  HoldsToken' /\ OwesAlone' /\ BurntIsGone' /\ TokenHonoured' /\ BurntIsPaid'
<1> USE AccessAssumption
<1>1. \A t \in Tokens : Owing(t)' = Owing(t)
  BY DEF Owing
<1>2. HoldsToken'
  BY DEF Links, HoldsToken
<1>3. OwesAlone'
  BY <1>1 DEF Links, OwesAlone
<1>4. BurntIsGone'
  BY DEF Links, BurntIsGone
<1>5. TokenHonoured' /\ BurntIsPaid'
  BY <1>1 DEF Promises, TokenHonoured, BurntIsPaid
<1> QED  BY <1>2, <1>3, <1>4, <1>5

\* A step of one handler that leaves the clocks alone and brings nobody past the
\* access check, or closer to a write, keeps what relates clocks and grants.
LEMMA KeepsClocks ==
  ASSUME TypeOK, TypeOK', Links, Promises,
         NEW h \in Handlers,
         \A g \in Handlers : g # h => task'[g] = task[g],
         task'[h].pc \notin {"send", "write"},
         UNCHANGED <<until, granted, served>>
  PROVE  WoundIsGranted' /\ WritesAhead' /\ NoFreeFile'
  BY DEF Links, Promises, WoundIsGranted, WritesAhead, NoFreeFile

\* Every step keeps the rest of the inductive invariant.
LEMMA LinkStep ==
  ASSUME TypeOK, TypeOK', Links, Promises, [Next]_vars
  PROVE  Links' /\ Promises'
<1> USE AccessAssumption DEF Pcs
<1> DEFINE Kept == Links' /\ Promises'
<1>1. ASSUME NEW h \in Handlers, NEW u \in Users, Tap(h, u) \/ AddPremium(h, u)
      PROVE  Kept
  <2>1. \A g \in Handlers : g # h => task'[g] = task[g]
    BY <1>1 DEF Tap, AddPremium, TypeOK
  <2>2. /\ task[h].pc = "idle"
        /\ task'[h].pc \in {"check", "read"} /\ task'[h].tok = NoToken
        /\ UNCHANGED <<token, paid, faults, until, granted, served>>
    BY <1>1 DEF Tap, AddPremium, TypeOK, At
  <2>3. HoldsToken' /\ OwesAlone' /\ BurntIsGone' /\ TokenHonoured' /\ BurntIsPaid'
    BY <2>1, <2>2, KeepsBooks
  <2>4. WoundIsGranted' /\ WritesAhead' /\ NoFreeFile'
    BY <2>1, <2>2, KeepsClocks
  <2> QED  BY <2>3, <2>4 DEF Links, Promises
<1>2. ASSUME NEW h \in Handlers, NEW u \in Users, NEW t \in Tokens, RedeemGet(h, u, t)
      PROVE  Kept
  <2>1. \A g \in Handlers : g # h => task'[g] = task[g]
    BY <1>2 DEF RedeemGet, TypeOK
  <2>2. /\ task[h].pc = "idle"
        /\ task'[h].pc = "burn" /\ task'[h].tok \in Tokens
        /\ UNCHANGED <<token, paid, faults, until, granted, served>>
    BY <1>2 DEF RedeemGet, TypeOK, At
  <2>3. HoldsToken' /\ OwesAlone' /\ BurntIsGone' /\ TokenHonoured' /\ BurntIsPaid'
    BY <2>1, <2>2, KeepsBooks
  <2>4. WoundIsGranted' /\ WritesAhead' /\ NoFreeFile'
    BY <2>1, <2>2, KeepsClocks
  <2> QED  BY <2>3, <2>4 DEF Links, Promises
<1>3. ASSUME NEW h \in Handlers, CheckAccess(h)
      PROVE  Kept
  <2>1. \A g \in Handlers : g # h => task'[g] = task[g]
    BY <1>3 DEF CheckAccess, Goto, TypeOK
  <2>2. /\ task[h].pc = "check" /\ task'[h].pc \in {"send", "mint"}
        /\ task'[h].user = task[h].user
        /\ task'[h].pc = "send" => until[task[h].user] > now
        /\ UNCHANGED <<token, paid, faults, until, granted, served>>
    BY <1>3 DEF CheckAccess, Goto, TypeOK, Tasks, HasAccess
  <2>3. HoldsToken' /\ OwesAlone' /\ BurntIsGone' /\ TokenHonoured' /\ BurntIsPaid'
    BY <2>1, <2>2, KeepsBooks
  <2>4. task'[h].pc = "send" => task'[h].user \in granted
    BY <2>2 DEF TypeOK, Tasks, Links, WoundIsGranted
  <2>5. WoundIsGranted'
    BY <2>1, <2>2, <2>4 DEF Links, WoundIsGranted
  <2>6. WritesAhead' /\ NoFreeFile'
    BY <2>1, <2>2 DEF Links, Promises, WritesAhead, NoFreeFile
  <2> QED  BY <2>3, <2>5, <2>6 DEF Links, Promises
<1>4. ASSUME NEW h \in Handlers, NEW t \in Tokens, MintToken(h, t)
      PROVE  Kept
  <2>1. \A g \in Handlers : g # h => task'[g] = task[g]
    BY <1>4 DEF MintToken, TypeOK
  <2>2. /\ task[h].pc = "mint"
        /\ task'[h].pc = "shorten" /\ task'[h].tok \in Tokens
        /\ UNCHANGED <<paid, faults, until, granted, served>>
    BY <1>4 DEF MintToken, TypeOK, Tasks
  <2>3. \A s \in Tokens : token[s].state = "gone" => token'[s].state = "gone"
    BY <1>4 DEF MintToken, TypeOK
  <2>4. HoldsToken' /\ OwesAlone' /\ BurntIsGone' /\ TokenHonoured' /\ BurntIsPaid'
    BY <2>1, <2>2, <2>3, KeepsBooks
  <2>5. WoundIsGranted' /\ WritesAhead' /\ NoFreeFile'
    BY <2>1, <2>2, KeepsClocks
  <2> QED  BY <2>4, <2>5 DEF Links, Promises
<1>5. ASSUME NEW h \in Handlers, Shorten(h) \/ ShortenFails(h)
      PROVE  Kept
  <2>1. \A g \in Handlers : g # h => task'[g] = task[g]
    BY <1>5 DEF Shorten, ShortenFails, Return, TypeOK
  <2>2. /\ task[h].pc = "shorten" /\ task'[h].pc = "idle"
        /\ UNCHANGED <<paid, faults, until, granted, served>>
    BY <1>5 DEF Shorten, ShortenFails, Return, TypeOK, Idle, At
  <2>3. \A s \in Tokens : token[s].state = "gone" => token'[s].state = "gone"
    BY <1>5 DEF Shorten, ShortenFails, TypeOK, TokenRecords
  <2>4. HoldsToken' /\ OwesAlone' /\ BurntIsGone' /\ TokenHonoured' /\ BurntIsPaid'
    BY <2>1, <2>2, <2>3, KeepsBooks
  <2>5. WoundIsGranted' /\ WritesAhead' /\ NoFreeFile'
    BY <2>1, <2>2, KeepsClocks
  <2> QED  BY <2>4, <2>5 DEF Links, Promises
<1>6. ASSUME NEW h \in Handlers, SendFile(h)
      PROVE  Kept
  <2>1. \A g \in Handlers : g # h => task'[g] = task[g]
    BY <1>6 DEF SendFile, Return, TypeOK
  <2>2. /\ task[h].pc = "send" /\ task'[h].pc = "idle"
        /\ served' = served \cup {task[h].user}
        /\ UNCHANGED <<token, paid, faults, until, granted>>
    BY <1>6 DEF SendFile, Return, TypeOK, Idle, At
  <2>3. HoldsToken' /\ OwesAlone' /\ BurntIsGone' /\ TokenHonoured' /\ BurntIsPaid'
    BY <2>1, <2>2, KeepsBooks
  <2>4. NoFreeFile'
    BY <2>2 DEF Links, Promises, WoundIsGranted, NoFreeFile
  <2>5. WoundIsGranted' /\ WritesAhead'
    BY <2>1, <2>2 DEF Links, WoundIsGranted, WritesAhead
  <2> QED  BY <2>3, <2>4, <2>5 DEF Links, Promises
<1>7. ASSUME NEW h \in Handlers, RedeemDelete(h)
      PROVE  Kept
  <2>0. PICK t \in Tokens : t = task[h].tok
    BY <1>7 DEF RedeemDelete, Links, HoldsToken
  <2>1. \A g \in Handlers : g # h => task'[g] = task[g]
    BY <1>7 DEF RedeemDelete, Goto, Return, TypeOK
  <2>2. /\ task[h].pc = "burn" /\ task[h].tok = t
        /\ UNCHANGED <<faults, until, granted, served>>
    BY <1>7, <2>0 DEF RedeemDelete
  <2>3. task'[h].pc \in {"idle", "read"}
    BY <1>7 DEF RedeemDelete, Goto, Return, TypeOK, Tasks, Idle, At
  <2>4. \A s \in Tokens : token[s].state = "gone" => token'[s].state = "gone"
    BY <1>7 DEF RedeemDelete, Burn, TypeOK, TokenRecords
  <2>5. WoundIsGranted' /\ WritesAhead' /\ NoFreeFile'
    BY <2>1, <2>2, <2>3, KeepsClocks
  <2>6. CASE task'[h].pc = "idle" /\ UNCHANGED paid
    <3>1. HoldsToken' /\ OwesAlone' /\ BurntIsGone' /\ TokenHonoured' /\ BurntIsPaid'
      BY <2>1, <2>2, <2>4, <2>6, KeepsBooks
    <3> QED  BY <2>5, <3>1 DEF Links, Promises
  <2>7. CASE /\ token[t].state # "gone" /\ token'[t].state = "gone"
             /\ paid' = [paid EXCEPT ![t].burnt = TRUE]
             /\ task'[h].pc = "read" /\ task'[h].tok = t
    <3>1. ~paid[t].burnt /\ paid[t].grants = 0
      BY <2>2, <2>7 DEF Links, BurntIsGone, Promises, TokenHonoured, TypeOK
    <3>2. Owing(t) = {}
      BY <2>2, <3>1 DEF Links, OwesAlone
    <3>3. /\ paid'[t].burnt /\ paid'[t].grants = 0
          /\ \A s \in Tokens \ {t} : paid'[s] = paid[s]
      BY <2>2, <2>7, <3>1 DEF TypeOK
    <3>4. /\ Owing(t)' = {h}
          /\ \A s \in Tokens \ {t} : Owing(s)' = Owing(s)
      BY <2>1, <2>2, <2>7, <3>2 DEF Owing
    <3>5. HoldsToken'
      BY <2>1, <2>7 DEF Links, HoldsToken
    <3>6. OwesAlone'
      <4> SUFFICES ASSUME NEW s \in Tokens, NEW f \in Owing(s)'
                   PROVE  /\ paid'[s].burnt /\ paid'[s].grants = 0
                          /\ \A g \in Owing(s)' : g = f
        BY DEF OwesAlone
      <4>1. CASE s = t
        BY <3>3, <3>4, <4>1
      <4>2. CASE s # t
        BY <3>3, <3>4, <4>2 DEF Links, OwesAlone
      <4> QED  BY <4>1, <4>2
    <3>7. BurntIsGone'
      BY <2>4, <2>7, <3>3 DEF Links, BurntIsGone
    <3>8. TokenHonoured'
      BY <2>2, <3>3 DEF Promises, TokenHonoured, TypeOK
    <3>9. BurntIsPaid'
      <4> SUFFICES ASSUME NEW s \in Tokens, paid'[s].burnt, faults = 0
                   PROVE  paid'[s].grants = 1 \/ Owing(s)' # {}
        BY <2>2 DEF BurntIsPaid
      <4>1. CASE s = t
        BY <3>4, <4>1
      <4>2. CASE s # t
        BY <3>3, <3>4, <4>2 DEF Promises, BurntIsPaid
      <4> QED  BY <4>1, <4>2
    <3> QED  BY <2>5, <3>5, <3>6, <3>7, <3>8, <3>9 DEF Links, Promises
  <2> QED
    <3>1. \/ task'[h].pc = "idle" /\ UNCHANGED paid
          \/ /\ token[t].state # "gone" /\ token'[t].state = "gone"
             /\ paid' = [paid EXCEPT ![t].burnt = TRUE]
             /\ task'[h].pc = "read" /\ task'[h].tok = t
      BY <1>7, <2>2 DEF RedeemDelete, Burn, Goto, Return, TypeOK, Tasks, TokenRecords,
                        Idle, At
    <3> QED  BY <2>6, <2>7, <3>1
<1>8. ASSUME NEW h \in Handlers, NEW d \in Durations, GrantRead(h, d)
      PROVE  Kept
  <2>1. \A g \in Handlers : g # h => task'[g] = task[g]
    BY <1>8 DEF GrantRead, TypeOK
  <2>2. /\ task[h].pc = "read" /\ task'[h].pc = "write"
        /\ task'[h].tok = task[h].tok
        /\ task'[h].expiry >= task'[h].seen
        /\ UNCHANGED <<token, paid, faults, until, granted, served>>
    <3> DEFINE old == task[h]
               current == until[old.user]
               new == [old EXCEPT !.pc = "write", !.dur = d, !.seen = current,
                                  !.expiry = Base(current) + d]
    <3>1. /\ old.pc = "read" /\ task' = [task EXCEPT ![h] = new]
          /\ UNCHANGED <<token, paid, faults, until, granted, served>>
      BY <1>8 DEF GrantRead
    <3>2. old \in Tasks
      BY DEF TypeOK
    <3>3. task'[h] = new
      BY <3>1 DEF TypeOK
    <3>4. current \in Nat /\ now \in Nat /\ d \in Nat
      BY <3>2 DEF TypeOK, Tasks
    <3> HIDE DEF current
    <3>5. Base(current) + d >= current
      BY <3>4 DEF Base
    <3> HIDE DEF old
    <3>6. new.pc = "write" /\ new.tok = old.tok /\ new.seen = current
          /\ new.expiry = Base(current) + d
      BY <3>2 DEF Tasks
    <3> QED  BY <3>1, <3>3, <3>5, <3>6 DEF old
  <2>3. \A t \in Tokens : Owing(t)' = Owing(t)
    BY <2>1, <2>2 DEF Owing
  <2>4. HoldsToken' /\ OwesAlone' /\ BurntIsGone' /\ WoundIsGranted' /\ WritesAhead'
    BY <2>1, <2>2, <2>3 DEF Links, HoldsToken, OwesAlone, BurntIsGone,
                            WoundIsGranted, WritesAhead
  <2>5. Promises'
    BY <2>2, <2>3 DEF Promises, TokenHonoured, BurntIsPaid, NoFreeFile
  <2> QED  BY <2>4, <2>5 DEF Links
<1>9. ASSUME NEW h \in Handlers, GrantWrite(h)
      PROVE  Kept
  <2>1. /\ \A g \in Handlers : g # h => task'[g] = task[g]
        /\ task[h].pc = "write" /\ task'[h].pc = "idle" /\ task'[h].tok = NoToken
        /\ UNCHANGED <<token, faults, served>>
    BY <1>9 DEF GrantWrite, Return, TypeOK, Idle, At
  <2>2. WoundIsGranted'
    <3>1. granted' = granted \cup {task[h].user}
      BY <1>9 DEF GrantWrite
    <3>2. \A u \in Users : u # task[h].user => until'[u] = until[u]
      BY <1>9 DEF GrantWrite, TypeOK
    <3> QED  BY <2>1, <3>1, <3>2 DEF Links, WoundIsGranted
  <2>3. HoldsToken' /\ WritesAhead'
    BY <2>1 DEF Links, HoldsToken, WritesAhead
  <2>4. NoFreeFile'
    BY <1>9 DEF GrantWrite, Promises, NoFreeFile
  <2>5. \A s \in Tokens : Owing(s)' = Owing(s) \ {h}
    BY <2>1 DEF Owing
  <2>6. CASE task[h].tok = NoToken
    <3>1. UNCHANGED paid
      BY <1>9, <2>6 DEF GrantWrite
    <3>2. \A s \in Tokens : Owing(s)' = Owing(s)
      BY <2>5, <2>6 DEF Owing
    <3>3. OwesAlone' /\ BurntIsGone'
      BY <2>1, <3>1, <3>2 DEF Links, OwesAlone, BurntIsGone
    <3>4. TokenHonoured' /\ BurntIsPaid'
      BY <2>1, <3>1, <3>2 DEF Promises, TokenHonoured, BurntIsPaid
    <3> QED  BY <2>2, <2>3, <2>4, <3>3, <3>4 DEF Links, Promises
  <2>7. CASE task[h].tok # NoToken
    <3>0. PICK t \in Tokens : t = task[h].tok
      BY <2>7 DEF TypeOK, Tasks
    <3>1. h \in Owing(t)
      BY <2>1, <3>0 DEF Owing
    <3>2. /\ paid[t].burnt /\ paid[t].grants = 0
          /\ Owing(t) = {h}
      BY <3>1 DEF Links, OwesAlone, Owing
    <3>3. /\ paid'[t].burnt /\ paid'[t].grants = 1
          /\ \A s \in Tokens \ {t} : paid'[s] = paid[s]
      BY <1>9, <2>7, <3>0, <3>2 DEF GrantWrite, TypeOK
    <3>4. /\ Owing(t)' = {}
          /\ \A s \in Tokens \ {t} : Owing(s)' = Owing(s)
      <4>1. \A s \in Tokens \ {t} : h \notin Owing(s)
        BY <3>0 DEF Owing
      <4>2. Owing(t)' = {}
        BY <2>5, <3>2
      <4>3. ASSUME NEW s \in Tokens \ {t}
            PROVE  Owing(s)' = Owing(s)
        BY <2>5, <4>1
      <4> QED  BY <4>2, <4>3
    <3>5. OwesAlone'
      <4> SUFFICES ASSUME NEW s \in Tokens, NEW f \in Owing(s)'
                   PROVE  /\ paid'[s].burnt /\ paid'[s].grants = 0
                          /\ \A g \in Owing(s)' : g = f
        BY DEF OwesAlone
      <4>1. s # t
        BY <3>4
      <4> QED  BY <3>3, <3>4, <4>1 DEF Links, OwesAlone
    <3>6. BurntIsGone'
      BY <2>1, <3>1, <3>2, <3>3 DEF Links, BurntIsGone
    <3>7. TokenHonoured' /\ BurntIsPaid'
      BY <2>1, <3>3, <3>4 DEF Promises, TokenHonoured, BurntIsPaid
    <3> QED  BY <2>2, <2>3, <2>4, <3>5, <3>6, <3>7 DEF Links, Promises
  <2> QED  BY <2>6, <2>7
<1>10. ASSUME NEW u \in Users, RevokeAccess(u)
       PROVE  Kept
  <2>1. /\ \A v \in Users : until'[v] > 0 => until[v] > 0
        /\ UNCHANGED <<token, task, faults, paid, granted, served>>
    BY <1>10 DEF RevokeAccess, TypeOK
  <2>2. Links'
    BY <2>1 DEF Links, HoldsToken, OwesAlone, BurntIsGone, WoundIsGranted,
                WritesAhead, Owing
  <2>3. Promises'
    BY <2>1 DEF Promises, TokenHonoured, BurntIsPaid, NoFreeFile, Owing
  <2> QED  BY <2>2, <2>3
<1>11. ASSUME SetShortener \/ (\E on \in BOOLEAN : Shortlink(on)) \/ Tick
       PROVE  Kept
  <2>1. UNCHANGED <<until, task, faults, paid, granted, served>>
    BY <1>11 DEF SetShortener, Shortlink, Tick
  <2>2. \A t \in Tokens : token[t].state = "gone" => token'[t].state = "gone"
    BY <1>11 DEF SetShortener, Shortlink, Tick, Live
  <2>3. Links'
    BY <2>1, <2>2 DEF Links, HoldsToken, OwesAlone, BurntIsGone, WoundIsGranted,
                      WritesAhead, Owing
  <2>4. Promises'
    BY <2>1 DEF Promises, TokenHonoured, BurntIsPaid, NoFreeFile, Owing
  <2> QED  BY <2>3, <2>4
<1>12. ASSUME BotCrashes
       PROVE  Kept
  <2>1. /\ \A h \in Handlers : task'[h].pc = "idle"
        /\ faults' # 0
        /\ UNCHANGED <<until, token, paid, granted, served>>
    BY <1>12 DEF BotCrashes, Idle, At, TypeOK
  <2>2. \A t \in Tokens : Owing(t)' = {}
    BY <2>1 DEF Owing
  <2>3. Links'
    BY <2>1, <2>2 DEF Links, HoldsToken, OwesAlone, BurntIsGone, WoundIsGranted,
                      WritesAhead
  <2>4. Promises'
    BY <2>1 DEF Promises, TokenHonoured, BurntIsPaid, NoFreeFile
  <2> QED  BY <2>3, <2>4
<1>13. ASSUME NEW h \in Handlers, HandlerDies(h)
       PROVE  Kept
  <2>1. /\ task'[h].pc = "idle"
        /\ \A g \in Handlers : g # h => task'[g] = task[g]
        /\ faults' # 0
        /\ UNCHANGED <<until, token, paid, granted, served>>
    BY <1>13 DEF HandlerDies, Return, Idle, At, TypeOK
  <2>2. \A t \in Tokens : Owing(t)' \subseteq Owing(t)
    BY <2>1 DEF Owing
  <2>3. Links'
    BY <2>1, <2>2 DEF Links, HoldsToken, OwesAlone, BurntIsGone, WoundIsGranted,
                      WritesAhead
  <2>4. Promises'
    BY <2>1 DEF Promises, TokenHonoured, BurntIsPaid, NoFreeFile
  <2> QED  BY <2>3, <2>4
<1>14. ASSUME UNCHANGED vars
       PROVE  Kept
  <2>1. UNCHANGED <<until, token, task, faults, paid, granted, served>>
    BY <1>14 DEF vars
  <2>2. Links'
    BY <2>1 DEF Links, HoldsToken, OwesAlone, BurntIsGone, WoundIsGranted,
                WritesAhead, Owing
  <2>3. Promises'
    BY <2>1 DEF Promises, TokenHonoured, BurntIsPaid, NoFreeFile, Owing
  <2> QED  BY <2>2, <2>3
<1> QED
  BY <1>1, <1>2, <1>3, <1>4, <1>5, <1>6, <1>7, <1>8, <1>9, <1>10, <1>11, <1>12,
     <1>13, <1>14 DEF Next

------------------------------------------------------------------------------
\* IInv holds at the start and every step keeps it.
THEOREM Inductive == Spec => []IInv
<1>1. Init => IInv
  <2> SUFFICES ASSUME Init PROVE IInv
    OBVIOUS
  <2> USE AccessAssumption, AnyUserType, IdleType
  <2>1. TypeOK
    <3>1. [state |-> "unused", owner |-> AnyUser, exp |-> 0] \in TokenRecords
      BY DEF TokenRecords, TokenStates
    <3>2. task \in [Handlers -> Tasks]
      BY DEF Init
    <3>3. token \in [Tokens -> TokenRecords]
      BY <3>1 DEF Init
    <3>4. paid \in [Tokens -> [burnt : BOOLEAN, grants : Nat]]
      BY DEF Init
    <3>5. now \in 0..Horizon /\ begun \in 0..MaxGrants /\ faults \in 0..MaxFaults
      BY DEF Init
    <3>6. until \in [Users -> Nat]
      BY DEF Init
    <3>7. gate \in BOOLEAN /\ api \in BOOLEAN
      BY DEF Init
    <3>8. granted \subseteq Users /\ served \subseteq Users
      BY DEF Init
    <3> QED  BY <3>2, <3>3, <3>4, <3>5, <3>6, <3>7, <3>8 DEF TypeOK
  <2>2. \A h \in Handlers : task[h].pc = "idle"
    BY DEF Init, Idle, At
  <2>3. Links
    BY <2>2 DEF Init, Links, HoldsToken, OwesAlone, BurntIsGone, WoundIsGranted,
                WritesAhead, Owing
  <2>4. Promises
    BY DEF Init, Promises, TokenHonoured, BurntIsPaid, NoFreeFile
  <2> QED  BY <2>1, <2>3, <2>4 DEF IInv
<1>2. IInv /\ [Next]_vars => IInv'
  BY TypeStep, LinkStep DEF IInv, Links
<1> QED  BY <1>1, <1>2, PTL DEF Spec

\* The variables of the gate keep their types.
THEOREM TypeCorrect == Spec => []TypeOK
  BY Inductive, PTL DEF IInv

\* redeem_token's promise: a token pays for one grant at most, to its owner.
THEOREM TokenHonouredCorrect == Spec => []TokenHonoured
  BY Inductive, PTL DEF IInv, Promises

\* As long as nothing fails between the DEL and the commit, a burnt token is paid for.
THEOREM BurntIsPaidCorrect == Spec => []BurntIsPaid
  BY Inductive, PTL DEF IInv, Promises

\* The gate fails closed.
THEOREM NoFreeFileCorrect == Spec => []NoFreeFile
  BY Inductive, PTL DEF IInv, Promises

\* Only an overlapped grant or a revocation takes access away.
THEOREM CutBackOnlyByOverlapCorrect == Spec => CutBackOnlyByOverlap
<1> DEFINE Step ==
      \A u \in Users : until'[u] < until[u] =>
        \/ until'[u] = 0
        \/ \E h \in Handlers : /\ task[h].pc = "write" /\ task[h].user = u
                               /\ task[h].seen # until[u]
<1>1. IInv /\ [Next]_vars => [Step]_vars
  <2> SUFFICES ASSUME IInv, Next PROVE Step
    BY DEF vars
  <2>1. ASSUME NEW h \in Handlers, GrantWrite(h)
        PROVE  Step
    <3>1. task[h].pc = "write" /\ task[h].expiry >= task[h].seen
      BY <2>1 DEF GrantWrite, IInv, Links, WritesAhead
    <3>2. until' = [until EXCEPT ![task[h].user] = task[h].expiry]
      BY <2>1 DEF GrantWrite
    <3> QED  BY <3>1, <3>2 DEF IInv, TypeOK, Tasks
  <2>2. ASSUME NEW u \in Users, RevokeAccess(u)
        PROVE  Step
    BY <2>2 DEF RevokeAccess, IInv, TypeOK
  <2>3. ASSUME UNCHANGED until
        PROVE  Step
    BY <2>3 DEF IInv, TypeOK
  <2>4. \/ \E h \in Handlers : GrantWrite(h)
        \/ \E u \in Users : RevokeAccess(u)
        \/ UNCHANGED until
    BY DEF Next, Tap, AddPremium, RedeemGet, CheckAccess, MintToken, Shorten,
           ShortenFails, SendFile, RedeemDelete, GrantRead, SetShortener, Shortlink,
           Tick, BotCrashes, HandlerDies
  <2> QED  BY <2>1, <2>2, <2>3, <2>4
<1> QED  BY <1>1, Inductive, PTL DEF CutBackOnlyByOverlap, Spec
==============================================================================
