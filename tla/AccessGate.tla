----------------------------- MODULE AccessGate -----------------------------
(***************************************************************************)
(* The gate in front of file delivery: bot/gate.py, bot/access.py,         *)
(* grant_access and revoke_access (shared/db/repos/users.py), and the      *)
(* handlers that drive them (bot/handlers/start.py, callbacks.py,          *)
(* access_admin.py).  One step is one Redis command, one statement of a    *)
(* transaction or one HTTP answer; handlers interleave at every await.     *)
(***************************************************************************)
EXTENDS Integers

CONSTANTS
  Users,       \* Telegram users
  Handlers,    \* handler coroutines in flight at once
  Tokens,      \* verification tokens that can be minted
  NoToken,     \* "not a verification"
  TokenTTL,    \* access._TOKEN_TTL
  Durations,   \* access_hours, and what /addpremium can grant
  Horizon,     \* bound on time
  MaxGrants,   \* bound on grants begun
  MaxFaults    \* bound on bot crashes and handlers that raise

ASSUME AccessAssumption ==
  /\ Users # {}
  /\ NoToken \notin Tokens
  /\ TokenTTL \in Nat \ {0}
  /\ Durations \subseteq Nat \ {0}
  /\ Horizon \in Nat
  /\ MaxGrants \in Nat
  /\ MaxFaults \in Nat

VARIABLES
  now,
  until,     \* users.access_until; 0 is NULL
  gate,      \* settings gate_enabled
  api,       \* whether a shortener token is configured
  token,     \* Redis verify:<token>, and whether its link reached a chat
  task,      \* each handler: where it awaits, and its locals
  begun,     \* grants begun
  faults,
  \* Ghosts.
  paid,      \* tokens burnt by their owner, and the grants each led to
  granted,   \* users who ever received a grant
  served     \* users who received a file past a closed gate

vars == <<now, until, gate, api, token, task, begun, faults, paid, granted, served>>

\* "unused" tokens are strings secrets.token_urlsafe has not produced yet.
TokenStates == {"unused", "minted", "sent", "gone"}
Live == {"minted", "sent"}
TokenRecords == [state : TokenStates, owner : Users, exp : Nat]

Pcs == {"idle", "check", "mint", "shorten", "send", "burn", "read", "write"}
Tasks == [pc : Pcs, user : Users, tok : Tokens \cup {NoToken}, owner : Users,
          dur : Durations \cup {0}, seen : Nat, expiry : Nat]

\* Locals mean nothing while no handler runs.
AnyUser == CHOOSE u \in Users : TRUE
At(pc, u) == [pc |-> pc, user |-> u, tok |-> NoToken, owner |-> u,
              dur |-> 0, seen |-> 0, expiry |-> 0]
Idle == At("idle", AnyUser)

TypeOK ==
  /\ now \in 0..Horizon
  /\ until \in [Users -> Nat]
  /\ gate \in BOOLEAN /\ api \in BOOLEAN
  /\ token \in [Tokens -> TokenRecords]
  /\ task \in [Handlers -> Tasks]
  /\ begun \in 0..MaxGrants
  /\ faults \in 0..MaxFaults
  /\ paid \in [Tokens -> [burnt : BOOLEAN, grants : Nat]]
  /\ granted \subseteq Users /\ served \subseteq Users

Init ==
  /\ now = 0
  /\ until = [u \in Users |-> 0]
  /\ gate = FALSE /\ api = FALSE
  /\ token = [t \in Tokens |-> [state |-> "unused", owner |-> AnyUser, exp |-> 0]]
  /\ task = [h \in Handlers |-> Idle]
  /\ begun = 0 /\ faults = 0
  /\ paid = [t \in Tokens |-> [burnt |-> FALSE, grants |-> 0]]
  /\ granted = {} /\ served = {}

Goto(h, pc) == task' = [task EXCEPT ![h].pc = pc]
Return(h) == task' = [task EXCEPT ![h] = Idle]

------------------------------------------------------------------------------
(* gate.blocked and what follows it.                                       *)

Tap(h, u) ==
  /\ task[h].pc = "idle"
  /\ gate  \* with the gate off the file goes out and nothing here changes
  /\ task' = [task EXCEPT ![h] = At("check", u)]
  /\ UNCHANGED <<now, until, gate, api, token, begun, faults, paid, granted, served>>

HasAccess(u) == until[u] > now

CheckAccess(h) ==
  /\ task[h].pc = "check"
  /\ Goto(h, IF HasAccess(task[h].user) THEN "send" ELSE "mint")
  /\ UNCHANGED <<now, until, gate, api, token, begun, faults, paid, granted, served>>

Slip_MintToken(h, t) ==  \* stores the token where the user belongs
  /\ task[h].pc = "mint"
  /\ token[t].state = "unused"
  /\ token' = [token EXCEPT ![t] = [state |-> "minted", owner |-> t,
                                    exp |-> now + TokenTTL]]
  /\ task' = [task EXCEPT ![h].pc = "shorten", ![h].tok = t]
  /\ UNCHANGED <<now, until, gate, api, begun, faults, paid, granted, served>>

MintToken(h, t) ==
  /\ task[h].pc = "mint"
  /\ token[t].state = "unused"
  /\ token' = [token EXCEPT ![t] = [state |-> "minted", owner |-> task[h].user,
                                    exp |-> now + TokenTTL]]
  /\ task' = [task EXCEPT ![h].pc = "shorten", ![h].tok = t]
  /\ UNCHANGED <<now, until, gate, api, begun, faults, paid, granted, served>>

\* The card with the shortened link is sent; from then on anyone who sees it can
\* open it, its owner or not.
Shorten(h) ==
  /\ task[h].pc = "shorten"
  /\ api
  /\ token' = [token EXCEPT ![task[h].tok].state = IF @ = "minted" THEN "sent" ELSE @]
  /\ Return(h)
  /\ UNCHANGED <<now, until, gate, api, begun, faults, paid, granted, served>>

Slip_ShortenFails(h) ==  \* hands the file over when the provider is down
  /\ task[h].pc = "shorten"
  /\ Goto(h, "send")
  /\ UNCHANGED <<now, until, gate, api, token, begun, faults, paid, granted, served>>

\* The provider fails: no file, and a link nobody gets to see.
ShortenFails(h) ==
  /\ task[h].pc = "shorten"
  /\ Return(h)
  /\ UNCHANGED <<now, until, gate, api, token, begun, faults, paid, granted, served>>

SendFile(h) ==
  /\ task[h].pc = "send"
  /\ served' = served \cup {task[h].user}
  /\ Return(h)
  /\ UNCHANGED <<now, until, gate, api, token, begun, faults, paid, granted>>

------------------------------------------------------------------------------
(* /start verify_<token>.                                                  *)

\* redeem_token: GET.  A token that is unknown or expired ends it here.
RedeemGet(h, u, t) ==
  /\ task[h].pc = "idle"
  /\ token[t].state = "sent"
  /\ task' = [task EXCEPT ![h] = [At("burn", u) EXCEPT !.tok = t,
                                                       !.owner = token[t].owner]]
  /\ UNCHANGED <<now, until, gate, api, token, begun, faults, paid, granted, served>>

Burn(t) == token' = [token EXCEPT ![t].state = "gone"]

Slip_RedeemDelete(h) ==  \* does not ask whether it won the DEL
  /\ task[h].pc = "burn"
  /\ Burn(task[h].tok)
  /\ \/ /\ task[h].owner = task[h].user
        /\ paid' = [paid EXCEPT ![task[h].tok].burnt = TRUE]
        /\ Goto(h, "read")
     \/ /\ task[h].owner # task[h].user
        /\ Return(h)
        /\ UNCHANGED paid
  /\ UNCHANGED <<now, until, gate, api, begun, faults, granted, served>>

Slip_RedeemLost(h) ==  \* the token is gone and nobody is granted anything
  /\ task[h].pc = "burn"
  /\ Burn(task[h].tok)
  /\ paid' = [paid EXCEPT ![task[h].tok].burnt = task[h].owner = task[h].user]
  /\ Return(h)
  /\ UNCHANGED <<now, until, gate, api, begun, faults, granted, served>>

\* DEL: only the handler that removed the key goes on, and only for its owner.
RedeemDelete(h) ==
  LET t == task[h].tok IN
  /\ task[h].pc = "burn"
  /\ \/ /\ token[t].state = "gone"
        /\ Return(h)
        /\ UNCHANGED <<token, paid>>
     \/ /\ token[t].state # "gone"
        /\ task[h].owner # task[h].user
        /\ Burn(t)
        /\ Return(h)
        /\ UNCHANGED paid
     \/ /\ token[t].state # "gone"
        /\ task[h].owner = task[h].user
        /\ Burn(t)
        /\ paid' = [paid EXCEPT ![t].burnt = TRUE]
        /\ Goto(h, "read")
  /\ UNCHANGED <<now, until, gate, api, begun, faults, granted, served>>

------------------------------------------------------------------------------
(* grant_access: a SELECT and an upsert, nothing locked in between.        *)

AddPremium(h, u) ==
  /\ task[h].pc = "idle"
  /\ task' = [task EXCEPT ![h] = At("read", u)]
  /\ UNCHANGED <<now, until, gate, api, token, begun, faults, paid, granted, served>>

Slip_Base(current) == now
Base(current) == IF current > now THEN current ELSE now

GrantRead(h, d) ==
  LET current == until[task[h].user] IN
  /\ task[h].pc = "read"
  /\ begun < MaxGrants
  /\ begun' = begun + 1
  /\ task' = [task EXCEPT ![h].pc = "write", ![h].dur = d, ![h].seen = current,
                          ![h].expiry = Base(current) + d]
  /\ UNCHANGED <<now, until, gate, api, token, faults, paid, granted, served>>

GrantWrite(h) ==
  LET u == task[h].user  t == task[h].tok IN
  /\ task[h].pc = "write"
  /\ until' = [until EXCEPT ![u] = task[h].expiry]
  /\ granted' = granted \cup {u}
  /\ paid' = IF t = NoToken THEN paid ELSE [paid EXCEPT ![t].grants = @ + 1]
  /\ Return(h)
  /\ UNCHANGED <<now, gate, api, token, begun, faults, served>>

RevokeAccess(u) ==
  /\ until[u] # 0
  /\ until' = [until EXCEPT ![u] = 0]
  /\ UNCHANGED <<now, gate, api, token, task, begun, faults, paid, granted, served>>

------------------------------------------------------------------------------
(* Admin switches, time, and the process.                                  *)

SetShortener ==
  /\ ~api
  /\ api' = TRUE
  /\ UNCHANGED <<now, until, gate, token, task, begun, faults, paid, granted, served>>

Shortlink(on) ==
  /\ on => api
  /\ gate' = on
  /\ UNCHANGED <<now, until, api, token, task, begun, faults, paid, granted, served>>

\* Redis drops the tokens whose TTL has run out.
Tick ==
  /\ now < Horizon
  /\ now' = now + 1
  /\ token' = [t \in Tokens |->
                 IF token[t].state \in Live /\ token[t].exp <= now'
                 THEN [token[t] EXCEPT !.state = "gone"] ELSE token[t]]
  /\ UNCHANGED <<until, gate, api, task, begun, faults, paid, granted, served>>

\* Whatever a handler was about to do is lost; Redis and Postgres keep what it did.
BotCrashes ==
  /\ faults < MaxFaults
  /\ faults' = faults + 1
  /\ task' = [h \in Handlers |-> Idle]
  /\ UNCHANGED <<now, until, gate, api, token, begun, paid, granted, served>>

\* Postgres, Redis or Telegram fails under one handler: the exception ends it.
HandlerDies(h) ==
  /\ task[h].pc # "idle"
  /\ faults < MaxFaults
  /\ faults' = faults + 1
  /\ Return(h)
  /\ UNCHANGED <<now, until, gate, api, token, begun, paid, granted, served>>

------------------------------------------------------------------------------
Next ==
  \/ \E h \in Handlers :
       \/ \E u \in Users :
            \/ Tap(h, u)
            \/ AddPremium(h, u)
            \/ \E t \in Tokens : RedeemGet(h, u, t)
       \/ CheckAccess(h)
       \/ \E t \in Tokens : MintToken(h, t)
       \/ Shorten(h) \/ ShortenFails(h) \/ SendFile(h)
       \/ RedeemDelete(h)
       \/ \E d \in Durations : GrantRead(h, d)
       \/ GrantWrite(h)
       \/ HandlerDies(h)
  \/ \E u \in Users : RevokeAccess(u)
  \/ SetShortener
  \/ \E on \in BOOLEAN : Shortlink(on)
  \/ Tick
  \/ BotCrashes

Spec == Init /\ [][Next]_vars

------------------------------------------------------------------------------
(* Properties.                                                             *)

\* However many chats a link was forwarded to and however many taps race on it,
\* a token pays for at most one grant, and only if its owner burnt it.
TokenHonoured ==
  \A t \in Tokens : paid[t].grants <= (IF paid[t].burnt THEN 1 ELSE 0)

Owing(t) == {h \in Handlers : task[h].tok = t /\ task[h].pc \in {"read", "write"}}

\* A token its owner burnt has led to a grant or is about to: only a crash or an
\* exception between the DEL and the commit can eat it.
BurntIsPaid ==
  \A t \in Tokens :
    paid[t].burnt /\ faults = 0 => paid[t].grants = 1 \/ Owing(t) # {}

\* Past a closed gate a file goes only to somebody who was granted access at some
\* time: no failure of the shortener, lost race or expiry opens it.
NoFreeFile == served \subseteq granted

\* The clock goes back only by /removepremium, or by a grant that computed its
\* expiry before another change of the same clock.
CutBackOnlyByOverlap ==
  [][\A u \in Users : until'[u] < until[u] =>
       \/ until'[u] = 0
       \/ \E h \in Handlers : /\ task[h].pc = "write" /\ task[h].user = u
                              /\ task[h].seen # until[u]]_vars

\* What grant_access announces: a grant extends, it never cuts back.
GrantExtends ==
  [][\A u \in Users : until'[u] < until[u] => until'[u] = 0]_vars
==============================================================================
