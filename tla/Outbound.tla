------------------------------ MODULE Outbound ------------------------------
(***************************************************************************)
(* What goes out and comes back: the rate governor every send goes         *)
(* through, the messages that delete themselves, and the poster lookups.   *)
(* They share no state; part names the one that moves, and for the         *)
(* messages which instance of it.                                          *)
(***************************************************************************)
EXTENDS Governor, Expiry, Enrichment

VARIABLE part

vars == <<part, govVars, expVars, enrVars>>

Init ==
  /\ part \in {"governor", "cards", "taps", "files", "posters"}
  /\ GovInit /\ ExpInit /\ EnrInit
  /\ part # "posters" => \A t \in EnrIds : enrich[t] = "absent"

\* One handler, two users and no files; two handlers and one card; or one card of
\* one user next to the files.
FirstHand == CHOOSE h \in Hands : TRUE
FirstCard == CHOOSE m \in Cards : \A k \in Cards : m <= k
Instance ==
  \/ part = "cards"
     /\ \A h \in Hands \ {FirstHand} : hand'[h] = HandIdle
     /\ \A m \in Files : msg'[m] = "unsent"
  \/ part = "taps"
     /\ \A m \in Messages \ {FirstCard} : msg'[m] = "unsent"
  \/ part = "files"
     /\ \A h \in Hands : hand'[h].by = SomeOwner
     /\ \A m \in Cards \ {FirstCard} : msg'[m] = "unsent"

Next ==
  /\ UNCHANGED part
  /\ \/ part = "governor" /\ GovNext /\ UNCHANGED <<expVars, enrVars>>
     \/ part \in {"cards", "taps", "files"} /\ ExpNext /\ Instance /\ UNCHANGED <<govVars, enrVars>>
     \/ part = "posters" /\ EnrNext /\ UNCHANGED <<govVars, expVars>>

\* The loops of the sweeper and of the posters outlive every exception and every
\* restart.
Spec ==
  /\ Init /\ [][Next]_vars
  /\ WF_expVars(part \in {"cards", "taps", "files"} /\ SweepStep)
  /\ WF_enrVars(part = "posters" /\ EnrStep)

TypeOK == GovTypeOK /\ ExpTypeOK /\ EnrTypeOK

==============================================================================
