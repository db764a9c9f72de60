------------------------------ MODULE Mirrors ------------------------------
(***************************************************************************)
(* The three places where Redis keeps a copy of what Postgres owns, in one *)
(* model: bans, settings and group filters.  They share no state, so their *)
(* interleavings add nothing: part names the one that moves.               *)
(***************************************************************************)
EXTENDS BanMirror, SettingsCache, GroupFilters

VARIABLE part

vars == <<part, banVars, cfgVars, grpVars>>

Init ==
  /\ part \in {"bans", "settings", "filters"}
  /\ BanInit /\ CfgInit /\ GrpInit

Next ==
  /\ UNCHANGED part
  /\ \/ part = "bans" /\ BanNext /\ UNCHANGED <<cfgVars, grpVars>>
     \/ part = "settings" /\ CfgNext /\ UNCHANGED <<banVars, grpVars>>
     \/ part = "filters" /\ GrpNext /\ UNCHANGED <<banVars, cfgVars>>

\* A handler that has begun goes on, and Redis drops a key whose TTL has passed; no
\* admin, user or reader is fair.
Spec ==
  /\ Init /\ [][Next]_vars
  /\ \A h \in CfgTasks : WF_cfgVars(part = "settings" /\ CfgStep(h))
  /\ \A k \in Keys : WF_cfgVars(part = "settings" /\ ExpireCopy(k))
  /\ \A h \in GrpTasks : WF_grpVars(part = "filters" /\ GrpStep(h))
  /\ WF_grpVars(part = "filters" /\ SeenExpires)

TypeOK == BanTypeOK /\ CfgTypeOK /\ GrpTypeOK

==============================================================================
