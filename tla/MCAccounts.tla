----------------------------- MODULE MCAccounts -----------------------------
(* Instances of SignIn, Members and Access for TLC: each behaviour is about one of them,
   and the others keep still. *)
EXTENDS SignIn, Members, Access

VARIABLE scene

MCStories ==
  {{"login", "typo"}, {"key", "typo"}, {"forgot"}, {"code", "typo"}, {"code", "reset"},
   {"change", "typo"}, {"change", "reset"}, {"login", "change", "logout"}}

MCErrands ==
  {{"setup", "workspace"}, {"role", "remove"}, {"role", "workspace"}, {"invite", "accept", "remove"},
   {"invite", "relink", "accept"}, {"invite", "relink", "remove"}, {"invite", "role", "accept"}}

MCWays == {{"machine"}, {"public", "dashboard"}}

AtRest ==
  /\ scene # "signin" => kinds = {"forgot"} /\ sessions = {} /\ password.stale
  /\ scene # "members" => errands = {"setup", "workspace"} /\ made = {}
  /\ scene # "access" => ways = {"machine"}

MCInit ==
  /\ scene \in {"signin", "members", "access"}
  /\ SignInInit /\ MembersInit /\ AccessInit
  /\ AtRest

MCNext ==
  \/ scene = "signin" /\ SignInNext /\ UNCHANGED <<memberVars, accessVars>>
  \/ scene = "members" /\ MembersNext /\ UNCHANGED <<signInVars, accessVars>>
  \/ scene = "access" /\ AccessNext /\ UNCHANGED <<signInVars, memberVars>>

MCVars == <<scene, signInVars, memberVars, accessVars>>
MCSpec == MCInit /\ [][MCNext /\ UNCHANGED scene]_MCVars
=============================================================================
