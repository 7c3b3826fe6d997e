---------------------------- MODULE MCOperations ----------------------------
(* Instances of JobRunner and of the modules about running an installation for TLC: each
   behaviour is about one of them, and the others keep still. *)
EXTENDS JobRunner, Backups, Apps, Settings, Desk, TLC

VARIABLE scene

\* Backoff grows with the attempts, as BACKOFF_SECONDS does.
MCBackoff == [n \in 1..MaxAttempts |-> n]
MCInterval == [t \in Task |-> 2]
Symmetric == Permutations(Job)

MCChores ==
  {{"night", "days"}, {"night", "manual", "days"},
   {"night", "breaks", "deal", "spoiled", "untargeted"},
   {"manual", "arrivals", "restore", "stops", "named"},
   {"night", "delete", "decays", "stops", "spoiled", "none"},
   {"night", "days", "restore", "stops"}}

MCTakes(c) == IF c = {"night", "days"} THEN 4 ELSE 2

Package(s, h, a, ok) == [slug |-> s, hooks |-> h, asks |-> a, sound |-> ok]
MCPackages ==
  {Package("web", {"e"}, {"e"}, TRUE), Package("web", {"f"}, {"f"}, FALSE),
   Package("sms", {"e", "f"}, {"e"}, TRUE), Package("core", {"e"}, {"e", "f"}, TRUE)}

MCOffices ==
  {{"add_rule", "change_rule", "remove_rule"},
   {"edit_assistant", "delete_assistant", "add_webhook", "edit_webhook", "remove_webhook", "rotate_secret"},
   {"add_assistant", "delete_assistant", "add_knowledge", "edit_knowledge", "remove_knowledge"},
   {"add_service", "edit_service", "remove_service"},
   {"add_contact", "change_contact", "remove_contact"},
   {"add_number", "change_status", "release_number"}}

\* A module that keeps still starts in one state only.
MCInit ==
  /\ scene \in {"jobs", "backups", "apps", "settings", "desk"}
  /\ Init
  /\ BackupsInit /\ (scene # "backups" => chores = {"night", "days"})
  /\ AppsInit
  /\ SettingsInit /\ (scene # "settings" => /\ scope = "workspace" /\ crew = {"one", "use"}
                                           /\ settings = [k \in Keys |-> {}])
  /\ DeskInit /\ (scene # "desk" => office = {"add_number", "change_status", "release_number"})

Still(s) ==
  /\ s # "jobs" => UNCHANGED vars
  /\ s # "backups" => UNCHANGED backupVars
  /\ s # "apps" => UNCHANGED appVars
  /\ s # "settings" => UNCHANGED settingVars
  /\ s # "desk" => UNCHANGED deskVars

\* A job queue at rest may stay so: every other scene stops as well.
MCNext ==
  \/ scene = "jobs" /\ Next /\ Still("jobs")
  \/ scene = "backups" /\ BackupsNext /\ Still("backups")
  \/ scene = "apps" /\ AppsNext /\ Still("apps")
  \/ scene = "settings" /\ SettingsNext /\ Still("settings")
  \/ scene = "desk" /\ DeskNext /\ Still("desk")

MCVars == <<scene, vars, backupVars, appVars, settingVars, deskVars>>
MCSpec == MCInit /\ [][MCNext /\ UNCHANGED scene]_MCVars
=============================================================================
