-------------------------------- MODULE Apps --------------------------------
(***************************************************************************)
(* The applications of an installation: the registry that loads them at    *)
(* start (api/extensions/registry.py), the bus their listeners hang on and *)
(* its memory of what a workspace has switched on (api/extensions/hooks.py),*)
(* the table of installs (api/extensions/installs.py) and the route that   *)
(* switches one (api/routes/apps.py), for one workspace.                   *)
(***************************************************************************)
EXTENDS Naturals, FiniteSets

CONSTANTS Packages,    \* modules named at start: [slug, hooks, asks, sound]
          SystemApps,  \* SYSTEM_APPS
          DefaultApps, \* DEFAULT_APPS
          Switches,    \* requests to switch an app
          Emissions    \* emissions of one event

ASSUME AppsAssumption == DefaultApps \cap SystemApps = {}

VARIABLES
  apps,        \* the package loaded under each slug
  refusals,    \* packages that were refused
  listeners,   \* what the bus would call
  catalogue,   \* rows of the apps table
  installs,    \* app_installs: "none", "on" or "off"
  remembered,  \* the bus's cache: Unread, or a set of slugs
  generation,
  serving,     \* start-up is over
  switches,
  emissions

appVars == <<apps, refusals, listeners, catalogue, installs, remembered, generation, serving,
             switches, emissions>>
registry == <<apps, refusals, listeners>>

Slugs == {p.slug : p \in Packages}
Unloaded == [slug |-> "none", hooks |-> {}, asks |-> {}, sound |-> FALSE]
Unread == {"unread"}
Unasked == [at |-> "idle", slug |-> "none", on |-> FALSE, known |-> FALSE]
Unsent  == [at |-> "idle", generation |-> 0, enabled |-> {}, ran |-> {}]

AppsInit ==
  /\ apps = [s \in Slugs |-> Unloaded]
  /\ refusals = {} /\ listeners = {} /\ catalogue = DefaultApps
  /\ installs = [s \in Slugs |-> IF s \in DefaultApps THEN "on" ELSE "none"]
  /\ remembered = Unread /\ generation = 0 /\ serving = FALSE
  /\ switches = [r \in Switches |-> Unasked]
  /\ emissions = [e \in Emissions |-> Unsent]

(***************************************************************************)
(* The registry.                                                           *)
(***************************************************************************)
\* register(): a package that raises, or that listens to what its manifest does not
\* declare, is unsubscribed again.
Registered(p) ==
  IF p.sound /\ p.asks \subseteq p.hooks
  THEN listeners \cup {[slug |-> p.slug, event |-> e] : e \in p.asks}
  ELSE {l \in listeners : l.slug # p.slug}

\* load. A slug that is taken is refused before anything of it runs.
Load(p) ==
  /\ ~serving /\ p \notin refusals /\ apps[p.slug] # p
  /\ IF apps[p.slug] # Unloaded
     THEN UNCHANGED <<apps, listeners>> /\ refusals' = refusals \cup {p}
     ELSE /\ listeners' = Registered(p)
          /\ IF p.sound /\ p.asks \subseteq p.hooks
             THEN apps' = [apps EXCEPT ![p.slug] = p] /\ UNCHANGED refusals
             ELSE refusals' = refusals \cup {p} /\ UNCHANGED apps
  /\ UNCHANGED <<catalogue, installs, remembered, generation, serving, switches, emissions>>

\* sync_catalogue: a row for every app that was loaded; rows of others stay.
Syncs ==
  /\ ~serving /\ serving' = TRUE
  /\ catalogue' = catalogue \cup {s \in Slugs : apps[s] # Unloaded}
  /\ UNCHANGED <<registry, installs, remembered, generation, switches, emissions>>

(***************************************************************************)
(* Switching.                                                              *)
(***************************************************************************)
\* switch: the app has a row and is not part of the core.
AsksToSwitch(r) ==
  /\ serving /\ switches[r].at = "idle"
  /\ \E s \in catalogue \ SystemApps, on \in BOOLEAN :
       switches' = [switches EXCEPT ![r] =
                      [at |-> "asked", slug |-> s, on |-> on, known |-> installs[s] # "none"]]
  /\ UNCHANGED <<registry, catalogue, installs, remembered, generation, serving, emissions>>

\* install: switching off what was never installed writes nothing, and of two first
\* installs the second breaks on the unique pair.
Clashes(s) == s.on /\ ~s.known /\ installs[s.slug] # "none"

Commits(r) ==
  LET s == switches[r] IN
  /\ s.at = "asked"
  /\ IF Clashes(s)
     THEN switches' = [switches EXCEPT ![r].at = "done"] /\ UNCHANGED installs
     ELSE /\ switches' = [switches EXCEPT ![r].at = "committed"]
          /\ installs' = IF s.on \/ s.known
                         THEN [installs EXCEPT ![s.slug] = IF s.on THEN "on" ELSE "off"]
                         ELSE installs
  /\ UNCHANGED <<registry, catalogue, remembered, generation, serving, emissions>>

\* forget, after the commit and never before.
Forgets(r) ==
  /\ switches[r].at = "committed"
  /\ remembered' = Unread /\ generation' = generation + 1
  /\ switches' = [switches EXCEPT ![r].at = "done"]
  /\ UNCHANGED <<registry, catalogue, installs, serving, emissions>>

(***************************************************************************)
(* Emitting.                                                               *)
(***************************************************************************)
\* enabled_slugs.
EnabledSlugs == {s \in Slugs : installs[s] = "on"} \cup SystemApps

Runs(e, enabled) ==
  emissions' = [emissions EXCEPT ![e] =
                  [@ EXCEPT !.at = "done", !.ran = {l.slug : l \in listeners} \cap enabled]]

\* emit: what is remembered is used; otherwise the table is asked.
Emit(e) ==
  /\ serving /\ emissions[e].at = "idle" /\ listeners # {}
  /\ IF remembered # Unread
     THEN Runs(e, remembered)
     ELSE emissions' = [emissions EXCEPT ![e].at = "asks", ![e].generation = generation]
  /\ UNCHANGED <<registry, catalogue, installs, remembered, generation, serving, switches>>

Looks(e) ==
  /\ emissions[e].at = "asks"
  /\ \/ emissions' = [emissions EXCEPT ![e].at = "knows", ![e].enabled = EnabledSlugs]
     \/ Runs(e, {})          \* a lookup that fails runs no listener
  /\ UNCHANGED <<registry, catalogue, installs, remembered, generation, serving, switches>>

\* A mutant: whatever was read is remembered.
RemembersAnyway(e) ==
  /\ emissions[e].at = "knows"
  /\ remembered' = emissions[e].enabled
  /\ Runs(e, emissions[e].enabled)
  /\ UNCHANGED <<registry, catalogue, installs, generation, serving, switches>>

\* An answer that began before a switch is used once and not remembered.
Remembers(e) ==
  /\ emissions[e].at = "knows"
  /\ remembered' = IF emissions[e].generation = generation THEN emissions[e].enabled ELSE remembered
  /\ Runs(e, emissions[e].enabled)
  /\ UNCHANGED <<registry, catalogue, installs, generation, serving, switches>>

\* The process ends; what it remembered and loaded goes with it.
AppsStop ==
  /\ apps' = [s \in Slugs |-> Unloaded] /\ refusals' = {} /\ listeners' = {}
  /\ remembered' = Unread /\ generation' = 0 /\ serving' = FALSE
  /\ switches' = [r \in Switches |-> IF switches[r].at = "idle" THEN Unasked
                                     ELSE [switches[r] EXCEPT !.at = "done"]]
  /\ emissions' = [e \in Emissions |-> Unsent]
  /\ UNCHANGED <<catalogue, installs>>

AppsNext ==
  \/ \E p \in Packages : Load(p)
  \/ Syncs \/ AppsStop
  \/ \E r \in Switches : AsksToSwitch(r) \/ Commits(r) \/ Forgets(r)
  \/ \E e \in Emissions : Emit(e) \/ Looks(e) \/ Remembers(e)

AppsSpec == AppsInit /\ [][AppsNext]_appVars

(***************************************************************************)
(* Properties.                                                             *)
(***************************************************************************)
\* What the bus remembers is what the table says, but for a switch that is committed and
\* has not yet said so: an emission after that never runs an app that is off (hooks.py,
\* forget and _enabled_in).
MemoryIsCurrent ==
  remembered # Unread
    => remembered = EnabledSlugs \/ \E r \in Switches : switches[r].at = "committed"
=============================================================================
