------------------------------ MODULE Configure -----------------------------
(***************************************************************************)
(* configure() of src/engine.rs: the running app network is migrated to a  *)
(* new configuration, one HashMap or HashSet iteration at a time.          *)
(*                                                                         *)
(* Apps and links have an identity of their own besides their name, taken  *)
(* from a counter: an app or link that survives keeps it, a new one gets a *)
(* fresh one.  Links are reference counted (SharedLink): a link none of    *)
(* link_table, the ports of the apps and the copy of link_table that the   *)
(* first loop iterates over refers to is dropped, and its packets freed.   *)
(* Of the packets on a link only whether there are any is kept (`queued'). *)
(* A loop visits its elements in an arbitrary order: `todo' holds those it *)
(* has yet to visit.  A panic ends the process (pc = "panic").             *)
(***************************************************************************)
EXTENDS Integers, Functions

CONSTANTS
  AppNames,
  LinkSpecs,      \* parsed links: [from, output, to, input]
  Configs,        \* configurations: [apps, links], apps a function from names
  NoConfig,       \* the configuration before the first call of configure()
  MaxConfigures   \* bound: calls of configure()

\* Fields of an app configuration: its type, what {:?} shows of it, which
\* callbacks its app implements, and whether new() may panic (the NIC driver's
\* does unless it is run as root and finds the device).
AppConfig == {"type", "shown", "pull", "push", "stop", "fails"}

ASSUME ConfigureAssumption ==
  /\ \A s \in LinkSpecs : s.from \in AppNames /\ s.to \in AppNames
  /\ \A c \in Configs \union {NoConfig} :
        /\ DOMAIN c.apps \subseteq AppNames /\ c.links \subseteq LinkSpecs
        /\ \A n \in DOMAIN c.apps : DOMAIN c.apps[n] = AppConfig
  /\ DOMAIN NoConfig.apps = {} /\ NoConfig.links = {}
  /\ MaxConfigures \in Nat

VARIABLES
  app_table,      \* name -> [app, conf, input, output]
  link_table,     \* spec -> link
  inhale, exhale, \* the apps a breath calls, as sets
  queued,         \* links with packets on them
  pc, todo,       \* the loop of configure(), and what it has yet to visit
  config,         \* the configuration being, or last, applied
  copy,           \* links the copy of link_table refers to
  before,         \* the tables when configure() was called
  fresh,          \* next identity
  configures      \* calls of configure() so far

tables == <<app_table, link_table>>
vars   == <<app_table, link_table, inhale, exhale, queued, pc, todo, config,
            copy, before, fresh, configures>>

-----------------------------------------------------------------------------
(* HashMap operations and app configurations.                              *)

Nothing == [x \in {} |-> x]

Insert(map, k, v) == [x \in DOMAIN map \union {k} |-> IF x = k THEN v ELSE map[x]]
Remove(map, k)    == Restrict(map, DOMAIN map \ {k})

\* App a with its ports replaced.
WithPorts(a, input, output) ==
  [app |-> a.app, conf |-> a.conf, input |-> input, output |-> output]

\* format!("{}::{:?}", module_path!(), self): module_path!() is expanded where
\* it is written, in engine, so that only {:?} tells two configurations apart.
identity(conf) == conf.shown

equal(x, y) == identity(x) = identity(y)

\* The links some reference counted pointer in the tables or in the set c
\* points to.
Referenced(apps, links, c) ==
  Range(links) \union c
    \union UNION {Range(apps[n].input) \union Range(apps[n].output) : n \in DOMAIN apps}

\* Drop for Link, for the links that lost their last reference.
DropUnreferenced ==
  queued' = queued \intersect Referenced(app_table', link_table', copy')

Init ==
  /\ app_table = Nothing /\ link_table = Nothing
  /\ inhale = {} /\ exhale = {}
  /\ queued = {}
  /\ pc = "running" /\ todo = {}
  /\ config = NoConfig
  /\ copy = {}
  /\ before = [apps |-> Nothing, links |-> Nothing]
  /\ fresh = 0
  /\ configures = 0

-----------------------------------------------------------------------------
(* Between two calls of configure() the engine breathes: apps put packets  *)
(* on the links at their ports and take packets off them.  A link that     *)
(* lost both its ports to others keeps what it has.                        *)
Breathe ==
  /\ pc = "running"
  /\ IF inhale \union exhale \subseteq DOMAIN app_table
     THEN /\ LET ports == Referenced(app_table, Nothing, {})
             IN  \E filled \in SUBSET ports : queued' = (queued \ ports) \union filled
          /\ pc' = pc
     ELSE /\ pc' = "panic"
          /\ UNCHANGED queued
  /\ UNCHANGED <<tables, inhale, exhale, todo, config, copy, before, fresh, configures>>

ConfigureCall(c) ==
  /\ pc = "running"
  /\ configures < MaxConfigures
  /\ configures' = configures + 1
  /\ config' = c
  /\ before' = [apps |-> app_table, links |-> link_table]
  /\ copy' = Range(link_table)
  /\ pc' = "unlink"
  /\ todo' = DOMAIN link_table
  /\ UNCHANGED <<tables, inhale, exhale, queued, fresh>>

\* Fault: the link is only removed from the table.
unlink_apps_table_only(spec) ==
  /\ link_table' = Remove(link_table, spec)
  /\ UNCHANGED <<app_table, pc>>

\* Remove the link and whatever is at its ports.
unlink_apps(spec) ==
  /\ link_table' = Remove(link_table, spec)
  /\ app_table' =
       [n \in DOMAIN app_table |->
          LET a == app_table[n]
          IN  WithPorts(a,
                IF n = spec.to /\ spec.from \in DOMAIN app_table
                THEN Remove(a.input, spec.input) ELSE a.input,
                IF n = spec.from THEN Remove(a.output, spec.output) ELSE a.output)]
  /\ pc' = IF {spec.from, spec.to} \subseteq DOMAIN app_table THEN pc ELSE "panic"

\* Fault: every link goes.
KeepsLink_never(spec) == FALSE

KeepsLink(spec) == spec \in config.links

Unlink(spec) ==
  /\ pc = "unlink" /\ spec \in todo
  /\ IF KeepsLink(spec) THEN UNCHANGED <<tables, pc>> ELSE unlink_apps(spec)
  /\ todo' = todo \ {spec}
  /\ UNCHANGED copy
  /\ DropUnreferenced
  /\ UNCHANGED <<inhale, exhale, config, before, fresh, configures>>

\* The copy of link_table goes with the end of the loop.
UnlinkDone ==
  /\ pc = "unlink" /\ todo = {}
  /\ copy' = {}
  /\ pc' = "stop"
  /\ todo' = DOMAIN app_table
  /\ UNCHANGED tables
  /\ DropUnreferenced
  /\ UNCHANGED <<inhale, exhale, config, before, fresh, configures>>

\* Fault: an app with a changed configuration keeps running.
StopsApp_absent(name) == name \notin DOMAIN config.apps

\* Fault: every app is restarted.
StopsApp_always(name) == TRUE

StopsApp(name) ==
  \/ name \notin DOMAIN config.apps
  \/ ~equal(app_table[name].conf, config.apps[name])

\* stop() of the one app that implements it, the NIC driver, is panic!("NYI").
stop_app(name) ==
  /\ app_table' = Remove(app_table, name)
  /\ pc' = IF app_table[name].conf.stop THEN "panic" ELSE pc

Stop(name) ==
  /\ pc = "stop" /\ name \in todo
  /\ IF StopsApp(name) THEN stop_app(name) ELSE UNCHANGED <<app_table, pc>>
  /\ todo' = todo \ {name}
  /\ UNCHANGED <<link_table, copy>>
  /\ DropUnreferenced
  /\ UNCHANGED <<inhale, exhale, config, before, fresh, configures>>

StopDone ==
  /\ pc = "stop" /\ todo = {}
  /\ pc' = "start"
  /\ todo' = DOMAIN config.apps
  /\ UNCHANGED <<tables, inhale, exhale, queued, config, copy, before, fresh, configures>>

\* new() runs first: if it panics no app is inserted.
start_app(name) ==
  \/ /\ config.apps[name].fails
     /\ pc' = "panic"
     /\ UNCHANGED <<app_table, fresh>>
  \/ /\ app_table' = Insert(app_table, name,
                            [app   |-> fresh,   conf   |-> config.apps[name],
                             input |-> Nothing, output |-> Nothing])
     /\ fresh' = fresh + 1
     /\ UNCHANGED pc

Start(name) ==
  /\ pc = "start" /\ name \in todo
  /\ IF name \in DOMAIN app_table THEN UNCHANGED <<app_table, fresh, pc>>
                                  ELSE start_app(name)
  /\ todo' = todo \ {name}
  /\ UNCHANGED <<link_table, inhale, exhale, queued, config, copy, before, configures>>

StartDone ==
  /\ pc = "start" /\ todo = {}
  /\ pc' = "relink"
  /\ todo' = config.links
  /\ UNCHANGED <<tables, inhale, exhale, queued, config, copy, before, fresh, configures>>

\* Fault: only new links are put on ports.
link_apps_new(spec) ==
  LET Port(map, port) == IF spec \in DOMAIN link_table THEN map ELSE Insert(map, port, fresh)
  IN  /\ link_table' = IF spec \in DOMAIN link_table THEN link_table
                                                    ELSE Insert(link_table, spec, fresh)
      /\ fresh' = fresh + 1
      /\ app_table' =
           [n \in DOMAIN app_table |->
              [app_table[n] EXCEPT
                 !.output = IF n = spec.from THEN Port(@, spec.output) ELSE @,
                 !.input  = IF n = spec.to THEN Port(@, spec.input) ELSE @]]
      /\ pc' = IF {spec.from, spec.to} \subseteq DOMAIN app_table THEN pc ELSE "panic"

\* Put the link, which is allocated unless it exists, on its two ports.
link_apps(spec) ==
  LET exists == spec \in DOMAIN link_table
      link   == IF exists THEN link_table[spec] ELSE fresh
  IN  /\ link_table' = Insert(link_table, spec, link)
      /\ fresh' = IF exists THEN fresh ELSE fresh + 1
      /\ app_table' =
           [n \in DOMAIN app_table |->
              LET a == app_table[n]
              IN  WithPorts(a,
                    IF n = spec.to /\ spec.from \in DOMAIN app_table
                    THEN Insert(a.input, spec.input, link) ELSE a.input,
                    IF n = spec.from THEN Insert(a.output, spec.output, link) ELSE a.output)]
      /\ pc' = IF {spec.from, spec.to} \subseteq DOMAIN app_table THEN pc ELSE "panic"

Relink(spec) ==
  /\ pc = "relink" /\ spec \in todo
  /\ link_apps(spec)
  /\ todo' = todo \ {spec}
  /\ UNCHANGED copy
  /\ DropUnreferenced
  /\ UNCHANGED <<inhale, exhale, config, before, configures>>

Pullers == {n \in DOMAIN app_table : app_table[n].conf.pull}
Pushers == {n \in DOMAIN app_table : app_table[n].conf.push}

\* Fault: the old order is not cleared.
compute_breathe_order_appends ==
  /\ inhale' = inhale \union Pullers
  /\ exhale' = exhale

\* What BreatheOrder shows of the result, as sets: inhale holds the pull apps,
\* exhale push apps only, each at the end of a link.
compute_breathe_order ==
  /\ inhale' = Pullers
  /\ exhale' \in SUBSET {n \in Pushers : \E s \in DOMAIN link_table : s.to = n}

RelinkDone ==
  /\ pc = "relink" /\ todo = {}
  /\ compute_breathe_order
  /\ pc' = "running"
  /\ UNCHANGED <<tables, queued, todo, config, copy, before, fresh, configures>>

Next ==
  \/ Breathe
  \/ \E c \in Configs : ConfigureCall(c)
  \/ \E spec \in LinkSpecs : Unlink(spec) \/ Relink(spec)
  \/ \E name \in AppNames : Stop(name) \/ Start(name)
  \/ UnlinkDone \/ StopDone \/ StartDone \/ RelinkDone

Spec == Init /\ [][Next]_vars

-----------------------------------------------------------------------------
(* Properties.                                                             *)

LinksSoFar == 0 .. fresh - 1

\* The tables map names and specs to apps and links that exist, and only a
\* link something refers to has packets on it.
TypeOK ==
  /\ DOMAIN app_table \subseteq AppNames
  /\ \A n \in DOMAIN app_table :
        /\ app_table[n].app \in LinksSoFar
        /\ Range(app_table[n].input) \union Range(app_table[n].output) \subseteq LinksSoFar
  /\ DOMAIN link_table \subseteq LinkSpecs
  /\ Range(link_table) \subseteq LinksSoFar
  /\ queued \subseteq Referenced(app_table, link_table, copy)
  /\ pc \in {"running", "unlink", "stop", "start", "relink", "panic"}

\* "Configure the running app network to match (new) config" (engine.rs:142):
\* the apps and links are those of the configuration, and each app was
\* created from a configuration equal() to its own.
NetworkMatches ==
  pc = "running" =>
    /\ DOMAIN app_table = DOMAIN config.apps
    /\ \A n \in DOMAIN app_table : equal(app_table[n].conf, config.apps[n])
    /\ DOMAIN link_table = config.links

\* "by making the changes needed" (engine.rs:145), and no other: an app whose
\* configuration did not change and a link that stays are the ones that ran
\* before, even if an app at the other end of the link was restarted.
Unchanged ==
  pc = "running" =>
    /\ \A n \in DOMAIN before.apps \intersect DOMAIN config.apps :
          equal(before.apps[n].conf, config.apps[n])
             => app_table[n].app = before.apps[n].app
    /\ \A s \in DOMAIN before.links \intersect config.links :
          link_table[s] = before.links[s]

\* Every port has a link of the table that belongs there, no port has a link
\* that is gone, and every link of the table is on a port at each end unless
\* another link has taken the port.
PortsMatch ==
  pc = "running" =>
    /\ \A n \in DOMAIN app_table :
          /\ \A port \in DOMAIN app_table[n].output :
                \E s \in DOMAIN link_table : /\ s.from = n /\ s.output = port
                                             /\ link_table[s] = app_table[n].output[port]
          /\ \A port \in DOMAIN app_table[n].input :
                \E s \in DOMAIN link_table : /\ s.to = n /\ s.input = port
                                             /\ link_table[s] = app_table[n].input[port]
    /\ \A s \in DOMAIN link_table : /\ s.output \in DOMAIN app_table[s.from].output
                                    /\ s.input \in DOMAIN app_table[s.to].input

\* configure() and breathe() panic only because the configuration links an
\* app it does not have, has a new app that cannot be created, or stops one
\* that cannot be stopped; the unwrap()s of unlink_apps(), stop_app() and
\* breathe() never fail.
PanicsJustified ==
  pc = "panic" =>
    \/ \E s \in config.links : ~({s.from, s.to} \subseteq DOMAIN config.apps)
    \/ \E n \in DOMAIN config.apps :
          /\ config.apps[n].fails
          /\ n \in DOMAIN before.apps => ~equal(before.apps[n].conf, config.apps[n])
    \/ \E n \in DOMAIN before.apps :
          /\ before.apps[n].conf.stop
          /\ n \in DOMAIN config.apps => ~equal(before.apps[n].conf, config.apps[n])

\* Packets on a link that stays are not lost while configure() migrates,
\* whichever apps are restarted.
PacketsSurvive ==
  [][pc # "running" =>
       \A s \in DOMAIN before.links \intersect config.links :
          before.links[s] \in queued => before.links[s] \in queued']_vars

\* A link that goes away is dropped, with its packets, by the time the old
\* apps are stopped: nothing refers to it any more.
RemovedLinksDropped ==
  pc \in {"stop", "start", "relink", "running"} =>
    \A s \in DOMAIN before.links \ config.links :
       before.links[s] \notin Referenced(app_table, link_table, copy)

\* "match (new) config", to the letter: the app was created from the very
\* configuration it is given now.
AppsMatch ==
  pc = "running" => \A n \in DOMAIN app_table : app_table[n].conf = config.apps[n]

=============================================================================
