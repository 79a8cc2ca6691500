--------------------------- MODULE ConfigureProofs --------------------------
(***************************************************************************)
(* Proofs about Configure, for any apps, links and configurations, and any *)
(* number of calls of configure().                                         *)
(***************************************************************************)
EXTENDS Configure, TLAPS

-----------------------------------------------------------------------------
(* The inductive invariant.                                                *)

\* The app keeps running: its configuration did not change.
Kept(n) ==
  /\ n \in DOMAIN before.apps /\ n \in DOMAIN config.apps
  /\ equal(before.apps[n].conf, config.apps[n])

\* The link stays.
Stays(s) == s \in DOMAIN before.links /\ s \in config.links

SameApp(n) ==
  app_table[n].app = before.apps[n].app /\ app_table[n].conf = before.apps[n].conf

\* An app that is kept is the one from before, another has its configuration.
Built ==
  \A n \in DOMAIN app_table :
    /\ Kept(n) => SameApp(n)
    /\ ~Kept(n) => app_table[n].conf = config.apps[n]

\* Links are between apps, and differ.
Closed(apps, links) == \A s \in DOMAIN links : s.from \in DOMAIN apps /\ s.to \in DOMAIN apps
Distinct(links)     == \A s, t \in DOMAIN links : links[s] = links[t] => s = t

\* Every port has a link of the table that belongs there.
OutputsBelong(apps, links) ==
  \A n \in DOMAIN apps : \A port \in DOMAIN apps[n].output :
    \E s \in DOMAIN links : s.from = n /\ s.output = port /\ links[s] = apps[n].output[port]
InputsBelong(apps, links) ==
  \A n \in DOMAIN apps : \A port \in DOMAIN apps[n].input :
    \E s \in DOMAIN links : s.to = n /\ s.input = port /\ links[s] = apps[n].input[port]

\* Link s is on a port at each end, or another link is.
Attached(s) ==
  /\ s.from \in DOMAIN app_table /\ s.to \in DOMAIN app_table
  /\ s.output \in DOMAIN app_table[s.from].output
  /\ s.input \in DOMAIN app_table[s.to].input

\* What does not depend on where configure() is.  A link that was there before
\* has the identity it had, and a new one has an identity no other had.
Tables ==
  /\ config \in Configs \union {NoConfig} /\ fresh \in Nat
  /\ pc \in {"running", "unlink", "stop", "start", "relink", "panic"}
  /\ DOMAIN app_table \subseteq AppNames /\ DOMAIN link_table \subseteq LinkSpecs
  /\ \A n \in DOMAIN app_table : app_table[n].app \in LinksSoFar
  /\ \A s \in DOMAIN link_table : link_table[s] \in LinksSoFar
  /\ \A s \in DOMAIN before.links : before.links[s] \in LinksSoFar
  /\ Closed(before.apps, before.links)
  /\ Distinct(before.links) /\ Distinct(link_table)
  /\ \A s \in DOMAIN link_table :
       /\ s \in DOMAIN before.links => link_table[s] = before.links[s]
       /\ s \notin DOMAIN before.links => \A t \in DOMAIN before.links : link_table[s] # before.links[t]
  /\ OutputsBelong(app_table, link_table) /\ InputsBelong(app_table, link_table)

\* Where configure() is: what it has done, and what it has yet to do.
Unlinking ==
  /\ copy = Range(before.links) /\ todo \subseteq DOMAIN before.links
  /\ DOMAIN link_table = {s \in DOMAIN before.links : s \in config.links \/ s \in todo}
  /\ DOMAIN app_table = DOMAIN before.apps
  /\ \A n \in DOMAIN app_table : SameApp(n)

Stopping ==
  /\ copy = {} /\ todo \subseteq DOMAIN app_table
  /\ DOMAIN link_table = DOMAIN before.links \intersect config.links
  /\ DOMAIN app_table = {n \in DOMAIN before.apps : Kept(n) \/ n \in todo}
  /\ \A n \in DOMAIN app_table : SameApp(n)

Starting ==
  /\ copy = {} /\ todo \subseteq DOMAIN config.apps
  /\ DOMAIN link_table = DOMAIN before.links \intersect config.links
  /\ DOMAIN app_table = {n \in DOMAIN config.apps : Kept(n) \/ n \notin todo}
  /\ Built

Relinking ==
  /\ copy = {} /\ todo \subseteq config.links
  /\ DOMAIN link_table = {s \in config.links : s \in DOMAIN before.links \/ s \notin todo}
  /\ DOMAIN app_table = DOMAIN config.apps
  /\ Built
  /\ \A s \in config.links \ todo : Attached(s)

Running ==
  /\ copy = {}
  /\ DOMAIN link_table = config.links
  /\ DOMAIN app_table = DOMAIN config.apps
  /\ Built
  /\ \A s \in config.links : Attached(s)
  /\ inhale \subseteq DOMAIN app_table /\ exhale \subseteq DOMAIN app_table

Phases ==
  /\ pc = "unlink" => Unlinking
  /\ pc = "stop" => Stopping
  /\ pc = "start" => Starting
  /\ pc = "relink" => Relinking
  /\ pc = "running" => Running

CInv == Tables /\ Phases /\ PanicsJustified

PCs == {"running", "unlink", "stop", "start", "relink", "panic"}

-----------------------------------------------------------------------------
(* Steps that leave the tables alone.                                      *)

LEMMA TablesKept ==
  ASSUME Tables, UNCHANGED <<app_table, link_table, config, before, fresh>>, pc' \in PCs
  PROVE  Tables'
BY DEF Tables, PCs, LinksSoFar, Closed, Distinct, OutputsBelong, InputsBelong

LEMMA InitCInv == Init => CInv
<1> SUFFICES ASSUME Init PROVE CInv
  OBVIOUS
<1> USE DEF Init
<1>1. /\ DOMAIN app_table = {} /\ DOMAIN link_table = {} /\ before.apps = Nothing
      /\ before.links = Nothing /\ DOMAIN before.apps = {} /\ DOMAIN before.links = {}
  BY DEF Nothing
<1>2. Tables
  BY <1>1 DEF Tables, Closed, Distinct, OutputsBelong, InputsBelong
<1>3. Running
  BY <1>1, ConfigureAssumption DEF Running, Built
<1> QED BY <1>2, <1>3 DEF CInv, Phases, PanicsJustified

LEMMA BreatheStep == ASSUME CInv, Breathe PROVE CInv'
<1>1. pc = "running" /\ Running /\ Tables
  BY DEF Breathe, CInv, Phases
<1>2. inhale \union exhale \subseteq DOMAIN app_table
  BY <1>1 DEF Running
<1>3. pc' = pc /\ UNCHANGED <<app_table, link_table, config, before, fresh, inhale, exhale, copy>>
  BY <1>2 DEF Breathe, tables
<1>4. Tables'
  BY <1>1, <1>3, TablesKept DEF PCs
<1>5. Running'
  BY <1>1, <1>3 DEF Running, Built, Kept, SameApp, Attached, equal, identity
<1> QED BY <1>1, <1>3, <1>4, <1>5 DEF CInv, Phases, PanicsJustified

LEMMA ConfigureCallStep ==
  ASSUME CInv, NEW c \in Configs, ConfigureCall(c) PROVE CInv'
<1>1. pc = "running" /\ Running /\ Tables
  BY DEF ConfigureCall, CInv, Phases
<1>2. /\ config' = c /\ pc' = "unlink" /\ todo' = DOMAIN link_table /\ copy' = Range(link_table)
      /\ before'.apps = app_table /\ before'.links = link_table
      /\ UNCHANGED <<app_table, link_table, inhale, exhale, fresh>>
  BY DEF ConfigureCall, tables
<1>3. Tables'
  <2>1. Closed(app_table, link_table)
    BY <1>1 DEF Closed, Running, Attached
  <2> QED BY <1>1, <1>2, <2>1 DEF Tables, LinksSoFar, Closed, Distinct, OutputsBelong, InputsBelong
<1>4. Unlinking'
  BY <1>2 DEF Unlinking, SameApp
<1> QED BY <1>2, <1>3, <1>4 DEF CInv, Phases, PanicsJustified

LEMMA UnlinkDoneStep == ASSUME CInv, UnlinkDone PROVE CInv'
<1>1. pc = "unlink" /\ todo = {} /\ Unlinking /\ Tables
  BY DEF UnlinkDone, CInv, Phases
<1>2. /\ pc' = "stop" /\ todo' = DOMAIN app_table /\ copy' = {}
      /\ UNCHANGED <<app_table, link_table, config, before, fresh, inhale, exhale>>
  BY DEF UnlinkDone, tables
<1>3. Tables'
  BY <1>1, <1>2, TablesKept DEF PCs
<1>4. Stopping'
  BY <1>1, <1>2 DEF Unlinking, Stopping, SameApp, Kept, equal, identity
<1> QED BY <1>2, <1>3, <1>4 DEF CInv, Phases, PanicsJustified

LEMMA StopDoneStep == ASSUME CInv, StopDone PROVE CInv'
<1>1. pc = "stop" /\ todo = {} /\ Stopping /\ Tables
  BY DEF StopDone, CInv, Phases
<1>2. /\ pc' = "start" /\ todo' = DOMAIN config.apps
      /\ UNCHANGED <<app_table, link_table, config, before, fresh, inhale, exhale, copy>>
  BY DEF StopDone, tables
<1>3. Tables'
  BY <1>1, <1>2, TablesKept DEF PCs
<1>4. Starting'
  <2>1. DOMAIN app_table = {n \in DOMAIN config.apps : Kept(n)}
    BY <1>1 DEF Stopping, Kept
  <2>2. \A n : Kept(n)' <=> Kept(n)
    BY <1>2 DEF Kept, equal, identity
  <2>3. Built'
    BY <1>1, <1>2, <2>1, <2>2 DEF Built, Stopping, SameApp
  <2> QED BY <1>1, <1>2, <2>1, <2>2, <2>3 DEF Starting, Stopping
<1> QED BY <1>2, <1>3, <1>4 DEF CInv, Phases, PanicsJustified

LEMMA StartDoneStep == ASSUME CInv, StartDone PROVE CInv'
<1>1. pc = "start" /\ todo = {} /\ Starting /\ Tables
  BY DEF StartDone, CInv, Phases
<1>2. /\ pc' = "relink" /\ todo' = config.links
      /\ UNCHANGED <<app_table, link_table, config, before, fresh, inhale, exhale, copy>>
  BY DEF StartDone, tables
<1>3. Tables'
  BY <1>1, <1>2, TablesKept DEF PCs
<1>4. Relinking'
  <2>1. \A n : Kept(n)' <=> Kept(n)
    BY <1>2 DEF Kept, equal, identity
  <2>2. Built'
    BY <1>1, <1>2, <2>1 DEF Built, Starting, SameApp
  <2> QED BY <1>1, <1>2, <2>2 DEF Starting, Relinking
<1> QED BY <1>2, <1>3, <1>4 DEF CInv, Phases, PanicsJustified

LEMMA RelinkDoneStep == ASSUME CInv, RelinkDone PROVE CInv'
<1>1. pc = "relink" /\ todo = {} /\ Relinking /\ Tables
  BY DEF RelinkDone, CInv, Phases
<1>2. /\ pc' = "running" /\ inhale' = Pullers
      /\ exhale' \in SUBSET {n \in Pushers : \E s \in DOMAIN link_table : s.to = n}
      /\ UNCHANGED <<app_table, link_table, config, before, fresh, copy>>
  BY DEF RelinkDone, tables, compute_breathe_order
<1>3. Tables'
  BY <1>1, <1>2, TablesKept DEF PCs
<1>4. inhale' \subseteq DOMAIN app_table' /\ exhale' \subseteq DOMAIN app_table'
  BY <1>2 DEF Pullers, Pushers
<1>5. Running'
  <2>1. \A n : Kept(n)' <=> Kept(n)
    BY <1>2 DEF Kept, equal, identity
  <2>2. Built'
    BY <1>1, <1>2, <2>1 DEF Built, Relinking, SameApp
  <2> QED BY <1>1, <1>2, <1>4, <2>2 DEF Running, Relinking, Attached
<1> QED BY <1>2, <1>3, <1>5 DEF CInv, Phases, PanicsJustified

-----------------------------------------------------------------------------
(* Links are removed.                                                      *)

LEMMA Removed ==
  ASSUME NEW f, NEW k
  PROVE  /\ DOMAIN Remove(f, k) = DOMAIN f \ {k}
         /\ \A x \in DOMAIN f \ {k} : Remove(f, k)[x] = f[x]
BY DEF Remove, Restrict

\* A port that is left has its link left: what was at the ports of the link that
\* is removed is gone.
LEMMA UnlinkBelongs ==
  ASSUME OutputsBelong(app_table, link_table), InputsBelong(app_table, link_table),
         NEW spec, spec.from \in DOMAIN app_table, unlink_apps(spec)
  PROVE  /\ OutputsBelong(app_table', link_table') /\ InputsBelong(app_table', link_table')
         /\ DOMAIN app_table' = DOMAIN app_table
         /\ \A n \in DOMAIN app_table :
              app_table'[n].app = app_table[n].app /\ app_table'[n].conf = app_table[n].conf
<1>1. /\ DOMAIN link_table' = DOMAIN link_table \ {spec}
      /\ \A s \in DOMAIN link_table \ {spec} : link_table'[s] = link_table[s]
  BY Removed DEF unlink_apps
<1>2. /\ DOMAIN app_table' = DOMAIN app_table
      /\ \A n \in DOMAIN app_table :
           /\ app_table'[n].app = app_table[n].app /\ app_table'[n].conf = app_table[n].conf
           /\ app_table'[n].output = IF n = spec.from THEN Remove(app_table[n].output, spec.output)
                                                      ELSE app_table[n].output
           /\ app_table'[n].input = IF n = spec.to THEN Remove(app_table[n].input, spec.input)
                                                   ELSE app_table[n].input
  BY DEF unlink_apps, WithPorts
<1>3. ASSUME NEW n \in DOMAIN app_table, NEW port \in DOMAIN app_table'[n].output
      PROVE  \E s \in DOMAIN link_table' :
               s.from = n /\ s.output = port /\ link_table'[s] = app_table'[n].output[port]
  <2>1. /\ port \in DOMAIN app_table[n].output
        /\ app_table'[n].output[port] = app_table[n].output[port]
        /\ ~(n = spec.from /\ port = spec.output)
    <3> DEFINE f == app_table[n].output
    <3>1. CASE n = spec.from
      <4>1. app_table'[n].output = Remove(f, spec.output)
        BY <1>2, <3>1
      <4>2. DOMAIN Remove(f, spec.output) = DOMAIN f \ {spec.output}
            /\ \A x \in DOMAIN f \ {spec.output} : Remove(f, spec.output)[x] = f[x]
        BY Removed
      <4> HIDE DEF f
      <4>3. port \in DOMAIN f /\ port # spec.output /\ app_table'[n].output[port] = f[port]
        BY <4>1, <4>2
      <4> QED BY <4>3 DEF f
    <3>2. CASE n # spec.from
      BY <1>2, <3>2
    <3> QED BY <3>1, <3>2
  <2>2. PICK s \in DOMAIN link_table :
          s.from = n /\ s.output = port /\ link_table[s] = app_table[n].output[port]
    BY <2>1 DEF OutputsBelong
  <2>3. s # spec
    BY <2>1, <2>2
  <2> QED BY <1>1, <2>1, <2>2, <2>3
<1>4. ASSUME NEW n \in DOMAIN app_table, NEW port \in DOMAIN app_table'[n].input
      PROVE  \E s \in DOMAIN link_table' :
               s.to = n /\ s.input = port /\ link_table'[s] = app_table'[n].input[port]
  <2>1. /\ port \in DOMAIN app_table[n].input
        /\ app_table'[n].input[port] = app_table[n].input[port]
        /\ ~(n = spec.to /\ port = spec.input)
    <3> DEFINE f == app_table[n].input
    <3>1. CASE n = spec.to
      <4>1. app_table'[n].input = Remove(f, spec.input)
        BY <1>2, <3>1
      <4>2. DOMAIN Remove(f, spec.input) = DOMAIN f \ {spec.input}
            /\ \A x \in DOMAIN f \ {spec.input} : Remove(f, spec.input)[x] = f[x]
        BY Removed
      <4> HIDE DEF f
      <4>3. port \in DOMAIN f /\ port # spec.input /\ app_table'[n].input[port] = f[port]
        BY <4>1, <4>2
      <4> QED BY <4>3 DEF f
    <3>2. CASE n # spec.to
      BY <1>2, <3>2
    <3> QED BY <3>1, <3>2
  <2>2. PICK s \in DOMAIN link_table :
          s.to = n /\ s.input = port /\ link_table[s] = app_table[n].input[port]
    BY <2>1 DEF InputsBelong
  <2>3. s # spec
    BY <2>1, <2>2
  <2> QED BY <1>1, <2>1, <2>2, <2>3
<1> QED BY <1>2, <1>3, <1>4 DEF OutputsBelong, InputsBelong

LEMMA UnlinkStep == ASSUME CInv, NEW spec, Unlink(spec) PROVE CInv'
<1>1. pc = "unlink" /\ spec \in todo /\ Unlinking /\ Tables
  BY DEF Unlink, CInv, Phases
<1>2. /\ todo' = todo \ {spec}
      /\ UNCHANGED <<config, before, fresh, inhale, exhale, copy>>
  BY DEF Unlink
<1>3. spec \in DOMAIN before.links /\ spec \in DOMAIN link_table
  BY <1>1 DEF Unlinking
<1>4. CASE spec \in config.links
  <2>1. pc' = pc /\ UNCHANGED <<app_table, link_table>>
    BY <1>4 DEF Unlink, KeepsLink, tables
  <2>2. Tables'
    BY <1>1, <1>2, <2>1, TablesKept DEF PCs
  <2>3. Unlinking'
    BY <1>1, <1>2, <1>4, <2>1 DEF Unlinking, SameApp
  <2> QED BY <1>1, <2>1, <2>2, <2>3 DEF CInv, Phases, PanicsJustified
<1>5. CASE spec \notin config.links
  <2>1. unlink_apps(spec)
    BY <1>5 DEF Unlink, KeepsLink
  <2>2. spec.from \in DOMAIN app_table /\ spec.to \in DOMAIN app_table
    BY <1>1, <1>3 DEF Tables, Closed, Unlinking
  <2>3. pc' = pc
    BY <2>1, <2>2 DEF unlink_apps
  <2>4. /\ DOMAIN link_table' = DOMAIN link_table \ {spec}
        /\ \A s \in DOMAIN link_table \ {spec} : link_table'[s] = link_table[s]
    BY <2>1, Removed DEF unlink_apps
  <2>5. /\ OutputsBelong(app_table', link_table') /\ InputsBelong(app_table', link_table')
        /\ DOMAIN app_table' = DOMAIN app_table
        /\ \A n \in DOMAIN app_table :
             app_table'[n].app = app_table[n].app /\ app_table'[n].conf = app_table[n].conf
    BY <1>1, <2>1, <2>2, UnlinkBelongs DEF Tables
  <2>6. Tables'
    BY <1>1, <1>2, <2>3, <2>4, <2>5 DEF Tables, LinksSoFar, Closed, Distinct
  <2>7. Unlinking'
    BY <1>1, <1>2, <1>5, <2>4, <2>5 DEF Unlinking, SameApp
  <2> QED BY <1>1, <2>3, <2>6, <2>7 DEF CInv, Phases, PanicsJustified
<1> QED BY <1>4, <1>5

-----------------------------------------------------------------------------
(* Apps are stopped and started.                                           *)

LEMMA StopStep == ASSUME CInv, NEW name, Stop(name) PROVE CInv'
<1>1. pc = "stop" /\ name \in todo /\ Stopping /\ Tables
  BY DEF Stop, CInv, Phases
<1>2. /\ todo' = todo \ {name}
      /\ UNCHANGED <<link_table, config, before, fresh, inhale, exhale, copy>>
  BY DEF Stop
<1>3. \A n : Kept(n)' <=> Kept(n)
  BY <1>2 DEF Kept, equal, identity
<1>4. name \in DOMAIN before.apps /\ app_table[name].conf = before.apps[name].conf
  BY <1>1 DEF Stopping, SameApp
<1>5. CASE Kept(name)
  <2>1. pc' = pc /\ app_table' = app_table
    BY <1>4, <1>5 DEF Stop, StopsApp, Kept
  <2>2. Tables'
    BY <1>1, <1>2, <2>1, TablesKept DEF PCs
  <2>3. Stopping'
    BY <1>1, <1>2, <1>3, <1>5, <2>1 DEF Stopping, SameApp
  <2> QED BY <1>1, <2>1, <2>2, <2>3 DEF CInv, Phases, PanicsJustified
<1>6. CASE ~Kept(name)
  <2>1. stop_app(name)
    BY <1>4, <1>6 DEF Stop, StopsApp, Kept
  <2>2. /\ DOMAIN app_table' = DOMAIN app_table \ {name}
        /\ \A n \in DOMAIN app_table \ {name} : app_table'[n] = app_table[n]
    BY <2>1, Removed DEF stop_app
  <2>3. pc' \in {pc, "panic"} /\ (pc' = "panic" => app_table[name].conf.stop)
    BY <1>1, <2>1 DEF stop_app
  <2>4. Tables'
    BY <1>1, <1>2, <2>2, <2>3
       DEF Tables, LinksSoFar, Closed, Distinct, OutputsBelong, InputsBelong
  <2>5. pc' = "stop" => Stopping'
    BY <1>1, <1>2, <1>3, <1>6, <2>2 DEF Stopping, SameApp
  <2>6. PanicsJustified'
    BY <1>1, <1>2, <1>4, <1>6, <2>3 DEF PanicsJustified, Kept, equal, identity
  <2> QED BY <1>1, <2>3, <2>4, <2>5, <2>6 DEF CInv, Phases
<1> QED BY <1>5, <1>6

LEMMA StartStep == ASSUME CInv, NEW name, Start(name) PROVE CInv'
<1>1. pc = "start" /\ name \in todo /\ Starting /\ Tables
  BY DEF Start, CInv, Phases
<1>2. /\ todo' = todo \ {name}
      /\ UNCHANGED <<link_table, config, before, inhale, exhale, copy>>
  BY DEF Start
<1>3. \A n : Kept(n)' <=> Kept(n)
  BY <1>2 DEF Kept, equal, identity
<1>4. name \in DOMAIN config.apps
  BY <1>1 DEF Starting
<1>5. CASE name \in DOMAIN app_table
  <2>1. pc' = pc /\ app_table' = app_table /\ fresh' = fresh
    BY <1>5 DEF Start
  <2>2. Tables'
    BY <1>1, <1>2, <2>1, TablesKept DEF PCs
  <2>3. Kept(name)
    BY <1>1, <1>5 DEF Starting
  <2>4. Starting'
    BY <1>1, <1>2, <1>3, <2>1, <2>3 DEF Starting, Built, SameApp
  <2> QED BY <1>1, <2>1, <2>2, <2>4 DEF CInv, Phases, PanicsJustified
<1>6. CASE name \notin DOMAIN app_table
  <2>1. ~Kept(name)
    BY <1>1, <1>4, <1>6 DEF Starting
  <2>2. CASE config.apps[name].fails /\ pc' = "panic" /\ UNCHANGED <<app_table, fresh>>
    <3>1. Tables'
      BY <1>1, <1>2, <2>2, TablesKept DEF PCs
    <3>2. PanicsJustified'
      BY <1>2, <1>4, <2>1, <2>2 DEF PanicsJustified, Kept, equal, identity
    <3> QED BY <2>2, <3>1, <3>2 DEF CInv, Phases
  <2>3. CASE /\ app_table' = Insert(app_table, name,
                               [app   |-> fresh,   conf   |-> config.apps[name],
                                input |-> Nothing, output |-> Nothing])
             /\ fresh' = fresh + 1 /\ pc' = pc
    <3>1. /\ DOMAIN app_table' = DOMAIN app_table \union {name}
          /\ app_table'[name] = [app   |-> fresh,   conf   |-> config.apps[name],
                                 input |-> Nothing, output |-> Nothing]
          /\ \A n \in DOMAIN app_table : app_table'[n] = app_table[n]
      BY <1>6, <2>3 DEF Insert
    <3>2. /\ app_table'[name].app = fresh /\ app_table'[name].conf = config.apps[name]
          /\ DOMAIN app_table'[name].input = {} /\ DOMAIN app_table'[name].output = {}
      BY <3>1 DEF Nothing
    <3>3. fresh \in Nat /\ \A k \in LinksSoFar : k \in LinksSoFar'
      BY <1>1, <2>3 DEF Tables, LinksSoFar
    <3>4. fresh \in LinksSoFar'
      BY <2>3, <3>3 DEF LinksSoFar
    <3>5. name \in AppNames
      BY <1>1, <1>4, ConfigureAssumption DEF Tables
    <3>6. OutputsBelong(app_table', link_table') /\ InputsBelong(app_table', link_table')
      BY <1>1, <1>2, <3>1, <3>2 DEF Tables, OutputsBelong, InputsBelong
    <3>7. Tables'
      BY <1>1, <1>2, <2>3, <3>1, <3>2, <3>3, <3>4, <3>5, <3>6 DEF Tables, Closed, Distinct
    <3>8. Built'
      BY <1>1, <1>2, <1>3, <2>1, <3>1, <3>2 DEF Starting, Built, SameApp
    <3>9. Starting'
      BY <1>1, <1>2, <1>3, <1>4, <3>1, <3>8 DEF Starting
    <3> QED BY <1>1, <2>3, <3>7, <3>9 DEF CInv, Phases, PanicsJustified
  <2> QED BY <1>6, <2>2, <2>3 DEF Start, start_app
<1> QED BY <1>5, <1>6

-----------------------------------------------------------------------------
(* Links are put on ports.                                                 *)

\* The link that link_apps() puts on the ports of spec.
TheLink(spec) == IF spec \in DOMAIN link_table THEN link_table[spec] ELSE fresh

LEMMA LinkEffect ==
  ASSUME NEW spec, link_apps(spec)
  PROVE  /\ DOMAIN link_table' = DOMAIN link_table \union {spec}
         /\ link_table'[spec] = TheLink(spec)
         /\ \A s \in DOMAIN link_table : link_table'[s] = link_table[s]
         /\ fresh' = IF spec \in DOMAIN link_table THEN fresh ELSE fresh + 1
         /\ pc' = IF {spec.from, spec.to} \subseteq DOMAIN app_table THEN pc ELSE "panic"
         /\ DOMAIN app_table' = DOMAIN app_table
         /\ \A n \in DOMAIN app_table :
              /\ app_table'[n].app = app_table[n].app /\ app_table'[n].conf = app_table[n].conf
              /\ app_table'[n].output =
                   IF n = spec.from THEN Insert(app_table[n].output, spec.output, TheLink(spec))
                                    ELSE app_table[n].output
              /\ app_table'[n].input =
                   IF n = spec.to /\ spec.from \in DOMAIN app_table
                   THEN Insert(app_table[n].input, spec.input, TheLink(spec))
                   ELSE app_table[n].input
<1>1. link_table' = Insert(link_table, spec, TheLink(spec))
  BY Zenon DEF link_apps, TheLink
<1>2. /\ DOMAIN link_table' = DOMAIN link_table \union {spec}
      /\ link_table'[spec] = TheLink(spec)
      /\ \A s \in DOMAIN link_table : s # spec => link_table'[s] = link_table[s]
  BY <1>1 DEF Insert
<1>3. \A s \in DOMAIN link_table : link_table'[s] = link_table[s]
  BY <1>2 DEF TheLink
<1>4. /\ fresh' = IF spec \in DOMAIN link_table THEN fresh ELSE fresh + 1
      /\ pc' = IF {spec.from, spec.to} \subseteq DOMAIN app_table THEN pc ELSE "panic"
  BY Zenon DEF link_apps
<1>5. app_table' =
        [n \in DOMAIN app_table |->
           WithPorts(app_table[n],
             IF n = spec.to /\ spec.from \in DOMAIN app_table
             THEN Insert(app_table[n].input, spec.input, TheLink(spec)) ELSE app_table[n].input,
             IF n = spec.from THEN Insert(app_table[n].output, spec.output, TheLink(spec))
                              ELSE app_table[n].output)]
  BY Zenon DEF link_apps, TheLink
<1>6. /\ DOMAIN app_table' = DOMAIN app_table
      /\ \A n \in DOMAIN app_table :
           /\ app_table'[n].app = app_table[n].app /\ app_table'[n].conf = app_table[n].conf
           /\ app_table'[n].output =
                IF n = spec.from THEN Insert(app_table[n].output, spec.output, TheLink(spec))
                                 ELSE app_table[n].output
           /\ app_table'[n].input =
                IF n = spec.to /\ spec.from \in DOMAIN app_table
                THEN Insert(app_table[n].input, spec.input, TheLink(spec))
                ELSE app_table[n].input
  BY <1>5 DEF WithPorts
<1> QED BY <1>2, <1>3, <1>4, <1>6

\* What a port has after an Insert.
LEMMA InsertedPort ==
  ASSUME NEW f, NEW g, NEW k, NEW v, g = Insert(f, k, v)
  PROVE  \A x \in DOMAIN g : \/ x = k /\ g[x] = v
                             \/ x \in DOMAIN f /\ g[x] = f[x]
BY DEF Insert

LEMMA LinkBelongs ==
  ASSUME OutputsBelong(app_table, link_table), InputsBelong(app_table, link_table),
         NEW spec, link_apps(spec)
  PROVE  OutputsBelong(app_table', link_table') /\ InputsBelong(app_table', link_table')
<1> DEFINE link == TheLink(spec)
<1>1. /\ DOMAIN link_table' = DOMAIN link_table \union {spec} /\ link_table'[spec] = link
      /\ \A s \in DOMAIN link_table : link_table'[s] = link_table[s]
      /\ DOMAIN app_table' = DOMAIN app_table
  BY LinkEffect
<1>2. ASSUME NEW n \in DOMAIN app_table, NEW port \in DOMAIN app_table'[n].output
      PROVE  \E s \in DOMAIN link_table' :
               s.from = n /\ s.output = port /\ link_table'[s] = app_table'[n].output[port]
  <2>1. app_table'[n].output = IF n = spec.from THEN Insert(app_table[n].output, spec.output, link)
                                                ELSE app_table[n].output
    BY LinkEffect
  <2>2. \/ n = spec.from /\ port = spec.output /\ app_table'[n].output[port] = link
        \/ /\ port \in DOMAIN app_table[n].output
           /\ app_table'[n].output[port] = app_table[n].output[port]
    <3> HIDE DEF link
    <3>1. CASE n = spec.from
      BY <2>1, <3>1, InsertedPort
    <3>2. CASE n # spec.from
      BY <2>1, <3>2
    <3> QED BY <3>1, <3>2
  <2>3. CASE n = spec.from /\ port = spec.output /\ app_table'[n].output[port] = link
    <3> HIDE DEF link
    <3> QED BY <1>1, <2>3
  <2>4. CASE /\ port \in DOMAIN app_table[n].output
             /\ app_table'[n].output[port] = app_table[n].output[port]
    <3>1. PICK s \in DOMAIN link_table :
            s.from = n /\ s.output = port /\ link_table[s] = app_table[n].output[port]
      BY <2>4 DEF OutputsBelong
    <3> HIDE DEF link
    <3> QED BY <1>1, <2>4, <3>1
  <2> QED BY <2>2, <2>3, <2>4
<1>3. ASSUME NEW n \in DOMAIN app_table, NEW port \in DOMAIN app_table'[n].input
      PROVE  \E s \in DOMAIN link_table' :
               s.to = n /\ s.input = port /\ link_table'[s] = app_table'[n].input[port]
  <2>1. app_table'[n].input = IF n = spec.to /\ spec.from \in DOMAIN app_table
                              THEN Insert(app_table[n].input, spec.input, link)
                              ELSE app_table[n].input
    BY LinkEffect
  <2>2. \/ n = spec.to /\ port = spec.input /\ app_table'[n].input[port] = link
        \/ /\ port \in DOMAIN app_table[n].input
           /\ app_table'[n].input[port] = app_table[n].input[port]
    <3> HIDE DEF link
    <3>1. CASE n = spec.to /\ spec.from \in DOMAIN app_table
      BY <2>1, <3>1, InsertedPort
    <3>2. CASE ~(n = spec.to /\ spec.from \in DOMAIN app_table)
      BY <2>1, <3>2
    <3> QED BY <3>1, <3>2
  <2>3. CASE n = spec.to /\ port = spec.input /\ app_table'[n].input[port] = link
    <3> HIDE DEF link
    <3> QED BY <1>1, <2>3
  <2>4. CASE /\ port \in DOMAIN app_table[n].input
             /\ app_table'[n].input[port] = app_table[n].input[port]
    <3>1. PICK s \in DOMAIN link_table :
            s.to = n /\ s.input = port /\ link_table[s] = app_table[n].input[port]
      BY <2>4 DEF InputsBelong
    <3> HIDE DEF link
    <3> QED BY <1>1, <2>4, <3>1
  <2> QED BY <2>2, <2>3, <2>4
<1> QED BY <1>1, <1>2, <1>3 DEF OutputsBelong, InputsBelong

LEMMA RelinkStep == ASSUME CInv, NEW spec, Relink(spec) PROVE CInv'
<1>1. pc = "relink" /\ spec \in todo /\ Relinking /\ Tables
  BY DEF Relink, CInv, Phases
<1>2. /\ todo' = todo \ {spec} /\ link_apps(spec)
      /\ UNCHANGED <<config, before, inhale, exhale, copy>>
  BY DEF Relink
<1>3. \A n : Kept(n)' <=> Kept(n)
  BY <1>2 DEF Kept, equal, identity
<1>4. spec \in config.links /\ spec \in LinkSpecs
  BY <1>1, ConfigureAssumption DEF Relinking, Tables
<1> DEFINE link == TheLink(spec)
<1>5. /\ DOMAIN link_table' = DOMAIN link_table \union {spec} /\ link_table'[spec] = link
      /\ \A s \in DOMAIN link_table : link_table'[s] = link_table[s]
      /\ fresh' = IF spec \in DOMAIN link_table THEN fresh ELSE fresh + 1
      /\ pc' = IF {spec.from, spec.to} \subseteq DOMAIN app_table THEN pc ELSE "panic"
      /\ DOMAIN app_table' = DOMAIN app_table
      /\ \A n \in DOMAIN app_table :
           app_table'[n].app = app_table[n].app /\ app_table'[n].conf = app_table[n].conf
  BY <1>2, LinkEffect
<1>6. fresh \in Nat /\ fresh' \in Nat /\ \A k \in LinksSoFar : k \in LinksSoFar' /\ k # fresh
  BY <1>1, <1>5 DEF Tables, LinksSoFar
<1>7. link \in LinksSoFar'
  <2>1. CASE spec \in DOMAIN link_table
    BY <1>1, <1>6, <2>1 DEF Tables, TheLink
  <2>2. CASE spec \notin DOMAIN link_table
    BY <1>5, <1>6, <2>2 DEF TheLink, LinksSoFar
  <2> QED BY <2>1, <2>2
<1>8. spec \notin DOMAIN link_table => link = fresh /\ spec \notin DOMAIN before.links
  BY <1>1, <1>4 DEF TheLink, Relinking
<1> HIDE DEF link
<1>9. Distinct(link_table')
  <2>1. \A s \in DOMAIN link_table : link_table[s] # fresh
    BY <1>1, <1>6 DEF Tables
  <2> QED BY <1>1, <1>5, <1>8, <2>1 DEF Tables, Distinct
<1>10. \A s \in DOMAIN link_table' :
         /\ s \in DOMAIN before.links => link_table'[s] = before.links[s]
         /\ s \notin DOMAIN before.links => \A t \in DOMAIN before.links : link_table'[s] # before.links[t]
  <2>1. \A t \in DOMAIN before.links : before.links[t] # fresh
    BY <1>1, <1>6 DEF Tables
  <2> QED BY <1>1, <1>5, <1>8, <2>1 DEF Tables
<1>11. Tables'
  <2>1. \A s \in DOMAIN link_table' : link_table'[s] \in LinksSoFar'
    BY <1>1, <1>5, <1>6, <1>7 DEF Tables
  <2>2. \A n \in DOMAIN app_table' : app_table'[n].app \in LinksSoFar'
    BY <1>1, <1>5, <1>6 DEF Tables
  <2>3. \A s \in DOMAIN before'.links : before'.links[s] \in LinksSoFar'
    BY <1>1, <1>2, <1>6 DEF Tables
  <2>4. OutputsBelong(app_table', link_table') /\ InputsBelong(app_table', link_table')
    BY <1>1, <1>2, LinkBelongs DEF Tables
  <2>5. pc' \in PCs /\ fresh' \in Nat
    BY <1>1, <1>5, <1>6 DEF PCs
  <2>6. DOMAIN app_table' \subseteq AppNames /\ DOMAIN link_table' \subseteq LinkSpecs
    BY <1>1, <1>4, <1>5 DEF Tables
  <2>7. Closed(before'.apps, before'.links) /\ Distinct(before'.links)
    BY <1>1, <1>2 DEF Tables
  <2> QED BY <1>1, <1>2, <1>9, <1>10, <2>1, <2>2, <2>3, <2>4, <2>5, <2>6, <2>7 DEF Tables, PCs
<1>12. CASE {spec.from, spec.to} \subseteq DOMAIN app_table
  <2>1. pc' = "relink"
    BY <1>1, <1>5, <1>12
  <2>2. Built'
    BY <1>1, <1>2, <1>3, <1>5 DEF Relinking, Built, SameApp
  <2>3. ASSUME NEW n \in DOMAIN app_table
        PROVE  /\ DOMAIN app_table[n].output \subseteq DOMAIN app_table'[n].output
               /\ DOMAIN app_table[n].input \subseteq DOMAIN app_table'[n].input
               /\ n = spec.from => spec.output \in DOMAIN app_table'[n].output
               /\ n = spec.to => spec.input \in DOMAIN app_table'[n].input
    <3>1. /\ app_table'[n].output = IF n = spec.from THEN Insert(app_table[n].output, spec.output, link)
                                                     ELSE app_table[n].output
          /\ app_table'[n].input = IF n = spec.to THEN Insert(app_table[n].input, spec.input, link)
                                                  ELSE app_table[n].input
      BY <1>2, <1>12, LinkEffect DEF link
    <3>2. /\ DOMAIN Insert(app_table[n].output, spec.output, link)
               = DOMAIN app_table[n].output \union {spec.output}
          /\ DOMAIN Insert(app_table[n].input, spec.input, link)
               = DOMAIN app_table[n].input \union {spec.input}
      BY DEF Insert
    <3>3. CASE n = spec.from /\ n = spec.to
      BY <3>1, <3>2, <3>3
    <3>4. CASE n = spec.from /\ n # spec.to
      BY <3>1, <3>2, <3>4
    <3>5. CASE n # spec.from /\ n = spec.to
      BY <3>1, <3>2, <3>5
    <3>6. CASE n # spec.from /\ n # spec.to
      BY <3>1, <3>6
    <3> QED BY <3>3, <3>4, <3>5, <3>6
  <2>4. Attached(spec)'
    BY <1>5, <1>12, <2>3 DEF Attached
  <2>5. \A s \in config'.links \ todo' : Attached(s)'
    BY <1>1, <1>2, <1>5, <2>3, <2>4 DEF Relinking, Attached
  <2>6. Relinking'
    BY <1>1, <1>2, <1>4, <1>5, <2>2, <2>5 DEF Relinking
  <2> QED BY <1>11, <2>1, <2>6 DEF CInv, Phases, PanicsJustified
<1>13. CASE ~({spec.from, spec.to} \subseteq DOMAIN app_table)
  <2>1. pc' = "panic"
    BY <1>5, <1>13
  <2>2. PanicsJustified'
    BY <1>1, <1>2, <1>4, <1>13 DEF Relinking, PanicsJustified
  <2> QED BY <1>11, <2>1, <2>2 DEF CInv, Phases
<1> QED BY <1>12, <1>13

-----------------------------------------------------------------------------
(* The theorems.                                                           *)

LEMMA NextCInv == ASSUME CInv, [Next]_vars PROVE CInv'
<1>1. CASE Next
  BY <1>1, BreatheStep, ConfigureCallStep, UnlinkStep, RelinkStep, StopStep, StartStep,
     UnlinkDoneStep, StopDoneStep, StartDoneStep, RelinkDoneStep DEF Next
<1>2. CASE UNCHANGED vars
  <2>1. Tables'
    BY <1>2, TablesKept DEF CInv, Tables, vars, PCs
  <2>2. /\ \A n : (Kept(n)' <=> Kept(n)) /\ (SameApp(n)' <=> SameApp(n))
        /\ \A s : Attached(s)' <=> Attached(s)
    BY <1>2 DEF vars, Kept, SameApp, Attached, equal, identity
  <2>3. Built' <=> Built
    BY <1>2, <2>2 DEF vars, Built
  <2>4. Phases'
    BY <1>2, <2>2, <2>3 DEF vars, CInv, Phases, Unlinking, Stopping, Starting, Relinking, Running
  <2> QED BY <1>2, <2>1, <2>4 DEF vars, CInv, PanicsJustified
<1> QED BY <1>1, <1>2

\* The inductive invariant holds in every reachable state.
THEOREM ConfigureInvariant == Spec => []CInv
BY InitCInv, NextCInv, PTL DEF Spec

\* When configure() is done the network is the one configured, whatever the
\* network was, in whichever order the tables were iterated over.
THEOREM ConfigureMatches == Spec => []NetworkMatches
<1>1. CInv => NetworkMatches
  BY DEF CInv, Phases, Running, Built, Kept, SameApp, equal, identity, NetworkMatches
<1> QED BY <1>1, ConfigureInvariant, PTL

\* An app or link that the configuration did not change is the one from before.
THEOREM ConfigureKeeps == Spec => []Unchanged
<1>1. CInv => Unchanged
  BY DEF CInv, Tables, Phases, Running, Built, Kept, SameApp, Unchanged
<1> QED BY <1>1, ConfigureInvariant, PTL

\* Ports have links of the table that belong there, and links are on ports.
THEOREM ConfigureConnects == Spec => []PortsMatch
<1>1. CInv => PortsMatch
  <2> SUFFICES ASSUME CInv, pc = "running" PROVE PortsMatch
    BY DEF PortsMatch
  <2>1. Tables /\ Running
    BY DEF CInv, Phases
  <2>2. \A s \in DOMAIN link_table : /\ s.output \in DOMAIN app_table[s.from].output
                                     /\ s.input \in DOMAIN app_table[s.to].input
    BY <2>1 DEF Running, Attached
  <2> QED BY <2>1, <2>2 DEF Tables, OutputsBelong, InputsBelong, PortsMatch
<1> QED BY <1>1, ConfigureInvariant, PTL

\* No unwrap() of configure() or breathe() fails but for what the configuration
\* asks for.
THEOREM ConfigurePanics == Spec => []PanicsJustified
<1>1. CInv => PanicsJustified
  BY DEF CInv
<1> QED BY <1>1, ConfigureInvariant, PTL

\* Nothing refers to a link that went away once the loop that removes links is
\* done.
THEOREM ConfigureDrops == Spec => []RemovedLinksDropped
<1>1. CInv => RemovedLinksDropped
  <2> SUFFICES ASSUME CInv, pc \in {"stop", "start", "relink", "running"},
                      NEW s \in DOMAIN before.links \ config.links
               PROVE  before.links[s] \notin Referenced(app_table, link_table, copy)
    BY DEF RemovedLinksDropped
  <2>1. Tables /\ copy = {} /\ DOMAIN link_table \subseteq config.links
    BY DEF CInv, Phases, Stopping, Starting, Relinking, Running
  <2>2. \A t \in DOMAIN link_table : link_table[t] # before.links[s]
    BY <2>1 DEF Tables, Distinct
  <2>3. before.links[s] \notin Range(link_table)
    BY <2>2 DEF Range
  <2>4. ASSUME NEW n \in DOMAIN app_table
        PROVE  /\ before.links[s] \notin Range(app_table[n].input)
               /\ before.links[s] \notin Range(app_table[n].output)
    BY <2>1, <2>2 DEF Tables, OutputsBelong, InputsBelong, Range
  <2> QED BY <2>1, <2>3, <2>4 DEF Referenced
<1> QED BY <1>1, ConfigureInvariant, PTL

\* A link that stays is in the table while configure() runs.
LEMMA StaysInTable ==
  ASSUME CInv, pc \notin {"running", "panic"}, NEW s, Stays(s)
  PROVE  s \in DOMAIN link_table /\ link_table[s] = before.links[s]
<1>1. s \in DOMAIN link_table
  BY DEF CInv, Tables, Phases, Unlinking, Stopping, Starting, Relinking, Stays
<1> QED BY <1>1 DEF CInv, Tables, Stays

\* configure() loses no packet on a link that stays, at none of its steps.
THEOREM ConfigureKeepsPackets == Spec => PacketsSurvive
<1>1. CInv /\ [Next]_vars =>
        [pc # "running" =>
           \A s \in DOMAIN before.links \intersect config.links :
              before.links[s] \in queued => before.links[s] \in queued']_vars
  <2> SUFFICES ASSUME CInv, Next, pc # "running", NEW s, Stays(s), before.links[s] \in queued
               PROVE  before.links[s] \in queued'
    BY DEF Stays
  <2>1. pc \notin {"running", "panic"}
    BY DEF Next, Breathe, ConfigureCall, Unlink, Relink, Stop, Start,
           UnlinkDone, StopDone, StartDone, RelinkDone
  <2>2. s \in DOMAIN link_table /\ link_table[s] = before.links[s]
    BY <2>1, StaysInTable
  <2>3. CASE queued' = queued
    BY <2>3
  <2>4. CASE DropUnreferenced
    <3>1. s \in DOMAIN link_table' /\ link_table'[s] = link_table[s]
      <4>1. CASE link_table' = link_table
        BY <2>2, <4>1
      <4>2. CASE \E spec \in LinkSpecs : Unlink(spec) /\ unlink_apps(spec)
        <5>1. PICK spec \in LinkSpecs : Unlink(spec) /\ unlink_apps(spec)
          BY <4>2
        <5>2. CASE spec = s
          <6>1. link_table' = link_table
            BY <5>1, <5>2 DEF Unlink, KeepsLink, Stays, tables
          <6> QED BY <2>2, <6>1
        <5>3. CASE spec # s
          BY <2>2, <5>1, <5>3, Removed DEF unlink_apps
        <5> QED BY <5>2, <5>3
      <4>3. CASE \E spec \in LinkSpecs : Relink(spec)
        BY <2>2, <4>3, LinkEffect DEF Relink
      <4>4. \/ link_table' = link_table
            \/ \E spec \in LinkSpecs : Unlink(spec) /\ unlink_apps(spec)
            \/ \E spec \in LinkSpecs : Relink(spec)
        BY DEF Next, Breathe, ConfigureCall, Unlink, Stop, Start,
               UnlinkDone, StopDone, StartDone, RelinkDone, tables
      <4> QED BY <4>1, <4>2, <4>3, <4>4
    <3>2. before.links[s] \in Range(link_table')
      BY <2>2, <3>1 DEF Range
    <3>3. before.links[s] \in Referenced(app_table', link_table', copy')
      BY <3>2 DEF Referenced
    <3> QED BY <2>4, <3>3 DEF DropUnreferenced
  <2>5. queued' = queued \/ DropUnreferenced
    BY DEF Next, Breathe, ConfigureCall, Unlink, Relink, Stop, Start,
           UnlinkDone, StopDone, StartDone, RelinkDone
  <2> QED BY <2>3, <2>4, <2>5
<1> QED BY <1>1, ConfigureInvariant, PTL DEF Spec, PacketsSurvive

=============================================================================
