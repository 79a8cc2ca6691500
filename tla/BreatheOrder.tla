---------------------------- MODULE BreatheOrder ----------------------------
(***************************************************************************)
(* compute_breathe_order() of src/engine.rs: the order in which a breath   *)
(* calls the pull and push callbacks of the apps.                          *)
(*                                                                         *)
(* App names are numbers, compared the way sort() compares strings.  The   *)
(* successors of an app are a HashSet: `order' gives each of them an       *)
(* arbitrary iteration order, fixed while the set is not modified, which   *)
(* is for the whole computation.  A loop visits the successors of the apps *)
(* in `loop', a copy (dependents.clone(), exhaled) or not changed; `work'  *)
(* holds the positions <<app, successor>> it has yet to visit, the first   *)
(* of them next.                                                           *)
(***************************************************************************)
EXTENDS Integers, Sequences, FiniteSets, SequencesExt

CONSTANTS
  Apps,        \* names of the apps in app_table
  Graphs,      \* sets of pairs <<from, to>>: the links to consider
  PullChoices, \* sets of apps that have a pull callback
  PushChoices  \* sets of apps that have a push callback

ASSUME AppsAssumption ==
  /\ Apps \subseteq Nat /\ IsFiniteSet(Apps)
  /\ \A G \in Graphs : G \subseteq Apps \X Apps
  /\ \A P \in PullChoices \union PushChoices : P \subseteq Apps

VARIABLES
  links, pull, push,  \* the network: link_table, has_pull(), has_push()
  order,              \* iteration order of each HashSet of successors
  resolved,           \* apps whose entry was removed from `successors'
  inhale, exhale,     \* the result
  dependents, selected, exhaled,
  loop,               \* the apps whose successors the current loop visits
  work,               \* positions the current loop has yet to visit
  pc                  \* the loop the function is in

network == <<links, pull, push, order>>
vars    == <<links, pull, push, order, resolved, inhale, exhale,
             dependents, selected, exhaled, loop, work, pc>>

-----------------------------------------------------------------------------

Successors(a) == {b \in Apps : <<a, b>> \in links}

Ascending(s) == \A i, j \in DOMAIN s : i < j => s[i] <= s[j]

\* What sort() may make of s: names differ, so there is one such sequence.
Sorted(s) ==
  {t \in {[i \in DOMAIN s |-> s[p[i]]] : p \in Bijection(DOMAIN s, DOMAIN s)} : Ascending(t)}

\* The positions a loop over the names s visits, but for the apps removed from
\* the map of successors.
Visits(s, removed) ==
  UNION {{i} \X DOMAIN order[s[i]] : i \in {k \in DOMAIN s : s[k] \notin removed}}

\* Position e is visited next.
First(e) == \A f \in work : e[1] < f[1] \/ (e[1] = f[1] /\ e[2] <= f[2])

\* The app and its successor at a position.
Name(e)      == loop[e[1]]
Successor(e) == order[Name(e)][e[2]]

Init ==
  /\ links \in Graphs
  /\ pull \in PullChoices
  /\ push \in PushChoices
  /\ order = <<>>
  /\ resolved = {}
  /\ inhale = <<>> /\ exhale = <<>>
  /\ dependents = <<>> /\ selected = {} /\ exhaled = <<>>
  /\ loop = <<>> /\ work = {}
  /\ pc = "successors"

\* The successors of app a are put into its HashSet.
BuildSuccessors(a) ==
  /\ pc = "successors"
  /\ a \notin DOMAIN order
  /\ \A b \in Apps : b < a => b \in DOMAIN order
  /\ \E s \in SetToSeqs(Successors(a)) :
       order' = [b \in DOMAIN order \union {a} |-> IF b = a THEN s ELSE order[b]]
  /\ UNCHANGED <<links, pull, push, resolved, inhale, exhale, dependents,
                 selected, exhaled, loop, work, pc>>

\* The pull apps are collected and sorted.
Inhale ==
  /\ pc = "successors"
  /\ DOMAIN order = Apps
  /\ \E s \in SetToSeqs(pull) : inhale' \in Sorted(s)
  /\ loop' = inhale' /\ work' = Visits(inhale', {})
  /\ pc' = "initial"
  /\ UNCHANGED <<network, resolved, exhale, dependents, selected, exhaled>>

\* Fault: an app already among the dependents is added again.
AddDependent_again(s) == IF s \in push THEN Append(dependents, s) ELSE dependents

\* Push app s joins the dependents unless it is one.
AddDependent(s) ==
  IF s \in push /\ ~Contains(dependents, s) THEN Append(dependents, s)
                                            ELSE dependents

\* One iteration of the loop that collects the initial dependents.
CollectInitial ==
  /\ pc = "initial"
  /\ \E e \in work :
       /\ First(e)
       /\ dependents' = AddDependent(Successor(e))
       /\ work' = work \ {e}
  /\ UNCHANGED <<network, resolved, inhale, exhale, selected, exhaled, loop, pc>>

\* Fault: the loop is entered again without dependents.
WhileDependents_forever(s, r) ==
  /\ selected' = {}
  /\ pc' = "select"
  /\ loop' = s /\ work' = Visits(s, r)

\* while dependents.len() > 0: the loop is entered, with the dependents s and
\* the apps r resolved, or left.
WhileDependents(s, r) ==
  /\ selected' = {}
  /\ loop' = s /\ work' = Visits(s, r)
  /\ pc' = IF s = <<>> THEN "done" ELSE "select"

ResolveInhalers ==
  /\ pc = "initial" /\ work = {}
  /\ resolved' = ToSet(inhale)
  /\ WhileDependents(dependents, resolved')
  /\ UNCHANGED <<network, inhale, exhale, dependents, exhaled>>

\* Fault: an app selected before may be delayed.
Delays_selected(s) == Contains(dependents, s) /\ Len(dependents) > 1

\* The visited successor s is delayed after the visiting app.
Delays(s) ==
  /\ s \notin selected
  /\ Contains(dependents, s)
  /\ Len(dependents) > 1

\* One iteration of the loop that delays dependents after their inputs.  What
\* retain() removes is there once.
Select ==
  /\ pc = "select"
  /\ \E e \in work :
       /\ First(e)
       /\ IF Delays(Successor(e))
          THEN /\ selected' = selected \union {Name(e)}
               /\ \E i \in DOMAIN dependents :
                    /\ dependents[i] = Successor(e)
                    /\ dependents' = RemoveAt(dependents, i)
          ELSE UNCHANGED <<selected, dependents>>
       /\ work' = work \ {e}
  /\ UNCHANGED <<network, resolved, inhale, exhale, exhaled, loop, pc>>

\* Fault: the dependents of a round come before those of the rounds before.
Exhale_front ==
  /\ pc = "select" /\ work = {}
  /\ exhaled' \in Sorted(dependents)
  /\ exhale' = exhaled' \o exhale
  /\ dependents' = <<>>
  /\ loop' = exhaled' /\ work' = Visits(exhaled', resolved)
  /\ pc' = "collect"
  /\ UNCHANGED <<network, resolved, inhale, selected>>

\* The dependents left are sorted and appended to exhale.
Exhale ==
  /\ pc = "select" /\ work = {}
  /\ exhaled' \in Sorted(dependents)
  /\ exhale' = exhale \o exhaled'
  /\ dependents' = <<>>
  /\ loop' = exhaled' /\ work' = Visits(exhaled', resolved)
  /\ pc' = "collect"
  /\ UNCHANGED <<network, resolved, inhale, selected>>

\* One iteration of the loop that collects further dependents.
CollectFurther ==
  /\ pc = "collect"
  /\ \E e \in work :
       /\ First(e)
       /\ dependents' = IF Contains(exhale, Successor(e)) THEN dependents
                                                          ELSE AddDependent(Successor(e))
       /\ work' = work \ {e}
  /\ UNCHANGED <<network, resolved, inhale, exhale, selected, exhaled, loop, pc>>

ResolveExhaled ==
  /\ pc = "collect" /\ work = {}
  /\ resolved' = resolved \union ToSet(exhaled)
  /\ WhileDependents(dependents, resolved')
  /\ UNCHANGED <<network, inhale, exhale, dependents, exhaled>>

Next ==
  \/ \E a \in Apps : BuildSuccessors(a)
  \/ Inhale
  \/ CollectInitial \/ ResolveInhalers
  \/ Select \/ Exhale
  \/ CollectFurther \/ ResolveExhaled

\* The function runs to its end: nothing interrupts it.
Spec == Init /\ [][Next]_vars /\ WF_vars(Next)

-----------------------------------------------------------------------------
(* Properties.                                                             *)

\* Every variable has its type, and a loop visits links only, none of them
\* from an app whose dependencies are resolved.
TypeOK ==
  /\ links \subseteq Apps \X Apps /\ pull \subseteq Apps /\ push \subseteq Apps
  /\ resolved \subseteq Apps /\ selected \subseteq Apps
  /\ \A s \in {inhale, exhale, dependents, exhaled, loop} : ToSet(s) \subseteq Apps
  /\ \A e \in work : Name(e) \notin resolved /\ <<Name(e), Successor(e)>> \in links
  /\ pc \in {"successors", "initial", "select", "collect", "done"}

\* "executes each app's callbacks at most once" (engine.rs:222): no app is in
\* exhale twice, nor about to be: a dependent is neither exhaled nor repeated.
AtMostOnce == IsInjective(exhale \o dependents)

\* breathe() calls push() of every app in exhale, after some app that feeds
\* it: each of them has the callback and a link from an inhaler or from an
\* app exhaled before it.
Fed ==
  \A i \in DOMAIN exhale :
     /\ exhale[i] \in push
     /\ \/ \E a \in ToSet(inhale) : <<a, exhale[i]>> \in links
        \/ \E j \in 1 .. i - 1 : <<exhale[j], exhale[i]>> \in links

\* No push app that gets packets is forgotten, however the delays of the
\* rounds interfere: an app an inhaler or an exhaled app links to is exhaled.
NoneForgotten ==
  pc = "done" =>
    \A a \in ToSet(inhale) \union ToSet(exhale) :
       Successors(a) \intersect push \subseteq ToSet(exhale)

\* The while loop ends.
Terminates == <>(pc = "done")

\* Some numbering of the apps increases along every link.
Acyclic ==
  \E rank \in [Apps -> Apps] : \A e \in links : rank[e[1]] < rank[e[2]]

\* "follows link dependencies when possible" (engine.rs:221): in a network
\* without cycles, an app that only pushes is exhaled before the apps it
\* feeds.
FollowsLinks ==
  pc = "done" /\ Acyclic =>
    \A i, j \in DOMAIN exhale :
       <<exhale[i], exhale[j]>> \in links /\ exhale[i] \notin pull => i < j

=============================================================================
