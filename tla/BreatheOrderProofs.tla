------------------------- MODULE BreatheOrderProofs -------------------------
(***************************************************************************)
(* Proofs about BreatheOrder, for any finite number of apps, any links and *)
(* any iteration order of the hash sets.                                   *)
(***************************************************************************)
EXTENDS BreatheOrder, FiniteSetTheorems, SequenceTheorems, TLAPS

-----------------------------------------------------------------------------
(* The inductive invariant.                                                *)

PCs == {"successors", "initial", "select", "collect", "done"}

Typed ==
  /\ links \subseteq Apps \X Apps /\ pull \subseteq Apps /\ push \subseteq Apps
  /\ pc \in PCs
  /\ DOMAIN order \subseteq Apps /\ (pc # "successors" => DOMAIN order = Apps)
  /\ \A a \in DOMAIN order : order[a] \in Seq(Apps) /\ ToSet(order[a]) = Successors(a)
  /\ inhale \in Seq(Apps) /\ exhale \in Seq(Apps) /\ exhaled \in Seq(Apps)
  /\ dependents \in Seq(Apps) /\ loop \in Seq(Apps)
  /\ resolved \subseteq Apps /\ selected \subseteq Apps
  /\ work \subseteq Visits(loop, resolved)

\* What the loops go over.
Loops ==
  /\ pc = "successors" => dependents = <<>> /\ loop = <<>>
  /\ pc \in {"successors", "initial"} => exhale = <<>> /\ resolved = {}
  /\ pc = "initial" => loop = inhale
  /\ pc = "collect" => loop = exhaled /\ ToSet(exhaled) \subseteq ToSet(exhale)
  /\ pc = "done" => dependents = <<>>

\* No app is exhaled or a dependent twice, or both.
Once ==
  /\ IsInjective(exhale) /\ IsInjective(dependents)
  /\ ToSet(exhale) \intersect ToSet(dependents) = {}

\* Dependents are push apps that are fed.
Feeds(a, s) == <<a, s>> \in links
Feeders     == ToSet(inhale) \union ToSet(exhale)
DependentsFed ==
  \A s \in ToSet(dependents) : s \in push /\ \E a \in Feeders : Feeds(a, s)

BInv == Typed /\ Loops /\ Once /\ DependentsFed /\ Fed

-----------------------------------------------------------------------------
(* The invariant for NoneForgotten.  A push app that an app in `resolved'   *)
(* feeds is owed an execution.  It need not be a dependent: it may have    *)
(* been delayed after another, which was delayed in turn.  It is in every  *)
(* set that contains the dependents and what the apps in it feed, unless   *)
(* resolved.                                                               *)

Owed == {s \in push : \E a \in resolved : Feeds(a, s)}

Follows(X) ==
  \A x \in X : x \notin resolved => \A s \in push : Feeds(x, s) => s \in X

Reached(D) == \A X \in SUBSET Apps : D \subseteq X /\ Follows(X) => Owed \subseteq X

\* The dependents that were delayed in this round follow from those that are
\* left and were selected.
SelectedFollow(X) ==
  /\ selected \intersect ToSet(dependents) \subseteq X
  /\ \A x \in X \intersect selected : \A s \in push : Feeds(x, s) => s \in X

Delayed ==
  \A X \in SUBSET Apps : SelectedFollow(X) => ToSet(loop) \ ToSet(dependents) \subseteq X

\* The successors at the positions the loop has visited are in D.
Seen(D) ==
  \A e \in Visits(loop, resolved) \ work : Successor(e) \in push => Successor(e) \in D

Initial == Seen(ToSet(dependents))

Selecting ==
  /\ Reached(ToSet(exhale) \union ToSet(loop)) /\ Delayed
  /\ ToSet(dependents) \subseteq ToSet(loop)
  /\ selected \intersect resolved = {}
  /\ resolved = Feeders

Collecting ==
  /\ Reached(ToSet(exhale)) /\ Seen(ToSet(exhale) \union ToSet(dependents))
  /\ ToSet(inhale) \subseteq resolved /\ resolved \subseteq Feeders
  /\ ToSet(exhale) \subseteq resolved \union ToSet(exhaled)

Done == Reached(ToSet(exhale)) /\ resolved = Feeders

Pending ==
  /\ pc = "initial" => Initial
  /\ pc = "select" => Selecting
  /\ pc = "collect" => Collecting
  /\ pc = "done" => Done

\* No app is linked to itself.  One that is can be delayed after itself.
NoSelfLink == \A G \in Graphs : \A a \in Apps : <<a, a>> \notin G

PInv == links \in Graphs /\ Pending

-----------------------------------------------------------------------------
(* Lemmas about sequences of apps.                                         *)

\* Sequences that enumerate a set of apps hold each of its members once.
LEMMA Enumerates ==
  ASSUME NEW S \in SUBSET Apps, NEW f \in SetToSeqs(S)
  PROVE  f \in Seq(Apps) /\ ToSet(f) = S /\ IsInjective(f)
<1>1. IsFiniteSet(S) /\ Cardinality(S) \in Nat
  BY FS_Subset, FS_CardinalityType, AppsAssumption
<1> DEFINE D == 1 .. Cardinality(S)
<1>2. f \in [D -> S] /\ \A i, j \in D : i # j => f[i] # f[j]
  BY DEF SetToSeqs
<1>3. f \in Injection(D, S)
  BY <1>2 DEF Injection, IsInjective
<1>4. Cardinality(D) = Cardinality(S)
  BY <1>1, FS_Interval
<1>5. f \in Surjection(D, S)
  BY <1>1, <1>3, <1>4, FS_Injection
<1>6. ToSet(f) = S
  BY <1>2, <1>5 DEF ToSet, Surjection
<1>7. f \in Seq(Apps)
  <2>1. f \in [D -> Apps]
    BY <1>2
  <2> QED
    BY <1>1, <2>1
<1> QED
  BY <1>3, <1>6, <1>7 DEF Injection

\* sort() keeps the names there are, and how often.
LEMMA SortedSame ==
  ASSUME NEW s \in Seq(Apps), NEW t \in Sorted(s)
  PROVE  /\ t \in Seq(Apps) /\ ToSet(t) = ToSet(s)
         /\ IsInjective(s) => IsInjective(t)
<1>1. PICK p \in Bijection(DOMAIN s, DOMAIN s) : t = [i \in DOMAIN s |-> s[p[i]]]
  BY DEF Sorted
<1>2. /\ p \in [DOMAIN s -> DOMAIN s] /\ IsInjective(p)
      /\ \A j \in DOMAIN s : \E i \in DOMAIN s : p[i] = j
  BY DEF Bijection, Injection, Surjection
<1>3. t \in Seq(Apps)
  <2>1. DOMAIN s = 1 .. Len(s) /\ Len(s) \in Nat /\ \A i \in DOMAIN s : s[i] \in Apps
    OBVIOUS
  <2>2. t \in [1 .. Len(s) -> Apps]
    BY <1>1, <1>2, <2>1
  <2> QED
    BY <2>1, <2>2
<1>4. ToSet(t) = ToSet(s)
  BY <1>1, <1>2 DEF ToSet
<1>5. IsInjective(s) => IsInjective(t)
  BY <1>1, <1>2 DEF IsInjective
<1> QED
  BY <1>3, <1>4, <1>5

LEMMA ContainsSet ==
  ASSUME NEW s \in Seq(Apps), NEW x
  PROVE  Contains(s, x) <=> x \in ToSet(s)
BY DEF Contains, ToSet

LEMMA AppendSet ==
  ASSUME NEW s \in Seq(Apps), NEW x \in Apps
  PROVE  /\ Append(s, x) \in Seq(Apps) /\ ToSet(Append(s, x)) = ToSet(s) \union {x}
         /\ IsInjective(s) /\ x \notin ToSet(s) => IsInjective(Append(s, x))
<1>1. Append(s, x) \in Seq(Apps) /\ DOMAIN Append(s, x) = 1 .. Len(s) + 1
  OBVIOUS
<1>2. ToSet(Append(s, x)) = ToSet(s) \union {x}
  <2> DEFINE u == Append(s, x)
  <2>1. /\ DOMAIN u = 1 .. Len(s) + 1 /\ DOMAIN s = 1 .. Len(s) /\ Len(s) \in Nat
        /\ \A i \in 1 .. Len(s) : u[i] = s[i]
        /\ u[Len(s) + 1] = x
    OBVIOUS
  <2> HIDE DEF u
  <2>2. \A i \in DOMAIN s : s[i] \in ToSet(u)
    BY <2>1 DEF ToSet
  <2>3. x \in ToSet(u)
    BY <2>1 DEF ToSet
  <2>4. \A i \in DOMAIN u : u[i] \in ToSet(s) \union {x}
    BY <2>1 DEF ToSet
  <2> QED
    BY <2>2, <2>3, <2>4 DEF ToSet, u
<1>3. IsInjective(s) /\ x \notin ToSet(s) => IsInjective(Append(s, x))
  BY <1>1 DEF ToSet, IsInjective
<1> QED
  BY <1>1, <1>2, <1>3

\* A sequence repeats nothing when neither of its parts does and they share
\* nothing.
LEMMA ConcatSet ==
  ASSUME NEW s \in Seq(Apps), NEW t \in Seq(Apps)
  PROVE  /\ s \o t \in Seq(Apps) /\ ToSet(s \o t) = ToSet(s) \union ToSet(t)
         /\ IsInjective(s) /\ IsInjective(t) /\ ToSet(s) \intersect ToSet(t) = {}
              => IsInjective(s \o t)
<1> DEFINE u == s \o t
<1>1. /\ u \in Seq(Apps) /\ Len(u) = Len(s) + Len(t)
      /\ \A i \in 1 .. Len(s) : u[i] = s[i]
      /\ \A i \in 1 .. Len(t) : u[Len(s) + i] = t[i]
  OBVIOUS
<1>2. \A i \in DOMAIN u : i \in DOMAIN s \/ (i - Len(s)) \in DOMAIN t
  BY <1>1
<1>3. \A i \in DOMAIN u : i \notin DOMAIN s => u[i] = t[i - Len(s)]
  OBVIOUS
<1> HIDE DEF u
<1>4. ToSet(u) = ToSet(s) \union ToSet(t)
  <2>1. ToSet(s) \subseteq ToSet(u)
    BY <1>1, SMTT(30) DEF ToSet
  <2>2. ToSet(t) \subseteq ToSet(u)
    <3> SUFFICES ASSUME NEW i \in DOMAIN t PROVE t[i] \in ToSet(u)
      BY DEF ToSet
    <3>1. i \in 1 .. Len(t) /\ Len(s) \in Nat /\ Len(t) \in Nat
      OBVIOUS
    <3>2. Len(s) + i \in 1 .. Len(u) /\ u[Len(s) + i] = t[i]
      BY <1>1, <3>1
    <3> QED
      BY <1>1, <3>2 DEF ToSet
  <2>3. ToSet(u) \subseteq ToSet(s) \union ToSet(t)
    <3> SUFFICES ASSUME NEW i \in DOMAIN u PROVE u[i] \in ToSet(s) \union ToSet(t)
      BY DEF ToSet
    <3>1. CASE i \in DOMAIN s
      BY <1>1, <3>1 DEF ToSet
    <3>2. CASE i \notin DOMAIN s
      BY <1>2, <1>3, <3>2 DEF ToSet
    <3> QED BY <3>1, <3>2
  <2> QED
    BY <2>1, <2>2, <2>3
<1>5. ASSUME IsInjective(s), IsInjective(t), ToSet(s) \intersect ToSet(t) = {},
             NEW i \in DOMAIN u, NEW j \in DOMAIN u, u[i] = u[j]
      PROVE  i = j
  <2>1. CASE i \in DOMAIN s /\ j \in DOMAIN s
    BY <1>1, <1>5, <2>1 DEF IsInjective
  <2>2. CASE i \notin DOMAIN s /\ j \notin DOMAIN s
    <3>1. t[i - Len(s)] = t[j - Len(s)]
      BY <1>3, <1>5, <2>2
    <3>2. i - Len(s) = j - Len(s)
      BY <1>2, <1>5, <2>2, <3>1 DEF IsInjective
    <3> QED
      BY <1>1, <3>2
  <2>3. ASSUME NEW k \in DOMAIN u, NEW l \in DOMAIN u,
               k \in DOMAIN s, l \notin DOMAIN s
        PROVE  u[k] # u[l]
    <3>1. u[k] \in ToSet(s)
      BY <1>1, <2>3 DEF ToSet
    <3>2. u[l] \in ToSet(t)
      BY <1>2, <1>3, <2>3 DEF ToSet
    <3> QED
      BY <1>5, <3>1, <3>2
  <2> QED
    BY <1>5, <2>1, <2>2, <2>3
<1> QED
  BY <1>1, <1>4, <1>5 DEF u, IsInjective

\* What retain() leaves of a sequence without repetition.
LEMMA RemoveSet ==
  ASSUME NEW s \in Seq(Apps), IsInjective(s), NEW i \in DOMAIN s
  PROVE  /\ RemoveAt(s, i) \in Seq(Apps) /\ IsInjective(RemoveAt(s, i))
         /\ ToSet(RemoveAt(s, i)) = ToSet(s) \ {s[i]}
<1> DEFINE u == RemoveAt(s, i)
<1>1. /\ u \in Seq(Apps) /\ Len(u) = Len(s) - 1
      /\ \A k \in 1 .. Len(s) - 1 : u[k] = s[IF k < i THEN k ELSE k + 1]
  <2> DEFINE l == SubSeq(s, 1, i - 1)
             r == SubSeq(s, i + 1, Len(s))
  <2>1. i \in 1 .. Len(s) /\ Len(s) \in Nat
    OBVIOUS
  <2>2. l \in Seq(Apps) /\ Len(l) = i - 1 /\ \A k \in 1 .. i - 1 : l[k] = s[k]
    BY <2>1
  <2>3. /\ r \in Seq(Apps) /\ Len(r) = Len(s) - i
        /\ \A k \in 1 .. Len(s) - i : r[k] = s[i + k]
    BY <2>1
  <2> HIDE DEF u, l, r
  <2>4. /\ l \o r \in Seq(Apps) /\ Len(l \o r) = Len(l) + Len(r)
        /\ \A k \in 1 .. Len(l) + Len(r) :
             (l \o r)[k] = IF k <= Len(l) THEN l[k] ELSE r[k - Len(l)]
    BY <2>2, <2>3, ConcatProperties
  <2>5. u = l \o r
    BY DEF RemoveAt, u, l, r
  <2>6. ASSUME NEW k \in 1 .. Len(s) - 1
        PROVE  u[k] = s[IF k < i THEN k ELSE k + 1]
    <3>1. CASE k < i
      BY <2>1, <2>2, <2>3, <2>4, <2>5, <3>1, SMTT(30)
    <3>2. CASE ~(k < i)
      <4>1. k - Len(l) \in 1 .. Len(s) - i /\ i + (k - Len(l)) = k + 1
        BY <2>1, <2>2, <3>2
      <4>2. k \in 1 .. Len(l) + Len(r) /\ ~(k <= Len(l))
        BY <2>1, <2>2, <2>3, <3>2
      <4>3. u[k] = r[k - Len(l)]
        BY <2>4, <2>5, <4>2
      <4> QED
        BY <2>3, <3>2, <4>1, <4>3
    <3> QED
      BY <3>1, <3>2
  <2>7. u \in Seq(Apps) /\ Len(u) = Len(s) - 1
    BY <2>1, <2>2, <2>3, <2>4, <2>5, SMTT(30)
  <2> QED
    BY <2>6, <2>7
<1> HIDE DEF u
<1>2. IsInjective(u)
  <2> SUFFICES ASSUME NEW j \in DOMAIN u, NEW k \in DOMAIN u, u[j] = u[k]
               PROVE  j = k
    BY DEF IsInjective
  <2> DEFINE old(m) == IF m < i THEN m ELSE m + 1
  <2>1. j \in 1 .. Len(s) - 1 /\ k \in 1 .. Len(s) - 1
    BY <1>1
  <2>2. old(j) \in DOMAIN s /\ old(k) \in DOMAIN s
    BY <2>1
  <2>3. s[old(j)] = s[old(k)]
    BY <1>1, <2>1
  <2>4. old(j) = old(k)
    BY <2>2, <2>3 DEF IsInjective
  <2> QED
    BY <2>1, <2>4
<1>3. ToSet(u) \subseteq ToSet(s) \ {s[i]}
  BY <1>1, SMTT(30) DEF IsInjective, ToSet
<1>4. ASSUME NEW k \in DOMAIN s, k # i PROVE s[k] \in ToSet(u)
  <2>1. CASE k < i
    BY <1>1, <1>4, <2>1 DEF ToSet
  <2>2. CASE k > i
    <3>1. k - 1 \in 1 .. Len(s) - 1 /\ ~(k - 1 < i) /\ (k - 1) + 1 = k
      BY <1>4, <2>2
    <3>2. u[k - 1] = s[k]
      BY <1>1, <3>1
    <3> QED
      BY <1>1, <3>1, <3>2 DEF ToSet
  <2> QED
    BY <1>4, <2>1, <2>2
<1>5. ToSet(s) \ {s[i]} \subseteq ToSet(u)
  BY <1>4 DEF ToSet
<1> QED
  BY <1>1, <1>2, <1>3, <1>5 DEF u

-----------------------------------------------------------------------------
(* Lemmas about the loops.                                                 *)

\* A loop over s visits the links from the apps in s, but those in R, and all
\* of them.
LEMMA VisitsLinks ==
  ASSUME Typed, pc # "successors", NEW s \in Seq(Apps), NEW R \in SUBSET Apps
  PROVE  /\ \A e \in Visits(s, R) :
              /\ s[e[1]] \in ToSet(s) \ R
              /\ order[s[e[1]]][e[2]] \in Apps
              /\ Feeds(s[e[1]], order[s[e[1]]][e[2]])
         /\ \A a \in ToSet(s) \ R : \A b \in Apps : Feeds(a, b) =>
              \E e \in Visits(s, R) : s[e[1]] = a /\ order[s[e[1]]][e[2]] = b
<1>1. /\ DOMAIN order = Apps
      /\ \A a \in Apps : order[a] \in Seq(Apps) /\ ToSet(order[a]) = Successors(a)
  BY DEF Typed
<1>2. \A i \in DOMAIN s : s[i] \in Apps
  OBVIOUS
<1>3. ASSUME NEW e \in Visits(s, R)
      PROVE  /\ s[e[1]] \in ToSet(s) \ R
             /\ order[s[e[1]]][e[2]] \in Apps
             /\ Feeds(s[e[1]], order[s[e[1]]][e[2]])
  <2>1. PICK i \in DOMAIN s : s[i] \notin R /\ e \in {i} \X DOMAIN order[s[i]]
    BY DEF Visits
  <2>2. e[1] = i /\ e[2] \in DOMAIN order[s[i]]
    BY <2>1
  <2>3. order[s[i]][e[2]] \in Successors(s[i])
    BY <1>1, <1>2, <2>2 DEF ToSet
  <2> QED
    BY <2>1, <2>2, <2>3 DEF ToSet, Successors, Feeds
<1>4. ASSUME NEW a \in ToSet(s) \ R, NEW b \in Apps, Feeds(a, b)
      PROVE  \E e \in Visits(s, R) : s[e[1]] = a /\ order[s[e[1]]][e[2]] = b
  <2>1. PICK i \in DOMAIN s : s[i] = a
    BY DEF ToSet
  <2>2. b \in ToSet(order[a])
    BY <1>1, <1>2, <1>4, <2>1 DEF Successors, Feeds
  <2>3. PICK j \in DOMAIN order[a] : order[a][j] = b
    BY <2>2 DEF ToSet
  <2>4. <<i, j>> \in Visits(s, R)
    BY <2>1, <2>3 DEF Visits
  <2> QED
    BY <2>1, <2>3, <2>4
<1> QED
  BY <1>3, <1>4

LEMMA Visiting ==
  ASSUME Typed, pc # "successors", NEW e \in work
  PROVE  /\ Name(e) \in ToSet(loop) \ resolved
         /\ Successor(e) \in Apps /\ Feeds(Name(e), Successor(e))
BY VisitsLinks DEF Typed, Name, Successor

LEMMA Added ==
  ASSUME NEW s \in Apps, dependents \in Seq(Apps)
  PROVE  /\ AddDependent(s) \in Seq(Apps)
         /\ ToSet(AddDependent(s)) = ToSet(dependents) \union ({s} \intersect push)
         /\ IsInjective(dependents) => IsInjective(AddDependent(s))
<1>1. CASE s \in push /\ ~Contains(dependents, s)
  BY <1>1, AppendSet, ContainsSet DEF AddDependent
<1>2. CASE ~(s \in push /\ ~Contains(dependents, s))
  BY <1>2, ContainsSet DEF AddDependent
<1> QED
  BY <1>1, <1>2

LEMMA NoneIn == ToSet(<<>>) = {} /\ IsInjective(<<>>) /\ <<>> \in Seq(Apps)
BY DEF ToSet, IsInjective

-----------------------------------------------------------------------------
(* BInv is an invariant.                                                   *)

LEMMA InitBInv == Init => BInv
<1> SUFFICES ASSUME Init PROVE BInv
  OBVIOUS
<1>1. links \subseteq Apps \X Apps /\ pull \subseteq Apps /\ push \subseteq Apps
  BY AppsAssumption DEF Init
<1>2. Typed
  BY <1>1, NoneIn DEF Init, Typed, PCs, Visits
<1>3. Loops /\ Once /\ DependentsFed /\ Fed
  BY NoneIn DEF Init, Loops, Once, DependentsFed, Fed
<1> QED
  BY <1>2, <1>3 DEF BInv

LEMMA BuildSuccessorsBInv ==
  ASSUME BInv, NEW a \in Apps, BuildSuccessors(a)
  PROVE  BInv'
<1>1. PICK s \in SetToSeqs(Successors(a)) :
        order' = [b \in DOMAIN order \union {a} |-> IF b = a THEN s ELSE order[b]]
  BY DEF BuildSuccessors
<1>2. s \in Seq(Apps) /\ ToSet(s) = Successors(a)
  BY Enumerates DEF Successors
<1>3. /\ DOMAIN order' = DOMAIN order \union {a}
      /\ \A b \in DOMAIN order' : order'[b] = IF b = a THEN s ELSE order[b]
  BY <1>1
<1>4. /\ pc = "successors" /\ a \notin DOMAIN order
      /\ links' = links /\ pull' = pull /\ push' = push
      /\ UNCHANGED <<resolved, inhale, exhale, dependents, selected, exhaled,
                      loop, work, pc>>
  BY DEF BuildSuccessors
<1>5. Typed'
  <2>1. \A b \in DOMAIN order' : order'[b] \in Seq(Apps) /\ ToSet(order'[b]) = Successors(b)'
    BY <1>2, <1>3, <1>4 DEF BInv, Typed, Successors
  <2>2. work' = {}
    BY <1>4 DEF BInv, Typed, Loops, Visits
  <2> QED
    BY <1>3, <1>4, <2>1, <2>2 DEF BInv, Typed
<1>6. Loops' /\ Once' /\ DependentsFed' /\ Fed'
  BY <1>4 DEF BInv, Loops, Once, DependentsFed, Feeders, Feeds, Fed
<1> QED
  BY <1>5, <1>6 DEF BInv

LEMMA InhaleBInv ==
  ASSUME BInv, Inhale
  PROVE  BInv'
<1>1. PICK s \in SetToSeqs(pull) : inhale' \in Sorted(s)
  BY DEF Inhale
<1>2. inhale' \in Seq(Apps)
  BY <1>1, Enumerates, SortedSame DEF BInv, Typed
<1>3. /\ pc = "successors" /\ pc' = "initial" /\ DOMAIN order = Apps
      /\ loop' = inhale' /\ work' = Visits(inhale', {})
      /\ UNCHANGED <<network, resolved, exhale, dependents, selected, exhaled>>
  BY DEF Inhale
<1>4. dependents = <<>> /\ exhale = <<>> /\ resolved = {}
  BY <1>3 DEF BInv, Loops
<1>5. Typed'
  BY <1>2, <1>3, <1>4 DEF BInv, Typed, network, PCs, Visits, Successors
<1>6. Loops' /\ Once' /\ DependentsFed' /\ Fed'
  BY <1>3, <1>4, NoneIn DEF Loops, Once, DependentsFed, Fed
<1> QED
  BY <1>5, <1>6 DEF BInv

\* A loop that collects dependents visits e, and they become d.
LEMMA CollectBInv ==
  ASSUME BInv, NEW e \in work, work' = work \ {e},
         pc \in {"initial", "collect"},
         \/ dependents' = dependents
         \/ /\ dependents' = AddDependent(Successor(e))
            /\ Successor(e) \notin ToSet(exhale),
         UNCHANGED <<network, resolved, inhale, exhale, selected, exhaled, loop, pc>>
  PROVE  BInv'
<1> DEFINE s == Successor(e)
<1>1. Name(e) \in Feeders /\ s \in Apps /\ Feeds(Name(e), s)
  BY Visiting DEF BInv, Loops, Feeders
<1>2. /\ dependents' \in Seq(Apps) /\ IsInjective(dependents')
      /\ ToSet(exhale) \intersect ToSet(dependents') = {}
      /\ \A t \in ToSet(dependents') : t \in ToSet(dependents) \/ (t = s /\ s \in push)
  <2>1. CASE dependents' = dependents
    BY <2>1 DEF BInv, Typed, Once
  <2>2. CASE dependents' = AddDependent(s) /\ s \notin ToSet(exhale)
    <3> HIDE DEF s
    <3> QED
      BY <1>1, <2>2, Added DEF BInv, Typed, Once
  <2> QED
    BY <2>1, <2>2
<1> HIDE DEF s
<1>3. Typed'
  BY <1>2 DEF BInv, Typed, network, Visits, Successors
<1>4. Loops' /\ Once'
  BY <1>2 DEF BInv, Loops, Once
<1>5. Feeders' = Feeders /\ push' = push /\ links' = links
  BY DEF Feeders, network
<1>6. DependentsFed'
  BY <1>1, <1>2, <1>5 DEF BInv, DependentsFed, Feeds
<1>7. Fed'
  BY <1>5 DEF BInv, Fed
<1> QED
  BY <1>3, <1>4, <1>6, <1>7 DEF BInv

LEMMA CollectInitialBInv ==
  ASSUME BInv, CollectInitial
  PROVE  BInv'
<1>1. exhale = <<>>
  BY DEF BInv, Loops, CollectInitial
<1> QED
  BY <1>1, CollectBInv, NoneIn DEF CollectInitial

LEMMA CollectFurtherBInv ==
  ASSUME BInv, CollectFurther
  PROVE  BInv'
<1>1. PICK e \in work :
        /\ dependents' = IF Contains(exhale, Successor(e)) THEN dependents
                                                           ELSE AddDependent(Successor(e))
        /\ work' = work \ {e}
  BY DEF CollectFurther
<1>2. exhale \in Seq(Apps)
  BY DEF BInv, Typed
<1>3. Contains(exhale, Successor(e)) <=> Successor(e) \in ToSet(exhale)
  BY <1>2, ContainsSet
<1> QED
  BY <1>1, <1>3, CollectBInv DEF CollectFurther

\* The while loop is entered or left.
LEMMA WhileBInv ==
  ASSUME BInv, NEW r \in SUBSET Apps, resolved' = r, pc \in {"initial", "collect"},
         WhileDependents(dependents, r),
         UNCHANGED <<network, inhale, exhale, dependents, exhaled>>
  PROVE  BInv'
<1>1. /\ loop' = dependents /\ work' = Visits(dependents, r) /\ selected' = {}
      /\ pc' \in {"done", "select"} /\ (pc' = "done" => dependents = <<>>)
  BY DEF WhileDependents
<1>2. Typed'
  BY <1>1 DEF BInv, Typed, network, PCs, Visits, Successors
<1>3. Loops' /\ Once'
  BY <1>1 DEF BInv, Loops, Once
<1>4. DependentsFed' /\ Fed'
  BY DEF BInv, DependentsFed, Feeders, Feeds, Fed, network
<1> QED
  BY <1>2, <1>3, <1>4 DEF BInv

LEMMA ResolveBInv ==
  ASSUME BInv, ResolveInhalers \/ ResolveExhaled
  PROVE  BInv'
<1>1. ToSet(inhale) \subseteq Apps /\ ToSet(exhaled) \subseteq Apps /\ resolved \subseteq Apps
  BY DEF BInv, Typed, ToSet
<1>2. CASE ResolveInhalers
  BY <1>1, <1>2, WhileBInv DEF ResolveInhalers
<1>3. CASE ResolveExhaled
  BY <1>1, <1>3, WhileBInv DEF ResolveExhaled
<1> QED
  BY <1>2, <1>3

\* An iteration of the loop that delays dependents leaves them alone, or
\* removes the visited successor.
LEMMA Selects ==
  ASSUME BInv, Select
  PROVE  \E e \in work :
           /\ work' = work \ {e}
           /\ dependents' \in Seq(Apps) /\ IsInjective(dependents')
           /\ \/ UNCHANGED <<selected, dependents>>
              \/ /\ Successor(e) \notin selected /\ Successor(e) \in ToSet(dependents)
                 /\ ToSet(dependents') = ToSet(dependents) \ {Successor(e)}
                 /\ selected' = selected \union {Name(e)}
<1>1. dependents \in Seq(Apps) /\ IsInjective(dependents)
  BY DEF BInv, Typed, Once
<1>2. PICK e \in work :
        /\ IF Delays(Successor(e))
           THEN /\ selected' = selected \union {Name(e)}
                /\ \E i \in DOMAIN dependents :
                     /\ dependents[i] = Successor(e)
                     /\ dependents' = RemoveAt(dependents, i)
           ELSE UNCHANGED <<selected, dependents>>
        /\ work' = work \ {e}
  BY DEF Select
<1>3. CASE Delays(Successor(e))
  <2>1. PICK i \in DOMAIN dependents :
          dependents[i] = Successor(e) /\ dependents' = RemoveAt(dependents, i)
    BY <1>2, <1>3
  <2>2. /\ dependents' \in Seq(Apps) /\ IsInjective(dependents')
        /\ ToSet(dependents') = ToSet(dependents) \ {Successor(e)}
    BY <1>1, <2>1, RemoveSet
  <2>3. Successor(e) \notin selected /\ Successor(e) \in ToSet(dependents)
    BY <1>3, <2>1 DEF Delays, ToSet
  <2> QED
    BY <1>2, <1>3, <2>2, <2>3
<1>4. CASE ~Delays(Successor(e))
  BY <1>1, <1>2, <1>4
<1> QED
  BY <1>3, <1>4

LEMMA SelectBInv ==
  ASSUME BInv, Select
  PROVE  BInv'
<1>1. PICK e \in work :
        /\ work' = work \ {e}
        /\ dependents' \in Seq(Apps) /\ IsInjective(dependents')
        /\ ToSet(dependents') \subseteq ToSet(dependents)
        /\ selected' \subseteq selected \union {Name(e)}
  BY Selects
<1>2. /\ pc = "select"
      /\ UNCHANGED <<network, resolved, inhale, exhale, exhaled, loop, pc>>
  BY DEF Select
<1>3. Name(e) \in Apps
  BY <1>2, Visiting DEF BInv, Typed, ToSet
<1>4. Typed'
  BY <1>1, <1>2, <1>3 DEF BInv, Typed, network, Visits, Successors
<1>5. Loops' /\ Once'
  BY <1>1, <1>2 DEF BInv, Loops, Once
<1>6. Feeders' = Feeders /\ push' = push /\ links' = links
  BY <1>2 DEF Feeders, network
<1>7. DependentsFed' /\ Fed'
  BY <1>1, <1>2, <1>6 DEF BInv, DependentsFed, Feeds, Fed
<1> QED
  BY <1>4, <1>5, <1>7 DEF BInv

\* What a round exhales: the dependents that are left, at the end.
LEMMA Exhales ==
  ASSUME BInv, Exhale
  PROVE  /\ exhaled' \in Seq(Apps) /\ ToSet(exhaled') = ToSet(dependents)
         /\ exhale' \in Seq(Apps) /\ IsInjective(exhale')
         /\ ToSet(exhale') = ToSet(exhale) \union ToSet(dependents)
<1>1. exhaled' \in Sorted(dependents) /\ exhale' = exhale \o exhaled'
  BY DEF Exhale
<1>2. /\ dependents \in Seq(Apps) /\ IsInjective(dependents)
      /\ exhale \in Seq(Apps) /\ IsInjective(exhale)
      /\ ToSet(exhale) \intersect ToSet(dependents) = {}
  BY DEF BInv, Typed, Once
<1>3. exhaled' \in Seq(Apps) /\ ToSet(exhaled') = ToSet(dependents) /\ IsInjective(exhaled')
  BY <1>1, <1>2, SortedSame
<1> QED
  BY <1>1, <1>2, <1>3, ConcatSet

LEMMA ExhaleBInv ==
  ASSUME BInv, Exhale
  PROVE  BInv'
<1>1. /\ pc = "select" /\ pc' = "collect"
      /\ exhale' = exhale \o exhaled' /\ dependents' = <<>>
      /\ loop' = exhaled' /\ work' = Visits(exhaled', resolved)
      /\ UNCHANGED <<network, resolved, inhale, selected>>
  BY DEF Exhale
<1>2. /\ exhaled' \in Seq(Apps) /\ ToSet(exhaled') = ToSet(dependents)
      /\ exhale' \in Seq(Apps) /\ IsInjective(exhale')
      /\ ToSet(exhale') = ToSet(exhale) \union ToSet(dependents)
  BY Exhales
<1>3. Typed'
  BY <1>1, <1>2, NoneIn DEF BInv, Typed, network, PCs, Visits, Successors
<1>4. Loops' /\ Once' /\ DependentsFed'
  BY <1>1, <1>2, NoneIn DEF Loops, Once, DependentsFed
<1>5. Fed'
  <2> SUFFICES ASSUME NEW i \in DOMAIN exhale'
               PROVE  /\ exhale'[i] \in push
                      /\ \/ \E a \in ToSet(inhale) : <<a, exhale'[i]>> \in links
                         \/ \E j \in 1 .. i - 1 : <<exhale'[j], exhale'[i]>> \in links
    BY <1>1 DEF Fed, network
  <2>1. /\ exhale \in Seq(Apps) /\ DOMAIN exhale = 1 .. Len(exhale) /\ Len(exhale) \in Nat
        /\ DOMAIN exhaled' = 1 .. Len(exhaled') /\ Len(exhaled') \in Nat
    BY <1>2 DEF BInv, Typed
  <2>2. /\ i \in 1 .. Len(exhale) + Len(exhaled')
        /\ \A k \in 1 .. Len(exhale) + Len(exhaled') :
             exhale'[k] = IF k <= Len(exhale) THEN exhale[k] ELSE exhaled'[k - Len(exhale)]
    BY <1>1, <1>2, <2>1, ConcatProperties
  <2>3. CASE i <= Len(exhale)
    <3>1. i \in DOMAIN exhale /\ exhale'[i] = exhale[i]
      BY <2>1, <2>2, <2>3
    <3>2. \A j \in 1 .. i - 1 : exhale'[j] = exhale[j]
      BY <2>1, <2>2, <2>3
    <3> QED
      BY <3>1, <3>2 DEF BInv, Fed
  <2>4. CASE ~(i <= Len(exhale))
    <3>1. i - Len(exhale) \in 1 .. Len(exhaled') /\ exhale'[i] = exhaled'[i - Len(exhale)]
      BY <2>1, <2>2, <2>4
    <3>2. exhale'[i] \in ToSet(dependents)
      BY <1>2, <2>1, <3>1 DEF ToSet
    <3>3. exhale'[i] \in push /\ \E a \in Feeders : Feeds(a, exhale'[i])
      BY <3>2 DEF BInv, DependentsFed
    <3>4. PICK a \in Feeders : <<a, exhale'[i]>> \in links
      BY <3>3 DEF Feeds
    <3>5. CASE a \in ToSet(exhale)
      <4>1. PICK j \in DOMAIN exhale : exhale[j] = a
        BY <3>5 DEF ToSet
      <4>2. j \in 1 .. i - 1 /\ exhale'[j] = a
        BY <2>1, <2>2, <2>4, <4>1
      <4> QED
        BY <3>3, <3>4, <4>2
    <3> QED
      BY <3>3, <3>4, <3>5 DEF Feeders
  <2> QED
    BY <2>3, <2>4
<1> QED
  BY <1>3, <1>4, <1>5 DEF BInv

\* The invariant of compute_breathe_order().
THEOREM OrderInvariant == Spec => []BInv
<1>1. ASSUME BInv, [Next]_vars
      PROVE  BInv'
  <2>1. ASSUME NEW a \in Apps, BuildSuccessors(a) PROVE BInv'
    BY <1>1, <2>1, BuildSuccessorsBInv
  <2>2. CASE Inhale
    BY <1>1, <2>2, InhaleBInv
  <2>3. CASE CollectInitial
    BY <1>1, <2>3, CollectInitialBInv
  <2>4. CASE ResolveInhalers \/ ResolveExhaled
    BY <1>1, <2>4, ResolveBInv
  <2>5. CASE Select
    BY <1>1, <2>5, SelectBInv
  <2>6. CASE Exhale
    BY <1>1, <2>6, ExhaleBInv
  <2>7. CASE CollectFurther
    BY <1>1, <2>7, CollectFurtherBInv
  <2>8. CASE UNCHANGED vars
    <3>1. Typed'
      BY <1>1, <2>8 DEF vars, BInv, Typed, Visits, Successors
    <3>2. Loops' /\ Once' /\ DependentsFed' /\ Fed'
      BY <1>1, <2>8 DEF vars, BInv, Loops, Once, DependentsFed, Feeders, Feeds, Fed
    <3> QED
      BY <3>1, <3>2 DEF BInv
  <2> QED
    BY <1>1, <2>1, <2>2, <2>3, <2>4, <2>5, <2>6, <2>7, <2>8 DEF Next
<1> QED
  BY <1>1, InitBInv, PTL DEF Spec

\* The function's state is well-typed throughout, and its loops visit links
\* of apps that are not resolved only.
THEOREM OrderTypeCorrect == Spec => []TypeOK
<1>1. ASSUME BInv PROVE TypeOK
  <2>1. \A s \in {inhale, exhale, dependents, exhaled, loop} : ToSet(s) \subseteq Apps
    BY <1>1 DEF BInv, Typed, ToSet
  <2>2. ASSUME NEW e \in work
        PROVE  Name(e) \notin resolved /\ <<Name(e), Successor(e)>> \in links
    <3>1. pc # "successors"
      BY <1>1 DEF BInv, Typed, Loops, Visits
    <3> QED
      BY <1>1, <3>1, Visiting DEF BInv, Feeds
  <2> QED
    BY <1>1, <2>1, <2>2 DEF BInv, Typed, TypeOK, PCs
<1> QED
  BY <1>1, OrderInvariant, PTL

\* compute_breathe_order() "executes each app's callbacks at most once".
THEOREM ExecutesAtMostOnce == Spec => []AtMostOnce
<1>1. BInv => AtMostOnce
  BY ConcatSet DEF BInv, Typed, Once, AtMostOnce
<1> QED
  BY <1>1, OrderInvariant, PTL

\* push() is called for apps that have it, each after an app that feeds it.
THEOREM ExecutesFed == Spec => []Fed
<1>1. BInv => Fed
  BY DEF BInv
<1> QED
  BY <1>1, OrderInvariant, PTL

-----------------------------------------------------------------------------
(* Pending is an invariant of networks without self links.                 *)

\* A loop has visited every link once it has nothing to visit.
LEMMA AllSeen ==
  ASSUME BInv, pc # "successors", work = {}, NEW D, Seen(D),
         NEW a \in ToSet(loop) \ resolved, NEW s \in push, Feeds(a, s)
  PROVE  s \in D
<1>1. loop \in Seq(Apps) /\ resolved \in SUBSET Apps /\ s \in Apps /\ Typed
  BY DEF BInv, Typed
<1>2. PICK e \in Visits(loop, resolved) : loop[e[1]] = a /\ order[loop[e[1]]][e[2]] = s
  BY <1>1, VisitsLinks
<1> QED
  BY <1>2 DEF Seen, Successor, Name

\* What D and the successor of the position visited are in, has everything
\* visited so far.
LEMMA SeesMore ==
  ASSUME NEW e \in work, NEW D, NEW E, Seen(D), D \subseteq E,
         Successor(e) \in push => Successor(e) \in E,
         work' = work \ {e}, UNCHANGED <<network, loop, resolved>>
  PROVE  \A f \in Visits(loop, resolved)' \ work' :
           Successor(f)' \in push' => Successor(f)' \in E
<1>1. push' = push /\ Visits(loop, resolved)' = Visits(loop, resolved)
  BY DEF network, Visits
<1>2. \A f : Successor(f)' = Successor(f)
  BY DEF network, Successor, Name
<1> QED
  BY <1>1, <1>2 DEF Seen

LEMMA InhalePending ==
  ASSUME BInv, Inhale
  PROVE  Pending'
<1>1. /\ pc' = "initial" /\ work' = Visits(inhale', {}) /\ loop' = inhale'
      /\ resolved' = {} /\ order' = order
  BY DEF Inhale, BInv, Loops, network
<1>2. Visits(loop, resolved)' = work'
  BY <1>1 DEF Visits
<1> QED
  BY <1>1, <1>2 DEF Pending, Initial, Seen

LEMMA CollectInitialPending ==
  ASSUME BInv, Pending, CollectInitial
  PROVE  Pending'
<1>1. PICK e \in work : dependents' = AddDependent(Successor(e)) /\ work' = work \ {e}
  BY DEF CollectInitial
<1>2. /\ pc = "initial" /\ Seen(ToSet(dependents))
      /\ UNCHANGED <<network, loop, resolved, pc>>
  BY DEF CollectInitial, Pending, Initial
<1>3. Successor(e) \in Apps /\ dependents \in Seq(Apps)
  BY <1>2, Visiting DEF BInv, Typed
<1>4. ToSet(dependents') = ToSet(dependents) \union ({Successor(e)} \intersect push)
  BY <1>1, <1>3, Added
<1>5. \A f \in Visits(loop, resolved)' \ work' :
        Successor(f)' \in push' => Successor(f)' \in ToSet(dependents')
  BY <1>1, <1>2, <1>4, SeesMore
<1> QED
  BY <1>2, <1>5 DEF Pending, Initial, Seen

LEMMA ResolveInhalersPending ==
  ASSUME BInv, Pending, ResolveInhalers
  PROVE  Pending'
<1>1. /\ pc = "initial" /\ work = {} /\ resolved' = ToSet(inhale)
      /\ loop' = dependents /\ selected' = {} /\ pc' \in {"done", "select"}
      /\ UNCHANGED <<network, inhale, exhale, dependents>>
      /\ pc' = "done" => dependents = <<>>
  BY DEF ResolveInhalers, WhileDependents
<1>2. loop = inhale /\ exhale = <<>> /\ resolved = {} /\ Seen(ToSet(dependents))
  BY <1>1 DEF BInv, Loops, Pending, Initial
<1>3. \A a \in ToSet(inhale) : \A s \in push : Feeds(a, s) => s \in ToSet(dependents)
  BY <1>1, <1>2, AllSeen
<1>4. Owed' \subseteq ToSet(dependents)
  BY <1>1, <1>3 DEF Owed, Feeds, network
<1>5. resolved' = Feeders'
  BY <1>1, <1>2, NoneIn DEF Feeders
<1>6. Selecting'
  BY <1>1, <1>4, <1>5 DEF Selecting, Reached, Delayed
<1>7. pc' = "done" => Done'
  BY <1>1, <1>4, <1>5, NoneIn DEF Done, Reached
<1> QED
  BY <1>1, <1>6, <1>7 DEF Pending

LEMMA SelectPending ==
  ASSUME NoSelfLink, BInv, PInv, Select
  PROVE  Pending'
<1>1. PICK e \in work :
        /\ \/ UNCHANGED <<selected, dependents>>
           \/ /\ Successor(e) \notin selected /\ Successor(e) \in ToSet(dependents)
              /\ ToSet(dependents') = ToSet(dependents) \ {Successor(e)}
              /\ selected' = selected \union {Name(e)}
  BY Selects
<1>2. /\ pc = "select" /\ pc' = "select"
      /\ UNCHANGED <<network, resolved, inhale, exhale, loop>>
  BY DEF Select
<1>3. Selecting
  BY <1>2 DEF PInv, Pending
<1>4. Reached(ToSet(exhale) \union ToSet(loop))' /\ (resolved = Feeders)'
  BY <1>2, <1>3 DEF Selecting, Reached, Owed, Follows, Feeds, Feeders, network
<1>5. CASE UNCHANGED <<selected, dependents>>
  <2>1. Delayed'
    BY <1>2, <1>3, <1>5 DEF Selecting, Delayed, SelectedFollow, Feeds, network
  <2> QED
    BY <1>2, <1>3, <1>4, <1>5, <2>1 DEF Selecting, Pending
<1>6. CASE /\ Successor(e) \notin selected /\ Successor(e) \in ToSet(dependents)
           /\ ToSet(dependents') = ToSet(dependents) \ {Successor(e)}
           /\ selected' = selected \union {Name(e)}
  <2> DEFINE a == Name(e)
             s == Successor(e)
             D == ToSet(dependents)
  <2>1. a \in ToSet(loop) \ resolved /\ s \in Apps /\ Feeds(a, s)
    BY <1>2, Visiting DEF BInv
  <2>2. a # s
    BY <2>1 DEF NoSelfLink, PInv, Feeds
  <2>3. s \in push
    BY <1>6 DEF BInv, DependentsFed
  <2> HIDE DEF a, s
  <2>4. ToSet(dependents') = D \ {s} /\ selected' = selected \union {a} /\ s \notin selected
    BY <1>6 DEF a, s
  <2>5. ASSUME NEW X \in SUBSET Apps, SelectedFollow(X)'
        PROVE  ToSet(loop) \ ToSet(dependents') \subseteq X
    <3>1. /\ selected' \intersect ToSet(dependents') \subseteq X
          /\ \A x \in X \intersect selected' : \A t \in push : Feeds(x, t) => t \in X
      BY <1>2, <2>5 DEF SelectedFollow, Feeds, network
    <3>2. SelectedFollow(X)
      BY <2>4, <3>1 DEF SelectedFollow
    <3>3. ToSet(loop) \ D \subseteq X
      BY <1>3, <3>2 DEF Selecting, Delayed
    <3>4. a \in X
      BY <2>1, <2>2, <2>4, <3>1, <3>3
    <3>5. s \in X
      BY <2>1, <2>3, <2>4, <3>1, <3>4
    <3> QED
      BY <2>4, <3>3, <3>5
  <2>6. Delayed'
    BY <1>2, <2>5 DEF Delayed
  <2> QED
    BY <1>2, <1>3, <1>4, <2>1, <2>4, <2>6 DEF Selecting, Pending
<1> QED
  BY <1>1, <1>5, <1>6

LEMMA ExhalePending ==
  ASSUME BInv, Pending, Exhale
  PROVE  Pending'
<1>1. /\ pc = "select" /\ pc' = "collect"
      /\ loop' = exhaled' /\ work' = Visits(exhaled', resolved)
      /\ UNCHANGED <<network, resolved, inhale>>
  BY DEF Exhale
<1>2. /\ ToSet(exhaled') = ToSet(dependents)
      /\ ToSet(exhale') = ToSet(exhale) \union ToSet(dependents)
  BY Exhales
<1>3. Selecting
  BY <1>1 DEF Pending
<1>4. ASSUME NEW X \in SUBSET Apps, ToSet(exhale') \subseteq X, Follows(X)'
      PROVE  Owed' \subseteq X
  <2>1. Follows(X) /\ Owed' = Owed
    BY <1>1, <1>4 DEF Follows, Owed, Feeds, network
  <2>2. SelectedFollow(X)
    BY <1>2, <1>3, <1>4, <2>1 DEF Selecting, SelectedFollow, Follows
  <2>3. ToSet(loop) \subseteq X
    BY <1>2, <1>3, <1>4, <2>2 DEF Selecting, Delayed
  <2> QED
    BY <1>2, <1>3, <1>4, <2>1, <2>3 DEF Selecting, Reached
<1>5. Visits(loop, resolved)' = work'
  BY <1>1 DEF Visits, network
<1>6. Collecting'
  BY <1>1, <1>2, <1>3, <1>4, <1>5 DEF Collecting, Selecting, Reached, Seen, Feeders
<1> QED
  BY <1>1, <1>6 DEF Pending

LEMMA CollectFurtherPending ==
  ASSUME BInv, Pending, CollectFurther
  PROVE  Pending'
<1>1. PICK e \in work :
        /\ dependents' = IF Contains(exhale, Successor(e)) THEN dependents
                                                           ELSE AddDependent(Successor(e))
        /\ work' = work \ {e}
  BY DEF CollectFurther
<1>2. /\ pc = "collect" /\ pc' = "collect" /\ Collecting
      /\ UNCHANGED <<network, resolved, inhale, exhale, exhaled, loop>>
  BY DEF CollectFurther, Pending
<1>3. Successor(e) \in Apps /\ dependents \in Seq(Apps) /\ exhale \in Seq(Apps)
  BY <1>2, Visiting DEF BInv, Typed
<1>4. /\ ToSet(dependents) \subseteq ToSet(dependents')
      /\ Successor(e) \in push => Successor(e) \in ToSet(exhale) \union ToSet(dependents')
  BY <1>1, <1>3, Added, ContainsSet
<1>5. \A f \in Visits(loop, resolved)' \ work' :
        Successor(f)' \in push' => Successor(f)' \in ToSet(exhale) \union ToSet(dependents')
  BY <1>1, <1>2, <1>4, SeesMore DEF Collecting
<1>6. Seen(ToSet(exhale) \union ToSet(dependents))'
  BY <1>2, <1>5 DEF Seen
<1>7. Reached(ToSet(exhale))'
  BY <1>2 DEF Collecting, Reached, Owed, Follows, Feeds, network
<1> QED
  BY <1>2, <1>6, <1>7 DEF Pending, Collecting, Feeders

LEMMA ResolveExhaledPending ==
  ASSUME BInv, Pending, ResolveExhaled
  PROVE  Pending'
<1>1. /\ pc = "collect" /\ work = {} /\ resolved' = resolved \union ToSet(exhaled)
      /\ loop' = dependents /\ selected' = {} /\ pc' \in {"done", "select"}
      /\ UNCHANGED <<network, inhale, exhale, dependents>>
      /\ pc' = "done" => dependents = <<>>
  BY DEF ResolveExhaled, WhileDependents
<1>2. /\ loop = exhaled /\ ToSet(exhaled) \subseteq ToSet(exhale) /\ Collecting
  BY <1>1 DEF BInv, Loops, Pending
<1> DEFINE D == ToSet(exhale) \union ToSet(dependents)
<1>3. \A a \in ToSet(exhaled) \ resolved : \A s \in push : Feeds(a, s) => s \in D
  <2>1. Seen(D)
    BY <1>2 DEF Collecting
  <2> HIDE DEF D
  <2> QED
    BY <1>1, <1>2, <2>1, AllSeen
<1> HIDE DEF D
<1>4. ASSUME NEW X \in SUBSET Apps, D \subseteq X, Follows(X)'
      PROVE  Owed' \subseteq X
  <2>1. \A x \in X : x \notin resolved' => \A s \in push : Feeds(x, s) => s \in X
    BY <1>1, <1>4 DEF Follows, Feeds, network
  <2>2. Follows(X)
    BY <1>1, <1>3, <1>4, <2>1 DEF Follows
  <2>3. Owed \subseteq X
    BY <1>2, <1>4, <2>2 DEF Collecting, Reached, D
  <2> SUFFICES ASSUME NEW s \in push, NEW a \in resolved', Feeds(a, s) PROVE s \in X
    BY <1>1 DEF Owed, Feeds, network
  <2>4. CASE a \in resolved
    BY <2>3, <2>4 DEF Owed
  <2>5. CASE a \in ToSet(exhaled) \ resolved
    BY <1>3, <1>4, <2>5
  <2> QED
    BY <1>1, <2>4, <2>5
<1>5. resolved' = Feeders'
  BY <1>1, <1>2 DEF Collecting, Feeders
<1>6. Selecting'
  BY <1>1, <1>4, <1>5 DEF Selecting, Reached, Delayed, D
<1>7. pc' = "done" => Done'
  BY <1>1, <1>4, <1>5, NoneIn DEF Done, Reached, D
<1> QED
  BY <1>1, <1>6, <1>7 DEF Pending

\* However the delays of the rounds interfere, every push app that an inhaler
\* or an exhaled app links to is exhaled, in every network without links from
\* an app to itself.
THEOREM NoneIsForgotten ==
  ASSUME NoSelfLink
  PROVE  Spec => []NoneForgotten
<1>1. Init => PInv
  BY DEF Init, PInv, Pending
<1>2. ASSUME BInv, PInv, [Next]_vars
      PROVE  PInv'
  <2>1. links' = links
    BY <1>2 DEF Next, BuildSuccessors, Inhale, CollectInitial, ResolveInhalers, Select,
                Exhale, CollectFurther, ResolveExhaled, network, vars
  <2> SUFFICES Pending'
    BY <1>2, <2>1 DEF PInv
  <2>2. ASSUME NEW a \in Apps, BuildSuccessors(a) PROVE Pending'
    BY <2>2 DEF BuildSuccessors, Pending
  <2>3. CASE Inhale
    BY <1>2, <2>3, InhalePending
  <2>4. CASE CollectInitial
    BY <1>2, <2>4, CollectInitialPending DEF PInv
  <2>5. CASE ResolveInhalers
    BY <1>2, <2>5, ResolveInhalersPending DEF PInv
  <2>6. CASE Select
    BY <1>2, <2>6, NoSelfLink, SelectPending
  <2>7. CASE Exhale
    BY <1>2, <2>7, ExhalePending DEF PInv
  <2>8. CASE CollectFurther
    BY <1>2, <2>8, CollectFurtherPending DEF PInv
  <2>9. CASE ResolveExhaled
    BY <1>2, <2>9, ResolveExhaledPending DEF PInv
  <2>10. CASE UNCHANGED vars
    BY <1>2, <2>10 DEF vars, PInv, Pending, Initial, Selecting, Collecting, Done, Seen,
       Visits, Name, Successor, Reached, Owed, Follows, Delayed, SelectedFollow, Feeds,
       Feeders
  <2> QED
    BY <1>2, <2>2, <2>3, <2>4, <2>5, <2>6, <2>7, <2>8, <2>9, <2>10 DEF Next
<1>3. ASSUME BInv, PInv PROVE NoneForgotten
  <2> SUFFICES ASSUME pc = "done", NEW a \in Feeders, NEW s \in Successors(a) \intersect push
               PROVE  s \in ToSet(exhale)
    BY DEF NoneForgotten, Feeders
  <2>1. Reached(ToSet(exhale)) /\ resolved = Feeders
    BY <1>3 DEF PInv, Pending, Done
  <2>2. ToSet(exhale) \in SUBSET Apps
    BY <1>3 DEF BInv, Typed, ToSet
  <2>3. Follows(ToSet(exhale))
    BY <2>1 DEF Follows, Feeders
  <2>4. Owed \subseteq ToSet(exhale)
    BY <2>1, <2>2, <2>3 DEF Reached
  <2> QED
    BY <2>1, <2>4 DEF Owed, Feeds, Successors
<1> QED
  BY <1>1, <1>2, <1>3, OrderInvariant, PTL DEF Spec

=============================================================================
