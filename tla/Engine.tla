------------------------------- MODULE Engine -------------------------------
(***************************************************************************)
(* main() of src/engine.rs: the breathe loop, its clock and its pacing,    *)
(* with the apps of src/basic_apps.rs and a network adapter app as the     *)
(* programs it calls.                                                      *)
(*                                                                         *)
(* A link is a tuple <<from, to, port>>; of its packets the number is      *)
(* kept.  (Link shows that they are queued, and owned once.)  The breathe  *)
(* order is any that satisfies what BreatheOrder shows of it.  `clock' is  *)
(* the time Instant::now() returns; it may advance between any two steps.  *)
(***************************************************************************)
EXTENDS Integers, Sequences, SequencesExt

CONSTANTS
  Networks,            \* app networks: [kind, links]
  PULL_NPACKETS,       \* 102
  LINK_MAX_PACKETS,    \* 1023
  MAXSLEEP,            \* 100 microseconds
  Durations,           \* the durations main() is called with
  Predicate,           \* instead of a duration: main() is called with `done'
  NoTime,              \* None, for an Instant
  MaxBreaths,          \* bound: breaths
  MaxTime              \* bound: the clock, except while the engine sleeps

ASSUME EngineAssumption ==
  /\ PULL_NPACKETS \in Nat /\ LINK_MAX_PACKETS \in Nat \ {0} /\ MAXSLEEP \in Nat
  /\ Durations \subseteq Nat /\ Predicate \notin Nat /\ NoTime \notin Nat
  /\ MaxBreaths \in Nat /\ MaxTime \in Nat

\* Links connect configured apps.
ASSUME NetworksAssumption ==
  \A n \in Networks :
    /\ IsFiniteSet(DOMAIN n.kind) /\ IsFiniteSet(n.links)
    /\ \A a \in DOMAIN n.kind : n.kind[a] \in {"Source", "Sink", "Tee", "Nic"}
    /\ \A l \in n.links : l[1] \in DOMAIN n.kind /\ l[2] \in DOMAIN n.kind

VARIABLES
  net, inhale, exhale,   \* the configured network and its breathe order
  queue,                 \* packets on each link
  held,                  \* packets on transmit rings of adapters
  allocated, frees,      \* packets allocated; STATS.frees
  breaths,               \* STATS.breaths
  clock, MONOTONIC_NOW,
  deadline,              \* of the timeout of main(), or Predicate
  SLEEP, LASTFREES, wake,
  pc,                    \* where main() is; "idle" outside of it
  turn, visited,         \* apps yet to be called; inputs the first has visited
  call, freed            \* when and with what main() was called; frees when
                         \* the breath began

network == <<net, inhale, exhale>>
packets == <<queue, held, allocated, frees>>
timing  == <<MONOTONIC_NOW, deadline, SLEEP, LASTFREES, wake>>
vars    == <<network, packets, breaths, clock, timing, pc, turn, visited, call, freed>>

-----------------------------------------------------------------------------

Outputs(a) == {l \in net.links : l[1] = a}
Inputs(a)  == {l \in net.links : l[2] = a}

\* Kinds of apps: "Source", "Sink", "Tee", "Nic".
has_pull(k) == k \in {"Source", "Nic"}
has_push(k) == k \in {"Sink", "Tee", "Nic"}

\* What BreatheOrder establishes: AtMostOnce, Fed and NoneForgotten.
IsExhaleOrder(n, s) ==
  LET pullers == {a \in DOMAIN n.kind : has_pull(n.kind[a])}
      pushers == {a \in DOMAIN n.kind : has_push(n.kind[a])}
  IN  /\ IsInjective(s)
      /\ \A i \in DOMAIN s : \E l \in n.links :
            l[2] = s[i] /\ l[1] \in pullers \union {s[j] : j \in 1 .. i - 1}
      /\ \A l \in n.links :
            l[1] \in pullers \union ToSet(s) /\ l[2] \in pushers => l[2] \in ToSet(s)

Init ==
  /\ net \in Networks
  /\ inhale = SetToSeq({a \in DOMAIN net.kind : has_pull(net.kind[a])})
  /\ exhale \in {s \in UNION {SetToSeqs(S) : S \in SUBSET {a \in DOMAIN net.kind :
                                                            has_push(net.kind[a])}} :
                   IsExhaleOrder(net, s)}
  /\ queue = [l \in net.links |-> 0]
  /\ held = 0 /\ allocated = 0 /\ frees = 0
  /\ breaths = 0
  /\ clock = 0 /\ MONOTONIC_NOW = NoTime
  /\ deadline = Predicate
  /\ SLEEP = 0 /\ LASTFREES = 0 /\ wake = 0
  /\ pc = "idle" /\ turn = <<>> /\ visited = {}
  /\ call = [start |-> 0, duration |-> Predicate] /\ freed = 0

-----------------------------------------------------------------------------
(* Time.                                                                   *)

now == IF MONOTONIC_NOW = NoTime THEN clock ELSE MONOTONIC_NOW

Tick ==
  /\ clock < IF pc = "sleep" THEN wake ELSE MaxTime
  /\ clock' = clock + 1
  /\ UNCHANGED <<network, packets, breaths, timing, pc, turn, visited, call, freed>>

-----------------------------------------------------------------------------
(* link::transmit() of n packets to a link that has q.                     *)

Accepted(q, n) == IF q + n <= LINK_MAX_PACKETS THEN q + n ELSE LINK_MAX_PACKETS

\* Of n packets to each output of app a, those that find the link full.
Refused(a, n) ==
  {p \in Outputs(a) \X (1 .. n) : queue[p[1]] + p[2] > LINK_MAX_PACKETS}

\* Each of the outputs of app a gets n packets and the links in emptied none.
Transmit(a, n, emptied) ==
  queue' = [l \in net.links |->
              IF l \in emptied THEN 0
              ELSE IF l[1] = a THEN Accepted(queue[l], n) ELSE queue[l]]

-----------------------------------------------------------------------------
(* breathe()                                                               *)

Breathe ==
  /\ pc = "breathe"
  /\ MONOTONIC_NOW' = clock
  /\ freed' = frees
  /\ turn' = inhale /\ pc' = "pull"
  /\ UNCHANGED <<network, packets, breaths, clock, deadline, SLEEP, LASTFREES, wake,
                 visited, call>>

\* pull() of a Source transmits PULL_NPACKETS new packets to each output, that
\* of an adapter the packets it has received, which it replaces.
Pull ==
  /\ pc = "pull" /\ turn # <<>>
  /\ LET a == Head(turn) IN
     \E n \in IF net.kind[a] = "Source" THEN {PULL_NPACKETS} ELSE 0 .. PULL_NPACKETS :
        /\ Transmit(a, n, {})
        /\ allocated' = allocated + n * Cardinality(Outputs(a))
        /\ frees' = frees + Cardinality(Refused(a, n))
  /\ turn' = Tail(turn)
  /\ UNCHANGED <<network, held, breaths, clock, timing, pc, visited, call, freed>>

PullDone ==
  /\ pc = "pull" /\ turn = <<>>
  /\ turn' = exhale /\ pc' = "push"
  /\ UNCHANGED <<network, packets, breaths, clock, timing, visited, call, freed>>

\* Fault: at most PULL_NPACKETS are taken.
SinkPush_some(l) ==
  LET n == IF queue[l] < PULL_NPACKETS THEN queue[l] ELSE PULL_NPACKETS
  IN  /\ queue' = [queue EXCEPT ![l] = @ - n]
      /\ frees' = frees + n
      /\ UNCHANGED <<held, allocated, pc>>

\* push() of a Sink, for one input.
SinkPush(l) ==
  /\ queue' = [queue EXCEPT ![l] = 0]
  /\ frees' = frees + queue[l]
  /\ UNCHANGED <<held, allocated, pc>>

\* Fault: the packet that was cloned is not freed.
TeePush_leaks(a, l) ==
  /\ l \notin Outputs(a)
  /\ Transmit(a, queue[l], {l})
  /\ allocated' = allocated + queue[l] * Cardinality(Outputs(a))
  /\ frees' = frees + Cardinality(Refused(a, queue[l]))
  /\ UNCHANGED <<held, pc>>

\* push() of a Tee, for one input: each packet is cloned for every output and
\* freed.  The input is borrowed meanwhile, so that borrowing it a second time
\* as an output panics.
TeePush(a, l) ==
  \/ /\ l \in Outputs(a) /\ queue[l] > 0
     /\ pc' = "panic"
     /\ UNCHANGED packets
  \/ /\ l \notin Outputs(a) \/ queue[l] = 0
     /\ Transmit(a, queue[l], {l})
     /\ allocated' = allocated + queue[l] * Cardinality(Outputs(a))
     /\ frees' = frees + queue[l] + Cardinality(Refused(a, queue[l]))
     /\ UNCHANGED <<held, pc>>

\* push() of an adapter: packets sent are freed, then packets are taken off
\* the input as long as there is room on the ring.
NicPush(l) ==
  \E sent \in 0 .. held, n \in 0 .. queue[l] :
     /\ queue' = [queue EXCEPT ![l] = @ - n]
     /\ held' = held - sent + n
     /\ frees' = frees + sent
     /\ UNCHANGED <<allocated, pc>>

Push ==
  /\ pc = "push" /\ turn # <<>>
  /\ LET a == Head(turn) IN
     \E l \in Inputs(a) \ visited :
        /\ \/ net.kind[a] = "Sink" /\ SinkPush(l)
           \/ net.kind[a] = "Tee"  /\ TeePush(a, l)
           \/ net.kind[a] = "Nic"  /\ NicPush(l)
        /\ visited' = visited \union {l}
  /\ UNCHANGED <<network, breaths, clock, timing, turn, call, freed>>

PushDone ==
  /\ pc = "push" /\ turn # <<>>
  /\ Inputs(Head(turn)) \subseteq visited
  /\ turn' = Tail(turn) /\ visited' = {}
  /\ UNCHANGED <<network, packets, breaths, clock, timing, pc, call, freed>>

BreatheDone ==
  /\ pc = "push" /\ turn = <<>>
  /\ breaths' = breaths + 1
  /\ pc' = "check"
  /\ UNCHANGED <<network, packets, clock, timing, turn, visited, call, freed>>

-----------------------------------------------------------------------------
(* main()                                                                  *)

\* main() is called with a duration, or with a `done' predicate.
MainCall(d) ==
  /\ pc = "idle" /\ breaths < MaxBreaths
  /\ deadline' = IF d = Predicate THEN Predicate ELSE now + d
  /\ call' = [start |-> clock, duration |-> d]
  /\ pc' = "breathe"
  /\ UNCHANGED <<network, packets, breaths, clock, MONOTONIC_NOW, SLEEP, LASTFREES,
                 wake, turn, visited, freed>>

\* "You can not have both 'duration' and 'done'"
MainMisuse ==
  /\ pc = "idle"
  /\ pc' = "panic"
  /\ UNCHANGED <<network, packets, breaths, clock, timing, turn, visited, call, freed>>

\* The timeout is over, or the predicate may say so.
Done    == deadline # Predicate => now > deadline
NotDone == deadline # Predicate => now <= deadline

\* Fault: the time of the last breath is kept.
Return_frozen ==
  /\ pc = "check" /\ Done
  /\ pc' = "idle"
  /\ UNCHANGED <<network, packets, breaths, clock, timing, turn, visited, call, freed>>

Return ==
  /\ pc = "check" /\ Done
  /\ MONOTONIC_NOW' = NoTime
  /\ pc' = "idle"
  /\ UNCHANGED <<network, packets, breaths, clock, deadline, SLEEP, LASTFREES, wake,
                 turn, visited, call, freed>>

\* min(SLEEP + 1, MAXSLEEP)
LongerSleep == IF SLEEP + 1 <= MAXSLEEP THEN SLEEP + 1 ELSE MAXSLEEP

\* Fault: LASTFREES is updated before it is compared.
Idle_updated == TRUE

\* No packet was freed since the last time.
Idle == LASTFREES = frees

pace_breathing ==
  /\ LASTFREES' = frees
  /\ IF Idle
     THEN SLEEP' = LongerSleep /\ wake' = clock + SLEEP' /\ pc' = "sleep"
     ELSE SLEEP' = SLEEP \div 2 /\ UNCHANGED wake /\ pc' = "breathe"

Continue ==
  /\ pc = "check" /\ NotDone
  /\ breaths < MaxBreaths
  /\ pace_breathing
  /\ UNCHANGED <<network, packets, breaths, clock, MONOTONIC_NOW, deadline, turn,
                 visited, call, freed>>

Awake ==
  /\ pc = "sleep" /\ clock >= wake
  /\ pc' = "breathe"
  /\ UNCHANGED <<network, packets, breaths, clock, timing, turn, visited, call, freed>>

Next ==
  \/ Tick
  \/ \E d \in Durations \union {Predicate} : MainCall(d)
  \/ MainMisuse
  \/ Breathe \/ Pull \/ PullDone \/ Push \/ PushDone \/ BreatheDone
  \/ Return \/ Continue \/ Awake

Spec == Init /\ [][Next]_vars

-----------------------------------------------------------------------------
(* Properties.                                                             *)

\* Every variable has its type, links and sleep their limits.
TypeOK ==
  /\ net \in Networks
  /\ queue \in [net.links -> 0 .. LINK_MAX_PACKETS]
  /\ held \in Nat /\ allocated \in Nat /\ frees \in Nat /\ breaths \in Nat
  /\ clock \in Nat /\ MONOTONIC_NOW \in Nat \union {NoTime}
  /\ deadline \in Nat \union {Predicate}
  /\ SLEEP \in 0 .. MAXSLEEP /\ LASTFREES \in 0 .. frees /\ wake \in Nat
  /\ pc \in {"idle", "breathe", "pull", "push", "check", "sleep", "panic"}

\* The packets on links: the p[2]-th of link p[1].
OnLinks == {p \in net.links \X (1 .. LINK_MAX_PACKETS) : p[2] <= queue[p[1]]}

\* No app loses a packet: whatever was allocated was freed, or is on a link or
\* on the ring of an adapter.
Conservation == allocated = frees + held + Cardinality(OnLinks)

\* Where app a is in the exhale order.
Position(a) == CHOOSE i \in DOMAIN exhale : exhale[i] = a

\* "cycles imply that some packets may remain on links after breathe()
\* returns" (engine.rs:222), and no more than links against the exhale order
\* do: a link that is not empty after a breath leads to an adapter, whose ring
\* was full, to an app that does not push, or from a Tee to an app that was
\* called before it.  (FollowsLinks of BreatheOrder shows that there may be
\* such a link without a cycle.)
OnlyBackLinksKeep ==
  pc = "check" =>
    \A l \in net.links : queue[l] > 0 =>
       \/ net.kind[l[2]] \in {"Nic", "Source"}
       \/ net.kind[l[1]] = "Tee" /\ Position(l[2]) <= Position(l[1])

\* main() called with a duration runs for longer than that by the real clock,
\* although its timeout reads the time at which the last breath began, and
\* takes no other breath after the first that begins late enough.
Punctual ==
  [][pc = "check" /\ pc' # pc /\ call.duration # Predicate =>
       IF pc' = "idle" THEN clock > call.start + call.duration
                       ELSE MONOTONIC_NOW <= call.start + call.duration]_vars

\* "If packets are processed during a breath" (engine.rs:386), that is, freed,
\* the engine does not sleep after it, whatever was freed before main() was
\* called or by a breath that was not paced.
BusyNeverSleeps == pc = "sleep" => frees = freed

=============================================================================
