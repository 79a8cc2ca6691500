---------------------------- MODULE EngineProofs ----------------------------
(***************************************************************************)
(* Proofs about Engine, for every finite app network with apps of these    *)
(* kinds, every size of its links and every duration.                      *)
(***************************************************************************)
EXTENDS Engine, FiniteSetTheorems, TLAPS

-----------------------------------------------------------------------------
(* The inductive invariant.                                                *)

Pullers == {a \in DOMAIN net.kind : has_pull(net.kind[a])}
Pushers == {a \in DOMAIN net.kind : has_push(net.kind[a])}

\* The breathe order does not change.
OrderOK ==
  /\ inhale \in Seq(Pullers)
  /\ exhale \in Seq(Pushers) /\ IsExhaleOrder(net, exhale)

\* pace_breathing() compares with the frees when it was last called, which are
\* no more than those when the breath began.
Pacing ==
  /\ freed \in Nat
  /\ pc \in {"pull", "push", "check"} => LASTFREES <= freed /\ freed <= frees
  /\ pc = "sleep" => frees = freed

\* Outside of main() the time is not frozen, and inside the timeout is that of
\* the call, and the time that of a breath.
Timing ==
  /\ call \in [start : Nat, duration : Nat \union {Predicate}]
  /\ pc = "idle" => MONOTONIC_NOW = NoTime
  /\ pc \notin {"idle", "panic"} =>
       deadline = IF call.duration = Predicate THEN Predicate
                  ELSE call.start + call.duration
  /\ pc \in {"pull", "push", "check"} => MONOTONIC_NOW \in Nat /\ MONOTONIC_NOW <= clock

\* The place in the exhale order of the app whose turn it is.
Place == Len(exhale) - Len(turn) + 1

\* In this breath, the app that link l leads to has taken the packets from it.
Taken(l) ==
  \E i \in DOMAIN exhale : /\ exhale[i] = l[2]
                           /\ i < Place \/ (i = Place /\ l \in visited)

\* Only apps that breathe put packets on links.
FromBreathing == \A l \in net.links : queue[l] > 0 => l[1] \in Pullers \union ToSet(exhale)

\* Whose turn it is.
TurnOK ==
  /\ pc # "push" /\ pc # "panic" => visited = {}
  /\ pc = "pull" => turn \in Seq(Pullers)
  /\ pc \in {"idle", "breathe", "check", "sleep"} => turn = <<>>
  /\ pc = "push" =>
       /\ turn \in Seq(Pushers) /\ Len(turn) <= Len(exhale)
       /\ \A i \in DOMAIN turn : turn[i] = exhale[Place + i - 1]
       /\ turn = <<>> => visited = {}
       /\ turn # <<>> => visited \subseteq Inputs(Head(turn))

\* A link whose packets were taken by a Sink or a Tee has got others only from a
\* Tee, and one that was called later, or is the same.
LeftBehind ==
  \A l \in net.links :
    Taken(l) /\ queue[l] > 0 /\ net.kind[l[2]] \in {"Sink", "Tee"} =>
      /\ net.kind[l[1]] = "Tee"
      /\ \A i, j \in DOMAIN exhale : exhale[i] = l[1] /\ exhale[j] = l[2] => j <= i

Progress == FromBreathing /\ TurnOK /\ (pc \in {"push", "check"} => LeftBehind)

EInv == TypeOK /\ OrderOK /\ Pacing /\ Timing /\ Progress /\ Conservation

-----------------------------------------------------------------------------
(* Counting packets.                                                       *)

\* The packets on the links if link l has q[l].
On(q) == {p \in net.links \X (1 .. LINK_MAX_PACKETS) : p[2] <= q[p[1]]}

QueueType == [net.links -> 0 .. LINK_MAX_PACKETS]

\* What the proofs use of the numbers.
LEMMA Numbers ==
  /\ LINK_MAX_PACKETS \in Nat /\ LINK_MAX_PACKETS > 0
  /\ PULL_NPACKETS \in Nat /\ MAXSLEEP \in Nat
BY EngineAssumption

LEMMA FiniteLinks ==
  ASSUME net \in Networks, NEW q
  PROVE  IsFiniteSet(On(q)) /\ Cardinality(On(q)) \in Nat
<1>1. IsFiniteSet(net.links) /\ IsFiniteSet(1 .. LINK_MAX_PACKETS)
  BY NetworksAssumption, Numbers, FS_Interval
<1>2. IsFiniteSet(net.links \X (1 .. LINK_MAX_PACKETS))
  BY <1>1, FS_Product, Zenon
<1>3. On(q) \in SUBSET (net.links \X (1 .. LINK_MAX_PACKETS))
  BY DEF On
<1>4. IsFiniteSet(On(q))
  BY <1>2, <1>3, FS_Subset, Zenon
<1> QED BY <1>4, FS_CardinalityType, Zenon

\* link::receive() of n packets from a link takes n packets off the links.
Less(q, l, n) == [q EXCEPT ![l] = @ - n]

LEMMA ReceiveCount ==
  ASSUME net \in Networks, NEW q \in QueueType, NEW l \in net.links, NEW n \in 0 .. q[l]
  PROVE  /\ Less(q, l, n) \in QueueType
         /\ Cardinality(On(Less(q, l, n))) = Cardinality(On(q)) - n
<1> DEFINE r == Less(q, l, n)
<1> USE DEF Less
<1> DEFINE I == (q[l] - n + 1) .. q[l]
           D == {l} \X I
<1> USE Numbers
<1>1. q[l] \in 0 .. LINK_MAX_PACKETS /\ n \in Nat
  BY DEF QueueType
<1>2. IsFiniteSet(I) /\ Cardinality(I) = n
  <2>1. q[l] - n + 1 \in Int /\ q[l] \in Int
    BY <1>1
  <2>2. IsFiniteSet(I) /\ Cardinality(I) = IF q[l] - n + 1 > q[l] THEN 0
                                           ELSE q[l] - (q[l] - n + 1) + 1
    BY <2>1, FS_Interval
  <2> QED BY <1>1, <2>2
<1>3. IsFiniteSet(D) /\ Cardinality(D) = n
  <2> HIDE DEF I
  <2>1. IsFiniteSet({l}) /\ Cardinality({l}) = 1
    BY FS_Singleton
  <2>2. IsFiniteSet(D) /\ Cardinality(D) = Cardinality({l}) * Cardinality(I)
    BY <1>2, <2>1, FS_Product
  <2> QED BY <1>1, <1>2, <2>1, <2>2
<1>4. D \subseteq On(q)
  BY <1>1 DEF On
<1>5. On(r) = On(q) \ D
  BY <1>1 DEF On, QueueType
<1>6. On(q) \cap D = D
  BY <1>4
<1> HIDE DEF D
<1>7. Cardinality(On(q) \ D) = Cardinality(On(q)) - Cardinality(On(q) \cap D)
  BY FiniteLinks, FS_Difference, Zenon
<1>8. r \in QueueType
  BY <1>1 DEF QueueType
<1> QED BY <1>3, <1>5, <1>6, <1>7, <1>8

\* link::transmit() of n packets to each output of an app: each packet is then
\* on the link, or was refused.
LEMMA TransmitCount ==
  ASSUME net \in Networks, NEW q \in QueueType, NEW a, NEW n \in Nat,
         NEW r, r = [l \in net.links |-> IF l[1] = a THEN Accepted(q[l], n) ELSE q[l]],
         NEW R, R = {p \in Outputs(a) \X (1 .. n) : q[p[1]] + p[2] > LINK_MAX_PACKETS}
  PROVE  /\ r \in QueueType /\ Cardinality(R) \in Nat
         /\ Cardinality(Outputs(a)) \in Nat
         /\ Cardinality(On(r)) + Cardinality(R)
              = Cardinality(On(q)) + n * Cardinality(Outputs(a))
<1> DEFINE B == Outputs(a) \X (1 .. n)
           A == B \ R
           N == On(r) \ On(q)
           f == [p \in A |-> <<p[1], q[p[1]] + p[2]>>]
<1> USE Numbers
<1>1. \A l \in net.links : q[l] \in 0 .. LINK_MAX_PACKETS
  BY DEF QueueType
<1>2. r \in QueueType
  BY <1>1 DEF QueueType, Accepted
<1>3. IsFiniteSet(Outputs(a)) /\ IsFiniteSet(1 .. n) /\ Cardinality(1 .. n) = n
  <2>1. IsFiniteSet(net.links) /\ Outputs(a) \in SUBSET net.links
    BY NetworksAssumption DEF Outputs
  <2>2. IsFiniteSet(Outputs(a))
    BY <2>1, FS_Subset, Zenon
  <2> QED BY <2>2, FS_Interval
<1>4. Cardinality(Outputs(a)) \in Nat
  BY <1>3, FS_CardinalityType, Zenon
<1>5. IsFiniteSet(B) /\ Cardinality(B) = Cardinality(Outputs(a)) * n
  BY <1>3, FS_Product
<1>6. /\ IsFiniteSet(R) /\ IsFiniteSet(A) /\ Cardinality(R) \in Nat
      /\ Cardinality(A) \in Nat /\ Cardinality(A) = Cardinality(B) - Cardinality(R)
  <2>1. R \in SUBSET B /\ B \cap R = R
    OBVIOUS
  <2> HIDE DEF B
  <2>2. IsFiniteSet(R) /\ IsFiniteSet(A) /\ Cardinality(A) = Cardinality(B) - Cardinality(B \cap R)
    BY <1>5, <2>1, FS_Subset, FS_Difference, Zenon
  <2> QED BY <2>1, <2>2, FS_CardinalityType
<1>7. f \in Bijection(A, N)
  <2>1. ASSUME NEW p \in A PROVE f[p] \in N
    <3>1. p[1] \in net.links /\ p[1][1] = a /\ p[2] \in 1 .. n /\ q[p[1]] + p[2] <= LINK_MAX_PACKETS
      BY <1>1 DEF Outputs
    <3> QED BY <1>1, <3>1 DEF On, Accepted
  <2>2. ASSUME NEW p \in A, NEW s \in A, f[p] = f[s] PROVE p = s
    <3>1. /\ p = <<p[1], p[2]>> /\ s = <<s[1], s[2]>>
          /\ p[1] \in net.links /\ s[1] \in net.links /\ p[2] \in Nat /\ s[2] \in Nat
      BY DEF Outputs
    <3>2. p[1] = s[1] /\ q[p[1]] + p[2] = q[s[1]] + s[2]
      BY <2>2
    <3> QED BY <1>1, <3>1, <3>2
  <2>3. ASSUME NEW t \in N PROVE \E p \in A : f[p] = t
    <3>1. /\ t = <<t[1], t[2]>> /\ t[1] \in net.links /\ t[2] \in 1 .. LINK_MAX_PACKETS
          /\ t[2] > q[t[1]] /\ t[2] <= r[t[1]]
      BY <1>1 DEF On
    <3>2. t[1] \in Outputs(a) /\ t[2] - q[t[1]] \in 1 .. n
      BY <1>1, <3>1 DEF Outputs, Accepted
    <3> DEFINE p == <<t[1], t[2] - q[t[1]]>>
    <3>3. p \in A
      BY <1>1, <3>1, <3>2
    <3>4. f[p] = t
      BY <1>1, <3>1, <3>3
    <3> QED BY <3>3, <3>4
  <2> HIDE DEF f, A, N
  <2>4. f \in [A -> N]
    BY <2>1 DEF f
  <2> QED BY <2>2, <2>3, <2>4 DEF Bijection, Injection, Surjection, IsInjective
<1>8. IsFiniteSet(N) /\ Cardinality(N) = Cardinality(A)
  <2>1. ExistsBijection(A, N)
    BY <1>7, Zenon DEF ExistsBijection
  <2> QED BY <1>6, <2>1, FS_Bijection, Zenon
<1>9. Cardinality(On(r)) = Cardinality(On(q)) + Cardinality(N)
  <2>1. On(q) \subseteq On(r)
    BY <1>1 DEF On, Accepted
  <2>2. On(r) \cap On(q) = On(q)
    BY <2>1
  <2>3. Cardinality(N) = Cardinality(On(r)) - Cardinality(On(r) \cap On(q))
    BY FiniteLinks, FS_Difference, Zenon
  <2>4. Cardinality(On(q)) \in Nat /\ Cardinality(On(r)) \in Nat
    BY FiniteLinks
  <2>5. Cardinality(N) = Cardinality(On(r)) - Cardinality(On(q))
    BY <2>2, <2>3
  <2> HIDE DEF N
  <2> QED BY <1>6, <1>8, <2>4, <2>5
<1>10. Cardinality(On(q)) \in Nat
  BY FiniteLinks
<1> DEFINE CO == Cardinality(Outputs(a))
<1>11. CO * n = n * CO /\ n * CO \in Int
  BY <1>4
<1> HIDE DEF A, B, N, CO
<1> QED BY <1>2, <1>4, <1>5, <1>6, <1>8, <1>9, <1>10, <1>11 DEF CO

-----------------------------------------------------------------------------
(* What the apps do to packets.                                            *)

PacketsOK ==
  /\ queue \in QueueType
  /\ held \in Nat /\ allocated \in Nat /\ frees \in Nat

\* Packets are allocated and freed, never the reverse, and none is lost.
PacketStep ==
  UNCHANGED net => PacketsOK' /\ Conservation' /\ frees <= frees'

\* pull() of a Source or an adapter.
LEMMA PullPackets ==
  ASSUME net \in Networks, PacketsOK, Conservation, Pull
  PROVE  PacketStep
<1> SUFFICES ASSUME UNCHANGED net PROVE PacketsOK' /\ Conservation' /\ frees <= frees'
  BY DEF PacketStep
<1> DEFINE a == Head(turn)
<1>1. PICK n \in Nat : /\ Transmit(a, n, {})
                       /\ allocated' = allocated + n * Cardinality(Outputs(a))
                       /\ frees' = frees + Cardinality(Refused(a, n))
  BY Numbers DEF Pull
<1>2. held' = held
  BY DEF Pull
<1>3. queue' = [l \in net.links |-> IF l[1] = a THEN Accepted(queue[l], n) ELSE queue[l]]
  BY <1>1 DEF Transmit
<1> DEFINE R == Cardinality(Refused(a, n))
           O == Cardinality(Outputs(a))
<1>4. /\ queue' \in QueueType /\ R \in Nat /\ O \in Nat
      /\ Cardinality(On(queue')) + R = Cardinality(On(queue)) + n * O
  <2>1. queue \in QueueType
    BY DEF PacketsOK
  <2>2. Refused(a, n) = {p \in Outputs(a) \X (1 .. n) : queue[p[1]] + p[2] > LINK_MAX_PACKETS}
    BY DEF Refused
  <2> HIDE DEF a
  <2> QED BY <1>3, <2>1, <2>2, TransmitCount, SMTT(30)
<1>5. Cardinality(On(queue)) \in Nat /\ Cardinality(On(queue')) \in Nat
  BY FiniteLinks
<1>6. OnLinks = On(queue) /\ OnLinks' = On(queue')
  BY DEF OnLinks, On
<1>7. n * O \in Nat
  BY <1>4
<1>8. queue' \in QueueType'
  BY <1>4 DEF QueueType
<1> HIDE DEF R, O
<1> QED BY <1>1, <1>2, <1>4, <1>5, <1>6, <1>7, <1>8 DEF PacketsOK, Conservation, R, O

\* push() of a Sink, for one input.
LEMMA SinkPackets ==
  ASSUME net \in Networks, PacketsOK, Conservation, NEW l \in net.links, SinkPush(l)
  PROVE  PacketStep
<1> SUFFICES ASSUME UNCHANGED net PROVE PacketsOK' /\ Conservation' /\ frees <= frees'
  BY DEF PacketStep
<1>1. queue[l] \in Nat /\ queue[l] - queue[l] = 0
  BY Numbers DEF PacketsOK, QueueType
<1>2. queue' = [queue EXCEPT ![l] = @ - queue[l]]
  BY <1>1 DEF SinkPush
<1>3. queue' \in QueueType /\ Cardinality(On(queue')) = Cardinality(On(queue)) - queue[l]
  <2>1. queue[l] \in 0 .. queue[l] /\ queue \in QueueType
    BY <1>1 DEF PacketsOK
  <2>2. queue' = Less(queue, l, queue[l])
    BY <1>2 DEF Less
  <2> QED BY <2>1, <2>2, ReceiveCount
<1>4. Cardinality(On(queue)) \in Nat
  BY FiniteLinks
<1>5. OnLinks = On(queue) /\ OnLinks' = On(queue')
  BY DEF OnLinks, On
<1>6. queue' \in QueueType'
  BY <1>3 DEF QueueType
<1> QED BY <1>1, <1>3, <1>4, <1>5, <1>6 DEF SinkPush, PacketsOK, Conservation

\* push() of an adapter, for one input.
LEMMA NicPackets ==
  ASSUME net \in Networks, PacketsOK, Conservation, NEW l \in net.links, NicPush(l)
  PROVE  PacketStep
<1> SUFFICES ASSUME UNCHANGED net PROVE PacketsOK' /\ Conservation' /\ frees <= frees'
  BY DEF PacketStep
<1>1. PICK sent \in 0 .. held, n \in 0 .. queue[l] :
        /\ queue' = [queue EXCEPT ![l] = @ - n] /\ held' = held - sent + n
        /\ frees' = frees + sent /\ UNCHANGED allocated
  BY DEF NicPush
<1>2. queue' \in QueueType /\ Cardinality(On(queue')) = Cardinality(On(queue)) - n
  <2>1. queue \in QueueType
    BY DEF PacketsOK
  <2>2. queue' = Less(queue, l, n)
    BY <1>1 DEF Less
  <2> QED BY <2>1, <2>2, ReceiveCount
<1>3. Cardinality(On(queue)) \in Nat /\ queue[l] \in Nat
  BY FiniteLinks, Numbers DEF PacketsOK, QueueType
<1>4. OnLinks = On(queue) /\ OnLinks' = On(queue')
  BY DEF OnLinks, On
<1>5. queue' \in QueueType'
  BY <1>2 DEF QueueType
<1> QED BY <1>1, <1>2, <1>3, <1>4, <1>5 DEF PacketsOK, Conservation

\* push() of a Tee, for one input: it takes all packets, then transmits.
LEMMA TeePackets ==
  ASSUME net \in Networks, PacketsOK, Conservation, NEW l \in net.links, NEW a, TeePush(a, l)
  PROVE  PacketStep
<1> SUFFICES ASSUME UNCHANGED net PROVE PacketsOK' /\ Conservation' /\ frees <= frees'
  BY DEF PacketStep
<1>1. CASE UNCHANGED packets
  BY <1>1 DEF packets, PacketsOK, QueueType, Conservation, OnLinks
<1>2. CASE /\ l \notin Outputs(a) \/ queue[l] = 0
           /\ Transmit(a, queue[l], {l})
           /\ allocated' = allocated + queue[l] * Cardinality(Outputs(a))
           /\ frees' = frees + queue[l] + Cardinality(Refused(a, queue[l]))
           /\ UNCHANGED held
  <2> DEFINE n == queue[l]
             q == [queue EXCEPT ![l] = @ - n]
             R == Cardinality(Refused(a, n))
             O == Cardinality(Outputs(a))
  <2>1. n \in Nat /\ n - n = 0 /\ n \in 0 .. queue[l] /\ q[l] = 0
    BY Numbers DEF PacketsOK, QueueType
  <2>2. q \in QueueType /\ Cardinality(On(q)) = Cardinality(On(queue)) - n
    <3>1. q = Less(queue, l, n) /\ queue \in QueueType
      BY DEF Less, PacketsOK
    <3> HIDE DEF n, q
    <3> QED BY <2>1, <3>1, ReceiveCount
  <2>3. queue' = [k \in net.links |-> IF k[1] = a THEN Accepted(q[k], n) ELSE q[k]]
    <3>1. ASSUME NEW k \in net.links
          PROVE  (IF k \in {l} THEN 0 ELSE IF k[1] = a THEN Accepted(queue[k], n) ELSE queue[k])
                   = IF k[1] = a THEN Accepted(q[k], n) ELSE q[k]
      <4>1. CASE k = l
        BY <1>2, <2>1, <4>1, Numbers DEF Accepted, Outputs
      <4>2. CASE k # l
        BY <4>2 DEF PacketsOK, QueueType
      <4> QED BY <4>1, <4>2
    <3> QED BY <1>2, <3>1 DEF Transmit
  <2>4. Refused(a, n) = {p \in Outputs(a) \X (1 .. n) : q[p[1]] + p[2] > LINK_MAX_PACKETS}
    <3>1. CASE n = 0
      BY <3>1 DEF Refused
    <3>2. CASE l \notin Outputs(a)
      <4>1. \A k \in Outputs(a) : q[k] = queue[k]
        BY <3>2 DEF Outputs, PacketsOK, QueueType
      <4> HIDE DEF q
      <4> QED BY <4>1 DEF Refused
    <3> QED BY <1>2, <3>1, <3>2
  <2> HIDE DEF q, n
  <2>5. /\ queue' \in QueueType /\ R \in Nat /\ O \in Nat
        /\ Cardinality(On(queue')) + R = Cardinality(On(q)) + n * O
    <3> DEFINE RS == Refused(a, n)
    <3>1. RS = {p \in Outputs(a) \X (1 .. n) : q[p[1]] + p[2] > LINK_MAX_PACKETS}
      BY <2>4
    <3>2. n \in Nat /\ q \in QueueType
      BY <2>1, <2>2
    <3> HIDE DEF RS
    <3>3. /\ queue' \in QueueType /\ Cardinality(RS) \in Nat
          /\ Cardinality(Outputs(a)) \in Nat
          /\ Cardinality(On(queue')) + Cardinality(RS)
               = Cardinality(On(q)) + n * Cardinality(Outputs(a))
      BY <2>3, <3>1, <3>2, TransmitCount
    <3> QED BY <3>3 DEF RS
  <2>6. Cardinality(On(queue)) \in Nat /\ Cardinality(On(queue')) \in Nat
    BY FiniteLinks
  <2>7. OnLinks = On(queue) /\ OnLinks' = On(queue')
    BY DEF OnLinks, On
  <2>8. n * O \in Nat
    BY <2>1, <2>5
  <2>9. queue' \in QueueType'
    BY <2>5 DEF QueueType
  <2>10. allocated' = allocated + n * O /\ frees' = frees + n + R /\ held' = held
    BY <1>2 DEF n
  <2> DEFINE m == n * O
  <2>11. /\ Cardinality(On(queue')) + R = Cardinality(On(q)) + m
         /\ allocated' = allocated + m /\ m \in Nat
    BY <2>5, <2>8, <2>10
  <2> HIDE DEF R, O, m
  <2> QED BY <2>1, <2>2, <2>5, <2>6, <2>7, <2>9, <2>10, <2>11 DEF PacketsOK, Conservation
<1> QED BY <1>1, <1>2 DEF TeePush

\* Every step: the others leave the packets alone.
LEMMA NextPackets ==
  ASSUME net \in Networks, PacketsOK, Conservation, [Next]_vars
  PROVE  UNCHANGED network /\ PacketStep
<1>1. UNCHANGED network
  <2>1. CASE Tick \/ MainMisuse \/ \E d \in Durations \union {Predicate} : MainCall(d)
    BY <2>1 DEF Tick, MainCall, MainMisuse
  <2>2. CASE Breathe \/ Pull \/ PullDone
    BY <2>2, Zenon DEF Breathe, Pull, PullDone
  <2>3. CASE Push \/ PushDone \/ BreatheDone
    BY <2>3, Zenon DEF Push, PushDone, BreatheDone
  <2>4. CASE Return \/ Continue \/ Awake
    BY <2>4 DEF Return, Continue, Awake
  <2> QED BY <2>1, <2>2, <2>3, <2>4 DEF Next, vars
<1> SUFFICES PacketStep
  BY <1>1
<1>2. CASE Pull
  BY <1>2, PullPackets
<1>3. CASE Push
  <2>1. PICK l \in Inputs(Head(turn)) :
          SinkPush(l) \/ TeePush(Head(turn), l) \/ NicPush(l)
    BY <1>3 DEF Push
  <2>2. l \in net.links
    BY DEF Inputs
  <2>3. CASE SinkPush(l)
    BY <2>2, <2>3, SinkPackets
  <2>4. CASE TeePush(Head(turn), l)
    BY <2>2, <2>4, TeePackets
  <2>5. CASE NicPush(l)
    BY <2>2, <2>5, NicPackets
  <2> QED BY <2>1, <2>3, <2>4, <2>5
<1>4. CASE UNCHANGED packets
  <2> SUFFICES ASSUME UNCHANGED net PROVE PacketsOK' /\ Conservation' /\ frees <= frees'
    BY DEF PacketStep
  <2>1. UNCHANGED <<queue, held, allocated, frees>>
    BY <1>4 DEF packets
  <2>2. OnLinks' = OnLinks /\ QueueType' = QueueType
    BY <2>1 DEF OnLinks, QueueType
  <2> QED BY <2>1, <2>2 DEF PacketsOK, Conservation
<1> QED BY <1>1, <1>2, <1>3, <1>4 DEF Next, vars, Tick, MainCall, MainMisuse, Breathe,
   PullDone, PushDone, BreatheDone, Return, Continue, Awake

LEMMA NextOrder ==
  ASSUME net \in Networks, OrderOK, UNCHANGED network
  PROVE  net' \in Networks /\ OrderOK'
<1>1. UNCHANGED <<net, inhale, exhale>>
  BY DEF network
<1> QED BY <1>1 DEF OrderOK, Pullers, Pushers

-----------------------------------------------------------------------------
(* Time and pacing.                                                        *)

\* What TypeOK says of time.
ClockOK ==
  /\ breaths \in Nat /\ clock \in Nat /\ MONOTONIC_NOW \in Nat \union {NoTime}
  /\ deadline \in Nat \union {Predicate}
  /\ SLEEP \in 0 .. MAXSLEEP /\ LASTFREES \in Nat /\ LASTFREES <= frees /\ wake \in Nat
  /\ pc \in {"idle", "breathe", "pull", "push", "check", "sleep", "panic"}

LEMMA NextClock ==
  ASSUME ClockOK, Pacing, Timing, frees \in Nat, frees' \in Nat, frees <= frees',
         [Next]_vars
  PROVE  ClockOK' /\ Pacing' /\ Timing'
<1> USE Numbers DEF ClockOK, Pacing, Timing, packets, timing
<1>1. NoTime \notin Nat /\ Predicate \notin Nat /\ \A d \in Durations : d \in Nat
  BY EngineAssumption
<1>2. CASE Tick
  BY <1>2 DEF Tick
<1>3. ASSUME NEW d \in Durations \union {Predicate}, MainCall(d)
      PROVE  ClockOK' /\ Pacing' /\ Timing'
  <2>1. d \in Nat \union {Predicate}
    BY <1>1
  <2> QED BY <1>1, <1>3, <2>1 DEF MainCall, now
<1>4. CASE MainMisuse
  BY <1>4 DEF MainMisuse
<1>5. CASE Breathe
  BY <1>5 DEF Breathe
<1>6. CASE Pull
  <2>1. UNCHANGED <<breaths, clock, timing, pc, call, freed>>
    BY <1>6, Zenon DEF Pull
  <2> QED BY <1>6, <2>1 DEF Pull
<1>7. CASE PullDone
  BY <1>7 DEF PullDone
<1>8. CASE Push
  <2>1. UNCHANGED <<breaths, clock, timing, call, freed>> /\ pc = "push"
    BY <1>8, Zenon DEF Push
  <2>2. pc' \in {"push", "panic"}
    BY <1>8, <2>1 DEF Push, SinkPush, TeePush, NicPush
  <2> QED BY <2>1, <2>2
<1>9. CASE PushDone
  BY <1>9 DEF PushDone
<1>10. CASE BreatheDone
  BY <1>10 DEF BreatheDone
<1>11. CASE Return
  BY <1>11 DEF Return
<1>12. CASE Continue
  <2>1. LongerSleep \in 0 .. MAXSLEEP /\ SLEEP \div 2 \in 0 .. MAXSLEEP
    BY DEF LongerSleep
  <2> QED BY <1>12, <2>1 DEF Continue, pace_breathing, Idle
<1>13. CASE Awake
  BY <1>13 DEF Awake
<1>14. CASE UNCHANGED vars
  BY <1>14 DEF vars
<1> QED BY <1>2, <1>3, <1>4, <1>5, <1>6, <1>7, <1>8, <1>9, <1>10, <1>11, <1>12, <1>13,
           <1>14 DEF Next

\* A step of main() after a breath.
LEMMA CheckStep ==
  ASSUME ClockOK, Timing, [Next]_vars
  PROVE  pc = "check" /\ pc' # pc /\ call.duration # Predicate =>
           IF pc' = "idle" THEN clock > call.start + call.duration
                           ELSE MONOTONIC_NOW <= call.start + call.duration
<1> SUFFICES ASSUME pc = "check", pc' # pc, call.duration # Predicate
             PROVE  IF pc' = "idle" THEN clock > call.start + call.duration
                                    ELSE MONOTONIC_NOW <= call.start + call.duration
  OBVIOUS
<1>1. NoTime \notin Nat /\ Predicate \notin Nat
  BY EngineAssumption
<1>2. /\ deadline = call.start + call.duration /\ deadline # Predicate
      /\ call.start + call.duration \in Nat
      /\ now = MONOTONIC_NOW /\ MONOTONIC_NOW \in Nat /\ MONOTONIC_NOW <= clock /\ clock \in Nat
  BY <1>1 DEF Timing, ClockOK, now
<1>3. Return \/ Continue
  BY DEF Next, vars, Tick, MainCall, MainMisuse, Breathe, Pull, PullDone, Push, PushDone,
         BreatheDone, Awake
<1>4. CASE Return
  BY <1>2, <1>4 DEF Return, Done
<1>5. CASE Continue
  BY <1>2, <1>5 DEF Continue, NotDone, pace_breathing
<1> QED BY <1>3, <1>4, <1>5

-----------------------------------------------------------------------------
(* The breath.                                                             *)

\* The app whose turn it is, in push().
LEMMA HeadOfTurn ==
  ASSUME OrderOK, TurnOK, pc = "push", turn # <<>>
  PROVE  /\ Place \in DOMAIN exhale /\ Head(turn) = exhale[Place]
         /\ Head(turn) \in ToSet(exhale) /\ Head(turn) \in Pushers
         /\ Len(turn) > 0 /\ Len(Tail(turn)) = Len(turn) - 1
         /\ Tail(turn) \in Seq(Pushers)
         /\ \A i \in DOMAIN Tail(turn) : Tail(turn)[i] = turn[i + 1] /\ i + 1 \in DOMAIN turn
<1>1. turn \in Seq(Pushers) /\ exhale \in Seq(Pushers) /\ Len(turn) <= Len(exhale)
  BY DEF OrderOK, TurnOK
<1>2. Len(turn) \in Nat /\ Len(exhale) \in Nat /\ Len(turn) > 0 /\ 1 \in DOMAIN turn
  BY <1>1
<1>3. Head(turn) = turn[1]
  BY <1>1, <1>2
<1>4. turn[1] = exhale[Place + 1 - 1] /\ Place \in DOMAIN exhale /\ Place + 1 - 1 = Place
  BY <1>1, <1>2 DEF TurnOK, Place
<1>5. Head(turn) \in Pushers
  BY <1>1, <1>2, <1>3
<1> QED BY <1>1, <1>2, <1>3, <1>4, <1>5 DEF ToSet

\* Steps other than those of apps.
LEMMA TurnStep ==
  ASSUME OrderOK, Progress, UNCHANGED network, [Next]_vars, ~Pull, ~Push
  PROVE  Progress'
<1> USE DEF network, packets, timing
<1>1. FromBreathing /\ TurnOK /\ (pc \in {"push", "check"} => LeftBehind)
  BY DEF Progress
<1>2. UNCHANGED <<net, exhale, queue>>
  BY DEF Next, vars, Tick, MainCall, MainMisuse, Breathe, PullDone, PushDone, BreatheDone,
         Return, Continue, Awake
<1>3. FromBreathing'
  BY <1>1, <1>2 DEF FromBreathing, Pullers
<1>4. CASE UNCHANGED <<pc, turn, visited>>
  BY <1>4, <1>2 DEF Progress, FromBreathing, TurnOK, LeftBehind, Pullers, Pushers, Place, Taken, Inputs
<1>5. CASE MainMisuse \/ \E d \in Durations \union {Predicate} : MainCall(d)
  BY <1>1, <1>3, <1>5 DEF Progress, MainMisuse, MainCall, TurnOK
<1>6. CASE Breathe
  BY <1>1, <1>2, <1>3, <1>6 DEF Progress, Breathe, TurnOK, OrderOK, Pullers
<1>7. CASE PullDone
  <2>1. turn' = exhale /\ visited' = {} /\ pc' = "push" /\ exhale' = exhale
    BY <1>1, <1>7 DEF PullDone, TurnOK
  <2>2. Len(exhale) \in Nat /\ DOMAIN exhale = 1 .. Len(exhale)
    BY DEF OrderOK
  <2>3. Place' = 1
    BY <2>1, <2>2 DEF Place
  <2>4. TurnOK'
    BY <1>2, <2>1, <2>2, <2>3 DEF TurnOK, OrderOK, Pushers
  <2>5. \A l : ~Taken(l)'
    BY <2>1, <2>2, <2>3 DEF Taken
  <2> QED BY <1>3, <2>4, <2>5 DEF Progress, LeftBehind
<1>8. CASE PushDone
  <2> DEFINE a == Head(turn)
  <2>1. /\ pc = "push" /\ pc' = "push" /\ turn # <<>> /\ Inputs(a) \subseteq visited
        /\ turn' = Tail(turn) /\ visited' = {}
    BY <1>8 DEF PushDone
  <2>2. /\ Place \in DOMAIN exhale /\ a = exhale[Place]
        /\ Len(turn) > 0 /\ Len(Tail(turn)) = Len(turn) - 1 /\ Tail(turn) \in Seq(Pushers)
        /\ \A i \in DOMAIN Tail(turn) : Tail(turn)[i] = turn[i + 1] /\ i + 1 \in DOMAIN turn
    BY <1>1, <2>1, HeadOfTurn
  <2>3. /\ Len(exhale) \in Nat /\ DOMAIN exhale = 1 .. Len(exhale)
        /\ Len(turn) \in Nat /\ Len(turn) <= Len(exhale)
    BY <1>1, <2>1 DEF OrderOK, TurnOK
  <2>4. Place' = Place + 1 /\ Place \in Nat
    BY <1>2, <2>1, <2>2, <2>3 DEF Place
  <2>5. TurnOK'
    <3>1. turn' \in Seq(Pushers') /\ Len(turn') <= Len(exhale')
      BY <1>2, <2>1, <2>2, <2>3 DEF Pushers
    <3>2. ASSUME NEW i \in DOMAIN turn' PROVE turn'[i] = exhale'[Place' + i - 1]
      <4>1. turn'[i] = turn[i + 1] /\ i + 1 \in DOMAIN turn /\ i \in Nat
        BY <2>1, <2>2
      <4>2. turn[i + 1] = exhale[Place + (i + 1) - 1]
        BY <1>1, <2>1, <4>1 DEF TurnOK
      <4>3. Place + (i + 1) - 1 = Place' + i - 1
        BY <2>4, <4>1
      <4> QED BY <1>2, <4>1, <4>2, <4>3
    <3> QED BY <2>1, <3>1, <3>2 DEF TurnOK
  <2>6. ASSUME NEW l \in net.links, Taken(l)' PROVE Taken(l)
    <3>1. PICK i \in DOMAIN exhale : exhale[i] = l[2] /\ i < Place + 1
      BY <1>2, <2>1, <2>4, <2>6 DEF Taken
    <3>2. i = Place => l \in visited
      BY <2>1, <2>2, <3>1 DEF Inputs
    <3> QED BY <2>2, <2>3, <3>1, <3>2 DEF Taken
  <2>7. LeftBehind'
    BY <1>1, <1>2, <2>1, <2>6 DEF LeftBehind
  <2> QED BY <1>3, <2>5, <2>7 DEF Progress
<1>9. CASE BreatheDone
  <2>1. /\ pc = "push" /\ pc' = "check" /\ turn = <<>> /\ turn' = <<>> /\ visited' = visited
        /\ visited = {}
    BY <1>1, <1>9 DEF BreatheDone, TurnOK
  <2>2. LeftBehind'
    BY <1>1, <1>2, <2>1 DEF LeftBehind, Taken, Place
  <2> QED BY <1>3, <2>1, <2>2 DEF Progress, TurnOK
<1>10. CASE Return \/ Continue \/ Awake
  BY <1>1, <1>3, <1>10 DEF Progress, Return, Continue, Awake, TurnOK, pace_breathing
<1> QED BY <1>4, <1>5, <1>6, <1>7, <1>8, <1>9, <1>10 DEF Next, vars, Tick

\* pull() puts packets on links from an app that pulls.
LEMMA PullStep ==
  ASSUME net \in Networks, PacketsOK, OrderOK, Progress, UNCHANGED network, Pull
  PROVE  Progress'
<1> USE DEF network
<1>1. UNCHANGED <<net, exhale>>
  OBVIOUS
<1>2. /\ pc = "pull" /\ pc' = "pull" /\ turn # <<>> /\ turn' = Tail(turn)
      /\ turn \in Seq(Pullers) /\ visited' = {}
  BY DEF Pull, Progress, TurnOK
<1>3. Head(turn) \in Pullers /\ Tail(turn) \in Seq(Pullers)
  BY <1>2
<1>4. TurnOK'
  BY <1>1, <1>2, <1>3 DEF TurnOK, Pullers
<1>5. PICK n : Transmit(Head(turn), n, {})
  BY DEF Pull
<1>6. \A l \in net.links : l[1] # Head(turn) => queue'[l] = queue[l]
  BY <1>5 DEF Transmit
<1>7. FromBreathing'
  BY <1>1, <1>3, <1>6 DEF Progress, FromBreathing, Pullers
<1> QED BY <1>2, <1>4, <1>7 DEF Progress

\* push() takes the packets from one input; only a Tee puts them on others.
LEMMA PushStep ==
  ASSUME net \in Networks, PacketsOK, OrderOK, Progress, UNCHANGED network, Push
  PROVE  Progress'
<1> USE DEF network
<1> DEFINE a == Head(turn)
<1>1. UNCHANGED <<net, exhale, turn>> /\ pc = "push" /\ turn # <<>>
  BY DEF Push
<1>2. FromBreathing /\ TurnOK /\ LeftBehind
  BY <1>1 DEF Progress
<1>3. PICK l \in Inputs(a) \ visited :
        /\ \/ net.kind[a] = "Sink" /\ SinkPush(l)
           \/ net.kind[a] = "Tee"  /\ TeePush(a, l)
           \/ net.kind[a] = "Nic"  /\ NicPush(l)
        /\ visited' = visited \union {l}
  BY DEF Push
<1>4. l \in net.links /\ l[2] = a /\ a = exhale[Place] /\ Place \in DOMAIN exhale
      /\ a \in ToSet(exhale)
  BY <1>1, <1>2, <1>3, HeadOfTurn DEF Inputs
<1>5. Place' = Place /\ Place \in Nat /\ DOMAIN exhale = 1 .. Len(exhale) /\ Len(exhale) \in Nat
  BY <1>1, <1>4 DEF Place, OrderOK
<1>6. pc' = "push" => TurnOK'
  <2>1. visited' \subseteq Inputs(Head(turn))'
    BY <1>1, <1>2, <1>3 DEF TurnOK, Inputs
  <2> QED BY <1>1, <1>2, <1>5, <2>1 DEF TurnOK, Pushers
<1>7. pc' = "panic" => TurnOK'
  BY DEF TurnOK
<1>8. pc' \in {"push", "panic"}
  BY <1>1, <1>3 DEF SinkPush, TeePush, NicPush
<1>9. ASSUME NEW k \in net.links, Taken(k)', k # l PROVE Taken(k)
  BY <1>1, <1>3, <1>5, <1>9 DEF Taken
<1>10. ASSUME NEW k \in net.links, Taken(k), k[1] = a, NEW i \in DOMAIN exhale, NEW j \in DOMAIN exhale,
              exhale[i] = k[1], exhale[j] = k[2]
       PROVE  j <= i
  <2>1. \A m, n \in DOMAIN exhale : exhale[m] = exhale[n] => m = n
    BY DEF OrderOK, IsExhaleOrder, IsInjective
  <2>2. PICK m \in DOMAIN exhale : exhale[m] = k[2] /\ m <= Place
    BY <1>5, <1>10 DEF Taken
  <2> QED BY <1>4, <1>10, <2>1, <2>2
\* Nothing is added but to the outputs of a Tee, and the input is emptied, unless
\* it leads to an adapter.
<1>11. /\ \A k \in net.links : k # l => queue'[k] = queue[k] \/ (k[1] = a /\ net.kind[a] = "Tee")
       /\ pc' = "panic" => queue' = queue
       /\ pc' = "push" => queue'[l] = 0 \/ net.kind[a] = "Nic"
       /\ queue'[l] > 0 => queue[l] > 0
  <2>1. queue[l] \in Nat /\ queue \in [net.links -> 0 .. LINK_MAX_PACKETS]
    BY <1>4, Numbers DEF PacketsOK, QueueType
  <2>2. CASE SinkPush(l)
    BY <1>1, <1>4, <2>1, <2>2 DEF SinkPush
  <2>3. CASE net.kind[a] = "Tee" /\ TeePush(a, l)
    BY <1>1, <1>4, <2>1, <2>3 DEF TeePush, Transmit, packets
  <2>4. CASE net.kind[a] = "Nic" /\ NicPush(l)
    BY <1>1, <1>4, <2>1, <2>4 DEF NicPush
  <2> QED BY <1>3, <2>2, <2>3, <2>4
<1>12. FromBreathing'
  BY <1>1, <1>2, <1>4, <1>11 DEF FromBreathing, Pullers
<1>13. pc' = "push" => LeftBehind'
  <2> SUFFICES ASSUME pc' = "push", NEW k \in net.links, Taken(k)', queue'[k] > 0,
                      net.kind[k[2]] \in {"Sink", "Tee"}
               PROVE  /\ net.kind[k[1]] = "Tee"
                      /\ \A i, j \in DOMAIN exhale :
                           exhale[i] = k[1] /\ exhale[j] = k[2] => j <= i
    BY <1>1 DEF LeftBehind
  <2>1. k # l
    BY <1>4, <1>11
  <2>2. Taken(k)
    BY <1>9, <2>1
  <2>3. CASE queue'[k] = queue[k]
    BY <1>2, <2>2, <2>3 DEF LeftBehind
  <2>4. CASE k[1] = a /\ net.kind[a] = "Tee"
    BY <1>10, <2>2, <2>4
  <2> QED BY <1>11, <2>1, <2>3, <2>4
<1> QED BY <1>6, <1>7, <1>8, <1>12, <1>13 DEF Progress

-----------------------------------------------------------------------------
(* The theorems.                                                           *)

LEMMA TypeParts ==
  ASSUME net \in Networks, PacketsOK, ClockOK
  PROVE  TypeOK
BY DEF PacketsOK, ClockOK, TypeOK, QueueType

LEMMA PartsOfType ==
  ASSUME TypeOK
  PROVE  net \in Networks /\ PacketsOK /\ ClockOK
BY DEF PacketsOK, ClockOK, TypeOK, QueueType

LEMMA InitEInv == Init => EInv
<1> SUFFICES ASSUME Init PROVE EInv
  OBVIOUS
<1> USE Numbers, EngineAssumption
<1>1. net \in Networks /\ IsFiniteSet(DOMAIN net.kind)
  BY NetworksAssumption DEF Init
<1>2. ASSUME NEW S, S \in SUBSET DOMAIN net.kind
      PROVE  IsFiniteSet(S) /\ Cardinality(S) \in Nat /\ ExistsBijection(1 .. Cardinality(S), S)
  <2>1. IsFiniteSet(S)
    BY <1>1, <1>2, FS_Subset
  <2> QED BY <2>1, FS_CardinalityType
<1>3. inhale \in Seq(Pullers)
  <2> DEFINE n == Cardinality(Pullers)
  <2>1. Pullers \in SUBSET DOMAIN net.kind
    BY DEF Pullers
  <2>2. n \in Nat /\ ExistsBijection(1 .. n, Pullers)
    BY <1>2, <2>1
  <2>3. \E f \in [1 .. n -> Pullers] : IsInjective(f)
    BY <2>2 DEF ExistsBijection, Bijection, Injection
  <2>4. inhale = CHOOSE f \in [1 .. n -> Pullers] : IsInjective(f)
    BY DEF Init, SetToSeq, Pullers
  <2>5. inhale \in [1 .. n -> Pullers]
    BY <2>3, <2>4
  <2> QED BY <2>2, <2>5
<1>4. exhale \in Seq(Pushers) /\ IsExhaleOrder(net, exhale)
  <2>1. PICK S \in SUBSET Pushers : exhale \in SetToSeqs(S)
    BY DEF Init, Pushers
  <2>2. Cardinality(S) \in Nat
    BY <1>2 DEF Pushers
  <2>3. exhale \in [1 .. Cardinality(S) -> S]
    BY <2>1 DEF SetToSeqs
  <2>4. exhale \in Seq(S)
    BY <2>2, <2>3
  <2>5. exhale \in Seq(Pushers)
    BY <2>4
  <2> QED BY <2>5 DEF Init
<1>5. PacketsOK /\ ClockOK /\ Pacing /\ Timing
  BY DEF Init, PacketsOK, QueueType, ClockOK, Pacing, Timing
<1>6. Progress
  BY DEF Init, Progress, FromBreathing, TurnOK
<1>7. Conservation
  <2>1. OnLinks = {}
    BY DEF Init, OnLinks
  <2> QED BY <2>1, FS_EmptySet DEF Init, Conservation
<1> QED BY <1>1, <1>3, <1>4, <1>5, <1>6, <1>7, TypeParts DEF EInv, OrderOK

LEMMA NextEInv ==
  ASSUME EInv, [Next]_vars
  PROVE  EInv'
<1>1. net \in Networks /\ PacketsOK /\ ClockOK
  BY PartsOfType DEF EInv
<1>2. UNCHANGED network /\ PacketsOK' /\ Conservation' /\ frees <= frees'
  BY <1>1, NextPackets DEF EInv, PacketStep, network
<1>3. net' \in Networks /\ OrderOK'
  BY <1>1, <1>2, NextOrder DEF EInv
<1>4. ClockOK' /\ Pacing' /\ Timing'
  BY <1>1, <1>2, NextClock DEF EInv, PacketsOK
<1>5. Progress'
  BY <1>1, <1>2, TurnStep, PullStep, PushStep DEF EInv
<1>6. TypeOK'
  BY <1>2, <1>3, <1>4 DEF PacketsOK, ClockOK, TypeOK, QueueType
<1> QED BY <1>2, <1>3, <1>4, <1>5, <1>6 DEF EInv

\* The inductive invariant of the engine.
THEOREM EngineInvariant == Spec => []EInv
<1>1. EInv /\ [Next]_vars => EInv'
  BY NextEInv
<1> QED BY <1>1, InitEInv, PTL DEF Spec

\* Links never hold more than link::MAX packets, and the engine never sleeps for
\* longer than MAXSLEEP.
THEOREM EngineTypeCorrect == Spec => []TypeOK
<1>1. EInv => TypeOK
  BY DEF EInv
<1> QED BY <1>1, EngineInvariant, PTL

\* No app loses a packet, in any network: Source, Tee, Sink and adapter free what
\* they do not pass on.
THEOREM PacketsConserved == Spec => []Conservation
<1>1. EInv => Conservation
  BY DEF EInv
<1> QED BY <1>1, EngineInvariant, PTL

\* pace_breathing() never lets the engine sleep after a breath that freed packets.
THEOREM NeverSleepsBusy == Spec => []BusyNeverSleeps
<1>1. EInv => BusyNeverSleeps
  BY DEF EInv, Pacing, BusyNeverSleeps
<1> QED BY <1>1, EngineInvariant, PTL

\* main() with a duration takes a breath after its time is over by the real clock,
\* and none after that.
THEOREM RunsPunctually == Spec => Punctual
<1>1. EInv /\ [Next]_vars =>
        [pc = "check" /\ pc' # pc /\ call.duration # Predicate =>
           IF pc' = "idle" THEN clock > call.start + call.duration
                           ELSE MONOTONIC_NOW <= call.start + call.duration]_vars
  BY CheckStep, PartsOfType DEF EInv
<1> QED BY <1>1, EngineInvariant, PTL DEF Spec, Punctual

\* After a breath, the packets that remain on a link to a Sink or a Tee were put
\* there by a Tee that follows it in the exhale order.
THEOREM OnlyBackLinks == Spec => []OnlyBackLinksKeep
<1>1. EInv => OnlyBackLinksKeep
  <2> SUFFICES ASSUME EInv, pc = "check", NEW l \in net.links, queue[l] > 0,
                      net.kind[l[2]] \notin {"Nic", "Source"}
               PROVE  net.kind[l[1]] = "Tee" /\ Position(l[2]) <= Position(l[1])
    BY DEF OnlyBackLinksKeep
  <2>1. /\ net \in Networks /\ OrderOK /\ FromBreathing /\ TurnOK /\ LeftBehind
    BY DEF EInv, TypeOK, Progress
  <2>2. l[2] \in DOMAIN net.kind /\ l[1] \in DOMAIN net.kind /\ net.kind[l[2]] \in {"Sink", "Tee"}
    BY <2>1, NetworksAssumption
  <2>3. l[2] \in ToSet(exhale)
    BY <2>1, <2>2 DEF FromBreathing, OrderOK, IsExhaleOrder, Pullers, has_push
  <2>4. PICK j \in DOMAIN exhale : exhale[j] = l[2]
    BY <2>3 DEF ToSet
  <2>5. turn = <<>> /\ DOMAIN exhale = 1 .. Len(exhale) /\ Len(exhale) \in Nat
    BY <2>1 DEF TurnOK, OrderOK
  <2>6. Taken(l)
    BY <2>4, <2>5 DEF Taken, Place
  <2>7. /\ net.kind[l[1]] = "Tee"
        /\ \A m, n \in DOMAIN exhale : exhale[m] = l[1] /\ exhale[n] = l[2] => n <= m
    BY <2>1, <2>2, <2>6 DEF LeftBehind
  <2>8. PICK i \in DOMAIN exhale : exhale[i] = l[1]
    BY <2>1, <2>7 DEF FromBreathing, Pullers, has_pull, ToSet
  <2>9. \A m, n \in DOMAIN exhale : exhale[m] = exhale[n] => m = n
    BY <2>1 DEF OrderOK, IsExhaleOrder, IsInjective
  <2>10. Position(l[2]) = j /\ Position(l[1]) = i
    BY <2>4, <2>8, <2>9 DEF Position
  <2> QED BY <2>4, <2>7, <2>8, <2>10
<1> QED BY <1>1, EngineInvariant, PTL

=============================================================================
