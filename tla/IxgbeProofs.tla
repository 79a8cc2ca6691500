----------------------------- MODULE IxgbeProofs ----------------------------
(***************************************************************************)
(* Proofs about Ixgbe, for rings, batches and links of any size and any    *)
(* number of frames.                                                       *)
(*                                                                         *)
(* The indices that driver and hardware move around a ring never overtake  *)
(* each other.  On the receive ring rx_index, RDH and RDT follow one       *)
(* another, on the transmit ring clean_index, twb, TDH, TDT and tx_index.  *)
(* The invariant says so by the distances from the first of them, and what *)
(* the descriptors in between hold.                                        *)
(***************************************************************************)
EXTENDS Ixgbe, SequenceTheorems, TLAPS

-----------------------------------------------------------------------------
(* The inductive invariant.                                                *)

\* How many steps it is from a to b on a ring of n.
Dist(a, b, n) == IF a <= b THEN b - a ELSE b - a + n

RxDist(i) == Dist(rx.rx_index, i, NUM_RX_QUEUE_ENTRIES)
TxDist(i) == Dist(tx.clean_index, i, NUM_TX_QUEUE_ENTRIES)

RxQueue ==
  [descriptors : [RxRing -> [addr : Packets, status : SUBSET {"DD", "EOP"}]],
   bufs_in_use : [RxRing -> Packets],
   rx_index    : RxRing]

TxQueue ==
  [descriptors : [TxRing -> [addr : Packets \union {NULL}, status : SUBSET {"DD"}]],
   bufs_in_use : Seq(Packets),
   clean_index : TxRing, tx_index : TxRing]

PCs == {"rx", "clean", "tx", "increase_buffer_size_or_decrease_MTU"}

Typed ==
  /\ freelist \in Seq(Packets) /\ link \in Seq(Packets)
  /\ Len(link) <= LINK_MAX_PACKETS
  /\ data \in [Packets -> 0 .. MaxFrames]
  /\ rx \in RxQueue /\ tx \in TxQueue
  /\ RDH \in RxRing /\ RDT \in RxRing
  /\ TDH \in TxRing /\ TDT \in TxRing /\ twb \in TxRing
  /\ arrived \in 0 .. MaxFrames /\ rdma \in {0, arrived} /\ wire \in Seq(0 .. MaxFrames)
  /\ received \in 0 .. PULL_NPACKETS /\ last_rx_index \in RxRing
  /\ pc \in PCs

\* rx_index, RDH, RDT: descriptors before RDH have DD set.
RxInv ==
  /\ RxDist(RDH) <= RxDist(RDT)
  /\ rdma # 0 => RDH # RDT
  /\ \A i \in RxRing :
       /\ rx.descriptors[i].addr = rx.bufs_in_use[i]
       /\ "DD" \in rx.descriptors[i].status <=> RxDist(i) < RxDist(RDH)

\* The locals of rx_batch(): last_rx_index is before rx_index once a packet
\* was received.
RxLocals ==
  /\ pc \in {"clean", "tx"} => received = 0
  /\ pc = "rx" => rx.rx_index = IF received = 0 THEN last_rx_index
                                ELSE wrap_ring(last_rx_index, NUM_RX_QUEUE_ENTRIES)

\* clean_index, twb, TDH, TDT, tx_index: descriptors from twb have DD clear.
TxInv ==
  /\ TxDist(twb) <= TxDist(TDH) /\ TxDist(TDH) <= TxDist(TDT)
  /\ TxDist(TDT) <= TxDist(tx.tx_index)
  /\ Len(tx.bufs_in_use) = TxDist(tx.tx_index)
  /\ \A i \in TxRing : TxDist(i) < TxDist(tx.tx_index) =>
       /\ tx.descriptors[i].addr = tx.bufs_in_use[TxDist(i) + 1]
       /\ TxDist(twb) <= TxDist(i) => "DD" \notin tx.descriptors[i].status

\* How many packets the driver does not keep on the receive ring.
Count ==
  Len(freelist) + Len(link) + Len(tx.bufs_in_use) = NUM_TX_QUEUE_ENTRIES + LINK_MAX_PACKETS

\* A packet is in one place.
OnRx == {rx.bufs_in_use[i] : i \in RxRing}
OnTx == ToSet(tx.bufs_in_use)

Owners ==
  /\ IsInjective(freelist) /\ IsInjective(link)
  /\ IsInjective(tx.bufs_in_use) /\ IsInjective(rx.bufs_in_use)
  /\ ToSet(freelist) \intersect ToSet(link) = {}
  /\ ToSet(freelist) \intersect OnTx = {} /\ ToSet(freelist) \intersect OnRx = {}
  /\ ToSet(link) \intersect OnTx = {} /\ ToSet(link) \intersect OnRx = {}
  /\ OnTx \intersect OnRx = {}
  /\ ToSet(freelist) \union ToSet(link) \union OnTx \union OnRx = Packets

RingInv == Typed /\ RxInv /\ RxLocals /\ TxInv /\ Count /\ Owners

-----------------------------------------------------------------------------
(* The frames on their way are in one line: those in the packets hardware  *)
(* has yet to read, then those on the link, then those in the packets      *)
(* hardware has received.                                                  *)

Submitted == {k \in DOMAIN tx.bufs_in_use : TxDist(TDH) < k}
Received  == {i \in RxRing : RxDist(i) < RxDist(RDH)}

\* Packet p is on the way, at place r of the line.
At(p, r) ==
  \/ r \in Submitted /\ p = tx.bufs_in_use[r]
  \/ \E k \in DOMAIN link : r = Len(tx.bufs_in_use) + k /\ p = link[k]
  \/ \E i \in Received :
       r = Len(tx.bufs_in_use) + Len(link) + RxDist(i) + 1 /\ p = rx.bufs_in_use[i]

\* Frame f arrived, before the one being written.
Arrived(f) == 0 < f /\ f <= arrived /\ (rdma # 0 => f < rdma)

\* The line is in the order in which the frames arrived, behind those sent.
FramesInv ==
  /\ rdma # 0 => data[rx.bufs_in_use[RDH]] = rdma
  /\ \A k \in DOMAIN wire : Arrived(wire[k])
  /\ \A p \in Packets, r \in Nat : At(p, r) =>
       Arrived(data[p]) /\ \A k \in DOMAIN wire : wire[k] < data[p]
  /\ \A p, q \in Packets, r, s \in Nat :
       At(p, r) /\ At(q, s) /\ r < s => data[p] < data[q]
  /\ InOrder

-----------------------------------------------------------------------------
(* Lemmas about rings.                                                     *)

LEMMA Wrapped ==
  ASSUME NEW n \in Nat, n >= 2, NEW i \in 0 .. n - 1
  PROVE  wrap_ring(i, n) = IF i = n - 1 THEN 0 ELSE i + 1
<1>1. CASE i = n - 1
  <2>1. n % n = 0
    OBVIOUS
  <2>2. i + 1 = n
    BY <1>1
  <2> QED
    BY <1>1, <2>1, <2>2 DEF wrap_ring
<1>2. CASE i # n - 1
  <2>1. i + 1 \in 0 .. n - 1
    BY <1>2
  <2>2. (i + 1) % n = i + 1
    BY <2>1
  <2> QED
    BY <1>2, <2>2 DEF wrap_ring
<1> QED
  BY <1>1, <1>2

\* The index k steps after a.
LEMMA Steps ==
  ASSUME NEW n \in Nat, n >= 2, NEW a \in 0 .. n - 1, NEW k \in 0 .. n - 1
  PROVE  /\ (a + k) % n \in 0 .. n - 1
         /\ Dist(a, (a + k) % n, n) = k
<1>1. CASE a + k < n
  <2>1. a + k \in 0 .. n - 1
    BY <1>1
  <2>2. (a + k) % n = a + k
    BY <2>1
  <2> QED
    BY <2>1, <2>2 DEF Dist
<1>2. CASE a + k >= n
  <2>1. a + k - n \in 0 .. n - 1 /\ a + k = n + (a + k - n)
    BY <1>2
  <2>2. ASSUME NEW x \in 0 .. n - 1 PROVE (n + x) % n = x
    OBVIOUS
  <2>3. (a + k) % n = a + k - n
    BY <2>1, <2>2
  <2> QED
    BY <1>2, <2>1, <2>3 DEF Dist
<1> QED
  BY <1>1, <1>2

LEMMA DistType ==
  ASSUME NEW n \in Nat, n >= 2, NEW a \in 0 .. n - 1, NEW b \in 0 .. n - 1
  PROVE  /\ Dist(a, b, n) \in 0 .. n - 1
         /\ Dist(a, b, n) = 0 <=> a = b
BY DEF Dist

\* Indices differ in their distance.
LEMMA DistInjective ==
  ASSUME NEW n \in Nat, n >= 2, NEW a \in 0 .. n - 1, NEW b \in 0 .. n - 1,
         NEW c \in 0 .. n - 1, Dist(a, b, n) = Dist(a, c, n)
  PROVE  b = c
BY DEF Dist

\* The far index moves on, or the near one does.
LEMMA DistFar ==
  ASSUME NEW n \in Nat, n >= 2, NEW a \in 0 .. n - 1, NEW b \in 0 .. n - 1
  PROVE  /\ wrap_ring(b, n) \in 0 .. n - 1
         /\ Dist(a, wrap_ring(b, n), n) =
              IF Dist(a, b, n) = n - 1 THEN 0 ELSE Dist(a, b, n) + 1
BY Wrapped DEF Dist

LEMMA DistNear ==
  ASSUME NEW n \in Nat, n >= 2, NEW a \in 0 .. n - 1, NEW b \in 0 .. n - 1
  PROVE  Dist(wrap_ring(a, n), b, n) = IF a = b THEN n - 1 ELSE Dist(a, b, n) - 1
BY Wrapped DEF Dist

\* The near index moves on by k + 1, to after c.
LEMMA DistJump ==
  ASSUME NEW n \in Nat, n >= 2, NEW a \in 0 .. n - 1, NEW b \in 0 .. n - 1,
         NEW c \in 0 .. n - 1, Dist(a, c, n) < Dist(a, b, n)
  PROVE  Dist(wrap_ring(c, n), b, n) = Dist(a, b, n) - Dist(a, c, n) - 1
BY Wrapped DEF Dist

\* What is between lo and hi, seen from a before them.
LEMMA Between ==
  ASSUME NEW n \in Nat, n >= 2, NEW a \in 0 .. n - 1, NEW lo \in 0 .. n - 1,
         NEW hi \in 0 .. n - 1, Dist(a, lo, n) <= Dist(a, hi, n),
         NEW i \in RingRange(lo, hi, n)
  PROVE  /\ i \in 0 .. n - 1
         /\ Dist(a, lo, n) <= Dist(a, i, n) /\ Dist(a, i, n) < Dist(a, hi, n)
BY DEF RingRange, Dist

-----------------------------------------------------------------------------
(* Lemmas about sequences of packets.                                      *)

LEMMA AppendSet ==
  ASSUME NEW s \in Seq(Packets), NEW x \in Packets
  PROVE  /\ Append(s, x) \in Seq(Packets) /\ ToSet(Append(s, x)) = ToSet(s) \union {x}
         /\ IsInjective(s) /\ x \notin ToSet(s) => IsInjective(Append(s, x))
<1>1. Append(s, x) \in Seq(Packets) /\ DOMAIN Append(s, x) = 1 .. Len(s) + 1
  OBVIOUS
<1>2. ToSet(Append(s, x)) = ToSet(s) \union {x}
  <2> DEFINE u == Append(s, x)
  <2>1. /\ DOMAIN u = 1 .. Len(s) + 1 /\ DOMAIN s = 1 .. Len(s) /\ Len(s) \in Nat
        /\ \A i \in 1 .. Len(s) : u[i] = s[i]
        /\ u[Len(s) + 1] = x
    OBVIOUS
  <2> HIDE DEF u
  <2>2. \A i \in DOMAIN s : s[i] \in ToSet(u)
    BY <2>1 DEF ToSet
  <2>3. x \in ToSet(u)
    BY <2>1 DEF ToSet
  <2>4. \A i \in DOMAIN u : u[i] \in ToSet(s) \union {x}
    BY <2>1 DEF ToSet
  <2> QED
    BY <2>2, <2>3, <2>4 DEF ToSet, u
<1>3. IsInjective(s) /\ x \notin ToSet(s) => IsInjective(Append(s, x))
  BY <1>1 DEF ToSet, IsInjective
<1> QED
  BY <1>1, <1>2, <1>3

\* A sequence repeats nothing when neither of its parts does and they share
\* nothing.
LEMMA ConcatSet ==
  ASSUME NEW s \in Seq(Packets), NEW t \in Seq(Packets)
  PROVE  /\ s \o t \in Seq(Packets) /\ ToSet(s \o t) = ToSet(s) \union ToSet(t)
         /\ IsInjective(s) /\ IsInjective(t) /\ ToSet(s) \intersect ToSet(t) = {}
              => IsInjective(s \o t)
<1> DEFINE u == s \o t
<1>1. /\ u \in Seq(Packets) /\ Len(u) = Len(s) + Len(t)
      /\ \A i \in 1 .. Len(s) : u[i] = s[i]
      /\ \A i \in 1 .. Len(t) : u[Len(s) + i] = t[i]
  OBVIOUS
<1>2. \A i \in DOMAIN u : i \in DOMAIN s \/ (i - Len(s)) \in DOMAIN t
  BY <1>1
<1>3. \A i \in DOMAIN u : i \notin DOMAIN s => u[i] = t[i - Len(s)]
  OBVIOUS
<1> HIDE DEF u
<1>4. ToSet(u) = ToSet(s) \union ToSet(t)
  <2>1. ToSet(s) \subseteq ToSet(u)
    BY <1>1, SMTT(30) DEF ToSet
  <2>2. ToSet(t) \subseteq ToSet(u)
    <3> SUFFICES ASSUME NEW i \in DOMAIN t PROVE t[i] \in ToSet(u)
      BY DEF ToSet
    <3>1. i \in 1 .. Len(t) /\ Len(s) \in Nat /\ Len(t) \in Nat
      OBVIOUS
    <3>2. Len(s) + i \in 1 .. Len(u) /\ u[Len(s) + i] = t[i]
      BY <1>1, <3>1
    <3> QED
      BY <1>1, <3>2 DEF ToSet
  <2>3. ToSet(u) \subseteq ToSet(s) \union ToSet(t)
    BY <1>1, <1>2, <1>3 DEF ToSet
  <2> QED
    BY <2>1, <2>2, <2>3
<1>5. ASSUME IsInjective(s), IsInjective(t), ToSet(s) \intersect ToSet(t) = {},
             NEW i \in DOMAIN u, NEW j \in DOMAIN u, u[i] = u[j]
      PROVE  i = j
  <2>1. CASE i \in DOMAIN s /\ j \in DOMAIN s
    BY <1>1, <1>5, <2>1 DEF IsInjective
  <2>2. CASE i \notin DOMAIN s /\ j \notin DOMAIN s
    <3>1. t[i - Len(s)] = t[j - Len(s)]
      BY <1>3, <1>5, <2>2
    <3>2. i - Len(s) = j - Len(s)
      BY <1>2, <1>5, <2>2, <3>1 DEF IsInjective
    <3> QED
      BY <1>1, <3>2
  <2>3. ASSUME NEW k \in DOMAIN u, NEW l \in DOMAIN u,
               k \in DOMAIN s, l \notin DOMAIN s
        PROVE  u[k] # u[l]
    <3>1. u[k] \in ToSet(s)
      BY <1>1, <2>3 DEF ToSet
    <3>2. u[l] \in ToSet(t)
      BY <1>2, <1>3, <2>3 DEF ToSet
    <3> QED
      BY <1>5, <3>1, <3>2
  <2> QED
    BY <1>5, <2>1, <2>2, <2>3
<1> QED
  BY <1>1, <1>4, <1>5 DEF u, IsInjective

\* A sequence without repetition is cut in two.
LEMMA CutSet ==
  ASSUME NEW s \in Seq(Packets), IsInjective(s), NEW k \in 0 .. Len(s)
  PROVE  LET u == SubSeq(s, 1, k)
             v == SubSeq(s, k + 1, Len(s))
         IN  /\ u \in Seq(Packets) /\ IsInjective(u) /\ Len(u) = k
             /\ \A i \in 1 .. k : u[i] = s[i]
             /\ v \in Seq(Packets) /\ IsInjective(v) /\ Len(v) = Len(s) - k
             /\ \A i \in 1 .. Len(s) - k : v[i] = s[k + i]
             /\ ToSet(u) \intersect ToSet(v) = {} /\ ToSet(u) \union ToSet(v) = ToSet(s)
<1> DEFINE u == SubSeq(s, 1, k)
           v == SubSeq(s, k + 1, Len(s))
<1>1. Len(s) \in Nat /\ DOMAIN s = 1 .. Len(s)
  OBVIOUS
<1>2. u \in Seq(Packets) /\ Len(u) = k /\ \A i \in 1 .. k : u[i] = s[i]
  BY <1>1
<1>3. /\ v \in Seq(Packets) /\ Len(v) = Len(s) - k
      /\ \A i \in 1 .. Len(s) - k : v[i] = s[k + i]
  <2> DEFINE n == Len(s)
             m == k + 1
  <2>1. n \in Nat /\ k \in 0 .. n /\ \A i \in m .. n : s[i] \in Packets
    BY <1>1
  <2>2. v = SubSeq(s, m, n)
    OBVIOUS
  <2> HIDE DEF n, v
  <2>3. m \in Int /\ n \in Int
    BY <2>1
  <2>4. /\ v \in Seq(Packets) /\ Len(v) = IF m <= n THEN n - m + 1 ELSE 0
        /\ \A i \in 1 .. n - m + 1 : v[i] = s[m + i - 1]
    <3> HIDE DEF m
    <3> QED
      BY <2>1, <2>2, <2>3, SubSeqProperties
  <2>5. n - m + 1 = n - k /\ (~(m <= n) => n - k = 0)
    BY <2>1
  <2>6. \A i \in 1 .. n - k : m + i - 1 = k + i
    BY <2>1
  <2>7. Len(v) = n - k /\ \A i \in 1 .. n - k : v[i] = s[k + i]
    <3> HIDE DEF m
    <3> QED
      BY <2>4, <2>5, <2>6
  <2> QED
    BY <2>4, <2>7 DEF n
<1> HIDE DEF u, v
<1>4. DOMAIN u = 1 .. k /\ DOMAIN v = 1 .. Len(s) - k
  BY <1>2, <1>3
<1>5. \A i \in 1 .. Len(s) - k : k + i \in DOMAIN s
  BY <1>1
<1>6. IsInjective(u)
  BY <1>1, <1>2, <1>4 DEF IsInjective
<1>7. IsInjective(v)
  <2> SUFFICES ASSUME NEW i \in DOMAIN v, NEW j \in DOMAIN v, v[i] = v[j] PROVE i = j
    BY DEF IsInjective
  <2>1. s[k + i] = s[k + j]
    BY <1>3, <1>4
  <2>2. k + i = k + j
    BY <1>4, <1>5, <2>1 DEF IsInjective
  <2> QED
    BY <1>1, <1>4, <2>2
<1>8. ToSet(u) \intersect ToSet(v) = {}
  <2> SUFFICES ASSUME NEW i \in 1 .. k, NEW j \in 1 .. Len(s) - k, u[i] = v[j] PROVE FALSE
    BY <1>4 DEF ToSet
  <2>1. s[i] = s[k + j]
    BY <1>2, <1>3
  <2>2. i = k + j
    BY <1>1, <1>5, <2>1 DEF IsInjective
  <2> QED
    BY <1>1, <2>2
<1>9. ToSet(u) \union ToSet(v) = ToSet(s)
  <2>1. ToSet(u) \subseteq ToSet(s)
    BY <1>1, <1>2, <1>4 DEF ToSet
  <2>2. ToSet(v) \subseteq ToSet(s)
    BY <1>3, <1>4, <1>5 DEF ToSet
  <2>3. ASSUME NEW i \in DOMAIN s PROVE s[i] \in ToSet(u) \union ToSet(v)
    <3>1. CASE i <= k
      BY <1>1, <1>2, <1>4, <3>1 DEF ToSet
    <3>2. CASE i > k
      <4>1. i - k \in 1 .. Len(s) - k /\ k + (i - k) = i
        BY <1>1, <3>2
      <4>2. v[i - k] = s[i]
        BY <1>3, <4>1
      <4> QED
        BY <1>4, <4>1, <4>2 DEF ToSet
    <3> QED
      BY <1>1, <3>1, <3>2
  <2> QED
    BY <2>1, <2>2, <2>3 DEF ToSet
<1> QED
  BY <1>2, <1>3, <1>6, <1>7, <1>8, <1>9 DEF u, v

\* The last packet is taken off the freelist.
LEMMA LastSet ==
  ASSUME NEW s \in Seq(Packets), IsInjective(s), s # <<>>
  PROVE  /\ Front(s) \in Seq(Packets) /\ IsInjective(Front(s)) /\ Len(Front(s)) = Len(s) - 1
         /\ Last(s) \in ToSet(s) /\ ToSet(Front(s)) = ToSet(s) \ {Last(s)}
<1> DEFINE n == Len(s)
           u == SubSeq(s, 1, n - 1)
           v == SubSeq(s, n - 1 + 1, n)
<1>1. n \in Nat \ {0} /\ n - 1 \in 0 .. n /\ n - 1 + 1 = n
  OBVIOUS
<1>2. /\ u \in Seq(Packets) /\ IsInjective(u) /\ Len(u) = n - 1
      /\ Len(v) = n - (n - 1) /\ \A i \in 1 .. n - (n - 1) : v[i] = s[n - 1 + i]
      /\ v \in Seq(Packets)
      /\ ToSet(u) \intersect ToSet(v) = {} /\ ToSet(u) \union ToSet(v) = ToSet(s)
  <2>1. n - 1 + 1 = n
    BY <1>1
  <2> QED
    BY <1>1, CutSet
<1>3. n - (n - 1) = 1 /\ n - 1 + 1 = n
  BY <1>1
<1>4. Front(s) = u /\ Last(s) = s[n]
  BY DEF Front, Last
<1> HIDE DEF n, u, v
<1>5. DOMAIN v = {1} /\ v[1] = s[n]
  <2>1. Len(v) = 1 /\ v \in Seq(Packets)
    BY <1>2, <1>3
  <2>2. 1 \in 1 .. n - (n - 1)
    BY <1>3
  <2>3. v[1] = s[n - 1 + 1]
    BY <1>2, <2>2
  <2> QED
    BY <1>3, <2>1, <2>3
<1>6. ToSet(v) = {s[n]}
  BY <1>5 DEF ToSet
<1> QED
  BY <1>2, <1>4, <1>6 DEF n

\* The first packet is taken off the link.
LEMMA HeadSet ==
  ASSUME NEW s \in Seq(Packets), IsInjective(s), s # <<>>
  PROVE  /\ Tail(s) \in Seq(Packets) /\ IsInjective(Tail(s)) /\ Len(Tail(s)) = Len(s) - 1
         /\ \A i \in 1 .. Len(s) - 1 : Tail(s)[i] = s[i + 1]
         /\ Head(s) \in ToSet(s) /\ Head(s) = s[1] /\ ToSet(Tail(s)) = ToSet(s) \ {Head(s)}
<1> DEFINE n == Len(s)
           k == 1
           u == SubSeq(s, 1, k)
           w == SubSeq(s, k + 1, n)
<1>1. n \in Nat \ {0} /\ k \in 0 .. n
  OBVIOUS
<1>2. Tail(s) = w /\ Head(s) = s[1]
  OBVIOUS
<1> HIDE DEF k
<1>3. /\ u \in Seq(Packets) /\ Len(u) = k /\ \A i \in 1 .. k : u[i] = s[i]
      /\ w \in Seq(Packets) /\ IsInjective(w) /\ Len(w) = n - k
      /\ \A i \in 1 .. n - k : w[i] = s[k + i]
      /\ ToSet(u) \intersect ToSet(w) = {} /\ ToSet(u) \union ToSet(w) = ToSet(s)
  BY <1>1, CutSet
<1> HIDE DEF n, u, w
<1>4. DOMAIN u = {1} /\ u[1] = s[1]
  BY <1>3 DEF k
<1>5. ToSet(u) = {s[1]}
  BY <1>4 DEF ToSet
<1>6. \A i \in 1 .. n - 1 : w[i] = s[i + 1]
  BY <1>1, <1>3 DEF k
<1> QED
  BY <1>1, <1>2, <1>3, <1>5, <1>6 DEF n, k

-----------------------------------------------------------------------------
(* The initial state and the steps of hardware.                            *)

LEMMA Sizes ==
  /\ NUM_RX_QUEUE_ENTRIES \in Nat /\ NUM_RX_QUEUE_ENTRIES >= 2
  /\ NUM_TX_QUEUE_ENTRIES \in Nat /\ NUM_TX_QUEUE_ENTRIES >= 2
  /\ TX_CLEAN_BATCH \in 1 .. NUM_TX_QUEUE_ENTRIES - 1
  /\ LINK_MAX_PACKETS \in Nat \ {0} /\ MaxFrames \in Nat
BY IxgbeAssumption

LEMMA Fields ==
  ASSUME Typed
  PROVE  /\ rx.descriptors \in [RxRing -> [addr : Packets, status : SUBSET {"DD", "EOP"}]]
         /\ rx.bufs_in_use \in [RxRing -> Packets] /\ rx.rx_index \in RxRing
         /\ tx.descriptors \in [TxRing -> [addr : Packets \union {NULL}, status : SUBSET {"DD"}]]
         /\ tx.bufs_in_use \in Seq(Packets)
         /\ tx.clean_index \in TxRing /\ tx.tx_index \in TxRing
BY DEF Typed, RxQueue, TxQueue

LEMMA InitRingInv == Init => RingInv
<1> SUFFICES ASSUME Init PROVE RingInv
  OBVIOUS
<1> USE Sizes
<1> DEFINE F == NUM_TX_QUEUE_ENTRIES + LINK_MAX_PACKETS
<1>1. \A i \in RxRing : i + 1 \in Packets
  BY DEF RxRing, Packets
<1>2. freelist \in [1 .. F -> Packets]
  BY DEF Init, Packets
<1>3. freelist \in Seq(Packets) /\ Len(freelist) = F
  BY <1>2
<1>4. 0 \in RxRing /\ NUM_RX_QUEUE_ENTRIES - 1 \in RxRing /\ 0 \in TxRing
  BY DEF RxRing, TxRing
<1>5. rx \in RxQueue
  BY <1>1, <1>4 DEF Init, RxQueue
<1>6. tx \in TxQueue
  BY <1>4 DEF Init, TxQueue
<1>7. Typed
  BY <1>3, <1>4, <1>5, <1>6, IxgbeAssumption DEF Init, Typed, PCs
<1>8. RxInv
  <2>1. RxDist(RDH) = 0 /\ RxDist(RDT) = NUM_RX_QUEUE_ENTRIES - 1
    BY DEF Init, RxDist, Dist
  <2>2. \A i \in RxRing : ~(RxDist(i) < 0)
    BY DEF Init, RxDist, Dist, RxRing
  <2>3. \A i \in RxRing : rx.descriptors[i].addr = rx.bufs_in_use[i]
    BY DEF Init
  <2>4. \A i \in RxRing : rx.descriptors[i].status = {}
    BY DEF Init
  <2>5. rdma = 0
    BY DEF Init
  <2> QED
    BY <2>1, <2>2, <2>3, <2>4, <2>5 DEF RxInv
<1>9. RxLocals
  BY DEF Init, RxLocals
<1>10. TxInv
  <2>1. TxDist(0) = 0
    BY DEF Init, TxDist, Dist
  <2>2. \A i \in TxRing : ~(TxDist(i) < 0)
    BY DEF Init, TxDist, Dist, TxRing
  <2>3. tx.tx_index = 0 /\ twb = 0 /\ TDH = 0 /\ TDT = 0 /\ Len(tx.bufs_in_use) = 0
    BY DEF Init
  <2> QED
    BY <2>1, <2>2, <2>3 DEF TxInv
<1>11. Count
  BY <1>3 DEF Init, Count
<1>12. Owners
  <2>1. link = <<>> /\ tx.bufs_in_use = <<>>
    BY DEF Init
  <2>2. ToSet(<<>>) = {} /\ IsInjective(<<>>)
    BY DEF ToSet, IsInjective
  <2>3. \A k \in 1 .. F : freelist[k] = NUM_RX_QUEUE_ENTRIES + k
    BY DEF Init
  <2>4. IsInjective(freelist)
    BY <1>2, <2>3 DEF IsInjective
  <2>5. /\ rx.bufs_in_use \in [RxRing -> Packets]
        /\ \A i \in RxRing : rx.bufs_in_use[i] = i + 1
    BY <1>1 DEF Init
  <2>6. IsInjective(rx.bufs_in_use)
    BY <2>5 DEF IsInjective, RxRing
  <2>7. OnRx = 1 .. NUM_RX_QUEUE_ENTRIES
    <3>1. OnRx \subseteq 1 .. NUM_RX_QUEUE_ENTRIES
      BY <2>5 DEF OnRx, RxRing
    <3>2. ASSUME NEW p \in 1 .. NUM_RX_QUEUE_ENTRIES PROVE p \in OnRx
      <4>1. p - 1 \in RxRing /\ (p - 1) + 1 = p
        BY DEF RxRing
      <4> QED
        BY <2>5, <4>1 DEF OnRx
    <3> QED
      BY <3>1, <3>2
  <2>8. ToSet(freelist) = NUM_RX_QUEUE_ENTRIES + 1 .. NUM_RX_QUEUE_ENTRIES + F
    <3>1. ToSet(freelist) \subseteq NUM_RX_QUEUE_ENTRIES + 1 .. NUM_RX_QUEUE_ENTRIES + F
      BY <1>2, <2>3 DEF ToSet
    <3>2. ASSUME NEW p \in NUM_RX_QUEUE_ENTRIES + 1 .. NUM_RX_QUEUE_ENTRIES + F
          PROVE  p \in ToSet(freelist)
      <4>1. p - NUM_RX_QUEUE_ENTRIES \in 1 .. F
        OBVIOUS
      <4>2. freelist[p - NUM_RX_QUEUE_ENTRIES] = p
        BY <2>3, <4>1
      <4> QED
        BY <1>2, <4>1, <4>2 DEF ToSet
    <3> QED
      BY <3>1, <3>2
  <2>9. /\ ToSet(freelist) \intersect OnRx = {}
        /\ ToSet(freelist) \union OnRx = Packets
    BY <2>7, <2>8 DEF Packets
  <2> QED
    BY <2>1, <2>2, <2>4, <2>6, <2>9 DEF Owners, OnTx
<1> QED
  BY <1>7, <1>8, <1>9, <1>10, <1>11, <1>12 DEF RingInv

\* The parts of the invariant that do not mention what a step changes.
LEMMA KeepsRx ==
  ASSUME RxInv, UNCHANGED <<rx, RDH, RDT, rdma>>
  PROVE  RxInv'
BY DEF RxInv, RxDist

LEMMA KeepsTx ==
  ASSUME TxInv, UNCHANGED <<tx, TDH, TDT, twb>>
  PROVE  TxInv'
BY DEF TxInv, TxDist

LEMMA KeepsOwners ==
  ASSUME Count, Owners,
         UNCHANGED <<freelist, link, tx.bufs_in_use, rx.bufs_in_use>>
  PROVE  Count' /\ Owners'
BY DEF Count, Owners, OnRx, OnTx

LEMMA HwReceiveRingInv ==
  ASSUME RingInv, HwReceive
  PROVE  RingInv'
<1>1. /\ arrived < MaxFrames /\ rdma = 0 /\ RDH # RDT
      /\ arrived' = arrived + 1 /\ rdma' = arrived + 1
      /\ data' = [data EXCEPT ![rx.descriptors[RDH].addr] = arrived + 1]
      /\ UNCHANGED <<freelist, link, rx, tx, received, last_rx_index, pc,
                     RDH, RDT, TDH, TDT, twb, wire>>
  BY DEF HwReceive, driver
<1>2. Typed'
  <2>1. arrived + 1 \in 0 .. MaxFrames
    BY <1>1, Sizes DEF RingInv, Typed
  <2>2. data' \in [Packets -> 0 .. MaxFrames]
    BY <1>1, <2>1 DEF RingInv, Typed
  <2> QED
    BY <1>1, <2>1, <2>2 DEF RingInv, Typed
<1>3. RxInv'
  BY <1>1 DEF RingInv, RxInv, RxDist
<1>4. RxLocals' /\ TxInv' /\ Count' /\ Owners'
  BY <1>1, KeepsTx, KeepsOwners DEF RingInv, RxLocals
<1> QED
  BY <1>2, <1>3, <1>4 DEF RingInv

LEMMA HwReceivedRingInv ==
  ASSUME RingInv, HwReceived
  PROVE  /\ RingInv' /\ RxDist(RDH)' = RxDist(RDH) + 1
         /\ UNCHANGED <<rx.bufs_in_use, rx.rx_index>>
<1> DEFINE s == IF rdma \in Oversized THEN {"DD"} ELSE {"DD", "EOP"}
<1>1. /\ rdma # 0 /\ rdma' = 0 /\ RDH' = wrap_ring(RDH, NUM_RX_QUEUE_ENTRIES)
      /\ UNCHANGED <<freelist, data, link, tx, RDT, TDH, TDT, twb, arrived, wire,
                     received, last_rx_index, pc>>
  BY DEF HwReceived, wrap_ring
<1>2. /\ rx.rx_index \in RxRing /\ RDH \in RxRing /\ RDT \in RxRing
      /\ rx.descriptors \in [RxRing -> [addr : Packets, status : SUBSET {"DD", "EOP"}]]
      /\ rx \in RxQueue
  BY Fields DEF RingInv, Typed
<1>3. /\ rx'.descriptors = [rx.descriptors EXCEPT
                              ![RDH] = [addr |-> rx.descriptors[RDH].addr, status |-> s]]
      /\ rx'.bufs_in_use = rx.bufs_in_use /\ rx'.rx_index = rx.rx_index
      /\ rx' \in RxQueue
  BY <1>2 DEF HwReceived, RxQueue
<1>4. /\ RDH' \in RxRing
      /\ RxDist(RDH') = IF RxDist(RDH) = NUM_RX_QUEUE_ENTRIES - 1 THEN 0 ELSE RxDist(RDH) + 1
  BY <1>1, <1>2, Sizes, DistFar DEF RxRing, RxDist
<1>5. Typed'
  BY <1>1, <1>3, <1>4 DEF RingInv, Typed
<1>6. RxDist(RDH) # RxDist(RDT)
  BY <1>1, <1>2, Sizes, DistInjective DEF RingInv, RxInv, RxDist, RxRing
<1>7. \A i \in RxRing : RxDist(i) \in 0 .. NUM_RX_QUEUE_ENTRIES - 1
  BY <1>2, Sizes, DistType DEF RxRing, RxDist
<1>8. RxDist(RDH') = RxDist(RDH) + 1 /\ RxDist(RDH') <= RxDist(RDT)
  BY <1>2, <1>4, <1>6, <1>7, Sizes DEF RingInv, RxInv
<1>9. \A i \in RxRing : "DD" \in rx'.descriptors[i].status <=> RxDist(i) < RxDist(RDH')
  <2> SUFFICES ASSUME NEW i \in RxRing
               PROVE  "DD" \in rx'.descriptors[i].status <=> RxDist(i) < RxDist(RDH')
    OBVIOUS
  <2>1. CASE i = RDH
    <3>1. rx'.descriptors[i].status = s /\ "DD" \in s
      BY <1>2, <1>3, <2>1
    <3>2. RxDist(i) < RxDist(RDH')
      BY <1>7, <1>8, <2>1
    <3> QED
      BY <3>1, <3>2
  <2>2. CASE i # RDH
    <3>1. rx'.descriptors[i] = rx.descriptors[i]
      BY <1>2, <1>3, <2>2
    <3>2. RxDist(i) # RxDist(RDH)
      BY <1>2, <2>2, Sizes, DistInjective DEF RxDist, RxRing
    <3>3. RxDist(i) < RxDist(RDH) <=> RxDist(i) < RxDist(RDH')
      BY <1>2, <1>7, <1>8, <3>2
    <3> QED
      BY <3>1, <3>3 DEF RingInv, RxInv
  <2> QED
    BY <2>1, <2>2
<1>10. \A i \in RxRing : rx'.descriptors[i].addr = rx'.bufs_in_use[i]
  BY <1>2, <1>3 DEF RingInv, RxInv
<1>11. RxInv'
  BY <1>1, <1>3, <1>8, <1>9, <1>10 DEF RxInv, RxDist
<1>12. RxLocals' /\ TxInv' /\ Count' /\ Owners'
  BY <1>1, <1>3, KeepsTx, KeepsOwners DEF RingInv, RxLocals
<1> QED
  BY <1>3, <1>5, <1>8, <1>11, <1>12 DEF RingInv, RxDist

LEMMA HwMissRingInv ==
  ASSUME RingInv, HwMiss
  PROVE  RingInv'
<1>1. /\ arrived < MaxFrames /\ rdma = 0 /\ arrived' = arrived + 1
      /\ UNCHANGED <<freelist, link, rx, tx, received, last_rx_index, pc, data,
                     RDH, RDT, TDH, TDT, rdma, twb, wire>>
  BY DEF HwMiss, driver
<1>2. Typed'
  BY <1>1, Sizes DEF RingInv, Typed
<1>3. RxInv' /\ RxLocals' /\ TxInv' /\ Count' /\ Owners'
  BY <1>1, KeepsRx, KeepsTx, KeepsOwners DEF RingInv, RxLocals
<1> QED
  BY <1>2, <1>3 DEF RingInv

\* The packet of a descriptor submitted is the one bufs_in_use has for it.
LEMMA SubmittedPacket ==
  ASSUME RingInv, NEW i \in TxRing, TxDist(i) < TxDist(tx.tx_index)
  PROVE  /\ TxDist(i) + 1 \in DOMAIN tx.bufs_in_use
         /\ tx.descriptors[i].addr = tx.bufs_in_use[TxDist(i) + 1]
         /\ tx.descriptors[i].addr \in Packets
<1>1. tx.clean_index \in TxRing /\ tx.tx_index \in TxRing /\ tx.bufs_in_use \in Seq(Packets)
  BY Fields DEF RingInv
<1>2. TxDist(i) \in 0 .. NUM_TX_QUEUE_ENTRIES - 1 /\ Len(tx.bufs_in_use) = TxDist(tx.tx_index)
  BY <1>1, Sizes, DistType DEF RingInv, TxInv, TxDist, TxRing
<1>3. TxDist(i) + 1 \in 1 .. Len(tx.bufs_in_use)
  BY <1>1, <1>2
<1> QED
  BY <1>1, <1>3 DEF RingInv, TxInv

\* The distances on the transmit ring.
LEMMA TxDists ==
  ASSUME Typed
  PROVE  /\ \A i \in TxRing : TxDist(i) \in 0 .. NUM_TX_QUEUE_ENTRIES - 1
         /\ \A i, j \in TxRing : TxDist(i) = TxDist(j) => i = j
         /\ \A i \in TxRing :
              /\ wrap_ring(i, NUM_TX_QUEUE_ENTRIES) \in TxRing
              /\ TxDist(wrap_ring(i, NUM_TX_QUEUE_ENTRIES)) =
                   IF TxDist(i) = NUM_TX_QUEUE_ENTRIES - 1 THEN 0 ELSE TxDist(i) + 1
<1>1. tx.clean_index \in TxRing
  BY Fields
<1>2. \A i \in TxRing : TxDist(i) \in 0 .. NUM_TX_QUEUE_ENTRIES - 1
  BY <1>1, Sizes, DistType DEF TxDist, TxRing
<1>3. \A i, j \in TxRing : TxDist(i) = TxDist(j) => i = j
  BY <1>1, Sizes, DistInjective DEF TxDist, TxRing
<1>4. \A i \in TxRing :
        /\ wrap_ring(i, NUM_TX_QUEUE_ENTRIES) \in TxRing
        /\ TxDist(wrap_ring(i, NUM_TX_QUEUE_ENTRIES)) =
             IF TxDist(i) = NUM_TX_QUEUE_ENTRIES - 1 THEN 0 ELSE TxDist(i) + 1
  BY <1>1, Sizes, DistFar DEF TxDist, TxRing
<1> QED
  BY <1>2, <1>3, <1>4

LEMMA HwTransmitRingInv ==
  ASSUME RingInv, HwTransmit
  PROVE  /\ RingInv'
         /\ TxDist(TDH)' = TxDist(TDH) + 1
         /\ TxDist(TDH) < TxDist(tx.tx_index)
<1>1. /\ TDH # TDT /\ TDH' = wrap_ring(TDH, NUM_TX_QUEUE_ENTRIES)
      /\ wire' = Append(wire, data[tx.descriptors[TDH].addr])
      /\ UNCHANGED <<freelist, link, rx, tx, received, last_rx_index, pc, data,
                     RDH, RDT, TDT, rdma, twb, arrived>>
  BY DEF HwTransmit, driver, wrap_ring
<1>2. TDH \in TxRing /\ TDT \in TxRing /\ twb \in TxRing /\ tx.tx_index \in TxRing /\ Typed
  BY Fields DEF RingInv, Typed
<1>3. /\ TxDist(TDH) \in Nat /\ TxDist(TDT) \in 0 .. NUM_TX_QUEUE_ENTRIES - 1
      /\ TxDist(tx.tx_index) \in Nat /\ TxDist(twb) \in Nat
      /\ TxDist(TDH) # TxDist(TDT) /\ TDH' \in TxRing
      /\ TxDist(TDH') = IF TxDist(TDH) = NUM_TX_QUEUE_ENTRIES - 1 THEN 0 ELSE TxDist(TDH) + 1
  <2>1. \A i \in {TDH, TDT, twb, tx.tx_index} : TxDist(i) \in 0 .. NUM_TX_QUEUE_ENTRIES - 1
    BY <1>2, TxDists
  <2>2. TxDist(TDH) # TxDist(TDT)
    BY <1>1, <1>2, TxDists
  <2>3. /\ TDH' \in TxRing
        /\ TxDist(TDH') = IF TxDist(TDH) = NUM_TX_QUEUE_ENTRIES - 1 THEN 0 ELSE TxDist(TDH) + 1
    BY <1>1, <1>2, TxDists
  <2> QED
    BY <2>1, <2>2, <2>3
<1>4. TxDist(TDH) <= TxDist(TDT) /\ TxDist(TDT) <= TxDist(tx.tx_index) /\ TxDist(twb) <= TxDist(TDH)
  BY DEF RingInv, TxInv
<1>5. /\ TxDist(TDH') = TxDist(TDH) + 1 /\ TxDist(TDH) < TxDist(tx.tx_index)
      /\ TxDist(TDH') <= TxDist(TDT) /\ TxDist(twb) <= TxDist(TDH')
  BY <1>3, <1>4, Sizes
<1>6. Typed'
  <2>1. data[tx.descriptors[TDH].addr] \in 0 .. MaxFrames
    BY <1>2, <1>5, SubmittedPacket DEF Typed
  <2> QED
    BY <1>1, <1>2, <1>3, <2>1 DEF Typed
<1>7. TxInv'
  BY <1>1, <1>5 DEF RingInv, TxInv, TxDist
<1>8. RxInv' /\ RxLocals' /\ Count' /\ Owners'
  BY <1>1, KeepsRx, KeepsOwners DEF RingInv, RxLocals
<1> QED
  BY <1>1, <1>5, <1>6, <1>7, <1>8 DEF RingInv, TxDist

LEMMA HwTransmittedRingInv ==
  ASSUME RingInv, HwTransmitted
  PROVE  RingInv' /\ UNCHANGED <<tx.bufs_in_use, tx.clean_index, tx.tx_index>>
<1>1. /\ twb # TDH /\ twb' = wrap_ring(twb, NUM_TX_QUEUE_ENTRIES)
      /\ UNCHANGED <<freelist, data, link, rx, RDH, RDT, TDH, TDT, rdma, arrived,
                     wire, received, last_rx_index, pc>>
  BY DEF HwTransmitted, wrap_ring
<1>2. TDH \in TxRing /\ twb \in TxRing /\ Typed /\ tx \in TxQueue
  BY DEF RingInv, Typed
<1>3. /\ tx'.descriptors = [tx.descriptors EXCEPT
                              ![twb] = [addr |-> tx.descriptors[twb].addr, status |-> {"DD"}]]
      /\ tx'.bufs_in_use = tx.bufs_in_use
      /\ tx'.clean_index = tx.clean_index /\ tx'.tx_index = tx.tx_index
      /\ tx' \in TxQueue
  BY <1>2 DEF HwTransmitted, TxQueue
<1>4. /\ TxDist(TDH) \in 0 .. NUM_TX_QUEUE_ENTRIES - 1 /\ TxDist(twb) \in Nat
      /\ TxDist(TDH) # TxDist(twb) /\ twb' \in TxRing
      /\ TxDist(twb') = IF TxDist(twb) = NUM_TX_QUEUE_ENTRIES - 1 THEN 0 ELSE TxDist(twb) + 1
  BY <1>1, <1>2, TxDists
<1>5. TxDist(twb') = TxDist(twb) + 1 /\ TxDist(twb') <= TxDist(TDH)
  BY <1>4, Sizes DEF RingInv, TxInv
<1>6. Typed'
  BY <1>1, <1>2, <1>3, <1>4 DEF Typed
<1>7. ASSUME NEW i \in TxRing, TxDist(i) < TxDist(tx.tx_index)
      PROVE  /\ tx'.descriptors[i].addr = tx.bufs_in_use[TxDist(i) + 1]
             /\ TxDist(twb') <= TxDist(i) => "DD" \notin tx'.descriptors[i].status
  <2>1. tx.descriptors \in [TxRing -> [addr : Packets \union {NULL}, status : SUBSET {"DD"}]]
    BY <1>2, Fields
  <2>2. CASE i = twb
    <3>1. ~(TxDist(twb') <= TxDist(i))
      BY <1>4, <1>5, <2>2
    <3> QED
      BY <1>3, <1>7, <2>1, <2>2, <3>1, SubmittedPacket
  <2>3. CASE i # twb
    <3>1. tx'.descriptors[i] = tx.descriptors[i]
      BY <1>3, <2>1, <2>3
    <3>2. TxDist(i) \in Nat
      BY <1>2, TxDists
    <3>3. TxDist(twb') <= TxDist(i) => TxDist(twb) <= TxDist(i)
      BY <1>4, <1>5, <3>2
    <3> QED
      BY <1>7, <3>1, <3>3 DEF RingInv, TxInv
  <2> QED
    BY <2>2, <2>3
<1>8. TxInv'
  BY <1>1, <1>3, <1>5, <1>7 DEF RingInv, TxInv, TxDist
<1>9. RxInv' /\ RxLocals' /\ Count' /\ Owners'
  BY <1>1, <1>3, KeepsRx, KeepsOwners DEF RingInv, RxLocals
<1> QED
  BY <1>3, <1>6, <1>8, <1>9 DEF RingInv

-----------------------------------------------------------------------------
(* The steps of the driver.                                                *)

\* There is a packet for the next one to be received.
LEMMA FreelistSuffices ==
  ASSUME RingInv
  PROVE  freelist # <<>>
<1>1. /\ freelist \in Seq(Packets) /\ link \in Seq(Packets) /\ tx.bufs_in_use \in Seq(Packets)
      /\ tx.tx_index \in TxRing /\ Len(link) <= LINK_MAX_PACKETS /\ Typed
  BY Fields DEF RingInv, Typed
<1>2. Len(tx.bufs_in_use) \in 0 .. NUM_TX_QUEUE_ENTRIES - 1
  BY <1>1, TxDists DEF RingInv, TxInv
<1> DEFINE l == Len(link)
           b == Len(tx.bufs_in_use)
           f == Len(freelist)
<1>3. f + l + b = NUM_TX_QUEUE_ENTRIES + LINK_MAX_PACKETS
  BY DEF RingInv, Count
<1>4. f \in Nat /\ l \in Nat /\ l <= LINK_MAX_PACKETS /\ b \in 0 .. NUM_TX_QUEUE_ENTRIES - 1
  BY <1>1, <1>2
<1> HIDE DEF l, b, f
<1>5. f # 0
  BY <1>3, <1>4, Sizes
<1> QED
  BY <1>1, <1>5 DEF f

\* What is left on the freelist, and what is on the link, after packet p, out
\* of its place, was transmitted.
LEMMA Transmitted ==
  ASSUME NEW list \in Seq(Packets), NEW p \in Packets, link \in Seq(Packets),
         IsInjective(list), IsInjective(link), ToSet(list) \intersect ToSet(link) = {},
         p \notin ToSet(list), p \notin ToSet(link), Len(link) <= LINK_MAX_PACKETS
  PROVE  LET f == TransmitFreelist(list, p)
             l == TransmitLink(p)
         IN  /\ f \in Seq(Packets) /\ l \in Seq(Packets) /\ Len(l) <= LINK_MAX_PACKETS
             /\ IsInjective(f) /\ IsInjective(l) /\ ToSet(f) \intersect ToSet(l) = {}
             /\ ToSet(f) \union ToSet(l) = ToSet(list) \union ToSet(link) \union {p}
             /\ Len(f) + Len(l) = Len(list) + Len(link) + 1
             /\ l = link \/ l = Append(link, p)
<1>1. CASE Len(link) = LINK_MAX_PACKETS
  <2>1. TransmitFreelist(list, p) = Append(list, p) /\ TransmitLink(p) = link
    BY <1>1 DEF TransmitFreelist, TransmitLink, Free
  <2>2. /\ Append(list, p) \in Seq(Packets) /\ ToSet(Append(list, p)) = ToSet(list) \union {p}
        /\ IsInjective(Append(list, p))
    BY AppendSet
  <2>3. Len(Append(list, p)) + Len(link) = Len(list) + Len(link) + 1
    OBVIOUS
  <2> QED
    BY <2>1, <2>2, <2>3
<1>2. CASE Len(link) # LINK_MAX_PACKETS
  <2>1. TransmitFreelist(list, p) = list /\ TransmitLink(p) = Append(link, p)
    BY <1>2 DEF TransmitFreelist, TransmitLink
  <2>2. /\ Append(link, p) \in Seq(Packets) /\ ToSet(Append(link, p)) = ToSet(link) \union {p}
        /\ IsInjective(Append(link, p))
    BY AppendSet
  <2>3. /\ Len(list) + Len(Append(link, p)) = Len(list) + Len(link) + 1
        /\ Len(Append(link, p)) <= LINK_MAX_PACKETS
    BY <1>2, Sizes
  <2> QED
    BY <2>1, <2>2, <2>3
<1> QED
  BY <1>1, <1>2

\* The distances on the receive ring.
LEMMA RxDists ==
  ASSUME Typed
  PROVE  /\ \A i \in RxRing : RxDist(i) \in 0 .. NUM_RX_QUEUE_ENTRIES - 1
         /\ \A i \in RxRing : RxDist(i) = 0 <=> i = rx.rx_index
         /\ \A i, j \in RxRing : RxDist(i) = RxDist(j) => i = j
<1>1. rx.rx_index \in RxRing
  BY Fields
<1>2. \A i \in RxRing : RxDist(i) \in 0 .. NUM_RX_QUEUE_ENTRIES - 1
  BY <1>1, Sizes, DistType DEF RxDist, RxRing
<1>3. \A i \in RxRing : RxDist(i) = 0 <=> i = rx.rx_index
  BY <1>1, Sizes DEF RxDist, RxRing, Dist
<1>4. \A i, j \in RxRing : RxDist(i) = RxDist(j) => i = j
  BY <1>1, Sizes, DistInjective DEF RxDist, RxRing
<1> QED
  BY <1>2, <1>3, <1>4

\* The iteration of rx_batch() that passes a packet on.
RxPass ==
  /\ pc = "rx" /\ received < PULL_NPACKETS /\ "DD" \in RxDescriptor.status
  /\ freelist # <<>>
  /\ freelist' = TransmitFreelist(Front(freelist), rx.bufs_in_use[rx.rx_index])
  /\ link' = TransmitLink(rx.bufs_in_use[rx.rx_index])
  /\ rx' = Refill(Last(freelist))
  /\ last_rx_index' = rx.rx_index
  /\ received' = received + 1
  /\ UNCHANGED <<pc, data, tx, RDT, TDT, RDH, TDH, rdma, twb, arrived, wire>>

LEMMA RxPacketCases ==
  ASSUME RingInv, RxPacket
  PROVE  \/ RxPass
         \/ /\ pc = "rx" /\ pc' = "increase_buffer_size_or_decrease_MTU"
            /\ UNCHANGED <<freelist, link, rx, received, last_rx_index, data, tx, RDT, TDT,
                           RDH, TDH, rdma, twb, arrived, wire>>
BY FreelistSuffices DEF RxPacket, RxPass, hardware

LEMMA RxPassRx ==
  ASSUME RingInv, RxPass
  PROVE  /\ rx' \in RxQueue
         /\ rx'.bufs_in_use = [rx.bufs_in_use EXCEPT ![rx.rx_index] = Last(freelist)]
         /\ rx'.rx_index = wrap_ring(rx.rx_index, NUM_RX_QUEUE_ENTRIES)
         /\ \A i \in RxRing :
              RxDist(i)' = IF i = rx.rx_index THEN NUM_RX_QUEUE_ENTRIES - 1 ELSE RxDist(i) - 1
         /\ 0 < RxDist(RDH) /\ RxDist(RDH)' = RxDist(RDH) - 1
         /\ RxInv'
<1> DEFINE np == Last(freelist)
<1>1. /\ rx.rx_index \in RxRing /\ RDH \in RxRing /\ RDT \in RxRing /\ rx \in RxQueue /\ Typed
      /\ rx.descriptors \in [RxRing -> [addr : Packets, status : SUBSET {"DD", "EOP"}]]
      /\ rx.bufs_in_use \in [RxRing -> Packets]
  BY Fields DEF RingInv, Typed
<1>2. np \in Packets
  BY LastSet DEF RxPass, RingInv, Typed, Owners, ToSet
<1>3. wrap_ring(rx.rx_index, NUM_RX_QUEUE_ENTRIES) \in RxRing
  BY <1>1, Sizes, DistFar DEF RxRing
<1> HIDE DEF np
<1>4. /\ rx'.bufs_in_use = [rx.bufs_in_use EXCEPT ![rx.rx_index] = np]
      /\ rx'.descriptors = [rx.descriptors EXCEPT ![rx.rx_index] = [addr |-> np, status |-> {}]]
      /\ rx'.rx_index = wrap_ring(rx.rx_index, NUM_RX_QUEUE_ENTRIES)
      /\ rx' \in RxQueue
  BY <1>1, <1>2, <1>3 DEF RxPass, Refill, RxQueue, np
<1>5. \A i \in RxRing :
        RxDist(i)' = IF i = rx.rx_index THEN NUM_RX_QUEUE_ENTRIES - 1 ELSE RxDist(i) - 1
  BY <1>1, <1>4, Sizes, DistNear DEF RxDist, RxRing
<1>6. /\ \A i \in RxRing : RxDist(i) \in 0 .. NUM_RX_QUEUE_ENTRIES - 1
      /\ \A i \in RxRing : RxDist(i) = 0 <=> i = rx.rx_index
  BY <1>1, RxDists
<1>7. RxDist(rx.rx_index) < RxDist(RDH)
  BY <1>1 DEF RxPass, RingInv, RxInv, RxDescriptor
<1>8. RDH # rx.rx_index /\ RDT # rx.rx_index /\ 0 < RxDist(RDH)
  BY <1>1, <1>6, <1>7 DEF RingInv, RxInv
<1>9. RDH' = RDH /\ RDT' = RDT /\ rdma' = rdma
  BY DEF RxPass
<1>10. RxDist(RDH)' = RxDist(RDH) - 1 /\ RxDist(RDT)' = RxDist(RDT) - 1
  <2>1. \A i \in RxRing : Dist(rx'.rx_index, i, NUM_RX_QUEUE_ENTRIES) =
          IF i = rx.rx_index THEN NUM_RX_QUEUE_ENTRIES - 1 ELSE RxDist(i) - 1
    BY <1>5 DEF RxDist
  <2> QED
    BY <1>1, <1>8, <1>9, <2>1 DEF RxDist
<1>11. ASSUME NEW i \in RxRing
       PROVE  /\ rx'.descriptors[i].addr = rx'.bufs_in_use[i]
              /\ "DD" \in rx'.descriptors[i].status <=> RxDist(i)' < RxDist(RDH)'
  <2>1. CASE i = rx.rx_index
    <3>1. rx'.descriptors[i].addr = np /\ rx'.bufs_in_use[i] = np
      BY <1>1, <1>4, <2>1
    <3>2. rx'.descriptors[i].status = {}
      BY <1>1, <1>4, <2>1
    <3>3. ~(RxDist(i)' < RxDist(RDH)')
      BY <1>1, <1>5, <1>6, <1>10, <2>1, Sizes
    <3> QED
      BY <3>1, <3>2, <3>3
  <2>2. CASE i # rx.rx_index
    <3>1. rx'.descriptors[i] = rx.descriptors[i] /\ rx'.bufs_in_use[i] = rx.bufs_in_use[i]
      BY <1>1, <1>4, <2>2
    <3>2. RxDist(i)' < RxDist(RDH)' <=> RxDist(i) < RxDist(RDH)
      BY <1>1, <1>5, <1>6, <1>10, <2>2
    <3> QED
      BY <3>1, <3>2 DEF RingInv, RxInv
  <2> QED
    BY <2>1, <2>2
<1>12. RxDist(RDH)' <= RxDist(RDT)'
  BY <1>1, <1>6, <1>10 DEF RingInv, RxInv
<1>13. RxInv'
  BY <1>9, <1>11, <1>12 DEF RingInv, RxInv
<1> QED
  BY <1>4, <1>5, <1>8, <1>10, <1>13 DEF np

LEMMA RxPassRingInv ==
  ASSUME RingInv, RxPass
  PROVE  RingInv'
<1> DEFINE np == Last(freelist)
           i  == rx.rx_index
           p  == rx.bufs_in_use[i]
           list == Front(freelist)
<1>1. /\ i \in RxRing /\ Typed /\ rx.bufs_in_use \in [RxRing -> Packets]
      /\ tx.bufs_in_use \in Seq(Packets)
      /\ link \in Seq(Packets) /\ Len(link) <= LINK_MAX_PACKETS
      /\ freelist \in Seq(Packets) /\ freelist # <<>>
  BY Fields DEF RingInv, Typed, RxPass
<1>2. /\ list \in Seq(Packets) /\ IsInjective(list) /\ Len(list) = Len(freelist) - 1
      /\ np \in ToSet(freelist) /\ ToSet(list) = ToSet(freelist) \ {np}
  BY <1>1, LastSet DEF RingInv, Owners
<1>3. p \in Packets /\ p \in OnRx
  BY <1>1 DEF OnRx
<1>4. /\ p \notin ToSet(list) /\ p \notin ToSet(link)
      /\ IsInjective(link) /\ ToSet(list) \intersect ToSet(link) = {}
  BY <1>2, <1>3 DEF RingInv, Owners
<1>5. freelist' = TransmitFreelist(list, p) /\ link' = TransmitLink(p)
  BY DEF RxPass
<1>6. rx'.bufs_in_use = [rx.bufs_in_use EXCEPT ![i] = np]
  BY RxPassRx
<1> HIDE DEF np, i, p, list
<1>7. /\ freelist' \in Seq(Packets) /\ link' \in Seq(Packets) /\ Len(link') <= LINK_MAX_PACKETS
      /\ IsInjective(freelist') /\ IsInjective(link')
      /\ ToSet(freelist') \intersect ToSet(link') = {}
      /\ ToSet(freelist') \union ToSet(link') = ToSet(list) \union ToSet(link) \union {p}
      /\ Len(freelist') + Len(link') = Len(list) + Len(link) + 1
  BY <1>1, <1>2, <1>3, <1>4, <1>5, Transmitted
<1>8. OnRx' = (OnRx \ {p}) \union {np} /\ IsInjective(rx'.bufs_in_use)
  <2>1. IsInjective(rx.bufs_in_use) /\ np \notin OnRx
    BY <1>2 DEF RingInv, Owners
  <2>2. OnRx' = {rx'.bufs_in_use[k] : k \in RxRing}
    BY DEF OnRx
  <2>3. \A k \in RxRing : k # i => rx'.bufs_in_use[k] = rx.bufs_in_use[k] /\ rx.bufs_in_use[k] # p
    BY <1>1, <1>6, <2>1 DEF IsInjective, p
  <2>4. rx'.bufs_in_use[i] = np /\ DOMAIN rx'.bufs_in_use = RxRing
    BY <1>1, <1>6
  <2>5. OnRx' = (OnRx \ {p}) \union {np}
    BY <1>1, <2>2, <2>3, <2>4 DEF OnRx, p
  <2>6. IsInjective(rx'.bufs_in_use)
    BY <1>1, <2>1, <2>3, <2>4 DEF IsInjective, OnRx
  <2> QED
    BY <2>5, <2>6
<1>9. tx' = tx /\ OnTx' = OnTx
  BY DEF RxPass, OnTx
<1>10. Owners'
  <2>1. /\ ToSet(freelist) \intersect OnTx = {} /\ ToSet(freelist) \intersect OnRx = {}
        /\ ToSet(link) \intersect OnTx = {} /\ ToSet(link) \intersect OnRx = {}
        /\ ToSet(freelist) \intersect ToSet(link) = {}
        /\ OnTx \intersect OnRx = {} /\ IsInjective(tx.bufs_in_use)
        /\ ToSet(freelist) \union ToSet(link) \union OnTx \union OnRx = Packets
    BY DEF RingInv, Owners
  <2> DEFINE A == ToSet(freelist')
             B == ToSet(link')
  <2>2. A \union B = (ToSet(freelist) \ {np}) \union ToSet(link) \union {p}
    BY <1>2, <1>7
  <2> HIDE DEF A, B
  <2>3. (A \union B) \intersect OnTx = {}
    BY <1>3, <2>1, <2>2
  <2>4. (A \union B) \intersect ((OnRx \ {p}) \union {np}) = {}
    BY <1>2, <1>3, <2>1, <2>2
  <2>5. OnTx \intersect ((OnRx \ {p}) \union {np}) = {}
    BY <1>2, <2>1
  <2>6. (A \union B) \union OnTx \union ((OnRx \ {p}) \union {np}) = Packets
    BY <1>2, <1>3, <2>1, <2>2
  <2>7. /\ A \intersect OnTx = {} /\ B \intersect OnTx = {}
        /\ A \intersect OnRx' = {} /\ B \intersect OnRx' = {} /\ OnTx \intersect OnRx' = {}
        /\ A \union B \union OnTx \union OnRx' = Packets
    BY <1>8, <2>3, <2>4, <2>5, <2>6
  <2> QED
    BY <1>7, <1>8, <1>9, <2>1, <2>7 DEF Owners, A, B
<1>11. Count'
  <2> DEFINE f == Len(freelist)
             l == Len(link)
             b == Len(tx.bufs_in_use)
             f1 == Len(freelist')
             l1 == Len(link')
  <2>1. f \in Nat /\ l \in Nat /\ b \in Nat /\ f1 \in Nat /\ l1 \in Nat
    BY <1>1, <1>7
  <2>2. f1 + l1 = (f - 1) + l + 1
    BY <1>2, <1>7
  <2>3. f + l + b = NUM_TX_QUEUE_ENTRIES + LINK_MAX_PACKETS
    BY DEF RingInv, Count
  <2> HIDE DEF f, l, b, f1, l1
  <2>4. f1 + l1 + b = NUM_TX_QUEUE_ENTRIES + LINK_MAX_PACKETS
    BY <2>1, <2>2, <2>3, Sizes
  <2> QED
    BY <1>9, <2>4 DEF Count, f1, l1, b
<1>12. Typed'
  <2>1. received' \in 0 .. PULL_NPACKETS
    <3>1. received \in 0 .. PULL_NPACKETS /\ received < PULL_NPACKETS /\ received' = received + 1
      BY <1>1 DEF RxPass, Typed
    <3>2. PULL_NPACKETS \in Nat
      BY IxgbeAssumption
    <3> QED
      BY <3>1, <3>2
  <2> QED
    BY <1>1, <1>7, <2>1, RxPassRx DEF RxPass, Typed, i
<1>13. RxLocals'
  <2>1. received' # 0 /\ last_rx_index' = rx.rx_index /\ pc' = "rx"
    BY <1>1 DEF RxPass, Typed
  <2> QED
    BY <2>1, RxPassRx DEF RxLocals
<1>14. TxInv'
  BY KeepsTx DEF RxPass, RingInv
<1> QED
  BY <1>10, <1>11, <1>12, <1>13, <1>14, RxPassRx DEF RingInv

LEMMA RxPacketRingInv ==
  ASSUME RingInv, RxPacket
  PROVE  RingInv'
<1>1. CASE RxPass
  BY <1>1, RxPassRingInv
<1>2. CASE /\ pc = "rx" /\ pc' = "increase_buffer_size_or_decrease_MTU"
           /\ UNCHANGED <<freelist, link, rx, received, last_rx_index, data, tx, RDT, TDT,
                          RDH, TDH, rdma, twb, arrived, wire>>
  <2>1. Typed' /\ RxLocals'
    BY <1>2 DEF RingInv, Typed, RxLocals, PCs
  <2> QED
    BY <1>2, <2>1, KeepsRx, KeepsTx, KeepsOwners DEF RingInv
<1> QED
  BY <1>1, <1>2, RxPacketCases

LEMMA RxDoneRingInv ==
  ASSUME RingInv, RxDone
  PROVE  RingInv'
<1>1. /\ pc = "rx" /\ pc' = "clean" /\ received' = 0
      /\ IF rx.rx_index # last_rx_index THEN RDT' = last_rx_index ELSE UNCHANGED RDT
      /\ UNCHANGED <<freelist, data, link, rx, tx, TDT, RDH, TDH, rdma, twb, arrived, wire,
                     last_rx_index>>
  BY DEF RxDone, hardware
<1>2. /\ rx.rx_index \in RxRing /\ RDH \in RxRing /\ RDT \in RxRing /\ last_rx_index \in RxRing
      /\ Typed
  BY Fields DEF RingInv, Typed
<1>3. Typed'
  BY <1>1, <1>2, IxgbeAssumption DEF Typed, PCs
<1>4. RxInv'
  <2>1. CASE rx.rx_index # last_rx_index
    <3>1. rx.rx_index = wrap_ring(last_rx_index, NUM_RX_QUEUE_ENTRIES)
      BY <1>1, <2>1 DEF RingInv, RxLocals
    <3>2. RxDist(last_rx_index) = NUM_RX_QUEUE_ENTRIES - 1
      BY <1>2, <3>1, Sizes, DistNear DEF RxDist, RxRing
    <3>3. /\ RxDist(RDH) \in 0 .. NUM_RX_QUEUE_ENTRIES - 1
          /\ RxDist(RDT) \in 0 .. NUM_RX_QUEUE_ENTRIES - 1
          /\ RxDist(RDH) = RxDist(RDT) => RDH = RDT
      BY <1>2, RxDists
    <3>4. RxDist(RDH) <= RxDist(last_rx_index)
      BY <3>2, <3>3, Sizes
    <3>5. RDH # RDT => RDH # last_rx_index
      <4>1. RDH # RDT => RxDist(RDH) < RxDist(RDT)
        BY <3>3 DEF RingInv, RxInv
      <4>2. RDH # RDT => RxDist(RDH) < NUM_RX_QUEUE_ENTRIES - 1
        BY <3>3, <4>1, Sizes
      <4> QED
        BY <3>2, <3>3, <4>2, Sizes
    <3> QED
      BY <1>1, <2>1, <3>4, <3>5 DEF RingInv, RxInv, RxDist
  <2>2. CASE rx.rx_index = last_rx_index
    BY <1>1, <2>2, KeepsRx DEF RingInv
  <2> QED
    BY <2>1, <2>2
<1>5. RxLocals'
  BY <1>1 DEF RxLocals
<1>6. TxInv' /\ Count' /\ Owners'
  BY <1>1, KeepsTx, KeepsOwners DEF RingInv
<1> QED
  BY <1>3, <1>4, <1>5, <1>6 DEF RingInv

\* A batch is cleaned when hardware has written all of it back.
LEMMA CleansSent ==
  ASSUME RingInv, CanClean
  PROVE  /\ CleanupTo \in TxRing /\ TxDist(CleanupTo) = TX_CLEAN_BATCH - 1
         /\ TX_CLEAN_BATCH <= TxDist(twb) /\ TX_CLEAN_BATCH <= Len(tx.bufs_in_use)
         /\ BatchLength = TX_CLEAN_BATCH
<1>1. /\ tx.clean_index \in TxRing /\ tx.tx_index \in TxRing /\ twb \in TxRing
      /\ tx.bufs_in_use \in Seq(Packets) /\ Typed
  BY Fields DEF RingInv, Typed
<1>2. CleanupTo \in TxRing /\ TxDist(CleanupTo) = TX_CLEAN_BATCH - 1
  BY <1>1, Sizes DEF CleanupTo, TxDist, Dist, TxRing
<1>3. Cleanable = TxDist(tx.tx_index)
  BY <1>1, Sizes DEF Cleanable, TxDist, Dist, TxRing
<1>4. TxDist(twb) \in Nat /\ TxDist(tx.tx_index) \in Nat
  BY <1>1, TxDists
<1>5. TxDist(CleanupTo) < TxDist(tx.tx_index) /\ TX_CLEAN_BATCH <= TxDist(tx.tx_index)
  BY <1>2, <1>3, <1>4, Sizes DEF CanClean
<1>6. ~(TxDist(twb) <= TxDist(CleanupTo))
  BY <1>2, <1>5 DEF RingInv, TxInv, CanClean
<1>7. TX_CLEAN_BATCH <= TxDist(twb)
  BY <1>2, <1>4, <1>6, Sizes
<1>8. TX_CLEAN_BATCH <= Len(tx.bufs_in_use)
  BY <1>5 DEF RingInv, TxInv
<1>9. BatchLength = TX_CLEAN_BATCH
  BY <1>1, <1>8, Sizes DEF BatchLength
<1> QED
  BY <1>2, <1>7, <1>8, <1>9

LEMMA CleanBatchTx ==
  ASSUME RingInv, CleanBatch
  PROVE  /\ tx' \in TxQueue /\ TxInv'
         /\ tx'.bufs_in_use = SubSeq(tx.bufs_in_use, TX_CLEAN_BATCH + 1, Len(tx.bufs_in_use))
         /\ Len(tx'.bufs_in_use) = Len(tx.bufs_in_use) - TX_CLEAN_BATCH
         /\ \A k \in 1 .. Len(tx.bufs_in_use) - TX_CLEAN_BATCH :
              tx'.bufs_in_use[k] = tx.bufs_in_use[TX_CLEAN_BATCH + k]
         /\ TxDist(TDH)' = TxDist(TDH) - TX_CLEAN_BATCH
<1> DEFINE B == TX_CLEAN_BATCH
           n == NUM_TX_QUEUE_ENTRIES
           c == wrap_ring(CleanupTo, n)
           u == SubSeq(tx.bufs_in_use, B + 1, Len(tx.bufs_in_use))
<1>1. /\ CleanupTo \in TxRing /\ TxDist(CleanupTo) = B - 1
      /\ B <= TxDist(twb) /\ B <= Len(tx.bufs_in_use) /\ BatchLength = B
  BY CleansSent DEF CleanBatch
<1>2. /\ tx.clean_index \in TxRing /\ tx.tx_index \in TxRing /\ twb \in TxRing
      /\ TDH \in TxRing /\ TDT \in TxRing /\ tx \in TxQueue /\ Typed
      /\ tx.bufs_in_use \in Seq(Packets)
      /\ tx.descriptors \in [TxRing -> [addr : Packets \union {NULL}, status : SUBSET {"DD"}]]
  BY Fields DEF RingInv, Typed
<1>3. c \in TxRing
  BY <1>1, <1>2, TxDists
<1>4. B \in 0 .. Len(tx.bufs_in_use)
  BY <1>1, <1>2, Sizes
<1>5. /\ u \in Seq(Packets) /\ Len(u) = Len(tx.bufs_in_use) - B
      /\ \A k \in 1 .. Len(tx.bufs_in_use) - B : u[k] = tx.bufs_in_use[B + k]
  BY <1>2, <1>4, CutSet DEF RingInv, Owners
<1>6. tx' = [tx EXCEPT !.bufs_in_use = u, !.clean_index = c]
  BY <1>1, <1>2 DEF CleanBatch, TxQueue
<1> HIDE DEF u, c
<1>7. /\ tx' \in TxQueue /\ tx'.bufs_in_use = u /\ tx'.clean_index = c
      /\ tx'.descriptors = tx.descriptors /\ tx'.tx_index = tx.tx_index
  BY <1>2, <1>3, <1>5, <1>6 DEF TxQueue
<1>8. UNCHANGED <<TDH, TDT, twb>>
  BY DEF CleanBatch, hardware
<1>9. \A i \in TxRing : TxDist(i) \in 0 .. n - 1
  BY <1>2, TxDists
<1>10. \A i \in TxRing : Dist(c, i, n) \in 0 .. n - 1
  BY <1>3, Sizes, DistType DEF TxRing
<1>11. \A i \in TxRing : B <= TxDist(i) => Dist(c, i, n) = TxDist(i) - B
  <2> SUFFICES ASSUME NEW i \in TxRing, B <= TxDist(i) PROVE Dist(c, i, n) = TxDist(i) - B
    OBVIOUS
  <2>1. TxDist(CleanupTo) < TxDist(i)
    BY <1>1, <1>9, Sizes
  <2>2. Dist(c, i, n) = TxDist(i) - TxDist(CleanupTo) - 1
    BY <1>1, <1>2, <2>1, Sizes, DistJump DEF TxDist, TxRing, c
  <2> QED
    BY <1>1, <1>9, <2>2, Sizes
<1>12. /\ B <= TxDist(TDH) /\ B <= TxDist(TDT) /\ B <= TxDist(tx.tx_index)
       /\ Len(tx.bufs_in_use) = TxDist(tx.tx_index)
  BY <1>1, <1>2, <1>9, Sizes DEF RingInv, TxInv
<1>13. \A i \in TxRing : TxDist(i)' = Dist(c, i, n)
  BY <1>7 DEF TxDist
<1>14. /\ TxDist(TDH)' = TxDist(TDH) - B /\ TxDist(TDT)' = TxDist(TDT) - B
       /\ TxDist(twb)' = TxDist(twb) - B /\ TxDist(tx.tx_index)' = TxDist(tx.tx_index) - B
  <2>1. /\ TxDist(TDH)' = Dist(c, TDH, n) /\ TxDist(TDT)' = Dist(c, TDT, n)
        /\ TxDist(twb)' = Dist(c, twb, n) /\ TxDist(tx.tx_index)' = Dist(c, tx.tx_index, n)
    BY <1>7, <1>8 DEF TxDist
  <2> QED
    BY <1>1, <1>2, <1>11, <1>12, <2>1
<1>15. ASSUME NEW i \in TxRing, Dist(c, i, n) < TxDist(tx.tx_index) - B
       PROVE  /\ tx.descriptors[i].addr = u[Dist(c, i, n) + 1]
              /\ TxDist(twb) - B <= Dist(c, i, n) => "DD" \notin tx.descriptors[i].status
  <2> DEFINE d == Dist(c, i, n)
             t == TxDist(tx.tx_index)
  <2>1. d \in 0 .. n - 1 /\ t \in 0 .. n - 1 /\ d < t - B /\ B \in Nat /\ n \in Nat
    BY <1>2, <1>9, <1>10, <1>15, Sizes
  <2>2. TxDist(i) = B + d
    <3> DEFINE a == tx.clean_index
    <3>1. d + B \in 0 .. n - 1
      BY <2>1
    <3>2. PICK j \in TxRing : TxDist(j) = d + B
      <4>1. /\ (a + (d + B)) % n \in 0 .. n - 1 /\ Dist(a, (a + (d + B)) % n, n) = d + B
        BY <1>2, <3>1, Sizes, Steps DEF TxRing
      <4> QED
        BY <4>1 DEF TxDist, TxRing
    <3>3. Dist(c, j, n) = d
      BY <1>11, <2>1, <3>2
    <3>4. i = j
      BY <1>3, <3>3, Sizes, DistInjective DEF TxRing
    <3> QED
      BY <2>1, <3>2, <3>4
  <2> HIDE DEF d, t
  <2>3. TxDist(i) < t
    BY <2>1, <2>2
  <2>4. tx.descriptors[i].addr = tx.bufs_in_use[TxDist(i) + 1]
    BY <2>3 DEF RingInv, TxInv, t
  <2>5. d + 1 \in 1 .. Len(tx.bufs_in_use) - B /\ B + (d + 1) = TxDist(i) + 1
    BY <1>12, <2>1, <2>2 DEF t
  <2>6. u[d + 1] = tx.bufs_in_use[B + (d + 1)]
    BY <1>5, <2>5 DEF u
  <2>7. TxDist(twb) \in Nat
    BY <1>2, <1>9
  <2>8. TxDist(twb) - B <= d => TxDist(twb) <= TxDist(i)
    BY <2>1, <2>2, <2>7
  <2>9. TxDist(twb) - B <= d => "DD" \notin tx.descriptors[i].status
    BY <2>3, <2>8 DEF RingInv, TxInv, t
  <2> QED
    BY <2>4, <2>5, <2>6, <2>9 DEF d
<1>16. /\ TxDist(twb)' <= TxDist(TDH)' /\ TxDist(TDH)' <= TxDist(TDT)'
       /\ TxDist(TDT)' <= TxDist(tx.tx_index)'
  BY <1>2, <1>9, <1>14, Sizes DEF RingInv, TxInv
<1>17. Len(tx'.bufs_in_use) = TxDist(tx.tx_index)'
  BY <1>5, <1>7, <1>12, <1>14 DEF u
<1>18. \A i \in TxRing : TxDist(i)' < TxDist(tx.tx_index)' =>
         /\ tx'.descriptors[i].addr = tx'.bufs_in_use[TxDist(i)' + 1]
         /\ TxDist(twb)' <= TxDist(i)' => "DD" \notin tx'.descriptors[i].status
  BY <1>7, <1>13, <1>14, <1>15
<1>19. TxInv'
  BY <1>16, <1>17, <1>18 DEF TxInv
<1> QED
  BY <1>5, <1>7, <1>14, <1>19 DEF u

LEMMA CleanBatchRingInv ==
  ASSUME RingInv, CleanBatch
  PROVE  RingInv'
<1> DEFINE B == TX_CLEAN_BATCH
           s == tx.bufs_in_use
           u == SubSeq(s, 1, B)
           v == SubSeq(s, B + 1, Len(s))
<1>1. /\ pc = "clean" /\ freelist' = freelist \o u
      /\ UNCHANGED <<data, link, rx, RDT, TDT, RDH, TDH, rdma, twb, arrived, wire,
                     received, last_rx_index, pc>>
  BY CleansSent DEF CleanBatch, hardware
<1>2. /\ s \in Seq(Packets) /\ freelist \in Seq(Packets) /\ link \in Seq(Packets) /\ Typed
      /\ IsInjective(s) /\ B \in 0 .. Len(s)
  <2>1. s \in Seq(Packets) /\ Typed
    BY Fields DEF RingInv
  <2>2. freelist \in Seq(Packets) /\ link \in Seq(Packets) /\ IsInjective(s)
    BY DEF RingInv, Typed, Owners
  <2>3. B <= Len(s)
    BY CleansSent DEF CleanBatch
  <2>4. B \in 0 .. Len(s)
    BY <2>1, <2>3, Sizes
  <2> QED
    BY <2>1, <2>2, <2>4
<1>3. /\ u \in Seq(Packets) /\ IsInjective(u) /\ Len(u) = B
      /\ v \in Seq(Packets) /\ IsInjective(v) /\ Len(v) = Len(s) - B
      /\ ToSet(u) \intersect ToSet(v) = {} /\ ToSet(u) \union ToSet(v) = ToSet(s)
  BY <1>2, CutSet
<1>4. tx' \in TxQueue /\ TxInv' /\ tx'.bufs_in_use = v
  BY CleanBatchTx
<1> HIDE DEF u, v
<1>5. /\ ToSet(freelist) \intersect ToSet(u) = {} /\ IsInjective(freelist)
  BY <1>3 DEF RingInv, Owners, OnTx
<1>6. /\ freelist' \in Seq(Packets) /\ ToSet(freelist') = ToSet(freelist) \union ToSet(u)
      /\ IsInjective(freelist')
  BY <1>1, <1>2, <1>3, <1>5, ConcatSet
<1>7. Len(freelist') = Len(freelist) + B
  <2>1. Len(freelist \o u) = Len(freelist) + Len(u)
    BY <1>2, <1>3, ConcatProperties
  <2> QED
    BY <1>1, <1>3, <2>1
<1>8. Typed'
  BY <1>1, <1>2, <1>4, <1>6 DEF Typed
<1>9. RxInv' /\ RxLocals'
  BY <1>1, KeepsRx DEF RingInv, RxLocals
<1>10. Count'
  <2> DEFINE f == Len(freelist)
             l == Len(link)
             b == Len(s)
  <2>1. f \in Nat /\ l \in Nat /\ b \in Nat
    BY <1>2
  <2>2. f + l + b = NUM_TX_QUEUE_ENTRIES + LINK_MAX_PACKETS
    BY DEF RingInv, Count
  <2> HIDE DEF f, l, b
  <2>3. (f + B) + l + (b - B) = NUM_TX_QUEUE_ENTRIES + LINK_MAX_PACKETS
    BY <2>1, <2>2, Sizes
  <2> QED
    BY <1>1, <1>3, <1>4, <1>7, <2>3 DEF Count, f, l, b
<1>11. Owners'
  <2>1. OnRx' = OnRx /\ OnTx' = ToSet(v) /\ link' = link /\ rx' = rx
    BY <1>1, <1>4 DEF OnRx, OnTx
  <2>2. OnTx = ToSet(u) \union ToSet(v)
    BY <1>3 DEF OnTx
  <2> DEFINE U == ToSet(u)
             V == ToSet(v)
             F == ToSet(freelist)
             L == ToSet(link)
  <2>3. /\ U \intersect V = {} /\ OnTx = U \union V
        /\ F \intersect L = {} /\ F \intersect OnTx = {} /\ F \intersect OnRx = {}
        /\ L \intersect OnTx = {} /\ L \intersect OnRx = {} /\ OnTx \intersect OnRx = {}
        /\ F \union L \union OnTx \union OnRx = Packets
    BY <1>3, <2>2 DEF RingInv, Owners
  <2> HIDE DEF U, V, F, L
  <2>4. /\ (F \union U) \intersect L = {} /\ (F \union U) \intersect V = {}
        /\ (F \union U) \intersect OnRx = {} /\ L \intersect V = {} /\ V \intersect OnRx = {}
        /\ (F \union U) \union L \union V \union OnRx = Packets
    BY <2>3
  <2> QED
    BY <1>3, <1>4, <1>6, <2>1, <2>3, <2>4 DEF RingInv, Owners, U, V, F, L
<1> QED
  BY <1>4, <1>8, <1>9, <1>10, <1>11 DEF RingInv

LEMMA CleanDoneRingInv ==
  ASSUME RingInv, CleanDone
  PROVE  RingInv'
<1>1. /\ pc = "clean" /\ pc' = "tx"
      /\ UNCHANGED <<freelist, data, link, rx, tx, RDT, TDT, RDH, TDH, rdma, twb, arrived,
                     wire, received, last_rx_index>>
  BY DEF CleanDone, hardware
<1>2. Typed' /\ RxLocals'
  BY <1>1 DEF RingInv, Typed, RxLocals, PCs
<1> QED
  BY <1>1, <1>2, KeepsRx, KeepsTx, KeepsOwners DEF RingInv

LEMMA TxPacketTx ==
  ASSUME RingInv, TxPacket
  PROVE  /\ tx' \in TxQueue /\ TxInv'
         /\ tx'.bufs_in_use = Append(tx.bufs_in_use, Head(link))
         /\ TxDist(TDH)' = TxDist(TDH)
<1> DEFINE n == NUM_TX_QUEUE_ENTRIES
           p == Head(link)
           b == tx.bufs_in_use
           t == tx.tx_index
           d == Len(b)
<1>1. /\ tx.clean_index \in TxRing /\ t \in TxRing /\ twb \in TxRing
      /\ TDH \in TxRing /\ TDT \in TxRing /\ tx \in TxQueue /\ Typed
      /\ b \in Seq(Packets) /\ link \in Seq(Packets)
      /\ tx.descriptors \in [TxRing -> [addr : Packets \union {NULL}, status : SUBSET {"DD"}]]
  BY Fields DEF RingInv, Typed
<1>2. p \in Packets /\ link # <<>>
  BY <1>1 DEF TxPacket
<1>3. wrap_ring(t, n) \in TxRing
  BY <1>1, TxDists
<1> HIDE DEF p
<1>4. /\ tx'.descriptors = [tx.descriptors EXCEPT ![t] = [addr |-> p, status |-> {}]]
      /\ tx'.bufs_in_use = Append(b, p) /\ tx'.clean_index = tx.clean_index
      /\ tx'.tx_index = wrap_ring(t, n)
      /\ tx' \in TxQueue
  <2> DEFINE ds == [tx.descriptors EXCEPT ![t] = [addr |-> p, status |-> {}]]
             b1 == Append(b, p)
             t1 == wrap_ring(t, n)
  <2>1. ds \in [TxRing -> [addr : Packets \union {NULL}, status : SUBSET {"DD"}]]
    BY <1>1, <1>2
  <2>2. b1 \in Seq(Packets)
    BY <1>1, <1>2
  <2>3. tx' = [tx EXCEPT !.descriptors = ds, !.bufs_in_use = b1, !.tx_index = t1]
    BY <1>1 DEF TxPacket, TxQueue, p
  <2> HIDE DEF ds, b1, t1
  <2>4. /\ tx'.descriptors = ds /\ tx'.bufs_in_use = b1
        /\ tx'.clean_index = tx.clean_index /\ tx'.tx_index = t1
    BY <1>1, <2>3 DEF TxQueue
  <2>5. tx' \in TxQueue
    BY <1>1, <1>3, <2>1, <2>2, <2>3 DEF TxQueue, t1
  <2> QED
    BY <2>4, <2>5 DEF ds, b1, t1
<1>5. UNCHANGED <<TDH, TDT, twb>>
  BY DEF TxPacket, hardware
<1>6. \A i \in TxRing : TxDist(i) \in 0 .. n - 1 /\ TxDist(i)' = TxDist(i)
  BY <1>1, <1>4, TxDists DEF TxDist
<1>7. /\ TxDist(TDH)' = TxDist(TDH) /\ TxDist(TDT)' = TxDist(TDT)
      /\ TxDist(twb)' = TxDist(twb)
  BY <1>4, <1>5 DEF TxDist
<1>8. TxDist(tx.tx_index)' = d + 1 /\ TxDist(t) = d
  <2>1. TxDist(t) = d
    BY DEF RingInv, TxInv
  <2>2. TxDist(tx.tx_index)' = TxDist(wrap_ring(t, n))
    BY <1>4 DEF TxDist
  <2>3. TxDist(wrap_ring(t, n)) = IF TxDist(t) = n - 1 THEN 0 ELSE TxDist(t) + 1
    BY <1>1, TxDists
  <2>4. TxDist(wrap_ring(t, n)) # 0
    <3>1. wrap_ring(t, n) # tx.clean_index
      BY DEF TxPacket, TxFull
    <3> QED
      BY <1>1, <1>3, <3>1, Sizes DEF TxDist, Dist, TxRing
  <2> QED
    BY <2>1, <2>2, <2>3, <2>4
<1>9. d \in Nat /\ DOMAIN b = 1 .. d
  BY <1>1
<1>10. /\ Append(b, p) \in Seq(Packets) /\ Len(Append(b, p)) = d + 1 /\ Append(b, p)[d + 1] = p
       /\ \A k \in 1 .. d : Append(b, p)[k] = b[k]
  BY <1>1, <1>2
<1> HIDE DEF d
<1>11. ASSUME NEW i \in TxRing, TxDist(i) < d + 1
       PROVE  /\ tx'.descriptors[i].addr = tx'.bufs_in_use[TxDist(i) + 1]
              /\ TxDist(twb) <= TxDist(i) => "DD" \notin tx'.descriptors[i].status
  <2>1. CASE i = t
    <3>1. tx'.descriptors[i] = [addr |-> p, status |-> {}]
      BY <1>1, <1>4, <2>1
    <3> QED
      BY <1>4, <1>8, <1>10, <2>1, <3>1
  <2>2. CASE i # t
    <3>1. tx'.descriptors[i] = tx.descriptors[i]
      BY <1>1, <1>4, <2>2
    <3>2. TxDist(i) # d
      BY <1>1, <1>8, <2>2, TxDists
    <3>3. TxDist(i) < TxDist(t) /\ TxDist(i) + 1 \in 1 .. d
      BY <1>6, <1>8, <1>9, <1>11, <3>2
    <3>4. tx'.bufs_in_use[TxDist(i) + 1] = b[TxDist(i) + 1]
      BY <1>4, <1>10, <3>3
    <3> QED
      BY <3>1, <3>3, <3>4 DEF RingInv, TxInv
  <2> QED
    BY <2>1, <2>2
<1>12. \A i \in TxRing : TxDist(i)' < TxDist(tx.tx_index)' =>
         /\ tx'.descriptors[i].addr = tx'.bufs_in_use[TxDist(i)' + 1]
         /\ TxDist(twb)' <= TxDist(i)' => "DD" \notin tx'.descriptors[i].status
  BY <1>6, <1>7, <1>8, <1>11
<1>13. /\ TxDist(twb)' <= TxDist(TDH)' /\ TxDist(TDH)' <= TxDist(TDT)'
       /\ TxDist(TDT)' <= TxDist(tx.tx_index)'
  <2>1. TxDist(twb) <= TxDist(TDH) /\ TxDist(TDH) <= TxDist(TDT) /\ TxDist(TDT) <= d
    BY <1>8 DEF RingInv, TxInv
  <2>2. TxDist(TDT) \in Nat
    BY <1>1, <1>6
  <2>3. TxDist(TDT) <= d + 1
    BY <1>9, <2>1, <2>2
  <2> QED
    BY <1>7, <1>8, <2>1, <2>3
<1>14. Len(tx'.bufs_in_use) = TxDist(tx.tx_index)'
  BY <1>4, <1>8, <1>10
<1>15. TxInv'
  BY <1>12, <1>13, <1>14 DEF TxInv
<1> QED
  BY <1>4, <1>7, <1>15 DEF p

LEMMA TxPacketRingInv ==
  ASSUME RingInv, TxPacket
  PROVE  RingInv'
<1> DEFINE p == Head(link)
           b == tx.bufs_in_use
<1>1. /\ pc = "tx" /\ link' = Tail(link) /\ link # <<>>
      /\ UNCHANGED <<freelist, data, rx, RDT, TDT, RDH, TDH, rdma, twb, arrived, wire,
                     received, last_rx_index, pc>>
  BY DEF TxPacket, hardware
<1>2. /\ b \in Seq(Packets) /\ freelist \in Seq(Packets) /\ link \in Seq(Packets) /\ Typed
      /\ IsInjective(b) /\ IsInjective(link)
  BY Fields DEF RingInv, Typed, Owners
<1>3. /\ link' \in Seq(Packets) /\ IsInjective(link') /\ Len(link') = Len(link) - 1
      /\ p \in ToSet(link) /\ ToSet(link') = ToSet(link) \ {p}
  BY <1>1, <1>2, HeadSet
<1>4. tx' \in TxQueue /\ TxInv' /\ tx'.bufs_in_use = Append(b, p)
  BY TxPacketTx
<1>5. p \in Packets /\ p \notin ToSet(b)
  BY <1>2, <1>3 DEF RingInv, Owners, OnTx, ToSet
<1> HIDE DEF p
<1>6. /\ ToSet(tx'.bufs_in_use) = ToSet(b) \union {p} /\ IsInjective(tx'.bufs_in_use)
      /\ Len(tx'.bufs_in_use) = Len(b) + 1
  BY <1>2, <1>4, <1>5, AppendSet
<1>7. Typed'
  <2>1. Len(link') <= LINK_MAX_PACKETS
    BY <1>2, <1>3, Sizes DEF Typed
  <2> QED
    BY <1>1, <1>2, <1>3, <1>4, <2>1 DEF Typed
<1>8. RxInv' /\ RxLocals'
  BY <1>1, KeepsRx DEF RingInv, RxLocals
<1>9. Count'
  <2> DEFINE f == Len(freelist)
             l == Len(link)
             m == Len(b)
  <2>1. f \in Nat /\ l \in Nat /\ m \in Nat
    BY <1>2
  <2>2. f + l + m = NUM_TX_QUEUE_ENTRIES + LINK_MAX_PACKETS
    BY DEF RingInv, Count
  <2> HIDE DEF f, l, m
  <2>3. f + (l - 1) + (m + 1) = NUM_TX_QUEUE_ENTRIES + LINK_MAX_PACKETS
    BY <2>1, <2>2, Sizes
  <2> QED
    BY <1>1, <1>3, <1>6, <2>3 DEF Count, f, l, m
<1>10. Owners'
  <2>1. OnRx' = OnRx /\ OnTx' = OnTx \union {p} /\ freelist' = freelist /\ rx' = rx
    BY <1>1, <1>6 DEF OnRx, OnTx
  <2> DEFINE F == ToSet(freelist)
             L == ToSet(link)
  <2>2. /\ F \intersect L = {} /\ F \intersect OnTx = {} /\ F \intersect OnRx = {}
        /\ L \intersect OnTx = {} /\ L \intersect OnRx = {} /\ OnTx \intersect OnRx = {}
        /\ F \union L \union OnTx \union OnRx = Packets /\ p \in L
    BY <1>3 DEF RingInv, Owners
  <2> HIDE DEF F, L
  <2>3. /\ F \intersect (L \ {p}) = {} /\ F \intersect (OnTx \union {p}) = {}
        /\ (L \ {p}) \intersect (OnTx \union {p}) = {} /\ (L \ {p}) \intersect OnRx = {}
        /\ (OnTx \union {p}) \intersect OnRx = {}
        /\ F \union (L \ {p}) \union (OnTx \union {p}) \union OnRx = Packets
    BY <2>2
  <2> QED
    BY <1>3, <1>6, <2>1, <2>2, <2>3 DEF RingInv, Owners, F, L
<1> QED
  BY <1>4, <1>7, <1>8, <1>9, <1>10 DEF RingInv

LEMMA TxDoneRingInv ==
  ASSUME RingInv, TxDone
  PROVE  RingInv'
<1>1. /\ pc = "tx" /\ pc' = "rx" /\ TDT' = tx.tx_index /\ last_rx_index' = rx.rx_index
      /\ UNCHANGED <<freelist, data, link, rx, tx, RDT, RDH, TDH, rdma, twb, arrived, wire,
                     received>>
  BY DEF TxDone, hardware
<1>2. /\ tx.tx_index \in TxRing /\ rx.rx_index \in RxRing /\ TDH \in TxRing /\ TDT \in TxRing
      /\ Typed
  BY Fields DEF RingInv, Typed
<1>3. Typed'
  BY <1>1, <1>2 DEF Typed, PCs
<1>4. RxLocals'
  BY <1>1 DEF RingInv, RxLocals
<1>5. TxInv'
  <2>1. \A i \in {TDH, TDT, tx.tx_index} : TxDist(i) \in Nat
    BY <1>2, TxDists
  <2>2. TxDist(TDH) <= TxDist(tx.tx_index)
    BY <2>1 DEF RingInv, TxInv
  <2> QED
    BY <1>1, <2>1, <2>2 DEF RingInv, TxInv, TxDist
<1>6. RxInv' /\ Count' /\ Owners'
  BY <1>1, KeepsRx, KeepsOwners DEF RingInv
<1> QED
  BY <1>3, <1>4, <1>5, <1>6 DEF RingInv

\* The rings, the link and the freelist are consistent, whatever the driver
\* and hardware do when.
THEOREM RingInvariant == Spec => []RingInv
<1>1. ASSUME RingInv, [Next]_vars
      PROVE  RingInv'
  <2>1. CASE HwReceive
    BY <1>1, <2>1, HwReceiveRingInv
  <2>2. CASE HwReceived
    BY <1>1, <2>2, HwReceivedRingInv
  <2>3. CASE HwMiss
    BY <1>1, <2>3, HwMissRingInv
  <2>4. CASE HwTransmit
    BY <1>1, <2>4, HwTransmitRingInv
  <2>5. CASE HwTransmitted
    BY <1>1, <2>5, HwTransmittedRingInv
  <2>6. CASE RxPacket
    BY <1>1, <2>6, RxPacketRingInv
  <2>7. CASE RxDone
    BY <1>1, <2>7, RxDoneRingInv
  <2>8. CASE CleanBatch
    BY <1>1, <2>8, CleanBatchRingInv
  <2>9. CASE CleanDone
    BY <1>1, <2>9, CleanDoneRingInv
  <2>10. CASE TxPacket
    BY <1>1, <2>10, TxPacketRingInv
  <2>11. CASE TxDone
    BY <1>1, <2>11, TxDoneRingInv
  <2>12. CASE UNCHANGED vars
    <3>1. Typed' /\ RxLocals'
      BY <1>1, <2>12 DEF RingInv, Typed, RxLocals, vars
    <3> QED
      BY <1>1, <2>12, <3>1, KeepsRx, KeepsTx, KeepsOwners DEF RingInv, vars
  <2> QED
    BY <1>1, <2>1, <2>2, <2>3, <2>4, <2>5, <2>6, <2>7, <2>8, <2>9, <2>10, <2>11, <2>12
       DEF Next, Driver, Sending
<1> QED
  BY <1>1, InitRingInv, PTL DEF Spec

\* Every variable has its type, for rings, links and batches of any size.
THEOREM RingsTypeCorrect == Spec => []TypeOK
<1>1. ASSUME RingInv PROVE TypeOK
  <2>1. Typed
    BY <1>1 DEF RingInv
  <2>2. /\ rx.bufs_in_use \in [RxRing -> Packets] /\ rx.rx_index \in RxRing
        /\ tx.clean_index \in TxRing /\ tx.tx_index \in TxRing
    BY <2>1, Fields
  <2>3. ToSet(freelist) \union ToSet(link) \union ToSet(tx.bufs_in_use) \subseteq Packets
    BY <1>1 DEF RingInv, Owners, OnTx
  <2>4. 0 .. MaxFrames = Frames \union {0}
    BY Sizes DEF Frames
  <2> QED
    BY <2>1, <2>2, <2>3, <2>4 DEF TypeOK, Typed
<1> QED
  BY <1>1, RingInvariant, PTL

\* The bits and addresses of the descriptors hardware may write to are right.
THEOREM RxIsOwned == Spec => []RxOwnership
<1>1. ASSUME RingInv PROVE RxOwnership
  <2> SUFFICES ASSUME NEW i \in RxHardware
               PROVE  rx.descriptors[i].addr = rx.bufs_in_use[i] /\ "DD" \notin rx.descriptors[i].status
    BY DEF RxOwnership
  <2>1. rx.rx_index \in RxRing /\ RDH \in RxRing /\ RDT \in RxRing /\ Typed
    BY <1>1, Fields DEF RingInv, Typed
  <2>2. i \in RxRing /\ RxDist(RDH) <= RxDist(i)
    BY <1>1, <2>1, Sizes, Between DEF RingInv, RxInv, RxDist, RxHardware, RxRing
  <2>3. RxDist(RDH) \in Int /\ RxDist(i) \in Int
    BY <2>1, <2>2, RxDists
  <2> QED
    BY <1>1, <2>2, <2>3 DEF RingInv, RxInv
<1> QED
  BY <1>1, RingInvariant, PTL

\* A packet clean_tx_queue() frees is one hardware has read.
THEOREM TxIsOwned == Spec => []TxOwnership
<1>1. ASSUME RingInv PROVE TxOwnership
  <2> DEFINE n == NUM_TX_QUEUE_ENTRIES
             a == tx.clean_index
             t == tx.tx_index
  <2>1. a \in TxRing /\ t \in TxRing /\ TDH \in TxRing /\ TDT \in TxRing /\ Typed
    BY <1>1, Fields DEF RingInv, Typed
  <2>2. Cleanable = TxDist(t)
    BY <2>1, Sizes DEF Cleanable, TxDist, Dist, TxRing
  <2>3. Len(tx.bufs_in_use) = Cleanable
    BY <1>1, <2>2 DEF RingInv, TxInv
  <2>4. TxDist(t) \in 0 .. n - 1 /\ TxDist(TDT) \in 0 .. n - 1
    BY <2>1, TxDists
  <2>5. ASSUME NEW k \in 1 .. Cleanable
        PROVE  tx.bufs_in_use[k] = tx.descriptors[(a + k - 1) % n].addr
    <3> DEFINE e == k - 1
               i == (a + e) % n
    <3>1. e \in 0 .. n - 1 /\ e < TxDist(t) /\ e + 1 = k
      BY <2>2, <2>4, <2>5, Sizes
    <3>2. a + k - 1 = a + e
      BY <2>1, <2>2, <2>4, <2>5 DEF TxRing
    <3> HIDE DEF e
    <3>3. i \in TxRing /\ TxDist(i) = e
      BY <2>1, <3>1, Sizes, Steps DEF TxDist, TxRing
    <3> HIDE DEF i
    <3>4. tx.descriptors[i].addr = tx.bufs_in_use[e + 1]
      BY <1>1, <3>1, <3>3 DEF RingInv, TxInv
    <3> QED
      BY <3>1, <3>2, <3>4 DEF i
  <2>6. ASSUME NEW i \in TxHardware
        PROVE  i \in RingRange(a, t, n)
    <3>1. /\ i \in TxRing /\ TxDist(i) < TxDist(TDT)
      BY <1>1, <2>1, Sizes, Between DEF RingInv, TxInv, TxDist, TxHardware, TxRing
    <3>2. TxDist(i) \in Int
      BY <2>1, <3>1, TxDists
    <3>3. TxDist(i) < TxDist(t)
      BY <1>1, <2>4, <3>1, <3>2 DEF RingInv, TxInv
    <3> QED
      BY <2>1, <3>1, <3>3, Sizes DEF TxDist, Dist, RingRange, TxRing
  <2> QED
    BY <2>3, <2>5, <2>6 DEF TxOwnership
<1> QED
  BY <1>1, RingInvariant, PTL

\* The raw pointers the driver keeps neither alias nor lose a packet.
THEOREM PacketsHaveOneOwner == Spec => []OneOwner
<1>1. ASSUME RingInv PROVE OneOwner
  <2> DEFINE R == [k \in 1 .. NUM_RX_QUEUE_ENTRIES |-> rx.bufs_in_use[k - 1]]
             A == freelist \o link
             B == A \o tx.bufs_in_use
             C == B \o R
  <2>1. /\ freelist \in Seq(Packets) /\ link \in Seq(Packets) /\ tx.bufs_in_use \in Seq(Packets)
        /\ rx.bufs_in_use \in [RxRing -> Packets]
    BY <1>1, Fields DEF RingInv, Typed
  <2>2. \A k \in 1 .. NUM_RX_QUEUE_ENTRIES : k - 1 \in RxRing
    BY Sizes DEF RxRing
  <2>3. R \in Seq(Packets)
    <3>1. R \in [1 .. NUM_RX_QUEUE_ENTRIES -> Packets]
      BY <2>1, <2>2
    <3> QED
      BY <3>1, Sizes
  <2>4. IsInjective(R)
    <3> SUFFICES ASSUME NEW j \in DOMAIN R, NEW k \in DOMAIN R, R[j] = R[k] PROVE j = k
      BY DEF IsInjective
    <3>1. j \in 1 .. NUM_RX_QUEUE_ENTRIES /\ k \in 1 .. NUM_RX_QUEUE_ENTRIES
      OBVIOUS
    <3>2. rx.bufs_in_use[j - 1] = rx.bufs_in_use[k - 1]
      BY <3>1
    <3>3. j - 1 = k - 1
      BY <1>1, <2>1, <2>2, <3>1, <3>2 DEF RingInv, Owners, IsInjective
    <3> QED
      BY <3>1, <3>3, Sizes
  <2>5. ToSet(R) = OnRx
    <3>1. DOMAIN R = 1 .. NUM_RX_QUEUE_ENTRIES
      OBVIOUS
    <3>2. ToSet(R) \subseteq OnRx
      BY <2>2 DEF ToSet, OnRx
    <3>3. ASSUME NEW i \in RxRing PROVE rx.bufs_in_use[i] \in ToSet(R)
      <4>1. i + 1 \in 1 .. NUM_RX_QUEUE_ENTRIES /\ (i + 1) - 1 = i
        BY Sizes DEF RxRing
      <4>2. R[i + 1] = rx.bufs_in_use[i]
        BY <4>1
      <4> HIDE DEF R
      <4> QED
        BY <3>1, <4>1, <4>2 DEF ToSet
    <3> QED
      BY <3>2, <3>3 DEF OnRx
  <2> HIDE DEF R
  <2>6. A \in Seq(Packets) /\ ToSet(A) = ToSet(freelist) \union ToSet(link) /\ IsInjective(A)
    BY <1>1, <2>1, ConcatSet DEF RingInv, Owners
  <2> HIDE DEF A
  <2>7. /\ B \in Seq(Packets) /\ IsInjective(B)
        /\ ToSet(B) = ToSet(freelist) \union ToSet(link) \union OnTx
    BY <1>1, <2>1, <2>6, ConcatSet DEF RingInv, Owners, OnTx
  <2> HIDE DEF B
  <2>8. ToSet(B) \intersect ToSet(R) = {}
    BY <1>1, <2>5, <2>7 DEF RingInv, Owners
  <2>9. IsInjective(C) /\ ToSet(C) = ToSet(B) \union ToSet(R)
    BY <2>3, <2>4, <2>7, <2>8, ConcatSet
  <2>10. ToSet(C) = Packets
    BY <1>1, <2>5, <2>7, <2>9 DEF RingInv, Owners
  <2> QED
    BY <2>9, <2>10 DEF OneOwner, A, B, R
<1> QED
  BY <1>1, RingInvariant, PTL

\* rx_batch() always finds a packet for the one it passes on.
THEOREM PoolAlwaysSuffices == Spec => []PoolSuffices
<1>1. RingInv => PoolSuffices
  BY DEF RingInv, Typed, PCs, PoolSuffices
<1> QED
  BY <1>1, RingInvariant, PTL

-----------------------------------------------------------------------------
(* Frames are sent in the order in which they arrived.                     *)

\* A step that changes no frame and keeps the line in its order.
LEMMA LineMoves ==
  ASSUME RingInv, FramesInv, UNCHANGED <<data, wire, arrived, rdma>>,
         rdma # 0 => (rx.bufs_in_use[RDH])' = rx.bufs_in_use[RDH],
         NEW g \in [Nat -> Nat], \A r, s \in Nat : r < s => g[r] < g[s],
         \A p \in Packets, r \in Nat : At(p, r)' => At(p, g[r])
  PROVE  FramesInv'
<1>1. (rdma # 0 => data[rx.bufs_in_use[RDH]] = rdma)'
  BY DEF FramesInv
<1>3. (\A k \in DOMAIN wire : Arrived(wire[k]))'
  BY DEF FramesInv, Arrived
<1>4. ASSUME NEW p \in Packets, NEW r \in Nat, At(p, r)'
      PROVE  (Arrived(data[p]) /\ \A k \in DOMAIN wire : wire[k] < data[p])'
  <2>1. g[r] \in Nat /\ At(p, g[r])
    BY <1>4
  <2> QED
    BY <2>1 DEF FramesInv, Arrived
<1>5. ASSUME NEW p \in Packets, NEW q \in Packets, NEW r \in Nat, NEW s \in Nat,
             At(p, r)', At(q, s)', r < s
      PROVE  data'[p] < data'[q]
  <2>1. g[r] \in Nat /\ g[s] \in Nat /\ g[r] < g[s] /\ At(p, g[r]) /\ At(q, g[s])
    BY <1>5
  <2> QED
    BY <2>1 DEF FramesInv
<1>6. InOrder'
  BY DEF FramesInv, InOrder
<1> QED
  BY <1>1, <1>3, <1>4, <1>5, <1>6 DEF FramesInv

\* A step that leaves the line alone.
LEMMA LineStays ==
  ASSUME RingInv, FramesInv,
         UNCHANGED <<data, wire, arrived, rdma, link, RDH, TDH, tx.bufs_in_use,
                     tx.clean_index, rx.bufs_in_use, rx.rx_index>>
  PROVE  FramesInv'
<1> DEFINE g == [r \in Nat |-> r]
<1>1. g \in [Nat -> Nat] /\ \A r, s \in Nat : r < s => g[r] < g[s]
  OBVIOUS
<1>2. ASSUME NEW p \in Packets, NEW r \in Nat, At(p, r)' PROVE At(p, g[r])
  BY <1>2 DEF At, Submitted, Received, TxDist, RxDist
<1> HIDE DEF g
<1> QED
  BY <1>1, <1>2, LineMoves

LEMMA FrameTypes ==
  ASSUME RingInv
  PROVE  /\ data \in [Packets -> 0 .. MaxFrames] /\ arrived \in Nat /\ rdma \in {0, arrived}
         /\ wire \in Seq(0 .. MaxFrames) /\ \A k \in DOMAIN wire : wire[k] \in 0 .. MaxFrames
         /\ RDH \in RxRing /\ TDH \in TxRing
         /\ rx.bufs_in_use \in [RxRing -> Packets] /\ rx.bufs_in_use[RDH] \in Packets
         /\ tx.bufs_in_use \in Seq(Packets) /\ link \in Seq(Packets) /\ Typed
<1>1. Typed /\ arrived \in 0 .. MaxFrames
  BY DEF RingInv, Typed
<1>2. /\ data \in [Packets -> 0 .. MaxFrames] /\ rdma \in {0, arrived}
      /\ wire \in Seq(0 .. MaxFrames) /\ RDH \in RxRing /\ TDH \in TxRing
      /\ link \in Seq(Packets)
  BY <1>1 DEF Typed
<1>3. arrived \in Nat
  BY <1>1, Sizes
<1>4. rx.bufs_in_use \in [RxRing -> Packets] /\ tx.bufs_in_use \in Seq(Packets)
  BY <1>1, Fields
<1>5. \A k \in DOMAIN wire : wire[k] \in 0 .. MaxFrames
  <2> DEFINE F == 0 .. MaxFrames
  <2>1. wire \in Seq(F)
    BY <1>2
  <2> HIDE DEF F
  <2>2. \A k \in DOMAIN wire : wire[k] \in F
    BY <2>1
  <2> QED
    BY <2>2 DEF F
<1> QED
  BY <1>1, <1>2, <1>3, <1>4, <1>5

LEMMA HwReceiveFramesInv ==
  ASSUME RingInv, FramesInv, HwReceive
  PROVE  FramesInv'
<1> DEFINE x == rx.bufs_in_use[RDH]
<1>1. /\ arrived < MaxFrames /\ rdma = 0 /\ RDH # RDT
      /\ arrived' = arrived + 1 /\ rdma' = arrived + 1
      /\ data' = [data EXCEPT ![rx.descriptors[RDH].addr] = arrived + 1]
      /\ UNCHANGED <<link, rx, tx, RDH, TDH, wire>>
  BY DEF HwReceive, driver
<1>2. /\ RDH \in RxRing /\ x \in Packets /\ data \in [Packets -> 0 .. MaxFrames]
      /\ arrived \in Nat /\ tx.bufs_in_use \in Seq(Packets) /\ link \in Seq(Packets)
      /\ rx.bufs_in_use \in [RxRing -> Packets] /\ Typed
  BY FrameTypes
<1>3. data' = [data EXCEPT ![x] = arrived + 1]
  BY <1>1, <1>2 DEF RingInv, RxInv
<1>4. ASSUME NEW p \in Packets, NEW r \in Nat, At(p, r)' PROVE At(p, r)
  BY <1>1, <1>4 DEF At, Submitted, Received, TxDist, RxDist
<1>5. ASSUME NEW p \in Packets, NEW r \in Nat, At(p, r) PROVE p # x
  <2>1. CASE r \in Submitted /\ p = tx.bufs_in_use[r]
    <3>1. p \in OnTx /\ x \in OnRx
      BY <1>2, <2>1 DEF OnTx, OnRx, ToSet, Submitted
    <3> QED
      BY <3>1 DEF RingInv, Owners
  <2>2. CASE \E k \in DOMAIN link : p = link[k]
    <3>1. p \in ToSet(link) /\ x \in OnRx
      BY <1>2, <2>2 DEF OnRx, ToSet
    <3> QED
      BY <3>1 DEF RingInv, Owners
  <2>3. CASE \E i \in Received : p = rx.bufs_in_use[i]
    <3>1. PICK i \in Received : p = rx.bufs_in_use[i]
      BY <2>3
    <3>2. i \in RxRing /\ i # RDH
      BY <1>2, RxDists DEF Received
    <3> QED
      BY <1>2, <3>1, <3>2 DEF RingInv, Owners, IsInjective
  <2> QED
    BY <1>5, <2>1, <2>2, <2>3 DEF At
<1>6. ASSUME NEW p \in Packets, NEW r \in Nat, At(p, r)' PROVE data'[p] = data[p] /\ data[p] \in Int
  BY <1>2, <1>3, <1>4, <1>5, <1>6
<1>7. (rdma # 0 => data[rx.bufs_in_use[RDH]] = rdma)'
  BY <1>1, <1>2, <1>3
<1>8. (\A k \in DOMAIN wire : Arrived(wire[k]))'
  <2> SUFFICES ASSUME NEW k \in DOMAIN wire PROVE Arrived(wire[k])'
    BY <1>1
  <2>1. wire[k] \in Int /\ 0 < wire[k] /\ wire[k] <= arrived
    BY FrameTypes DEF FramesInv, Arrived
  <2> DEFINE w == wire[k]
  <2>2. w \in Int /\ 0 < w /\ w <= arrived
    BY <2>1
  <2> HIDE DEF w
  <2>3. 0 < w /\ w <= arrived + 1 /\ w < arrived + 1
    BY <1>2, <2>2
  <2> QED
    BY <1>1, <2>3 DEF Arrived, w
<1>9. ASSUME NEW p \in Packets, NEW r \in Nat, At(p, r)'
      PROVE  (Arrived(data[p]) /\ \A k \in DOMAIN wire : wire[k] < data[p])'
  <2> DEFINE f == data[p]
  <2>1. f \in Int /\ data'[p] = f
    BY <1>6, <1>9
  <2>2. 0 < f /\ f <= arrived /\ \A k \in DOMAIN wire : wire[k] < f
    BY <1>4, <1>9 DEF FramesInv, Arrived
  <2> HIDE DEF f
  <2>3. f <= arrived + 1 /\ f < arrived + 1
    BY <1>2, <2>1, <2>2
  <2> QED
    BY <1>1, <2>1, <2>2, <2>3 DEF Arrived
<1>10. ASSUME NEW p \in Packets, NEW q \in Packets, NEW r \in Nat, NEW s \in Nat,
              At(p, r)', At(q, s)', r < s
       PROVE  data'[p] < data'[q]
  BY <1>4, <1>6, <1>10 DEF FramesInv
<1>11. InOrder'
  BY <1>1 DEF FramesInv, InOrder
<1> QED
  BY <1>7, <1>8, <1>9, <1>10, <1>11 DEF FramesInv

LEMMA HwMissFramesInv ==
  ASSUME RingInv, FramesInv, HwMiss
  PROVE  FramesInv'
<1>1. /\ rdma = 0 /\ arrived' = arrived + 1
      /\ UNCHANGED <<link, rx, tx, data, RDH, TDH, rdma, wire>>
  BY DEF HwMiss, driver
<1>2. data \in [Packets -> 0 .. MaxFrames] /\ arrived \in Nat
  BY FrameTypes
<1>3. ASSUME NEW p \in Packets, NEW r \in Nat, At(p, r)' PROVE At(p, r)
  BY <1>1, <1>3 DEF At, Submitted, Received, TxDist, RxDist
<1>5. (\A k \in DOMAIN wire : Arrived(wire[k]))'
  <2> SUFFICES ASSUME NEW k \in DOMAIN wire PROVE Arrived(wire[k])'
    BY <1>1
  <2>1. wire[k] \in 0 .. MaxFrames /\ Arrived(wire[k])
    BY FrameTypes DEF FramesInv
  <2> QED
    BY <1>1, <1>2, <2>1 DEF Arrived
<1>6. ASSUME NEW p \in Packets, NEW r \in Nat, At(p, r)'
      PROVE  (Arrived(data[p]) /\ \A k \in DOMAIN wire : wire[k] < data[p])'
  <2>1. /\ data[p] \in 0 .. MaxFrames /\ Arrived(data[p])
        /\ \A k \in DOMAIN wire : wire[k] < data[p]
    BY <1>2, <1>3, <1>6 DEF FramesInv
  <2> QED
    BY <1>1, <1>2, <2>1 DEF Arrived
<1>7. ASSUME NEW p \in Packets, NEW q \in Packets, NEW r \in Nat, NEW s \in Nat,
             At(p, r)', At(q, s)', r < s
      PROVE  data'[p] < data'[q]
  BY <1>1, <1>3, <1>7 DEF FramesInv
<1>8. InOrder' /\ (rdma # 0 => data[rx.bufs_in_use[RDH]] = rdma)'
  BY <1>1 DEF FramesInv, InOrder
<1> QED
  BY <1>5, <1>6, <1>7, <1>8 DEF FramesInv

\* The frame sent was the first in line.
LEMMA HwTransmitFramesInv ==
  ASSUME RingInv, FramesInv, HwTransmit
  PROVE  FramesInv'
<1> DEFINE t == TxDist(TDH) + 1
           x == tx.bufs_in_use[t]
           n == Len(wire)
<1>1. /\ wire' = Append(wire, data[tx.descriptors[TDH].addr])
      /\ UNCHANGED <<link, rx, tx, data, RDH, rdma, arrived>>
  BY DEF HwTransmit, driver
<1>2. /\ data \in [Packets -> 0 .. MaxFrames] /\ wire \in Seq(0 .. MaxFrames)
      /\ TDH \in TxRing /\ tx.bufs_in_use \in Seq(Packets) /\ Typed
  BY FrameTypes
<1>3. /\ TxDist(TDH)' = TxDist(TDH) + 1 /\ TxDist(TDH) < TxDist(tx.tx_index) /\ RingInv'
      /\ TxDist(TDH) \in Nat
  BY <1>2, TxDists, HwTransmitRingInv
<1>4. x \in Packets /\ t \in Nat /\ At(x, t) /\ wire' = Append(wire, data[x])
  <2>1. t \in DOMAIN tx.bufs_in_use /\ tx.descriptors[TDH].addr = x
    BY <1>2, <1>3, SubmittedPacket
  <2>2. t \in Submitted
    BY <1>3, <2>1 DEF Submitted
  <2> QED
    BY <1>1, <1>2, <2>1, <2>2 DEF At
<1>5. ASSUME NEW p \in Packets, NEW r \in Nat, At(p, r)' PROVE At(p, r) /\ t < r
  <2>1. At(p, r)
    <3>1. ASSUME NEW k \in Submitted' PROVE k \in Submitted
      <4>1. k \in DOMAIN tx.bufs_in_use /\ TxDist(TDH)' < k
        BY <1>1, <3>1 DEF Submitted
      <4> QED
        BY <1>2, <1>3, <4>1 DEF Submitted
    <3>2. Received' = Received /\ \A i \in RxRing : RxDist(i)' = RxDist(i)
      BY <1>1 DEF Received, RxDist
    <3> QED
      BY <1>1, <1>5, <3>1, <3>2 DEF At, Received
  <2>2. t < r
    <3>1. CASE r \in Submitted'
      BY <1>3, <3>1 DEF Submitted
    <3>2. CASE r \notin Submitted'
      <4> DEFINE b == Len(tx.bufs_in_use)
      <4>1. b < r
        <5>1. b \in Nat /\ Len(link) \in Nat /\ DOMAIN link = 1 .. Len(link)
          BY <1>2
        <5>2. CASE \E k \in DOMAIN link : r = b + k
          BY <5>1, <5>2
        <5>3. CASE \E i \in Received : r = b + Len(link) + RxDist(i) + 1
          <6>1. PICK i \in Received : r = b + Len(link) + RxDist(i) + 1
            BY <5>3
          <6>2. RxDist(i) \in Nat
            BY <1>2, RxDists DEF Received
          <6> QED
            BY <5>1, <6>1, <6>2
        <5> QED
          BY <1>1, <1>5, <3>2, <5>2, <5>3 DEF At, Received, RxDist
      <4>2. t <= b /\ b \in Nat
        BY <1>2, <1>3 DEF RingInv, TxInv
      <4> QED
        BY <1>3, <4>1, <4>2
    <3> QED
      BY <3>1, <3>2
  <2> QED
    BY <2>1, <2>2
<1>6. Arrived(data[x]) /\ \A k \in DOMAIN wire : wire[k] < data[x]
  BY <1>4 DEF FramesInv
<1>7. /\ n \in Nat /\ DOMAIN wire = 1 .. n /\ DOMAIN wire' = 1 .. n + 1
      /\ \A k \in 1 .. n : wire'[k] = wire[k]
      /\ wire'[n + 1] = data[x]
  BY <1>2, <1>4
<1> HIDE DEF x, t, n
<1>8. \A k \in DOMAIN wire' : k \in DOMAIN wire \/ k = n + 1
  BY <1>7
<1>9. (\A k \in DOMAIN wire : Arrived(wire[k]))'
  BY <1>1, <1>6, <1>7, <1>8 DEF FramesInv, Arrived
<1>10. ASSUME NEW p \in Packets, NEW r \in Nat, At(p, r)'
       PROVE  (Arrived(data[p]) /\ \A k \in DOMAIN wire : wire[k] < data[p])'
  <2>1. At(p, r) /\ At(x, t) /\ t < r
    BY <1>4, <1>5, <1>10
  <2>2. data[x] < data[p] /\ Arrived(data[p]) /\ \A k \in DOMAIN wire : wire[k] < data[p]
    BY <1>4, <2>1 DEF FramesInv
  <2> QED
    BY <1>1, <1>7, <1>8, <2>2 DEF Arrived
<1>11. ASSUME NEW p \in Packets, NEW q \in Packets, NEW r \in Nat, NEW s \in Nat,
              At(p, r)', At(q, s)', r < s
       PROVE  data'[p] < data'[q]
  BY <1>1, <1>5, <1>11 DEF FramesInv
<1>12. InOrder'
  <2> SUFFICES ASSUME NEW i \in DOMAIN wire', NEW j \in DOMAIN wire', i < j
               PROVE  0 < wire'[i] /\ wire'[i] < wire'[j]
    BY DEF InOrder
  <2>1. i \in DOMAIN wire
    BY <1>7, <1>8
  <2>2. 0 < wire[i] /\ wire'[i] = wire[i]
    BY <1>7, <2>1 DEF FramesInv, Arrived
  <2>3. wire[i] < wire'[j]
    BY <1>6, <1>7, <1>8, <2>1 DEF FramesInv, InOrder
  <2> QED
    BY <2>2, <2>3
<1>13. (rdma # 0 => data[rx.bufs_in_use[RDH]] = rdma)'
  BY <1>1 DEF FramesInv
<1> QED
  BY <1>9, <1>10, <1>11, <1>12, <1>13 DEF FramesInv

\* The frame received is the last in line.
LEMMA HwReceivedFramesInv ==
  ASSUME RingInv, FramesInv, HwReceived
  PROVE  FramesInv'
<1> DEFINE x == rx.bufs_in_use[RDH]
           d == RxDist(RDH)
           b == Len(tx.bufs_in_use)
           l == Len(link)
           m == b + l + d + 1
<1>1. rdma # 0 /\ rdma' = 0 /\ UNCHANGED <<data, link, tx, TDH, arrived, wire>>
  BY DEF HwReceived
<1>2. /\ RDH \in RxRing /\ x \in Packets /\ data \in [Packets -> 0 .. MaxFrames]
      /\ rdma = arrived /\ arrived \in Nat /\ Typed
      /\ \A k \in DOMAIN wire : wire[k] \in 0 .. MaxFrames
      /\ tx.bufs_in_use \in Seq(Packets) /\ link \in Seq(Packets)
  BY <1>1, FrameTypes
<1>3. rx'.bufs_in_use = rx.bufs_in_use /\ RxDist(RDH)' = d + 1 /\ rx'.rx_index = rx.rx_index
  BY HwReceivedRingInv
<1>4. /\ \A i \in RxRing : RxDist(i)' = RxDist(i) /\ RxDist(i) \in Nat
      /\ b \in Nat /\ l \in Nat /\ d \in Nat /\ DOMAIN link = 1 .. l
      /\ DOMAIN tx.bufs_in_use = 1 .. b
  BY <1>2, <1>3, RxDists DEF RxDist
<1>5. ASSUME NEW i \in Received' PROVE i \in Received \/ i = RDH
  <2>1. i \in RxRing /\ RxDist(i) < d + 1
    BY <1>3, <1>4 DEF Received
  <2>2. RxDist(i) < d \/ RxDist(i) = d
    BY <1>4, <2>1
  <2> QED
    BY <1>2, <2>1, <2>2, RxDists DEF Received
<1>6. ASSUME NEW p \in Packets, NEW r \in Nat, At(p, r)'
      PROVE  At(p, r) \/ (p = x /\ r = m)
  <2>1. CASE r \in Submitted' /\ p = tx'.bufs_in_use[r]
    BY <1>1, <2>1 DEF At, Submitted, TxDist
  <2>2. CASE \E k \in DOMAIN link' : r = Len(tx'.bufs_in_use) + k /\ p = link'[k]
    BY <1>1, <2>2 DEF At
  <2>3. CASE \E i \in Received' : r = b + l + RxDist(i)' + 1 /\ p = rx'.bufs_in_use[i]
    <3>1. PICK i \in Received' : r = b + l + RxDist(i)' + 1 /\ p = rx'.bufs_in_use[i]
      BY <2>3
    <3>2. i \in RxRing
      BY <3>1 DEF Received
    <3>3. r = b + l + RxDist(i) + 1 /\ p = rx.bufs_in_use[i]
      BY <1>3, <1>4, <3>1, <3>2
    <3> QED
      BY <1>5, <3>3 DEF At
  <2> QED
    BY <1>1, <1>6, <2>1, <2>2, <2>3 DEF At
<1>7. ASSUME NEW p \in Packets, NEW r \in Nat, At(p, r) PROVE r < m
  <2> HIDE DEF b, l, d
  <2>1. CASE r \in Submitted
    BY <1>4, <2>1 DEF Submitted
  <2>2. CASE \E k \in DOMAIN link : r = b + k
    BY <1>4, <2>2
  <2>3. CASE \E i \in Received : r = b + l + RxDist(i) + 1
    <3>1. PICK i \in Received : r = b + l + RxDist(i) + 1
      BY <2>3
    <3>2. RxDist(i) \in Nat /\ RxDist(i) < d
      BY <1>4 DEF Received, d
    <3> QED
      BY <1>4, <3>1, <3>2
  <2> QED
    BY <1>7, <2>1, <2>2, <2>3 DEF At, b, l
<1>8. m \in Nat /\ data[x] = rdma
  BY <1>1, <1>4 DEF FramesInv
<1> HIDE DEF m, x
<1>9. ASSUME NEW p \in Packets, NEW r \in Nat, At(p, r)
      PROVE  data[p] < rdma /\ 0 < data[p] /\ data[p] <= arrived
  BY <1>1, <1>9 DEF FramesInv, Arrived
<1>10. \A k \in DOMAIN wire : 0 < wire[k] /\ wire[k] <= arrived /\ wire[k] < rdma
  BY <1>1 DEF FramesInv, Arrived
<1>11. ASSUME NEW p \in Packets, NEW r \in Nat, At(p, r)'
       PROVE  (Arrived(data[p]) /\ \A k \in DOMAIN wire : wire[k] < data[p])'
  <2>1. CASE At(p, r)
    <3>1. \A k \in DOMAIN wire : wire[k] < data[p]
      BY <2>1 DEF FramesInv
    <3> QED
      BY <1>1, <1>9, <2>1, <3>1 DEF Arrived
  <2>2. CASE p = x
    BY <1>1, <1>2, <1>8, <1>10, <2>2 DEF Arrived
  <2> QED
    BY <1>6, <1>11, <2>1, <2>2
<1>12. ASSUME NEW p \in Packets, NEW q \in Packets, NEW r \in Nat, NEW s \in Nat,
              At(p, r)', At(q, s)', r < s
       PROVE  data'[p] < data'[q]
  <2>1. CASE At(p, r) /\ At(q, s)
    BY <1>1, <1>12, <2>1 DEF FramesInv
  <2>2. CASE At(p, r) /\ q = x
    BY <1>1, <1>8, <1>9, <2>2
  <2>3. CASE r = m
    <3>1. s < m \/ s = m
      BY <1>6, <1>7, <1>12
    <3> QED
      BY <1>8, <1>12, <2>3, <3>1
  <2> QED
    BY <1>6, <1>12, <2>1, <2>2, <2>3
<1>13. InOrder' /\ (rdma # 0 => data[rx.bufs_in_use[RDH]] = rdma)'
  BY <1>1 DEF FramesInv, InOrder
<1>14. (\A k \in DOMAIN wire : Arrived(wire[k]))'
  BY <1>1, <1>10 DEF Arrived
<1> QED
  BY <1>11, <1>12, <1>13, <1>14 DEF FramesInv

\* A batch is taken from what was sent, before the line.
LEMMA CleanBatchFramesInv ==
  ASSUME RingInv, FramesInv, CleanBatch
  PROVE  FramesInv'
<1> DEFINE c == TX_CLEAN_BATCH
           g == [r \in Nat |-> r + c]
           b == Len(tx.bufs_in_use)
           l == Len(link)
<1>1. UNCHANGED <<data, link, rx, RDH, TDH, rdma, arrived, wire>>
  BY DEF CleanBatch, hardware
<1>2. /\ Len(tx'.bufs_in_use) = b - c
      /\ \A k \in 1 .. b - c : tx'.bufs_in_use[k] = tx.bufs_in_use[c + k]
      /\ TxDist(TDH)' = TxDist(TDH) - c /\ tx'.bufs_in_use \in Seq(Packets)
  BY CleanBatchTx DEF TxQueue
<1>3. /\ c \in Nat /\ b \in Nat /\ l \in Nat /\ TxDist(TDH) \in Nat
      /\ DOMAIN tx.bufs_in_use = 1 .. b /\ DOMAIN link = 1 .. l
      /\ \A i \in RxRing : RxDist(i) \in Nat /\ RxDist(i)' = RxDist(i)
      /\ Received' = Received
  <2>1. c \in Nat /\ b \in Nat /\ l \in Nat /\ TDH \in TxRing /\ Typed
    BY FrameTypes, Sizes
  <2>2. \A i \in RxRing : RxDist(i) \in Nat /\ RxDist(i)' = RxDist(i)
    BY <1>1, <2>1, RxDists DEF RxDist
  <2>3. Received' = Received
    BY <1>1 DEF Received, RxDist
  <2>4. TxDist(TDH) \in Nat
    BY <2>1, TxDists
  <2>5. DOMAIN tx.bufs_in_use = 1 .. b /\ DOMAIN link = 1 .. l
    BY FrameTypes
  <2> QED
    BY <2>1, <2>2, <2>3, <2>4, <2>5
<1>4. g \in [Nat -> Nat] /\ \A r, s \in Nat : r < s => g[r] < g[s]
  BY <1>3
<1>5. ASSUME NEW p \in Packets, NEW r \in Nat, At(p, r)' PROVE At(p, r + c)
  <2>1. CASE r \in Submitted' /\ p = tx'.bufs_in_use[r]
    <3>1. r \in 1 .. b - c /\ TxDist(TDH) - c < r
      BY <1>2, <2>1 DEF Submitted
    <3>2. r + c \in 1 .. b /\ TxDist(TDH) < r + c /\ c + r = r + c
      BY <1>3, <3>1
    <3> QED
      BY <1>2, <1>3, <2>1, <3>1, <3>2 DEF At, Submitted
  <2>2. CASE \E k \in DOMAIN link : r = b - c + k /\ p = link[k]
    <3>1. PICK k \in DOMAIN link : r = b - c + k /\ p = link[k]
      BY <2>2
    <3>2. r + c = b + k
      BY <1>3, <3>1
    <3> QED
      BY <3>1, <3>2 DEF At
  <2>3. CASE \E i \in Received : r = b - c + l + RxDist(i) + 1 /\ p = rx.bufs_in_use[i]
    <3>1. PICK i \in Received : r = b - c + l + RxDist(i) + 1 /\ p = rx.bufs_in_use[i]
      BY <2>3
    <3>2. RxDist(i) \in Nat
      BY <1>3 DEF Received
    <3>3. r + c = b + l + RxDist(i) + 1
      BY <1>3, <3>1, <3>2, SMTT(30)
    <3> QED
      BY <3>1, <3>3 DEF At
  <2>4. \A i \in Received : RxDist(i)' = RxDist(i)
    BY <1>3 DEF Received
  <2> QED
    BY <1>1, <1>2, <1>3, <1>5, <2>1, <2>2, <2>3, <2>4 DEF At
<1>6. \A p \in Packets, r \in Nat : At(p, r)' => At(p, g[r])
  BY <1>5
<1> HIDE DEF g
<1> QED
  BY <1>1, <1>4, <1>6, LineMoves

\* The first on the link becomes the last of those submitted.
LEMMA TxPacketFramesInv ==
  ASSUME RingInv, FramesInv, TxPacket
  PROVE  FramesInv'
<1> DEFINE g == [r \in Nat |-> r]
           b == Len(tx.bufs_in_use)
           l == Len(link)
<1>1. /\ link' = Tail(link) /\ link # <<>>
      /\ UNCHANGED <<data, rx, RDH, TDH, rdma, arrived, wire>>
  BY DEF TxPacket, hardware
<1>2. tx'.bufs_in_use = Append(tx.bufs_in_use, Head(link)) /\ TxDist(TDH)' = TxDist(TDH)
  BY TxPacketTx
<1>3. b \in Nat /\ l \in Nat /\ DOMAIN tx.bufs_in_use = 1 .. b /\ DOMAIN link = 1 .. l
  BY FrameTypes
<1>4. /\ Len(link') = l - 1 /\ DOMAIN link' = 1 .. l - 1 /\ 1 \in DOMAIN link
      /\ \A k \in 1 .. l - 1 : link'[k] = link[k + 1]
      /\ Head(link) = link[1] /\ Head(link) \in Packets
  BY <1>1, FrameTypes, HeadTailProperties
<1>5. /\ Len(tx'.bufs_in_use) = b + 1 /\ DOMAIN tx'.bufs_in_use = 1 .. b + 1
      /\ \A k \in 1 .. b : tx'.bufs_in_use[k] = tx.bufs_in_use[k]
      /\ tx'.bufs_in_use[b + 1] = link[1]
  BY <1>2, <1>4, FrameTypes
<1>6. /\ \A i \in RxRing : RxDist(i) \in Nat /\ RxDist(i)' = RxDist(i)
      /\ Received' = Received
  <2>1. \A i \in RxRing : RxDist(i) \in Nat
    BY FrameTypes, RxDists
  <2> QED
    BY <1>1, <2>1 DEF RxDist, Received
<1>7. g \in [Nat -> Nat] /\ \A r, s \in Nat : r < s => g[r] < g[s]
  OBVIOUS
<1>8. ASSUME NEW p \in Packets, NEW r \in Nat, At(p, r)' PROVE At(p, r)
  <2>1. CASE r \in Submitted' /\ p = tx'.bufs_in_use[r]
    <3>1. r \in 1 .. b + 1 /\ TxDist(TDH) < r
      BY <1>2, <1>5, <2>1 DEF Submitted
    <3>2. CASE r = b + 1
      BY <1>4, <1>5, <2>1, <3>2 DEF At
    <3>3. CASE r # b + 1
      <4>1. r \in 1 .. b
        BY <1>3, <3>1, <3>3
      <4> QED
        BY <1>3, <1>5, <2>1, <3>1, <4>1 DEF At, Submitted
    <3> QED
      BY <3>2, <3>3
  <2>2. CASE \E k \in DOMAIN link' : r = b + 1 + k /\ p = link'[k]
    <3>1. PICK k \in DOMAIN link' : r = b + 1 + k /\ p = link'[k]
      BY <2>2
    <3>2. k \in 1 .. l - 1
      BY <1>4, <3>1
    <3>3. k + 1 \in 1 .. l /\ r = b + (k + 1)
      <4> HIDE DEF b, l
      <4> QED
        BY <1>3, <3>1, <3>2
    <3>4. p = link[k + 1]
      BY <1>4, <3>1, <3>2
    <3> QED
      BY <1>3, <3>3, <3>4 DEF At
  <2>3. CASE \E i \in Received : r = b + 1 + (l - 1) + RxDist(i) + 1 /\ p = rx.bufs_in_use[i]
    <3>1. PICK i \in Received : r = b + 1 + (l - 1) + RxDist(i) + 1 /\ p = rx.bufs_in_use[i]
      BY <2>3
    <3>2. RxDist(i) \in Nat
      BY <1>6 DEF Received
    <3>3. r = b + l + RxDist(i) + 1
      BY <1>3, <3>1, <3>2
    <3> QED
      BY <3>1, <3>3 DEF At
  <2>4. \A i \in Received : RxDist(i)' = RxDist(i)
    BY <1>6 DEF Received
  <2> QED
    BY <1>1, <1>4, <1>5, <1>6, <1>8, <2>1, <2>2, <2>3, <2>4 DEF At
<1>9. \A p \in Packets, r \in Nat : At(p, r)' => At(p, g[r])
  BY <1>8
<1> HIDE DEF g
<1> QED
  BY <1>1, <1>7, <1>9, LineMoves

\* The first received becomes the last on the link, or is dropped.
LEMMA RxPassFramesInv ==
  ASSUME RingInv, FramesInv, RxPass
  PROVE  FramesInv'
<1> DEFINE i0 == rx.rx_index
           b == Len(tx.bufs_in_use)
           l == Len(link)
           full == l = LINK_MAX_PACKETS
           g == [r \in Nat |-> IF full /\ b + l < r THEN r + 1 ELSE r]
<1>1. UNCHANGED <<data, tx, RDH, TDH, rdma, arrived, wire>>
  BY DEF RxPass, hardware
<1>2. link' = IF full THEN link ELSE Append(link, rx.bufs_in_use[i0])
  BY DEF RxPass, TransmitLink
<1>3. /\ rx'.bufs_in_use = [rx.bufs_in_use EXCEPT ![i0] = Last(freelist)]
      /\ \A i \in RxRing :
           RxDist(i)' = IF i = i0 THEN NUM_RX_QUEUE_ENTRIES - 1 ELSE RxDist(i) - 1
      /\ 0 < RxDist(RDH) /\ RxDist(RDH)' = RxDist(RDH) - 1
  BY RxPassRx
<1>4. /\ b \in Nat /\ l \in Nat /\ DOMAIN tx.bufs_in_use = 1 .. b /\ DOMAIN link = 1 .. l
      /\ rx.bufs_in_use \in [RxRing -> Packets] /\ RDH \in RxRing /\ Typed /\ i0 \in RxRing
  BY FrameTypes, Fields
<1>5. /\ \A i \in RxRing : RxDist(i) \in 0 .. NUM_RX_QUEUE_ENTRIES - 1
      /\ RxDist(i0) = 0 /\ i0 # RDH /\ RxDist(RDH) \in Nat
  <2>1. \A i \in RxRing : RxDist(i) \in 0 .. NUM_RX_QUEUE_ENTRIES - 1
    BY <1>4, RxDists
  <2>2. RxDist(i0) = 0
    BY <1>4, RxDists
  <2>3. RxDist(RDH) \in Nat
    BY <1>4, <2>1
  <2> QED
    BY <1>3, <2>1, <2>2, <2>3
<1>6. i0 \in Received
  BY <1>3, <1>4, <1>5 DEF Received
<1>7. ASSUME NEW i \in Received'
      PROVE  i \in Received /\ i # i0 /\ RxDist(i)' = RxDist(i) - 1
  <2>1. i \in RxRing /\ RxDist(i)' < RxDist(RDH) - 1
    BY <1>3, <1>7 DEF Received
  <2>2. RxDist(i) \in 0 .. NUM_RX_QUEUE_ENTRIES - 1 /\ RxDist(RDH) \in 0 .. NUM_RX_QUEUE_ENTRIES - 1
    BY <1>4, <1>5, <2>1
  <2>3. i # i0
    BY <1>3, <2>1, <2>2, Sizes
  <2>4. RxDist(i)' = RxDist(i) - 1
    BY <1>3, <2>1, <2>3
  <2>5. RxDist(i) < RxDist(RDH)
    BY <2>1, <2>2, <2>4
  <2> QED
    BY <2>1, <2>3, <2>4, <2>5 DEF Received
<1>8. g \in [Nat -> Nat] /\ \A r, s \in Nat : r < s => g[r] < g[s]
  <2> HIDE DEF full, b, l
  <2>1. g \in [Nat -> Nat]
    OBVIOUS
  <2>2. ASSUME NEW r \in Nat, NEW s \in Nat, r < s PROVE g[r] < g[s]
    BY <1>4, <2>2
  <2> QED
    BY <2>1, <2>2
<1>9. ASSUME NEW p \in Packets, NEW r \in Nat, At(p, r)' PROVE At(p, g[r])
  <2> DEFINE m == Len(link')
  <2>1. /\ DOMAIN link' = 1 .. m /\ m = (IF full THEN l ELSE l + 1)
        /\ \A k \in 1 .. l : link'[k] = link[k]
        /\ ~full => link'[l + 1] = rx.bufs_in_use[i0]
    BY <1>2, <1>4, FrameTypes
  <2>2. CASE r \in Submitted' /\ p = tx'.bufs_in_use[r]
    <3>1. r \in Submitted /\ p = tx.bufs_in_use[r]
      BY <1>1, <2>2 DEF Submitted, TxDist
    <3>2. g[r] = r
      BY <1>4, <3>1 DEF Submitted
    <3> QED
      BY <3>1, <3>2 DEF At
  <2>3. CASE \E k \in DOMAIN link' : r = b + k /\ p = link'[k]
    <3>1. PICK k \in DOMAIN link' : r = b + k /\ p = link'[k]
      BY <2>3
    <3>2. CASE k \in 1 .. l
      <4>1. g[r] = r
        BY <1>4, <3>1, <3>2
      <4> QED
        BY <1>4, <2>1, <3>1, <3>2, <4>1 DEF At
    <3>3. CASE k \notin 1 .. l
      <4>1. ~full /\ k = l + 1
        BY <1>4, <2>1, <3>1, <3>3
      <4>2. g[r] = r /\ p = rx.bufs_in_use[i0]
        BY <2>1, <3>1, <4>1
      <4>3. r = b + l + RxDist(i0) + 1
        <5>1. r = b + (l + 1) /\ RxDist(i0) = 0
          BY <1>5, <3>1, <4>1
        <5> HIDE DEF b, l, i0
        <5> QED
          BY <1>4, <5>1
      <4> QED
        BY <1>6, <4>2, <4>3 DEF At
    <3> QED
      BY <3>2, <3>3
  <2>4. CASE \E i \in Received' : r = b + m + RxDist(i)' + 1 /\ p = rx'.bufs_in_use[i]
    <3>1. PICK i \in Received' : r = b + m + RxDist(i)' + 1 /\ p = rx'.bufs_in_use[i]
      BY <2>4
    <3>2. /\ i \in Received /\ i # i0 /\ RxDist(i)' = RxDist(i) - 1 /\ i \in RxRing
          /\ RxDist(i) \in Nat /\ 0 < RxDist(i)
      <4>1. i \in Received /\ i # i0 /\ RxDist(i)' = RxDist(i) - 1 /\ i \in RxRing
        BY <1>7 DEF Received
      <4>2. RxDist(i) \in 0 .. NUM_RX_QUEUE_ENTRIES - 1
        BY <1>5, <4>1
      <4>3. RxDist(i) # 0
        BY <1>4, <4>1, RxDists
      <4> QED
        BY <4>1, <4>2, <4>3
    <3>3. p = rx.bufs_in_use[i]
      BY <1>3, <1>4, <3>1, <3>2
    <3> DEFINE e == RxDist(i)
    <3>4. r = b + m + (e - 1) + 1 /\ e \in Nat /\ 0 < e
      BY <3>1, <3>2
    <3> HIDE DEF e, m, b, l, full
    <3>5. g[r] = b + l + e + 1
      <4>1. CASE full
        BY <1>4, <2>1, <3>4, <4>1
      <4>2. CASE ~full
        BY <1>4, <2>1, <3>4, <4>2
      <4> QED
        BY <4>1, <4>2
    <3> QED
      BY <3>2, <3>3, <3>5 DEF At, e, b, l
  <2> QED
    BY <1>1, <1>9, <2>2, <2>3, <2>4 DEF At
<1>10. \A p \in Packets, r \in Nat : At(p, r)' => At(p, g[r])
  BY <1>9
<1>11. (rx.bufs_in_use[RDH])' = rx.bufs_in_use[RDH]
  BY <1>1, <1>3, <1>4, <1>5
<1> HIDE DEF g
<1> QED
  BY <1>1, <1>8, <1>10, <1>11, LineMoves

\* Frames are sent in the order in which they arrived, none twice, none
\* overwritten by a later one while its packet was on the way.
THEOREM FramesInOrder == Spec => []InOrder
<1>1. Init => RingInv /\ FramesInv
  <2> SUFFICES ASSUME Init PROVE FramesInv
    BY InitRingInv
  <2>1. rdma = 0 /\ wire = <<>> /\ link = <<>> /\ tx.bufs_in_use = <<>> /\ RDH = rx.rx_index
    BY DEF Init
  <2>2. Received = {}
    <3>1. RxDist(RDH) = 0
      BY <2>1 DEF Init, RxDist, Dist
    <3>2. \A i \in RxRing : RxDist(i) \in Nat
      BY InitRingInv, FrameTypes, RxDists
    <3> QED
      BY <3>1, <3>2 DEF Received
  <2>3. \A p \in Packets, r \in Nat : ~At(p, r)
    BY <2>1, <2>2 DEF At, Submitted
  <2> QED
    BY <2>1, <2>3 DEF FramesInv, InOrder
<1>2. ASSUME RingInv, FramesInv, [Next]_vars
      PROVE  FramesInv'
  <2>1. CASE HwReceive
    BY <1>2, <2>1, HwReceiveFramesInv
  <2>2. CASE HwReceived
    BY <1>2, <2>2, HwReceivedFramesInv
  <2>3. CASE HwMiss
    BY <1>2, <2>3, HwMissFramesInv
  <2>4. CASE HwTransmit
    BY <1>2, <2>4, HwTransmitFramesInv
  <2>5. CASE HwTransmitted
    <3>1. /\ UNCHANGED <<tx.bufs_in_use, tx.clean_index>>
          /\ UNCHANGED <<data, wire, arrived, rdma, link, RDH, TDH, rx>>
      BY <1>2, <2>5, HwTransmittedRingInv DEF HwTransmitted
    <3> QED
      BY <1>2, <3>1, LineStays
  <2>6. CASE RxPacket
    <3>1. CASE RxPass
      BY <1>2, <3>1, RxPassFramesInv
    <3>2. CASE UNCHANGED <<data, wire, arrived, rdma, link, RDH, TDH, rx, tx>>
      BY <1>2, <3>2, LineStays
    <3> QED
      BY <1>2, <2>6, <3>1, <3>2, RxPacketCases
  <2>7. CASE CleanBatch
    BY <1>2, <2>7, CleanBatchFramesInv
  <2>8. CASE TxPacket
    BY <1>2, <2>8, TxPacketFramesInv
  <2>9. CASE RxDone \/ CleanDone \/ TxDone \/ UNCHANGED vars
    <3>1. UNCHANGED <<data, wire, arrived, rdma, link, RDH, TDH, rx, tx>>
      BY <2>9 DEF RxDone, CleanDone, TxDone, hardware, vars
    <3> QED
      BY <1>2, <3>1, LineStays
  <2> QED
    BY <1>2, <2>1, <2>2, <2>3, <2>4, <2>5, <2>6, <2>7, <2>8, <2>9 DEF Next, Driver, Sending
<1>3. FramesInv => InOrder
  BY DEF FramesInv
<1> QED
  BY <1>1, <1>2, <1>3, RingInvariant, PTL DEF Spec

=============================================================================
