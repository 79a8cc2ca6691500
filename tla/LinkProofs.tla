----------------------------- MODULE LinkProofs -----------------------------
(***************************************************************************)
(* Proofs about Link, for any number of links, any ring size and any       *)
(* freelist capacity.                                                      *)
(***************************************************************************)
EXTENDS Link, FiniteSetTheorems, SequenceTheorems, WellFoundedInduction, TLAPS

-----------------------------------------------------------------------------
(* The freelist.                                                           *)

\* The types of the freelist that its lemmas need.
FreelistTypeOK ==
  /\ list \in [Packets -> Packets \union {NULL}]
  /\ nfree \in 0 .. MAX_PACKETS

\* allocate() from a freelist that is not empty takes one packet off it.
LEMMA PopFreelist ==
  ASSUME FreelistTypeOK, FreelistInjective, nfree > 0,
         nfree' = nfree - 1, list' = list
  PROVE  /\ list[nfree - 1] \in OnFreelist
         /\ OnFreelist' = OnFreelist \ {list[nfree - 1]}
         /\ FreelistInjective'
<1> USE PacketAssumption DEF FreelistTypeOK, Packets
<1>1. list[nfree - 1] \in OnFreelist
  BY DEF OnFreelist
<1>2. OnFreelist' \subseteq OnFreelist \ {list[nfree - 1]}
  BY DEF OnFreelist, FreelistInjective
<1>3. OnFreelist \ {list[nfree - 1]} \subseteq OnFreelist'
  BY DEF OnFreelist
<1>4. FreelistInjective'
  BY DEF FreelistInjective
<1> QED BY <1>1, <1>2, <1>3, <1>4

\* free_internal() puts one packet on it.
LEMMA PushFreelist ==
  ASSUME FreelistTypeOK, FreelistInjective, nfree < MAX_PACKETS,
         NEW p \in Packets, p \notin OnFreelist,
         list' = [list EXCEPT ![nfree] = p], nfree' = nfree + 1
  PROVE  /\ OnFreelist' = OnFreelist \union {p}
         /\ FreelistInjective'
<1> USE PacketAssumption DEF FreelistTypeOK, Packets
<1>1. \A i \in 0 .. nfree - 1 : list'[i] = list[i]
  OBVIOUS
<1>2. list'[nfree] = p
  OBVIOUS
<1>3. \A i \in 0 .. nfree - 1 : list[i] # p
  BY DEF OnFreelist
<1>4. OnFreelist' = OnFreelist \union {p}
  BY <1>1, <1>2 DEF OnFreelist
<1>5. FreelistInjective'
  BY <1>1, <1>2, <1>3 DEF FreelistInjective
<1> QED BY <1>4, <1>5

\* preallocate_step() fills the empty freelist with the next packets, of
\* which allocate() takes the last.
LEMMA FillFreelist ==
  ASSUME FreelistTypeOK, nfree = 0, NEW p \in Packets, preallocate_step(p),
         PACKETS_ALLOCATED \in Nat, PACKET_ALLOCATION_STEP \in Nat \ {0}
  PROVE  /\ OnFreelist = {}
         /\ OnFreelist' = PACKETS_ALLOCATED .. (p - 1)
         /\ FreelistInjective'
         /\ PACKETS_ALLOCATED' = p + 1
         /\ PACKETS_ALLOCATED <= p
         /\ list' \in [Packets -> Packets \union {NULL}]
<1> USE PacketAssumption DEF FreelistTypeOK, Packets
<1>1. /\ \A i \in 0 .. PACKET_ALLOCATION_STEP - 1 :
            i \in Packets /\ list'[i] = PACKETS_ALLOCATED + i
      /\ nfree' = PACKET_ALLOCATION_STEP - 1
  BY DEF preallocate_step, CanPreallocate
<1>2. OnFreelist = {}
  BY DEF OnFreelist
<1>3. OnFreelist' \subseteq PACKETS_ALLOCATED .. (p - 1)
  BY <1>1 DEF OnFreelist, preallocate_step
<1>4. ASSUME NEW q \in PACKETS_ALLOCATED .. (p - 1) PROVE q \in OnFreelist'
  <2>1. q - PACKETS_ALLOCATED \in 0 .. nfree' - 1
    BY <1>1 DEF preallocate_step
  <2>2. list'[q - PACKETS_ALLOCATED] = q
    BY <1>1, <2>1
  <2> QED BY <2>1, <2>2 DEF OnFreelist
<1>5. FreelistInjective'
  BY <1>1 DEF FreelistInjective
<1>6. PACKETS_ALLOCATED' = p + 1 /\ PACKETS_ALLOCATED <= p
  BY DEF preallocate_step
<1>7. list' \in [Packets -> Packets \union {NULL}]
  BY DEF preallocate_step, CanPreallocate
<1> QED BY <1>2, <1>3, <1>4, <1>5, <1>6, <1>7

\* A freelist without duplicates that lacks some packet has room for it.
LEMMA RoomOnFreelist ==
  ASSUME FreelistTypeOK, FreelistInjective,
         OnFreelist \subseteq Packets,
         NEW p \in Packets, p \notin OnFreelist
  PROVE  nfree < MAX_PACKETS
<1> USE PacketAssumption DEF FreelistTypeOK, Packets
<1> SUFFICES ASSUME nfree = MAX_PACKETS PROVE FALSE
  OBVIOUS
<1>1. \A i \in Packets : list[i] \in Packets \ {p}
  BY DEF OnFreelist
<1>2. \A i, j \in Packets : list[i] = list[j] => i = j
  BY DEF FreelistInjective
<1>3. list \in [Packets -> Packets \ {p}]
  BY <1>1
<1>4. IsFiniteSet(Packets) /\ Cardinality(Packets) = MAX_PACKETS
  BY FS_Interval
<1> HIDE DEF Packets
<1>5. /\ IsFiniteSet(Packets \ {p})
      /\ Cardinality(Packets \ {p}) = Cardinality(Packets) - 1
  BY <1>4, FS_RemoveElement, Zenon
<1>6. Cardinality(Packets \ {p}) < Cardinality(Packets)
  BY <1>4, <1>5
<1>7. \E i, j \in Packets : i # j /\ list[i] = list[j]
  <2> DEFINE T == Packets \ {p}
  <2>1. /\ IsFiniteSet(Packets) /\ IsFiniteSet(T)
        /\ Cardinality(T) < Cardinality(Packets)
        /\ list \in [Packets -> T]
    BY <1>3, <1>4, <1>5, <1>6
  <2> HIDE DEF T
  <2> QED BY <2>1, FS_PigeonHole
<1> QED BY <1>2, <1>7

-----------------------------------------------------------------------------
(* One ring.                                                               *)

\* The cursor wraps at the last slot.
LEMMA AdvanceSlot ==
  ASSUME NEW c \in Slots
  PROVE  /\ Advance(c) \in Slots
         /\ Advance(c) = IF c = LINK_RING_SIZE - 1 THEN 0 ELSE c + 1
<1> USE LinkAssumption DEF Slots, Advance
<1>1. CASE c = LINK_RING_SIZE - 1
  <2>1. LINK_RING_SIZE % LINK_RING_SIZE = 0
    OBVIOUS
  <2> QED BY <1>1, <2>1
<1>2. CASE c # LINK_RING_SIZE - 1
  <2>1. c + 1 \in 0 .. LINK_RING_SIZE - 1
    BY <1>2
  <2>2. (c + 1) % LINK_RING_SIZE = c + 1
    BY <2>1
  <2> QED BY <1>2, <2>2
<1> QED BY <1>1, <1>2

\* receive() frees exactly the slot it reads.
LEMMA ReceiveSlots ==
  ASSUME NEW r \in LinkRecord, ~empty(r), length \in [Packets -> Nat],
         r.packets[r.read] \in Packets
  PROVE  /\ receive(r) \in LinkRecord
         /\ receive(r).packets = r.packets
         /\ r.read \in Occupied(r)
         /\ Occupied(receive(r)) = Occupied(r) \ {r.read}
<1> USE LinkAssumption
<1>1. /\ Advance(r.read) \in Slots
      /\ Advance(r.read) = IF r.read = LINK_RING_SIZE - 1 THEN 0 ELSE r.read + 1
  BY AdvanceSlot DEF LinkRecord
<1>2. /\ receive(r).packets = r.packets
      /\ receive(r).read = Advance(r.read)
      /\ receive(r).write = r.write
  BY DEF receive, LinkRecord
<1>3. receive(r) \in LinkRecord
  <2>1. r.rxpackets + 1 \in Nat /\ r.rxbytes + length[r.packets[r.read]] \in Nat
    BY DEF LinkRecord
  <2> DEFINE r1 == [r EXCEPT !.read = Advance(r.read)]
             r2 == [r1 EXCEPT !.rxpackets = r.rxpackets + 1]
             r3 == [r2 EXCEPT !.rxbytes = r.rxbytes + length[r.packets[r.read]]]
  <2>2. r1 \in LinkRecord
    BY <1>1 DEF LinkRecord
  <2>3. r2 \in LinkRecord
    <3> HIDE DEF r1
    <3> QED BY <2>1, <2>2 DEF LinkRecord
  <2>4. r3 \in LinkRecord
    <3> HIDE DEF r2
    <3> QED BY <2>1, <2>3 DEF LinkRecord
  <2>5. receive(r) = r3
    BY DEF receive, LinkRecord
  <2> QED BY <2>4, <2>5
<1>4. r.read \in Occupied(r)
  BY DEF Occupied, LinkRecord, Slots, empty
<1>5. Occupied(receive(r)) = Occupied(r) \ {r.read}
  BY <1>1, <1>2 DEF Occupied, LinkRecord, Slots, empty
<1> QED BY <1>2, <1>3, <1>4, <1>5

\* transmit() to a link that is not full uses exactly one free slot.
LEMMA EnqueueSlots ==
  ASSUME NEW r \in LinkRecord, ~full(r), length \in [Packets -> Nat],
         NEW p \in Packets
  PROVE  /\ enqueue(r, p) \in LinkRecord
         /\ enqueue(r, p).packets = [r.packets EXCEPT ![r.write] = p]
         /\ r.write \in Slots
         /\ r.write \notin Occupied(r)
         /\ Occupied(enqueue(r, p)) = Occupied(r) \union {r.write}
<1> USE LinkAssumption
<1>1. /\ Advance(r.write) \in Slots
      /\ Advance(r.write) = IF r.write = LINK_RING_SIZE - 1 THEN 0 ELSE r.write + 1
  BY AdvanceSlot DEF LinkRecord
<1>2. /\ enqueue(r, p).packets = [r.packets EXCEPT ![r.write] = p]
      /\ enqueue(r, p).read = r.read
      /\ enqueue(r, p).write = Advance(r.write)
  BY DEF enqueue, LinkRecord
<1>3. enqueue(r, p) \in LinkRecord
  <2>1. r.txpackets + 1 \in Nat /\ r.txbytes + length[p] \in Nat
    BY DEF LinkRecord
  <2>2. [r.packets EXCEPT ![r.write] = p] \in [Slots -> Packets \union {NULL}]
    BY DEF LinkRecord
  <2> DEFINE r1 == [r EXCEPT !.txpackets = r.txpackets + 1]
             r2 == [r1 EXCEPT !.txbytes = r.txbytes + length[p]]
             r3 == [r2 EXCEPT !.packets = [r.packets EXCEPT ![r.write] = p]]
             r4 == [r3 EXCEPT !.write = Advance(r.write)]
  <2>3. r1 \in LinkRecord
    BY <2>1 DEF LinkRecord
  <2>4. r2 \in LinkRecord
    <3> HIDE DEF r1
    <3> QED BY <2>1, <2>3 DEF LinkRecord
  <2>5. r3 \in LinkRecord
    <3> HIDE DEF r2
    <3> QED BY <2>2, <2>4 DEF LinkRecord
  <2>6. r4 \in LinkRecord
    <3> HIDE DEF r3
    <3> QED BY <1>1, <2>5 DEF LinkRecord
  <2>7. enqueue(r, p) = r4
    BY DEF enqueue, LinkRecord
  <2> QED BY <2>6, <2>7
<1>4. r.write \in Slots /\ r.write \notin Occupied(r)
  BY DEF Occupied, LinkRecord, Slots
<1>5. Occupied(enqueue(r, p)) = Occupied(r) \union {r.write}
  BY <1>1, <1>2 DEF Occupied, LinkRecord, Slots, full
<1> QED BY <1>2, <1>3, <1>4, <1>5

\* A new link holds nothing.
LEMMA NewSlots == new \in LinkRecord /\ Occupied(new) = {}
<1>1. new \in LinkRecord
  BY LinkAssumption DEF new, LinkRecord, Slots
<1>2. Occupied(new) = {}
  BY LinkAssumption DEF new, Occupied, Slots
<1> QED BY <1>1, <1>2

\* Refusing a packet changes no slot.
LEMMA RefuseSlots ==
  ASSUME NEW r \in LinkRecord
  PROVE  /\ refuse(r) \in LinkRecord
         /\ refuse(r).packets = r.packets
         /\ Occupied(refuse(r)) = Occupied(r)
<1>1. refuse(r) \in LinkRecord
  BY DEF refuse, LinkRecord
<1>2. /\ refuse(r).packets = r.packets
      /\ refuse(r).read = r.read
      /\ refuse(r).write = r.write
  BY DEF refuse, LinkRecord
<1>3. Occupied(refuse(r)) = Occupied(r)
  BY <1>2 DEF Occupied
<1> QED BY <1>1, <1>2, <1>3

\* An empty link occupies no slot.
LEMMA EmptySlots ==
  ASSUME NEW r \in LinkRecord, empty(r)
  PROVE  Occupied(r) = {}
BY LinkAssumption DEF Occupied, LinkRecord, Slots, empty

-----------------------------------------------------------------------------
(* All links.                                                              *)

LinksTypeOK ==
  /\ link \in [Links -> LinkRecord]
  /\ live \subseteq Links

\* Transmitting a packet that is on no link puts it on one link, once.
LEMMA EnqueueLinks ==
  ASSUME LinksTypeOK, LinksInjective, length \in [Packets -> Nat],
         NEW l \in live, ~full(link[l]),
         NEW p \in Packets, p \notin OnLinks,
         link' = [link EXCEPT ![l] = enqueue(link[l], p)], live' = live
  PROVE  /\ LinksTypeOK'
         /\ LinksInjective'
         /\ OnLinks' = OnLinks \union {p}
<1> DEFINE r == link[l]
           s == enqueue(r, p)
<1>1. r \in LinkRecord
  BY DEF LinksTypeOK
<1>2. /\ s \in LinkRecord
      /\ s.packets = [r.packets EXCEPT ![r.write] = p]
      /\ r.write \in Slots
      /\ r.write \notin Occupied(r)
      /\ Occupied(s) = Occupied(r) \union {r.write}
  BY <1>1, EnqueueSlots
<1>3. r.packets \in [Slots -> Packets \union {NULL}]
  BY <1>1 DEF LinkRecord
<1>4. link'[l] = s /\ \A m \in Links : m # l => link'[m] = link[m]
  BY DEF LinksTypeOK
<1>5. LinksTypeOK'
  BY <1>2 DEF LinksTypeOK
<1>6. \A m \in live : Occupied(link[m]) \subseteq Slots
  BY DEF Occupied
<1>7. \A m \in live : \A i \in Occupied(link[m]) :
         /\ link[m].packets[i] # p
         /\ link'[m].packets[i] = link[m].packets[i]
  <2>1. \A m \in live : \A i \in Occupied(link[m]) : link[m].packets[i] # p
    BY DEF OnLinks, OnLink
  <2>2. \A i \in Occupied(r) : s.packets[i] = r.packets[i]
    BY <1>2, <1>3 DEF Occupied
  <2> HIDE DEF s
  <2> QED BY <1>4, <2>1, <2>2 DEF LinksTypeOK
<1>8. s.packets[r.write] = p
  BY <1>2, <1>3
<1> HIDE DEF s
<1>9. LinksInjective'
  <2> SUFFICES ASSUME NEW m \in live, NEW k \in live,
                      NEW i \in Occupied(link'[m]), NEW j \in Occupied(link'[k]),
                      link'[m].packets[i] = link'[k].packets[j]
               PROVE  m = k /\ i = j
    BY DEF LinksInjective
  <2>1. CASE i \in Occupied(link[m]) /\ j \in Occupied(link[k])
    BY <2>1, <1>7 DEF LinksInjective
  <2>2. \A n \in live : \A h \in Occupied(link'[n]) :
           h \in Occupied(link[n]) \/ (n = l /\ h = r.write)
    BY <1>2, <1>4 DEF LinksTypeOK
  <2>3. CASE m = l /\ i = r.write /\ i \notin Occupied(link[m])
    BY <2>2, <2>3, <1>4, <1>7, <1>8
  <2>4. CASE k = l /\ j = r.write /\ j \notin Occupied(link[k])
    BY <2>2, <2>4, <1>4, <1>7, <1>8
  <2> QED BY <2>1, <2>2, <2>3, <2>4
<1>10. OnLinks' = OnLinks \union {p}
  <2>1. ASSUME NEW q \in OnLinks' PROVE q \in OnLinks \union {p}
    <3>1. PICK m \in live : \E i \in Occupied(link'[m]) : q = link'[m].packets[i]
      BY DEF OnLinks, OnLink
    <3>2. PICK i \in Occupied(link'[m]) : q = link'[m].packets[i]
      BY <3>1
    <3>3. CASE i \in Occupied(link[m])
      BY <3>2, <3>3, <1>7 DEF OnLinks, OnLink
    <3>4. CASE i \notin Occupied(link[m])
      BY <3>2, <3>4, <1>2, <1>4, <1>8 DEF LinksTypeOK
    <3> QED BY <3>3, <3>4
  <2>2. ASSUME NEW q \in OnLinks PROVE q \in OnLinks'
    <3>1. PICK m \in live : \E i \in Occupied(link[m]) : q = link[m].packets[i]
      BY DEF OnLinks, OnLink
    <3>2. PICK i \in Occupied(link[m]) : q = link[m].packets[i]
      BY <3>1
    <3>3. i \in Occupied(link'[m]) /\ q = link'[m].packets[i]
      BY <3>2, <1>2, <1>4, <1>7 DEF LinksTypeOK
    <3> QED BY <3>3 DEF OnLinks, OnLink
  <2>3. p \in OnLinks'
    <3>1. r.write \in Occupied(link'[l]) /\ p = link'[l].packets[r.write]
      BY <1>2, <1>4, <1>8
    <3>2. p \in OnLink(l)'
      BY <3>1 DEF OnLink
    <3> QED BY <3>2 DEF OnLinks
  <2> QED BY <2>1, <2>2, <2>3
<1> QED BY <1>5, <1>9, <1>10

\* Receiving a packet takes it off the one link it was on.
LEMMA ReceiveLinks ==
  ASSUME LinksTypeOK, LinksInjective, length \in [Packets -> Nat],
         OnLinks \subseteq Packets,
         NEW l \in live, ~empty(link[l]),
         link' = [link EXCEPT ![l] = receive(link[l])], live' = live
  PROVE  /\ LinksTypeOK'
         /\ LinksInjective'
         /\ link[l].packets[link[l].read] \in OnLinks
         /\ OnLinks' = OnLinks \ {link[l].packets[link[l].read]}
<1> DEFINE r == link[l]
           s == receive(r)
           p == r.packets[r.read]
<1>1. r \in LinkRecord
  BY DEF LinksTypeOK
<1>2. r.read \in Occupied(r)
  BY <1>1, LinkAssumption DEF Occupied, LinkRecord, Slots, empty
<1>3. p \in OnLinks
  BY <1>2 DEF OnLinks, OnLink
<1>4. /\ s \in LinkRecord
      /\ s.packets = r.packets
      /\ Occupied(s) = Occupied(r) \ {r.read}
  BY <1>1, <1>3, ReceiveSlots
<1> HIDE DEF s
<1>5. link'[l] = s /\ \A m \in Links : m # l => link'[m] = link[m]
  BY DEF LinksTypeOK, s
<1>6. LinksTypeOK'
  BY <1>4 DEF LinksTypeOK, s
<1>7. \A m \in live :
         /\ link'[m].packets = link[m].packets
         /\ \A i : i \in Occupied(link'[m])
                     <=> i \in Occupied(link[m]) /\ ~(m = l /\ i = r.read)
  BY <1>4, <1>5 DEF LinksTypeOK
<1>8. LinksInjective'
  BY <1>7 DEF LinksInjective
<1>9. OnLinks' = OnLinks \ {p}
  <2>1. ASSUME NEW q \in OnLinks' PROVE q \in OnLinks \ {p}
    <3>1. PICK m \in live : \E i \in Occupied(link'[m]) : q = link'[m].packets[i]
      BY DEF OnLinks, OnLink
    <3>2. PICK i \in Occupied(link'[m]) : q = link'[m].packets[i]
      BY <3>1
    <3>3. i \in Occupied(link[m]) /\ q = link[m].packets[i]
      BY <3>2, <1>7
    <3>4. q # p
      BY <3>2, <3>3, <1>2, <1>7 DEF LinksInjective
    <3> QED BY <3>3, <3>4 DEF OnLinks, OnLink
  <2>2. ASSUME NEW q \in OnLinks, q # p PROVE q \in OnLinks'
    <3>1. PICK m \in live : \E i \in Occupied(link[m]) : q = link[m].packets[i]
      BY DEF OnLinks, OnLink
    <3>2. PICK i \in Occupied(link[m]) : q = link[m].packets[i]
      BY <3>1
    <3>3. i \in Occupied(link'[m]) /\ q = link'[m].packets[i]
      BY <2>2, <3>2, <1>7
    <3> QED BY <3>3 DEF OnLinks, OnLink
  <2> QED BY <2>1, <2>2
<1> QED BY <1>3, <1>6, <1>8, <1>9

\* A step that changes no slot of a live link leaves the queued packets.
LEMMA SameLinks ==
  ASSUME LinksTypeOK, LinksInjective,
         LinksTypeOK',
         \A m \in live : m \notin live' => Occupied(link[m]) = {},
         \A m \in live' : m \notin live => Occupied(link'[m]) = {},
         \A m \in live \intersect live' :
            /\ link'[m].packets = link[m].packets
            /\ Occupied(link'[m]) = Occupied(link[m])
  PROVE  LinksInjective' /\ OnLinks' = OnLinks
<1>1. LinksInjective'
  BY DEF LinksInjective
<1>2. OnLinks' = OnLinks
  BY DEF OnLinks, OnLink
<1> QED BY <1>1, <1>2

-----------------------------------------------------------------------------
(* The inductive invariant: the properties themselves, the schedule of the *)
(* doubling allocation steps, and that packets not yet allocated have      *)
(* length 0.                                                               *)

Schedule == PACKET_ALLOCATION_STEP = PACKETS_ALLOCATED + FIRST_STEP

Untouched == \A p \in Packets : p >= PACKETS_ALLOCATED => length[p] = 0

Inv ==
  /\ TypeOK
  /\ Ownership
  /\ Schedule
  /\ Untouched
  /\ EmptyOnFreelist
  /\ AllocationLimit
  /\ NoFreelistOverflow

\* What TypeOK says of the freelist's variables.
FreelistVarsOK ==
  /\ FreelistTypeOK
  /\ PACKETS_ALLOCATED \in 0 .. MAX_PACKETS
  /\ PACKET_ALLOCATION_STEP \in Nat \ {0}

\* allocate() returns an empty packet nobody owned.
LEMMA AllocateStep ==
  ASSUME Inv, NEW p \in Packets, allocate(p),
         hand' = hand \union {p}, UNCHANGED linkVars
  PROVE  /\ FreelistVarsOK'
         /\ Schedule'
         /\ Ownership'
         /\ p \notin hand
         /\ p \notin OnFreelist'
         /\ p < PACKETS_ALLOCATED'
         /\ length[p] = 0
         /\ \A q \in OnFreelist' : q \in Packets /\ length[q] = 0
         /\ PACKETS_ALLOCATED <= PACKETS_ALLOCATED'
<1> USE PacketAssumption
<1>1. FreelistVarsOK
  BY DEF Inv, TypeOK, FreelistVarsOK, FreelistTypeOK
<1>2. /\ FreelistInjective /\ LinksInjective
      /\ OnFreelist \intersect hand = {}
      /\ OnFreelist \intersect OnLinks = {}
      /\ hand \intersect OnLinks = {}
      /\ OnFreelist \union hand \union OnLinks = 0 .. PACKETS_ALLOCATED - 1
  BY DEF Inv, Ownership
<1>3. OnLinks' = OnLinks /\ LinksInjective'
  BY <1>2 DEF linkVars, OnLinks, OnLink, LinksInjective
<1>4. \A q \in OnFreelist : q \in Packets /\ length[q] = 0
  <2>1. \A q \in OnFreelist : length[q] = 0
    BY DEF Inv, EmptyOnFreelist, OnFreelist
  <2> QED BY <1>1, <1>2, <2>1 DEF FreelistVarsOK, Packets
<1>5. CASE nfree = 0 /\ preallocate_step(p)
  <2>1. /\ OnFreelist = {}
        /\ OnFreelist' = PACKETS_ALLOCATED .. (p - 1)
        /\ FreelistInjective'
        /\ PACKETS_ALLOCATED' = p + 1
        /\ PACKETS_ALLOCATED <= p
        /\ list' \in [Packets -> Packets \union {NULL}]
    BY <1>1, <1>5, FillFreelist DEF FreelistVarsOK
  <2>2. FreelistVarsOK' /\ Schedule'
    BY <1>1, <1>5, <2>1
       DEF FreelistVarsOK, FreelistTypeOK, preallocate_step, CanPreallocate,
           Inv, Schedule, Packets
  <2>3. p \notin hand /\ p \notin OnLinks
    BY <1>1, <1>2, <2>1 DEF FreelistVarsOK, Packets
  <2>4. \A q \in OnFreelist' : q \notin hand /\ q \notin OnLinks /\ q # p
    BY <1>1, <1>2, <2>1 DEF FreelistVarsOK, Packets
  <2>5. OnFreelist' \union hand' \union OnLinks' = 0 .. PACKETS_ALLOCATED' - 1
    BY <1>1, <1>2, <1>3, <2>1 DEF FreelistVarsOK, Packets
  <2>6. Ownership'
    BY <1>2, <1>3, <2>1, <2>3, <2>4, <2>5 DEF Ownership
  <2>7. length[p] = 0 /\ \A q \in OnFreelist' : q \in Packets /\ length[q] = 0
    BY <1>1, <2>1 DEF Inv, Untouched, FreelistVarsOK, Packets
  <2> QED BY <1>1, <2>1, <2>2, <2>3, <2>4, <2>6, <2>7 DEF FreelistVarsOK, Packets
<1>6. CASE /\ nfree > 0
           /\ p = list[nfree - 1]
           /\ nfree' = nfree - 1
           /\ UNCHANGED <<list, PACKETS_ALLOCATED, PACKET_ALLOCATION_STEP>>
  <2>1. /\ p \in OnFreelist
        /\ OnFreelist' = OnFreelist \ {p}
        /\ FreelistInjective'
    BY <1>1, <1>2, <1>6, PopFreelist DEF FreelistVarsOK
  <2>2. FreelistVarsOK' /\ Schedule'
    BY <1>1, <1>6 DEF FreelistVarsOK, FreelistTypeOK, Inv, Schedule
  <2>3. Ownership'
    BY <1>2, <1>3, <1>6, <2>1 DEF Ownership
  <2>4. p < PACKETS_ALLOCATED'
    BY <1>1, <1>2, <1>6, <2>1 DEF FreelistVarsOK, Packets
  <2> QED BY <1>1, <1>2, <1>4, <1>6, <2>1, <2>2, <2>3, <2>4 DEF FreelistVarsOK
<1> QED BY <1>5, <1>6 DEF allocate

\* free() finds room on the freelist and puts the packet there, empty.
LEMMA FreeStep ==
  ASSUME Inv, NEW p \in hand \union OnLinks, free(p),
         LinksInjective', hand' \intersect OnLinks' = {},
         hand' \union OnLinks' = (hand \union OnLinks) \ {p}
  PROVE  /\ FreelistVarsOK'
         /\ Schedule'
         /\ Ownership'
         /\ Untouched'
         /\ EmptyOnFreelist'
         /\ length' \in [Packets -> Nat]
         /\ frees' \in Nat
         /\ PACKETS_ALLOCATED' = PACKETS_ALLOCATED
         /\ status' = status
<1> USE PacketAssumption
<1>1. /\ FreelistVarsOK
      /\ length \in [Packets -> Nat]
      /\ frees \in Nat
  BY DEF Inv, TypeOK, FreelistVarsOK, FreelistTypeOK
<1>2. /\ FreelistInjective
      /\ OnFreelist \intersect hand = {}
      /\ OnFreelist \intersect OnLinks = {}
      /\ OnFreelist \union hand \union OnLinks = 0 .. PACKETS_ALLOCATED - 1
  BY DEF Inv, Ownership
<1>3. /\ p \in Packets /\ p < PACKETS_ALLOCATED
      /\ p \notin OnFreelist
      /\ OnFreelist \subseteq Packets
  BY <1>1, <1>2 DEF FreelistVarsOK, Packets
<1>4. nfree < MAX_PACKETS
  BY <1>1, <1>2, <1>3, RoomOnFreelist DEF FreelistVarsOK
<1>5. /\ length' = [length EXCEPT ![p] = 0]
      /\ list' = [list EXCEPT ![nfree] = p]
      /\ nfree' = nfree + 1
      /\ UNCHANGED <<PACKETS_ALLOCATED, PACKET_ALLOCATION_STEP, status>>
  <2>1. nfree # MAX_PACKETS
    BY <1>1, <1>4 DEF FreelistVarsOK, FreelistTypeOK
  <2> QED BY <2>1, Zenon DEF free, free_internal
<1>6. /\ OnFreelist' = OnFreelist \union {p}
      /\ FreelistInjective'
  BY <1>1, <1>2, <1>3, <1>4, <1>5, PushFreelist DEF FreelistVarsOK
<1>7. FreelistVarsOK'
  BY <1>1, <1>3, <1>4, <1>5 DEF FreelistVarsOK, FreelistTypeOK, Packets
<1>8. Schedule'
  BY <1>5 DEF Inv, Schedule
<1>9. Ownership'
  BY <1>2, <1>3, <1>5, <1>6 DEF Ownership
<1>10. length' \in [Packets -> Nat] /\ frees' \in Nat
  BY <1>1, <1>3, <1>5 DEF free
<1>11. Untouched'
  BY <1>1, <1>3, <1>5 DEF Inv, Untouched
<1>12. EmptyOnFreelist'
  <2>1. \A i \in 0 .. nfree - 1 : list'[i] = list[i] /\ list[i] \in Packets
    BY <1>1, <1>3, <1>5 DEF FreelistVarsOK, FreelistTypeOK, OnFreelist, Packets
  <2>2. list'[nfree] = p
    BY <1>1, <1>4, <1>5 DEF FreelistVarsOK, FreelistTypeOK, Packets
  <2>3. \A q \in Packets : length[q] = 0 => length'[q] = 0
    BY <1>1, <1>3, <1>5
  <2>4. length'[p] = 0
    BY <1>1, <1>3, <1>5
  <2> QED BY <1>1, <1>5, <2>1, <2>2, <2>3, <2>4
          DEF Inv, EmptyOnFreelist, FreelistVarsOK, FreelistTypeOK
<1> QED BY <1>5, <1>7, <1>8, <1>9, <1>10, <1>11, <1>12

-----------------------------------------------------------------------------
(* The steps.                                                              *)

\* The empty freelist and the absent links establish the invariant.
LEMMA InitInv == Init => Inv
<1> USE PacketAssumption, LinkAssumption
<1> SUFFICES ASSUME Init PROVE Inv
  OBVIOUS
<1>1. TypeOK
  BY NewSlots DEF Init, PacketInit, TypeOK, Packets
<1>2. /\ OnFreelist = {} /\ OnLinks = {} /\ hand = {}
      /\ FreelistInjective /\ LinksInjective
  BY DEF Init, PacketInit, OnFreelist, OnLinks, FreelistInjective, LinksInjective
<1>3. Ownership
  BY <1>2 DEF Init, PacketInit, Ownership
<1>4. Schedule /\ Untouched /\ EmptyOnFreelist /\ AllocationLimit /\ NoFreelistOverflow
  BY DEF Init, PacketInit, Schedule, Untouched, EmptyOnFreelist, AllocationLimit,
         NoFreelistOverflow, Packets
<1> QED BY <1>1, <1>3, <1>4 DEF Inv

\* Who owns a packet depends on the freelist, the hand and the links only.
LEMMA SameOwnership ==
  ASSUME Ownership, UNCHANGED <<freelist, hand, live, link>>
  PROVE  Ownership'
<1>1. OnFreelist' = OnFreelist /\ OnLinks' = OnLinks
  BY DEF OnFreelist, OnLinks, OnLink, freelist
<1>2. FreelistInjective'
  BY DEF Ownership, FreelistInjective, freelist
<1>3. LinksInjective'
  BY DEF Ownership, LinksInjective
<1> QED BY <1>1, <1>2, <1>3 DEF Ownership, freelist

\* The step that does not fit would have more than doubled the packets.
LEMMA OverflowPastHalf ==
  ASSUME TypeOK, Schedule, ~CanPreallocate
  PROVE  2 * PACKETS_ALLOCATED + FIRST_STEP > MAX_PACKETS
<1>1. PACKETS_ALLOCATED \in Nat
  BY PacketAssumption DEF TypeOK
<1> QED BY <1>1, PacketAssumption DEF Schedule, CanPreallocate

\* A panic, or any other step that touches neither packets nor links.
LEMMA StatusStep ==
  ASSUME Inv, UNCHANGED <<freelist, length, hand, frees, live, link>>,
         \/ /\ status' \in {"Packet leaked", "Link underflow."}
            /\ dropping' = dropping
         \/ /\ status' = "Packet allocation overflow"
            /\ nfree = 0 /\ ~CanPreallocate
            /\ dropping' = dropping
         \/ /\ status' = status
            /\ dropping' \subseteq live
            /\ \A l, m \in dropping' : l = m
  PROVE  Inv'
<1> USE PacketAssumption
<1>1. TypeOK'
  BY DEF Inv, TypeOK, freelist, Panics
<1>2. Ownership'
  BY SameOwnership DEF Inv
<1>3. Schedule' /\ Untouched' /\ EmptyOnFreelist' /\ NoFreelistOverflow'
  BY DEF Inv, Schedule, Untouched, EmptyOnFreelist, NoFreelistOverflow, freelist
<1>4. AllocationLimit'
  <2>1. CASE status' = "Packet allocation overflow" /\ nfree = 0 /\ ~CanPreallocate
    <3>4. 2 * PACKETS_ALLOCATED + FIRST_STEP > MAX_PACKETS
      BY <2>1, OverflowPastHalf DEF Inv
    <3>3. nfree' = nfree /\ PACKETS_ALLOCATED' = PACKETS_ALLOCATED
      BY DEF freelist
    <3> QED BY <2>1, <3>3, <3>4 DEF AllocationLimit
  <2>2. CASE status' = status
    BY <2>2 DEF Inv, AllocationLimit, freelist
  <2>3. CASE status' \in {"Packet leaked", "Link underflow."}
    BY <2>3 DEF AllocationLimit
  <2> QED BY <2>1, <2>2, <2>3
<1> QED BY <1>1, <1>2, <1>3, <1>4 DEF Inv

\* The steps of an app with packets alone.
LEMMA PacketStepInv ==
  ASSUME Inv, PacketStep, UNCHANGED linkVars
  PROVE  Inv'
<1> USE PacketAssumption
<1>0. status = "running" /\ TypeOK
  BY DEF PacketStep, Inv
<1>a. ASSUME NEW p \in Packets, allocate(p), hand' = hand \union {p},
             UNCHANGED <<frees, status>>,
             NEW n \in Nat, length' = [length EXCEPT ![p] = n]
      PROVE  Inv'
  <2>1. /\ FreelistVarsOK' /\ Schedule' /\ Ownership'
        /\ p \notin OnFreelist' /\ p < PACKETS_ALLOCATED'
        /\ \A q \in OnFreelist' : q \in Packets /\ length[q] = 0
        /\ PACKETS_ALLOCATED <= PACKETS_ALLOCATED'
    BY <1>a, AllocateStep
  <2>2. TypeOK'
    BY <1>0, <1>a, <2>1 DEF TypeOK, FreelistVarsOK, FreelistTypeOK, linkVars
  <2>3. Untouched'
    BY <1>0, <1>a, <2>1, <2>2 DEF Inv, Untouched, TypeOK, Packets
  <2>4. EmptyOnFreelist'
    <3>1. \A q \in OnFreelist' : length'[q] = 0
      BY <1>0, <1>a, <2>1 DEF TypeOK
    <3> QED BY <3>1 DEF EmptyOnFreelist, OnFreelist
  <2>5. AllocationLimit' /\ NoFreelistOverflow'
    BY <1>0, <1>a DEF AllocationLimit, NoFreelistOverflow
  <2> QED BY <2>1, <2>2, <2>3, <2>4, <2>5 DEF Inv
<1>b. ASSUME allocate_overflow, UNCHANGED <<freelist, length, hand, frees>>
      PROVE  Inv'
  BY <1>b, StatusStep DEF allocate_overflow, linkVars
<1>1. CASE Allocate
  <2>1. ASSUME NEW p \in Packets, allocate(p), hand' = hand \union {p},
               UNCHANGED <<length, frees, status>>
        PROVE  Inv'
    <3>1. length[p] = 0
      BY <2>1, AllocateStep
    <3>2. length' = [length EXCEPT ![p] = 0]
      BY <1>0, <2>1, <3>1 DEF TypeOK
    <3> QED BY <1>a, <2>1, <3>2
  <2> QED BY <1>1, <1>b, <2>1 DEF Allocate
<1>2. ASSUME NEW p \in hand, NEW n \in Lengths, Fill(p, n) PROVE Inv'
  <2>1. p \in Packets /\ p < PACKETS_ALLOCATED /\ p \notin OnFreelist
    BY <1>0 DEF Inv, Ownership, TypeOK
  <2>2. TypeOK'
    BY <1>0, <1>2, <2>1 DEF TypeOK, Fill, freelist, linkVars
  <2>3. Ownership' /\ Schedule'
    <3>1. UNCHANGED <<freelist, hand, live, link>>
      BY <1>2 DEF Fill, linkVars
    <3> QED BY <3>1, SameOwnership DEF Inv, Schedule, freelist
  <2>4. Untouched'
    BY <1>0, <1>2, <2>1 DEF Inv, Untouched, Fill, freelist, TypeOK, Packets
  <2>5. EmptyOnFreelist'
    <3>1. \A i \in 0 .. nfree - 1 : list[i] # p
      BY <2>1 DEF OnFreelist
    <3>2. \A i \in 0 .. nfree - 1 : list[i] \in OnFreelist
      BY DEF OnFreelist
    <3>3. \A i \in 0 .. nfree - 1 : list[i] \in Packets
      BY <1>0, <3>2 DEF Inv, Ownership, TypeOK, Packets
    <3> QED BY <1>0, <1>2, <3>1, <3>3 DEF Inv, EmptyOnFreelist, Fill, freelist, TypeOK
  <2>6. AllocationLimit' /\ NoFreelistOverflow'
    BY <1>0, <1>2 DEF AllocationLimit, NoFreelistOverflow, Fill
  <2> QED BY <2>2, <2>3, <2>4, <2>5, <2>6 DEF Inv
<1>3. ASSUME NEW p \in hand, Clone(p) PROVE Inv'
  <2>1. length[p] \in Nat
    BY <1>0 DEF TypeOK
  <2>2. ASSUME NEW copy \in Packets, allocate(copy), hand' = hand \union {copy},
               length' = [length EXCEPT ![copy] = length[p]],
               UNCHANGED <<frees, status>>
        PROVE  Inv'
    BY <1>a, <2>1, <2>2
  <2> QED BY <1>3, <1>b, <2>2 DEF Clone
<1>4. ASSUME NEW p \in hand, Free(p) PROVE Inv'
  <2>1. /\ OnLinks' = OnLinks /\ LinksInjective'
        /\ hand \intersect OnLinks = {}
    BY DEF Inv, Ownership, linkVars, OnLinks, OnLink, LinksInjective
  <2>2. hand' = hand \ {p} /\ free(p)
    BY <1>4 DEF Free
  <2>3. /\ hand' \intersect OnLinks' = {}
        /\ hand' \union OnLinks' = (hand \union OnLinks) \ {p}
    BY <2>1, <2>2
  <2>4. /\ FreelistVarsOK' /\ Schedule' /\ Ownership'
        /\ Untouched' /\ EmptyOnFreelist'
        /\ length' \in [Packets -> Nat] /\ frees' \in Nat
        /\ status' = status
    BY <2>1, <2>2, <2>3, FreeStep
  <2>5. TypeOK'
    BY <1>0, <2>2, <2>4 DEF TypeOK, FreelistVarsOK, FreelistTypeOK, linkVars
  <2> QED BY <1>0, <2>4, <2>5 DEF Inv, AllocationLimit, NoFreelistOverflow
<1>5. ASSUME NEW p \in hand, Leak(p) PROVE Inv'
  BY <1>5, StatusStep DEF Leak, linkVars
<1> QED BY <1>1, <1>2, <1>3, <1>4, <1>5 DEF PacketStep

\* The steps on links.
LEMMA LinkStepInv ==
  ASSUME Inv, status = "running",
         \/ \E l \in Links : NewLink(l)
         \/ \E l \in live : \/ \E p \in hand : Transmit(l, p)
                            \/ Receive(l)
                            \/ DropLink(l)
         \/ \E l \in dropping : Drain(l) \/ Dropped(l)
  PROVE  Inv'
<1> USE PacketAssumption
<1>0. /\ TypeOK /\ LinksTypeOK /\ length \in [Packets -> Nat]
      /\ LinksInjective /\ OnLinks \subseteq Packets
      /\ hand \subseteq Packets /\ dropping \subseteq live
      /\ hand \intersect OnLinks = {}
  <2>1. TypeOK /\ Ownership
    BY DEF Inv
  <2>2. OnLinks \subseteq Packets
    BY <2>1 DEF TypeOK, Ownership, Packets
  <2> QED BY <2>1, <2>2 DEF TypeOK, LinksTypeOK, Ownership
\* Steps that move no packet.
<1>a. ASSUME UNCHANGED packetVars, LinksTypeOK', LinksInjective', OnLinks' = OnLinks,
             dropping' \subseteq live', \A l, m \in dropping' : l = m
      PROVE  Inv'
  <2>1. TypeOK'
    BY <1>0, <1>a DEF TypeOK, packetVars, LinksTypeOK
  <2>2. OnFreelist' = OnFreelist /\ FreelistInjective'
    BY <1>a DEF Inv, Ownership, OnFreelist, FreelistInjective, packetVars
  <2>3. Ownership'
    BY <1>a, <2>2 DEF Inv, Ownership, packetVars
  <2>4. /\ Schedule' /\ Untouched' /\ EmptyOnFreelist'
        /\ AllocationLimit' /\ NoFreelistOverflow'
    BY <1>a DEF Inv, Schedule, Untouched, EmptyOnFreelist, AllocationLimit,
                NoFreelistOverflow, packetVars
  <2> QED BY <2>1, <2>3, <2>4 DEF Inv
\* Steps that move a packet between a hand and a link.
<1>b. ASSUME UNCHANGED <<freelist, length, frees, status, live, dropping>>,
             LinksTypeOK', LinksInjective',
             hand' \intersect OnLinks' = {},
             hand' \union OnLinks' = hand \union OnLinks,
             hand' \subseteq Packets
      PROVE  Inv'
  <2>1. TypeOK'
    BY <1>0, <1>b DEF TypeOK, freelist, LinksTypeOK
  <2>2. OnFreelist' = OnFreelist /\ FreelistInjective'
    BY <1>b DEF Inv, Ownership, OnFreelist, FreelistInjective, freelist
  <2>3. Ownership'
    <3>1. PACKETS_ALLOCATED' = PACKETS_ALLOCATED
      BY <1>b DEF freelist
    <3> QED BY <1>b, <2>2, <3>1 DEF Inv, Ownership
  <2>4. /\ Schedule' /\ Untouched' /\ EmptyOnFreelist'
        /\ AllocationLimit' /\ NoFreelistOverflow'
    BY <1>b DEF Inv, Schedule, Untouched, EmptyOnFreelist, AllocationLimit,
                NoFreelistOverflow, freelist
  <2> QED BY <2>1, <2>3, <2>4 DEF Inv
\* Steps that free a packet.
<1>c. ASSUME NEW p \in hand \union OnLinks, free(p), UNCHANGED <<live, dropping>>,
             LinksTypeOK', LinksInjective',
             hand' \intersect OnLinks' = {},
             hand' \union OnLinks' = (hand \union OnLinks) \ {p},
             hand' \subseteq hand
      PROVE  Inv'
  <2>1. /\ FreelistVarsOK' /\ Schedule' /\ Ownership'
        /\ Untouched' /\ EmptyOnFreelist'
        /\ length' \in [Packets -> Nat] /\ frees' \in Nat
        /\ status' = status
    BY <1>c, FreeStep
  <2>2. TypeOK'
    BY <1>0, <1>c, <2>1 DEF TypeOK, FreelistVarsOK, FreelistTypeOK, LinksTypeOK
  <2> QED BY <2>1, <2>2 DEF Inv, AllocationLimit, NoFreelistOverflow
<1>1. ASSUME NEW l \in Links, NewLink(l) PROVE Inv'
  <2>1. LinksTypeOK'
    BY <1>0, <1>1, NewSlots DEF NewLink, LinksTypeOK
  <2>2. /\ live' = live \union {l} /\ l \notin live
        /\ link'[l] = new
        /\ \A m \in live : link'[m] = link[m]
    BY <1>0, <1>1 DEF NewLink, LinksTypeOK
  <2>3. LinksInjective' /\ OnLinks' = OnLinks
    BY <1>0, <2>1, <2>2, NewSlots, SameLinks
  <2> QED BY <1>0, <1>1, <1>a, <2>1, <2>2, <2>3 DEF NewLink, TypeOK
<1>2. ASSUME NEW l \in live, NEW p \in hand, Transmit(l, p) PROVE Inv'
  <2>1. CASE full(link[l])
    <3>1. /\ link' = [link EXCEPT ![l] = refuse(link[l])]
          /\ free(p) /\ hand' = hand \ {p} /\ UNCHANGED <<live, dropping>>
      BY <1>2, <2>1 DEF Transmit
    <3> DEFINE s == refuse(link[l])
    <3>0. /\ s \in LinkRecord
          /\ s.packets = link[l].packets
          /\ Occupied(s) = Occupied(link[l])
      <4>1. link[l] \in LinkRecord
        BY <1>0 DEF LinksTypeOK
      <4> QED BY <4>1, RefuseSlots
    <3> HIDE DEF s
    <3>2. LinksTypeOK'
      BY <1>0, <3>0, <3>1 DEF LinksTypeOK, s
    <3>3. \A m \in live : /\ link'[m].packets = link[m].packets
                          /\ Occupied(link'[m]) = Occupied(link[m])
      <4>1. link'[l] = s /\ \A m \in live : m # l => link'[m] = link[m]
        BY <1>0, <3>1 DEF LinksTypeOK, s
      <4> QED BY <3>0, <4>1
    <3>4. LinksInjective' /\ OnLinks' = OnLinks
      BY <1>0, <3>1, <3>2, <3>3, SameLinks
    <3> QED BY <1>0, <1>c, <3>1, <3>2, <3>4
  <2>2. CASE ~full(link[l])
    <3>1. /\ link' = [link EXCEPT ![l] = enqueue(link[l], p)]
          /\ hand' = hand \ {p}
          /\ UNCHANGED <<freelist, length, frees, status, live, dropping>>
      BY <1>2, <2>2 DEF Transmit
    <3>2. p \in Packets /\ p \notin OnLinks
      BY <1>0
    <3>3. LinksTypeOK' /\ LinksInjective' /\ OnLinks' = OnLinks \union {p}
      BY <1>0, <2>2, <3>1, <3>2, EnqueueLinks
    <3>4. /\ hand' \intersect OnLinks' = {}
          /\ hand' \union OnLinks' = hand \union OnLinks
          /\ hand' \subseteq Packets
      BY <1>0, <3>1, <3>2, <3>3
    <3> QED BY <1>b, <3>1, <3>3, <3>4
  <2> QED BY <2>1, <2>2
<1>3. ASSUME NEW l \in live, Receive(l) PROVE Inv'
  <2>1. CASE empty(link[l])
    BY <1>3, <2>1, StatusStep DEF Receive, linkVars
  <2>2. CASE ~empty(link[l])
    <3> DEFINE p == link[l].packets[link[l].read]
    <3>1. /\ link' = [link EXCEPT ![l] = receive(link[l])]
          /\ hand' = hand \union {p}
          /\ UNCHANGED <<freelist, length, frees, status, live, dropping>>
      BY <1>3, <2>2 DEF Receive
    <3>2. /\ LinksTypeOK' /\ LinksInjective'
          /\ p \in OnLinks /\ OnLinks' = OnLinks \ {p}
      BY <1>0, <2>2, <3>1, ReceiveLinks
    <3> HIDE DEF p
    <3>3. /\ hand' \intersect OnLinks' = {}
          /\ hand' \union OnLinks' = hand \union OnLinks
          /\ hand' \subseteq Packets
      BY <1>0, <3>1, <3>2
    <3> QED BY <1>b, <3>1, <3>2, <3>3
  <2> QED BY <2>1, <2>2
<1>4. ASSUME NEW l \in live, DropLink(l) PROVE Inv'
  BY <1>4, StatusStep DEF DropLink, packetVars, freelist
<1>5. ASSUME NEW l \in dropping, Drain(l) PROVE Inv'
  <2> DEFINE p == link[l].packets[link[l].read]
  <2>1. /\ ~empty(link[l]) /\ free(p)
        /\ link' = [link EXCEPT ![l] = receive(link[l])]
        /\ UNCHANGED <<hand, live, dropping>>
    BY <1>5 DEF Drain
  <2>2. /\ LinksTypeOK' /\ LinksInjective'
        /\ p \in OnLinks /\ OnLinks' = OnLinks \ {p}
    BY <1>0, <2>1, ReceiveLinks
  <2> HIDE DEF p
  <2>3. /\ hand' \intersect OnLinks' = {}
        /\ hand' \union OnLinks' = (hand \union OnLinks) \ {p}
    BY <1>0, <2>1, <2>2
  <2> QED BY <1>c, <2>1, <2>2, <2>3
<1>6. ASSUME NEW l \in dropping, Dropped(l) PROVE Inv'
  <2>1. LinksTypeOK'
    BY <1>0, <1>6, NewSlots DEF Dropped, LinksTypeOK
  <2>2. /\ live' = live \ {l} /\ dropping' = {}
        /\ Occupied(link[l]) = {}
        /\ \A m \in live : m # l => link'[m] = link[m]
    <3>1. link[l] \in LinkRecord /\ empty(link[l])
      BY <1>0, <1>6 DEF Dropped, LinksTypeOK
    <3>2. Occupied(link[l]) = {}
      BY <3>1, EmptySlots
    <3> QED BY <1>0, <1>6, <3>2 DEF Dropped, LinksTypeOK
  <2>3. LinksInjective' /\ OnLinks' = OnLinks
    BY <1>0, <2>1, <2>2, SameLinks
  <2> QED BY <1>6, <1>a, <2>1, <2>2, <2>3 DEF Dropped
<1> QED BY <1>1, <1>2, <1>3, <1>4, <1>5, <1>6

\* Every step keeps the invariant.
LEMMA NextInv == Inv /\ [Next]_vars => Inv'
<1> SUFFICES ASSUME Inv, [Next]_vars PROVE Inv'
  OBVIOUS
<1>1. CASE PacketStep /\ UNCHANGED linkVars
  BY <1>1, PacketStepInv
<1>2. CASE /\ status = "running"
           /\ \/ \E l \in Links : NewLink(l)
              \/ \E l \in live : \/ \E p \in hand : Transmit(l, p)
                                 \/ Receive(l)
                                 \/ DropLink(l)
  BY <1>2, LinkStepInv
<1>3. CASE DropStep
  BY <1>3, LinkStepInv DEF DropStep
<1>4. CASE UNCHANGED vars
  <2>1. UNCHANGED <<freelist, length, hand, frees, live, link>>
    BY <1>4 DEF vars, packetVars, linkVars, freelist
  <2>2. status' = status /\ dropping' = dropping
    BY <1>4 DEF vars, packetVars, linkVars
  <2>3. dropping' \subseteq live /\ \A l, m \in dropping' : l = m
    BY <2>2 DEF Inv, TypeOK
  <2> QED BY <2>1, <2>2, <2>3, StatusStep
<1> QED BY <1>1, <1>2, <1>3, <1>4 DEF Next

-----------------------------------------------------------------------------
(* The theorems.                                                           *)

\* Inv holds in every reachable state of freelist and links.
THEOREM Invariance == Spec => []Inv
<1>1. Init => Inv
  BY InitInv
<1>2. Inv /\ [Next]_vars => Inv'
  BY NextInv
<1> QED BY <1>1, <1>2, PTL DEF Spec

\* Every variable keeps its type; in particular the cursors of a link stay
\* inside its ring.
THEOREM TypeCorrect == Spec => []TypeOK
<1>1. Inv => TypeOK
  BY DEF Inv
<1> QED BY <1>1, Invariance, PTL

\* Every packet allocated is on the freelist, on one link or in scope, once:
\* the Box::from_raw of allocate() and of receive() never aliases.
THEOREM OwnershipHolds == Spec => []Ownership
<1>1. Inv => Ownership
  BY DEF Inv
<1> QED BY <1>1, Invariance, PTL

\* free() never panics.
THEOREM FreeNeverPanics == Spec => []NoFreelistOverflow
<1>1. Inv => NoFreelistOverflow
  BY DEF Inv
<1> QED BY <1>1, Invariance, PTL

\* drop() runs only in a process that has not panicked: none of its steps does.
DropNeverPanics == dropping # {} => status = "running"

\* Dropping a link never panics, however many packets are queued on it: only
\* free() could, and it finds room.
THEOREM DropDoesNotPanic == Spec => []DropNeverPanics
<1>1. Init => DropNeverPanics
  BY DEF Init, PacketInit, DropNeverPanics
<1>2. Inv' /\ DropNeverPanics /\ [Next]_vars => DropNeverPanics'
  <2> SUFFICES ASSUME NoFreelistOverflow', DropNeverPanics, [Next]_vars, dropping' # {}
               PROVE  status' = "running"
    BY DEF Inv, DropNeverPanics
  <2>1. CASE UNCHANGED vars
    BY <2>1 DEF vars, packetVars, linkVars, DropNeverPanics
  <2>2. CASE \E l \in live : DropLink(l) /\ status = "running"
    BY <2>2 DEF DropLink, packetVars
  <2>3. CASE DropStep
    <3>1. PICK l \in dropping : status = "running" /\ (Drain(l) \/ Dropped(l))
      BY <2>3 DEF DropStep
    <3>2. CASE Drain(l)
      BY <3>1, <3>2 DEF Drain, free, free_internal, NoFreelistOverflow
    <3> QED BY <3>1, <3>2 DEF Dropped
  <2>4. CASE Next /\ dropping = {} /\ dropping' = dropping
    BY <2>4
  <2> QED BY <2>1, <2>2, <2>3, <2>4
             DEF Next, NewLink, Transmit, Receive, linkVars
<1> QED BY <1>1, <1>2, Invariance, PTL DEF Spec

\* Packets on the freelist are empty.
THEOREM AllocatedEmpty == Spec => []EmptyOnFreelist
<1>1. Inv => EmptyOnFreelist
  BY DEF Inv
<1> QED BY <1>1, Invariance, PTL

\* allocate() panics only with no packet free and no room for the next step.
THEOREM AllocationLimited == Spec => []AllocationLimit
<1>1. Inv => AllocationLimit
  BY DEF Inv
<1> QED BY <1>1, Invariance, PTL

-----------------------------------------------------------------------------
(* The ring as a queue.                                                    *)

\* Past the last slot the ring starts over.
LEMMA SlotAfter ==
  ASSUME NEW x \in 0 .. 2 * LINK_RING_SIZE - 1
  PROVE  x % LINK_RING_SIZE = IF x < LINK_RING_SIZE THEN x ELSE x - LINK_RING_SIZE
<1> USE LinkAssumption
<1>1. CASE x < LINK_RING_SIZE
  <2>1. x \in 0 .. LINK_RING_SIZE - 1
    BY <1>1
  <2>2. x % LINK_RING_SIZE = x
    BY <2>1
  <2> QED BY <1>1, <2>2
<1>2. CASE x >= LINK_RING_SIZE
  <2>1. x - LINK_RING_SIZE \in 0 .. LINK_RING_SIZE - 1
        /\ x = LINK_RING_SIZE + (x - LINK_RING_SIZE)
    BY <1>2
  <2>2. ASSUME NEW y \in 0 .. LINK_RING_SIZE - 1
        PROVE  (LINK_RING_SIZE + y) % LINK_RING_SIZE = y
    OBVIOUS
  <2>3. x % LINK_RING_SIZE = x - LINK_RING_SIZE
    BY <2>1, <2>2
  <2> QED BY <1>2, <2>3
<1> QED BY <1>1, <1>2

\* The slot of the k-th packet queued.
Slot(r, k) == (r.read + k - 1) % LINK_RING_SIZE

\* The slots of the packets queued follow each other round the ring.
LEMMA QueueSlots ==
  ASSUME NEW r \in LinkRecord
  PROVE  /\ Occupancy(r) \in Slots
         /\ \A k \in 1 .. Occupancy(r) + 1 : k \in 1 .. LINK_RING_SIZE =>
              Slot(r, k) = IF r.read + k - 1 < LINK_RING_SIZE THEN r.read + k - 1
                           ELSE r.read + k - 1 - LINK_RING_SIZE
         /\ \A k \in 1 .. Occupancy(r) : Slot(r, k) \in Occupied(r) /\ Slot(r, k) \in Slots
<1> USE LinkAssumption
<1>1. r.read \in Slots /\ r.write \in Slots
  BY DEF LinkRecord
<1>2. Occupancy(r) \in Slots
  BY <1>1 DEF Occupancy, Slots
<1>3. ASSUME NEW k \in 1 .. LINK_RING_SIZE
      PROVE  Slot(r, k) = IF r.read + k - 1 < LINK_RING_SIZE THEN r.read + k - 1
                          ELSE r.read + k - 1 - LINK_RING_SIZE
  <2>1. r.read + k - 1 \in 0 .. 2 * LINK_RING_SIZE - 1
    BY <1>1, <1>3 DEF Slots
  <2>2. PICK x \in 0 .. 2 * LINK_RING_SIZE - 1 : x = r.read + k - 1
    BY <2>1
  <2>3. x % LINK_RING_SIZE = IF x < LINK_RING_SIZE THEN x ELSE x - LINK_RING_SIZE
    BY SlotAfter
  <2>4. Slot(r, k) = x % LINK_RING_SIZE
    BY <2>2 DEF Slot
  <2> QED BY <1>1, <1>3, <2>2, <2>3, <2>4 DEF Slots
<1>4. ASSUME NEW k \in 1 .. Occupancy(r)
      PROVE  Slot(r, k) \in Occupied(r) /\ Slot(r, k) \in Slots
  <2>1. k \in 1 .. LINK_RING_SIZE
    BY <1>2, <1>4 DEF Slots
  <2> DEFINE s == Slot(r, k)
  <2>2. s = IF r.read + k - 1 < LINK_RING_SIZE THEN r.read + k - 1
            ELSE r.read + k - 1 - LINK_RING_SIZE
    BY <1>3, <2>1
  <2> HIDE DEF s
  <2>3. s \in Slots /\ s \in Occupied(r)
    BY <1>1, <1>4, <2>1, <2>2 DEF Occupancy, Occupied, Slots
  <2> QED BY <2>3 DEF s
<1> QED BY <1>2, <1>3, <1>4

\* The queue is the sequence of what these slots hold.
LEMMA QueueSeq ==
  ASSUME NEW r \in LinkRecord
  PROVE  /\ Queue(r) \in Seq(Packets \union {NULL}) /\ Len(Queue(r)) = Occupancy(r)
         /\ \A k \in 1 .. Occupancy(r) : Queue(r)[k] = r.packets[Slot(r, k)]
<1> DEFINE n == Occupancy(r)
<1>1. n \in Nat
  BY LinkAssumption, QueueSlots DEF Slots
<1>2. Queue(r) = [k \in 1 .. n |-> r.packets[Slot(r, k)]]
  BY DEF Queue, Slot
<1>3. r.packets \in [Slots -> Packets \union {NULL}]
  BY DEF LinkRecord
<1>4. \A k \in 1 .. n : r.packets[Slot(r, k)] \in Packets \union {NULL}
  BY <1>3, QueueSlots
<1> HIDE DEF n
<1>5. Queue(r) \in [1 .. n -> Packets \union {NULL}]
  BY <1>2, <1>4
<1>6. Queue(r) \in Seq(Packets \union {NULL}) /\ Len(Queue(r)) = n
  BY <1>1, <1>5
<1> QED BY <1>2, <1>6 DEF n

\* Links with the same ring and cursors hold the same queue.
LEMMA SameQueue ==
  ASSUME NEW r, NEW s, s.packets = r.packets, s.read = r.read, s.write = r.write
  PROVE  Queue(s) = Queue(r) /\ Occupancy(s) = Occupancy(r)
BY DEF Queue, Occupancy

\* empty() and full().
LEMMA EmptyQueue ==
  ASSUME NEW r \in LinkRecord
  PROVE  /\ empty(r) <=> Occupancy(r) = 0
         /\ empty(r) <=> Queue(r) = << >>
         /\ full(r) <=> Occupancy(r) = LINK_MAX_PACKETS
<1>1. r.read \in Slots /\ r.write \in Slots
  BY DEF LinkRecord
<1>2. empty(r) <=> Occupancy(r) = 0
  BY <1>1, LinkAssumption DEF empty, Occupancy, Slots
<1>3. full(r) <=> Occupancy(r) = LINK_MAX_PACKETS
  BY <1>1, LinkAssumption, AdvanceSlot DEF full, Occupancy, Slots, LINK_MAX_PACKETS
<1>4. Queue(r) = << >> <=> Len(Queue(r)) = 0
  BY QueueSeq
<1> QED BY <1>2, <1>3, <1>4, QueueSeq

\* transmit() appends.
LEMMA EnqueueQueue ==
  ASSUME NEW r \in LinkRecord, ~full(r), length \in [Packets -> Nat], NEW p \in Packets
  PROVE  /\ Queue(enqueue(r, p)) = Append(Queue(r), p)
         /\ Occupancy(enqueue(r, p)) = Occupancy(r) + 1
         /\ Occupancy(r) < LINK_MAX_PACKETS
<1> DEFINE s == enqueue(r, p)
           n == Occupancy(r)
           T == Packets \union {NULL}
<1>1. /\ s.packets = [r.packets EXCEPT ![r.write] = p] /\ s.read = r.read
      /\ s.write = Advance(r.write) /\ s \in LinkRecord
      /\ r.packets \in [Slots -> T] /\ r.read \in Slots /\ r.write \in Slots
      /\ r.write \notin Occupied(r)
  BY EnqueueSlots DEF enqueue, LinkRecord
<1>2. Occupancy(s) = n + 1 /\ n < LINK_MAX_PACKETS
  <2>1. n # LINK_MAX_PACKETS /\ n \in Slots
    BY EmptyQueue, QueueSlots
  <2>2. /\ Advance(r.write) \in Slots
        /\ Advance(r.write) = IF r.write = LINK_RING_SIZE - 1 THEN 0 ELSE r.write + 1
    BY <1>1, AdvanceSlot
  <2>3. s.read = r.read /\ s.write = Advance(r.write) /\ r.read \in Slots /\ r.write \in Slots
    BY <1>1
  <2>4. n < LINK_MAX_PACKETS
    BY <2>1, LinkAssumption DEF Slots, LINK_MAX_PACKETS
  <2> HIDE DEF s
  <2>5. Occupancy(s) = n + 1
    BY <2>2, <2>3, <2>4, LinkAssumption DEF Occupancy, Slots, LINK_MAX_PACKETS
  <2> QED BY <2>4, <2>5
<1>3. n \in Nat /\ n + 1 \in 1 .. LINK_RING_SIZE
  BY <1>2, QueueSlots, LinkAssumption DEF Slots, LINK_MAX_PACKETS
<1>4. Slot(r, n + 1) = r.write
  <2>1. Slot(r, n + 1) = IF r.read + n < LINK_RING_SIZE THEN r.read + n
                         ELSE r.read + n - LINK_RING_SIZE
    <3>1. r.read + (n + 1) - 1 = r.read + n
      BY <1>1, <1>3, LinkAssumption DEF Slots
    <3>2. n + 1 \in 1 .. n + 1
      BY <1>3
    <3> HIDE DEF n
    <3> QED BY <1>3, <3>1, <3>2, QueueSlots DEF n
  <2> QED BY <1>1, <2>1, LinkAssumption DEF Occupancy, Slots
<1>5. \A k \in 1 .. n + 1 : Slot(s, k) = Slot(r, k)
  BY <1>1 DEF Slot
<1>6. Queue(s) \in Seq(T) /\ Len(Queue(s)) = n + 1 /\ Queue(r) \in Seq(T) /\ Len(Queue(r)) = n
  BY <1>1, <1>2, QueueSeq
<1>7. Append(Queue(r), p) \in Seq(T) /\ Len(Append(Queue(r), p)) = n + 1
  BY <1>6
<1>8. ASSUME NEW k \in 1 .. n + 1 PROVE Queue(s)[k] = Append(Queue(r), p)[k]
  <2>1. Queue(s)[k] = s.packets[Slot(r, k)]
    <3> HIDE DEF s, n
    <3>1. k \in 1 .. Occupancy(s) /\ s \in LinkRecord
      BY <1>1, <1>2, <1>8
    <3>2. Queue(s)[k] = s.packets[Slot(s, k)]
      BY <3>1, QueueSeq
    <3> QED BY <1>5, <1>8, <3>2
  <2>2. CASE k = n + 1
    <3>1. Queue(s)[k] = p
      BY <1>1, <1>4, <2>1, <2>2
    <3> QED BY <1>6, <2>2, <3>1
  <2>3. CASE k # n + 1
    <3>1. k \in 1 .. n
      BY <1>3, <1>8, <2>3
    <3>2. Slot(r, k) \in Slots /\ Slot(r, k) # r.write
      BY <1>1, <3>1, QueueSlots
    <3>3. Queue(s)[k] = Queue(r)[k]
      BY <1>1, <2>1, <3>1, <3>2, QueueSeq
    <3> QED BY <1>6, <3>1, <3>3
  <2> QED BY <2>2, <2>3
<1> HIDE DEF s, n, T
<1>9. Queue(s) = Append(Queue(r), p)
  BY <1>6, <1>7, <1>8, SeqEqual
<1> QED BY <1>2, <1>9 DEF s, n

\* receive() takes the first.
LEMMA ReceiveQueue ==
  ASSUME NEW r \in LinkRecord, ~empty(r), length \in [Packets -> Nat],
         r.packets[r.read] \in Packets
  PROVE  /\ Queue(receive(r)) = Tail(Queue(r)) /\ Queue(r) # << >>
         /\ Occupancy(receive(r)) = Occupancy(r) - 1
<1> DEFINE s == receive(r)
           n == Occupancy(r)
           T == Packets \union {NULL}
<1>1. /\ s.packets = r.packets /\ s.read = Advance(r.read) /\ s.write = r.write
      /\ s \in LinkRecord /\ r.read \in Slots /\ r.write \in Slots /\ r.read # r.write
  BY ReceiveSlots DEF receive, LinkRecord, empty
<1>2. /\ Advance(r.read) \in Slots
      /\ Advance(r.read) = IF r.read = LINK_RING_SIZE - 1 THEN 0 ELSE r.read + 1
  BY <1>1, AdvanceSlot
<1>3. n \in Slots /\ n # 0 /\ n - 1 \in Nat
  <2>1. n \in Slots /\ n # 0
    BY EmptyQueue, QueueSlots
  <2> QED BY <2>1, LinkAssumption DEF Slots
<1>4. Occupancy(s) = n - 1
  <2> HIDE DEF s
  <2> QED BY <1>1, <1>2, LinkAssumption DEF Occupancy, Slots
<1>5. Queue(r) \in Seq(T) /\ Len(Queue(r)) = n /\ Queue(s) \in Seq(T) /\ Len(Queue(s)) = n - 1
  BY <1>1, <1>4, QueueSeq
<1>6. Queue(r) # << >>
  BY <1>3, <1>5
<1> DEFINE q == Queue(r)
           t == Tail(q)
<1>7. t \in Seq(T) /\ Len(t) = n - 1 /\ \A k \in 1 .. n - 1 : t[k] = q[k + 1]
  <2> HIDE DEF q, T, n
  <2>1. q \in Seq(T) /\ q # << >> /\ Len(q) = n
    BY <1>5, <1>6 DEF q
  <2>2. t \in Seq(T) /\ Len(t) = Len(q) - 1 /\ \A k \in 1 .. Len(t) : t[k] = q[k + 1]
    BY <2>1, HeadTailProperties
  <2> QED BY <2>1, <2>2
<1>8. ASSUME NEW k \in 1 .. n - 1 PROVE Queue(s)[k] = t[k]
  <2>1. k + 1 \in 1 .. n /\ k \in 1 .. n
    BY <1>3, <1>8, LinkAssumption DEF Slots
  <2>2. Slot(s, k) = Slot(r, k + 1)
    <3>1. Slot(s, k) = IF s.read + k - 1 < LINK_RING_SIZE THEN s.read + k - 1
                       ELSE s.read + k - 1 - LINK_RING_SIZE
      <4>1. k \in 1 .. Occupancy(s) + 1 /\ k \in 1 .. LINK_RING_SIZE
        BY <1>3, <1>4, <1>8, LinkAssumption DEF Slots
      <4> QED BY <1>1, <4>1, QueueSlots
    <3>2. Slot(r, k + 1) = IF r.read + k < LINK_RING_SIZE THEN r.read + k
                           ELSE r.read + k - LINK_RING_SIZE
      <4>1. k + 1 \in 1 .. n + 1 /\ k + 1 \in 1 .. LINK_RING_SIZE /\ r.read + (k + 1) - 1 = r.read + k
        BY <1>1, <1>3, <2>1, LinkAssumption DEF Slots
      <4> HIDE DEF n
      <4> QED BY <4>1, QueueSlots DEF n
    <3> HIDE DEF s, n
    <3> QED BY <1>1, <1>2, <1>3, <1>8, <3>1, <3>2, LinkAssumption DEF Slots
  <2>3. Queue(s)[k] = s.packets[Slot(s, k)]
    BY <1>1, <1>4, QueueSeq
  <2>4. q[k + 1] = r.packets[Slot(r, k + 1)]
    BY <2>1, QueueSeq
  <2> QED BY <1>1, <1>7, <2>2, <2>3, <2>4
<1> HIDE DEF s, n, T, t
<1>9. Queue(s) = t
  BY <1>5, <1>7, <1>8, SeqEqual
<1> QED BY <1>4, <1>6, <1>9 DEF s, n, t

-----------------------------------------------------------------------------
(* The links as queues.                                                    *)

Queues == [l \in Links |-> Queue(link[l])]
Lost   == [l \in Links |-> link[l].txdrop]

\* A link that does not exist holds nothing and has lost nothing.
Disposed == \A l \in Links \ live : link[l] = new

\* One link changes.
LEMMA OneQueue ==
  ASSUME link \in [Links -> LinkRecord], NEW l \in Links, NEW r,
         link' = [link EXCEPT ![l] = r]
  PROVE  /\ Queues' = [Queues EXCEPT ![l] = Queue(r)]
         /\ Lost' = [Lost EXCEPT ![l] = r.txdrop]
<1>1. \A m \in Links : link'[m] = IF m = l THEN r ELSE link[m]
  OBVIOUS
<1>2. Queues' = [Queues EXCEPT ![l] = Queue(r)]
  BY <1>1, Zenon DEF Queues
<1>3. Lost' = [Lost EXCEPT ![l] = r.txdrop]
  BY <1>1, Zenon DEF Lost
<1> QED BY <1>2, <1>3

\* A packet in hand is on no queue.
LEMMA NotWaiting ==
  ASSUME Inv, Disposed, NEW p \in hand
  PROVE  ~Fifo!Waiting(p)
<1> SUFFICES ASSUME NEW l \in Links, NEW i \in DOMAIN Queue(link[l]), Queue(link[l])[i] = p
             PROVE  FALSE
  BY DEF Fifo!Waiting
<1>1. link[l] \in LinkRecord
  BY DEF Inv, TypeOK
<1>2. i \in 1 .. Occupancy(link[l]) /\ Queue(link[l])[i] = link[l].packets[Slot(link[l], i)]
  BY <1>1, QueueSeq
<1>3. Slot(link[l], i) \in Occupied(link[l])
  BY <1>1, <1>2, QueueSlots
<1>4. l \in live
  <2>1. CASE l \notin live
    <3>1. Occupied(link[l]) = {}
      BY <2>1, NewSlots DEF Disposed
    <3> QED BY <1>3, <3>1
  <2> QED BY <2>1
<1>5. p \in OnLinks
  BY <1>2, <1>3, <1>4 DEF OnLinks, OnLink
<1> QED BY <1>5 DEF Inv, Ownership

\* receive() of a packet, by an app or by drop().
LEMMA Dequeues ==
  ASSUME Inv, NEW l \in live, ~empty(link[l]), link' = [link EXCEPT ![l] = receive(@)]
  PROVE  /\ Fifo!Dequeue(l)
         /\ link'[l].txpackets = link[l].txpackets
         /\ link'[l].rxpackets = link[l].rxpackets + 1
         /\ Occupancy(link'[l]) = Occupancy(link[l]) - 1
<1> DEFINE r == link[l]
<1>1. /\ l \in Links /\ r \in LinkRecord /\ length \in [Packets -> Nat]
      /\ link \in [Links -> LinkRecord]
  BY DEF Inv, TypeOK
<1>2. r.packets[r.read] \in Packets
  <2>1. r.read \in Occupied(r)
    BY <1>1, LinkAssumption DEF Occupied, LinkRecord, Slots, empty
  <2>2. r.packets[r.read] \in 0 .. PACKETS_ALLOCATED - 1
    BY <2>1 DEF Inv, Ownership, OnLinks, OnLink
  <2> QED BY <2>2, PacketAssumption DEF Inv, TypeOK, Packets
<1>3. link' = [link EXCEPT ![l] = receive(r)] /\ link'[l] = receive(r)
  BY <1>1
<1>4. /\ Queue(receive(r)) = Tail(Queue(r)) /\ Queue(r) # << >>
      /\ Occupancy(receive(r)) = Occupancy(r) - 1
  BY <1>1, <1>2, ReceiveQueue
<1>5. /\ receive(r).txdrop = r.txdrop /\ receive(r).txpackets = r.txpackets
      /\ receive(r).rxpackets = r.rxpackets + 1
  BY <1>1 DEF receive, LinkRecord
<1> HIDE DEF r
<1>6. Queues' = [Queues EXCEPT ![l] = Queue(receive(r))] /\ Lost' = [Lost EXCEPT ![l] = receive(r).txdrop]
  BY <1>1, <1>3, OneQueue
<1>7. Queues[l] = Queue(r) /\ Lost[l] = r.txdrop
  BY <1>1 DEF Queues, Lost, r
<1>8. Lost' = Lost
  BY <1>5, <1>6, <1>7 DEF Lost
<1>9. Queues' = [Queues EXCEPT ![l] = Tail(Queues[l])] /\ Queues[l] # << >>
  BY <1>4, <1>6, <1>7
<1>10. Fifo!Dequeue(l)
  BY <1>8, <1>9 DEF Fifo!Dequeue, Queues, Lost
<1> QED BY <1>3, <1>4, <1>5, <1>10 DEF r

\* transmit() to a link with room.
LEMMA Enqueues ==
  ASSUME Inv, Disposed, NEW l \in live, NEW p \in hand, ~full(link[l]),
         link' = [link EXCEPT ![l] = enqueue(@, p)]
  PROVE  /\ Fifo!Enqueue(l, p)
         /\ link'[l].txpackets = link[l].txpackets + 1
         /\ link'[l].rxpackets = link[l].rxpackets
         /\ Occupancy(link'[l]) = Occupancy(link[l]) + 1
<1> DEFINE r == link[l]
           s == enqueue(r, p)
<1>1. /\ l \in Links /\ r \in LinkRecord /\ length \in [Packets -> Nat]
      /\ link \in [Links -> LinkRecord] /\ p \in Packets
  BY DEF Inv, TypeOK
<1>2. link' = [link EXCEPT ![l] = s] /\ link'[l] = s
  BY <1>1
<1>3. /\ Queue(s) = Append(Queue(r), p) /\ Occupancy(s) = Occupancy(r) + 1
      /\ Occupancy(r) < LINK_MAX_PACKETS
  BY <1>1, EnqueueQueue
<1>4. /\ s.txdrop = r.txdrop /\ s.txpackets = r.txpackets + 1 /\ s.rxpackets = r.rxpackets
  BY <1>1 DEF enqueue, LinkRecord
<1> HIDE DEF r, s
<1>5. Queues' = [Queues EXCEPT ![l] = Queue(s)] /\ Lost' = [Lost EXCEPT ![l] = s.txdrop]
  BY <1>1, <1>2, OneQueue
<1>6. Queues[l] = Queue(r) /\ Lost[l] = r.txdrop /\ Len(Queue(r)) = Occupancy(r)
  BY <1>1, QueueSeq DEF Queues, Lost, r
<1>7. Lost' = Lost
  BY <1>4, <1>5, <1>6 DEF Lost
<1>8. Queues' = [Queues EXCEPT ![l] = Append(Queues[l], p)] /\ Len(Queues[l]) < LINK_MAX_PACKETS
  BY <1>3, <1>5, <1>6
<1>9. Fifo!Enqueue(l, p)
  BY <1>7, <1>8, NotWaiting DEF Fifo!Enqueue, Queues, Lost
<1> QED BY <1>2, <1>3, <1>4, <1>9 DEF r

\* transmit() to a full link.
LEMMA Refuses ==
  ASSUME Inv, NEW l \in live, full(link[l]), link' = [link EXCEPT ![l] = refuse(@)]
  PROVE  /\ Fifo!Refuse(l)
         /\ link'[l].txpackets = link[l].txpackets
         /\ link'[l].rxpackets = link[l].rxpackets
         /\ Occupancy(link'[l]) = Occupancy(link[l])
<1> DEFINE r == link[l]
           s == refuse(r)
<1>1. l \in Links /\ r \in LinkRecord /\ link \in [Links -> LinkRecord]
  BY DEF Inv, TypeOK
<1>2. link' = [link EXCEPT ![l] = s] /\ link'[l] = s
  BY <1>1
<1>3. /\ s.packets = r.packets /\ s.read = r.read /\ s.write = r.write
      /\ s.txdrop = r.txdrop + 1 /\ s.txpackets = r.txpackets /\ s.rxpackets = r.rxpackets
  BY <1>1 DEF refuse, LinkRecord
<1>4. Occupancy(r) = LINK_MAX_PACKETS
  BY <1>1, EmptyQueue
<1> HIDE DEF r, s
<1>5. Queue(s) = Queue(r) /\ Occupancy(s) = Occupancy(r)
  BY <1>3, SameQueue
<1>6. Queues' = [Queues EXCEPT ![l] = Queue(s)] /\ Lost' = [Lost EXCEPT ![l] = s.txdrop]
  BY <1>1, <1>2, OneQueue
<1>7. Queues[l] = Queue(r) /\ Lost[l] = r.txdrop /\ Len(Queue(r)) = Occupancy(r)
  BY <1>1, QueueSeq DEF Queues, Lost, r
<1>8. Queues' = Queues
  BY <1>5, <1>6, <1>7 DEF Queues
<1>9. Lost' = [Lost EXCEPT ![l] = Lost[l] + 1] /\ Len(Queues[l]) = LINK_MAX_PACKETS
  BY <1>3, <1>4, <1>6, <1>7
<1>10. Fifo!Refuse(l)
  BY <1>8, <1>9 DEF Fifo!Refuse, Queues, Lost
<1> QED BY <1>2, <1>3, <1>5, <1>10 DEF r

\* The memory of an empty link is released.
LEMMA Disposes ==
  ASSUME Inv, NEW l \in live, empty(link[l]), link' = [link EXCEPT ![l] = new]
  PROVE  Fifo!Dispose(l)
<1>1. l \in Links /\ link[l] \in LinkRecord /\ link \in [Links -> LinkRecord]
  BY DEF Inv, TypeOK
<1>2. Queue(link[l]) = << >> /\ Queue(new) = << >> /\ new.txdrop = 0
  <2>1. new \in LinkRecord /\ empty(new) /\ new.txdrop = 0
    BY NewSlots DEF empty, new
  <2> QED BY <1>1, <2>1, EmptyQueue
<1>3. Queues' = [Queues EXCEPT ![l] = << >>] /\ Lost' = [Lost EXCEPT ![l] = 0]
  BY <1>1, <1>2, OneQueue
<1>4. Queues[l] = << >> /\ Queues' = Queues
  BY <1>1, <1>2, <1>3 DEF Queues
<1> QED BY <1>3, <1>4 DEF Fifo!Dispose, Queues, Lost

\* What a step does to the links.
LinkSteps ==
  \/ UNCHANGED <<live, link>>
  \/ \E l \in Links \ live : live' = live \union {l} /\ link' = [link EXCEPT ![l] = new]
  \/ \E l \in live :
       \/ live' = live /\ full(link[l]) /\ link' = [link EXCEPT ![l] = refuse(@)]
       \/ /\ live' = live /\ ~full(link[l])
          /\ \E p \in hand : link' = [link EXCEPT ![l] = enqueue(@, p)]
       \/ live' = live /\ ~empty(link[l]) /\ link' = [link EXCEPT ![l] = receive(@)]
       \/ live' = live \ {l} /\ empty(link[l]) /\ link' = [link EXCEPT ![l] = new]

\* Every step is one of these.
LEMMA NextLinkSteps ==
  ASSUME Inv, [Next]_vars
  PROVE  LinkSteps
<1>1. CASE UNCHANGED <<live, link>>
  BY <1>1 DEF LinkSteps
<1>2. CASE PacketStep /\ UNCHANGED linkVars
  BY <1>1, <1>2 DEF linkVars
<1>3. ASSUME NEW l \in Links, NewLink(l) PROVE LinkSteps
  BY <1>3 DEF NewLink, LinkSteps
<1>4. ASSUME NEW l \in live, NEW p \in hand, Transmit(l, p) PROVE LinkSteps
  BY <1>4 DEF Transmit, LinkSteps
<1>5. ASSUME NEW l \in live, Receive(l) PROVE LinkSteps
  <2>1. CASE link' = link
    BY <1>1, <1>5, <2>1 DEF Receive, linkVars
  <2>2. CASE live' = live /\ ~empty(link[l]) /\ link' = [link EXCEPT ![l] = receive(@)]
    BY <2>2 DEF LinkSteps
  <2> QED BY <1>5, <2>1, <2>2 DEF Receive, linkVars
<1>6. ASSUME NEW l \in live, DropLink(l) PROVE LinkSteps
  BY <1>1, <1>6 DEF DropLink
<1>7. ASSUME NEW l \in dropping, Drain(l) \/ Dropped(l) PROVE LinkSteps
  <2>1. l \in live
    BY DEF Inv, TypeOK
  <2>2. CASE Drain(l)
    BY <2>1, <2>2 DEF Drain, LinkSteps
  <2>3. CASE Dropped(l)
    BY <2>1, <2>3 DEF Dropped, LinkSteps
  <2> QED BY <1>7, <2>2, <2>3
<1>8. CASE UNCHANGED vars
  BY <1>1, <1>8 DEF vars, linkVars
<1> QED BY <1>2, <1>3, <1>4, <1>5, <1>6, <1>7, <1>8 DEF Next, DropStep

\* Links that do not exist stay empty.
LEMMA DisposedStep ==
  ASSUME Inv, Disposed, LinkSteps
  PROVE  Disposed'
<1> USE DEF Disposed
<1>1. link \in [Links -> LinkRecord] /\ live \subseteq Links
  BY DEF Inv, TypeOK
<1>2. CASE UNCHANGED <<live, link>>
  BY <1>2
<1>3. ASSUME NEW l \in Links \ live, live' = live \union {l}, link' = [link EXCEPT ![l] = new]
      PROVE  Disposed'
  BY <1>1, <1>3
<1>4. ASSUME NEW l \in live, live' = live, NEW r, link' = [link EXCEPT ![l] = r]
      PROVE  Disposed'
  BY <1>1, <1>4
<1>5. ASSUME NEW l \in live, live' = live \ {l}, link' = [link EXCEPT ![l] = new]
      PROVE  Disposed'
  BY <1>1, <1>5
<1> QED BY <1>2, <1>3, <1>4, <1>5 DEF LinkSteps

\* Every step is one of the queues, or leaves them alone.
LEMMA FifoStep ==
  ASSUME Inv, Disposed, LinkSteps
  PROVE  [Fifo!Next]_<<Queues, Lost>>
<1>1. live \subseteq Links /\ hand \subseteq Packets /\ link \in [Links -> LinkRecord]
  BY DEF Inv, TypeOK
<1>2. CASE UNCHANGED <<live, link>>
  BY <1>2 DEF Queues, Lost
<1>3. ASSUME NEW l \in Links \ live, link' = [link EXCEPT ![l] = new]
      PROVE  UNCHANGED <<Queues, Lost>>
  <2>1. link' = link
    BY <1>1, <1>3 DEF Disposed
  <2> QED BY <2>1 DEF Queues, Lost
<1>4. ASSUME NEW l \in live, full(link[l]), link' = [link EXCEPT ![l] = refuse(@)]
      PROVE  Fifo!Next
  BY <1>1, <1>4, Refuses DEF Fifo!Next
<1>5. ASSUME NEW l \in live, NEW p \in hand, ~full(link[l]),
             link' = [link EXCEPT ![l] = enqueue(@, p)]
      PROVE  Fifo!Next
  BY <1>1, <1>5, Enqueues DEF Fifo!Next
<1>6. ASSUME NEW l \in live, ~empty(link[l]), link' = [link EXCEPT ![l] = receive(@)]
      PROVE  Fifo!Next
  BY <1>1, <1>6, Dequeues DEF Fifo!Next
<1>7. ASSUME NEW l \in live, empty(link[l]), link' = [link EXCEPT ![l] = new]
      PROVE  Fifo!Next
  BY <1>1, <1>7, Disposes DEF Fifo!Next
<1> QED BY <1>2, <1>3, <1>4, <1>5, <1>6, <1>7 DEF LinkSteps

\* Links are bounded first-in first-out queues, however their cursors wrap:
\* no packet overtakes another, is queued twice or is lost but by a full link.
THEOREM LinksAreQueues == Spec => ImplementsFifo
<1>1. Init => Disposed
  BY DEF Init, Disposed
<1>2. Inv /\ Disposed /\ [Next]_vars => Disposed'
  BY NextLinkSteps, DisposedStep
<1>3. Init => Fifo!Init
  <2> SUFFICES ASSUME Init PROVE Fifo!Init
    OBVIOUS
  <2>1. new \in LinkRecord /\ empty(new) /\ new.txdrop = 0
    BY NewSlots DEF empty, new
  <2>2. Queue(new) = << >>
    BY <2>1, EmptyQueue
  <2>3. \A l \in Links : link[l] = new
    BY DEF Init
  <2> QED BY <2>1, <2>2, <2>3 DEF Fifo!Init
<1>4. Inv /\ Disposed /\ [Next]_vars => [Fifo!Next]_(Fifo!fifoVars)
  BY NextLinkSteps, FifoStep DEF Fifo!fifoVars, Queues, Lost
<1> QED
  BY <1>1, <1>2, <1>3, <1>4, Invariance, PTL DEF Spec, ImplementsFifo, Fifo!Spec

\* The counters of a link are those of the packets it holds.
THEOREM CountersAgree == Spec => []PacketsAccounted
<1>1. Init => PacketsAccounted /\ Disposed
  BY DEF Init, PacketsAccounted, Disposed
<1>2. ASSUME Inv, Disposed, PacketsAccounted, LinkSteps
      PROVE  PacketsAccounted'
  <2>1. live \subseteq Links /\ link \in [Links -> LinkRecord]
    BY <1>2 DEF Inv, TypeOK
  <2>2. \A r \in LinkRecord :
          r.txpackets \in Nat /\ r.rxpackets \in Nat /\ Occupancy(r) \in Nat
    <3>1. \A r \in LinkRecord : Occupancy(r) \in Nat
      BY QueueSlots, LinkAssumption DEF Slots
    <3> QED BY <3>1 DEF LinkRecord
  <2>3. CASE UNCHANGED <<live, link>>
    BY <1>2, <2>3 DEF PacketsAccounted
  <2>4. ASSUME NEW l \in Links \ live, live' = live \union {l},
               link' = [link EXCEPT ![l] = new]
        PROVE  PacketsAccounted'
    <3>1. new.txpackets = new.rxpackets + Occupancy(new)
      BY DEF new, Occupancy
    <3> QED BY <1>2, <2>1, <2>4, <3>1 DEF PacketsAccounted
  <2>5. ASSUME NEW l \in live, live' = live, NEW r, link' = [link EXCEPT ![l] = r],
               r.txpackets = r.rxpackets + Occupancy(r)
        PROVE  PacketsAccounted'
    BY <1>2, <2>1, <2>5 DEF PacketsAccounted
  <2>6. ASSUME NEW l \in live, live' = live \ {l}, link' = [link EXCEPT ![l] = new]
        PROVE  PacketsAccounted'
    BY <1>2, <2>1, <2>6 DEF PacketsAccounted
  <2>7. ASSUME NEW l \in live, live' = live, full(link[l]),
               link' = [link EXCEPT ![l] = refuse(@)]
        PROVE  PacketsAccounted'
    <3>1. link'[l].txpackets = link'[l].rxpackets + Occupancy(link'[l])
      BY <1>2, <2>7, Refuses DEF PacketsAccounted
    <3> QED BY <2>1, <2>5, <2>7, <3>1
  <2>8. ASSUME NEW l \in live, live' = live, ~full(link[l]), NEW p \in hand,
               link' = [link EXCEPT ![l] = enqueue(@, p)]
        PROVE  PacketsAccounted'
    <3> DEFINE t == link[l].txpackets
               x == link[l].rxpackets
               o == Occupancy(link[l])
    <3>1. x \in Nat /\ o \in Nat /\ t = x + o
      BY <1>2, <2>1, <2>2 DEF PacketsAccounted
    <3>2. /\ link'[l].txpackets = t + 1 /\ link'[l].rxpackets = x
          /\ Occupancy(link'[l]) = o + 1
      BY <1>2, <2>8, Enqueues
    <3> HIDE DEF t, x, o
    <3>3. link'[l].txpackets = link'[l].rxpackets + Occupancy(link'[l])
      BY <3>1, <3>2
    <3> QED BY <2>1, <2>5, <2>8, <3>3
  <2>9. ASSUME NEW l \in live, live' = live, ~empty(link[l]),
               link' = [link EXCEPT ![l] = receive(@)]
        PROVE  PacketsAccounted'
    <3> DEFINE t == link[l].txpackets
               x == link[l].rxpackets
               o == Occupancy(link[l])
    <3>1. x \in Nat /\ o \in Nat /\ t = x + o
      BY <1>2, <2>1, <2>2 DEF PacketsAccounted
    <3>2. /\ link'[l].txpackets = t /\ link'[l].rxpackets = x + 1
          /\ Occupancy(link'[l]) = o - 1
      BY <1>2, <2>9, Dequeues
    <3> HIDE DEF t, x, o
    <3>3. link'[l].txpackets = link'[l].rxpackets + Occupancy(link'[l])
      BY <3>1, <3>2
    <3> QED BY <2>1, <2>5, <2>9, <3>3
  <2> QED BY <1>2, <2>3, <2>4, <2>6, <2>7, <2>8, <2>9 DEF LinkSteps
<1>3. Inv /\ Disposed /\ PacketsAccounted /\ [Next]_vars => (Disposed /\ PacketsAccounted)'
  BY <1>2, NextLinkSteps, DisposedStep
<1> QED BY <1>1, <1>3, Invariance, PTL DEF Spec

-----------------------------------------------------------------------------
(* The bytes of a queue.                                                   *)

\* Induction up to n.
LEMMA Induction ==
  ASSUME NEW n \in Nat, NEW T, 0 \in T, \A k \in 1 .. n : k - 1 \in T => k \in T
  PROVE  0 .. n \subseteq T
<1> SUFFICES ASSUME (0 .. n) \ T # {} PROVE FALSE
  OBVIOUS
<1> DEFINE U == (0 .. n) \ T
           L == OpToRel(<, Nat)
<1>1. IsWellFoundedOn(L, Nat)
  BY NatLessThanWellFounded
<1>2. \A x, y \in Nat : y < x => <<y, x>> \in L
  BY DEF OpToRel
<1>3. U \subseteq Nat /\ U # {}
  OBVIOUS
<1> HIDE DEF L, U
<1>4. PICK x \in U : \A y \in U : ~ (<<y, x>> \in L)
  BY <1>1, <1>3, WFMin
<1>5. x \in 1 .. n /\ x \in Nat /\ x - 1 \in Nat /\ x - 1 < x /\ x \notin T
  BY <1>4 DEF U
<1>6. x - 1 \notin U
  BY <1>2, <1>4, <1>5
<1>7. x - 1 \in 0 .. n
  BY <1>5
<1> QED BY <1>5, <1>6, <1>7 DEF U

\* f[k] is how many bytes the first k packets are, of n.
Totals(f, lengths, queue, n) ==
  /\ f[0] = 0
  /\ \A k \in 1 .. n : f[k] = f[k - 1] + lengths[queue[k]]
  /\ \A k \in 0 .. n : f[k] \in Nat

\* The function Bytes() computes.
IsTotals(f, lengths, queue, n) ==
  f = [k \in 0 .. n |-> IF k = 0 THEN 0 ELSE f[k - 1] + lengths[queue[k]]]

\* The function of Bytes() exists.
LEMMA TotalsExist ==
  ASSUME NEW lengths \in [Packets -> Nat], NEW queue \in Seq(Packets)
  PROVE  \E f : IsTotals(f, lengths, queue, Len(queue))
<1> DEFINE n == Len(queue)
           T == {m \in 0 .. n : \E f : IsTotals(f, lengths, queue, m)}
<1>1. n \in Nat
  OBVIOUS
<1> HIDE DEF n
<1>2. 0 \in T
  <2> DEFINE g == [k \in 0 .. 0 |-> 0]
  <2>1. IsTotals(g, lengths, queue, 0)
    BY DEF IsTotals
  <2> HIDE DEF g
  <2> QED BY <1>1, <2>1
<1>3. ASSUME NEW m \in 1 .. n, m - 1 \in T PROVE m \in T
  <2>1. PICK f : IsTotals(f, lengths, queue, m - 1)
    BY <1>3
  <2> DEFINE x == lengths[queue[m]]
             g == [k \in 0 .. m |-> IF k = m THEN f[m - 1] + x ELSE f[k]]
  <2>2. ASSUME NEW k \in 0 .. m
        PROVE  g[k] = IF k = 0 THEN 0 ELSE g[k - 1] + lengths[queue[k]]
    <3>1. CASE k = m
      <4>1. m # 0 /\ m - 1 \in 0 .. m /\ m - 1 # m
        OBVIOUS
      <4> QED BY <3>1, <4>1
    <3>2. CASE k # m
      <4>1. k \in 0 .. m - 1
        BY <3>2
      <4>2. f[k] = IF k = 0 THEN 0 ELSE f[k - 1] + lengths[queue[k]]
        BY <2>1, <4>1 DEF IsTotals
      <4>3. k # 0 => k - 1 \in 0 .. m /\ k - 1 # m
        BY <4>1
      <4> QED BY <3>2, <4>2, <4>3
    <3> QED BY <3>1, <3>2
  <2>3. g = [k \in 0 .. m |-> g[k]]
    OBVIOUS
  <2> HIDE DEF g
  <2>4. IsTotals(g, lengths, queue, m)
    BY <2>2, <2>3 DEF IsTotals
  <2> QED BY <2>4
<1> HIDE DEF T
<1>4. 0 .. n \subseteq T
  BY <1>1, <1>2, <1>3, Induction
<1>5. n \in T
  BY <1>1, <1>4
<1> QED BY <1>5 DEF T, n

\* Bytes() is the last total.
LEMMA BytesTotals ==
  ASSUME NEW lengths \in [Packets -> Nat], NEW queue \in Seq(Packets)
  PROVE  \E f : /\ Totals(f, lengths, queue, Len(queue))
                /\ Bytes(lengths, queue) = f[Len(queue)]
<1> DEFINE sum[k \in 0 .. Len(queue)] ==
             IF k = 0 THEN 0 ELSE sum[k - 1] + lengths[queue[k]]
<1>1. sum = CHOOSE f : IsTotals(f, lengths, queue, Len(queue))
  BY DEF sum, IsTotals
<1>2. Bytes(lengths, queue) = sum[Len(queue)]
  BY DEF Bytes
<1> HIDE DEF sum
<1>3. IsTotals(sum, lengths, queue, Len(queue))
  BY <1>1, TotalsExist, Zenon
<1>4. Len(queue) \in Nat
  OBVIOUS
<1> DEFINE n == Len(queue)
<1> HIDE DEF n
<1>5. sum[0] = 0
  BY <1>3, <1>4 DEF IsTotals, n
<1>6. \A k \in 1 .. n : sum[k] = sum[k - 1] + lengths[queue[k]]
  <2>1. \A k \in 1 .. n : k \in 0 .. n /\ k # 0
    BY <1>4 DEF n
  <2> QED BY <1>3, <2>1 DEF IsTotals, n
<1>7. \A k \in 0 .. n : sum[k] \in Nat
  <2> DEFINE T == {k \in 0 .. n : sum[k] \in Nat}
  <2>1. 0 \in T
    BY <1>4, <1>5 DEF n
  <2>2. ASSUME NEW k \in 1 .. n, k - 1 \in T PROVE k \in T
    <3>1. lengths[queue[k]] \in Nat
      BY DEF n
    <3> QED BY <1>6, <2>2, <3>1
  <2> HIDE DEF T
  <2>3. 0 .. n \subseteq T
    BY <1>4, <2>1, <2>2, Induction DEF n
  <2> QED BY <2>3 DEF T
<1>8. Totals(sum, lengths, queue, Len(queue))
  BY <1>5, <1>6, <1>7 DEF Totals, n
<1> QED BY <1>2, <1>8

\* The totals of packets of the same lengths are the same.
LEMMA SameTotals ==
  ASSUME NEW n \in Nat, NEW f, NEW g, NEW lengths, NEW others, NEW queue, NEW rest,
         Totals(f, lengths, queue, n), Totals(g, others, rest, n),
         \A k \in 1 .. n : lengths[queue[k]] = others[rest[k]]
  PROVE  f[n] = g[n]
<1> DEFINE T == {k \in 0 .. n : f[k] = g[k]}
<1>1. 0 \in T
  BY DEF Totals
<1>2. ASSUME NEW k \in 1 .. n, k - 1 \in T PROVE k \in T
  BY <1>2 DEF Totals
<1> HIDE DEF T
<1>3. 0 .. n \subseteq T
  BY <1>1, <1>2, Induction
<1> QED BY <1>3 DEF T

\* An empty queue has no bytes.
LEMMA BytesEmpty ==
  ASSUME NEW lengths \in [Packets -> Nat]
  PROVE  Bytes(lengths, << >>) = 0
<1>1. << >> \in Seq(Packets) /\ Len(<< >>) = 0
  OBVIOUS
<1>2. PICK f : Totals(f, lengths, << >>, 0) /\ Bytes(lengths, << >>) = f[0]
  BY <1>1, BytesTotals
<1> QED BY <1>2 DEF Totals

\* The bytes of a queue are a number.
LEMMA BytesNat ==
  ASSUME NEW lengths \in [Packets -> Nat], NEW queue \in Seq(Packets)
  PROVE  Bytes(lengths, queue) \in Nat
<1>1. PICK f : /\ Totals(f, lengths, queue, Len(queue))
               /\ Bytes(lengths, queue) = f[Len(queue)]
  BY BytesTotals
<1>2. Len(queue) \in 0 .. Len(queue)
  OBVIOUS
<1> QED BY <1>1, <1>2 DEF Totals

\* Only the lengths of the packets queued matter.
LEMMA BytesSame ==
  ASSUME NEW lengths \in [Packets -> Nat], NEW others \in [Packets -> Nat],
         NEW queue \in Seq(Packets),
         \A k \in 1 .. Len(queue) : lengths[queue[k]] = others[queue[k]]
  PROVE  Bytes(lengths, queue) = Bytes(others, queue)
<1>1. PICK f : /\ Totals(f, lengths, queue, Len(queue))
               /\ Bytes(lengths, queue) = f[Len(queue)]
  BY BytesTotals
<1>2. PICK g : /\ Totals(g, others, queue, Len(queue))
               /\ Bytes(others, queue) = g[Len(queue)]
  BY BytesTotals
<1>3. Len(queue) \in Nat
  OBVIOUS
<1>4. f[Len(queue)] = g[Len(queue)]
  BY <1>1, <1>2, <1>3, SameTotals
<1> QED BY <1>1, <1>2, <1>4

\* One more packet at the end.
LEMMA BytesAppend ==
  ASSUME NEW lengths \in [Packets -> Nat], NEW queue \in Seq(Packets), NEW p \in Packets
  PROVE  Bytes(lengths, Append(queue, p)) = Bytes(lengths, queue) + lengths[p]
<1> DEFINE n == Len(queue)
           s == Append(queue, p)
<1>1. /\ n \in Nat /\ s \in Seq(Packets) /\ Len(s) = n + 1 /\ s[n + 1] = p
      /\ \A k \in 1 .. n : s[k] = queue[k]
  OBVIOUS
<1>2. PICK f : Totals(f, lengths, queue, n) /\ Bytes(lengths, queue) = f[n]
  BY BytesTotals
<1> HIDE DEF s
<1>3. PICK g : Totals(g, lengths, s, Len(s)) /\ Bytes(lengths, s) = g[Len(s)]
  BY <1>1, BytesTotals
<1> HIDE DEF n
<1>4. Totals(g, lengths, s, n)
  BY <1>1, <1>3 DEF Totals
<1>5. f[n] = g[n]
  BY <1>1, <1>2, <1>4, SameTotals
<1>6. g[n + 1] = g[n] + lengths[p]
  <2>1. n + 1 \in 1 .. Len(s) /\ (n + 1) - 1 = n
    BY <1>1
  <2>2. g[n + 1] = g[(n + 1) - 1] + lengths[s[n + 1]]
    BY <1>3, <2>1 DEF Totals
  <2> QED BY <1>1, <2>1, <2>2
<1> QED BY <1>1, <1>2, <1>3, <1>5, <1>6 DEF s

\* One packet less at the front.
LEMMA BytesTail ==
  ASSUME NEW lengths \in [Packets -> Nat], NEW queue \in Seq(Packets), queue # << >>
  PROVE  Bytes(lengths, queue) = lengths[queue[1]] + Bytes(lengths, Tail(queue))
<1> DEFINE t == Tail(queue)
           n == Len(t)
<1>1. /\ t \in Seq(Packets) /\ Len(t) = Len(queue) - 1
      /\ \A k \in 1 .. Len(t) : t[k] = queue[k + 1]
  BY HeadTailProperties
<1>2. n \in Nat /\ Len(queue) = n + 1 /\ \A k \in 1 .. n : t[k] = queue[k + 1]
  BY <1>1
<1> HIDE DEF t
<1>3. PICK f : Totals(f, lengths, queue, Len(queue)) /\ Bytes(lengths, queue) = f[Len(queue)]
  BY BytesTotals
<1>4. PICK g : Totals(g, lengths, t, n) /\ Bytes(lengths, t) = g[n]
  BY <1>1, BytesTotals
<1> DEFINE x == lengths[queue[1]]
<1>5. x \in Nat
  <2>1. 1 \in 1 .. Len(queue)
    BY <1>2
  <2> QED BY <2>1
<1> HIDE DEF n, x
<1> DEFINE T == {k \in 0 .. n : f[k + 1] = x + g[k]}
<1>6. 0 \in T
  <2>1. 1 \in 1 .. Len(queue) /\ 1 - 1 = 0 /\ 0 + 1 = 1 /\ 0 \in 0 .. n
    BY <1>2
  <2>2. f[1] = f[1 - 1] + x
    BY <1>3, <2>1 DEF Totals, x
  <2>3. f[0] = 0 /\ g[0] = 0
    BY <1>3, <1>4 DEF Totals
  <2> QED BY <1>5, <2>1, <2>2, <2>3
<1>7. ASSUME NEW k \in 1 .. n, k - 1 \in T PROVE k \in T
  <2> DEFINE y == lengths[queue[k + 1]]
  <2>1. k + 1 \in 1 .. Len(queue) /\ (k + 1) - 1 = k /\ (k - 1) + 1 = k /\ k - 1 \in 0 .. n
    BY <1>2
  <2>2. f[k + 1] = f[k] + y
    <3>1. f[k + 1] = f[(k + 1) - 1] + y
      BY <1>3, <2>1 DEF Totals
    <3> QED BY <2>1, <3>1
  <2>3. g[k] = g[k - 1] + y
    BY <1>2, <1>4 DEF Totals
  <2>4. y \in Nat /\ g[k - 1] \in Nat
    BY <1>4, <2>1 DEF Totals
  <2>5. f[k] = x + g[k - 1]
    BY <1>7, <2>1
  <2> HIDE DEF y
  <2>6. f[k + 1] = x + g[k]
    BY <1>5, <2>2, <2>3, <2>4, <2>5
  <2> QED BY <2>6
<1> HIDE DEF T
<1>8. 0 .. n \subseteq T
  BY <1>2, <1>6, <1>7, Induction
<1>9. f[n + 1] = x + g[n]
  BY <1>2, <1>8 DEF T
<1> QED BY <1>2, <1>3, <1>4, <1>9 DEF t, x

\* What waits on a link that exists is packets.
QueuesHold ==
  \A l \in live :
     /\ Queue(link[l]) \in Seq(Packets)
     /\ \A k \in 1 .. Len(Queue(link[l])) : Queue(link[l])[k] \in OnLinks

\* The invariant says so.
LEMMA QueuePackets == Inv => QueuesHold
<1> SUFFICES ASSUME Inv, NEW l \in live
             PROVE  /\ Queue(link[l]) \in Seq(Packets)
                    /\ \A k \in 1 .. Len(Queue(link[l])) : Queue(link[l])[k] \in OnLinks
  BY DEF QueuesHold
<1> DEFINE r == link[l]
           q == Queue(r)
<1>1. r \in LinkRecord
  BY DEF Inv, TypeOK
<1>2. /\ q \in Seq(Packets \union {NULL}) /\ Len(q) = Occupancy(r)
      /\ \A k \in 1 .. Occupancy(r) : q[k] = r.packets[Slot(r, k)]
  BY <1>1, QueueSeq
<1>3. \A k \in 1 .. Len(q) : q[k] \in OnLinks
  <2>1. \A k \in 1 .. Occupancy(r) : Slot(r, k) \in Occupied(r)
    BY <1>1, QueueSlots
  <2> HIDE DEF q
  <2> QED BY <1>2, <2>1 DEF OnLinks, OnLink
<1>4. OnLinks \subseteq Packets
  <2>1. OnLinks \subseteq 0 .. PACKETS_ALLOCATED - 1
    BY DEF Inv, Ownership
  <2>2. PACKETS_ALLOCATED \in 0 .. MAX_PACKETS
    BY DEF Inv, TypeOK
  <2> QED BY <2>1, <2>2, PacketAssumption DEF Packets
<1> HIDE DEF q
<1>5. q \in Seq(Packets)
  <2>1. \A k \in 1 .. Len(q) : q[k] \in Packets
    BY <1>3, <1>4
  <2>2. q \in [1 .. Len(q) -> Packets] /\ Len(q) \in Nat
    BY <1>2, <2>1
  <2> QED BY <2>2
<1> QED BY <1>3, <1>5 DEF q

\* A packet that is freed is on the freelist then.
LEMMA FreedLength ==
  ASSUME Inv, NEW p \in Packets, free(p)
  PROVE  /\ p \in OnFreelist' \/ length' = length
         /\ \A q \in Packets : q # p => length'[q] = length[q]
<1>1. /\ list \in [Packets -> Packets \union {NULL}] /\ length \in [Packets -> Nat]
      /\ nfree \in 0 .. MAX_PACKETS
  BY DEF Inv, TypeOK
<1>2. CASE /\ nfree < MAX_PACKETS /\ length' = [length EXCEPT ![p] = 0]
           /\ list' = [list EXCEPT ![nfree] = p] /\ nfree' = nfree + 1
  <2>1. nfree \in Packets /\ nfree \in 0 .. nfree' - 1
    BY <1>1, <1>2, PacketAssumption DEF Packets
  <2>2. list'[nfree] = p
    BY <1>1, <1>2, <2>1
  <2>3. p \in OnFreelist'
    BY <2>1, <2>2 DEF OnFreelist
  <2> QED BY <1>1, <1>2, <2>3
<1>3. CASE UNCHANGED <<freelist, length>>
  BY <1>3
<1> QED BY <1>2, <1>3 DEF free, free_internal

\* No step changes the length of a packet that waits on a link after it.
LEMMA LengthKept ==
  ASSUME Inv, Inv', [Next]_vars
  PROVE  \A q \in OnLinks' : length'[q] = length[q]
<1>1. \A q \in OnLinks' : q \in Packets /\ q \notin hand' /\ q \notin OnFreelist'
  <2>1. /\ OnFreelist' \intersect OnLinks' = {} /\ hand' \intersect OnLinks' = {}
        /\ OnLinks' \subseteq 0 .. PACKETS_ALLOCATED' - 1
    BY DEF Inv, Ownership
  <2>2. PACKETS_ALLOCATED' \in 0 .. MAX_PACKETS
    BY DEF Inv, TypeOK
  <2>3. \A q \in OnLinks' : q \in Packets
    <3>1. PICK n \in 0 .. MAX_PACKETS : n = PACKETS_ALLOCATED'
      BY <2>2
    <3>2. MAX_PACKETS \in Nat
      BY PacketAssumption
    <3>3. \A q \in 0 .. n - 1 : q \in 0 .. MAX_PACKETS - 1
      BY <3>2
    <3> QED BY <2>1, <3>1, <3>3 DEF Packets
  <2>4. \A q \in OnLinks' : q \notin hand' /\ q \notin OnFreelist'
    BY <2>1
  <2> QED BY <2>3, <2>4
<1>2. length \in [Packets -> Nat] /\ hand \subseteq Packets
  BY DEF Inv, TypeOK
<1> SUFFICES ASSUME NEW q \in Packets, q \notin hand', q \notin OnFreelist'
             PROVE  length'[q] = length[q]
  BY <1>1
<1>3. CASE length' = length
  BY <1>3
<1>4. ASSUME NEW p \in Packets, free(p) PROVE length'[q] = length[q]
  BY <1>4, FreedLength
<1>5. CASE PacketStep
  <2>1. ASSUME NEW p \in hand, NEW n \in Lengths, Fill(p, n) PROVE length'[q] = length[q]
    <3>1. length' = [length EXCEPT ![p] = n] /\ hand' = hand
      BY <2>1 DEF Fill
    <3>2. q # p
      BY <3>1
    <3> QED BY <1>2, <3>1, <3>2
  <2>2. ASSUME NEW p \in hand, Clone(p) PROVE length'[q] = length[q]
    <3>1. CASE length' = length
      BY <3>1
    <3>2. ASSUME NEW copy \in Packets, hand' = hand \union {copy},
                 length' = [length EXCEPT ![copy] = length[p]]
          PROVE  length'[q] = length[q]
      <4>1. q # copy
        BY <3>2
      <4> QED BY <1>2, <3>2, <4>1
    <3> QED BY <2>2, <3>1, <3>2 DEF Clone
  <2>3. ASSUME NEW p \in hand, Free(p) PROVE length'[q] = length[q]
    BY <1>2, <1>4, <2>3 DEF Free
  <2>4. ASSUME NEW p \in hand, Leak(p) PROVE length'[q] = length[q]
    BY <2>4 DEF Leak
  <2>5. CASE Allocate
    BY <2>5 DEF Allocate
  <2> QED BY <1>5, <2>1, <2>2, <2>3, <2>4, <2>5 DEF PacketStep
<1>6. ASSUME NEW l \in Links, NewLink(l) PROVE length'[q] = length[q]
  BY <1>6 DEF NewLink, packetVars
<1>7. ASSUME NEW l \in live, NEW p \in hand, Transmit(l, p) PROVE length'[q] = length[q]
  BY <1>2, <1>4, <1>7 DEF Transmit
<1>8. ASSUME NEW l \in live, Receive(l) PROVE length'[q] = length[q]
  BY <1>8 DEF Receive
<1>9. ASSUME NEW l \in live, DropLink(l) PROVE length'[q] = length[q]
  BY <1>9 DEF DropLink, packetVars
<1>10. ASSUME NEW l \in dropping, Drain(l) PROVE length'[q] = length[q]
  <2>1. l \in live /\ link[l] \in LinkRecord
    BY DEF Inv, TypeOK
  <2>2. link[l].packets[link[l].read] \in Packets
    <3>1. link[l].read \in Occupied(link[l])
      BY <1>10, <2>1, LinkAssumption DEF Drain, Occupied, LinkRecord, Slots, empty
    <3>2. link[l].packets[link[l].read] \in 0 .. PACKETS_ALLOCATED - 1
      BY <2>1, <3>1 DEF Inv, Ownership, OnLinks, OnLink
    <3> QED BY <3>2, PacketAssumption DEF Inv, TypeOK, Packets
  <2> QED BY <1>4, <1>10, <2>2 DEF Drain
<1>11. ASSUME NEW l \in dropping, Dropped(l) PROVE length'[q] = length[q]
  BY <1>11 DEF Dropped, packetVars
<1>12. CASE UNCHANGED vars
  BY <1>12 DEF vars, packetVars
<1> QED BY <1>5, <1>6, <1>7, <1>8, <1>9, <1>10, <1>11, <1>12 DEF Next, DropStep

\* The byte counters of a link agree with the lengths before the step.
Balanced(r) == r.txbytes = r.rxbytes + Bytes(length, Queue(r))

\* Every step of the links keeps the counters and the queues in balance.
LEMMA BalancedStep ==
  ASSUME Inv, LinkSteps, \A l \in live : Balanced(link[l])
  PROVE  \A l \in live' : Balanced(link'[l])
<1>1. /\ live \subseteq Links /\ hand \subseteq Packets /\ link \in [Links -> LinkRecord]
      /\ length \in [Packets -> Nat]
  BY DEF Inv, TypeOK
<1>2. CASE UNCHANGED <<live, link>>
  BY <1>2
<1>3. Balanced(new)
  <2>1. new \in LinkRecord /\ empty(new) /\ new.txbytes = 0 /\ new.rxbytes = 0
    BY NewSlots DEF empty, new
  <2>2. Queue(new) = << >>
    BY <2>1, EmptyQueue
  <2>3. Bytes(length, << >>) = 0
    BY <1>1, BytesEmpty
  <2> QED BY <2>1, <2>2, <2>3 DEF Balanced
<1>4. ASSUME NEW l \in Links \ live, live' = live \union {l}, link' = [link EXCEPT ![l] = new]
      PROVE  \A m \in live' : Balanced(link'[m])
  BY <1>1, <1>3, <1>4
<1>5. ASSUME NEW l \in live, live' = live, NEW s, link' = [link EXCEPT ![l] = s], Balanced(s)
      PROVE  \A m \in live' : Balanced(link'[m])
  BY <1>1, <1>5
<1>6. ASSUME NEW l \in live, live' = live \ {l}, link' = [link EXCEPT ![l] = new]
      PROVE  \A m \in live' : Balanced(link'[m])
  BY <1>1, <1>6
<1>7. ASSUME NEW l \in live PROVE Balanced(refuse(link[l]))
  <2> DEFINE r == link[l]
             s == refuse(r)
  <2>1. r \in LinkRecord
    BY <1>1
  <2>2. /\ s.packets = r.packets /\ s.read = r.read /\ s.write = r.write
        /\ s.txbytes = r.txbytes /\ s.rxbytes = r.rxbytes
    BY <2>1 DEF refuse, LinkRecord
  <2> HIDE DEF s
  <2>3. Queue(s) = Queue(r)
    BY <2>2, SameQueue
  <2>4. Balanced(r)
    OBVIOUS
  <2>5. Balanced(s)
    BY <2>2, <2>3, <2>4 DEF Balanced
  <2> QED BY <2>5 DEF s
<1>8. ASSUME NEW l \in live, ~full(link[l]), NEW p \in hand
      PROVE  Balanced(enqueue(link[l], p))
  <2> DEFINE r == link[l]
             s == enqueue(r, p)
             q == Queue(r)
  <2>1. r \in LinkRecord /\ p \in Packets /\ q \in Seq(Packets)
    BY <1>1, <1>8, QueuePackets DEF QueuesHold
  <2>2. s.txbytes = r.txbytes + length[p] /\ s.rxbytes = r.rxbytes
    BY <2>1 DEF enqueue, LinkRecord
  <2>3. Queue(s) = Append(q, p)
    BY <1>1, <1>8, <2>1, EnqueueQueue
  <2>4. /\ r.txbytes = r.rxbytes + Bytes(length, q) /\ r.rxbytes \in Nat
        /\ length[p] \in Nat
    BY <1>1, <2>1 DEF Balanced, LinkRecord
  <2> HIDE DEF r, s, q
  <2>5. /\ Bytes(length, Append(q, p)) = Bytes(length, q) + length[p]
        /\ Bytes(length, q) \in Nat
    BY <1>1, <2>1, BytesAppend, BytesNat
  <2>6. s.txbytes = s.rxbytes + Bytes(length, Queue(s))
    BY <2>2, <2>3, <2>4, <2>5
  <2> QED BY <2>6 DEF Balanced, r, s
<1>9. ASSUME NEW l \in live, ~empty(link[l]) PROVE Balanced(receive(link[l]))
  <2> DEFINE r == link[l]
             s == receive(r)
             q == Queue(r)
             x == length[r.packets[r.read]]
  <2>1. r \in LinkRecord /\ q \in Seq(Packets)
    BY <1>1, QueuePackets DEF QueuesHold
  <2>2. s.txbytes = r.txbytes /\ s.rxbytes = r.rxbytes + x
    BY <2>1 DEF receive, LinkRecord
  <2>3. Len(q) = Occupancy(r) /\ Occupancy(r) \in Nat /\ Occupancy(r) # 0
    BY <1>9, <2>1, QueueSeq, QueueSlots, EmptyQueue, LinkAssumption DEF Slots
  <2>4. 1 \in 1 .. Len(q) /\ q # << >>
    BY <2>1, <2>3
  <2>5. r.packets[r.read] = q[1]
    <3>1. r.read \in Slots
      BY <2>1 DEF LinkRecord
    <3>2. 1 \in 1 .. Occupancy(r) + 1 /\ 1 \in 1 .. LINK_RING_SIZE
      BY <2>3, LinkAssumption
    <3>3. Slot(r, 1) = IF r.read + 1 - 1 < LINK_RING_SIZE THEN r.read + 1 - 1
                       ELSE r.read + 1 - 1 - LINK_RING_SIZE
      BY <2>1, <3>2, QueueSlots
    <3>4. Slot(r, 1) = r.read
      BY <3>1, <3>3, LinkAssumption DEF Slots
    <3>5. q[1] = r.packets[Slot(r, 1)]
      BY <2>1, <2>3, <2>4, QueueSeq
    <3> QED BY <3>4, <3>5
  <2>6. r.packets[r.read] \in Packets /\ x \in Nat
    BY <1>1, <2>1, <2>4, <2>5
  <2>7. Queue(s) = Tail(q)
    BY <1>1, <1>9, <2>1, <2>6, ReceiveQueue
  <2>8. r.txbytes = r.rxbytes + Bytes(length, q) /\ r.rxbytes \in Nat
    BY <2>1 DEF Balanced, LinkRecord
  <2>9. x = length[q[1]] /\ Tail(q) \in Seq(Packets)
    BY <2>1, <2>4, <2>5
  <2> HIDE DEF r, s, q, x
  <2>10. Bytes(length, q) = x + Bytes(length, Tail(q)) /\ Bytes(length, Tail(q)) \in Nat
    BY <1>1, <2>1, <2>4, <2>9, BytesTail, BytesNat
  <2>11. s.txbytes = s.rxbytes + Bytes(length, Queue(s))
    BY <2>2, <2>6, <2>7, <2>8, <2>10
  <2> QED BY <2>11 DEF Balanced, r, s
<1> QED BY <1>2, <1>4, <1>5, <1>6, <1>7, <1>8, <1>9 DEF LinkSteps

\* A link's counters of packets and of bytes agree with what it holds, through
\* every transmission, refusal and drop, although the length of a packet
\* changes while apps own it and when it is freed: what was counted when a
\* packet was put on a link is what is counted when it is taken off.
THEOREM CountersAccount == Spec => []Accounting
<1>1. Init => BytesAccounted
  BY DEF Init, BytesAccounted
<1>2. Inv' => QueuesHold'
  BY QueuePackets, PTL
<1>3. ASSUME Inv, Inv', BytesAccounted, [Next]_vars PROVE BytesAccounted'
  <2> SUFFICES ASSUME NEW l \in live'
               PROVE  link'[l].txbytes = link'[l].rxbytes + Bytes(length', Queue(link'[l]))
    <3>1. \A l \in live' : Queue(link[l])' = Queue(link'[l])
      BY DEF Queue, Occupancy
    <3> QED BY <3>1 DEF BytesAccounted, Bytes
  <2>1. \A m \in live : Balanced(link[m])
    BY <1>3 DEF BytesAccounted, Balanced
  <2>2. Balanced(link'[l])
    BY <1>3, <2>1, NextLinkSteps, BalancedStep
  <2> DEFINE q == Queue(link'[l])
  <2>3. q \in Seq(Packets) /\ \A k \in 1 .. Len(q) : q[k] \in OnLinks'
    <3>1. Queue(link[l])' = q
      BY DEF Queue, Occupancy
    <3>2. /\ Queue(link[l])' \in Seq(Packets)
          /\ \A k \in 1 .. Len(Queue(link[l])') : Queue(link[l])'[k] \in OnLinks'
      BY <1>2, <1>3 DEF QueuesHold
    <3> HIDE DEF q
    <3> QED BY <3>1, <3>2
  <2>4. length \in [Packets -> Nat] /\ length' \in [Packets -> Nat]
    BY <1>3 DEF Inv, TypeOK
  <2> HIDE DEF q
  <2>5. \A k \in 1 .. Len(q) : length'[q[k]] = length[q[k]]
    BY <1>3, <2>3, LengthKept
  <2>6. Bytes(length', q) = Bytes(length, q)
    BY <2>3, <2>4, <2>5, BytesSame
  <2> QED BY <2>2, <2>6 DEF Balanced, q
<1>4. PacketsAccounted /\ BytesAccounted => Accounting
  BY DEF Accounting
<1> QED BY <1>1, <1>3, <1>4, CountersAgree, Invariance, PTL DEF Spec

=============================================================================
