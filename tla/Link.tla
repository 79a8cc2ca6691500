-------------------------------- MODULE Link --------------------------------
(***************************************************************************)
(* src/link.rs: links, the ring buffers that carry packets from app to     *)
(* app, together with the packet freelist they share.                      *)
(*                                                                         *)
(* A link record holds the fields of struct Link.  The ring stores raw     *)
(* pointers, so nothing but the discipline of transmit(), receive() and    *)
(* Drop keeps a packet from being owned twice: Ownership is the invariant  *)
(* the comments at packet.rs:30 and link.rs:50 rely on.                    *)
(*                                                                         *)
(* The engine is single threaded: the steps below are whole calls, except  *)
(* for Drop, a loop, whose iterations are steps nothing interleaves with.  *)
(***************************************************************************)
EXTENDS Packet, Sequences

CONSTANTS
  Links,              \* identities of links
  LINK_RING_SIZE,     \* slots of a ring (1024)
  MaxTransmits        \* bound: packets enqueued during the life of a link

ASSUME LinkAssumption ==
  /\ LINK_RING_SIZE \in Nat /\ LINK_RING_SIZE >= 2
  /\ MaxTransmits \in Nat

\* `& (SIZE - 1)' is `% SIZE' for a power of two only.
ASSUME PowerOfTwo == \E k \in 1 .. LINK_RING_SIZE : LINK_RING_SIZE = 2 ^ k

VARIABLES
  live,       \* links that exist
  link,       \* their struct Link
  dropping    \* {l} while drop() runs on link l, otherwise {}

linkVars == <<live, link, dropping>>
vars     == <<packetVars, linkVars>>

Slots            == 0 .. LINK_RING_SIZE - 1
LINK_MAX_PACKETS == LINK_RING_SIZE - 1

-----------------------------------------------------------------------------
(* The functions of link.rs, on a link record r.                           *)

new == [packets   |-> [i \in Slots |-> NULL],
        read      |-> 0, write   |-> 0,
        txpackets |-> 0, txbytes |-> 0, txdrop |-> 0,
        rxpackets |-> 0, rxbytes |-> 0]

\* Fault: the cursor is not wrapped.
Advance_unmasked(cursor) == cursor + 1

\* (cursor + 1) & (SIZE - 1)
Advance(cursor) == (cursor + 1) % LINK_RING_SIZE

empty(r) == r.read = r.write

\* Fault: the successor of the write cursor is not wrapped.
full_unmasked(r) == r.write + 1 = r.read

\* Fault: one more slot is kept free.
full_early(r) == Advance(r.write) = r.read \/ Advance(Advance(r.write)) = r.read

full(r) == Advance(r.write) = r.read

\* The link after receive() took its first packet off.
receive(r) ==
  [r EXCEPT !.read      = Advance(@),
            !.rxpackets = @ + 1,
            !.rxbytes   = @ + length[r.packets[r.read]]]

\* The link after transmit() put p on, and after it refused a packet.
enqueue(r, p) ==
  [r EXCEPT !.txpackets       = @ + 1,
            !.txbytes         = @ + length[p],
            !.packets[r.write] = p,
            !.write           = Advance(@)]

\* Fault: a refused packet is counted as transmitted.
refuse_counted(r) == [r EXCEPT !.txdrop = @ + 1, !.txpackets = @ + 1]

refuse(r) == [r EXCEPT !.txdrop = @ + 1]

-----------------------------------------------------------------------------

Init ==
  /\ PacketInit
  /\ live = {}
  /\ link = [l \in Links |-> new]
  /\ dropping = {}

NewLink(l) ==
  /\ l \notin live
  /\ frees < MaxFrees
  /\ live' = live \union {l}
  /\ link' = [link EXCEPT ![l] = new]
  /\ UNCHANGED <<packetVars, dropping>>

Transmit(l, p) ==
  \/ /\ full(link[l])
     /\ frees < MaxFrees
     /\ link' = [link EXCEPT ![l] = refuse(@)]
     /\ free(p)
     /\ hand' = hand \ {p}
     /\ UNCHANGED <<live, dropping>>
  \/ /\ ~full(link[l])
     /\ link[l].txpackets < MaxTransmits
     /\ link' = [link EXCEPT ![l] = enqueue(@, p)]
     /\ hand' = hand \ {p}
     /\ UNCHANGED <<freelist, length, frees, status, live, dropping>>

Receive(l) ==
  \/ /\ empty(link[l])
     /\ status' = "Link underflow."
     /\ UNCHANGED <<freelist, length, hand, frees, linkVars>>
  \/ /\ ~empty(link[l])
     /\ hand' = hand \union {link[l].packets[link[l].read]}
     /\ link' = [link EXCEPT ![l] = receive(@)]
     /\ UNCHANGED <<freelist, length, frees, status, live, dropping>>

\* The last reference to the link goes: drop() starts.
DropLink(l) ==
  /\ dropping' = {l}
  /\ UNCHANGED <<packetVars, live, link>>

\* Fault: the packet freed is not taken off the ring.
Drain_peek(l) ==
  /\ ~empty(link[l])
  /\ free(link[l].packets[link[l].read])
  /\ UNCHANGED <<link, hand, live, dropping>>

\* One iteration of the loop of drop().
Drain(l) ==
  /\ ~empty(link[l])
  /\ free(link[l].packets[link[l].read])
  /\ link' = [link EXCEPT ![l] = receive(@)]
  /\ UNCHANGED <<hand, live, dropping>>

\* The loop ends and the memory of the link is released.
Dropped(l) ==
  /\ empty(link[l])
  /\ live' = live \ {l}
  /\ link' = [link EXCEPT ![l] = new]
  /\ dropping' = {}
  /\ UNCHANGED packetVars

DropStep ==
  /\ status = "running"
  /\ \E l \in dropping : Drain(l) \/ Dropped(l)

Next ==
  \/ /\ dropping = {}
     /\ PacketStep
     /\ UNCHANGED linkVars
  \/ /\ dropping = {}
     /\ status = "running"
     /\ \/ \E l \in Links : NewLink(l)
        \/ \E l \in live : \/ \E p \in hand : Transmit(l, p)
                           \/ Receive(l)
                           \/ DropLink(l)
  \/ DropStep

\* drop() is a loop nothing interrupts: once started it keeps running.
Spec == Init /\ [][Next]_vars /\ WF_vars(DropStep)

-----------------------------------------------------------------------------
(* Properties.                                                             *)

\* The slots of r that hold a queued packet, and how many they are.
Occupied(r) ==
  {i \in Slots : IF r.read <= r.write THEN r.read <= i /\ i < r.write
                                      ELSE r.read <= i \/ i < r.write}

Occupancy(r) ==
  IF r.read <= r.write THEN r.write - r.read
                       ELSE LINK_RING_SIZE - r.read + r.write

\* The packets queued, in order, and how many bytes they are.
Queue(r) ==
  [k \in 1 .. Occupancy(r) |-> r.packets[(r.read + k - 1) % LINK_RING_SIZE]]

Bytes(lengths, queue) ==
  LET sum[k \in 0 .. Len(queue)] ==
        IF k = 0 THEN 0 ELSE sum[k - 1] + lengths[queue[k]]
  IN  sum[Len(queue)]

OnFreelist == {list[i] : i \in 0 .. nfree - 1}
OnLink(l)  == {link[l].packets[i] : i \in Occupied(link[l])}
OnLinks    == UNION {OnLink(l) : l \in live}

LinkRecord ==
  [packets   : [Slots -> Packets \union {NULL}],
   read      : Slots, write   : Slots,
   txpackets : Nat,   txbytes : Nat, txdrop : Nat,
   rxpackets : Nat,   rxbytes : Nat]

Panics == {"Packet allocation overflow", "Packet freelist overflow",
           "Packet leaked", "Link underflow."}

\* Every variable has its type; drop() runs on one live link at most.
TypeOK ==
  /\ list \in [Packets -> Packets \union {NULL}]
  /\ nfree \in 0 .. MAX_PACKETS
  /\ PACKETS_ALLOCATED \in 0 .. MAX_PACKETS
  /\ PACKET_ALLOCATION_STEP \in Nat \ {0}
  /\ length \in [Packets -> Nat]
  /\ hand \subseteq Packets
  /\ frees \in Nat
  /\ status \in {"running"} \union Panics
  /\ live \subseteq Links
  /\ link \in [Links -> LinkRecord]
  /\ dropping \subseteq live
  /\ \A l, m \in dropping : l = m

\* No pointer is on the freelist twice.
FreelistInjective ==
  \A i, j \in 0 .. nfree - 1 : list[i] = list[j] => i = j

\* No pointer is queued twice, on one link or on two.
LinksInjective ==
  \A l, m \in live : \A i \in Occupied(link[l]), j \in Occupied(link[m]) :
     link[l].packets[i] = link[m].packets[j] => l = m /\ i = j

\* "It is either on the freelist, a link, or in active use" (packet.rs:30):
\* each packet allocated so far is in exactly one place, so that the
\* Box::from_raw of allocate() and of receive() never aliases, and no packet
\* is lost when a link refuses it or is dropped.
Ownership ==
  /\ FreelistInjective
  /\ LinksInjective
  /\ OnFreelist \intersect hand = {}
  /\ OnFreelist \intersect OnLinks = {}
  /\ hand \intersect OnLinks = {}
  /\ OnFreelist \union hand \union OnLinks = 0 .. PACKETS_ALLOCATED - 1

\* The bound check of free_internal() never fails: there is room on the
\* freelist for every packet that can be freed.
NoFreelistOverflow == status # "Packet freelist overflow"

\* allocate() returns an empty packet (packet.rs:88), whatever length the
\* packet had when it was freed, from an app, a full link or a dropped one.
EmptyOnFreelist == \A i \in 0 .. nfree - 1 : length[list[i]] = 0

\* allocate() panics only when no packet is free and the next step does not
\* fit: a step is as large as all before it together and FIRST_STEP more, so
\* that close to half of MAX_PACKETS may never be allocated, and a step that
\* fits exactly is taken.
AllocationLimit ==
  status = "Packet allocation overflow"
     => /\ nfree = 0
        /\ 2 * PACKETS_ALLOCATED + FIRST_STEP > MAX_PACKETS

\* What was transmitted and not yet received is what the ring holds, in
\* packets and in bytes.
PacketsAccounted ==
  \A l \in live : link[l].txpackets = link[l].rxpackets + Occupancy(link[l])

BytesAccounted ==
  \A l \in live : link[l].txbytes = link[l].rxbytes + Bytes(length, Queue(link[l]))

\* The counters of a link agree with its contents.  (The statistics
\* report_links() prints are these counters.)
Accounting == PacketsAccounted /\ BytesAccounted

\* "Ensure that Dropped Links are empty (otherwise Dropping a link would leak
\* its remaining enqueued packets)" (link.rs:74): drop() ends without a panic,
\* with the link gone and each packet that was queued on it back on the
\* freelist.  So the code does not do what two comments say, "a non-empty Link
\* going out of scope will trigger a panic" (link.rs:76) and "Failing to drain
\* the link would cause panic" (link.rs:115).
DropTerminates ==
  \A l \in Links :
    /\ l \in dropping ~> l \notin live /\ status = "running"
    /\ \A p \in Packets : l \in dropping /\ p \in OnLink(l)
                            ~> l \notin live /\ p \in OnFreelist

\* The links are bounded queues: the ring and its cursors implement
\* BoundedFifo, every slot of the queue included.
Fifo == INSTANCE BoundedFifo
          WITH Capacity <- LINK_MAX_PACKETS,
               queue    <- [l \in Links |-> Queue(link[l])],
               lost     <- [l \in Links |-> link[l].txdrop]

ImplementsFifo == Fifo!Spec

=============================================================================
