------------------------------- MODULE Packet -------------------------------
(***************************************************************************)
(* src/packet.rs: the global freelist FL and the packet API.               *)
(*                                                                         *)
(* A packet is the identity of its buffer, a number in Packets; buffers    *)
(* are created by preallocate_step in the order 0, 1, 2, ...  Of a         *)
(* packet's contents only the length is kept.  `hand' is the set of        *)
(* packets some Box<Packet> in scope owns: the API consumes and returns    *)
(* boxes, so an app can only pass on a packet it has in hand.              *)
(*                                                                         *)
(* A panic ends the process: `status' keeps its message, and no action is  *)
(* enabled after one.                                                      *)
(*                                                                         *)
(* A definition introduced as a Fault is a plausible mistake in the one    *)
(* that follows it.  No specification uses it: it stands in for the        *)
(* correct one when the properties are tested for their power to tell.     *)
(***************************************************************************)
EXTENDS Integers

CONSTANTS
  MAX_PACKETS,     \* capacity of FL.list (1_000_000)
  FIRST_STEP,      \* initial PACKET_ALLOCATION_STEP (1000)
  Lengths,         \* the payload lengths apps write
  MaxFrees,        \* bound: no app frees a packet after this many frees
  NULL             \* std::ptr::null_mut()

ASSUME PacketAssumption ==
  /\ MAX_PACKETS \in Nat \ {0}
  /\ FIRST_STEP \in Nat \ {0}
  /\ Lengths \subseteq Nat
  /\ MaxFrees \in Nat
  /\ NULL \notin Nat

Packets == 0 .. MAX_PACKETS - 1

VARIABLES
  list, nfree,              \* FL: the array of raw pointers and its fill count
  PACKETS_ALLOCATED,
  PACKET_ALLOCATION_STEP,
  length,                   \* Packet.length of each buffer
  hand,                     \* packets owned by a Box in scope
  frees,                    \* engine::STATS.frees
  status                    \* "running", or the message of the panic

freelist   == <<list, nfree, PACKETS_ALLOCATED, PACKET_ALLOCATION_STEP>>
packetVars == <<list, nfree, PACKETS_ALLOCATED, PACKET_ALLOCATION_STEP,
                length, hand, frees, status>>

PacketInit ==
  /\ list = [i \in Packets |-> NULL]
  /\ nfree = 0
  /\ PACKETS_ALLOCATED = 0
  /\ PACKET_ALLOCATION_STEP = FIRST_STEP
  /\ length = [p \in Packets |-> 0]
  /\ hand = {}
  /\ frees = 0
  /\ status = "running"

-----------------------------------------------------------------------------
(* The functions of packet.rs, as conditions on the step that calls them.  *)

\* Fault: the last step that fits is refused.
CanPreallocate_strict == PACKETS_ALLOCATED + PACKET_ALLOCATION_STEP < MAX_PACKETS

\* assert!() of preallocate_step
CanPreallocate == PACKETS_ALLOCATED + PACKET_ALLOCATION_STEP <= MAX_PACKETS

\* Fill the empty freelist with PACKET_ALLOCATION_STEP new packets, of which
\* the caller takes the last at once.
preallocate_step(p) ==
  /\ CanPreallocate
  /\ p = PACKETS_ALLOCATED + PACKET_ALLOCATION_STEP - 1
  /\ list' = [i \in Packets |-> IF i < PACKET_ALLOCATION_STEP
                                THEN PACKETS_ALLOCATED + i ELSE list[i]]
  /\ nfree' = PACKET_ALLOCATION_STEP - 1
  /\ PACKETS_ALLOCATED' = PACKETS_ALLOCATED + PACKET_ALLOCATION_STEP
  /\ PACKET_ALLOCATION_STEP' = 2 * PACKET_ALLOCATION_STEP

\* allocate() returns p.
allocate(p) ==
  \/ /\ nfree = 0
     /\ preallocate_step(p)
  \/ /\ nfree > 0
     /\ p = list[nfree - 1]
     /\ nfree' = nfree - 1
     /\ UNCHANGED <<list, PACKETS_ALLOCATED, PACKET_ALLOCATION_STEP>>

\* allocate() fails: every packet is in use and the next step would exceed
\* MAX_PACKETS.
allocate_overflow ==
  /\ nfree = 0
  /\ ~CanPreallocate
  /\ status' = "Packet allocation overflow"

\* Fault: the packet keeps its length.
free_internal_keeps_length(p) ==
  /\ nfree < MAX_PACKETS
  /\ list' = [list EXCEPT ![nfree] = p]
  /\ nfree' = nfree + 1
  /\ UNCHANGED <<PACKETS_ALLOCATED, PACKET_ALLOCATION_STEP, status, length>>

\* Fault: the limit is hit one packet early.
free_internal_off_by_one(p) ==
  \/ /\ nfree < MAX_PACKETS - 1
     /\ length' = [length EXCEPT ![p] = 0]
     /\ list' = [list EXCEPT ![nfree] = p]
     /\ nfree' = nfree + 1
     /\ UNCHANGED <<PACKETS_ALLOCATED, PACKET_ALLOCATION_STEP, status>>
  \/ /\ nfree = MAX_PACKETS - 1
     /\ status' = "Packet freelist overflow"
     /\ UNCHANGED <<freelist, length>>

\* Put p on FL.
free_internal(p) ==
  \/ /\ nfree < MAX_PACKETS
     /\ length' = [length EXCEPT ![p] = 0]
     /\ list' = [list EXCEPT ![nfree] = p]
     /\ nfree' = nfree + 1
     /\ UNCHANGED <<PACKETS_ALLOCATED, PACKET_ALLOCATION_STEP, status>>
  \/ /\ nfree = MAX_PACKETS
     /\ status' = "Packet freelist overflow"
     /\ UNCHANGED <<freelist, length>>

\* Account for p and put it on FL.  (Of the three statistics only the count
\* of frees, which paces the engine, is kept.)
free(p) ==
  /\ frees' = frees + 1
  /\ free_internal(p)

-----------------------------------------------------------------------------
(* What an app can do with packets alone, in any order.                    *)

Allocate ==
  \/ \E p \in Packets : /\ allocate(p)
                        /\ hand' = hand \union {p}
                        /\ UNCHANGED <<length, frees, status>>
  \/ /\ allocate_overflow
     /\ UNCHANGED <<freelist, length, hand, frees>>

\* The app writes a payload.
Fill(p, n) ==
  /\ length' = [length EXCEPT ![p] = n]
  /\ UNCHANGED <<freelist, hand, frees, status>>

\* packet::clone(): a new packet with p's length and payload.
Clone(p) ==
  \/ \E copy \in Packets : /\ allocate(copy)
                           /\ hand' = hand \union {copy}
                           /\ length' = [length EXCEPT ![copy] = length[p]]
                           /\ UNCHANGED <<frees, status>>
  \/ /\ allocate_overflow
     /\ UNCHANGED <<freelist, length, hand, frees>>

\* The app frees a packet.
Free(p) ==
  /\ frees < MaxFrees
  /\ free(p)
  /\ hand' = hand \ {p}

\* Drop for Packet: a box goes out of scope.
Leak(p) ==
  /\ status' = "Packet leaked"
  /\ UNCHANGED <<freelist, length, hand, frees>>

PacketStep ==
  /\ status = "running"
  /\ \/ Allocate
     \/ \E p \in hand : \/ \E n \in Lengths : Fill(p, n)
                        \/ Clone(p)
                        \/ Free(p)
                        \/ Leak(p)

=============================================================================
