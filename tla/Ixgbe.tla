-------------------------------- MODULE Ixgbe -------------------------------
(***************************************************************************)
(* src/ixy82599/ixgbe.rs: the receive and transmit rings of the 82599      *)
(* driver, with the hardware that runs concurrently with it.               *)
(*                                                                         *)
(* One NIC receives onto a link, another transmits from it, as in a        *)
(* network "nic1.output -> nic0.input": every breath calls rx_batch() of   *)
(* the one and tx_batch() of the other.  The link is the bounded queue     *)
(* that Link is shown to implement, the freelist a stack of packets (FL    *)
(* is one).  Both rings, the link and the freelist share the packets, and  *)
(* hardware reads and writes them through raw addresses.                   *)
(*                                                                         *)
(* Frames are numbered in the order in which they arrive; data[p] is the   *)
(* frame in the buffer of packet p, its length included.  A descriptor     *)
(* holds the address of a packet and the status bits, DD and EOP, of its   *)
(* write-back format, which overlays hdr_addr / olinfo_status of its read  *)
(* format.                                                                 *)
(***************************************************************************)
EXTENDS Integers, Sequences, SequencesExt

CONSTANTS
  NUM_RX_QUEUE_ENTRIES, NUM_TX_QUEUE_ENTRIES,   \* 512
  TX_CLEAN_BATCH,                               \* 32
  PULL_NPACKETS,                                \* 102
  LINK_MAX_PACKETS,                             \* 1023
  MaxFrames,    \* bound: frames that arrive
  Oversized,    \* the frames among them that do not fit a buffer
  NULL

\* Packets enough for both rings, the link and one in flight.  (FL grows on
\* demand well beyond that.)
Packets == 1 .. (NUM_RX_QUEUE_ENTRIES + NUM_TX_QUEUE_ENTRIES + LINK_MAX_PACKETS)

Frames == 1 .. MaxFrames

ASSUME IxgbeAssumption ==
  /\ NUM_RX_QUEUE_ENTRIES \in Nat /\ NUM_RX_QUEUE_ENTRIES >= 2
  /\ NUM_TX_QUEUE_ENTRIES \in Nat /\ NUM_TX_QUEUE_ENTRIES >= 2
  /\ TX_CLEAN_BATCH \in 1 .. NUM_TX_QUEUE_ENTRIES - 1
  /\ PULL_NPACKETS \in Nat \ {0}
  /\ LINK_MAX_PACKETS \in Nat \ {0}
  /\ MaxFrames \in Nat /\ Oversized \subseteq Frames
  /\ NULL \notin Packets

\* The error paths of start_rx_queue() and start_tx_queue().
ASSUME RingSizes ==
  \A n \in {NUM_RX_QUEUE_ENTRIES, NUM_TX_QUEUE_ENTRIES} :
     \E k \in 1 .. n : n = 2 ^ k

RxRing == 0 .. NUM_RX_QUEUE_ENTRIES - 1
TxRing == 0 .. NUM_TX_QUEUE_ENTRIES - 1

VARIABLES
  freelist, data, link,
  rx,            \* IxgbeRxQueue: descriptors, bufs_in_use, rx_index
  tx,            \* IxgbeTxQueue: descriptors, bufs_in_use, clean_index, tx_index
  RDH, RDT, TDH, TDT,   \* head and tail registers
  rdma,          \* the frame hardware wrote and has yet to write DD back for, or 0
  twb,           \* next transmit descriptor hardware writes DD back to
  arrived,       \* frames that have arrived
  wire,          \* frames sent
  received, last_rx_index,   \* locals of rx_batch()
  pc             \* "rx", "clean", "tx", or a panic

driver   == <<freelist, link, rx, tx, received, last_rx_index, pc>>
hardware == <<RDH, TDH, rdma, twb, arrived, wire>>
vars     == <<freelist, data, link, rx, tx, RDH, RDT, TDH, TDT, rdma, twb,
              arrived, wire, received, last_rx_index, pc>>

-----------------------------------------------------------------------------

wrap_ring(index, ring_size) == (index + 1) % ring_size

\* The indices from lo up to, not including, hi on a ring of n.
RingRange(lo, hi, n) ==
  {i \in 0 .. n - 1 : IF lo <= hi THEN lo <= i /\ i < hi ELSE lo <= i \/ i < hi}

\* The rings as init_rx(), init_tx(), start_rx_queue() and start_tx_queue()
\* leave them: every receive descriptor has a packet, the transmit descriptors
\* are all ones, DD included.
Init ==
  /\ freelist = [k \in 1 .. NUM_TX_QUEUE_ENTRIES + LINK_MAX_PACKETS |->
                   NUM_RX_QUEUE_ENTRIES + k]
  /\ data = [p \in Packets |-> 0]
  /\ link = <<>>
  /\ rx = [descriptors |-> [i \in RxRing |-> [addr |-> i + 1, status |-> {}]],
           bufs_in_use |-> [i \in RxRing |-> i + 1],
           rx_index    |-> 0]
  /\ tx = [descriptors |-> [i \in TxRing |-> [addr |-> NULL, status |-> {"DD"}]],
           bufs_in_use |-> <<>>,
           clean_index |-> 0, tx_index |-> 0]
  /\ RDH = 0 /\ RDT = NUM_RX_QUEUE_ENTRIES - 1
  /\ TDH = 0 /\ TDT = 0
  /\ rdma = 0 /\ twb = 0
  /\ arrived = 0 /\ wire = <<>>
  /\ received = 0 /\ last_rx_index = 0
  /\ pc = "rx"

-----------------------------------------------------------------------------
(* Hardware.  A receive descriptor is its own from RDH up to RDT, a        *)
(* transmit descriptor from TDH up to TDT.                                 *)

\* A frame arrives and is written to the buffer of the next descriptor.
HwReceive ==
  /\ arrived < MaxFrames
  /\ rdma = 0 /\ RDH # RDT
  /\ arrived' = arrived + 1
  /\ data' = [data EXCEPT ![rx.descriptors[RDH].addr] = arrived + 1]
  /\ rdma' = arrived + 1
  /\ UNCHANGED <<driver, RDH, RDT, TDH, TDT, twb, wire>>

\* The descriptor is written back.
HwReceived ==
  /\ rdma # 0
  /\ rx' = [rx EXCEPT !.descriptors[RDH] =
              [addr |-> rx.descriptors[RDH].addr,
               status |-> IF rdma \in Oversized THEN {"DD"} ELSE {"DD", "EOP"}]]
  /\ RDH' = (RDH + 1) % NUM_RX_QUEUE_ENTRIES
  /\ rdma' = 0
  /\ UNCHANGED <<freelist, data, link, tx, RDT, TDH, TDT, twb, arrived, wire,
                 received, last_rx_index, pc>>

\* A frame is dropped (SRRCTL_DROP_EN): no descriptor is available.
HwMiss ==
  /\ arrived < MaxFrames
  /\ rdma = 0 /\ RDH = RDT
  /\ arrived' = arrived + 1
  /\ UNCHANGED <<driver, data, RDH, RDT, TDH, TDT, rdma, twb, wire>>

\* The buffer of the next descriptor is read and sent.
HwTransmit ==
  /\ TDH # TDT
  /\ wire' = Append(wire, data[tx.descriptors[TDH].addr])
  /\ TDH' = (TDH + 1) % NUM_TX_QUEUE_ENTRIES
  /\ UNCHANGED <<driver, data, RDH, RDT, TDT, rdma, twb, arrived>>

\* DD is written back, in order but possibly much later (WTHRESH).
HwTransmitted ==
  /\ twb # TDH
  /\ tx' = [tx EXCEPT !.descriptors[twb] =
              [addr |-> tx.descriptors[twb].addr, status |-> {"DD"}]]
  /\ twb' = (twb + 1) % NUM_TX_QUEUE_ENTRIES
  /\ UNCHANGED <<freelist, data, link, rx, RDH, RDT, TDH, TDT, rdma, arrived,
                 wire, received, last_rx_index, pc>>

-----------------------------------------------------------------------------
(* rx_batch()                                                              *)

RxDescriptor == rx.descriptors[rx.rx_index]

\* packet::free()
Free(list, p) == Append(list, p)

\* Fault: a full link loses the packet.
TransmitFreelist_leak(list, p) == list

\* The freelist and the link after link::transmit() of p: a full link frees
\* the packet.
TransmitFreelist(list, p) == IF Len(link) = LINK_MAX_PACKETS THEN Free(list, p) ELSE list

TransmitLink(p) == IF Len(link) = LINK_MAX_PACKETS THEN link ELSE Append(link, p)

\* Fault: the status is not cleared.
Refill_stale(np) ==
  [rx EXCEPT !.bufs_in_use[rx.rx_index] = np,
             !.descriptors[rx.rx_index].addr = np,
             !.rx_index = wrap_ring(@, NUM_RX_QUEUE_ENTRIES)]

\* Fault: the new packet is not remembered.
Refill_forgets(np) ==
  [rx EXCEPT !.descriptors[rx.rx_index] = [addr |-> np, status |-> {}],
             !.rx_index = wrap_ring(@, NUM_RX_QUEUE_ENTRIES)]

\* The new packet np takes the place of the one received; writing hdr_addr
\* clears the status.
Refill(np) ==
  [rx EXCEPT !.bufs_in_use[rx.rx_index] = np,
             !.descriptors[rx.rx_index] = [addr |-> np, status |-> {}],
             !.rx_index = wrap_ring(@, NUM_RX_QUEUE_ENTRIES)]

\* One iteration of the loop over the packets hardware has received.
RxPacket ==
  /\ pc = "rx"
  /\ received < PULL_NPACKETS /\ "DD" \in RxDescriptor.status
  /\ \/ /\ "EOP" \notin RxDescriptor.status
        /\ pc' = "increase_buffer_size_or_decrease_MTU"
        /\ UNCHANGED <<freelist, link, rx, received, last_rx_index>>
     \/ /\ "EOP" \in RxDescriptor.status
        /\ IF freelist = <<>>
           THEN /\ pc' = "Packet_allocation_overflow"
                /\ UNCHANGED <<freelist, link, rx, received, last_rx_index>>
           ELSE LET p == rx.bufs_in_use[rx.rx_index]
                IN  /\ freelist' = TransmitFreelist(Front(freelist), p)
                    /\ link' = TransmitLink(p)
                    /\ rx' = Refill(Last(freelist))
                    /\ last_rx_index' = rx.rx_index
                    /\ received' = received + 1
                    /\ pc' = pc
  /\ UNCHANGED <<data, tx, RDT, TDT, hardware>>

\* The loop ends: the descriptors refilled are handed to hardware.
RxDone ==
  /\ pc = "rx"
  /\ received = PULL_NPACKETS \/ "DD" \notin RxDescriptor.status
  /\ IF rx.rx_index # last_rx_index THEN RDT' = last_rx_index ELSE UNCHANGED RDT
  /\ received' = 0
  /\ pc' = "clean"
  /\ UNCHANGED <<freelist, data, link, rx, tx, TDT, hardware, last_rx_index>>

-----------------------------------------------------------------------------
(* tx_batch()                                                              *)

\* Descriptors submitted and not yet cleaned.
Cleanable ==
  IF tx.tx_index < tx.clean_index
  THEN tx.tx_index - tx.clean_index + NUM_TX_QUEUE_ENTRIES
  ELSE tx.tx_index - tx.clean_index

\* Fault: the first descriptor of the batch is looked at.
CleanupTo_first == tx.clean_index

\* The last descriptor of the next batch.
CleanupTo ==
  IF tx.clean_index + TX_CLEAN_BATCH - 1 >= NUM_TX_QUEUE_ENTRIES
  THEN tx.clean_index + TX_CLEAN_BATCH - 1 - NUM_TX_QUEUE_ENTRIES
  ELSE tx.clean_index + TX_CLEAN_BATCH - 1

CanClean == Cleanable >= TX_CLEAN_BATCH /\ "DD" \in tx.descriptors[CleanupTo].status

BatchLength ==
  IF TX_CLEAN_BATCH < Len(tx.bufs_in_use) THEN TX_CLEAN_BATCH ELSE Len(tx.bufs_in_use)

\* Fault: the newest packets are freed instead of the oldest.
CleanBatch_back ==
  /\ pc = "clean" /\ CanClean
  /\ LET n == Len(tx.bufs_in_use) - BatchLength
     IN  /\ freelist' = freelist \o SubSeq(tx.bufs_in_use, n + 1, Len(tx.bufs_in_use))
         /\ tx' = [tx EXCEPT !.bufs_in_use = SubSeq(@, 1, n),
                             !.clean_index = wrap_ring(CleanupTo, NUM_TX_QUEUE_ENTRIES)]
  /\ UNCHANGED <<data, link, rx, RDT, TDT, hardware, received, last_rx_index, pc>>

\* One iteration of clean_tx_queue(): a batch of packets is freed.
CleanBatch ==
  /\ pc = "clean" /\ CanClean
  /\ freelist' = freelist \o SubSeq(tx.bufs_in_use, 1, BatchLength)
  /\ tx' = [tx EXCEPT !.bufs_in_use = SubSeq(@, BatchLength + 1, Len(@)),
                      !.clean_index = wrap_ring(CleanupTo, NUM_TX_QUEUE_ENTRIES)]
  /\ UNCHANGED <<data, link, rx, RDT, TDT, hardware, received, last_rx_index, pc>>

CleanDone ==
  /\ pc = "clean" /\ ~CanClean
  /\ pc' = "tx"
  /\ UNCHANGED <<freelist, data, link, rx, tx, RDT, TDT, hardware, received, last_rx_index>>

\* The ring is full: one descriptor stays unused.
TxFull == wrap_ring(tx.tx_index, NUM_TX_QUEUE_ENTRIES) = tx.clean_index

\* One iteration of the loop over the packets on the link; writing
\* olinfo_status clears DD.
TxPacket ==
  /\ pc = "tx"
  /\ link # <<>> /\ ~TxFull
  /\ link' = Tail(link)
  /\ tx' = [tx EXCEPT !.descriptors[tx.tx_index] = [addr |-> Head(link), status |-> {}],
                      !.bufs_in_use = Append(@, Head(link)),
                      !.tx_index = wrap_ring(@, NUM_TX_QUEUE_ENTRIES)]
  /\ UNCHANGED <<freelist, data, rx, RDT, TDT, hardware, received, last_rx_index, pc>>

\* Fault: hardware is not told.
TxDone_silent ==
  /\ pc = "tx"
  /\ link = <<>> \/ TxFull
  /\ last_rx_index' = rx.rx_index
  /\ pc' = "rx"
  /\ UNCHANGED <<freelist, data, link, rx, tx, RDT, TDT, hardware, received>>

\* The loop ends: the descriptors filled are handed to hardware.  The next
\* breath starts with rx_batch().
TxDone ==
  /\ pc = "tx"
  /\ link = <<>> \/ TxFull
  /\ TDT' = tx.tx_index
  /\ last_rx_index' = rx.rx_index
  /\ pc' = "rx"
  /\ UNCHANGED <<freelist, data, link, rx, tx, RDT, hardware, received>>

Driver == RxPacket \/ RxDone \/ CleanBatch \/ CleanDone \/ TxPacket \/ TxDone

Sending == HwTransmit \/ HwTransmitted

Next == Driver \/ HwReceive \/ HwReceived \/ HwMiss \/ Sending

\* The engine keeps breathing, and hardware keeps sending what it is given
\* and writing DD back.  Frames need not arrive.
Spec == /\ Init /\ [][Next]_vars
        /\ WF_vars(Driver)
        /\ WF_vars(HwReceived) /\ WF_vars(HwTransmit) /\ WF_vars(HwTransmitted)

-----------------------------------------------------------------------------
(* Properties.                                                             *)

RxHardware == RingRange(RDH, RDT, NUM_RX_QUEUE_ENTRIES)
TxHardware == RingRange(TDH, TDT, NUM_TX_QUEUE_ENTRIES)

\* Every variable has its type.
TypeOK ==
  /\ ToSet(freelist) \union ToSet(link) \union ToSet(tx.bufs_in_use) \subseteq Packets
  /\ Len(link) <= LINK_MAX_PACKETS
  /\ data \in [Packets -> Frames \union {0}]
  /\ rx.rx_index \in RxRing /\ RDH \in RxRing /\ RDT \in RxRing
  /\ \A i \in RxRing : rx.bufs_in_use[i] \in Packets
  /\ tx.tx_index \in TxRing /\ tx.clean_index \in TxRing
  /\ TDH \in TxRing /\ TDT \in TxRing /\ twb \in TxRing
  /\ received \in 0 .. PULL_NPACKETS

\* Every packet is in one place: on the freelist, on the link, or known to one
\* of the rings.  The raw pointers the driver keeps in bufs_in_use neither
\* alias nor lose a packet.
OneOwner ==
  LET places == freelist \o link \o tx.bufs_in_use
                  \o [k \in 1 .. NUM_RX_QUEUE_ENTRIES |-> rx.bufs_in_use[k - 1]]
  IN  /\ IsInjective(places)
      /\ ToSet(places) = Packets

\* Hardware receives only into packets the receive ring owns, and DD of a
\* descriptor hardware has not used is clear: a stale one would make the driver
\* pass on a packet that was never received.
RxOwnership ==
  \A i \in RxHardware : /\ rx.descriptors[i].addr = rx.bufs_in_use[i]
                        /\ "DD" \notin rx.descriptors[i].status

\* bufs_in_use holds the packets of the descriptors from clean_index up to
\* tx_index, in their order, among them every one hardware has yet to read: a
\* packet freed by clean_tx_queue() was sent.
TxOwnership ==
  /\ Len(tx.bufs_in_use) = Cleanable
  /\ \A k \in 1 .. Cleanable :
        tx.bufs_in_use[k] =
          tx.descriptors[(tx.clean_index + k - 1) % NUM_TX_QUEUE_ENTRIES].addr
  /\ TxHardware \subseteq RingRange(tx.clean_index, tx.tx_index, NUM_TX_QUEUE_ENTRIES)

\* Frames are sent in the order in which they arrived, none twice, none
\* overwritten by a later one while its packet was on the way.
InOrder == \A i, j \in DOMAIN wire : i < j => 0 < wire[i] /\ wire[i] < wire[j]

\* Packets are never exhausted: the rings and the link hold no more than
\* their capacity, whatever hardware does.
PoolSuffices == pc # "Packet_allocation_overflow"

\* What is put on the link leaves it, though clean_tx_queue() frees whole
\* batches only and leaves the rest on the ring.
LinkDrains ==
  []<>(link = <<>> \/ pc = "increase_buffer_size_or_decrease_MTU")

=============================================================================
