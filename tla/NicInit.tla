------------------------------- MODULE NicInit ------------------------------
(***************************************************************************)
(* Initialization of the 82599: ixy_init() of src/ixy82599/mod.rs,         *)
(* pci_map_resource() of pci.rs, and init() and reset_and_init() of        *)
(* ixgbe.rs, register by register, while the device runs.                  *)
(*                                                                         *)
(* The device is found in any state its last user left it in.  A reset     *)
(* takes it some time, after which its registers have their defaults and   *)
(* everything written to them before is lost.  A queue is enabled some     *)
(* time after it was asked to be, and its tail register is ignored until   *)
(* then.  Registers that only tune the device are left out.                *)
(***************************************************************************)
EXTENDS Integers, Sequences

CONSTANTS
  Queues,                  \* numbers of queues ixy_init() may be asked for
  MAX_QUEUES,              \* 64
  NUM_RX_QUEUE_ENTRIES,    \* 512
  LinkPolls,               \* polls until wait_for_link() gives up (100)
  Devices,                 \* what may be at the PCI address
  LinksRegister            \* values of LINKS: whether the link is up, and how fast

ASSUME NicInitAssumption ==
  /\ Queues \subseteq Nat /\ MAX_QUEUES \in Nat
  /\ NUM_RX_QUEUE_ENTRIES \in Nat \ {0, 1}
  /\ \E e \in 1 .. 15 : NUM_RX_QUEUE_ENTRIES = 2 ^ e
  /\ LinkPolls \in Nat
  /\ Devices \subseteq {"82599", "virtio", "no_network_card", "absent"}
  /\ LinksRegister \subseteq [up : BOOLEAN, speed : 0 .. 3]
  /\ [up |-> FALSE, speed |-> 0] \in LinksRegister

VARIABLES
  device, num_rx_queues, num_tx_queues,
  pc, i, k,          \* the step of the driver, its queue and descriptor
  polls,             \* of wait_for_link()
  bus_master,        \* command register of the PCI configuration space
  CTRL_RST, EEC_ARD, RDRXCTL_DMAIDONE, RXEN, TE, FCTRL_PROMISC, LINKS,
  irq,               \* some interrupt is enabled
  rx,                \* queue -> [ring, RDH, RDT, enable]
  tx,                \* queue -> [ring, TDH, TDT, enable]
  ring               \* queue -> descriptor -> "ones" (0xff), or "packet"

asked     == <<device, num_rx_queues, num_tx_queues>>
driver    == <<pc, i, k, polls>>
registers == <<CTRL_RST, EEC_ARD, RDRXCTL_DMAIDONE, RXEN, TE, FCTRL_PROMISC,
               LINKS, irq, rx, tx>>
vars      == <<asked, driver, bus_master, registers, ring>>

RxQueues == 0 .. num_rx_queues - 1
TxQueues == 0 .. num_tx_queues - 1
Entries  == 0 .. NUM_RX_QUEUE_ENTRIES - 1

\* Which descriptor ring a queue is set up with: one of a former user, or ours.
RxQueue == [ring : {"none", "old", "ours"}, RDH : Entries, RDT : Entries,
            enable : {"off", "asked", "on"}]
TxQueue == [ring : {"none", "old", "ours"}, TDH : {0}, TDT : {0},
            enable : {"off", "asked", "on"}]

Disabled == [ring |-> "none", RDH |-> 0, RDT |-> 0, enable |-> "off"]
Left     == [ring |-> "old", RDH |-> 0, RDT |-> 1, enable |-> "on"]
TxDisabled == [ring |-> "none", TDH |-> 0, TDT |-> 0, enable |-> "off"]

Init ==
  /\ device \in Devices
  /\ num_rx_queues \in Queues /\ num_tx_queues \in Queues
  /\ pc = "probe" /\ i = 0 /\ k = 0 /\ polls = 0
  /\ bus_master \in BOOLEAN
  /\ CTRL_RST = FALSE /\ EEC_ARD = TRUE /\ RDRXCTL_DMAIDONE = TRUE
  /\ RXEN \in BOOLEAN /\ TE \in BOOLEAN /\ FCTRL_PROMISC = FALSE
  /\ LINKS \in LinksRegister /\ irq \in BOOLEAN
  /\ \E q \in {Disabled, Left} : rx = [n \in RxQueues |-> q]
  /\ tx = [n \in TxQueues |-> TxDisabled]
  /\ ring = [n \in RxQueues |-> [e \in Entries |-> "ones"]]

-----------------------------------------------------------------------------
(* The device.                                                             *)

\* It is reset.  (The driver does not rely on interrupts being disabled.)
HwReset ==
  /\ CTRL_RST
  /\ CTRL_RST' = FALSE
  /\ EEC_ARD' = FALSE /\ RDRXCTL_DMAIDONE' = FALSE
  /\ RXEN' = FALSE /\ TE' = FALSE /\ FCTRL_PROMISC' = FALSE
  /\ LINKS' = [up |-> FALSE, speed |-> 0]
  /\ irq' \in BOOLEAN
  /\ rx' = [n \in RxQueues |-> Disabled]
  /\ tx' = [n \in TxQueues |-> TxDisabled]
  /\ UNCHANGED <<asked, driver, bus_master, ring>>

HwEepromRead ==
  /\ ~CTRL_RST /\ ~EEC_ARD
  /\ EEC_ARD' = TRUE
  /\ UNCHANGED <<asked, driver, bus_master, ring, CTRL_RST, RDRXCTL_DMAIDONE, RXEN, TE,
                 FCTRL_PROMISC, LINKS, irq, rx, tx>>

HwDmaInit ==
  /\ ~CTRL_RST /\ ~RDRXCTL_DMAIDONE
  /\ RDRXCTL_DMAIDONE' = TRUE
  /\ UNCHANGED <<asked, driver, bus_master, ring, CTRL_RST, EEC_ARD, RXEN, TE,
                 FCTRL_PROMISC, LINKS, irq, rx, tx>>

HwEnable ==
  /\ \/ \E q \in RxQueues : /\ rx[q].enable = "asked"
                            /\ rx' = [rx EXCEPT ![q].enable = "on"]
                            /\ UNCHANGED tx
     \/ \E q \in TxQueues : /\ tx[q].enable = "asked"
                            /\ tx' = [tx EXCEPT ![q].enable = "on"]
                            /\ UNCHANGED rx
  /\ UNCHANGED <<asked, driver, bus_master, ring, CTRL_RST, EEC_ARD, RDRXCTL_DMAIDONE,
                 RXEN, TE, FCTRL_PROMISC, LINKS, irq>>

\* The link comes up, at some speed, or goes down.
HwLink ==
  /\ ~CTRL_RST
  /\ LINKS' \in LinksRegister
  /\ UNCHANGED <<asked, driver, bus_master, ring, CTRL_RST, EEC_ARD, RDRXCTL_DMAIDONE,
                 RXEN, TE, FCTRL_PROMISC, irq, rx, tx>>

\* The device may receive a frame with the next descriptor of queue q.
Receiving(q) ==
  /\ bus_master /\ RXEN /\ ~CTRL_RST
  /\ rx[q].enable = "on" /\ rx[q].RDH # rx[q].RDT

HwReceive(q) ==
  /\ Receiving(q)
  /\ rx' = [rx EXCEPT ![q].RDH = (@ + 1) % NUM_RX_QUEUE_ENTRIES]
  /\ UNCHANGED <<asked, driver, bus_master, ring, CTRL_RST, EEC_ARD, RDRXCTL_DMAIDONE,
                 RXEN, TE, FCTRL_PROMISC, LINKS, irq, tx>>

Running ==
  \/ HwEepromRead \/ HwDmaInit \/ HwEnable \/ HwLink
  \/ \E q \in RxQueues : HwReceive(q)

Hardware == HwReset \/ Running

-----------------------------------------------------------------------------
(* The driver.  A step is one register access that matters, or more than   *)
(* one if the device cannot tell.                                          *)

Step(from, to) == pc = from /\ pc' = to /\ UNCHANGED <<asked, polls>>

\* The command register is written, unless that fails, and mmap() succeeds, or
\* fails, or fails but is not noticed: it returns MAP_FAILED, not a null
\* pointer, and the first access to a register ends the program.
pci_map_resource ==
  \/ bus_master' = TRUE /\ pc' \in {"disable", "pci_mapping_failed", "segfault"}
  \/ UNCHANGED bus_master /\ pc' = "pci_mapping_failed"

\* ixy_init() and init() look at the device, the number of queues, and map the
\* registers, which enables the device to access memory.
Probe ==
  /\ pc = "probe"
  /\ UNCHANGED <<asked, i, k, polls, registers, ring>>
  /\ \/ /\ device = "absent"
        /\ pc' = "wrong_pci_address" /\ UNCHANGED bus_master
     \/ /\ device = "no_network_card"
        /\ pc' = "is_not_a_network_card" /\ UNCHANGED bus_master
     \/ /\ device = "virtio"
        /\ pc' = "Virtio_not_supported" /\ UNCHANGED bus_master
     \/ /\ device = "82599"
        /\ num_rx_queues > MAX_QUEUES \/ num_tx_queues > MAX_QUEUES
        /\ pc' = "cannot_configure_queues" /\ UNCHANGED bus_master
     \/ /\ device = "82599"
        /\ num_rx_queues <= MAX_QUEUES /\ num_tx_queues <= MAX_QUEUES
        /\ pci_map_resource

disable_interrupts(from, to) ==
  /\ Step(from, to)
  /\ irq' = FALSE
  /\ UNCHANGED <<i, k, bus_master, ring, CTRL_RST, EEC_ARD, RDRXCTL_DMAIDONE, RXEN, TE,
                 FCTRL_PROMISC, LINKS, rx, tx>>

\* wait_clear_reg32() and wait_set_reg32() end.
Waited(from, to) ==
  /\ Step(from, to)
  /\ UNCHANGED <<i, k, bus_master, ring, registers>>

\* Fault: the device is not reset.
Reset_not == Waited("reset", "wait_reset")

Reset ==
  /\ Step("reset", "wait_reset")
  /\ CTRL_RST' = TRUE
  /\ UNCHANGED <<i, k, bus_master, ring, EEC_ARD, RDRXCTL_DMAIDONE, RXEN, TE,
                 FCTRL_PROMISC, LINKS, irq, rx, tx>>

\* Fault: the reset is not waited for.
WaitReset_not == Waited("wait_reset", "disable_again")

WaitReset == ~CTRL_RST /\ Waited("wait_reset", "disable_again")

WaitEeprom == EEC_ARD /\ Waited("wait_eeprom", "wait_dma")

\* init_link() and reset_stats() change nothing that is kept here.
WaitDma == RDRXCTL_DMAIDONE /\ Waited("wait_dma", "init_rx")

\* init_rx(): reception is off while the queues are set up ...
InitRx ==
  /\ Step("init_rx", "rx_ring")
  /\ RXEN' = FALSE
  /\ i' = 0
  /\ UNCHANGED <<k, bus_master, ring, CTRL_RST, EEC_ARD, RDRXCTL_DMAIDONE, TE,
                 FCTRL_PROMISC, LINKS, irq, rx, tx>>

\* ... each with a ring of descriptors that are all ones, and empty ...
InitRxQueue ==
  /\ Step("rx_ring", "rx_ring")
  /\ i < num_rx_queues
  /\ ring' = [ring EXCEPT ![i] = [e \in Entries |-> "ones"]]
  /\ rx' = [rx EXCEPT ![i] = [@ EXCEPT !.ring = "ours", !.RDH = 0, !.RDT = 0]]
  /\ i' = i + 1
  /\ UNCHANGED <<k, bus_master, CTRL_RST, EEC_ARD, RDRXCTL_DMAIDONE, RXEN, TE,
                 FCTRL_PROMISC, LINKS, irq, tx>>

\* ... and on afterwards.
StartRx ==
  /\ Step("rx_ring", "tx_ring")
  /\ i = num_rx_queues
  /\ RXEN' = TRUE
  /\ i' = 0
  /\ UNCHANGED <<k, bus_master, ring, CTRL_RST, EEC_ARD, RDRXCTL_DMAIDONE, TE,
                 FCTRL_PROMISC, LINKS, irq, rx, tx>>

\* init_tx()
InitTxQueue ==
  /\ Step("tx_ring", "tx_ring")
  /\ i < num_tx_queues
  /\ tx' = [tx EXCEPT ![i].ring = "ours"]
  /\ i' = i + 1
  /\ UNCHANGED <<k, bus_master, ring, CTRL_RST, EEC_ARD, RDRXCTL_DMAIDONE, RXEN, TE,
                 FCTRL_PROMISC, LINKS, irq, rx>>

StartTx ==
  /\ Step("tx_ring", "fill")
  /\ i = num_tx_queues
  /\ TE' = TRUE
  /\ i' = 0 /\ k' = 0
  /\ UNCHANGED <<bus_master, ring, CTRL_RST, EEC_ARD, RDRXCTL_DMAIDONE, RXEN,
                 FCTRL_PROMISC, LINKS, irq, rx, tx>>

\* start_rx_queue(), whose check that the number of entries is a power of two is
\* assumed to succeed: it is a constant.  Every descriptor gets a packet ...
Fill ==
  /\ Step("fill", "fill")
  /\ i < num_rx_queues /\ k < NUM_RX_QUEUE_ENTRIES
  /\ ring' = [ring EXCEPT ![i][k] = "packet"]
  /\ k' = k + 1
  /\ UNCHANGED <<i, bus_master, registers>>

\* ... the queue is enabled ...
EnableRx ==
  /\ Step("fill", "wait_rx")
  /\ i < num_rx_queues /\ k = NUM_RX_QUEUE_ENTRIES
  /\ rx' = [rx EXCEPT ![i].enable = IF @ = "off" THEN "asked" ELSE @]
  /\ UNCHANGED <<i, k, bus_master, ring, CTRL_RST, EEC_ARD, RDRXCTL_DMAIDONE, RXEN, TE,
                 FCTRL_PROMISC, LINKS, irq, tx>>

WaitRx == Waited("wait_rx", "rx_tail") /\ rx[i].enable = "on"

\* ... and handed over full.
TailRx ==
  /\ Step("rx_tail", "fill")
  /\ rx' = IF rx[i].enable = "on"
           THEN [rx EXCEPT ![i] = [@ EXCEPT !.RDH = 0, !.RDT = NUM_RX_QUEUE_ENTRIES - 1]]
           ELSE rx
  /\ i' = i + 1 /\ k' = 0
  /\ UNCHANGED <<bus_master, ring, CTRL_RST, EEC_ARD, RDRXCTL_DMAIDONE, RXEN, TE,
                 FCTRL_PROMISC, LINKS, irq, tx>>

RxStarted ==
  /\ Step("fill", "start_tx")
  /\ i = num_rx_queues
  /\ i' = 0
  /\ UNCHANGED <<k, bus_master, ring, registers>>

\* start_tx_queue()
EnableTx ==
  /\ Step("start_tx", "wait_tx")
  /\ i < num_tx_queues
  /\ tx' = [tx EXCEPT ![i] = [ring |-> @.ring, TDH |-> 0, TDT |-> 0,
                              enable |-> IF @.enable = "off" THEN "asked" ELSE @.enable]]
  /\ UNCHANGED <<i, k, bus_master, ring, CTRL_RST, EEC_ARD, RDRXCTL_DMAIDONE, RXEN, TE,
                 FCTRL_PROMISC, LINKS, irq, rx>>

WaitTx ==
  /\ Step("wait_tx", "start_tx")
  /\ tx[i].enable = "on"
  /\ i' = i + 1
  /\ UNCHANGED <<k, bus_master, ring, registers>>

SetPromisc ==
  /\ Step("start_tx", "wait_link")
  /\ i = num_tx_queues
  /\ FCTRL_PROMISC' = TRUE
  /\ UNCHANGED <<i, k, bus_master, ring, CTRL_RST, EEC_ARD, RDRXCTL_DMAIDONE, RXEN, TE,
                 LINKS, irq, rx, tx>>

\* In Mbit/s; none of the speeds the driver knows is none.
get_link_speed ==
  IF LINKS.up THEN <<0, 100, 1000, 10000>>[LINKS.speed + 1] ELSE 0

\* Fault: the link is waited for without a limit.
WaitLink_forever == get_link_speed # 0 /\ Waited("wait_link", "done")

\* wait_for_link() ends when the link is up, or after ten seconds.
WaitLink ==
  \/ /\ get_link_speed # 0 \/ polls = LinkPolls
     /\ Waited("wait_link", "done")
  \/ /\ pc = "wait_link" /\ get_link_speed = 0 /\ polls < LinkPolls
     /\ polls' = polls + 1
     /\ UNCHANGED <<asked, pc, i, k, bus_master, ring, registers>>

Driver ==
  \/ Probe \/ disable_interrupts("disable", "reset") \/ Reset \/ WaitReset
  \/ disable_interrupts("disable_again", "wait_eeprom") \/ WaitEeprom \/ WaitDma
  \/ InitRx \/ InitRxQueue \/ StartRx \/ InitTxQueue \/ StartTx
  \/ Fill \/ EnableRx \/ WaitRx \/ TailRx \/ RxStarted
  \/ EnableTx \/ WaitTx \/ SetPromisc \/ WaitLink

Next == Driver \/ Hardware

\* The waits for the reset, the EEPROM, DMA and the queues have no limit: that
\* the device finishes these is assumed.  That it has a link is not.
Spec ==
  /\ Init /\ [][Next]_vars
  /\ WF_vars(Driver)
  /\ WF_vars(HwReset) /\ WF_vars(HwEepromRead) /\ WF_vars(HwDmaInit)
  /\ WF_vars(HwEnable)

-----------------------------------------------------------------------------
(* Properties.                                                             *)

Failures == {"wrong_pci_address", "is_not_a_network_card", "Virtio_not_supported",
             "cannot_configure_queues", "pci_mapping_failed", "segfault"}

\* Nothing is known of the device: it was not reset.
Inherited == pc \in {"probe", "disable", "reset"} \union Failures

FlagsOK ==
  /\ bus_master \in BOOLEAN /\ CTRL_RST \in BOOLEAN /\ EEC_ARD \in BOOLEAN
  /\ RDRXCTL_DMAIDONE \in BOOLEAN /\ RXEN \in BOOLEAN /\ TE \in BOOLEAN
  /\ FCTRL_PROMISC \in BOOLEAN /\ irq \in BOOLEAN

CountsOK ==
  /\ device \in Devices /\ num_rx_queues \in Queues /\ num_tx_queues \in Queues
  /\ i \in 0 .. MAX_QUEUES /\ k \in 0 .. NUM_RX_QUEUE_ENTRIES
  /\ polls \in 0 .. LinkPolls
  /\ LINKS \in LinksRegister

QueuesOK ==
  /\ rx \in [RxQueues -> RxQueue] /\ tx \in [TxQueues -> TxQueue]
  /\ ring \in [RxQueues -> [Entries -> {"ones", "packet"}]]

\* Every variable has its type; head and tail are entries of their ring.
TypeOK == FlagsOK /\ CountsOK /\ QueuesOK

\* "prevent rogue memory accesses on premature dma activation"
\* (ixgbe.rs:423): from the reset on, whenever the device may store a frame, it
\* is to the ring of this driver and with a descriptor that has a packet.
\* (Before, pci_map_resource() lets a device that still has the rings of its
\* last user receive to them.)
NoRogueDMA ==
  ~Inherited => \A q \in RxQueues :
    Receiving(q) => rx[q].ring = "ours" /\ ring[q][rx[q].RDH] = "packet"

\* When init() returns a device, all that was written to it still holds: no
\* reset came after.  Ixgbe begins in this state: queues enabled, the receive
\* rings full, the transmit rings empty.  Interrupts are off.
Ready ==
  pc = "done" =>
    /\ bus_master /\ RXEN /\ TE /\ FCTRL_PROMISC /\ ~CTRL_RST /\ ~irq
    /\ \A q \in RxQueues : /\ rx[q].ring = "ours" /\ rx[q].enable = "on"
                            /\ rx[q].RDT = NUM_RX_QUEUE_ENTRIES - 1
                            /\ \A e \in Entries : ring[q][e] = "packet"
    /\ \A q \in TxQueues : tx[q].ring = "ours" /\ tx[q].enable = "on"

\* ixy_init() returns, or fails, even when the link never comes up
\* ("wait some time for the link to come up", ixgbe.rs:379).
InitTerminates == <>(pc \in Failures \union {"done"})

=============================================================================
