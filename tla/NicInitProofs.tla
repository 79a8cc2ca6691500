---------------------------- MODULE NicInitProofs ---------------------------
(***************************************************************************)
(* Proofs about NicInit and NicStats, for any number of queues, any ring   *)
(* size and any width of the counters.                                     *)
(***************************************************************************)
EXTENDS NicStats, TLAPS

-----------------------------------------------------------------------------
(* The inductive invariant of initialization.  What is known of the device *)
(* depends on how far the driver is: after the reset nothing is enabled,   *)
(* then the queues get their rings one by one, then their packets, and     *)
(* only what has its packets is handed over.                               *)

\* The steps of the driver that follow the reset, in four groups.
Settling   == {"disable_again", "wait_eeprom", "wait_dma", "init_rx"}
Filling    == {"fill", "wait_rx", "rx_tail"}
Finishing  == {"start_tx", "wait_tx", "wait_link", "done"}
RingsSet   == {"tx_ring"} \union Filling \union Finishing

\* The steps whose i is a transmit queue.
OverTxQueues == {"tx_ring"} \union Finishing

Steps == {"probe", "disable", "reset", "wait_reset", "rx_ring"}
           \union Settling \union RingsSet \union Failures

\* The device was reset, and nothing is known to have happened since.
AfterReset == pc \in Settling \/ (pc = "wait_reset" /\ ~CTRL_RST)

\* Every descriptor of queue q has a packet.
Filled(q) == \A e \in Entries : ring[q][e] = "packet"

\* Queue q was not started: there is nothing in it for the device.
Unstarted(q) == rx[q].RDH = 0 /\ rx[q].RDT = 0 /\ rx[q].enable = "off"

\* Queue q was started: the device may receive with all its packets.
Started(q) ==
  Filled(q) /\ rx[q].enable = "on" /\ rx[q].RDT = NUM_RX_QUEUE_ENTRIES - 1

\* How far init_rx() and start_rx_queue() are.
RxProgress ==
  /\ AfterReset \/ pc = "rx_ring" => ~RXEN /\ \A q \in RxQueues : Unstarted(q)
  /\ pc = "rx_ring" => \A q \in RxQueues : q < i => rx[q].ring = "ours"
  /\ pc \in RingsSet => RXEN /\ \A q \in RxQueues : rx[q].ring = "ours"
  /\ pc = "tx_ring" => \A q \in RxQueues : Unstarted(q)
  /\ pc \in Filling => \A q \in RxQueues : /\ q < i => Started(q)
                                           /\ q > i => Unstarted(q)
  /\ pc = "fill" /\ i < num_rx_queues =>
       Unstarted(i) /\ \A e \in Entries : e < k => ring[i][e] = "packet"
  /\ pc \in {"wait_rx", "rx_tail"} =>
       i < num_rx_queues /\ Filled(i) /\ rx[i].RDH = 0 /\ rx[i].RDT = 0
  /\ pc = "rx_tail" => rx[i].enable = "on"
  /\ pc \in Finishing => \A q \in RxQueues : Started(q)

\* How far init_tx() and start_tx_queue() are.
TxProgress ==
  /\ pc = "tx_ring" => \A q \in TxQueues : q < i => tx[q].ring = "ours"
  /\ pc \in Filling \union Finishing =>
       TE /\ \A q \in TxQueues : tx[q].ring = "ours"
  /\ pc \in {"start_tx", "wait_tx"} => \A q \in TxQueues : q < i => tx[q].enable = "on"
  /\ pc = "wait_tx" => i < num_tx_queues
  /\ pc \in {"wait_link", "done"} => \A q \in TxQueues : tx[q].enable = "on"

\* What does not depend on a queue.
Control ==
  /\ pc \in Steps
  /\ i <= IF pc \in OverTxQueues THEN num_tx_queues ELSE num_rx_queues
  /\ CTRL_RST => pc = "wait_reset"
  /\ pc \notin {"probe"} \union Failures =>
       bus_master /\ num_rx_queues <= MAX_QUEUES /\ num_tx_queues <= MAX_QUEUES
  /\ pc \in {"probe"} \union Failures => i = 0
  /\ ~Inherited /\ pc \notin {"wait_reset", "disable_again"} => ~irq
  /\ pc \in {"wait_link", "done"} => FCTRL_PROMISC

IInv == TypeOK /\ Control /\ RxProgress /\ TxProgress

-----------------------------------------------------------------------------
(* Every step keeps it.                                                    *)

\* What the proofs use of the constants.
LEMMA Constants ==
  /\ \A n \in Queues : n \in Nat
  /\ MAX_QUEUES \in Nat /\ LinkPolls \in Nat
  /\ NUM_RX_QUEUE_ENTRIES \in Nat /\ NUM_RX_QUEUE_ENTRIES > 1
<1>1. NUM_RX_QUEUE_ENTRIES \in Nat \ {0, 1}
  BY NicInitAssumption, Zenon
<1>2. Queues \subseteq Nat /\ MAX_QUEUES \in Nat /\ LinkPolls \in Nat
  BY NicInitAssumption, Zenon
<1> QED BY <1>1, <1>2

\* The head register wraps at the last descriptor.
LEMMA NextEntry ==
  ASSUME NEW e \in Entries
  PROVE  (e + 1) % NUM_RX_QUEUE_ENTRIES \in Entries
BY Constants DEF Entries

\* A queue whose registers are set to values of their types has its type.
LEMMA RxQueueTypes ==
  ASSUME NEW q \in RxQueue
  PROVE  /\ \A s \in {"off", "asked", "on"} : [q EXCEPT !.enable = s] \in RxQueue
         /\ \A e \in Entries : [q EXCEPT !.RDH = e] \in RxQueue
         /\ \A e, f \in Entries : [q EXCEPT !.RDH = e, !.RDT = f] \in RxQueue
         /\ \A e, f \in Entries : [q EXCEPT !.ring = "ours", !.RDH = e, !.RDT = f]
                                    \in RxQueue
BY DEF RxQueue

LEMMA TxQueueTypes ==
  ASSUME NEW t \in TxQueue
  PROVE  /\ [t EXCEPT !.ring = "ours"] \in TxQueue
         /\ \A s \in {"off", "asked", "on"} :
              [t EXCEPT !.enable = s] \in TxQueue
BY DEF TxQueue

\* Registers that are set or reset stay true or false.
LEMMA FlagsStep ==
  ASSUME FlagsOK, [Next]_vars
  PROVE  FlagsOK'
<1> USE DEF FlagsOK, registers, Step
<1>1. CASE Probe \/ disable_interrupts("disable", "reset") \/ Reset \/ WaitReset
  BY <1>1, Zenon DEF Probe, pci_map_resource, disable_interrupts, Reset, WaitReset, Waited
<1>4. CASE \/ disable_interrupts("disable_again", "wait_eeprom") \/ WaitEeprom
           \/ WaitDma \/ InitRx \/ InitRxQueue \/ StartRx
  BY <1>4, Zenon DEF disable_interrupts, WaitEeprom, WaitDma, InitRx, InitRxQueue,
     StartRx, Waited
<1>5. CASE InitTxQueue \/ StartTx \/ Fill \/ EnableRx \/ WaitRx \/ TailRx \/ RxStarted
  BY <1>5, ZenonT(30) DEF InitTxQueue, StartTx, Fill, EnableRx, WaitRx, TailRx, RxStarted, Waited
<1>6. CASE EnableTx \/ WaitTx \/ SetPromisc \/ WaitLink
  BY <1>6, Zenon DEF EnableTx, WaitTx, SetPromisc, WaitLink, Waited
<1>2. CASE Hardware
  BY <1>2, Zenon DEF Hardware, HwReset, Running, HwEepromRead, HwDmaInit, HwEnable,
     HwLink, HwReceive
<1>3. CASE UNCHANGED vars
  BY <1>3, Zenon DEF vars
<1> QED BY <1>1, <1>2, <1>3, <1>4, <1>5, <1>6 DEF Next, Driver

\* The steps that change a queue.  The others leave all queues alone.
QueueSteps ==
  \/ HwReset \/ HwEnable \/ (\E q \in RxQueues : HwReceive(q))
  \/ InitRxQueue \/ InitTxQueue \/ Fill \/ EnableRx \/ TailRx \/ EnableTx

LEMMA OtherSteps ==
  ASSUME [Next]_vars, ~QueueSteps
  PROVE  UNCHANGED <<num_rx_queues, num_tx_queues, rx, tx, ring>>
BY DEF QueueSteps, vars, asked, registers, Next, Driver, Hardware, Running, Probe,
   disable_interrupts, Reset, WaitReset, WaitEeprom, WaitDma, InitRx, StartRx, StartTx,
   WaitRx, RxStarted, WaitTx, SetPromisc, WaitLink, Waited, Step, HwEepromRead,
   HwDmaInit, HwLink

\* The queues keep their types.
LEMMA QueuesStep ==
  ASSUME IInv, [Next]_vars
  PROVE  QueuesOK'
<1> USE Constants DEF IInv, TypeOK, QueuesOK, asked, registers
<1> USE DEF RxQueues, TxQueues, CountsOK
<1>1. CASE HwReset
  BY <1>1 DEF HwReset, Disabled, TxDisabled, RxQueue, TxQueue, Entries
<1>2. CASE HwEnable
  <2>1. UNCHANGED <<num_rx_queues, num_tx_queues, ring>>
    BY <1>2 DEF HwEnable
  <2>2. ASSUME NEW q \in RxQueues, rx' = [rx EXCEPT ![q].enable = "on"], UNCHANGED tx
        PROVE  QueuesOK'
    <3>1. [rx[q] EXCEPT !.enable = "on"] \in RxQueue
      BY RxQueueTypes
    <3> QED BY <2>1, <2>2, <3>1
  <2>3. ASSUME NEW q \in TxQueues, tx' = [tx EXCEPT ![q].enable = "on"], UNCHANGED rx
        PROVE  QueuesOK'
    <3>1. [tx[q] EXCEPT !.enable = "on"] \in TxQueue
      BY TxQueueTypes
    <3> QED BY <2>1, <2>3, <3>1
  <2> QED BY <1>2, <2>2, <2>3 DEF HwEnable
<1>3. CASE \E q \in RxQueues : HwReceive(q)
  <2> PICK q \in RxQueues : HwReceive(q)
    BY <1>3
  <2>1. rx[q].RDH \in Entries /\ rx[q] \in RxQueue
    BY DEF RxQueue
  <2>2. [rx[q] EXCEPT !.RDH = (@ + 1) % NUM_RX_QUEUE_ENTRIES] \in RxQueue
    BY <2>1, NextEntry, RxQueueTypes
  <2> QED BY <2>1, <2>2 DEF HwReceive
<1>4. CASE InitRxQueue
  <2>1. i \in RxQueues /\ 0 \in Entries
    BY <1>4 DEF InitRxQueue, Entries
  <2>2. [rx[i] EXCEPT !.ring = "ours", !.RDH = 0, !.RDT = 0] \in RxQueue
    BY <2>1, RxQueueTypes
  <2> QED BY <1>4, <2>1, <2>2 DEF InitRxQueue, Step
<1>5. CASE InitTxQueue
  BY <1>5, TxQueueTypes DEF InitTxQueue, Step
<1>6. CASE Fill
  BY <1>6 DEF Fill, Step, Entries
<1>7. CASE EnableRx
  <2>1. i \in RxQueues
    BY <1>7 DEF EnableRx
  <2>2. [rx[i] EXCEPT !.enable = IF @ = "off" THEN "asked" ELSE @] \in RxQueue
    BY <2>1, SMTT(30) DEF RxQueue
  <2> QED BY <1>7, <2>1, <2>2 DEF EnableRx, Step
<1>8. CASE TailRx
  <2>1. i \in RxQueues
    BY <1>8 DEF TailRx, Step, RxProgress
  <2>2. [rx[i] EXCEPT !.RDH = 0, !.RDT = NUM_RX_QUEUE_ENTRIES - 1] \in RxQueue
    <3>1. 0 \in Entries /\ NUM_RX_QUEUE_ENTRIES - 1 \in Entries
      BY DEF Entries
    <3> QED BY <2>1, <3>1, RxQueueTypes
  <2> QED BY <1>8, <2>1, <2>2 DEF TailRx, Step
<1>9. CASE EnableTx
  <2>1. i \in TxQueues
    BY <1>9 DEF EnableTx
  <2> QED BY <1>9, <2>1 DEF EnableTx, Step, TxQueue
<1>10. CASE ~QueueSteps
  BY <1>10, OtherSteps
<1> QED BY <1>1, <1>2, <1>3, <1>4, <1>5, <1>6, <1>7, <1>8, <1>9, <1>10 DEF QueueSteps

\* The counts keep their types: the driver goes through no more queues than
\* there are.
LEMMA CountsStep ==
  ASSUME IInv, [Next]_vars
  PROVE  CountsOK'
<1> USE Constants DEF IInv, TypeOK, CountsOK, Control, OverTxQueues, Filling, Finishing,
                     asked, registers, Step, Waited
<1>1. CASE HwReset
  <2>1. [up |-> FALSE, speed |-> 0] \in LinksRegister
    BY NicInitAssumption, Zenon
  <2> QED BY <1>1, <2>1 DEF HwReset, driver
<1>2. CASE Running
  BY <1>2 DEF Running, HwEepromRead, HwDmaInit, HwEnable, HwLink, HwReceive, driver
<1>3. CASE Probe \/ disable_interrupts("disable", "reset") \/ Reset \/ WaitReset
  BY <1>3 DEF Probe, disable_interrupts, Reset, WaitReset
<1>4. CASE \/ disable_interrupts("disable_again", "wait_eeprom") \/ WaitEeprom
           \/ WaitDma \/ InitRx
  BY <1>4 DEF disable_interrupts, WaitEeprom, WaitDma, InitRx
<1>5. CASE InitRxQueue
  BY <1>5 DEF InitRxQueue, Failures
<1>6. CASE StartRx
  BY <1>6 DEF StartRx
<1>7. CASE InitTxQueue
  BY <1>7 DEF InitTxQueue, Failures
<1>8. CASE StartTx
  BY <1>8 DEF StartTx
<1>9. CASE Fill
  BY <1>9 DEF Fill
<1>10. CASE EnableRx \/ WaitRx
  BY <1>10 DEF EnableRx, WaitRx
<1>11. CASE TailRx
  BY <1>11 DEF TailRx, RxProgress, Failures
<1>12. CASE RxStarted
  BY <1>12 DEF RxStarted
<1>13. CASE EnableTx
  BY <1>13 DEF EnableTx
<1>14. CASE WaitTx
  BY <1>14 DEF WaitTx, TxProgress, Failures
<1>15. CASE SetPromisc
  BY <1>15 DEF SetPromisc
<1>16. CASE WaitLink
  BY <1>16 DEF WaitLink
<1>17. CASE UNCHANGED vars
  BY <1>17 DEF vars, driver
<1> QED BY <1>1, <1>2, <1>3, <1>4, <1>5, <1>6, <1>7, <1>8, <1>9, <1>10, <1>11, <1>12,
           <1>13, <1>14, <1>15, <1>16, <1>17 DEF Next, Driver, Hardware

\* What does not depend on a queue.
LEMMA ControlStep ==
  ASSUME IInv, [Next]_vars
  PROVE  Control'
<1> USE Constants DEF IInv, TypeOK, CountsOK, Control, OverTxQueues, Settling, Filling,
                     Finishing, RingsSet, Steps, Failures, Inherited, asked, registers,
                     Step, Waited
<1>1. CASE HwReset
  BY <1>1 DEF HwReset, driver
<1>2. CASE Running
  BY <1>2 DEF Running, HwEepromRead, HwDmaInit, HwEnable, HwLink, HwReceive, driver
<1>3. CASE Probe
  BY <1>3 DEF Probe, pci_map_resource
<1>4. CASE disable_interrupts("disable", "reset") \/ Reset \/ WaitReset
  BY <1>4 DEF disable_interrupts, Reset, WaitReset
<1>5. CASE \/ disable_interrupts("disable_again", "wait_eeprom") \/ WaitEeprom
           \/ WaitDma \/ InitRx
  BY <1>5 DEF disable_interrupts, WaitEeprom, WaitDma, InitRx
<1>6. CASE InitRxQueue \/ StartRx
  BY <1>6 DEF InitRxQueue, StartRx
<1>7. CASE InitTxQueue \/ StartTx
  BY <1>7 DEF InitTxQueue, StartTx
<1>8. CASE Fill \/ EnableRx \/ WaitRx
  BY <1>8 DEF Fill, EnableRx, WaitRx
<1>9. CASE TailRx
  BY <1>9 DEF TailRx, RxProgress
<1>10. CASE RxStarted \/ EnableTx
  BY <1>10 DEF RxStarted, EnableTx
<1>11. CASE WaitTx
  BY <1>11 DEF WaitTx, TxProgress
<1>12. CASE SetPromisc \/ WaitLink
  BY <1>12 DEF SetPromisc, WaitLink
<1>13. CASE UNCHANGED vars
  BY <1>13 DEF vars, driver
<1> QED BY <1>1, <1>2, <1>3, <1>4, <1>5, <1>6, <1>7, <1>8, <1>9, <1>10, <1>11, <1>12,
           <1>13 DEF Next, Driver, Hardware

\* How far the receive queues are.
LEMMA RxStep ==
  ASSUME IInv, [Next]_vars
  PROVE  RxProgress'
<1> USE Constants DEF IInv, TypeOK, CountsOK, QueuesOK, RxProgress, AfterReset, Settling,
                     Filling, Finishing, RingsSet, Unstarted, Started, Filled, RxQueues,
                     asked, registers, Step, Waited, Failures
<1>1. CASE HwReset
  BY <1>1 DEF HwReset, driver, Control, Disabled
<1>2. CASE HwEepromRead \/ HwDmaInit \/ HwLink
  BY <1>2, SMTT(30) DEF HwEepromRead, HwDmaInit, HwLink, driver
<1>3. CASE HwEnable
  <2>1. UNCHANGED <<pc, i, k, num_rx_queues, CTRL_RST, RXEN, ring>>
    BY <1>3 DEF HwEnable, driver
  <2>2. CASE UNCHANGED rx
    BY <2>1, <2>2
  <2>3. ASSUME NEW q \in RxQueues, rx[q].enable = "asked",
               rx' = [rx EXCEPT ![q].enable = "on"]
        PROVE  RxProgress'
    BY <2>1, <2>3 DEF RxQueue
  <2> QED BY <1>3, <2>2, <2>3 DEF HwEnable
<1>4. CASE \E q \in RxQueues : HwReceive(q)
  BY <1>4 DEF HwReceive, Receiving, driver, RxQueue
<1>5. CASE Probe
  BY <1>5 DEF Probe, pci_map_resource
<1>6. CASE disable_interrupts("disable", "reset") \/ Reset \/ WaitReset
  BY <1>6 DEF disable_interrupts, Reset, WaitReset
<1>7. CASE disable_interrupts("disable_again", "wait_eeprom") \/ WaitEeprom \/ WaitDma
  BY <1>7 DEF disable_interrupts, WaitEeprom, WaitDma
<1>8. CASE InitRx
  BY <1>8 DEF InitRx
<1>9. CASE InitRxQueue
  BY <1>9 DEF InitRxQueue, RxQueue
<1>10. CASE StartRx
  BY <1>10 DEF StartRx
<1>11. CASE InitTxQueue
  BY <1>11 DEF InitTxQueue
<1>12. CASE StartTx
  BY <1>12 DEF StartTx, Entries
<1>13. CASE Fill
  <2>1. /\ UNCHANGED <<i, num_rx_queues, CTRL_RST, RXEN, rx>>
        /\ pc = "fill" /\ pc' = "fill"
        /\ i \in RxQueues /\ k \in Entries /\ k' = k + 1
    BY <1>13 DEF Fill, Entries
  <2>2. \A q \in RxQueues : q # i => ring'[q] = ring[q]
    BY <1>13 DEF Fill
  <2>3. \A e \in Entries : ring'[i][e] = IF e = k THEN "packet" ELSE ring[i][e]
    BY <1>13, <2>1 DEF Fill
  <2>4. RXEN' /\ \A q \in RxQueues : rx'[q].ring = "ours"
    BY <2>1
  <2>5. \A q \in RxQueues : (q < i => Started(q)') /\ (q > i => Unstarted(q)')
    BY <2>1, <2>2
  <2>6. Unstarted(i)' /\ \A e \in Entries : e < k' => ring'[i][e] = "packet"
    BY <2>1, <2>3 DEF Entries
  <2>7. RxQueues' = RxQueues /\ ~AfterReset'
    BY <2>1
  <2> HIDE DEF IInv, Started, Unstarted, RxQueues, AfterReset
  <2> QED BY <2>1, <2>4, <2>5, <2>6, <2>7
<1>14. CASE EnableRx
  BY <1>14 DEF EnableRx, RxQueue, Entries
<1>15. CASE WaitRx
  BY <1>15 DEF WaitRx
<1>16. CASE TailRx
  BY <1>16, SMTT(30) DEF TailRx, RxQueue, Entries
<1>17. CASE RxStarted
  BY <1>17 DEF RxStarted
<1>18. CASE EnableTx \/ WaitTx
  BY <1>18, SMTT(30) DEF EnableTx, WaitTx
<1>19. CASE SetPromisc \/ WaitLink
  BY <1>19 DEF SetPromisc, WaitLink
<1>20. CASE UNCHANGED vars
  BY <1>20 DEF vars, driver
<1> QED BY <1>1, <1>2, <1>3, <1>4, <1>5, <1>6, <1>7, <1>8, <1>9, <1>10, <1>11, <1>12,
           <1>13, <1>14, <1>15, <1>16, <1>17, <1>18, <1>19, <1>20
        DEF Next, Driver, Hardware, Running

\* How far the transmit queues are.
LEMMA TxStep ==
  ASSUME IInv, [Next]_vars
  PROVE  TxProgress'
<1> USE Constants DEF IInv, TypeOK, CountsOK, QueuesOK, TxProgress, Settling, Filling,
                     Finishing, RingsSet, TxQueues, asked, registers, Step, Waited, Failures
<1>1. CASE HwReset
  BY <1>1 DEF HwReset, driver, Control
<1>2. CASE HwEepromRead \/ HwDmaInit \/ HwLink \/ \E q \in RxQueues : HwReceive(q)
  BY <1>2 DEF HwEepromRead, HwDmaInit, HwLink, HwReceive, driver
<1>3. CASE HwEnable
  <2>1. UNCHANGED <<pc, i, num_tx_queues, TE>>
    BY <1>3 DEF HwEnable, driver
  <2>2. CASE UNCHANGED tx
    BY <2>1, <2>2
  <2>3. ASSUME NEW q \in TxQueues, tx[q].enable = "asked",
               tx' = [tx EXCEPT ![q].enable = "on"]
        PROVE  TxProgress'
    BY <2>1, <2>3 DEF TxQueue
  <2> QED BY <1>3, <2>2, <2>3 DEF HwEnable
<1>5. CASE Probe
  BY <1>5 DEF Probe, pci_map_resource
<1>6. CASE disable_interrupts("disable", "reset") \/ Reset \/ WaitReset
  BY <1>6 DEF disable_interrupts, Reset, WaitReset
<1>7. CASE disable_interrupts("disable_again", "wait_eeprom") \/ WaitEeprom \/ WaitDma
  BY <1>7 DEF disable_interrupts, WaitEeprom, WaitDma
<1>8. CASE InitRx \/ InitRxQueue \/ StartRx
  BY <1>8 DEF InitRx, InitRxQueue, StartRx
<1>11. CASE InitTxQueue
  BY <1>11 DEF InitTxQueue, TxQueue
<1>12. CASE StartTx
  BY <1>12 DEF StartTx
<1>13. CASE Fill \/ EnableRx \/ WaitRx \/ TailRx \/ RxStarted
  BY <1>13 DEF Fill, EnableRx, WaitRx, TailRx, RxStarted
<1>18. CASE EnableTx
  BY <1>18 DEF EnableTx, TxQueue
<1>19. CASE WaitTx
  BY <1>19 DEF WaitTx
<1>20. CASE SetPromisc \/ WaitLink
  BY <1>20 DEF SetPromisc, WaitLink
<1>21. CASE UNCHANGED vars
  BY <1>21 DEF vars, driver
<1> QED BY <1>1, <1>2, <1>3, <1>5, <1>6, <1>7, <1>8, <1>11, <1>12, <1>13, <1>18, <1>19,
           <1>20, <1>21 DEF Next, Driver, Hardware, Running

-----------------------------------------------------------------------------
(* The theorems about initialization.                                      *)

LEMMA InitEstablishes == Init => IInv
<1> SUFFICES ASSUME Init PROVE IInv
  OBVIOUS
<1> USE Constants DEF Init
<1>1. FlagsOK
  BY Zenon DEF FlagsOK
<1>2. CountsOK
  BY DEF CountsOK
<1>3. QueuesOK
  BY DEF QueuesOK, RxQueues, TxQueues, RxQueue, TxQueue, Disabled, Left, TxDisabled, Entries
<1>4. Control
  BY DEF Control, Steps, OverTxQueues, Settling, Filling, Finishing, RingsSet, Failures,
         Inherited
<1>5. RxProgress /\ TxProgress
  BY DEF RxProgress, TxProgress, AfterReset, Settling, Filling, Finishing, RingsSet
<1> QED BY <1>1, <1>2, <1>3, <1>4, <1>5 DEF IInv, TypeOK

LEMMA NextPreserves ==
  ASSUME IInv, [Next]_vars
  PROVE  IInv'
<1>1. FlagsOK'
  BY FlagsStep DEF IInv, TypeOK
<1> QED BY <1>1, CountsStep, QueuesStep, ControlStep, RxStep, TxStep DEF IInv, TypeOK

LEMMA InvariantImplies == IInv => TypeOK /\ NoRogueDMA /\ Ready
<1> SUFFICES ASSUME IInv PROVE TypeOK /\ NoRogueDMA /\ Ready
  OBVIOUS
<1> USE Constants DEF IInv
<1>1. NoRogueDMA
  <2> SUFFICES ASSUME ~Inherited, NEW q \in RxQueues, Receiving(q)
               PROVE  rx[q].ring = "ours" /\ ring[q][rx[q].RDH] = "packet"
    BY DEF NoRogueDMA
  <2>1. ~AfterReset /\ pc # "rx_ring" /\ pc # "wait_reset"
    BY DEF Receiving, RxProgress, Control, AfterReset
  <2>2. pc \in RingsSet
    BY <2>1 DEF Control, Steps, Inherited, AfterReset
  <2>3. rx[q].RDH \in Entries
    BY DEF TypeOK, QueuesOK, RxQueue
  <2>4. Filled(q)
    BY <2>2 DEF RxProgress, RingsSet, Filling, Finishing, Receiving, Started, Unstarted,
                RxQueues, TypeOK, CountsOK
  <2> QED BY <2>2, <2>3, <2>4 DEF RxProgress, Filled
<1>2. Ready
  <2> SUFFICES ASSUME pc = "done" PROVE Ready
    BY DEF Ready
  <2>1. pc \in Finishing /\ pc \in RingsSet /\ ~Inherited
    BY DEF Finishing, RingsSet, Inherited, Failures
  <2>2. bus_master /\ RXEN /\ TE /\ FCTRL_PROMISC /\ ~CTRL_RST /\ ~irq
    BY <2>1 DEF RxProgress, TxProgress, Control, Failures
  <2> QED BY <2>1, <2>2 DEF Ready, RxProgress, TxProgress, Started, Filled
<1> QED BY <1>1, <1>2 DEF TypeOK

\* The invariant is one of initialization alone ...
THEOREM InitInvariant == Spec => []IInv
<1>1. Init => IInv
  BY InitEstablishes
<1>2. IInv /\ [Next]_vars => IInv'
  BY NextPreserves
<1> QED BY <1>1, <1>2, PTL DEF Spec

\* ... and of initialization while the device counts and report() reads: these
\* leave initialization alone.
LEMMA StatsStep == StatsNext => [Next]_vars
<1> SUFFICES ASSUME StatsNext PROVE [Next]_vars
  OBVIOUS
<1>1. CASE Initialize \/ Reset82599 \/ Running82599
  BY <1>1 DEF Initialize, Reset82599, Running82599, Next, Hardware
<1>2. CASE \E d \in Directions, n \in FrameSizes : HwCount(d, n)
  BY <1>2 DEF HwCount
<1>3. CASE Report \/ AddStats
  BY <1>3 DEF Report, AddStats
<1>4. CASE read_stats
  BY <1>4 DEF read_stats, ReadPackets, ReadLow, ReadHigh, Read
<1> QED BY <1>1, <1>2, <1>3, <1>4 DEF StatsNext

\* ... and holds as well with the statistics counters beside it.
THEOREM StatsInitInvariant == StatsSpec => []IInv
<1>1. StatsInit => IInv
  BY InitEstablishes DEF StatsInit
<1>2. IInv /\ [StatsNext]_stats_vars => IInv'
  <2> SUFFICES ASSUME IInv, [StatsNext]_stats_vars PROVE IInv'
    OBVIOUS
  <2>1. [Next]_vars
    BY StatsStep DEF stats_vars
  <2> QED BY <2>1, NextPreserves
<1> QED BY <1>1, <1>2, PTL DEF StatsSpec

\* Every variable of initialization always has its type; the driver goes through
\* no more queues than there are.
THEOREM NicTypeCorrect == Spec => []TypeOK
BY InitInvariant, InvariantImplies, PTL

\* "prevent rogue memory accesses on premature dma activation" (ixgbe.rs:423),
\* with any number of queues and rings of any size.
THEOREM NeverRogueDMA == StatsSpec => []NoRogueDMA
BY StatsInitInvariant, InvariantImplies, PTL

\* init() returns a device with every queue enabled and filled, interrupts off,
\* and no reset after what was written to it.
THEOREM ReturnsReady == StatsSpec => []Ready
BY StatsInitInvariant, InvariantImplies, PTL

-----------------------------------------------------------------------------
(* Statistics.                                                             *)

\* What read_stats() has taken off a counter is in `high' or in `read' until it
\* is added.
Pkts(d)  == stats[d].pkts + read[d].pkts + counter[d].pkts
Bytes(d) == stats[d].bytes + read[d].bytes + high[d] * Word + counter[d].bytes

CountersOK ==
  /\ counter \in [Directions -> [pkts : Nat, bytes : Nat]]
  /\ read    \in [Directions -> [pkts : Nat, bytes : Nat]]
  /\ stats   \in [Directions -> [pkts : Nat, bytes : Nat]]
  /\ counted \in [Directions -> [pkts : Nat, bytes : Nat]]
  /\ high    \in [Directions -> Nat]
  /\ stuck   \in [Directions -> BOOLEAN]

\* A register is empty when it is not the next one read.
ReportProgress ==
  /\ step \in {"idle", "GPRC", "GPTC", "GORCL", "GORCH", "GOTCL", "GOTCH", "add"}
  /\ step \in {"idle", "GPRC"} => read["rx"].pkts = 0
  /\ step \in {"idle", "GPRC", "GPTC"} => read["tx"].pkts = 0
  /\ step = "idle" => \A d \in Directions : read[d].bytes = 0
  /\ step # "GORCH" => high["rx"] = 0
  /\ step # "GOTCH" => high["tx"] = 0
  /\ step # "idle" => pc = "done"
  /\ pc # "done" => stats = Zero /\ read = Zero

\* Nothing that was counted since the reset is lost or taken twice.
Accounted ==
  ~Inherited /\ ~CTRL_RST => \A d \in Directions :
    /\ Pkts(d) <= counted[d].pkts /\ Bytes(d) <= counted[d].bytes
    /\ ~stuck[d] => Pkts(d) = counted[d].pkts /\ Bytes(d) = counted[d].bytes

StatsInv == CountersOK /\ ReportProgress /\ Accounted

\* A count is its low and its high part.
LEMMA LowHigh ==
  ASSUME NEW c \in Nat
  PROVE  /\ c % Word \in Nat /\ c \div Word \in Nat
         /\ (c % Word) + (c \div Word) * Word = c
<1>1. Word \in Nat /\ Word > 0
  BY NicStatsAssumption
<1>2. c % Word \in 0 .. Word - 1 /\ c \div Word \in Int
  BY <1>1
<1>3. c % Word = c - Word * (c \div Word)
  BY <1>1, SMTT(30)
<1> QED BY <1>1, <1>2, <1>3

\* A product with the width of a register is a number.
LEMMA HighPart ==
  ASSUME NEW h \in Nat
  PROVE  h * Word \in Nat /\ 0 * Word = 0
BY NicStatsAssumption

\* The steps of initialization end when init() returns; none but the reset of
\* the device ends what is left of its last user.
LEMMA DriverSteps ==
  ASSUME IInv, Driver
  PROVE  /\ pc # "done"
         /\ (~Inherited /\ ~CTRL_RST)' => ~Inherited /\ ~CTRL_RST
BY DEF IInv, Control, Driver, Inherited, Failures, Probe, pci_map_resource, disable_interrupts, Reset,
   WaitReset, WaitEeprom, WaitDma, InitRx, InitRxQueue, StartRx, InitTxQueue, StartTx, Fill,
   EnableRx, WaitRx, TailRx, RxStarted, EnableTx, WaitTx, SetPromisc, WaitLink, Waited,
   Step, registers

LEMMA RunningSteps ==
  ASSUME Running
  PROVE  UNCHANGED <<pc, CTRL_RST>>
BY DEF Running, HwEepromRead, HwDmaInit, HwEnable, HwLink, HwReceive, driver

\* A report is under way only after initialization.
LEMMA NoReport ==
  ASSUME StatsInv, pc # "done"
  PROVE  step = "idle" /\ stats = Zero /\ read = Zero /\ high = [d \in Directions |-> 0]
BY DEF StatsInv, ReportProgress, CountersOK, Directions

\* Clearing the counters of a device that nothing was read of yet.
LEMMA ClearedCounters ==
  ASSUME ClearCounters, UNCHANGED app,
         step = "idle", stats = Zero, read = Zero
  PROVE  StatsInv'
<1> USE DEF Zero, Directions
<1>1. /\ counter' = Zero /\ high' = [d \in Directions |-> 0]
      /\ counted' = Zero /\ stuck' = [d \in Directions |-> FALSE]
      /\ step' = "idle" /\ stats' = Zero /\ read' = Zero
  BY DEF ClearCounters, app
<1>2. CountersOK'
  BY <1>1 DEF CountersOK
<1>3. ReportProgress'
  BY <1>1 DEF ReportProgress
<1>4. \A d \in Directions : Pkts(d)' = 0 /\ Bytes(d)' = 0
  BY <1>1, HighPart DEF Pkts, Bytes
<1>5. Accounted'
  BY <1>1, <1>4 DEF Accounted
<1> QED BY <1>2, <1>3, <1>5 DEF StatsInv

\* Without a report, steps that leave counters and statistics alone.
LEMMA SameCounters ==
  ASSUME StatsInv, UNCHANGED <<app, device_counters>>,
         pc = "done" => pc' = "done",
         (~Inherited /\ ~CTRL_RST)' => ~Inherited /\ ~CTRL_RST
  PROVE  StatsInv'
<1>1. UNCHANGED <<step, read, stats, counter, high, counted, stuck>>
  BY DEF app, device_counters
<1>2. CountersOK'
  BY <1>1 DEF StatsInv, CountersOK
<1>3. ReportProgress'
  BY <1>1 DEF StatsInv, ReportProgress
<1>4. Accounted'
  BY <1>1 DEF StatsInv, Accounted, Pkts, Bytes
<1> QED BY <1>2, <1>3, <1>4 DEF StatsInv

\* Initialization and the device, when it does not count.
LEMMA StatsInitialize ==
  ASSUME IInv, StatsInv, Initialize \/ Reset82599 \/ Running82599
  PROVE  StatsInv'
<1>1. CASE Initialize
  <2>1. pc # "done" /\ ((~Inherited /\ ~CTRL_RST)' => ~Inherited /\ ~CTRL_RST)
    BY <1>1, DriverSteps DEF Initialize
  <2>2. CASE pc = "wait_dma"
    BY <1>1, <2>1, <2>2, NoReport, ClearedCounters DEF Initialize, reset_stats
  <2>3. CASE pc # "wait_dma"
    BY <1>1, <2>1, <2>3, SameCounters DEF Initialize
  <2> QED BY <2>2, <2>3
<1>2. CASE Reset82599
  <2>1. pc # "done"
    BY <1>2 DEF Reset82599, HwReset, IInv, Control
  <2> QED BY <1>2, <2>1, NoReport, ClearedCounters DEF Reset82599
<1>3. CASE Running82599
  <2>1. UNCHANGED <<pc, CTRL_RST>>
    BY <1>3, RunningSteps DEF Running82599
  <2>2. (~Inherited /\ ~CTRL_RST)' => ~Inherited /\ ~CTRL_RST
    BY <2>1 DEF Inherited
  <2> QED BY <1>3, <2>1, <2>2, SameCounters DEF Running82599
<1> QED BY <1>1, <1>2, <1>3

\* The device counts a frame, or sticks.
LEMMA StatsCount ==
  ASSUME StatsInv, NEW d \in Directions, NEW n \in FrameSizes, HwCount(d, n)
  PROVE  StatsInv'
<1> DEFINE M == Word * HighWord
           c == counter[d]
<1>1. n \in Nat /\ Word \in Nat /\ Word > 0 /\ M \in Nat /\ M > 0
  BY NicStatsAssumption
<1> HIDE DEF M
<1>2. c \in [pkts : Nat, bytes : Nat]
  BY DEF StatsInv, CountersOK
<1>3. /\ counter' = [counter EXCEPT ![d] = [pkts  |-> AtMost(c.pkts + 1, Word - 1),
                                            bytes |-> AtMost(c.bytes + n, M - 1)]]
      /\ stuck' = [stuck EXCEPT ![d] = @ \/ c.pkts + 1 > Word - 1 \/ c.bytes + n > M - 1]
      /\ counted' = [counted EXCEPT ![d] = [pkts |-> @.pkts + 1, bytes |-> @.bytes + n]]
  BY DEF HwCount, M
<1>4. UNCHANGED <<pc, CTRL_RST, high, step, read, stats>>
  BY DEF HwCount, vars, driver, registers, app
<1>5. AtMost(c.pkts + 1, Word - 1) \in Nat /\ AtMost(c.bytes + n, M - 1) \in Nat
  BY <1>1, <1>2 DEF AtMost
<1>6. CountersOK'
  BY <1>1, <1>3, <1>4, <1>5 DEF StatsInv, CountersOK
<1>7. ReportProgress'
  BY <1>4 DEF StatsInv, ReportProgress
<1>8. Accounted'
  <2> SUFFICES ASSUME (~Inherited /\ ~CTRL_RST)', NEW e \in Directions
               PROVE  /\ Pkts(e)' <= counted'[e].pkts /\ Bytes(e)' <= counted'[e].bytes
                      /\ ~stuck'[e] => /\ Pkts(e)' = counted'[e].pkts
                                       /\ Bytes(e)' = counted'[e].bytes
    BY DEF Accounted
  <2>1. /\ Pkts(e) <= counted[e].pkts /\ Bytes(e) <= counted[e].bytes
        /\ ~stuck[e] => Pkts(e) = counted[e].pkts /\ Bytes(e) = counted[e].bytes
    BY <1>4 DEF StatsInv, Accounted, Inherited
  <2>2. CASE e # d
    <3>1. counter'[e] = counter[e] /\ counted'[e] = counted[e] /\ stuck'[e] = stuck[e]
      BY <1>3, <2>2 DEF StatsInv, CountersOK
    <3> QED BY <1>4, <2>1, <3>1 DEF Pkts, Bytes
  <2>3. CASE e = d
    <3> DEFINE h == high[d] * Word
    <3>1. h \in Nat
      BY HighPart DEF StatsInv, CountersOK
    <3> HIDE DEF h
    <3>2. /\ Pkts(d) = stats[d].pkts + read[d].pkts + c.pkts
          /\ Bytes(d) = stats[d].bytes + read[d].bytes + h + c.bytes
      BY DEF Pkts, Bytes, h
    <3>3. /\ Pkts(d)' = stats[d].pkts + read[d].pkts + AtMost(c.pkts + 1, Word - 1)
          /\ Bytes(d)' = stats[d].bytes + read[d].bytes + h + AtMost(c.bytes + n, M - 1)
      BY <1>3, <1>4 DEF Pkts, Bytes, h, StatsInv, CountersOK
    <3>4. /\ counted'[d].pkts = counted[d].pkts + 1
          /\ counted'[d].bytes = counted[d].bytes + n
      BY <1>1, <1>2, <1>3 DEF StatsInv, CountersOK
    <3>7. ~stuck'[d] =>
            ~stuck[d] /\ ~(c.pkts + 1 > Word - 1) /\ ~(c.bytes + n > M - 1)
      BY <1>3, Zenon DEF StatsInv, CountersOK
    <3>5. /\ stats[d].pkts \in Nat /\ read[d].pkts \in Nat /\ counted[d].pkts \in Nat
          /\ stats[d].bytes \in Nat /\ read[d].bytes \in Nat /\ counted[d].bytes \in Nat
          /\ c.pkts \in Nat /\ c.bytes \in Nat
      BY <1>2 DEF StatsInv, CountersOK
    <3>6. /\ AtMost(c.pkts + 1, Word - 1) <= c.pkts + 1
          /\ AtMost(c.bytes + n, M - 1) <= c.bytes + n
          /\ ~(c.pkts + 1 > Word - 1) => AtMost(c.pkts + 1, Word - 1) = c.pkts + 1
          /\ ~(c.bytes + n > M - 1) => AtMost(c.bytes + n, M - 1) = c.bytes + n
      BY <1>1, <3>5 DEF AtMost
    <3> HIDE DEF c
    <3> QED BY <1>1, <1>5, <2>1, <2>3, <3>1, <3>2, <3>3, <3>4, <3>5, <3>6, <3>7
  <2> QED BY <2>2, <2>3
<1> QED BY <1>6, <1>7, <1>8 DEF StatsInv

\* A step of report() that takes nothing away and adds nothing.
LEMMA StatsKept ==
  ASSUME StatsInv, CountersOK', ReportProgress',
         UNCHANGED <<vars, counted, stuck>>,
         \A d \in Directions : Pkts(d)' = Pkts(d) /\ Bytes(d)' = Bytes(d)
  PROVE  StatsInv'
<1>1. UNCHANGED <<pc, CTRL_RST>>
  BY DEF vars, driver, registers
<1> QED BY <1>1 DEF StatsInv, Accounted, Inherited

LEMMA StatsReadPackets ==
  ASSUME StatsInv, NEW d \in Directions, NEW from, NEW to, ReadPackets(d, from, to),
         <<d, from, to>> \in {<<"rx", "GPRC", "GPTC">>, <<"tx", "GPTC", "GORCL">>}
  PROVE  StatsInv'
<1> USE DEF Directions
<1>1. UNCHANGED <<vars, pc, stats, counted, stuck, high>>
  BY DEF ReadPackets, Read, vars, driver
<1>2. /\ step = from /\ step' = to
      /\ read' = [read EXCEPT ![d].pkts = counter[d].pkts]
      /\ counter' = [counter EXCEPT ![d].pkts = 0]
  BY DEF ReadPackets, Read
<1>3. CountersOK'
  BY <1>1, <1>2 DEF StatsInv, CountersOK
<1>4. ReportProgress'
  BY <1>1, <1>2 DEF StatsInv, ReportProgress, CountersOK
<1>5. read[d].pkts = 0
  BY <1>2 DEF StatsInv, ReportProgress
<1>6. ASSUME NEW e \in Directions PROVE Pkts(e)' = Pkts(e) /\ Bytes(e)' = Bytes(e)
  BY <1>1, <1>2, <1>5 DEF StatsInv, CountersOK, Pkts, Bytes
<1> QED BY <1>1, <1>3, <1>4, <1>6, StatsKept

LEMMA StatsReadLow ==
  ASSUME StatsInv, NEW d \in Directions, NEW from, NEW to, ReadLow(d, from, to),
         <<d, from, to>> \in {<<"rx", "GORCL", "GORCH">>, <<"tx", "GOTCL", "GOTCH">>}
  PROVE  StatsInv'
<1> DEFINE c == counter[d].bytes
           low == c % Word
           hi == c \div Word
<1>1. UNCHANGED <<vars, pc, stats, counted, stuck>>
  BY DEF ReadLow, Read, vars, driver
<1>2. /\ step = from /\ step' = to
      /\ read' = [read EXCEPT ![d].bytes = @ + low]
      /\ high' = [high EXCEPT ![d] = hi]
      /\ counter' = [counter EXCEPT ![d].bytes = 0]
  BY DEF ReadLow, Read
<1>3. c \in Nat /\ low \in Nat /\ hi \in Nat /\ low + hi * Word = c
  <2>1. c \in Nat
    BY DEF StatsInv, CountersOK
  <2> QED BY <2>1, LowHigh
<1> HIDE DEF low, hi
<1>4. CountersOK'
  <2>1. read' \in [Directions -> [pkts : Nat, bytes : Nat]]
    BY <1>2, <1>3, SMTT(30) DEF StatsInv, CountersOK
  <2>2. high' \in [Directions -> Nat] /\ counter' \in [Directions -> [pkts : Nat, bytes : Nat]]
    BY <1>2, <1>3 DEF StatsInv, CountersOK
  <2> QED BY <1>1, <2>1, <2>2 DEF StatsInv, CountersOK
<1>5. ReportProgress'
  BY <1>1, <1>2 DEF StatsInv, ReportProgress, CountersOK, Directions
<1>6. high[d] = 0
  BY <1>2 DEF StatsInv, ReportProgress, Directions
<1>7. ASSUME NEW e \in Directions PROVE Pkts(e)' = Pkts(e) /\ Bytes(e)' = Bytes(e)
  <2>1. CASE e # d
    BY <1>1, <1>2, <2>1 DEF StatsInv, CountersOK, Pkts, Bytes
  <2>2. CASE e = d
    <3> DEFINE h == hi * Word
    <3>1. h \in Nat /\ 0 * Word = 0
      BY <1>3, HighPart
    <3>2. /\ Pkts(d)' = Pkts(d)
          /\ Bytes(d)' = stats[d].bytes + (read[d].bytes + low) + h + 0
      BY <1>1, <1>2 DEF StatsInv, CountersOK, Pkts, Bytes
    <3>3. Bytes(d) = stats[d].bytes + read[d].bytes + 0 + c
      BY <1>6, <3>1 DEF Bytes
    <3>4. stats[d].bytes \in Nat /\ read[d].bytes \in Nat
      BY DEF StatsInv, CountersOK
    <3>5. low + h = c
      BY <1>3
    <3> HIDE DEF h, c
    <3> QED BY <1>3, <2>2, <3>1, <3>2, <3>3, <3>4, <3>5
  <2> QED BY <2>1, <2>2
<1> QED BY <1>1, <1>4, <1>5, <1>7, StatsKept

LEMMA StatsReadHigh ==
  ASSUME StatsInv, NEW d \in Directions, NEW from, NEW to, ReadHigh(d, from, to),
         <<d, from, to>> \in {<<"rx", "GORCH", "GOTCL">>, <<"tx", "GOTCH", "add">>}
  PROVE  StatsInv'
<1> DEFINE h == high[d] * Word
<1>1. UNCHANGED <<vars, pc, stats, counted, stuck, counter>>
  BY DEF ReadHigh, Read, vars, driver
<1>2. /\ step = from /\ step' = to
      /\ read' = [read EXCEPT ![d].bytes = @ + h]
      /\ high' = [high EXCEPT ![d] = 0]
  BY DEF ReadHigh, Read
<1>3. h \in Nat /\ 0 * Word = 0
  BY HighPart DEF StatsInv, CountersOK
<1>4. CountersOK'
  <2> HIDE DEF h
  <2> QED BY <1>1, <1>2, <1>3 DEF StatsInv, CountersOK
<1>5. ReportProgress'
  <2> HIDE DEF h
  <2> QED BY <1>1, <1>2 DEF StatsInv, ReportProgress, CountersOK, Directions
<1>6. ASSUME NEW e \in Directions PROVE Pkts(e)' = Pkts(e) /\ Bytes(e)' = Bytes(e)
  <2>1. CASE e # d
    BY <1>1, <1>2, <2>1 DEF StatsInv, CountersOK, Pkts, Bytes
  <2>2. CASE e = d
    <3>1. Pkts(d)' = Pkts(d)
      BY <1>1, <1>2 DEF StatsInv, CountersOK, Pkts
    <3>2. Bytes(d) = stats[d].bytes + read[d].bytes + h + counter[d].bytes
      BY DEF Bytes
    <3>3. Bytes(d)' = stats[d].bytes + (read[d].bytes + h) + 0 + counter[d].bytes
      BY <1>1, <1>2, <1>3 DEF StatsInv, CountersOK, Bytes
    <3>4. stats[d].bytes \in Nat /\ read[d].bytes \in Nat /\ counter[d].bytes \in Nat
      BY DEF StatsInv, CountersOK
    <3> HIDE DEF h
    <3> QED BY <1>3, <2>2, <3>1, <3>2, <3>3, <3>4
  <2> QED BY <2>1, <2>2
<1> QED BY <1>1, <1>4, <1>5, <1>6, StatsKept

LEMMA StatsReport ==
  ASSUME StatsInv, Report \/ AddStats
  PROVE  StatsInv'
<1>1. UNCHANGED <<vars, pc, counter, high, counted, stuck>>
  BY DEF Report, AddStats, vars, driver, device_counters
<1>2. high["rx"] = 0 /\ high["tx"] = 0
  BY DEF StatsInv, ReportProgress, Report, AddStats
<1>3. CASE Report
  <2>1. step = "idle" /\ step' = "GPRC" /\ pc = "done" /\ UNCHANGED stats /\ read' = Zero
    BY <1>3 DEF Report
  <2>2. CountersOK' /\ ReportProgress'
    BY <1>1, <1>2, <2>1 DEF StatsInv, CountersOK, ReportProgress, Zero, Directions
  <2>3. ASSUME NEW e \in Directions PROVE Pkts(e)' = Pkts(e) /\ Bytes(e)' = Bytes(e)
    BY <1>1, <2>1 DEF StatsInv, CountersOK, ReportProgress, Pkts, Bytes, Zero, Directions
  <2> QED BY <1>1, <2>2, <2>3, StatsKept
<1>4. CASE AddStats
  <2>1. /\ step = "add" /\ step' = "idle" /\ read' = Zero
        /\ stats' = [d \in Directions |-> [pkts  |-> stats[d].pkts + read[d].pkts,
                                           bytes |-> stats[d].bytes + read[d].bytes]]
    BY <1>4 DEF AddStats
  <2>2. CountersOK' /\ ReportProgress'
    BY <1>1, <1>2, <2>1 DEF StatsInv, CountersOK, ReportProgress, Zero, Directions
  <2>3. ASSUME NEW e \in Directions PROVE Pkts(e)' = Pkts(e) /\ Bytes(e)' = Bytes(e)
    <3> DEFINE h == high[e] * Word
    <3>1. h \in Nat
      BY HighPart DEF StatsInv, CountersOK
    <3>2. /\ Pkts(e)' = (stats[e].pkts + read[e].pkts) + 0 + counter[e].pkts
          /\ Bytes(e)' = (stats[e].bytes + read[e].bytes) + 0 + h + counter[e].bytes
      BY <1>1, <2>1 DEF Pkts, Bytes, Zero
    <3>3. /\ Pkts(e) = stats[e].pkts + read[e].pkts + counter[e].pkts
          /\ Bytes(e) = stats[e].bytes + read[e].bytes + h + counter[e].bytes
      BY DEF Pkts, Bytes
    <3>4. /\ stats[e].pkts \in Nat /\ read[e].pkts \in Nat /\ counter[e].pkts \in Nat
          /\ stats[e].bytes \in Nat /\ read[e].bytes \in Nat /\ counter[e].bytes \in Nat
      BY DEF StatsInv, CountersOK
    <3> HIDE DEF h
    <3> QED BY <3>1, <3>2, <3>3, <3>4
  <2> QED BY <1>1, <2>2, <2>3, StatsKept
<1> QED BY <1>3, <1>4

LEMMA StatsPreserves ==
  ASSUME IInv, StatsInv, [StatsNext]_stats_vars
  PROVE  StatsInv'
<1>1. CASE read_stats
  <2>1. CASE ReadPackets("rx", "GPRC", "GPTC") \/ ReadPackets("tx", "GPTC", "GORCL")
    BY <2>1, StatsReadPackets DEF Directions
  <2>2. CASE ReadLow("rx", "GORCL", "GORCH") \/ ReadLow("tx", "GOTCL", "GOTCH")
    BY <2>2, StatsReadLow DEF Directions
  <2>3. CASE ReadHigh("rx", "GORCH", "GOTCL") \/ ReadHigh("tx", "GOTCH", "add")
    BY <2>3, StatsReadHigh DEF Directions
  <2> QED BY <1>1, <2>1, <2>2, <2>3 DEF read_stats
<1>2. CASE UNCHANGED stats_vars
  <2>1. UNCHANGED <<app, device_counters, pc, CTRL_RST>>
    BY <1>2 DEF stats_vars, vars, driver, registers
  <2>2. (~Inherited /\ ~CTRL_RST)' => ~Inherited /\ ~CTRL_RST
    BY <2>1 DEF Inherited
  <2> QED BY <2>1, <2>2, SameCounters
<1> QED BY <1>1, <1>2, StatsInitialize, StatsCount, StatsReport DEF StatsNext

\* Statistics are exact for counters of any width and any traffic between the
\* reads of a report: read_stats() takes every packet and byte the device
\* counted once, and too few only if a counter was at its limit.
THEOREM StatisticsExact == StatsSpec => []StatsExact
<1>1. StatsInit => StatsInv
  <2> SUFFICES ASSUME StatsInit PROVE StatsInv
    OBVIOUS
  <2>1. CountersOK
    BY NicStatsAssumption DEF StatsInit, CountersOK, Zero, Directions
  <2>2. ReportProgress
    BY DEF StatsInit, ReportProgress, Zero, Directions
  <2>3. Accounted
    BY DEF StatsInit, Init, Accounted, Inherited
  <2> QED BY <2>1, <2>2, <2>3 DEF StatsInv
<1>2. IInv /\ StatsInv /\ [StatsNext]_stats_vars => StatsInv'
  BY StatsPreserves
<1>3. IInv /\ StatsInv => StatsExact
  <2> SUFFICES ASSUME IInv, StatsInv, pc = "done", step = "idle", NEW d \in Directions
               PROVE  /\ Pkts(d) = stats[d].pkts + counter[d].pkts
                      /\ Bytes(d) = stats[d].bytes + counter[d].bytes
                      /\ ~Inherited /\ ~CTRL_RST
    BY DEF StatsInv, Accounted, StatsExact
  <2>1. read[d].pkts = 0 /\ read[d].bytes = 0 /\ high[d] * Word = 0
    BY HighPart DEF StatsInv, ReportProgress, Directions
  <2>2. Pkts(d) = stats[d].pkts + counter[d].pkts /\ Bytes(d) = stats[d].bytes + counter[d].bytes
    BY <2>1 DEF StatsInv, CountersOK, Pkts, Bytes
  <2> QED BY <2>2 DEF IInv, Control, Inherited, Failures
<1> QED BY <1>1, <1>2, <1>3, StatsInitInvariant, PTL DEF StatsSpec

=============================================================================
