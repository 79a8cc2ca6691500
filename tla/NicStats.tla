------------------------------ MODULE NicStats ------------------------------
(***************************************************************************)
(* Statistics of the 82599: read_stats() and reset_stats() of              *)
(* src/ixy82599/ixgbe.rs, and report() of src/ixy82599_app.rs, while the   *)
(* device counts.  The device is initialized by NicInit.                   *)
(*                                                                         *)
(* A counter of the device is cleared when it is read, and sticks at its   *)
(* largest value.  A byte counter is two registers: reading the low one    *)
(* takes the count, and keeps the high part for the read that follows.     *)
(***************************************************************************)
EXTENDS NicInit, Registers

CONSTANTS
  Word,              \* 2^32: values of a register
  HighWord,          \* 2^4: values of the high register of a byte counter
  FrameSizes,        \* bytes of a frame
  MaxFrames          \* bound on the frames counted

ASSUME NicStatsAssumption ==
  /\ Word \in Nat \ {0, 1} /\ HighWord \in Nat \ {0} /\ MaxFrames \in Nat
  /\ FrameSizes \subseteq Nat

VARIABLES
  counter,           \* direction -> [pkts, bytes] the device has counted
  high,              \* direction -> the high part of a count being read
  step,              \* the register that report() reads next, or "idle"
  read,              \* direction -> [pkts, bytes] read so far
  stats,             \* direction -> [pkts, bytes], the DeviceStats of the app
  counted, stuck     \* direction -> what there was to count, and whether some
                     \* of it was not because a counter was at its limit

app       == <<step, read, stats>>
device_counters == <<counter, high, counted, stuck>>
stats_vars == <<vars, app, device_counters>>

Directions == {"rx", "tx"}
Zero       == [d \in Directions |-> [pkts |-> 0, bytes |-> 0]]

StatsInit ==
  /\ Init
  /\ counter = [d \in Directions |-> [pkts |-> 1, bytes |-> Word]]
  /\ high = [d \in Directions |-> 0]
  /\ step = "idle" /\ read = Zero /\ stats = Zero
  /\ counted = Zero /\ stuck = [d \in Directions |-> FALSE]

-----------------------------------------------------------------------------
(* The device.                                                             *)

AtMost(a, b) == IF a < b THEN a ELSE b

\* It receives or transmits a frame.
HwCount(d, n) ==
  LET c == counter[d]
  IN  /\ IF d = "rx" THEN RXEN /\ ~CTRL_RST ELSE pc = "done"
      /\ counted["rx"].pkts + counted["tx"].pkts < MaxFrames
      /\ counter' = [counter EXCEPT ![d] =
                       [pkts  |-> AtMost(c.pkts + 1, Word - 1),
                        bytes |-> AtMost(c.bytes + n, Word * HighWord - 1)]]
      /\ stuck' = [stuck EXCEPT ![d] = @ \/ c.pkts + 1 > Word - 1
                                         \/ c.bytes + n > Word * HighWord - 1]
      /\ counted' = [counted EXCEPT ![d] = [pkts |-> @.pkts + 1, bytes |-> @.bytes + n]]
      /\ UNCHANGED <<vars, app, high>>

ClearCounters ==
  /\ counter' = Zero /\ high' = [d \in Directions |-> 0]
  /\ counted' = Zero /\ stuck' = [d \in Directions |-> FALSE]

-----------------------------------------------------------------------------
(* The driver.                                                             *)

\* Initialization calls reset_stats() when the device neither receives nor
\* transmits: it reads all counters.
reset_stats == WaitDma /\ ClearCounters

Initialize ==
  /\ Driver
  /\ IF pc = "wait_dma" THEN reset_stats ELSE UNCHANGED device_counters
  /\ UNCHANGED app

Reset82599 == HwReset /\ ClearCounters /\ UNCHANGED app

Running82599 == Running /\ UNCHANGED <<device_counters, app>>

\* The next register is read, and its counter cleared.
Read(from, to) == step = from /\ step' = to /\ UNCHANGED <<vars, stats, counted, stuck>>

\* report() calls read_stats().
Report ==
  /\ pc = "done" /\ step = "idle"
  /\ step' = "GPRC" /\ read' = Zero
  /\ UNCHANGED <<vars, stats, device_counters>>

ReadPackets(d, from, to) ==
  /\ Read(from, to)
  /\ read' = [read EXCEPT ![d].pkts = counter[d].pkts]
  /\ counter' = [counter EXCEPT ![d].pkts = 0]
  /\ UNCHANGED high

ReadLow(d, from, to) ==
  /\ Read(from, to)
  /\ read' = [read EXCEPT ![d].bytes = @ + (counter[d].bytes % Word)]
  /\ high' = [high EXCEPT ![d] = counter[d].bytes \div Word]
  /\ counter' = [counter EXCEPT ![d].bytes = 0]

ReadHigh(d, from, to) ==
  /\ Read(from, to)
  /\ read' = [read EXCEPT ![d].bytes = @ + high[d] * Word]
  /\ high' = [high EXCEPT ![d] = 0]
  /\ UNCHANGED counter

\* Fault: the high register is read first.
read_stats_swapped ==
  \/ ReadPackets("rx", "GPRC", "GPTC") \/ ReadPackets("tx", "GPTC", "GORCH")
  \/ ReadHigh("rx", "GORCH", "GORCL") \/ ReadLow("rx", "GORCL", "GOTCL")
  \/ ReadLow("tx", "GOTCL", "GOTCH") \/ ReadHigh("tx", "GOTCH", "add")

read_stats ==
  \/ ReadPackets("rx", "GPRC", "GPTC") \/ ReadPackets("tx", "GPTC", "GORCL")
  \/ ReadLow("rx", "GORCL", "GORCH") \/ ReadHigh("rx", "GORCH", "GOTCL")
  \/ ReadLow("tx", "GOTCL", "GOTCH") \/ ReadHigh("tx", "GOTCH", "add")

\* What was read is added; report() prints the difference.
AddStats ==
  /\ step = "add" /\ step' = "idle"
  /\ stats' = [d \in Directions |-> [pkts  |-> stats[d].pkts + read[d].pkts,
                                     bytes |-> stats[d].bytes + read[d].bytes]]
  /\ read' = Zero
  /\ UNCHANGED <<vars, device_counters>>

StatsNext ==
  \/ Initialize \/ Reset82599 \/ Running82599
  \/ \E d \in Directions, n \in FrameSizes : HwCount(d, n)
  \/ Report \/ read_stats \/ AddStats

\* NicInit says what is assumed of the device.
StatsSpec ==
  /\ StatsInit /\ [][StatsNext]_stats_vars
  /\ WF_stats_vars(Initialize) /\ WF_stats_vars(Reset82599)
  /\ WF_vars(HwEepromRead /\ UNCHANGED <<device_counters, app>>)
  /\ WF_vars(HwDmaInit /\ UNCHANGED <<device_counters, app>>)
  /\ WF_vars(HwEnable /\ UNCHANGED <<device_counters, app>>)

-----------------------------------------------------------------------------
(* Properties.                                                             *)

\* Whenever no report is being made, every packet and byte that the device
\* counted since it was initialized is in the statistics of the app or still in
\* a register, once, whatever arrives between the reads of a report; and with a
\* counter at its limit they are too low, never too high.
StatsExact ==
  pc = "done" /\ step = "idle" => \A d \in Directions :
    LET pkts  == stats[d].pkts + counter[d].pkts
        bytes == stats[d].bytes + counter[d].bytes
    IN  /\ pkts <= counted[d].pkts /\ bytes <= counted[d].bytes
        /\ ~stuck[d] => pkts = counted[d].pkts /\ bytes = counted[d].bytes

\* Whenever the driver accesses registers: with 64 queues of each kind,
\* the most that init() accepts, each register that it will use is one register
\* of the table, of no other purpose, and inside the mapped memory, so that the
\* assertions of get_reg32() and set_reg32() hold.
RegistersDistinct == pc \notin {"probe"} \union Failures => RegistersSound

=============================================================================
