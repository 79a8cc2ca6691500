# Rush in TLA+

Specifications of [Rush](../src/), a packet processing engine in the style of
Snabb: apps connected by links, an engine that moves packets through them in
"breaths", and a driver for Intel 82599 network adapters. The modules are
translated from the Rust sources (`src/src/*.rs`), model-checked with TLC on
small instances, and what the components promise is proved with TLAPS for every
size: ownership and order of packets on links and on the rings of the adapter,
the breathe order, reconfiguration, the breathe loop, initialization and
statistics of the adapter, DMA memory, checksums and headers.

Files: `X.tla` is the specification of a component, `MCX.tla` with `MCX*.cfg`
its instances for TLC, `XProofs.tla` its proofs. `PROJECT.json` relates every
definition to the source lines it models and lists the runs, the faults they
are known to detect, the hazards, the findings and the theorems.

## The system

| Component | State | Operations | Hard part | Correct if |
|---|---|---|---|---|
| `packet.rs` freelist | `FL.list`, `FL.nfree`, `PACKETS_ALLOCATED`, `PACKET_ALLOCATION_STEP` | allocate, free, clone; dropping a packet panics | raw pointers: nothing but discipline prevents aliasing; doubling steps against a fixed limit | a packet has exactly one owner; allocate returns empty packets; free never panics |
| `link.rs` links | ring, `read`, `write`, counters | new, full, empty, transmit, receive, drop | wrap-around, full against empty, packets left when a link goes | a link is a bounded FIFO queue; counters agree with the contents; no packet is lost |
| `config.rs` | apps by name, set of link specs | new, app, link | links are compared as strings, and parsed by a syntax that is not anchored | a link has one canonical spelling, which parses to itself |
| `engine.rs` app network | `app_table`, `link_table` | configure: unlink, stop, start, link | order of the phases, shared links with reference counts, ports used twice, identity of configurations | the network matches the configuration and changes no more than needed; packets on links that stay survive |
| `engine.rs` breathe order | `inhale`, `exhale` | compute_breathe_order | hash iteration order, cycles, dependents that delay each other | each app that is fed is called once, after an app that feeds it; it ends |
| `engine.rs` breathe loop | `MONOTONIC_NOW`, `SLEEP`, `LASTFREES`, statistics | main, breathe, pace_breathing, timeout, throttle, reports | the clock stands still during a breath; counters compared across calls of main | main runs for its duration and not a breath longer; the engine sleeps only when idle |
| `basic_apps.rs` | none | Source, Sink and Tee callbacks | borrows of links shared by two ports | packets are conserved, and none left behind without need |
| `ixy82599/ixgbe.rs` rings | descriptors, `bufs_in_use`, indices, RDT/TDT registers | rx_batch, tx_batch, clean_tx_queue | hardware runs concurrently on the same memory; batches cleaned by their last descriptor only | hardware and software never share a packet; frames leave in order; the link drains |
| `ixy82599/ixgbe.rs`, `mod.rs`, `pci.rs` initialization | device registers | ixy_init, pci_map_resource, reset_and_init, waits | the device is found in any state, answers late, and loses what was written before its reset ended; waits without timeouts | it ends; the device is set up completely and never given descriptors without packets |
| `ixy82599/ixgbe.rs`, `constants.rs`, `ixy82599_app.rs` registers and statistics | counters of the device, `DeviceStats` | read_stats, reset_stats, get_reg32, set_reg32, report | counters cleared by reading them while the device counts; register arrays that change place and stride | nothing is lost or counted twice; each register the driver uses is the one it means |
| `memory.rs` | chunks of huge pages, files of the hugetlbfs, page tables | dma_alloc, allocate_huge_page, ensure_hugetlbfs, virtual_to_physical | alignment, chunk limits, address tag; crashes between system calls, pids used again, two mounts | allocations are disjoint and aligned, and resolve to where they are; nothing keeps a page for ever |
| `checksum.rs` | none | ipsum in two assemblies, checksum_rust | carries, odd lengths, chaining, byte order | equals the reference sum |
| `ethernet.rs`, `header.rs` | bytes of a packet | accessors, swap, copy; ntop, pton | raw memory, byte order | fields are independent; an address printed is read as the same |
| `lib.rs`, `main.rs` | none | align, copy, htons, ntohs; fill, formatting | none | what the others need of them |

Apps call `packet` and `link`; `link` calls `packet::free` when it refuses a
packet and when it is dropped. The engine is single threaded: it calls the
`pull` and `push` callbacks one after the other, and `configure` runs between
breaths. Concurrency is with the network adapter, which reads and writes
descriptors and packets by DMA, and with other processes that use the same
hugetlbfs. A panic ends the process.

## Modules

**Packet** - the freelist. A packet is the number of its buffer, in the order
of allocation; of its contents the length is kept. `hand` is the set of packets
owned by a `Box` in scope. The functions `allocate`, `preallocate_step`,
`free_internal`, `free` are conditions on the step that calls them; the actions
`Allocate`, `Fill`, `Clone`, `Free`, `Leak` let an app do with packets whatever
the API lets it do. Panics are values of `status`.

**Link** - extends Packet with links: `struct Link` as a record, `full`,
`empty`, `receive`, `enqueue` and `refuse` on the record, and actions for new,
transmit, receive and drop. Dropping is a loop in the code; here each iteration
is a step, and nothing else happens until it has ended. `Fifo` maps the ring to
the abstract queue of **BoundedFifo**. `Accounting` is the agreement of the
counters with the ring, in packets and in bytes.

**BreatheOrder** - `compute_breathe_order`, one action per iteration of each of
its loops. App names are numbers, compared as the sort does. `order` gives the
set of successors of each app an arbitrary iteration order that stays the same
during the computation, as a `HashSet` has. `loop` is the list of apps whose
successors the current loop visits, and `work` the set of positions it has yet
to visit, of which the first is next. `sort()` gives a permutation that is
ascending. **BreatheTwice** runs it twice on one network.

**Configure** - `configure`, one action per iteration of its four loops, in any
order as over a hash table. Apps and links have an identity besides their name,
so that one that was kept can be told from one that was replaced. Links are
dropped when neither `link_table`, nor a port, nor the copy of `link_table` the
first loop iterates over refers to them. Between calls, `Breathe` looks up the
apps of the breathe order and changes which links have packets. The breathe
order is taken from what BreatheOrder establishes about it.

**Config** - `config.rs`. A spelling of a link is a sequence of tokens (words,
dots, arrows, spaces); `Matches` is where the regular expression `LINK_SYNTAX`
matches, `parse_link` takes the leftmost match, and `link` inserts the canonical
spelling. `MCConfigure` builds the configurations it applies with `new`, `app`
and `link`.

**Ixgbe** - `rx_batch`, `clean_tx_queue` and `tx_batch`, one action per
iteration, of a network in which one adapter receives onto a link and another
transmits from it. The hardware is modelled from how the driver uses it: it owns
the descriptors from head up to tail, writes a frame before it writes back the
descriptor, writes transmit descriptors back in order, and may take arbitrarily
long. A descriptor has the set of its status bits; `rdma` is the frame hardware
has written but not yet reported. The link is the queue of BoundedFifo, the freelist a stack.

**Engine** - `main` with `breathe`, `pace_breathing`, `timeout` and `now`, over
apps that are now programs: Source, Sink and Tee of `basic_apps.rs` and an
adapter, whose rings are reduced to the number of packets they hold. Each call
of `pull` is a step, and each input a `push` visits. Of the packets on a link
the number is kept; `Refused` are those transmitted to a link that is full by
then, one by one, and `OnLinks` those on links. `clock` is the time `Instant::now()` returns and advances
between any two steps; while the engine sleeps it reaches the end of the sleep.
As in the code `MONOTONIC_NOW` stays at the start of the last breath until
`main` returns. Again the breathe order is any BreatheOrder allows.

**NicInit** - `ixy_init`, `pci_map_resource`, `init` and `reset_and_init`, one
action per register access that matters, while the device acts on what was
written: it finishes a reset, reads its EEPROM, enables a queue, receives. It is
found in any state; a reset takes time and undoes everything written before it
ends. `Ready` is the initial state of Ixgbe.

**Registers** - the register addresses of `constants.rs`, section by section, as
data; the functions that compute the address of a register of a queue; and what
the driver uses. Fields of registers, second names for a register, and the
sections about virtual functions and other devices are left out.

**NicStats** - extends NicInit and Registers with the statistics counters. The
device counts frames between any two register reads of `read_stats`; reading
clears a counter, and the low half of a byte counter latches the high half.
Registers have `Word` values (2^32 in the code), so that the instance reaches a
carry into the high half and a counter that sticks.

**DmaMemory** - `dma_alloc` and below it `allocate_huge_page`, one action per
system call that others can see, in several processes. The kernel is modelled
from how the code uses it: mounts (a second one hides the first), files that
hold a page, page tables. A process may fail at each call, be killed anywhere,
and start again with its old pid, to which a file may be left. An address is its
tag bits and the rest.

**Checksum** - `checksum_rust` and both assembly routines as functions on
sequences of bytes, with the width of the registers and the carry flag; and
`Reference`, the definition of RFC 1071. Both assembly routines go over the data
in blocks, each the largest of 32, 16, 8, 4, 2 and 1 bytes that is left (`Block`);
`BlockX86` and `BlockAarch64` are what one block does to accumulator, carry and
pointer. `B`, the number of values of a byte, is a parameter: all widths are
powers of it.

**Ethernet** - the accessors of `Header<Ethernet>` as functions on the bytes of a
packet, with `lib::copy`; `ntop` and `pton` on sequences of digits. **Frame** is
an app that edits a header in a packet and then sums the packet block by block;
`ends` are the offsets at which the blocks end.
`Fields` maps the bytes to the abstract header of **EthernetHeader**, three
fields that change independently.

A definition introduced by a comment "Fault:" is a plausible mistake in the
definition after it. No specification uses it; replacing the correct definition
by it makes TLC report the property `PROJECT.json` names under "mutants".

## Runs

| Run | Instance | Shows |
|---|---|---|
| `link_ownership` | two links of capacity 1, three packets in steps of 1 and 2, one length, two transmits per link, one free by an app (drops free more) | ownership, empty packets, accounting, limits |
| `link_fifo` | one link of capacity 3, four packets, six transmits | the ring implements `BoundedFifo`; drop ends, without a panic and with the queued packets on the freelist |
| `breathe_order` | four apps, 1024 networks, inhalers {1} or {1,3}, all apps or all but one with push, all iteration orders | at most once, fed, none forgotten, termination |
| `breathe_order_chain` | acyclic: app 1 feeds each app of a chain of three | **violation** of "follows link dependencies when possible" |
| `breathe_order_twice` | app 1 feeds two apps that feed each other | **violation** of "deterministic with regard to the configuration" |
| `configure` | two apps, four links with colliding ports spelled in five ways, six configurations, three calls | the network matches; only what changed is replaced; panics are the configuration's fault; packets survive |
| `configure_identity` | two app types of the same name | **violation** of "match (new) config" |
| `ixgbe_rings` | rings of four, batches of two, three packets per pull, a link of two, nine frames, the last too long | single ownership between hardware and driver, order, progress |
| `engine_breathe` | four networks (the one of the test `basic1`, two Tees that feed each other, an adapter that forwards to itself, a Tee linked to itself), links of three packets, three breaths in any number of calls of main | packets are conserved; only links against the breathe order keep packets; main is punctual; a busy engine does not sleep |
| `nic_init` | any device, one or two queues of each kind (three are refused), rings of two descriptors; registers of 3 values, byte counters of 9, three frames of 1 or 5 bytes; all registers of 64 queues | initialization ends and is complete; no descriptor without a packet is used; reports are exact; registers are distinct |
| `dma_memory` | two processes, two huge pages of 8 bytes, four requests, two mounts | allocations are disjoint and resolve; files are unlinked |
| `frame` | bytes of 4 values, 70 of them, four contents; block lengths 0, 2, 7, 12, 31, 62, two blocks, initial values 0 and 9; two addresses and ethertypes | the assembly agrees with the reference, chained as well; header accessors implement fields; ntop against pton |

`configure` also evaluates `SpellingsAgree` (an `ASSUME` of `MCConfigure`): over
all spellings of seven and eight tokens, a canonical spelling parses to the same
link and is its own canonical spelling, so that `configure`, which compares
strings, compares links.

Bounds. Ring sizes are the smallest powers of two that have distinct full,
empty and partly filled states; the counters allow every ring to wrap around at
least once (six transmits on a ring of four, nine frames on rings of four). The
two preallocation steps are the smallest case in which the doubling matters,
and a third does not fit, so that the allocation failure is reached. Three calls
of configure are a first configuration, a migration from it and a migration of
a migrated network. Four apps are the smallest network with an inhaler and a
chain or cycle of three. Three breaths are one that is first in a call of main,
one that is paced, and one in a second call; a pull of two packets onto links of
three overflows the second time. Durations of 0 and 1 with a clock up to 3 reach
timeouts that expire during a breath, during a sleep and between them. In
`nic_init` two queues are the least for which one is enabled while another is
not, and with registers of 3 values three frames make a low half carry into the
high half, and either counter stick. In `dma_memory` the requests fill a page
exactly, leave a rest too small for the next, need a gap for alignment, and
exceed a page; a process of two has a second chunk when the other holds none.
Two mounts are two processes that both found nothing mounted. In `frame` the
block lengths have every remainder (62 = 32 + 16 + 8 + 4 + 2, 31 = 16 + 8 + 4 +
2 + 1), with and without a full loop; all-ones data makes every addition carry. The networks in `breathe_order` leave out links from an
app to itself: `exhale` then loses the app if something else is selected with
it, and with `Tee` such a link panics on its second borrow anyway
(basic_apps.rs:73).

Runs end in panics or when a bound is reached, so deadlock is not checked in
them, except for `nic_init` and `dma_memory`. Each cfg states its bounds; none redefines anything.

Fairness. `Link`: weak fairness of the steps of drop, a loop nothing
interrupts. `BreatheOrder`: weak fairness of the next step, since the function is called
and runs. `Ixgbe`: weak fairness of the driver (the engine keeps breathing) and
of the hardware finishing what it has started; no fairness for the arrival of
frames. `NicInit`: weak fairness of the driver, and of the device finishing its
reset, reading its EEPROM, initializing DMA and enabling queues: the code waits
for these without a limit, so that nothing else could make it end; no fairness
for the link, for which the code does have a limit. `NicStats` assumes the same
and nothing of the counters. `Configure`, `Engine`, `DmaMemory` and `Frame` have
no liveness property.

## Findings

1. `compute_breathe_order` is not deterministic for cyclic networks, although a
   comment says so (engine.rs:224): it iterates over hash sets before sorting.
2. It does not always follow the links of an acyclic network (engine.rs:221):
   a selected app is never delayed after a later one.
3. `identity` uses `module_path!()` of `engine`, not of the app's module, so
   that `configure` takes app types of the same name and fields for equal.

Observations without a run of their own. Dropping a non-empty link does not
panic, although two comments say so: "a non-empty Link going out of scope will
trigger a panic" (link.rs:76) and "Failing to drain the link would cause panic"
(link.rs:115). `drop` frees what is queued instead: `DropTerminates` and the
theorem `DropDoesNotPanic` state what the code does, against the comments. (What
panics is the drop of a `Packet`.) Chained checksums need blocks of even length
but for the last, which the comment of `ipsum` does not say (checksum.rs:50).
`pton` does not read what `ntop` prints of an address with a byte below 16; it
panics (ethernet.rs:26, 33). A huge page whose physical address has bit 44 or 46
set would be mapped at one address and resolved to another (memory.rs:127), and
the result of mapping it is not checked (memory.rs:128). Two processes that
start at once may both mount the hugetlbfs; the page of the first then stays
with a hidden file (memory.rs:148). That equal `Debug` output hides a change of
configuration is shown by `AppsMatch` only: `NetworkMatches` compares as the
code does.

## Proofs

Each proof module extends the specification it is about and proves one inductive
invariant, action by action, from which the theorems follow. The constants are
arbitrary: the bounds of the runs are not used. What is assumed of them is named
in the specifications (`PacketAssumption`, `LinkAssumption`, `AppsAssumption`,
`ConfigureAssumption`, `EngineAssumption`, `NetworksAssumption`,
`IxgbeAssumption`, `NicInitAssumption`, `NicStatsAssumption`,
`DmaMemoryAssumption`, `ChecksumAssumption`, `EthernetAssumption`,
`FrameAssumption`), and TLC evaluates it on every instance. That ring sizes
are powers of two is not needed once `& (SIZE - 1)` is written as a remainder.

**LinkProofs**, for every ring size, freelist size, first allocation step, set
of links, set of lengths and bound on frees and transmits:

- `TypeCorrect`: `TypeOK`;
- `OwnershipHolds`: `Ownership`, each allocated packet is on exactly one slot of
  the freelist, or one slot of one link, or in hand;
- `FreeNeverPanics`: `NoFreelistOverflow`; `DropDoesNotPanic`: no
  step of drop panics, however many packets are queued;
- `AllocatedEmpty`: `EmptyOnFreelist`;
- `AllocationLimited`: `AllocationLimit`;
- `LinksAreQueues`: `ImplementsFifo`, links refine `BoundedFifo`;
- `CountersAccount`: `Accounting`, of packets (`CountersAgree`) and of bytes.

The invariant is `Inv` (`Invariance`). `Ownership` alone is not inductive: that
free finds room needs a count, and that a new packet is nobody's needs that the
buffers not yet allocated are nowhere. So `Inv` adds the schedule of the steps
(`PACKET_ALLOCATION_STEP = PACKETS_ALLOCATED + FIRST_STEP`), which yields the
bound of `AllocationLimit`, and `Untouched`, that buffers not yet allocated have
length zero. The room on the freelist comes from `Ownership`: the slots in use
hold distinct packets out of those allocated, and the packet to be freed is one
more (`RoomOnFreelist`, by cardinality). The lemmas before it say what push, pop
and fill do to the freelist and what transmit and receive do to the occupied
slots of a ring. For the refinement, `EnqueueQueue` and `ReceiveQueue` say what
they do to the sequence that the ring stands for, and `Disposed`, that a link
that does not exist is a new one, makes dropping a link a step of the queue.
For the counters of bytes, `BytesAppend` and `BytesTail` say what they do to the
sum over that sequence, by induction along it, and `LengthKept`, from `Ownership`
after the step, that no step changes the length of a packet that waits on a link:
the packets whose length it sets are in hand or on the freelist then.

**BreatheOrderProofs**, for every finite set of apps, every network and every
iteration order of the hash sets: `OrderTypeCorrect`, `ExecutesAtMostOnce`
(`AtMostOnce`), `ExecutesFed` (`Fed`), from `BInv` (`OrderInvariant`): besides
the two properties, what each loop goes over, and that the dependents are
distinct, not exhaled yet, and fed. `NoneIsForgotten` (`NoneForgotten`) has the
hypothesis `NoSelfLink`, without which it is false (see the bounds). It needs a
second invariant, `PInv`: an app that is owed a call need not be a dependent,
since it may have been delayed after an app that was itself delayed. What holds
is that it is in every set that contains the dependents and, with an app that is
not resolved, the apps that one feeds.

**ConfigureProofs**, for all apps, links and configurations and any number of
calls: `ConfigureMatches` (`NetworkMatches`), `ConfigureKeeps` (`Unchanged`),
`ConfigureConnects` (`PortsMatch`), `ConfigurePanics` (`PanicsJustified`),
`ConfigureDrops` (`RemovedLinksDropped`) and, an action property,
`ConfigureKeepsPackets` (`PacketsSurvive`). The properties speak of the network
when configure has returned; `CInv` (`ConfigureInvariant`) says for each of its
phases what the tables hold compared with the network before and with the
configuration. `Tables` is what holds in all of them: identities are unique, and
the links on ports are links of the table that belong there.

**EngineProofs**, for every finite network of the four kinds of apps, every link
size, every duration and every breathe order BreatheOrder allows:
`EngineTypeCorrect`, `PacketsConserved` (`Conservation`), `OnlyBackLinks`
(`OnlyBackLinksKeep`), `NeverSleepsBusy` (`BusyNeverSleeps`), `RunsPunctually`
(`Punctual`, an action property). `EInv` (`EngineInvariant`) adds to
`Conservation` what pacing and timeouts rely on (`LASTFREES <= freed <= frees`
during a breath; the deadline is that of the call, the time that of the breath)
and how far the breath is: the apps before the current one in the exhale order
have emptied their inputs, but for what a later Tee has put there since
(`LeftBehind`). Packets are counted as sets of pairs of a link and a place, so
that one link changing is a statement about cardinality.

**IxgbeProofs**, for rings, batches and links of any size and any number of
frames: `RingsTypeCorrect`, `RxIsOwned` (`RxOwnership`), `TxIsOwned`
(`TxOwnership`), `PacketsHaveOneOwner` (`OneOwner`), `PoolAlwaysSuffices`
(`PoolSuffices`), `FramesInOrder` (`InOrder`). `RingInv` (`RingInvariant`) says
that the indices of driver and hardware follow each other around the ring
(rx_index, RDH, RDT; clean_index, twb, TDH, TDT, tx_index), as distances from
the first of them, what the descriptors in between hold, and that freelist, link
and rings share out all packets; the sum of their lengths (`Count`) is what keeps
the freelist from running empty. For the order of frames, `FramesInv` puts every
packet on its way at a place in one line, submitted, on the link, received, and
says that the frames increase along it and follow those sent.

**NicInitProofs**, for any number of queues, any ring size of at least 2 (with
one descriptor, head and tail are equal before and after the ring is filled) and
any width of the counters: `NicTypeCorrect`, `NeverRogueDMA` (`NoRogueDMA`),
`ReturnsReady` (`Ready`), `StatisticsExact` (`StatsExact`). `IInv`
(`InitInvariant`, and `StatsInitInvariant` with the counters) says what is known
of the device at each step of the driver: after the reset nothing is enabled,
then queues have their rings, then their packets, and only a queue with packets
has a tail. `StatsInv` says what `read_stats` has taken off a counter is in its
locals, or in the latched high half, until it is added.

**DmaMemoryProofs**, for any number of processes, pages and mounts and requests of
any size: `AllocationsDisjoint` (`Disjoint`), `AddressesResolve` (`Resolves`),
`FilesRemoved` (`NoStrayFiles`). They have the hypothesis `LowMemory`, that no
page has a bit of the tag in its address: the code relies on it without a check,
and `Disjoint` and `Resolves` are false otherwise (see the observations). The
run's pages satisfy it. `DInv` (`DmaInvariant`) adds that no page is held by two
processes, as a mapping, an open file or a file left behind, what a process has
in hand at each system call, and that its chunks are mapped pages used up to a
length below which its allocations are, one after the other.

**FrameProofs**, for bytes of any number of values and packets of any length and
contents. The theorems about the routines need no specification:

- `ChecksumX86`, `ChecksumAarch64`, `ChecksumRust`: each of the three computes
  `Reference`, for data of every length and, in assembly, every initial value.

Those about `Frame` follow from them and from `FrameInv`, that both headers lie
in memory and the blocks in the packet:

- `FrameAgrees`: `Agrees`; `FrameChains`: `Chains`, for any number of blocks;
- `HeaderIsRecord`: `ImplementsHeader`, `Header<Ethernet>` refines
  `EthernetHeader`, `header::new` and its setters included;
- `NtopReadsBack`: `NtopPton`, for every address and base of the digits.

The library's induction theorems take an operator as a parameter, which the
provers cannot instantiate. `Induction` is stated about a set instead (if it
contains 0 and, with k - 1, k, up to n, it contains 0 .. n) and proved from the
well-foundedness of < on the naturals; `Recursion` gets from it that a function
defined by recursion exists, with its values in given sets, and `RecursionIn` that
they are. An operator with a `LET` recursive function is the function that
satisfies the equation, chosen, so this is all that is needed to reason about it.

The argument about the checksums is about `Same`, the relation of sums in ones'
complement: congruent modulo W - 1, and zero only with zero. A word shifted, a
carry added in again, a half added to the other and the two bytes of every word
exchanged all preserve it up to the factor B, and every sum is the same as exactly
one word (`SameOnesComplement`, `OnesComplementUnique`). So `Adc` and `Load`, then
a block, then the run over all of them keep B times the accumulator the same as the
reference's sum. That no carry is lost is a bound: the accumulator plus the pending
carry is at most Q - 1 (`Accs`), so that adding the carry cannot carry again.
That blocks can be put after each other needs that the pointer is even but at
the end (`Pointer`). `Whole`, which is inductive, is the first half of `Chains`;
the other is `CheckValue`.

Model-checked only:

- liveness, which is out of the prover's reach: `DropTerminates`, `Terminates`,
  `LinkDrains`, `InitTerminates`;
- `RegistersDistinct`: it is about the register table of the code alone, which
  TLC evaluates in full, so that a proof would add nothing;
- the findings, which are counterexamples.

## Not modelled

- Payload bytes but for the header and the checksum; characters of names;
  printing and formatting (`comma_value`, `print_stats_diff`, the load, link and
  app reports).
- File and system calls beyond their effect: of `pci.rs` what they do to the
  device and that they fail, of `memory.rs` what other processes see. Reading
  `/proc/meminfo` and `/proc/self/pagemap` is their result.
- Registers and fields that tune the device; `set_mac_addr`, which nothing calls.
- `throttle`: only a test uses one, outside of `main`; `fill` and `random_bytes`;
  how long an app keeps a `Header`.
- Vendored crates.

Counters of links and statistics are u64 in the code and natural numbers here.
An app's code is any sequence of API calls; that it can hold packets beyond a
callback is included, since `hand` persists.

## Status

The plan is done: every component with logic of its own has a specification and
a run, and every safety property of the runs but `RegistersDistinct` is a theorem
for every value of the constants. What is listed under "Model-checked only" stays
with TLC. Parts listed as partly modelled in `PROJECT.json` are so because the
rest of them is printing, system calls, or tuning of the device.
