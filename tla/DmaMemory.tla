------------------------------ MODULE DmaMemory -----------------------------
(***************************************************************************)
(* src/memory.rs: memory for DMA, sliced from huge pages, in processes     *)
(* that start, allocate and die while they share the hugetlbfs.            *)
(*                                                                         *)
(* An address is a record: `tag' is the set of the bits of 0x500000000000  *)
(* that are set in it, `lo' the rest.  Physical pages are given by their   *)
(* address.  The kernel keeps `maps', the page tables, and `files', what   *)
(* is in each hugetlbfs that was mounted: a second mount hides the first.  *)
(* A huge page is in use while a file holds it or a process maps it.       *)
(*                                                                         *)
(* A process that dies leaves its file behind, and a later one with the    *)
(* same pid finds it.  Which address mmap() picks for the temporary        *)
(* mapping does not matter: `phys' is the page it shows.                   *)
(***************************************************************************)
EXTENDS Integers, Sequences

CONSTANTS
  Pids,              \* processes that use rush
  Pages,             \* physical addresses of the huge pages there are
  HUGE_PAGE_SIZE,    \* Hugepagesize of /proc/meminfo
  Requests,          \* [bytes, align] that dma_alloc() is called with
  MaxMounts          \* bound on `mounts'

TAG == {44, 46}      \* the bits of TAG, 0x500000000000

ASSUME DmaMemoryAssumption ==
  /\ HUGE_PAGE_SIZE \in Nat \ {0} /\ MaxMounts \in Nat
  /\ Pages \subseteq [tag : SUBSET TAG, lo : Nat]
  /\ Requests \subseteq [bytes : Nat, align : Nat \ {0}]
  /\ \A a, b \in Pages : a # b /\ a.tag = b.tag =>
       a.lo + HUGE_PAGE_SIZE <= b.lo \/ b.lo + HUGE_PAGE_SIZE <= a.lo
  /\ \A a \in Pages, r \in Requests : a.lo % r.align = 0

VARIABLES
  mounts,     \* how often a hugetlbfs was mounted on /var/run/rush/hugetlbfs
  files,      \* mount -> pid -> the page of alloc.<pid>, if there is one
  maps,       \* pid -> set of [virt, phys]
  pc,         \* pid -> where it is in allocate_huge_page(), or how it ended
  want,       \* pid -> the request of the call of dma_alloc() it is in
  phys,       \* pid -> the physical address of the temporary mapping
  opened,     \* pid -> the mount its file descriptor is of
  CHUNKS,     \* pid -> sequence of [pointer, used]
  allocs      \* pid -> set of [ptr, bytes, align] returned by dma_alloc()

kernel == <<mounts, files, maps>>
locals == <<want, phys, opened>>
vars   == <<kernel, pc, locals, CHUNKS, allocs>>

NoPage    == [tag |-> {}, lo |-> -1]
NoRequest == [bytes |-> 0, align |-> 1]

Init ==
  /\ mounts = 0
  /\ files = [m \in 0 .. MaxMounts |-> [p \in Pids |-> NoPage]]
  /\ maps = [p \in Pids |-> {}]
  /\ pc = [p \in Pids |-> "running"]
  /\ want = [p \in Pids |-> NoRequest] /\ phys = [p \in Pids |-> NoPage]
  /\ opened = [p \in Pids |-> 0]
  /\ CHUNKS = [p \in Pids |-> <<>>]
  /\ allocs = [p \in Pids |-> {}]

-----------------------------------------------------------------------------
(* Addresses.                                                              *)

At(a, offset) == [a EXCEPT !.lo = @ + offset]

\* Fault: what is missing to a multiple is subtracted.
align_down(value, size) == value - (value % size)

\* lib::align()
align(value, size) ==
  IF value % size = 0 THEN value ELSE value + size - (value % size)

\* phys | TAG
Tagged(a) == [a EXCEPT !.tag = @ \union TAG]

\* virt_addr ^ TAG, of an address that passes the tag check
virtual_to_physical(a) == [a EXCEPT !.tag = TAG \ @]

TagCheck(a) == TAG \subseteq a.tag

\* What the page tables of process p say of an address: its mapping, if any.
Mapping(p, a) ==
  {m \in maps[p] : /\ m.virt.tag = a.tag
                   /\ m.virt.lo <= a.lo /\ a.lo < m.virt.lo + HUGE_PAGE_SIZE}

Physical(m, a) == At(m.phys, a.lo - m.virt.lo)

-----------------------------------------------------------------------------
(* dma_alloc()                                                             *)

\* The end of process p: its mappings go with it, its file does not.
Die(p, how) ==
  /\ pc' = [pc EXCEPT ![p] = how]
  /\ maps' = [maps EXCEPT ![p] = {}]
  /\ phys' = [phys EXCEPT ![p] = NoPage]
  /\ want' = [want EXCEPT ![p] = NoRequest]
  /\ CHUNKS' = [CHUNKS EXCEPT ![p] = <<>>]
  /\ allocs' = [allocs EXCEPT ![p] = {}]
  /\ UNCHANGED <<mounts, files, opened>>

LastChunk(p) == CHUNKS[p][Len(CHUNKS[p])]

\* Fault: one byte too many is let through.
Fits_inclusive(used, bytes) == used + bytes <= HUGE_PAGE_SIZE + 1

Fits(used, bytes) == used + bytes <= HUGE_PAGE_SIZE

\* Slice the request r out of the chunk at the end of `chunks'.
Slice(p, r, chunks) ==
  LET last == chunks[Len(chunks)]
      offset == last.used
  IN  /\ CHUNKS' = [CHUNKS EXCEPT ![p] =
                      [chunks EXCEPT ![Len(chunks)].used = offset + r.bytes]]
      /\ allocs' = [allocs EXCEPT ![p] = @ \union
                      {[ptr |-> At(last.pointer, offset),
                        bytes |-> r.bytes, align |-> r.align]}]

\* A call: served from the last chunk, which is skipped forward to suit the
\* alignment, or a chunk is allocated first.
dma_alloc(p, r) ==
  /\ pc[p] = "running"
  /\ r.bytes <= HUGE_PAGE_SIZE
  /\ IF CHUNKS[p] = <<>>
     THEN /\ pc' = [pc EXCEPT ![p] = "remount"]
          /\ want' = [want EXCEPT ![p] = r]
          /\ UNCHANGED <<CHUNKS, allocs>>
     ELSE LET used == align(LastChunk(p).used, r.align)
              chunks == [CHUNKS[p] EXCEPT ![Len(CHUNKS[p])].used = used]
          IN  IF Fits(used, r.bytes)
              THEN Slice(p, r, chunks) /\ UNCHANGED <<pc, want>>
              ELSE /\ pc' = [pc EXCEPT ![p] = "remount"]
                   /\ want' = [want EXCEPT ![p] = r]
                   /\ CHUNKS' = [CHUNKS EXCEPT ![p] = chunks]
                   /\ UNCHANGED allocs
  /\ UNCHANGED <<kernel, phys, opened>>

TooLarge(p, r) ==
  /\ pc[p] = "running" /\ r.bytes > HUGE_PAGE_SIZE
  /\ Die(p, "panicked")

\* Goes on with ensure_hugetlbfs() and allocate_huge_page() ...
Goto(p, from, to) == pc[p] = from /\ pc' = [pc EXCEPT ![p] = to]

-----------------------------------------------------------------------------
(* allocate_huge_page(), one system call that others can see at a time.    *)

\* Remounting succeeds if something is mounted ...
Remount(p) ==
  /\ Goto(p, "remount", IF mounts > 0 THEN "open" ELSE "mount")
  /\ UNCHANGED <<kernel, locals, CHUNKS, allocs>>

\* ... and it is mounted otherwise.
Mount(p) ==
  /\ Goto(p, "mount", "open")
  /\ mounts < MaxMounts
  /\ mounts' = mounts + 1
  /\ UNCHANGED <<files, maps, locals, CHUNKS, allocs>>

\* open() finds the file or creates it, which has no page then.
Open(p) ==
  /\ Goto(p, "open", "map")
  /\ opened' = [opened EXCEPT ![p] = mounts]
  /\ UNCHANGED <<kernel, want, phys, CHUNKS, allocs>>

\* Pages that no file holds and no process maps.
InFiles == {files[m][p] : m \in DOMAIN files, p \in Pids}
InMaps  == UNION {{m.phys : m \in maps[p]} : p \in Pids}
Free    == Pages \ (InFiles \union InMaps \union {phys[p] : p \in Pids})

\* Fault: the name of the file does not tell processes apart.
Map_one_name(p) ==
  LET name == CHOOSE q \in Pids : TRUE
      file == files[opened[p]][name]
  IN  /\ Goto(p, "map", "map_fixed")
      /\ \E page \in IF file = NoPage THEN Free ELSE {file} :
           /\ files' = [files EXCEPT ![opened[p]][name] = page]
           /\ phys' = [phys EXCEPT ![p] = page]
      /\ UNCHANGED <<mounts, maps, want, opened, CHUNKS, allocs>>

\* The temporary mapping, locked into memory: the file has a page from here on.
Map(p) ==
  LET file == files[opened[p]][p]
  IN  /\ Goto(p, "map", "map_fixed")
      /\ \E page \in IF file = NoPage THEN Free ELSE {file} :
           /\ files' = [files EXCEPT ![opened[p]][p] = page]
           /\ phys' = [phys EXCEPT ![p] = page]
      /\ UNCHANGED <<mounts, maps, want, opened, CHUNKS, allocs>>

\* resolve_physical() reads the page's address, and the page is mapped where
\* the tag says, in place of what may be mapped there.
MapFixed(p) ==
  LET virt == Tagged(phys[p])
  IN  /\ Goto(p, "map_fixed", "unlink")
      /\ maps' = [maps EXCEPT ![p] = {m \in @ : m.virt # virt} \union
                                     {[virt |-> virt, phys |-> phys[p]]}]
      /\ UNCHANGED <<mounts, files, locals, CHUNKS, allocs>>

\* Fault: the file stays.
Unlink_not(p) ==
  /\ Goto(p, "unlink", "slice")
  /\ UNCHANGED <<kernel, locals, CHUNKS, allocs>>

\* The file goes, if what is mounted by now still has it.
Unlink(p) ==
  /\ Goto(p, "unlink", "slice")
  /\ files' = [files EXCEPT ![mounts][p] = NoPage]
  /\ UNCHANGED <<mounts, maps, locals, CHUNKS, allocs>>

\* munmap() and close(); allocate_next_chunk() adds the chunk, and dma_alloc()
\* ends.
allocate_next_chunk(p) ==
  /\ Goto(p, "slice", "running")
  /\ Slice(p, want[p], Append(CHUNKS[p], [pointer |-> Tagged(phys[p]), used |-> 0]))
  /\ phys' = [phys EXCEPT ![p] = NoPage] /\ want' = [want EXCEPT ![p] = NoRequest]
  /\ UNCHANGED <<kernel, opened>>

\* A system call fails before the page is mapped, and the panic is that no
\* huge page could be allocated.
Fail(p) == pc[p] \in {"mount", "open", "map", "map_fixed"} /\ Die(p, "panicked")

\* The last mmap() fails.  Its result is not checked: MAP_FAILED passes the tag
\* check as well, and the first access to the allocation ends the program.
FailFixed(p) == pc[p] = "map_fixed" /\ Die(p, "segfault")

-----------------------------------------------------------------------------
(* Processes end whenever they like, and are started again.                *)

Ended == {"panicked", "segfault", "killed"}

Kill(p) == pc[p] \notin Ended /\ Die(p, "killed")

Start(p) ==
  /\ pc[p] \in Ended
  /\ pc' = [pc EXCEPT ![p] = "running"]
  /\ UNCHANGED <<kernel, locals, CHUNKS, allocs>>

Next == \E p \in Pids :
  \/ \E r \in Requests : dma_alloc(p, r) \/ TooLarge(p, r)
  \/ Remount(p) \/ Mount(p) \/ Open(p) \/ Map(p) \/ MapFixed(p) \/ Unlink(p)
  \/ allocate_next_chunk(p)
  \/ Fail(p) \/ FailFixed(p) \/ Kill(p) \/ Start(p)

Spec == Init /\ [][Next]_vars

-----------------------------------------------------------------------------
(* Properties.                                                             *)

\* The addresses of the bytes of an allocation.
Bytes(a) == {At(a.ptr, n) : n \in 0 .. a.bytes - 1}

\* Where they are in memory.
Where(p, a) == UNION {{Physical(m, v) : m \in Mapping(p, v)} : v \in Bytes(a)}

\* What dma_alloc() returned is aligned and shares no memory: not with another
\* allocation of the process, be it in another chunk, and not with one of
\* another process, also when that finds the file of a huge page that a process
\* that died left behind.
Disjoint ==
  \A p, q \in Pids : \A a \in allocs[p], b \in allocs[q] :
    /\ a.ptr.lo % a.align = 0
    /\ <<p, a>> # <<q, b>> => Where(p, a) \intersect Where(q, b) = {}

\* "This makes it possible to resolve physical addresses directly from virtual
\* addresses (remove the tag bits)" (memory.rs:85): every byte of an allocation
\* is mapped, its address passes the tag check, and virtual_to_physical() of it,
\* which is what the device is given, is where the page tables say it is.
Resolves ==
  \A p \in Pids : \A a \in allocs[p] : \A v \in Bytes(a) :
    /\ TagCheck(v)
    /\ \E m \in Mapping(p, v) : virtual_to_physical(v) = Physical(m, v)

\* The file of a huge page is gone when the page is used, so that the page is
\* free again when the process ends, however it ends.  (Except for a page whose
\* file was hidden meanwhile, by a process that also found nothing mounted.)
NoStrayFiles ==
  \A p \in Pids :
    pc[p] = "slice" \/ (pc[p] = "running" /\ CHUNKS[p] # <<>>)
      => files[mounts][p] = NoPage

=============================================================================
