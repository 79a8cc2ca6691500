--------------------------- MODULE DmaMemoryProofs --------------------------
(***************************************************************************)
(* Proofs about DmaMemory, for any number of processes, huge pages and     *)
(* mounts, and requests of any size.                                       *)
(***************************************************************************)
EXTENDS DmaMemory, TLAPS

\* The machine has no memory at addresses with the bits of the tag: then the
\* tag can be removed from a virtual address (memory.rs:85).  With such memory
\* two pages may be mapped at one address.
LowMemory == \A a \in Pages : a.tag = {}

-----------------------------------------------------------------------------
(* The inductive invariant.                                                *)

Address == [tag : SUBSET TAG, lo : Nat]
Chunk   == [pointer : Address, used : Nat]
Alloc   == [ptr : Address, bytes : Nat, align : Nat \ {0}]

States == {"running", "remount", "mount", "open", "map", "map_fixed", "unlink", "slice"}

TypeOK ==
  /\ mounts \in 0 .. MaxMounts
  /\ files \in [0 .. MaxMounts -> [Pids -> Pages \union {NoPage}]]
  /\ maps \in [Pids -> SUBSET [virt : Address, phys : Pages]]
  /\ pc \in [Pids -> States \union Ended]
  /\ want \in [Pids -> Requests \union {NoRequest}]
  /\ phys \in [Pids -> Pages \union {NoPage}]
  /\ opened \in [Pids -> 0 .. MaxMounts]
  /\ CHUNKS \in [Pids -> Seq(Chunk)]
  /\ allocs \in [Pids -> SUBSET Alloc]

\* The pages that process p maps, and those it holds in one way or another.
Mapped(p) == {m.phys : m \in maps[p]}
Held(p)   == (Mapped(p) \union {phys[p]} \union {files[m][p] : m \in 0 .. MaxMounts})
               \ {NoPage}

\* No page is held by two processes, a page is mapped where its tag says, and
\* what a file on a mount that is not there yet holds is nothing.
Owned ==
  /\ \A p, q \in Pids : p # q => Held(p) \intersect Held(q) = {}
  /\ \A p \in Pids : \A m \in maps[p] : m.virt = Tagged(m.phys)
  /\ \A m \in 0 .. MaxMounts, p \in Pids : m > mounts => files[m][p] = NoPage

\* How far the allocation of a page is.  A process that has a page has no file
\* with a page that it could find: it would map the same page twice.
AllocatingAt(p) ==
  /\ opened[p] <= mounts
  /\ pc[p] \in Ended => maps[p] = {} /\ CHUNKS[p] = <<>> /\ allocs[p] = {}
  /\ pc[p] \notin {"map_fixed", "unlink", "slice"} => phys[p] = NoPage
  /\ pc[p] = "map_fixed" => phys[p] \in Pages \ Mapped(p)
  /\ pc[p] \in {"unlink", "slice"} =>
       /\ phys[p] \in Mapped(p)
       /\ \A j \in DOMAIN CHUNKS[p] : CHUNKS[p][j].pointer # Tagged(phys[p])
  /\ pc[p] \in States \ {"running"} => want[p] \in Requests /\ want[p].bytes <= HUGE_PAGE_SIZE
  /\ maps[p] # {} =>
       /\ pc[p] \in {"running", "remount", "mount", "open", "slice"} => files[mounts][p] = NoPage
       /\ pc[p] = "map" => files[opened[p]][p] = NoPage

Allocating == \A p \in Pids : AllocatingAt(p)

\* Chunks c are pages of S, each another one.
ChunksOf(S, c) ==
  \A j \in DOMAIN c :
    /\ \E a \in S : c[j].pointer = Tagged(a)
    /\ \A i \in DOMAIN c : c[i].pointer = c[j].pointer => i = j

\* Allocation a is in the used part of chunk c, and in its page.
In(a, c) ==
  /\ a.ptr.tag = c.pointer.tag /\ c.pointer.lo <= a.ptr.lo
  /\ a.ptr.lo + a.bytes <= c.pointer.lo + c.used
  /\ a.ptr.lo + a.bytes <= c.pointer.lo + HUGE_PAGE_SIZE

Apart(a, b) ==
  a.ptr.lo + a.bytes <= b.ptr.lo \/ b.ptr.lo + b.bytes <= a.ptr.lo

\* Allocations A are in chunks c, aligned and apart.
AllocsOf(c, A) ==
  /\ \A a \in A : (\E j \in DOMAIN c : In(a, c[j])) /\ a.ptr.lo % a.align = 0
  /\ \A a, b \in A : a # b => Apart(a, b)

ChunksOK == \A p \in Pids : ChunksOf(Mapped(p), CHUNKS[p])
AllocsOK == \A p \in Pids : AllocsOf(CHUNKS[p], allocs[p])

DInv == TypeOK /\ Owned /\ Allocating /\ ChunksOK /\ AllocsOK

-----------------------------------------------------------------------------
(* Addresses.                                                              *)

LEMMA PageTypes ==
  /\ HUGE_PAGE_SIZE \in Nat /\ HUGE_PAGE_SIZE > 0 /\ MaxMounts \in Nat
  /\ \A a \in Pages : a \in Address /\ Tagged(a) \in Address
                      /\ Tagged(a).lo = a.lo /\ Tagged(a).tag = TAG /\ a # NoPage
  /\ \A r \in Requests : /\ r.bytes \in Nat /\ r.align \in Nat /\ r.align > 0
                         /\ \A a \in Pages : a.lo % r.align = 0
<1>1. ASSUME NEW a \in Pages
      PROVE  a \in Address /\ Tagged(a) \in Address /\ Tagged(a).lo = a.lo
             /\ Tagged(a).tag = TAG /\ a # NoPage
  <2>1. a \in [tag : SUBSET TAG, lo : Nat]
    BY DmaMemoryAssumption
  <2>2. a.tag \union TAG = TAG
    BY <2>1
  <2> QED BY <2>1, <2>2 DEF Address, Tagged, NoPage
<1>2. ASSUME NEW r \in Requests
      PROVE  /\ r.bytes \in Nat /\ r.align \in Nat /\ r.align > 0
             /\ \A a \in Pages : a.lo % r.align = 0
  BY DmaMemoryAssumption
<1> QED BY <1>1, <1>2, DmaMemoryAssumption

\* Below the tag, pages that differ do not overlap, and their virtual addresses
\* differ.
LEMMA PagesApart ==
  ASSUME LowMemory, NEW a \in Pages, NEW b \in Pages, a # b
  PROVE  /\ a.lo + HUGE_PAGE_SIZE <= b.lo \/ b.lo + HUGE_PAGE_SIZE <= a.lo
         /\ Tagged(a) # Tagged(b)
<1>1. a.tag = b.tag
  BY DEF LowMemory
<1>2. a.lo + HUGE_PAGE_SIZE <= b.lo \/ b.lo + HUGE_PAGE_SIZE <= a.lo
  BY <1>1, DmaMemoryAssumption
<1>3. a.lo \in Nat /\ b.lo \in Nat
  BY PageTypes DEF Address
<1> QED BY <1>2, <1>3, PageTypes

LEMMA AtAddress ==
  ASSUME NEW a \in Address, NEW k \in Nat
  PROVE  At(a, k) \in Address /\ At(a, k).tag = a.tag /\ At(a, k).lo = a.lo + k
BY DEF Address, At

\* Arithmetic of alignment.
LEMMA Multiple ==
  ASSUME NEW v \in Nat, NEW m \in Nat, m > 0
  PROVE  /\ v % m = v - m * (v \div m) /\ v \div m \in Nat
         /\ v % m \in 0 .. m - 1
<1>1. v % m = v - m * (v \div m)
  BY SMTT(30)
<1> QED BY <1>1

LEMMA MultipleOf ==
  ASSUME NEW k \in Nat, NEW m \in Nat, m > 0
  PROVE  m * k \in Nat /\ (m * k) % m = 0
<1>1. m * k \in Nat
  OBVIOUS
<1> DEFINE v == m * k
<1>2. v % m = v - m * (v \div m) /\ v \div m \in Nat /\ v % m \in 0 .. m - 1
  BY <1>1, Multiple
<1> QED BY <1>1, <1>2, SMTT(30)

LEMMA AlignedSum ==
  ASSUME NEW a \in Nat, NEW b \in Nat, NEW m \in Nat, m > 0, a % m = 0, b % m = 0
  PROVE  (a + b) % m = 0
<1> DEFINE i == a \div m
           j == b \div m
<1>1. i \in Nat /\ a = m * i
  BY Multiple
<1>2. j \in Nat /\ b = m * j
  BY Multiple
<1> HIDE DEF i, j
<1>3. a + b = m * (i + j) /\ i + j \in Nat
  BY <1>1, <1>2
<1> QED BY <1>3, MultipleOf

LEMMA Align ==
  ASSUME NEW v \in Nat, NEW m \in Nat, m > 0
  PROVE  align(v, m) \in Nat /\ align(v, m) >= v /\ align(v, m) % m = 0
<1>1. CASE v % m = 0
  BY <1>1 DEF align
<1>2. CASE v % m # 0
  <2> DEFINE i == v \div m
  <2>1. i \in Nat /\ v % m = v - m * i /\ v % m \in 0 .. m - 1
    BY Multiple
  <2> HIDE DEF i
  <2>2. align(v, m) = v + m - (v % m)
    BY <1>2 DEF align
  <2>3. v + m - (v % m) = m * (i + 1) /\ i + 1 \in Nat
    BY <2>1
  <2>4. align(v, m) % m = 0
    BY <2>2, <2>3, MultipleOf
  <2>5. align(v, m) \in Nat /\ align(v, m) >= v
    <3> HIDE DEF align
    <3> QED BY <2>1, <2>2
  <2> QED BY <2>4, <2>5
<1> QED BY <1>1, <1>2

-----------------------------------------------------------------------------
(* Chunks and allocations of one process.                                  *)

\* The used part of chunks may grow.
LEMMA Grow ==
  ASSUME NEW S, NEW A \in SUBSET Alloc, NEW c \in Seq(Chunk), NEW d \in Seq(Chunk),
         DOMAIN d = DOMAIN c,
         \A j \in DOMAIN c : d[j].pointer = c[j].pointer /\ d[j].used >= c[j].used,
         ChunksOf(S, c), AllocsOf(c, A)
  PROVE  ChunksOf(S, d) /\ AllocsOf(d, A)
<1>1. ChunksOf(S, d)
  BY DEF ChunksOf
<1>2. ASSUME NEW a \in A PROVE \E j \in DOMAIN d : In(a, d[j])
  <2>1. PICK j \in DOMAIN c : In(a, c[j])
    BY DEF AllocsOf
  <2>2. c[j] \in Chunk /\ d[j] \in Chunk /\ a \in Alloc
    OBVIOUS
  <2>3. In(a, d[j])
    BY <2>1, <2>2, SMTT(30) DEF In, Chunk, Alloc, Address
  <2> QED BY <2>3
<1> QED BY <1>1, <1>2 DEF AllocsOf

\* A page that is no chunk yet becomes one.
WithChunk(c, x) == Append(c, [pointer |-> Tagged(x), used |-> 0])

LEMMA AnotherChunk ==
  ASSUME NEW S \in SUBSET Pages, NEW A \in SUBSET Alloc, NEW c \in Seq(Chunk), NEW x \in S,
         \A j \in DOMAIN c : c[j].pointer # Tagged(x),
         ChunksOf(S, c), AllocsOf(c, A)
  PROVE  /\ WithChunk(c, x) \in Seq(Chunk) /\ Len(WithChunk(c, x)) = Len(c) + 1
         /\ WithChunk(c, x)[Len(c) + 1].used = 0
         /\ ChunksOf(S, WithChunk(c, x)) /\ AllocsOf(WithChunk(c, x), A)
<1> DEFINE d == WithChunk(c, x)
<1> DEFINE k == [pointer |-> Tagged(x), used |-> 0]
<1>1. k \in Chunk
  BY PageTypes DEF Chunk
<1>2. k.pointer = Tagged(x)
  OBVIOUS
<1> HIDE DEF k
<1>3. /\ d \in Seq(Chunk) /\ Len(d) = Len(c) + 1 /\ d[Len(d)] = k
      /\ DOMAIN d = 1 .. Len(c) + 1 /\ DOMAIN c = 1 .. Len(c) /\ Len(c) \in Nat
      /\ \A j \in DOMAIN c : d[j] = c[j]
  BY <1>1 DEF k, WithChunk
<1> HIDE DEF d
<1>4. ASSUME NEW j \in DOMAIN d
      PROVE  /\ \E a \in S : d[j].pointer = Tagged(a)
             /\ \A i \in DOMAIN d : d[i].pointer = d[j].pointer => i = j
  BY <1>2, <1>3 DEF ChunksOf
<1>5. ChunksOf(S, d)
  BY <1>4 DEF ChunksOf
<1>6. DOMAIN c \subseteq DOMAIN d
  BY <1>3
<1>7. AllocsOf(d, A)
  BY <1>3, <1>6 DEF AllocsOf
<1> QED BY <1>3, <1>5, <1>7 DEF k, d

\* dma_alloc() skips part of the last chunk.
Skip(c, r)    == align(c[Len(c)].used, r.align)
Skipped(c, r) == [c EXCEPT ![Len(c)].used = Skip(c, r)]

LEMMA SkipAligns ==
  ASSUME NEW c \in Seq(Chunk), c # <<>>, NEW r \in Requests
  PROVE  Skip(c, r) \in Nat /\ Skip(c, r) >= c[Len(c)].used /\ Skip(c, r) % r.align = 0
<1>1. c[Len(c)] \in Chunk
  OBVIOUS
<1>2. c[Len(c)].used \in Nat
  BY <1>1 DEF Chunk
<1> QED BY <1>2, PageTypes, Align DEF Skip

LEMMA SkipLemma ==
  ASSUME NEW S \in SUBSET Pages, NEW A \in SUBSET Alloc, NEW c \in Seq(Chunk), c # <<>>,
         NEW r \in Requests, ChunksOf(S, c), AllocsOf(c, A)
  PROVE  /\ Skipped(c, r) \in Seq(Chunk)
         /\ Len(Skipped(c, r)) = Len(c) /\ Skipped(c, r) # <<>>
         /\ Skipped(c, r)[Len(c)].used = Skip(c, r)
         /\ ChunksOf(S, Skipped(c, r)) /\ AllocsOf(Skipped(c, r), A)
<1> DEFINE u == Skip(c, r)
<1>7. u \in Nat /\ u >= c[Len(c)].used
  BY SkipAligns
<1> HIDE DEF u
<1> DEFINE n == Len(c)
           e == Skipped(c, r)
<1>1. n \in Nat /\ n > 0 /\ n \in DOMAIN c /\ DOMAIN c = 1 .. n
  OBVIOUS
<1>2. c[n] \in Chunk
  BY <1>1
<1>3. /\ e[n] = [pointer |-> c[n].pointer, used |-> u]
      /\ e \in Seq(Chunk) /\ DOMAIN e = DOMAIN c /\ Len(e) = n /\ e # <<>>
      /\ \A j \in DOMAIN c : j # n => e[j] = c[j]
  <2>1. e = [c EXCEPT ![n] = [c[n] EXCEPT !.used = u]]
    BY DEF Skipped, u
  <2>2. [c[n] EXCEPT !.used = u] = [pointer |-> c[n].pointer, used |-> u]
    BY <1>2 DEF Chunk
  <2>3. [pointer |-> c[n].pointer, used |-> u] \in Chunk
    BY <1>2, <1>7 DEF Chunk
  <2> QED BY <1>1, <2>1, <2>2, <2>3
<1> HIDE DEF e, n
<1>4. ASSUME NEW j \in DOMAIN c
      PROVE  e[j].pointer = c[j].pointer /\ e[j].used >= c[j].used
  <2>1. c[j] \in Chunk
    OBVIOUS
  <2>2. c[j].used \in Nat
    BY <2>1 DEF Chunk
  <2>3. CASE j = n
    BY <1>3, <1>7, <2>2, <2>3 DEF n
  <2>4. CASE j # n
    BY <1>3, <2>2, <2>4
  <2> QED BY <2>3, <2>4
<1>5. ChunksOf(S, e) /\ AllocsOf(e, A)
  BY <1>3, <1>4, Grow
<1>6. e[n].used = u
  BY <1>3
<1> QED BY <1>3, <1>4, <1>5, <1>6, Zenon DEF e, n, u

\* What Slice() makes of the chunks c, and the allocation it adds.
Sliced(c, r)  == [c EXCEPT ![Len(c)].used = c[Len(c)].used + r.bytes]
NewAlloc(c, r) == [ptr |-> At(c[Len(c)].pointer, c[Len(c)].used),
                   bytes |-> r.bytes, align |-> r.align]

\* The free part of the last chunk suits the request.
Suits(c, r) ==
  c[Len(c)].used % r.align = 0 /\ Fits(c[Len(c)].used, r.bytes)

\* Slicing a request that the last chunk suits: what is sliced is in no
\* allocation, be it of another chunk.
LEMMA SliceLemma ==
  ASSUME LowMemory, NEW S \in SUBSET Pages, NEW A \in SUBSET Alloc, NEW c \in Seq(Chunk),
         c # <<>>, NEW r \in Requests, ChunksOf(S, c), AllocsOf(c, A), Suits(c, r)
  PROVE  /\ Sliced(c, r) \in Seq(Chunk)
         /\ A \union {NewAlloc(c, r)} \in SUBSET Alloc
         /\ ChunksOf(S, Sliced(c, r))
         /\ AllocsOf(Sliced(c, r), A \union {NewAlloc(c, r)})
<1> DEFINE b == NewAlloc(c, r)
           d == Sliced(c, r)
<1> DEFINE n == Len(c)
<1>1. n \in Nat /\ n > 0 /\ n \in DOMAIN c /\ DOMAIN c = 1 .. n
  OBVIOUS
<1>2. c[n] \in Chunk
  BY <1>1
<1>3. PICK x \in S : c[n].pointer = Tagged(x)
  BY <1>1 DEF ChunksOf
<1>4. x \in Pages /\ Tagged(x) \in Address /\ Tagged(x).lo = x.lo /\ x.lo \in Nat
  BY PageTypes DEF Address
<1>5. r.bytes \in Nat /\ r.align \in Nat /\ r.align > 0 /\ HUGE_PAGE_SIZE \in Nat
  BY PageTypes
<1>6. c[n].used \in Nat
  BY <1>2 DEF Chunk
<1>7. /\ b.ptr.tag = Tagged(x).tag /\ b.ptr.lo = x.lo + c[n].used
      /\ b.bytes = r.bytes /\ b.align = r.align /\ b \in Alloc
  <2>1. /\ b.ptr = At(c[n].pointer, c[n].used)
        /\ b.bytes = r.bytes /\ b.align = r.align
    BY DEF NewAlloc
  <2>2. At(c[n].pointer, c[n].used) \in Address
    BY <1>3, <1>4, <1>6, AtAddress
  <2>3. b \in Alloc
    BY <1>5, <2>2 DEF Alloc, NewAlloc
  <2>4. /\ At(c[n].pointer, c[n].used).tag = Tagged(x).tag
        /\ At(c[n].pointer, c[n].used).lo = x.lo + c[n].used
    BY <1>3, <1>4, <1>6, AtAddress
  <2> HIDE DEF b
  <2> QED BY <2>1, <2>3, <2>4
<1> HIDE DEF n, b
<1>8. /\ d[n] = [pointer |-> c[n].pointer, used |-> c[n].used + r.bytes]
      /\ d \in Seq(Chunk) /\ DOMAIN d = DOMAIN c
      /\ \A j \in DOMAIN c : j # n => d[j] = c[j]
  <2> USE DEF n
  <2>1. d = [c EXCEPT ![n] = [c[n] EXCEPT !.used = c[n].used + r.bytes]]
    BY DEF Sliced
  <2>2. [c[n] EXCEPT !.used = c[n].used + r.bytes]
          = [pointer |-> c[n].pointer, used |-> c[n].used + r.bytes]
    BY <1>2 DEF Chunk
  <2>3. [pointer |-> c[n].pointer, used |-> c[n].used + r.bytes] \in Chunk
    BY <1>2, <1>5 DEF Chunk
  <2> QED BY <1>1, <2>1, <2>2, <2>3
<1> HIDE DEF d
<1>9. ASSUME NEW j \in DOMAIN c
      PROVE  d[j].pointer = c[j].pointer /\ d[j].used >= c[j].used
  <2>0. c[j] \in Chunk
    OBVIOUS
  <2>1. c[j].used \in Nat
    BY <2>0 DEF Chunk
  <2>2. d[n].pointer = c[n].pointer /\ d[n].used = c[n].used + r.bytes
    BY <1>8
  <2>3. d[n].used >= c[n].used
    BY <1>5, <1>6, <2>2
  <2>4. CASE j = n
    BY <2>2, <2>3, <2>4
  <2>5. CASE j # n
    BY <1>8, <2>1, <2>5
  <2> QED BY <2>4, <2>5
<1>10. ChunksOf(S, d) /\ AllocsOf(d, A)
  BY <1>8, <1>9, Grow
<1>11. In(b, d[n])
  <2>1. c[n].used + r.bytes <= HUGE_PAGE_SIZE
    BY DEF Fits, Suits, n
  <2>2. d[n].pointer.tag = Tagged(x).tag /\ d[n].pointer.lo = x.lo
        /\ d[n].used = c[n].used + r.bytes
    BY <1>3, <1>4, <1>8
  <2>3. b.ptr.tag = Tagged(x).tag /\ b.ptr.lo = x.lo + c[n].used /\ b.bytes = r.bytes
    BY <1>7
  <2> QED BY <1>4, <1>5, <1>6, <2>1, <2>2, <2>3 DEF In
<1>12. b.ptr.lo % b.align = 0
  <2>1. c[n].used % r.align = 0 /\ x.lo % r.align = 0
    BY <1>4, PageTypes DEF Suits, n
  <2>2. (x.lo + c[n].used) % r.align = 0
    BY <1>4, <1>5, <1>6, <2>1, AlignedSum
  <2> QED BY <1>7, <2>2, Zenon
<1>13. ASSUME NEW a \in A PROVE Apart(a, b) /\ Apart(b, a)
  <2>1. PICK j \in DOMAIN c : In(a, c[j])
    BY DEF AllocsOf
  <2>2. a.ptr.lo \in Nat /\ a.bytes \in Nat
    BY DEF Alloc, Address
  <2>3. CASE j = n
    BY <1>3, <1>4, <1>5, <1>6, <1>7, <2>1, <2>2, <2>3 DEF In, Apart
  <2>4. CASE j # n
    <3>1. PICK y \in S : c[j].pointer = Tagged(y)
      BY DEF ChunksOf
    <3>2. x # y
      BY <1>1, <1>3, <2>4, <3>1 DEF ChunksOf
    <3>3. x.lo + HUGE_PAGE_SIZE <= y.lo \/ y.lo + HUGE_PAGE_SIZE <= x.lo
      BY <3>2, PagesApart
    <3>4. Tagged(y).lo = y.lo /\ y.lo \in Nat
      BY PageTypes DEF Address
    <3>5. y.lo <= a.ptr.lo /\ a.ptr.lo + a.bytes <= y.lo + HUGE_PAGE_SIZE
      BY <2>1, <3>1, <3>4 DEF In
    <3>6. x.lo <= b.ptr.lo /\ b.ptr.lo + b.bytes <= x.lo + HUGE_PAGE_SIZE
          /\ b.ptr.lo \in Nat /\ b.bytes \in Nat
      <4>1. c[n].used + r.bytes <= HUGE_PAGE_SIZE
        BY DEF Fits, Suits, n
      <4>2. b.ptr.lo = x.lo + c[n].used /\ b.bytes = r.bytes
        BY <1>7
      <4> QED BY <1>4, <1>5, <1>6, <4>1, <4>2, SMTT(30)
    <3> DEFINE h  == HUGE_PAGE_SIZE
               xl == x.lo
               yl == y.lo
               al == a.ptr.lo
               am == a.bytes
               bl == b.ptr.lo
               bm == b.bytes
    <3>9. /\ h \in Nat /\ xl \in Nat /\ yl \in Nat /\ al \in Nat /\ am \in Nat
          /\ bl \in Nat /\ bm \in Nat
          /\ xl + h <= yl \/ yl + h <= xl
          /\ yl <= al /\ al + am <= yl + h
          /\ xl <= bl /\ bl + bm <= xl + h
      BY <1>4, <1>5, <2>2, <3>3, <3>4, <3>5, <3>6
    <3> HIDE DEF h, xl, yl, al, am, bl, bm
    <3>10. al + am <= bl \/ bl + bm <= al
      BY <3>9
    <3> QED BY <3>10 DEF Apart, al, am, bl, bm
  <2> QED BY <2>3, <2>4
<1>14. AllocsOf(d, A \union {b})
  BY <1>1, <1>8, <1>10, <1>11, <1>12, <1>13 DEF AllocsOf
<1> QED BY <1>7, <1>8, <1>9, <1>10, <1>14 DEF b, d

-----------------------------------------------------------------------------
(* Pages.                                                                  *)

LEMMA FreeNotHeld ==
  TypeOK => Free \subseteq Pages /\ \A p \in Pids : Free \intersect Held(p) = {}
<1> SUFFICES ASSUME TypeOK, NEW a \in Free
             PROVE  a \in Pages /\ \A p \in Pids : a \notin Held(p)
  BY DEF Free
<1>1. a \in Pages
  BY DEF Free
<1>2. a \notin InFiles /\ a \notin InMaps /\ a \notin {phys[p] : p \in Pids}
  BY DEF Free
<1>3. ASSUME NEW p \in Pids PROVE a \notin Held(p)
  <2>1. \A m \in 0 .. MaxMounts : a # files[m][p]
    BY <1>2 DEF TypeOK, InFiles
  <2>2. a # phys[p]
    BY <1>2
  <2>3. a \notin Mapped(p)
    <3>1. a \notin {m.phys : m \in maps[p]}
      BY <1>2 DEF InMaps
    <3> QED BY <3>1 DEF Mapped
  <2> QED BY <2>1, <2>2, <2>3 DEF Held
<1> QED BY <1>1, <1>3

\* A process that gets no page but free ones takes none from another.
LEMMA HeldApart ==
  ASSUME TypeOK, Owned, NEW p \in Pids,
         \A q \in Pids : q # p => Held(q)' = Held(q),
         Held(p)' \subseteq Held(p) \union Free
  PROVE  \A a, b \in Pids : a # b => Held(a)' \intersect Held(b)' = {}
BY FreeNotHeld DEF Owned

\* What a step of process p leaves alone.
Others(p) ==
  \A q \in Pids \ {p} :
    /\ maps'[q] = maps[q] /\ pc'[q] = pc[q] /\ want'[q] = want[q] /\ phys'[q] = phys[q]
    /\ opened'[q] = opened[q] /\ CHUNKS'[q] = CHUNKS[q] /\ allocs'[q] = allocs[q]
    /\ \A m \in 0 .. MaxMounts : files'[m][q] = files[m][q]

\* If it also mounts nothing, what holds of the other processes still does.
LEMMA OthersKeep ==
  ASSUME DInv, NEW p \in Pids, Others(p), mounts' = mounts
  PROVE  \A q \in Pids \ {p} :
           /\ Held(q)' = Held(q) /\ AllocatingAt(q)'
           /\ \A m \in maps'[q] : m.virt = Tagged(m.phys)
           /\ \A m \in 0 .. MaxMounts : m > mounts' => files'[m][q] = NoPage
           /\ ChunksOf(Mapped(q)', CHUNKS'[q]) /\ AllocsOf(CHUNKS'[q], allocs'[q])
<1> SUFFICES ASSUME NEW q \in Pids \ {p}
             PROVE  /\ Held(q)' = Held(q) /\ AllocatingAt(q)'
                    /\ \A m \in maps'[q] : m.virt = Tagged(m.phys)
                    /\ \A m \in 0 .. MaxMounts : m > mounts' => files'[m][q] = NoPage
                    /\ ChunksOf(Mapped(q)', CHUNKS'[q]) /\ AllocsOf(CHUNKS'[q], allocs'[q])
  OBVIOUS
<1>1. /\ maps'[q] = maps[q] /\ pc'[q] = pc[q] /\ want'[q] = want[q] /\ phys'[q] = phys[q]
      /\ opened'[q] = opened[q] /\ CHUNKS'[q] = CHUNKS[q] /\ allocs'[q] = allocs[q]
      /\ \A m \in 0 .. MaxMounts : files'[m][q] = files[m][q]
  BY DEF Others
<1>2. Mapped(q)' = Mapped(q)
  BY <1>1 DEF Mapped
<1>3. Held(q)' = Held(q)
  BY <1>1, <1>2 DEF Held
<1>4. mounts \in 0 .. MaxMounts /\ opened[q] \in 0 .. MaxMounts
  BY DEF DInv, TypeOK
<1>5. AllocatingAt(q)'
  BY <1>1, <1>2, <1>4 DEF DInv, Allocating, AllocatingAt
<1>6. \A m \in maps'[q] : m.virt = Tagged(m.phys)
  BY <1>1 DEF DInv, Owned
<1>7. \A m \in 0 .. MaxMounts : m > mounts' => files'[m][q] = NoPage
  BY <1>1 DEF DInv, Owned
<1>8. ChunksOf(Mapped(q)', CHUNKS'[q]) /\ AllocsOf(CHUNKS'[q], allocs'[q])
  BY <1>1, <1>2 DEF DInv, ChunksOK, AllocsOK
<1> QED BY <1>3, <1>5, <1>6, <1>7, <1>8

\* So a step of p keeps the invariant if it keeps the part of p.
LEMMA StepOf ==
  ASSUME DInv, NEW p \in Pids, Others(p), mounts' = mounts, TypeOK',
         Held(p)' \subseteq Held(p) \union Free,
         \A m \in maps'[p] : m.virt = Tagged(m.phys),
         \A m \in 0 .. MaxMounts : m > mounts => files'[m][p] = NoPage,
         AllocatingAt(p)',
         ChunksOf(Mapped(p)', CHUNKS'[p]), AllocsOf(CHUNKS'[p], allocs'[p])
  PROVE  DInv'
<1>1. \A q \in Pids \ {p} :
        /\ Held(q)' = Held(q) /\ AllocatingAt(q)'
        /\ \A m \in maps'[q] : m.virt = Tagged(m.phys)
        /\ \A m \in 0 .. MaxMounts : m > mounts' => files'[m][q] = NoPage
        /\ ChunksOf(Mapped(q)', CHUNKS'[q]) /\ AllocsOf(CHUNKS'[q], allocs'[q])
  BY OthersKeep
<1>2. TypeOK /\ Owned
  BY DEF DInv
<1>3. \A a, b \in Pids : a # b => Held(a)' \intersect Held(b)' = {}
  BY <1>1, <1>2, HeldApart
<1>4. \A q \in Pids : \A m \in maps'[q] : m.virt = Tagged(m.phys)
  BY <1>1
<1>5. \A m \in 0 .. MaxMounts, q \in Pids : m > mounts' => files'[m][q] = NoPage
  BY <1>1
<1>6. Owned'
  BY <1>3, <1>4, <1>5 DEF Owned
<1>7. Allocating'
  BY <1>1 DEF Allocating
<1>8. ChunksOK' /\ AllocsOK'
  BY <1>1 DEF ChunksOK, AllocsOK
<1> QED BY <1>6, <1>7, <1>8 DEF DInv

-----------------------------------------------------------------------------
(* The steps.                                                              *)

LEMMA DieStep ==
  ASSUME DInv, NEW p \in Pids, NEW how \in Ended, Die(p, how) PROVE DInv'
<1>1. TypeOK
  BY DEF DInv
<1>2. TypeOK'
  <2>1. <<>> \in Seq(Chunk) /\ {} \in SUBSET Alloc
    OBVIOUS
  <2> QED BY <1>1, <2>1 DEF TypeOK, Die
<1>3. Others(p) /\ mounts' = mounts
  BY <1>1 DEF TypeOK, Die, Others
<1>4. /\ maps'[p] = {} /\ phys'[p] = NoPage /\ CHUNKS'[p] = <<>> /\ allocs'[p] = {}
      /\ pc'[p] = how /\ opened' = opened /\ files' = files
  BY <1>1 DEF TypeOK, Die
<1>5. Mapped(p)' = {}
  BY <1>4 DEF Mapped
<1>6. Held(p)' \subseteq Held(p)
  BY <1>4, <1>5 DEF Held
<1>7. AllocatingAt(p)'
  BY <1>3, <1>4 DEF AllocatingAt, DInv, Allocating, Ended, States
<1>8. ChunksOf({}, <<>>) /\ AllocsOf(<<>>, {})
  BY DEF ChunksOf, AllocsOf
<1>9. \A m \in 0 .. MaxMounts : m > mounts => files'[m][p] = NoPage
  BY <1>4 DEF DInv, Owned
<1> QED BY <1>2, <1>3, <1>4, <1>5, <1>6, <1>7, <1>8, <1>9, StepOf

LEMMA QuietStep ==
  ASSUME DInv, NEW p \in Pids, Remount(p) \/ Open(p) \/ Start(p) PROVE DInv'
<1>1. TypeOK /\ AllocatingAt(p)
  BY DEF DInv, Allocating
<1> USE DEF Goto, kernel, locals
<1>2. TypeOK'
  <2>1. mounts' = mounts /\ files' = files /\ maps' = maps /\ want' = want /\ phys' = phys
        /\ CHUNKS' = CHUNKS /\ allocs' = allocs
    BY DEF Remount, Open, Start
  <2>2. pc' \in [Pids -> States \union Ended]
    BY <1>1 DEF TypeOK, Remount, Open, Start, States
  <2>3. opened' \in [Pids -> 0 .. MaxMounts]
    BY <1>1 DEF TypeOK, Remount, Open, Start
  <2> QED BY <1>1, <2>1, <2>2, <2>3 DEF TypeOK
<1>3. /\ mounts' = mounts /\ files' = files /\ maps' = maps /\ want' = want /\ phys' = phys
      /\ CHUNKS' = CHUNKS /\ allocs' = allocs
  BY DEF Remount, Open, Start
<1>4. Others(p)
  BY <1>1, <1>3 DEF TypeOK, Others, Remount, Open, Start
<1>5. Mapped(p)' = Mapped(p) /\ Held(p)' = Held(p)
  BY <1>3 DEF Mapped, Held
<1>6. AllocatingAt(p)'
  <2>1. mounts \in Nat
    BY <1>1, PageTypes DEF TypeOK
  <2>2. CASE Remount(p)
    <3>1. pc[p] = "remount" /\ pc'[p] \in {"open", "mount"} /\ opened' = opened
      BY <1>1, <2>2 DEF Remount, TypeOK
    <3> QED BY <1>1, <1>3, <1>5, <3>1 DEF AllocatingAt, States, Ended
  <2>3. CASE Open(p)
    <3>1. pc[p] = "open" /\ pc'[p] = "map" /\ opened'[p] = mounts
      BY <1>1, <2>3 DEF Open, TypeOK
    <3> QED BY <1>1, <1>3, <1>5, <2>1, <3>1 DEF AllocatingAt, States, Ended
  <2>4. CASE Start(p)
    <3>1. pc[p] \in Ended /\ pc'[p] = "running" /\ opened' = opened
      BY <1>1, <2>4 DEF Start, TypeOK
    <3> QED BY <1>1, <1>3, <1>5, <3>1 DEF AllocatingAt, States, Ended
  <2> QED BY <2>2, <2>3, <2>4
<1>7. /\ \A m \in maps'[p] : m.virt = Tagged(m.phys)
      /\ \A m \in 0 .. MaxMounts : m > mounts => files'[m][p] = NoPage
      /\ ChunksOf(Mapped(p)', CHUNKS'[p]) /\ AllocsOf(CHUNKS'[p], allocs'[p])
  BY <1>3, <1>5 DEF DInv, Owned, ChunksOK, AllocsOK
<1> QED BY <1>2, <1>3, <1>4, <1>5, <1>6, <1>7, StepOf

\* A new mount has no files: the others find none on it either.
LEMMA MountStep ==
  ASSUME DInv, NEW p \in Pids, Mount(p) PROVE DInv'
<1>1. TypeOK /\ Owned
  BY DEF DInv
<1> USE DEF Goto, locals
<1>2. /\ mounts' = mounts + 1 /\ files' = files /\ maps' = maps /\ want' = want
      /\ phys' = phys /\ opened' = opened /\ CHUNKS' = CHUNKS /\ allocs' = allocs
  BY DEF Mount
<1>3. mounts \in Nat /\ mounts' \in 0 .. MaxMounts /\ mounts' > mounts
  BY <1>1, PageTypes DEF TypeOK, Mount
<1>4. TypeOK'
  BY <1>1, <1>2, <1>3 DEF TypeOK, Mount, States
<1>5. \A q \in Pids : Mapped(q)' = Mapped(q) /\ Held(q)' = Held(q)
  BY <1>2 DEF Mapped, Held
<1>6. \A q \in Pids : files'[mounts'][q] = NoPage
  BY <1>1, <1>2, <1>3 DEF Owned
<1>7. Owned'
  <2>1. \A m \in 0 .. MaxMounts : m > mounts' => m > mounts
    BY <1>3
  <2> QED BY <1>1, <1>2, <1>5, <2>1 DEF Owned
<1>8. ASSUME NEW q \in Pids PROVE AllocatingAt(q)'
  <2>1. AllocatingAt(q) /\ opened[q] \in Nat
    BY <1>1, PageTypes DEF DInv, Allocating, TypeOK
  <2>2. opened'[q] <= mounts'
    BY <1>2, <1>3, <2>1 DEF AllocatingAt
  <2>3. CASE q = p
    <3>1. pc[q] = "mount" /\ pc'[q] = "open"
      BY <1>1, <2>3 DEF Mount, TypeOK
    <3> QED BY <1>2, <1>5, <1>6, <2>1, <2>2, <3>1 DEF AllocatingAt, States, Ended
  <2>4. CASE q # p
    <3>1. pc'[q] = pc[q]
      BY <1>1, <2>4 DEF Mount, TypeOK
    <3> QED BY <1>2, <1>5, <1>6, <2>1, <2>2, <3>1 DEF AllocatingAt
  <2> QED BY <2>3, <2>4
<1>9. ChunksOK' /\ AllocsOK'
  BY <1>2, <1>5 DEF DInv, ChunksOK, AllocsOK
<1> QED BY <1>4, <1>7, <1>8, <1>9 DEF DInv, Allocating

\* The page of the file, or a free one: none the process maps.
LEMMA MapStep ==
  ASSUME DInv, NEW p \in Pids, Map(p) PROVE DInv'
<1>1. TypeOK /\ Owned /\ AllocatingAt(p)
  BY DEF DInv, Allocating
<1> USE DEF Goto
<1> DEFINE o == opened[p]
           file == files[o][p]
<1>2. /\ pc[p] = "map" /\ pc'[p] = "map_fixed" /\ o \in 0 .. MaxMounts /\ mounts \in 0 .. MaxMounts
      /\ file \in Pages \union {NoPage} /\ o <= mounts
  BY <1>1 DEF Map, TypeOK, AllocatingAt
<1>3. PICK page \in IF file = NoPage THEN Free ELSE {file} :
        /\ files' = [files EXCEPT ![o][p] = page]
        /\ phys' = [phys EXCEPT ![p] = page]
  BY DEF Map
<1>4. page \in Pages /\ page \in Held(p) \union Free
  BY <1>1, <1>2, <1>3, FreeNotHeld DEF Held
<1>5. /\ mounts' = mounts /\ maps' = maps /\ want' = want /\ opened' = opened
      /\ CHUNKS' = CHUNKS /\ allocs' = allocs
  BY DEF Map
<1>6. /\ phys'[p] = page
      /\ \A m \in 0 .. MaxMounts : files'[m][p] = IF m = o THEN page ELSE files[m][p]
      /\ \A q \in Pids \ {p} :
           /\ phys'[q] = phys[q] /\ pc'[q] = pc[q]
           /\ \A m \in 0 .. MaxMounts : files'[m][q] = files[m][q]
  BY <1>1, <1>2, <1>3 DEF TypeOK, Map
<1>7. TypeOK'
  <2>1. phys' \in [Pids -> Pages \union {NoPage}]
    BY <1>1, <1>3, <1>4 DEF TypeOK
  <2>2. files' \in [0 .. MaxMounts -> [Pids -> Pages \union {NoPage}]]
    BY <1>1, <1>3, <1>4 DEF TypeOK
  <2>3. pc' \in [Pids -> States \union Ended]
    BY <1>1 DEF TypeOK, Map, States
  <2> QED BY <1>1, <1>5, <2>1, <2>2, <2>3 DEF TypeOK
<1>8. Others(p)
  BY <1>5, <1>6 DEF Others
<1>9. Mapped(p)' = Mapped(p)
  BY <1>5 DEF Mapped
<1>10. Held(p)' \subseteq Held(p) \union Free
  BY <1>4, <1>6, <1>9 DEF Held
<1>11. page \notin Mapped(p)
  <2>1. CASE file = NoPage
    BY <1>1, <1>3, <2>1, FreeNotHeld, PageTypes DEF Held
  <2>2. CASE file # NoPage
    BY <1>1, <1>2, <2>2 DEF AllocatingAt, Mapped
  <2> QED BY <2>1, <2>2
<1>12. AllocatingAt(p)'
  BY <1>1, <1>2, <1>4, <1>5, <1>6, <1>9, <1>11 DEF AllocatingAt, States, Ended
<1>13. /\ \A m \in maps'[p] : m.virt = Tagged(m.phys)
       /\ ChunksOf(Mapped(p)', CHUNKS'[p]) /\ AllocsOf(CHUNKS'[p], allocs'[p])
  BY <1>5, <1>9 DEF DInv, Owned, ChunksOK, AllocsOK
<1>14. \A m \in 0 .. MaxMounts : m > mounts => files'[m][p] = NoPage
  <2>1. \A m \in 0 .. MaxMounts : m > mounts => m # o
    BY <1>2, PageTypes
  <2> QED BY <1>1, <1>6, <2>1 DEF Owned
<1> QED BY <1>5, <1>7, <1>8, <1>10, <1>12, <1>13, <1>14, StepOf

\* The page is mapped beside the others: nothing was mapped at its address.
LEMMA MapFixedStep ==
  ASSUME DInv, LowMemory, NEW p \in Pids, MapFixed(p) PROVE DInv'
<1>1. TypeOK /\ Owned /\ AllocatingAt(p)
  BY DEF DInv, Allocating
<1> USE DEF Goto, locals
<1>2. /\ mounts' = mounts /\ files' = files /\ want' = want /\ phys' = phys
      /\ opened' = opened /\ CHUNKS' = CHUNKS /\ allocs' = allocs
  BY DEF MapFixed
<1>3. pc[p] = "map_fixed" /\ pc'[p] = "unlink" /\ phys[p] \in Pages /\ phys[p] \notin Mapped(p)
  BY <1>1 DEF MapFixed, TypeOK, AllocatingAt
<1> DEFINE v == Tagged(phys[p])
           m0 == [virt |-> v, phys |-> phys[p]]
<1>4. m0 \in [virt : Address, phys : Pages] /\ m0.virt = Tagged(m0.phys) /\ m0.phys = phys[p]
  BY <1>3, PageTypes
<1>5. \A m \in maps[p] : m.virt # v
  <2> SUFFICES ASSUME NEW m \in maps[p] PROVE m.virt # v
    OBVIOUS
  <2>1. m.phys \in Pages /\ m.phys \in Mapped(p)
    BY <1>1 DEF TypeOK, Mapped
  <2>2. m.phys # phys[p]
    BY <1>3, <2>1
  <2>3. m.virt = Tagged(m.phys)
    BY <1>1 DEF Owned
  <2> QED BY <1>3, <2>1, <2>2, <2>3, PagesApart
<1>6. maps'[p] = maps[p] \union {m0}
  <2>1. maps'[p] = {m \in maps[p] : m.virt # v} \union {m0}
    BY <1>1 DEF TypeOK, MapFixed
  <2> HIDE DEF m0, v
  <2> QED BY <1>5, <2>1
<1>7. \A q \in Pids \ {p} : maps'[q] = maps[q] /\ pc'[q] = pc[q]
  BY <1>1 DEF TypeOK, MapFixed
<1> HIDE DEF m0, v
<1>8. TypeOK'
  <2>1. maps' \in [Pids -> SUBSET [virt : Address, phys : Pages]]
    <3>1. maps[p] \union {m0} \in SUBSET [virt : Address, phys : Pages]
      BY <1>1, <1>4 DEF TypeOK
    <3>2. \A q \in Pids : maps'[q] \in SUBSET [virt : Address, phys : Pages]
      BY <1>1, <1>6, <1>7, <3>1 DEF TypeOK
    <3>3. DOMAIN maps' = Pids /\ maps' = [q \in Pids |-> maps'[q]]
      BY <1>1 DEF TypeOK, MapFixed
    <3> QED BY <3>2, <3>3
  <2>2. pc' \in [Pids -> States \union Ended]
    BY <1>1 DEF TypeOK, MapFixed, States
  <2> QED BY <1>1, <1>2, <2>1, <2>2 DEF TypeOK
<1>9. Others(p)
  BY <1>2, <1>7 DEF Others
<1>10. Mapped(p)' = Mapped(p) \union {phys[p]}
  BY <1>4, <1>6 DEF Mapped
<1>11. Held(p)' \subseteq Held(p) \union Free
  BY <1>2, <1>10 DEF Held
<1>12. ChunksOf(Mapped(p), CHUNKS[p]) /\ AllocsOf(CHUNKS[p], allocs[p])
  BY DEF DInv, ChunksOK, AllocsOK
<1>13. ASSUME NEW j \in DOMAIN CHUNKS[p] PROVE CHUNKS[p][j].pointer # Tagged(phys[p])
  <2>1. PICK a \in Mapped(p) : CHUNKS[p][j].pointer = Tagged(a)
    BY <1>12 DEF ChunksOf
  <2>2. a \in Pages /\ a # phys[p]
    BY <1>1, <1>3 DEF Mapped, TypeOK
  <2> QED BY <1>3, <2>1, <2>2, PagesApart
<1>14. AllocatingAt(p)'
  <2>1. phys[p] \in Mapped(p)'
    BY <1>10
  <2> QED BY <1>1, <1>2, <1>3, <1>13, <2>1 DEF AllocatingAt, States, Ended
<1>15. ChunksOf(Mapped(p)', CHUNKS'[p])
  BY <1>2, <1>10, <1>12 DEF ChunksOf
<1>16. \A m \in maps'[p] : m.virt = Tagged(m.phys)
  BY <1>1, <1>4, <1>6 DEF Owned
<1>17. \A m \in 0 .. MaxMounts : m > mounts => files'[m][p] = NoPage
  BY <1>1, <1>2 DEF Owned
<1> QED BY <1>2, <1>8, <1>9, <1>11, <1>12, <1>14, <1>15, <1>16, <1>17, StepOf

LEMMA UnlinkStep ==
  ASSUME DInv, NEW p \in Pids, Unlink(p) PROVE DInv'
<1>1. TypeOK /\ Owned /\ AllocatingAt(p)
  BY DEF DInv, Allocating
<1> USE DEF Goto, locals
<1>2. /\ mounts' = mounts /\ maps' = maps /\ want' = want /\ phys' = phys
      /\ opened' = opened /\ CHUNKS' = CHUNKS /\ allocs' = allocs
  BY DEF Unlink
<1>3. /\ pc[p] = "unlink" /\ pc'[p] = "slice" /\ mounts \in 0 .. MaxMounts
      /\ \A m \in 0 .. MaxMounts : files'[m][p] = IF m = mounts THEN NoPage ELSE files[m][p]
  BY <1>1 DEF Unlink, TypeOK
<1>4. TypeOK'
  <2>1. files' \in [0 .. MaxMounts -> [Pids -> Pages \union {NoPage}]]
    BY <1>1 DEF TypeOK, Unlink
  <2>2. pc' \in [Pids -> States \union Ended]
    BY <1>1 DEF TypeOK, Unlink, States
  <2> QED BY <1>1, <1>2, <2>1, <2>2 DEF TypeOK
<1>5. Others(p)
  <2>1. \A q \in Pids \ {p} : pc'[q] = pc[q] /\ \A m \in 0 .. MaxMounts : files'[m][q] = files[m][q]
    BY <1>1 DEF TypeOK, Unlink
  <2> QED BY <1>2, <2>1 DEF Others
<1>6. Mapped(p)' = Mapped(p)
  BY <1>2 DEF Mapped
<1>7. Held(p)' \subseteq Held(p) \union Free
  BY <1>2, <1>3, <1>6 DEF Held
<1>8. AllocatingAt(p)'
  BY <1>1, <1>2, <1>3, <1>6 DEF AllocatingAt, States, Ended
<1>9. /\ \A m \in maps'[p] : m.virt = Tagged(m.phys)
      /\ \A m \in 0 .. MaxMounts : m > mounts => files'[m][p] = NoPage
  BY <1>1, <1>2, <1>3 DEF Owned
<1>10. ChunksOf(Mapped(p)', CHUNKS'[p]) /\ AllocsOf(CHUNKS'[p], allocs'[p])
  BY <1>2, <1>6 DEF DInv, ChunksOK, AllocsOK
<1> QED BY <1>2, <1>4, <1>5, <1>7, <1>8, <1>9, <1>10, StepOf

\* A step that touches the chunks and allocations of p only, and where it is.
LEMMA ChunkStep ==
  ASSUME DInv, NEW p \in Pids, NEW c \in Seq(Chunk), NEW A \in SUBSET Alloc,
         CHUNKS' = [CHUNKS EXCEPT ![p] = c], allocs' = [allocs EXCEPT ![p] = A],
         mounts' = mounts, files' = files, maps' = maps, opened' = opened,
         NEW s \in States, pc' = [pc EXCEPT ![p] = s],
         NEW r \in Requests \union {NoRequest}, want' = [want EXCEPT ![p] = r],
         NEW a \in {phys[p], NoPage}, phys' = [phys EXCEPT ![p] = a],
         AllocatingAt(p)', ChunksOf(Mapped(p), c), AllocsOf(c, A)
  PROVE  DInv'
<1>1. TypeOK /\ Owned
  BY DEF DInv
<1>2. CHUNKS'[p] = c /\ allocs'[p] = A /\ phys'[p] = a
  BY <1>1 DEF TypeOK
<1>3. TypeOK'
  <2>1. CHUNKS' \in [Pids -> Seq(Chunk)] /\ allocs' \in [Pids -> SUBSET Alloc]
    BY <1>1 DEF TypeOK
  <2>2. pc' \in [Pids -> States \union Ended]
    BY <1>1 DEF TypeOK
  <2>3. want' \in [Pids -> Requests \union {NoRequest}] /\ phys' \in [Pids -> Pages \union {NoPage}]
    BY <1>1 DEF TypeOK
  <2> QED BY <1>1, <2>1, <2>2, <2>3 DEF TypeOK
<1>4. Others(p)
  <2>1. \A q \in Pids \ {p} : CHUNKS'[q] = CHUNKS[q] /\ allocs'[q] = allocs[q]
    BY <1>1 DEF TypeOK
  <2>2. \A q \in Pids \ {p} : pc'[q] = pc[q] /\ want'[q] = want[q] /\ phys'[q] = phys[q]
    BY <1>1 DEF TypeOK
  <2> QED BY <2>1, <2>2 DEF Others
<1>5. Mapped(p)' = Mapped(p)
  BY DEF Mapped
<1>6. Held(p)' \subseteq Held(p) \union Free
  BY <1>2, <1>5 DEF Held
<1>7. /\ \A m \in maps'[p] : m.virt = Tagged(m.phys)
      /\ \A m \in 0 .. MaxMounts : m > mounts => files'[m][p] = NoPage
  BY <1>1 DEF Owned
<1> QED BY <1>2, <1>3, <1>4, <1>5, <1>6, <1>7, StepOf

LEMMA AllocStep ==
  ASSUME DInv, LowMemory, NEW p \in Pids, NEW r \in Requests, dma_alloc(p, r) PROVE DInv'
<1> DEFINE c == CHUNKS[p]
           A == allocs[p]
           S == Mapped(p)
<1>1. TypeOK /\ Owned /\ AllocatingAt(p) /\ ChunksOf(S, c) /\ AllocsOf(c, A)
  BY DEF DInv, Allocating, ChunksOK, AllocsOK
<1>2. c \in Seq(Chunk) /\ A \in SUBSET Alloc /\ S \in SUBSET Pages
  BY <1>1 DEF TypeOK, Mapped
<1>3. /\ pc[p] = "running" /\ r.bytes <= HUGE_PAGE_SIZE
      /\ mounts' = mounts /\ files' = files /\ maps' = maps /\ opened' = opened /\ phys' = phys
  BY DEF dma_alloc, kernel
<1>4. phys[p] = NoPage /\ phys' = [phys EXCEPT ![p] = phys[p]]
  BY <1>1, <1>3 DEF TypeOK, AllocatingAt
<1>5. Mapped(p)' = Mapped(p)
  BY <1>3 DEF Mapped
<1>6. CASE c = <<>>
  <2>1. /\ pc' = [pc EXCEPT ![p] = "remount"] /\ want' = [want EXCEPT ![p] = r]
        /\ CHUNKS' = CHUNKS /\ allocs' = allocs
    BY <1>6 DEF dma_alloc
  <2>2. pc'[p] = "remount" /\ want'[p] = r
    BY <1>1, <2>1 DEF TypeOK
  <2>3. AllocatingAt(p)'
    BY <1>1, <1>3, <1>4, <1>5, <2>1, <2>2 DEF AllocatingAt, States, Ended
  <2>4. CHUNKS' = [CHUNKS EXCEPT ![p] = c] /\ allocs' = [allocs EXCEPT ![p] = A]
    BY <1>1, <2>1 DEF TypeOK
  <2>5. "remount" \in States
    BY DEF States
  <2> HIDE DEF c, A
  <2> QED BY <1>1, <1>2, <1>3, <1>4, <2>1, <2>3, <2>4, <2>5, ChunkStep
<1>7. CASE c # <<>>
  <2> DEFINE u == Skip(c, r)
             e == Skipped(c, r)
  <2> HIDE DEF c, A, S
  <2>3. /\ e \in Seq(Chunk) /\ Len(e) = Len(c) /\ e # <<>>
        /\ e[Len(c)].used = u
        /\ ChunksOf(S, e) /\ AllocsOf(e, A)
    BY <1>1, <1>2, <1>7, SkipLemma
  <2>2. u % r.align = 0
    BY <1>2, <1>7, SkipAligns
  <2>4. \/ Fits(u, r.bytes) /\ Slice(p, r, e) /\ pc' = pc /\ want' = want
        \/ /\ pc' = [pc EXCEPT ![p] = "remount"] /\ want' = [want EXCEPT ![p] = r]
           /\ CHUNKS' = [CHUNKS EXCEPT ![p] = e] /\ allocs' = allocs
    BY <1>7, Zenon DEF dma_alloc, LastChunk, c, Skip, Skipped
  <2> HIDE DEF e, u
  <2>5. CASE Fits(u, r.bytes) /\ Slice(p, r, e) /\ pc' = pc /\ want' = want
    <3>1. Suits(e, r)
      BY <2>2, <2>3, <2>5, Zenon DEF Suits
    <3>2. /\ Sliced(e, r) \in Seq(Chunk)
          /\ A \union {NewAlloc(e, r)} \in SUBSET Alloc
          /\ ChunksOf(S, Sliced(e, r))
          /\ AllocsOf(Sliced(e, r), A \union {NewAlloc(e, r)})
      BY <1>2, <2>3, <3>1, SliceLemma
    <3>3. /\ CHUNKS' = [CHUNKS EXCEPT ![p] = Sliced(e, r)]
          /\ allocs' = [allocs EXCEPT ![p] = A \union {NewAlloc(e, r)}]
      BY <2>5, Zenon DEF Slice, Sliced, NewAlloc, A
    <3>4. /\ pc' = [pc EXCEPT ![p] = "running"] /\ pc'[p] = "running"
          /\ want' = [want EXCEPT ![p] = want[p]] /\ want[p] \in Requests \union {NoRequest}
      BY <1>1, <1>3, <2>5 DEF TypeOK
    <3>5. AllocatingAt(p)'
      BY <1>1, <1>3, <1>4, <1>5, <3>4 DEF AllocatingAt, States, Ended
    <3>6. "running" \in States
      BY DEF States
    <3> QED BY <1>3, <1>4, <3>2, <3>3, <3>4, <3>5, <3>6, ChunkStep DEF S
  <2>6. CASE /\ pc' = [pc EXCEPT ![p] = "remount"] /\ want' = [want EXCEPT ![p] = r]
             /\ CHUNKS' = [CHUNKS EXCEPT ![p] = e] /\ allocs' = allocs
    <3>1. pc'[p] = "remount" /\ want'[p] = r
      BY <1>1, <2>6 DEF TypeOK
    <3>2. AllocatingAt(p)'
      BY <1>1, <1>3, <1>4, <1>5, <2>6, <3>1 DEF AllocatingAt, States, Ended
    <3>3. allocs' = [allocs EXCEPT ![p] = A]
      BY <1>1, <2>6 DEF TypeOK, A
    <3>4. "remount" \in States
      BY DEF States
    <3> QED BY <1>2, <1>3, <1>4, <2>3, <2>6, <3>2, <3>3, <3>4, ChunkStep DEF S
  <2> QED BY <2>4, <2>5, <2>6
<1> QED BY <1>6, <1>7

\* The page becomes a chunk, and the request is sliced out of it.
LEMMA NextChunkStep ==
  ASSUME DInv, LowMemory, NEW p \in Pids, allocate_next_chunk(p) PROVE DInv'
<1> DEFINE c == CHUNKS[p]
           A == allocs[p]
           S == Mapped(p)
           x == phys[p]
           r == want[p]
           e == WithChunk(c, x)
<1>1. TypeOK /\ Owned /\ AllocatingAt(p) /\ ChunksOf(S, c) /\ AllocsOf(c, A)
  BY DEF DInv, Allocating, ChunksOK, AllocsOK
<1>2. c \in Seq(Chunk) /\ A \in SUBSET Alloc /\ S \in SUBSET Pages
  BY <1>1 DEF TypeOK, Mapped
<1>3. /\ pc[p] = "slice" /\ pc' = [pc EXCEPT ![p] = "running"]
      /\ phys' = [phys EXCEPT ![p] = NoPage] /\ want' = [want EXCEPT ![p] = NoRequest]
      /\ mounts' = mounts /\ files' = files /\ maps' = maps /\ opened' = opened
      /\ Slice(p, r, e)
  BY DEF allocate_next_chunk, kernel, Goto, WithChunk
<1>4. /\ x \in S /\ r \in Requests /\ r.bytes <= HUGE_PAGE_SIZE
      /\ \A j \in DOMAIN c : c[j].pointer # Tagged(x)
  BY <1>1, <1>3 DEF AllocatingAt, States
<1> HIDE DEF c, A, S, x, r
<1>5. /\ e \in Seq(Chunk) /\ Len(e) = Len(c) + 1 /\ e[Len(e)].used = 0
      /\ ChunksOf(S, e) /\ AllocsOf(e, A)
  BY <1>1, <1>2, <1>4, AnotherChunk, SMTT(30)
<1>6. e # <<>> /\ Suits(e, r)
  <2>1. e[Len(e)].used = 0
    BY <1>5
  <2>2. 0 % r.align = 0
    BY <1>4, PageTypes
  <2>3. Fits(0, r.bytes)
    BY <1>4, PageTypes DEF Fits
  <2>4. e # <<>>
    BY <1>2, <1>5
  <2> HIDE DEF e
  <2> QED BY <2>1, <2>2, <2>3, <2>4, Zenon DEF Suits
<1> HIDE DEF e
<1>7. /\ Sliced(e, r) \in Seq(Chunk)
      /\ A \union {NewAlloc(e, r)} \in SUBSET Alloc
      /\ ChunksOf(S, Sliced(e, r))
      /\ AllocsOf(Sliced(e, r), A \union {NewAlloc(e, r)})
  BY <1>2, <1>4, <1>5, <1>6, SliceLemma
<1>8. /\ CHUNKS' = [CHUNKS EXCEPT ![p] = Sliced(e, r)]
      /\ allocs' = [allocs EXCEPT ![p] = A \union {NewAlloc(e, r)}]
  BY <1>3, Zenon DEF Slice, Sliced, NewAlloc, A, r
<1>9. pc'[p] = "running" /\ phys'[p] = NoPage /\ Mapped(p)' = Mapped(p) /\ "running" \in States
  BY <1>1, <1>3 DEF TypeOK, Mapped, States
<1>10. AllocatingAt(p)'
  BY <1>1, <1>3, <1>9 DEF AllocatingAt, States, Ended
<1> QED BY <1>3, <1>7, <1>8, <1>9, <1>10, ChunkStep DEF S

LEMMA InitDInv == Init => DInv
<1> SUFFICES ASSUME Init PROVE DInv
  OBVIOUS
<1> USE DEF Init
<1>1. TypeOK
  BY PageTypes DEF TypeOK, States
<1>2. Owned
  <2>1. \A p \in Pids : Held(p) = {}
    BY DEF Held, Mapped
  <2> QED BY <2>1 DEF Owned
<1>3. Allocating
  <2> SUFFICES ASSUME NEW p \in Pids PROVE AllocatingAt(p)
    BY DEF Allocating
  <2>1. opened[p] = 0 /\ mounts = 0 /\ pc[p] = "running" /\ phys[p] = NoPage /\ maps[p] = {}
    OBVIOUS
  <2> QED BY <2>1 DEF AllocatingAt, States, Ended
<1>4. ChunksOK /\ AllocsOK
  BY DEF ChunksOK, AllocsOK, ChunksOf, AllocsOf
<1> QED BY <1>1, <1>2, <1>3, <1>4 DEF DInv

\* Every step of every process keeps the invariant.
LEMMA NextDInv ==
  ASSUME LowMemory, DInv, [Next]_vars PROVE DInv'
<1>1. CASE Next
  <2>1. PICK p \in Pids :
          \/ \E r \in Requests : dma_alloc(p, r) \/ TooLarge(p, r)
          \/ Remount(p) \/ Mount(p) \/ Open(p) \/ Map(p) \/ MapFixed(p) \/ Unlink(p)
          \/ allocate_next_chunk(p)
          \/ Fail(p) \/ FailFixed(p) \/ Kill(p) \/ Start(p)
    BY <1>1 DEF Next
  <2>2. CASE \E r \in Requests : dma_alloc(p, r)
    BY <2>2, AllocStep
  <2>3. CASE (\E r \in Requests : TooLarge(p, r)) \/ Fail(p) \/ FailFixed(p) \/ Kill(p)
    <3>1. \E how \in Ended : Die(p, how)
      BY <2>3 DEF TooLarge, Fail, FailFixed, Kill, Ended
    <3> QED BY <3>1, DieStep
  <2>4. CASE Remount(p) \/ Open(p) \/ Start(p)
    BY <2>4, QuietStep
  <2>5. CASE Mount(p)
    BY <2>5, MountStep
  <2>6. CASE Map(p)
    BY <2>6, MapStep
  <2>7. CASE MapFixed(p)
    BY <2>7, MapFixedStep
  <2>8. CASE Unlink(p)
    BY <2>8, UnlinkStep
  <2>9. CASE allocate_next_chunk(p)
    BY <2>9, NextChunkStep
  <2> QED BY <2>1, <2>2, <2>3, <2>4, <2>5, <2>6, <2>7, <2>8, <2>9
<1>2. CASE UNCHANGED vars
  <2> USE <1>2 DEF vars, kernel, locals
  <2>1. TypeOK'
    BY DEF DInv, TypeOK
  <2>2. \A p \in Pids : Mapped(p)' = Mapped(p) /\ Held(p)' = Held(p)
    BY DEF Mapped, Held
  <2>3. Owned'
    BY <2>2 DEF DInv, Owned
  <2>4. Allocating'
    BY <2>2 DEF DInv, Allocating, AllocatingAt
  <2>5. ChunksOK' /\ AllocsOK'
    BY <2>2 DEF DInv, ChunksOK, AllocsOK
  <2> QED BY <2>1, <2>3, <2>4, <2>5 DEF DInv
<1> QED BY <1>1, <1>2

-----------------------------------------------------------------------------
(* What the invariant is for.                                              *)

\* An allocation is in a page that its process maps.
LEMMA InPage ==
  ASSUME DInv, NEW p \in Pids, NEW a \in allocs[p]
  PROVE  /\ a.ptr \in Address /\ a.ptr.lo \in Nat /\ a.bytes \in Nat /\ a.ptr.tag = TAG
         /\ \E m \in maps[p] : /\ m.phys.lo <= a.ptr.lo
                               /\ a.ptr.lo + a.bytes <= m.phys.lo + HUGE_PAGE_SIZE
<1>1. TypeOK /\ ChunksOf(Mapped(p), CHUNKS[p]) /\ AllocsOf(CHUNKS[p], allocs[p])
  BY DEF DInv, ChunksOK, AllocsOK
<1>2. a \in Alloc
  BY <1>1 DEF TypeOK
<1>3. a.ptr \in Address /\ a.ptr.lo \in Nat /\ a.bytes \in Nat
  BY <1>2 DEF Alloc, Address
<1>4. PICK j \in DOMAIN CHUNKS[p] : In(a, CHUNKS[p][j])
  BY <1>1 DEF AllocsOf
<1>5. PICK x \in Mapped(p) : CHUNKS[p][j].pointer = Tagged(x)
  BY <1>1 DEF ChunksOf
<1>6. PICK m \in maps[p] : m.phys = x
  BY DEF Mapped
<1>7. x \in Pages
  BY <1>1, <1>6 DEF TypeOK
<1>8. Tagged(x).lo = x.lo /\ Tagged(x).tag = TAG
  BY <1>7, PageTypes
<1> QED BY <1>3, <1>4, <1>5, <1>6, <1>8 DEF In

LEMMA MapTypes ==
  ASSUME DInv, NEW p \in Pids, NEW m \in maps[p]
  PROVE  /\ m.phys \in Pages /\ m.phys \in Address /\ m.phys.lo \in Nat
         /\ m.virt.lo = m.phys.lo /\ m.virt.tag = TAG
<1>1. m.phys \in Pages /\ m.virt = Tagged(m.phys)
  BY DEF DInv, TypeOK, Owned
<1>2. m.phys \in Address /\ Tagged(m.phys).lo = m.phys.lo /\ Tagged(m.phys).tag = TAG
  BY <1>1, PageTypes
<1>3. m.phys.lo \in Nat
  BY <1>2 DEF Address
<1> QED BY <1>1, <1>2, <1>3

LEMMA ByteTypes ==
  ASSUME DInv, NEW p \in Pids, NEW a \in allocs[p], NEW v \in Bytes(a)
  PROVE  /\ v \in Address /\ v.tag = TAG /\ v.lo \in Nat
         /\ a.ptr.lo <= v.lo /\ v.lo < a.ptr.lo + a.bytes
<1>1. a.ptr \in Address /\ a.ptr.lo \in Nat /\ a.bytes \in Nat /\ a.ptr.tag = TAG
  BY InPage
<1>2. PICK n \in 0 .. a.bytes - 1 : v = At(a.ptr, n)
  BY DEF Bytes
<1>3. n \in Nat /\ n < a.bytes
  BY <1>1, <1>2
<1>4. v \in Address /\ v.tag = TAG /\ v.lo = a.ptr.lo + n
  BY <1>1, <1>2, <1>3, AtAddress
<1> QED BY <1>1, <1>3, <1>4

\* In memory it is where its addresses are, less the tag.
LEMMA WhereBytes ==
  ASSUME DInv, NEW p \in Pids, NEW a \in allocs[p], NEW w \in Where(p, a)
  PROVE  w.lo \in Nat /\ a.ptr.lo <= w.lo /\ w.lo < a.ptr.lo + a.bytes
<1>1. PICK v \in Bytes(a) : \E m \in Mapping(p, v) : w = Physical(m, v)
  BY DEF Where
<1>2. PICK m \in maps[p] : w = At(m.phys, v.lo - m.virt.lo) /\ m.virt.lo <= v.lo
  BY <1>1 DEF Mapping, Physical
<1>3. m.phys \in Address /\ m.phys.lo \in Nat /\ m.virt.lo = m.phys.lo
  BY MapTypes
<1>4. v.lo \in Nat /\ a.ptr.lo <= v.lo /\ v.lo < a.ptr.lo + a.bytes
  BY ByteTypes
<1>5. v.lo - m.virt.lo \in Nat
  BY <1>2, <1>3, <1>4
<1>6. w.lo = m.phys.lo + (v.lo - m.virt.lo)
  BY <1>2, <1>3, <1>5, AtAddress
<1> QED BY <1>3, <1>4, <1>6

\* The inductive invariant holds in every reachable state.
THEOREM DmaInvariant ==
  ASSUME LowMemory PROVE Spec => []DInv
<1>1. Init => DInv
  BY InitDInv
<1>2. DInv /\ [Next]_vars => DInv'
  BY NextDInv
<1> QED BY <1>1, <1>2, PTL DEF Spec

\* On a machine without memory at tagged addresses, what dma_alloc() returned
\* is aligned and shares no memory with another allocation, of the process or
\* of another, whatever processes die and are started again meanwhile.
THEOREM AllocationsDisjoint ==
  ASSUME LowMemory PROVE Spec => []Disjoint
<1>1. DInv => Disjoint
  <2> SUFFICES ASSUME DInv, NEW p \in Pids, NEW q \in Pids, NEW a \in allocs[p], NEW b \in allocs[q]
               PROVE  /\ a.ptr.lo % a.align = 0
                      /\ <<p, a>> # <<q, b>> => Where(p, a) \intersect Where(q, b) = {}
    BY Zenon DEF Disjoint
  <2>1. a.ptr.lo % a.align = 0
    BY Zenon DEF DInv, AllocsOK, AllocsOf
  <2>2. ASSUME <<p, a>> # <<q, b>>, NEW w \in Where(p, a), w \in Where(q, b) PROVE FALSE
    <3>1. w.lo \in Nat /\ a.ptr.lo <= w.lo /\ w.lo < a.ptr.lo + a.bytes
      BY WhereBytes
    <3>2. b.ptr.lo <= w.lo /\ w.lo < b.ptr.lo + b.bytes
      BY <2>2, WhereBytes
    <3>3. a.ptr.lo \in Nat /\ a.bytes \in Nat /\ b.ptr.lo \in Nat /\ b.bytes \in Nat
      BY InPage
    <3>4. CASE p = q
      <4>1. Apart(a, b)
        BY <2>2, <3>4 DEF DInv, AllocsOK, AllocsOf
      <4> QED BY <3>1, <3>2, <3>3, <4>1 DEF Apart
    <3>5. CASE p # q
      <4>1. PICK m \in maps[p] : m.phys.lo <= a.ptr.lo /\ a.ptr.lo + a.bytes <= m.phys.lo + HUGE_PAGE_SIZE
        BY InPage
      <4>2. PICK k \in maps[q] : k.phys.lo <= b.ptr.lo /\ b.ptr.lo + b.bytes <= k.phys.lo + HUGE_PAGE_SIZE
        BY InPage
      <4>3. m.phys \in Pages /\ k.phys \in Pages /\ m.phys.lo \in Nat /\ k.phys.lo \in Nat
        BY MapTypes
      <4>4. m.phys \in Held(p) /\ k.phys \in Held(q)
        BY <4>3, PageTypes DEF Held, Mapped
      <4>5. m.phys # k.phys
        BY <3>5, <4>4 DEF DInv, Owned
      <4>6. m.phys.lo + HUGE_PAGE_SIZE <= k.phys.lo \/ k.phys.lo + HUGE_PAGE_SIZE <= m.phys.lo
        BY <4>3, <4>5, PagesApart
      <4> DEFINE h  == HUGE_PAGE_SIZE
                 ml == m.phys.lo
                 kl == k.phys.lo
                 al == a.ptr.lo
                 am == a.bytes
                 bl == b.ptr.lo
                 bm == b.bytes
                 wl == w.lo
      <4>7. /\ h \in Nat /\ ml \in Nat /\ kl \in Nat /\ al \in Nat /\ am \in Nat /\ bl \in Nat
            /\ bm \in Nat /\ wl \in Nat
            /\ ml + h <= kl \/ kl + h <= ml
            /\ ml <= al /\ al + am <= ml + h /\ kl <= bl /\ bl + bm <= kl + h
            /\ al <= wl /\ wl < al + am /\ bl <= wl /\ wl < bl + bm
        BY <3>1, <3>2, <3>3, <4>1, <4>2, <4>3, <4>6, PageTypes
      <4> HIDE DEF h, ml, kl, al, am, bl, bm, wl
      <4> QED BY <4>7
    <3> QED BY <3>4, <3>5
  <2> QED BY <2>1, <2>2, Zenon
<1> QED BY <1>1, DmaInvariant, PTL

\* There, every byte of an allocation is mapped, and is where virtual_to_physical()
\* says, which is what the device is given.
THEOREM AddressesResolve ==
  ASSUME LowMemory PROVE Spec => []Resolves
<1>1. DInv => Resolves
  <2> SUFFICES ASSUME DInv, NEW p \in Pids, NEW a \in allocs[p], NEW v \in Bytes(a)
               PROVE  /\ TagCheck(v)
                      /\ \E m \in Mapping(p, v) : virtual_to_physical(v) = Physical(m, v)
    BY DEF Resolves
  <2>1. /\ v \in Address /\ v.tag = TAG /\ v.lo \in Nat
        /\ a.ptr.lo <= v.lo /\ v.lo < a.ptr.lo + a.bytes
    BY ByteTypes
  <2>2. PICK m \in maps[p] : m.phys.lo <= a.ptr.lo /\ a.ptr.lo + a.bytes <= m.phys.lo + HUGE_PAGE_SIZE
    BY InPage
  <2>3. /\ m.phys \in Pages /\ m.phys \in Address /\ m.phys.lo \in Nat
        /\ m.virt.lo = m.phys.lo /\ m.virt.tag = TAG
    BY MapTypes
  <2>4. a.ptr.lo \in Nat /\ a.bytes \in Nat /\ HUGE_PAGE_SIZE \in Nat
    BY InPage, PageTypes
  <2>5. m \in Mapping(p, v)
    BY <2>1, <2>2, <2>3, <2>4 DEF Mapping
  <2>6. m.phys.tag = {} /\ v.lo - m.virt.lo \in Nat
    BY <2>1, <2>2, <2>3, <2>4 DEF LowMemory
  <2>7. Physical(m, v) \in Address /\ Physical(m, v).tag = {} /\ Physical(m, v).lo = v.lo
    <3> DEFINE d == v.lo - m.virt.lo
    <3>1. m.phys.lo + d = v.lo
      BY <2>1, <2>3
    <3>2. d \in Nat
      BY <2>6
    <3> HIDE DEF d
    <3>3. At(m.phys, d) \in Address /\ At(m.phys, d).tag = {} /\ At(m.phys, d).lo = v.lo
      BY <2>3, <2>6, <3>1, <3>2, AtAddress
    <3> QED BY <3>3 DEF Physical, d
  <2>8. virtual_to_physical(v) = [tag |-> {}, lo |-> v.lo]
    BY <2>1 DEF virtual_to_physical, Address
  <2>9. Physical(m, v) = [tag |-> {}, lo |-> v.lo]
    BY <2>7 DEF Address
  <2> QED BY <2>1, <2>5, <2>8, <2>9 DEF TagCheck
<1> QED BY <1>1, DmaInvariant, PTL

\* There, a process that uses a huge page has no file left on the hugetlbfs that
\* is mounted, so that the page is free when the process ends.
THEOREM FilesRemoved ==
  ASSUME LowMemory PROVE Spec => []NoStrayFiles
<1>1. DInv => NoStrayFiles
  <2> SUFFICES ASSUME DInv, NEW p \in Pids, pc[p] = "slice" \/ (pc[p] = "running" /\ CHUNKS[p] # <<>>)
               PROVE  files[mounts][p] = NoPage
    BY DEF NoStrayFiles
  <2>1. TypeOK /\ AllocatingAt(p) /\ ChunksOf(Mapped(p), CHUNKS[p])
    BY DEF DInv, Allocating, ChunksOK
  <2>2. Mapped(p) # {}
    <3>1. CASE pc[p] = "slice"
      BY <2>1, <3>1 DEF AllocatingAt
    <3>2. CASE CHUNKS[p] # <<>>
      <4>1. CHUNKS[p] \in Seq(Chunk)
        BY <2>1 DEF TypeOK
      <4>2. 1 \in DOMAIN CHUNKS[p]
        BY <3>2, <4>1
      <4> QED BY <2>1, <4>2 DEF ChunksOf
    <3> QED BY <3>1, <3>2
  <2>3. maps[p] # {}
    BY <2>2 DEF Mapped
  <2> QED BY <2>1, <2>3 DEF AllocatingAt
<1> QED BY <1>1, DmaInvariant, PTL

=============================================================================
