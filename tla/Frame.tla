------------------------------- MODULE Frame --------------------------------
(***************************************************************************)
(* An app that makes up a frame: it writes the header at the beginning of  *)
(* packet.data with Header<Ethernet> (src/ethernet.rs, src/header.rs), and *)
(* then computes the checksum of the packet with ipsum() of                *)
(* src/checksum.rs, block by block, on either architecture.                *)
(***************************************************************************)
EXTENDS Ethernet

CONSTANTS
  MacAddresses, EtherTypes,     \* what the app writes
  Memory,                       \* contents packet.data may have before
  BlockLengths,                 \* lengths of the blocks that are summed
  Initials,                     \* values for `initial' of the first block
  MaxBlocks                     \* bound on the number of blocks

ASSUME FrameAssumption ==
  /\ MacAddresses \subseteq MacAddress /\ EtherTypes \subseteq Word
  /\ \A m \in Memory : m \in Seq(Byte) /\ Len(m) >= size_of    \* from_mem()
  /\ BlockLengths \subseteq Nat /\ Initials \subseteq Word /\ MaxBlocks \in Nat

VARIABLES
  data,       \* packet.data
  boxed,      \* a header on the heap
  ends,       \* where in the packet the blocks summed so far end
  initials,   \* `initial' of each call of ipsum()
  sums        \* architecture -> its result

sumVars == <<ends, initials, sums>>
vars    == <<data, boxed, sumVars>>

Archs == {"x86_64", "aarch64"}

ipsum(arch, bytes, length, init) ==
  IF arch = "x86_64" THEN checksum_x86_64(bytes, length, init)
                     ELSE checksum_aarch64(bytes, length, init)

Boxed(a, b, t) == set_ethertype(set_src(set_dst(new, a), b), t)

Init ==
  /\ data \in Memory
  /\ \E a, b \in MacAddresses, t \in EtherTypes : boxed = Boxed(a, b, t)
  /\ ends = <<>> /\ initials = <<>> /\ sums = [arch \in Archs |-> 0]

\* One call of Header<Ethernet>, with a value of its own or one of `boxed'.
Edit ==
  /\ ends = <<>>
  /\ \/ \E a \in MacAddresses \union {dst(boxed)} : data' = set_dst(data, a)
     \/ \E a \in MacAddresses \union {src(boxed)} : data' = set_src(data, a)
     \/ \E t \in EtherTypes \union {ethertype(boxed)} :
          data' = set_ethertype(data, t)
     \/ data' = swap(data)
     \/ data' = HeaderCopy(boxed, data)
  /\ UNCHANGED <<boxed, sumVars>>

Last   == Len(ends)
End(k) == IF k = 0 THEN 0 ELSE ends[k]

\* The next block: "one needs to pass the one's complement of the checksum of
\* one block as initial value to the call of ipsum() for the following block".
SumBlock(length) ==
  LET at == End(Last)
  IN  /\ Last < MaxBlocks /\ at + length <= Len(data)
      /\ \E v \in IF Last = 0 THEN Initials ELSE {Not16(sums["x86_64"])} :
           /\ initials' = Append(initials, v)
           /\ sums' = [arch \in Archs |->
                ipsum(arch, SubSeq(data, at + 1, Len(data)), length, v)]
      /\ ends' = Append(ends, at + length)
      /\ UNCHANGED <<data, boxed>>

Next == Edit \/ \E n \in BlockLengths : SumBlock(n)

Spec == Init /\ [][Next]_vars

-----------------------------------------------------------------------------
(* Properties.                                                             *)

\* Both assembly routines give the ones' complement checksum of the block, from
\* whatever value they start, and so does checksum_rust(), from zero: no carry
\* is lost, none is counted twice, no byte is left out.
Agrees ==
  Last > 0 =>
    LET block == SubSeq(data, End(Last - 1) + 1, End(Last))
        right == Reference(block, Len(block), initials[Last])
    IN  /\ \A arch \in Archs : sums[arch] = right
        /\ initials[Last] = 0 => checksum_rust(block, Len(block)) = right

\* "To chain the calculation of checksums over multiple blocks of data together"
\* (checksum.rs:50) gives the checksum of all of them, if all but the last have
\* an even length (and so end at an even offset), which the comment does not
\* say.  And "to check whether the checksum over a block of data is equal to a
\* given value" (checksum.rs:40) by passing the value as initial succeeds for
\* the right one and fails for the next.
Chains ==
  Last > 0 /\ (\A k \in 1 .. Last - 1 : ends[k] % 2 = 0) =>
    LET length == End(Last)
    IN  \A arch \in Archs :
          /\ sums[arch] = Reference(data, length, initials[1])
          /\ initials[1] = 0 =>
               /\ ipsum(arch, data, length, sums[arch]) = 0
               /\ ipsum(arch, data, length, (sums[arch] + 1) % W) # 0

\* The frame on the wire: in network byte order.
Fields(h) == [dst |-> [k \in 1 .. 6 |-> h[k]], src |-> [k \in 1 .. 6 |-> h[k + 6]],
              ethertype |-> h[13] * B + h[14]]

Abstract == INSTANCE EthernetHeader WITH
  header <- Fields(data), template <- Fields(boxed),
  payload <- SubSeq(data, size_of + 1, Len(data))

\* The accessors of Header<Ethernet>, which work on raw memory, implement
\* independent fields in network byte order, and leave the payload alone.
ImplementsHeader == Abstract!Spec

\* What ntop() prints of an address, pton() reads as the same address, or it
\* panics: never another one.  It panics if a byte is below 16, because ntop()
\* does not pad and pton() counts characters.
NtopPton ==
  \A a \in {dst(data), src(data), dst(boxed)} :
    /\ CanParse(ntop(a)) <=> \A k \in 1 .. 6 : a[k] >= R
    /\ CanParse(ntop(a)) => pton(ntop(a)) = a

=============================================================================
