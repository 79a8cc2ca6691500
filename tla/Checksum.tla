------------------------------ MODULE Checksum ------------------------------
(***************************************************************************)
(* src/checksum.rs: the IP checksum, in Rust and in the assembly of both   *)
(* architectures, and the reference they have to agree with.               *)
(*                                                                         *)
(* Nothing in it depends on how many values a byte has, so that is a       *)
(* parameter: with B values a word of 16 bits has B^2, a register of 64    *)
(* bits B^8, and registers wrap around there.                              *)
(*                                                                         *)
(* Data is a sequence of bytes; offsets into it are from 0.                *)
(***************************************************************************)
EXTENDS Integers, Sequences

CONSTANT B     \* values of a byte (256)

ASSUME ChecksumAssumption == B \in Nat \ {0, 1}

W    == B * B     \* 2^16
D    == W * W     \* 2^32
Q    == D * D     \* 2^64
Byte == 0 .. B - 1
Word == 0 .. W - 1

\* lib::ntohs(), xchg and rev16: the bytes of a word change places.
ntohs(w) == (w % B) * B + (w \div B)

\* !w of a word
Not16(w) == W - 1 - w

\* The little endian number in the n bytes at an offset.
Load(data, at, n) ==
  LET load[k \in 0 .. n] ==
        IF k = n THEN 0 ELSE data[at + k + 1] + B * load[k + 1]
  IN  load[0]

-----------------------------------------------------------------------------
(* The reference: RFC 1071.  Sum the big endian words, the last one padded *)
(* with a zero, and add the carries until there are none: that is to       *)
(* reduce modulo W - 1, where only zero itself gives zero.                 *)

Sum(data, length, initial) ==
  LET sum[k \in 0 .. length] ==
        IF k = 0 THEN initial
        ELSE sum[k - 1] + data[k] * (IF k % 2 = 1 THEN B ELSE 1)
  IN  sum[length]

OnesComplement(s) == IF s = 0 THEN 0 ELSE 1 + ((s - 1) % (W - 1))

Reference(data, length, initial) ==
  Not16(OnesComplement(Sum(data, length, initial)))

-----------------------------------------------------------------------------
(* checksum_rust(), whose sum cannot overflow 64 bits.                     *)

\* The loop that folds the carries in.
Fold(csum) ==
  LET fold[c \in 0 .. csum] == IF c \div W = 0 THEN c ELSE fold[(c % W) + (c \div W)]
  IN  fold[csum]

checksum_rust(data, length) ==
  LET csum[i \in 0 .. length] ==
        CASE i > 1 -> Load(data, length - i, 2) + csum[i - 2]
          [] i = 1 -> data[length]
          [] i = 0 -> 0
  IN  ntohs(Not16(Fold(csum[length])))

-----------------------------------------------------------------------------
(* The assembly: additions with carry.                                     *)

\* adc of two registers with `limit' values.
Adc(x, y, carry, limit) ==
  [acc |-> (x + y + carry) % limit, carry |-> (x + y + carry) \div limit]

\* The same for each of a sequence of words in turn.
AdcAll(acc, carry, words) ==
  LET sum[k \in 0 .. Len(words)] ==
        IF k = 0 THEN [acc |-> acc, carry |-> carry]
        ELSE Adc(sum[k - 1].acc, words[k], sum[k - 1].carry, Q)
  IN  sum[Len(words)]

\* What is loaded for a block of n bytes: as many qwords as fit, or one word.
Loads(data, at, n) ==
  IF n >= 8 THEN [k \in 1 .. n \div 8 |-> Load(data, at + 8 * (k - 1), 8)]
            ELSE <<Load(data, at, n)>>

\* The next block when so many bytes are left: 32 as often as they fit, then
\* 16, 8, 4, 2 and 1 if they do.
Block(left) ==
  LET fits == {n \in {32, 16, 8, 4, 2, 1} : n <= left}
  IN  CHOOSE n \in fits : \A m \in fits : m <= n

\* Fault: the carry out of a block is lost.
AddBlock_no_carry(acc, words) == AdcAll(acc, 0, words).acc

\* add, adc ..., and adc 0
AddBlock(acc, words) ==
  LET sum == AdcAll(acc, 0, words)
  IN  Adc(sum.acc, 0, sum.carry, Q).acc

\* 64 bits to 32, and 32 to 16, each with the carry.
FoldX86(acc) ==
  LET sum32 == Adc(acc % D, acc \div D, 0, D)
      acc32 == Adc(sum32.acc, 0, sum32.carry, D).acc
      sum16 == Adc(acc32 % W, acc32 \div W, 0, W)
  IN  Adc(sum16.acc, 0, sum16.carry, W).acc

\* Fault: initial is taken in network byte order.
Start_network(initial) == initial

\* The value of the accumulator to start from.
Start(initial) == ntohs(initial)

\* x86_64: the carry is added at the end of each block.
BlockX86(data, length, last) ==
  LET n == Block(length - last.ptr)
  IN  [acc |-> AddBlock(last.acc, Loads(data, last.ptr, n)), ptr |-> last.ptr + n]

checksum_x86_64(data, length, initial) ==
  LET run[k \in 0 .. length] ==      \* after k blocks, or all of them
        IF k = 0 THEN [acc |-> Start(initial), ptr |-> 0]
        ELSE LET last == run[k - 1]
             IN  IF last.ptr = length THEN last ELSE BlockX86(data, length, last)
  IN  ntohs(Not16(FoldX86(run[length].acc)))

\* The carry still pending goes into the 32 bit sum.
FoldAarch64(acc, carry) ==
  LET sum32 == Adc(acc % D, acc \div D, carry, D)
      acc32 == Adc(sum32.acc, 0, sum32.carry, D).acc
      once  == (acc32 % W) + (acc32 \div W)
  IN  (once + (once \div W)) % W

\* aarch64: the carry is added at the end of each 32 bytes, cleared before the
\* block of 16, and from there on kept for the next addition.
BlockAarch64(data, length, last) ==
  LET n     == Block(length - last.ptr)
      words == Loads(data, last.ptr, n)
      sum   == AdcAll(last.acc, last.carry, words)
  IN  IF n = 32
      THEN [acc |-> AddBlock(last.acc, words), carry |-> 0, ptr |-> last.ptr + n]
      ELSE [acc |-> sum.acc, carry |-> sum.carry, ptr |-> last.ptr + n]

checksum_aarch64(data, length, initial) ==
  LET run[k \in 0 .. length] ==
        IF k = 0 THEN [acc |-> Start(initial), carry |-> 0, ptr |-> 0]
        ELSE LET last == run[k - 1]
             IN  IF last.ptr = length THEN last ELSE BlockAarch64(data, length, last)
  IN  ntohs(Not16(FoldAarch64(run[length].acc, run[length].carry)))

=============================================================================
