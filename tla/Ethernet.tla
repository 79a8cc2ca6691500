------------------------------ MODULE Ethernet ------------------------------
(***************************************************************************)
(* src/ethernet.rs and src/header.rs: an Ethernet header as it lies in     *)
(* memory, 14 bytes in a sequence of bytes that may be longer.  The        *)
(* operations are functions from the bytes before to the bytes after.      *)
(*                                                                         *)
(* Strings are sequences of characters, which are the digits from 0 up and *)
(* Colon.  A byte has two digits at most, so their base is R, with B = R^2 *)
(* (16 and 256 in the code).                                               *)
(***************************************************************************)
EXTENDS Checksum

CONSTANT R     \* base of the digits of a MAC address

ASSUME EthernetAssumption == R \in Nat /\ B = R * R

MacAddress == [1 .. 6 -> Byte]
Smaller(a, b) == IF a < b THEN a ELSE b

\* lib::copy() of at most len bytes to the offset `at' of dst, where `room'
\* bytes may be written.
copy(dst, at, room, src, len) ==
  LET n == Smaller(len, Smaller(Len(src), room))
  IN  [i \in DOMAIN dst |-> IF i - at \in 1 .. n THEN src[i - at] ELSE dst[i]]

\* struct Ethernet
size_of      == 14
dst(h)       == SubSeq(h, 1, 6)
src(h)       == SubSeq(h, 7, 12)
ethertype(h) == ntohs(Load(h, 12, 2))

\* header::new(): T::default()
new == [i \in 1 .. size_of |-> 0]

set_dst(h, address) == copy(h, 0, 6, address, 6)
set_src(h, address) == copy(h, 6, 6, address, 6)

set_ethertype(h, type) ==
  [h EXCEPT ![13] = ntohs(type) % B, ![14] = ntohs(type) \div B]

\* Fault: dst is not saved.
swap_in_place(h) ==
  LET h1 == copy(h, 0, 6, src(h), 6)
  IN  copy(h1, 6, 6, dst(h1), 6)

swap(h) ==
  LET tmp == dst(h)
      h1  == copy(h, 0, 6, src(h), 6)
  IN  copy(h1, 6, 6, tmp, 6)

\* Header<T>.copy() of a header h to memory
HeaderCopy(h, mem) == copy(mem, 0, Len(mem), SubSeq(h, 1, size_of), size_of)

-----------------------------------------------------------------------------
(* MAC addresses as strings.                                               *)

Colon == R

\* format!("{:x}"): no leading zero
Digits(byte) == IF byte < R THEN <<byte>> ELSE <<byte \div R, byte % R>>

ntop(address) ==
  LET string[k \in 1 .. 6] ==
        IF k = 1 THEN Digits(address[1])
        ELSE string[k - 1] \o <<Colon>> \o Digits(address[k])
  IN  string[6]

\* Fault: the positions are off by one character.
Position_wide(k) == 3 * (k - 1) + 1

\* Where byte k of six begins in the string.
Position(k) == 3 * (k - 1)

\* Every slice is in the string and a number, or pton() panics.
CanParse(string) == \A k \in 1 .. 6 :
  /\ Position(k) + 2 <= Len(string)
  /\ \A c \in 1 .. 2 : string[Position(k) + c] # Colon

pton(string) ==
  [k \in 1 .. 6 |-> string[Position(k) + 1] * R + string[Position(k) + 2]]

=============================================================================
