---------------------------- MODULE MCDmaMemory -----------------------------
(* Instances of DmaMemory for TLC: pages of eight bytes.                   *)
EXTENDS DmaMemory

\* Two pages below the tag bits.
LowPages == {[tag |-> {}, lo |-> 8], [tag |-> {}, lo |-> 16]}

\* The second does not fit behind the first, the third is a whole page, and
\* the last is too large.
SomeRequests == {[bytes |-> 3, align |-> 2], [bytes |-> 5, align |-> 4],
                 [bytes |-> 8, align |-> 8], [bytes |-> 9, align |-> 1]}

=============================================================================
