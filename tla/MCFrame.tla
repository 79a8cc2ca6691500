------------------------------ MODULE MCFrame -------------------------------
(* An instance of Frame for TLC: bytes of two bits.                        *)
EXTENDS Frame

\* Two addresses, one with bytes that print as one digit.
TwoAddresses == {<<2, 3, 2, 2, 3, 3>>, <<3, 1, 2, 0, 2, 1>>}

\* 70 bytes: all ones, which carries most, all zeros, and two mixtures.
Memories ==
  {[i \in 1 .. 70 |-> v] : v \in {0, B - 1}} \union
  {[i \in 1 .. 70 |-> (i * i * 7 + s * i + 3) % B] : s \in {0, 1}}

=============================================================================
