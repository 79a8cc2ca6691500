---------------------------- MODULE FrameProofs -----------------------------
(***************************************************************************)
(* Proofs about Frame, for bytes of every size, data of every length and   *)
(* every block structure: the assembly routines and checksum_rust()        *)
(* compute the RFC 1071 checksum, checksums can be chained, the accessors  *)
(* of Header<Ethernet> implement independent fields, and pton() never      *)
(* reads what ntop() printed as another address.                           *)
(*                                                                         *)
(* The operators are recursive functions.  Induction over the naturals is  *)
(* got from the least element of a set of counterexamples.                 *)
(***************************************************************************)
EXTENDS Frame, WellFoundedInduction, TLAPS

-----------------------------------------------------------------------------
(* Induction, and functions defined by recursion.                          *)

\* A set of naturals that is not empty has a least element.
LEMMA LeastElement ==
  ASSUME NEW T, T \subseteq Nat, T # {}
  PROVE  \E x \in T : \A y \in T : x <= y
<1> DEFINE L == OpToRel(<, Nat)
<1>1. IsWellFoundedOn(L, Nat)
  BY NatLessThanWellFounded
<1>2. \A x, y \in Nat : y < x => <<y, x>> \in L
  BY DEF OpToRel
<1> HIDE DEF L
<1>3. PICK x \in T : \A y \in T : ~ (<<y, x>> \in L)
  BY <1>1, WFMin
<1>4. ASSUME NEW y \in T PROVE x <= y
  <2>1. x \in Nat /\ y \in Nat
    OBVIOUS
  <2>2. ~(y < x)
    BY <1>2, <1>3, <2>1, Zenon
  <2> QED BY <2>1, <2>2
<1> QED BY <1>4

\* Induction up to a bound.
LEMMA Induction ==
  ASSUME NEW n \in Nat, NEW T, 0 \in T, \A k \in 1 .. n : k - 1 \in T => k \in T
  PROVE  0 .. n \subseteq T
<1> SUFFICES ASSUME (0 .. n) \ T # {} PROVE FALSE
  OBVIOUS
<1>1. PICK x \in (0 .. n) \ T : \A y \in (0 .. n) \ T : x <= y
  <2>1. (0 .. n) \ T \subseteq Nat
    OBVIOUS
  <2> QED BY <2>1, LeastElement
<1>2. x \in 1 .. n /\ x - 1 \in 0 .. n /\ ~(x <= x - 1)
  BY <1>1
<1> QED BY <1>1, <1>2

\* Step k takes a member of S[k - 1] to one of S[k].
Steps(n, S, b, h) ==
  b \in S[0] /\ \A k \in 1 .. n : \A s \in S[k - 1] : h[k][s] \in S[k]

\* f is what n steps from b give.
IsRun(f, n, S, b, h) ==
  /\ f = [k \in 0 .. n |-> f[k]] /\ f[0] = b
  /\ \A k \in 1 .. n : f[k] = h[k][f[k - 1]]
  /\ \A k \in 0 .. n : f[k] \in S[k]

\* A function defined by recursion exists.
LEMMA Recursion ==
  ASSUME NEW n \in Nat, NEW S, NEW b, NEW h, Steps(n, S, b, h)
  PROVE  \E f : IsRun(f, n, S, b, h)
<1> USE DEF Steps
<1> DEFINE P(m, f) == /\ f = [k \in 0 .. m |-> IF k = 0 THEN b ELSE h[k][f[k - 1]]]
                      /\ \A k \in 0 .. m : f[k] \in S[k]
           T == {m \in 0 .. n : \E f : P(m, f)}
<1>1. 0 \in T
  <2> DEFINE g == [k \in 0 .. 0 |-> b]
  <2>1. P(0, g)
    OBVIOUS
  <2> HIDE DEF g
  <2> QED BY <2>1
<1>2. ASSUME NEW m \in 1 .. n, m - 1 \in T PROVE m \in T
  <2>1. PICK f : P(m - 1, f)
    BY <1>2
  <2> DEFINE g == [k \in 0 .. m |-> IF k = m THEN h[m][f[m - 1]] ELSE f[k]]
  <2>2. f[m - 1] \in S[m - 1]
    BY <2>1
  <2>3. ASSUME NEW k \in 0 .. m PROVE g[k] \in S[k]
    <3>1. CASE k = m
      BY <2>2, <3>1
    <3>2. CASE k # m
      BY <2>1, <3>2
    <3> QED BY <3>1, <3>2
  <2>4. ASSUME NEW k \in 0 .. m PROVE g[k] = IF k = 0 THEN b ELSE h[k][g[k - 1]]
    <3>1. CASE k = m
      BY <3>1
    <3>2. CASE k # m
      <4>1. f[k] = IF k = 0 THEN b ELSE h[k][f[k - 1]]
        BY <2>1, <3>2
      <4> QED BY <3>2, <4>1
    <3> QED BY <3>1, <3>2
  <2>5. g = [k \in 0 .. m |-> IF k = 0 THEN b ELSE h[k][g[k - 1]]]
    <3>1. g = [k \in 0 .. m |-> g[k]]
      OBVIOUS
    <3> HIDE DEF g
    <3> QED BY <2>4, <3>1
  <2> HIDE DEF g
  <2>6. P(m, g)
    BY <2>3, <2>5
  <2> QED BY <2>6
<1> HIDE DEF T
<1>3. 0 .. n \subseteq T
  BY <1>1, <1>2, Induction
<1>4. PICK f : P(n, f)
  BY <1>3 DEF T
<1>5. f[0] = b /\ \A k \in 1 .. n : f[k] = h[k][f[k - 1]]
  BY <1>4
<1>6. f = [k \in 0 .. n |-> f[k]]
  BY <1>4
<1> QED BY <1>4, <1>5, <1>6 DEF IsRun

\* And any function with the same steps takes them in the same sets.
LEMMA RecursionIn ==
  ASSUME NEW n \in Nat, NEW S, NEW b, NEW h, Steps(n, S, b, h), NEW g, g[0] = b,
         \A k \in 1 .. n : g[k - 1] \in S[k - 1] => g[k] = h[k][g[k - 1]]
  PROVE  \A k \in 0 .. n : g[k] \in S[k]
<1> DEFINE T == {k \in 0 .. n : g[k] \in S[k]}
<1>1. 0 \in T
  BY DEF Steps
<1>2. ASSUME NEW k \in 1 .. n, k - 1 \in T PROVE k \in T
  BY <1>2 DEF Steps
<1> HIDE DEF T
<1>3. 0 .. n \subseteq T
  BY <1>1, <1>2, Induction
<1> QED BY <1>3 DEF T

-----------------------------------------------------------------------------
(* Arithmetic: quotients and remainders, and what a sum in ones' complement *)
(* preserves.                                                              *)

\* Division with remainder.
LEMMA DivMod ==
  ASSUME NEW x \in Nat, NEW m \in Nat \ {0}
  PROVE  /\ x \div m \in Nat /\ x % m \in 0 .. m - 1
         /\ x = m * (x \div m) + (x % m)
OBVIOUS

\* A product that is at least one of its factors.
LEMMA Multiple ==
  ASSUME NEW m \in Nat, NEW k \in Int, k >= 1
  PROVE  m * k >= m
<1>1. m * k = m + m * (k - 1) /\ m * (k - 1) >= 0
  OBVIOUS
<1> QED BY <1>1

\* Quotient and remainder are the only ones.
LEMMA DivModUnique ==
  ASSUME NEW m \in Nat \ {0}, NEW q \in Nat, NEW r \in 0 .. m - 1
  PROVE  (m * q + r) \div m = q /\ (m * q + r) % m = r
<1> DEFINE x == m * q + r
           p == x \div m
           s == x % m
<1>1. x \in Nat
  OBVIOUS
<1>2. p \in Nat /\ s \in 0 .. m - 1 /\ x = m * p + s
  BY <1>1, DivMod
<1>3. m * q + r = m * p + s
  BY <1>2
<1> HIDE DEF x, p, s
<1>4. m * (p - q) = r - s /\ m * (q - p) = s - r
  BY <1>2, <1>3
<1>5. p - q < 1
  <2>1. p - q >= 1 => m * (p - q) >= m
    BY <1>2, Multiple
  <2> QED BY <1>2, <1>4, <2>1
<1>6. q - p < 1
  <2>1. q - p >= 1 => m * (q - p) >= m
    BY <1>2, Multiple
  <2> QED BY <1>2, <1>4, <2>1
<1>7. p = q
  BY <1>2, <1>5, <1>6
<1>8. s = r
  BY <1>2, <1>3, <1>7
<1> QED BY <1>7, <1>8 DEF x, p, s

\* A number below the modulus is its own remainder.
LEMMA SmallMod ==
  ASSUME NEW m \in Nat \ {0}, NEW r \in 0 .. m - 1 PROVE r % m = r
<1>1. m * 0 + r = r
  OBVIOUS
<1>2. (m * 0 + r) % m = r
  BY DivModUnique
<1> QED BY <1>1, <1>2

\* The values a byte, a word, a double word and a register have.
LEMMA Sizes ==
  /\ B \in Nat /\ B >= 2
  /\ W \in Nat /\ W >= 4 /\ W >= B /\ W = B * B
  /\ D \in Nat /\ D >= W /\ D = W * W
  /\ Q \in Nat /\ Q >= D /\ Q = D * D
<1>1. B \in Nat /\ B >= 2
  BY ChecksumAssumption
<1>2. W \in Nat /\ W >= 2 * B
  BY <1>1 DEF W
<1>3. D \in Nat /\ D >= W
  BY <1>2, Multiple DEF D
<1>4. Q \in Nat /\ Q >= D
  BY <1>1, <1>2, <1>3, Multiple DEF Q
<1> QED BY <1>1, <1>2, <1>3, <1>4 DEF W, D, Q

\* Two sums that are the same in ones' complement: congruent modulo W - 1, and
\* only zero is the same as zero.
Same(x, y) == /\ x = 0 <=> y = 0
              /\ \E k \in Int : x = y + k * (W - 1)

\* It is an equivalence: reflexive,
LEMMA SameRefl ==
  ASSUME NEW x \in Nat PROVE Same(x, x)
<1>1. x = x + 0 * (W - 1)
  BY Sizes
<1> QED BY <1>1 DEF Same

\* symmetric,
LEMMA SameSym ==
  ASSUME NEW x \in Nat, NEW y \in Nat, Same(x, y) PROVE Same(y, x)
<1>1. PICK k \in Int : x = y + k * (W - 1)
  BY DEF Same
<1>2. W - 1 \in Int
  BY Sizes
<1>3. y = x + (-k) * (W - 1) /\ -k \in Int
  BY <1>1, <1>2
<1> QED BY <1>3 DEF Same

\* and transitive.
LEMMA SameTrans ==
  ASSUME NEW x \in Nat, NEW y \in Nat, NEW z \in Nat, Same(x, y), Same(y, z)
  PROVE  Same(x, z)
<1>1. PICK k \in Int : x = y + k * (W - 1)
  BY DEF Same
<1>2. PICK j \in Int : y = z + j * (W - 1)
  BY DEF Same
<1>3. W - 1 \in Int
  BY Sizes
<1>4. x = z + (j + k) * (W - 1) /\ j + k \in Int
  BY <1>1, <1>2, <1>3
<1> QED BY <1>4 DEF Same

\* Addition preserves it,
LEMMA SameAdd ==
  ASSUME NEW a \in Nat, NEW b \in Nat, NEW c \in Nat, NEW d \in Nat,
         Same(a, b), Same(c, d)
  PROVE  Same(a + c, b + d)
<1>1. PICK k \in Int : a = b + k * (W - 1)
  BY DEF Same
<1>2. PICK j \in Int : c = d + j * (W - 1)
  BY DEF Same
<1>3. W - 1 \in Int
  BY Sizes
<1>4. a + c = (b + d) + (k + j) * (W - 1) /\ k + j \in Int
  BY <1>1, <1>2, <1>3
<1>5. a + c = 0 <=> b + d = 0
  BY DEF Same
<1> QED BY <1>4, <1>5 DEF Same

\* and so does multiplication.
LEMMA SameTimes ==
  ASSUME NEW a \in Nat, NEW b \in Nat, NEW c \in Nat, c > 0, Same(a, b)
  PROVE  Same(c * a, c * b)
<1>1. PICK k \in Int : a = b + k * (W - 1)
  BY DEF Same
<1>2. W - 1 \in Int
  BY Sizes
<1>3. c * a = c * b + (c * k) * (W - 1) /\ c * k \in Int
  BY <1>1, <1>2
<1>4. c * a = 0 <=> c * b = 0
  BY DEF Same
<1> QED BY <1>3, <1>4 DEF Same

\* A carry out of a word counts as one,
LEMMA SameWord ==
  ASSUME NEW a \in Nat PROVE Same(W * a, a)
<1>1. W * a = a + a * (W - 1)
  BY Sizes
<1>2. W * a = 0 <=> a = 0
  BY Sizes
<1> QED BY <1>1, <1>2 DEF Same

\* so does one out of a double word,
LEMMA SameDouble ==
  ASSUME NEW a \in Nat PROVE Same(D * a, a)
<1>1. Same(W * (W * a), W * a) /\ Same(W * a, a)
  BY Sizes, SameWord
<1>2. W * (W * a) = D * a /\ W * a \in Nat /\ D * a \in Nat
  BY Sizes
<1> QED BY <1>1, <1>2, SameTrans

\* and one out of a register.
LEMMA SameQuad ==
  ASSUME NEW a \in Nat PROVE Same(Q * a, a)
<1>1. Same(D * (D * a), D * a) /\ Same(D * a, a)
  BY Sizes, SameDouble
<1>2. D * (D * a) = Q * a /\ D * a \in Nat /\ Q * a \in Nat
  BY Sizes
<1> QED BY <1>1, <1>2, SameTrans

\* Two words that are the same are equal.
LEMMA SameUnique ==
  ASSUME NEW a \in Word, NEW b \in Word, Same(a, b)
  PROVE  a = b
<1>1. PICK k \in Int : a = b + k * (W - 1)
  BY DEF Same
<1>2. /\ a \in Nat /\ b \in Nat /\ a <= W - 1 /\ b <= W - 1
      /\ W - 1 \in Nat /\ W - 1 >= 3
  BY Sizes DEF Word
<1>3. k < 2 /\ -k < 2
  <2>1. k >= 2 => (W - 1) * (k - 1) >= W - 1
    BY <1>2, Multiple
  <2>2. -k >= 2 => (W - 1) * (-k - 1) >= W - 1
    BY <1>2, Multiple
  <2>3. (W - 1) * (k - 1) = a - b - (W - 1) /\ (W - 1) * (-k - 1) = b - a - (W - 1)
    BY <1>1, <1>2
  <2> QED BY <1>2, <2>1, <2>2, <2>3
<1>4. CASE k = 0
  BY <1>1, <1>2, <1>4
<1>5. CASE k = 1
  <2>1. a = b + (W - 1)
    BY <1>1, <1>2, <1>5
  <2> QED BY <1>2, <2>1 DEF Same
<1>6. CASE k = -1
  <2>1. b = a + (W - 1)
    BY <1>1, <1>2, <1>6
  <2> QED BY <1>2, <2>1 DEF Same
<1> QED BY <1>3, <1>4, <1>5, <1>6

\* OnesComplement() picks that word.
LEMMA SameOnesComplement ==
  ASSUME NEW s \in Nat
  PROVE  OnesComplement(s) \in Word /\ Same(s, OnesComplement(s))
<1>1. CASE s = 0
  BY <1>1, Sizes, SameRefl DEF OnesComplement, Word
<1>2. CASE s # 0
  <2> DEFINE q == (s - 1) \div (W - 1)
             r == (s - 1) % (W - 1)
  <2>1. s - 1 \in Nat /\ W - 1 \in Nat \ {0}
    BY <1>2, Sizes
  <2>2. q \in Nat /\ r \in 0 .. (W - 1) - 1 /\ s - 1 = (W - 1) * q + r
    BY <2>1, DivMod
  <2>3. OnesComplement(s) = 1 + r
    BY <1>2 DEF OnesComplement
  <2> HIDE DEF q, r
  <2>4. s = (1 + r) + q * (W - 1) /\ q \in Int
    <3>1. (W - 1) * q = q * (W - 1) /\ q * (W - 1) \in Nat /\ r \in Nat
      BY <2>1, <2>2
    <3>2. s - 1 = q * (W - 1) + r
      BY <2>2, <3>1
    <3> QED BY <2>2, <3>1, <3>2
  <2>5. 1 + r \in Word /\ 1 + r # 0
    BY <2>1, <2>2 DEF Word
  <2> QED BY <1>2, <2>3, <2>4, <2>5 DEF Same
<1> QED BY <1>1, <1>2

\* So the word that is the same as a sum is its ones' complement sum.
LEMMA OnesComplementUnique ==
  ASSUME NEW s \in Nat, NEW w \in Word, Same(w, s)
  PROVE  OnesComplement(s) = w
<1>1. OnesComplement(s) \in Word /\ Same(s, OnesComplement(s))
  BY SameOnesComplement
<1>2. w \in Nat /\ OnesComplement(s) \in Nat
  BY <1>1, Sizes DEF Word
<1>3. Same(w, OnesComplement(s))
  BY <1>1, <1>2, SameTrans
<1> QED BY <1>1, <1>3, SameUnique

-----------------------------------------------------------------------------
(* Words and their bytes.                                                  *)

\* A word made of two bytes.
LEMMA WordOfBytes ==
  ASSUME NEW hi \in Byte, NEW lo \in Byte
  PROVE  /\ B * hi + lo \in Word
         /\ (B * hi + lo) % B = lo /\ (B * hi + lo) \div B = hi
         /\ ntohs(B * hi + lo) = B * lo + hi
<1>1. hi \in 0 .. B - 1 /\ lo \in 0 .. B - 1 /\ B \in Nat \ {0}
  BY Sizes DEF Byte
<1>2. (B * hi + lo) % B = lo /\ (B * hi + lo) \div B = hi
  BY <1>1, DivModUnique
<1>3. B * hi + lo \in Word
  <2>1. B * (B - 1 - hi) >= 0 /\ B * (B - 1 - hi) = W - B - B * hi
    BY <1>1, Sizes
  <2> QED BY <1>1, <2>1, Sizes DEF Word
<1> QED BY <1>1, <1>2, <1>3 DEF ntohs

\* A word has two bytes.
LEMMA BytesOfWord ==
  ASSUME NEW w \in Word
  PROVE  w \div B \in Byte /\ w % B \in Byte /\ w = B * (w \div B) + (w % B)
<1>1. w \in Nat /\ w <= W - 1 /\ B \in Nat \ {0}
  BY Sizes DEF Word
<1>2. w \div B \in Nat /\ w % B \in 0 .. B - 1 /\ w = B * (w \div B) + (w % B)
  BY <1>1, DivMod
<1>3. w \div B < B
  <2> DEFINE q == w \div B
  <2>1. q >= B => B * (q - B + 1) >= B
    BY <1>1, <1>2, Multiple
  <2>2. B * (q - B + 1) = B * q - W + B
    BY <1>1, <1>2, Sizes
  <2> HIDE DEF q
  <2>3. q \in Nat /\ B * q \in Nat /\ w = B * q + (w % B)
    BY <1>1, <1>2 DEF q
  <2>4. B * q <= W - 1
    BY <1>1, <1>2, <2>3, Sizes
  <2>5. q < B
    BY <1>1, <2>1, <2>2, <2>3, <2>4, Sizes
  <2> QED BY <2>5 DEF q
<1> QED BY <1>1, <1>2, <1>3 DEF Byte

\* Bytes that change places twice are where they were; and complement may be
\* taken before or after.
LEMMA Ntohs ==
  ASSUME NEW w \in Word
  PROVE  /\ ntohs(w) \in Word /\ ntohs(ntohs(w)) = w
         /\ Not16(w) \in Word /\ ntohs(Not16(w)) = Not16(ntohs(w))
<1>1. PICK hi \in Byte, lo \in Byte : w = B * hi + lo
  BY BytesOfWord
<1>2. ntohs(w) = B * lo + hi /\ ntohs(w) \in Word /\ ntohs(ntohs(w)) = w
  BY <1>1, WordOfBytes
<1> DEFINE nhi == B - 1 - hi
           nlo == B - 1 - lo
<1>3. nhi \in Byte /\ nlo \in Byte
  BY Sizes DEF Byte
<1>4. hi \in Nat /\ lo \in Nat
  BY Sizes DEF Byte
<1>5. Not16(w) = B * nhi + nlo /\ Not16(ntohs(w)) = B * nlo + nhi
  <2>1. B * nhi = W - B - B * hi /\ B * nlo = W - B - B * lo
    BY <1>4, Sizes
  <2> QED BY <1>1, <1>2, <1>4, <2>1, Sizes DEF Not16
<1> HIDE DEF nhi, nlo
<1>6. Not16(w) \in Word /\ ntohs(Not16(w)) = B * nlo + nhi
  BY <1>3, <1>5, WordOfBytes
<1> QED BY <1>2, <1>5, <1>6

\* To change the places of the bytes is to multiply by B.
LEMMA SameNtohs ==
  ASSUME NEW w \in Word PROVE Same(ntohs(w), B * w)
<1>1. PICK hi \in Byte, lo \in Byte : w = B * hi + lo
  BY BytesOfWord
<1>2. hi \in Nat /\ lo \in Nat /\ B \in Nat
  BY Sizes DEF Byte
<1>3. ntohs(w) = hi + B * lo
  BY <1>1, <1>2, WordOfBytes
<1>4. B * w = W * hi + B * lo
  BY <1>1, <1>2, Sizes
<1>5. Same(W * hi, hi) /\ Same(B * lo, B * lo) /\ W * hi \in Nat /\ B * lo \in Nat
  BY <1>2, SameWord, SameRefl, Sizes
<1>6. Same(hi, W * hi)
  BY <1>2, <1>5, SameSym
<1> QED BY <1>2, <1>3, <1>4, <1>5, <1>6, SameAdd

\* What the routines end with: a word that is a sum in host byte order becomes
\* the checksum in network byte order.
LEMMA Finish ==
  ASSUME NEW w \in Word, NEW s \in Nat, Same(B * w, s)
  PROVE  ntohs(Not16(w)) = Not16(OnesComplement(s))
<1>1. ntohs(w) \in Word /\ ntohs(Not16(w)) = Not16(ntohs(w))
  BY Ntohs
<1>2. w \in Nat /\ ntohs(w) \in Nat /\ B * w \in Nat
  BY <1>1, Sizes DEF Word
<1>3. Same(ntohs(w), s)
  BY <1>2, SameNtohs, SameTrans
<1>4. OnesComplement(s) = ntohs(w)
  BY <1>1, <1>3, OnesComplementUnique
<1> QED BY <1>1, <1>4

-----------------------------------------------------------------------------
(* The reference sum.                                                      *)

\* What byte k of the data counts.
Weight(k) == IF k % 2 = 1 THEN B ELSE 1

\* f is the function of the partial sums.
IsSum(f, bytes, n, v) ==
  f = [k \in 0 .. n |-> IF k = 0 THEN v ELSE f[k - 1] + bytes[k] * Weight(k)]

\* What a byte adds to the sum is a number.
LEMMA ByteTimesWeight ==
  ASSUME NEW bytes \in Seq(Byte), NEW k \in 1 .. Len(bytes)
  PROVE  bytes[k] \in Nat /\ bytes[k] * Weight(k) \in Nat
<1>1. bytes[k] \in Nat
  BY Sizes DEF Byte
<1>2. Weight(k) \in Nat
  BY Sizes DEF Weight
<1> QED BY <1>1, <1>2

\* The function of Sum() exists, and its values are numbers.
LEMMA SumExists ==
  ASSUME NEW bytes \in Seq(Byte), NEW n \in 0 .. Len(bytes), NEW v \in Nat
  PROVE  \E f : /\ IsSum(f, bytes, n, v) /\ f[n] = Sum(bytes, n, v)
                /\ \A k \in 0 .. n : f[k] \in Nat
<1> DEFINE Set == [k \in 0 .. n |-> Nat]
           step == [k \in 1 .. n |-> [s \in Nat |-> s + bytes[k] * Weight(k)]]
<1>1. n \in Nat /\ v \in Set[0]
  OBVIOUS
<1>2. ASSUME NEW k \in 1 .. n, NEW s \in Set[k - 1] PROVE step[k][s] \in Set[k]
  <2>1. k - 1 \in 0 .. n /\ k \in 0 .. n /\ k \in 1 .. Len(bytes)
    OBVIOUS
  <2>2. s \in Nat
    BY <2>1
  <2> QED BY <2>1, <2>2, ByteTimesWeight
<1>3. PICK f : IsRun(f, n, Set, v, step)
  <2> HIDE DEF Set, step
  <2>1. Steps(n, Set, v, step)
    BY <1>1, <1>2 DEF Steps
  <2> QED BY <1>1, <2>1, Recursion, Zenon
<1>4. \A k \in 0 .. n : f[k] \in Nat
  BY <1>3 DEF IsRun
<1>5. ASSUME NEW k \in 0 .. n
      PROVE  f[k] = IF k = 0 THEN v ELSE f[k - 1] + bytes[k] * Weight(k)
  <2>1. CASE k = 0
    BY <1>3, <2>1 DEF IsRun
  <2>2. CASE k # 0
    <3>1. k \in 1 .. n /\ k - 1 \in 0 .. n
      BY <2>2
    <3> QED BY <1>3, <1>4, <2>2, <3>1 DEF IsRun
  <2> QED BY <2>1, <2>2
<1>6. IsSum(f, bytes, n, v)
  <2>1. f = [k \in 0 .. n |-> f[k]]
    BY <1>3 DEF IsRun
  <2> QED BY <1>5, <2>1 DEF IsSum
<1> DEFINE sum[k \in 0 .. n] ==
             IF k = 0 THEN v
             ELSE sum[k - 1] + bytes[k] * (IF k % 2 = 1 THEN B ELSE 1)
<1>7. sum = CHOOSE g : IsSum(g, bytes, n, v)
  BY DEF sum, IsSum, Weight
<1>8. IsSum(sum, bytes, n, v)
  <2> HIDE DEF sum
  <2> QED BY <1>6, <1>7, Zenon
<1>9. sum[n] = Sum(bytes, n, v)
  BY DEF Sum
<1> HIDE DEF sum
<1>10. ASSUME NEW k \in 0 .. n PROVE sum[k] \in Nat
  <2> DEFINE T == {j \in 0 .. n : sum[j] \in Nat}
  <2>1. 0 \in T
    BY <1>8 DEF IsSum
  <2>2. ASSUME NEW j \in 1 .. n, j - 1 \in T PROVE j \in T
    <3>1. j \in 1 .. Len(bytes) /\ j \in 0 .. n
      OBVIOUS
    <3>2. sum[j] = sum[j - 1] + bytes[j] * Weight(j)
      BY <1>8, <3>1 DEF IsSum
    <3> QED BY <2>2, <3>1, <3>2, ByteTimesWeight
  <2> HIDE DEF T
  <2>3. k \in T
    BY <1>1, <2>1, <2>2, Induction
  <2> QED BY <2>3 DEF T
<1> QED BY <1>8, <1>9, <1>10

\* Partial sums depend only on the bytes they are of.
LEMMA SumPrefix ==
  ASSUME NEW a, NEW b, NEW m \in Nat, NEW n \in Nat, NEW v, NEW f, NEW g, m <= n,
         \A k \in 1 .. m : a[k] = b[k], IsSum(f, a, m, v), IsSum(g, b, n, v)
  PROVE  \A k \in 0 .. m : f[k] = g[k]
<1> DEFINE T == {k \in 0 .. m : f[k] = g[k]}
<1>1. 0 \in T
  BY DEF IsSum
<1>2. ASSUME NEW k \in 1 .. m, k - 1 \in T PROVE k \in T
  <2>1. f[k] = f[k - 1] + a[k] * Weight(k)
    BY DEF IsSum
  <2>2. g[k] = g[k - 1] + b[k] * Weight(k)
    BY DEF IsSum
  <2> QED BY <1>2, <2>1, <2>2
<1> HIDE DEF T
<1>3. 0 .. m \subseteq T
  BY <1>1, <1>2, Induction
<1> QED BY <1>3 DEF T

\* The sum of no bytes, and of one more.
LEMMA SumStep ==
  ASSUME NEW bytes \in Seq(Byte), NEW v \in Nat
  PROVE  /\ Sum(bytes, 0, v) = v
         /\ \A k \in 0 .. Len(bytes) : Sum(bytes, k, v) \in Nat
         /\ \A k \in 1 .. Len(bytes) :
              Sum(bytes, k, v) = Sum(bytes, k - 1, v) + bytes[k] * Weight(k)
<1>1. Sum(bytes, 0, v) = v
  <2>1. 0 \in 0 .. Len(bytes)
    OBVIOUS
  <2>2. PICK f : IsSum(f, bytes, 0, v) /\ f[0] = Sum(bytes, 0, v)
    BY <2>1, SumExists
  <2> QED BY <2>2 DEF IsSum
<1>2. ASSUME NEW k \in 0 .. Len(bytes) PROVE Sum(bytes, k, v) \in Nat
  <2>1. k \in 0 .. k
    OBVIOUS
  <2> QED BY <2>1, SumExists
<1>3. ASSUME NEW k \in 1 .. Len(bytes)
      PROVE  Sum(bytes, k, v) = Sum(bytes, k - 1, v) + bytes[k] * Weight(k)
  <2>1. k \in 0 .. Len(bytes) /\ k - 1 \in 0 .. Len(bytes) /\ k \in Nat /\ k - 1 \in Nat
    OBVIOUS
  <2>2. PICK f : IsSum(f, bytes, k, v) /\ f[k] = Sum(bytes, k, v)
    BY <2>1, SumExists
  <2>3. PICK g : IsSum(g, bytes, k - 1, v) /\ g[k - 1] = Sum(bytes, k - 1, v)
    BY <2>1, SumExists
  <2>4. g[k - 1] = f[k - 1]
    BY <2>1, <2>2, <2>3, SumPrefix
  <2>5. f[k] = f[k - 1] + bytes[k] * Weight(k)
    BY <2>1, <2>2 DEF IsSum
  <2> QED BY <2>2, <2>3, <2>4, <2>5
<1> QED BY <1>1, <1>2, <1>3

\* The sum depends on nothing but the bytes that are summed.
LEMMA SumSameBytes ==
  ASSUME NEW a \in Seq(Byte), NEW b \in Seq(Byte), NEW v \in Nat, NEW n \in Nat,
         n <= Len(a), n <= Len(b), \A k \in 1 .. n : a[k] = b[k]
  PROVE  Sum(a, n, v) = Sum(b, n, v)
<1>1. n \in 0 .. Len(a) /\ n \in 0 .. Len(b) /\ n \in 0 .. n
  OBVIOUS
<1>2. PICK f : IsSum(f, a, n, v) /\ f[n] = Sum(a, n, v)
  BY <1>1, SumExists
<1>3. PICK g : IsSum(g, b, n, v) /\ g[n] = Sum(b, n, v)
  BY <1>1, SumExists
<1> QED BY <1>1, <1>2, <1>3, SumPrefix

-----------------------------------------------------------------------------
(* Loads.                                                                  *)

\* f is the function of what is loaded from byte k on.
IsLoad(f, bytes, at, n) ==
  f = [k \in 0 .. n |-> IF k = n THEN 0 ELSE bytes[at + k + 1] + B * f[k + 1]]

\* The function of Load() exists, and its values are numbers.
LEMMA LoadExists ==
  ASSUME NEW bytes \in Seq(Byte), NEW at \in Nat, NEW n \in Nat, at + n <= Len(bytes)
  PROVE  \E f : /\ IsLoad(f, bytes, at, n) /\ f[0] = Load(bytes, at, n)
                /\ \A k \in 0 .. n : f[k] \in Nat
<1> DEFINE Set  == [k \in 0 .. n |-> Nat]
           step == [k \in 1 .. n |-> [s \in Nat |-> bytes[at + (n - k) + 1] + B * s]]
<1>0. \A k \in 0 .. n - 1 : bytes[at + k + 1] \in Nat
  <2>1. \A k \in 0 .. n - 1 : at + k + 1 \in 1 .. Len(bytes)
    OBVIOUS
  <2> QED BY <2>1, Sizes DEF Byte
<1>1. 0 \in Set[0]
  OBVIOUS
<1>2. ASSUME NEW k \in 1 .. n, NEW s \in Set[k - 1] PROVE step[k][s] \in Set[k]
  <2>1. s \in Nat /\ Set[k] = Nat /\ n - k \in 0 .. n - 1
    OBVIOUS
  <2>2. B * s \in Nat /\ bytes[at + (n - k) + 1] \in Nat
    <3>1. B * s \in Nat
      BY <2>1, Sizes
    <3> QED BY <1>0, <2>1, <3>1, Zenon
  <2>3. step[k][s] = bytes[at + (n - k) + 1] + B * s
    BY <2>1
  <2> HIDE DEF Set, step
  <2> QED BY <2>1, <2>2, <2>3
<1>3. PICK f : IsRun(f, n, Set, 0, step)
  <2> HIDE DEF Set, step
  <2>1. Steps(n, Set, 0, step)
    BY <1>1, <1>2 DEF Steps
  <2> QED BY <2>1, Recursion, Zenon
<1> DEFINE g == [k \in 0 .. n |-> f[n - k]]
<1>4. ASSUME NEW k \in 0 .. n
      PROVE  g[k] = IF k = n THEN 0 ELSE bytes[at + k + 1] + B * g[k + 1]
  <2>1. CASE k = n
    BY <1>3, <2>1 DEF IsRun
  <2>2. CASE k # n
    <3>1. n - k \in 1 .. n /\ (n - k) - 1 \in 0 .. n /\ n - (n - k) = k
      BY <2>2
    <3>2. f[n - k] = step[n - k][f[(n - k) - 1]] /\ f[(n - k) - 1] \in Nat
      BY <1>3, <3>1 DEF IsRun
    <3>3. f[n - k] = bytes[at + k + 1] + B * f[(n - k) - 1]
      BY <3>1, <3>2
    <3>4. g[k] = f[n - k] /\ g[k + 1] = f[(n - k) - 1]
      BY <3>1
    <3> QED BY <2>2, <3>3, <3>4
  <2> QED BY <2>1, <2>2
<1>5. IsLoad(g, bytes, at, n)
  <2>1. g = [k \in 0 .. n |-> g[k]]
    OBVIOUS
  <2> HIDE DEF g
  <2> QED BY <1>4, <2>1 DEF IsLoad
<1> DEFINE load[k \in 0 .. n] == IF k = n THEN 0 ELSE bytes[at + k + 1] + B * load[k + 1]
<1>6. load = CHOOSE u : IsLoad(u, bytes, at, n)
  BY DEF load, IsLoad
<1>7. IsLoad(load, bytes, at, n)
  <2> HIDE DEF load, g
  <2> QED BY <1>5, <1>6, Zenon
<1>8. load[0] = Load(bytes, at, n)
  BY DEF Load
<1> HIDE DEF load
<1>9. ASSUME NEW k \in 0 .. n PROVE load[k] \in Nat
  <2> DEFINE T == {j \in 0 .. n : load[n - j] \in Nat}
  <2>1. 0 \in T
    BY <1>7 DEF IsLoad
  <2>2. ASSUME NEW j \in 1 .. n, j - 1 \in T PROVE j \in T
    <3>1. n - j \in 0 .. n - 1 /\ n - j # n /\ (n - j) + 1 = n - (j - 1)
      OBVIOUS
    <3>2. load[n - j] = bytes[at + (n - j) + 1] + B * load[n - (j - 1)]
      BY <1>7, <3>1 DEF IsLoad
    <3>3. load[n - (j - 1)] \in Nat
      BY <2>2
    <3>4. B * load[n - (j - 1)] \in Nat /\ bytes[at + (n - j) + 1] \in Nat
      <4>1. B * load[n - (j - 1)] \in Nat
        BY <3>3, Sizes
      <4> QED BY <1>0, <3>1, <4>1, Zenon
    <3>5. load[n - j] \in Nat
      BY <3>2, <3>4
    <3> QED BY <3>5
  <2> HIDE DEF T
  <2>3. 0 .. n \subseteq T
    BY <2>1, <2>2, Induction
  <2>4. n - k \in 0 .. n /\ n - (n - k) = k
    OBVIOUS
  <2>5. load[n - (n - k)] \in Nat
    BY <2>3, <2>4 DEF T
  <2> QED BY <2>4, <2>5
<1> QED BY <1>7, <1>8, <1>9

\* What is loaded is a number.
LEMMA LoadNat ==
  ASSUME NEW bytes \in Seq(Byte), NEW at \in Nat, NEW n \in Nat, at + n <= Len(bytes)
  PROVE  Load(bytes, at, n) \in Nat
<1>1. PICK f : f[0] = Load(bytes, at, n) /\ \A k \in 0 .. n : f[k] \in Nat
  BY LoadExists
<1>2. 0 \in 0 .. n
  OBVIOUS
<1> QED BY <1>1, <1>2

\* Two bytes of what is loaded: how large it gets, and that they count in it
\* what they count in the sum.
LEMMA PairOfBytes ==
  ASSUME NEW lo \in Byte, NEW hi \in Byte, NEW r \in Nat
  PROVE  /\ lo + B * (hi + B * r) \in Nat
         /\ \A x \in Nat : r <= x - 1 => lo + B * (hi + B * r) <= W * x - 1
         /\ \A s \in Nat : Same(s + B * (lo + B * (hi + B * r)),
                                (s + lo * B + hi) + B * r)
<1> DEFINE f == lo + B * (hi + B * r)
<1>1. lo \in Nat /\ hi \in Nat /\ lo <= B - 1 /\ hi <= B - 1 /\ B \in Nat
  BY Sizes DEF Byte
<1>2. B * hi \in Nat /\ W * r \in Nat /\ B * r \in Nat /\ lo * B \in Nat
  BY <1>1, Sizes
<1>3. B * (hi + B * r) = B * hi + W * r
  BY <1>1, Sizes
<1>4. f = lo + B * hi + W * r
  BY <1>1, <1>2, <1>3
<1>5. ASSUME NEW x \in Nat, r <= x - 1 PROVE f <= W * x - 1
  <2>1. W * (x - 1 - r) >= 0 /\ W * (x - 1 - r) = W * x - W - W * r
    BY <1>5, Sizes
  <2>2. B * (B - 1 - hi) >= 0 /\ B * (B - 1 - hi) = W - B - B * hi
    BY <1>1, Sizes
  <2>3. W * x \in Nat
    BY Sizes
  <2> HIDE DEF f
  <2> QED BY <1>1, <1>2, <1>4, <2>1, <2>2, <2>3, Sizes
<1>6. ASSUME NEW s \in Nat PROVE Same(s + B * f, (s + lo * B + hi) + B * r)
  <2> DEFINE t == hi + B * r
  <2>1. t \in Nat /\ W * t \in Nat /\ s + lo * B \in Nat
    BY <1>1, <1>2, Sizes
  <2>2. B * f = lo * B + W * t
    BY <1>1, Sizes
  <2>3. Same((s + lo * B) + W * t, (s + lo * B) + t)
    <3> HIDE DEF t
    <3> QED BY <2>1, SameWord, SameRefl, SameAdd
  <2>4. (s + lo * B) + W * t = s + B * f
    <3> HIDE DEF t, f
    <3> QED BY <1>2, <2>1, <2>2
  <2>5. (s + lo * B) + t = (s + lo * B + hi) + B * r
    BY <1>1, <1>2
  <2> QED BY <2>3, <2>4, <2>5
<1>7. f \in Nat
  BY <1>1, <1>2, <1>4
<1> QED BY <1>5, <1>6, <1>7

\* Two bytes of a load count as the word that they are in the sum.
LEMMA LoadPair ==
  ASSUME NEW bytes \in Seq(Byte), NEW at \in Nat, NEW n \in Nat, at + n <= Len(bytes),
         NEW f, IsLoad(f, bytes, at, n), NEW k \in Nat, k + 2 <= n, f[k + 2] \in Nat
  PROVE  /\ f[k] = bytes[at + k + 1] + B * (bytes[at + k + 2] + B * f[k + 2])
         /\ \A x \in Nat : f[k + 2] <= x - 1 => f[k] <= W * x - 1
         /\ \A v \in Nat : (at + k) % 2 = 0 =>
              Same(Sum(bytes, at + k, v) + B * f[k],
                   Sum(bytes, at + k + 2, v) + B * f[k + 2])
<1> DEFINE lo == bytes[at + k + 1]
           hi == bytes[at + k + 2]
           r  == f[k + 2]
<1>1. at + k + 1 \in 1 .. Len(bytes) /\ at + k + 2 \in 1 .. Len(bytes)
  OBVIOUS
<1>2. lo \in Byte /\ hi \in Byte /\ r \in Nat
  BY <1>1
<1>3. f[k] = lo + B * (hi + B * r)
  <2>1. k \in 0 .. n /\ k # n /\ k + 1 \in 0 .. n /\ k + 1 # n
    OBVIOUS
  <2>2. f[k] = bytes[at + k + 1] + B * f[k + 1]
    BY <2>1 DEF IsLoad
  <2>3. f[k + 1] = bytes[at + (k + 1) + 1] + B * f[(k + 1) + 1]
    BY <2>1 DEF IsLoad
  <2>4. at + (k + 1) + 1 = at + k + 2 /\ (k + 1) + 1 = k + 2
    OBVIOUS
  <2> QED BY <2>2, <2>3, <2>4
<1>4. ASSUME NEW v \in Nat, (at + k) % 2 = 0
      PROVE  Same(Sum(bytes, at + k, v) + B * f[k],
                  Sum(bytes, at + k + 2, v) + B * f[k + 2])
  <2> DEFINE s == Sum(bytes, at + k, v)
  <2>1. /\ at + k \in 0 .. Len(bytes) /\ (at + k + 1) - 1 = at + k
        /\ (at + k + 2) - 1 = at + k + 1 /\ (at + k + 1) % 2 = 1 /\ (at + k + 2) % 2 = 0
    BY <1>4
  <2>2. s \in Nat
    BY <2>1, SumStep
  <2>3. Weight(at + k + 1) = B /\ Weight(at + k + 2) = 1
    BY <2>1 DEF Weight
  <2>4. Sum(bytes, at + k + 1, v) = s + lo * B
    <3>1. Sum(bytes, at + k + 1, v)
            = Sum(bytes, (at + k + 1) - 1, v) + lo * Weight(at + k + 1)
      BY <1>1, SumStep, Zenon
    <3> QED BY <2>1, <2>3, <3>1
  <2>5. Sum(bytes, at + k + 2, v) = Sum(bytes, at + k + 1, v) + hi * 1
    <3>1. Sum(bytes, at + k + 2, v)
            = Sum(bytes, (at + k + 2) - 1, v) + hi * Weight(at + k + 2)
      BY <1>1, SumStep, Zenon
    <3> QED BY <2>1, <2>3, <3>1
  <2> HIDE DEF lo, hi, r, s
  <2>6. hi * 1 = hi
    BY <1>2, Sizes DEF Byte
  <2>7. Same(s + B * (lo + B * (hi + B * r)), (s + lo * B + hi) + B * r)
    BY <1>2, <2>2, PairOfBytes
  <2>8. Same(s + B * f[k], Sum(bytes, at + k + 2, v) + B * r)
    BY <1>3, <2>4, <2>5, <2>6, <2>7
  <2> QED BY <2>8 DEF r, s
<1> HIDE DEF lo, hi, r
<1>5. \A x \in Nat : r <= x - 1 => f[k] <= W * x - 1
  BY <1>2, <1>3, PairOfBytes
<1> QED BY <1>3, <1>4, <1>5 DEF lo, hi, r

\* What is loaded fits a register, and is what its bytes add to the sum.
LEMMA LoadSum ==
  ASSUME NEW bytes \in Seq(Byte), NEW at \in Nat, NEW n \in {1, 2, 4, 8},
         at + n <= Len(bytes), at % 2 = 0, NEW v \in Nat
  PROVE  /\ Load(bytes, at, n) \in 0 .. Q - 1
         /\ Same(Sum(bytes, at, v) + B * Load(bytes, at, n), Sum(bytes, at + n, v))
<1>1. n \in Nat
  OBVIOUS
<1>2. PICK f : /\ IsLoad(f, bytes, at, n) /\ f[0] = Load(bytes, at, n)
               /\ \A k \in 0 .. n : f[k] \in Nat
  BY <1>1, LoadExists
<1>3. f[n] = 0
  BY <1>1, <1>2 DEF IsLoad
<1> DEFINE P(k) == Sum(bytes, at + k, v) + B * f[k]
<1>4. ASSUME NEW k \in 0 .. n, k % 2 = 0, k + 2 <= n
      PROVE  /\ Same(P(k), P(k + 2))
             /\ \A x \in Nat : f[k + 2] <= x - 1 => f[k] <= W * x - 1
  <2>1. k \in Nat /\ f[k + 2] \in Nat /\ (at + k) % 2 = 0
    BY <1>1, <1>2, <1>4
  <2>2. at + (k + 2) = at + k + 2
    BY <2>1
  <2> QED BY <1>1, <1>2, <1>4, <2>1, <2>2, LoadPair
<1>5. \A k \in 0 .. n : P(k) \in Nat
  <2>1. ASSUME NEW k \in 0 .. n PROVE P(k) \in Nat
    <3>1. at + k \in 0 .. Len(bytes)
      BY <1>1
    <3>2. Sum(bytes, at + k, v) \in Nat
      BY <3>1, SumStep
    <3> QED BY <1>2, <3>2, Sizes, SMTT(30)
  <2> QED BY <2>1
<1>6. P(n) = Sum(bytes, at + n, v) /\ P(0) = Sum(bytes, at, v) + B * Load(bytes, at, n)
  <2>1. Sum(bytes, at + n, v) \in Nat /\ at + 0 = at /\ B * 0 = 0
    <3>1. at + n \in 0 .. Len(bytes)
      BY <1>1
    <3> QED BY <3>1, SumStep, Sizes
  <2> QED BY <1>2, <1>3, <2>1
<1>6a. f[0] \in Nat
  BY <1>1, <1>2
<1>7. Same(P(n), P(n)) /\ f[n] <= 1 - 1 /\ 1 \in Nat
  BY <1>1, <1>3, <1>5, SameRefl
<1> HIDE DEF P
<1>8. CASE n = 1
  <2>1. f[0] = bytes[at + 1] + B * 0
    BY <1>2, <1>3, <1>8 DEF IsLoad
  <2>2. at + 1 \in 1 .. Len(bytes) /\ (at + 1) % 2 = 1 /\ (at + 1) - 1 = at
    BY <1>8
  <2>3. bytes[at + 1] \in Nat /\ bytes[at + 1] <= B - 1
    BY <2>2, Sizes DEF Byte
  <2>4. f[0] = bytes[at + 1] /\ f[0] <= Q - 1
    BY <2>1, <2>3, Sizes
  <2>5. Sum(bytes, at + 1, v) = Sum(bytes, at, v) + bytes[at + 1] * B
    BY <2>2, SumStep, SMTT(30) DEF Weight
  <2>6. P(0) = P(n)
    BY <1>2, <1>6, <1>8, <2>3, <2>4, <2>5, Sizes
  <2> QED BY <1>2, <1>6, <1>7, <2>3, <2>4, <2>6, Sizes
<1>9. CASE n = 2
  <2>1. Same(P(0), P(2)) /\ f[0] <= W * 1 - 1
    BY <1>4, <1>7, <1>9
  <2> QED BY <1>2, <1>6, <1>9, <1>6a, <2>1, Sizes, SMTT(30)
<1>10. CASE n = 4
  <2>1. Same(P(2), P(4)) /\ f[2] <= W * 1 - 1
    BY <1>4, <1>7, <1>10
  <2>2. f[2] <= W - 1 /\ W \in Nat
    BY <2>1, Sizes
  <2>3. Same(P(0), P(2)) /\ f[0] <= W * W - 1
    BY <1>4, <1>10, <2>2
  <2>4. Same(P(0), P(4))
    BY <1>5, <1>10, <2>1, <2>3, SameTrans
  <2> QED BY <1>2, <1>6, <1>10, <1>6a, <2>3, <2>4, Sizes, SMTT(30)
<1>11. CASE n = 8
  <2>1. Same(P(6), P(8)) /\ f[6] <= W * 1 - 1
    BY <1>4, <1>7, <1>11
  <2>2. f[6] <= W - 1 /\ W \in Nat
    BY <2>1, Sizes
  <2>3. Same(P(4), P(6)) /\ f[4] <= W * W - 1
    BY <1>4, <1>11, <2>2
  <2>4. f[4] <= D - 1 /\ D \in Nat
    BY <2>3, Sizes
  <2>5. Same(P(2), P(4)) /\ f[2] <= W * D - 1
    BY <1>4, <1>11, <2>4
  <2>6. W * D \in Nat
    BY Sizes
  <2>7. Same(P(0), P(2)) /\ f[0] <= W * (W * D) - 1
    BY <1>4, <1>11, <2>5, <2>6
  <2>8. W * (W * D) = Q
    BY Sizes
  <2>9. P(0) \in Nat /\ P(2) \in Nat /\ P(4) \in Nat /\ P(6) \in Nat /\ P(8) \in Nat
    BY <1>5, <1>11
  <2>10. Same(P(4), P(8))
    BY <2>1, <2>3, <2>9, SameTrans
  <2>11. Same(P(2), P(8))
    BY <2>5, <2>9, <2>10, SameTrans
  <2>12. Same(P(0), P(8))
    BY <2>7, <2>9, <2>11, SameTrans
  <2> QED BY <1>2, <1>6, <1>11, <2>7, <2>8, <2>12, Sizes
<1> QED BY <1>8, <1>9, <1>10, <1>11

-----------------------------------------------------------------------------
(* Additions with carry.                                                   *)

\* Sum and carry: nothing is lost, and both together fit the register ...
Adds(r, x, y, carry, limit) ==
  /\ r \in [acc : 0 .. limit - 1, carry : 0 .. 1] /\ r.acc + r.carry <= limit - 1
  /\ r.acc + limit * r.carry = x + y + carry

\* ... if they did before.
LEMMA AdcSum ==
  ASSUME NEW limit \in Nat \ {0}, NEW x \in 0 .. limit - 1, NEW y \in 0 .. limit - 1,
         NEW carry \in 0 .. 1, x + y + carry <= 2 * limit - 2
  PROVE  Adds(Adc(x, y, carry, limit), x, y, carry, limit)
<1> DEFINE q == (x + y + carry) \div limit
           r == (x + y + carry) % limit
<1>1. x + y + carry \in Nat
  OBVIOUS
<1>2. q \in Nat /\ r \in 0 .. limit - 1 /\ x + y + carry = limit * q + r
  BY <1>1, DivMod
<1>3. Adc(x, y, carry, limit).acc = r /\ Adc(x, y, carry, limit).carry = q
  BY DEF Adc
<1>4. Adc(x, y, carry, limit) = [acc |-> r, carry |-> q]
  BY DEF Adc
<1> HIDE DEF q, r
<1>5. q < 2
  <2>1. q >= 2 => limit * (q - 1) >= limit
    BY <1>2, Multiple
  <2>2. limit * (q - 1) = limit * q - limit /\ limit * q \in Nat
    BY <1>2
  <2> QED BY <1>2, <2>1, <2>2
<1>6. q \in 0 .. 1
  BY <1>2, <1>5
<1>7. r + q <= limit - 1 /\ r + limit * q = x + y + carry
  BY <1>2, <1>6
<1>8. [acc |-> r, carry |-> q] \in [acc : 0 .. limit - 1, carry : 0 .. 1]
  BY <1>2, <1>6
<1> QED BY <1>3, <1>4, <1>7, <1>8 DEF Adds

\* So adc 0 adds the carry, and leaves none.
LEMMA AdcZero ==
  ASSUME NEW limit \in Nat \ {0}, NEW x \in Nat, NEW carry \in 0 .. 1,
         x + carry <= limit - 1
  PROVE  Adc(x, 0, carry, limit).acc = x + carry
<1>1. x + carry \in 0 .. limit - 1 /\ limit * 0 + (x + carry) = x + 0 + carry
  OBVIOUS
<1>2. (limit * 0 + (x + carry)) % limit = x + carry
  BY <1>1, DivModUnique
<1> QED BY <1>1, <1>2 DEF Adc

\* The accumulators that stand for a sum, with the carry pending.
Accs(sum) == {s \in [acc : 0 .. Q - 1, carry : 0 .. 1] :
                s.acc + s.carry <= Q - 1 /\ Same(B * (s.acc + s.carry), sum)}

\* One addition of what is loaded.
LEMMA AdcLoad ==
  ASSUME NEW bytes \in Seq(Byte), NEW at \in Nat, NEW n \in {1, 2, 4, 8},
         at + n <= Len(bytes), at % 2 = 0, NEW v \in Nat,
         NEW s \in Accs(Sum(bytes, at, v))
  PROVE  Adc(s.acc, Load(bytes, at, n), s.carry, Q) \in Accs(Sum(bytes, at + n, v))
<1> DEFINE y == Load(bytes, at, n)
           a == s.acc
           c == s.carry
           r == Adc(a, y, c, Q)
           before == Sum(bytes, at, v)
           after  == Sum(bytes, at + n, v)
<1>1. y \in 0 .. Q - 1 /\ Same(before + B * y, after)
  BY LoadSum
<1>2. a \in 0 .. Q - 1 /\ c \in 0 .. 1 /\ a + c <= Q - 1 /\ Same(B * (a + c), before)
  BY DEF Accs
<1>3. before \in Nat /\ after \in Nat
  <2>1. at \in 0 .. Len(bytes) /\ at + n \in 0 .. Len(bytes)
    OBVIOUS
  <2> QED BY <2>1, SumStep, Zenon
<1> HIDE DEF y, a, c, before, after
<1>4. /\ r \in [acc : 0 .. Q - 1, carry : 0 .. 1] /\ r.acc + r.carry <= Q - 1
      /\ r.acc + Q * r.carry = a + y + c
  <2>1. Q \in Nat \ {0}
    BY Sizes
  <2>2. Adds(r, a, y, c, Q)
    <3>1. a + y + c <= 2 * Q - 2
      BY <1>1, <1>2, Sizes
    <3> QED BY <1>1, <1>2, <2>1, <3>1, AdcSum
  <2> HIDE DEF r
  <2> QED BY <2>2 DEF Adds
<1> HIDE DEF r
<1> DEFINE ra == r.acc
           rc == r.carry
<1>5. ra \in Nat /\ rc \in Nat /\ ra + Q * rc = a + y + c /\ ra + rc \in Nat
  BY <1>4, Sizes
<1>6. a \in Nat /\ c \in Nat /\ y \in Nat /\ a + c \in Nat /\ B \in Nat /\ B > 0
  BY <1>1, <1>2, Sizes
<1>7. Same(B * (ra + rc), after)
  <2> HIDE DEF ra, rc
  <2>1. Same(Q * rc, rc) /\ Same(ra, ra) /\ Q * rc \in Nat
    <3>1. Q * rc \in Nat
      BY <1>5, Sizes
    <3> QED BY <1>5, <3>1, SameQuad, SameRefl
  <2>2. Same(ra + rc, ra + Q * rc)
    BY <1>5, <2>1, SameAdd, SameSym
  <2>3. Same(B * (ra + rc), B * (a + y + c)) /\ a + y + c \in Nat
    BY <1>5, <1>6, <2>2, SameTimes
  <2>4. /\ B * (a + y + c) = B * (a + c) + B * y /\ B * (a + c) \in Nat /\ B * y \in Nat
        /\ B * (ra + rc) \in Nat
    BY <1>5, <1>6
  <2>5. Same(B * (a + c) + B * y, before + B * y)
    BY <1>2, <1>3, <2>4, SameRefl, SameAdd
  <2>6. Same(B * (a + c) + B * y, after)
    <3>1. B * (a + c) + B * y \in Nat /\ before + B * y \in Nat
      BY <1>3, <2>4
    <3> QED BY <1>1, <1>3, <2>5, <3>1, SameTrans
  <2>7. Same(B * (ra + rc), B * (a + c) + B * y) /\ B * (a + c) + B * y \in Nat
    BY <2>3, <2>4
  <2> QED BY <1>3, <2>4, <2>6, <2>7, SameTrans
<1>8. r \in Accs(after)
  BY <1>4, <1>7 DEF Accs
<1> QED BY <1>8 DEF r, y, a, c, after

\* The additions of several words, loaded one after the other.
LEMMA AdcWords ==
  ASSUME NEW bytes \in Seq(Byte), NEW at \in Nat, NEW n \in {1, 2, 4, 8},
         NEW m \in Nat, m <= 1 \/ n = 8, at + n * m <= Len(bytes), at % 2 = 0,
         NEW v \in Nat, NEW words, Len(words) = m,
         \A k \in 1 .. m : words[k] = Load(bytes, at + n * (k - 1), n),
         NEW acc, NEW carry, [acc |-> acc, carry |-> carry] \in Accs(Sum(bytes, at, v))
  PROVE  AdcAll(acc, carry, words) \in Accs(Sum(bytes, at + n * m, v))
<1> DEFINE Set  == [k \in 0 .. m |-> Accs(Sum(bytes, at + n * k, v))]
           b    == [acc |-> acc, carry |-> carry]
           step == [k \in 1 .. m |-> [s \in Set[k - 1] |-> Adc(s.acc, words[k], s.carry, Q)]]
           Is(f) == f = [k \in 0 .. m |-> IF k = 0 THEN b
                           ELSE Adc(f[k - 1].acc, words[k], f[k - 1].carry, Q)]
<1>1. b \in Set[0]
  <2>1. at + n * 0 = at
    OBVIOUS
  <2> QED BY <2>1
<1>2. ASSUME NEW k \in 1 .. m, NEW s \in Set[k - 1] PROVE step[k][s] \in Set[k]
  <2> DEFINE p == at + n * (k - 1)
  <2>1. p \in Nat /\ p + n = at + n * k /\ p + n <= Len(bytes)
    <3>1. n * k <= n * m
      OBVIOUS
    <3> QED BY <3>1
  <2>2. p % 2 = 0
    <3>1. CASE m <= 1
      <4>1. k - 1 = 0 /\ n * 0 = 0
        BY <3>1
      <4>2. p = at
        BY <4>1
      <4> QED BY <4>2
    <3>2. CASE n = 8
      BY <3>2
    <3> QED BY <3>1, <3>2
  <2>3. s \in Accs(Sum(bytes, p, v))
    OBVIOUS
  <2>4. words[k] = Load(bytes, p, n)
    OBVIOUS
  <2>5. step[k][s] = Adc(s.acc, words[k], s.carry, Q)
    OBVIOUS
  <2>6. Set[k] = Accs(Sum(bytes, p + n, v))
    BY <2>1
  <2> HIDE DEF p, Set, step
  <2>7. Adc(s.acc, Load(bytes, p, n), s.carry, Q) \in Accs(Sum(bytes, p + n, v))
    BY <2>1, <2>2, <2>3, AdcLoad
  <2> QED BY <2>4, <2>5, <2>6, <2>7
<1>3. Steps(m, Set, b, step)
  <2> HIDE DEF Set, step, b
  <2> QED BY <1>1, <1>2 DEF Steps
<1>4. PICK f : IsRun(f, m, Set, b, step)
  <2> HIDE DEF Set, step, b
  <2> QED BY <1>3, Recursion, Zenon
<1>5. ASSUME NEW k \in 1 .. m, NEW g, g[k - 1] \in Set[k - 1]
      PROVE  step[k][g[k - 1]] = Adc(g[k - 1].acc, words[k], g[k - 1].carry, Q)
  <2> HIDE DEF Set
  <2> QED BY <1>5
<1>6. Is(f)
  <2>1. f = [k \in 0 .. m |-> f[k]] /\ f[0] = b
    BY <1>4 DEF IsRun
  <2>2. ASSUME NEW k \in 1 .. m
        PROVE  f[k] = Adc(f[k - 1].acc, words[k], f[k - 1].carry, Q)
    <3>1. k - 1 \in 0 .. m
      OBVIOUS
    <3> HIDE DEF Set, step, b
    <3>2. f[k] = step[k][f[k - 1]] /\ f[k - 1] \in Set[k - 1]
      BY <1>4, <3>1 DEF IsRun
    <3> QED BY <1>5, <3>2
  <2> HIDE DEF b
  <2>3. ASSUME NEW k \in 0 .. m
        PROVE  f[k] = IF k = 0 THEN b
                      ELSE Adc(f[k - 1].acc, words[k], f[k - 1].carry, Q)
    <3>1. CASE k = 0
      BY <2>1, <3>1, Zenon
    <3>2. CASE k # 0
      <4>1. k \in 1 .. m
        BY <3>2
      <4> QED BY <2>2, <3>2, <4>1, Zenon
    <3> QED BY <3>1, <3>2
  <2> QED BY <2>1, <2>3
<1> DEFINE sum[k \in 0 .. m] ==
             IF k = 0 THEN [acc |-> acc, carry |-> carry]
             ELSE Adc(sum[k - 1].acc, words[k], sum[k - 1].carry, Q)
<1>7. sum = CHOOSE g : Is(g)
  BY DEF sum
<1>8. Is(sum)
  <2> HIDE DEF sum, Is
  <2> QED BY <1>6, <1>7, Zenon
<1>9. AdcAll(acc, carry, words) = sum[m]
  BY DEF AdcAll
<1> HIDE DEF sum
<1>10. sum[m] \in Set[m]
  <2>1. sum[0] = b
    BY <1>8
  <2>2. ASSUME NEW k \in 1 .. m, sum[k - 1] \in Set[k - 1]
        PROVE  sum[k] = step[k][sum[k - 1]]
    <3>1. sum[k] = Adc(sum[k - 1].acc, words[k], sum[k - 1].carry, Q)
      BY <1>8, SMTT(30)
    <3> HIDE DEF Set, step
    <3> QED BY <1>5, <2>2, <3>1
  <2> HIDE DEF Set, step, b
  <2>3. m \in Nat /\ m \in 0 .. m
    OBVIOUS
  <2>4. \A k \in 1 .. m : sum[k - 1] \in Set[k - 1] => sum[k] = step[k][sum[k - 1]]
    BY <2>2
  <2>5. \A k \in 0 .. m : sum[k] \in Set[k]
    BY <1>3, <2>1, <2>3, <2>4, RecursionIn
  <2> QED BY <2>3, <2>5
<1> QED BY <1>9, <1>10

\* The additions of a block.
LEMMA AdcBlock ==
  ASSUME NEW bytes \in Seq(Byte), NEW at \in Nat, NEW n \in {32, 16, 8, 4, 2, 1},
         at + n <= Len(bytes), at % 2 = 0, NEW v \in Nat,
         NEW acc, NEW carry, [acc |-> acc, carry |-> carry] \in Accs(Sum(bytes, at, v))
  PROVE  AdcAll(acc, carry, Loads(bytes, at, n)) \in Accs(Sum(bytes, at + n, v))
<1> DEFINE words == Loads(bytes, at, n)
<1>1. CASE n >= 8
  <2> DEFINE m == n \div 8
  <2>1. m \in Nat /\ 8 * m = n
    BY <1>1
  <2>2. words = [k \in 1 .. m |-> Load(bytes, at + 8 * (k - 1), 8)]
    BY <1>1 DEF Loads
  <2>3. Len(words) = m /\ \A k \in 1 .. m : words[k] = Load(bytes, at + 8 * (k - 1), 8)
    BY <2>1, <2>2
  <2>4. at + 8 * m <= Len(bytes) /\ 8 \in {1, 2, 4, 8}
    BY <2>1
  <2> HIDE DEF m, words
  <2>5. AdcAll(acc, carry, words) \in Accs(Sum(bytes, at + 8 * m, v))
    BY <2>1, <2>3, <2>4, AdcWords
  <2> QED BY <2>1, <2>5 DEF words
<1>2. CASE ~(n >= 8)
  <2>1. n \in {1, 2, 4, 8} /\ n * 1 = n /\ n * (1 - 1) = 0
    BY <1>2
  <2>2. words = <<Load(bytes, at, n)>>
    BY <1>2 DEF Loads
  <2>3. Len(words) = 1 /\ \A k \in 1 .. 1 : words[k] = Load(bytes, at + n * (k - 1), n)
    BY <2>1, <2>2
  <2>4. at + n * 1 <= Len(bytes) /\ 1 \in Nat /\ 1 <= 1
    BY <2>1
  <2> HIDE DEF words
  <2>5. AdcAll(acc, carry, words) \in Accs(Sum(bytes, at + n * 1, v))
    BY <2>1, <2>3, <2>4, AdcWords
  <2> QED BY <2>1, <2>5 DEF words
<1> QED BY <1>1, <1>2

\* The same with the carry added at the end.
LEMMA AddBlockSum ==
  ASSUME NEW bytes \in Seq(Byte), NEW at \in Nat, NEW n \in {32, 16, 8, 4, 2, 1},
         at + n <= Len(bytes), at % 2 = 0, NEW v \in Nat,
         NEW acc \in 0 .. Q - 1, Same(B * acc, Sum(bytes, at, v))
  PROVE  /\ AddBlock(acc, Loads(bytes, at, n)) \in 0 .. Q - 1
         /\ Same(B * AddBlock(acc, Loads(bytes, at, n)), Sum(bytes, at + n, v))
<1> DEFINE s == AdcAll(acc, 0, Loads(bytes, at, n))
<1>1. [acc |-> acc, carry |-> 0] \in Accs(Sum(bytes, at, v))
  <2>1. acc + 0 = acc
    OBVIOUS
  <2> QED BY <2>1, Sizes DEF Accs
<1>2. s \in Accs(Sum(bytes, at + n, v))
  BY <1>1, AdcBlock
<1>3. AddBlock(acc, Loads(bytes, at, n)) = Adc(s.acc, 0, s.carry, Q).acc
  BY DEF AddBlock
<1> HIDE DEF s
<1>4. /\ s.acc \in Nat /\ s.carry \in 0 .. 1 /\ s.acc + s.carry <= Q - 1
      /\ Same(B * (s.acc + s.carry), Sum(bytes, at + n, v))
  BY <1>2 DEF Accs
<1>5. Adc(s.acc, 0, s.carry, Q).acc = s.acc + s.carry
  BY <1>4, AdcZero, Sizes
<1> QED BY <1>3, <1>4, <1>5

\* A block is not more than what is left, and only the last may be odd.
LEMMA BlockFits ==
  ASSUME NEW left \in Nat \ {0}
  PROVE  /\ Block(left) \in {32, 16, 8, 4, 2, 1} /\ Block(left) <= left
         /\ Block(left) = 1 => left = 1
         /\ left >= 32 => Block(left) = 32
<1> DEFINE fits == {n \in {32, 16, 8, 4, 2, 1} : n <= left}
<1>1. \E n \in fits : \A m \in fits : m <= n
  <2>1. CASE left >= 32
    BY <2>1
  <2>2. CASE left >= 16 /\ left < 32
    BY <2>2
  <2>3. CASE left >= 8 /\ left < 16
    BY <2>3
  <2>4. CASE left >= 4 /\ left < 8
    BY <2>4
  <2>5. CASE left >= 2 /\ left < 4
    BY <2>5
  <2>6. CASE left = 1
    BY <2>6
  <2> QED BY <2>1, <2>2, <2>3, <2>4, <2>5, <2>6
<1>2. Block(left) = CHOOSE n \in fits : \A m \in fits : m <= n
  BY DEF Block
<1>3. Block(left) \in fits /\ \A m \in fits : m <= Block(left)
  <2> HIDE DEF fits
  <2> QED BY <1>1, <1>2, Zenon
<1> QED BY <1>3

-----------------------------------------------------------------------------
(* The carries folded in.                                                  *)

\* The two halves of a register added, and then the carry.
Folds(s, acc, carry, m) ==
  /\ Adds(s, acc % m, acc \div m, carry, m)
  /\ Adc(s.acc, 0, s.carry, m).acc = s.acc + s.carry
  /\ s.acc + s.carry \in 0 .. m - 1
  /\ Same(s.acc + s.carry, acc + carry)

\* One half is added to the other, and the carry.
LEMMA FoldHalf ==
  ASSUME NEW m \in Nat, m >= 2, \A a \in Nat : Same(m * a, a),
         NEW acc \in Nat, NEW carry \in 0 .. 1, acc + carry <= m * m - 1,
         NEW s, s = Adc(acc % m, acc \div m, carry, m)
  PROVE  Folds(s, acc, carry, m)
<1> DEFINE lo == acc % m
           hi == acc \div m
<1>1. lo \in 0 .. m - 1 /\ hi \in Nat /\ acc = m * hi + lo
  <2>1. m \in Nat \ {0}
    OBVIOUS
  <2> QED BY <2>1, DivMod
<1> HIDE DEF lo, hi
<1>2. hi <= m - 1
  <2>1. hi >= m => m * (hi - (m - 1)) >= m
    BY <1>1, Multiple
  <2>2. m * (hi - (m - 1)) = m * hi - m * m + m /\ m * hi \in Nat /\ m * m \in Nat
    BY <1>1
  <2> QED BY <1>1, <2>1, <2>2
<1>3. lo + hi + carry <= 2 * m - 2
  <2>1. CASE hi = m - 1
    <3>1. m * (m - 1) = m * m - m /\ m * m \in Nat
      OBVIOUS
    <3> QED BY <1>1, <2>1, <3>1
  <2>2. CASE hi # m - 1
    BY <1>1, <1>2, <2>2
  <2> QED BY <2>1, <2>2
<1>4. Adds(s, lo, hi, carry, m)
  <2>1. hi \in 0 .. m - 1 /\ m \in Nat \ {0}
    BY <1>1, <1>2
  <2>2. s = Adc(lo, hi, carry, m)
    BY DEF lo, hi
  <2> QED BY <1>1, <1>3, <2>1, <2>2, AdcSum
<1> DEFINE a == s.acc
           c == s.carry
<1>5. a \in Nat /\ c \in 0 .. 1 /\ a + c <= m - 1 /\ a + m * c = lo + hi + carry
  BY <1>4 DEF Adds
<1> HIDE DEF a, c
<1>6. Adc(a, 0, c, m).acc = a + c
  BY <1>5, AdcZero
<1>7. Same(a + c, a + m * c)
  <2>1. c \in Nat /\ m * c \in Nat
    BY <1>5
  <2> QED BY <1>5, <2>1, SameRefl, SameSym, SameAdd
<1>8. Same(lo + hi + carry, acc + carry)
  <2>1. Same((lo + carry) + hi, (lo + carry) + m * hi)
    <3>1. m * hi \in Nat /\ lo + carry \in Nat
      BY <1>1
    <3> QED BY <1>1, <3>1, SameRefl, SameSym, SameAdd
  <2>2. (lo + carry) + hi = lo + hi + carry /\ (lo + carry) + m * hi = acc + carry
    BY <1>1
  <2> QED BY <2>1, <2>2
<1>9. Same(a + c, acc + carry)
  <2>1. a + c \in Nat /\ lo + hi + carry \in Nat /\ acc + carry \in Nat
    BY <1>1, <1>5
  <2> QED BY <1>5, <1>7, <1>8, <2>1, SameTrans
<1>10. s.acc + s.carry \in 0 .. m - 1
  BY <1>5 DEF a, c
<1> QED BY <1>4, <1>6, <1>9, <1>10 DEF a, c, lo, hi, Folds

\* Folded to 16 bits, an accumulator is the same sum, on x86_64,
LEMMA FoldX86Same ==
  ASSUME NEW acc \in 0 .. Q - 1
  PROVE  FoldX86(acc) \in Word /\ Same(FoldX86(acc), acc)
<1> DEFINE sum32 == Adc(acc % D, acc \div D, 0, D)
           acc32 == Adc(sum32.acc, 0, sum32.carry, D).acc
           sum16 == Adc(acc32 % W, acc32 \div W, 0, W)
           acc16 == Adc(sum16.acc, 0, sum16.carry, W).acc
<1>1. FoldX86(acc) = acc16
  BY DEF FoldX86
<1>2. acc \in Nat /\ acc + 0 = acc /\ acc + 0 <= D * D - 1 /\ D \in Nat /\ D >= 2
  BY Sizes
<1>3. acc32 \in 0 .. D - 1 /\ Same(acc32, acc)
  <2> HIDE DEF sum32
  <2>1. sum32 = Adc(acc % D, acc \div D, 0, D) /\ 0 \in 0 .. 1
    BY DEF sum32
  <2>2. \A a \in Nat : Same(D * a, a)
    BY SameDouble
  <2>3. Folds(sum32, acc, 0, D)
    BY <1>2, <2>1, <2>2, FoldHalf, Zenon
  <2> QED BY <1>2, <2>3 DEF Folds
<1> HIDE DEF acc32
<1>4. /\ acc32 \in Nat /\ acc32 + 0 = acc32 /\ acc32 + 0 <= W * W - 1
      /\ W \in Nat /\ W >= 2
  BY <1>3, Sizes
<1>5. acc16 \in 0 .. W - 1 /\ Same(acc16, acc32)
  <2> HIDE DEF sum16
  <2>1. sum16 = Adc(acc32 % W, acc32 \div W, 0, W) /\ 0 \in 0 .. 1
    BY DEF sum16
  <2>2. \A a \in Nat : Same(W * a, a)
    BY SameWord
  <2>3. Folds(sum16, acc32, 0, W)
    BY <1>4, <2>1, <2>2, FoldHalf, Zenon
  <2> QED BY <1>4, <2>3 DEF Folds
<1> HIDE DEF acc16
<1>6. Same(acc16, acc)
  BY <1>2, <1>3, <1>4, <1>5, SameTrans
<1> QED BY <1>1, <1>5, <1>6 DEF Word

\* and on aarch64 with the carry that is pending.
LEMMA FoldAarch64Same ==
  ASSUME NEW acc \in Nat, NEW carry \in 0 .. 1, acc + carry <= Q - 1
  PROVE  FoldAarch64(acc, carry) \in Word /\ Same(FoldAarch64(acc, carry), acc + carry)
<1> DEFINE sum32 == Adc(acc % D, acc \div D, carry, D)
           acc32 == Adc(sum32.acc, 0, sum32.carry, D).acc
           once  == (acc32 % W) + (acc32 \div W)
           acc16 == (once + (once \div W)) % W
           s     == Adc(acc32 % W, acc32 \div W, 0, W)
<1>1. FoldAarch64(acc, carry) = acc16
  BY DEF FoldAarch64
<1>2. acc + carry <= D * D - 1 /\ D \in Nat /\ D >= 2 /\ acc + carry \in Nat
  BY Sizes
<1>3. acc32 \in 0 .. D - 1 /\ Same(acc32, acc + carry)
  <2> HIDE DEF sum32
  <2>1. sum32 = Adc(acc % D, acc \div D, carry, D)
    BY DEF sum32
  <2>2. \A a \in Nat : Same(D * a, a)
    BY SameDouble
  <2>3. Folds(sum32, acc, carry, D)
    BY <1>2, <2>1, <2>2, FoldHalf, Zenon
  <2> QED BY <1>2, <2>3 DEF Folds
<1> HIDE DEF acc32
<1>4. /\ acc32 \in Nat /\ acc32 + 0 = acc32 /\ acc32 + 0 <= W * W - 1
      /\ W \in Nat \ {0} /\ W >= 2
  BY <1>3, Sizes
<1>5. /\ Adds(s, acc32 % W, acc32 \div W, 0, W) /\ s.acc + s.carry \in 0 .. W - 1
      /\ Same(s.acc + s.carry, acc32)
  <2> HIDE DEF s
  <2>1. s = Adc(acc32 % W, acc32 \div W, 0, W) /\ 0 \in 0 .. 1
    BY DEF s
  <2>2. \A a \in Nat : Same(W * a, a)
    BY SameWord
  <2>3. Folds(s, acc32, 0, W)
    BY <1>4, <2>1, <2>2, FoldHalf, Zenon
  <2> QED BY <1>4, <2>3 DEF Folds
<1>6. acc16 = s.acc + s.carry
  <2> HIDE DEF s
  <2> DEFINE a == s.acc
             c == s.carry
  <2>0. acc32 % W \in Nat /\ acc32 \div W \in Nat
    <3>1. acc32 % W \in 0 .. W - 1 /\ acc32 \div W \in Nat
      BY <1>4, DivMod, Zenon
    <3> QED BY <1>4, <3>1
  <2>1. /\ a \in 0 .. W - 1 /\ c \in Nat /\ a + c \in 0 .. W - 1
        /\ a + W * c = (acc32 % W) + (acc32 \div W) + 0
    BY <1>5 DEF Adds
  <2> HIDE DEF a, c
  <2>2. once = W * c + a
    BY <1>4, <2>0, <2>1
  <2> HIDE DEF once
  <2>3. once \div W = c
    BY <1>4, <2>1, <2>2, DivModUnique
  <2>4. once + (once \div W) = W * c + (a + c)
    BY <1>4, <2>1, <2>2, <2>3
  <2>5. (W * c + (a + c)) % W = a + c
    BY <1>4, <2>1, DivModUnique
  <2> QED BY <2>4, <2>5 DEF a, c
<1> HIDE DEF acc16, s
<1>7. Same(acc16, acc + carry)
  BY <1>2, <1>3, <1>4, <1>5, <1>6, SameTrans
<1> QED BY <1>1, <1>5, <1>6, <1>7 DEF Word

-----------------------------------------------------------------------------
(* The routines.                                                           *)

\* The accumulator starts as `initial' in host byte order.
LEMMA StartSame ==
  ASSUME NEW initial \in Word
  PROVE  /\ Start(initial) \in 0 .. Q - 1 /\ Start(initial) + 0 = Start(initial)
         /\ Same(B * Start(initial), initial)
<1>1. ntohs(initial) \in Word /\ ntohs(ntohs(initial)) = initial
  BY Ntohs
<1>2. Same(initial, B * ntohs(initial))
  BY <1>1, SameNtohs
<1>3. initial \in Nat /\ ntohs(initial) \in Nat /\ ntohs(initial) <= W - 1
  BY <1>1, Sizes DEF Word
<1>4. B * ntohs(initial) \in Nat
  BY <1>3, Sizes
<1>5. Same(B * ntohs(initial), initial)
  BY <1>2, <1>3, <1>4, SameSym
<1> QED BY <1>3, <1>5, Sizes DEF Start

\* Where the routines stand after k blocks: a byte that is left comes last.
Pointer(ptr, length, k) ==
  /\ ptr \in 0 .. length
  /\ ptr % 2 = 0 \/ ptr = length
  /\ ptr >= k \/ ptr = length

\* Every block makes progress, and all but the last are of even length.
LEMMA PointerStep ==
  ASSUME NEW length \in Nat, NEW k \in 1 .. length, NEW ptr,
         Pointer(ptr, length, k - 1), ptr # length,
         NEW n, n = Block(length - ptr)
  PROVE  /\ ptr \in Nat /\ ptr % 2 = 0 /\ n \in {32, 16, 8, 4, 2, 1}
         /\ ptr + n <= length /\ Pointer(ptr + n, length, k)
         /\ length - ptr >= 32 => n = 32
<1>1. ptr \in Nat /\ ptr % 2 = 0 /\ ptr >= k - 1 /\ length - ptr \in Nat \ {0}
  BY DEF Pointer
<1>2. /\ n \in {32, 16, 8, 4, 2, 1} /\ n <= length - ptr
      /\ n = 1 => length - ptr = 1
      /\ length - ptr >= 32 => n = 32
  BY <1>1, BlockFits
<1>3. ptr + n <= length /\ ptr + n >= k
  BY <1>1, <1>2
<1>4. (ptr + n) % 2 = 0 \/ ptr + n = length
  <2>1. CASE n = 1
    BY <1>1, <1>2, <2>1
  <2>2. CASE n # 1
    BY <1>1, <1>2, <2>2
  <2> QED BY <2>1, <2>2
<1> QED BY <1>1, <1>2, <1>3, <1>4 DEF Pointer

\* The assembly of x86_64 (checksum.rs:70), whose registers wrap around and whose
\* carries are added block by block, computes the ones' complement checksum of
\* RFC 1071 for data of every length and every initial value.
THEOREM ChecksumX86 ==
  ASSUME NEW bytes \in Seq(Byte), NEW length \in 0 .. Len(bytes), NEW initial \in Word
  PROVE  checksum_x86_64(bytes, length, initial) = Reference(bytes, length, initial)
<1> DEFINE Set  == [k \in 0 .. length |->
                      {s \in [acc : 0 .. Q - 1, ptr : 0 .. length] :
                         /\ Pointer(s.ptr, length, k)
                         /\ Same(B * s.acc, Sum(bytes, s.ptr, initial))}]
           b    == [acc |-> Start(initial), ptr |-> 0]
           go(s) == IF s.ptr = length THEN s ELSE BlockX86(bytes, length, s)
           step == [k \in 1 .. length |-> [s \in Set[k - 1] |-> go(s)]]
           Is(f) == f = [k \in 0 .. length |-> IF k = 0 THEN b ELSE go(f[k - 1])]
<1>0. length \in Nat /\ initial \in Nat
  BY Sizes DEF Word
<1>1. b \in Set[0]
  <2>1. Sum(bytes, 0, initial) = initial
    BY <1>0, SumStep
  <2>2. Pointer(0, length, 0) /\ 0 \in 0 .. length
    BY <1>0 DEF Pointer
  <2>3. Start(initial) \in 0 .. Q - 1 /\ Same(B * Start(initial), initial)
    BY StartSame
  <2> QED BY <2>1, <2>2, <2>3
<1>2. ASSUME NEW k \in 1 .. length, NEW s \in Set[k - 1] PROVE go(s) \in Set[k]
  <2>1. /\ s \in [acc : 0 .. Q - 1, ptr : 0 .. length] /\ Pointer(s.ptr, length, k - 1)
        /\ Same(B * s.acc, Sum(bytes, s.ptr, initial))
    OBVIOUS
  <2>2. CASE s.ptr = length
    <3>1. Pointer(s.ptr, length, k)
      BY <2>1, <2>2 DEF Pointer
    <3> QED BY <2>1, <2>2, <3>1
  <2>3. CASE s.ptr # length
    <3> DEFINE n == Block(length - s.ptr)
               acc == AddBlock(s.acc, Loads(bytes, s.ptr, n))
    <3>1. /\ s.ptr \in Nat /\ s.ptr % 2 = 0 /\ n \in {32, 16, 8, 4, 2, 1}
          /\ s.ptr + n <= length /\ Pointer(s.ptr + n, length, k)
      BY <1>0, <2>1, <2>3, PointerStep
    <3>2. go(s) = [acc |-> acc, ptr |-> s.ptr + n]
      BY <2>3 DEF BlockX86
    <3> HIDE DEF n
    <3>3. acc \in 0 .. Q - 1 /\ Same(B * acc, Sum(bytes, s.ptr + n, initial))
      <4>1. s.ptr + n <= Len(bytes) /\ s.acc \in 0 .. Q - 1
        BY <2>1, <3>1
      <4> QED BY <1>0, <2>1, <3>1, <4>1, AddBlockSum
    <3> HIDE DEF acc, go
    <3>4. s.ptr + n \in 0 .. length
      BY <3>1 DEF Pointer
    <3> QED BY <3>1, <3>2, <3>3, <3>4
  <2> QED BY <2>2, <2>3
<1>3. Steps(length, Set, b, step)
  <2> HIDE DEF Set, b, go
  <2> QED BY <1>1, <1>2 DEF Steps
<1>4. PICK f : IsRun(f, length, Set, b, step)
  <2> HIDE DEF Set, b, step
  <2> QED BY <1>0, <1>3, Recursion, Zenon
<1>5. ASSUME NEW k \in 1 .. length, NEW g, g[k - 1] \in Set[k - 1]
      PROVE  step[k][g[k - 1]] = go(g[k - 1])
  <2> HIDE DEF Set, go
  <2> QED BY <1>5
<1>6. Is(f)
  <2> HIDE DEF Set, step, b, go
  <2>1. f = [k \in 0 .. length |-> f[k]] /\ f[0] = b
    BY <1>4 DEF IsRun
  <2>2. ASSUME NEW k \in 1 .. length PROVE f[k] = go(f[k - 1])
    <3>1. k - 1 \in 0 .. length
      OBVIOUS
    <3>2. f[k] = step[k][f[k - 1]] /\ f[k - 1] \in Set[k - 1]
      BY <1>4, <3>1 DEF IsRun
    <3> QED BY <1>5, <3>2
  <2>3. ASSUME NEW k \in 0 .. length
        PROVE  f[k] = IF k = 0 THEN b ELSE go(f[k - 1])
    <3>1. CASE k = 0
      BY <2>1, <3>1, Zenon
    <3>2. CASE k # 0
      <4>1. k \in 1 .. length
        BY <3>2
      <4> QED BY <2>2, <3>2, <4>1, Zenon
    <3> QED BY <3>1, <3>2
  <2> QED BY <2>1, <2>3
<1> DEFINE run[k \in 0 .. length] ==
             IF k = 0 THEN [acc |-> Start(initial), ptr |-> 0]
             ELSE LET last == run[k - 1]
                  IN  IF last.ptr = length THEN last ELSE BlockX86(bytes, length, last)
<1>7. run = CHOOSE g : Is(g)
  BY DEF run
<1>8. Is(run)
  <2> HIDE DEF run, Is
  <2> QED BY <1>6, <1>7, Zenon
<1>9. checksum_x86_64(bytes, length, initial) = ntohs(Not16(FoldX86(run[length].acc)))
  BY DEF checksum_x86_64
<1> HIDE DEF run
<1>10. run[length] \in Set[length]
  <2> HIDE DEF Set, step, b, go
  <2>1. run[0] = b
    BY <1>0, <1>8
  <2>2. ASSUME NEW k \in 1 .. length, run[k - 1] \in Set[k - 1]
        PROVE  run[k] = step[k][run[k - 1]]
    <3>1. run[k] = go(run[k - 1])
      BY <1>8
    <3> QED BY <1>5, <2>2, <3>1
  <2>3. \A k \in 0 .. length : run[k] \in Set[k]
    BY <1>0, <1>3, <2>1, <2>2, RecursionIn
  <2> QED BY <1>0, <2>3
<1> DEFINE acc == run[length].acc
<1>11. acc \in 0 .. Q - 1 /\ Same(B * acc, Sum(bytes, length, initial))
  BY <1>0, <1>10 DEF Pointer
<1> HIDE DEF acc
<1>12. FoldX86(acc) \in Word /\ Same(FoldX86(acc), acc)
  BY <1>11, FoldX86Same
<1>13. Sum(bytes, length, initial) \in Nat
  BY <1>0, SumStep
<1>14. Same(B * FoldX86(acc), Sum(bytes, length, initial))
  <2>1. acc \in Nat /\ FoldX86(acc) \in Nat /\ B \in Nat /\ B > 0
    BY <1>11, <1>12, Sizes DEF Word
  <2>2. Same(B * FoldX86(acc), B * acc) /\ B * acc \in Nat /\ B * FoldX86(acc) \in Nat
    BY <1>12, <2>1, SameTimes
  <2> QED BY <1>11, <1>13, <2>2, SameTrans
<1>15. ntohs(Not16(FoldX86(acc))) = Reference(bytes, length, initial)
  BY <1>12, <1>13, <1>14, Finish DEF Reference
<1> QED BY <1>9, <1>15 DEF acc

\* So does the assembly of aarch64 (checksum.rs:150), which keeps the carry
\* pending from one block to the next, for data of every length and every
\* initial value.
THEOREM ChecksumAarch64 ==
  ASSUME NEW bytes \in Seq(Byte), NEW length \in 0 .. Len(bytes), NEW initial \in Word
  PROVE  checksum_aarch64(bytes, length, initial) = Reference(bytes, length, initial)
<1> DEFINE Set  == [k \in 0 .. length |->
                      {s \in [acc : 0 .. Q - 1, carry : 0 .. 1, ptr : 0 .. length] :
                         /\ Pointer(s.ptr, length, k)
                         /\ s.carry = 0 \/ length - s.ptr < 32
                         /\ [acc |-> s.acc, carry |-> s.carry]
                              \in Accs(Sum(bytes, s.ptr, initial))}]
           b    == [acc |-> Start(initial), carry |-> 0, ptr |-> 0]
           go(s) == IF s.ptr = length THEN s ELSE BlockAarch64(bytes, length, s)
           step == [k \in 1 .. length |-> [s \in Set[k - 1] |-> go(s)]]
           Is(f) == f = [k \in 0 .. length |-> IF k = 0 THEN b ELSE go(f[k - 1])]
<1>0. length \in Nat /\ initial \in Nat
  BY Sizes DEF Word
<1>1. b \in Set[0]
  <2>1. Sum(bytes, 0, initial) = initial
    BY <1>0, SumStep
  <2>2. Pointer(0, length, 0) /\ 0 \in 0 .. length
    BY <1>0 DEF Pointer
  <2>3. Start(initial) \in 0 .. Q - 1
    BY StartSame
  <2>4. [acc |-> Start(initial), carry |-> 0] \in Accs(initial)
    BY StartSame, Sizes DEF Accs
  <2> QED BY <2>1, <2>2, <2>3, <2>4
<1>2. ASSUME NEW k \in 1 .. length, NEW s \in Set[k - 1] PROVE go(s) \in Set[k]
  <2>1. /\ s \in [acc : 0 .. Q - 1, carry : 0 .. 1, ptr : 0 .. length]
        /\ Pointer(s.ptr, length, k - 1)
        /\ s.carry = 0 \/ length - s.ptr < 32
        /\ [acc |-> s.acc, carry |-> s.carry] \in Accs(Sum(bytes, s.ptr, initial))
    OBVIOUS
  <2>2. CASE s.ptr = length
    <3>1. Pointer(s.ptr, length, k)
      BY <2>1, <2>2 DEF Pointer
    <3> QED BY <2>1, <2>2, <3>1
  <2>3. CASE s.ptr # length
    <3> DEFINE n     == Block(length - s.ptr)
               words == Loads(bytes, s.ptr, n)
               acc   == AddBlock(s.acc, words)
               sum   == AdcAll(s.acc, s.carry, words)
    <3>1. /\ s.ptr \in Nat /\ s.ptr % 2 = 0 /\ n \in {32, 16, 8, 4, 2, 1}
          /\ s.ptr + n <= length /\ Pointer(s.ptr + n, length, k)
          /\ length - s.ptr >= 32 => n = 32
      BY <1>0, <2>1, <2>3, PointerStep
    <3>2. go(s) = IF n = 32
                  THEN [acc |-> acc, carry |-> 0, ptr |-> s.ptr + n]
                  ELSE [acc |-> sum.acc, carry |-> sum.carry, ptr |-> s.ptr + n]
      BY <2>3 DEF BlockAarch64
    <3> HIDE DEF n
    <3>3. s.ptr + n \in 0 .. length /\ s.ptr + n <= Len(bytes)
      BY <3>1 DEF Pointer
    <3>4. CASE n = 32
      <4>1. s.carry = 0 /\ s.acc \in 0 .. Q - 1
        BY <2>1, <3>1, <3>4
      <4>2. Same(B * s.acc, Sum(bytes, s.ptr, initial))
        <5>1. Same(B * (s.acc + s.carry), Sum(bytes, s.ptr, initial))
          BY <2>1 DEF Accs
        <5>2. s.acc + s.carry = s.acc
          BY <4>1
        <5> QED BY <5>1, <5>2
      <4>3. acc \in 0 .. Q - 1 /\ Same(B * acc, Sum(bytes, s.ptr + n, initial))
        <5> DEFINE p == s.ptr
                   a == s.acc
        <5>1. p \in Nat /\ p % 2 = 0 /\ n \in {32, 16, 8, 4, 2, 1} /\ p + n <= Len(bytes)
          BY <3>1, <3>3
        <5>2. a \in 0 .. Q - 1 /\ Same(B * a, Sum(bytes, p, initial))
          BY <4>1, <4>2
        <5> HIDE DEF p, a
        <5>3. /\ AddBlock(a, Loads(bytes, p, n)) \in 0 .. Q - 1
              /\ Same(B * AddBlock(a, Loads(bytes, p, n)), Sum(bytes, p + n, initial))
          BY <1>0, <5>1, <5>2, AddBlockSum, SMTT(30)
        <5> QED BY <5>3 DEF p, a
      <4> HIDE DEF acc, sum, go
      <4>4. [acc |-> acc, carry |-> 0] \in Accs(Sum(bytes, s.ptr + n, initial))
        <5>1. acc + 0 = acc
          BY <4>3
        <5> QED BY <4>3, <5>1, Sizes DEF Accs
      <4> QED BY <3>1, <3>2, <3>3, <3>4, <4>3, <4>4
    <3>5. CASE n # 32
      <4>1. sum \in Accs(Sum(bytes, s.ptr + n, initial))
        BY <1>0, <2>1, <3>1, <3>3, AdcBlock, SMTT(30)
      <4> HIDE DEF acc, sum, go
      <4>2. sum \in [acc : 0 .. Q - 1, carry : 0 .. 1]
        BY <4>1 DEF Accs
      <4>3. sum = [acc |-> sum.acc, carry |-> sum.carry]
        BY <4>2
      <4>4. length - (s.ptr + n) < 32
        BY <1>0, <3>1, <3>5
      <4> QED BY <3>1, <3>2, <3>3, <3>5, <4>1, <4>2, <4>3, <4>4, SMTT(30)
    <3> QED BY <3>4, <3>5
  <2> QED BY <2>2, <2>3
<1>3. Steps(length, Set, b, step)
  <2> HIDE DEF Set, b, go
  <2> QED BY <1>1, <1>2 DEF Steps
<1>4. PICK f : IsRun(f, length, Set, b, step)
  <2> HIDE DEF Set, b, step
  <2> QED BY <1>0, <1>3, Recursion, Zenon
<1>5. ASSUME NEW k \in 1 .. length, NEW g, g[k - 1] \in Set[k - 1]
      PROVE  step[k][g[k - 1]] = go(g[k - 1])
  <2> HIDE DEF Set, go
  <2> QED BY <1>5
<1>6. Is(f)
  <2> HIDE DEF Set, step, b, go
  <2>1. f = [k \in 0 .. length |-> f[k]] /\ f[0] = b
    BY <1>4 DEF IsRun
  <2>2. ASSUME NEW k \in 1 .. length PROVE f[k] = go(f[k - 1])
    <3>1. k - 1 \in 0 .. length
      OBVIOUS
    <3>2. f[k] = step[k][f[k - 1]] /\ f[k - 1] \in Set[k - 1]
      BY <1>4, <3>1 DEF IsRun
    <3> QED BY <1>5, <3>2
  <2>3. ASSUME NEW k \in 0 .. length
        PROVE  f[k] = IF k = 0 THEN b ELSE go(f[k - 1])
    <3>1. CASE k = 0
      BY <2>1, <3>1, Zenon
    <3>2. CASE k # 0
      <4>1. k \in 1 .. length
        BY <3>2
      <4> QED BY <2>2, <3>2, <4>1, Zenon
    <3> QED BY <3>1, <3>2
  <2> QED BY <2>1, <2>3
<1> DEFINE run[k \in 0 .. length] ==
             IF k = 0 THEN [acc |-> Start(initial), carry |-> 0, ptr |-> 0]
             ELSE LET last == run[k - 1]
                  IN  IF last.ptr = length THEN last ELSE BlockAarch64(bytes, length, last)
<1>7. run = CHOOSE g : Is(g)
  BY DEF run
<1>8. Is(run)
  <2> HIDE DEF run, Is
  <2> QED BY <1>6, <1>7, Zenon
<1>9. checksum_aarch64(bytes, length, initial) 
        = ntohs(Not16(FoldAarch64(run[length].acc, run[length].carry)))
  BY DEF checksum_aarch64
<1> HIDE DEF run
<1>10. run[length] \in Set[length]
  <2> HIDE DEF Set, step, b, go
  <2>1. run[0] = b
    BY <1>0, <1>8
  <2>2. ASSUME NEW k \in 1 .. length, run[k - 1] \in Set[k - 1]
        PROVE  run[k] = step[k][run[k - 1]]
    <3>1. run[k] = go(run[k - 1])
      BY <1>8
    <3> QED BY <1>5, <2>2, <3>1
  <2>3. \A k \in 0 .. length : run[k] \in Set[k]
    BY <1>0, <1>3, <2>1, <2>2, RecursionIn
  <2> QED BY <1>0, <2>3
<1> DEFINE acc   == run[length].acc
           carry == run[length].carry
           fold  == FoldAarch64(acc, carry)
<1>11. /\ acc \in Nat /\ carry \in 0 .. 1 /\ acc + carry <= Q - 1
       /\ Same(B * (acc + carry), Sum(bytes, length, initial))
  <2>1. /\ run[length].ptr = length
        /\ [acc |-> acc, carry |-> carry] \in Accs(Sum(bytes, length, initial))
    BY <1>0, <1>10 DEF Pointer
  <2> HIDE DEF acc, carry
  <2> QED BY <2>1 DEF Accs
<1> HIDE DEF acc, carry
<1>12. fold \in Word /\ Same(fold, acc + carry)
  BY <1>11, FoldAarch64Same
<1>13. Sum(bytes, length, initial) \in Nat
  BY <1>0, SumStep
<1>14. Same(B * fold, Sum(bytes, length, initial))
  <2> HIDE DEF fold
  <2>1. acc + carry \in Nat /\ fold \in Nat /\ B \in Nat /\ B > 0
    BY <1>11, <1>12, Sizes DEF Word
  <2>2. Same(B * fold, B * (acc + carry)) /\ B * (acc + carry) \in Nat /\ B * fold \in Nat
    BY <1>12, <2>1, SameTimes
  <2> QED BY <1>11, <1>13, <2>2, SameTrans
<1>15. ntohs(Not16(fold)) = Reference(bytes, length, initial)
  <2> HIDE DEF fold
  <2> QED BY <1>12, <1>13, <1>14, Finish DEF Reference
<1> QED BY <1>9, <1>15 DEF acc, carry

\* checksum_rust() folds a sum to its ones' complement sum.
LEMMA FoldSum ==
  ASSUME NEW csum \in Nat PROVE Fold(csum) = OnesComplement(csum)
<1> DEFINE less(c) == (c % W) + (c \div W)
           Is(f) == f = [c \in 0 .. csum |-> IF c \div W = 0 THEN c ELSE f[less(c)]]
<1>1. ASSUME NEW c \in 0 .. csum
      PROVE  /\ c \div W = 0 => OnesComplement(c) = c
             /\ c \div W # 0 => /\ less(c) \in 0 .. csum /\ less(c) < c
                                /\ OnesComplement(less(c)) = OnesComplement(c)
  <2> DEFINE q == c \div W
             r == c % W
  <2>1. q \in Nat /\ r \in 0 .. W - 1 /\ c = W * q + r /\ c \in Nat /\ W \in Nat
    <3>1. c \in Nat /\ W \in Nat \ {0}
      BY Sizes
    <3> QED BY <3>1, DivMod
  <2> HIDE DEF q, r
  <2>2. ASSUME q = 0 PROVE OnesComplement(c) = c
    <3>1. W * q = 0
      BY <2>1, <2>2
    <3>2. c \in Word
      BY <2>1, <3>1 DEF Word
    <3> QED BY <2>1, <3>2, SameRefl, OnesComplementUnique
  <2>3. ASSUME q # 0
        PROVE  /\ r + q \in 0 .. csum /\ r + q < c
               /\ OnesComplement(r + q) = OnesComplement(c)
    <3>1. W * q > q
      <4>1. W * q = q + (W - 1) * q /\ (W - 1) * q > 0
        BY <2>1, <2>3, Sizes
      <4> QED BY <2>1, <4>1
    <3>2. r + q \in Nat /\ r \in Nat /\ W * q \in Nat
      BY <2>1
    <3>3. Same(r + q, c)
      <4>1. Same(r, r) /\ Same(q, W * q)
        BY <2>1, <3>2, SameWord, SameRefl, SameSym
      <4>2. Same(r + q, r + W * q)
        BY <2>1, <3>2, <4>1, SameAdd
      <4>3. r + W * q = c
        BY <2>1, <3>2
      <4> QED BY <4>2, <4>3
    <3>4. OnesComplement(c) \in Word /\ Same(c, OnesComplement(c))
      BY <2>1, SameOnesComplement
    <3>5. Same(OnesComplement(c), r + q)
      <4>1. OnesComplement(c) \in Nat
        BY <3>4, Sizes DEF Word
      <4>2. Same(r + q, OnesComplement(c))
        BY <2>1, <3>2, <3>3, <3>4, <4>1, SameTrans
      <4> QED BY <3>2, <4>1, <4>2, SameSym
    <3>6. OnesComplement(r + q) = OnesComplement(c)
      BY <3>2, <3>4, <3>5, OnesComplementUnique
    <3>7. r + q < c
      BY <2>1, <3>1, <3>2
    <3> QED BY <2>1, <3>2, <3>6, <3>7
  <2> QED BY <2>2, <2>3 DEF q, r
<1> DEFINE g == [c \in 0 .. csum |-> OnesComplement(c)]
<1>2. Is(g)
  <2> HIDE DEF less
  <2>1. ASSUME NEW c \in 0 .. csum
        PROVE  g[c] = IF c \div W = 0 THEN c ELSE g[less(c)]
    BY <1>1
  <2>2. g = [c \in 0 .. csum |-> g[c]]
    OBVIOUS
  <2> HIDE DEF g
  <2> QED BY <2>1, <2>2
<1> DEFINE fold[c \in 0 .. csum] ==
             IF c \div W = 0 THEN c ELSE fold[(c % W) + (c \div W)]
<1>3. fold = CHOOSE f : Is(f)
  BY DEF fold
<1>4. Is(fold)
  <2> HIDE DEF fold, Is, g
  <2> QED BY <1>2, <1>3, Zenon
<1>5. Fold(csum) = fold[csum]
  BY DEF Fold
<1> HIDE DEF fold, less
<1>6. ASSUME NEW c \in 0 .. csum
      PROVE  fold[c] = IF c \div W = 0 THEN c ELSE fold[less(c)]
  BY <1>4
<1> DEFINE T == {c \in 0 .. csum : fold[c] # OnesComplement(c)}
<1>7. T = {}
  <2> SUFFICES ASSUME T # {} PROVE FALSE
    OBVIOUS
  <2>1. PICK c \in T : \A y \in T : c <= y
    <3>1. T \subseteq Nat
      OBVIOUS
    <3> HIDE DEF T
    <3> QED BY <3>1, LeastElement
  <2>2. c \in 0 .. csum /\ fold[c] # OnesComplement(c)
    BY <2>1
  <2>3. c \div W # 0
    BY <1>1, <1>6, <2>2
  <2>4. /\ less(c) \in 0 .. csum /\ less(c) < c
        /\ OnesComplement(less(c)) = OnesComplement(c)
    BY <1>1, <2>2, <2>3
  <2>5. fold[c] = fold[less(c)]
    BY <1>6, <2>2, <2>3
  <2>6. less(c) \notin T
    <3>1. ~(c <= less(c))
      BY <2>2, <2>4
    <3> HIDE DEF T
    <3> QED BY <2>1, <3>1
  <2>7. fold[less(c)] = OnesComplement(less(c))
    BY <2>4, <2>6
  <2> QED BY <2>2, <2>4, <2>5, <2>7
<1> QED BY <1>5, <1>7

\* What checksum_rust() has summed of the last i bytes, in two steps at a time.
IsCsum(f, bytes, length) ==
  f = [i \in 0 .. length |-> CASE i > 1 -> Load(bytes, length - i, 2) + f[i - 2]
                               [] i = 1 -> bytes[length]
                               [] i = 0 -> 0]

\* The function of checksum_rust() exists.
LEMMA CsumExists ==
  ASSUME NEW bytes \in Seq(Byte), NEW length \in 0 .. Len(bytes)
  PROVE  \E f : IsCsum(f, bytes, length)
<1> DEFINE Set  == [k \in 0 .. length |-> Nat \X Nat]
           new1(k, x) == IF k = 1 THEN bytes[length] ELSE Load(bytes, length - k, 2) + x
           step == [k \in 1 .. length |-> [s \in Nat \X Nat |-> <<new1(k, s[2]), s[1]>>]]
<1>1. length \in Nat /\ <<0, 0>> \in Set[0]
  OBVIOUS
<1>2. ASSUME NEW k \in 1 .. length, NEW s \in Set[k - 1] PROVE step[k][s] \in Set[k]
  <2>1. s \in Nat \X Nat /\ s[1] \in Nat /\ s[2] \in Nat
    OBVIOUS
  <2>2. new1(k, s[2]) \in Nat
    <3>1. CASE k = 1
      <4>1. length \in 1 .. Len(bytes)
        BY <3>1
      <4> QED BY <3>1, <4>1, Sizes DEF Byte
    <3>2. CASE k # 1
      <4>1. length - k \in Nat /\ (length - k) + 2 <= Len(bytes) /\ 2 \in Nat
        BY <3>2
      <4>2. Load(bytes, length - k, 2) \in Nat
        BY <4>1, LoadNat
      <4> QED BY <2>1, <3>2, <4>2
    <3> QED BY <3>1, <3>2
  <2>3. step[k][s] = <<new1(k, s[2]), s[1]>> /\ Set[k] = Nat \X Nat
    BY <2>1
  <2> HIDE DEF new1, step, Set
  <2> QED BY <2>1, <2>2, <2>3
<1>3. PICK f : IsRun(f, length, Set, <<0, 0>>, step)
  <2> HIDE DEF Set, step
  <2>1. Steps(length, Set, <<0, 0>>, step)
    BY <1>1, <1>2 DEF Steps
  <2> QED BY <1>1, <2>1, Recursion, Zenon
<1>4. ASSUME NEW k \in 1 .. length
      PROVE  f[k][1] = new1(k, f[k - 1][2]) /\ f[k][2] = f[k - 1][1]
  <2>1. f[k] = step[k][f[k - 1]] /\ f[k - 1] \in Nat \X Nat
    <3>1. k - 1 \in 0 .. length
      OBVIOUS
    <3>2. f[k] = step[k][f[k - 1]] /\ f[k - 1] \in Set[k - 1]
      <4> HIDE DEF Set, step
      <4> QED BY <1>3, <3>1 DEF IsRun
    <3> QED BY <3>1, <3>2
  <2> HIDE DEF new1
  <2> QED BY <2>1
<1> DEFINE g == [i \in 0 .. length |-> f[i][1]]
<1>5. ASSUME NEW i \in 0 .. length
      PROVE  g[i] = CASE i > 1 -> Load(bytes, length - i, 2) + g[i - 2]
                      [] i = 1 -> bytes[length]
                      [] i = 0 -> 0
  <2>1. CASE i = 0
    <3>1. f[0] = <<0, 0>>
      BY <1>3 DEF IsRun
    <3> QED BY <2>1, <3>1
  <2>2. CASE i = 1
    BY <1>4, <2>2
  <2>3. CASE i > 1
    <3>1. i \in 1 .. length /\ i - 1 \in 1 .. length /\ (i - 1) - 1 = i - 2 /\ i - 2 \in 0 .. length
      BY <2>3
    <3>2. f[i][1] = new1(i, f[i - 1][2]) /\ f[i - 1][2] = f[i - 2][1]
      <4> HIDE DEF new1
      <4>1. f[i][1] = new1(i, f[i - 1][2])
        BY <1>4, <3>1
      <4>2. f[i - 1][2] = f[(i - 1) - 1][1]
        BY <1>4, <3>1, Zenon
      <4> QED BY <3>1, <4>1, <4>2
    <3> QED BY <2>3, <3>1, <3>2
  <2> QED BY <2>1, <2>2, <2>3
<1>6. IsCsum(g, bytes, length)
  <2>1. g = [i \in 0 .. length |-> g[i]]
    OBVIOUS
  <2> HIDE DEF g
  <2> QED BY <1>5, <2>1 DEF IsCsum
<1> QED BY <1>6

\* What it sums makes up the rest of the sum.
LEMMA CsumSum ==
  ASSUME NEW bytes \in Seq(Byte), NEW length \in 0 .. Len(bytes),
         NEW f, IsCsum(f, bytes, length)
  PROVE  f[length] \in Nat /\ Same(B * f[length], Sum(bytes, length, 0))
<1> DEFINE all  == Sum(bytes, length, 0)
           C(i) == /\ f[i] \in Nat
                   /\ (length - i) % 2 = 0 =>
                        Same(Sum(bytes, length - i, 0) + B * f[i], all)
           T    == {i \in 0 .. length : C(i) /\ (i >= 1 => C(i - 1))}
<1>0. length \in Nat /\ all \in Nat
  BY SumStep
<1>1. C(0)
  <2>1. f[0] = 0 /\ length - 0 = length /\ B * 0 = 0
    <3>1. 0 \in 0 .. length /\ ~(0 > 1)
      BY <1>0
    <3>2. f[0] = CASE 0 > 1 -> Load(bytes, length - 0, 2) + f[0 - 2]
                   [] 0 = 1 -> bytes[length]
                   [] 0 = 0 -> 0
      BY <3>1, Zenon DEF IsCsum
    <3>3. f[0] = 0
      BY <3>2
    <3> QED BY <1>0, <3>3, Sizes
  <2>2. Sum(bytes, length - 0, 0) + B * f[0] = all
    BY <1>0, <2>1
  <2> QED BY <1>0, <2>1, <2>2, SameRefl
<1>2. ASSUME length >= 1 PROVE C(1)
  <2>1. f[1] = bytes[length] /\ length \in 1 .. Len(bytes)
    BY <1>0, <1>2 DEF IsCsum
  <2>2. bytes[length] \in Nat
    BY <2>1, Sizes DEF Byte
  <2>3. ASSUME (length - 1) % 2 = 0
        PROVE  Same(Sum(bytes, length - 1, 0) + B * f[1], all)
    <3>1. length % 2 = 1
      BY <1>0, <2>3
    <3>2. all = Sum(bytes, length - 1, 0) + bytes[length] * Weight(length)
      BY <2>1, SumStep
    <3>3. Weight(length) = B /\ bytes[length] * B = B * bytes[length]
      BY <2>2, <3>1, Sizes DEF Weight
    <3> QED BY <1>0, <2>1, <3>2, <3>3, SameRefl
  <2> QED BY <2>1, <2>2, <2>3
<1>3. ASSUME NEW i \in 2 .. length, C(i - 2) PROVE C(i)
  <2> DEFINE p == length - i
             y == Load(bytes, p, 2)
             c == f[i - 2]
             before == Sum(bytes, p, 0)
             after  == Sum(bytes, p + 2, 0)
  <2>1. f[i] = y + c
    <3>1. i \in 0 .. length /\ i > 1 /\ i # 1 /\ i # 0
      BY <1>0
    <3>2. f[i] = CASE i > 1 -> Load(bytes, length - i, 2) + f[i - 2]
                   [] i = 1 -> bytes[length]
                   [] i = 0 -> 0
      BY <3>1, Zenon DEF IsCsum
    <3> QED BY <3>1, <3>2
  <2>2. p \in Nat /\ p + 2 <= Len(bytes) /\ p + 2 = length - (i - 2) /\ p \in 0 .. Len(bytes)
        /\ p + 2 \in 0 .. Len(bytes) /\ 2 \in {1, 2, 4, 8}
    BY <1>0
  <2>3. y \in Nat /\ c \in Nat /\ before \in Nat /\ after \in Nat
    <3>1. c \in Nat
      BY <1>3
    <3> HIDE DEF p, c
    <3>2. y \in Nat
      BY <2>2, LoadNat
    <3>3. before \in Nat /\ after \in Nat
      BY <2>2, SumStep
    <3> QED BY <3>1, <3>2, <3>3
  <2>4. ASSUME p % 2 = 0 PROVE Same(before + B * f[i], all)
    <3>1. (length - (i - 2)) % 2 = 0
      BY <1>0, <2>4
    <3>2. Same(after + B * c, all)
      BY <1>3, <2>2, <3>1
    <3> HIDE DEF p
    <3>3. Same(before + B * y, after)
      BY <2>2, <2>4, LoadSum
    <3> HIDE DEF y, c, before, after, all
    <3>4. B * y \in Nat /\ B * c \in Nat
      BY <2>3, Sizes
    <3>5. Same((before + B * y) + B * c, after + B * c)
      <4>1. before + B * y \in Nat
        BY <2>3, <3>4
      <4> QED BY <2>3, <3>3, <3>4, <4>1, SameRefl, SameAdd
    <3>6. before + B * f[i] = (before + B * y) + B * c
      <4>1. B * (y + c) = B * y + B * c
        BY <2>3, Sizes
      <4> QED BY <2>1, <2>3, <3>4, <4>1
    <3>7. (before + B * y) + B * c \in Nat /\ after + B * c \in Nat
      BY <2>3, <3>4
    <3>8. Same((before + B * y) + B * c, all)
      BY <1>0, <3>2, <3>5, <3>7, SameTrans
    <3> QED BY <3>6, <3>8
  <2>5. f[i] \in Nat
    BY <2>1, <2>3
  <2> QED BY <2>4, <2>5
<1> HIDE DEF C
<1>4. 0 \in T
  BY <1>0, <1>1
<1>5. ASSUME NEW k \in 1 .. length, k - 1 \in T PROVE k \in T
  <2>1. C(k - 1)
    BY <1>5
  <2>2. C(k)
    <3>1. CASE k = 1
      BY <1>0, <1>2, <3>1
    <3>2. CASE k # 1
      <4>1. k \in 2 .. length /\ (k - 1) - 1 = k - 2
        BY <1>0, <3>2
      <4>2. C((k - 1) - 1)
        BY <1>5, <4>1
      <4> QED BY <1>3, <4>1, <4>2
    <3> QED BY <3>1, <3>2
  <2> QED BY <2>1, <2>2
<1> HIDE DEF T
<1>6. 0 .. length \subseteq T
  BY <1>0, <1>4, <1>5, Induction
<1>7. C(length)
  BY <1>6 DEF T
<1>8. f[length] \in Nat /\ Same(Sum(bytes, 0, 0) + B * f[length], all)
  <2>1. length - length = 0 /\ 0 % 2 = 0
    BY <1>0
  <2> QED BY <1>7, <2>1 DEF C
<1>9. Sum(bytes, 0, 0) = 0 /\ B * f[length] \in Nat
  <2>1. B * f[length] \in Nat
    BY <1>8, Sizes
  <2> QED BY <2>1, SumStep
<1>10. Sum(bytes, 0, 0) + B * f[length] = B * f[length]
  BY <1>9
<1> QED BY <1>8, <1>10

\* And so does checksum_rust(), from zero: all three agree on every input.
THEOREM ChecksumRust ==
  ASSUME NEW bytes \in Seq(Byte), NEW length \in 0 .. Len(bytes)
  PROVE  checksum_rust(bytes, length) = Reference(bytes, length, 0)
<1> DEFINE csum[i \in 0 .. length] ==
             CASE i > 1 -> Load(bytes, length - i, 2) + csum[i - 2]
               [] i = 1 -> bytes[length]
               [] i = 0 -> 0
<1>1. csum = CHOOSE f : IsCsum(f, bytes, length)
  BY DEF csum, IsCsum
<1>2. checksum_rust(bytes, length) = ntohs(Not16(Fold(csum[length])))
  BY DEF checksum_rust
<1> HIDE DEF csum
<1>3. IsCsum(csum, bytes, length)
  BY <1>1, CsumExists, Zenon
<1> DEFINE c == csum[length]
           w == OnesComplement(c)
           s == Sum(bytes, length, 0)
<1>4. c \in Nat /\ Same(B * c, s)
  BY <1>3, CsumSum
<1>5. s \in Nat
  BY SumStep
<1> HIDE DEF c, s
<1>6. Fold(c) = w /\ w \in Word /\ Same(c, w)
  BY <1>4, FoldSum, SameOnesComplement
<1> HIDE DEF w
<1>7. Same(B * w, s)
  <2>1. w \in Nat /\ B \in Nat /\ B > 0
    BY <1>6, Sizes DEF Word
  <2>2. Same(w, c)
    BY <1>4, <1>6, <2>1, SameSym
  <2>3. Same(B * w, B * c) /\ B * w \in Nat /\ B * c \in Nat
    BY <1>4, <2>1, <2>2, SameTimes
  <2> QED BY <1>4, <1>5, <2>3, SameTrans
<1>8. ntohs(Not16(w)) = Not16(OnesComplement(s))
  BY <1>5, <1>6, <1>7, Finish
<1> QED BY <1>2, <1>6, <1>8 DEF Reference, c, s

-----------------------------------------------------------------------------
(* Headers.                                                                *)

\* Memory that has room for a header.
HeaderMemory == {h \in Seq(Byte) : Len(h) >= size_of}

\* A function on 1 .. n is a sequence.
LEMMA SequenceOfFunction ==
  ASSUME NEW n \in Nat, NEW f \in [1 .. n -> Byte]
  PROVE  f \in Seq(Byte) /\ Len(f) = n
OBVIOUS

\* Six bytes copied change those six.
LEMMA CopyAddress ==
  ASSUME NEW h \in HeaderMemory, NEW at \in {0, 6}, NEW a \in MacAddress
  PROVE  LET c == copy(h, at, 6, a, 6)
         IN  /\ c \in HeaderMemory /\ Len(c) = Len(h)
             /\ \A i \in 1 .. Len(h) : c[i] = IF i - at \in 1 .. 6 THEN a[i - at] ELSE h[i]
<1> DEFINE c == copy(h, at, 6, a, 6)
<1>1. a \in [1 .. 6 -> Byte] /\ Len(a) = 6
  BY SequenceOfFunction DEF MacAddress
<1>2. h \in Seq(Byte) /\ Len(h) \in Nat /\ Len(h) >= size_of /\ DOMAIN h = 1 .. Len(h)
  BY DEF HeaderMemory
<1>3. c = [i \in 1 .. Len(h) |-> IF i - at \in 1 .. 6 THEN a[i - at] ELSE h[i]]
  <2>1. Smaller(6, Smaller(Len(a), 6)) = 6
    BY <1>1 DEF Smaller
  <2> QED BY <1>2, <2>1 DEF copy
<1> HIDE DEF c
<1>4. ASSUME NEW i \in 1 .. Len(h)
      PROVE  (IF i - at \in 1 .. 6 THEN a[i - at] ELSE h[i]) \in Byte
  BY <1>1, <1>2
<1>5. c \in [1 .. Len(h) -> Byte]
  BY <1>3, <1>4
<1>6. c \in Seq(Byte) /\ Len(c) = Len(h)
  BY <1>2, <1>5, SequenceOfFunction
<1> QED BY <1>2, <1>3, <1>6 DEF c, HeaderMemory

\* What the accessors return, as fields.
LEMMA FieldsOf ==
  ASSUME NEW h \in HeaderMemory
  PROVE  /\ dst(h) = Fields(h).dst /\ dst(h) \in MacAddress
         /\ src(h) = Fields(h).src /\ src(h) \in MacAddress
         /\ ethertype(h) = Fields(h).ethertype /\ ethertype(h) \in Word
<1>1. h \in Seq(Byte) /\ Len(h) \in Nat /\ Len(h) >= 14
  BY DEF HeaderMemory, size_of
<1>2. dst(h) = [k \in 1 .. 6 |-> h[k]] /\ dst(h) \in MacAddress
  <2>1. dst(h) = [k \in 1 .. 6 |-> h[k]]
    BY <1>1 DEF dst
  <2>2. \A k \in 1 .. 6 : h[k] \in Byte
    BY <1>1
  <2> QED BY <2>1, <2>2 DEF MacAddress
<1>3. src(h) = [k \in 1 .. 6 |-> h[k + 6]] /\ src(h) \in MacAddress
  <2>1. src(h) = [k \in 1 .. 6 |-> h[k + 6]]
    BY <1>1 DEF src
  <2>2. \A k \in 1 .. 6 : h[k + 6] \in Byte
    BY <1>1
  <2> QED BY <2>1, <2>2 DEF MacAddress
<1>4. ethertype(h) = h[13] * B + h[14] /\ ethertype(h) \in Word
  <2>1. h[13] \in Byte /\ h[14] \in Byte
    BY <1>1
  <2>2. PICK f : /\ IsLoad(f, h, 12, 2) /\ f[0] = Load(h, 12, 2)
                 /\ \A k \in 0 .. 2 : f[k] \in Nat
    BY <1>1, LoadExists
  <2>3. f[2] = 0
    BY <2>2 DEF IsLoad
  <2>4. f[0] = h[12 + 0 + 1] + B * (h[12 + 0 + 2] + B * f[0 + 2])
    BY <1>1, <2>2, LoadPair
  <2>5. f[0] = h[13] + B * (h[14] + B * 0)
    BY <2>3, <2>4
  <2> DEFINE hi == h[13]
             lo == h[14]
  <2>6. hi \in Byte /\ lo \in Byte /\ f[0] = hi + B * (lo + B * 0)
    BY <2>1, <2>5
  <2> HIDE DEF hi, lo
  <2>7. f[0] = B * lo + hi /\ B * hi + lo = hi * B + lo
    BY <2>6, Sizes DEF Byte
  <2>8. ntohs(f[0]) = B * hi + lo /\ B * hi + lo \in Word
    BY <2>6, <2>7, WordOfBytes
  <2> QED BY <2>2, <2>7, <2>8 DEF ethertype, hi, lo
<1> QED BY <1>2, <1>3, <1>4 DEF Fields

\* set_dst(), set_src() and swap().
LEMMA SetDstFields ==
  ASSUME NEW h \in HeaderMemory, NEW a \in MacAddress
  PROVE  /\ set_dst(h, a) \in HeaderMemory /\ Len(set_dst(h, a)) = Len(h)
         /\ Fields(set_dst(h, a)) = [Fields(h) EXCEPT !.dst = a]
         /\ \A i \in 7 .. Len(h) : set_dst(h, a)[i] = h[i]
<1> DEFINE c == copy(h, 0, 6, a, 6)
<1>1. /\ c \in HeaderMemory /\ Len(c) = Len(h)
      /\ \A i \in 1 .. Len(h) : c[i] = IF i - 0 \in 1 .. 6 THEN a[i - 0] ELSE h[i]
  BY CopyAddress
<1>2. set_dst(h, a) = c
  BY DEF set_dst
<1> HIDE DEF c
<1>3. Len(h) \in Nat /\ Len(h) >= 14
  BY DEF HeaderMemory, size_of
<1>4. (\A k \in 1 .. 6 : c[k] = a[k]) /\ \A i \in 7 .. Len(h) : c[i] = h[i]
  BY <1>1, <1>3
<1>5. a = [k \in 1 .. 6 |-> a[k]]
  BY DEF MacAddress
<1>6. [k \in 1 .. 6 |-> c[k]] = a
  BY <1>4, <1>5
<1>7. [k \in 1 .. 6 |-> c[k + 6]] = [k \in 1 .. 6 |-> h[k + 6]]
  BY <1>3, <1>4
<1>8. c[13] = h[13] /\ c[14] = h[14]
  BY <1>3, <1>4
<1>9. Fields(c) = [dst |-> a, src |-> [k \in 1 .. 6 |-> h[k + 6]],
                   ethertype |-> h[13] * B + h[14]]
  BY <1>6, <1>7, <1>8 DEF Fields
<1>10. [Fields(h) EXCEPT !.dst = a] = [dst |-> a, src |-> [k \in 1 .. 6 |-> h[k + 6]],
                                       ethertype |-> h[13] * B + h[14]]
  <2> DEFINE x == [k \in 1 .. 6 |-> h[k]]
             y == [k \in 1 .. 6 |-> h[k + 6]]
             z == h[13] * B + h[14]
  <2>1. Fields(h) = [dst |-> x, src |-> y, ethertype |-> z]
    BY DEF Fields
  <2> HIDE DEF x, y, z
  <2>2. [[dst |-> x, src |-> y, ethertype |-> z] EXCEPT !.dst = a] = [dst |-> a, src |-> y, ethertype |-> z]
    OBVIOUS
  <2> QED BY <2>1, <2>2 DEF y, z
<1> QED BY <1>1, <1>2, <1>4, <1>9, <1>10

\* set_src() changes the source address and nothing else.
LEMMA SetSrcFields ==
  ASSUME NEW h \in HeaderMemory, NEW a \in MacAddress
  PROVE  /\ set_src(h, a) \in HeaderMemory /\ Len(set_src(h, a)) = Len(h)
         /\ Fields(set_src(h, a)) = [Fields(h) EXCEPT !.src = a]
         /\ \A i \in 13 .. Len(h) : set_src(h, a)[i] = h[i]
<1> DEFINE c == copy(h, 6, 6, a, 6)
<1>1. /\ c \in HeaderMemory /\ Len(c) = Len(h)
      /\ \A i \in 1 .. Len(h) : c[i] = IF i - 6 \in 1 .. 6 THEN a[i - 6] ELSE h[i]
  BY CopyAddress
<1>2. set_src(h, a) = c
  BY DEF set_src
<1> HIDE DEF c
<1>3. Len(h) \in Nat /\ Len(h) >= 14
  BY DEF HeaderMemory, size_of
<1>4. /\ \A k \in 1 .. 6 : c[k + 6] = a[k] /\ c[k] = h[k]
      /\ \A i \in 13 .. Len(h) : c[i] = h[i]
  <2>1. ASSUME NEW k \in 1 .. 6 PROVE c[k + 6] = a[k]
    <3>1. k + 6 \in 1 .. Len(h) /\ (k + 6) - 6 = k
      BY <1>3
    <3> QED BY <1>1, <3>1
  <2> QED BY <1>1, <1>3, <2>1, SMTT(30)
<1>5. a = [k \in 1 .. 6 |-> a[k]]
  BY DEF MacAddress
<1>6. [k \in 1 .. 6 |-> c[k + 6]] = a
  BY <1>4, <1>5
<1>7. [k \in 1 .. 6 |-> c[k]] = [k \in 1 .. 6 |-> h[k]]
  BY <1>4
<1>8. c[13] = h[13] /\ c[14] = h[14]
  BY <1>3, <1>4
<1>9. Fields(c) = [dst |-> [k \in 1 .. 6 |-> h[k]], src |-> a,
                   ethertype |-> h[13] * B + h[14]]
  BY <1>6, <1>7, <1>8 DEF Fields
<1>10. [Fields(h) EXCEPT !.src = a] = [dst |-> [k \in 1 .. 6 |-> h[k]], src |-> a,
                                       ethertype |-> h[13] * B + h[14]]
  <2> DEFINE x == [k \in 1 .. 6 |-> h[k]]
             y == [k \in 1 .. 6 |-> h[k + 6]]
             z == h[13] * B + h[14]
  <2>1. Fields(h) = [dst |-> x, src |-> y, ethertype |-> z]
    BY DEF Fields
  <2> HIDE DEF x, y, z
  <2>2. [[dst |-> x, src |-> y, ethertype |-> z] EXCEPT !.src = a] = [dst |-> x, src |-> a, ethertype |-> z]
    OBVIOUS
  <2> QED BY <2>1, <2>2 DEF x, z
<1> QED BY <1>1, <1>2, <1>4, <1>9, <1>10

\* swap() exchanges the addresses and changes nothing else.
LEMMA SwapFields ==
  ASSUME NEW h \in HeaderMemory
  PROVE  /\ swap(h) \in HeaderMemory /\ Len(swap(h)) = Len(h)
         /\ Fields(swap(h)) = [Fields(h) EXCEPT !.dst = Fields(h).src,
                                                !.src = Fields(h).dst]
         /\ \A i \in 15 .. Len(h) : swap(h)[i] = h[i]
<1> DEFINE h1 == set_dst(h, src(h))
<1>1. swap(h) = set_src(h1, dst(h))
  BY DEF swap, set_dst, set_src
<1>2. /\ dst(h) = Fields(h).dst /\ dst(h) \in MacAddress
      /\ src(h) = Fields(h).src /\ src(h) \in MacAddress
  BY FieldsOf
<1>3. /\ h1 \in HeaderMemory /\ Len(h1) = Len(h)
      /\ Fields(h1) = [Fields(h) EXCEPT !.dst = src(h)]
      /\ \A i \in 7 .. Len(h) : h1[i] = h[i]
  BY <1>2, SetDstFields
<1> HIDE DEF h1
<1>4. /\ set_src(h1, dst(h)) \in HeaderMemory /\ Len(set_src(h1, dst(h))) = Len(h1)
      /\ Fields(set_src(h1, dst(h))) = [Fields(h1) EXCEPT !.src = dst(h)]
      /\ \A i \in 13 .. Len(h1) : set_src(h1, dst(h))[i] = h1[i]
  BY <1>2, <1>3, SetSrcFields
<1>5. \A i \in 15 .. Len(h) : swap(h)[i] = h[i]
  <2>1. Len(h) \in Nat
    BY DEF HeaderMemory
  <2> QED BY <1>1, <1>3, <1>4, <2>1
<1>6. Fields(swap(h)) = [Fields(h) EXCEPT !.dst = Fields(h).src, !.src = Fields(h).dst]
  BY <1>1, <1>2, <1>3, <1>4 DEF Fields
<1> QED BY <1>1, <1>3, <1>4, <1>5, <1>6

\* set_ethertype().
LEMMA SetTypeFields ==
  ASSUME NEW h \in HeaderMemory, NEW t \in Word
  PROVE  /\ set_ethertype(h, t) \in HeaderMemory /\ Len(set_ethertype(h, t)) = Len(h)
         /\ Fields(set_ethertype(h, t)) = [Fields(h) EXCEPT !.ethertype = t]
         /\ \A i \in 15 .. Len(h) : set_ethertype(h, t)[i] = h[i]
<1> DEFINE c == set_ethertype(h, t)
<1>1. PICK hi \in Byte, lo \in Byte : t = B * hi + lo
  BY BytesOfWord
<1>2. ntohs(t) = B * lo + hi /\ ntohs(t) % B = hi /\ ntohs(t) \div B = lo
  BY <1>1, WordOfBytes
<1>3. h \in Seq(Byte) /\ Len(h) \in Nat /\ Len(h) >= 14
  BY DEF HeaderMemory, size_of
<1>4. c = [h EXCEPT ![13] = hi, ![14] = lo]
  BY <1>2 DEF set_ethertype
<1> HIDE DEF c
<1>5. c \in Seq(Byte) /\ Len(c) = Len(h)
  BY <1>3, <1>4
<1>6. c[13] = hi /\ c[14] = lo /\ \A i \in 1 .. Len(h) : i # 13 /\ i # 14 => c[i] = h[i]
  BY <1>3, <1>4
<1>7. [k \in 1 .. 6 |-> c[k]] = [k \in 1 .. 6 |-> h[k]]
  BY <1>3, <1>6, SMTT(30)
<1>8. [k \in 1 .. 6 |-> c[k + 6]] = [k \in 1 .. 6 |-> h[k + 6]]
  <2>1. ASSUME NEW k \in 1 .. 6 PROVE c[k + 6] = h[k + 6]
    <3>1. k + 6 \in 1 .. Len(h) /\ k + 6 # 13 /\ k + 6 # 14
      BY <1>3
    <3> QED BY <1>6, <3>1
  <2> QED BY <2>1
<1>9. hi * B + lo = t
  BY <1>1, Sizes DEF Byte
<1>10. Fields(c) = [Fields(h) EXCEPT !.ethertype = t]
  <2>1. Fields(c) = [dst |-> [k \in 1 .. 6 |-> h[k]],
                     src |-> [k \in 1 .. 6 |-> h[k + 6]], ethertype |-> t]
    BY <1>6, <1>7, <1>8, <1>9 DEF Fields
  <2>2. [Fields(h) EXCEPT !.ethertype = t]
          = [dst |-> [k \in 1 .. 6 |-> h[k]],
             src |-> [k \in 1 .. 6 |-> h[k + 6]], ethertype |-> t]
    <3> DEFINE x == [k \in 1 .. 6 |-> h[k]]
               y == [k \in 1 .. 6 |-> h[k + 6]]
               z == h[13] * B + h[14]
    <3>1. Fields(h) = [dst |-> x, src |-> y, ethertype |-> z]
      BY DEF Fields
    <3> HIDE DEF x, y, z
    <3>2. [[dst |-> x, src |-> y, ethertype |-> z] EXCEPT !.ethertype = t] = [dst |-> x, src |-> y, ethertype |-> t]
      OBVIOUS
    <3> QED BY <3>1, <3>2 DEF x, y
  <2> QED BY <2>1, <2>2
<1>11. \A i \in 15 .. Len(h) : c[i] = h[i]
  BY <1>3, <1>6
<1> QED BY <1>3, <1>5, <1>10, <1>11 DEF c, HeaderMemory, size_of

\* Header<T>.copy().
LEMMA HeaderCopyFields ==
  ASSUME NEW h \in HeaderMemory, NEW mem \in HeaderMemory
  PROVE  /\ HeaderCopy(h, mem) \in HeaderMemory /\ Len(HeaderCopy(h, mem)) = Len(mem)
         /\ Fields(HeaderCopy(h, mem)) = Fields(h)
         /\ \A i \in 15 .. Len(mem) : HeaderCopy(h, mem)[i] = mem[i]
<1> DEFINE from == SubSeq(h, 1, 14)
           c    == copy(mem, 0, Len(mem), from, 14)
<1>1. /\ h \in Seq(Byte) /\ Len(h) \in Nat /\ Len(h) >= 14
      /\ mem \in Seq(Byte) /\ Len(mem) \in Nat /\ Len(mem) >= 14
      /\ DOMAIN mem = 1 .. Len(mem)
  BY DEF HeaderMemory, size_of
<1>2. HeaderCopy(h, mem) = c
  BY DEF HeaderCopy, size_of
<1>3. Len(from) = 14 /\ \A k \in 1 .. 14 : from[k] = h[k]
  BY <1>1
<1>4. c = [i \in 1 .. Len(mem) |-> IF i - 0 \in 1 .. 14 THEN from[i - 0] ELSE mem[i]]
  <2> HIDE DEF from
  <2>1. Smaller(14, Smaller(Len(from), Len(mem))) = 14
    <3>1. Len(from) = 14
      BY <1>3
    <3>2. Smaller(14, Len(mem)) = 14
      BY <1>1 DEF Smaller
    <3> QED BY <3>1, <3>2 DEF Smaller
  <2> QED BY <1>1, <2>1 DEF copy
<1> HIDE DEF c, from
<1>5. ASSUME NEW i \in 1 .. Len(mem)
      PROVE  c[i] = (IF i <= 14 THEN h[i] ELSE mem[i]) /\ c[i] \in Byte
  <2>1. CASE i <= 14
    <3>1. i - 0 = i /\ i \in 1 .. 14
      BY <1>1, <2>1
    <3>2. c[i] = from[i]
      BY <1>4, <3>1
    <3>3. c[i] = h[i]
      BY <1>3, <3>1, <3>2
    <3>4. h[i] \in Byte
      BY <1>1, <3>1
    <3> QED BY <2>1, <3>3, <3>4
  <2>2. CASE ~(i <= 14)
    BY <1>1, <1>4, <2>2
  <2> QED BY <2>1, <2>2
<1>6. c \in [1 .. Len(mem) -> Byte]
  BY <1>4, <1>5
<1>7. c \in Seq(Byte) /\ Len(c) = Len(mem)
  BY <1>1, <1>6, SequenceOfFunction
<1>8. \A i \in 1 .. 14 : c[i] = h[i]
  BY <1>1, <1>5
<1>9. [k \in 1 .. 6 |-> c[k]] = [k \in 1 .. 6 |-> h[k]]
  BY <1>8
<1>10. [k \in 1 .. 6 |-> c[k + 6]] = [k \in 1 .. 6 |-> h[k + 6]]
  <2>1. ASSUME NEW k \in 1 .. 6 PROVE c[k + 6] = h[k + 6]
    BY <1>8
  <2> QED BY <2>1
<1>11. Fields(c) = Fields(h)
  BY <1>8, <1>9, <1>10 DEF Fields
<1>12. \A i \in 15 .. Len(mem) : c[i] = mem[i]
  BY <1>1, <1>5
<1> QED BY <1>1, <1>2, <1>7, <1>11, <1>12 DEF HeaderMemory, size_of

-----------------------------------------------------------------------------
(* Chained checksums.                                                      *)

\* The sum does not tell where it starts.
LEMMA SumInitial ==
  ASSUME NEW bytes \in Seq(Byte), NEW n \in 0 .. Len(bytes), NEW v \in Nat
  PROVE  Sum(bytes, n, v) = Sum(bytes, n, 0) + v
<1> DEFINE T == {k \in 0 .. n : Sum(bytes, k, v) = Sum(bytes, k, 0) + v}
<1>1. 0 \in T
  BY SumStep
<1>2. ASSUME NEW k \in 1 .. n, k - 1 \in T PROVE k \in T
  <2>1. k \in 1 .. Len(bytes) /\ k - 1 \in 0 .. Len(bytes)
    OBVIOUS
  <2>2. Sum(bytes, k, v) = Sum(bytes, k - 1, v) + bytes[k] * Weight(k)
    BY <2>1, SumStep
  <2>3. Sum(bytes, k, 0) = Sum(bytes, k - 1, 0) + bytes[k] * Weight(k)
    BY <2>1, SumStep
  <2>4. bytes[k] * Weight(k) \in Nat /\ Sum(bytes, k - 1, 0) \in Nat
    BY <2>1, ByteTimesWeight, SumStep
  <2>5. Sum(bytes, k - 1, v) = Sum(bytes, k - 1, 0) + v
    BY <1>2
  <2>6. Sum(bytes, k, v) = Sum(bytes, k, 0) + v
    BY <2>2, <2>3, <2>4, <2>5
  <2> QED BY <2>6
<1> HIDE DEF T
<1>3. 0 .. n \subseteq T
  BY <1>1, <1>2, Induction
<1> QED BY <1>3 DEF T

\* An even offset does not change which bytes are the high ones.
LEMMA Parity ==
  ASSUME NEW a \in Nat, NEW b \in Nat, a % 2 = 0
  PROVE  (a + b) % 2 = 1 <=> b % 2 = 1
OBVIOUS

\* From an even offset on, it can be continued with a word that is the same.
LEMMA SumChain ==
  ASSUME NEW bytes \in Seq(Byte), NEW rest \in Seq(Byte), NEW at \in Nat, NEW n \in Nat,
         at % 2 = 0, at + n <= Len(bytes), n <= Len(rest),
         \A k \in 1 .. n : rest[k] = bytes[at + k],
         NEW u \in Nat, NEW v \in Nat, Same(v, Sum(bytes, at, u))
  PROVE  Same(Sum(rest, n, v), Sum(bytes, at + n, u))
<1> DEFINE T == {k \in 0 .. n : Same(Sum(rest, k, v), Sum(bytes, at + k, u))}
<1>1. 0 \in T
  <2>1. Sum(rest, 0, v) = v /\ at + 0 = at
    BY SumStep
  <2> QED BY <2>1
<1>2. ASSUME NEW k \in 1 .. n, k - 1 \in T PROVE k \in T
  <2> DEFINE x == rest[k] * Weight(k)
             p == Sum(rest, k - 1, v)
             q == Sum(bytes, at + (k - 1), u)
  <2>1. k \in 1 .. Len(rest) /\ k - 1 \in 0 .. Len(rest)
    OBVIOUS
  <2>2. at + k \in 1 .. Len(bytes) /\ (at + k) - 1 = at + (k - 1)
        /\ at + (k - 1) \in 0 .. Len(bytes)
    OBVIOUS
  <2>3. Sum(rest, k, v) = p + x
    BY <2>1, SumStep
  <2>4. Sum(bytes, at + k, u) = q + x
    <3>1. Sum(bytes, at + k, u)
            = Sum(bytes, (at + k) - 1, u) + bytes[at + k] * Weight(at + k)
      BY <2>2, SumStep, Zenon
    <3>2. (at + k) % 2 = 1 <=> k % 2 = 1
      <4>1. k \in Nat
        OBVIOUS
      <4> QED BY <4>1, Parity
    <3>3. Weight(at + k) = Weight(k)
      BY <3>2 DEF Weight
    <3>4. rest[k] = bytes[at + k]
      OBVIOUS
    <3> QED BY <2>2, <3>1, <3>3, <3>4
  <2>5. x \in Nat /\ p \in Nat /\ q \in Nat
    BY <2>1, <2>2, ByteTimesWeight, SumStep
  <2>6. Same(p, q)
    BY <1>2
  <2> HIDE DEF x, p, q
  <2>7. Same(p + x, q + x)
    BY <2>5, <2>6, SameRefl, SameAdd
  <2> QED BY <2>3, <2>4, <2>7
<1> HIDE DEF T
<1>3. 0 .. n \subseteq T
  BY <1>1, <1>2, Induction
<1>4. n \in 0 .. n
  OBVIOUS
<1> QED BY <1>3, <1>4 DEF T

\* The ones' complement sum is one word for all that are the same.
LEMMA OnesComplementSame ==
  ASSUME NEW x \in Nat, NEW y \in Nat, Same(x, y)
  PROVE  OnesComplement(x) = OnesComplement(y)
<1>1. OnesComplement(y) \in Word /\ Same(y, OnesComplement(y))
  BY SameOnesComplement
<1>2. OnesComplement(y) \in Nat
  BY <1>1, Sizes DEF Word
<1>3. Same(OnesComplement(y), x)
  BY <1>1, <1>2, SameTrans, SameSym
<1> QED BY <1>1, <1>3, OnesComplementUnique

\* The reference as a word, and its complement.
LEMMA ReferenceWord ==
  ASSUME NEW bytes \in Seq(Byte), NEW n \in 0 .. Len(bytes), NEW v \in Nat
  PROVE  /\ Reference(bytes, n, v) \in Word
         /\ Not16(Reference(bytes, n, v)) = OnesComplement(Sum(bytes, n, v))
<1> DEFINE w == OnesComplement(Sum(bytes, n, v))
<1>1. Sum(bytes, n, v) \in Nat
  BY SumStep
<1>2. w \in Word
  BY <1>1, SameOnesComplement
<1> HIDE DEF w
<1>3. Not16(w) \in Word /\ Not16(Not16(w)) = w
  BY <1>2, Sizes DEF Word, Not16
<1> QED BY <1>3 DEF Reference, w

\* The checksum as `initial' gives zero, and the next value does not.
LEMMA CheckValue ==
  ASSUME NEW bytes \in Seq(Byte), NEW n \in 0 .. Len(bytes),
         NEW c, c = Reference(bytes, n, 0)
  PROVE  /\ c \in Word /\ (c + 1) % W \in Word
         /\ Reference(bytes, n, c) = 0 /\ Reference(bytes, n, (c + 1) % W) # 0
<1> DEFINE s == Sum(bytes, n, 0)
           w == OnesComplement(s)
<1>1. s \in Nat
  BY SumStep
<1>2. c = Not16(w)
  BY DEF Reference
<1>3. \A v \in Nat : Sum(bytes, n, v) = s + v
  BY SumInitial
<1> HIDE DEF s
<1>4. w \in Word /\ Same(s, w) /\ (s = 0 => w = 0)
  BY <1>1, SameOnesComplement DEF OnesComplement
<1> HIDE DEF w
<1>5. /\ W \in Nat /\ W >= 4 /\ w \in 0 .. W - 1 /\ c = W - 1 - w /\ c \in Nat
      /\ c \in Word
  BY <1>2, <1>4, Sizes DEF Not16, Word
<1>6. Reference(bytes, n, c) = 0
  <2>1. Same(s + c, w + c) /\ w + c = W - 1
    <3>1. w \in Nat /\ w + c = W - 1
      BY <1>5
    <3> QED BY <1>1, <1>4, <1>5, <3>1, SameRefl, SameAdd
  <2>2. W - 1 \in Word /\ W - 1 \in Nat /\ s + c \in Nat
    BY <1>1, <1>5 DEF Word
  <2>3. Same(W - 1, s + c)
    BY <2>1, <2>2, SameSym
  <2>4. OnesComplement(s + c) = W - 1
    BY <2>2, <2>3, OnesComplementUnique
  <2>5. Reference(bytes, n, c) = Not16(W - 1)
    BY <1>3, <1>5, <2>4 DEF Reference
  <2> QED BY <1>5, <2>5 DEF Not16
<1>7. (c + 1) % W \in Word /\ Reference(bytes, n, (c + 1) % W) # 0
  <2>1. CASE w = 0
    <3>1. c + 1 = W * 1 + 0
      BY <1>5, <2>1
    <3>2. (c + 1) % W = 0
      BY <1>5, <3>1, DivModUnique
    <3>3. s = 0
      BY <1>4, <2>1 DEF Same
    <3>4. Sum(bytes, n, 0) = 0
      BY <1>3, <3>3
    <3>5. Reference(bytes, n, 0) = Not16(0)
      BY <3>4 DEF Reference, OnesComplement
    <3>6. Not16(0) # 0 /\ 0 \in Word
      BY <1>5 DEF Not16, Word
    <3> QED BY <3>2, <3>5, <3>6
  <2>2. CASE w # 0
    <3>1. c + 1 \in 0 .. W - 1 /\ W \in Nat \ {0}
      BY <1>5, <2>2
    <3>2. (c + 1) % W = c + 1
      BY <3>1, SmallMod
    <3>3. Same(s + (c + 1), w + (c + 1)) /\ w + (c + 1) = W * 1
      <4>1. w \in Nat /\ c + 1 \in Nat /\ w + (c + 1) = W * 1
        BY <1>5
      <4>2. Same(c + 1, c + 1)
        BY <4>1, SameRefl
      <4> QED BY <1>1, <1>4, <4>1, <4>2, SameAdd
    <3>4. Same(W * 1, 1) /\ W * 1 \in Nat /\ s + (c + 1) \in Nat
      <4>1. W * 1 \in Nat /\ s + (c + 1) \in Nat /\ 1 \in Nat
        BY <1>1, <1>5
      <4> QED BY <4>1, SameWord
    <3>5. Same(1, s + (c + 1))
      BY <3>3, <3>4, SameTrans, SameSym
    <3>6. OnesComplement(s + (c + 1)) = 1
      BY <1>5, <3>4, <3>5, OnesComplementUnique DEF Word
    <3>7. Reference(bytes, n, c + 1) = Not16(1)
      BY <1>3, <1>5, <3>6 DEF Reference
    <3> QED BY <1>5, <3>1, <3>2, <3>7 DEF Not16, Word
  <2> QED BY <2>1, <2>2
<1> QED BY <1>5, <1>6, <1>7

\* ipsum() is the reference on both architectures.
LEMMA IpsumReference ==
  ASSUME NEW arch \in Archs, NEW bytes \in Seq(Byte), NEW length \in 0 .. Len(bytes),
         NEW initial \in Word
  PROVE  ipsum(arch, bytes, length, initial) = Reference(bytes, length, initial)
BY ChecksumX86, ChecksumAarch64 DEF ipsum

-----------------------------------------------------------------------------
(* The invariant of a frame.                                               *)

\* Both headers lie in memory, and the blocks summed lie in the packet.
FrameInv ==
  /\ data \in HeaderMemory /\ boxed \in HeaderMemory
  /\ ends \in Seq(Nat) /\ initials \in Seq(Word) /\ Len(initials) = Len(ends)
  /\ sums \in [Archs -> Word]
  /\ \A k \in 1 .. Len(ends) : ends[k] <= Len(data)

\* The header on the heap is one, with the fields it was given.
LEMMA BoxedFields ==
  ASSUME NEW a \in MacAddress, NEW b \in MacAddress, NEW t \in Word
  PROVE  /\ Boxed(a, b, t) \in HeaderMemory
         /\ Fields(Boxed(a, b, t)) = [dst |-> a, src |-> b, ethertype |-> t]
<1>1. new \in HeaderMemory
  <2>1. 0 \in Byte
    BY Sizes DEF Byte
  <2>2. new \in [1 .. 14 -> Byte]
    BY <2>1 DEF new, size_of
  <2>3. new \in Seq(Byte) /\ Len(new) = 14
    BY <2>2, 14 \in Nat, SequenceOfFunction
  <2>4. Len(new) >= size_of
    BY <2>3 DEF size_of
  <2> QED BY <2>3, <2>4, Zenon DEF HeaderMemory
<1> DEFINE h1 == set_dst(new, a)
           h2 == set_src(h1, b)
<1>2. h1 \in HeaderMemory /\ Fields(h1) = [Fields(new) EXCEPT !.dst = a]
  BY <1>1, SetDstFields
<1> HIDE DEF h1
<1>3. h2 \in HeaderMemory /\ Fields(h2) = [Fields(h1) EXCEPT !.src = b]
  BY <1>2, SetSrcFields
<1> HIDE DEF h2
<1>4. /\ set_ethertype(h2, t) \in HeaderMemory
      /\ Fields(set_ethertype(h2, t)) = [Fields(h2) EXCEPT !.ethertype = t]
  BY <1>3, SetTypeFields
<1>5. Boxed(a, b, t) = set_ethertype(h2, t)
  BY DEF Boxed, h1, h2
<1>6. [Fields(h2) EXCEPT !.ethertype = t] = [dst |-> a, src |-> b, ethertype |-> t]
  <2> DEFINE x == [k \in 1 .. 6 |-> new[k]]
             y == [k \in 1 .. 6 |-> new[k + 6]]
             z == new[13] * B + new[14]
  <2>1. Fields(new) = [dst |-> x, src |-> y, ethertype |-> z]
    BY DEF Fields
  <2> HIDE DEF x, y, z
  <2>2. Fields(h1) = [dst |-> a, src |-> y, ethertype |-> z]
    BY <1>2, <2>1
  <2>3. Fields(h2) = [dst |-> a, src |-> b, ethertype |-> z]
    BY <1>3, <2>2
  <2> QED BY <2>3
<1> QED BY <1>4, <1>5, <1>6

\* The invariant holds at first.
LEMMA FrameInit == Init => FrameInv
<1> SUFFICES ASSUME Init PROVE FrameInv
  OBVIOUS
<1>1. data \in HeaderMemory
  BY FrameAssumption DEF Init, HeaderMemory
<1>2. boxed \in HeaderMemory
  <2>1. PICK a, b \in MacAddresses, t \in EtherTypes : boxed = Boxed(a, b, t)
    BY DEF Init
  <2>2. a \in MacAddress /\ b \in MacAddress /\ t \in Word
    BY FrameAssumption
  <2> QED BY <2>1, <2>2, BoxedFields
<1>3. sums \in [Archs -> Word]
  BY Sizes DEF Init, Word
<1>4. ends = <<>> /\ initials = <<>>
  BY DEF Init
<1> QED BY <1>1, <1>2, <1>3, <1>4 DEF FrameInv

\* A call of Header<Ethernet> writes a header, of the packet's length.
LEMMA EditMemory ==
  ASSUME FrameInv, Edit
  PROVE  data' \in HeaderMemory /\ Len(data') = Len(data)
<1>1. data \in HeaderMemory /\ boxed \in HeaderMemory
  BY DEF FrameInv
<1>2. dst(boxed) \in MacAddress /\ src(boxed) \in MacAddress /\ ethertype(boxed) \in Word
  BY <1>1, FieldsOf
<1>3. CASE \E a \in MacAddresses \union {dst(boxed)} : data' = set_dst(data, a)
  <2>1. PICK a \in MacAddress : data' = set_dst(data, a)
    BY <1>2, <1>3, FrameAssumption
  <2> QED BY <1>1, <2>1, SetDstFields
<1>4. CASE \E a \in MacAddresses \union {src(boxed)} : data' = set_src(data, a)
  <2>1. PICK a \in MacAddress : data' = set_src(data, a)
    BY <1>2, <1>4, FrameAssumption
  <2> QED BY <1>1, <2>1, SetSrcFields
<1>5. CASE \E t \in EtherTypes \union {ethertype(boxed)} : data' = set_ethertype(data, t)
  <2>1. PICK t \in Word : data' = set_ethertype(data, t)
    BY <1>2, <1>5, FrameAssumption
  <2> QED BY <1>1, <2>1, SetTypeFields
<1>6. CASE data' = swap(data)
  BY <1>1, <1>6, SwapFields
<1>7. CASE data' = HeaderCopy(boxed, data)
  BY <1>1, <1>7, HeaderCopyFields
<1> QED BY <1>3, <1>4, <1>5, <1>6, <1>7 DEF Edit

\* What SumBlock() does to the variables: it sums the n bytes from `at' on,
\* and each routine gives the reference's result for them.
Summed(n, at, v) ==
  /\ at \in Nat /\ n \in Nat /\ at + n <= Len(data) /\ v \in Word
  /\ (Len(ends) = 0 => at = 0) /\ (Len(ends) # 0 => at = ends[Len(ends)])
  /\ Len(ends) # 0 => v = Not16(sums["x86_64"])
  /\ initials' = Append(initials, v) /\ ends' = Append(ends, at + n)
  /\ data' = data /\ boxed' = boxed
  /\ sums' \in [Archs -> Word]
  /\ \A arch \in Archs :
       sums'[arch] = Reference(SubSeq(data, at + 1, Len(data)), n, v)

\* That is what every step of SumBlock() does.
LEMMA SumBlockSums ==
  ASSUME FrameInv, NEW n \in BlockLengths, SumBlock(n)
  PROVE  \E at, v : Summed(n, at, v)
<1> DEFINE at   == End(Last)
           rest == SubSeq(data, at + 1, Len(data))
<1>1. /\ Len(ends) \in Nat /\ n \in Nat /\ data \in Seq(Byte) /\ Len(data) \in Nat
      /\ Len(ends) = 0 \/ Len(ends) \in 1 .. Len(ends)
  BY FrameAssumption DEF FrameInv, HeaderMemory
<1>2. /\ at \in Nat /\ at + n <= Len(data)
      /\ (Len(ends) = 0 => at = 0) /\ (Len(ends) # 0 => at = ends[Len(ends)])
  BY <1>1 DEF FrameInv, SumBlock, End, Last
<1>3. PICK v \in IF Last = 0 THEN Initials ELSE {Not16(sums["x86_64"])} :
        /\ initials' = Append(initials, v)
        /\ sums' = [arch \in Archs |-> ipsum(arch, rest, n, v)]
  BY DEF SumBlock
<1>4. v \in Word /\ (Len(ends) # 0 => v = Not16(sums["x86_64"]))
  <2>1. sums["x86_64"] \in Word
    BY DEF FrameInv, Archs
  <2>2. Not16(sums["x86_64"]) \in Word
    BY <2>1, Sizes DEF Word, Not16
  <2> QED BY <1>3, <2>2, FrameAssumption DEF Last
<1>5. ends' = Append(ends, at + n) /\ data' = data /\ boxed' = boxed
  BY DEF SumBlock
<1> HIDE DEF at
<1>6. rest \in Seq(Byte) /\ n \in 0 .. Len(rest)
  BY <1>1, <1>2
<1> HIDE DEF rest
<1>7. v \in Nat
  BY <1>4, Sizes DEF Word
<1>8. \A arch \in Archs : ipsum(arch, rest, n, v) = Reference(rest, n, v)
  BY <1>4, <1>6, IpsumReference
<1>9. Reference(rest, n, v) \in Word
  BY <1>6, <1>7, ReferenceWord
<1>10. /\ sums' \in [Archs -> Word]
       /\ \A arch \in Archs : sums'[arch] = Reference(rest, n, v)
  BY <1>3, <1>8, <1>9
<1>11. Summed(n, at, v)
  BY <1>1, <1>2, <1>3, <1>4, <1>5, <1>10 DEF Summed, rest
<1> QED BY <1>11

\* Every step preserves the invariant.
LEMMA FrameNext == FrameInv /\ [Next]_vars => FrameInv'
<1> SUFFICES ASSUME FrameInv, [Next]_vars PROVE FrameInv'
  OBVIOUS
<1>1. CASE Edit
  <2>1. data' \in HeaderMemory /\ Len(data') = Len(data)
    BY <1>1, EditMemory
  <2> QED BY <1>1, <2>1 DEF FrameInv, Edit, sumVars
<1>2. ASSUME NEW n \in BlockLengths, SumBlock(n) PROVE FrameInv'
  <2>1. PICK at, v : Summed(n, at, v)
    BY <1>2, SumBlockSums
  <2>2. at + n \in Nat /\ at + n <= Len(data)
    BY <2>1 DEF Summed
  <2>3. /\ ends' = Append(ends, at + n) /\ initials' = Append(initials, v)
        /\ v \in Word /\ sums' \in [Archs -> Word] /\ data' = data /\ boxed' = boxed
    BY <2>1 DEF Summed
  <2>4. ends' \in Seq(Nat) /\ initials' \in Seq(Word) /\ Len(initials') = Len(ends')
    BY <2>2, <2>3 DEF FrameInv
  <2>5. \A k \in 1 .. Len(ends') : ends'[k] <= Len(data)
    BY <2>2, <2>3 DEF FrameInv
  <2> QED BY <2>3, <2>4, <2>5 DEF FrameInv
<1>3. CASE UNCHANGED vars
  BY <1>3 DEF FrameInv, vars, sumVars
<1> QED BY <1>1, <1>2, <1>3 DEF Next

\* The last block after SumBlock() is the one that it has summed.
LEMMA LastBlock ==
  ASSUME FrameInv, NEW n, NEW at, NEW v, Summed(n, at, v)
  PROVE  /\ Last' = Len(ends) + 1 /\ End(Last - 1)' = at /\ End(Last)' = at + n
         /\ initials'[Last'] = v /\ data' = data
         /\ \A k \in 1 .. Len(ends) : ends'[k] = ends[k] /\ initials'[k] = initials[k]
<1>1. /\ ends \in Seq(Nat) /\ Len(ends) \in Nat /\ initials \in Seq(Word)
      /\ Len(initials) = Len(ends)
  BY DEF FrameInv
<1>2. /\ ends' = Append(ends, at + n) /\ initials' = Append(initials, v) /\ data' = data
      /\ at \in Nat /\ n \in Nat /\ v \in Word
      /\ (Len(ends) = 0 => at = 0) /\ (Len(ends) # 0 => at = ends[Len(ends)])
  BY DEF Summed
<1>3. Last' = Len(ends) + 1 /\ ends'[Len(ends) + 1] = at + n /\ initials'[Len(ends) + 1] = v
  BY <1>1, <1>2 DEF Last
<1>4. \A k \in 1 .. Len(ends) : ends'[k] = ends[k] /\ initials'[k] = initials[k]
  BY <1>1, <1>2
<1>5. Last' - 1 = Len(ends) /\ Last' # 0
  BY <1>1, <1>3
<1>6. End(Last)' = at + n
  BY <1>3, <1>5 DEF End
<1>7. End(Last - 1)' = at
  <2>1. Len(ends) = 0 \/ Len(ends) \in 1 .. Len(ends)
    BY <1>1
  <2>2. End(Last - 1)' = IF Len(ends) = 0 THEN 0 ELSE ends'[Len(ends)]
    BY <1>5 DEF End
  <2> QED BY <1>2, <1>4, <2>1, <2>2
<1> QED BY <1>2, <1>3, <1>4, <1>6, <1>7

\* A block of the packet, whether it is cut off at its end or not.
LEMMA BlockReference ==
  ASSUME data \in Seq(Byte), NEW at \in Nat, NEW n \in Nat, at + n <= Len(data),
         NEW v \in Nat
  PROVE  LET block == SubSeq(data, at + 1, at + n)
         IN  /\ block \in Seq(Byte) /\ Len(block) = n
             /\ Reference(block, n, v) = Reference(SubSeq(data, at + 1, Len(data)), n, v)
<1> DEFINE block == SubSeq(data, at + 1, at + n)
           rest  == SubSeq(data, at + 1, Len(data))
<1>1. Len(data) \in Nat
  OBVIOUS
<1>2. block \in Seq(Byte) /\ Len(block) = n /\ \A k \in 1 .. n : block[k] = data[at + k]
  BY <1>1
<1>3. rest \in Seq(Byte) /\ n <= Len(rest) /\ \A k \in 1 .. n : rest[k] = data[at + k]
  BY <1>1
<1> HIDE DEF block, rest
<1>4. n <= Len(block) /\ \A k \in 1 .. n : block[k] = rest[k]
  BY <1>2, <1>3
<1>5. Sum(block, n, v) = Sum(rest, n, v)
  BY <1>2, <1>3, <1>4, SumSameBytes
<1>6. Reference(block, n, v) = Reference(rest, n, v)
  BY <1>5 DEF Reference
<1> QED BY <1>2, <1>6 DEF block, rest

\* Every step leaves behind the result of the reference.
LEMMA AgreesNext == FrameInv /\ Agrees /\ [Next]_vars => Agrees'
<1> SUFFICES ASSUME FrameInv, Agrees, [Next]_vars PROVE Agrees'
  OBVIOUS
<1>1. CASE Edit
  <2>1. Last' = 0
    BY <1>1 DEF Edit, sumVars, Last
  <2>2. ~(Last' > 0)
    BY <2>1
  <2> QED BY <2>2 DEF Agrees
<1>2. ASSUME NEW n \in BlockLengths, SumBlock(n) PROVE Agrees'
  <2>1. PICK at, v : Summed(n, at, v)
    BY <1>2, SumBlockSums
  <2>2. /\ Last' = Len(ends) + 1 /\ End(Last - 1)' = at /\ End(Last)' = at + n
        /\ initials'[Last'] = v /\ data' = data
    BY <2>1, LastBlock
  <2>3. /\ data \in Seq(Byte) /\ at \in Nat /\ n \in Nat /\ at + n <= Len(data)
        /\ v \in Nat
    BY <2>1, Sizes DEF FrameInv, HeaderMemory, Summed, Word
  <2> DEFINE block == SubSeq(data, at + 1, at + n)
             right == Reference(block, n, v)
  <2>4. /\ block \in Seq(Byte) /\ Len(block) = n
        /\ right = Reference(SubSeq(data, at + 1, Len(data)), n, v)
    BY <2>3, BlockReference
  <2>5. \A arch \in Archs : sums'[arch] = right
    BY <2>1, <2>4 DEF Summed
  <2>6. v = 0 => checksum_rust(block, Len(block)) = right
    <3>1. n \in 0 .. Len(block)
      BY <2>3, <2>4
    <3> QED BY <2>4, <3>1, ChecksumRust
  <2>7. block = SubSeq(data, End(Last - 1) + 1, End(Last))'
    BY <2>2
  <2>8. right = Reference(block, Len(block), initials'[Last'])
    BY <2>2, <2>4
  <2> HIDE DEF block, right
  <2> QED BY <2>2, <2>5, <2>6, <2>7, <2>8 DEF Agrees
<1>3. CASE UNCHANGED vars
  BY <1>3 DEF Agrees, vars, sumVars, Last, End
<1> QED BY <1>1, <1>2, <1>3 DEF Next

\* Both assembly routines compute the ones' complement checksum of RFC 1071 of
\* every block of every packet, from every initial value that an app passes
\* them, and checksum_rust() does from zero: for bytes of any size, blocks of
\* any length, and contents and headers of any value.
THEOREM FrameAgrees == Spec => []Agrees
<1>1. Init => Agrees
  BY DEF Init, Agrees, Last
<1> QED BY <1>1, FrameInit, FrameNext, AgreesNext, PTL DEF Spec

-----------------------------------------------------------------------------
(* Blocks after each other.                                                *)

\* The result is the checksum of everything up to the end of the last block.
Whole ==
  Last > 0 /\ (\A k \in 1 .. Last - 1 : ends[k] % 2 = 0) =>
    \A arch \in Archs : sums[arch] = Reference(data, End(Last), initials[1])

\* The complement of a block's result continues the sum.
LEMMA ChainedBlock ==
  ASSUME data \in Seq(Byte), NEW at \in Nat, NEW n \in Nat, at + n <= Len(data),
         at % 2 = 0, NEW u \in Nat, NEW v, v = Not16(Reference(data, at, u))
  PROVE  Reference(SubSeq(data, at + 1, Len(data)), n, v) = Reference(data, at + n, u)
<1> DEFINE rest == SubSeq(data, at + 1, Len(data))
           s    == Sum(data, at, u)
<1>1. Len(data) \in Nat /\ at \in 0 .. Len(data)
  OBVIOUS
<1>2. rest \in Seq(Byte) /\ n <= Len(rest) /\ \A k \in 1 .. n : rest[k] = data[at + k]
  BY <1>1
<1>3. s \in Nat
  BY <1>1, SumStep
<1>4. v = OnesComplement(s)
  BY <1>1, ReferenceWord
<1>5. v \in Word /\ Same(s, v)
  BY <1>3, <1>4, SameOnesComplement
<1>6. v \in Nat
  BY <1>5, Sizes DEF Word
<1>7. Same(v, s)
  BY <1>3, <1>5, <1>6, SameSym
<1> HIDE DEF rest
<1>8. Same(Sum(rest, n, v), Sum(data, at + n, u))
  BY <1>2, <1>6, <1>7, SumChain
<1>9. Sum(rest, n, v) \in Nat /\ Sum(data, at + n, u) \in Nat
  <2>1. n \in 0 .. Len(rest) /\ at + n \in 0 .. Len(data)
    BY <1>1, <1>2
  <2> QED BY <1>2, <1>6, <2>1, SumStep
<1>10. OnesComplement(Sum(rest, n, v)) = OnesComplement(Sum(data, at + n, u))
  BY <1>8, <1>9, OnesComplementSame
<1> QED BY <1>10 DEF Reference, rest

\* Every step continues the sum of the blocks before.
LEMMA WholeNext == FrameInv /\ Whole /\ [Next]_vars => Whole'
<1> SUFFICES ASSUME FrameInv, Whole, [Next]_vars PROVE Whole'
  OBVIOUS
<1>1. CASE Edit
  <2>1. Last' = 0
    BY <1>1 DEF Edit, sumVars, Last
  <2>2. ~(Last' > 0)
    BY <2>1
  <2> QED BY <2>2 DEF Whole
<1>2. ASSUME NEW n \in BlockLengths, SumBlock(n) PROVE Whole'
  <2>1. PICK at, v : Summed(n, at, v)
    BY <1>2, SumBlockSums
  <2>2. /\ Last' = Len(ends) + 1 /\ End(Last)' = at + n
        /\ initials'[Last'] = v /\ data' = data
        /\ \A k \in 1 .. Len(ends) : ends'[k] = ends[k] /\ initials'[k] = initials[k]
    BY <2>1, LastBlock
  <2>3. /\ data \in Seq(Byte) /\ at \in Nat /\ n \in Nat /\ at + n <= Len(data)
        /\ v \in Nat /\ Len(ends) \in Nat
    BY <2>1, Sizes DEF FrameInv, HeaderMemory, Summed, Word
  <2> SUFFICES ASSUME \A k \in 1 .. Len(ends) : ends[k] % 2 = 0,
                      NEW arch \in Archs
               PROVE  sums'[arch] = Reference(data, at + n, initials'[1])
    <3>1. Last' - 1 = Len(ends)
      BY <2>2, <2>3
    <3> QED BY <2>2, <3>1 DEF Whole
  <2> DEFINE rest == SubSeq(data, at + 1, Len(data))
  <2>4. sums'[arch] = Reference(rest, n, v)
    BY <2>1 DEF Summed
  <2>5. CASE Len(ends) = 0
    <3>1. at = 0 /\ initials'[1] = v
      BY <2>1, <2>2, <2>5 DEF Summed
    <3>2. rest = data /\ at + n = n
      BY <2>3, <3>1
    <3> QED BY <2>4, <3>1, <3>2
  <2>6. CASE Len(ends) # 0
    <3>1. 1 \in 1 .. Len(ends) /\ Len(ends) \in 1 .. Len(ends) /\ Len(ends) > 0
      BY <2>3, <2>6
    <3>2. initials'[1] = initials[1] /\ initials[1] \in Nat
      BY <2>2, <3>1, Sizes DEF FrameInv, Word
    <3>3. at = ends[Len(ends)] /\ at % 2 = 0 /\ v = Not16(sums["x86_64"])
      BY <2>1, <2>6, <3>1 DEF Summed
    <3>4. End(Last) = at /\ Last = Len(ends)
      BY <2>6, <3>3 DEF End, Last
    <3>5. sums["x86_64"] = Reference(data, at, initials[1])
      <4>1. \A k \in 1 .. Len(ends) - 1 : ends[k] % 2 = 0
        OBVIOUS
      <4> QED BY <3>1, <3>4, <4>1 DEF Whole, Archs
    <3>6. Reference(rest, n, v) = Reference(data, at + n, initials[1])
      BY <2>3, <3>2, <3>3, <3>5, ChainedBlock
    <3> QED BY <2>4, <3>2, <3>6
  <2> QED BY <2>5, <2>6
<1>3. CASE UNCHANGED vars
  BY <1>3 DEF Whole, vars, sumVars, Last, End
<1> QED BY <1>1, <1>2, <1>3 DEF Next

\* The checksum of the whole can be verified, and only it.
LEMMA WholeChains == FrameInv /\ Whole => Chains
<1> SUFFICES ASSUME FrameInv, Whole, Last > 0,
                    \A k \in 1 .. Last - 1 : ends[k] % 2 = 0, NEW arch \in Archs
             PROVE  /\ sums[arch] = Reference(data, End(Last), initials[1])
                    /\ initials[1] = 0 =>
                         /\ ipsum(arch, data, End(Last), sums[arch]) = 0
                         /\ ipsum(arch, data, End(Last), (sums[arch] + 1) % W) # 0
  BY DEF Chains
<1> DEFINE n == End(Last)
           c == sums[arch]
<1>1. c = Reference(data, n, initials[1])
  BY DEF Whole
<1>2. data \in Seq(Byte) /\ n \in 0 .. Len(data)
  BY DEF FrameInv, HeaderMemory, End, Last
<1> HIDE DEF n, c
<1>3. ASSUME initials[1] = 0
      PROVE  ipsum(arch, data, n, c) = 0 /\ ipsum(arch, data, n, (c + 1) % W) # 0
  <2>1. c = Reference(data, n, 0)
    BY <1>1, <1>3
  <2>2. /\ c \in Word /\ (c + 1) % W \in Word
        /\ Reference(data, n, c) = 0 /\ Reference(data, n, (c + 1) % W) # 0
    BY <1>2, <2>1, CheckValue
  <2>3. ipsum(arch, data, n, c) = Reference(data, n, c)
    BY <1>2, <2>2, IpsumReference
  <2>4. ipsum(arch, data, n, (c + 1) % W) = Reference(data, n, (c + 1) % W)
    BY <1>2, <2>2, IpsumReference
  <2> QED BY <2>2, <2>3, <2>4
<1> QED BY <1>1, <1>3 DEF n, c

\* Chained from block to block through the complement of each result, ipsum()
\* gives the checksum of the whole packet up to there, if all the blocks before
\* the last end at an even offset; and the verification that the comment of
\* checksum.rs:40 describes accepts the packet's checksum and refuses the next.
THEOREM FrameChains == Spec => []Chains
<1>1. Init => Whole
  BY DEF Init, Whole, Last
<1> QED BY <1>1, FrameInit, FrameNext, WholeNext, WholeChains, PTL DEF Spec

-----------------------------------------------------------------------------
(* The header.                                                             *)

\* The bytes behind the header are those of before, if none was written.
LEMMA SamePayload ==
  ASSUME NEW a \in HeaderMemory, NEW b \in HeaderMemory, Len(b) = Len(a),
         \A i \in 15 .. Len(a) : b[i] = a[i]
  PROVE  SubSeq(b, size_of + 1, Len(b)) = SubSeq(a, size_of + 1, Len(a))
<1>1. a \in Seq(Byte) /\ b \in Seq(Byte) /\ Len(a) \in Nat /\ Len(a) >= 14
  BY DEF HeaderMemory, size_of
<1>2. \A k \in 1 .. Len(a) - 14 : k + 14 \in 15 .. Len(a)
  BY <1>1
<1>3. SubSeq(a, 15, Len(a)) = [k \in 1 .. Len(a) - 14 |-> a[k + 14]]
  BY <1>1
<1>4. SubSeq(b, 15, Len(b)) = [k \in 1 .. Len(a) - 14 |-> b[k + 14]]
  BY <1>1
<1>5. [k \in 1 .. Len(a) - 14 |-> b[k + 14]] = [k \in 1 .. Len(a) - 14 |-> a[k + 14]]
  BY <1>2
<1>6. size_of + 1 = 15
  BY DEF size_of
<1> QED BY <1>3, <1>4, <1>5, <1>6

\* What a call of Header<Ethernet> does to the fields, and to nothing else.
LEMMA EditFields ==
  ASSUME FrameInv, Edit
  PROVE  /\ \/ \E a \in MacAddresses \union {Fields(boxed).dst} :
                 Fields(data)' = [Fields(data) EXCEPT !.dst = a]
            \/ \E a \in MacAddresses \union {Fields(boxed).src} :
                 Fields(data)' = [Fields(data) EXCEPT !.src = a]
            \/ \E t \in EtherTypes \union {Fields(boxed).ethertype} :
                 Fields(data)' = [Fields(data) EXCEPT !.ethertype = t]
            \/ Fields(data)' = [Fields(data) EXCEPT !.dst = Fields(data).src,
                                                    !.src = Fields(data).dst]
            \/ Fields(data)' = Fields(boxed)
         /\ SubSeq(data, size_of + 1, Len(data))' = SubSeq(data, size_of + 1, Len(data))
<1>1. data \in HeaderMemory /\ boxed \in HeaderMemory
  BY DEF FrameInv
<1>2. /\ dst(boxed) = Fields(boxed).dst /\ dst(boxed) \in MacAddress
      /\ src(boxed) = Fields(boxed).src /\ src(boxed) \in MacAddress
      /\ ethertype(boxed) = Fields(boxed).ethertype /\ ethertype(boxed) \in Word
  BY <1>1, FieldsOf
<1>3. data' \in HeaderMemory /\ Len(data') = Len(data) /\ Len(data) \in Nat
  BY EditMemory DEF FrameInv, HeaderMemory
<1> SUFFICES
          /\ \/ \E a \in MacAddresses \union {dst(boxed)} :
                  Fields(data') = [Fields(data) EXCEPT !.dst = a]
             \/ \E a \in MacAddresses \union {src(boxed)} :
                  Fields(data') = [Fields(data) EXCEPT !.src = a]
             \/ \E t \in EtherTypes \union {ethertype(boxed)} :
                  Fields(data') = [Fields(data) EXCEPT !.ethertype = t]
             \/ Fields(data') = [Fields(data) EXCEPT !.dst = Fields(data).src,
                                                     !.src = Fields(data).dst]
             \/ Fields(data') = Fields(boxed)
          /\ \A i \in 15 .. Len(data) : data'[i] = data[i]
  <2>1. Fields(data)' = Fields(data')
    BY DEF Fields
  <2> QED BY <1>1, <1>2, <1>3, <2>1, SamePayload
<1>4. CASE \E a \in MacAddresses \union {dst(boxed)} : data' = set_dst(data, a)
  <2>1. PICK a \in MacAddresses \union {dst(boxed)} : data' = set_dst(data, a)
    BY <1>4
  <2>2. a \in MacAddress
    BY <1>2, FrameAssumption
  <2>3. /\ Fields(data') = [Fields(data) EXCEPT !.dst = a]
        /\ \A i \in 7 .. Len(data) : data'[i] = data[i]
    BY <1>1, <2>1, <2>2, SetDstFields
  <2>4. \A i \in 15 .. Len(data) : i \in 7 .. Len(data)
    BY <1>3
  <2> QED BY <2>3, <2>4
<1>5. CASE \E a \in MacAddresses \union {src(boxed)} : data' = set_src(data, a)
  <2>1. PICK a \in MacAddresses \union {src(boxed)} : data' = set_src(data, a)
    BY <1>5
  <2>2. a \in MacAddress
    BY <1>2, FrameAssumption
  <2>3. /\ Fields(data') = [Fields(data) EXCEPT !.src = a]
        /\ \A i \in 13 .. Len(data) : data'[i] = data[i]
    BY <1>1, <2>1, <2>2, SetSrcFields
  <2>4. \A i \in 15 .. Len(data) : i \in 13 .. Len(data)
    BY <1>3
  <2> QED BY <2>3, <2>4
<1>6. CASE \E t \in EtherTypes \union {ethertype(boxed)} : data' = set_ethertype(data, t)
  <2>1. PICK t \in EtherTypes \union {ethertype(boxed)} : data' = set_ethertype(data, t)
    BY <1>6
  <2>2. t \in Word
    BY <1>2, FrameAssumption
  <2>3. /\ Fields(data') = [Fields(data) EXCEPT !.ethertype = t]
        /\ \A i \in 15 .. Len(data) : data'[i] = data[i]
    BY <1>1, <2>1, <2>2, SetTypeFields
  <2> QED BY <2>3
<1>7. CASE data' = swap(data)
  BY <1>1, <1>7, SwapFields
<1>8. CASE data' = HeaderCopy(boxed, data)
  BY <1>1, <1>8, HeaderCopyFields
<1> QED BY <1>4, <1>5, <1>6, <1>7, <1>8 DEF Edit

\* Header<Ethernet>, which works on raw memory, implements a record of three
\* fields: each setter changes its own, swap() and copy() both or all of them,
\* and no call changes a byte of the payload, for headers and packets of any
\* contents and length.
THEOREM HeaderIsRecord == Spec => ImplementsHeader
<1>1. Init => Abstract!Init
  <2> SUFFICES ASSUME Init PROVE Abstract!Init
    OBVIOUS
  <2>1. PICK a, b \in MacAddresses, t \in EtherTypes : boxed = Boxed(a, b, t)
    BY DEF Init
  <2>2. a \in MacAddress /\ b \in MacAddress /\ t \in Word
    BY FrameAssumption
  <2>3. Fields(boxed) = [dst |-> a, src |-> b, ethertype |-> t]
    BY <2>1, <2>2, BoxedFields
  <2> QED BY <2>3 DEF Abstract!Init
<1>2. FrameInv /\ [Next]_vars => [Abstract!Next]_(Abstract!abstract)
  <2> SUFFICES ASSUME FrameInv, [Next]_vars
               PROVE  [Abstract!Next]_(Abstract!abstract)
    OBVIOUS
  <2>1. CASE Edit
    <3>1. Fields(boxed)' = Fields(boxed)
      BY <2>1 DEF Edit, Fields
    <3>2. Abstract!Next
      BY <2>1, <3>1, EditFields DEF Abstract!Next, Abstract!SetDst, Abstract!SetSrc,
         Abstract!SetType, Abstract!Swap, Abstract!Copy
    <3> QED BY <3>2
  <2>2. ASSUME data' = data, boxed' = boxed
        PROVE  UNCHANGED Abstract!abstract
    BY <2>2 DEF Abstract!abstract, Fields
  <2>3. ASSUME NEW n \in BlockLengths, SumBlock(n) PROVE data' = data /\ boxed' = boxed
    BY <2>3 DEF SumBlock
  <2>4. CASE UNCHANGED vars
    BY <2>2, <2>4 DEF vars
  <2> QED BY <2>1, <2>2, <2>3, <2>4 DEF Next
<1> QED
  BY <1>1, <1>2, FrameInit, FrameNext, PTL DEF Spec, ImplementsHeader, Abstract!Spec

-----------------------------------------------------------------------------
(* MAC addresses as strings.                                               *)

\* The two digits of a byte.
LEMMA DigitsOfByte ==
  ASSUME NEW x \in Byte
  PROVE  /\ R \in Nat /\ R >= 2 /\ x \in Nat
         /\ x \div R \in 0 .. R - 1 /\ x % R \in 0 .. R - 1
         /\ (x \div R) * R + (x % R) = x
<1>1. R \in Nat /\ B = R * R /\ B \in Nat /\ B >= 2
  BY EthernetAssumption, Sizes
<1>2. R >= 2
  <2>1. CASE R = 0
    BY <1>1, <2>1
  <2>2. CASE R = 1
    BY <1>1, <2>2
  <2> QED BY <1>1, <2>1, <2>2
<1>3. x \in Nat /\ x < B
  BY <1>1 DEF Byte
<1> DEFINE q == x \div R
           r == x % R
<1>4. q \in Nat /\ r \in 0 .. R - 1 /\ x = R * q + r
  <2>1. R \in Nat \ {0}
    BY <1>1, <1>2
  <2> QED BY <1>3, <2>1, DivMod
<1> HIDE DEF q, r
<1>5. q < R
  <2> SUFFICES ASSUME q >= R PROVE FALSE
    BY <1>1, <1>4
  <2> DEFINE d == q - R
  <2>1. d \in Nat /\ q = R + d
    BY <1>1, <1>4
  <2> HIDE DEF d
  <2>2. R * q = R * R + R * d /\ R * d \in Nat
    BY <1>1, <2>1
  <2> QED BY <1>1, <1>3, <1>4, <2>2
<1>6. R * q = q * R
  BY <1>1, <1>4
<1> QED BY <1>1, <1>2, <1>3, <1>4, <1>5, <1>6 DEF q, r

\* What the string s of the first k bytes looks like: each takes two digits and
\* a colon before the next, or it is shorter.
Printed(s, a, k) ==
  /\ s \in Seq(Nat) /\ Len(s) <= 3 * k - 1
  /\ Len(s) = 3 * k - 1 <=> \A j \in 1 .. k : a[j] >= R
  /\ Len(s) = 3 * k - 1 =>
       \A j \in 1 .. k : /\ s[3 * (j - 1) + 1] = a[j] \div R
                         /\ s[3 * (j - 1) + 2] = a[j] % R

\* The first byte is printed so,
LEMMA PrintedFirst ==
  ASSUME NEW a \in MacAddress
  PROVE  Printed(Digits(a[1]), a, 1)
<1>1. a[1] \in Byte
  BY DEF MacAddress
<1>2. /\ R \in Nat /\ R >= 2 /\ a[1] \in Nat
      /\ a[1] \div R \in 0 .. R - 1 /\ a[1] % R \in 0 .. R - 1
  BY <1>1, DigitsOfByte
<1> DEFINE x == a[1]
           q == a[1] \div R
           r == a[1] % R
           s == Digits(a[1])
<1>3. s = IF x < R THEN <<x>> ELSE <<q, r>>
  BY DEF Digits
<1>4. x \in Nat /\ q \in Nat /\ r \in Nat
  BY <1>2
<1>5. \A j \in 1 .. 1 : j = 1
  OBVIOUS
<1> HIDE DEF x, q, r, s
<1>6. CASE x < R
  <2>1. s \in Seq(Nat) /\ Len(s) = 1 /\ ~(x >= R)
    BY <1>2, <1>3, <1>4, <1>6
  <2> QED BY <1>5, <2>1 DEF Printed, s, x
<1>7. CASE x >= R
  <2>1. s \in Seq(Nat) /\ Len(s) = 2 /\ s[1] = q /\ s[2] = r
    BY <1>2, <1>3, <1>4, <1>7
  <2>2. 3 * (1 - 1) + 1 = 1 /\ 3 * (1 - 1) + 2 = 2 /\ 3 * 1 - 1 = 2
    OBVIOUS
  <2> QED BY <1>5, <1>7, <2>1, <2>2 DEF Printed, s, x, q, r
<1> QED BY <1>2, <1>4, <1>6, <1>7

\* and each of the others behind a colon.
LEMMA PrintedNext ==
  ASSUME NEW a \in MacAddress, NEW k \in 2 .. 6, NEW s, Printed(s, a, k - 1)
  PROVE  Printed(s \o <<Colon>> \o Digits(a[k]), a, k)
<1>1. a[k] \in Byte
  BY DEF MacAddress
<1>2. /\ R \in Nat /\ R >= 2 /\ a[k] \in Nat
      /\ a[k] \div R \in 0 .. R - 1 /\ a[k] % R \in 0 .. R - 1
  BY <1>1, DigitsOfByte
<1> DEFINE x == a[k]
           q == a[k] \div R
           r == a[k] % R
           d == Digits(a[k])
           t == s \o <<Colon>> \o d
<1>3. d = IF x < R THEN <<x>> ELSE <<q, r>>
  BY DEF Digits
<1>4. x \in Nat /\ q \in Nat /\ r \in Nat /\ Colon \in Nat
  BY <1>2 DEF Colon
<1> HIDE DEF x, q, r, d
<1>5. d \in Seq(Nat) /\ Len(d) = IF x < R THEN 1 ELSE 2
  BY <1>3, <1>4
<1>6. s \in Seq(Nat) /\ Len(s) \in Nat /\ Len(s) <= 3 * (k - 1) - 1
  BY DEF Printed
<1>7. /\ t \in Seq(Nat) /\ Len(t) = Len(s) + 1 + Len(d)
      /\ \A i \in 1 .. Len(s) : t[i] = s[i]
      /\ \A i \in 1 .. Len(d) : t[Len(s) + 1 + i] = d[i]
  <2> DEFINE u == s \o <<Colon>>
  <2>1. u \in Seq(Nat) /\ Len(u) = Len(s) + 1 /\ \A i \in 1 .. Len(s) : u[i] = s[i]
    BY <1>4, <1>6
  <2> HIDE DEF u
  <2>2. /\ u \o d \in Seq(Nat) /\ Len(u \o d) = Len(u) + Len(d)
        /\ \A i \in 1 .. Len(u) : (u \o d)[i] = u[i]
        /\ \A i \in 1 .. Len(d) : (u \o d)[Len(u) + i] = d[i]
    <3>1. d \in Seq(Nat) /\ Len(d) \in Nat /\ Len(u) \in Nat
      BY <1>5, <2>1
    <3>2. u \o d \in Seq(Nat) /\ Len(u \o d) = Len(u) + Len(d)
      <4>1. u \in Seq(Nat)
        BY <2>1
      <4>2. u \o d \in Seq(Nat)
        BY <3>1, <4>1
      <4>3. Len(u \o d) = Len(u) + Len(d)
        BY <3>1, <4>1
      <4> QED BY <4>2, <4>3
    <3>3. \A i \in 1 .. Len(u) : (u \o d)[i] = u[i]
      BY <2>1, <3>1
    <3>4. ASSUME NEW i \in 1 .. Len(d) PROVE (u \o d)[Len(u) + i] = d[i]
      BY <2>1, <3>1, SMTT(30)
    <3> QED BY <3>2, <3>3, <3>4
  <2>3. t = u \o d
    BY DEF u
  <2>4. \A i \in 1 .. Len(s) : i \in 1 .. Len(u)
    BY <1>6, <2>1
  <2> QED BY <2>1, <2>2, <2>3, <2>4
<1> HIDE DEF t
<1>8. Len(t) <= 3 * k - 1
  BY <1>2, <1>4, <1>5, <1>6, <1>7, SMTT(30)
<1>9. Len(t) = 3 * k - 1 <=> Len(s) = 3 * (k - 1) - 1 /\ x >= R
  <2>1. CASE x < R
    <3>1. Len(d) = 1 /\ ~(x >= R)
      BY <1>2, <1>4, <1>5, <2>1
    <3> QED BY <1>6, <1>7, <3>1
  <2>2. CASE x >= R
    <3>1. Len(d) = 2
      BY <1>2, <1>4, <1>5, <2>2
    <3> QED BY <1>6, <1>7, <2>2, <3>1, SMTT(30)
  <2> QED BY <1>2, <1>4, <2>1, <2>2
<1>10. (\A j \in 1 .. k : a[j] >= R) <=> (\A j \in 1 .. k - 1 : a[j] >= R) /\ x >= R
  <2>1. \A j \in 1 .. k : j = k \/ j \in 1 .. k - 1
    OBVIOUS
  <2>2. k \in 1 .. k /\ \A j \in 1 .. k - 1 : j \in 1 .. k
    OBVIOUS
  <2> QED BY <2>1, <2>2 DEF x
<1>11. Len(t) = 3 * k - 1 <=> \A j \in 1 .. k : a[j] >= R
  BY <1>9, <1>10 DEF Printed
<1>12. ASSUME Len(t) = 3 * k - 1, NEW j \in 1 .. k
       PROVE  t[3 * (j - 1) + 1] = a[j] \div R /\ t[3 * (j - 1) + 2] = a[j] % R
  <2>1. Len(s) = 3 * (k - 1) - 1 /\ ~(x < R)
    BY <1>2, <1>4, <1>9, <1>12
  <2>2. CASE j = k
    <3>1. d = <<q, r>> /\ Len(d) = 2
      BY <1>3, <1>5, <2>1
    <3>2. d[1] = q /\ d[2] = r
      BY <3>1
    <3>3. 3 * (j - 1) + 1 = Len(s) + 1 + 1 /\ 3 * (j - 1) + 2 = Len(s) + 1 + 2
      BY <2>1, <2>2
    <3>4. 1 \in 1 .. Len(d) /\ 2 \in 1 .. Len(d)
      BY <3>1
    <3> QED BY <1>7, <2>2, <3>2, <3>3, <3>4 DEF q, r
  <2>3. CASE j # k
    <3>1. j \in 1 .. k - 1
      BY <2>3
    <3>2. 3 * (j - 1) + 1 \in 1 .. Len(s) /\ 3 * (j - 1) + 2 \in 1 .. Len(s)
      BY <2>1, <3>1
    <3>3. s[3 * (j - 1) + 1] = a[j] \div R /\ s[3 * (j - 1) + 2] = a[j] % R
      BY <2>1, <3>1 DEF Printed
    <3> QED BY <1>7, <3>2, <3>3
  <2> QED BY <2>2, <2>3
<1>13. Printed(t, a, k)
  BY <1>7, <1>8, <1>11, <1>12 DEF Printed
<1> QED BY <1>13 DEF t, d

\* The function ntop() computes.
IsString(f, a) ==
  f = [k \in 1 .. 6 |-> IF k = 1 THEN Digits(a[1])
                        ELSE f[k - 1] \o <<Colon>> \o Digits(a[k])]

\* The function of ntop() exists.
LEMMA StringExists == ASSUME NEW a PROVE \E f : IsString(f, a)
<1> DEFINE c(s, k) == s \o <<Colon>> \o Digits(a[k])
           s1 == Digits(a[1])
           s2 == c(s1, 2)
           s3 == c(s2, 3)
           s4 == c(s3, 4)
           s5 == c(s4, 5)
           f  == <<s1, s2, s3, s4, s5, c(s5, 6)>>
<1> HIDE DEF c, s1, s2, s3, s4, s5
<1>1. f = [k \in 1 .. 6 |-> IF k = 1 THEN s1 ELSE c(f[k - 1], k)]
  <2>1. /\ f[1] = s1 /\ f[2] = c(f[1], 2) /\ f[3] = c(f[2], 3) /\ f[4] = c(f[3], 4)
        /\ f[5] = c(f[4], 5) /\ f[6] = c(f[5], 6)
    BY DEF s2, s3, s4, s5
  <2>2. f = [k \in 1 .. 6 |-> f[k]]
    OBVIOUS
  <2> HIDE DEF f
  <2>3. \A k \in 1 .. 6 : f[k] = IF k = 1 THEN s1 ELSE c(f[k - 1], k)
    <3>1. /\ 2 - 1 = 1 /\ 3 - 1 = 2 /\ 4 - 1 = 3 /\ 5 - 1 = 4 /\ 6 - 1 = 5
          /\ \A k \in 1 .. 6 : k \in {1, 2, 3, 4, 5, 6}
      OBVIOUS
    <3> QED BY <2>1, <3>1
  <2> QED BY <2>2, <2>3
<1> HIDE DEF f
<1>2. IsString(f, a)
  BY <1>1, Zenon DEF IsString, c, s1
<1> QED BY <1>2

\* So ntop() prints all six bytes.
LEMMA NtopPrinted ==
  ASSUME NEW a \in MacAddress
  PROVE  Printed(ntop(a), a, 6)
<1> DEFINE string[k \in 1 .. 6] ==
             IF k = 1 THEN Digits(a[1]) ELSE string[k - 1] \o <<Colon>> \o Digits(a[k])
<1>1. string = CHOOSE f : IsString(f, a)
  BY DEF string, IsString
<1>2. ntop(a) = string[6]
  BY DEF ntop
<1> HIDE DEF string
<1>3. IsString(string, a)
  BY <1>1, StringExists, Zenon
<1>4. string[1] = Digits(a[1])
  <2>1. 1 \in 1 .. 6
    OBVIOUS
  <2> QED BY <1>3, <2>1 DEF IsString
<1>5. \A k \in 2 .. 6 : string[k] = string[k - 1] \o <<Colon>> \o Digits(a[k])
  <2>1. \A k \in 2 .. 6 : k \in 1 .. 6 /\ k # 1
    OBVIOUS
  <2> QED BY <1>3, <2>1 DEF IsString
<1>6. Printed(string[1], a, 1)
  BY <1>4, PrintedFirst
<1>7. \A k \in 2 .. 6 : Printed(string[k - 1], a, k - 1) => Printed(string[k], a, k)
  BY <1>5, PrintedNext
<1>8. /\ 2 \in 2 .. 6 /\ 3 \in 2 .. 6 /\ 4 \in 2 .. 6 /\ 5 \in 2 .. 6 /\ 6 \in 2 .. 6
      /\ 2 - 1 = 1 /\ 3 - 1 = 2 /\ 4 - 1 = 3 /\ 5 - 1 = 4 /\ 6 - 1 = 5
  OBVIOUS
<1>9. Printed(string[2], a, 2)
  BY <1>6, <1>7, <1>8
<1>10. Printed(string[3], a, 3)
  BY <1>7, <1>8, <1>9
<1>11. Printed(string[4], a, 4)
  BY <1>7, <1>8, <1>10
<1>12. Printed(string[5], a, 5)
  BY <1>7, <1>8, <1>11
<1>13. Printed(string[6], a, 6)
  BY <1>7, <1>8, <1>12
<1> QED BY <1>2, <1>13

\* pton() accepts what ntop() prints only if every byte takes two digits, and
\* then it reads back the address.
LEMMA ReadsBack ==
  ASSUME NEW a \in MacAddress
  PROVE  /\ CanParse(ntop(a)) <=> \A k \in 1 .. 6 : a[k] >= R
         /\ CanParse(ntop(a)) => pton(ntop(a)) = a
<1> DEFINE s == ntop(a)
<1>1. Printed(s, a, 6)
  BY NtopPrinted
<1> HIDE DEF s
<1>2. Len(s) \in Nat /\ Len(s) <= 17 /\ (Len(s) = 17 <=> \A k \in 1 .. 6 : a[k] >= R)
  BY <1>1 DEF Printed
<1>3. ASSUME CanParse(s) PROVE Len(s) = 17
  <2>1. 17 <= Len(s)
    <3>1. 6 \in 1 .. 6 /\ Position(6) = 15
      BY DEF Position
    <3>2. Position(6) + 2 <= Len(s)
      BY <1>3, <3>1 DEF CanParse
    <3> QED BY <1>2, <3>1, <3>2
  <2>2. Len(s) \in Nat /\ Len(s) <= 17
    BY <1>2
  <2> QED BY <2>1, <2>2, SMTT(30)
<1>4. ASSUME Len(s) = 17 PROVE CanParse(s) /\ pton(s) = a
  <2>1. ASSUME NEW k \in 1 .. 6
        PROVE  /\ Position(k) + 2 <= Len(s)
               /\ s[Position(k) + 1] \in 0 .. R - 1 /\ s[Position(k) + 2] \in 0 .. R - 1
               /\ s[Position(k) + 1] * R + s[Position(k) + 2] = a[k]
    <3>1. a[k] \in Byte
      BY DEF MacAddress
    <3>2. /\ a[k] \div R \in 0 .. R - 1 /\ a[k] % R \in 0 .. R - 1
          /\ (a[k] \div R) * R + (a[k] % R) = a[k]
      BY <3>1, DigitsOfByte
    <3>3. s[Position(k) + 1] = a[k] \div R /\ s[Position(k) + 2] = a[k] % R
      BY <1>1, <1>4 DEF Printed, Position
    <3>4. Position(k) + 2 <= Len(s)
      BY <1>4 DEF Position
    <3> QED BY <3>2, <3>3, <3>4
  <2>2. CanParse(s)
    <3>1. \A d \in 0 .. R - 1 : d # Colon
      BY EthernetAssumption DEF Colon
    <3>2. \A c \in 1 .. 2 : c = 1 \/ c = 2
      OBVIOUS
    <3> QED BY <2>1, <3>1, <3>2 DEF CanParse
  <2>3. pton(s) = a
    <3>1. a = [k \in 1 .. 6 |-> a[k]]
      BY DEF MacAddress
    <3> QED BY <2>1, <3>1 DEF pton
  <2> QED BY <2>2, <2>3
<1> QED BY <1>2, <1>3, <1>4 DEF s

\* Whatever addresses an app writes to a header, what ntop() prints of them
\* pton() reads as the same address or refuses, and it refuses exactly those
\* with a byte of one digit: for every address and every base.
THEOREM NtopReadsBack == Spec => []NtopPton
<1>1. FrameInv => NtopPton
  <2> SUFFICES ASSUME FrameInv, NEW a \in {dst(data), src(data), dst(boxed)}
               PROVE  /\ CanParse(ntop(a)) <=> \A k \in 1 .. 6 : a[k] >= R
                      /\ CanParse(ntop(a)) => pton(ntop(a)) = a
    BY DEF NtopPton
  <2>1. data \in HeaderMemory /\ boxed \in HeaderMemory
    BY DEF FrameInv
  <2>2. dst(data) \in MacAddress /\ src(data) \in MacAddress /\ dst(boxed) \in MacAddress
    BY <2>1, FieldsOf
  <2>3. a \in MacAddress
    BY <2>2
  <2> QED BY <2>3, ReadsBack
<1> QED BY <1>1, FrameInit, FrameNext, PTL DEF Spec

=============================================================================
