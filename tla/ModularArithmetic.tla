-------------------------- MODULE ModularArithmetic --------------------------
(***************************************************************************)
(* Facts about numbers the proofs rest on: about % and \div, for wrapping  *)
(* uint32/uint16 counters, ring slots and packed words; and induction over *)
(* numbers, stated with sets of them, for what is computed step by step.   *)
(***************************************************************************)
EXTENDS Integers, NaturalsInduction, WellFoundedInduction, TLAPS

(* Quotient and remainder. *)
LEMMA DivMod ==
  ASSUME NEW n \in Nat \ {0}, NEW a \in Int
  PROVE  /\ a \div n \in Int
         /\ (a % n) \in 0 .. n - 1
         /\ a = n * (a \div n) + (a % n)
  BY SMT

(* The remainder is unique. *)
LEMMA RemainderUnique ==
  ASSUME NEW n \in Nat \ {0}, NEW p \in Int, NEW q \in Int,
         NEW r \in 0 .. n - 1, NEW s \in 0 .. n - 1,
         n * p + r = n * q + s
  PROVE  r = s
<1>1. CASE p = q
  BY <1>1
<1>2. CASE p < q
  <2>1. n * q >= n * (p + 1)
    BY <1>2
  <2>2. n * (p + 1) = n * p + n
    OBVIOUS
  <2> QED BY <2>1, <2>2
<1>3. CASE q < p
  <2>1. n * p >= n * (q + 1)
    BY <1>3
  <2>2. n * (q + 1) = n * q + n
    OBVIOUS
  <2> QED BY <2>1, <2>2
<1> QED BY <1>1, <1>2, <1>3

(* A number below the modulus is its own remainder. *)
LEMMA ModSmall ==
  ASSUME NEW n \in Nat \ {0}, NEW a \in 0 .. n - 1
  PROVE  (a % n) = a
<1> DEFINE p == a \div n
           r == a % n
<1>1. p \in Int /\ r \in 0 .. n - 1 /\ n * p + r = n * 0 + a
  BY DivMod
<1> HIDE DEF p, r
<1>2. r = a
  BY <1>1, RemainderUnique
<1> QED BY <1>2 DEF r

(* Numbers that differ by a multiple of the modulus have one remainder. *)
LEMMA ModShift ==
  ASSUME NEW n \in Nat \ {0}, NEW a \in Int, NEW b \in Int, NEW k \in Int,
         a = b + n * k
  PROVE  (a % n) = (b % n)
<1> DEFINE p == a \div n
           q == (b \div n) + k
           r == a % n
           s == b % n
<1>1. p \in Int /\ q \in Int /\ r \in 0 .. n - 1 /\ s \in 0 .. n - 1
  BY DivMod
<1>2. n * p + r = n * q + s
  BY DivMod
<1> HIDE DEF p, q, r, s
<1>3. r = s
  BY <1>1, <1>2, RemainderUnique
<1> QED BY <1>3 DEF r, s

(* Slots of sequence numbers less than a ring apart are different. *)
LEMMA ModDistinct ==
  ASSUME NEW n \in Nat \ {0}, NEW a \in Int, NEW b \in Int,
         a < b, b - a < n
  PROVE  (a % n) # (b % n)
<1> SUFFICES ASSUME (a % n) = (b % n) PROVE FALSE
  OBVIOUS
<1> DEFINE p == a \div n
           q == b \div n
<1>1. p \in Int /\ q \in Int /\ b - a = n * q - n * p
  BY DivMod
<1> HIDE DEF p, q
<1>2. CASE q <= p
  <2>1. n * q <= n * p
    BY <1>1, <1>2
  <2> QED BY <1>1, <2>1
<1>3. CASE q >= p + 1
  <2>1. n * q >= n * (p + 1)
    BY <1>1, <1>3
  <2>2. n * (p + 1) = n * p + n
    BY <1>1
  <2> QED BY <1>1, <2>1, <2>2
<1> QED BY <1>1, <1>2, <1>3

(* A sum may be reduced before or after adding. *)
LEMMA ModAdd ==
  ASSUME NEW n \in Nat \ {0}, NEW a \in Int, NEW b \in Int
  PROVE  ((a % n) + (b % n)) % n = (a + b) % n
<1> DEFINE k == -((a \div n) + (b \div n))
           x == (a % n) + (b % n)
           y == a + b
<1>1. k \in Int /\ x \in Int /\ y \in Int
  BY DivMod
<1>2. x = y + n * k
  BY DivMod
<1> HIDE DEF k, x, y
<1>3. x % n = y % n
  BY <1>1, <1>2, ModShift
<1> QED BY <1>3 DEF x, y

(* Unsigned subtraction of wrapped counters recovers a small difference. *)
LEMMA ModDifference ==
  ASSUME NEW n \in Nat \ {0}, NEW a \in Int, NEW b \in Int, NEW c \in Int,
         a - b - c \in 0 .. n - 1
  PROVE  ((a % n) - (b % n) - (c % n)) % n = a - b - c
<1> DEFINE p == a \div n
           q == b \div n
           r == c \div n
           k == q + r - p
           u == a % n
           v == b % n
           t == c % n
           x == u - v - t
           y == a - b - c
<1>1. /\ p \in Int /\ q \in Int /\ r \in Int
      /\ u \in Int /\ v \in Int /\ t \in Int
      /\ a = n * p + u /\ b = n * q + v /\ c = n * r + t
  BY DivMod
<1> HIDE DEF p, q, r, u, v, t
<1>2. x = y + (n * q + n * r - n * p)
  BY <1>1
<1>3. n * k = n * q + n * r - n * p
  BY <1>1
<1>4. k \in Int /\ x \in Int /\ y \in Int /\ x = y + n * k
  BY <1>1, <1>2, <1>3
<1> HIDE DEF k, x, y
<1>5. x % n = y % n
  BY <1>4, ModShift
<1>6. y % n = y
  BY ModSmall DEF y
<1> QED BY <1>5, <1>6 DEF x, y, u, v, t

(* Reducing by a multiple of the ring size first does not move the slot. *)
LEMMA ModOfMultiple ==
  ASSUME NEW n \in Nat \ {0}, NEW w \in Nat \ {0}, (w % n) = 0, NEW a \in Int
  PROVE  (a % w) % n = (a % n)
<1> DEFINE m == w \div n
           d == a \div w
           k == -(m * d)
           x == a % w
<1>1. m \in Int /\ w = n * m
  BY DivMod
<1>2. d \in Int /\ x \in Int /\ a = w * d + x
  BY DivMod
<1> HIDE DEF m, d, x
<1>3. k \in Int /\ n * k = -(n * (m * d))
  BY <1>1, <1>2
<1>4. w * d = n * (m * d)
  BY <1>1, <1>2
<1> HIDE DEF k
<1>5. x = a + n * k
  BY <1>2, <1>3, <1>4
<1>6. k \in Int /\ x \in Int
  BY <1>2, <1>3
<1>7. x % n = a % n
  BY <1>5, <1>6, ModShift
<1> QED BY <1>7 DEF x

(* A number is known by its quotient and its remainder. *)
LEMMA QuotientIs ==
  ASSUME NEW n \in Nat \ {0}, NEW q \in Int, NEW r \in 0 .. n - 1
  PROVE  (n * q + r) \div n = q /\ (n * q + r) % n = r
<1> DEFINE a == n * q + r
           p == a \div n
           s == a % n
<1>1. n * q \in Int /\ a \in Int
  OBVIOUS
<1>2. p \in Int /\ s \in 0 .. n - 1 /\ a = n * p + s
  BY <1>1, DivMod
<1>3. n * p + s = n * q + r
  BY <1>2
<1> HIDE DEF p, s, a
<1>4. s = r
  BY <1>2, <1>3, RemainderUnique
<1>5. n * p = n * q
  <2>1. n * p \in Int /\ n * q \in Int /\ r \in Int
    BY <1>2
  <2>. QED BY <1>3, <1>4, <2>1
<1>6. p = q
  <2>1. n * (p - q) = 0
    BY <1>2, <1>5
  <2>. QED BY <1>2, <2>1
<1>. QED BY <1>4, <1>6 DEF a, p, s

LEMMA ProductNat ==
  \A a, b \in Nat : a * b \in Nat
OBVIOUS

-----------------------------------------------------------------------------
(* Induction over numbers.                                                 *)

(* Some number of a set is the least of it. *)
LEMMA LeastOf ==
  ASSUME NEW T, T \subseteq Nat, T # {}
  PROVE  \E x \in T : \A y \in T : x <= y
<1> DEFINE R == {ss \in Nat \X Nat : ss[1] < ss[2]}
<1>1. IsWellFoundedOn(R, Nat)
  BY NatLessThanWellFounded DEF OpToRel
<1> HIDE DEF R
<1>2. PICK x \in T : \A y \in T : ~(<<y, x>> \in R)
  BY <1>1, WFMin
<1>3. ASSUME NEW y \in T PROVE x <= y
  <2>1. y < x => <<y, x>> \in R
    BY DEF R
  <2>. QED BY <1>2, <2>1
<1>. QED BY <1>3

(* A set of numbers with 0 and the successor of each of its own has all. *)
LEMMA AllNumbers ==
  ASSUME NEW P, 0 \in P, \A n \in Nat : n \in P => n + 1 \in P
  PROVE  Nat \subseteq P
<1> DEFINE T == Nat \ P
<1>1. ASSUME T # {} PROVE FALSE
  <2> HIDE DEF T
  <2>1. PICK m \in T : \A n \in T : m <= n
    BY <1>1, LeastOf DEF T
  <2>2. m \in Nat /\ m \notin P /\ m # 0
    BY DEF T
  <2>3. m - 1 \in Nat /\ ~(m <= m - 1) /\ (m - 1) + 1 = m
    BY <2>2
  <2>4. m - 1 \in P
    BY <2>1, <2>3 DEF T
  <2>. QED BY <2>2, <2>3, <2>4
<1>. QED BY <1>1

(* What is iterated from a value by steps through a set. *)
Iterates(S, base, step, n, g) ==
  /\ g \in [0 .. n -> S] /\ g[0] = base
  /\ \A i \in 0 .. n - 1 : g[i + 1] = step[<<i, g[i]>>]

Iterated(S, base, step, f) ==
  f \in [Nat -> S] /\ f[0] = base /\ \A n \in Nat : f[n + 1] = step[<<n, f[n]>>]

LEMMA SomeIterates ==
  ASSUME NEW S, NEW base \in S, NEW step \in [Nat \X S -> S], NEW n \in Nat
  PROVE  \E g : Iterates(S, base, step, n, g)
<1> DEFINE P == {m \in Nat : \E g : Iterates(S, base, step, m, g)}
<1>1. 0 \in P
  <2> DEFINE g == [i \in 0 .. 0 |-> base]
  <2>1. Iterates(S, base, step, 0, g)
    BY DEF Iterates
  <2>. QED BY <2>1
<1>2. ASSUME NEW m \in Nat, m \in P PROVE m + 1 \in P
  <2>1. PICK g : Iterates(S, base, step, m, g)
    BY <1>2
  <2> DEFINE h == [i \in 0 .. m + 1 |-> IF i = m + 1 THEN step[<<m, g[m]>>] ELSE g[i]]
  <2>2. g[m] \in S /\ step[<<m, g[m]>>] \in S
    BY <2>1 DEF Iterates
  <2>3. h \in [0 .. m + 1 -> S]
    BY <2>1, <2>2 DEF Iterates
  <2>4. h[0] = base
    BY <2>1 DEF Iterates
  <2>5. ASSUME NEW i \in 0 .. (m + 1) - 1 PROVE h[i + 1] = step[<<i, h[i]>>]
    <3>1. i \in 0 .. m /\ h[i] = g[i]
      OBVIOUS
    <3>2. CASE i = m
      <4>1. h[m + 1] = step[<<m, g[m]>>] /\ h[m] = g[m]
        OBVIOUS
      <4> HIDE DEF h
      <4>. QED BY <3>2, <4>1
    <3>3. CASE i # m
      <4>1. i \in 0 .. m - 1 /\ i + 1 \in 0 .. m + 1 /\ i + 1 # m + 1
        BY <3>1, <3>3
      <4>. QED BY <2>1, <3>1, <4>1 DEF Iterates
    <3>. QED BY <3>2, <3>3
  <2> HIDE DEF h
  <2>6. Iterates(S, base, step, m + 1, h)
    BY <2>3, <2>4, <2>5 DEF Iterates
  <2>. QED BY <2>6
<1> HIDE DEF P
<1>3. n \in P
  BY <1>1, <1>2, AllNumbers
<1>. QED BY <1>3 DEF P

LEMMA SameIterates ==
  ASSUME NEW S, NEW base, NEW step, NEW m \in Nat, NEW n \in Nat, NEW g, NEW h,
         Iterates(S, base, step, m, g), Iterates(S, base, step, n, h)
  PROVE  \A i \in Nat : i <= m /\ i <= n => g[i] = h[i]
<1> DEFINE P == {i \in Nat : i <= m /\ i <= n => g[i] = h[i]}
<1>1. 0 \in P
  BY DEF Iterates
<1>2. ASSUME NEW i \in Nat, i \in P PROVE i + 1 \in P
  <2> SUFFICES ASSUME i + 1 <= m, i + 1 <= n PROVE g[i + 1] = h[i + 1]
    OBVIOUS
  <2>1. i \in 0 .. m - 1 /\ i \in 0 .. n - 1 /\ g[i] = h[i]
    BY <1>2
  <2>. QED BY <2>1 DEF Iterates
<1> HIDE DEF P
<1>3. Nat \subseteq P
  BY <1>1, <1>2, AllNumbers
<1>. QED BY <1>3 DEF P

LEMMA IteratesExist ==
  ASSUME NEW S, NEW base \in S, NEW step \in [Nat \X S -> S]
  PROVE  \E f : Iterated(S, base, step, f)
<1> DEFINE G(n) == CHOOSE g : Iterates(S, base, step, n, g)
           f == [n \in Nat |-> G(n)[n]]
<1>1. \A n \in Nat : Iterates(S, base, step, n, G(n))
  BY SomeIterates
<1> HIDE DEF G
<1>2. \A n \in Nat : G(n)[n] \in S /\ G(n)[0] = base
  BY <1>1 DEF Iterates
<1>3. ASSUME NEW n \in Nat PROVE f[n + 1] = step[<<n, f[n]>>]
  <2>1. n + 1 \in Nat /\ n \in 0 .. (n + 1) - 1
    OBVIOUS
  <2>2. G(n + 1)[n + 1] = step[<<n, G(n + 1)[n]>>]
    BY <1>1, <2>1 DEF Iterates
  <2>3. G(n + 1)[n] = G(n)[n]
    <3>1. Iterates(S, base, step, n, G(n)) /\ Iterates(S, base, step, n + 1, G(n + 1))
      BY <1>1, <2>1
    <3>2. n <= n /\ n <= n + 1
      OBVIOUS
    <3>. QED BY <2>1, <3>1, <3>2, SameIterates
  <2>. QED BY <2>1, <2>2, <2>3
<1>4. f \in [Nat -> S] /\ f[0] = base
  BY <1>2
<1> HIDE DEF f
<1>5. Iterated(S, base, step, f)
  BY <1>3, <1>4 DEF Iterated
<1>. QED BY <1>5

=============================================================================
