----------------------------- MODULE NatLemmas ------------------------------
(***************************************************************************)
(* Induction without operator parameters: over a set of numbers, from the  *)
(* least number that is not in it; and what it gives for functions that    *)
(* are defined by recursion over 0..n, as the models write a loop.  Then    *)
(* remainders, for the indices that go round in a ring.                    *)
(***************************************************************************)
EXTENDS Integers, TLAPS, WellFoundedInduction

\* A set of natural numbers that is not empty has a least element.
LEMMA Least ==
  ASSUME NEW T, T \subseteq Nat, T # {}
  PROVE  \E x \in T : \A y \in T : x <= y
<1>1. IsWellFoundedOn(OpToRel(<, Nat), Nat)
  BY NatLessThanWellFounded
<1>2. PICK x \in T : \A y \in T : ~(<<y, x>> \in OpToRel(<, Nat))
  BY <1>1, WFMin
<1>3. \A y \in T : ~(y < x)
  BY <1>2 DEF OpToRel
<1> QED BY <1>3

\* Induction from 0 up to n.
LEMMA UpTo ==
  ASSUME NEW n \in Nat, NEW S, 0 \in S, \A i \in 1..n : i - 1 \in S => i \in S
  PROVE  \A i \in 0..n : i \in S
<1> DEFINE T == {i \in 0..n : i \notin S}
<1> SUFFICES ASSUME T # {} PROVE FALSE
  OBVIOUS
<1>1. PICK x \in T : \A y \in T : x <= y
  <2>1. T \subseteq Nat
    OBVIOUS
  <2> HIDE DEF T
  <2> QED BY <2>1, Least
<1>2. x \in 1..n /\ x - 1 \in 0..n /\ ~(x - 1 \in T)
  BY <1>1
<1> QED BY <1>2

\* A loop of n rounds that starts in a0 and in round i goes from x to F[i][x].
IsLoop(f, n, a0, F) == f[0] = a0 /\ \A i \in 1..n : f[i] = F[i][f[i - 1]]

\* There is a function that describes the loop.
LEMMA LoopExists ==
  ASSUME NEW n \in Nat, NEW A, NEW a0 \in A, NEW F \in [1..n -> [A -> A]]
  PROVE  \E f \in [0..n -> A] : IsLoop(f, n, a0, F)
<1> DEFINE S == {m \in 0..n : \E f \in [0..m -> A] : IsLoop(f, m, a0, F)}
<1>1. 0 \in S
  <2>1. [i \in 0..0 |-> a0] \in [0..0 -> A] /\ IsLoop([i \in 0..0 |-> a0], 0, a0, F)
    BY DEF IsLoop
  <2> QED BY <2>1
<1>2. ASSUME NEW m \in 1..n, m - 1 \in S PROVE m \in S
  <2>1. PICK f \in [0..m - 1 -> A] : IsLoop(f, m - 1, a0, F)
    BY <1>2
  <2> DEFINE g == [i \in 0..m |-> IF i = m THEN F[m][f[m - 1]] ELSE f[i]]
  <2>2. F[m][f[m - 1]] \in A
    <3>1. f[m - 1] \in A /\ F[m] \in [A -> A]
      OBVIOUS
    <3> QED BY <3>1
  <2>3. g \in [0..m -> A]
    BY <2>2
  <2>4. IsLoop(g, m, a0, F)
    BY <2>1 DEF IsLoop
  <2> HIDE DEF g
  <2> QED BY <2>3, <2>4
<1> HIDE DEF S
<1>3. \A m \in 1..n : m - 1 \in S => m \in S
  BY <1>2
<1>4. \A m \in 0..n : m \in S
  BY <1>1, <1>3, UpTo
<1>5. n \in S
  BY <1>4
<1> QED BY <1>5 DEF S

\* Two loops that begin alike and do the same in the first m rounds agree.
Alike(f, g, m) == f[0] = g[0] /\ \A i \in 1..m : f[i - 1] = g[i - 1] => f[i] = g[i]

\* The results of two such loops are the same.
LEMMA LoopsAgree ==
  ASSUME NEW m \in Nat, NEW f, NEW g, Alike(f, g, m)
  PROVE  \A i \in 0..m : f[i] = g[i]
<1> DEFINE S == {i \in 0..m : f[i] = g[i]}
<1>1. 0 \in S /\ \A i \in 1..m : i - 1 \in S => i \in S
  BY DEF Alike
<1> HIDE DEF S
<1>2. \A i \in 0..m : i \in S
  BY <1>1, UpTo
<1> QED BY <1>2 DEF S

-----------------------------------------------------------------------------
(* Remainders                                                               *)

\* A number is a multiple and a remainder.
LEMMA DivMod ==
  ASSUME NEW x \in Int, NEW k \in Nat \ {0}
  PROVE  /\ x \div k \in Int /\ x % k \in 0..k - 1
         /\ x = k * (x \div k) + (x % k)
<1>1. x \div k \in Int
  OBVIOUS
<1>2. x % k \in 0..k - 1
  OBVIOUS
<1>3. x = k * (x \div k) + (x % k)
  OBVIOUS
<1> QED BY <1>1, <1>2, <1>3

\* A multiple that lies strictly between -k and k is 0.
LEMMA SmallMultiple ==
  ASSUME NEW k \in Nat \ {0}, NEW d \in Int, k * d < k, -k < k * d
  PROVE  d = 0
<1>1. ASSUME d >= 1 PROVE FALSE
  <2>1. k * d >= k * 1
    BY <1>1
  <2> QED BY <2>1
<1>2. ASSUME d <= -1 PROVE FALSE
  <2>1. k * d <= k * (-1)
    BY <1>2
  <2> QED BY <2>1
<1> QED BY <1>1, <1>2

\* Numbers that differ by a multiple of k have the same remainder.
LEMMA ModSame ==
  ASSUME NEW k \in Nat \ {0}, NEW x \in Int, NEW y \in Int, NEW q \in Int, x = y + k * q
  PROVE  x % k = y % k
<1> DEFINE a == x \div k
           b == y \div k
           r == x % k
           s == y % k
<1>1. a \in Int /\ b \in Int /\ r \in 0..k - 1 /\ s \in 0..k - 1 /\ x = k * a + r /\ y = k * b + s
  BY DivMod
<1> HIDE DEF a, b, r, s
<1>2. k * a + r = k * b + s + k * q
  BY <1>1
<1>3. k * (a - b - q) = k * a - k * b - k * q /\ a - b - q \in Int
  BY <1>1
<1>6. k * a \in Int /\ k * b \in Int /\ k * q \in Int
  BY <1>1
<1>4. k * (a - b - q) = s - r
  BY <1>1, <1>2, <1>3, <1>6
<1>5. a - b - q = 0
  BY <1>1, <1>3, <1>4, SmallMultiple
<1>7. k * (a - b - q) = 0
  BY <1>5
<1>8. r = s
  BY <1>1, <1>4, <1>7
<1> QED BY <1>8 DEF r, s

\* Two different places of a window of k numbers have different remainders.
LEMMA ModDiffers ==
  ASSUME NEW k \in Nat \ {0}, NEW x \in Int, NEW y \in Int, x - y < k, y - x < k, x % k = y % k
  PROVE  x = y
<1> DEFINE a == x \div k
           b == y \div k
           r == x % k
<1>1. a \in Int /\ b \in Int /\ r \in 0..k - 1 /\ x = k * a + r /\ y = k * b + r
  BY DivMod
<1> HIDE DEF a, b, r
<1>2. k * (a - b) = k * a - k * b /\ a - b \in Int /\ k * a \in Int /\ k * b \in Int
  BY <1>1
<1>3. k * (a - b) = x - y
  BY <1>1, <1>2
<1>4. a - b = 0
  BY <1>2, <1>3, SmallMultiple
<1>5. k * (a - b) = 0
  BY <1>4
<1> QED BY <1>3, <1>5

\* A remainder of something below k.
LEMMA ModSmall ==
  ASSUME NEW k \in Nat \ {0}, NEW x \in 0..k - 1 PROVE x % k = x
OBVIOUS

\* A remainder of something below 2k, which is where an index in a ring goes.
LEMMA ModOnce ==
  ASSUME NEW k \in Nat \ {0}, NEW x \in k..k + k - 1 PROVE x % k = x - k
<1>1. x = (x - k) + k * 1 /\ x - k \in Int /\ 1 \in Int /\ x \in Int /\ x - k \in 0..k - 1
  OBVIOUS
<1>2. x % k = (x - k) % k
  BY <1>1, ModSame
<1> QED BY <1>1, <1>2, ModSmall

\* The sum with a remainder has the remainder of the sum.
LEMMA ModAdd ==
  ASSUME NEW k \in Nat \ {0}, NEW x \in Int, NEW i \in Int PROVE ((x % k) + i) % k = (x + i) % k
<1> DEFINE a == x \div k
           r == x % k
<1>1. a \in Int /\ r \in 0..k - 1 /\ x = k * a + r
  BY DivMod
<1> HIDE DEF a, r
<1>2. x + i = (r + i) + k * a /\ x + i \in Int /\ r + i \in Int
  BY <1>1
<1>3. (x + i) % k = (r + i) % k
  BY <1>1, <1>2, ModSame
<1> QED BY <1>3 DEF r

\* The distance of two indices of a ring of size m, from the later to the earlier.
LEMMA ModDistance ==
  ASSUME NEW m \in Nat \ {0}, NEW x \in Int, NEW d \in 0..m - 1
  PROVE  (((x + d) % m) + m - (x % m)) % m = d
<1> DEFINE a == x \div m
           b == (x + d) \div m
           r == x % m
           s == (x + d) % m
<1>1. x + d \in Int
  OBVIOUS
<1>2. a \in Int /\ b \in Int /\ r \in 0..m - 1 /\ s \in 0..m - 1 /\ x = m * a + r /\ x + d = m * b + s
  BY <1>1, DivMod
<1> HIDE DEF a, b, r, s
<1>3. m * (a - b + 1) = m * a - m * b + m /\ m * a \in Int /\ m * b \in Int
  BY <1>2
<1> DEFINE q == a - b + 1
           z == s + m - r
<1>4. z = d + m * q /\ z \in Int /\ q \in Int /\ d \in Int
  BY <1>2, <1>3
<1> HIDE DEF q, z
<1>5. z % m = d % m
  BY <1>4, ModSame
<1>6. z % m = d
  BY <1>5, ModSmall
<1> QED BY <1>6 DEF r, s, z

\* If k divides m the remainder for m has the remainder for k.
LEMMA ModMod ==
  ASSUME NEW k \in Nat \ {0}, NEW m \in Nat \ {0}, m % k = 0, NEW x \in Int, NEW i \in Int
  PROVE  ((x % m) + i) % k = (x + i) % k
<1> DEFINE a == x \div m
           r == x % m
           c == m \div k
<1>1. a \in Int /\ r \in 0..m - 1 /\ x = m * a + r
  BY DivMod
<1>2. c \in Int /\ m = k * c
  BY DivMod
<1> HIDE DEF a, r, c
<1>3. m * a = k * (c * a) /\ c * a \in Int
  BY <1>1, <1>2
<1>4. x + i = (r + i) + k * (c * a) /\ x + i \in Int /\ r + i \in Int
  BY <1>1, <1>3
<1>5. (x + i) % k = (r + i) % k
  BY <1>3, <1>4, ModSame
<1> QED BY <1>5 DEF r
=============================================================================
