-------------------------- MODULE ManagementProof --------------------------
(***************************************************************************)
(* The management channel, for any number of lines and tokens, any width   *)
(* of an address and any replies.  What masks, parsing and the policy do   *)
(* is proved by induction, from the least counterexample.                  *)
(***************************************************************************)
EXTENDS Management, FiniteSetTheorems, TLAPS

-----------------------------------------------------------------------------
(* Induction and recursion over the naturals *)

\* A set of naturals has a least element.
LEMMA LeastNatural ==
    ASSUME NEW T, T \subseteq Nat, T # {}
    PROVE  \E m \in T : \A k \in T : m <= k
  <1>1. PICK m \in T : \A k \in T : ~(<<k, m>> \in OpToRel(<, Nat))
    BY NatLessThanWellFounded, WFMin
  <1>2. \A k \in T : ~(k < m)
    BY <1>1 DEF OpToRel
  <1>3. m \in Nat /\ \A k \in T : k \in Nat
    OBVIOUS
  <1>4. \A k \in T : m <= k
    BY <1>2, <1>3
  <1> QED
    BY <1>4

\* Induction, for a property given as a set.
LEMMA Induction ==
    ASSUME NEW S, 0 \in S, \A n \in Nat : n \in S => n + 1 \in S
    PROVE  \A n \in Nat : n \in S
  <1>1. SUFFICES ASSUME Nat \ S # {} PROVE FALSE
    OBVIOUS
  <1>2. PICK m \in Nat \ S : \A k \in Nat \ S : m <= k
    BY <1>1, LeastNatural
  <1>3. m # 0 /\ m - 1 \in Nat
    BY <1>2
  <1>4. m - 1 \in S
    BY <1>2, <1>3
  <1> QED
    BY <1>3, <1>4

\* f gives the first n values of the recursion.
Begins(f, n, S, base, step) ==
    /\ f \in [0 .. n -> S]
    /\ f[0] = base
    /\ \A i \in 0 .. n - 1 : f[i + 1] = step[i][f[i]]

\* f gives them all.
Recurses(f, S, base, step) ==
    /\ f \in [Nat -> S]
    /\ f[0] = base
    /\ \A n \in Nat : f[n + 1] = step[n][f[n]]

\* A recursion over the naturals has a solution.
LEMMA Recursion ==
    ASSUME NEW S, NEW base \in S, NEW step \in [Nat -> [S -> S]]
    PROVE  \E f : Recurses(f, S, base, step)
  <1> DEFINE P(f, n) == Begins(f, n, S, base, step)
             T == {n \in Nat : \E f \in [0 .. n -> S] : P(f, n)}
             start(n) == CHOOSE f \in [0 .. n -> S] : P(f, n)
             F == [n \in Nat |-> start(n)[n]]
  <1>1. 0 \in T
    <2>1. [i \in 0 .. 0 |-> base] \in [0 .. 0 -> S] /\ P([i \in 0 .. 0 |-> base], 0)
      BY DEF Begins
    <2> QED
      BY <2>1
  <1>2. ASSUME NEW n \in Nat, n \in T PROVE n + 1 \in T
    <2>1. PICK f \in [0 .. n -> S] : P(f, n)
      BY <1>2
    <2> DEFINE last == step[n][f[n]]
               g == [i \in 0 .. n + 1 |-> IF i = n + 1 THEN last ELSE f[i]]
    <2>2. last \in S
      OBVIOUS
    <2> HIDE DEF last
    <2>3. g \in [0 .. n + 1 -> S] /\ \A i \in 0 .. n : g[i] = f[i]
      BY <2>2
    <2>4. g[n + 1] = last /\ g[n] = f[n]
      BY <2>2
    <2> HIDE DEF g
    <2>5. \A i \in 0 .. n : g[i + 1] = step[i][g[i]]
      <3> SUFFICES ASSUME NEW i \in 0 .. n PROVE g[i + 1] = step[i][g[i]]
        OBVIOUS
      <3>1. CASE i = n
        BY <2>4, <3>1 DEF last
      <3>2. CASE i # n
        <4>1. i \in 0 .. n - 1 /\ i + 1 \in 0 .. n
          BY <3>2
        <4>2. g[i + 1] = f[i + 1] /\ g[i] = f[i]
          BY <2>3, <4>1
        <4>3. f[i + 1] = step[i][f[i]]
          BY <2>1, <4>1 DEF Begins
        <4> QED
          BY <4>2, <4>3
      <3> QED
        BY <3>1, <3>2
    <2>6. g[0] = base
      BY <2>1, <2>3 DEF Begins
    <2>7. P(g, n + 1)
      BY <2>3, <2>5, <2>6 DEF Begins
    <2> QED
      BY <2>3, <2>7
  <1> HIDE DEF T
  <1>3. \A n \in Nat : n \in T
    BY <1>1, <1>2, Induction
  <1>4. \A n \in Nat : start(n) \in [0 .. n -> S] /\ P(start(n), n)
    BY <1>3 DEF T
  <1> HIDE DEF start
  <1>5. ASSUME NEW n \in Nat
        PROVE  \A i \in Nat : i <= n => start(n)[i] = start(n + 1)[i]
    <2> DEFINE U == {i \in Nat : i <= n => start(n)[i] = start(n + 1)[i]}
    <2>1. 0 \in U
      BY <1>4 DEF Begins
    <2>2. ASSUME NEW i \in Nat, i \in U PROVE i + 1 \in U
      <3> SUFFICES ASSUME i + 1 <= n PROVE start(n)[i + 1] = start(n + 1)[i + 1]
        OBVIOUS
      <3>1. start(n)[i] = start(n + 1)[i]
        BY <2>2
      <3>2. i \in 0 .. n - 1 /\ i \in 0 .. (n + 1) - 1 /\ n + 1 \in Nat
        OBVIOUS
      <3>3. start(n)[i + 1] = step[i][start(n)[i]]
        BY <1>4, <3>2 DEF Begins
      <3>4. start(n + 1)[i + 1] = step[i][start(n + 1)[i]]
        BY <1>4, <3>2 DEF Begins
      <3> QED
        BY <3>1, <3>3, <3>4
    <2> HIDE DEF U
    <2>3. \A i \in Nat : i \in U
      BY <2>1, <2>2, Induction
    <2> QED
      BY <2>3 DEF U
  <1>6. F \in [Nat -> S]
    BY <1>4
  <1>7. F[0] = base
    BY <1>4 DEF Begins
  <1>8. ASSUME NEW n \in Nat PROVE F[n + 1] = step[n][F[n]]
    <2>1. start(n + 1)[n + 1] = step[n][start(n + 1)[n]]
      BY <1>4 DEF Begins
    <2> QED
      BY <1>5, <2>1
  <1> QED
    BY <1>6, <1>7, <1>8 DEF Recurses

\* The powers of two are what their recursion says.
LEMMA Powers ==
    /\ \A n \in Nat : Pow2[n] \in Nat \ {0}
    /\ Pow2[0] = 1
    /\ \A n \in Nat : Pow2[n + 1] = 2 * Pow2[n]
  <1> DEFINE step == [n \in Nat |-> [v \in Nat |-> 2 * v]]
  <1>1. step \in [Nat -> [Nat -> Nat]] /\ 1 \in Nat
    OBVIOUS
  <1>2. \A n, v \in Nat : step[n][v] = 2 * v
    OBVIOUS
  <1> HIDE DEF step
  <1>3. PICK f : Recurses(f, Nat, 1, step)
    BY <1>1, Recursion, Zenon
  <1>4. f \in [Nat -> Nat] /\ f[0] = 1 /\ \A n \in Nat : f[n + 1] = step[n][f[n]]
    BY <1>3, Zenon DEF Recurses
  <1>5. \A n \in Nat : f[n + 1] = 2 * f[n]
    BY <1>2, <1>4
  <1>6. f = [n \in Nat |-> IF n = 0 THEN 1 ELSE 2 * f[n - 1]]
    <2>1. ASSUME NEW n \in Nat PROVE f[n] = IF n = 0 THEN 1 ELSE 2 * f[n - 1]
      <3>1. CASE n = 0
        BY <1>4, <3>1
      <3>2. CASE n # 0
        <4>1. n - 1 \in Nat /\ (n - 1) + 1 = n
          BY <3>2
        <4> QED
          BY <1>5, <3>2, <4>1
      <3> QED
        BY <3>1, <3>2
    <2> QED
      BY <1>4, <2>1
  <1>7. Pow2 = [n \in Nat |-> IF n = 0 THEN 1 ELSE 2 * Pow2[n - 1]]
    BY <1>6 DEF Pow2
  <1>8. \A n \in Nat : Pow2[n] = IF n = 0 THEN 1 ELSE 2 * Pow2[n - 1]
    BY <1>7
  <1>9. Pow2[0] = 1
    BY <1>8
  <1>10. \A n \in Nat : Pow2[n + 1] = 2 * Pow2[n]
    BY <1>8
  <1> DEFINE T == {n \in Nat : Pow2[n] \in Nat \ {0}}
  <1>11. 0 \in T /\ \A n \in Nat : n \in T => n + 1 \in T
    BY <1>9, <1>10
  <1> HIDE DEF T
  <1>12. \A n \in Nat : n \in T
    BY <1>11, Induction
  <1> QED
    BY <1>9, <1>10, <1>12 DEF T

\* They multiply and grow.
LEMMA PowersAdd ==
    ASSUME NEW a \in Nat, NEW b \in Nat
    PROVE  Pow2[a + b] = Pow2[a] * Pow2[b] /\ Pow2[a] <= Pow2[a + b]
  <1> DEFINE T == {n \in Nat : Pow2[a + n] = Pow2[a] * Pow2[n]}
  <1>1. 0 \in T
    BY Powers
  <1>2. ASSUME NEW n \in Nat, n \in T PROVE n + 1 \in T
    <2>1. Pow2[a + n] = Pow2[a] * Pow2[n]
      BY <1>2
    <2>2. /\ Pow2[a + (n + 1)] = 2 * Pow2[a + n] /\ Pow2[n + 1] = 2 * Pow2[n]
          /\ Pow2[a] \in Nat /\ Pow2[n] \in Nat
      <3>1. a + n \in Nat /\ a + (n + 1) = (a + n) + 1
        OBVIOUS
      <3> QED
        BY <3>1, Powers
    <2>3. \A x, y \in Nat : 2 * (x * y) = x * (2 * y)
      OBVIOUS
    <2> QED
      BY <2>1, <2>2, <2>3
  <1> HIDE DEF T
  <1>3. b \in T
    BY <1>1, <1>2, Induction
  <1>4. Pow2[a + b] = Pow2[a] * Pow2[b]
    BY <1>3 DEF T
  <1>5. \A x, y \in Nat \ {0} : x <= x * y
    OBVIOUS
  <1> QED
    BY <1>4, <1>5, Powers

-----------------------------------------------------------------------------
(* Division *)

\* Quotient and remainder, and that they are the only ones.
LEMMA Division ==
    ASSUME NEW a \in Nat, NEW b \in Nat \ {0}
    PROVE  /\ a \div b \in Nat /\ a % b \in 0 .. b - 1
           /\ a = b * (a \div b) + (a % b)
  OBVIOUS

LEMMA Quotient ==
    ASSUME NEW a \in Nat, NEW b \in Nat \ {0}, NEW q \in Nat, NEW r \in 0 .. b - 1, a = b * q + r
    PROVE  a \div b = q
  <1> DEFINE q2 == a \div b
             r2 == a % b
  <1>1. q2 \in Nat /\ r2 \in 0 .. b - 1 /\ a = b * q2 + r2
    BY Division
  <1> HIDE DEF q2, r2
  <1>2. CASE q2 < q
    <2>1. q >= q2 + 1 /\ b >= 0
      BY <1>1, <1>2
    <2>2. b * q >= b * (q2 + 1)
      BY <1>1, <2>1
    <2>3. b * (q2 + 1) = b * q2 + b
      BY <1>1
    <2> QED
      BY <1>1, <2>2, <2>3
  <1>3. CASE q < q2
    <2>1. q2 >= q + 1 /\ b >= 0
      BY <1>1, <1>3
    <2>2. b * q2 >= b * (q + 1)
      BY <1>1, <2>1
    <2>3. b * (q + 1) = b * q + b
      BY <1>1
    <2> QED
      BY <1>1, <2>2, <2>3
  <1>4. q2 = q
    BY <1>1, <1>2, <1>3
  <1> QED
    BY <1>4 DEF q2

LEMMA Remainder ==
    ASSUME NEW a \in Nat, NEW b \in Nat \ {0}, NEW q \in Nat, NEW r \in 0 .. b - 1, a = b * q + r
    PROVE  a % b = r
  <1>1. a \div b = q
    BY Quotient
  <1>2. a % b \in 0 .. b - 1 /\ a = b * (a \div b) + (a % b)
    BY Division
  <1>3. \A x \in Int : \A s \in Int : x + s = x + r => s = r
    OBVIOUS
  <1>4. b * q + (a % b) = b * q + r
    BY <1>1, <1>2
  <1>5. b * q \in Int /\ a % b \in Int
    BY <1>2
  <1> QED
    BY <1>3, <1>4, <1>5

\* The bits of a number, one at a time.
LEMMA Bits ==
    ASSUME NEW d \in Nat, NEW k \in Nat
    PROVE  /\ d \div Pow2[k] \in Nat
           /\ Bit(d, k) \in {0, 1}
           /\ d \div Pow2[k] = 2 * (d \div Pow2[k + 1]) + Bit(d, k)
  <1> DEFINE p == Pow2[k]
             q == d \div p
             r == d % p
             h == q \div 2
             b == q % 2
  <1>1. p \in Nat \ {0} /\ Pow2[k + 1] = 2 * p
    BY Powers
  <1> HIDE DEF p
  <1>2. q \in Nat /\ r \in 0 .. p - 1 /\ d = p * q + r
    BY <1>1, Division
  <1> HIDE DEF q, r
  <1>3. h \in Nat /\ b \in 0 .. 1 /\ q = 2 * h + b
    BY <1>2, Division
  <1> HIDE DEF h, b
  <1>4. d = (2 * p) * h + (p * b + r)
    BY <1>1, <1>2, <1>3
  <1>5. p * b + r \in 0 .. (2 * p) - 1
    <2>1. CASE b = 0
      BY <1>1, <1>2, <2>1
    <2>2. CASE b = 1
      BY <1>1, <1>2, <2>2
    <2> QED
      BY <1>3, <2>1, <2>2
  <1>6. d \div (2 * p) = h
    BY <1>1, <1>3, <1>4, <1>5, Quotient
  <1>7. Bit(d, k) = b
    BY DEF Bit, b, q, p
  <1> QED
    BY <1>1, <1>2, <1>3, <1>6, <1>7 DEF p, q

\* Addresses have Width bits.
LEMMA Addresses ==
    /\ Width \in Nat /\ Width - 1 \in Nat
    /\ Pow2[Width] = 2 * Pow2[Width - 1]
    /\ \A a \in Addr : a \in Nat /\ a \div Pow2[Width] = 0
    /\ 0 \in Addr /\ Pow2[Width - 1] \in Addr
  <1>1. Width \in Nat /\ Width - 1 \in Nat
    BY PushAssumption
  <1>2. Pow2[Width] = 2 * Pow2[Width - 1]
    BY <1>1, Powers
  <1>3. Pow2[Width] \in Nat \ {0} /\ Pow2[Width - 1] \in Nat \ {0}
    BY <1>1, Powers
  <1>4. ASSUME NEW a \in Addr PROVE a \in Nat /\ a \div Pow2[Width] = 0
    <2>1. a \in Nat /\ a \in 0 .. Pow2[Width] - 1 /\ a = Pow2[Width] * 0 + a
      BY <1>3 DEF Addr
    <2> QED
      BY <1>3, <2>1, Quotient
  <1> QED
    BY <1>1, <1>2, <1>3, <1>4 DEF Addr

\* Two addresses agree above a bit if and only if their quotients do.
LEMMA SamePrefix ==
    ASSUME NEW d \in Addr, NEW a \in Addr, NEW j \in 0 .. Width
    PROVE  d \div Pow2[j] = a \div Pow2[j] <=> \A i \in j .. Width - 1 : Bit(d, i) = Bit(a, i)
  <1> DEFINE same(k) == d \div Pow2[k] = a \div Pow2[k] <=> \A i \in k .. Width - 1 : Bit(d, i) = Bit(a, i)
             T == {n \in Nat : n <= Width => same(Width - n)}
  <1>1. Width \in Nat /\ d \in Nat /\ a \in Nat
    BY Addresses
  <1>2. 0 \in T
    <2>1. same(Width)
      BY <1>1, Addresses
    <2> QED
      BY <1>1, <2>1
  <1>3. ASSUME NEW n \in Nat, n \in T PROVE n + 1 \in T
    <2> SUFFICES ASSUME n + 1 <= Width PROVE same(Width - (n + 1))
      OBVIOUS
    <2> DEFINE k == Width - (n + 1)
    <2>1. k \in Nat /\ k + 1 = Width - n /\ k <= Width - 1
      BY <1>1
    <2>2. same(k + 1)
      BY <1>1, <1>3, <2>1
    <2>3. \A i \in k .. Width - 1 : i = k \/ i \in k + 1 .. Width - 1
      BY <1>1, <2>1
    <2>a. \A i \in k + 1 .. Width - 1 : i \in k .. Width - 1
      BY <1>1, <2>1
    <2>b. k \in k .. Width - 1
      BY <1>1, <2>1
    <2>4. /\ Bit(d, k) \in {0, 1} /\ d \div Pow2[k] = 2 * (d \div Pow2[k + 1]) + Bit(d, k)
          /\ d \div Pow2[k + 1] \in Nat
      <3>1. k + 1 \in Nat
        BY <2>1
      <3> QED
        BY <1>1, <2>1, <3>1, Bits
    <2>5. /\ Bit(a, k) \in {0, 1} /\ a \div Pow2[k] = 2 * (a \div Pow2[k + 1]) + Bit(a, k)
          /\ a \div Pow2[k + 1] \in Nat
      <3>1. k + 1 \in Nat
        BY <2>1
      <3> QED
        BY <1>1, <2>1, <3>1, Bits
    <2>6. d \div Pow2[k] = a \div Pow2[k]
            <=> d \div Pow2[k + 1] = a \div Pow2[k + 1] /\ Bit(d, k) = Bit(a, k)
      BY <2>4, <2>5
    <2> HIDE DEF k
    <2>7. (\A i \in k .. Width - 1 : Bit(d, i) = Bit(a, i))
            <=> Bit(d, k) = Bit(a, k) /\ \A i \in k + 1 .. Width - 1 : Bit(d, i) = Bit(a, i)
      BY <2>3, <2>a, <2>b, Zenon
    <2>8. same(k)
      BY <2>2, <2>6, <2>7, Zenon
    <2> QED
      BY <2>8 DEF k
  <1> HIDE DEF T
  <1>4. \A n \in Nat : n \in T
    BY <1>2, <1>3, Induction
  <1>5. Width - j \in T /\ Width - j \in Nat /\ Width - j <= Width /\ Width - (Width - j) = j
    BY <1>1, <1>4
  <1> QED
    BY <1>5 DEF T

\* The largest of a bounded set of numbers.
LEMMA Greatest ==
    ASSUME NEW n \in Nat, NEW T, T \subseteq 0 .. n, T # {}
    PROVE  Max(T) \in T /\ \A k \in T : k <= Max(T)
  <1> DEFINE U == {n - k : k \in T}
  <1>1. U \subseteq Nat /\ U # {}
    <2>1. PICK k : k \in T
      OBVIOUS
    <2>2. n - k \in U
      BY <2>1
    <2>3. \A i \in T : n - i \in Nat
      OBVIOUS
    <2> QED
      BY <2>2, <2>3
  <1>2. PICK m \in U : \A k \in U : m <= k
    BY <1>1, LeastNatural
  <1>3. PICK x \in T : m = n - x
    BY <1>2
  <1>4. \A k \in T : x >= k
    BY <1>2, <1>3
  <1>5. \E y \in T : \A k \in T : y >= k
    BY <1>4
  <1>6. Max(T) \in T /\ \A k \in T : Max(T) >= k
    BY <1>5 DEF Max
  <1> QED
    BY <1>6

\* ipv4_mask_to_prefix: a mask without a hole has the length of its leading
\* ones, and those are its bits; one with a hole has none.
THEOREM MaskPrefix ==
    ASSUME NEW m \in Nat
    PROVE  /\ Ipv4MaskToPrefix(m) # None <=> Contiguous(m)
           /\ Contiguous(m) => /\ Ipv4MaskToPrefix(m) \in 0 .. Width
                               /\ \A i \in 0 .. Width - 1 :
                                     Bit(m, i) = 1 <=> i >= Width - Ipv4MaskToPrefix(m)
  <1> DEFINE S == {i \in 0 .. Width - 1 : Bit(m, i) = 1}
             K == {0} \union {k \in 1 .. Width : \A i \in Width - k .. Width - 1 : Bit(m, i) = 1}
             L == Max(K)
             I == Width - L .. Width - 1
  <1>1. Width \in Nat
    BY PushAssumption
  <1>2. L \in K /\ \A k \in K : k <= L
    <2>1. K \subseteq 0 .. Width /\ K # {}
      BY <1>1
    <2> HIDE DEF K
    <2> QED
      BY <1>1, <2>1, Greatest
  <1>3. LeadingOnes(m) = L
    BY DEF LeadingOnes
  <1>4. L \in 0 .. Width
    BY <1>1, <1>2
  <1>5. \A i \in I : i \in 0 .. Width - 1 /\ Bit(m, i) = 1
    <2>1. CASE L = 0
      BY <1>1, <2>1
    <2>2. CASE L # 0
      <3>1. \A i \in Width - L .. Width - 1 : Bit(m, i) = 1
        BY <1>2, <2>2
      <3> QED
        BY <1>1, <1>4, <3>1
    <2> QED
      BY <2>1, <2>2
  <1>6. \A k \in 1 .. Width : (\A i \in Width - k .. Width - 1 : Bit(m, i) = 1) => k <= L
    BY <1>2
  <1> HIDE DEF K, L
  <1>7. I \subseteq S /\ Cardinality(I) = L
    <2>1. Width - L \in Int /\ Width - 1 \in Int
      BY <1>1, <1>4
    <2>2. Cardinality(I) = IF Width - L > Width - 1 THEN 0 ELSE (Width - 1) - (Width - L) + 1
      BY <2>1, FS_Interval
    <2> QED
      BY <1>1, <1>4, <1>5, <2>2
  <1>8. IsFiniteSet(S)
    <2>1. IsFiniteSet(0 .. Width - 1)
      BY <1>1, FS_Interval
    <2> QED
      BY <2>1, FS_Subset
  <1>9. Ones(m) = Cardinality(S)
    BY DEF Ones
  <1>10. Cardinality(S) = L <=> S = I
    BY <1>7, <1>8, FS_Subset
  <1>11. S = I <=> Contiguous(m)
    <2>1. ASSUME S = I PROVE Contiguous(m)
      <3> SUFFICES ASSUME NEW i \in 0 .. Width - 1, NEW j \in 0 .. Width - 1, i < j, Bit(m, i) = 1
                   PROVE  Bit(m, j) = 1
        BY DEF Contiguous
      <3>1. i \in I
        BY <2>1
      <3>2. j \in I
        BY <1>1, <1>4, <3>1
      <3> QED
        BY <1>5, <3>2
    <2>2. ASSUME Contiguous(m) PROVE S \subseteq I
      <3> SUFFICES ASSUME NEW i \in 0 .. Width - 1, Bit(m, i) = 1 PROVE i \in I
        OBVIOUS
      <3>1. \A j \in i .. Width - 1 : Bit(m, j) = 1
        BY <1>1, <2>2 DEF Contiguous
      <3>2. Width - i \in 1 .. Width /\ Width - (Width - i) = i
        BY <1>1
      <3>3. Width - i <= L
        BY <1>6, <3>1, <3>2
      <3> QED
        BY <1>1, <1>4, <3>3
    <2> QED
      BY <1>7, <2>1, <2>2
  <1>12. L # None
    BY <1>4, PushAssumption
  <1>13. Ipv4MaskToPrefix(m) = IF S = I THEN L ELSE None
    BY <1>3, <1>9, <1>10 DEF Ipv4MaskToPrefix
  <1>14. ASSUME S = I, NEW i \in 0 .. Width - 1 PROVE Bit(m, i) = 1 <=> i >= Width - L
    <2>1. Bit(m, i) = 1 <=> i \in I
      BY <1>14
    <2> QED
      BY <1>1, <1>4, <2>1
  <1> QED
    BY <1>4, <1>11, <1>12, <1>13, <1>14

\* The mask of a prefix length, shorter ones and those that are clamped.
LEMMA MaskOfPrefix ==
    ASSUME NEW p \in Nat, NEW q, q = IF p <= Width THEN p ELSE Width
    PROVE  /\ q \in 0 .. Width /\ Ipv4PrefixToMask(p) \in Nat
           /\ Ipv4PrefixToMask(p) = Pow2[Width] - Pow2[Width - q]
  <1>1. Width \in Nat \ {0} /\ q \in 0 .. Width /\ Width - q \in Nat
    BY PushAssumption
  <1> DEFINE w == Pow2[Width]
             j == Pow2[Width - q]
  <1>2. w \in Nat \ {0} /\ j \in Nat \ {0} /\ j <= w
    <2>1. q \in Nat /\ (Width - q) + q = Width
      BY <1>1
    <2>2. Pow2[Width - q] <= Pow2[(Width - q) + q]
      BY <1>1, <2>1, PowersAdd
    <2> QED
      BY <1>1, <2>1, <2>2, Powers
  <1>3. CASE p = 0
    <2>1. Ipv4PrefixToMask(p) = 0
      BY <1>3 DEF Ipv4PrefixToMask
    <2>2. Width - q = Width
      BY <1>1, <1>3
    <2> QED
      BY <1>1, <1>2, <2>1, <2>2
  <1>4. CASE p # 0
    <2>1. Min({p, Width}) = q
      <3>1. Min({p, Width}) \in {p, Width} /\ \A x \in {p, Width} : Min({p, Width}) <= x
        <4>1. \E x \in {p, Width} : \A y \in {p, Width} : x <= y
          BY <1>1
        <4> QED
          BY <4>1 DEF Min
      <3> QED
        BY <1>1, <3>1
    <2>2. Ipv4PrefixToMask(p) = ((w - 1) * j) % w
      BY <1>4, <2>1 DEF Ipv4PrefixToMask
    <2> HIDE DEF w, j
    <2>3. (w - 1) * j = w * (j - 1) + (w - j)
      BY <1>2
    <2>4. w - j \in 0 .. w - 1 /\ j - 1 \in Nat /\ (w - 1) * j \in Nat
      BY <1>2
    <2>5. ((w - 1) * j) % w = w - j
      BY <1>2, <2>3, <2>4, Remainder
    <2> QED
      BY <1>1, <2>2, <2>4, <2>5 DEF w, j
  <1> QED
    BY <1>3, <1>4

\* Its bits.
LEMMA MaskBits ==
    ASSUME NEW q \in 0 .. Width, NEW i \in 0 .. Width - 1
    PROVE  Bit(Pow2[Width] - Pow2[Width - q], i) = 1 <=> i >= Width - q
  <1> DEFINE m == Pow2[Width] - Pow2[Width - q]
             w == Pow2[Width]
             j == Pow2[Width - q]
             x == Pow2[i]
  <1>1. Width \in Nat \ {0} /\ Width - q \in Nat /\ i \in Nat /\ q \in Nat
    BY PushAssumption
  <1>2. w \in Nat \ {0} /\ j \in Nat \ {0} /\ x \in Nat \ {0} /\ j <= w
    <2>1. Pow2[Width - q] <= Pow2[(Width - q) + q]
      BY <1>1, PowersAdd
    <2>2. (Width - q) + q = Width
      BY <1>1
    <2> QED
      BY <1>1, <2>1, <2>2, Powers
  <1>3. m \in Nat /\ m = w - j
    BY <1>2
  <1>4. Bit(m, i) = (m \div x) % 2
    BY DEF Bit
  <1>5. CASE i >= Width - q
    <2> DEFINE h == Pow2[Width - (i + 1)]
    <2>1. h \in Nat \ {0} /\ w = x * (2 * h)
      <3>1. Width - (i + 1) \in Nat /\ (Width - (i + 1)) + 1 \in Nat /\ i + ((Width - (i + 1)) + 1) = Width
        BY <1>1
      <3>2. Pow2[Width] = Pow2[i] * Pow2[(Width - (i + 1)) + 1]
        BY <1>1, <3>1, PowersAdd
      <3> QED
        BY <3>1, <3>2, Powers
    <2>2. j <= x
      <3>1. i - (Width - q) \in Nat /\ (Width - q) + (i - (Width - q)) = i
        BY <1>1, <1>5
      <3> QED
        BY <1>1, <3>1, PowersAdd
    <2> HIDE DEF m, w, j, x, h
    <2>3. m = x * (2 * h - 1) + (x - j)
      <3>1. x * (2 * h - 1) = x * (2 * h) - x
        BY <1>2, <2>1
      <3>2. x * (2 * h) \in Int
        BY <1>2, <2>1
      <3> QED
        BY <1>2, <1>3, <2>1, <3>1, <3>2
    <2>4. m \div x = 2 * h - 1
      <3>1. x - j \in 0 .. x - 1 /\ 2 * h - 1 \in Nat
        BY <1>2, <2>1, <2>2
      <3> QED
        BY <1>2, <1>3, <2>3, <3>1, Quotient
    <2>5. (2 * h - 1) % 2 = 1
      <3>1. 2 * h - 1 = 2 * (h - 1) + 1 /\ 2 * h - 1 \in Nat /\ h - 1 \in Nat /\ 1 \in 0 .. 2 - 1
        BY <2>1
      <3> QED
        BY <3>1, Remainder
    <2> QED
      BY <1>4, <1>5, <2>4, <2>5 DEF m, x
  <1>6. CASE ~(i >= Width - q)
    <2> DEFINE h == Pow2[(Width - q) - (i + 1)]
               g == Pow2[q]
    <2>1. h \in Nat \ {0} /\ j = x * (2 * h)
      <3>1. /\ (Width - q) - (i + 1) \in Nat /\ ((Width - q) - (i + 1)) + 1 \in Nat
            /\ i + (((Width - q) - (i + 1)) + 1) = Width - q
        BY <1>1, <1>6
      <3>2. Pow2[Width - q] = Pow2[i] * Pow2[((Width - q) - (i + 1)) + 1]
        BY <1>1, <3>1, PowersAdd
      <3> QED
        BY <3>1, <3>2, Powers
    <2>2. g \in Nat \ {0} /\ w = j * g
      <3>1. (Width - q) + q = Width
        BY <1>1
      <3>2. Pow2[(Width - q) + q] = Pow2[Width - q] * Pow2[q]
        BY <1>1, PowersAdd
      <3> QED
        BY <1>1, <3>1, <3>2, Powers
    <2> DEFINE n == h * (g - 1)
    <2> HIDE DEF m, w, j, x, h, g
    <2>3. n \in Nat /\ m = x * (2 * n) + 0
      <3>1. m = j * (g - 1)
        BY <1>2, <1>3, <2>2
      <3>2. j * (g - 1) = (x * (2 * h)) * (g - 1)
        BY <2>1
      <3>3. \A u, v \in Nat : (x * (2 * u)) * v = x * (2 * (u * v))
        BY <1>2
      <3>4. g - 1 \in Nat
        BY <2>2
      <3>5. \A u, v \in Nat : u * v \in Nat
        OBVIOUS
      <3>6. n \in Nat
        BY <2>1, <3>4, <3>5
      <3>7. m = x * (2 * n)
        BY <2>1, <3>1, <3>2, <3>3, <3>4
      <3>8. x * (2 * n) \in Nat
        BY <1>3, <3>7
      <3> QED
        BY <3>6, <3>7, <3>8
    <2> HIDE DEF n
    <2>4. m \div x = 2 * n
      BY <1>2, <1>3, <2>3, Quotient
    <2>5. (2 * n) % 2 = 0
      BY <2>3
    <2> QED
      BY <1>4, <1>6, <2>4, <2>5 DEF m, x
  <1> QED
    BY <1>5, <1>6

\* ipv4_mask_to_prefix undoes ipv4_prefix_to_mask, for every prefix length up
\* to the width of an address; a longer one comes back as the width.
THEOREM MaskRoundTrip ==
    \A p \in Nat : Ipv4MaskToPrefix(Ipv4PrefixToMask(p)) = IF p <= Width THEN p ELSE Width
  <1> SUFFICES ASSUME NEW p \in Nat
               PROVE  Ipv4MaskToPrefix(Ipv4PrefixToMask(p)) = IF p <= Width THEN p ELSE Width
    OBVIOUS
  <1> DEFINE q == IF p <= Width THEN p ELSE Width
             m == Ipv4PrefixToMask(p)
             L == Ipv4MaskToPrefix(m)
  <1>1. Width \in Nat \ {0}
    BY PushAssumption
  <1>2. q \in 0 .. Width /\ m = Pow2[Width] - Pow2[Width - q]
    BY MaskOfPrefix
  <1> HIDE DEF q
  <1>3. m \in Nat
    BY MaskOfPrefix
  <1>4. \A i \in 0 .. Width - 1 : Bit(m, i) = 1 <=> i >= Width - q
    BY <1>2, MaskBits
  <1>5. Contiguous(m)
    BY <1>1, <1>2, <1>4 DEF Contiguous
  <1>6. L \in 0 .. Width /\ \A i \in 0 .. Width - 1 : Bit(m, i) = 1 <=> i >= Width - L
    BY <1>3, <1>5, MaskPrefix
  <1> HIDE DEF m, L
  <1>7. \A i \in 0 .. Width - 1 : i >= Width - q <=> i >= Width - L
    BY <1>4, <1>6
  <1>8. ~(L < q)
    <2>1. L < q => Width - q \in 0 .. Width - 1
      BY <1>1, <1>2, <1>6
    <2> QED
      BY <1>1, <1>2, <1>6, <1>7, <2>1
  <1>9. ~(q < L)
    <2> SUFFICES ASSUME q < L PROVE FALSE
      OBVIOUS
    <2>1. Width - L \in 0 .. Width - 1 /\ Width - L >= Width - L /\ ~(Width - L >= Width - q)
      BY <1>1, <1>2, <1>6
    <2> QED
      BY <1>7, <2>1
  <1> QED
    BY <1>2, <1>6, <1>8, <1>9 DEF q, m, L

\* A route's network is what its mask says.
LEMMA MaskNet ==
    ASSUME NEW m \in Nat, Contiguous(m), NEW d \in Addr, NEW a \in Addr, NEW n,
           n.dest = d, n.prefix = Ipv4MaskToPrefix(m)
    PROVE  InNet(n, a) <=> InMask(d, m, a)
  <1> DEFINE L == Ipv4MaskToPrefix(m)
  <1>1. L \in 0 .. Width /\ \A i \in 0 .. Width - 1 : Bit(m, i) = 1 <=> i >= Width - L
    BY MaskPrefix
  <1>2. Width \in Nat
    BY PushAssumption
  <1>3. InNet(n, a) <=> \A i \in Width - L .. Width - 1 : Bit(d, i) = Bit(a, i)
    <2>1. Width - L \in 0 .. Width
      BY <1>1, <1>2
    <2>2. InNet(n, a) <=> d \div Pow2[Width - L] = a \div Pow2[Width - L]
      BY DEF InNet
    <2> HIDE DEF L
    <2> QED
      BY <2>1, <2>2, SamePrefix
  <1> HIDE DEF L
  <1>4. \A i : i \in Width - L .. Width - 1 <=> i \in 0 .. Width - 1 /\ i >= Width - L
    BY <1>1, <1>2
  <1> QED
    BY <1>1, <1>3, <1>4 DEF InMask

\* write_profile_routes: the route line of an included network, its prefix as
\* a mask, names exactly the addresses of the network.
THEOREM ConfigRoutesAsIncluded ==
    ASSUME NEW n \in [dest : Addr, prefix : 0 .. Width], NEW a \in Addr
    PROVE  InMask(n.dest, Ipv4PrefixToMask(n.prefix), a) <=> InNet(n, a)
  <1> DEFINE m == Ipv4PrefixToMask(n.prefix)
  <1>1. n.dest \in Addr /\ n.prefix \in Nat /\ n.prefix <= Width
    BY PushAssumption
  <1>2. m \in Nat
    BY <1>1, MaskOfPrefix
  <1>3. Ipv4MaskToPrefix(m) = n.prefix
    BY <1>1, MaskRoundTrip
  <1>4. n.prefix # None
    BY <1>1, PushAssumption
  <1> HIDE DEF m
  <1>5. Contiguous(m)
    BY <1>2, <1>3, <1>4, MaskPrefix
  <1> QED
    BY <1>1, <1>2, <1>3, <1>5, MaskNet DEF m

\* Every address is in one half of the address space.
LEMMA HalvesCover ==
    ASSUME NEW family, NEW a \in Addr
    PROVE  \E n \in Halves(family) : n.family = family /\ InNet(n, a)
  <1> DEFINE p == Pow2[Width - 1]
             half(d) == [family |-> family, dest |-> d, prefix |-> 1]
  <1>1. p \in Nat \ {0} /\ a \in 0 .. (2 * p) - 1
    BY Addresses, Powers DEF Addr
  <1>2. half(0) \in Halves(family) /\ half(p) \in Halves(family)
    BY DEF Halves
  <1>3. \A d : InNet(half(d), a) <=> d \div p = a \div p
    BY DEF InNet
  <1> HIDE DEF p
  <1>4. 0 \div p = 0
    <2>1. 0 = p * 0 + 0 /\ 0 \in 0 .. p - 1
      BY <1>1
    <2> QED
      BY <1>1, <2>1, Quotient
  <1>5. p \div p = 1
    <2>1. p = p * 1 + 0 /\ 0 \in 0 .. p - 1
      BY <1>1
    <2> QED
      BY <1>1, <2>1, Quotient
  <1>6. CASE a < p
    <2>1. a \in Nat /\ a = p * 0 + a /\ a \in 0 .. p - 1
      BY <1>1, <1>6
    <2>2. a \div p = 0
      BY <1>1, <2>1, Quotient
    <2> QED
      BY <1>2, <1>3, <1>4, <2>2
  <1>7. CASE ~(a < p)
    <2>1. a \in Nat /\ a = p * 1 + (a - p) /\ a - p \in 0 .. p - 1
      BY <1>1, <1>7
    <2>2. a \div p = 1
      BY <1>1, <2>1, Quotient
    <2> QED
      BY <1>2, <1>3, <1>5, <2>2
  <1> QED
    BY <1>6, <1>7

-----------------------------------------------------------------------------
(* Parsing a reply *)

Route == [family : Families, dest : Addr, prefix : Nat, gateway : RouteGateways]
Value == STRING \union {None}
ParsedOptions == [dns : Seq(STRING), search : Seq(STRING), domain : Value, routes : Seq(Route),
              routeGateway : Value, ifconfig : Value, ifconfigIpv6 : Value, cipher : Value,
              compress : Value, redirect : (SUBSET RedirectFlags) \union {None},
              authToken : Value, authTokenUser : Value, extras : Seq(STRING)]

\* What a token adds: a route, sub-flags, a route gateway, an IPv6 address, a
\* session token.
IsRoute(t) == \/ t.opt = "route" /\ t.val # "bad" /\ Contiguous(t.mask)
              \/ t.opt = "route-ipv6" /\ t.val # "bad"
RouteOf(t) == [family |-> IF t.opt = "route" THEN "V4" ELSE "V6", dest |-> t.dest,
               prefix |-> IF t.opt = "route" THEN Ipv4MaskToPrefix(t.mask) ELSE t.mask,
               gateway |-> IF t.gateway = "address" THEN t.gateway ELSE "none"]
IsRedirect(t) == t.opt \in {"redirect-gateway", "redirect-gateway-ipv6"}
FlagsOf(t) == IF t.opt = "redirect-gateway" THEN t.flags ELSE t.flags \union {"ipv6"}

LEMMA Appended ==
    ASSUME NEW S, NEW s \in Seq(S), NEW v \in S
    PROVE  Append(s, v) \in Seq(S)
  OBVIOUS

\* What a token holds, and what it may add.
LEMMA TokenTypes ==
    ASSUME NEW t \in PushToken
    PROVE  /\ t.opt \in STRING /\ t.val \in STRING /\ t.dest \in Addr /\ t.mask \in Nat
           /\ t.flags \in SUBSET RedirectFlags /\ t.val # None
           /\ IsRoute(t) => RouteOf(t) \in Route
           /\ FlagsOf(t) \in SUBSET RedirectFlags
  <1>1. /\ t.opt \in STRING /\ t.val \in STRING /\ t.dest \in Addr /\ t.mask \in Nat
        /\ t.flags \in SUBSET RedirectFlags
    BY DEF PushToken
  <1>2. t.val # None
    BY <1>1, PushAssumption
  <1>3. ASSUME IsRoute(t) PROVE RouteOf(t) \in Route
    <2>1. CASE t.opt = "route"
      <3>1. Ipv4MaskToPrefix(t.mask) \in 0 .. Width
        BY <1>1, <1>3, <2>1, MaskPrefix DEF IsRoute
      <3>2. Ipv4MaskToPrefix(t.mask) \in Nat
        BY <3>1, PushAssumption
      <3> QED
        BY <1>1, <2>1, <3>2 DEF RouteOf, Route, Families, RouteGateways
    <2>2. CASE t.opt # "route"
      BY <1>1, <2>2 DEF RouteOf, Route, Families, RouteGateways
    <2> QED
      BY <2>1, <2>2
  <1>4. FlagsOf(t) \in SUBSET RedirectFlags
    BY <1>1 DEF FlagsOf, RedirectFlags
  <1> QED
    BY <1>1, <1>2, <1>3, <1>4

\* What the options hold.
LEMMA OptionTypes ==
    ASSUME NEW o \in ParsedOptions
    PROVE  /\ o.routes \in Seq(Route) /\ o.routeGateway \in Value /\ o.ifconfigIpv6 \in Value
           /\ o.redirect \in (SUBSET RedirectFlags) \union {None} /\ o.authToken \in Value
  BY DEF ParsedOptions

\* What a token does to the options.
LEMMA ParseTokenEffect ==
    ASSUME NEW o \in ParsedOptions, NEW t \in PushToken
    PROVE  LET p == ParseToken(o, t) IN
           /\ p \in ParsedOptions
           /\ p.routes = IF IsRoute(t) THEN Append(o.routes, RouteOf(t)) ELSE o.routes
           /\ p.redirect = IF IsRedirect(t) THEN MergeRedirect(o.redirect, FlagsOf(t)) ELSE o.redirect
           /\ p.routeGateway = IF t.opt = "route-gateway" /\ t.val # "bad" /\ o.routeGateway = None
                               THEN t.val ELSE o.routeGateway
           /\ p.ifconfigIpv6 = IF t.opt = "ifconfig-ipv6" /\ t.val # "bad" THEN t.val ELSE o.ifconfigIpv6
           /\ p.authToken = IF t.opt = "auth-token" THEN t.val ELSE o.authToken
           /\ p.cipher = IF t.opt = "cipher" THEN t.val ELSE o.cipher
           /\ p.compress = IF t.opt = "compress" THEN t.val ELSE o.compress
  <1> DEFINE p == ParseToken(o, t)
  <1>0. /\ t.opt \in STRING /\ t.val \in STRING /\ t.dest \in Addr /\ t.mask \in Nat
        /\ FlagsOf(t) \in SUBSET RedirectFlags /\ t.val # None
    BY TokenTypes
  <1>a. \A s \in Seq(STRING) : Append(s, t.val) \in Seq(STRING) /\ Append(s, t.opt) \in Seq(STRING)
    BY <1>0, Appended
  <1>b. \A flags \in SUBSET RedirectFlags :
            MergeRedirect(o.redirect, flags) \in (SUBSET RedirectFlags) \union {None}
    BY OptionTypes DEF MergeRedirect
  <1>1. CASE t.opt \in Diagnostic \/ (t.opt \in Checked /\ t.val = "bad")
    <2>1. p = o
      BY <1>1 DEF ParseToken
    <2> QED
      BY <1>1, <2>1 DEF Diagnostic, Checked, IsRoute, IsRedirect
  <1>2. CASE t.opt = "DNS" /\ t.val # "bad"
    <2>1. p = [o EXCEPT !.dns = Append(o.dns, t.val)]
      BY <1>2 DEF ParseToken, Diagnostic, Checked
    <2>2. p \in ParsedOptions
      BY <1>0, <1>a, <1>b, <2>1 DEF ParsedOptions, Value
    <2> QED
      BY <1>2, <2>1, <2>2 DEF IsRoute, IsRedirect, ParsedOptions
  <1>3. CASE t.opt = "DOMAIN-SEARCH"
    <2>1. p = [o EXCEPT !.search = Append(o.search, t.val)]
      BY <1>3 DEF ParseToken, Diagnostic, Checked
    <2>2. p \in ParsedOptions
      BY <1>0, <1>a, <1>b, <2>1 DEF ParsedOptions, Value
    <2> QED
      BY <1>3, <2>1, <2>2 DEF IsRoute, IsRedirect, ParsedOptions
  <1>4. CASE t.opt = "DOMAIN"
    <2>1. p = [o EXCEPT !.domain = t.val]
      BY <1>4 DEF ParseToken, Diagnostic, Checked
    <2>2. p \in ParsedOptions
      BY <1>0, <1>a, <1>b, <2>1 DEF ParsedOptions, Value
    <2> QED
      BY <1>4, <2>1, <2>2 DEF IsRoute, IsRedirect, ParsedOptions
  <1>5. CASE t.opt = "ifconfig" /\ t.val # "bad"
    <2>1. p = [o EXCEPT !.ifconfig = t.val]
      BY <1>5 DEF ParseToken, Diagnostic, Checked
    <2>2. p \in ParsedOptions
      BY <1>0, <1>a, <1>b, <2>1 DEF ParsedOptions, Value
    <2> QED
      BY <1>5, <2>1, <2>2 DEF IsRoute, IsRedirect, ParsedOptions
  <1>6. CASE t.opt = "ifconfig-ipv6" /\ t.val # "bad"
    <2>1. p = [o EXCEPT !.ifconfigIpv6 = t.val]
      BY <1>6 DEF ParseToken, Diagnostic, Checked
    <2>2. p \in ParsedOptions
      BY <1>0, <1>a, <1>b, <2>1 DEF ParsedOptions, Value
    <2> QED
      BY <1>6, <2>1, <2>2 DEF IsRoute, IsRedirect, ParsedOptions
  <1>7. CASE t.opt = "cipher"
    <2>1. p = [o EXCEPT !.cipher = t.val]
      BY <1>7 DEF ParseToken, Diagnostic, Checked, ParseSession
    <2>2. p \in ParsedOptions
      BY <1>0, <1>a, <1>b, <2>1 DEF ParsedOptions, Value
    <2> QED
      BY <1>7, <2>1, <2>2 DEF IsRoute, IsRedirect, ParsedOptions
  <1>8. CASE t.opt = "compress"
    <2>1. p = [o EXCEPT !.compress = t.val]
      BY <1>8 DEF ParseToken, Diagnostic, Checked, ParseSession
    <2>2. p \in ParsedOptions
      BY <1>0, <1>a, <1>b, <2>1 DEF ParsedOptions, Value
    <2> QED
      BY <1>8, <2>1, <2>2 DEF IsRoute, IsRedirect, ParsedOptions
  <1>9. CASE t.opt = "auth-token"
    <2>1. p = [o EXCEPT !.authToken = t.val]
      BY <1>9 DEF ParseToken, Diagnostic, Checked, ParseSession
    <2>2. p \in ParsedOptions
      BY <1>0, <1>a, <1>b, <2>1 DEF ParsedOptions, Value
    <2> QED
      BY <1>9, <2>1, <2>2 DEF IsRoute, IsRedirect, ParsedOptions
  <1>10. CASE t.opt = "auth-token-user"
    <2>1. p = [o EXCEPT !.authTokenUser = t.val]
      BY <1>10 DEF ParseToken, Diagnostic, Checked, ParseSession
    <2>2. p \in ParsedOptions
      BY <1>0, <1>a, <1>b, <2>1 DEF ParsedOptions, Value
    <2> QED
      BY <1>10, <2>1, <2>2 DEF IsRoute, IsRedirect, ParsedOptions
  <1>11. CASE t.opt = "redirect-gateway"
    <2>1. p = [o EXCEPT !.redirect = MergeRedirect(o.redirect, FlagsOf(t))]
      BY <1>11 DEF FlagsOf, ParseToken, Diagnostic, Checked, ParseSession
    <2>2. p \in ParsedOptions
      BY <1>0, <1>a, <1>b, <2>1 DEF ParsedOptions, Value
    <2> QED
      BY <1>11, <2>1, <2>2 DEF IsRoute, IsRedirect, ParsedOptions
  <1>12. CASE t.opt = "redirect-gateway-ipv6"
    <2>1. p = [o EXCEPT !.redirect = MergeRedirect(o.redirect, FlagsOf(t))]
      BY <1>12 DEF FlagsOf, ParseToken, Diagnostic, Checked, ParseSession
    <2>2. p \in ParsedOptions
      BY <1>0, <1>a, <1>b, <2>1 DEF ParsedOptions, Value
    <2> QED
      BY <1>12, <2>1, <2>2 DEF IsRoute, IsRedirect, ParsedOptions
  <1>13. CASE t.opt = "route-gateway" /\ t.val # "bad"
    <2>1. p = IF o.routeGateway # None THEN o ELSE [o EXCEPT !.routeGateway = t.val]
      BY <1>13 DEF ParseToken, Diagnostic, Checked
    <2>2. p \in ParsedOptions
      BY <1>0, <2>1 DEF ParsedOptions, Value
    <2> QED
      BY <1>13, <2>1, <2>2 DEF IsRoute, IsRedirect, ParsedOptions
  <1>14. CASE t.opt = "route" /\ t.val # "bad"
    <2>1. p = AddRoute(o, "V4", t, Ipv4MaskToPrefix(t.mask))
      BY <1>14 DEF ParseToken, Diagnostic, Checked
    <2>2. p = IF IsRoute(t) THEN [o EXCEPT !.routes = Append(o.routes, RouteOf(t))] ELSE o
      BY <1>0, <1>14, <2>1, MaskPrefix DEF AddRoute, IsRoute, RouteOf
    <2>3. IsRoute(t) => Append(o.routes, RouteOf(t)) \in Seq(Route)
      BY TokenTypes, OptionTypes, Appended
    <2>4. p \in ParsedOptions
      BY <2>2, <2>3 DEF ParsedOptions
    <2> QED
      BY <1>14, <2>2, <2>4 DEF IsRedirect, ParsedOptions
  <1>15. CASE t.opt = "route-ipv6" /\ t.val # "bad"
    <2>1. p = AddRoute(o, "V6", t, t.mask)
      BY <1>15 DEF ParseToken, Diagnostic, Checked
    <2>2. p = IF IsRoute(t) THEN [o EXCEPT !.routes = Append(o.routes, RouteOf(t))] ELSE o
      BY <1>0, <1>15, <2>1, PushAssumption DEF AddRoute, IsRoute, RouteOf
    <2>3. IsRoute(t) => Append(o.routes, RouteOf(t)) \in Seq(Route)
      BY TokenTypes, OptionTypes, Appended
    <2>4. p \in ParsedOptions
      BY <2>2, <2>3 DEF ParsedOptions
    <2> QED
      BY <1>15, <2>2, <2>4 DEF IsRedirect, ParsedOptions
  <1>16. CASE t.opt \notin Diagnostic \union {"DNS", "DOMAIN-SEARCH", "DOMAIN", "ifconfig", "ifconfig-ipv6", "cipher", "compress", "auth-token",
                            "auth-token-user", "redirect-gateway", "redirect-gateway-ipv6", "route-gateway", "route",
                            "route-ipv6"}
    <2>1. p = [o EXCEPT !.extras = Append(o.extras, t.opt)]
      BY <1>16 DEF ParseToken, ParseSession, Checked
    <2>2. p \in ParsedOptions
      BY <1>0, <1>a, <2>1 DEF ParsedOptions
    <2> QED
      BY <1>16, <2>1, <2>2 DEF IsRoute, IsRedirect, ParsedOptions
  <1> QED
    BY <1>1, <1>2, <1>3, <1>4, <1>5, <1>6, <1>7, <1>8, <1>9, <1>10, <1>11, <1>12, <1>13, <1>14, <1>15, <1>16 DEF Checked

\* The options after each token are those the recursion names.
LEMMA ParseStepsValues ==
    ASSUME NEW reply \in Seq(PushToken)
    PROVE  /\ ParseSteps(reply)[0] = PushOptions
           /\ \A i \in 0 .. Len(reply) : ParseSteps(reply)[i] \in ParsedOptions
           /\ \A i \in 1 .. Len(reply) :
                 ParseSteps(reply)[i] = ParseToken(ParseSteps(reply)[i - 1], reply[i])
  <1> DEFINE n == Len(reply)
             step == [i \in Nat |-> [o \in ParsedOptions |->
                         IF i + 1 <= n THEN ParseToken(o, reply[i + 1]) ELSE o]]
  <1>1. n \in Nat /\ \A i \in 1 .. n : reply[i] \in PushToken
    OBVIOUS
  <1>2. PushOptions \in ParsedOptions
    BY DEF PushOptions, ParsedOptions, Value
  <1>3. \A i \in Nat : \A o \in ParsedOptions :
            (IF i + 1 <= n THEN ParseToken(o, reply[i + 1]) ELSE o) \in ParsedOptions
    BY <1>1, ParseTokenEffect
  <1>4. step \in [Nat -> [ParsedOptions -> ParsedOptions]]
    BY <1>3
  <1>5. \A i \in Nat : \A o \in ParsedOptions : i + 1 <= n => step[i][o] = ParseToken(o, reply[i + 1])
    OBVIOUS
  <1> HIDE DEF step, n
  <1>6. PICK f : Recurses(f, ParsedOptions, PushOptions, step)
    BY <1>2, <1>4, Recursion, Zenon
  <1>7. f \in [Nat -> ParsedOptions] /\ f[0] = PushOptions /\ \A i \in Nat : f[i + 1] = step[i][f[i]]
    BY <1>6, Zenon DEF Recurses
  <1> DEFINE g == [i \in 0 .. n |-> f[i]]
             Is(h) == h = [i \in 0 .. n |-> IF i = 0 THEN PushOptions ELSE ParseToken(h[i - 1], reply[i])]
  <1>8. Is(g)
    <2>1. ASSUME NEW i \in 0 .. n
          PROVE  g[i] = IF i = 0 THEN PushOptions ELSE ParseToken(g[i - 1], reply[i])
      <3>1. CASE i = 0
        BY <1>1, <1>7, <3>1
      <3>2. CASE i # 0
        <4>1. i - 1 \in Nat /\ (i - 1) + 1 = i /\ (i - 1) + 1 <= n /\ i - 1 \in 0 .. n
          BY <1>1, <3>2
        <4>2. f[i] = step[i - 1][f[i - 1]] /\ f[i - 1] \in ParsedOptions
          BY <1>7, <4>1
        <4>3. f[i] = ParseToken(f[i - 1], reply[i])
          BY <1>5, <4>1, <4>2
        <4> QED
          BY <3>2, <4>1, <4>3
      <3> QED
        BY <3>1, <3>2
    <2> QED
      BY <2>1
  <1> DEFINE F == ParseSteps(reply)
  <1>9. F = CHOOSE h : Is(h)
    BY DEF ParseSteps, n
  <1>10. Is(F)
    BY <1>8, <1>9
  <1> HIDE DEF F
  <1>11. \A i \in 0 .. n : F[i] = IF i = 0 THEN PushOptions ELSE ParseToken(F[i - 1], reply[i])
    BY <1>10
  <1>12. F[0] = PushOptions /\ \A i \in 1 .. n : F[i] = ParseToken(F[i - 1], reply[i])
    BY <1>1, <1>11
  <1> DEFINE T == {i \in Nat : i <= n => F[i] \in ParsedOptions}
  <1>13. 0 \in T /\ \A i \in Nat : i \in T => i + 1 \in T
    <2>1. 0 \in T
      BY <1>2, <1>12
    <2>2. ASSUME NEW i \in Nat, i \in T, i + 1 <= n PROVE F[i + 1] \in ParsedOptions
      <3>1. F[i] \in ParsedOptions /\ i + 1 \in 1 .. n /\ (i + 1) - 1 = i
        BY <1>1, <2>2
      <3>2. F[i + 1] = ParseToken(F[i], reply[i + 1]) /\ reply[i + 1] \in PushToken
        BY <1>1, <1>12, <3>1
      <3> QED
        BY <3>1, <3>2, ParseTokenEffect
    <2> QED
      BY <2>1, <2>2
  <1> HIDE DEF T
  <1>14. \A i \in Nat : i \in T
    BY <1>13, Induction
  <1>15. \A i \in 0 .. n : F[i] \in ParsedOptions
    BY <1>1, <1>14 DEF T
  <1> QED
    BY <1>12, <1>15 DEF F, n

Elements(s) == {s[k] : k \in DOMAIN s}

\* v is the value of the last of the first i tokens that give the option.
LastValue(reply, i, opt, v) ==
    IF \E k \in 1 .. i : reply[k].opt = opt
    THEN \E k \in 1 .. i : /\ reply[k].opt = opt /\ v = reply[k].val
                           /\ \A l \in 1 .. i : reply[l].opt = opt => l <= k
    ELSE v = None

\* What the options after i tokens say of those tokens.
Summary(reply, i, o) ==
    /\ Elements(o.routes) = {RouteOf(reply[k]) : k \in {l \in 1 .. i : IsRoute(reply[l])}}
    /\ o.redirect = IF \E k \in 1 .. i : IsRedirect(reply[k])
                    THEN UNION {FlagsOf(reply[k]) : k \in {l \in 1 .. i : IsRedirect(reply[l])}}
                    ELSE None
    /\ o.routeGateway # None <=> \E k \in 1 .. i : reply[k].opt = "route-gateway" /\ reply[k].val # "bad"
    /\ o.ifconfigIpv6 # None <=> \E k \in 1 .. i : reply[k].opt = "ifconfig-ipv6" /\ reply[k].val # "bad"
    /\ LastValue(reply, i, "auth-token", o.authToken)
    /\ LastValue(reply, i, "cipher", o.cipher)
    /\ LastValue(reply, i, "compress", o.compress)

LEMMA AppendedElements ==
    ASSUME NEW S, NEW s \in Seq(S), NEW v \in S
    PROVE  Elements(Append(s, v)) = Elements(s) \union {v}
  <1>1. /\ DOMAIN s = 1 .. Len(s) /\ Len(s) \in Nat
        /\ DOMAIN Append(s, v) = 1 .. Len(s) + 1
        /\ \A k \in 1 .. Len(s) : Append(s, v)[k] = s[k]
        /\ Append(s, v)[Len(s) + 1] = v
    OBVIOUS
  <1>2. \A x : x \in Elements(Append(s, v)) <=> x \in Elements(s) \union {v}
    <2>1. ASSUME NEW x \in Elements(Append(s, v)) PROVE x \in Elements(s) \union {v}
      <3>1. PICK k \in 1 .. Len(s) + 1 : x = Append(s, v)[k]
        BY <1>1, <2>1 DEF Elements
      <3> QED
        BY <1>1, <3>1 DEF Elements
    <2>2. v \in Elements(Append(s, v))
      BY <1>1 DEF Elements
    <2>3. ASSUME NEW x \in Elements(s) PROVE x \in Elements(Append(s, v))
      <3>1. PICK k \in 1 .. Len(s) : x = s[k]
        BY <1>1, <2>3 DEF Elements
      <3>2. k \in 1 .. Len(s) + 1 /\ x = Append(s, v)[k]
        BY <1>1, <3>1
      <3> QED
        BY <1>1, <3>2 DEF Elements
    <2> QED
      BY <2>1, <2>2, <2>3
  <1> QED
    BY <1>2

\* The last value is kept by any other token.
LEMMA LastValueStep ==
    ASSUME NEW reply, NEW i \in Nat, NEW opt, NEW v, NEW w, LastValue(reply, i, opt, v),
           w = IF reply[i + 1].opt = opt THEN reply[i + 1].val ELSE v
    PROVE  LastValue(reply, i + 1, opt, w)
  <1>1. \A k : k \in 1 .. i + 1 <=> k \in 1 .. i \/ k = i + 1
    OBVIOUS
  <1>2. CASE reply[i + 1].opt = opt
    <2>1. i + 1 \in 1 .. i + 1 /\ \A l \in 1 .. i + 1 : l <= i + 1
      OBVIOUS
    <2> QED
      BY <1>2, <2>1 DEF LastValue
  <1>3. CASE reply[i + 1].opt # opt
    BY <1>1, <1>3 DEF LastValue
  <1> QED
    BY <1>2, <1>3

\* One more token.
LEMMA SummaryStep ==
    ASSUME NEW reply \in Seq(PushToken), NEW i \in Nat, i + 1 <= Len(reply),
           NEW o \in ParsedOptions, Summary(reply, i, o)
    PROVE  Summary(reply, i + 1, ParseToken(o, reply[i + 1]))
  <1> DEFINE t == reply[i + 1]
             p == ParseToken(o, t)
  <1>1. t \in PushToken
    OBVIOUS
  <1>2. /\ p.routes = IF IsRoute(t) THEN Append(o.routes, RouteOf(t)) ELSE o.routes
        /\ p.redirect = IF IsRedirect(t) THEN MergeRedirect(o.redirect, FlagsOf(t)) ELSE o.redirect
        /\ p.routeGateway = IF t.opt = "route-gateway" /\ t.val # "bad" /\ o.routeGateway = None
                            THEN t.val ELSE o.routeGateway
        /\ p.ifconfigIpv6 = IF t.opt = "ifconfig-ipv6" /\ t.val # "bad" THEN t.val ELSE o.ifconfigIpv6
        /\ p.authToken = IF t.opt = "auth-token" THEN t.val ELSE o.authToken
        /\ p.cipher = IF t.opt = "cipher" THEN t.val ELSE o.cipher
        /\ p.compress = IF t.opt = "compress" THEN t.val ELSE o.compress
    BY <1>1, ParseTokenEffect
  <1>3. \A k : k \in 1 .. i + 1 <=> k \in 1 .. i \/ k = i + 1
    OBVIOUS
  <1>4. t.val # None /\ FlagsOf(t) \in SUBSET RedirectFlags /\ (IsRoute(t) => RouteOf(t) \in Route)
    BY <1>1, TokenTypes
  <1>5. o.routes \in Seq(Route) /\ o.redirect \in (SUBSET RedirectFlags) \union {None}
    BY OptionTypes
  <1>6. Elements(p.routes) = {RouteOf(reply[k]) : k \in {l \in 1 .. i + 1 : IsRoute(reply[l])}}
    <2>1. Elements(p.routes) = Elements(o.routes) \union (IF IsRoute(t) THEN {RouteOf(t)} ELSE {})
      BY <1>2, <1>4, <1>5, AppendedElements
    <2>2. Elements(o.routes) = {RouteOf(reply[k]) : k \in {l \in 1 .. i : IsRoute(reply[l])}}
      BY DEF Summary
    <2> HIDE DEF p
    <2> QED
      BY <1>3, <2>1, <2>2
  <1>7. p.redirect = IF \E k \in 1 .. i + 1 : IsRedirect(reply[k])
                     THEN UNION {FlagsOf(reply[k]) : k \in {l \in 1 .. i + 1 : IsRedirect(reply[l])}}
                     ELSE None
    <2> DEFINE U(j) == UNION {FlagsOf(reply[k]) : k \in {l \in 1 .. j : IsRedirect(reply[l])}}
               E(j) == \E k \in 1 .. j : IsRedirect(reply[k])
    <2>1. U(i + 1) = U(i) \union (IF IsRedirect(t) THEN FlagsOf(t) ELSE {})
      BY <1>3
    <2>2. ~E(i) => U(i) = {}
      OBVIOUS
    <2>3. o.redirect = IF E(i) THEN U(i) ELSE None
      BY DEF Summary
    <2>4. E(i + 1) <=> E(i) \/ IsRedirect(t)
      BY <1>3
    <2>5. \A flags \in SUBSET RedirectFlags : flags # None
      BY PushAssumption
    <2>a. U(i) \in SUBSET RedirectFlags
      <3>1. \A k \in 1 .. i : reply[k] \in PushToken
        OBVIOUS
      <3>2. \A k \in 1 .. i : FlagsOf(reply[k]) \in SUBSET RedirectFlags
        BY <3>1, TokenTypes
      <3> QED
        BY <3>2
    <2> SUFFICES p.redirect = IF E(i + 1) THEN U(i + 1) ELSE None
      OBVIOUS
    <2> HIDE DEF p, U, E
    <2>6. CASE IsRedirect(t)
      BY <1>2, <2>1, <2>2, <2>3, <2>4, <2>5, <2>6, <2>a DEF MergeRedirect
    <2>7. CASE ~IsRedirect(t)
      BY <1>2, <2>1, <2>3, <2>4, <2>7
    <2> QED
      BY <2>6, <2>7
  <1>8. p.routeGateway # None <=>
            \E k \in 1 .. i + 1 : reply[k].opt = "route-gateway" /\ reply[k].val # "bad"
    BY <1>2, <1>3, <1>4 DEF Summary
  <1>9. p.ifconfigIpv6 # None <=>
            \E k \in 1 .. i + 1 : reply[k].opt = "ifconfig-ipv6" /\ reply[k].val # "bad"
    BY <1>2, <1>3, <1>4 DEF Summary
  <1>10. LastValue(reply, i + 1, "auth-token", p.authToken)
    BY <1>2, LastValueStep DEF Summary
  <1>11. LastValue(reply, i + 1, "cipher", p.cipher)
    BY <1>2, LastValueStep DEF Summary
  <1>12. LastValue(reply, i + 1, "compress", p.compress)
    BY <1>2, LastValueStep DEF Summary
  <1> QED
    BY <1>6, <1>7, <1>8, <1>9, <1>10, <1>11, <1>12 DEF Summary

\* By induction over its tokens, parsing a reply gives what the reply says.
LEMMA ParseSummary ==
    ASSUME NEW reply \in Seq(PushToken)
    PROVE  Parse(reply) \in ParsedOptions /\ Summary(reply, Len(reply), Parse(reply))
  <1> DEFINE n == Len(reply)
             F == ParseSteps(reply)
             T == {i \in Nat : i <= n => Summary(reply, i, F[i])}
  <1>1. n \in Nat
    OBVIOUS
  <1>2. /\ F[0] = PushOptions
        /\ \A i \in 0 .. n : F[i] \in ParsedOptions
        /\ \A i \in 1 .. n : F[i] = ParseToken(F[i - 1], reply[i])
    BY ParseStepsValues
  <1> HIDE DEF F
  <1>3. 0 \in T
    <2>1. /\ PushOptions.routes = <<>> /\ PushOptions.redirect = None /\ PushOptions.routeGateway = None
          /\ PushOptions.ifconfigIpv6 = None /\ PushOptions.authToken = None
          /\ PushOptions.cipher = None /\ PushOptions.compress = None
      BY DEF PushOptions
    <2>2. Elements(<<>>) = {}
      BY DEF Elements
    <2>3. Summary(reply, 0, PushOptions)
      BY <2>1, <2>2 DEF Summary, LastValue
    <2> QED
      BY <1>2, <2>3
  <1>4. ASSUME NEW i \in Nat, i \in T PROVE i + 1 \in T
    <2> SUFFICES ASSUME i + 1 <= n PROVE Summary(reply, i + 1, F[i + 1])
      OBVIOUS
    <2>1. i \in 0 .. n /\ i + 1 \in 1 .. n /\ (i + 1) - 1 = i /\ i <= n
      BY <1>1
    <2>2. Summary(reply, i, F[i]) /\ F[i] \in ParsedOptions
      BY <1>2, <1>4, <2>1
    <2>3. F[i + 1] = ParseToken(F[i], reply[i + 1])
      BY <1>2, <2>1
    <2> QED
      BY <2>2, <2>3, SummaryStep
  <1> HIDE DEF T
  <1>5. n \in T
    BY <1>1, <1>3, <1>4, Induction
  <1>6. Summary(reply, n, F[n]) /\ F[n] \in ParsedOptions
    BY <1>1, <1>2, <1>5 DEF T
  <1> QED
    BY <1>6 DEF Parse, F

\* The token openvpn takes from a reply is the one the client parses.
LEMMA RepliesParse ==
    ASSUME NEW reply \in Replies \union Later
    PROVE  LET opts == Parse(reply) IN
           /\ opts.authToken \in Tokens \union {None}
           /\ \A before : TokenOf([Line("push") EXCEPT !.reply = reply], before)
                              = IF opts.authToken # None THEN opts.authToken ELSE before
           /\ \A i \in DOMAIN opts.routes : opts.routes[i] \in Route
  <1> DEFINE opts == Parse(reply)
             line == [Line("push") EXCEPT !.reply = reply]
             given == {i \in DOMAIN reply : reply[i].opt = "auth-token"}
  <1>1. /\ reply \in Seq(PushToken)
        /\ \A i \in DOMAIN reply : reply[i].opt = "auth-token" => reply[i].val \in Tokens
    BY ManagementAssumption
  <1>2. Len(reply) \in Nat /\ DOMAIN reply = 1 .. Len(reply)
    BY <1>1
  <1>3. opts \in ParsedOptions /\ Summary(reply, Len(reply), opts)
    BY <1>1, ParseSummary
  <1> HIDE DEF opts
  <1>4. opts.routes \in Seq(Route)
    BY <1>3, OptionTypes
  <1>5. \A before : TokenOf(line, before) = IF given = {} THEN before ELSE reply[Max(given)].val
    BY DEF TokenOf, Line
  <1>6. CASE given = {}
    <2>1. opts.authToken = None
      BY <1>2, <1>3, <1>6 DEF Summary, LastValue
    <2> QED
      BY <1>4, <1>5, <1>6, <2>1 DEF opts
  <1>7. CASE given # {}
    <2>1. PICK k \in 1 .. Len(reply) :
             /\ reply[k].opt = "auth-token" /\ opts.authToken = reply[k].val
             /\ \A l \in 1 .. Len(reply) : reply[l].opt = "auth-token" => l <= k
      BY <1>2, <1>3, <1>7 DEF Summary, LastValue
    <2>2. given \subseteq 0 .. Len(reply)
      BY <1>2
    <2>3. Max(given) \in given /\ \A l \in given : l <= Max(given)
      BY <1>2, <1>7, <2>2, Greatest
    <2>4. Max(given) = k
      <3>1. k \in given /\ Max(given) \in 1 .. Len(reply)
        BY <1>2, <2>1, <2>3
      <3>2. k <= Max(given) /\ Max(given) <= k
        BY <2>1, <2>3, <3>1
      <3> QED
        BY <1>2, <3>1, <3>2
    <2>5. opts.authToken \in Tokens /\ opts.authToken # None
      BY <1>1, <1>2, <2>1, ManagementAssumption
    <2> QED
      BY <1>4, <1>5, <1>7, <2>1, <2>4, <2>5 DEF opts
  <1> QED
    BY <1>6, <1>7

\* The addresses that are routed for a reply: those of its routes, whichever
\* gateway they name, and of a redirection that has a sub-flag.
Taken(reply, family, a) ==
    \/ /\ \E i \in DOMAIN reply : Covers(reply[i], family, a)
       /\ family = "V6" => Says(reply, "ifconfig-ipv6")
    \/ /\ family = "V4"
       /\ ~Flag(reply, "!ipv4") /\ \E flag \in RedirectFlags : Flag(reply, flag)
    \/ family = "V6" /\ Flag(reply, "ipv6")

LEMMA DesiredTaken ==
    ASSUME NEW reply \in Seq(PushToken), NEW family \in Families, NEW a \in Addr
    PROVE  (\E n \in Desired(Parse(reply)) : n.family = family /\ InNet(n, a)) <=> Taken(reply, family, a)
  <1> DEFINE o == Parse(reply)
             routes == {n \in Elements(o.routes) : RouteForApply(n, o)}
             redirected == IF o.redirect = None THEN {} ELSE RedirectGatewayRoutes(o.redirect)
             N == Len(reply)
  <1>1. N \in Nat /\ DOMAIN reply = 1 .. N /\ \A k \in 1 .. N : reply[k] \in PushToken
    OBVIOUS
  <1>2. o \in ParsedOptions /\ Summary(reply, N, o)
    BY ParseSummary
  <1>3. Desired(o) = {NetOf(r) : r \in routes} \union redirected
    BY DEF Desired, Elements
  <1> HIDE DEF o
  <1>4. Width \in Nat
    BY PushAssumption
  <1>5. (\E n \in routes : n.family = "V4" /\ InNet(n, a)) <=>
            \E k \in 1 .. N : /\ reply[k].opt = "route" /\ reply[k].val # "bad"
                              /\ Contiguous(reply[k].mask) /\ InMask(reply[k].dest, reply[k].mask, a)
    <2> DEFINE t(k) == reply[k]
               plain(k) == t(k).opt = "route" /\ t(k).val # "bad" /\ Contiguous(t(k).mask)
    <2>1. ASSUME NEW k \in 1 .. N, plain(k)
          PROVE  /\ RouteOf(t(k)) \in routes
                 /\ RouteOf(t(k)).family = "V4" /\ (InNet(RouteOf(t(k)), a) <=> InMask(t(k).dest, t(k).mask, a))
      <3>1. t(k).mask \in Nat /\ t(k).dest \in Addr
        BY <1>1, TokenTypes
      <3>2. /\ RouteOf(t(k)).family = "V4" /\ RouteOf(t(k)).dest = t(k).dest
            /\ RouteOf(t(k)).prefix = Ipv4MaskToPrefix(t(k).mask)
        BY <2>1 DEF RouteOf
      <3>3. Ipv4MaskToPrefix(t(k).mask) \in 0 .. Width
        BY <2>1, <3>1, MaskPrefix
      <3>4. RouteForApply(RouteOf(t(k)), o)
        BY <1>4, <3>2, <3>3 DEF RouteForApply
      <3>5. RouteOf(t(k)) \in Elements(o.routes)
        BY <1>2, <2>1 DEF Summary, IsRoute
      <3>6. InNet(RouteOf(t(k)), a) <=> InMask(t(k).dest, t(k).mask, a)
        BY <2>1, <3>1, <3>2, MaskNet
      <3> QED
        BY <3>2, <3>4, <3>5, <3>6
    <2>2. ASSUME NEW n \in routes, n.family = "V4"
          PROVE  \E k \in 1 .. N : plain(k) /\ n = RouteOf(t(k))
      <3>1. PICK k \in 1 .. N : IsRoute(t(k)) /\ n = RouteOf(t(k))
        BY <1>2, <2>2 DEF Summary
      <3> QED
        BY <2>2, <3>1 DEF IsRoute, RouteOf
    <2> HIDE DEF routes
    <2> QED
      BY <2>1, <2>2
  <1>6. (\E n \in routes : n.family = "V6" /\ InNet(n, a)) <=>
            \E k \in 1 .. N : /\ reply[k].opt = "route-ipv6" /\ reply[k].val # "bad"
                              /\ reply[k].mask <= Width
                              /\ InNet([dest |-> reply[k].dest, prefix |-> reply[k].mask], a)
                              /\ Says(reply, "ifconfig-ipv6")
    <2> DEFINE t(k) == reply[k]
               plain(k) == t(k).opt = "route-ipv6" /\ t(k).val # "bad"
    <2>0. Says(reply, "ifconfig-ipv6") <=> o.ifconfigIpv6 # None
      BY <1>1, <1>2 DEF Summary, Says
    <2>1. ASSUME NEW k \in 1 .. N, plain(k)
          PROVE  /\ RouteOf(t(k)).family = "V6"
                 /\ RouteOf(t(k)) \in routes <=> t(k).mask <= Width /\ Says(reply, "ifconfig-ipv6")
                 /\ InNet(RouteOf(t(k)), a) <=> InNet([dest |-> t(k).dest, prefix |-> t(k).mask], a)
      <3>1. /\ RouteOf(t(k)).family = "V6" /\ RouteOf(t(k)).dest = t(k).dest
            /\ RouteOf(t(k)).prefix = t(k).mask
        BY <2>1 DEF RouteOf
      <3>2. RouteForApply(RouteOf(t(k)), o) <=> t(k).mask <= Width /\ Says(reply, "ifconfig-ipv6")
        BY <2>0, <3>1 DEF RouteForApply
      <3>3. RouteOf(t(k)) \in Elements(o.routes)
        BY <1>2, <2>1 DEF Summary, IsRoute
      <3>4. InNet(RouteOf(t(k)), a) <=> InNet([dest |-> t(k).dest, prefix |-> t(k).mask], a)
        BY <3>1 DEF InNet
      <3> QED
        BY <3>1, <3>2, <3>3, <3>4
    <2>2. ASSUME NEW n \in routes, n.family = "V6"
          PROVE  \E k \in 1 .. N : plain(k) /\ n = RouteOf(t(k))
      <3>1. PICK k \in 1 .. N : IsRoute(t(k)) /\ n = RouteOf(t(k))
        BY <1>2, <2>2 DEF Summary
      <3> QED
        BY <2>2, <3>1 DEF IsRoute, RouteOf
    <2> HIDE DEF routes
    <2> QED
      BY <2>1, <2>2
  <1>7. o.redirect # None => \A flag : flag \in o.redirect <=> Flag(reply, flag)
    <2>1. o.redirect = IF \E k \in 1 .. N : IsRedirect(reply[k])
                       THEN UNION {FlagsOf(reply[k]) : k \in {l \in 1 .. N : IsRedirect(reply[l])}}
                       ELSE None
      BY <1>2 DEF Summary
    <2>2. \A k \in 1 .. N : \A flag : IsRedirect(reply[k]) /\ flag \in FlagsOf(reply[k]) <=>
             \/ reply[k].opt \in {"redirect-gateway", "redirect-gateway-ipv6"} /\ flag \in reply[k].flags
             \/ reply[k].opt = "redirect-gateway-ipv6" /\ flag = "ipv6"
      BY DEF IsRedirect, FlagsOf
    <2>3. \A flag : Flag(reply, flag) <=> \E k \in 1 .. N : IsRedirect(reply[k]) /\ flag \in FlagsOf(reply[k])
      BY <1>1, <2>2 DEF Flag
    <2> QED
      BY <2>1, <2>3
  <1>8. o.redirect = None => \A flag : ~Flag(reply, flag)
    <2>1. (\E k \in 1 .. N : IsRedirect(reply[k])) =>
             o.redirect = UNION {FlagsOf(reply[k]) : k \in {l \in 1 .. N : IsRedirect(reply[l])}}
      BY <1>2 DEF Summary
    <2>2. \A k \in 1 .. N : FlagsOf(reply[k]) \in SUBSET RedirectFlags
      BY <1>1, TokenTypes
    <2>3. UNION {FlagsOf(reply[k]) : k \in {l \in 1 .. N : IsRedirect(reply[l])}} \in SUBSET RedirectFlags
      BY <2>2
    <2>4. o.redirect = None => \A k \in 1 .. N : ~IsRedirect(reply[k])
      BY <2>1, <2>3, PushAssumption
    <2> QED
      BY <1>1, <2>4 DEF Flag, IsRedirect
  <1>9. o.redirect # None => o.redirect \subseteq RedirectFlags
    BY <1>2, OptionTypes
  <1>10. \A f : \A n \in Halves(f) : n.family = f
    BY DEF Halves
  <1>11. (\E n \in redirected : n.family = "V4" /\ InNet(n, a)) <=>
             ~Flag(reply, "!ipv4") /\ \E flag \in RedirectFlags : Flag(reply, flag)
    <2>1. (\E n \in redirected : n.family = "V4" /\ InNet(n, a)) <=> o.redirect # None /\ CoversIpv4(o.redirect)
      BY <1>10, HalvesCover DEF RedirectGatewayRoutes
    <2> QED
      BY <1>7, <1>8, <1>9, <2>1 DEF CoversIpv4, IsFullTunnel
  <1>12. (\E n \in redirected : n.family = "V6" /\ InNet(n, a)) <=> Flag(reply, "ipv6")
    <2>1. (\E n \in redirected : n.family = "V6" /\ InNet(n, a)) <=> o.redirect # None /\ CoversIpv6(o.redirect)
      BY <1>10, HalvesCover DEF RedirectGatewayRoutes
    <2> QED
      BY <1>7, <1>8, <2>1 DEF CoversIpv6
  <1> HIDE DEF routes, redirected
  <1>13. (\E n \in Desired(o) : n.family = family /\ InNet(n, a)) <=>
             \/ \E n \in routes : n.family = family /\ InNet(n, a)
             \/ \E n \in redirected : n.family = family /\ InNet(n, a)
    <2>1. \A r : NetOf(r).family = r.family /\ (InNet(NetOf(r), a) <=> InNet(r, a))
      BY DEF NetOf, InNet
    <2> QED
      BY <1>3, <2>1
  <1>14. CASE family = "V4"
    <2>1. \A k \in 1 .. N : Covers(reply[k], family, a) <=>
             /\ reply[k].opt = "route" /\ reply[k].val # "bad"
             /\ Contiguous(reply[k].mask) /\ InMask(reply[k].dest, reply[k].mask, a)
      BY <1>14 DEF Covers
    <2>2. Taken(reply, family, a) <=>
             \/ \E k \in 1 .. N : Covers(reply[k], family, a)
             \/ ~Flag(reply, "!ipv4") /\ \E flag \in RedirectFlags : Flag(reply, flag)
      BY <1>1, <1>14 DEF Taken
    <2> QED
      BY <1>5, <1>11, <1>13, <1>14, <2>1, <2>2, Zenon DEF o
  <1>15. CASE family = "V6"
    <2>1. \A k \in 1 .. N : Covers(reply[k], family, a) <=>
             /\ reply[k].opt = "route-ipv6" /\ reply[k].val # "bad" /\ reply[k].mask <= Width
             /\ InNet([dest |-> reply[k].dest, prefix |-> reply[k].mask], a)
      BY <1>15 DEF Covers
    <2>2. Taken(reply, family, a) <=>
             \/ \E k \in 1 .. N : Covers(reply[k], family, a) /\ Says(reply, "ifconfig-ipv6")
             \/ Flag(reply, "ipv6")
      BY <1>1, <1>15 DEF Taken
    <2> QED
      BY <1>6, <1>12, <1>13, <1>15, <2>1, <2>2, Zenon DEF o
  <1> QED
    BY <1>14, <1>15 DEF Families

\* PushOptions::parse and apply_routes together: the networks asked for hold
\* exactly the addresses the reply sends through the tunnel, whatever the
\* order of its tokens.  The code departs from the reply in two cases only: a
\* redirect-gateway without sub-flags, and the addresses of a route that names
\* a gateway of its own.
THEOREM DesiredAsPushed ==
    ASSUME NEW reply \in Seq(PushToken), NEW family \in Families, NEW a \in Addr,
           ~(family = "V4" /\ BareRedirect(reply)), ~SentElsewhere(reply, family, a)
    PROVE  (\E n \in Desired(Parse(reply)) : n.family = family /\ InNet(n, a)) <=> SentThrough(reply, family, a)
  <1>1. \A i \in DOMAIN reply : Covers(reply[i], family, a) => reply[i].gateway = "none"
    BY DEF SentElsewhere
  <1>2. \A flag : Flag(reply, flag) => Redirects(reply)
    BY DEF Flag, Redirects
  <1>3. family = "V4" /\ Redirects(reply) => \E flag \in RedirectFlags : Flag(reply, flag)
    BY DEF BareRedirect
  <1>4. Taken(reply, family, a) <=> SentThrough(reply, family, a)
    <2>1. CASE family = "V4"
      BY <1>1, <1>2, <1>3, <2>1 DEF Taken, SentThrough
    <2>2. CASE family = "V6"
      BY <1>1, <1>2, <2>2 DEF Taken, SentThrough
    <2> QED
      BY <2>1, <2>2 DEF Families
  <1> QED
    BY <1>4, DesiredTaken

\* push_reply_acceptable refuses a reply exactly if the last cipher it gives
\* is weak or the last compression is active: an earlier one that is fine does
\* not hide it.
THEOREM PolicyDecidesOnLast ==
    ASSUME NEW reply \in Seq(PushToken)
    PROVE  PushReplyAcceptable(Parse(reply)) <=>
              \A bad \in {<<"cipher", "weak">>, <<"compress", "active">>}, k \in DOMAIN reply :
                  reply[k].opt = bad[1] /\ reply[k].val = bad[2] =>
                      \E l \in DOMAIN reply : l > k /\ reply[l].opt = bad[1]
  <1> DEFINE N == Len(reply)
             Refused(opt, v) == \E k \in 1 .. N : /\ reply[k].opt = opt /\ reply[k].val = v
                                                  /\ ~\E l \in 1 .. N : l > k /\ reply[l].opt = opt
  <1>1. N \in Nat /\ DOMAIN reply = 1 .. N
    OBVIOUS
  <1>2. /\ LastValue(reply, N, "cipher", Parse(reply).cipher)
        /\ LastValue(reply, N, "compress", Parse(reply).compress)
    BY ParseSummary DEF Summary
  <1>3. ASSUME NEW opt, NEW v, v # None, NEW w, LastValue(reply, N, opt, w) PROVE w = v <=> Refused(opt, v)
    <2>1. CASE \E k \in 1 .. N : reply[k].opt = opt
      <3>1. PICK k \in 1 .. N : /\ reply[k].opt = opt /\ w = reply[k].val
                               /\ \A l \in 1 .. N : reply[l].opt = opt => l <= k
        BY <1>3, <2>1 DEF LastValue
      <3>2. \A l \in 1 .. N : l > k => reply[l].opt # opt
        BY <1>1, <3>1
      <3>3. \A l \in 1 .. N : reply[l].opt = opt /\ (~\E j \in 1 .. N : j > l /\ reply[j].opt = opt) => l = k
        BY <1>1, <3>1
      <3> QED
        BY <3>1, <3>2, <3>3
    <2>2. CASE ~\E k \in 1 .. N : reply[k].opt = opt
      <3>1. w = None
        BY <1>3, <2>2 DEF LastValue
      <3> QED
        BY <1>3, <2>2, <3>1
    <2> QED
      BY <2>1, <2>2
  <1> HIDE DEF Refused
  <1>4. /\ Parse(reply).cipher = "weak" <=> Refused("cipher", "weak")
        /\ Parse(reply).compress = "active" <=> Refused("compress", "active")
    BY <1>2, <1>3, PushAssumption
  <1>5. PushReplyAcceptable(Parse(reply)) <=> ~Refused("cipher", "weak") /\ ~Refused("compress", "active")
    BY <1>4 DEF PushReplyAcceptable, CipherAcceptable, CompressionAcceptable
  <1> QED
    BY <1>1, <1>5 DEF Refused

-----------------------------------------------------------------------------
(* The inductive invariant *)

LineSet == [kind : {"push"}, token : {None}, reply : Replies \union Later] \union
           [kind : {"token"}, token : Tokens, reply : {<<>>}] \union
           [kind : Kinds \ {"push", "token"}, token : {None}, reply : {<<>>}]

Piece == [part : {"whole", "head", "tail"}, id : Nat, issued : Tokens \union {None}, line : LineSet]

Pieces ==
    /\ wire \in Seq(Piece) /\ buf \in Seq(Piece)
    /\ issued \in Tokens \union {None}
    /\ lines \in Nat /\ seen \in Nat

\* No line on the way has become an event yet; lines come in their order, and
\* only the two pieces of one line share its number.
InOrder ==
    /\ \A i \in 1 .. Len(wire) : seen < wire[i].id /\ wire[i].id <= lines
    /\ \A i, j \in 1 .. Len(wire) :
          i < j => wire[i].id <= wire[j].id /\ (wire[i].part # "head" => wire[i].id < wire[j].id)
    /\ buf # <<>> => /\ seen < buf[1].id
                     /\ \A i \in 1 .. Len(wire) : buf[1].id <= wire[i].id

\* What was read was written.
SeenBound == seen <= lines /\ (buf # <<>> => buf[1].id <= lines)

\* openvpn goes on only when every startup command has been sent.
Started == phase # "hold" => sent = Len(Startup)

\* One piece after another: the rest of the same line, or the next line, which
\* was written when the tokens of the one before had been told of.
Follows(p, q) ==
    IF p.part = "head" THEN q.part = "tail" /\ q.line = p.line /\ q.issued = p.issued
    ELSE q.part # "tail" /\ q.issued = TokenOf(p.line, p.issued)

Chain ==
    /\ \A i \in 1 .. Len(wire) - 1 : Follows(wire[i], wire[i + 1])
    /\ wire # <<>> => /\ wire[Len(wire)].part # "head"
                      /\ issued = TokenOf(wire[Len(wire)].line, wire[Len(wire)].issued)

\* Without a cut, what was read of a line is its beginning, and the next piece
\* is its end.
Uncut ==
    ~cut => IF buf = <<>> THEN wire # <<>> => wire[1].part # "tail"
            ELSE Len(buf) = 1 /\ buf[1].part = "head" /\ wire # <<>> /\ Follows(buf[1], wire[1])

\* Without a cut, the token at hand is the newest that the lines read so far
\* told of.
Newest == ~cut /\ ~over => creds.token = IF wire = <<>> THEN issued ELSE wire[1].issued

\* Once a prompt was answered, every later one can be.
Answered ==
    answer # NoCreds => creds.token # None /\ (creds.user # None \/ InitialUser # None)

\* The options in force were accepted, and the credentials are a pair.
Options ==
    /\ pushOpts.routeGateway = None \/ Desired(pushOpts) \subseteq Net
    /\ creds = [token |-> creds.token, user |-> creds.user]

Inv ==
    /\ TypeOK /\ ordered /\ Pieces /\ InOrder /\ SeenBound /\ Started
    /\ Chain /\ Uncut /\ Newest /\ Answered /\ Options

-----------------------------------------------------------------------------
(* Lines, sequences and commands *)

LEMMA LineFacts ==
    /\ \A kind \in Kinds \ {"push", "token"} : Line(kind) \in LineSet /\ Line(kind).kind = kind
    /\ \A t \in Tokens : /\ [Line("token") EXCEPT !.token = t] \in LineSet
                         /\ [Line("token") EXCEPT !.token = t].kind = "token"
    /\ \A reply \in Replies \union Later :
          /\ [Line("push") EXCEPT !.reply = reply] \in LineSet
          /\ [Line("push") EXCEPT !.reply = reply].kind = "push"
          /\ [Line("push") EXCEPT !.reply = reply] = [kind |-> "push", token |-> None, reply |-> reply]
  BY DEF Line, LineSet, Kinds

LEMMA LineKinds ==
    ASSUME NEW line \in LineSet
    PROVE  /\ line.kind \in Kinds
           /\ line.kind = "push" => /\ line.reply \in Replies \union Later
                                    /\ line = [Line("push") EXCEPT !.reply = line.reply]
           /\ line.kind = "token" => line.token \in Tokens
           /\ line # None
  <1>1. /\ line.kind \in Kinds
        /\ line.kind = "token" => line.token \in Tokens
        /\ line.kind = "push" => line.reply \in Replies \union Later
    BY DEF LineSet, Kinds
  <1>2. ASSUME line.kind = "push"
        PROVE  line = [Line("push") EXCEPT !.reply = line.reply]
    <2>1. line = [kind |-> "push", token |-> None, reply |-> line.reply]
      BY <1>2 DEF LineSet
    <2> QED
      BY <1>1, <1>2, <2>1, LineFacts
  <1>3. line # None
    BY ManagementAssumption DEF LineSet, Kinds
  <1> QED
    BY <1>1, <1>2, <1>3

LEMMA PieceFacts ==
    ASSUME NEW p \in Piece
    PROVE  /\ p.part \in {"whole", "head", "tail"} /\ p.id \in Nat
           /\ p.issued \in Tokens \union {None} /\ p.line \in LineSet
  BY DEF Piece

LEMMA Added ==
    ASSUME NEW S, NEW s \in Seq(S), NEW p \in S, NEW q \in S
    PROVE  /\ s \o <<p>> \in Seq(S) /\ Len(s \o <<p>>) = Len(s) + 1
           /\ \A i \in 1 .. Len(s) : (s \o <<p>>)[i] = s[i]
           /\ (s \o <<p>>)[Len(s) + 1] = p
           /\ s \o <<p, q>> \in Seq(S) /\ Len(s \o <<p, q>>) = Len(s) + 2
           /\ \A i \in 1 .. Len(s) : (s \o <<p, q>>)[i] = s[i]
           /\ (s \o <<p, q>>)[Len(s) + 1] = p /\ (s \o <<p, q>>)[Len(s) + 2] = q
  <1>1. /\ <<p>> \in Seq(S) /\ Len(<<p>>) = 1 /\ <<p>>[1] = p
        /\ <<p, q>> \in Seq(S) /\ Len(<<p, q>>) = 2 /\ <<p, q>>[1] = p /\ <<p, q>>[2] = q
    OBVIOUS
  <1> QED
    BY <1>1

LEMMA Removed ==
    ASSUME NEW S, NEW s \in Seq(S), s # <<>>
    PROVE  /\ Tail(s) \in Seq(S) /\ Head(s) = s[1] /\ s[1] \in S
           /\ Len(s) \in Nat \ {0} /\ Len(Tail(s)) = Len(s) - 1
           /\ \A i \in 1 .. Len(s) - 1 : Tail(s)[i] = s[i + 1]
           /\ Tail(s) = <<>> <=> Len(s) = 1
  <1>1. /\ Tail(s) \in Seq(S) /\ Head(s) = s[1] /\ s[1] \in S
        /\ Len(s) \in Nat \ {0} /\ Len(Tail(s)) = Len(s) - 1
        /\ \A i \in 1 .. Len(s) - 1 : Tail(s)[i] = s[i + 1]
    OBVIOUS
  <1>2. \A t \in Seq(S) : t = <<>> <=> Len(t) = 0
    OBVIOUS
  <1> QED
    BY <1>1, <1>2

LEMMA Grown ==
    ASSUME NEW S, NEW s \in Seq(S), NEW p \in S
    PROVE  /\ Append(s, p) \in Seq(S) /\ Append(s, p) # <<>>
           /\ Append(s, p)[1] = IF s = <<>> THEN p ELSE s[1]
           /\ s = <<>> => Len(Append(s, p)) = 1
           /\ s # <<>> => s[1] \in S
           /\ Append(s, p)[1] \in S
  OBVIOUS

LEMMA Commands ==
    /\ Len(Startup) = 5
    /\ Startup[1] = "state on" /\ Startup[2] = "log on" /\ Startup[3] = "bytecount"
    /\ Startup[4] = "hold off" /\ Startup[5] = "hold release"
  BY DEF Startup

LEMMA SentFacts ==
    ASSUME sent \in 0 .. Len(Startup)
    PROVE  /\ sent \in 0 .. 5
           /\ sent = Len(Startup) <=> sent = 5
           /\ sent < Len(Startup) <=> sent < 5
           /\ sent' \in 0 .. Len(Startup) <=> sent' \in 0 .. 5
           /\ sent' = Len(Startup) <=> sent' = 5
  BY Commands, Zenon

LEMMA LastCommand ==
    \A i \in 0 .. 4 : Startup[i + 1] = "hold release" => i = 4
  <1>1. \A i \in 0 .. 4 : i = 4 \/ i + 1 = 1 \/ i + 1 = 2 \/ i + 1 = 3 \/ i + 1 = 4
    OBVIOUS
  <1>2. /\ Startup[1] # "hold release" /\ Startup[2] # "hold release"
        /\ Startup[3] # "hold release" /\ Startup[4] # "hold release"
    BY DEF Startup
  <1> QED
    BY <1>1, <1>2, Zenon

-----------------------------------------------------------------------------
(* What openvpn does *)

\* The line is subscribed to.
Heard(line) == sent = Len(Startup) \/ line.kind = "hold"

\* The pieces of a line of its own number, at the end of the wire.
Written(line) ==
    LET n == Len(wire) IN
    /\ wire' \in Seq(Piece)
    /\ \/ Len(wire') = n + 1 /\ wire'[n + 1].part = "whole"
       \/ Len(wire') = n + 2 /\ wire'[n + 1].part = "head" /\ wire'[n + 2].part = "tail"
    /\ \A i \in 1 .. n : wire'[i] = wire[i]
    /\ \A i \in n + 1 .. Len(wire') :
          wire'[i].id = lines + 1 /\ wire'[i].issued = issued /\ wire'[i].line = line

\* Every line is subscribed to by the time it is written.
LEMMA WritesAdds ==
    ASSUME Pieces, NEW line \in LineSet, Writes(line), Heard(line)
    PROVE  Written(line)
  <1>0. sent = Len(Startup) => 1 \in 1 .. sent /\ 2 \in 1 .. sent
    <2>1. sent = Len(Startup) => sent = 5
      BY Commands, Zenon
    <2>2. 1 \in 1 .. 5 /\ 2 \in 1 .. 5
      OBVIOUS
    <2> QED
      BY <2>1, <2>2, Zenon
  <1>1. Subscribed("state on") \/ line.kind = "hold"
    BY <1>0, Commands, Zenon DEF Subscribed, Heard
  <1>2. Subscribed("log on") \/ line.kind = "hold"
    BY <1>0, Commands, Zenon DEF Subscribed, Heard
  <1> DEFINE piece(part) == [part |-> part, id |-> lines + 1, issued |-> issued, line |-> line]
  <1>3. \A part \in {"whole", "head", "tail"} :
            /\ piece(part) \in Piece
            /\ piece(part).part = part /\ piece(part).id = lines + 1
            /\ piece(part).issued = issued /\ piece(part).line = line
    BY DEF Pieces, Piece
  <1>4. wire' \in {wire \o <<piece("whole")>>, wire \o <<piece("head"), piece("tail")>>}
    BY <1>1, <1>2 DEF Writes
  <1> HIDE DEF piece
  <1>5. wire \in Seq(Piece) /\ Len(wire) \in Nat
    BY DEF Pieces
  <1>6. CASE wire' = wire \o <<piece("whole")>>
    BY <1>3, <1>5, <1>6, Added DEF Written
  <1>7. CASE wire' = wire \o <<piece("head"), piece("tail")>>
    <2>1. /\ wire' \in Seq(Piece) /\ Len(wire') = Len(wire) + 2
          /\ \A i \in 1 .. Len(wire) : wire'[i] = wire[i]
          /\ wire'[Len(wire) + 1] = piece("head") /\ wire'[Len(wire) + 2] = piece("tail")
      BY <1>3, <1>5, <1>7, Added
    <2>2. \A i \in Len(wire) + 1 .. Len(wire') : i = Len(wire) + 1 \/ i = Len(wire) + 2
      BY <1>5, <2>1
    <2> QED
      BY <1>3, <2>1, <2>2 DEF Written
  <1> QED
    BY <1>4, <1>6, <1>7

LEMMA TokenTyped ==
    ASSUME NEW line \in LineSet, NEW before \in Tokens \union {None}
    PROVE  TokenOf(line, before) \in Tokens \union {None}
  <1>1. CASE line.kind = "push"
    <2>1. TokenOf(line, before) = IF Parse(line.reply).authToken # None
                                  THEN Parse(line.reply).authToken ELSE before
      BY <1>1, LineKinds, RepliesParse
    <2> QED
      BY <1>1, <2>1, LineKinds, RepliesParse
  <1>2. CASE line.kind = "token"
    BY <1>2, LineKinds DEF TokenOf
  <1>3. CASE line.kind \notin {"push", "token"}
    BY <1>3 DEF TokenOf
  <1> QED
    BY <1>1, <1>2, <1>3

\* The channel's part of the invariant, when openvpn writes a line.
LEMMA WritesKeeps ==
    ASSUME Inv, NEW line \in LineSet, Writes(line), Heard(line),
           UNCHANGED <<buf, seen, ordered, cut, creds, over>>
    PROVE  Pieces' /\ InOrder' /\ Chain' /\ Uncut' /\ Newest' /\ lines' \in 0 .. MaxLines
  <1>1. Written(line) /\ Pieces /\ lines' = lines + 1 /\ issued' = TokenOf(line, issued)
    BY WritesAdds DEF Inv, Writes
  <1> DEFINE n == Len(wire)
  <1>2. n \in Nat /\ lines \in Nat /\ wire \in Seq(Piece) /\ seen \in Nat
    BY <1>1 DEF Pieces
  <1>3. Pieces' /\ lines' \in 0 .. MaxLines
    <2>1. lines < MaxLines
      BY DEF Writes
    <2>2. issued' \in Tokens \union {None}
      BY <1>1, TokenTyped DEF Pieces
    <2>3. wire' \in Seq(Piece) /\ buf' \in Seq(Piece) /\ seen' \in Nat
      BY <1>1 DEF Pieces, Written
    <2> QED
      BY <1>1, <1>2, <2>1, <2>2, <2>3, ManagementAssumption DEF Pieces
  <1>4. \A i \in 1 .. n : wire[i] \in Piece /\ wire[i].id \in Nat
    BY <1>2, PieceFacts
  <1>a. n = 0 <=> wire = <<>>
    BY <1>2
  <1>b. Len(wire') \in Nat /\ Len(wire') > n /\ wire' # <<>>
    BY <1>1, <1>2 DEF Written
  <1>5. InOrder'
    <2>1. \A i \in 1 .. Len(wire') : IF i <= n THEN wire'[i] = wire[i] ELSE wire'[i].id = lines + 1
      BY <1>1, <1>2, <1>b DEF Written
    <2>2. \A i \in 1 .. Len(wire') : seen' < wire'[i].id /\ wire'[i].id <= lines'
      <3> TAKE i \in 1 .. Len(wire')
      <3>0. \A k \in 1 .. n : seen < wire[k].id /\ wire[k].id <= lines
        BY DEF Inv, InOrder
      <3>1. CASE i <= n
        BY <1>1, <1>2, <1>4, <1>b, <2>1, <3>0, <3>1
      <3>2. CASE ~(i <= n)
        <4>1. seen <= lines
          BY DEF Inv, SeenBound
        <4> QED
          BY <1>1, <1>2, <2>1, <3>2, <4>1
      <3> QED
        BY <3>1, <3>2
    <2>3. \A i, j \in 1 .. Len(wire') :
            i < j => wire'[i].id <= wire'[j].id /\ (wire'[i].part # "head" => wire'[i].id < wire'[j].id)
      <3> SUFFICES ASSUME NEW i \in 1 .. Len(wire'), NEW j \in 1 .. Len(wire'), i < j
                   PROVE  wire'[i].id <= wire'[j].id /\ (wire'[i].part # "head" => wire'[i].id < wire'[j].id)
        BY Zenon
      <3>1. CASE j <= n
        BY <1>2, <1>b, <2>1, <3>1 DEF Inv, InOrder
      <3>2. CASE i <= n /\ ~(j <= n)
        <4>1. wire[i].id <= lines /\ wire[i].id \in Nat
          BY <1>2, <1>4, <1>b, <3>2 DEF Inv, InOrder
        <4> QED
          BY <1>2, <1>b, <2>1, <3>2, <4>1
      <3>3. CASE ~(i <= n)
        <4>1. i = n + 1 /\ j = n + 2 /\ wire'[i].part = "head"
          BY <1>1, <1>2, <1>b, <3>3 DEF Written
        <4> QED
          BY <1>2, <2>1, <4>1
      <3> QED
        BY <1>2, <3>1, <3>2, <3>3
    <2>4. buf' # <<>> => seen' < buf'[1].id /\ \A i \in 1 .. Len(wire') : buf'[1].id <= wire'[i].id
      <3> SUFFICES ASSUME buf # <<>>
                   PROVE  seen < buf[1].id /\ \A i \in 1 .. Len(wire') : buf[1].id <= wire'[i].id
        OBVIOUS
      <3>1. buf[1].id \in Nat /\ buf[1].id <= lines
        <4>1. buf \in Seq(Piece)
          BY <1>1 DEF Pieces
        <4>2. buf[1] \in Piece
          BY <4>1
        <4> QED
          BY <4>2, PieceFacts DEF Inv, SeenBound
      <3>2. seen < buf[1].id /\ \A i \in 1 .. n : buf[1].id <= wire[i].id
        BY DEF Inv, InOrder
      <3> QED
        BY <1>2, <1>b, <2>1, <3>1, <3>2
    <2> QED
      BY <2>2, <2>3, <2>4 DEF InOrder
  <1>6. Chain'
    <2>1. \A i \in 1 .. Len(wire') - 1 : Follows(wire'[i], wire'[i + 1])
      <3> SUFFICES ASSUME NEW i \in 1 .. Len(wire') - 1
                   PROVE  Follows(wire'[i], wire'[i + 1])
        OBVIOUS
      <3>1. CASE i < n
        <4>1. wire'[i] = wire[i] /\ wire'[i + 1] = wire[i + 1] /\ i \in 1 .. n - 1
          BY <1>1, <1>2, <1>b, <3>1 DEF Written
        <4> QED
          BY <4>1 DEF Inv, Chain
      <3>2. CASE i = n
        <4>1. /\ wire'[i] = wire[n] /\ wire'[i + 1].part # "tail" /\ wire'[i + 1].issued = issued
              /\ wire # <<>>
          BY <1>1, <1>2, <1>a, <1>b, <3>2 DEF Written
        <4> QED
          BY <4>1 DEF Inv, Chain, Follows
      <3>3. CASE i > n
        <4>1. i = n + 1 /\ Len(wire') = n + 2
          BY <1>1, <1>2, <1>b, <3>3 DEF Written
        <4>2. /\ wire'[i].part = "head" /\ wire'[i + 1].part = "tail"
              /\ wire'[i].line = wire'[i + 1].line /\ wire'[i].issued = wire'[i + 1].issued
          BY <1>1, <1>2, <4>1 DEF Written
        <4> QED
          BY <4>2 DEF Follows
      <3> QED
        BY <1>2, <1>b, <3>1, <3>2, <3>3
    <2>2. /\ wire'[Len(wire')].part # "head"
          /\ wire'[Len(wire')].line = line /\ wire'[Len(wire')].issued = issued
      BY <1>1, <1>2, <1>b DEF Written
    <2> QED
      BY <1>1, <2>1, <2>2 DEF Chain
  <1>7. Uncut' /\ Newest'
    <2>1. CASE wire = <<>>
      <3>1. wire'[1].part # "tail" /\ wire'[1].issued = issued
        BY <1>1, <1>2, <1>a, <1>b, <2>1 DEF Written
      <3> QED
        BY <1>b, <2>1, <3>1 DEF Inv, Uncut, Newest
    <2>2. CASE wire # <<>>
      <3>1. wire'[1] = wire[1]
        BY <1>1, <1>2, <1>a, <1>b, <2>2 DEF Written
      <3> QED
        BY <1>b, <2>2, <3>1 DEF Inv, Uncut, Newest
    <2> QED
      BY <2>1, <2>2
  <1> QED
    BY <1>3, <1>5, <1>6, <1>7

-----------------------------------------------------------------------------
(* What the event loop does *)

\* What a reply asks to route are networks: route_for_apply leaves out a prefix
\* that does not fit, and the halves of an address space are networks.
LEMMA DesiredNets ==
    ASSUME NEW opts, \A i \in DOMAIN opts.routes : opts.routes[i] \in Route
    PROVE  Desired(opts) \subseteq Net
  <1>1. Width \in Nat /\ 1 \in 0 .. Width
    BY PushAssumption
  <1>2. 0 \in Addr /\ Pow2[Width - 1] \in Addr
    BY Addresses
  <1>3. \A family \in Families : Halves(family) \subseteq Net
    BY <1>1, <1>2 DEF Halves, Net
  <1>4. RedirectGatewayRoutes(opts.redirect) \subseteq Net
    BY <1>3 DEF RedirectGatewayRoutes, Families
  <1>5. ASSUME NEW i \in DOMAIN opts.routes, RouteForApply(opts.routes[i], opts)
        PROVE  NetOf(opts.routes[i]) \in Net
    BY <1>1, <1>5 DEF RouteForApply, NetOf, Route, Net
  <1> QED
    BY <1>4, <1>5 DEF Desired

\* The loop's variables after an event.
LEMMA HandleFacts ==
    ASSUME TypeOK, Options, NEW line \in LineSet, Handle(line)
    PROVE  /\ routed' \subseteq Net /\ haveConnected' \in BOOLEAN /\ over' \in BOOLEAN
           /\ creds'.token \in Tokens \union {None}
           /\ Options'
           /\ creds.token # None => creds'.token # None
           /\ creds.user # None => creds'.user # None
           /\ ~over' => creds'.token = TokenOf(line, creds.token)
           /\ answer' # answer => answer' = Response /\ UNCHANGED creds /\ line.kind = "prompt"
  <1>1. CASE line.kind = "push"
    <2> DEFINE opts == Parse(line.reply)
    <2>0. /\ opts.authToken \in Tokens \union {None}
          /\ \A i \in DOMAIN opts.routes : opts.routes[i] \in Route
          /\ TokenOf(line, creds.token) = IF opts.authToken # None THEN opts.authToken ELSE creds.token
      BY <1>1, LineKinds, RepliesParse
    <2>1. /\ opts.authToken \in Tokens \union {None} /\ Desired(opts) \subseteq Net
          /\ TokenOf(line, creds.token) = IF opts.authToken # None THEN opts.authToken ELSE creds.token
      BY <2>0, DesiredNets
    <2>2. OnPush(line.reply)
      BY <1>1 DEF Handle
    <2> HIDE DEF opts
    <2>3. CASE PushReplyAcceptable(opts)
      <3>1. /\ creds' = AbsorbPush(opts) /\ pushOpts' = opts
            /\ routed' = IF haveConnected THEN ApplyRoutes(opts, routed) ELSE routed
            /\ UNCHANGED <<haveConnected, answer, over>>
        BY <2>2, <2>3 DEF OnPush, opts
      <3>2. routed' \subseteq Net
        BY <2>1, <3>1 DEF ApplyRoutes, TypeOK
      <3>3. haveConnected' \in BOOLEAN /\ over' \in BOOLEAN
        BY <3>1, Zenon DEF TypeOK
      <3>4. /\ creds'.token = IF opts.authToken # None THEN opts.authToken ELSE creds.token
            /\ creds'.user = IF opts.authTokenUser # None THEN opts.authTokenUser ELSE creds.user
            /\ creds' = [token |-> creds'.token, user |-> creds'.user]
        BY <3>1 DEF AbsorbPush
      <3>5. Options'
        BY <2>1, <3>1, <3>4 DEF Options
      <3> QED
        BY <2>1, <3>1, <3>2, <3>3, <3>4, <3>5 DEF TypeOK
    <2>4. CASE ~PushReplyAcceptable(opts)
      <3>1. over' = TRUE /\ UNCHANGED <<pushOpts, haveConnected, routed, creds, answer>>
        BY <2>2, <2>4 DEF OnPush, opts
      <3>2. haveConnected' \in BOOLEAN /\ over' \in BOOLEAN
        BY <3>1, Zenon DEF TypeOK
      <3> QED
        BY <3>1, <3>2 DEF TypeOK, Options
    <2> QED
      BY <2>3, <2>4
  <1>2. CASE line.kind = "connected"
    <2>1. OnConnected
      BY <1>2 DEF Handle
    <2>2. routed' \subseteq Net
      BY <2>1 DEF OnConnected, ApplyRoutes, Options
    <2>3. haveConnected' \in BOOLEAN /\ over' \in BOOLEAN
      BY <2>1, Zenon DEF OnConnected, TypeOK
    <2>4. TokenOf(line, creds.token) = creds.token
      BY <1>2 DEF TokenOf
    <2> QED
      BY <2>1, <2>2, <2>3, <2>4 DEF OnConnected, TypeOK, Options
  <1>3. CASE line.kind = "token"
    <2>1. OnToken(line.token)
      BY <1>3 DEF Handle
    <2>2. TokenOf(line, creds.token) = line.token /\ line.token \in Tokens
      BY <1>3, LineKinds DEF TokenOf
    <2>3. creds' = [creds EXCEPT !.token = line.token]
      BY <2>1 DEF OnToken
    <2>4. creds' = [token |-> line.token, user |-> creds.user]
      BY <2>3 DEF Options
    <2>5. haveConnected' \in BOOLEAN /\ over' \in BOOLEAN
      BY <2>1, Zenon DEF OnToken, TypeOK
    <2> QED
      BY <2>1, <2>2, <2>4, <2>5, ManagementAssumption DEF OnToken, TypeOK, Options
  <1>4. CASE line.kind = "prompt"
    <2>1. OnPrompt
      BY <1>4 DEF Handle
    <2>2. TokenOf(line, creds.token) = creds.token
      BY <1>4 DEF TokenOf
    <2>3. haveConnected' \in BOOLEAN /\ over' \in BOOLEAN
      BY <2>1, Zenon DEF OnPrompt, TypeOK
    <2> QED
      BY <1>4, <2>1, <2>2, <2>3 DEF OnPrompt, TypeOK, Options
  <1>5. CASE line.kind \in {"verifyFailed", "fatal"}
    <2>1. over' = TRUE /\ UNCHANGED <<pushOpts, haveConnected, routed, creds, answer>>
      BY <1>5 DEF Handle
    <2>2. haveConnected' \in BOOLEAN /\ over' \in BOOLEAN
      BY <2>1, Zenon DEF TypeOK
    <2> QED
      BY <2>1, <2>2 DEF TypeOK, Options
  <1>6. CASE line.kind \notin {"push", "connected", "token", "prompt", "verifyFailed", "fatal"}
    <2>1. UNCHANGED loop
      BY <1>6 DEF Handle
    <2>2. TokenOf(line, creds.token) = creds.token
      BY <1>6 DEF TokenOf
    <2>3. haveConnected' \in BOOLEAN /\ over' \in BOOLEAN
      BY <2>1, Zenon DEF loop, TypeOK
    <2> QED
      BY <2>1, <2>2, <2>3 DEF loop, TypeOK, Options
  <1> QED
    BY <1>1, <1>2, <1>3, <1>4, <1>5, <1>6

-----------------------------------------------------------------------------
(* Reading *)

\* The piece at hand, and the line it may complete.
LEMMA ReadFacts ==
    ASSUME Inv, Read
    PROVE  LET n == Len(wire)  h == wire[1]  first == Append(buf, h)[1] IN
           /\ Head(wire) = h /\ h \in Piece /\ first \in Piece /\ first.line # None
           /\ n \in Nat \ {0} /\ wire' \in Seq(Piece) /\ Len(wire') = n - 1
           /\ \A i \in 1 .. n : wire[i] \in Piece
           /\ \A i \in 1 .. n - 1 : wire'[i] = wire[i + 1]
           /\ wire' = <<>> <=> n = 1
           /\ first = IF buf = <<>> THEN h ELSE buf[1]
           /\ seen < first.id /\ first.id <= h.id /\ h.id <= lines /\ first.id <= lines
           /\ ~cut => first.part # "tail" /\ first.line = h.line
           /\ ~cut => creds.token = h.issued
  <1>1. wire \in Seq(Piece) /\ wire # <<>> /\ wire' = Tail(wire) /\ buf \in Seq(Piece) /\ ~over
    BY DEF Inv, Read, Pieces
  <1> DEFINE n == Len(wire)  h == wire[1]  first == Append(buf, h)[1]
  <1>2. /\ Head(wire) = h /\ h \in Piece
        /\ n \in Nat \ {0} /\ wire' \in Seq(Piece) /\ Len(wire') = n - 1
        /\ \A i \in 1 .. n : wire[i] \in Piece
        /\ \A i \in 1 .. n - 1 : wire'[i] = wire[i + 1]
        /\ wire' = <<>> <=> n = 1
    BY <1>1, Removed
  <1>3. first \in Piece /\ first = IF buf = <<>> THEN h ELSE buf[1]
    BY <1>1, <1>2, Grown
  <1>4. first.line # None /\ first.id \in Nat /\ h.id \in Nat /\ h.part \in {"whole", "head", "tail"}
    BY <1>2, <1>3, PieceFacts, LineKinds
  <1> HIDE DEF first
  <1>5. seen < h.id /\ h.id <= lines
    BY <1>2 DEF Inv, InOrder
  <1>6. seen < first.id /\ first.id <= h.id
    <2>1. CASE buf = <<>>
      BY <1>3, <1>4, <1>5, <2>1
    <2>2. CASE buf # <<>>
      BY <1>2, <1>3, <2>2 DEF Inv, InOrder
    <2> QED
      BY <2>1, <2>2
  <1>7. first.id <= lines
    BY <1>4, <1>5, <1>6 DEF Inv, Pieces
  <1>8. ASSUME ~cut PROVE first.part # "tail" /\ first.line = h.line
    BY <1>1, <1>3, <1>8 DEF Inv, Uncut, Follows
  <1>9. ~cut => creds.token = h.issued
    BY <1>1 DEF Inv, Newest
  <1> QED
    BY <1>2, <1>3, <1>4, <1>5, <1>6, <1>7, <1>8, <1>9 DEF first

\* What a read leaves on the way, whatever becomes of the piece.
LEMMA ReadWire ==
    ASSUME Inv, Read
    PROVE  /\ Chain'
           /\ \A i \in 1 .. Len(wire') : seen < wire'[i].id /\ wire'[i].id <= lines
           /\ \A i \in 1 .. Len(wire') : wire[1].id <= wire'[i].id
           /\ wire[1].part # "head" => \A i \in 1 .. Len(wire') : wire[1].id < wire'[i].id
           /\ \A i, j \in 1 .. Len(wire') :
                i < j => wire'[i].id <= wire'[j].id /\ (wire'[i].part # "head" => wire'[i].id < wire'[j].id)
           /\ wire' # <<>> => Follows(wire[1], wire'[1])
           /\ wire' = <<>> => /\ wire[1].part # "head"
                              /\ issued = TokenOf(wire[1].line, wire[1].issued)
  <1> DEFINE n == Len(wire)
  <1>1. /\ n \in Nat \ {0} /\ Len(wire') = n - 1 /\ \A i \in 1 .. n - 1 : wire'[i] = wire[i + 1]
        /\ wire' = <<>> <=> n = 1
    BY ReadFacts
  <1>2. issued' = issued /\ wire # <<>>
    BY DEF Read
  <1>3. /\ \A i \in 1 .. n - 1 : Follows(wire[i], wire[i + 1])
        /\ wire[n].part # "head" /\ issued = TokenOf(wire[n].line, wire[n].issued)
    BY <1>2 DEF Inv, Chain
  <1>4. Chain'
    <2>1. \A i \in 1 .. Len(wire') - 1 : Follows(wire'[i], wire'[i + 1])
      <3> TAKE i \in 1 .. Len(wire') - 1
      <3>1. /\ wire'[i] = wire[i + 1] /\ wire'[i + 1] = wire[i + 1 + 1]
            /\ i + 1 \in 1 .. n - 1
        BY <1>1
      <3> QED
        BY <1>3, <3>1
    <2>2. wire' # <<>> => wire'[Len(wire')] = wire[n]
      BY <1>1
    <2> QED
      BY <1>2, <1>3, <2>1, <2>2 DEF Chain
  <1>5. /\ \A i \in 1 .. n : seen < wire[i].id /\ wire[i].id <= lines
        /\ \A i, j \in 1 .. n :
              i < j => wire[i].id <= wire[j].id /\ (wire[i].part # "head" => wire[i].id < wire[j].id)
    BY DEF Inv, InOrder
  <1>6. \A i \in 1 .. Len(wire') : /\ wire'[i] = wire[i + 1] /\ i + 1 \in 1 .. n /\ 1 < i + 1 /\ 1 \in 1 .. n
    BY <1>1
  <1>7. \A i, j \in 1 .. Len(wire') : i < j => i + 1 < j + 1
    BY <1>1
  <1>8. /\ wire' # <<>> => Follows(wire[1], wire'[1])
        /\ wire' = <<>> => wire[1].part # "head" /\ issued = TokenOf(wire[1].line, wire[1].issued)
    BY <1>1, <1>3
  <1>9. \A i \in 1 .. Len(wire') : seen < wire'[i].id /\ wire'[i].id <= lines
    BY <1>5, <1>6
  <1>10. /\ \A i \in 1 .. Len(wire') : wire[1].id <= wire'[i].id
         /\ wire[1].part # "head" => \A i \in 1 .. Len(wire') : wire[1].id < wire'[i].id
    BY <1>5, <1>6
  <1>11. \A i, j \in 1 .. Len(wire') :
             i < j => wire'[i].id <= wire'[j].id /\ (wire'[i].part # "head" => wire'[i].id < wire'[j].id)
    BY <1>5, <1>6, <1>7
  <1> QED
    BY <1>4, <1>8, <1>9, <1>10, <1>11

LEMMA ReadKeeps ==
    ASSUME Inv, Read
    PROVE  Inv'
  <1> DEFINE n == Len(wire)  h == wire[1]  pieces == Append(buf, h)  first == pieces[1]
             event == Parsed(pieces)
  <1>0. TypeOK /\ ordered = TRUE /\ Pieces /\ Options /\ ~over /\ sent = Len(Startup)
    BY DEF Inv, Read, TypeOK
  <1>1. /\ Head(wire) = h /\ h \in Piece /\ first \in Piece /\ first.line # None
        /\ wire' \in Seq(Piece)
        /\ first = IF buf = <<>> THEN h ELSE buf[1]
        /\ seen < first.id /\ first.id <= h.id /\ h.id <= lines /\ first.id <= lines
        /\ ~cut => first.part # "tail" /\ first.line = h.line
        /\ ~cut => creds.token = h.issued
    BY ReadFacts
  <1>2. UNCHANGED <<sent, self, lines, lastPushed, issued, cut>>
    BY DEF Read
  <1>3. /\ h.part \in {"whole", "head", "tail"} /\ h.id \in Nat /\ first.id \in Nat /\ seen \in Nat
        /\ lines \in Nat /\ first.line \in LineSet
    BY <1>0, <1>1, PieceFacts DEF Pieces
  <1>4. \/ h.part = "head" /\ buf' = pieces /\ UNCHANGED <<loop, seen, ordered>>
        \/ h.part # "head" /\ event = None /\ buf' = <<>> /\ UNCHANGED <<loop, seen, ordered>>
        \/ /\ h.part # "head" /\ event # None /\ buf' = <<>> /\ seen' = first.id
           /\ ordered' = (ordered /\ first.id > seen) /\ Handle(event)
    BY <1>1 DEF Read, BufAfterLine
  <1>5. event = IF first.part = "tail" \/ first.line.kind = "garbage" THEN None ELSE first.line
    BY DEF Parsed
  <1>6. pieces \in Seq(Piece) /\ pieces # <<>> /\ (buf = <<>> => Len(pieces) = 1)
    BY <1>0, <1>1, Grown DEF Pieces
  <1> HIDE DEF n, h, pieces, first, event
  <1>7. event # None => event = first.line /\ event \in LineSet
    BY <1>1, <1>3, <1>5
  <1>a. phase' \in {"hold", "handshake", "pushed", "up", "gone"} /\ Started'
    BY <1>0, <1>2 DEF Read, TypeOK, Started
  <1>b. Chain'
    BY ReadWire
  <1>8. CASE h.part = "head" /\ buf' = pieces /\ UNCHANGED <<loop, seen, ordered>>
    <2>1. TypeOK'
      <3>1. haveConnected' \in BOOLEAN /\ over' \in BOOLEAN /\ ordered' \in BOOLEAN /\ cut' \in BOOLEAN
        BY <1>0, <1>2, <1>8, Zenon DEF TypeOK, loop
      <3> QED
        BY <1>0, <1>2, <1>8, <1>a, <3>1 DEF TypeOK, loop
    <2>2. Pieces' /\ SeenBound'
      BY <1>0, <1>1, <1>2, <1>6, <1>8 DEF Pieces, SeenBound, Inv, first
    <2>3. InOrder'
      <3>1. \A i \in 1 .. Len(wire') : first.id <= wire'[i].id
        <4>1. CASE buf = <<>>
          BY <1>1, <4>1, ReadWire DEF h
        <4>2. CASE buf # <<>>
          <5>1. /\ \A i \in 1 .. Len(wire) : first.id <= wire[i].id
            BY <1>1, <4>2 DEF Inv, InOrder
          <5>2. /\ Len(wire) \in Nat \ {0} /\ Len(wire') = Len(wire) - 1
                /\ \A i \in 1 .. Len(wire) - 1 : wire'[i] = wire[i + 1]
            BY ReadFacts
          <5> QED
            BY <5>1, <5>2
        <4> QED
          BY <4>1, <4>2
      <3> QED
        BY <1>1, <1>2, <1>8, <3>1, ReadWire DEF InOrder, first
    <2>4. Uncut' /\ Newest'
      <3>1. wire' # <<>> /\ Follows(h, wire'[1])
        BY <1>8, ReadWire DEF h
      <3>2. ASSUME ~cut PROVE buf = <<>>
        BY <1>8, <3>2 DEF Inv, Uncut, Follows, h
      <3>3. ASSUME ~cut PROVE Len(buf') = 1 /\ buf'[1] = h /\ buf' # <<>>
        BY <1>1, <1>6, <1>8, <3>2, <3>3 DEF first
      <3>4. Uncut'
        BY <1>2, <1>8, <3>1, <3>3 DEF Uncut
      <3>5. wire'[1].issued = h.issued
        BY <1>8, <3>1 DEF Follows
      <3> QED
        BY <1>1, <1>2, <1>8, <3>1, <3>4, <3>5 DEF Newest, loop
    <2>5. Answered' /\ Options' /\ ordered'
      BY <1>0, <1>8 DEF Inv, Answered, Options, loop
    <2> QED
      BY <1>a, <1>b, <2>1, <2>2, <2>3, <2>4, <2>5 DEF Inv
  <1>9. ASSUME h.part # "head", buf' = <<>>, seen' \in {seen, first.id}
        PROVE  Pieces' /\ SeenBound' /\ InOrder' /\ Uncut'
    <2>1. Pieces' /\ SeenBound'
      BY <1>0, <1>1, <1>2, <1>3, <1>9 DEF Pieces, SeenBound, Inv
    <2>2. \A i \in 1 .. Len(wire') : wire'[i] \in Piece /\ wire'[i].id \in Nat
      BY <1>1, PieceFacts
    <2>3. \A i \in 1 .. Len(wire') : seen' < wire'[i].id
      <3> TAKE i \in 1 .. Len(wire')
      <3>1. seen < wire'[i].id /\ h.id < wire'[i].id
        BY <1>9, ReadWire DEF h
      <3> QED
        BY <1>1, <1>3, <1>9, <2>2, <3>1
    <2>4. InOrder'
      BY <1>2, <1>9, <2>3, ReadWire DEF InOrder
    <2>5. Uncut'
      BY <1>9, ReadWire DEF Uncut, Follows, h
    <2> QED
      BY <2>1, <2>4, <2>5
  <1>10. CASE h.part # "head" /\ event = None /\ buf' = <<>> /\ UNCHANGED <<loop, seen, ordered>>
    <2>1. TypeOK'
      <3>1. haveConnected' \in BOOLEAN /\ over' \in BOOLEAN /\ ordered' \in BOOLEAN /\ cut' \in BOOLEAN
        BY <1>0, <1>2, <1>10, Zenon DEF TypeOK, loop
      <3> QED
        BY <1>0, <1>2, <1>10, <1>a, <3>1 DEF TypeOK, loop
    <2>2. ASSUME ~cut PROVE TokenOf(h.line, h.issued) = creds.token
      <3>1. h.line.kind = "garbage"
        BY <1>1, <1>5, <1>10, <2>2
      <3> QED
        BY <1>1, <2>2, <3>1 DEF TokenOf
    <2>3. wire' = <<>> => issued = TokenOf(h.line, h.issued)
      BY ReadWire DEF h
    <2>4. wire' # <<>> => wire'[1].issued = TokenOf(h.line, h.issued)
      BY <1>10, ReadWire DEF Follows, h
    <2>5. Newest'
      BY <1>2, <1>10, <2>2, <2>3, <2>4 DEF Newest, loop
    <2>6. Answered' /\ Options' /\ ordered'
      BY <1>0, <1>10 DEF Inv, Answered, Options, loop
    <2> QED
      BY <1>a, <1>b, <1>9, <1>10, <2>1, <2>5, <2>6 DEF Inv
  <1>11. CASE /\ h.part # "head" /\ event # None /\ buf' = <<>> /\ seen' = first.id
              /\ ordered' = (ordered /\ first.id > seen) /\ Handle(event)
    <2>1. event \in LineSet /\ event = first.line
      BY <1>7, <1>11
    <2>2. /\ routed' \subseteq Net /\ haveConnected' \in BOOLEAN /\ over' \in BOOLEAN
          /\ creds'.token \in Tokens \union {None}
          /\ Options'
          /\ creds.token # None => creds'.token # None
          /\ creds.user # None => creds'.user # None
          /\ ~over' => creds'.token = TokenOf(event, creds.token)
          /\ answer' # answer => answer' = Response /\ UNCHANGED creds
      BY <1>0, <1>11, <2>1, HandleFacts
    <2>3. ordered' = TRUE
      <3>1. first.id > seen
        BY <1>1, <1>3
      <3> QED
        BY <1>0, <1>11, <3>1
    <2>4. TypeOK'
      <3>1. haveConnected' \in BOOLEAN /\ over' \in BOOLEAN /\ ordered' \in BOOLEAN /\ cut' \in BOOLEAN
        BY <1>0, <1>2, <2>2, <2>3, Zenon DEF TypeOK
      <3>2. seen' \in 0 .. MaxLines
        BY <1>0, <1>1, <1>3, <1>11, ManagementAssumption DEF TypeOK
      <3> QED
        BY <1>0, <1>2, <1>a, <2>2, <3>1, <3>2 DEF TypeOK
    <2>5. wire' = <<>> => issued = TokenOf(h.line, h.issued)
      BY ReadWire DEF h
    <2>6. wire' # <<>> => wire'[1].issued = TokenOf(h.line, h.issued)
      BY <1>11, ReadWire DEF Follows, h
    <2>7. Newest'
      BY <1>1, <1>2, <2>1, <2>2, <2>5, <2>6 DEF Newest
    <2>8. Answered'
      <3>1. CASE answer' = answer
        BY <2>2, <3>1 DEF Inv, Answered, NoCreds
      <3>2. CASE answer' # answer
        BY <2>2, <3>2 DEF Answered, Response, NoCreds
      <3> QED
        BY <3>1, <3>2
    <2> QED
      BY <1>a, <1>b, <1>9, <1>11, <2>2, <2>3, <2>4, <2>7, <2>8 DEF Inv
  <1> QED
    BY <1>4, <1>8, <1>10, <1>11

-----------------------------------------------------------------------------
(* Every step *)

LEMMA InvInit == Init => Inv
  <1> SUFFICES ASSUME Init PROVE Inv
    OBVIOUS
  <1>1. TypeOK /\ ordered
    <2>1. 0 \in 0 .. Len(Startup)
      <3>1. 0 \in 0 .. 5
        OBVIOUS
      <3> QED
        BY <3>1, Commands, Zenon
    <2>2. haveConnected \in BOOLEAN /\ over \in BOOLEAN /\ ordered \in BOOLEAN /\ cut \in BOOLEAN
      BY DEF Init
    <2>3. phase \in {"hold", "handshake", "pushed", "up", "gone"} /\ creds.token = None
      BY DEF Init, NoCreds
    <2> QED
      BY <2>1, <2>2, <2>3, ManagementAssumption DEF Init, TypeOK
  <1>2. <<>> \in Seq(Piece) /\ Len(<<>>) = 0
    OBVIOUS
  <1>3. Pieces /\ InOrder /\ SeenBound /\ Chain /\ Uncut /\ Newest
    BY <1>2 DEF Init, Pieces, InOrder, SeenBound, Chain, Uncut, Newest, NoCreds
  <1>4. Started /\ Answered /\ Options
    BY DEF Init, Started, Answered, Options, NoCreds, Directives, PushOptions
  <1> QED
    BY <1>1, <1>3, <1>4 DEF Inv

\* A step of openvpn writes one line, of a kind that is subscribed to.
OpenVpn == HoldNotice \/ ReceivesPush \/ Connects \/ Restarts \/ OtherLine \/ Dies

\* The last reply is the one of the last push line.
Recorded(line) == lastPushed' = IF line.kind = "push" THEN line.reply ELSE lastPushed

LEMMA OpenVpnWrites ==
    ASSUME Inv, OpenVpn
    PROVE  /\ \E line \in LineSet : Writes(line) /\ Heard(line) /\ Recorded(line)
           /\ UNCHANGED <<sent, buf, seen, ordered, cut, loop>>
           /\ phase' \in {"hold", "handshake", "pushed", "up", "gone"} /\ Started'
           /\ self' \subseteq Net
  <1>1. \A kind \in Kinds \ {"push", "token"} : Line(kind) \in LineSet /\ Line(kind).kind = kind
    BY LineFacts
  <1>2. CASE HoldNotice
    <2>1. Line("hold") \in LineSet /\ Line("hold").kind = "hold"
      BY <1>1 DEF Kinds
    <2> QED
      BY <1>2, <2>1 DEF HoldNotice, OpenVpnUnchanged, Heard, Recorded, Inv, Started, TypeOK
  <1>3. CASE ReceivesPush
    <2>1. PICK reply \in Replies \union Later :
             Writes([Line("push") EXCEPT !.reply = reply]) /\ lastPushed' = reply
      BY <1>3 DEF ReceivesPush
    <2>2. [Line("push") EXCEPT !.reply = reply] \in LineSet /\ Recorded([Line("push") EXCEPT !.reply = reply])
      BY <2>1, LineFacts DEF Recorded
    <2>3. sent = Len(Startup)
      BY <1>3 DEF ReceivesPush, Inv, Started
    <2>4. /\ UNCHANGED <<sent, buf, seen, ordered, cut, loop>> /\ UNCHANGED self
          /\ phase' \in {"hold", "handshake", "pushed", "up", "gone"} /\ Started'
      BY <1>3, <2>3 DEF ReceivesPush, OpenVpnUnchanged, Inv, TypeOK, Started
    <2> QED
      BY <2>1, <2>2, <2>3, <2>4 DEF Heard, Inv, TypeOK
  <1>4. CASE Connects
    <2>1. Line("connected") \in LineSet /\ Writes(Line("connected")) /\ Recorded(Line("connected"))
      BY <1>1, <1>4 DEF Kinds, Connects, Recorded
    <2>2. sent = Len(Startup)
      BY <1>4 DEF Connects, Inv, Started
    <2>3. self' = {}
      BY <1>4 DEF Connects, Directives
    <2> QED
      BY <1>4, <2>1, <2>2, <2>3 DEF Connects, OpenVpnUnchanged, Heard, Inv, Started
  <1>5. CASE Restarts
    <2>1. Line("state") \in LineSet /\ Writes(Line("state")) /\ Recorded(Line("state"))
      BY <1>1, <1>5 DEF Kinds, Restarts, Recorded
    <2>2. sent = Len(Startup)
      BY <1>5 DEF Restarts, Inv, Started
    <2> QED
      BY <1>5, <2>1, <2>2 DEF Restarts, Unheld, OpenVpnUnchanged, Heard, Inv, Started, TypeOK
  <1>6. CASE OtherLine
    <2>1. sent = Len(Startup)
      BY <1>6 DEF OtherLine, Inv, Started
    <2>2. \E line \in LineSet : Writes(line) /\ Recorded(line)
      <3>0. UNCHANGED lastPushed
        BY <1>6 DEF OtherLine
      <3>1. CASE \E t \in Tokens : Writes([Line("token") EXCEPT !.token = t])
        BY <3>0, <3>1, LineFacts DEF Recorded
      <3>2. CASE \E kind \in {"prompt", "otherPrompt", "log", "garbage"} : Writes(Line(kind))
        <4>1. PICK kind \in {"prompt", "otherPrompt", "log", "garbage"} : Writes(Line(kind))
          BY <3>2
        <4>2. kind \in Kinds \ {"push", "token"}
          BY DEF Kinds
        <4> QED
          BY <1>1, <3>0, <4>1, <4>2 DEF Recorded
      <3> QED
        BY <1>6, <3>1, <3>2 DEF OtherLine
    <2> QED
      BY <1>6, <2>1, <2>2 DEF OtherLine, OpenVpnUnchanged, Heard, Inv, Started, TypeOK
  <1>7. CASE Dies
    <2>1. sent = Len(Startup)
      BY <1>7 DEF Dies, Inv, Started
    <2>2. PICK kind \in {"verifyFailed", "fatal"} : Writes(Line(kind))
      BY <1>7 DEF Dies
    <2>3. kind \in Kinds \ {"push", "token"}
      BY DEF Kinds
    <2> QED
      BY <1>1, <1>7, <2>1, <2>2, <2>3 DEF Dies, OpenVpnUnchanged, Heard, Recorded, Inv, Started, TypeOK
  <1> QED
    BY <1>2, <1>3, <1>4, <1>5, <1>6, <1>7 DEF OpenVpn

LEMMA InvNext == Inv /\ [Next]_vars => Inv'
  <1> SUFFICES ASSUME Inv, [Next]_vars PROVE Inv'
    OBVIOUS
  <1>1. CASE OpenVpn
    <2>1. PICK line \in LineSet : Writes(line) /\ Heard(line)
      BY <1>1, OpenVpnWrites
    <2>2. /\ UNCHANGED <<sent, buf, seen, ordered, cut, loop>>
          /\ phase' \in {"hold", "handshake", "pushed", "up", "gone"} /\ Started'
          /\ self' \subseteq Net
      BY <1>1, OpenVpnWrites
    <2>3. Pieces' /\ InOrder' /\ Chain' /\ Uncut' /\ Newest' /\ lines' \in 0 .. MaxLines
      BY <2>1, <2>2, WritesKeeps DEF loop
    <2>4. SeenBound'
      <3>1. lines' = lines + 1 /\ lines \in Nat /\ seen \in Nat /\ buf \in Seq(Piece)
        BY <2>1 DEF Writes, Inv, Pieces
      <3>2. buf # <<>> => buf[1] \in Piece
        BY <3>1
      <3>3. buf # <<>> => buf[1].id \in Nat
        BY <3>2, PieceFacts
      <3> QED
        BY <2>2, <3>1, <3>3 DEF Inv, SeenBound
    <2>5. Answered' /\ Options' /\ ordered'
      BY <2>2 DEF Inv, Answered, Options, loop
    <2>6. haveConnected' \in BOOLEAN /\ over' \in BOOLEAN /\ ordered' \in BOOLEAN /\ cut' \in BOOLEAN
      BY <2>2, Zenon DEF Inv, TypeOK, loop
    <2>7. TypeOK'
      BY <2>2, <2>3, <2>6 DEF Inv, TypeOK, loop
    <2> QED
      BY <2>2, <2>3, <2>4, <2>5, <2>7 DEF Inv
  <1>2. CASE Send
    <2>1. UNCHANGED <<channel, loop, self, lines, lastPushed, issued>>
      BY <1>2 DEF Send
    <2>2. sent \in 0 .. Len(Startup) /\ sent < Len(Startup)
      BY <1>2 DEF Send, Inv, TypeOK
    <2>a. sent \in 0 .. 4 /\ sent' = sent + 1
      <3>1. sent \in 0 .. 5 /\ sent < 5
        BY <2>2, SentFacts, Zenon
      <3>2. sent' = sent + 1
        BY <1>2, Zenon DEF Send
      <3> QED
        BY <3>1, <3>2
    <2>b. sent' \in 0 .. Len(Startup)
      <3>1. sent' \in 0 .. 5
        BY <2>a
      <3> QED
        BY <2>2, <3>1, SentFacts, Zenon
    <2>3. phase' \in {"hold", "handshake", "pushed", "up", "gone"} /\ Started'
      <3>1. sent # 5
        BY <2>a
      <3>2. phase = "hold"
        BY <2>2, <3>1, SentFacts, Zenon DEF Inv, Started
      <3>3. phase' = "hold" \/ (phase' = "handshake" /\ Startup[sent + 1] = "hold release")
        BY <1>2, <3>2 DEF Send
      <3>4. Startup[sent + 1] = "hold release" => sent = 4
        BY <2>a, LastCommand
      <3>5. phase' # "hold" => sent' = 5
        <4>1. sent = 4 => sent' = 5
          BY <2>a
        <4> QED
          BY <3>3, <3>4, <4>1, Zenon
      <3>6. Started'
        BY <2>2, <3>5, SentFacts, Zenon DEF Started
      <3> QED
        BY <3>3, <3>6
    <2>4. haveConnected' \in BOOLEAN /\ over' \in BOOLEAN /\ ordered' \in BOOLEAN /\ cut' \in BOOLEAN
      BY <2>1, Zenon DEF Inv, TypeOK, loop, channel
    <2>5. TypeOK' /\ ordered'
      BY <2>1, <2>b, <2>3, <2>4 DEF Inv, TypeOK, loop, channel
    <2>6. Pieces' /\ InOrder' /\ SeenBound' /\ Chain' /\ Uncut' /\ Newest'
      BY <2>1 DEF Inv, Pieces, InOrder, SeenBound, Chain, Uncut, Newest, loop, channel
    <2>7. Answered' /\ Options'
      BY <2>1 DEF Inv, Answered, Options, loop
    <2> QED
      BY <2>3, <2>5, <2>6, <2>7 DEF Inv
  <1>3. CASE Read
    BY <1>3, ReadKeeps
  <1>4. CASE OtherArm
    <2>1. /\ buf' = <<>> /\ cut' = TRUE
          /\ UNCHANGED <<phase, sent, wire, seen, ordered, loop, self, lines, lastPushed, issued>>
      BY <1>4 DEF OtherArm
    <2>2. haveConnected' \in BOOLEAN /\ over' \in BOOLEAN /\ ordered' \in BOOLEAN /\ cut' \in BOOLEAN
      BY <2>1, Zenon DEF Inv, TypeOK, loop
    <2>3. TypeOK' /\ ordered'
      BY <2>1, <2>2 DEF Inv, TypeOK, loop
    <2>4. <<>> \in Seq(Piece)
      OBVIOUS
    <2>5. Pieces' /\ InOrder' /\ SeenBound' /\ Chain' /\ Uncut' /\ Newest'
      BY <2>1, <2>4 DEF Inv, Pieces, InOrder, SeenBound, Chain, Uncut, Newest
    <2>6. Answered' /\ Options' /\ Started'
      BY <2>1 DEF Inv, Answered, Options, Started, loop
    <2> QED
      BY <2>3, <2>5, <2>6 DEF Inv
  <1>5. CASE UNCHANGED vars
    <2>1. haveConnected' \in BOOLEAN /\ over' \in BOOLEAN /\ ordered' \in BOOLEAN /\ cut' \in BOOLEAN
      BY <1>5, Zenon DEF Inv, TypeOK, vars
    <2>2. TypeOK' /\ ordered'
      BY <1>5, <2>1 DEF Inv, TypeOK, vars
    <2>3. Pieces' /\ InOrder' /\ SeenBound' /\ Chain' /\ Uncut' /\ Newest'
      BY <1>5 DEF Inv, Pieces, InOrder, SeenBound, Chain, Uncut, Newest, vars
    <2>4. Answered' /\ Options' /\ Started'
      BY <1>5 DEF Inv, Answered, Options, Started, vars
    <2> QED
      BY <2>2, <2>3, <2>4 DEF Inv
  <1> QED
    BY <1>1, <1>2, <1>3, <1>4, <1>5 DEF Next, OpenVpn

LEMMA Always == Spec => []Inv
  BY InvInit, InvNext, PTL DEF Spec

-----------------------------------------------------------------------------
(* Replies and routes *)

IsPush(p) == p.line.kind = "push"

\* The last reply on the way is the last openvpn received.
Latest ==
    \A i \in 1 .. Len(wire) :
        IsPush(wire[i]) /\ (\A j \in i + 1 .. Len(wire) : ~IsPush(wire[j])) => wire[i].line.reply = lastPushed

\* With none on the way, and none cut, its options are in force.
InForce ==
    ~cut /\ ~over /\ lastPushed # None /\ (\A i \in 1 .. Len(wire) : ~IsPush(wire[i]))
        => pushOpts = Parse(lastPushed)

\* What the options in force ask for is routed.
Asked == haveConnected /\ ~over /\ pushOpts.routeGateway # None => routed = Desired(pushOpts)

\* openvpn connects after a reply, and routes nothing itself.
Received ==
    /\ lastPushed \in Replies \union Later \union {None}
    /\ phase \in {"pushed", "up"} => lastPushed # None
    /\ self = {}

RInv == Latest /\ InForce /\ Asked /\ Received

LEMMA RInvInit == Init => RInv
  BY DEF Init, RInv, Latest, InForce, Asked, Received, Directives

LEMMA WritesKeepsReplies ==
    ASSUME Inv, Latest, InForce, NEW line \in LineSet, Written(line), Recorded(line),
           UNCHANGED <<cut, over, pushOpts>>
    PROVE  Latest' /\ InForce'
  <1> DEFINE n == Len(wire)
             m == Len(wire')
             push == line.kind = "push"
  <1>1. /\ n \in Nat /\ m \in Nat /\ m > n
        /\ \A i \in 1 .. n : wire'[i] = wire[i]
        /\ \A i \in n + 1 .. m : wire'[i].line = line
    <2>1. wire \in Seq(Piece) /\ wire' \in Seq(Piece)
      BY DEF Inv, Pieces, Written
    <2> QED
      BY <2>1 DEF Written
  <1>2. lastPushed' = IF push THEN line.reply ELSE lastPushed
    BY DEF Recorded
  <1> HIDE DEF n, m
  <1>3. \A i \in 1 .. m : IF i <= n THEN wire'[i] = wire[i] ELSE wire'[i].line = line
    BY <1>1
  <1>4. (\A i \in 1 .. m : ~IsPush(wire'[i])) => ~push /\ \A i \in 1 .. n : ~IsPush(wire[i])
    <2>1. n + 1 \in 1 .. m /\ wire'[n + 1].line = line /\ \A i \in 1 .. n : i \in 1 .. m
      BY <1>1
    <2> QED
      BY <1>1, <2>1 DEF IsPush
  <1>5. Latest'
    <2> SUFFICES ASSUME NEW i \in 1 .. m, IsPush(wire'[i]), \A j \in i + 1 .. m : ~IsPush(wire'[j])
                 PROVE  wire'[i].line.reply = lastPushed'
      BY DEF Latest, IsPush, m
    <2>1. CASE i <= n
      <3>1. n + 1 \in i + 1 .. m /\ wire'[n + 1].line = line
        BY <1>1, <2>1
      <3>2. ~push
        BY <3>1 DEF IsPush
      <3>3. \A j \in i + 1 .. n : ~IsPush(wire[j])
        BY <1>1, <2>1
      <3>4. i \in 1 .. n /\ wire'[i] = wire[i]
        BY <1>1, <2>1
      <3> QED
        BY <1>2, <3>2, <3>3, <3>4 DEF Latest, n
    <2>2. CASE ~(i <= n)
      BY <1>2, <1>3, <2>2 DEF IsPush
    <2> QED
      BY <2>1, <2>2
  <1>6. InForce'
    <2> SUFFICES ASSUME ~cut, ~over, lastPushed' # None, \A i \in 1 .. m : ~IsPush(wire'[i])
                 PROVE  pushOpts = Parse(lastPushed')
      BY DEF InForce, IsPush, m
    <2> QED
      BY <1>2, <1>4 DEF InForce, n
  <1> QED
    BY <1>5, <1>6

\* An event leaves the options, or puts those of an accepted reply in force.
LEMMA HandleRoutes ==
    ASSUME Asked, NEW line \in LineSet, Handle(line), ~over
    PROVE  /\ Asked'
           /\ line.kind # "push" => pushOpts' = pushOpts
           /\ line.kind = "push" /\ ~over' => pushOpts' = Parse(line.reply)
  <1>1. CASE line.kind = "push"
    <2>1. OnPush(line.reply)
      BY <1>1 DEF Handle
    <2> QED
      BY <1>1, <2>1 DEF OnPush, Asked, ApplyRoutes
  <1>2. CASE line.kind = "connected"
    <2>1. OnConnected
      BY <1>2 DEF Handle
    <2> QED
      BY <1>2, <2>1 DEF OnConnected, Asked, ApplyRoutes
  <1>3. CASE line.kind = "token"
    BY <1>3 DEF Handle, OnToken, Asked
  <1>4. CASE line.kind = "prompt"
    BY <1>4 DEF Handle, OnPrompt, Asked
  <1>5. CASE line.kind \in {"verifyFailed", "fatal"}
    BY <1>5 DEF Handle, Asked
  <1>6. CASE line.kind \notin {"push", "connected", "token", "prompt", "verifyFailed", "fatal"}
    BY <1>6 DEF Handle, loop, Asked
  <1> QED
    BY <1>1, <1>2, <1>3, <1>4, <1>5, <1>6

LEMMA ReadKeepsReplies ==
    ASSUME Inv, RInv, Read
    PROVE  RInv'
  <1> DEFINE n == Len(wire)  h == wire[1]  pieces == Append(buf, h)  first == pieces[1]
             event == Parsed(pieces)
             none(s) == \A i \in 1 .. Len(s) : ~IsPush(s[i])
  <1>1. /\ Head(wire) = h /\ first \in Piece /\ first.line # None
        /\ n \in Nat \ {0} /\ Len(wire') = n - 1
        /\ \A i \in 1 .. n - 1 : wire'[i] = wire[i + 1]
        /\ ~cut => first.part # "tail" /\ first.line = h.line
    BY ReadFacts
  <1>2. UNCHANGED <<self, lastPushed, cut>> /\ ~over
    BY DEF Read
  <1>3. \/ h.part = "head" /\ UNCHANGED loop
        \/ h.part # "head" /\ event = None /\ UNCHANGED loop
        \/ h.part # "head" /\ event # None /\ Handle(event)
    BY <1>1 DEF Read
  <1>4. event = IF first.part = "tail" \/ first.line.kind = "garbage" THEN None ELSE first.line
    BY DEF Parsed
  <1>5. first.line \in LineSet
    BY <1>1, PieceFacts
  <1>6. h.part = "head" => wire' # <<>> /\ Follows(h, wire'[1])
    BY ReadWire
  <1> HIDE DEF n, h, pieces, first, event
  <1>7. Latest'
    <2> SUFFICES ASSUME NEW i \in 1 .. n - 1, IsPush(wire'[i]), \A j \in i + 1 .. n - 1 : ~IsPush(wire'[j])
                 PROVE  wire'[i].line.reply = lastPushed
      BY <1>1, <1>2 DEF Latest, IsPush
    <2>1. i + 1 \in 1 .. n /\ wire'[i] = wire[i + 1]
      BY <1>1
    <2>2. \A j \in (i + 1) + 1 .. n : ~IsPush(wire[j])
      <3> SUFFICES ASSUME NEW j \in (i + 1) + 1 .. n PROVE ~IsPush(wire[j])
        OBVIOUS
      <3>1. j - 1 \in i + 1 .. n - 1 /\ j - 1 \in 1 .. n - 1 /\ (j - 1) + 1 = j
        BY <1>1
      <3>2. wire'[j - 1] = wire[j]
        BY <1>1, <3>1
      <3> QED
        BY <3>1, <3>2
    <2> QED
      BY <2>1, <2>2 DEF RInv, Latest, n
  <1>8. none(wire') /\ h.line.kind # "push" => none(wire)
    <2> SUFFICES ASSUME none(wire'), h.line.kind # "push", NEW i \in 1 .. n PROVE ~IsPush(wire[i])
      BY DEF n
    <2>1. CASE i = 1
      BY <2>1 DEF IsPush, h
    <2>2. CASE i # 1
      <3>1. i - 1 \in 1 .. n - 1 /\ (i - 1) + 1 = i
        BY <1>1, <2>2
      <3> QED
        BY <1>1, <3>1
    <2> QED
      BY <2>1, <2>2
  <1>9. none(wire') /\ h.line.kind = "push" => h.line.reply = lastPushed /\ h.part # "head"
    <2> SUFFICES ASSUME none(wire'), h.line.kind = "push" PROVE h.line.reply = lastPushed /\ h.part # "head"
      OBVIOUS
    <2>1. h.part # "head"
      <3> SUFFICES ASSUME h.part = "head" PROVE FALSE
        OBVIOUS
      <3>1. wire' # <<>> /\ wire'[1].line = h.line
        BY <1>6 DEF Follows
      <3>2. 1 \in 1 .. Len(wire')
        BY <1>1, <3>1, ReadFacts DEF n
      <3> QED
        BY <3>1, <3>2 DEF IsPush
    <2>2. \A j \in 1 + 1 .. n : ~IsPush(wire[j])
      <3> SUFFICES ASSUME NEW j \in 1 + 1 .. n PROVE ~IsPush(wire[j])
        OBVIOUS
      <3>1. j - 1 \in 1 .. n - 1 /\ (j - 1) + 1 = j
        BY <1>1
      <3> QED
        BY <1>1, <3>1
    <2>3. 1 \in 1 .. n
      BY <1>1
    <2> QED
      BY <2>1, <2>2, <2>3 DEF RInv, Latest, IsPush, h, n
  <1>10. InForce' /\ Asked'
    <2>0. InForce' <=> (~cut /\ ~over' /\ lastPushed # None /\ none(wire') => pushOpts' = Parse(lastPushed))
      BY <1>2 DEF InForce, IsPush
    <2>1. ~cut /\ lastPushed # None /\ none(wire) => pushOpts = Parse(lastPushed)
      BY <1>2 DEF RInv, InForce
    <2> HIDE DEF none
    <2>2. CASE h.part = "head" /\ UNCHANGED loop
      BY <1>2, <1>8, <1>9, <2>0, <2>1, <2>2 DEF loop, RInv, Asked
    <2>3. CASE h.part # "head" /\ event = None /\ UNCHANGED loop
      <3>1. ~cut => h.line.kind = "garbage"
        BY <1>1, <1>4, <2>3
      <3> QED
        BY <1>2, <1>8, <2>0, <2>1, <2>3, <3>1 DEF loop, RInv, Asked
    <2>4. CASE h.part # "head" /\ event # None /\ Handle(event)
      <3>1. event \in LineSet /\ event = first.line
        BY <1>4, <1>5, <2>4
      <3>2. /\ Asked'
            /\ event.kind # "push" => pushOpts' = pushOpts
            /\ event.kind = "push" /\ ~over' => pushOpts' = Parse(event.reply)
        BY <1>2, <2>4, <3>1, HandleRoutes DEF RInv
      <3> QED
        BY <1>1, <1>8, <1>9, <2>0, <2>1, <3>1, <3>2
    <2> QED
      BY <1>3, <2>2, <2>3, <2>4
  <1>11. Received'
    BY <1>2 DEF RInv, Received, Read
  <1> QED
    BY <1>7, <1>10, <1>11 DEF RInv

LEMMA RInvNext == Inv /\ RInv /\ [Next]_vars => RInv'
  <1> SUFFICES ASSUME Inv, RInv, [Next]_vars PROVE RInv'
    OBVIOUS
  <1>1. CASE OpenVpn
    <2>1. PICK line \in LineSet : Writes(line) /\ Heard(line) /\ Recorded(line)
      BY <1>1, OpenVpnWrites
    <2>2. UNCHANGED <<sent, buf, seen, ordered, cut, loop>>
      BY <1>1, OpenVpnWrites
    <2>3. Written(line)
      BY <2>1, WritesAdds DEF Inv
    <2>4. Latest' /\ InForce'
      BY <2>1, <2>2, <2>3, WritesKeepsReplies DEF RInv, loop
    <2>5. Asked'
      BY <2>2 DEF RInv, Asked, loop
    <2>6. lastPushed' \in Replies \union Later \union {None} /\ (lastPushed # None => lastPushed' # None)
      BY <2>1, LineKinds, ManagementAssumption DEF Recorded, RInv, Received
    <2>7. Received'
      <3>1. CASE HoldNotice \/ Restarts \/ OtherLine \/ Dies
        BY <2>6, <3>1 DEF HoldNotice, Restarts, Unheld, OtherLine, Dies, RInv, Received
      <3>2. CASE ReceivesPush
        <4>1. lastPushed' # None
          BY <3>2, ManagementAssumption DEF ReceivesPush
        <4> QED
          BY <2>6, <3>2, <4>1 DEF ReceivesPush, RInv, Received
      <3>3. CASE Connects
        BY <2>6, <3>3 DEF Connects, Directives, RInv, Received
      <3> QED
        BY <1>1, <3>1, <3>2, <3>3 DEF OpenVpn
    <2> QED
      BY <2>4, <2>5, <2>7 DEF RInv
  <1>2. CASE Send
    <2>1. UNCHANGED <<channel, loop, self, lines, lastPushed, issued>> /\ phase' \in {"handshake", phase}
      BY <1>2 DEF Send
    <2>2. Latest' /\ InForce' /\ Asked'
      BY <2>1 DEF RInv, Latest, InForce, Asked, IsPush, channel, loop
    <2>3. Received'
      BY <2>1 DEF RInv, Received
    <2> QED
      BY <2>2, <2>3 DEF RInv
  <1>3. CASE Read
    BY <1>3, ReadKeepsReplies
  <1>4. CASE OtherArm
    BY <1>4 DEF OtherArm, RInv, Latest, InForce, Asked, Received, IsPush, loop
  <1>5. CASE UNCHANGED vars
    BY <1>5 DEF vars, RInv, Latest, InForce, Asked, Received, IsPush
  <1> QED
    BY <1>1, <1>2, <1>3, <1>4, <1>5 DEF Next, OpenVpn

LEMMA RoutesAlways == Spec => [](Inv /\ RInv)
  <1>1. Inv /\ RInv /\ [Next]_vars => (Inv /\ RInv)'
    BY InvNext, RInvNext
  <1> QED
    BY InvInit, RInvInit, <1>1, PTL DEF Spec

-----------------------------------------------------------------------------
(* The theorems *)

\* Every variable of the channel keeps its type; in particular the route
\* manager is only ever asked for networks, and openvpn routes none itself.
THEOREM TypeCorrect == Spec => []TypeOK
  <1>1. Inv => TypeOK
    BY DEF Inv
  <1> QED
    BY <1>1, Always, PTL

\* Every line becomes at most one event, and events keep the order of their
\* lines, wherever read_event is dropped in the middle of a line.
THEOREM EventsCorrect == Spec => []EventsInOrder
  <1>1. Inv => EventsInOrder
    BY DEF Inv, EventsInOrder
  <1> QED
    BY <1>1, Always, PTL

\* If no line was cut, every prompt is answered with the newest token openvpn
\* had told of before it, through any number of replies and restarts, unless a
\* push reply brought another token after a notification.
THEOREM AnswersCorrect == Spec => AnswersWithNewest
  <1>1. ASSUME Inv, Read, Prompted, ~cut
        PROVE  \/ answer'.token = Head(wire).issued
               \/ answer' = NoCreds /\ creds.user = None /\ InitialUser = None
    <2>1. Head(wire) = wire[1] /\ creds.token = wire[1].issued
      BY <1>1, ReadFacts
    <2> DEFINE event == Parsed(Append(buf, Head(wire)))
    <2>2. Handle(event) /\ event.kind = "prompt"
      BY <1>1 DEF Read, Prompted
    <2> HIDE DEF event
    <2>3. answer' = Response
      BY <2>2 DEF Handle, OnPrompt
    <2>4. CASE creds.token = None \/ (creds.user # None \/ InitialUser # None)
      <3>1. answer'.token = creds.token
        BY <2>3, <2>4 DEF Response, NoCreds
      <3> QED
        BY <2>1, <3>1
    <2>5. CASE creds.token # None /\ creds.user = None /\ InitialUser = None
      BY <2>3, <2>5 DEF Response
    <2> QED
      BY <2>4, <2>5
  <1>2. Inv => [Read /\ Prompted /\ ~cut /\ source # "overtaken" =>
                   \/ answer'.token = Head(wire).issued
                   \/ answer' = NoCreds /\ creds.user = None /\ InitialUser = None]_vars
    BY <1>1
  <1> QED
    BY <1>2, Always, PTL DEF Spec, AnswersWithNewest

\* Once connected, with every line read and none cut, an address is routed into
\* the tunnel if and only if the gateway's last reply sends it there, for every
\* width of addresses, every reply (any number and order of routes with any
\* masks, of redirections and their sub-flags) and any number of restarts and
\* re-pushes; openvpn routes nothing itself.  Left out are IPv4 under a bare
\* redirect-gateway, and the addresses of a route with a gateway of its own.
THEOREM RoutedCorrect == Spec => []RoutedAsPushed
  <1>1. ASSUME Inv, RInv, haveConnected, ~over, ~cut, wire = <<>>, phase = "up",
               Says(lastPushed, "route-gateway"), NEW family \in Families, NEW a \in Addr,
               ~(family = "V4" /\ BareRedirect(lastPushed)), ~SentElsewhere(lastPushed, family, a)
        PROVE  (\E n \in routed \union self : n.family = family /\ InNet(n, a))
                   <=> SentThrough(lastPushed, family, a)
    <2>1. lastPushed # None /\ lastPushed \in Replies \union Later /\ self = {}
      BY <1>1 DEF RInv, Received
    <2>2. lastPushed \in Seq(PushToken)
      BY <2>1, ManagementAssumption
    <2>3. pushOpts = Parse(lastPushed)
      <3>1. Len(wire) = 0
        BY <1>1
      <3>2. \A i \in 1 .. Len(wire) : ~IsPush(wire[i])
        BY <3>1
      <3> QED
        BY <1>1, <2>1, <3>2 DEF RInv, InForce
    <2>4. pushOpts.routeGateway # None
      <3>1. Summary(lastPushed, Len(lastPushed), pushOpts) /\ DOMAIN lastPushed = 1 .. Len(lastPushed)
        BY <2>2, <2>3, ParseSummary
      <3> QED
        BY <1>1, <3>1 DEF Summary, Says
    <2>5. routed \union self = Desired(Parse(lastPushed))
      BY <1>1, <2>1, <2>3, <2>4 DEF RInv, Asked
    <2> QED
      BY <1>1, <2>2, <2>5, DesiredAsPushed
  <1>2. Inv /\ RInv => RoutedAsPushed
    BY <1>1 DEF RoutedAsPushed
  <1> QED
    BY <1>2, RoutesAlways, PTL

=============================================================================
