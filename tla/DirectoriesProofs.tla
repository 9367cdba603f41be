------------------------- MODULE DirectoriesProofs -------------------------
(***************************************************************************)
(* Proofs about Directories: what the Set methods of an entry were given   *)
(* the Get methods answer, what Header.Bytes and IFDEntry.Bytes write      *)
(* ReadHeader and ReadIFD read, and each getter answers for its tag.       *)
(*                                                                         *)
(* They rest on what bytes are: the digits of a number in base Base, laid  *)
(* one piece behind another in a sequence, and found there again.          *)
(***************************************************************************)
EXTENDS Directories, TLAPS, NaturalsInduction, WellFoundedInduction, SequenceTheorems, FiniteSetTheorems

\* A set of naturals has a smallest element.
LEMMA Smallest ==
    ASSUME NEW T \in SUBSET Nat, T # {}
    PROVE  \E x \in T : \A z \in T : x <= z
<1>1. PICK x \in T : \A z \in T : ~ (<<z, x>> \in OpToRel(<, Nat))
  BY NatLessThanWellFounded, WFMin
<1>2. \A z \in T : x <= z
  <2> SUFFICES ASSUME NEW z \in T PROVE x <= z
    OBVIOUS
  <2>1. ~ (z < x) /\ x \in Nat /\ z \in Nat
    BY <1>1 DEF OpToRel
  <2> QED
    BY <2>1
<1> QED
  BY <1>2

\* What holds of x when it holds of all that measures less holds of everything.
Descends(D, m, T) == \A x \in D : (\A z \in D : m[z] < m[x] => z \in T) => x \in T

LEMMA Descent ==
    ASSUME NEW D, NEW m \in [D -> Nat], NEW T \in SUBSET D, Descends(D, m, T)
    PROVE  T = D
<1> DEFINE M == {m[x] : x \in D \ T}
<1> SUFFICES ASSUME D \ T # {} PROVE FALSE
  OBVIOUS
<1>1. M \in SUBSET Nat /\ M # {}
  OBVIOUS
<1> HIDE DEF M
<1>2. PICK n \in M : \A k \in M : n <= k
  BY <1>1, Smallest
<1>3. PICK x \in D \ T : n = m[x]
  BY <1>2 DEF M
<1>4. ASSUME NEW z \in D, m[z] < m[x] PROVE z \in T
  <2> SUFFICES ASSUME z \notin T PROVE FALSE
    OBVIOUS
  <2>1. m[z] \in M
    BY DEF M
  <2>2. m[x] <= m[z] /\ m[x] \in Nat /\ m[z] \in Nat
    BY <1>2, <1>3, <2>1
  <2> QED
    BY <2>2, <1>4
<1> QED
  BY <1>3, <1>4 DEF Descends

\* Below(D, m, k) is what measures less than k.
Below(D, m, k) == {x \in D : m[x] < k}

\* f is given on C by B where the recursion stops, and from its value at N elsewhere.
Recurs(f, C, Stop, B, N, op) ==
    f = [x \in C |-> IF x \in Stop THEN B[x] ELSE op[<<x, f[N[x]]>>]]

\* A recursion to arguments that measure less, with values in V, has a solution in V.
LEMMA Recursion ==
    ASSUME NEW D, NEW V, NEW Stop \in SUBSET D, NEW B \in [Stop -> V], NEW N \in [D \ Stop -> D],
           NEW op \in [(D \ Stop) \X V -> V],
           NEW K \in Nat, NEW m \in [D -> 0 .. K], \A x \in D \ Stop : m[N[x]] < m[x]
    PROVE  \E f \in [D -> V] : Recurs(f, D, Stop, B, N, op)
<1> DEFINE Has(k) == \E f : Recurs(f, Below(D, m, k), Stop, B, N, op)
           lacking == {k \in Nat : ~ Has(k)}
<1>1. Has(0)
  <2>1. Below(D, m, 0) = {}
    BY DEF Below
  <2>2. Recurs([x \in {} |-> 0], Below(D, m, 0), Stop, B, N, op)
    BY <2>1 DEF Recurs
  <2> QED
    BY <2>2
<1>2. ASSUME NEW k \in Nat, Has(k) PROVE Has(k + 1)
  <2>1. PICK f : Recurs(f, Below(D, m, k), Stop, B, N, op)
    BY <1>2
  <2> DEFINE g == [x \in Below(D, m, k + 1) |-> IF x \in Stop THEN B[x] ELSE op[<<x, f[N[x]]>>]]
  <2>2. \A x \in Below(D, m, k) : g[x] = f[x]
    <3>1. \A x \in Below(D, m, k) : x \in Below(D, m, k + 1)
      BY DEF Below
    <3>2. \A x \in Below(D, m, k) : f[x] = IF x \in Stop THEN B[x] ELSE op[<<x, f[N[x]]>>]
      BY <2>1 DEF Recurs
    <3> QED
      BY <3>1, <3>2
  <2>3. \A x \in Below(D, m, k + 1) \ Stop : f[N[x]] = g[N[x]]
    <3> SUFFICES ASSUME NEW x \in Below(D, m, k + 1) \ Stop PROVE f[N[x]] = g[N[x]]
      OBVIOUS
    <3>1. x \in D \ Stop /\ m[x] \in 0 .. K /\ m[x] < k + 1 /\ N[x] \in D /\ m[N[x]] \in 0 .. K
      BY DEF Below
    <3>2. N[x] \in Below(D, m, k)
      BY <3>1 DEF Below
    <3> HIDE DEF g
    <3> QED
      BY <2>2, <3>2
  <2>4. Recurs(g, Below(D, m, k + 1), Stop, B, N, op)
    <3>1. g = [x \in Below(D, m, k + 1) |-> IF x \in Stop THEN B[x] ELSE op[<<x, g[N[x]]>>]]
      BY <2>3
    <3> HIDE DEF g
    <3> QED
      BY <3>1 DEF Recurs
  <2> HIDE DEF g
  <2> QED
    BY <2>4
<1>3. Has(K + 1)
  <2> DEFINE T == {k \in Nat : Has(k)}
  <2>1. T \in SUBSET Nat /\ 0 \in T /\ \A k \in T : k + 1 \in T
    BY <1>1, <1>2
  <2> HIDE DEF T, Has
  <2>2. T = Nat
    <3> SUFFICES ASSUME Nat \ T # {} PROVE FALSE
      BY <2>1
    <3>1. PICK x \in Nat \ T : \A z \in Nat \ T : x <= z
      BY Smallest
    <3>2. x # 0 /\ x - 1 \in Nat /\ (x - 1) + 1 = x /\ ~ (x <= x - 1)
      BY <2>1
    <3>3. x - 1 \in T
      BY <3>1, <3>2
    <3> QED
      BY <2>1, <3>2, <3>3
  <2> QED
    BY <2>2 DEF T
<1> HIDE DEF Has
<1>4. Below(D, m, K + 1) = D
  BY DEF Below
<1>5. PICK f : Recurs(f, D, Stop, B, N, op)
  BY <1>3, <1>4 DEF Has
<1>6. f = [x \in D |-> f[x]] /\ \A x \in D : f[x] = IF x \in Stop THEN B[x] ELSE op[<<x, f[N[x]]>>]
  BY <1>5 DEF Recurs
<1> DEFINE T == {x \in D : f[x] \in V}
<1>7. ASSUME NEW x \in D, \A z \in D : m[z] < m[x] => z \in T PROVE x \in T
  <2>1. CASE x \in Stop
    BY <1>6, <2>1
  <2>2. CASE x \notin Stop
    <3>1. N[x] \in D /\ m[N[x]] < m[x]
      BY <2>2
    <3>2. f[N[x]] \in V
      BY <1>7, <3>1
    <3>3. op[<<x, f[N[x]]>>] \in V
      BY <2>2, <3>2
    <3>4. f[x] \in V
      BY <1>6, <2>2, <3>3
    <3> QED
      BY <3>4
  <2> QED
    BY <2>1, <2>2
<1>8. T = D
  <2>1. m \in [D -> Nat] /\ T \in SUBSET D
    OBVIOUS
  <2>2. Descends(D, m, T)
    BY <1>7 DEF Descends
  <2> HIDE DEF T
  <2> QED
    BY <2>1, <2>2, Descent
<1>9. f \in [D -> V]
  BY <1>6, <1>8
<1> QED
  BY <1>5, <1>9

---------------------------------------------------------------------------
(* Numbers and their digits.                                               *)

LEMMA Induction ==
    ASSUME NEW T \in SUBSET Nat, 0 \in T, \A k \in T : k + 1 \in T
    PROVE  T = Nat
<1> SUFFICES ASSUME Nat \ T # {} PROVE FALSE
  OBVIOUS
<1>1. PICK x \in Nat \ T : \A z \in Nat \ T : x <= z
  BY Smallest
<1>2. x # 0 /\ x - 1 \in Nat /\ (x - 1) + 1 = x /\ ~ (x <= x - 1)
  BY <1>1
<1>3. x - 1 \in T
  BY <1>1, <1>2
<1> QED
  BY <1>2, <1>3

\* What holds of 0 and is passed on holds up to n.
LEMMA InductionTo ==
    ASSUME NEW n \in Nat, NEW T \in SUBSET (0 .. n), 0 \in T, \A k \in T : k < n => k + 1 \in T
    PROVE  T = 0 .. n
<1> DEFINE U == {k \in Nat : k <= n => k \in T}
<1>1. U \in SUBSET Nat /\ 0 \in U /\ \A k \in U : k + 1 \in U
  OBVIOUS
<1> HIDE DEF U
<1>2. U = Nat
  BY <1>1, Induction
<1>3. \A k \in 0 .. n : k \in Nat /\ k <= n
  OBVIOUS
<1>4. \A k \in 0 .. n : k \in T
  BY <1>2, <1>3 DEF U
<1> QED
  BY <1>4

\* The same from n down.
LEMMA InductionFrom ==
    ASSUME NEW n \in Nat, NEW T \in SUBSET (1 .. n + 1), n + 1 \in T, \A k \in 1 .. n : k + 1 \in T => k \in T
    PROVE  T = 1 .. n + 1
<1> DEFINE U == {k \in 0 .. n : n + 1 - k \in T}
<1>1. 0 \in U /\ U \in SUBSET (0 .. n)
  OBVIOUS
<1>2. ASSUME NEW k \in U, k < n PROVE k + 1 \in U
  <2>1. n - k \in 1 .. n /\ n - k + 1 = n + 1 - k /\ n + 1 - (k + 1) = n - k
    BY <1>2
  <2> QED
    BY <1>2, <2>1
<1> HIDE DEF U
<1>3. U = 0 .. n
  BY <1>1, <1>2, InductionTo
<1>4. ASSUME NEW k \in 1 .. n + 1 PROVE k \in T
  <2>1. n + 1 - k \in U /\ n + 1 - (n + 1 - k) = k
    BY <1>3
  <2> QED
    BY <2>1 DEF U
<1> QED
  BY <1>4

Widths == 0 .. 8

LEMMA Powers ==
    /\ \A n \in Widths : Power[n] \in Nat \ {0}
    /\ Power[0] = 1
    /\ \A n \in 0 .. 7 : Power[n + 1] = Base * Power[n]
<1> USE BaseAssumption
<1> DEFINE p1 == Base * 1
           p2 == Base * p1
           p3 == Base * p2
           p4 == Base * p3
           p5 == Base * p4
           p6 == Base * p5
           p7 == Base * p6
           p8 == Base * p7
           f  == [n \in 0 .. 8 |->
                    CASE n = 0 -> 1  [] n = 1 -> p1 [] n = 2 -> p2 [] n = 3 -> p3 [] n = 4 -> p4
                      [] n = 5 -> p5 [] n = 6 -> p6 [] n = 7 -> p7 [] n = 8 -> p8]
           Steps(g) == g = [n \in 0 .. 8 |-> IF n = 0 THEN 1 ELSE Base * g[n - 1]]
<1>1. /\ f[1] = Base * f[0] /\ f[2] = Base * f[1] /\ f[3] = Base * f[2] /\ f[4] = Base * f[3]
      /\ f[5] = Base * f[4] /\ f[6] = Base * f[5] /\ f[7] = Base * f[6] /\ f[8] = Base * f[7] /\ f[0] = 1
  <2> HIDE DEF p1, p2, p3, p4, p5, p6, p7, p8
  <2>1. /\ f[0] = 1 /\ f[1] = p1 /\ f[2] = p2 /\ f[3] = p3 /\ f[4] = p4
        /\ f[5] = p5 /\ f[6] = p6 /\ f[7] = p7 /\ f[8] = p8
    OBVIOUS
  <2> HIDE DEF f
  <2> QED
    BY <2>1 DEF p1, p2, p3, p4, p5, p6, p7, p8
<1>2. f = [n \in 0 .. 8 |-> f[n]]
  OBVIOUS
<1> HIDE DEF f
<1>3. \A n \in 0 .. 8 : f[n] = IF n = 0 THEN 1 ELSE Base * f[n - 1]
  BY <1>1
<1>4. Steps(f)
  BY <1>2, <1>3
<1>5. Steps(CHOOSE g : Steps(g))
  BY <1>4
<1>6. Power = CHOOSE g : Steps(g)
  BY Zenon DEF Power
<1> HIDE DEF Steps
<1>7. Steps(Power)
  BY <1>5, <1>6
<1>8. \A n \in 0 .. 8 : Power[n] = IF n = 0 THEN 1 ELSE Base * Power[n - 1]
  BY <1>7 DEF Steps
<1>9. Power[0] = 1
  BY <1>8
<1>10. \A n \in 0 .. 7 : Power[n + 1] = Base * Power[n]
  <2> SUFFICES ASSUME NEW n \in 0 .. 7 PROVE Power[n + 1] = Base * Power[n]
    OBVIOUS
  <2>1. n + 1 \in 0 .. 8 /\ n + 1 # 0 /\ (n + 1) - 1 = n
    OBVIOUS
  <2> QED
    BY <1>8, <2>1
<1> DEFINE T == {n \in 0 .. 8 : Power[n] \in Nat \ {0}}
<1>11. 0 \in T
  BY <1>9
<1>12. ASSUME NEW n \in T, n < 8 PROVE n + 1 \in T
  <2>1. n \in 0 .. 7 /\ Power[n] \in Nat \ {0}
    BY <1>12
  <2>2. Power[n + 1] = Base * Power[n]
    BY <1>10, <2>1
  <2>3. Base * Power[n] \in Nat \ {0}
    BY <2>1
  <2> QED
    BY <2>1, <2>2, <2>3
<1> HIDE DEF T
<1>13. T = 0 .. 8
  BY <1>11, <1>12, InductionTo DEF T
<1> QED
  BY <1>9, <1>10, <1>13 DEF T, Widths

\* Division rounds down, and its remainder is what is left.
LEMMA Divided ==
    ASSUME NEW v \in Int, NEW d \in Nat \ {0}
    PROVE  /\ v \div d \in Int /\ v % d \in 0 .. d - 1
           /\ v = d * (v \div d) + (v % d)
  BY SMT

\* Of all numbers only the quotient lies so.
LEMMA OnlyQuotient ==
    ASSUME NEW v \in Int, NEW d \in Nat \ {0}, NEW q \in Int, NEW r \in 0 .. d - 1, v = d * q + r
    PROVE  v \div d = q /\ v % d = r
<1> DEFINE p == v \div d
           s == v % d
<1>1. p \in Int /\ s \in 0 .. d - 1 /\ v = d * p + s
  BY Divided
<1> HIDE DEF p, s
<1>2. ASSUME p < q PROVE FALSE
  <2>1. d * p + d <= d * q
    BY <1>1, <1>2, SMT
  <2>2. d * p \in Int /\ d * q \in Int
    BY <1>1
  <2> QED
    BY <1>1, <2>1, <2>2
<1>3. ASSUME q < p PROVE FALSE
  <2>1. d * q + d <= d * p
    BY <1>1, <1>3, SMT
  <2>2. d * p \in Int /\ d * q \in Int
    BY <1>1
  <2> QED
    BY <1>1, <2>1, <2>2
<1>4. p = q
  BY <1>1, <1>2, <1>3
<1>5. d * p \in Int
  BY <1>1
<1>6. s = r
  BY <1>1, <1>4, <1>5
<1> QED
  BY <1>4, <1>6 DEF p, s

\* One digit after the other.
LEMMA DividedTwice ==
    ASSUME NEW v \in Int, NEW d \in Nat \ {0}, NEW b \in Nat \ {0}
    PROVE  /\ (v \div d) \div b = v \div (b * d)
           /\ v % (b * d) = d * ((v \div d) % b) + (v % d)
<1> DEFINE q == v \div d
           r == v % d
           p == q \div b
           s == q % b
<1>1. q \in Int /\ r \in 0 .. d - 1 /\ v = d * q + r
  BY Divided
<1>2. p \in Int /\ s \in 0 .. b - 1 /\ q = b * p + s
  BY <1>1, Divided
<1> HIDE DEF q, r, p, s
<1> DEFINE e == b * d
           t == d * s + r
<1>3. v = e * p + t
  <2>1. d * (b * p + s) = (b * d) * p + d * s
    BY <1>2, SMT
  <2> QED
    BY <1>1, <1>2, <2>1, SMT
<1>4. e \in Nat \ {0}
  BY SMT
<1>5. t \in 0 .. e - 1
  <2>1. d * s \in Nat /\ d * s + d <= b * d
    <3>1. s + 1 <= b /\ s \in Nat
      BY <1>2
    <3>2. d * (s + 1) <= d * b
      BY <3>1, SMT
    <3>3. d * (s + 1) = d * s + d /\ d * b = b * d /\ d * s \in Nat
      BY <3>1, SMT
    <3> QED
      BY <3>2, <3>3
  <2>2. b * d \in Nat
    BY SMT
  <2> HIDE DEF t
  <2>3. t = d * s + r
    BY DEF t
  <2> QED
    BY <1>1, <2>1, <2>2, <2>3
<1> HIDE DEF e, t
<1>6. v \div e = p /\ v % e = t
  BY <1>2, <1>3, <1>4, <1>5, OnlyQuotient
<1> QED
  BY <1>6 DEF e, t, q, r, p, s

---------------------------------------------------------------------------
(* What a sequence of digits, the low one first, counts.                   *)

Number(ds) == FoldRight(LAMBDA digit, high : digit + Base * high, ds, 0)

Least(s) == CHOOSE x \in s : \A z \in s : x <= z

FoldStep(f, ds, s) == IF s = {} THEN 0 ELSE ds[Least(s)] + Base * f[s \ {Least(s)}]

FoldSteps(f, ds) == f = [s \in SUBSET (DOMAIN ds) |-> FoldStep(f, ds, s)]

LEMMA NumberIsFold ==
    ASSUME NEW ds
    PROVE  Number(ds) = (CHOOSE f : FoldSteps(f, ds))[DOMAIN ds]
  BY Zenon DEF Number, FoldRight, MapThenFoldSet, FoldSteps, FoldStep, Least, Min

LEMMA LeastOf ==
    ASSUME NEW s \in SUBSET Nat, s # {}
    PROVE  Least(s) \in s /\ \A z \in s : Least(s) <= z
<1>1. \E x \in s : \A z \in s : x <= z
  BY Smallest
<1> QED
  BY <1>1 DEF Least

LEMMA FoldSolves ==
    ASSUME NEW ds \in Seq(Int)
    PROVE  \E f : FoldSteps(f, ds)
<1> USE BaseAssumption
<1> DEFINE n == Len(ds)
           D == SUBSET (1 .. n)
           Stop == {{}}
           B == [s \in Stop |-> 0]
           N == [s \in D \ Stop |-> s \ {Least(s)}]
           op == [z \in (D \ Stop) \X Int |-> ds[Least(z[1])] + Base * z[2]]
           size == [s \in D |-> Cardinality(s)]
<1>1. n \in Nat /\ DOMAIN ds = 1 .. n /\ ds \in [1 .. n -> Int]
  OBVIOUS
<1> HIDE DEF n
<1>2. ASSUME NEW s \in D
      PROVE  /\ IsFiniteSet(s) /\ Cardinality(s) \in 0 .. n
             /\ s # {} => Least(s) \in 1 .. n /\ Least(s) \in s /\ Cardinality(s \ {Least(s)}) < Cardinality(s)
  <2>1. IsFiniteSet(1 .. n) /\ Cardinality(1 .. n) = n
    BY <1>1, FS_Interval
  <2>2. IsFiniteSet(s) /\ Cardinality(s) <= n
    BY <2>1, FS_Subset
  <2>3. Cardinality(s) \in Nat
    BY <2>2, FS_CardinalityType
  <2>4. ASSUME s # {}
        PROVE  Least(s) \in 1 .. n /\ Least(s) \in s /\ Cardinality(s \ {Least(s)}) < Cardinality(s)
    <3>1. Least(s) \in s
      <4>1. s \in SUBSET Nat
        BY <1>1
      <4> QED
        BY <2>4, <4>1, LeastOf
    <3>2. Cardinality(s \ {Least(s)}) = Cardinality(s) - 1
      BY <2>2, <3>1, FS_RemoveElement
    <3>3. Least(s) \in 1 .. n
      BY <3>1
    <3> QED
      BY <2>3, <3>1, <3>2, <3>3
  <2>5. Cardinality(s) \in 0 .. n
    BY <1>1, <2>2, <2>3
  <2> QED
    BY <2>2, <2>4, <2>5
<1>3. Stop \in SUBSET D /\ B \in [Stop -> Int]
  OBVIOUS
<1>4. N \in [D \ Stop -> D]
  OBVIOUS
<1>5. op \in [(D \ Stop) \X Int -> Int]
  <2>1. ASSUME NEW z \in (D \ Stop) \X Int PROVE ds[Least(z[1])] + Base * z[2] \in Int
    <3>1. z[1] \in D /\ z[1] # {} /\ z[2] \in Int
      OBVIOUS
    <3>2. Least(z[1]) \in 1 .. n
      BY <1>2, <3>1
    <3>3. ds[Least(z[1])] \in Int
      BY <1>1, <3>2
    <3>4. Base * z[2] \in Int
      BY <3>1
    <3> HIDE DEF D, Stop
    <3> QED
      BY <3>3, <3>4
  <2> QED
    BY <2>1
<1>6. size \in [D -> 0 .. n] /\ \A s \in D \ Stop : size[N[s]] < size[s]
  <2>1. size \in [D -> 0 .. n]
    BY <1>2
  <2>2. ASSUME NEW s \in D \ Stop PROVE size[N[s]] < size[s]
    <3>1. N[s] = s \ {Least(s)} /\ N[s] \in D
      OBVIOUS
    <3>2. Cardinality(s \ {Least(s)}) < Cardinality(s)
      BY <1>2
    <3> QED
      BY <3>1, <3>2
  <2> QED
    BY <2>1, <2>2
<1> HIDE DEF size
<1>7. PICK f \in [D -> Int] : Recurs(f, D, Stop, B, N, op)
  BY <1>1, <1>3, <1>4, <1>5, <1>6, Recursion
<1>8. ASSUME NEW s \in D
      PROVE  (IF s \in Stop THEN B[s] ELSE op[<<s, f[N[s]]>>]) = FoldStep(f, ds, s)
  <2>1. CASE s = {}
    BY <2>1 DEF FoldStep
  <2>2. CASE s # {}
    <3>1. N[s] = s \ {Least(s)} /\ f[N[s]] \in Int /\ s \in D \ Stop
      BY <2>2
    <3>2. op[<<s, f[N[s]]>>] = ds[Least(s)] + Base * f[N[s]]
      BY <3>1
    <3> HIDE DEF op, N
    <3> QED
      BY <2>2, <3>1, <3>2 DEF FoldStep
  <2> QED
    BY <2>1, <2>2
<1>9. f = [s \in D |-> IF s \in Stop THEN B[s] ELSE op[<<s, f[N[s]]>>]]
  BY <1>7 DEF Recurs
<1> HIDE DEF Stop, B, N, op
<1>10. f = [s \in D |-> FoldStep(f, ds, s)]
  BY <1>8, <1>9
<1> QED
  BY <1>1, <1>10 DEF FoldSteps

\* h counts digits from each place on.
Horner(h, ds) ==
    /\ h \in [1 .. Len(ds) + 1 -> Int]
    /\ h[Len(ds) + 1] = 0
    /\ \A k \in 1 .. Len(ds) : h[k] = ds[k] + Base * h[k + 1]

LEMMA NumberHorner ==
    ASSUME NEW ds \in Seq(Int)
    PROVE  \E h : Horner(h, ds) /\ Number(ds) = h[1]
<1> USE BaseAssumption
<1> DEFINE n == Len(ds)
           g == CHOOSE f : FoldSteps(f, ds)
           h == [k \in 1 .. n + 1 |-> g[k .. n]]
<1>1. n \in Nat /\ DOMAIN ds = 1 .. n /\ ds \in [1 .. n -> Int]
  OBVIOUS
<1>2. FoldSteps(g, ds)
  BY FoldSolves
<1>3. Number(ds) = g[1 .. n]
  BY <1>1, NumberIsFold
<1> HIDE DEF n, g
<1>4. \A s \in SUBSET (1 .. n) : g[s] = FoldStep(g, ds, s)
  BY <1>1, <1>2 DEF FoldSteps
<1>5. h[n + 1] = 0
  <2>1. n + 1 .. n = {} /\ n + 1 \in 1 .. n + 1
    BY <1>1
  <2>2. g[n + 1 .. n] = 0
    BY <1>4, <2>1 DEF FoldStep
  <2> QED
    BY <2>1, <2>2
<1>6. ASSUME NEW k \in 1 .. n PROVE h[k] = ds[k] + Base * h[k + 1]
  <2>1. k .. n \in SUBSET (1 .. n) /\ k .. n # {} /\ k \in k .. n /\ (k .. n) \ {k} = k + 1 .. n
    <3>1. k \in Nat /\ 1 <= k /\ k <= n
      BY <1>1
    <3>2. k \in k .. n /\ k .. n \in SUBSET (1 .. n)
      BY <1>1, <3>1
    <3>3. \A z : z \in (k .. n) \ {k} <=> z \in k + 1 .. n
      BY <1>1, <3>1
    <3> QED
      BY <3>2, <3>3
  <2>2. k \in 1 .. n + 1 /\ k + 1 \in 1 .. n + 1
    BY <1>1
  <2>3. Least(k .. n) = k
    <3>1. Least(k .. n) \in k .. n /\ Least(k .. n) <= k
      <4>1. k .. n \in SUBSET Nat
        BY <1>1
      <4> QED
        BY <2>1, <4>1, LeastOf
    <3> QED
      BY <1>1, <3>1
  <2>4. g[k .. n] = ds[k] + Base * g[k + 1 .. n]
    BY <1>4, <2>1, <2>3 DEF FoldStep
  <2> QED
    BY <2>2, <2>4
<1>7. h[1] = g[1 .. n]
  BY <1>1
<1>8. h = [k \in 1 .. n + 1 |-> h[k]]
  OBVIOUS
<1> HIDE DEF h
<1> DEFINE T == {k \in 1 .. n + 1 : h[k] \in Int}
<1>9. n + 1 \in T
  BY <1>1, <1>5
<1>10. ASSUME NEW k \in 1 .. n, k + 1 \in T PROVE k \in T
  <2>1. ds[k] \in Int /\ h[k + 1] \in Int
    BY <1>1, <1>10
  <2>2. ds[k] + Base * h[k + 1] \in Int
    BY <2>1
  <2>3. k \in 1 .. n + 1
    BY <1>1
  <2> QED
    BY <1>6, <2>2, <2>3
<1>11. T = 1 .. n + 1
  <2>1. T \in SUBSET (1 .. n + 1)
    OBVIOUS
  <2> HIDE DEF T
  <2> QED
    BY <1>1, <1>9, <1>10, <2>1, InductionFrom
<1>12. h \in [1 .. n + 1 -> Int]
  BY <1>8, <1>11
<1>13. Horner(h, ds)
  BY <1>5, <1>6, <1>12 DEF Horner, n
<1> QED
  BY <1>3, <1>7, <1>13

---------------------------------------------------------------------------
(* Encoding and decoding a number are inverse.                             *)

Bytes == 0 .. Base - 1

Orders == {"II", "MM"}

LEMMA BaseIs == Base \in Nat \ {0} /\ Base >= 10 /\ Base \in Int
  BY BaseAssumption

Low(v, n) == [k \in 1 .. n |-> (v \div Power[k - 1]) % Base]

LEMMA LowBytes ==
    ASSUME NEW v \in Int, NEW n \in Widths
    PROVE  /\ Low(v, n) \in [1 .. n -> Bytes] /\ Low(v, n) \in Seq(Bytes) /\ Low(v, n) \in Seq(Int)
           /\ Len(Low(v, n)) = n
<1>1. ASSUME NEW k \in 1 .. n PROVE (v \div Power[k - 1]) % Base \in Bytes
  <2> DEFINE q == v \div Power[k - 1]
  <2>1. Power[k - 1] \in Nat \ {0}
    BY Powers DEF Widths
  <2>2. q \in Int
    BY <2>1, Divided
  <2> HIDE DEF q
  <2>3. q % Base \in 0 .. Base - 1
    BY <2>2, BaseIs, Divided
  <2> QED
    BY <2>3 DEF Bytes, q
<1>2. Low(v, n) \in [1 .. n -> Bytes]
  BY <1>1 DEF Low
<1>3. n \in Nat /\ Bytes \subseteq Int
  BY BaseIs DEF Widths, Bytes
<1>4. Low(v, n) \in [1 .. n -> Int]
  BY <1>2, <1>3
<1> HIDE DEF Low
<1> QED
  BY <1>2, <1>3, <1>4

LEMMA LowNumber ==
    ASSUME NEW v \in Int, NEW n \in Widths
    PROVE  Number(Low(v, n)) = v % Power[n]
<1> USE BaseAssumption
<1> DEFINE ds == Low(v, n)
<1>1. ds \in [1 .. n -> Bytes] /\ ds \in Seq(Int) /\ Len(ds) = n
  BY LowBytes
<1>2. PICK h : Horner(h, ds) /\ Number(ds) = h[1]
  BY <1>1, NumberHorner
<1>3. n \in Nat /\ n <= 8
  BY DEF Widths
<1> DEFINE S == {k \in 1 .. n + 1 : Power[k - 1] * h[k] + (v % Power[k - 1]) = v % Power[n]}
<1>4. h \in [1 .. n + 1 -> Int] /\ h[n + 1] = 0 /\ \A k \in 1 .. n : h[k] = ds[k] + Base * h[k + 1]
  BY <1>1, <1>2 DEF Horner
<1>5. Power[n] \in Nat \ {0} /\ v % Power[n] \in Nat
  <2>1. Power[n] \in Nat \ {0}
    BY Powers
  <2>2. v % Power[n] \in 0 .. Power[n] - 1
    BY <2>1, Divided
  <2> QED
    BY <2>1, <2>2
<1>6. n + 1 \in S
  <2>1. n + 1 \in 1 .. n + 1 /\ (n + 1) - 1 = n
    BY <1>3
  <2>2. Power[n] * 0 = 0
    BY <1>5
  <2> QED
    BY <1>4, <1>5, <2>1, <2>2
<1>7. ASSUME NEW k \in 1 .. n, k + 1 \in S PROVE k \in S
  <2> DEFINE p == Power[k - 1]
             d == ds[k]
             r == v % Power[k - 1]
             x == h[k + 1]
  <2>1. k - 1 \in 0 .. 7 /\ (k - 1) + 1 = k /\ (k + 1) - 1 = k /\ k - 1 \in Widths /\ k \in 1 .. n + 1
    BY <1>3 DEF Widths
  <2>2. p \in Nat \ {0} /\ Power[k] = Base * p
    BY <2>1, Powers
  <2>3. d = (v \div p) % Base /\ d \in Nat
    BY <1>1 DEF Low, Bytes
  <2>4. v % Power[k] = p * d + r /\ r \in Nat
    <3> HIDE DEF p, d
    <3>1. v % (Base * p) = p * ((v \div p) % Base) + (v % p)
      BY <2>2, BaseIs, DividedTwice
    <3>2. v % p \in 0 .. p - 1
      BY <2>2, Divided
    <3>3. r = v % p
      BY DEF p
    <3> HIDE DEF r
    <3> QED
      BY <2>2, <2>3, <3>1, <3>2, <3>3
  <2>5. Power[k] * x + (v % Power[k]) = v % Power[n]
    BY <1>7, <2>1
  <2>6. h[k] = d + Base * x /\ x \in Int
    <3>1. k + 1 \in 1 .. n + 1
      BY <1>3
    <3> QED
      BY <1>4, <3>1
  <2> HIDE DEF p, d, r, x
  <2>7. p * (d + Base * x) + r = (Base * p) * x + (p * d + r)
    BY <2>2, <2>3, <2>4, <2>6, SMT
  <2>8. p * h[k] + r = v % Power[n]
    BY <2>2, <2>4, <2>5, <2>6, <2>7
  <2> QED
    BY <2>1, <2>8 DEF p, r
<1>8. S = 1 .. n + 1
  <2>1. S \in SUBSET (1 .. n + 1)
    OBVIOUS
  <2> HIDE DEF S
  <2> QED
    BY <1>3, <1>6, <1>7, <2>1, InductionFrom
<1>9. 1 \in S /\ 1 - 1 = 0
  BY <1>3, <1>8
<1>10. Power[0] * h[1] + (v % Power[0]) = v % Power[n]
  BY <1>9
<1>11. Power[0] = 1 /\ v % 1 = 0 /\ h[1] \in Int
  <2>1. v % 1 = 0
    BY SMT
  <2> QED
    BY <1>3, <1>4, <2>1, Powers
<1>12. h[1] = v % Power[n]
  <2>1. 1 * h[1] + 0 = h[1]
    BY <1>11
  <2> QED
    BY <1>10, <1>11, <2>1
<1> QED
  BY <1>2, <1>12

LEMMA NumberLow ==
    ASSUME NEW n \in Widths, NEW ds \in Seq(Bytes), Len(ds) = n
    PROVE  Number(ds) \in 0 .. Power[n] - 1 /\ Low(Number(ds), n) = ds
<1> USE BaseAssumption
<1>1. ds \in [1 .. n -> Bytes] /\ ds \in Seq(Int) /\ n \in Nat /\ n <= 8
  BY DEF Widths, Bytes
<1>2. PICK h : Horner(h, ds) /\ Number(ds) = h[1]
  BY <1>1, NumberHorner
<1>3. h \in [1 .. n + 1 -> Int] /\ h[n + 1] = 0 /\ \A k \in 1 .. n : h[k] = ds[k] + Base * h[k + 1]
  BY <1>2 DEF Horner
<1> DEFINE T == {k \in 1 .. n + 1 : h[k] \in 0 .. Power[n + 1 - k] - 1}
<1>4. n + 1 \in T
  <2>1. n + 1 - (n + 1) = 0
    BY <1>1
  <2> QED
    BY <1>1, <1>3, <2>1, Powers
<1>5. ASSUME NEW k \in 1 .. n, k + 1 \in T PROVE k \in T
  <2> DEFINE p == Power[n + 1 - (k + 1)]
             x == h[k + 1]
             d == ds[k]
  <2>1. n + 1 - (k + 1) = n - k /\ n - k \in 0 .. 7 /\ n + 1 - k = (n - k) + 1 /\ n - k \in Widths /\ k \in 1 .. n + 1
    BY <1>1 DEF Widths
  <2>2. p \in Nat \ {0} /\ Power[n + 1 - k] = Base * p
    BY <2>1, Powers
  <2>3. x \in 0 .. p - 1 /\ d \in 0 .. Base - 1 /\ h[k] = d + Base * x
    BY <1>1, <1>3, <1>5 DEF Bytes
  <2> HIDE DEF p, x, d
  <2>4. Base * x \in Nat /\ Base * x + Base <= Base * p /\ Base * p \in Nat
    <3>1. x \in Nat /\ x + 1 <= p
      BY <2>2, <2>3
    <3> QED
      BY <2>2, <3>1, SMT
  <2>5. d + Base * x \in 0 .. Base * p - 1
    BY <2>3, <2>4
  <2> QED
    BY <2>1, <2>2, <2>3, <2>5
<1>6. T = 1 .. n + 1
  <2>1. T \in SUBSET (1 .. n + 1)
    OBVIOUS
  <2> HIDE DEF T
  <2> QED
    BY <1>1, <1>4, <1>5, <2>1, InductionFrom
<1>7. h[1] \in 0 .. Power[n] - 1
  <2>1. 1 \in T /\ n + 1 - 1 = n
    BY <1>1, <1>6
  <2> QED
    BY <2>1
<1> DEFINE S == {k \in 0 .. n : h[1] \div Power[k] = h[k + 1]}
<1>8. ASSUME NEW k \in 0 .. n - 1, h[1] \div Power[k] = h[k + 1]
      PROVE  (h[1] \div Power[k]) % Base = ds[k + 1] /\ h[1] \div Power[k + 1] = h[k + 2]
  <2>1. k \in 0 .. 7 /\ k + 1 \in 1 .. n /\ k + 2 \in 1 .. n + 1 /\ (k + 1) + 1 = k + 2 /\ k \in Widths
    BY <1>1 DEF Widths
  <2>2. Power[k] \in Nat \ {0} /\ Power[k + 1] = Base * Power[k]
    BY <2>1, Powers
  <2>3. h[k + 1] = ds[k + 1] + Base * h[k + 2] /\ h[k + 2] \in Int /\ h[k + 1] \in Int /\ h[1] \in Int
    <3>1. k + 1 \in 1 .. n + 1 /\ 1 \in 1 .. n + 1
      BY <1>1
    <3>2. h[k + 1] = ds[k + 1] + Base * h[(k + 1) + 1]
      BY <1>3, <2>1
    <3> QED
      BY <1>3, <2>1, <3>1, <3>2
  <2>4. ds[k + 1] \in 0 .. Base - 1
    BY <1>1, <2>1 DEF Bytes
  <2>5. h[k + 1] = Base * h[k + 2] + ds[k + 1]
    <3>1. Base * h[k + 2] \in Int
      BY <2>3
    <3> QED
      BY <2>3, <2>4, <3>1
  <2>6. h[k + 1] \div Base = h[k + 2] /\ h[k + 1] % Base = ds[k + 1]
    <3> DEFINE v == h[k + 1]
               q == h[k + 2]
               d == ds[k + 1]
    <3>1. v \in Int /\ q \in Int /\ d \in 0 .. Base - 1 /\ v = Base * q + d
      BY <2>3, <2>4, <2>5
    <3> HIDE DEF v, q, d
    <3>2. v \div Base = q /\ v % Base = d
      BY <3>1, BaseIs, OnlyQuotient
    <3> QED
      BY <3>2 DEF v, q, d
  <2>7. (h[1] \div Power[k]) \div Base = h[1] \div (Base * Power[k])
    <3> DEFINE v == h[1]
               p == Power[k]
    <3>1. v \in Int /\ p \in Nat \ {0}
      BY <2>2, <2>3
    <3> HIDE DEF v, p
    <3>2. (v \div p) \div Base = v \div (Base * p)
      BY <3>1, BaseIs, DividedTwice
    <3> QED
      BY <3>2 DEF v, p
  <2> QED
    BY <1>8, <2>2, <2>6, <2>7
<1>9. 0 \in S
  <2>1. h[1] \in Int /\ Power[0] = 1
    BY <1>1, <1>3, Powers
  <2>2. h[1] \div 1 = h[1]
    BY <2>1, SMT
  <2> QED
    BY <1>1, <2>1, <2>2
<1>10. ASSUME NEW k \in S, k < n PROVE k + 1 \in S
  <2>1. k \in 0 .. n - 1 /\ k + 1 \in 0 .. n /\ (k + 1) + 1 = k + 2
    BY <1>1, <1>10
  <2> QED
    BY <1>8, <2>1
<1>11. S = 0 .. n
  <2>1. S \in SUBSET (0 .. n)
    OBVIOUS
  <2> HIDE DEF S
  <2> QED
    BY <1>1, <1>9, <1>10, <2>1, InductionTo
<1>12. ASSUME NEW k \in 1 .. n PROVE (h[1] \div Power[k - 1]) % Base = ds[k]
  <2>1. k - 1 \in 0 .. n - 1 /\ k - 1 \in 0 .. n /\ (k - 1) + 1 = k
    BY <1>1
  <2>2. h[1] \div Power[k - 1] = h[(k - 1) + 1]
    BY <1>11, <2>1
  <2> QED
    BY <1>8, <2>1, <2>2
<1>13. ds = [k \in 1 .. n |-> ds[k]]
  BY <1>1
<1> QED
  BY <1>2, <1>7, <1>12, <1>13 DEF Low

\* Putting bytes in order twice leaves them as they were.
LEMMA InOrderTwice ==
    ASSUME NEW order \in Orders, NEW S, NEW s \in Seq(S)
    PROVE  /\ InOrder(order, s) \in Seq(S) /\ Len(InOrder(order, s)) = Len(s)
           /\ InOrder(order, InOrder(order, s)) = s
<1> DEFINE n == Len(s)
<1>1. n \in Nat /\ s \in [1 .. n -> S] /\ s = [k \in 1 .. n |-> s[k]]
  OBVIOUS
<1>2. Reverse(s) \in [1 .. n -> S] /\ Reverse(s) = [k \in 1 .. n |-> s[n - k + 1]]
  <2>1. \A k \in 1 .. n : n - k + 1 \in 1 .. n
    BY <1>1
  <2> QED
    BY <1>1, <2>1 DEF Reverse
<1>3. Reverse(s) \in Seq(S) /\ Len(Reverse(s)) = n
  BY <1>1, <1>2
<1>4. Reverse(Reverse(s)) = s
  <2> DEFINE t == Reverse(s)
  <2>1. Reverse(t) = [k \in 1 .. n |-> t[n - k + 1]]
    BY <1>3 DEF Reverse
  <2>2. \A k \in 1 .. n : n - k + 1 \in 1 .. n /\ n - (n - k + 1) + 1 = k
    BY <1>1
  <2>3. \A k \in 1 .. n : t[n - k + 1] = s[k]
    BY <1>2, <2>2
  <2> HIDE DEF t
  <2> QED
    BY <1>1, <2>1, <2>3 DEF t
<1> QED
  BY <1>3, <1>4 DEF InOrder, Orders

LEMMA EncodedBytes ==
    ASSUME NEW order \in Orders, NEW v \in Int, NEW n \in Widths
    PROVE  /\ Encoded(order, v, n) \in Seq(Bytes)
           /\ Len(Encoded(order, v, n)) = n
  BY LowBytes, InOrderTwice DEF Encoded, Low

LEMMA DecodedIsNumber ==
    ASSUME NEW order, NEW bytes
    PROVE  Decoded(order, bytes) = Number(InOrder(order, bytes))
  BY Zenon DEF Decoded, Number

LEMMA DecodedEncoded ==
    ASSUME NEW order \in Orders, NEW v \in Int, NEW n \in Widths
    PROVE  Decoded(order, Encoded(order, v, n)) = v % Power[n]
<1>1. Encoded(order, v, n) = InOrder(order, Low(v, n))
  BY DEF Encoded, Low
<1>2. InOrder(order, Encoded(order, v, n)) = Low(v, n)
  BY <1>1, LowBytes, InOrderTwice
<1> QED
  BY <1>2, DecodedIsNumber, LowNumber

LEMMA EncodedDecoded ==
    ASSUME NEW order \in Orders, NEW n \in Widths, NEW bytes \in Seq(Bytes), Len(bytes) = n
    PROVE  /\ Decoded(order, bytes) \in 0 .. Power[n] - 1
           /\ Encoded(order, Decoded(order, bytes), n) = bytes
<1> DEFINE ds == InOrder(order, bytes)
<1>1. ds \in Seq(Bytes) /\ Len(ds) = n /\ InOrder(order, ds) = bytes
  BY InOrderTwice
<1>2. Decoded(order, bytes) = Number(ds)
  BY DecodedIsNumber
<1> HIDE DEF ds
<1>3. Number(ds) \in 0 .. Power[n] - 1 /\ Low(Number(ds), n) = ds
  BY <1>1, NumberLow
<1>4. Encoded(order, Number(ds), n) = InOrder(order, Low(Number(ds), n))
  BY DEF Encoded, Low
<1> QED
  BY <1>1, <1>2, <1>3, <1>4

---------------------------------------------------------------------------
(* Sequences one after the other.                                          *)

FlattenSteps(f, ss) == f = [i \in 1 .. Len(ss) |-> IF i = 1 THEN ss[i] ELSE f[i - 1] \o ss[i]]

LEMMA FlattenIs ==
    ASSUME NEW ss, Len(ss) # 0
    PROVE  FlattenSeq(ss) = (CHOOSE f : FlattenSteps(f, ss))[Len(ss)]
  BY Zenon DEF FlattenSeq, FlattenSteps

LEMMA FlattenSolves ==
    ASSUME NEW S, NEW ss \in Seq(Seq(S)), Len(ss) # 0
    PROVE  \E f : FlattenSteps(f, ss)
<1> DEFINE m == Len(ss)
           D == 1 .. m
           V == Seq(S)
           Stop == {1}
           B == [i \in Stop |-> ss[i]]
           N == [i \in D \ Stop |-> i - 1]
           op == [z \in (D \ Stop) \X V |-> z[2] \o ss[z[1]]]
           size == [i \in D |-> i]
<1>1. m \in Nat /\ m # 0 /\ ss \in [1 .. m -> Seq(S)]
  OBVIOUS
<1> HIDE DEF m
<1>2. Stop \in SUBSET D /\ B \in [Stop -> V]
  BY <1>1
<1>3. N \in [D \ Stop -> D]
  BY <1>1
<1>4. op \in [(D \ Stop) \X V -> V]
  <2>1. ASSUME NEW z \in (D \ Stop) \X V PROVE z[2] \o ss[z[1]] \in V
    <3>1. ss[z[1]] \in Seq(S) /\ z[2] \in Seq(S)
      BY <1>1
    <3> QED
      BY <3>1, ConcatProperties
  <2> QED
    BY <2>1
<1>5. size \in [D -> 0 .. m] /\ \A i \in D \ Stop : size[N[i]] < size[i]
  BY <1>1
<1> HIDE DEF size
<1>6. PICK f \in [D -> V] : Recurs(f, D, Stop, B, N, op)
  BY <1>1, <1>2, <1>3, <1>4, <1>5, Recursion
<1>7. ASSUME NEW i \in D
      PROVE  (IF i \in Stop THEN B[i] ELSE op[<<i, f[N[i]]>>]) = IF i = 1 THEN ss[i] ELSE f[i - 1] \o ss[i]
  <2>1. CASE i = 1
    BY <2>1
  <2>2. CASE i # 1
    <3>1. N[i] = i - 1 /\ f[i - 1] \in V /\ i \in D \ Stop
      BY <1>1, <2>2
    <3>2. op[<<i, f[i - 1]>>] = f[i - 1] \o ss[i]
      BY <3>1
    <3> HIDE DEF op, N
    <3> QED
      BY <2>2, <3>1, <3>2
  <2> QED
    BY <2>1, <2>2
<1>8. f = [i \in D |-> IF i \in Stop THEN B[i] ELSE op[<<i, f[N[i]]>>]]
  BY <1>6 DEF Recurs
<1> HIDE DEF Stop, B, N, op
<1>9. f = [i \in D |-> IF i = 1 THEN ss[i] ELSE f[i - 1] \o ss[i]]
  BY <1>7, <1>8
<1> QED
  BY <1>9 DEF FlattenSteps, m

\* f puts the first i sequences together.
Joins(f, ss, S) ==
    /\ f \in [1 .. Len(ss) -> Seq(S)]
    /\ f[1] = ss[1]
    /\ \A i \in 2 .. Len(ss) : f[i] = f[i - 1] \o ss[i]

LEMMA FlattenJoins ==
    ASSUME NEW S, NEW ss \in Seq(Seq(S)), Len(ss) # 0
    PROVE  \E f : Joins(f, ss, S) /\ FlattenSeq(ss) = f[Len(ss)]
<1> DEFINE m == Len(ss)
           f == CHOOSE g : FlattenSteps(g, ss)
           T == {i \in 0 .. m : i = 0 \/ f[i] \in Seq(S)}
<1>1. m \in Nat /\ m # 0 /\ ss \in [1 .. m -> Seq(S)]
  OBVIOUS
<1>2. FlattenSteps(f, ss)
  BY FlattenSolves
<1>3. FlattenSeq(ss) = f[m]
  BY FlattenIs
<1> HIDE DEF m, f
<1>4. f = [i \in 1 .. m |-> IF i = 1 THEN ss[i] ELSE f[i - 1] \o ss[i]]
  BY <1>2 DEF FlattenSteps, m
<1>5. f[1] = ss[1] /\ \A i \in 2 .. m : f[i] = f[i - 1] \o ss[i]
  <2>1. \A i \in 1 .. m : f[i] = IF i = 1 THEN ss[i] ELSE f[i - 1] \o ss[i]
    BY <1>4
  <2>2. 1 \in 1 .. m /\ \A i \in 2 .. m : i \in 1 .. m /\ i # 1
    BY <1>1
  <2> QED
    BY <2>1, <2>2
<1>6. ASSUME NEW i \in T, i < m PROVE i + 1 \in T
  <2>1. i + 1 \in 1 .. m /\ i + 1 \in 0 .. m
    BY <1>1, <1>6
  <2>2. CASE i = 0
    BY <1>1, <1>5, <2>1, <2>2
  <2>3. CASE i # 0
    <3>1. i + 1 \in 2 .. m /\ (i + 1) - 1 = i /\ f[i] \in Seq(S) /\ ss[i + 1] \in Seq(S)
      BY <1>1, <1>6, <2>1, <2>3
    <3>2. f[i + 1] = f[i] \o ss[i + 1]
      BY <1>5, <3>1
    <3> QED
      BY <2>1, <3>1, <3>2, ConcatProperties
  <2> QED
    BY <2>2, <2>3
<1>7. T = 0 .. m
  <2>1. T \in SUBSET (0 .. m) /\ 0 \in T
    BY <1>1
  <2> HIDE DEF T
  <2> QED
    BY <1>1, <1>6, <2>1, InductionTo
<1>8. \A i \in 1 .. m : f[i] \in Seq(S)
  <2>1. \A i \in 1 .. m : i \in 0 .. m /\ i # 0
    BY <1>1
  <2> QED
    BY <1>7, <2>1
<1>9. Joins(f, ss, S)
  BY <1>4, <1>5, <1>8 DEF Joins, m
<1> QED
  BY <1>3, <1>9 DEF m

\* What \o makes of two sequences.
LEMMA Joined ==
    ASSUME NEW S, NEW s \in Seq(S), NEW t \in Seq(S)
    PROVE  /\ s \o t \in Seq(S) /\ Len(s \o t) = Len(s) + Len(t)
           /\ \A k \in 1 .. Len(s) : (s \o t)[k] = s[k]
           /\ \A k \in 1 .. Len(t) : (s \o t)[Len(s) + k] = t[k]
<1>1. Len(s) \in Nat /\ Len(t) \in Nat
  OBVIOUS
<1>2. /\ s \o t \in Seq(S) /\ Len(s \o t) = Len(s) + Len(t)
      /\ \A i \in 1 .. Len(s) + Len(t) : (s \o t)[i] = IF i <= Len(s) THEN s[i] ELSE t[i - Len(s)]
  BY ConcatProperties
<1>3. ASSUME NEW k \in 1 .. Len(s) PROVE (s \o t)[k] = s[k]
  <2>1. k \in 1 .. Len(s) + Len(t) /\ k <= Len(s)
    BY <1>1
  <2> QED
    BY <1>2, <2>1
<1>4. ASSUME NEW k \in 1 .. Len(t) PROVE (s \o t)[Len(s) + k] = t[k]
  <2>1. Len(s) + k \in 1 .. Len(s) + Len(t) /\ ~ (Len(s) + k <= Len(s)) /\ (Len(s) + k) - Len(s) = k
    BY <1>1
  <2> QED
    BY <1>2, <2>1
<1> QED
  BY <1>2, <1>3, <1>4

\* The first i sequences of ss, each with n elements, one after the other.
Even(u, ss, n, i) ==
    /\ Len(u) = i * n
    /\ \A j \in 1 .. i : \A k \in 1 .. n : u[(j - 1) * n + k] = ss[j][k]

LEMMA EvenStep ==
    ASSUME NEW S, NEW ss, NEW n \in Nat, NEW i \in Nat, NEW g \in Seq(S), Even(g, ss, n, i),
           NEW t \in Seq(S), t = ss[i + 1], Len(t) = n, NEW u, u = g \o t
    PROVE  Even(u, ss, n, i + 1)
<1> DEFINE l == i * n
<1>1. l \in Nat /\ (i + 1) * n = l + n
  BY SMT
<1>2. Len(g) = l
  BY DEF Even
<1>3. /\ Len(u) = l + n
      /\ \A k \in 1 .. l : u[k] = g[k]
      /\ \A k \in 1 .. n : u[l + k] = t[k]
  <2> HIDE DEF l
  <2>1. Len(g \o t) = Len(g) + Len(t)
    BY Joined
  <2>2. \A k \in 1 .. Len(g) : (g \o t)[k] = g[k]
    BY Joined
  <2>3. \A k \in 1 .. Len(t) : (g \o t)[Len(g) + k] = t[k]
    BY Joined
  <2>4. Len(u) = l + n
    BY <1>2, <2>1
  <2>5. \A k \in 1 .. l : u[k] = g[k]
    BY <1>2, <2>2
  <2>6. \A k \in 1 .. n : u[l + k] = t[k]
    BY <1>2, <2>3
  <2> QED
    BY <2>4, <2>5, <2>6
<1>4. Len(u) = (i + 1) * n
  BY <1>1, <1>3
<1>5. ASSUME NEW j \in 1 .. i + 1, NEW k \in 1 .. n PROVE u[(j - 1) * n + k] = ss[j][k]
  <2>1. CASE j = i + 1
    <3>1. (j - 1) * n + k = l + k
      BY <2>1
    <3> HIDE DEF l
    <3> QED
      BY <1>3, <2>1, <3>1
  <2>2. CASE j # i + 1
    <3>1. j \in 1 .. i
      BY <2>2
    <3>2. (j - 1) * n + k \in 1 .. l
      <4> DEFINE b == (j - 1) * n
      <4>1. b \in Nat /\ b + n <= i * n
        <5>1. j - 1 \in Nat /\ j - 1 < i
          BY <3>1
        <5> QED
          BY <5>1, SMT
      <4> HIDE DEF b
      <4>2. b + k \in 1 .. l
        BY <1>1, <4>1
      <4> QED
        BY <4>2 DEF b
    <3>3. g[(j - 1) * n + k] = ss[j][k]
      BY <3>1 DEF Even
    <3> HIDE DEF l
    <3> QED
      BY <1>3, <3>2, <3>3
  <2> QED
    BY <2>1, <2>2
<1> QED
  BY <1>4, <1>5 DEF Even

\* Of pieces with n elements each the ith lies n times i - 1 elements from the front.
LEMMA FlattenEven ==
    ASSUME NEW S, NEW ss \in Seq(Seq(S)), NEW n \in Nat, \A i \in 1 .. Len(ss) : Len(ss[i]) = n
    PROVE  FlattenSeq(ss) \in Seq(S) /\ Even(FlattenSeq(ss), ss, n, Len(ss))
<1>1. CASE Len(ss) = 0
  <2>1. ss = <<>> /\ FlattenSeq(ss) = ss
    BY <1>1, EmptySeq DEF FlattenSeq
  <2>2. FlattenSeq(ss) \in Seq(S)
    <3>1. <<>> \in Seq(S)
      BY EmptySeq
    <3>2. FlattenSeq(ss) = <<>>
      BY <2>1
    <3> QED
      BY <3>1, <3>2, Zenon
  <2>3. Len(FlattenSeq(ss)) = 0 /\ 0 * n = 0 /\ \A i \in 1 .. 0 : FALSE
    BY <1>1, <2>1
  <2> QED
    BY <1>1, <2>2, <2>3 DEF Even
<1>2. CASE Len(ss) # 0
  <2> DEFINE m == Len(ss)
  <2>1. m \in Nat /\ m # 0 /\ ss \in [1 .. m -> Seq(S)]
    BY <1>2
  <2>2. PICK f : Joins(f, ss, S) /\ FlattenSeq(ss) = f[m]
    BY <1>2, FlattenJoins
  <2>3. /\ f \in [1 .. m -> Seq(S)] /\ f[1] = ss[1] /\ \A i \in 2 .. m : f[i] = f[i - 1] \o ss[i]
        /\ \A i \in 1 .. m : Len(ss[i]) = n
    BY <2>2 DEF Joins
  <2> HIDE DEF m
  <2> DEFINE T == {i \in 0 .. m : i = 0 \/ Even(f[i], ss, n, i)}
  <2>4. ASSUME NEW i \in T, i < m PROVE i + 1 \in T
    <3>1. i + 1 \in 1 .. m /\ i + 1 \in 0 .. m /\ i \in Nat
      BY <2>1, <2>4
    <3>2. CASE i = 0
      <4>1. Even(f[1], ss, n, 1)
        <5>1. Len(f[1]) = 1 * n
          BY <2>1, <2>3
        <5>2. ASSUME NEW j \in 1 .. 1, NEW k \in 1 .. n PROVE f[1][(j - 1) * n + k] = ss[j][k]
          <6>1. j = 1 /\ (j - 1) * n + k = k
            OBVIOUS
          <6> QED
            BY <2>3, <6>1
        <5> QED
          BY <5>1, <5>2 DEF Even
      <4> QED
        BY <3>1, <3>2, <4>1
    <3>3. CASE i # 0
      <4>1. /\ i + 1 \in 2 .. m /\ (i + 1) - 1 = i /\ i \in 1 .. m /\ Even(f[i], ss, n, i)
        BY <2>1, <2>4, <3>1, <3>3
      <4>2. f[i] \in Seq(S) /\ ss[i + 1] \in Seq(S) /\ Len(ss[i + 1]) = n /\ f[i + 1] = f[i] \o ss[i + 1]
        BY <2>1, <2>3, <3>1, <4>1
      <4>3. Even(f[i + 1], ss, n, i + 1)
        BY <3>1, <4>1, <4>2, EvenStep
      <4> QED
        BY <3>1, <4>3
    <3> QED
      BY <3>2, <3>3
  <2>5. T = 0 .. m
    <3>1. T \in SUBSET (0 .. m) /\ 0 \in T
      BY <2>1
    <3> HIDE DEF T
    <3> QED
      BY <2>1, <2>4, <3>1, InductionTo
  <2>6. m \in 0 .. m /\ m \in 1 .. m
    BY <2>1
  <2>7. Even(f[m], ss, n, m)
    BY <2>1, <2>5, <2>6
  <2> QED
    BY <2>2, <2>3, <2>6, <2>7 DEF m
<1> QED
  BY <1>1, <1>2

---------------------------------------------------------------------------
(* Lists of numbers as bytes.                                              *)

LEMMA SubSeqIs ==
    ASSUME NEW S, NEW s \in Seq(S), NEW m \in Int, NEW n \in Nat, 1 <= m, m <= n + 1, n <= Len(s)
    PROVE  /\ SubSeq(s, m, n) \in Seq(S) /\ Len(SubSeq(s, m, n)) = n - m + 1
           /\ SubSeq(s, m, n) = [k \in 1 .. n - m + 1 |-> s[m + k - 1]]
<1>1. Len(s) \in Nat
  OBVIOUS
<1>2. \A k \in m .. n : s[k] \in S
  <2> SUFFICES ASSUME NEW k \in m .. n PROVE s[k] \in S
    OBVIOUS
  <2>1. k \in 1 .. Len(s)
    BY <1>1
  <2> QED
    BY <2>1
<1>3. SubSeq(s, m, n) = [k \in 1 .. n - m + 1 |-> s[m + k - 1]]
  BY <1>1
<1>4. n - m + 1 \in Nat /\ \A k \in 1 .. n - m + 1 : m + k - 1 \in m .. n
  BY <1>1
<1>5. SubSeq(s, m, n) \in [1 .. n - m + 1 -> S]
  BY <1>2, <1>3, <1>4
<1> HIDE <1>3
<1> QED
  BY <1>3, <1>4, <1>5

\* The i-th of l pieces of n each.
LEMMA Pieces ==
    ASSUME NEW l \in Nat, NEW i \in 1 .. l, NEW n \in Nat
    PROVE  /\ (i - 1) * n \in Nat /\ i * n = (i - 1) * n + n
           /\ i * n \in Nat /\ l * n \in Nat /\ i * n <= l * n
<1> DEFINE d == l - i
           j == i - 1
<1>1. d \in Nat /\ j \in Nat /\ l = d + i /\ i = j + 1 /\ i \in Nat
  OBVIOUS
<1> HIDE DEF d, j
<1>2. (d + i) * n = d * n + i * n
  BY <1>1, SMT
<1>3. (j + 1) * n = j * n + n
  BY <1>1, SMT
<1>4. d * n \in Nat /\ i * n \in Nat /\ j * n \in Nat
  BY <1>1, SMT
<1>5. l * n = d * n + i * n /\ i * n = j * n + n
  BY <1>1, <1>2, <1>3
<1>6. j * n = (i - 1) * n
  BY DEF j
<1>7. i * n <= l * n /\ l * n \in Nat
  BY <1>4, <1>5
<1> QED
  BY <1>4, <1>5, <1>6, <1>7

LEMMA NthEven ==
    ASSUME NEW S, NEW ss \in Seq(Seq(S)), NEW u \in Seq(S), NEW n \in Nat, Even(u, ss, n, Len(ss)),
           NEW i \in 1 .. Len(ss), Len(ss[i]) = n
    PROVE  Nth(u, i, n) = ss[i]
<1> DEFINE p == (i - 1) * n
           q == i * n
           L == Len(ss)
<1>1. L \in Nat /\ i \in 1 .. L
  OBVIOUS
<1> HIDE DEF L
<1>2. p \in Nat /\ q = p + n /\ q \in Nat /\ L * n \in Nat /\ q <= L * n
  BY <1>1, Pieces
<1>3. Len(u) = L * n /\ \A k \in 1 .. n : u[p + k] = ss[i][k]
  BY <1>1 DEF Even, L
<1>4. Nth(u, i, n) = SubSeq(u, p + 1, q)
  BY DEF Nth
<1> HIDE DEF p, q
<1> DEFINE from == p + 1
<1>5. from \in Int /\ 1 <= from /\ from <= q + 1 /\ q <= Len(u) /\ q \in Nat /\ q - from + 1 = n
  BY <1>2, <1>3
<1>6. \A k \in 1 .. n : from + k - 1 = p + k
  BY <1>2
<1>7. Nth(u, i, n) = SubSeq(u, from, q)
  BY <1>4
<1> HIDE DEF from
<1>8. SubSeq(u, from, q) = [k \in 1 .. q - from + 1 |-> u[from + k - 1]]
  BY <1>5, SubSeqIs
<1>9. SubSeq(u, from, q) = [k \in 1 .. n |-> ss[i][k]]
  <2>1. \A k \in 1 .. n : u[from + k - 1] = ss[i][k]
    BY <1>3, <1>6
  <2> QED
    BY <1>5, <1>8, <2>1
<1>10. ss[i] \in Seq(S)
  OBVIOUS
<1>11. ss[i] = [k \in 1 .. n |-> ss[i][k]]
  BY <1>10
<1> QED
  BY <1>7, <1>9, <1>11

LEMMA EncodedAllIs ==
    ASSUME NEW order \in Orders, NEW vs \in Seq(Int), NEW n \in Widths
    PROVE  /\ EncodedAll(order, vs, n) \in Seq(Bytes)
           /\ Len(EncodedAll(order, vs, n)) = Len(vs) * n
           /\ \A i \in 1 .. Len(vs) : Nth(EncodedAll(order, vs, n), i, n) = Encoded(order, vs[i], n)
<1> DEFINE ss == [i \in DOMAIN vs |-> Encoded(order, vs[i], n)]
           u == FlattenSeq(ss)
<1>1. Len(vs) \in Nat /\ DOMAIN vs = 1 .. Len(vs) /\ n \in Nat
  BY DEF Widths
<1>2. \A i \in 1 .. Len(vs) : vs[i] \in Int
  OBVIOUS
<1>3. \A i \in 1 .. Len(vs) : Encoded(order, vs[i], n) \in Seq(Bytes) /\ Len(Encoded(order, vs[i], n)) = n
  BY <1>2, EncodedBytes
<1>4. ss \in [1 .. Len(vs) -> Seq(Bytes)] /\ \A i \in 1 .. Len(vs) : ss[i] = Encoded(order, vs[i], n)
  BY <1>1, <1>3
<1>5. EncodedAll(order, vs, n) = u
  BY DEF EncodedAll
<1> HIDE DEF ss
<1>6. ss \in Seq(Seq(Bytes)) /\ Len(ss) = Len(vs)
  BY <1>1, <1>4
<1>7. \A i \in 1 .. Len(ss) : Len(ss[i]) = n
  BY <1>3, <1>4, <1>6
<1>8. u \in Seq(Bytes) /\ Even(u, ss, n, Len(ss))
  BY <1>1, <1>6, <1>7, FlattenEven
<1> HIDE DEF u
<1>9. Len(u) = Len(vs) * n
  BY <1>6, <1>8 DEF Even
<1>10. ASSUME NEW i \in 1 .. Len(vs) PROVE Nth(u, i, n) = ss[i]
  BY <1>1, <1>6, <1>7, <1>8, NthEven
<1> QED
  BY <1>4, <1>5, <1>8, <1>9, <1>10

\* Half of a power is one half of it.
LEMMA Halves ==
    ASSUME NEW n \in 1 .. 8
    PROVE  Power[n] \div 2 \in Nat /\ 2 * (Power[n] \div 2) = Power[n] /\ Power[n] \in Nat \ {0}
<1> DEFINE p == Power[n - 1]
           q == Power[n]
           c == Base \div 2
<1>1. n - 1 \in 0 .. 7 /\ (n - 1) + 1 = n /\ n - 1 \in Widths /\ n \in Widths
  BY DEF Widths
<1>2. q = Base * p /\ p \in Nat \ {0} /\ q \in Nat \ {0}
  BY <1>1, Powers
<1>3. c \in Nat /\ Base = 2 * c
  BY BaseAssumption, SMT
<1> HIDE DEF p, q, c
<1>4. q = 2 * (c * p) /\ c * p \in Nat
  BY <1>2, <1>3, SMT
<1>5. q \div 2 = c * p
  <2> DEFINE e == c * p
  <2>1. e \in Nat /\ q = 2 * e
    BY <1>4
  <2> HIDE DEF e
  <2> QED
    BY <2>1, SMT DEF e
<1> QED
  BY <1>2, <1>4, <1>5 DEF q

\* What n bytes keep of a number, read without a sign or with one.
Kept0(v, n, signed) == IF signed THEN Signed(v % Power[n], n) ELSE v % Power[n]

LEMMA SameModulo ==
    ASSUME NEW v \in Int, NEW q \in Nat \ {0}, NEW r \in Int, NEW k \in Int, r - v = q * k
    PROVE  (r - v) % q = 0
<1> DEFINE d == r - v
<1>1. d \in Int /\ d = q * k + 0 /\ 0 \in 0 .. q - 1
  <2>1. q * k \in Int
    OBVIOUS
  <2> QED
    BY <2>1
<1> HIDE DEF d
<1>2. d % q = 0
  BY <1>1, OnlyQuotient
<1> QED
  BY <1>2 DEF d

LEMMA KeptNumber ==
    ASSUME NEW v \in Int, NEW n \in 1 .. 8, NEW signed \in BOOLEAN
    PROVE  /\ Kept0(v, n, signed) \in Int
           /\ (Kept0(v, n, signed) - v) % Power[n] = 0
           /\ ~ signed /\ 0 <= v /\ v < Power[n] => Kept0(v, n, signed) = v
           /\ signed /\ -Half(n) <= v /\ v < Half(n) => Kept0(v, n, signed) = v
           /\ 0 <= v /\ v < Half(n) => Kept0(v, n, signed) = v
<1> DEFINE q == Power[n]
           c == q \div 2
           k == v \div q
           r == v % q
<1>1. q \in Nat \ {0} /\ c \in Nat /\ 2 * c = q
  BY Halves
<1> HIDE DEF q
<1>2. k \in Int /\ r \in 0 .. q - 1 /\ v = q * k + r
  BY <1>1, Divided
<1> HIDE DEF c, k, r
<1>3. Kept0(v, n, signed) = IF signed THEN (IF r < c THEN r ELSE r - q) ELSE r
  BY DEF Kept0, Signed, q, c, r
<1>4. Half(n) = c
  BY DEF Half, q, c
<1>5. q * k \in Int /\ q * (-k) = - (q * k) /\ q * (-k - 1) = - (q * k) - q
  BY <1>1, <1>2, SMT
<1>6. r - v = q * (-k) /\ (r - q) - v = q * (-k - 1)
  BY <1>1, <1>2, <1>5
<1>7. (r - v) % q = 0 /\ ((r - q) - v) % q = 0
  <2>1. (r - v) % q = 0
    BY <1>1, <1>2, <1>6, SameModulo
  <2> DEFINE w == r - q
  <2>2. w \in Int /\ w - v = q * (-k - 1) /\ -k - 1 \in Int
    BY <1>1, <1>2, <1>6
  <2> HIDE DEF w
  <2>3. (w - v) % q = 0
    BY <1>1, <2>2, SameModulo
  <2> QED
    BY <2>1, <2>3 DEF w
<1>8. ASSUME 0 <= v, v < q PROVE r = v
  <2>1. v = q * 0 + v /\ v \in 0 .. q - 1
    BY <1>1, <1>8
  <2> QED
    BY <1>1, <2>1, OnlyQuotient DEF r
<1>9. ASSUME -c <= v, v < 0 PROVE r = v + q
  <2>1. v = q * (-1) + (v + q) /\ v + q \in 0 .. q - 1
    <3>1. q * (-1) = -q
      BY <1>1, SMT
    <3> QED
      BY <1>1, <1>9, <3>1
  <2> QED
    BY <1>1, <2>1, OnlyQuotient DEF r
<1>10. Kept0(v, n, signed) \in Int
  BY <1>1, <1>2, <1>3
<1>11. (Kept0(v, n, signed) - v) % q = 0
  <2>1. Kept0(v, n, signed) = r \/ Kept0(v, n, signed) = r - q
    BY <1>3
  <2> QED
    BY <1>7, <2>1
<1>12. ~ signed /\ 0 <= v /\ v < q => Kept0(v, n, signed) = v
  BY <1>3, <1>8
<1>13. ASSUME 0 <= v, v < c PROVE Kept0(v, n, signed) = v
  <2>1. v < q
    BY <1>1, <1>13
  <2>2. r = v
    BY <1>8, <1>13, <2>1
  <2> QED
    BY <1>3, <1>13, <2>2
<1>14. ASSUME signed, -c <= v, v < c PROVE Kept0(v, n, signed) = v
  <2>1. CASE 0 <= v
    BY <1>13, <1>14, <2>1
  <2>2. CASE ~ (0 <= v)
    <3>1. r = v + q
      BY <1>9, <1>14, <2>2
    <3>2. ~ (r < c) /\ r - q = v
      BY <1>1, <1>14, <3>1
    <3>3. Kept0(v, n, signed) = r - q
      BY <1>3, <1>14, <3>2
    <3> QED
      BY <3>2, <3>3
  <2> QED
    BY <2>1, <2>2
<1> QED
  BY <1>4, <1>10, <1>11, <1>12, <1>13, <1>14 DEF q

---------------------------------------------------------------------------
(* Numbers and strings that an entry holds.                                *)

\* What the Get methods of numbers make of data that was made of vs.
LEMMA NumbersOf ==
    ASSUME NEW h, h.order \in Orders, NEW e, NEW vs \in Seq(Int), NEW n \in 1 .. 8, NEW signed \in BOOLEAN,
           ByteSize(e.type) = n, e.count = Len(vs), e.data = EncodedAll(h.order, vs, n)
    PROVE  Numbers(h, e, signed) = [i \in 1 .. Len(vs) |-> Kept0(vs[i], n, signed)]
<1> DEFINE o == h.order
           L == Len(vs)
<1>1. n \in Widths /\ o \in Orders /\ L \in Nat
  BY DEF Widths
<1>2. Len(e.data) = L * n /\ \A i \in 1 .. L : Nth(e.data, i, n) = Encoded(o, vs[i], n)
  BY <1>1, EncodedAllIs
<1>3. \A i \in 1 .. L : Decoded(o, Nth(e.data, i, n)) = vs[i] % Power[n]
  <2> SUFFICES ASSUME NEW i \in 1 .. L PROVE Decoded(o, Nth(e.data, i, n)) = vs[i] % Power[n]
    OBVIOUS
  <2>1. vs[i] \in Int
    OBVIOUS
  <2> QED
    BY <1>1, <1>2, <2>1, DecodedEncoded
<1>4. L * n \in Nat
  BY <1>1
<1>5. Whole(e)
  BY <1>2, <1>4 DEF Whole
<1> HIDE DEF o, L
<1>6. Numbers(h, e, signed) = [i \in 1 .. L |-> LET v == Decoded(o, Nth(e.data, i, n)) IN IF signed THEN Signed(v, n) ELSE v]
  BY <1>5 DEF Numbers, o, L
<1> QED
  BY <1>3, <1>6 DEF Kept0, L

LEMMA CutIs ==
    ASSUME NEW S, NEW s \in Seq(S)
    PROVE  \E n \in 0 .. Len(s) : /\ CutAtNul(s) = SubSeq(s, 1, n)
                                 /\ \A i \in 1 .. n : s[i] # 0
<1> DEFINE I == {i \in 1 .. Len(s) : s[i] = 0}
           m == CHOOSE i \in I : \A j \in I : i <= j
<1>1. Len(s) \in Nat
  OBVIOUS
<1>2. SelectInSeq(s, LAMBDA c : c = 0) = IF I # {} THEN m ELSE 0
  BY Zenon DEF SelectInSeq, Min
<1>3. CutAtNul(s) = IF SelectInSeq(s, LAMBDA c : c = 0) = 0 THEN s
                    ELSE SubSeq(s, 1, SelectInSeq(s, LAMBDA c : c = 0) - 1)
  BY Zenon DEF CutAtNul
<1>4. CASE I = {}
  <2>1. CutAtNul(s) = s
    BY <1>2, <1>3, <1>4
  <2>2. s = SubSeq(s, 1, Len(s))
    <3>1. SubSeq(s, 1, Len(s)) = [k \in 1 .. Len(s) |-> s[k]]
      <4>1. SubSeq(s, 1, Len(s)) = [k \in 1 .. Len(s) - 1 + 1 |-> s[1 + k - 1]]
        BY <1>1, SubSeqIs
      <4>2. Len(s) - 1 + 1 = Len(s) /\ \A k \in 1 .. Len(s) : 1 + k - 1 = k
        BY <1>1
      <4> QED
        BY <4>1, <4>2
    <3> QED
      BY <3>1
  <2>3. \A i \in 1 .. Len(s) : s[i] # 0
    BY <1>4
  <2> DEFINE L == Len(s)
  <2>4. CutAtNul(s) = SubSeq(s, 1, L) /\ L \in 0 .. L /\ \A i \in 1 .. L : s[i] # 0
    BY <1>1, <2>1, <2>2, <2>3
  <2> HIDE DEF I, m
  <2> QED
    BY <2>4
<1>5. CASE I # {}
  <2>1. I \in SUBSET Nat
    BY <1>1
  <2>2. m \in I /\ \A j \in I : m <= j
    BY <1>5, <2>1, Smallest
  <2>3. m \in 1 .. Len(s) /\ m # 0
    BY <1>1, <2>2
  <2>4. \A i \in 1 .. m - 1 : s[i] # 0
    BY <1>1, <2>2, <2>3
  <2> HIDE DEF m, I
  <2>5. CutAtNul(s) = SubSeq(s, 1, m - 1)
    BY <1>2, <1>3, <1>5, <2>3
  <2>6. m - 1 \in 0 .. Len(s)
    BY <1>1, <2>3
  <2> QED
    BY <2>4, <2>5, <2>6
<1> QED
  BY <1>4, <1>5

LEMMA CutBefore ==
    ASSUME NEW S, NEW s \in Seq(S), NEW n \in 0 .. Len(s), n < Len(s), s[n + 1] = 0, \A i \in 1 .. n : s[i] # 0
    PROVE  CutAtNul(s) = SubSeq(s, 1, n)
<1> DEFINE I == {i \in 1 .. Len(s) : s[i] = 0}
           m == CHOOSE i \in I : \A j \in I : i <= j
<1>1. Len(s) \in Nat
  OBVIOUS
<1>2. SelectInSeq(s, LAMBDA c : c = 0) = IF I # {} THEN m ELSE 0
  BY Zenon DEF SelectInSeq, Min
<1>3. CutAtNul(s) = IF SelectInSeq(s, LAMBDA c : c = 0) = 0 THEN s
                    ELSE SubSeq(s, 1, SelectInSeq(s, LAMBDA c : c = 0) - 1)
  BY Zenon DEF CutAtNul
<1>4. n + 1 \in I /\ \A j \in I : n + 1 <= j
  BY <1>1
<1>5. m \in I /\ \A j \in I : m <= j
  BY <1>4
<1>6. m = n + 1 /\ I # {} /\ m # 0 /\ m - 1 = n
  BY <1>1, <1>4, <1>5
<1> HIDE DEF m, I
<1> QED
  BY <1>2, <1>3, <1>6

\* A string with a NUL behind it is cut to the string.
LEMMA CutTwice ==
    ASSUME NEW S, 0 \in S, NEW s \in Seq(S)
    PROVE  /\ CutAtNul(s) \in Seq(S)
           /\ Append(CutAtNul(s), 0) \in Seq(S)
           /\ Len(Append(CutAtNul(s), 0)) = Len(CutAtNul(s)) + 1
           /\ CutAtNul(Append(CutAtNul(s), 0)) = CutAtNul(s)
<1> DEFINE t == CutAtNul(s)
           u == Append(t, 0)
<1>1. PICK n \in 0 .. Len(s) : t = SubSeq(s, 1, n) /\ \A i \in 1 .. n : s[i] # 0
  BY CutIs
<1>2. n \in Nat /\ n <= Len(s) /\ n - 1 + 1 = n
  OBVIOUS
<1>3. SubSeq(s, 1, n) \in Seq(S) /\ Len(SubSeq(s, 1, n)) = n - 1 + 1
  BY <1>2, SubSeqIs
<1>4. SubSeq(s, 1, n) = [k \in 1 .. n - 1 + 1 |-> s[1 + k - 1]]
  BY <1>2, SubSeqIs
<1>5. t \in Seq(S) /\ Len(t) = n
  BY <1>1, <1>2, <1>3
<1>6. \A k \in 1 .. n : t[k] # 0
  <2>1. \A k \in 1 .. n : 1 + k - 1 = k
    BY <1>2
  <2> QED
    BY <1>1, <1>2, <1>4, <2>1
<1> HIDE DEF t
<1>7. u \in Seq(S) /\ Len(u) = n + 1 /\ u[n + 1] = 0 /\ \A k \in 1 .. n : u[k] = t[k]
  BY <1>2, <1>5, AppendProperties
<1> HIDE DEF u
<1>8. CutAtNul(u) = SubSeq(u, 1, n)
  <2>1. n \in 0 .. Len(u) /\ n < Len(u)
    BY <1>2, <1>7
  <2>2. \A k \in 1 .. n : u[k] # 0
    BY <1>6, <1>7
  <2> QED
    BY <1>7, <2>1, <2>2, CutBefore
<1>9. SubSeq(u, 1, n) = t
  <2>1. SubSeq(u, 1, n) = [k \in 1 .. n - 1 + 1 |-> u[1 + k - 1]]
    BY <1>2, <1>7, SubSeqIs
  <2>2. \A k \in 1 .. n : u[1 + k - 1] = t[k]
    BY <1>2, <1>7
  <2>3. t = [k \in 1 .. n |-> t[k]]
    BY <1>5
  <2> QED
    BY <1>2, <2>1, <2>2, <2>3
<1> QED
  BY <1>2, <1>5, <1>7, <1>8, <1>9 DEF u, t

---------------------------------------------------------------------------
(* The table of getters.                                                   *)

RowsOf(part, n) == {part[k] : k \in 1 .. n}

LEMMA SeqWider ==
    ASSUME NEW S, NEW T, S \subseteq T, NEW s \in Seq(S)
    PROVE  s \in Seq(T)
<1>1. Len(s) \in Nat /\ s \in [1 .. Len(s) -> S]
  OBVIOUS
<1>2. s \in [1 .. Len(s) -> T]
  BY <1>1
<1> QED
  BY <1>1, <1>2

\* u is s and then t.
Then(u, s, t) ==
    /\ Len(u) = Len(s) + Len(t)
    /\ \A k \in 1 .. Len(s) : u[k] = s[k]
    /\ \A k \in 1 .. Len(t) : u[Len(s) + k] = t[k]

LEMMA ThenIs ==
    ASSUME NEW S, NEW s \in Seq(S), NEW t \in Seq(S), NEW u, u = s \o t
    PROVE  u \in Seq(S) /\ Then(u, s, t)
<1>1. u \in Seq(S) /\ Len(u) = Len(s) + Len(t)
  BY Joined
<1>2. \A k \in 1 .. Len(s) : u[k] = s[k]
  BY Joined
<1>3. \A k \in 1 .. Len(t) : u[Len(s) + k] = t[k]
  BY Joined
<1> QED
  BY <1>1, <1>2, <1>3 DEF Then

LEMMA Parts ==
    /\ BaselineGetters \in Seq(RowsOf(BaselineGetters, 11)) /\ Len(BaselineGetters) = 11
    /\ StripGetters \in Seq(RowsOf(StripGetters, 13)) /\ Len(StripGetters) = 13
    /\ PageGetters \in Seq(RowsOf(PageGetters, 12)) /\ Len(PageGetters) = 12
    /\ DocumentGetters \in Seq(RowsOf(DocumentGetters, 12)) /\ Len(DocumentGetters) = 12
    /\ TileGetters \in Seq(RowsOf(TileGetters, 14)) /\ Len(TileGetters) = 14
    /\ JPEGGetters \in Seq(RowsOf(JPEGGetters, 14)) /\ Len(JPEGGetters) = 14
    /\ GeoGetters \in Seq(RowsOf(GeoGetters, 9)) /\ Len(GeoGetters) = 9
<1>1. BaselineGetters \in Seq(RowsOf(BaselineGetters, 11)) /\ Len(BaselineGetters) = 11
  BY DEF RowsOf, BaselineGetters
<1>2. StripGetters \in Seq(RowsOf(StripGetters, 13)) /\ Len(StripGetters) = 13
  BY DEF RowsOf, StripGetters
<1>3. PageGetters \in Seq(RowsOf(PageGetters, 12)) /\ Len(PageGetters) = 12
  BY DEF RowsOf, PageGetters
<1>4. DocumentGetters \in Seq(RowsOf(DocumentGetters, 12)) /\ Len(DocumentGetters) = 12
  BY DEF RowsOf, DocumentGetters
<1>5. TileGetters \in Seq(RowsOf(TileGetters, 14)) /\ Len(TileGetters) = 14
  BY DEF RowsOf, TileGetters
<1>6. JPEGGetters \in Seq(RowsOf(JPEGGetters, 14)) /\ Len(JPEGGetters) = 14
  BY DEF RowsOf, JPEGGetters
<1>7. GeoGetters \in Seq(RowsOf(GeoGetters, 9)) /\ Len(GeoGetters) = 9
  BY DEF RowsOf, GeoGetters
<1> QED
  BY <1>1, <1>2, <1>3, <1>4, <1>5, <1>6, <1>7

\* The table, part by part.
LEMMA Table ==
    /\ Len(Getters) = 85 /\ DOMAIN Getters = 1 .. 85
    /\ \A k \in 1 .. 11 : Getters[k] = BaselineGetters[k]
    /\ \A k \in 1 .. 13 : Getters[11 + k] = StripGetters[k]
    /\ \A k \in 1 .. 12 : Getters[24 + k] = PageGetters[k]
    /\ \A k \in 1 .. 12 : Getters[36 + k] = DocumentGetters[k]
    /\ \A k \in 1 .. 14 : Getters[48 + k] = TileGetters[k]
    /\ \A k \in 1 .. 14 : Getters[62 + k] = JPEGGetters[k]
    /\ \A k \in 1 .. 9 : Getters[76 + k] = GeoGetters[k]
<1> DEFINE U == RowsOf(BaselineGetters, 11)
                \cup RowsOf(StripGetters, 13)
                \cup RowsOf(PageGetters, 12)
                \cup RowsOf(DocumentGetters, 12)
                \cup RowsOf(TileGetters, 14)
                \cup RowsOf(JPEGGetters, 14)
                \cup RowsOf(GeoGetters, 9)
           p1 == BaselineGetters
           p2 == StripGetters
           p3 == PageGetters
           p4 == DocumentGetters
           p5 == TileGetters
           p6 == JPEGGetters
           p7 == GeoGetters
           g1 == p1
           g2 == g1 \o p2
           g3 == g2 \o p3
           g4 == g3 \o p4
           g5 == g4 \o p5
           g6 == g5 \o p6
           g7 == g6 \o p7
<1>1. p1 \in Seq(U) /\ Len(p1) = 11
  <2>1. RowsOf(BaselineGetters, 11) \subseteq U
    OBVIOUS
  <2> HIDE DEF U
  <2> QED
    BY <2>1, Parts, SeqWider
<1>2. p2 \in Seq(U) /\ Len(p2) = 13
  <2>1. RowsOf(StripGetters, 13) \subseteq U
    OBVIOUS
  <2> HIDE DEF U
  <2> QED
    BY <2>1, Parts, SeqWider
<1>3. p3 \in Seq(U) /\ Len(p3) = 12
  <2>1. RowsOf(PageGetters, 12) \subseteq U
    OBVIOUS
  <2> HIDE DEF U
  <2> QED
    BY <2>1, Parts, SeqWider
<1>4. p4 \in Seq(U) /\ Len(p4) = 12
  <2>1. RowsOf(DocumentGetters, 12) \subseteq U
    OBVIOUS
  <2> HIDE DEF U
  <2> QED
    BY <2>1, Parts, SeqWider
<1>5. p5 \in Seq(U) /\ Len(p5) = 14
  <2>1. RowsOf(TileGetters, 14) \subseteq U
    OBVIOUS
  <2> HIDE DEF U
  <2> QED
    BY <2>1, Parts, SeqWider
<1>6. p6 \in Seq(U) /\ Len(p6) = 14
  <2>1. RowsOf(JPEGGetters, 14) \subseteq U
    OBVIOUS
  <2> HIDE DEF U
  <2> QED
    BY <2>1, Parts, SeqWider
<1>7. p7 \in Seq(U) /\ Len(p7) = 9
  <2>1. RowsOf(GeoGetters, 9) \subseteq U
    OBVIOUS
  <2> HIDE DEF U
  <2> QED
    BY <2>1, Parts, SeqWider
<1>8. Getters = g7
  BY DEF Getters
<1> HIDE DEF U, p1, p2, p3, p4, p5, p6, p7
<1>9. /\ g2 \in Seq(U) /\ Len(g2) = 24
      /\ \A k \in 1 .. 11 : g2[k] = g1[k]
      /\ \A k \in 1 .. 13 : g2[11 + k] = p2[k]
  <2>1. g2 = g1 \o p2 /\ g1 \in Seq(U) /\ p2 \in Seq(U)
    BY <1>1, <1>2
  <2>2. Len(g1) = 11 /\ Len(p2) = 13
    BY <1>1, <1>2
  <2> HIDE DEF g1
  <2> HIDE DEF g2
  <2>3. g2 \in Seq(U) /\ Then(g2, g1, p2)
    BY <2>1, ThenIs
  <2> QED
    BY <2>2, <2>3 DEF Then
<1> HIDE DEF g2
<1>10. /\ g3 \in Seq(U) /\ Len(g3) = 36
       /\ \A k \in 1 .. 24 : g3[k] = g2[k]
       /\ \A k \in 1 .. 12 : g3[24 + k] = p3[k]
  <2>1. g3 = g2 \o p3 /\ g2 \in Seq(U) /\ p3 \in Seq(U)
    BY <1>9, <1>3
  <2>2. Len(g2) = 24 /\ Len(p3) = 12
    BY <1>9, <1>3
  <2> HIDE DEF g3
  <2>3. g3 \in Seq(U) /\ Then(g3, g2, p3)
    BY <2>1, ThenIs
  <2> QED
    BY <2>2, <2>3 DEF Then
<1> HIDE DEF g3
<1>11. /\ g4 \in Seq(U) /\ Len(g4) = 48
       /\ \A k \in 1 .. 36 : g4[k] = g3[k]
       /\ \A k \in 1 .. 12 : g4[36 + k] = p4[k]
  <2>1. g4 = g3 \o p4 /\ g3 \in Seq(U) /\ p4 \in Seq(U)
    BY <1>10, <1>4
  <2>2. Len(g3) = 36 /\ Len(p4) = 12
    BY <1>10, <1>4
  <2> HIDE DEF g4
  <2>3. g4 \in Seq(U) /\ Then(g4, g3, p4)
    BY <2>1, ThenIs
  <2> QED
    BY <2>2, <2>3 DEF Then
<1> HIDE DEF g4
<1>12. /\ g5 \in Seq(U) /\ Len(g5) = 62
       /\ \A k \in 1 .. 48 : g5[k] = g4[k]
       /\ \A k \in 1 .. 14 : g5[48 + k] = p5[k]
  <2>1. g5 = g4 \o p5 /\ g4 \in Seq(U) /\ p5 \in Seq(U)
    BY <1>11, <1>5
  <2>2. Len(g4) = 48 /\ Len(p5) = 14
    BY <1>11, <1>5
  <2> HIDE DEF g5
  <2>3. g5 \in Seq(U) /\ Then(g5, g4, p5)
    BY <2>1, ThenIs
  <2> QED
    BY <2>2, <2>3 DEF Then
<1> HIDE DEF g5
<1>13. /\ g6 \in Seq(U) /\ Len(g6) = 76
       /\ \A k \in 1 .. 62 : g6[k] = g5[k]
       /\ \A k \in 1 .. 14 : g6[62 + k] = p6[k]
  <2>1. g6 = g5 \o p6 /\ g5 \in Seq(U) /\ p6 \in Seq(U)
    BY <1>12, <1>6
  <2>2. Len(g5) = 62 /\ Len(p6) = 14
    BY <1>12, <1>6
  <2> HIDE DEF g6
  <2>3. g6 \in Seq(U) /\ Then(g6, g5, p6)
    BY <2>1, ThenIs
  <2> QED
    BY <2>2, <2>3 DEF Then
<1> HIDE DEF g6
<1>14. /\ g7 \in Seq(U) /\ Len(g7) = 85
       /\ \A k \in 1 .. 76 : g7[k] = g6[k]
       /\ \A k \in 1 .. 9 : g7[76 + k] = p7[k]
  <2>1. g7 = g6 \o p7 /\ g6 \in Seq(U) /\ p7 \in Seq(U)
    BY <1>13, <1>7
  <2>2. Len(g6) = 76 /\ Len(p7) = 9
    BY <1>13, <1>7
  <2> HIDE DEF g7
  <2>3. g7 \in Seq(U) /\ Then(g7, g6, p7)
    BY <2>1, ThenIs
  <2> QED
    BY <2>2, <2>3 DEF Then
<1> HIDE DEF g7
<1>15. Len(Getters) = 85 /\ DOMAIN Getters = 1 .. 85
  BY <1>8, <1>14
<1>16. ASSUME NEW k \in 1 .. 76 PROVE Getters[k] = g6[k]
  <2>1. k \in 1 .. 85
    OBVIOUS
  <2> QED
    BY <1>8, <1>14, <2>1
<1>17. ASSUME NEW k \in 1 .. 62 PROVE Getters[k] = g5[k]
  <2>1. k \in 1 .. 76
    OBVIOUS
  <2> QED
    BY <1>16, <1>13, <2>1
<1>18. ASSUME NEW k \in 1 .. 48 PROVE Getters[k] = g4[k]
  <2>1. k \in 1 .. 62
    OBVIOUS
  <2> QED
    BY <1>17, <1>12, <2>1
<1>19. ASSUME NEW k \in 1 .. 36 PROVE Getters[k] = g3[k]
  <2>1. k \in 1 .. 48
    OBVIOUS
  <2> QED
    BY <1>18, <1>11, <2>1
<1>20. ASSUME NEW k \in 1 .. 24 PROVE Getters[k] = g2[k]
  <2>1. k \in 1 .. 36
    OBVIOUS
  <2> QED
    BY <1>19, <1>10, <2>1
<1>21. ASSUME NEW k \in 1 .. 11 PROVE Getters[k] = g1[k]
  <2>1. k \in 1 .. 24
    OBVIOUS
  <2> QED
    BY <1>20, <1>9, <2>1
<1>22. ASSUME NEW k \in 1 .. 11 PROVE Getters[k] = BaselineGetters[k]
  BY <1>21 DEF g1, p1
<1>23. ASSUME NEW k \in 1 .. 13 PROVE Getters[11 + k] = StripGetters[k]
  <2>1. 11 + k \in 1 .. 24
    OBVIOUS
  <2>2. Getters[11 + k] = g2[11 + k]
    BY <1>20, <2>1
  <2> QED
    BY <1>9, <2>2 DEF p2
<1>24. ASSUME NEW k \in 1 .. 12 PROVE Getters[24 + k] = PageGetters[k]
  <2>1. 24 + k \in 1 .. 36
    OBVIOUS
  <2>2. Getters[24 + k] = g3[24 + k]
    BY <1>19, <2>1
  <2> QED
    BY <1>10, <2>2 DEF p3
<1>25. ASSUME NEW k \in 1 .. 12 PROVE Getters[36 + k] = DocumentGetters[k]
  <2>1. 36 + k \in 1 .. 48
    OBVIOUS
  <2>2. Getters[36 + k] = g4[36 + k]
    BY <1>18, <2>1
  <2> QED
    BY <1>11, <2>2 DEF p4
<1>26. ASSUME NEW k \in 1 .. 14 PROVE Getters[48 + k] = TileGetters[k]
  <2>1. 48 + k \in 1 .. 62
    OBVIOUS
  <2>2. Getters[48 + k] = g5[48 + k]
    BY <1>17, <2>1
  <2> QED
    BY <1>12, <2>2 DEF p5
<1>27. ASSUME NEW k \in 1 .. 14 PROVE Getters[62 + k] = JPEGGetters[k]
  <2>1. 62 + k \in 1 .. 76
    OBVIOUS
  <2>2. Getters[62 + k] = g6[62 + k]
    BY <1>16, <2>1
  <2> QED
    BY <1>13, <2>2 DEF p6
<1>28. ASSUME NEW k \in 1 .. 9 PROVE Getters[76 + k] = GeoGetters[k]
  BY <1>8, <1>14 DEF p7
<1> QED
  BY <1>15, <1>22, <1>23, <1>24, <1>25, <1>26, <1>27, <1>28

\* A tag and its row.
LEMMA RowIs ==
    ASSUME NEW tag \in Tags
    PROVE  Row(tag) \in 1 .. 85 /\ Getters[Row(tag)][1] = tag
<1>1. \E k \in DOMAIN Getters : Getters[k][1] = tag
  BY DEF Tags
<1>2. Row(tag) \in DOMAIN Getters /\ Getters[Row(tag)][1] = tag
  BY <1>1 DEF Row
<1> QED
  BY <1>2, Table

---------------------------------------------------------------------------
(* The entry.                                                              *)

Types == DOMAIN TypeCode

LEMMA TypesAre ==
    /\ Types = { "Nil", "Byte", "ASCII", "Short", "Long", "Rational", "SByte", "Undefined", "SShort",
                 "SLong", "SRational", "Float", "Double", "IFD", "Long8", "SLong8", "IFD8" }
    /\ DataTypes = Types \ {"Nil"}
  BY DEF Types, TypeCode, DataTypes

LEMMA Sizes ==
    /\ \A t \in DataTypes : ByteSize(t) \in {1, 2, 4, 8} /\ ByteSize(t) \in 1 .. 8 /\ ByteSize(t) \in Widths
    /\ ByteSize("Nil") = 0 /\ ByteSize("ASCII") = 1 /\ ByteSize("Undefined") = 1
    /\ ByteSize("Rational") = 8 /\ ByteSize("SRational") = 8
    /\ IntTypes \cup {"Float", "Double", "Rational", "SRational", "ASCII", "Undefined"} = DataTypes
<1>1. \A t \in DataTypes : ByteSize(t) \in {1, 2, 4, 8}
  BY TypesAre DEF ByteSize
<1>2. \A t \in DataTypes : ByteSize(t) \in 1 .. 8 /\ ByteSize(t) \in Widths
  BY <1>1 DEF Widths
<1>3. /\ ByteSize("Nil") = 0 /\ ByteSize("ASCII") = 1 /\ ByteSize("Undefined") = 1
      /\ ByteSize("Rational") = 8 /\ ByteSize("SRational") = 8
  BY DEF ByteSize
<1>4. IntTypes \cup {"Float", "Double", "Rational", "SRational", "ASCII", "Undefined"} = DataTypes
  BY TypesAre DEF IntTypes, ReadSigned
<1> QED
  BY <1>1, <1>2, <1>3, <1>4

Headers == [order : Orders, big : BOOLEAN]

EntriesSet == [tag : 1 .. 85, type : Types, count : Nat, offset : Nat, data : Seq(Bytes)]

\* What the last call that the entry's type lets through has left in the entry.
Filled(h, e, g) ==
    \/ /\ g.kind = "none" /\ e.data = <<>> /\ e.count = 0
    \/ /\ g.kind = "ints" /\ e.type \in IntTypes /\ g.values \in Seq(Int)
       /\ e.data = EncodedAll(h.order, g.values, ByteSize(e.type)) /\ e.count = Len(g.values)
    \/ /\ g.kind = "floats" /\ e.type \in {"Float", "Double"} /\ g.values \in Seq(Int)
       /\ e.data = EncodedAll(h.order, g.values, ByteSize(e.type)) /\ e.count = Len(g.values)
    \/ /\ g.kind = "rationals" /\ e.type \in {"Rational", "SRational"}
       /\ \E vs \in Seq(Int) : g.values = Pairs(vs) /\ e.count = Len(vs)
       /\ e.data = EncodedAll(h.order, FlattenSeq(g.values), 4)
    \/ /\ g.kind = "string" /\ e.type = "ASCII" /\ g.values \in Seq(Bytes)
       /\ e.data = Append(CutAtNul(g.values), 0) /\ e.count = Len(e.data) + 1
    \/ /\ g.kind = "undefined" /\ e.type = "Undefined" /\ g.values \in Seq(Bytes)
       /\ e.data = g.values /\ e.count = Len(e.data)

\* The type invariant of the entry, and what it holds.
EntryInv == hdr \in Headers /\ entry \in EntriesSet /\ Filled(hdr, entry, given)

\* What a call of a Set method of some kind makes of an entry.
Sets(h, e, kind, vs, f) ==
    /\ f \in EntriesSet /\ f.tag = e.tag
    /\ e.type \in Takes(kind) \cup {"Nil"} => Filled(h, f, [kind |-> kind, values |-> vs])
    /\ e.type \notin Takes(kind) \cup {"Nil"} => f = e

LEMMA TypedIs ==
    ASSUME NEW e \in EntriesSet, NEW t \in Types
    PROVE  /\ Typed(e, t) \in EntriesSet /\ Typed(e, t).tag = e.tag
           /\ e.type = "Nil" => Typed(e, t).type = t
           /\ e.type # "Nil" => Typed(e, t) = e
  BY DEF EntriesSet, Typed

LEMMA HoldingIs ==
    ASSUME NEW e \in EntriesSet, NEW data \in Seq(Bytes), NEW n \in Nat
    PROVE  /\ Holding(e, data, n) \in EntriesSet /\ Holding(e, data, n).tag = e.tag
           /\ Holding(e, data, n).type = e.type /\ Holding(e, data, n).count = n
           /\ Holding(e, data, n).data = data
  BY DEF EntriesSet, Holding

LEMMA PairsAre ==
    ASSUME NEW vs \in Seq(Int)
    PROVE  /\ Pairs(vs) \in Seq(Seq(Int)) /\ Len(Pairs(vs)) = Len(vs)
           /\ \A i \in 1 .. Len(vs) : Len(Pairs(vs)[i]) = 2 /\ Pairs(vs)[i][1] = vs[i] /\ Pairs(vs)[i][2] = i
           /\ FlattenSeq(Pairs(vs)) \in Seq(Int) /\ Len(FlattenSeq(Pairs(vs))) = Len(vs) * 2
           /\ \A i \in 1 .. Len(vs) : \A k \in {1, 2} : FlattenSeq(Pairs(vs))[(i - 1) * 2 + k] = Pairs(vs)[i][k]
<1> DEFINE ps == Pairs(vs)
           u == FlattenSeq(ps)
<1>1. Len(vs) \in Nat /\ DOMAIN vs = 1 .. Len(vs) /\ \A i \in 1 .. Len(vs) : vs[i] \in Int
  OBVIOUS
<1>2. ps = [i \in 1 .. Len(vs) |-> <<vs[i], i>>]
  BY <1>1 DEF Pairs
<1> HIDE DEF ps
<1>3. \A i \in 1 .. Len(vs) : <<vs[i], i>> \in Seq(Int) /\ Len(<<vs[i], i>>) = 2
  BY <1>1
<1>4. ps \in [1 .. Len(vs) -> Seq(Int)]
  BY <1>2, <1>3
<1>5. ps \in Seq(Seq(Int)) /\ Len(ps) = Len(vs)
  BY <1>1, <1>4
<1>6. \A i \in 1 .. Len(vs) : Len(ps[i]) = 2 /\ ps[i][1] = vs[i] /\ ps[i][2] = i
  BY <1>2
<1> DEFINE n == 2
<1>7. n \in Nat /\ \A i \in 1 .. Len(ps) : Len(ps[i]) = n
  BY <1>5, <1>6
<1> HIDE DEF n
<1>8. u \in Seq(Int) /\ Even(u, ps, n, Len(ps))
  BY <1>5, <1>7, FlattenEven
<1> HIDE DEF u
<1>9. Len(u) = Len(vs) * 2 /\ \A i \in 1 .. Len(vs) : \A k \in 1 .. 2 : u[(i - 1) * 2 + k] = ps[i][k]
  BY <1>5, <1>8 DEF Even, n
<1>10. 1 \in 1 .. 2 /\ 2 \in 1 .. 2
  OBVIOUS
<1> QED
  BY <1>5, <1>6, <1>8, <1>9, <1>10 DEF ps, u

LEMMA SetIntsIs ==
    ASSUME NEW h \in Headers, NEW e \in EntriesSet, NEW vs \in Seq(Int)
    PROVE  Sets(h, e, "ints", vs, SetInts(h, e, vs))
<1> DEFINE def == IF h.big THEN "Long8" ELSE "Long"
           t == Typed(e, def)
           data == EncodedAll(h.order, vs, ByteSize(t.type))
           f == Holding(t, data, Len(vs))
<1>1. def \in Types /\ def \in IntTypes
  BY TypesAre DEF IntTypes, ReadSigned
<1>2. SetInts(h, e, vs) = IF t.type \in IntTypes THEN f ELSE t
  BY DEF SetInts
<1>3. Takes("ints") = IntTypes /\ "Nil" \notin IntTypes
  BY DEF Takes, IntTypes, ReadSigned
<1> HIDE DEF def
<1>4. /\ t \in EntriesSet /\ t.tag = e.tag /\ (e.type = "Nil" => t.type = def) /\ (e.type # "Nil" => t = e)
  BY <1>1, TypedIs
<1> HIDE DEF t
<1>5. CASE t.type \in IntTypes
  <2>1. ByteSize(t.type) \in Widths /\ h.order \in Orders
    BY <1>5, Sizes DEF Headers
  <2>2. data \in Seq(Bytes) /\ Len(vs) \in Nat
    BY <2>1, EncodedAllIs
  <2>3. /\ f \in EntriesSet /\ f.tag = t.tag /\ f.type = t.type /\ f.count = Len(vs) /\ f.data = data
    <3> HIDE DEF data
    <3> QED
      BY <1>4, <2>2, HoldingIs
  <2> HIDE DEF f
  <2>4. Filled(h, f, [kind |-> "ints", values |-> vs])
    BY <1>5, <2>3 DEF Filled
  <2>5. e.type \in Takes("ints") \cup {"Nil"}
    BY <1>3, <1>4, <1>5
  <2> QED
    BY <1>2, <1>4, <1>5, <2>3, <2>4, <2>5 DEF Sets
<1>6. CASE t.type \notin IntTypes
  <2>1. e.type \notin Takes("ints") \cup {"Nil"} /\ t = e
    BY <1>1, <1>3, <1>4, <1>6
  <2> QED
    BY <1>2, <1>4, <1>6, <2>1 DEF Sets
<1> QED
  BY <1>5, <1>6

---------------------------------------------------------------------------
(* The calls of the Set methods.                                           *)

LEMMA SetFloatsIs ==
    ASSUME NEW h \in Headers, NEW e \in EntriesSet, NEW vs \in Seq(Int)
    PROVE  Sets(h, e, "floats", vs, SetFloats(h, e, vs))
<1> DEFINE t == Typed(e, "Double")
           bytes == EncodedAll(h.order, vs, ByteSize(t.type))
           number == Len(vs)
           f == Holding(t, bytes, number)
<1>1. "Double" \in Types /\ "Double" \in {"Float", "Double"}
  BY TypesAre
<1>2. SetFloats(h, e, vs) = IF t.type \in {"Float", "Double"} THEN f ELSE t
  BY DEF SetFloats
<1>3. Takes("floats") = {"Float", "Double"} /\ "Nil" \notin {"Float", "Double"}
  BY DEF Takes
<1>4. /\ t \in EntriesSet /\ t.tag = e.tag /\ (e.type = "Nil" => t.type = "Double") /\ (e.type # "Nil" => t = e)
  BY <1>1, TypedIs
<1> HIDE DEF t
<1>5. CASE t.type \in {"Float", "Double"}
  <2>1. ByteSize(t.type) \in Widths /\ h.order \in Orders
    BY <1>5, Sizes DEF Headers
  <2>2. bytes \in Seq(Bytes) /\ number \in Nat
    BY <2>1, EncodedAllIs
  <2>3. /\ f \in EntriesSet /\ f.tag = t.tag /\ f.type = t.type /\ f.count = number /\ f.data = bytes
    <3> HIDE DEF bytes, number
    <3> QED
      BY <1>4, <2>2 DEF EntriesSet, Holding
  <2> HIDE DEF f
  <2>4. Filled(h, f, [kind |-> "floats", values |-> vs])
    BY <1>5, <2>3 DEF Filled
  <2>5. e.type \in Takes("floats") \cup {"Nil"}
    BY <1>3, <1>4, <1>5
  <2> QED
    BY <1>2, <1>4, <1>5, <2>3, <2>4, <2>5 DEF Sets
<1>6. CASE t.type \notin {"Float", "Double"}
  <2>1. e.type \notin Takes("floats") \cup {"Nil"} /\ t = e
    BY <1>1, <1>3, <1>4, <1>6
  <2> QED
    BY <1>2, <1>4, <1>6, <2>1 DEF Sets
<1> QED
  BY <1>5, <1>6

LEMMA SetRationalsIs ==
    ASSUME NEW h \in Headers, NEW e \in EntriesSet, NEW vs \in Seq(Int)
    PROVE  Sets(h, e, "rationals", Pairs(vs), SetRationals(h, e, Pairs(vs)))
<1> DEFINE t == Typed(e, "Rational")
           bytes == EncodedAll(h.order, FlattenSeq(Pairs(vs)), 4)
           number == Len(Pairs(vs))
           f == Holding(t, bytes, number)
<1>1. "Rational" \in Types /\ "Rational" \in {"Rational", "SRational"}
  BY TypesAre
<1>2. SetRationals(h, e, Pairs(vs)) = IF t.type \in {"Rational", "SRational"} THEN f ELSE t
  BY DEF SetRationals
<1>3. Takes("rationals") = {"Rational", "SRational"} /\ "Nil" \notin {"Rational", "SRational"}
  BY DEF Takes
<1>4. /\ t \in EntriesSet /\ t.tag = e.tag /\ (e.type = "Nil" => t.type = "Rational") /\ (e.type # "Nil" => t = e)
  BY <1>1, TypedIs
<1> HIDE DEF t
<1>5. CASE t.type \in {"Rational", "SRational"}
  <2>1. ByteSize(t.type) \in Widths /\ h.order \in Orders
    BY <1>5, Sizes DEF Headers
  <2>2. bytes \in Seq(Bytes) /\ number \in Nat
    <3>1. FlattenSeq(Pairs(vs)) \in Seq(Int) /\ Len(Pairs(vs)) = Len(vs) /\ 4 \in Widths
      BY PairsAre DEF Widths
    <3> QED
      BY <2>1, <3>1, EncodedAllIs
  <2>3. /\ f \in EntriesSet /\ f.tag = t.tag /\ f.type = t.type /\ f.count = number /\ f.data = bytes
    <3> HIDE DEF bytes, number
    <3> QED
      BY <1>4, <2>2 DEF EntriesSet, Holding
  <2> HIDE DEF f
  <2>4. Filled(h, f, [kind |-> "rationals", values |-> Pairs(vs)])
    BY <1>5, <2>3, PairsAre DEF Filled
  <2>5. e.type \in Takes("rationals") \cup {"Nil"}
    BY <1>3, <1>4, <1>5
  <2> QED
    BY <1>2, <1>4, <1>5, <2>3, <2>4, <2>5 DEF Sets
<1>6. CASE t.type \notin {"Rational", "SRational"}
  <2>1. e.type \notin Takes("rationals") \cup {"Nil"} /\ t = e
    BY <1>1, <1>3, <1>4, <1>6
  <2> QED
    BY <1>2, <1>4, <1>6, <2>1 DEF Sets
<1> QED
  BY <1>5, <1>6

LEMMA SetStringIs ==
    ASSUME NEW h \in Headers, NEW e \in EntriesSet, NEW vs \in Seq(Bytes)
    PROVE  Sets(h, e, "string", vs, SetString(e, vs))
<1> DEFINE t == Typed(e, "ASCII")
           bytes == Append(CutAtNul(vs), 0)
           number == Len(bytes) + 1
           f == Holding(t, bytes, number)
<1>1. "ASCII" \in Types /\ "ASCII" \in {"ASCII"}
  BY TypesAre
<1>2. SetString(e, vs) = IF t.type = "ASCII" THEN f ELSE t
  BY DEF SetString
<1>3. Takes("string") = {"ASCII"} /\ "Nil" \notin {"ASCII"}
  BY DEF Takes
<1>4. /\ t \in EntriesSet /\ t.tag = e.tag /\ (e.type = "Nil" => t.type = "ASCII") /\ (e.type # "Nil" => t = e)
  BY <1>1, TypedIs
<1> HIDE DEF t
<1>5. CASE t.type \in {"ASCII"}
  <2>1. ByteSize(t.type) \in Widths /\ h.order \in Orders
    BY <1>5, Sizes DEF Headers
  <2>2. bytes \in Seq(Bytes) /\ number \in Nat
    <3>1. 0 \in Bytes
      BY BaseIs DEF Bytes
    <3>2. bytes \in Seq(Bytes)
      BY <3>1, CutTwice
    <3> QED
      BY <3>2
  <2>3. /\ f \in EntriesSet /\ f.tag = t.tag /\ f.type = t.type /\ f.count = number /\ f.data = bytes
    <3> HIDE DEF bytes, number
    <3> QED
      BY <1>4, <2>2 DEF EntriesSet, Holding
  <2> HIDE DEF f
  <2>4. Filled(h, f, [kind |-> "string", values |-> vs])
    BY <1>5, <2>3 DEF Filled
  <2>5. e.type \in Takes("string") \cup {"Nil"}
    BY <1>3, <1>4, <1>5
  <2> QED
    BY <1>2, <1>4, <1>5, <2>3, <2>4, <2>5 DEF Sets
<1>6. CASE t.type \notin {"ASCII"}
  <2>1. e.type \notin Takes("string") \cup {"Nil"} /\ t = e
    BY <1>1, <1>3, <1>4, <1>6
  <2> QED
    BY <1>2, <1>4, <1>6, <2>1 DEF Sets
<1> QED
  BY <1>5, <1>6

LEMMA SetUndefinedIs ==
    ASSUME NEW h \in Headers, NEW e \in EntriesSet, NEW vs \in Seq(Bytes)
    PROVE  Sets(h, e, "undefined", vs, SetUndefined(e, vs))
<1> DEFINE t == Typed(e, "Undefined")
           bytes == vs
           number == Len(vs)
           f == Holding(t, bytes, number)
<1>1. "Undefined" \in Types /\ "Undefined" \in {"Undefined"}
  BY TypesAre
<1>2. SetUndefined(e, vs) = IF t.type = "Undefined" THEN f ELSE t
  BY DEF SetUndefined
<1>3. Takes("undefined") = {"Undefined"} /\ "Nil" \notin {"Undefined"}
  BY DEF Takes
<1>4. /\ t \in EntriesSet /\ t.tag = e.tag /\ (e.type = "Nil" => t.type = "Undefined") /\ (e.type # "Nil" => t = e)
  BY <1>1, TypedIs
<1> HIDE DEF t
<1>5. CASE t.type \in {"Undefined"}
  <2>1. ByteSize(t.type) \in Widths /\ h.order \in Orders
    BY <1>5, Sizes DEF Headers
  <2>2. bytes \in Seq(Bytes) /\ number \in Nat
    OBVIOUS
  <2>3. /\ f \in EntriesSet /\ f.tag = t.tag /\ f.type = t.type /\ f.count = number /\ f.data = bytes
    <3> HIDE DEF bytes, number
    <3> QED
      BY <1>4, <2>2 DEF EntriesSet, Holding
  <2> HIDE DEF f
  <2>4. Filled(h, f, [kind |-> "undefined", values |-> vs])
    BY <1>5, <2>3 DEF Filled
  <2>5. e.type \in Takes("undefined") \cup {"Nil"}
    BY <1>3, <1>4, <1>5
  <2> QED
    BY <1>2, <1>4, <1>5, <2>3, <2>4, <2>5 DEF Sets
<1>6. CASE t.type \notin {"Undefined"}
  <2>1. e.type \notin Takes("undefined") \cup {"Nil"} /\ t = e
    BY <1>1, <1>3, <1>4, <1>6
  <2> QED
    BY <1>2, <1>4, <1>6, <2>1 DEF Sets
<1> QED
  BY <1>5, <1>6

\* The lists, strings and bytes that the calls are made with.
LEMMA Arguments ==
    /\ IntLists \subseteq Seq(Int) /\ Strings \subseteq Seq(Bytes)
    /\ hdr \in Headers => \A n \in {Word(hdr) - 1, Word(hdr), 19} : Letters(n) \in Seq(Bytes)
<1>1. \A n \in Nat : Counted(n) \in Seq(Int)
  BY DEF Counted
<1>2. Nums(TagOf(entry)) \in Nat
  <2> DEFINE tag == TagOf(entry)
  <2> HIDE DEF tag
  <2>1. Nums(tag) \in Nat
    BY DEF Nums
  <2> QED
    BY <2>1 DEF tag
<1>3. IntLists \subseteq Seq(Int)
  BY <1>1, <1>2, ArgumentsAssumption DEF IntLists
<1>4. Strings \subseteq Seq(Bytes)
  BY ArgumentsAssumption DEF Bytes
<1>5. \A n \in Nat : Letters(n) \in Seq(Bytes)
  BY BaseIs DEF Letters, Bytes
<1>6. Word(hdr) \in Nat /\ Word(hdr) - 1 \in Nat
  BY DEF Word
<1> QED
  BY <1>3, <1>4, <1>5, <1>6

\* One call keeps the invariant of the entry.
LEMMA SetKeeps ==
    ASSUME EntryInv, NEW kind, NEW values, NEW e, Sets(hdr, entry, kind, values, e), Set(kind, values, e)
    PROVE  EntryInv' /\ entry'.tag = entry.tag
<1>1. /\ entry' = e /\ hdr' = hdr
      /\ given' = IF entry.type \in Takes(kind) \cup {"Nil"}
                  THEN [kind |-> kind, values |-> values] ELSE given
  BY DEF Set
<1>2. e \in EntriesSet
  BY DEF Sets
<1>3. entry'.tag = entry.tag
  BY <1>1 DEF Sets
<1>4. CASE entry.type \in Takes(kind) \cup {"Nil"}
  <2>1. given' = [kind |-> kind, values |-> values]
    BY <1>1, <1>4
  <2>2. Filled(hdr, e, [kind |-> kind, values |-> values])
    BY <1>4 DEF Sets
  <2> QED
    BY <1>1, <1>2, <1>3, <2>1, <2>2 DEF EntryInv
<1>5. CASE entry.type \notin Takes(kind) \cup {"Nil"}
  <2>1. given' = given /\ e = entry
    BY <1>1, <1>5 DEF Sets
  <2> QED
    BY <1>1, <1>3, <2>1 DEF EntryInv
<1> QED
  BY <1>4, <1>5

LEMMA EntrySteps ==
    ASSUME EntryInv, EntryNext
    PROVE  EntryInv' /\ entry'.tag = entry.tag
<1>1. hdr \in Headers /\ entry \in EntriesSet
  BY DEF EntryInv
<1>2. CASE CallSetInts
  <2>1. PICK vs \in IntLists : Set("ints", vs, SetInts(hdr, entry, vs))
    BY <1>2 DEF CallSetInts
  <2>2. vs \in Seq(Int)
    BY Arguments
  <2>3. Sets(hdr, entry, "ints", vs, SetInts(hdr, entry, vs))
    BY <1>1, <2>2, SetIntsIs
  <2> QED
    BY <2>1, <2>3, SetKeeps
<1>3. CASE CallSetFloats
  <2>1. PICK vs \in IntLists : Set("floats", vs, SetFloats(hdr, entry, vs))
    BY <1>3 DEF CallSetFloats
  <2>2. vs \in Seq(Int)
    BY Arguments
  <2>3. Sets(hdr, entry, "floats", vs, SetFloats(hdr, entry, vs))
    BY <1>1, <2>2, SetFloatsIs
  <2> QED
    BY <2>1, <2>3, SetKeeps
<1>4. CASE CallSetRationals
  <2>1. PICK vs \in IntLists : Set("rationals", Pairs(vs), SetRationals(hdr, entry, Pairs(vs)))
    BY <1>4 DEF CallSetRationals
  <2>2. vs \in Seq(Int)
    BY Arguments
  <2>3. Sets(hdr, entry, "rationals", Pairs(vs), SetRationals(hdr, entry, Pairs(vs)))
    BY <1>1, <2>2, SetRationalsIs
  <2> QED
    BY <2>1, <2>3, SetKeeps
<1>5. CASE CallSetString
  <2>1. PICK s \in Strings \cup {Letters(n) : n \in {Word(hdr) - 1, Word(hdr), 19}} :
            Set("string", s, SetString(entry, s))
    BY <1>5 DEF CallSetString
  <2>2. s \in Seq(Bytes)
    BY <1>1, Arguments
  <2>3. Sets(hdr, entry, "string", s, SetString(entry, s))
    BY <1>1, <2>2, SetStringIs
  <2> QED
    BY <2>1, <2>3, SetKeeps
<1>6. CASE CallSetUndefined
  <2>1. PICK s \in Strings : Set("undefined", s, SetUndefined(entry, s))
    BY <1>6 DEF CallSetUndefined
  <2>2. s \in Seq(Bytes)
    BY Arguments
  <2>3. Sets(hdr, entry, "undefined", s, SetUndefined(entry, s))
    BY <1>1, <2>2, SetUndefinedIs
  <2> QED
    BY <2>1, <2>3, SetKeeps
<1> QED
  BY <1>2, <1>3, <1>4, <1>5, <1>6 DEF EntryNext

LEMMA NewEntryIs ==
    ASSUME NEW tag \in Tags, NEW t \in Types
    PROVE  /\ NewEntry(tag, t) \in EntriesSet /\ NewEntry(tag, t).data = <<>> /\ NewEntry(tag, t).count = 0
<1>1. Row(tag) \in 1 .. 85 /\ <<>> \in Seq(Bytes)
  BY RowIs, EmptySeq
<1> QED
  BY <1>1 DEF NewEntry, EntriesSet

LEMMA EntryInitially ==
    ASSUME Init
    PROVE  EntryInv
<1>1. given.kind = "none"
  BY DEF Init, EntryInit
<1>2. CASE writer = "caller"
  <2>1. EntryInit
    BY <1>2 DEF Init
  <2>2. PICK tag \in Tags, t \in DataTypes \cup {"Nil"} : entry = NewEntry(tag, t)
    BY <2>1 DEF EntryInit
  <2>3. t \in Types /\ hdr \in Headers
    BY <2>1, TypesAre DEF EntryInit, Headers, Orders
  <2>4. entry \in EntriesSet /\ entry.data = <<>> /\ entry.count = 0
    BY <2>2, <2>3, NewEntryIs
  <2> QED
    BY <1>1, <2>3, <2>4 DEF EntryInv, Filled
<1>3. CASE writer = "Encode"
  <2>1. hdr = Classic /\ entry = NewEntry("ImageWidth", "Nil")
    BY <1>3 DEF Init
  <2>2. "ImageWidth" \in Tags
    <3>1. BaselineGetters[3][1] = "ImageWidth"
      BY DEF BaselineGetters
    <3>2. Getters[3] = BaselineGetters[3] /\ 3 \in DOMAIN Getters
      BY Table
    <3> QED
      BY <3>1, <3>2 DEF Tags
  <2>3. "Nil" \in Types /\ hdr \in Headers
    BY <2>1, TypesAre DEF Classic, Headers, Orders
  <2>4. entry \in EntriesSet /\ entry.data = <<>> /\ entry.count = 0
    BY <2>1, <2>2, <2>3, NewEntryIs
  <2> QED
    BY <1>1, <2>3, <2>4 DEF EntryInv, Filled
<1> QED
  BY <1>2, <1>3 DEF Init

LEMMA EntryInvariant == Spec => []EntryInv
<1>1. Init => EntryInv
  BY EntryInitially
<1>2. EntryInv /\ [Next]_vars => EntryInv'
  <2> SUFFICES ASSUME EntryInv, [Next]_vars PROVE EntryInv'
    OBVIOUS
  <2>1. CASE EntryNext
    BY <2>1, EntrySteps
  <2>2. CASE UNCHANGED entryVars
    BY <2>2 DEF entryVars, EntryInv
  <2> QED
    BY <2>1, <2>2 DEF Next, Save, ReadBack, vars
<1> QED
  BY <1>1, <1>2, PTL DEF Spec

---------------------------------------------------------------------------
(* What was set is what is got.                                            *)

\* The values that come back, read with a sign or without as the type says.
LEMMA KeptValues ==
    ASSUME entry.type \in IntTypes \cup {"Float", "Double", "Rational", "SRational"},
           NEW n \in 1 .. 8, NEW signed \in BOOLEAN,
           entry.type \in {"Short", "Long", "IFD", "Rational"} => ~ signed,
           entry.type \notin {"Short", "Long", "IFD", "Rational", "Byte", "SByte"} => signed,
           NEW vs \in Seq(Int), NEW got, Len(got) = Len(vs),
           \A i \in 1 .. Len(vs) : got[i] = Kept0(vs[i], n, signed)
    PROVE  Kept(got, vs, n)
<1> SUFFICES ASSUME NEW i \in 1 .. Len(vs)
             PROVE  (got[i] - vs[i]) % Power[n] = 0 /\ (InRange(entry.type, vs[i], n) => got[i] = vs[i])
  BY DEF Kept
<1> DEFINE v == vs[i]
           g == Kept0(v, n, signed)
<1>1. v \in Int /\ got[i] = g
  OBVIOUS
<1> HIDE DEF v
<1>2. (g - v) % Power[n] = 0
  BY <1>1, KeptNumber
<1>3. ~ signed /\ 0 <= v /\ v < Power[n] => g = v
  BY <1>1, KeptNumber
<1>4. signed /\ -Half(n) <= v /\ v < Half(n) => g = v
  BY <1>1, KeptNumber
<1>5. 0 <= v /\ v < Half(n) => g = v
  BY <1>1, KeptNumber
<1> HIDE DEF g
<1>6. ASSUME InRange(entry.type, v, n) PROVE g = v
  <2>1. CASE entry.type \in {"Short", "Long", "IFD", "Rational"}
    <3>1. 0 <= v /\ v < Power[n]
      BY <1>6, <2>1 DEF InRange
    <3> QED
      BY <1>3, <2>1, <3>1
  <2>2. CASE entry.type \in {"Byte", "SByte"}
    <3>1. 0 <= v /\ v < Half(n)
      BY <1>6, <2>2 DEF InRange
    <3> QED
      BY <1>5, <3>1
  <2>3. CASE entry.type \notin {"Short", "Long", "IFD", "Rational", "Byte", "SByte"}
    <3>1. -Half(n) <= v /\ v < Half(n)
      BY <1>6, <2>3 DEF InRange
    <3> QED
      BY <1>4, <2>3, <3>1
  <2> QED
    BY <2>1, <2>2, <2>3
<1> QED
  BY <1>1, <1>2, <1>6 DEF v

\* Both parts of a rational, of each.
LEMMA RationalsOf ==
    ASSUME NEW h, h.order \in Orders, NEW e, e.type \in {"Rational", "SRational"}, NEW vs \in Seq(Int),
           e.count = Len(vs), e.data = EncodedAll(h.order, FlattenSeq(Pairs(vs)), 4),
           NEW signed \in BOOLEAN, signed <=> e.type = "SRational"
    PROVE  GetRationals(h, e) = [i \in 1 .. Len(vs) |-> <<Kept0(vs[i], 4, signed), Kept0(i, 4, signed)>>]
<1> DEFINE u == FlattenSeq(Pairs(vs))
           o == h.order
           L == Len(vs)
           part(i, k) == Decoded(o, Nth(e.data, 2 * (i - 1) + k, 4))
<1>1. u \in Seq(Int) /\ Len(u) = L * 2 /\ \A i \in 1 .. L : \A k \in {1, 2} : u[(i - 1) * 2 + k] = Pairs(vs)[i][k]
  BY PairsAre
<1>2. \A i \in 1 .. L : Pairs(vs)[i][1] = vs[i] /\ Pairs(vs)[i][2] = i
  BY PairsAre
<1>3. L \in Nat /\ 4 \in Widths /\ o \in Orders /\ \A i \in 1 .. L : vs[i] \in Int
  BY DEF Widths
<1> HIDE DEF u, L
<1>4. Len(e.data) = Len(u) * 4 /\ \A j \in 1 .. Len(u) : Nth(e.data, j, 4) = Encoded(o, u[j], 4)
  <2> DEFINE w == 4
             c == EncodedAll(o, u, w)
  <2>1. e.data = c /\ w \in Widths /\ u \in Seq(Int) /\ o \in Orders
    BY <1>1, <1>3 DEF u
  <2> HIDE DEF w, o
  <2>2. Len(c) = Len(u) * w
    BY <2>1, EncodedAllIs
  <2>3. \A j \in 1 .. Len(u) : Nth(c, j, w) = Encoded(o, u[j], w)
    BY <2>1, EncodedAllIs
  <2> HIDE DEF c
  <2> QED
    BY <2>1, <2>2, <2>3 DEF w
<1>5. ASSUME NEW i \in 1 .. L
      PROVE  part(i, 1) = vs[i] % Power[4] /\ part(i, 2) = i % Power[4]
  <2> DEFINE j == 2 * (i - 1) + 1
             k == 2 * (i - 1) + 2
  <2>1. j \in 1 .. Len(u) /\ k \in 1 .. Len(u) /\ j = (i - 1) * 2 + 1 /\ k = (i - 1) * 2 + 2
    BY <1>1, <1>3
  <2>2. u[j] = vs[i] /\ u[k] = i
    BY <1>1, <1>2, <2>1
  <2>3. vs[i] \in Int /\ i \in Int
    BY <1>3
  <2>4. part(i, 1) = Decoded(o, Encoded(o, vs[i], 4)) /\ part(i, 2) = Decoded(o, Encoded(o, i, 4))
    BY <1>4, <2>1, <2>2
  <2> HIDE DEF part
  <2> QED
    BY <1>3, <2>3, <2>4, DecodedEncoded
<1>6. Whole(e)
  <2>1. ByteSize(e.type) = 8
    BY Sizes
  <2> QED
    BY <1>1, <1>3, <1>4, <2>1 DEF Whole, L
<1>7. GetRationals(h, e) = [i \in 1 .. L |-> IF e.type = "Rational" THEN <<part(i, 1), part(i, 2)>>
                                             ELSE <<Signed(part(i, 1), 4), Signed(part(i, 2), 4)>>]
  BY <1>6 DEF GetRationals, L
<1> HIDE DEF part
<1>8. ASSUME NEW i \in 1 .. L
      PROVE  <<Kept0(vs[i], 4, signed), Kept0(i, 4, signed)>> =
             IF e.type = "Rational" THEN <<part(i, 1), part(i, 2)>> ELSE <<Signed(part(i, 1), 4), Signed(part(i, 2), 4)>>
  <2>1. CASE e.type = "Rational"
    BY <1>5, <2>1 DEF Kept0
  <2>2. CASE e.type = "SRational"
    BY <1>5, <2>2 DEF Kept0
  <2> QED
    BY <2>1, <2>2
<1> QED
  BY <1>7, <1>8 DEF L

\* SetInts and GetInts, SetFloats and GetFloats, SetRationals and GetRationals, SetString and
\* GetString, SetUndefined and GetUndefined of tiff_ifd_entry.go are inverse, whatever was called
\* before, in either byte order and for lists and strings of any length.
THEOREM SetThenGetThm == Spec => []SetThenGet
<1>1. EntryInv => SetThenGet
  <2> SUFFICES ASSUME EntryInv PROVE SetThenGet
    OBVIOUS
  <2> DEFINE vs == given.values
             n == ByteSize(entry.type)
  <2>1. hdr.order \in Orders /\ entry.data \in Seq(Bytes) /\ entry.count \in Nat
    BY DEF EntryInv, Headers, EntriesSet
  <2>2. CASE given.kind = "none" /\ entry.data = <<>> /\ entry.count = 0
    BY <2>2 DEF SetThenGet
  <2>3. CASE /\ given.kind = "ints" /\ entry.type \in IntTypes /\ vs \in Seq(Int)
             /\ entry.data = EncodedAll(hdr.order, vs, n) /\ entry.count = Len(vs)
    <3> DEFINE signed == IF entry.type \in ReadSigned THEN TRUE ELSE FALSE
    <3>1. n \in 1 .. 8 /\ signed \in BOOLEAN
      BY <2>3, Sizes
    <3>2. GetInts(hdr, entry) = Numbers(hdr, entry, signed)
      BY <2>3 DEF GetInts, Numbers
    <3>3. /\ entry.type \in {"Short", "Long", "IFD", "Rational"} => ~ signed
          /\ entry.type \notin {"Short", "Long", "IFD", "Rational", "Byte", "SByte"} => signed
      BY <2>3 DEF IntTypes, ReadSigned
    <3> HIDE DEF signed, n, vs
    <3>4. Numbers(hdr, entry, signed) = [i \in 1 .. Len(vs) |-> Kept0(vs[i], n, signed)]
      <4>1. ByteSize(entry.type) = n
        BY DEF n
      <4> QED
        BY <2>1, <2>3, <3>1, <4>1, NumbersOf
    <3>5. Len(vs) \in Nat
      BY <2>3
    <3> DEFINE got == GetInts(hdr, entry)
    <3>6. Len(got) = Len(vs) /\ \A i \in 1 .. Len(vs) : got[i] = Kept0(vs[i], n, signed)
      BY <3>2, <3>4, <3>5
    <3> HIDE DEF got
    <3>7. Kept(got, vs, n)
      BY <2>3, <3>1, <3>3, <3>6, KeptValues
    <3> QED
      BY <2>3, <3>7 DEF SetThenGet, got, n, vs
  <2>4. CASE /\ given.kind = "floats" /\ entry.type \in {"Float", "Double"} /\ vs \in Seq(Int)
             /\ entry.data = EncodedAll(hdr.order, vs, n) /\ entry.count = Len(vs)
    <3> DEFINE signed == TRUE
               N == Numbers(hdr, entry, signed)
    <3>1. n \in 1 .. 8 /\ signed \in BOOLEAN
      BY <2>4, Sizes
    <3>2. GetFloats(hdr, entry) = [i \in DOMAIN N |-> <<N[i], 1>>]
      BY <2>4 DEF GetFloats
    <3> HIDE DEF n, vs, signed
    <3>3. N = [i \in 1 .. Len(vs) |-> Kept0(vs[i], n, signed)]
      <4>1. ByteSize(entry.type) = n
        BY DEF n
      <4> QED
        BY <2>1, <2>4, <3>1, <4>1, NumbersOf
    <3>4. Len(vs) \in Nat
      BY <2>4
    <3> HIDE DEF N
    <3> DEFINE got == Firsts(GetFloats(hdr, entry))
    <3>5. got = [i \in 1 .. Len(vs) |-> Kept0(vs[i], n, signed)]
      BY <3>2, <3>3 DEF Firsts
    <3>6. Len(got) = Len(vs) /\ \A i \in 1 .. Len(vs) : got[i] = Kept0(vs[i], n, signed)
      BY <3>4, <3>5
    <3> HIDE DEF got
    <3>7. Kept(got, vs, n)
      <4>1. /\ entry.type \in {"Short", "Long", "IFD", "Rational"} => ~ signed
            /\ entry.type \notin {"Short", "Long", "IFD", "Rational", "Byte", "SByte"} => signed
        BY <2>4 DEF signed
      <4> QED
        BY <2>4, <3>1, <3>6, <4>1, KeptValues
    <3> QED
      BY <2>4, <3>7 DEF SetThenGet, got, n, vs
  <2>5. CASE /\ given.kind = "rationals" /\ entry.type \in {"Rational", "SRational"}
             /\ \E us \in Seq(Int) : vs = Pairs(us) /\ entry.count = Len(us)
             /\ entry.data = EncodedAll(hdr.order, FlattenSeq(vs), 4)
    <3>1. PICK us \in Seq(Int) : vs = Pairs(us) /\ entry.count = Len(us)
      BY <2>5
    <3> DEFINE signed == IF entry.type = "SRational" THEN TRUE ELSE FALSE
               got == GetRationals(hdr, entry)
    <3>2. signed \in BOOLEAN /\ (signed <=> entry.type = "SRational") /\ Len(us) \in Nat /\ 4 \in 1 .. 8
      OBVIOUS
    <3> HIDE DEF signed
    <3>3. got = [i \in 1 .. Len(us) |-> <<Kept0(us[i], 4, signed), Kept0(i, 4, signed)>>]
      <4>1. entry.data = EncodedAll(hdr.order, FlattenSeq(Pairs(us)), 4)
        BY <2>5, <3>1
      <4> QED
        BY <2>1, <2>5, <3>1, <3>2, <4>1, RationalsOf
    <3>4. Pairs(us) = [i \in 1 .. Len(us) |-> <<us[i], i>>]
      BY <3>2 DEF Pairs
    <3> HIDE DEF got, vs
    <3>5. /\ Firsts(got) = [i \in 1 .. Len(us) |-> Kept0(us[i], 4, signed)]
          /\ Seconds(got) = [i \in 1 .. Len(us) |-> Kept0(i, 4, signed)]
      BY <3>3 DEF Firsts, Seconds
    <3>6. Firsts(vs) = [i \in 1 .. Len(us) |-> us[i]] /\ Seconds(vs) = [i \in 1 .. Len(us) |-> i]
      BY <3>1, <3>4 DEF Firsts, Seconds
    <3> DEFINE f == Firsts(vs)
               s == Seconds(vs)
               gf == Firsts(got)
               gs == Seconds(got)
    <3>7. f \in Seq(Int) /\ Len(f) = Len(us) /\ s \in Seq(Int) /\ Len(s) = Len(us)
      BY <3>2, <3>6
    <3>8. \A i \in 1 .. Len(us) : f[i] = us[i] /\ s[i] = i
      BY <3>6
    <3>9. /\ Len(gf) = Len(f) /\ \A i \in 1 .. Len(f) : gf[i] = Kept0(f[i], 4, signed)
          /\ Len(gs) = Len(s) /\ \A i \in 1 .. Len(s) : gs[i] = Kept0(s[i], 4, signed)
      BY <3>2, <3>5, <3>7, <3>8
    <3>10. /\ entry.type \in {"Short", "Long", "IFD", "Rational"} => ~ signed
           /\ entry.type \notin {"Short", "Long", "IFD", "Rational", "Byte", "SByte"} => signed
      BY <2>5, <3>2
    <3> HIDE DEF f, s, gf, gs
    <3>11. Kept(gf, f, 4)
      BY <2>5, <3>2, <3>7, <3>9, <3>10, KeptValues
    <3>12. Kept(gs, s, 4)
      BY <2>5, <3>2, <3>7, <3>9, <3>10, KeptValues
    <3> QED
      BY <2>5, <3>11, <3>12 DEF SetThenGet, vs, got, f, s, gf, gs
  <2>6. CASE /\ given.kind = "string" /\ entry.type = "ASCII" /\ vs \in Seq(Bytes)
             /\ entry.data = Append(CutAtNul(vs), 0) /\ entry.count = Len(entry.data) + 1
    <3>1. 0 \in Bytes
      BY BaseIs DEF Bytes
    <3>2. GetString(entry) = CutAtNul(vs)
      BY <2>6, <3>1, CutTwice DEF GetString
    <3> QED
      BY <2>6, <3>2 DEF SetThenGet
  <2>7. CASE /\ given.kind = "undefined" /\ entry.type = "Undefined" /\ vs \in Seq(Bytes)
             /\ entry.data = vs /\ entry.count = Len(entry.data)
    <3> DEFINE l == Len(vs)
    <3>1. l \in Nat /\ l - 1 + 1 = l
      BY <2>7
    <3>2. SubSeq(vs, 1, l) = vs
      <4> HIDE DEF vs
      <4>1. SubSeq(vs, 1, l) = [k \in 1 .. l - 1 + 1 |-> vs[1 + k - 1]]
        BY <2>7, <3>1, SubSeqIs
      <4>2. \A k \in 1 .. l : 1 + k - 1 = k
        BY <3>1
      <4>3. vs = [k \in 1 .. l |-> vs[k]]
        BY <2>7
      <4> QED
        BY <3>1, <4>1, <4>2, <4>3
    <3>3. GetUndefined(entry, Len(vs)) = vs
      BY <2>7, <3>1, <3>2 DEF GetUndefined
    <3> QED
      BY <2>7, <3>3 DEF SetThenGet
  <2> QED
    BY <2>2, <2>3, <2>4, <2>5, <2>6, <2>7 DEF EntryInv, Filled
<1> QED
  BY <1>1, EntryInvariant, PTL

---------------------------------------------------------------------------
(* Places of a file.                                                       *)

\* s lies in f behind the first o elements.
Lies(f, o, s) == o + Len(s) <= Len(f) /\ \A k \in 1 .. Len(s) : f[o + k] = s[k]

LEMMA LiesIn ==
    ASSUME NEW S, NEW f \in Seq(S), NEW g \in Seq(S), NEW h \in Seq(S), NEW o \in Nat, NEW p \in Nat,
           Lies(f, o, g), Lies(g, p, h)
    PROVE  Lies(f, o + p, h)
<1>1. Len(f) \in Nat /\ Len(g) \in Nat /\ Len(h) \in Nat
  OBVIOUS
<1>2. o + Len(g) <= Len(f) /\ p + Len(h) <= Len(g)
  BY DEF Lies
<1>3. ASSUME NEW k \in 1 .. Len(h) PROVE f[(o + p) + k] = h[k]
  <2>1. p + k \in 1 .. Len(g) /\ o + (p + k) = (o + p) + k
    BY <1>1, <1>2
  <2>2. g[p + k] = h[k]
    BY DEF Lies
  <2>3. f[o + (p + k)] = g[p + k]
    BY <2>1 DEF Lies
  <2> QED
    BY <2>1, <2>2, <2>3
<1>4. (o + p) + Len(h) <= Len(f)
  BY <1>1, <1>2
<1> QED
  BY <1>3, <1>4 DEF Lies

LEMMA LiesFirst ==
    ASSUME NEW S, NEW f \in Seq(S), NEW g \in Seq(S)
    PROVE  Lies(f \o g, 0, f) /\ Lies(f \o g, Len(f), g)
<1> DEFINE u == f \o g
<1>1. Len(f) \in Nat /\ Len(g) \in Nat
  OBVIOUS
<1>2. Len(u) = Len(f) + Len(g)
  BY Joined
<1>3. \A k \in 1 .. Len(f) : u[k] = f[k]
  BY Joined
<1>4. \A k \in 1 .. Len(g) : u[Len(f) + k] = g[k]
  BY Joined
<1> HIDE DEF u
<1>5. Lies(u, 0, f)
  <2>1. \A k \in 1 .. Len(f) : 0 + k = k
    BY <1>1
  <2>2. 0 + Len(f) <= Len(u)
    BY <1>1, <1>2
  <2> QED
    BY <1>3, <2>1, <2>2 DEF Lies
<1>6. Lies(u, Len(f), g)
  BY <1>1, <1>2, <1>4 DEF Lies
<1> QED
  BY <1>5, <1>6 DEF u

\* What lies in the first part lies in the whole.
LEMMA LiesBefore ==
    ASSUME NEW S, NEW f \in Seq(S), NEW g \in Seq(S), NEW s \in Seq(S), NEW o \in Nat, Lies(f, o, s)
    PROVE  Lies(f \o g, o, s)
<1> DEFINE u == f \o g
           z == 0
<1>1. u \in Seq(S) /\ Lies(u, z, f) /\ z \in Nat /\ z + o = o
  BY Joined, LiesFirst
<1> HIDE DEF u, z
<1>2. Lies(u, z + o, s)
  BY <1>1, LiesIn
<1> QED
  BY <1>1, <1>2 DEF u

LEMMA LiesBehind ==
    ASSUME NEW S, NEW f \in Seq(S), NEW g \in Seq(S), NEW s \in Seq(S), NEW o \in Nat, Lies(g, o, s),
           NEW p \in Nat, p = Len(f) + o
    PROVE  Lies(f \o g, p, s)
<1> DEFINE u == f \o g
           z == Len(f)
<1>1. u \in Seq(S) /\ Lies(u, z, g) /\ z \in Nat
  BY Joined, LiesFirst
<1> HIDE DEF u, z
<1>2. Lies(u, z + o, s)
  BY <1>1, LiesIn
<1>3. z + o = p
  BY DEF z
<1> QED
  BY <1>2, <1>3 DEF u

\* Sequences that lie in one place are one.
LEMMA LiesStored ==
    ASSUME NEW S, NEW f \in Seq(S), NEW s \in Seq(S), NEW o \in Nat, Lies(f, o, s), NEW n \in Nat, n = Len(s)
    PROVE  SubSeq(f, o + 1, o + n) = s /\ Stored(f, o, n) = s
<1> DEFINE from == o + 1
           to == o + n
<1>1. from \in Int /\ to \in Nat /\ 1 <= from /\ from <= to + 1 /\ to <= Len(f) /\ to - from + 1 = n
  BY DEF Lies
<1>2. \A k \in 1 .. n : from + k - 1 = o + k
  OBVIOUS
<1> HIDE DEF from, to
<1>3. SubSeq(f, from, to) = [k \in 1 .. to - from + 1 |-> f[from + k - 1]]
  BY <1>1, SubSeqIs
<1>4. \A k \in 1 .. n : f[from + k - 1] = s[k]
  BY <1>2 DEF Lies
<1>5. s = [k \in 1 .. n |-> s[k]]
  OBVIOUS
<1>6. SubSeq(f, from, to) = s
  BY <1>1, <1>3, <1>4, <1>5
<1>7. SubSeq(f, o + 1, o + n) = s
  BY <1>6 DEF from, to
<1>8. o + n <= Len(f)
  BY <1>1 DEF to
<1> QED
  BY <1>7, <1>8 DEF Stored

\* A sequence of bytes is one of numbers.
LEMMA EncodedInts ==
    ASSUME NEW order \in Orders, NEW v \in Int, NEW n \in Widths
    PROVE  /\ Encoded(order, v, n) \in Seq(Bytes) /\ Encoded(order, v, n) \in Seq(Int)
           /\ Len(Encoded(order, v, n)) = n /\ n \in Nat
<1>1. Encoded(order, v, n) \in Seq(Bytes) /\ Len(Encoded(order, v, n)) = n
  BY EncodedBytes
<1>2. n \in Nat
  BY DEF Widths
<1>3. Bytes \subseteq Int
  BY BaseIs DEF Bytes
<1>4. Encoded(order, v, n) \in Seq(Int)
  BY <1>1, <1>3, SeqWider
<1> QED
  BY <1>1, <1>2, <1>4

LEMMA NumberLies ==
    ASSUME NEW f \in Seq(Int), NEW h, h.order \in Orders, NEW v \in Int, NEW n \in Widths, NEW o \in Nat,
           Lies(f, o, Encoded(h.order, v, n))
    PROVE  NumberAt(h, f, o, n) = v % Power[n]
<1> DEFINE s == Encoded(h.order, v, n)
<1>1. s \in Seq(Int) /\ Len(s) = n /\ n \in Nat
  BY EncodedInts
<1>2. Decoded(h.order, s) = v % Power[n]
  BY DecodedEncoded
<1> HIDE DEF s
<1>3. Stored(f, o, n) = s
  BY <1>1, LiesStored DEF s
<1> QED
  BY <1>2, <1>3 DEF NumberAt

LEMMA PaddedIs ==
    ASSUME NEW S, 0 \in S, NEW s \in Seq(S), NEW n \in Nat
    PROVE  /\ Padded(s, n) \in Seq(S) /\ Len(Padded(s, n)) = n
           /\ Len(s) <= n => Lies(Padded(s, n), 0, s)
           /\ n <= Len(s) => \A k \in 1 .. n : Padded(s, n)[k] = s[k]
           /\ \A k \in 1 .. n : k > Len(s) => Padded(s, n)[k] = 0
           /\ n = Len(s) => Padded(s, n) = s
<1> DEFINE u == Padded(s, n)
<1>1. u = [k \in 1 .. n |-> IF k <= Len(s) THEN s[k] ELSE 0] /\ Len(s) \in Nat
  BY DEF Padded
<1> HIDE DEF u
<1>2. \A k \in 1 .. Len(s) : s[k] \in S
  OBVIOUS
<1>3. \A k \in 1 .. n : (IF k <= Len(s) THEN s[k] ELSE 0) \in S
  BY <1>1, <1>2
<1>4. u \in [1 .. n -> S]
  BY <1>1, <1>3
<1>5. u \in Seq(S) /\ Len(u) = n
  BY <1>4
<1>6. Len(s) <= n => Lies(u, 0, s)
  <2>1. \A k \in 1 .. Len(s) : 0 + k = k
    BY <1>1
  <2> QED
    BY <1>1, <1>5, <2>1 DEF Lies
<1>7. n <= Len(s) => \A k \in 1 .. n : u[k] = s[k]
  BY <1>1
<1>8. \A k \in 1 .. n : k > Len(s) => u[k] = 0
  BY <1>1
<1>9. n = Len(s) => u = s
  <2> SUFFICES ASSUME n = Len(s) PROVE u = s
    OBVIOUS
  <2>1. u = [k \in 1 .. n |-> s[k]]
    BY <1>1
  <2>2. s = [k \in 1 .. n |-> s[k]]
    OBVIOUS
  <2> QED
    BY <2>1, <2>2
<1> QED
  BY <1>5, <1>6, <1>7, <1>8, <1>9 DEF u

\* What lies in the first n elements still does when there are no others.
LEMMA PaddedLies ==
    ASSUME NEW S, 0 \in S, NEW f \in Seq(S), NEW s \in Seq(S), NEW o \in Nat, NEW n \in Nat,
           Lies(f, o, s), o + Len(s) <= n
    PROVE  Lies(Padded(f, n), o, s)
<1> DEFINE u == Padded(f, n)
<1>1. u = [k \in 1 .. n |-> IF k <= Len(f) THEN f[k] ELSE 0] /\ Len(f) \in Nat /\ Len(s) \in Nat
  BY DEF Padded
<1>2. Len(u) = n
  BY PaddedIs
<1> HIDE DEF u
<1>3. ASSUME NEW k \in 1 .. Len(s) PROVE u[o + k] = s[k]
  <2>1. o + k \in 1 .. n /\ o + k <= Len(f)
    BY <1>1 DEF Lies
  <2>2. f[o + k] = s[k]
    BY DEF Lies
  <2> QED
    BY <1>1, <2>1, <2>2
<1> QED
  BY <1>2, <1>3 DEF Lies, u

\* Small numbers come back from any field, all but the smallest of which are wider than a byte.
LEMMA SmallNumbers ==
    ASSUME NEW v \in 0 .. 99, NEW n \in 2 .. 8
    PROVE  v % Power[n] = v /\ v < Power[n]
<1> USE BaseAssumption
<1> DEFINE T == {k \in 0 .. 6 : Power[k + 2] >= 100}
<1>1. 0 \in T
  <2>1. 0 \in 0 .. 7 /\ 1 \in 0 .. 7 /\ 0 + 1 = 1 /\ 1 + 1 = 2 /\ 0 + 2 = 2
    OBVIOUS
  <2>2. Power[1] = Base * 1 /\ Power[2] = Base * Power[1]
    <3>1. Power[0 + 1] = Base * Power[0] /\ Power[1 + 1] = Base * Power[1]
      BY <2>1, Powers
    <3> QED
      BY <2>1, <3>1, Powers
  <2>3. Base * 1 = Base
    OBVIOUS
  <2>4. Base * Base >= 100
    BY SMT
  <2> QED
    BY <2>1, <2>2, <2>3, <2>4
<1>2. ASSUME NEW k \in T, k < 6 PROVE k + 1 \in T
  <2> DEFINE p == Power[k + 2]
  <2>1. k + 2 \in 0 .. 7 /\ (k + 2) + 1 = (k + 1) + 2 /\ k + 1 \in 0 .. 6 /\ k + 2 \in Widths
    BY <1>2 DEF Widths
  <2>2. Power[(k + 1) + 2] = Base * p /\ p \in Nat /\ p >= 100
    BY <2>1, Powers
  <2> HIDE DEF p
  <2>3. Base * p >= p
    BY <2>2, SMT
  <2>4. Base * p \in Nat
    BY <2>2
  <2> QED
    BY <2>1, <2>2, <2>3, <2>4
<1>3. T = 0 .. 6
  <2>1. T \in SUBSET (0 .. 6) /\ 6 \in Nat
    OBVIOUS
  <2> DEFINE six == 6
  <2>2. six \in Nat /\ T \in SUBSET (0 .. six) /\ \A k \in T : k < six => k + 1 \in T
    BY <1>2, <2>1
  <2> HIDE DEF T, six
  <2>3. T = 0 .. six
    BY <1>1, <2>2, InductionTo
  <2> QED
    BY <2>3 DEF six
<1> DEFINE q == Power[n]
<1>4. q \in Nat \ {0} /\ q >= 100
  <2>1. n - 2 \in 0 .. 6 /\ (n - 2) + 2 = n /\ n \in Widths
    BY DEF Widths
  <2>2. n - 2 \in T
    BY <1>3, <2>1
  <2>3. Power[(n - 2) + 2] >= 100
    BY <2>2
  <2> QED
    BY <2>1, <2>3, Powers
<1> HIDE DEF q
<1>5. v % q = v /\ v < q
  <2>1. v \in 0 .. q - 1 /\ v = q * 0 + v
    BY <1>4
  <2> QED
    BY <1>4, <2>1, OnlyQuotient
<1> QED
  BY <1>5 DEF q

---------------------------------------------------------------------------
(* The file a caller makes, and what is found in it.                       *)

LEMMA WordIs ==
    ASSUME NEW h \in Headers
    PROVE  /\ Word(h) \in Nat /\ Word(h) \in Widths /\ Word(h) \in 2 .. 8
           /\ CountSize(h) \in Nat /\ CountSize(h) \in Widths /\ CountSize(h) \in 2 .. 8
           /\ EntrySize(h) = 4 + 2 * Word(h) /\ EntrySize(h) \in Nat
           /\ 16 + CountSize(h) + EntrySize(h) + Word(h) \in 16 .. 99
           /\ h.order \in Orders /\ h.big \in BOOLEAN
<1>1. Word(h) \in {4, 8} /\ CountSize(h) \in {2, 8} /\ EntrySize(h) = 4 + 2 * Word(h)
  BY DEF Word, CountSize, EntrySize
<1>2. h.order \in Orders /\ h.big \in BOOLEAN
  BY DEF Headers
<1>3. Word(h) \in Widths /\ CountSize(h) \in Widths
  BY <1>1 DEF Widths
<1>4. \A w \in {4, 8}, c \in {2, 8} : 16 + c + (4 + 2 * w) + w \in 16 .. 99
  OBVIOUS
<1>5. 16 + CountSize(h) + EntrySize(h) + Word(h) \in 16 .. 99
  BY <1>1, <1>4
<1> QED
  BY <1>1, <1>2, <1>3, <1>5

LEMMA EntryIs ==
    ASSUME NEW e \in EntriesSet
    PROVE  /\ e.tag \in 1 .. 85 /\ e.type \in Types /\ e.count \in Nat /\ e.offset \in Nat /\ e.data \in Seq(Bytes)
           /\ e.tag \in Int /\ e.count \in Int /\ e.offset \in Int
<1> DEFINE a == e.tag
           b == e.count
           c == e.offset
<1>1. a \in 1 .. 85 /\ e.type \in Types /\ b \in Nat /\ c \in Nat /\ e.data \in Seq(Bytes)
  BY DEF EntriesSet
<1> HIDE DEF a, b, c
<1>2. a \in Int /\ b \in Int /\ c \in Int
  BY <1>1
<1> QED
  BY <1>1, <1>2 DEF a, b, c

\* A type comes back from its code.
LEMMA Codes ==
    /\ \A t \in Types : TypeCode[t] \in 0 .. 18
    /\ \A t \in Types : TypeOf(TypeCode[t]) = t
<1>1. \A t \in Types : TypeCode[t] \in 0 .. 18
  BY TypesAre DEF TypeCode
<1>2. \A s, t \in Types : TypeCode[s] = TypeCode[t] => s = t
  BY TypesAre DEF TypeCode
<1>3. ASSUME NEW t \in DataTypes PROVE TypeOf(TypeCode[t]) = t
  <2>1. \E s \in DataTypes : TypeCode[s] = TypeCode[t]
    OBVIOUS
  <2>2. \A s \in DataTypes : TypeCode[s] = TypeCode[t] => s = t
    BY <1>2, TypesAre
  <2> QED
    BY <2>1, <2>2 DEF TypeOf
<1>4. TypeOf(TypeCode["Nil"]) = "Nil"
  <2>1. ~ \E s \in DataTypes : TypeCode[s] = TypeCode["Nil"]
    BY <1>2, TypesAre
  <2> QED
    BY <2>1 DEF TypeOf
<1> QED
  BY <1>1, <1>3, <1>4, TypesAre

\* The two numbers of two bytes and the two words of an entry.
LEMMA EntryBytesAre ==
    ASSUME NEW h \in Headers, NEW e \in EntriesSet
    PROVE  /\ EntryBytes(h, e) \in Seq(Bytes) /\ Len(EntryBytes(h, e)) = EntrySize(h)
           /\ Lies(EntryBytes(h, e), 0, Encoded(h.order, e.tag, 2))
           /\ Lies(EntryBytes(h, e), 2, Encoded(h.order, TypeCode[e.type], 2))
           /\ Lies(EntryBytes(h, e), 4, Encoded(h.order, e.count, Word(h)))
           /\ Lies(EntryBytes(h, e), 4 + Word(h),
                   IF Inline(h, e) THEN Padded(e.data, Word(h)) ELSE Encoded(h.order, e.offset, Word(h)))
<1> DEFINE two == 2
           w == Word(h)
           a == Encoded(h.order, e.tag, two)
           b == Encoded(h.order, TypeCode[e.type], two)
           c == Encoded(h.order, e.count, w)
           d == IF Inline(h, e) THEN Padded(e.data, w) ELSE Encoded(h.order, e.offset, w)
           ab == a \o b
           abc == ab \o c
           u == abc \o d
           four == 4
           to == four + w
           z == 0
<1>1. two \in Widths /\ w \in Widths /\ h.order \in Orders /\ w \in Nat
  BY WordIs DEF Widths
<1>2. e.tag \in Int /\ TypeCode[e.type] \in Int /\ e.count \in Int /\ e.offset \in Int /\ e.data \in Seq(Bytes)
  <2>1. e.tag \in 1 .. 85 /\ e.type \in Types /\ e.count \in Nat /\ e.offset \in Nat /\ e.data \in Seq(Bytes)
    BY EntryIs
  <2>2. e.tag \in Int /\ e.count \in Int /\ e.offset \in Int
    BY EntryIs
  <2>3. TypeCode[e.type] \in Int
    BY <2>1, Codes
  <2> QED
    BY <2>1, <2>2, <2>3
<1>3. EntryBytes(h, e) = u
  BY DEF EntryBytes
<1> HIDE DEF two, w
<1>4. a \in Seq(Bytes) /\ Len(a) = two
  BY <1>1, <1>2, EncodedBytes
<1>5. b \in Seq(Bytes) /\ Len(b) = two
  <2> DEFINE code == TypeCode[e.type]
  <2>1. code \in Int
    BY <1>2
  <2> HIDE DEF code
  <2>2. Encoded(h.order, code, two) \in Seq(Bytes) /\ Len(Encoded(h.order, code, two)) = two
    BY <1>1, <2>1, EncodedBytes
  <2> QED
    BY <2>2 DEF code
<1>6. c \in Seq(Bytes) /\ Len(c) = w
  BY <1>1, <1>2, EncodedBytes
<1>7. d \in Seq(Bytes) /\ Len(d) = w
  <2>1. Padded(e.data, w) \in Seq(Bytes) /\ Len(Padded(e.data, w)) = w
    <3>1. 0 \in Bytes
      BY BaseIs DEF Bytes
    <3> QED
      BY <1>1, <1>2, <3>1, PaddedIs
  <2>2. Encoded(h.order, e.offset, w) \in Seq(Bytes) /\ Len(Encoded(h.order, e.offset, w)) = w
    BY <1>1, <1>2, EncodedBytes
  <2> QED
    BY <2>1, <2>2
<1> HIDE DEF a, b, c, d
<1>8. ab \in Seq(Bytes) /\ Len(ab) = four
  BY <1>4, <1>5, Joined DEF two
<1> HIDE DEF four
<1>9. Lies(ab, z, a) /\ Lies(ab, two, b) /\ z \in Nat /\ two \in Nat /\ four \in Nat
  BY <1>4, <1>5, LiesFirst DEF two, four
<1> HIDE DEF ab, z
<1>10. abc \in Seq(Bytes) /\ Len(abc) = to
  BY <1>6, <1>8, Joined
<1>11. Lies(abc, z, a)
  BY <1>4, <1>6, <1>8, <1>9, LiesBefore
<1>12. Lies(abc, two, b)
  BY <1>5, <1>6, <1>8, <1>9, LiesBefore
<1>13. Lies(abc, four, c)
  BY <1>6, <1>8, LiesFirst
<1>14. to \in Nat
  BY <1>1, <1>9
<1> HIDE DEF abc, to
<1>15. u \in Seq(Bytes) /\ Len(u) = to + w
  BY <1>7, <1>10, Joined
<1>16. Lies(u, z, a)
  BY <1>4, <1>7, <1>9, <1>10, <1>11, LiesBefore
<1>17. Lies(u, two, b)
  BY <1>5, <1>7, <1>9, <1>10, <1>12, LiesBefore
<1>18. Lies(u, four, c)
  BY <1>6, <1>7, <1>9, <1>10, <1>13, LiesBefore
<1>19. Lies(u, to, d)
  BY <1>7, <1>10, LiesFirst
<1>20. to + w = EntrySize(h)
  BY <1>1, WordIs DEF to, four, w
<1> QED
  BY <1>3, <1>15, <1>16, <1>17, <1>18, <1>19, <1>20 DEF a, b, c, d, z, two, four, to, w

---------------------------------------------------------------------------
(* Headers.                                                                *)

LEMMA MarkIs ==
    ASSUME NEW order \in Orders
    PROVE  /\ ByteOrderMark(order) \in Seq(Int) /\ ByteOrderMark(order) \in Seq(Bytes)
           /\ Len(ByteOrderMark(order)) = 2
           /\ ByteOrderMark(order) = ByteOrderMark("II") <=> order = "II"
<1>1. 1 \in Bytes /\ 2 \in Bytes
  BY BaseIs DEF Bytes
<1>2. CASE order = "II"
  BY <1>1, <1>2 DEF ByteOrderMark
<1>3. CASE order = "MM"
  <2>1. ByteOrderMark(order) = <<2, 2>> /\ ByteOrderMark("II") = <<1, 1>>
    BY <1>3 DEF ByteOrderMark
  <2>2. <<2, 2>> # <<1, 1>>
    <3>1. <<2, 2>>[1] # <<1, 1>>[1]
      OBVIOUS
    <3> QED
      BY <3>1
  <2>3. <<2, 2>> \in Seq(Int) /\ <<2, 2>> \in Seq(Bytes) /\ Len(<<2, 2>>) = 2
    BY <1>1
  <2>4. order # "II"
    BY <1>3
  <2> QED
    BY <2>1, <2>2, <2>3, <2>4
<1> QED
  BY <1>2, <1>3 DEF Orders

LEMMA Fits ==
    ASSUME NEW v \in Nat, NEW n \in Widths, v < Power[n]
    PROVE  v % Power[n] = v
<1> DEFINE q == Power[n]
<1>1. q \in Nat \ {0} /\ v < q
  BY Powers
<1> HIDE DEF q
<1>2. v \in 0 .. q - 1 /\ v = q * 0 + v
  BY <1>1
<1>3. v % q = v
  BY <1>1, <1>2, OnlyQuotient
<1> QED
  BY <1>3 DEF q

\* The array of the header begins as the file does.
LEMMA HeadIs ==
    ASSUME NEW f \in Seq(Int), NEW m \in Nat, m = 16
    PROVE  /\ HeadBytes(f) \in Seq(Int) /\ Len(HeadBytes(f)) = m
           /\ \A k \in 1 .. m : k <= Len(f) => HeadBytes(f)[k] = f[k]
<1> DEFINE byte(k) == IF k <= Len(f) THEN f[k] ELSE IF k > 8 /\ k - 8 <= Len(f) THEN f[k - 8] ELSE 0
           u == HeadBytes(f)
<1>1. u = [k \in 1 .. m |-> byte(k)]
  BY DEF HeadBytes
<1>2. m \in Nat /\ Len(f) \in Nat /\ \A k \in 1 .. Len(f) : f[k] \in Int
  OBVIOUS
<1>3. ASSUME NEW k \in 1 .. m PROVE byte(k) \in Int
  BY <1>2
<1>4. ASSUME NEW k \in 1 .. m, k <= Len(f) PROVE byte(k) = f[k]
  BY <1>4
<1> HIDE DEF u, byte
<1>5. u \in [1 .. m -> Int]
  BY <1>1, <1>3
<1>6. u \in Seq(Int) /\ Len(u) = m
  <2>1. ASSUME NEW n \in Nat, u \in [1 .. n -> Int] PROVE u \in Seq(Int) /\ Len(u) = n
    BY <2>1
  <2> QED
    BY <1>5, <2>1
<1>7. ASSUME NEW k \in 1 .. m, k <= Len(f) PROVE u[k] = f[k]
  BY <1>1, <1>4, <1>7
<1> QED
  BY <1>6, <1>7 DEF u

\* What lies in the first sixteen bytes of a file is where ReadHeader looks for it.
LEMMA HeadLies ==
    ASSUME NEW f \in Seq(Int), NEW s \in Seq(Int), NEW o \in Nat, NEW m \in Nat, m = 16,
           Lies(f, o, s), o + Len(s) <= m
    PROVE  HeadBytes(f) \in Seq(Int) /\ Lies(HeadBytes(f), o, s)
<1> DEFINE u == HeadBytes(f)
<1>1. /\ u \in Seq(Int) /\ Len(u) = m
      /\ \A k \in 1 .. m : k <= Len(f) => u[k] = f[k]
  BY HeadIs
<1> HIDE DEF u
<1>2. ASSUME NEW k \in 1 .. Len(s) PROVE u[o + k] = s[k]
  <2>1. o + k \in 1 .. m /\ o + k <= Len(f)
    <3>1. o + Len(s) <= m /\ o + Len(s) <= Len(f) /\ Len(s) \in Nat /\ Len(f) \in Nat
      BY DEF Lies
    <3> QED
      BY <3>1
  <2>2. f[o + k] = s[k]
    BY DEF Lies
  <2> QED
    BY <1>1, <2>1, <2>2
<1> QED
  BY <1>1, <1>2 DEF Lies, u

\* A number of the header, as ReadHeader looks at it.
LEMMA HeadNumber ==
    ASSUME NEW f \in Seq(Int), NEW order \in Orders, NEW v \in Int, NEW n \in Widths, NEW o \in Nat,
           NEW m \in Nat, m = 16, o + n <= m, Lies(f, o, Encoded(order, v, n))
    PROVE  Decoded(order, SubSeq(HeadBytes(f), o + 1, o + n)) = v % Power[n]
<1> DEFINE s == Encoded(order, v, n)
           u == HeadBytes(f)
<1>1. s \in Seq(Int) /\ Len(s) = n /\ n \in Nat
  BY EncodedInts
<1>2. Decoded(order, s) = v % Power[n]
  BY DecodedEncoded
<1>3. Lies(f, o, s)
  OBVIOUS
<1> HIDE DEF s
<1>4. u \in Seq(Int) /\ Lies(u, o, s)
  BY <1>1, <1>3, HeadLies
<1> HIDE DEF u
<1>5. SubSeq(u, o + 1, o + n) = s
  BY <1>1, <1>4, LiesStored
<1> QED
  BY <1>2, <1>5 DEF u

\* What the file begins with, for ReadHeader to take it.
Headed(f, h, first) ==
    /\ Lies(f, 0, ByteOrderMark(h.order))
    /\ Lies(f, 2, Encoded(h.order, Version(h), 2))
    /\ h.big => /\ Lies(f, 4, Encoded(h.order, 8, 2)) /\ Lies(f, 6, Encoded(h.order, 0, 2))
                /\ Lies(f, 8, Encoded(h.order, first, 8))
    /\ ~ h.big => Lies(f, 4, Encoded(h.order, first, 4))

LEMMA HeaderRead ==
    ASSUME NEW f \in Seq(Int), NEW h \in Headers, NEW first \in Nat, Headed(f, h, first),
           HeadSize(h) <= first, first < Power[Word(h)]
    PROVE  /\ ReadHeader(f).order = h.order /\ ReadHeader(f).big = h.big
           /\ ReadHeader(f).first = first /\ ReadHeader(f).ok
<1> DEFINE u == HeadBytes(f)
           at0(order, o, n) == Decoded(order, SubSeq(u, o + 1, o + n))
<1>1. h.order \in Orders /\ h.big \in BOOLEAN
  BY DEF Headers
<1>3. SubSeq(u, 1, 2) = ByteOrderMark(h.order) /\ f # <<>>
  <2> DEFINE mark == ByteOrderMark(h.order)
             n == 2
             o == 0
             m == 16
  <2>1. mark \in Seq(Int) /\ Len(mark) = n /\ n \in Nat /\ o \in Nat /\ m \in Nat /\ o + n <= m /\ m = 16 /\ Lies(f, o, mark)
    BY <1>1, MarkIs DEF Headed
  <2>2. f # <<>>
    <3>1. 0 + 2 <= Len(f)
      BY <2>1 DEF Lies
    <3> QED
      BY <3>1, EmptySeq
  <2> HIDE DEF n, o, m, mark, u
  <2>3. u \in Seq(Int) /\ Lies(u, o, mark)
    BY <2>1, HeadLies DEF u
  <2>4. SubSeq(u, o + 1, o + n) = mark
    BY <2>1, <2>3, LiesStored
  <2> QED
    BY <2>2, <2>4 DEF n, o, mark
<1>4. ASSUME NEW v \in Int, NEW n \in Widths, NEW o \in Nat, o + n <= 16, Lies(f, o, Encoded(h.order, v, n))
      PROVE  at0(h.order, o, n) = v % Power[n]
  <2> DEFINE m == 16
  <2>1. m \in Nat /\ m = 16 /\ o + n <= m
    BY <1>4
  <2> HIDE DEF m
  <2>2. Decoded(h.order, SubSeq(HeadBytes(f), o + 1, o + n)) = v % Power[n]
    BY <1>1, <1>4, <2>1, HeadNumber
  <2> QED
    BY <2>2 DEF m
<1> HIDE DEF at0
<1>5. at0(h.order, 2, 2) = IF h.big THEN 43 ELSE 42
  <2> DEFINE n == 2
             v == Version(h)
  <2>1. n \in Widths /\ n \in Nat /\ n + n <= 16 /\ v \in 0 .. 99 /\ n \in 2 .. 8 /\ v \in Int /\ Lies(f, n, Encoded(h.order, v, n))
    BY DEF Widths, Version, Headed
  <2> HIDE DEF n, v
  <2>2. at0(h.order, n, n) = v % Power[n]
    BY <1>4, <2>1
  <2>3. v % Power[n] = v
    BY <2>1, SmallNumbers
  <2> QED
    BY <2>2, <2>3 DEF n, v, Version
<1>6. ASSUME h.big PROVE at0(h.order, 4, 2) = 8 /\ at0(h.order, 6, 2) = 0 /\ at0(h.order, 8, 8) = first
  <2> DEFINE two == 2
             four == 4
             six == 6
             eight == 8
             z == 0
  <2>1. /\ two \in Widths /\ eight \in Widths /\ four \in Nat /\ six \in Nat /\ eight \in Nat /\ two \in 2 .. 8
        /\ four + two <= 16 /\ six + two <= 16 /\ eight + eight <= 16 /\ z \in 0 .. 99 /\ eight \in 0 .. 99
        /\ eight \in Int /\ z \in Int
    BY DEF Widths
  <2>2. Lies(f, four, Encoded(h.order, eight, two)) /\ Lies(f, six, Encoded(h.order, z, two))
    BY <1>6 DEF Headed
  <2>3. Lies(f, eight, Encoded(h.order, first, eight))
    BY <1>6 DEF Headed
  <2>4. first \in Int /\ first < Power[eight]
    BY <1>6 DEF Word
  <2> HIDE DEF two, four, six, eight, z
  <2>5. at0(h.order, four, two) = eight % Power[two]
    BY <1>4, <2>1, <2>2
  <2>6. at0(h.order, six, two) = z % Power[two]
    BY <1>4, <2>1, <2>2
  <2>7. at0(h.order, eight, eight) = first % Power[eight]
    BY <1>4, <2>1, <2>3, <2>4
  <2>8. eight % Power[two] = eight /\ z % Power[two] = z
    BY <2>1, SmallNumbers
  <2>9. first % Power[eight] = first
    BY <2>1, <2>4, Fits
  <2> QED
    BY <2>5, <2>6, <2>7, <2>8, <2>9 DEF two, four, six, eight, z
<1>7. ASSUME ~ h.big PROVE at0(h.order, 4, 4) = first
  <2> DEFINE four == 4
  <2>1. four \in Widths /\ four \in Nat /\ four + four <= 16 /\ Lies(f, four, Encoded(h.order, first, four))
    BY <1>7 DEF Widths, Headed
  <2>2. first \in Int /\ first < Power[four]
    BY <1>7 DEF Word
  <2> HIDE DEF four
  <2>3. at0(h.order, four, four) = first % Power[four]
    BY <1>4, <2>1, <2>2
  <2>4. first % Power[four] = first
    BY <2>1, <2>2, Fits
  <2> QED
    BY <2>3, <2>4 DEF four
<1> DEFINE ord == IF SubSeq(u, 1, 2) = ByteOrderMark("II") THEN "II" ELSE "MM"
<1>8. ord = h.order
  BY <1>1, <1>3, MarkIs DEF Orders
<1> DEFINE big == at0(ord, 2, 2) = 43
           start == IF big THEN at0(ord, 8, 8) ELSE at0(ord, 4, 4)
           fine == /\ f # <<>> /\ SubSeq(u, 1, 2) = ByteOrderMark(ord)
                   /\ at0(ord, 2, 2) \in {42, 43}
                   /\ big => at0(ord, 4, 2) = 8 /\ at0(ord, 6, 2) = 0 /\ Len(f) > 8
                   /\ start >= IF big THEN 16 ELSE 8
<1>9. ReadHeader(f) = [order |-> ord, big |-> big, first |-> start, ok |-> fine]
  BY Zenon DEF ReadHeader, at0
<1>10. big <=> h.big
  BY <1>1, <1>5, <1>8
<1>11. start = first
  BY <1>6, <1>7, <1>8, <1>10
<1>12. fine
  <2>1. h.big => Len(f) > 8
    <3> SUFFICES ASSUME h.big PROVE Len(f) > 8
      OBVIOUS
    <3>1. Lies(f, 8, Encoded(h.order, first, 8))
      BY DEF Headed
    <3>2. Len(Encoded(h.order, first, 8)) = 8
      <4> DEFINE eight == 8
      <4>1. eight \in Widths /\ first \in Int
        BY DEF Widths
      <4> HIDE DEF eight
      <4>2. Len(Encoded(h.order, first, eight)) = eight
        BY <1>1, <4>1, EncodedInts
      <4> QED
        BY <4>2 DEF eight
    <3>3. Len(f) \in Nat
      OBVIOUS
    <3> DEFINE s == Encoded(h.order, first, 8)
    <3>4. Lies(f, 8, s) /\ Len(s) = 8
      BY <3>1, <3>2
    <3> HIDE DEF s
    <3>5. 8 + Len(s) <= Len(f)
      BY <3>4 DEF Lies
    <3> QED
      BY <3>3, <3>4, <3>5
  <2>2. start >= IF big THEN 16 ELSE 8
    BY <1>1, <1>10, <1>11 DEF HeadSize
  <2>3. at0(ord, 2, 2) \in {42, 43}
    BY <1>5, <1>8
  <2>4. big => at0(ord, 4, 2) = 8 /\ at0(ord, 6, 2) = 0
    BY <1>6, <1>8, <1>10
  <2> HIDE DEF start, at0, u
  <2> QED
    BY <1>3, <1>8, <1>10, <2>1, <2>2, <2>3, <2>4
<1>13. big = h.big
  BY <1>1, <1>10
<1> HIDE DEF ord, big, start, fine
<1> QED
  BY <1>8, <1>9, <1>11, <1>12, <1>13

\* What lies in the beginning of a file.
LEMMA LiesThrough ==
    ASSUME NEW S, NEW f \in Seq(S), NEW g \in Seq(S), NEW s \in Seq(S), NEW o \in Nat, Lies(f, 0, g), Lies(g, o, s)
    PROVE  Lies(f, o, s)
<1> DEFINE z == 0
<1>1. z \in Nat /\ z + o = o /\ Lies(f, z, g)
  OBVIOUS
<1> HIDE DEF z
<1>2. Lies(f, z + o, s)
  BY <1>1, LiesIn
<1> QED
  BY <1>1, <1>2

\* Two sequences and what follows them, and where each of the three lies.
LEMMA ThreeLie ==
    ASSUME NEW S, NEW a \in Seq(S), NEW b \in Seq(S), NEW c \in Seq(S)
    PROVE  /\ (a \o b) \o c \in Seq(S) /\ Len((a \o b) \o c) = Len(a) + Len(b) + Len(c)
           /\ Lies((a \o b) \o c, 0, a) /\ Lies((a \o b) \o c, Len(a), b)
           /\ Lies((a \o b) \o c, Len(a) + Len(b), c)
<1> DEFINE ab == a \o b
           u == ab \o c
           m == Len(a)
           z == 0
<1>1. ab \in Seq(S) /\ Len(ab) = m + Len(b) /\ m \in Nat /\ Len(b) \in Nat /\ Len(c) \in Nat /\ z \in Nat
  BY Joined
<1>2. Lies(ab, z, a) /\ Lies(ab, m, b)
  BY LiesFirst
<1> HIDE DEF ab, m, z
<1>3. u \in Seq(S) /\ Len(u) = Len(ab) + Len(c)
  BY <1>1, Joined
<1>4. Lies(u, z, a)
  BY <1>1, <1>2, LiesBefore
<1>5. Lies(u, m, b)
  BY <1>1, <1>2, LiesBefore
<1>6. Lies(u, Len(ab), c)
  BY <1>1, LiesFirst
<1>7. Lies(u, m + Len(b), c)
  BY <1>1, <1>6
<1>8. Len(u) = m + Len(b) + Len(c)
  BY <1>1, <1>3
<1> QED
  BY <1>3, <1>4, <1>5, <1>7, <1>8 DEF ab, m, z

LEMMA HeaderBytesAre ==
    ASSUME NEW h \in Headers, NEW first \in Nat
    PROVE  /\ HeaderBytes(h, first) \in Seq(Bytes) /\ Len(HeaderBytes(h, first)) = 16
           /\ Headed(HeaderBytes(h, first), h, first)
<1> DEFINE two == 2
           four == 4
           eight == 8
           mark == ByteOrderMark(h.order)
           number(v, n) == Encoded(h.order, v, n)
           version == number(Version(h), two)
           large == (number(8, two) \o number(0, two)) \o number(first, eight)
           small == number(first, four)
           rest == IF h.big THEN large ELSE small
           x == (mark \o version) \o rest
           u == Padded(x, 16)
<1>1. HeaderBytes(h, first) = u
  BY DEF HeaderBytes
<1>2. h.order \in Orders /\ h.big \in BOOLEAN
  BY DEF Headers
<1>3. two \in Widths /\ four \in Widths /\ eight \in Widths /\ Version(h) \in Int /\ first \in Int /\ 0 \in Bytes
  BY BaseIs DEF Widths, Version, Bytes
<1> HIDE DEF two, four, eight
<1>4. mark \in Seq(Bytes) /\ Len(mark) = 2
  BY <1>2, MarkIs
<1>5. version \in Seq(Bytes) /\ Len(version) = two
  BY <1>2, <1>3, EncodedBytes
<1>6. small \in Seq(Bytes) /\ Len(small) = four
  BY <1>2, <1>3, EncodedBytes
<1>7. number(8, two) \in Seq(Bytes) /\ Len(number(8, two)) = two
  <2> DEFINE v == 8
  <2>1. v \in Int
    OBVIOUS
  <2> HIDE DEF v
  <2>2. number(v, two) \in Seq(Bytes) /\ Len(number(v, two)) = two
    BY <1>2, <1>3, <2>1, EncodedBytes
  <2> QED
    BY <2>2 DEF v
<1>8. number(0, two) \in Seq(Bytes) /\ Len(number(0, two)) = two
  <2> DEFINE v == 0
  <2>1. v \in Int
    OBVIOUS
  <2> HIDE DEF v
  <2>2. number(v, two) \in Seq(Bytes) /\ Len(number(v, two)) = two
    BY <1>2, <1>3, <2>1, EncodedBytes
  <2> QED
    BY <2>2 DEF v
<1>9. number(first, eight) \in Seq(Bytes) /\ Len(number(first, eight)) = eight
  BY <1>2, <1>3, EncodedBytes
<1> HIDE DEF mark, version, number
<1>10. /\ large \in Seq(Bytes) /\ Len(large) = 12 /\ Lies(large, 0, number(8, two))
       /\ Lies(large, 2, number(0, two)) /\ Lies(large, 4, number(first, eight))
  <2> DEFINE a == number(8, two)
             b == number(0, two)
             c == number(first, eight)
  <2>1. a \in Seq(Bytes) /\ b \in Seq(Bytes) /\ c \in Seq(Bytes) /\ Len(a) = 2 /\ Len(b) = 2 /\ Len(c) = 8
    BY <1>7, <1>8, <1>9 DEF two, eight
  <2> HIDE DEF a, b, c
  <2> DEFINE l == (a \o b) \o c
  <2>2. large = l
    BY DEF a, b, c
  <2> HIDE DEF large
  <2>3. /\ l \in Seq(Bytes) /\ Len(l) = Len(a) + Len(b) + Len(c)
        /\ Lies(l, 0, a) /\ Lies(l, Len(a), b) /\ Lies(l, Len(a) + Len(b), c)
    BY <2>1, ThreeLie
  <2> HIDE DEF l
  <2>4. Len(a) + Len(b) = 4 /\ Len(a) + Len(b) + Len(c) = 12
    BY <2>1
  <2>5. l \in Seq(Bytes) /\ Len(l) = 12 /\ Lies(l, 0, a) /\ Lies(l, 2, b) /\ Lies(l, 4, c)
    BY <2>1, <2>3, <2>4
  <2> QED
    BY <2>2, <2>5 DEF a, b, c
<1> HIDE DEF large, small
<1>11. rest \in Seq(Bytes) /\ Len(rest) = IF h.big THEN 12 ELSE 4
  BY <1>6, <1>10 DEF four
<1> HIDE DEF rest
<1>12. /\ x \in Seq(Bytes) /\ Len(x) = 2 + 2 + Len(rest)
       /\ Lies(x, 0, mark) /\ Lies(x, 2, version) /\ Lies(x, 4, rest)
  <2>1. /\ x \in Seq(Bytes) /\ Len(x) = Len(mark) + Len(version) + Len(rest)
        /\ Lies(x, 0, mark) /\ Lies(x, Len(mark), version) /\ Lies(x, Len(mark) + Len(version), rest)
    BY <1>4, <1>5, <1>11, ThreeLie
  <2>2. Len(mark) = 2 /\ Len(version) = 2
    BY <1>4, <1>5 DEF two
  <2> QED
    BY <2>1, <2>2
<1> HIDE DEF x
<1>13. /\ u \in Seq(Bytes) /\ Len(u) = 16 /\ Lies(u, 0, x)
  <2> DEFINE m == 16
  <2>1. m \in Nat /\ Len(x) <= m
    BY <1>11, <1>12
  <2> HIDE DEF m
  <2>2. Padded(x, m) \in Seq(Bytes) /\ Len(Padded(x, m)) = m /\ Lies(Padded(x, m), 0, x)
    BY <1>3, <1>12, <2>1, PaddedIs
  <2> QED
    BY <2>2 DEF m
<1> HIDE DEF u
<1>14. ASSUME NEW s \in Seq(Bytes), NEW o \in Nat, Lies(x, o, s) PROVE Lies(u, o, s)
  BY <1>12, <1>13, <1>14, LiesThrough
<1>15. ASSUME NEW s \in Seq(Bytes), NEW o \in Nat, Lies(rest, o, s) PROVE Lies(u, 4 + o, s)
  <2> DEFINE p == 4
  <2>1. Lies(x, p, rest) /\ p \in Nat /\ p + o \in Nat
    BY <1>12
  <2> HIDE DEF p
  <2>2. Lies(x, p + o, s)
    BY <1>11, <1>12, <1>15, <2>1, LiesIn
  <2>3. Lies(u, p + o, s)
    BY <1>14, <2>1, <2>2
  <2> QED
    BY <2>3 DEF p
<1>16. Lies(u, 0, mark)
  BY <1>4, <1>12, <1>14
<1>17. Lies(u, 2, version)
  BY <1>5, <1>12, <1>14
<1>18. ASSUME h.big
       PROVE  Lies(u, 4, number(8, two)) /\ Lies(u, 6, number(0, two)) /\ Lies(u, 8, number(first, eight))
  <2>1. rest = large
    BY <1>18 DEF rest
  <2>2. Lies(u, 4 + 0, number(8, two))
    BY <1>7, <1>10, <1>15, <2>1 DEF number
  <2>3. Lies(u, 4 + 2, number(0, two))
    BY <1>8, <1>10, <1>15, <2>1 DEF number
  <2>4. Lies(u, 4 + 4, number(first, eight))
    BY <1>9, <1>10, <1>15, <2>1 DEF number
  <2> QED
    BY <2>2, <2>3, <2>4
<1>19. ASSUME ~ h.big PROVE Lies(u, 4, small)
  <2>1. rest = small
    BY <1>19 DEF rest
  <2> QED
    BY <1>6, <1>12, <1>14, <2>1
<1> QED
  BY <1>1, <1>13, <1>16, <1>17, <1>18, <1>19 DEF Headed, mark, version, number, small, two, four, eight

---------------------------------------------------------------------------
(* Directories.                                                            *)

LEMMA WordOf ==
    ASSUME NEW h, h.order \in Orders, h.big \in BOOLEAN
    PROVE  /\ Word(h) \in Nat /\ Word(h) \in Widths /\ Word(h) \in 2 .. 8
           /\ CountSize(h) \in Nat /\ CountSize(h) \in Widths /\ CountSize(h) \in 2 .. 8
           /\ EntrySize(h) = 4 + 2 * Word(h) /\ EntrySize(h) \in Nat
<1>1. Word(h) \in {4, 8} /\ CountSize(h) \in {2, 8} /\ EntrySize(h) = 4 + 2 * Word(h)
  BY DEF Word, CountSize, EntrySize
<1>2. Word(h) \in Widths /\ CountSize(h) \in Widths
  BY <1>1 DEF Widths
<1> QED
  BY <1>1, <1>2

\* An entry as it is read from the bytes in its four fields.
FieldsLie(f, h, p, tag, t, count, value) ==
    /\ f \in Seq(Int) /\ h.order \in Orders /\ h.big \in BOOLEAN /\ p \in Nat
    /\ tag \in 0 .. 99 /\ t \in Types /\ count \in Nat /\ count < Power[Word(h)]
    /\ value \in Seq(Bytes) /\ Len(value) = Word(h)
    /\ Lies(f, p, Encoded(h.order, tag, 2)) /\ Lies(f, p + 2, Encoded(h.order, TypeCode[t], 2))
    /\ Lies(f, p + 4, Encoded(h.order, count, Word(h))) /\ Lies(f, p + 4 + Word(h), value)

Raw(tag, t, count, offset) == [tag |-> tag, type |-> t, count |-> count, offset |-> offset, data |-> <<>>]

LEMMA EntryRead ==
    ASSUME NEW f, NEW h, NEW p, NEW tag, NEW t, NEW count, NEW value, FieldsLie(f, h, p, tag, t, count, value)
    PROVE  EntryAt(h, f, p) = Raw(tag, t, count, Decoded(h.order, value))
<1> DEFINE two == 2
           w == Word(h)
           code == TypeCode[t]
           p2 == p + 2
           p4 == p + 4
           pw == p + 4 + w
<1>9. /\ f \in Seq(Int) /\ h.order \in Orders /\ h.big \in BOOLEAN /\ p \in Nat
      /\ tag \in 0 .. 99 /\ t \in Types /\ count \in Nat /\ value \in Seq(Bytes)
  BY DEF FieldsLie
<1>1. /\ two \in Widths /\ two \in 2 .. 8 /\ w \in Widths /\ w \in Nat /\ p2 \in Nat /\ p4 \in Nat /\ pw \in Nat
  BY <1>9, WordOf DEF Widths
<1>2. code \in 0 .. 18 /\ TypeOf(code) = t
  BY <1>9, Codes
<1> HIDE DEF two, w, p2, p4, pw, code
<1>3. code \in 0 .. 99 /\ code \in Int /\ tag \in Int /\ count \in Int
  BY <1>2, <1>9
<1>4. NumberAt(h, f, p, two) = tag
  <2>1. Lies(f, p, Encoded(h.order, tag, two))
    BY DEF FieldsLie, two
  <2>2. NumberAt(h, f, p, two) = tag % Power[two]
    BY <1>1, <1>3, <1>9, <2>1, NumberLies
  <2> QED
    BY <1>1, <1>9, <2>2, SmallNumbers
<1>5. NumberAt(h, f, p2, two) = code
  <2>1. Lies(f, p2, Encoded(h.order, code, two))
    BY DEF FieldsLie, two, p2, code
  <2>2. NumberAt(h, f, p2, two) = code % Power[two]
    BY <1>1, <1>3, <1>9, <2>1, NumberLies
  <2> QED
    BY <1>1, <1>3, <2>2, SmallNumbers
<1>6. NumberAt(h, f, p4, w) = count
  <2>1. Lies(f, p4, Encoded(h.order, count, w)) /\ count < Power[w]
    BY DEF FieldsLie, w, p4
  <2>2. NumberAt(h, f, p4, w) = count % Power[w]
    BY <1>1, <1>3, <1>9, <2>1, NumberLies
  <2> QED
    BY <1>1, <1>9, <2>1, <2>2, Fits
<1>7. NumberAt(h, f, pw, w) = Decoded(h.order, value)
  <2>1. Lies(f, pw, value) /\ Len(value) = w
    BY DEF FieldsLie, w, pw
  <2>2. value \in Seq(Int)
    <3>1. Bytes \subseteq Int
      BY BaseIs DEF Bytes
    <3> QED
      BY <1>9, <3>1, SeqWider
  <2>3. Stored(f, pw, w) = value
    BY <1>1, <1>9, <2>1, <2>2, LiesStored
  <2> QED
    BY <2>3 DEF NumberAt
<1>8. /\ NumberAt(h, f, p, 2) = tag /\ TypeOf(NumberAt(h, f, p + 2, 2)) = t /\ NumberAt(h, f, p + 4, Word(h)) = count
      /\ NumberAt(h, f, p + 4 + Word(h), Word(h)) = Decoded(h.order, value)
  BY <1>2, <1>4, <1>5, <1>6, <1>7 DEF two, w, p2, p4, pw
<1> QED
  BY <1>8, Zenon DEF EntryAt, Raw

\* What ReadIFD makes of entries with a tag each, whose values are all there.
Listed(h, f, o, n, es) ==
    /\ n \in Nat /\ NumberAt(h, f, o, CountSize(h)) = n /\ DirectoryThere(h, f, o)
    /\ \A i \in 1 .. n : EntryAt(h, f, o + CountSize(h) + (i - 1) * EntrySize(h)) = es[i]
    /\ \A i, j \in 1 .. n : es[i].tag = es[j].tag => i = j
    /\ \A i \in 1 .. n : ~ DataFails(h, f, es[i])

ListRead(d, h, f, o, n, es) ==
    /\ d.ok /\ d.next = NumberAt(h, f, EntriesEnd(h, f, o), Word(h))
    /\ DOMAIN d.entries = {es[i].tag : i \in 1 .. n}
    /\ \A i \in 1 .. n : d.entries[es[i].tag] = [es[i] EXCEPT !.data = EntryData(h, f, es[i])]

LEMMA DirectoryRead ==
    ASSUME NEW h, NEW f, NEW o, NEW n, NEW es, Listed(h, f, o, n, es), NEW d, d = ReadIFD(h, f, o)
    PROVE  ListRead(d, h, f, o, n, es)
<1>0. /\ n \in Nat /\ NumberAt(h, f, o, CountSize(h)) = n /\ DirectoryThere(h, f, o)
      /\ \A i \in 1 .. n : EntryAt(h, f, o + CountSize(h) + (i - 1) * EntrySize(h)) = es[i]
      /\ \A i, j \in 1 .. n : es[i].tag = es[j].tag => i = j
      /\ \A i \in 1 .. n : ~ DataFails(h, f, es[i])
  BY Zenon DEF Listed
<1> DEFINE count == NumberAt(h, f, o, CountSize(h))
           read == [i \in 1 .. count |-> EntryAt(h, f, o + CountSize(h) + (i - 1) * EntrySize(h))]
           last == {i \in 1 .. count : \A j \in i + 1 .. count : read[j].tag # read[i].tag}
           entry0(tag) == read[CHOOSE i \in last : read[i].tag = tag]
           all == [tag \in {read[i].tag : i \in last} |-> [entry0(tag) EXCEPT !.data = EntryData(h, f, entry0(tag))]]
           next == NumberAt(h, f, EntriesEnd(h, f, o), Word(h))
<1>1. ReadIFD(h, f, o) = IF ~ DirectoryThere(h, f, o) \/ \E i \in last : DataFails(h, f, read[i])
                         THEN NoIFD
                         ELSE [ok |-> TRUE, entries |-> all, next |-> next]
  BY Zenon DEF ReadIFD
<1>2. count = n
  BY <1>0
<1> HIDE DEF count
<1>3. \A i \in 1 .. n : read[i] = es[i]
  BY <1>0, <1>2
<1> HIDE DEF read
<1>4. last = 1 .. n
  <2>1. ASSUME NEW i \in 1 .. n, NEW j \in i + 1 .. n PROVE read[j].tag # read[i].tag
    <3>1. j \in 1 .. n /\ j # i
      OBVIOUS
    <3> QED
      BY <1>0, <1>3, <3>1
  <2> QED
    BY <1>0, <1>2, <2>1
<1> HIDE DEF last
<1>5. ~ \E i \in last : DataFails(h, f, read[i])
  BY <1>0, <1>3, <1>4
<1> HIDE DEF all, next
<1>6. d = [ok |-> TRUE, entries |-> all, next |-> next]
  BY <1>0, <1>1, <1>5
<1>7. \A i \in 1 .. n : entry0(es[i].tag) = es[i]
  <2> SUFFICES ASSUME NEW i \in 1 .. n PROVE entry0(es[i].tag) = es[i]
    OBVIOUS
  <2> DEFINE k == CHOOSE j \in last : read[j].tag = es[i].tag
  <2>1. k \in last /\ read[k].tag = es[i].tag
    <3>1. i \in last /\ read[i].tag = es[i].tag
      BY <1>3, <1>4
    <3> QED
      BY <3>1
  <2> HIDE DEF k
  <2>2. k = i
    BY <1>0, <1>3, <1>4, <2>1
  <2>3. read[k] = es[i]
    BY <1>3, <2>2
  <2> QED
    BY <2>3 DEF k
<1> HIDE DEF entry0
<1>8. {read[i].tag : i \in last} = {es[i].tag : i \in 1 .. n}
  BY <1>3, <1>4
<1>9. all = [tag \in {es[i].tag : i \in 1 .. n} |-> [entry0(tag) EXCEPT !.data = EntryData(h, f, entry0(tag))]]
  BY <1>8, Zenon DEF all
<1>10. DOMAIN all = {es[i].tag : i \in 1 .. n}
  BY <1>9, Zenon
<1>11. ASSUME NEW i \in 1 .. n PROVE all[es[i].tag] = [es[i] EXCEPT !.data = EntryData(h, f, es[i])]
  <2>1. es[i].tag \in {es[j].tag : j \in 1 .. n}
    OBVIOUS
  <2>2. all[es[i].tag] = [entry0(es[i].tag) EXCEPT !.data = EntryData(h, f, entry0(es[i].tag))]
    BY <1>9, <2>1, Zenon
  <2> QED
    BY <1>7, <2>2, Zenon
<1>12. d.ok /\ d.next = next /\ d.entries = all
  BY <1>6
<1> HIDE DEF last, read, count, entry0
<1> QED
  BY <1>10, <1>11, <1>12, Zenon DEF next, ListRead

---------------------------------------------------------------------------
(* The caller's file.                                                      *)

\* How many bytes a reader takes the value for.
Size(e) == e.count * ByteSize(e.type)

LEMMA SizeIs ==
    ASSUME EntryInv
    PROVE  /\ Size(entry) \in Nat
           /\ Size(entry) = Len(entry.data) \/ (entry.type = "ASCII" /\ Size(entry) = Len(entry.data) + 1)
           /\ entry.type # "ASCII" => Size(entry) = Len(entry.data)
<1> DEFINE n == ByteSize(entry.type)
           c == entry.count
           l == Len(entry.data)
           vs == given.values
<1>1. entry \in EntriesSet /\ hdr \in Headers
  BY DEF EntryInv
<1>2. c \in Nat /\ l \in Nat /\ entry.type \in Types
  BY <1>1, EntryIs
<1>3. n \in Nat
  <2>1. ByteSize("Nil") = 0 /\ \A t \in DataTypes : ByteSize(t) \in {1, 2, 4, 8}
    BY Sizes
  <2>2. entry.type = "Nil" \/ entry.type \in DataTypes
    BY <1>2, TypesAre
  <2> QED
    BY <2>1, <2>2
<1>4. hdr.order \in Orders
  BY <1>1 DEF Headers
<1>5. c * n = l \/ (entry.type = "ASCII" /\ c * n = l + 1)
  <2>1. CASE given.kind = "none" /\ entry.data = <<>> /\ entry.count = 0
    <3>1. c = 0 /\ l = 0
      BY <2>1, EmptySeq
    <3> HIDE DEF c, l, n
    <3> QED
      BY <1>3, <3>1
  <2>2. CASE /\ entry.type \in IntTypes \cup {"Float", "Double"} /\ vs \in Seq(Int)
             /\ entry.data = EncodedAll(hdr.order, vs, n) /\ entry.count = Len(vs)
    <3>1. n \in Widths
      BY <2>2, Sizes
    <3> HIDE DEF n, vs
    <3>2. Len(EncodedAll(hdr.order, vs, n)) = Len(vs) * n
      BY <1>4, <2>2, <3>1, EncodedAllIs
    <3> QED
      BY <2>2, <3>2
  <2>3. CASE /\ entry.type \in {"Rational", "SRational"}
             /\ \E us \in Seq(Int) : vs = Pairs(us) /\ entry.count = Len(us)
             /\ entry.data = EncodedAll(hdr.order, FlattenSeq(vs), 4)
    <3>1. PICK us \in Seq(Int) : vs = Pairs(us) /\ entry.count = Len(us)
      BY <2>3
    <3> DEFINE four == 4
               u == FlattenSeq(vs)
    <3>2. u \in Seq(Int) /\ Len(u) = Len(us) * 2
      BY <3>1, PairsAre
    <3>3. four \in Widths /\ entry.data = EncodedAll(hdr.order, u, four)
      BY <2>3 DEF Widths
    <3> HIDE DEF four, u
    <3>4. Len(EncodedAll(hdr.order, u, four)) = Len(u) * four
      BY <1>4, <3>2, <3>3, EncodedAllIs
    <3>5. l = (c * 2) * 4
      BY <3>1, <3>2, <3>3, <3>4 DEF four
    <3>6. n = 8
      BY <2>3, Sizes
    <3> HIDE DEF n, c, l
    <3> QED
      BY <1>2, <3>5, <3>6
  <2>4. CASE /\ entry.type = "ASCII" /\ entry.count = l + 1
    <3>1. n = 1 /\ c = l + 1
      BY <2>4, Sizes
    <3> HIDE DEF n, c, l
    <3> QED
      BY <1>2, <2>4, <3>1
  <2>5. CASE /\ entry.type = "Undefined" /\ entry.count = l
    <3>1. n = 1 /\ c = l
      BY <2>5, Sizes
    <3> HIDE DEF n, c, l
    <3> QED
      BY <1>2, <3>1
  <2> QED
    BY <2>1, <2>2, <2>3, <2>4, <2>5 DEF EntryInv, Filled
<1>6. c * n \in Nat
  BY <1>2, <1>3
<1> QED
  BY <1>5, <1>6 DEF Size

\* Where the five parts of the file lie.
Second(h) == 16 + CountSize(h)
Third(h)  == Second(h) + EntrySize(h)
End(h)    == Third(h) + Word(h)

Laid(u, a, b, c, d, e) ==
    /\ Len(u) = Len(a) + Len(b) + Len(c) + Len(d) + Len(e)
    /\ Lies(u, 0, a) /\ Lies(u, Len(a), b) /\ Lies(u, Len(a) + Len(b), c)
    /\ Lies(u, Len(a) + Len(b) + Len(c), d) /\ Lies(u, Len(a) + Len(b) + Len(c) + Len(d), e)

LEMMA FivePlaces ==
    ASSUME NEW S, NEW a \in Seq(S), NEW b \in Seq(S), NEW c \in Seq(S), NEW d \in Seq(S), NEW e \in Seq(S),
           NEW u, u = (((a \o b) \o c) \o d) \o e
    PROVE  u \in Seq(S) /\ Laid(u, a, b, c, d, e)
<1> DEFINE abc == (a \o b) \o c
           v == (abc \o d) \o e
           z == 0
           m == Len(a)
           n == Len(a) + Len(b)
           p == Len(a) + Len(b) + Len(c)
<1>1. /\ abc \in Seq(S) /\ Len(abc) = Len(a) + Len(b) + Len(c)
      /\ Lies(abc, 0, a) /\ Lies(abc, Len(a), b) /\ Lies(abc, Len(a) + Len(b), c)
  BY ThreeLie
<1>2. Len(a) \in Nat /\ Len(b) \in Nat /\ Len(c) \in Nat /\ Len(d) \in Nat /\ Len(e) \in Nat
  OBVIOUS
<1> HIDE DEF abc
<1>3. /\ v \in Seq(S) /\ Len(v) = Len(abc) + Len(d) + Len(e)
      /\ Lies(v, 0, abc) /\ Lies(v, Len(abc), d) /\ Lies(v, Len(abc) + Len(d), e)
  BY <1>1, ThreeLie
<1>4. z \in Nat /\ m \in Nat /\ n \in Nat /\ Lies(abc, z, a) /\ Lies(abc, m, b) /\ Lies(abc, n, c)
  BY <1>1, <1>2
<1> HIDE DEF v, z, m, n
<1>5. Lies(v, z, a)
  BY <1>1, <1>3, <1>4, LiesThrough
<1>6. Lies(v, m, b)
  BY <1>1, <1>3, <1>4, LiesThrough
<1>7. Lies(v, n, c)
  BY <1>1, <1>3, <1>4, LiesThrough
<1>8. Lies(v, p, d) /\ Lies(v, p + Len(d), e) /\ Len(v) = p + Len(d) + Len(e)
  BY <1>1, <1>3
<1>9. u = v
  BY DEF abc, v
<1> QED
  BY <1>3, <1>5, <1>6, <1>7, <1>8, <1>9 DEF Laid, z, m, n

\* What the four or eight bytes of an entry's value are.
Put(h, e) == IF Inline(h, e) THEN Padded(e.data, Word(h)) ELSE Encoded(h.order, End(h), Word(h))

\* Where a caller's file has its header, the number of its entries, the fields of the one entry,
\* the offset of no further directory, and the value that does not fit the entry.
Written(f, h, e) ==
    /\ f \in Seq(Bytes) /\ f \in Seq(Int) /\ Len(f) = End(h) + Len(EntryRest(h, e))
    /\ Headed(f, h, 16)
    /\ Lies(f, 16, Encoded(h.order, 1, CountSize(h)))
    /\ Lies(f, Second(h), Encoded(h.order, e.tag, 2))
    /\ Lies(f, Second(h) + 2, Encoded(h.order, TypeCode[e.type], 2))
    /\ Lies(f, Second(h) + 4, Encoded(h.order, e.count, Word(h)))
    /\ Lies(f, Second(h) + 4 + Word(h), Put(h, e))
    /\ Lies(f, Third(h), Encoded(h.order, 0, Word(h)))
    /\ Lies(f, End(h), EntryRest(h, e))

LEMMA FileIs ==
    ASSUME hdr \in Headers, entry \in EntriesSet
    PROVE  Written(FileOf(entry), hdr, entry)
<1> DEFINE first == 16
           e2 == [entry EXCEPT !.offset = End(hdr)]
           a == HeaderBytes(hdr, first)
           b == Encoded(hdr.order, 1, CountSize(hdr))
           c == EntryBytes(hdr, e2)
           d == Encoded(hdr.order, 0, Word(hdr))
           r == EntryRest(hdr, entry)
           f == (((a \o b) \o c) \o d) \o r
           w == Word(hdr)
           cs == CountSize(hdr)
<1>1. FileOf(entry) = f
  <2>1. FileOf(entry) = (((a \o b) \o EntryBytes(hdr, [entry EXCEPT !.offset = first + cs + EntrySize(hdr) + w])) \o d) \o r
    BY Zenon DEF FileOf
  <2>2. End(hdr) = first + cs + EntrySize(hdr) + w
    BY DEF End, Third, Second
  <2> QED
    BY <2>1, <2>2, Zenon
<1>2. /\ w \in Widths /\ w \in Nat /\ cs \in Widths /\ cs \in Nat /\ EntrySize(hdr) \in Nat
      /\ EntrySize(hdr) = 4 + 2 * w /\ hdr.order \in Orders
  BY WordIs
<1>3. /\ Second(hdr) \in Nat /\ Third(hdr) \in Nat /\ End(hdr) \in Nat
      /\ Second(hdr) = 16 + cs /\ Third(hdr) = Second(hdr) + EntrySize(hdr) /\ End(hdr) = Third(hdr) + w
  BY <1>2 DEF Second, Third, End
<1>4. /\ e2 \in EntriesSet /\ e2.tag = entry.tag /\ e2.type = entry.type /\ e2.count = entry.count
      /\ e2.data = entry.data /\ e2.offset = End(hdr)
  BY <1>3 DEF EntriesSet
<1>5. first \in Nat
  OBVIOUS
<1> HIDE DEF e2, first
<1>6. a \in Seq(Bytes) /\ Len(a) = 16 /\ Headed(a, hdr, first)
  BY <1>5, HeaderBytesAre
<1>7. b \in Seq(Bytes) /\ Len(b) = cs
  <2> DEFINE v == 1
  <2>1. v \in Int
    OBVIOUS
  <2> HIDE DEF v, cs
  <2>2. Encoded(hdr.order, v, cs) \in Seq(Bytes) /\ Len(Encoded(hdr.order, v, cs)) = cs
    BY <1>2, <2>1, EncodedBytes
  <2> QED
    BY <2>2 DEF v, cs
<1>8. d \in Seq(Bytes) /\ Len(d) = w
  <2> DEFINE v == 0
  <2>1. v \in Int
    OBVIOUS
  <2> HIDE DEF v, w
  <2>2. Encoded(hdr.order, v, w) \in Seq(Bytes) /\ Len(Encoded(hdr.order, v, w)) = w
    BY <1>2, <2>1, EncodedBytes
  <2> QED
    BY <2>2 DEF v, w
<1>9. r \in Seq(Bytes)
  <2>1. entry.data \in Seq(Bytes)
    BY EntryIs
  <2>2. << >> \in Seq(Bytes)
    OBVIOUS
  <2> QED
    BY <2>1, <2>2 DEF EntryRest
<1>10. /\ c \in Seq(Bytes) /\ Len(c) = EntrySize(hdr)
       /\ Lies(c, 0, Encoded(hdr.order, entry.tag, 2))
       /\ Lies(c, 2, Encoded(hdr.order, TypeCode[entry.type], 2))
       /\ Lies(c, 4, Encoded(hdr.order, entry.count, w))
       /\ Lies(c, 4 + w, Put(hdr, entry))
  <2>1. /\ c \in Seq(Bytes) /\ Len(c) = EntrySize(hdr)
        /\ Lies(c, 0, Encoded(hdr.order, e2.tag, 2))
        /\ Lies(c, 2, Encoded(hdr.order, TypeCode[e2.type], 2))
        /\ Lies(c, 4, Encoded(hdr.order, e2.count, w))
        /\ Lies(c, 4 + w, IF Inline(hdr, e2) THEN Padded(e2.data, w) ELSE Encoded(hdr.order, e2.offset, w))
    BY <1>4, EntryBytesAre
  <2>2. Inline(hdr, e2) <=> Inline(hdr, entry)
    BY <1>4 DEF Inline
  <2> QED
    BY <1>4, <2>1, <2>2 DEF Put
<1>11. f \in Seq(Bytes) /\ f \in Seq(Int)
  <2> HIDE DEF a, b, c, d, r
  <2>1. f \in Seq(Bytes)
    BY <1>6, <1>7, <1>8, <1>9, <1>10, FivePlaces
  <2> HIDE DEF f
  <2>2. Bytes \subseteq Int
    BY BaseIs DEF Bytes
  <2> QED
    BY <2>1, <2>2, SeqWider
<1>12. /\ Len(f) = End(hdr) + Len(r) /\ Lies(f, 0, a) /\ Lies(f, 16, b) /\ Lies(f, Second(hdr), c)
       /\ Lies(f, Third(hdr), d) /\ Lies(f, End(hdr), r)
  <2> HIDE DEF a, b, c, d, r
  <2>1. f = (((a \o b) \o c) \o d) \o r
    OBVIOUS
  <2> HIDE DEF f
  <2>3. a \in Seq(Bytes) /\ b \in Seq(Bytes) /\ c \in Seq(Bytes) /\ d \in Seq(Bytes) /\ r \in Seq(Bytes)
    BY <1>6, <1>7, <1>8, <1>9, <1>10
  <2>4. f \in Seq(Bytes) /\ Laid(f, a, b, c, d, r)
    BY <2>1, <2>3, FivePlaces
  <2>2. /\ Len(a) = 16 /\ Len(a) + Len(b) = Second(hdr) /\ Len(a) + Len(b) + Len(c) = Third(hdr)
        /\ Len(a) + Len(b) + Len(c) + Len(d) = End(hdr)
    BY <1>2, <1>3, <1>6, <1>7, <1>8, <1>10
  <2> QED
    BY <2>2, <2>4 DEF Laid
<1> HIDE DEF f, a, b, c, d, r, w, cs
<1>13. Headed(f, hdr, first)
  <2>1. ASSUME NEW s \in Seq(Bytes), NEW o \in Nat, Lies(a, o, s) PROVE Lies(f, o, s)
    BY <1>6, <1>11, <1>12, <2>1, LiesThrough
  <2>2. \A v \in Int : Encoded(hdr.order, v, 2) \in Seq(Bytes) /\ Encoded(hdr.order, v, 4) \in Seq(Bytes)
                       /\ Encoded(hdr.order, v, 8) \in Seq(Bytes)
    <3> DEFINE two == 2
               four == 4
               eight == 8
    <3>1. two \in Widths /\ four \in Widths /\ eight \in Widths
      BY DEF Widths
    <3> HIDE DEF two, four, eight
    <3>2. \A v \in Int : Encoded(hdr.order, v, two) \in Seq(Bytes) /\ Encoded(hdr.order, v, four) \in Seq(Bytes)
                         /\ Encoded(hdr.order, v, eight) \in Seq(Bytes)
      BY <1>2, <3>1, EncodedBytes
    <3> QED
      BY <3>2 DEF two, four, eight
  <2>3. Version(hdr) \in Int /\ first \in Int /\ 8 \in Int /\ 0 \in Int /\ 0 \in Nat /\ 2 \in Nat /\ 4 \in Nat /\ 6 \in Nat /\ 8 \in Nat
    BY <1>5 DEF Version
  <2>4. ByteOrderMark(hdr.order) \in Seq(Bytes)
    BY <1>2, MarkIs
  <2>5. Lies(f, 0, ByteOrderMark(hdr.order))
    BY <1>6, <2>1, <2>3, <2>4 DEF Headed
  <2>6. Lies(f, 2, Encoded(hdr.order, Version(hdr), 2))
    BY <1>6, <2>1, <2>2, <2>3 DEF Headed
  <2>7. ASSUME hdr.big
        PROVE  /\ Lies(f, 4, Encoded(hdr.order, 8, 2)) /\ Lies(f, 6, Encoded(hdr.order, 0, 2))
               /\ Lies(f, 8, Encoded(hdr.order, first, 8))
    BY <1>6, <2>1, <2>2, <2>3, <2>7 DEF Headed
  <2>8. ASSUME ~ hdr.big PROVE Lies(f, 4, Encoded(hdr.order, first, 4))
    BY <1>6, <2>1, <2>2, <2>3, <2>8 DEF Headed
  <2> QED
    BY <2>5, <2>6, <2>7, <2>8 DEF Headed
<1>14. ASSUME NEW s \in Seq(Bytes), NEW o \in Nat, Lies(c, o, s) PROVE Lies(f, Second(hdr) + o, s)
  BY <1>3, <1>10, <1>11, <1>12, <1>14, LiesIn
<1>15. Lies(f, Second(hdr) + 0, Encoded(hdr.order, entry.tag, 2))
  <2>1. Encoded(hdr.order, entry.tag, 2) \in Seq(Bytes)
    <3> DEFINE two == 2
               v == entry.tag
    <3>1. two \in Widths /\ v \in Int
      BY EntryIs DEF Widths
    <3> HIDE DEF two, v
    <3>2. Encoded(hdr.order, v, two) \in Seq(Bytes)
      BY <1>2, <3>1, EncodedBytes
    <3> QED
      BY <3>2 DEF two, v
  <2> QED
    BY <1>10, <1>14, <2>1
<1>16. Lies(f, Second(hdr) + 2, Encoded(hdr.order, TypeCode[entry.type], 2))
  <2>1. Encoded(hdr.order, TypeCode[entry.type], 2) \in Seq(Bytes)
    <3> DEFINE two == 2
               v == TypeCode[entry.type]
    <3>1. two \in Widths /\ v \in Int
      <4>1. v \in 0 .. 18
        BY EntryIs, Codes
      <4> HIDE DEF v
      <4> QED
        BY <4>1 DEF Widths
    <3> HIDE DEF two, v
    <3>2. Encoded(hdr.order, v, two) \in Seq(Bytes)
      BY <1>2, <3>1, EncodedBytes
    <3> QED
      BY <3>2 DEF two, v
  <2> QED
    BY <1>10, <1>14, <2>1
<1>17. Lies(f, Second(hdr) + 4, Encoded(hdr.order, entry.count, w))
  <2>1. Encoded(hdr.order, entry.count, w) \in Seq(Bytes)
    <3> DEFINE v == entry.count
    <3>1. v \in Int
      BY EntryIs
    <3> HIDE DEF v
    <3>2. Encoded(hdr.order, v, w) \in Seq(Bytes)
      BY <1>2, <3>1, EncodedBytes
    <3> QED
      BY <3>2 DEF v
  <2> QED
    BY <1>10, <1>14, <2>1
<1>18. Put(hdr, entry) \in Seq(Bytes)
  <2>1. Encoded(hdr.order, End(hdr), w) \in Seq(Bytes)
    <3>1. End(hdr) \in Int
      BY <1>3
    <3> QED
      BY <1>2, <3>1, EncodedBytes
  <2>2. Padded(entry.data, w) \in Seq(Bytes)
    <3>1. 0 \in Bytes /\ entry.data \in Seq(Bytes)
      BY BaseIs, EntryIs DEF Bytes
    <3> QED
      BY <1>2, <3>1, PaddedIs
  <2> QED
    BY <2>1, <2>2 DEF Put, w
<1>19. Lies(f, Second(hdr) + (4 + w), Put(hdr, entry))
  <2>1. 4 + w \in Nat
    BY <1>2
  <2> QED
    BY <1>10, <1>14, <1>18, <2>1
<1>20. Lies(f, Second(hdr) + 4 + w, Put(hdr, entry)) /\ Lies(f, Second(hdr), Encoded(hdr.order, entry.tag, 2))
  <2>1. Second(hdr) + (4 + w) = Second(hdr) + 4 + w /\ Second(hdr) + 0 = Second(hdr)
    BY <1>2, <1>3
  <2> QED
    BY <1>15, <1>19, <2>1
<1> QED
  BY <1>1, <1>11, <1>12, <1>13, <1>16, <1>17, <1>20 DEF Written, b, d, r, w, cs, first

LEMMA PutIs ==
    ASSUME hdr \in Headers, entry \in EntriesSet
    PROVE  Put(hdr, entry) \in Seq(Bytes) /\ Len(Put(hdr, entry)) = Word(hdr)
<1> DEFINE w == Word(hdr)
           v == End(hdr)
<1>1. w \in Widths /\ w \in Nat /\ hdr.order \in Orders /\ v \in Int
  BY WordIs DEF End, Third, Second
<1>2. entry.data \in Seq(Bytes) /\ 0 \in Bytes
  BY BaseIs, EntryIs DEF Bytes
<1> HIDE DEF w, v
<1>3. Encoded(hdr.order, v, w) \in Seq(Bytes) /\ Len(Encoded(hdr.order, v, w)) = w
  BY <1>1, EncodedBytes
<1>4. Padded(entry.data, w) \in Seq(Bytes) /\ Len(Padded(entry.data, w)) = w
  BY <1>1, <1>2, PaddedIs
<1> QED
  BY <1>3, <1>4 DEF Put, v, w

\* The entry as it is read, before its data.
AsRead(h) == Raw(entry.tag, entry.type, entry.count, Decoded(h.order, Put(hdr, entry)))

\* Its value is found again, whether it is in the entry or outside it.
LEMMA DataRead ==
    ASSUME EntryInv, ~ StringTakenForOffset, NEW f, Written(f, hdr, entry),
           NEW h, h.order = hdr.order, h.big = hdr.big
    PROVE  /\ ~ DataFails(h, f, AsRead(h))
           /\ \E n \in Nat : Len(entry.data) <= n /\ EntryData(h, f, AsRead(h)) = Padded(entry.data, n)
<1> DEFINE w == Word(hdr)
           v == End(hdr)
           l == Len(entry.data)
           N == Size(entry)
           r == AsRead(h)
           put == Put(hdr, entry)
<1>1. hdr \in Headers /\ entry \in EntriesSet
  BY DEF EntryInv
<1>2. /\ w \in Widths /\ w \in Nat /\ w \in 2 .. 8 /\ hdr.order \in Orders /\ v \in 16 .. 99 /\ Word(h) = w
      /\ HeadSize(h) <= 16
  BY <1>1, WordIs DEF End, Third, Second, Word, HeadSize
<1>3. /\ entry.data \in Seq(Bytes) /\ l \in Nat /\ N \in Nat /\ (N = l \/ (entry.type = "ASCII" /\ N = l + 1))
  BY <1>1, EntryIs, SizeIs
<1>4. entry.type = "ASCII" => l # w
  BY DEF StringTakenForOffset
<1>5. put \in Seq(Bytes) /\ Len(put) = w
  BY <1>1, PutIs
<1>6. (Inline(hdr, entry) <=> l <= w)
  BY DEF Inline
<1>7. r.count * ByteSize(r.type) = N /\ r.offset = Decoded(hdr.order, put)
  BY DEF AsRead, Raw, Size
<1>8. f \in Seq(Bytes) /\ Len(f) = v + Len(EntryRest(hdr, entry)) /\ Lies(f, v, EntryRest(hdr, entry))
  BY DEF Written
<1> HIDE DEF r
<1>9. CASE N <= w
  <2>1. ~ DataFails(h, f, r)
    BY <1>2, <1>3, <1>7, <1>9 DEF DataFails
  <2>2. l <= w /\ put = Padded(entry.data, w)
    BY <1>2, <1>3, <1>6, <1>9 DEF Put
  <2>3. EntryData(h, f, r) = Encoded(hdr.order, Decoded(hdr.order, put), w)
    BY <1>2, <1>7, <1>9, Zenon DEF EntryData
  <2>4. EntryData(h, f, r) = put
    <3> HIDE DEF put, w
    <3>1. Encoded(hdr.order, Decoded(hdr.order, put), w) = put
      BY <1>2, <1>5, EncodedDecoded
    <3> QED
      BY <2>3, <3>1
  <2> HIDE DEF put, w
  <2> QED
    BY <1>2, <2>1, <2>2, <2>4 DEF r
<1>10. CASE ~ (N <= w)
  <2>1. l > w
    BY <1>2, <1>3, <1>4, <1>10
  <2>2. EntryRest(hdr, entry) = entry.data /\ put = Encoded(hdr.order, v, w)
    <3>1. ~ Inline(hdr, entry)
      BY <1>2, <1>3, <1>6, <2>1
    <3> QED
      BY <3>1 DEF EntryRest, Put
  <2>3. r.offset = v
    <3>1. r.offset = Decoded(hdr.order, Encoded(hdr.order, v, w))
      BY <1>7, <2>2
    <3> HIDE DEF v, w
    <3>2. v \in Int /\ v \in 0 .. 99
      BY <1>2
    <3>3. Decoded(hdr.order, Encoded(hdr.order, v, w)) = v % Power[w]
      BY <1>2, <3>2, DecodedEncoded
    <3>4. v % Power[w] = v
      BY <1>2, <3>2, SmallNumbers
    <3> QED
      BY <3>1, <3>3, <3>4
  <2> HIDE DEF put, v, w
  <2>4. Len(f) = v + l /\ Lies(f, v, entry.data)
    BY <1>8, <2>2
  <2> HIDE DEF l, N
  <2>5. ~ DataFails(h, f, r)
    <3>1. ~ (v < HeadSize(h)) /\ ~ (v >= Len(f))
      <4>1. HeadSize(h) \in {8, 16}
        BY DEF HeadSize
      <4> QED
        BY <1>2, <1>3, <2>1, <2>4, <4>1
    <3> QED
      BY <2>3, <3>1 DEF DataFails
  <2>6. Stored(f, v, N) = entry.data
    <3>1. Stored(f, v, l) = entry.data
      <4>1. v \in Nat /\ l = Len(entry.data)
        BY <1>2 DEF l
      <4> QED
        BY <1>3, <1>8, <2>4, <4>1, LiesStored
    <3>2. (IF v + N <= Len(f) THEN v + N ELSE Len(f)) = (IF v + l <= Len(f) THEN v + l ELSE Len(f))
      BY <1>2, <1>3, <2>4
    <3>3. Stored(f, v, N) = Stored(f, v, l)
      BY <3>2, Zenon DEF Stored
    <3> QED
      BY <3>1, <3>3
  <2>7. EntryData(h, f, r) = Padded(Stored(f, v, N), N)
    <3>1. ~ (r.count * ByteSize(r.type) <= Word(h))
      BY <1>2, <1>7, <1>10
    <3>2. EntryData(h, f, r) = Padded(Stored(f, r.offset, r.count * ByteSize(r.type)), r.count * ByteSize(r.type))
      BY <3>1, Zenon DEF EntryData
    <3> QED
      BY <1>7, <2>3, <3>2, Zenon
  <2>8. N \in Nat /\ l <= N /\ EntryData(h, f, r) = Padded(entry.data, N)
    BY <1>3, <2>6, <2>7
  <2> QED
    BY <2>5, <2>8 DEF l, r
<1> QED
  BY <1>9, <1>10

\* What is read of a caller's file.
ReadEntry(d, read) ==
    /\ d.ok /\ d.next = 0 /\ DOMAIN d.entries = {entry.tag} /\ read = d.entries[entry.tag]
    /\ read.tag = entry.tag /\ read.type = entry.type /\ read.count = entry.count
    /\ \E n \in Nat : Len(entry.data) <= n /\ read.data = Padded(entry.data, n)

LEMMA HeadRead ==
    ASSUME hdr \in Headers, NEW f, Written(f, hdr, entry)
    PROVE  /\ ReadHeader(f).ok /\ ReadHeader(f).order = hdr.order /\ ReadHeader(f).big = hdr.big
           /\ ReadHeader(f).first = 16
<1> DEFINE first == 16
           w == Word(hdr)
<1>1. w \in Nat /\ w \in 2 .. 8 /\ f \in Seq(Int) /\ Headed(f, hdr, first)
  BY WordIs DEF Written
<1>2. first \in Nat /\ first \in 0 .. 99 /\ HeadSize(hdr) <= first
  BY DEF HeadSize
<1> HIDE DEF first, w
<1>3. first < Power[w]
  BY <1>1, <1>2, SmallNumbers
<1>4. ReadHeader(f).ok /\ ReadHeader(f).order = hdr.order /\ ReadHeader(f).big = hdr.big /\ ReadHeader(f).first = first
  BY <1>1, <1>2, <1>3, HeaderRead DEF w
<1> QED
  BY <1>4 DEF first

LEMMA DirectoryIs ==
    ASSUME EntryInv, ~ StringTakenForOffset, ~ CountIsCut, NEW f, Written(f, hdr, entry),
           NEW h, h.order = hdr.order, h.big = hdr.big, NEW first \in Nat, first = 16,
           NEW d, d = ReadIFD(h, f, first)
    PROVE  ReadEntry(d, d.entries[entry.tag])
<1> DEFINE w == Word(hdr)
           cs == CountSize(hdr)
           v == End(hdr)
           second == Second(hdr)
           third == Third(hdr)
           put == Put(hdr, entry)
           r == AsRead(h)
<1>1. hdr \in Headers /\ entry \in EntriesSet
  BY DEF EntryInv
<1>2. /\ w \in Widths /\ w \in Nat /\ w \in 2 .. 8 /\ cs \in Widths /\ cs \in Nat /\ cs \in 2 .. 8
      /\ hdr.order \in Orders /\ hdr.big \in BOOLEAN /\ v \in Nat /\ second \in Nat /\ third \in Nat
      /\ second = 16 + cs /\ third = second + EntrySize(hdr) /\ v = third + w /\ EntrySize(hdr) \in Nat
  BY <1>1, WordIs DEF End, Third, Second
<1>3. f \in Seq(Bytes) /\ f \in Seq(Int) /\ Len(f) = v + Len(EntryRest(hdr, entry)) 
  BY DEF Written
<1>4. f \in Seq(Int) /\ h.order \in Orders /\ h.big \in BOOLEAN
  BY <1>2, <1>3
<1>5. h.order = hdr.order
  OBVIOUS
<1>6. Word(h) = w /\ CountSize(h) = cs /\ EntrySize(h) = EntrySize(hdr)
  BY <1>5 DEF Word, CountSize, EntrySize
<1> HIDE DEF w, cs, v, second, third, put, r
<1>7. NumberAt(h, f, first, cs) = 1
  <2> DEFINE u == 1
  <2>1. u \in Int /\ u \in 0 .. 99
    OBVIOUS
  <2>2. Lies(f, first, Encoded(h.order, u, cs))
    BY <1>5 DEF Written, cs
  <2> HIDE DEF u
  <2>5. cs \in Widths /\ u \in Int /\ f \in Seq(Int) /\ h.order \in Orders /\ first \in Nat
    BY <1>2, <1>4, <2>1
  <2>3. NumberAt(h, f, first, cs) = u % Power[cs]
    BY <2>5, <2>2, NumberLies
  <2>4. NumberAt(h, f, first, cs) = u
    BY <1>2, <2>1, <2>3, SmallNumbers
  <2> QED
    BY <2>4 DEF u
<1>8. EntriesEnd(h, f, first) = third
  BY <1>2, <1>6, <1>7 DEF EntriesEnd
<1>9. DirectoryThere(h, f, first)
  <2>1. Len(EntryRest(hdr, entry)) \in Nat
    <3>1. entry.data \in Seq(Bytes)
      BY <1>1, EntryIs
    <3> QED
      BY <3>1 DEF EntryRest
  <2>2. first + cs <= Len(f) /\ third + w <= Len(f)
    <3> DEFINE m == Len(EntryRest(hdr, entry))
               k == Len(f)
               z == EntrySize(hdr)
    <3>1. m \in Nat /\ k = v + m /\ z \in Nat /\ second = 16 + cs /\ third = second + z /\ v = third + w
      BY <1>2, <1>3, <2>1
    <3>2. w \in Nat /\ cs \in Nat
      BY <1>2
    <3> HIDE DEF m, k, z
    <3>3. first + cs <= k /\ third + w <= k
      BY <3>1, <3>2
    <3> QED
      BY <3>3 DEF k
  <2> QED
    BY <1>6, <1>8, <2>2 DEF DirectoryThere
<1>10. NumberAt(h, f, third, w) = 0
  <2> DEFINE u == 0
  <2>1. u \in Int /\ u \in 0 .. 99
    OBVIOUS
  <2>2. Lies(f, third, Encoded(h.order, u, w))
    BY <1>5 DEF Written, third, w
  <2> HIDE DEF u
  <2>5. w \in Widths /\ u \in Int /\ f \in Seq(Int) /\ h.order \in Orders /\ third \in Nat
    BY <1>2, <1>4, <2>1
  <2>3. NumberAt(h, f, third, w) = u % Power[w]
    BY <2>5, <2>2, NumberLies
  <2>4. NumberAt(h, f, third, w) = u
    BY <1>2, <2>1, <2>3, SmallNumbers
  <2> QED
    BY <2>4 DEF u
<1>11. EntryAt(h, f, second) = r
  <2> DEFINE tag0 == entry.tag
             t0 == entry.type
             c0 == entry.count
  <2>1. tag0 \in 1 .. 85 /\ t0 \in Types /\ c0 \in Nat
    BY <1>1, EntryIs
  <2>2. c0 < Power[Word(h)]
    <3>1. Power[w] \in Nat
      BY <1>2, Powers DEF Widths
    <3> QED
      BY <1>6, <2>1, <3>1 DEF CountIsCut, w
  <2>3. /\ Lies(f, second, Encoded(h.order, tag0, 2)) /\ Lies(f, second + 2, Encoded(h.order, TypeCode[t0], 2))
        /\ Lies(f, second + 4, Encoded(h.order, c0, Word(h))) /\ Lies(f, second + 4 + Word(h), put)
    BY <1>5, <1>6 DEF Written, second, put, w
  <2>4. put \in Seq(Bytes) /\ Len(put) = Word(h)
    BY <1>1, <1>6, PutIs DEF put, w
  <2> HIDE DEF tag0, t0, c0
  <2>5. tag0 \in 0 .. 99
    BY <2>1
  <2>6. EntryAt(h, f, second) = Raw(tag0, t0, c0, Decoded(h.order, put))
    <3>1. f \in Seq(Int) /\ h.order \in Orders /\ h.big \in BOOLEAN /\ second \in Nat
      BY <1>2, <1>4
    <3>2. FieldsLie(f, h, second, tag0, t0, c0, put)
      BY <2>1, <2>2, <2>3, <2>4, <2>5, <3>1 DEF FieldsLie
    <3> QED
      BY <3>2, EntryRead
  <2> QED
    BY <2>6, Zenon DEF tag0, t0, c0, put, r, AsRead
<1>12. ~ DataFails(h, f, r) /\ \E n \in Nat : Len(entry.data) <= n /\ EntryData(h, f, r) = Padded(entry.data, n)
  BY <1>5, DataRead DEF r
<1> DEFINE n == 1
           es == <<r>>
<1>13. /\ n \in Nat /\ NumberAt(h, f, first, CountSize(h)) = n /\ \A i \in 1 .. n : i = 1 /\ es[i] = r
       /\ \A i \in 1 .. n : EntryAt(h, f, first + CountSize(h) + (i - 1) * EntrySize(h)) = es[i]
  <2>1. first + CountSize(h) + (1 - 1) * EntrySize(h) = second
    BY <1>2, <1>6
  <2>2. \A i \in 1 .. n : i = 1 /\ es[i] = r
    OBVIOUS
  <2>3. EntryAt(h, f, first + CountSize(h) + (1 - 1) * EntrySize(h)) = r
    BY <1>11, <2>1
  <2> QED
    BY <1>6, <1>7, <2>2, <2>3
<1>14. {es[i].tag : i \in 1 .. n} = {r.tag} /\ 1 \in 1 .. n
  BY <1>13 DEF n
<1> HIDE DEF n, es
<1>15. /\ d.ok /\ d.next = NumberAt(h, f, EntriesEnd(h, f, first), Word(h))
       /\ DOMAIN d.entries = {es[i].tag : i \in 1 .. n}
       /\ \A i \in 1 .. n : d.entries[es[i].tag] = [es[i] EXCEPT !.data = EntryData(h, f, es[i])]
  <2>1. \A i, j \in 1 .. n : es[i].tag = es[j].tag => i = j
    BY <1>13
  <2>2. \A i \in 1 .. n : ~ DataFails(h, f, es[i])
    BY <1>12, <1>13
  <2>3. /\ n \in Nat /\ NumberAt(h, f, first, CountSize(h)) = n
        /\ \A i \in 1 .. n : EntryAt(h, f, first + CountSize(h) + (i - 1) * EntrySize(h)) = es[i]
    BY <1>13
  <2>4. DirectoryThere(h, f, first)
    BY <1>9
  <2>5. Listed(h, f, first, n, es)
    BY <2>1, <2>2, <2>3, <2>4 DEF Listed
  <2>6. ListRead(d, h, f, first, n, es)
    BY <2>5, DirectoryRead
  <2> QED
    BY <2>6, Zenon DEF ListRead
<1>16. d.entries[r.tag] = [r EXCEPT !.data = EntryData(h, f, r)]
  BY <1>13, <1>14, <1>15
<1>17. r.tag = entry.tag /\ r.type = entry.type /\ r.count = entry.count
  BY DEF r, AsRead, Raw
<1> DEFINE read == d.entries[entry.tag]
<1>18. /\ read.tag = entry.tag /\ read.type = entry.type /\ read.count = entry.count
       /\ read.data = EntryData(h, f, r)
  <2>1. read = [r EXCEPT !.data = EntryData(h, f, r)]
    BY <1>16, <1>17
  <2> QED
    BY <2>1, <1>17 DEF r, AsRead, Raw
<1> HIDE DEF read
<1>19. d.next = 0 /\ DOMAIN d.entries = {entry.tag}
  BY <1>6, <1>8, <1>10, <1>14, <1>15, <1>17
<1> QED
  BY <1>12, <1>15, <1>18, <1>19 DEF ReadEntry, read

LEMMA FileRead ==
    ASSUME EntryInv, ~ StringTakenForOffset, ~ CountIsCut, NEW f, Written(f, hdr, entry)
    PROVE  /\ ReadHeader(f).ok /\ ReadHeader(f).order = hdr.order /\ ReadHeader(f).big = hdr.big
           /\ ReadEntry(ReadIFD(ReadHeader(f), f, ReadHeader(f).first),
                        ReadIFD(ReadHeader(f), f, ReadHeader(f).first).entries[entry.tag])
<1> DEFINE h == ReadHeader(f)
           first == h.first
           d == ReadIFD(h, f, first)
<1>1. hdr \in Headers
  BY DEF EntryInv
<1>2. h.ok /\ h.order = hdr.order /\ h.big = hdr.big /\ h.first = 16
  BY <1>1, HeadRead
<1>3. first \in Nat /\ first = 16 /\ d = ReadIFD(h, f, first)
  BY <1>2
<1> HIDE DEF h, d, first
<1>4. ReadEntry(d, d.entries[entry.tag])
  BY <1>2, <1>3, DirectoryIs
<1> QED
  BY <1>2, <1>4 DEF h, d, first

\* A sequence that begins as another one has its subsequences.
LEMMA Within ==
    ASSUME NEW S, NEW s \in Seq(S), NEW t \in Seq(S), Lies(t, 0, s), NEW m \in Nat, NEW n \in Nat,
           1 <= m, m <= n + 1, n <= Len(s)
    PROVE  SubSeq(t, m, n) = SubSeq(s, m, n)
<1>1. Len(s) \in Nat /\ Len(t) \in Nat /\ Len(s) <= Len(t) /\ \A k \in 1 .. Len(s) : t[k] = s[k]
  BY DEF Lies
<1>2. SubSeq(s, m, n) = [k \in 1 .. n - m + 1 |-> s[m + k - 1]]
  BY <1>1, SubSeqIs
<1>3. SubSeq(t, m, n) = [k \in 1 .. n - m + 1 |-> t[m + k - 1]]
  <2>1. n <= Len(t) /\ m \in Int
    BY <1>1
  <2> QED
    BY <2>1, SubSeqIs
<1>4. \A k \in 1 .. n - m + 1 : m + k - 1 \in 1 .. Len(s)
  BY <1>1
<1>5. \A k \in 1 .. n - m + 1 : t[m + k - 1] = s[m + k - 1]
  BY <1>1, <1>4
<1>6. [k \in 1 .. n - m + 1 |-> t[m + k - 1]] = [k \in 1 .. n - m + 1 |-> s[m + k - 1]]
  BY <1>5
<1> QED
  BY <1>2, <1>3, <1>6

\* c values of n bytes each.
Holds(s, c, n) == c * n <= Len(s)

LEMMA NthWithin ==
    ASSUME NEW S, NEW s \in Seq(S), NEW t \in Seq(S), Lies(t, 0, s), NEW c \in Nat, NEW n \in Nat,
           Holds(s, c, n), NEW i \in 1 .. c
    PROVE  Nth(t, i, n) = Nth(s, i, n)
<1> DEFINE m == (i - 1) * n + 1
           k == i * n
           l == Len(s)
<1>1. l \in Nat
  OBVIOUS
<1>2. m \in Nat /\ k \in Nat /\ 1 <= m
  <2>1. (i - 1) * n \in Nat
    <3>1. i - 1 \in Nat
      OBVIOUS
    <3> QED
      BY <3>1, SMT
  <2>2. i * n \in Nat
    BY SMT
  <2> QED
    BY <2>1, <2>2
<1>3. m <= k + 1
  <2>1. k = (i - 1) * n + n
    BY SMT
  <2> DEFINE x == (i - 1) * n
  <2>2. x \in Int /\ k = x + n /\ m = x + 1
    BY <2>1
  <2> HIDE DEF x, m, k
  <2> QED
    BY <2>2
<1>4. k <= l
  <2>1. i * n <= c * n
    <3>1. c - i \in Nat
      OBVIOUS
    <3>2. (c - i) * n >= 0
      BY <3>1, SMT
    <3>3. c * n = (c - i) * n + i * n
      BY SMT
    <3> DEFINE x == (c - i) * n
               z == i * n
    <3>4. x \in Int /\ z \in Int /\ x >= 0 /\ c * n = x + z
      BY <3>2, <3>3
    <3> HIDE DEF x, z
    <3>5. z <= x + z
      BY <3>4
    <3> QED
      BY <3>4, <3>5 DEF z
  <2> DEFINE cn == c * n
  <2>2. k \in Int /\ cn \in Int /\ k <= cn /\ cn <= l
    BY <2>1 DEF Holds
  <2> HIDE DEF cn, k, l
  <2> QED
    BY <1>1, <2>2
<1> HIDE DEF m, k
<1>5. SubSeq(t, m, k) = SubSeq(s, m, k)
  BY <1>2, <1>3, <1>4, Within DEF l
<1> QED
  BY <1>5 DEF Nth, m, k

\* An entry with more bytes behind its own, as the one that was read.
Behind(read, e) == /\ read.type = e.type /\ read.count = e.count
                   /\ read.data \in Seq(Bytes) /\ Lies(read.data, 0, e.data)

LEMMA WholeIs ==
    ASSUME EntryInv, entry.type # "ASCII", NEW read, Behind(read, entry)
    PROVE  /\ Whole(entry) /\ Whole(read) /\ entry.count * ByteSize(entry.type) = Len(entry.data)
           /\ entry.data \in Seq(Bytes) /\ entry.count \in Nat
<1>1. entry.data \in Seq(Bytes) /\ entry.count \in Nat
  BY EntryIs DEF EntryInv
<1>2. Size(entry) \in Nat /\ Size(entry) = Len(entry.data)
  BY SizeIs
<1>3. Len(entry.data) <= Len(read.data) /\ Len(read.data) \in Nat
  BY <1>1 DEF Behind, Lies
<1>4. read.count * ByteSize(read.type) = Size(entry) /\ entry.count * ByteSize(entry.type) = Size(entry)
  BY DEF Behind, Size
<1> QED
  BY <1>1, <1>2, <1>3, <1>4 DEF Whole

LEMMA SameNumbers ==
    ASSUME EntryInv, entry.type \in DataTypes \ {"ASCII"}, NEW h, h.order = hdr.order,
           NEW read, Behind(read, entry), NEW signed
    PROVE  Numbers(h, read, signed) = Numbers(hdr, entry, signed)
<1> DEFINE n == ByteSize(entry.type)
           c == entry.count
           o == hdr.order
           value(e, i) == LET v == Decoded(o, Nth(e.data, i, n)) IN IF signed THEN Signed(v, n) ELSE v
<1>1. Whole(entry) /\ Whole(read) /\ c * n = Len(entry.data) /\ entry.data \in Seq(Bytes) /\ c \in Nat
  BY WholeIs
<1>2. n \in Nat
  <2>1. n \in 1 .. 8
    BY Sizes
  <2> HIDE DEF n
  <2> QED
    BY <2>1
<1>3. read.type = entry.type /\ read.count = c /\ read.data \in Seq(Bytes) /\ Lies(read.data, 0, entry.data)
  BY DEF Behind
<1>4. ASSUME NEW i \in 1 .. c PROVE Nth(read.data, i, n) = Nth(entry.data, i, n)
  <2>1. c * n <= Len(entry.data)
    BY <1>1
  <2> DEFINE t == read.data
             u == entry.data
  <2>2. t \in Seq(Bytes) /\ u \in Seq(Bytes) /\ Lies(t, 0, u) /\ c \in Nat /\ n \in Nat /\ Holds(u, c, n) /\ i \in 1 .. c
    BY <1>1, <1>2, <1>3, <2>1 DEF Holds
  <2> HIDE DEF c, n, t, u
  <2>3. Nth(t, i, n) = Nth(u, i, n)
    BY <2>2, NthWithin
  <2> QED
    BY <2>3 DEF t, u
<1>5. ASSUME NEW i \in 1 .. c PROVE value(read, i) = value(entry, i)
  BY <1>4
<1>6. Numbers(hdr, entry, signed) = [i \in 1 .. c |-> value(entry, i)]
  BY <1>1, Zenon DEF Numbers
<1>7. Numbers(h, read, signed) = [i \in 1 .. c |-> value(read, i)]
  <2>1. Numbers(h, read, signed) = [i \in 1 .. read.count |->
            LET v == Decoded(h.order, Nth(read.data, i, ByteSize(read.type)))
            IN  IF signed THEN Signed(v, ByteSize(read.type)) ELSE v]
    BY <1>1, Zenon DEF Numbers
  <2> QED
    BY <1>3, <2>1, Zenon
<1> HIDE DEF value, c
<1>8. [i \in 1 .. c |-> value(read, i)] = [i \in 1 .. c |-> value(entry, i)]
  BY <1>5
<1> QED
  BY <1>6, <1>7, <1>8

LEMMA SameRationals ==
    ASSUME EntryInv, entry.type \in {"Rational", "SRational"}, NEW h, h.order = hdr.order,
           NEW read, Behind(read, entry)
    PROVE  GetRationals(h, read) = GetRationals(hdr, entry)
<1> DEFINE c == entry.count
           o == hdr.order
           four == 4
           part(e, i, k) == Decoded(o, Nth(e.data, 2 * (i - 1) + k, four))
           value(e, i) == IF entry.type = "Rational" THEN <<part(e, i, 1), part(e, i, 2)>>
                          ELSE <<Signed(part(e, i, 1), four), Signed(part(e, i, 2), four)>>
<1>1. Whole(entry) /\ Whole(read) /\ c * 8 = Len(entry.data) /\ entry.data \in Seq(Bytes) /\ c \in Nat
  <2>1. ByteSize(entry.type) = 8
    BY Sizes
  <2> QED
    BY <2>1, WholeIs
<1>2. read.type = entry.type /\ read.count = c /\ read.data \in Seq(Bytes) /\ Lies(read.data, 0, entry.data)
  BY DEF Behind
<1>3. ASSUME NEW i \in 1 .. c, NEW k \in {1, 2} PROVE part(read, i, k) = part(entry, i, k)
  <2> DEFINE j == 2 * (i - 1) + k
             cc == 2 * c
             l == Len(entry.data)
  <2>1. j \in 1 .. cc /\ cc \in Nat
    BY <1>1
  <2>2. cc * four <= l /\ four \in Nat
    <3>1. c \in Nat /\ c * 8 = l
      BY <1>1
    <3> HIDE DEF c, l
    <3> QED
      BY <3>1
  <2> DEFINE t == read.data
             u == entry.data
  <2>3. t \in Seq(Bytes) /\ u \in Seq(Bytes) /\ Lies(t, 0, u) /\ Holds(u, cc, four)
    BY <1>1, <1>2, <2>2 DEF Holds
  <2> HIDE DEF j, cc, four, c, t, u
  <2>4. Nth(t, j, four) = Nth(u, j, four)
    BY <2>1, <2>2, <2>3, NthWithin
  <2> QED
    BY <2>4 DEF j, t, u
<1>4. ASSUME NEW i \in 1 .. c PROVE value(read, i) = value(entry, i)
  <2>1. part(read, i, 1) = part(entry, i, 1) /\ part(read, i, 2) = part(entry, i, 2)
    BY <1>3
  <2> HIDE DEF part
  <2> QED
    BY <2>1
<1>5. GetRationals(hdr, entry) = [i \in 1 .. c |-> value(entry, i)]
  BY <1>1, Zenon DEF GetRationals
<1>6. GetRationals(h, read) = [i \in 1 .. c |-> value(read, i)]
  <2>1. GetRationals(h, read) = [i \in 1 .. read.count |->
            LET p(k) == Decoded(h.order, Nth(read.data, 2 * (i - 1) + k, 4))
            IN  IF read.type = "Rational" THEN <<p(1), p(2)>> ELSE <<Signed(p(1), 4), Signed(p(2), 4)>>]
    BY <1>1, <1>2, Zenon DEF GetRationals
  <2> QED
    BY <1>2, <2>1, Zenon
<1> HIDE DEF value, c
<1>7. [i \in 1 .. c |-> value(read, i)] = [i \in 1 .. c |-> value(entry, i)]
  BY <1>4
<1> QED
  BY <1>5, <1>6, <1>7

LEMMA SameString ==
    ASSUME EntryInv, NEW read, Behind(read, entry), NEW n \in Nat, read.data = Padded(entry.data, n)
    PROVE  GetString(read) = GetString(entry)
<1>1. read.type = entry.type /\ read.data \in Seq(Bytes) /\ Lies(read.data, 0, entry.data)
  BY DEF Behind
<1>2. CASE entry.type # "ASCII"
  BY <1>1, <1>2 DEF GetString
<1>3. CASE entry.type = "ASCII"
  <2> DEFINE t == read.data
             b == entry.data
  <2>1. b \in Seq(Bytes) /\ 0 \in Bytes
    BY EntryIs, BaseIs DEF EntryInv, Bytes
  <2>2. Len(t) = n /\ Len(b) <= n /\ \A k \in 1 .. n : k > Len(b) => t[k] = 0
    <3>1. Len(b) \in Nat
      BY <2>1
    <3>2. Len(Padded(b, n)) = n /\ \A k \in 1 .. n : k > Len(b) => Padded(b, n)[k] = 0
      BY <2>1, PaddedIs
    <3> QED
      BY <1>1, <3>1, <3>2 DEF Lies
  <2>3. CASE b = << >>
    <3>1. Len(b) = 0
      BY <2>3
    <3>2. CutAtNul(b) = << >>
      <4>1. PICK m \in 0 .. Len(b) : CutAtNul(b) = SubSeq(b, 1, m)
        BY <2>1, CutIs
      <4>2. m = 0
        BY <3>1, <4>1
      <4> QED
        BY <4>1, <4>2
    <3>3. CutAtNul(t) = << >>
      <4>1. PICK m \in 0 .. Len(t) : CutAtNul(t) = SubSeq(t, 1, m) /\ \A i \in 1 .. m : t[i] # 0
        BY <1>1, CutIs
      <4>2. m = 0
        <5>1. ASSUME m > 0 PROVE FALSE
          <6>1. 1 \in 1 .. m /\ 1 \in 1 .. n
            BY <2>2, <4>1, <5>1
          <6>2. t[1] = 0
            BY <2>2, <3>1, <6>1
          <6> QED
            BY <4>1, <6>1, <6>2
        <5> QED
          BY <4>1, <5>1
      <4> QED
        BY <4>1, <4>2
    <3> QED
      BY <1>1, <1>3, <3>2, <3>3 DEF GetString
  <2>4. CASE b # << >>
    <3> DEFINE g == given.values
               c == CutAtNul(g)
    <3>1. g \in Seq(Bytes) /\ b = Append(c, 0)
      <4>1. entry.type \notin IntTypes \cup {"Float", "Double", "Rational", "SRational", "Undefined"}
        BY <1>3 DEF IntTypes, ReadSigned
      <4> QED
        BY <2>4, <4>1 DEF EntryInv, Filled
    <3> HIDE DEF g
    <3>2. c \in Seq(Bytes) /\ Len(b) = Len(c) + 1 /\ CutAtNul(b) = c /\ Len(c) \in Nat
      BY <2>1, <3>1, CutTwice
    <3>3. \A i \in 1 .. Len(c) : c[i] # 0
      <4>1. PICK m \in 0 .. Len(g) : c = SubSeq(g, 1, m) /\ \A i \in 1 .. m : g[i] # 0
        BY <3>1, CutIs
      <4>2. Len(c) = m /\ \A i \in 1 .. m : c[i] = g[i]
        BY <3>1, <4>1
      <4> QED
        BY <4>1, <4>2
    <3> HIDE DEF c
    <3>4. b[Len(c) + 1] = 0 /\ \A i \in 1 .. Len(c) : b[i] = c[i]
      BY <3>1, <3>2
    <3> DEFINE m == Len(c)
    <3>5. m \in 0 .. Len(t) /\ m < Len(t) /\ Len(b) = m + 1
      BY <2>2, <3>2
    <3>6. \A i \in 1 .. Len(b) : t[i] = b[i]
      BY <1>1 DEF Lies
    <3>7. t[m + 1] = 0 /\ \A i \in 1 .. m : t[i] # 0
      <4>1. m + 1 \in 1 .. Len(b) /\ \A i \in 1 .. m : i \in 1 .. Len(b)
        BY <3>2
      <4> QED
        BY <3>3, <3>4, <3>6, <4>1
    <3>8. CutAtNul(t) = SubSeq(t, 1, m)
      <4> HIDE DEF m
      <4> QED
        BY <1>1, <3>5, <3>7, CutBefore
    <3>9. SubSeq(t, 1, m) = c
      <4>1. SubSeq(t, 1, m) \in Seq(Bytes) /\ Len(SubSeq(t, 1, m)) = m /\ \A i \in 1 .. m : SubSeq(t, 1, m)[i] = t[i]
        BY <1>1, <3>5
      <4>2. \A i \in 1 .. m : i \in 1 .. Len(b)
        BY <3>2
      <4>3. \A i \in 1 .. m : SubSeq(t, 1, m)[i] = c[i]
        BY <3>4, <3>6, <4>1, <4>2
      <4> QED
        BY <3>2, <4>1, <4>3
    <3> QED
      BY <1>1, <1>3, <3>2, <3>8, <3>9 DEF GetString
  <2> QED
    BY <2>3, <2>4
<1> QED
  BY <1>2, <1>3

LEMMA SameUndefined ==
    ASSUME EntryInv, NEW read, Behind(read, entry)
    PROVE  GetUndefined(read, Len(entry.data)) = GetUndefined(entry, Len(entry.data))
<1> DEFINE n == Len(entry.data)
           one == 1
<1>1. entry.data \in Seq(Bytes) /\ n \in Nat
  BY EntryIs DEF EntryInv
<1>2. read.type = entry.type /\ read.data \in Seq(Bytes) /\ Lies(read.data, 0, entry.data) /\ n <= Len(read.data)
  BY DEF Behind, Lies
<1>3. one \in Nat /\ 1 <= one /\ one <= n + 1 /\ n <= Len(entry.data)
  BY <1>1
<1> HIDE DEF one, n
<1>4. SubSeq(read.data, one, n) = SubSeq(entry.data, one, n)
  BY <1>1, <1>2, <1>3, Within
<1> QED
  BY <1>2, <1>3, <1>4 DEF GetUndefined, one, n

\* Every Get method gives of the entry that was read what it gives of the one that was written.
SameAnswers(h, read) ==
    /\ GetInts(h, read) = GetInts(hdr, entry) /\ GetFloats(h, read) = GetFloats(hdr, entry)
    /\ GetRationals(h, read) = GetRationals(hdr, entry) /\ GetString(read) = GetString(entry)
    /\ GetUndefined(read, Len(entry.data)) = GetUndefined(entry, Len(entry.data))

LEMMA AllTheSame ==
    ASSUME EntryInv, NEW h, h.order = hdr.order, NEW d, NEW read, ReadEntry(d, read)
    PROVE  SameAnswers(h, read)
<1>1. PICK n \in Nat : Len(entry.data) <= n /\ read.data = Padded(entry.data, n)
  BY DEF ReadEntry
<1>2. read.type = entry.type /\ read.count = entry.count
  BY DEF ReadEntry
<1>3. Behind(read, entry)
  <2>1. 0 \in Bytes /\ entry.data \in Seq(Bytes)
    BY EntryIs, BaseIs DEF EntryInv, Bytes
  <2>2. Padded(entry.data, n) \in Seq(Bytes) /\ Lies(Padded(entry.data, n), 0, entry.data)
    BY <1>1, <2>1, PaddedIs
  <2> QED
    BY <1>1, <1>2, <2>2 DEF Behind
<1>4. GetInts(h, read) = GetInts(hdr, entry)
  <2>1. CASE entry.type \in IntTypes
    <3>1. entry.type \in DataTypes \ {"ASCII"}
      BY <2>1, Sizes DEF IntTypes, ReadSigned
    <3>2. Numbers(h, read, entry.type \in ReadSigned) = Numbers(hdr, entry, entry.type \in ReadSigned)
      BY <1>3, <3>1, SameNumbers
    <3> QED
      BY <1>2, <2>1, <3>2 DEF GetInts
  <2>2. CASE entry.type \notin IntTypes
    BY <1>2, <2>2 DEF GetInts
  <2> QED
    BY <2>1, <2>2
<1>5. GetRationals(h, read) = GetRationals(hdr, entry)
  <2>1. CASE entry.type \in {"Rational", "SRational"}
    BY <1>3, <2>1, SameRationals
  <2>2. CASE entry.type \notin {"Rational", "SRational"}
    BY <1>2, <2>2 DEF GetRationals
  <2> QED
    BY <2>1, <2>2
<1>6. GetFloats(h, read) = GetFloats(hdr, entry)
  <2>1. CASE entry.type \in {"Float", "Double"}
    <3>1. entry.type \in DataTypes \ {"ASCII"}
      BY <2>1, Sizes
    <3>2. Numbers(h, read, TRUE) = Numbers(hdr, entry, TRUE)
      <4> DEFINE signed == TRUE
      <4> HIDE DEF signed
      <4>1. Numbers(h, read, signed) = Numbers(hdr, entry, signed)
        BY <1>3, <3>1, SameNumbers
      <4> QED
        BY <4>1 DEF signed
    <3> QED
      BY <1>2, <2>1, <3>2 DEF GetFloats
  <2>2. CASE entry.type \in {"Rational", "SRational"}
    BY <1>2, <1>5, <2>2 DEF GetFloats
  <2>3. CASE entry.type \notin {"Float", "Double", "Rational", "SRational"}
    BY <1>2, <1>4, <2>3 DEF GetFloats
  <2> QED
    BY <2>1, <2>2, <2>3
<1>7. GetString(read) = GetString(entry)
  BY <1>1, <1>3, SameString
<1>8. GetUndefined(read, Len(entry.data)) = GetUndefined(entry, Len(entry.data))
  BY <1>3, SameUndefined
<1> QED
  BY <1>4, <1>5, <1>6, <1>7, <1>8 DEF SameAnswers

---------------------------------------------------------------------------
(* What was written and what was read.                                     *)

\* A caller's file is its entry's, and what was read is of the file.
FileInv ==
    writer = "caller" =>
        /\ file # <<>> => file = FileOf(entry)
        /\ head # NoHeader => /\ file # <<>> /\ head = ReadHeader(file)
                              /\ ifd = IF head.ok THEN ReadIFD(head, file, head.first) ELSE NoIFD

LEMMA FileSteps ==
    ASSUME FileInv, [Next]_vars
    PROVE  FileInv'
<1>1. CASE writer = "caller" /\ file = <<>> /\ EntryNext /\ UNCHANGED <<encoderVars, writer, file, head, ifd>>
  <2>1. file' = <<>> /\ head' = head /\ head = NoHeader
    BY <1>1 DEF FileInv
  <2> QED
    BY <2>1 DEF FileInv, NoHeader
<1>2. CASE writer = "Encode" /\ EncoderNext /\ UNCHANGED <<entryVars, writer, file, head, ifd>>
  BY <1>2 DEF FileInv
<1>3. CASE Save
  <2> SUFFICES ASSUME writer = "caller" PROVE FileInv'
    BY <1>3 DEF Save, FileInv
  <2>1. file' = FileOf(entry) /\ entry' = entry /\ hdr' = hdr /\ head' = head /\ head = NoHeader
    BY <1>3 DEF Save, FileInv, entryVars
  <2>2. FileOf(entry)' = FileOf(entry)
    BY <2>1, Zenon DEF FileOf
  <2> QED
    BY <2>1, <2>2 DEF FileInv, NoHeader
<1>4. CASE ReadBack
  <2>1. /\ file # <<>> /\ file' = file /\ entry' = entry /\ hdr' = hdr /\ writer' = writer
        /\ head' = ReadHeader(file) /\ ifd' = IF head'.ok THEN ReadIFD(head', file, head'.first) ELSE NoIFD
    BY <1>4 DEF ReadBack, entryVars
  <2>2. FileOf(entry)' = FileOf(entry)
    BY <2>1, Zenon DEF FileOf
  <2>3. writer = "caller" => file = FileOf(entry)
    BY <2>1 DEF FileInv
  <2>4. head' = ReadHeader(file)' /\ ifd' = (IF head.ok THEN ReadIFD(head, file, head.first) ELSE NoIFD)'
    BY <2>1, Zenon
  <2> QED
    BY <2>1, <2>2, <2>3, <2>4, Zenon DEF FileInv
<1>5. CASE UNCHANGED vars
  <2>1. file' = file /\ entry' = entry /\ hdr' = hdr /\ writer' = writer /\ head' = head /\ ifd' = ifd
    BY <1>5 DEF vars, entryVars
  <2>2. FileOf(entry)' = FileOf(entry)
    BY <2>1, Zenon DEF FileOf
  <2>3. (ReadHeader(file))' = ReadHeader(file) /\ (ReadIFD(head, file, head.first))' = ReadIFD(head, file, head.first)
    BY <2>1, Zenon
  <2> QED
    BY <2>1, <2>2, <2>3, Zenon DEF FileInv
<1> QED
  BY <1>1, <1>2, <1>3, <1>4, <1>5 DEF Next

LEMMA FileInvariant == Spec => []FileInv
<1>1. Init => FileInv
  BY DEF Init, FileInv
<1>2. FileInv /\ [Next]_vars => FileInv'
  BY FileSteps
<1> QED
  BY <1>1, <1>2, PTL DEF Spec

\* Of what was read of a caller's file, the entry is the one that was written.
LEMMA ReadIs ==
    ASSUME EntryInv, FileInv, ReadByCaller, ~ StringTakenForOffset, ~ CountIsCut
    PROVE  /\ head.ok /\ head.order = hdr.order /\ head.big = hdr.big
           /\ ReadEntry(ifd, ifd.entries[entry.tag]) /\ SameAnswers(head, ifd.entries[entry.tag])
<1>1. head = ReadHeader(file) /\ file = FileOf(entry) /\ ifd = IF head.ok THEN ReadIFD(head, file, head.first) ELSE NoIFD
  BY DEF FileInv, ReadByCaller
<1>2. Written(file, hdr, entry)
  BY <1>1, FileIs DEF EntryInv
<1> DEFINE h == ReadHeader(file)
           d == ReadIFD(h, file, h.first)
<1>3. h.ok /\ h.order = hdr.order /\ h.big = hdr.big /\ ReadEntry(d, d.entries[entry.tag])
  BY <1>2, FileRead
<1>4. head = h /\ ifd = d
  BY <1>1, <1>3
<1>5. head.ok /\ head.order = hdr.order /\ head.big = hdr.big
  BY <1>3, <1>4
<1>6. ReadEntry(ifd, ifd.entries[entry.tag])
  BY <1>3, <1>4
<1> HIDE DEF h, d
<1> DEFINE read == ifd.entries[entry.tag]
<1>7. SameAnswers(head, read)
  BY <1>5, <1>6, AllTheSame
<1> QED
  BY <1>5, <1>6, <1>7

\* Header.Bytes and ReadHeader, IFDEntry.Bytes and ReadIFD are inverse, for every entry that the
\* Set methods can make of every type a tag accepts, whatever a byte can count (tiff_ifd_entry.go,
\* header.go, tiff_ifd.go): the entry is found by its tag, and each Get method gives of it what
\* it gave before it was written, whether the value was in the entry or behind the directory.
THEOREM WrittenReadsBackThm == Spec => []WrittenReadsBack
<1>1. EntryInv /\ FileInv => WrittenReadsBack
  BY ReadIs DEF WrittenReadsBack, ReadEntry, SameAnswers
<1> QED
  BY <1>1, EntryInvariant, FileInvariant, PTL

---------------------------------------------------------------------------
(* The getters of the tags.                                                *)

Forms == {"one", "lenient", "two", "ints", "colors", "floats", "rationals", "string", "date"}

\* Tags whose values are no integers.
NoInts == { "XResolution", "YResolution", "XPosition", "YPosition", "WhitePoint", "PrimaryChromaticities",
            "YCbCrCoefficients", "ModelPixelScaleTag", "IrasBTransformationMatrix", "ModelTiepointTag",
            "ModelTransformationTag", "GeoDoubleParamsTag", "SMinSampleValue", "SMaxSampleValue" }

\* Tags with a number of values of their own.
Several == { "PageNumber", "WhitePoint", "HalftoneHints", "YCbCrSubSampling", "YCbCrCoefficients",
             "PrimaryChromaticities", "TransferRange", "ModelTransformationTag",
             "IrasBTransformationMatrix", "DateTime" }

\* What a row of the table says of its tag.
RowFits(row) ==
    /\ row[2] \in Forms
    /\ row[2] \in {"one", "lenient", "colors"} => row[1] \notin NoInts
    /\ row[2] \in {"one", "lenient"} => row[1] \notin Several
    /\ row[2] = "two" => row[1] \in {"XResolution", "YResolution", "XPosition", "YPosition"}
    /\ row[2] = "date" => row[1] = "DateTime"

LEMMA RowsFit == \A k \in 1 .. 85 : RowFits(Getters[k])
<1>1. \A k \in 1 .. 11 : RowFits(BaselineGetters[k])
  BY DEF BaselineGetters, RowFits, Forms, NoInts, Several
<1>2. \A k \in 1 .. 13 : RowFits(StripGetters[k])
  BY DEF StripGetters, RowFits, Forms, NoInts, Several
<1>3. \A k \in 1 .. 12 : RowFits(PageGetters[k])
  BY DEF PageGetters, RowFits, Forms, NoInts, Several
<1>4. \A k \in 1 .. 12 : RowFits(DocumentGetters[k])
  BY DEF DocumentGetters, RowFits, Forms, NoInts, Several
<1>5. \A k \in 1 .. 14 : RowFits(TileGetters[k])
  BY DEF TileGetters, RowFits, Forms, NoInts, Several
<1>6. \A k \in 1 .. 14 : RowFits(JPEGGetters[k])
  BY DEF JPEGGetters, RowFits, Forms, NoInts, Several
<1>7. \A k \in 1 .. 9 : RowFits(GeoGetters[k])
  BY DEF GeoGetters, RowFits, Forms, NoInts, Several
<1> SUFFICES ASSUME NEW k \in 1 .. 85 PROVE RowFits(Getters[k])
  OBVIOUS
<1>8. CASE k \in 1 .. 11
  BY <1>1, <1>8, Table
<1>9. CASE k \in 12 .. 24
  <2>1. k - 11 \in 1 .. 13 /\ 11 + (k - 11) = k
    BY <1>9
  <2> QED
    BY <1>2, <2>1, Table
<1>10. CASE k \in 25 .. 36
  <2>1. k - 24 \in 1 .. 12 /\ 24 + (k - 24) = k
    BY <1>10
  <2> QED
    BY <1>3, <2>1, Table
<1>11. CASE k \in 37 .. 48
  <2>1. k - 36 \in 1 .. 12 /\ 36 + (k - 36) = k
    BY <1>11
  <2> QED
    BY <1>4, <2>1, Table
<1>12. CASE k \in 49 .. 62
  <2>1. k - 48 \in 1 .. 14 /\ 48 + (k - 48) = k
    BY <1>12
  <2> QED
    BY <1>5, <2>1, Table
<1>13. CASE k \in 63 .. 76
  <2>1. k - 62 \in 1 .. 14 /\ 62 + (k - 62) = k
    BY <1>13
  <2> QED
    BY <1>6, <2>1, Table
<1>14. CASE k \in 77 .. 85
  <2>1. k - 76 \in 1 .. 9 /\ 76 + (k - 76) = k
    BY <1>14
  <2> QED
    BY <1>7, <2>1, Table
<1> QED
  BY <1>8, <1>9, <1>10, <1>11, <1>12, <1>13, <1>14

\* What the getter of a tag makes of its entry, and what the tables of the tag ask for.
LEMMA FormIs ==
    ASSUME NEW tag \in Tags
    PROVE  /\ Form(tag) \in Forms
           /\ Form(tag) \in {"one", "lenient", "colors"} =>
                  AcceptedTypes(tag) # {} /\ AcceptedTypes(tag) \subseteq IntTypes
           /\ Form(tag) \in {"one", "lenient"} => Nums(tag) = 1
           /\ Form(tag) = "two" => AcceptedTypes(tag) = {"Rational"}
           /\ Form(tag) = "date" => Nums(tag) = 20
<1> DEFINE row == Getters[Row(tag)]
           form == Form(tag)
<1>1. RowFits(row) /\ row[1] = tag /\ row[2] = form
  BY RowIs, RowsFit DEF Form
<1> HIDE DEF row
<1>2. form \in Forms
  BY <1>1 DEF RowFits
<1>3. /\ form \in {"one", "lenient", "colors"} => tag \notin NoInts
      /\ form \in {"one", "lenient"} => tag \notin Several
      /\ form = "two" => tag \in {"XResolution", "YResolution", "XPosition", "YPosition"}
      /\ form = "date" => tag = "DateTime"
  BY <1>1 DEF RowFits
<1>4. ASSUME form \in {"one", "lenient", "colors"}
      PROVE  AcceptedTypes(tag) # {} /\ AcceptedTypes(tag) \subseteq IntTypes
  BY <1>3, <1>4 DEF AcceptedTypes, IntTypes, ReadSigned, NoInts
<1>5. ASSUME form \in {"one", "lenient"} PROVE Nums(tag) = 1
  BY <1>3, <1>5 DEF Nums, Several
<1>6. ASSUME form = "two" PROVE AcceptedTypes(tag) = {"Rational"}
  BY <1>3, <1>6 DEF AcceptedTypes
<1>7. ASSUME form = "date" PROVE Nums(tag) = 20
  BY <1>3, <1>7 DEF Nums
<1> QED
  BY <1>2, <1>4, <1>5, <1>6, <1>7

\* The tag of the entry is one of the table, at its row.
TagInv == \E tag \in Tags : entry.tag = Row(tag)

LEMMA TagInvariant == Spec => []TagInv
<1>1. Init => TagInv
  <2> SUFFICES ASSUME Init PROVE TagInv
    OBVIOUS
  <2>1. CASE writer = "caller"
    <3>1. EntryInit
      BY <2>1 DEF Init
    <3>2. PICK tag \in Tags, t \in DataTypes \cup {"Nil"} : entry = NewEntry(tag, t)
      BY <3>1 DEF EntryInit
    <3> QED
      BY <3>2 DEF NewEntry, TagInv
  <2>2. CASE writer = "Encode"
    <3>1. entry = NewEntry("ImageWidth", "Nil")
      BY <2>2 DEF Init
    <3>2. "ImageWidth" \in Tags
      <4>1. BaselineGetters[3][1] = "ImageWidth"
        BY DEF BaselineGetters
      <4>2. Getters[3] = BaselineGetters[3] /\ 3 \in DOMAIN Getters
        BY Table
      <4> QED
        BY <4>1, <4>2 DEF Tags
    <3> QED
      BY <3>1, <3>2 DEF NewEntry, TagInv
  <2> QED
    BY <2>1, <2>2 DEF Init
<1>2. EntryInv /\ TagInv /\ [Next]_vars => TagInv'
  <2> SUFFICES ASSUME EntryInv, TagInv, [Next]_vars PROVE TagInv'
    OBVIOUS
  <2>1. CASE EntryNext
    <3>1. entry'.tag = entry.tag
      BY <2>1, EntrySteps
    <3> QED
      BY <3>1 DEF TagInv
  <2>2. CASE UNCHANGED entryVars
    BY <2>2 DEF entryVars, TagInv
  <2> QED
    BY <2>1, <2>2 DEF Next, Save, ReadBack, vars
<1> QED
  BY <1>1, <1>2, EntryInvariant, PTL DEF Spec

LEMMA TagIs ==
    ASSUME TagInv
    PROVE  TagOf(entry) \in Tags /\ Row(TagOf(entry)) = entry.tag
<1>1. PICK tag \in Tags : entry.tag = Row(tag)
  BY DEF TagInv
<1>2. TagOf(entry) = tag
  BY <1>1, RowIs DEF TagOf
<1> QED
  BY <1>1, <1>2

\* As many integers as the entry's count, if it holds integers at all.
LEMMA IntsAre ==
    ASSUME EntryInv
    PROVE  /\ entry.type \in IntTypes => Len(GetInts(hdr, entry)) = entry.count
           /\ entry.type \notin IntTypes => GetInts(hdr, entry) = <<>>
           /\ entry.count \in Nat
<1>1. entry.count \in Nat
  BY EntryIs DEF EntryInv
<1>2. ASSUME entry.type \in IntTypes PROVE Len(GetInts(hdr, entry)) = entry.count
  <2> DEFINE c == entry.count
             n == ByteSize(entry.type)
             signed == entry.type \in ReadSigned
             value(i) == LET v == Decoded(hdr.order, Nth(entry.data, i, n)) IN IF signed THEN Signed(v, n) ELSE v
  <2>1. Whole(entry)
    <3>1. entry.type # "ASCII"
      BY <1>2 DEF IntTypes, ReadSigned
    <3>2. Behind(entry, entry)
      <4>1. entry.data \in Seq(Bytes)
        BY EntryIs DEF EntryInv
      <4> QED
        BY <4>1 DEF Behind, Lies
    <3> QED
      BY <3>1, <3>2, WholeIs
  <2>2. GetInts(hdr, entry) = Numbers(hdr, entry, signed)
    BY <1>2, Zenon DEF GetInts
  <2>3. Numbers(hdr, entry, signed) = [i \in 1 .. c |-> value(i)]
    BY <2>1, Zenon DEF Numbers
  <2> HIDE DEF value, c
  <2>4. c \in Nat
    BY <1>1 DEF c
  <2>5. Len([i \in 1 .. c |-> value(i)]) = c
    BY <2>4
  <2>6. Len(GetInts(hdr, entry)) = c
    BY <2>2, <2>3, <2>5
  <2> QED
    BY <2>6 DEF c
<1>3. ASSUME entry.type \notin IntTypes PROVE GetInts(hdr, entry) = <<>>
  BY <1>3 DEF GetInts
<1> QED
  BY <1>1, <1>2, <1>3

\* What the getter of the entry's tag makes of it.
LEMMA MadeIs ==
    ASSUME EntryInv, TagInv, NEW tag, tag = TagOf(entry), NEW made, made = MadeOf(hdr, entry, Form(tag))
    PROVE  /\ AsTheTablesSay => made = CASE Form(tag) = "two"  -> NoAnswer
                                         [] Form(tag) = "date" -> Panic
                                         [] OTHER              -> Answer(ValueOf(entry, tag))
           /\ Form(tag) = "one" /\ entry.count # 1 => ~ made.ok
<1> DEFINE form == Form(tag)
           ints == GetInts(hdr, entry)
           c == entry.count
           asked == CASE form = "two" -> NoAnswer [] form = "date" -> Panic [] OTHER -> Answer(ValueOf(entry, tag))
<1>1. tag \in Tags
  BY TagIs
<1>2. /\ form \in Forms
      /\ form \in {"one", "lenient", "colors"} => AcceptedTypes(tag) # {} /\ AcceptedTypes(tag) \subseteq IntTypes
      /\ form \in {"one", "lenient"} => Nums(tag) = 1
      /\ form = "two" => AcceptedTypes(tag) = {"Rational"}
      /\ form = "date" => Nums(tag) = 20
  BY <1>1, FormIs
<1>3. /\ entry.type \in IntTypes => Len(ints) = c
      /\ entry.type \notin IntTypes => ints = <<>>
      /\ c \in Nat
  BY IntsAre
<1>4. made = MadeOf(hdr, entry, form)
  OBVIOUS
<1>5. ASSUME AsTheTablesSay
      PROVE  /\ entry.type \in DataTypes /\ (AcceptedTypes(tag) = {} \/ entry.type \in AcceptedTypes(tag))
             /\ form = "date" => GetString(entry) = Letters(Nums(tag) - 1)
             /\ form = "colors" => c % 3 = 0 /\ c > 0
             /\ form \notin {"date", "colors"} => Nums(tag) \in {0, c}
  <2>1. Accepts(tag, entry.type)
    BY <1>5 DEF AsTheTablesSay
  <2>2. (CASE Form(tag) = "date"   -> GetString(entry) = Letters(Nums(tag) - 1)
           [] Form(tag) = "colors" -> entry.count % 3 = 0 /\ entry.count > 0
           [] OTHER                -> Nums(tag) \in {0, entry.count})
    BY <1>5, Zenon DEF AsTheTablesSay
  <2> HIDE DEF form, c
  <2>3. form = "date" => GetString(entry) = Letters(Nums(tag) - 1)
    BY <2>2 DEF form, c
  <2>4. form = "colors" => c % 3 = 0 /\ c > 0
    BY <2>2 DEF form, c
  <2>5. form \notin {"date", "colors"} => Nums(tag) \in {0, c}
    BY <2>2 DEF form, c
  <2> QED
    BY <2>1, <2>3, <2>4, <2>5 DEF Accepts
<1>6. ASSUME AsTheTablesSay, form \in {"one", "lenient", "colors"} PROVE Len(ints) = c
  BY <1>2, <1>3, <1>5, <1>6
<1> HIDE DEF ints, c, form
<1>7. CASE form = "one"
  <2>1. made = Exactly(1, ints)
    BY <1>4, <1>7 DEF MadeOf, ints
  <2>2. c # 1 => ~ made.ok
    <3>1. Len(<<>>) = 0
      OBVIOUS
    <3>2. c # 1 => Len(ints) # 1
      <4>1. Len(ints) = c \/ ints = <<>>
        BY <1>3
      <4>2. ints = <<>> => Len(ints) # 1
        OBVIOUS
      <4> QED
        BY <4>1, <4>2
    <3>3. c # 1 => made = NoAnswer
      BY <2>1, <3>2 DEF Exactly
    <3>4. ~ NoAnswer.ok
      BY DEF NoAnswer
    <3> QED
      BY <3>3, <3>4
  <2>3. AsTheTablesSay => made = Answer(ints)
    <3>1. AsTheTablesSay => Len(ints) = 1
      BY <1>2, <1>5, <1>6, <1>7
    <3> QED
      BY <2>1, <3>1 DEF Exactly
  <2>4. ValueOf(entry, tag) = ints
    BY <1>7 DEF ValueOf, form, ints
  <2> QED
    BY <1>7, <2>2, <2>3, <2>4 DEF form, c
<1>8. CASE form = "lenient"
  <2>1. made = Answer(IF Len(ints) = 1 THEN ints ELSE <<0>>)
    BY <1>4, <1>8 DEF MadeOf, ints
  <2>2. AsTheTablesSay => Len(ints) = 1
    BY <1>2, <1>5, <1>6, <1>8
  <2>3. ValueOf(entry, tag) = ints
    BY <1>8 DEF ValueOf, form, ints
  <2> QED
    BY <1>8, <2>1, <2>2, <2>3 DEF form
<1>9. CASE form = "two"
  <2>1. made = Exactly(2, ints)
    BY <1>4, <1>9 DEF MadeOf, ints
  <2>2. AsTheTablesSay => ints = <<>>
    <3>1. "Rational" \notin IntTypes
      BY DEF IntTypes, ReadSigned
    <3> QED
      BY <1>2, <1>3, <1>5, <1>9, <3>1
  <2>3. AsTheTablesSay => made = NoAnswer
    <3>1. Len(<<>>) = 0
      OBVIOUS
    <3> QED
      BY <2>1, <2>2, <3>1 DEF Exactly
  <2> QED
    BY <1>9, <2>3 DEF form
<1>10. CASE form = "ints"
  <2>1. made = Answer(ints)
    BY <1>4, <1>10 DEF MadeOf, ints
  <2>2. ValueOf(entry, tag) = ints
    BY <1>10 DEF ValueOf, form, ints
  <2> QED
    BY <1>10, <2>1, <2>2 DEF form
<1>11. CASE form = "colors"
  <2>1. made = Colors(ints)
    BY <1>4, <1>11 DEF MadeOf, ints
  <2>2. ValueOf(entry, tag) = Colors(ints).value
    BY <1>11 DEF ValueOf, form, ints
  <2>3. AsTheTablesSay => Colors(ints) = Answer(Colors(ints).value)
    <3> SUFFICES ASSUME AsTheTablesSay PROVE Colors(ints) = Answer(Colors(ints).value)
      OBVIOUS
    <3> DEFINE n == Len(ints) \div 3
               level(k) == ints[k] % Power[2]
               vs == [i \in 1 .. n |-> <<level(i), level(n + i), level(2 * n + i)>>]
    <3>1. ints # <<>> /\ Len(ints) % 3 = 0
      BY <1>3, <1>5, <1>6, <1>11
    <3>2. Colors(ints) = Answer(vs)
      BY <3>1, Zenon DEF Colors
    <3> HIDE DEF vs
    <3> QED
      BY <3>2 DEF Answer
  <2> QED
    BY <1>11, <2>1, <2>2, <2>3 DEF form
<1>12. CASE form = "floats"
  <2>1. made = Answer(GetFloats(hdr, entry)) /\ ValueOf(entry, tag) = GetFloats(hdr, entry)
    BY <1>4, <1>12 DEF MadeOf, ValueOf, form
  <2> QED
    BY <1>12, <2>1 DEF form
<1>13. CASE form = "rationals"
  <2>1. made = Answer(GetRationals(hdr, entry)) /\ ValueOf(entry, tag) = GetRationals(hdr, entry)
    BY <1>4, <1>13 DEF MadeOf, ValueOf, form
  <2> QED
    BY <1>13, <2>1 DEF form
<1>14. CASE form = "string"
  <2>1. made = Answer(GetString(entry)) /\ ValueOf(entry, tag) = GetString(entry)
    BY <1>4, <1>14 DEF MadeOf, ValueOf, form
  <2> QED
    BY <1>14, <2>1 DEF form
<1>15. CASE form = "date"
  <2>1. made = Date(GetString(entry))
    BY <1>4, <1>15 DEF MadeOf
  <2>2. AsTheTablesSay => Len(GetString(entry)) = 19
    <3>1. Len(Letters(19)) = 19
      BY DEF Letters
    <3>2. 20 - 1 = 19
      OBVIOUS
    <3> QED
      BY <1>2, <1>5, <1>15, <3>1, <3>2
  <2>3. AsTheTablesSay => made = Panic
    BY <2>1, <2>2 DEF Date, IsDate
  <2> QED
    BY <1>15, <2>3 DEF form
<1> QED
  BY <1>2, <1>7, <1>8, <1>9, <1>10, <1>11, <1>12, <1>13, <1>14, <1>15 DEF Forms

\* Every getter answers of a caller's entry what tiff_ifd_tag_getter.go promises of its tag: the
\* values that were written if they are as the tables of z_tiff_types_string.go ask, nothing if
\* they are not one where one is asked for, and its default for a tag that has no entry -- for
\* every list of values, every string, every type and whatever a byte can count.
THEOREM GettersReadTheirTagsThm == Spec => []GettersReadTheirTags
<1>1. EntryInv /\ FileInv /\ TagInv => GettersReadTheirTags
  <2> SUFFICES ASSUME EntryInv, FileInv, TagInv, ReadByCaller, ~ StringTakenForOffset, ~ CountIsCut
               PROVE  LET tag == TagOf(entry)
                      IN  /\ AsTheTablesSay =>
                                Got(tag) = CASE Form(tag) = "two"  -> NoAnswer
                                             [] Form(tag) = "date" -> Panic
                                             [] OTHER              -> Answer(ValueOf(entry, tag))
                          /\ Form(tag) = "one" /\ entry.count # 1 => ~ Got(tag).ok
                          /\ \A other \in Tags \ {tag} : Got(other) = IF Default(other) = <<>> THEN NoAnswer ELSE Answer(Default(other))
    BY DEF GettersReadTheirTags
  <2> DEFINE tag == TagOf(entry)
             read == ifd.entries[entry.tag]
             made == MadeOf(hdr, entry, Form(tag))
  <2>1. SameAnswers(head, read) /\ DOMAIN ifd.entries = {entry.tag}
    BY ReadIs DEF ReadEntry
  <2>2. tag \in Tags /\ Row(tag) = entry.tag
    BY TagIs
  <2> HIDE DEF read
  <2>3. MadeOf(head, read, Form(tag)) = made
    BY <2>1, Zenon DEF SameAnswers, MadeOf
  <2>4. Got(tag) = MadeOf(head, read, Form(tag))
    BY <2>1, <2>2, Zenon DEF Got, Get, read
  <2> HIDE DEF tag, made
  <2>5. Got(tag) = made
    BY <2>3, <2>4
  <2>6. /\ AsTheTablesSay => made = CASE Form(tag) = "two"  -> NoAnswer
                                      [] Form(tag) = "date" -> Panic
                                      [] OTHER              -> Answer(ValueOf(entry, tag))
        /\ Form(tag) = "one" /\ entry.count # 1 => ~ made.ok
    BY MadeIs DEF tag, made
  <2>7. ASSUME NEW other \in Tags \ {tag}
        PROVE  Got(other) = IF Default(other) = <<>> THEN NoAnswer ELSE Answer(Default(other))
    <3>1. Getters[Row(other)][1] = other /\ Getters[Row(tag)][1] = tag
      BY <2>2, RowIs
    <3>2. Row(other) \notin DOMAIN ifd.entries
      BY <2>1, <2>2, <3>1
    <3> QED
      BY <3>2, Zenon DEF Got, Get
  <2> QED
    BY <2>5, <2>6, <2>7, Zenon DEF tag
<1> QED
  BY <1>1, EntryInvariant, FileInvariant, TagInvariant, PTL
=============================================================================
