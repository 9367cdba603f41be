-------------------------- MODULE DecompressProofs --------------------------
(***************************************************************************)
(* Two decoders on streams of anything, and all of them on what an encoder *)
(* wrote.  Of anything: LZW, for every width of literals and of the table: *)
(* the prefixes of its codes descend, the bytes of every code fit into its *)
(* buffer, and it indexes nothing out of range before its table has filled *)
(* up; Group 4, for every width of a row: no mode paints across the end of *)
(* one.  Of an encoder: wherever the stream is cut, the decoder holds and  *)
(* returns the first part of the data.  An encoder's stream is a path from *)
(* point to point, each packet, code or mode between two of them; the      *)
(* decoder follows it, point by point, until the stream ends.              *)
(***************************************************************************)
EXTENDS Decompress, TLAPS, NaturalsInduction, WellFoundedInduction, SequenceTheorems

(***************************************************************************)
(* Recursions.                                                             *)
(***************************************************************************)
\* A set of naturals has a smallest element.
LEMMA Smallest ==
    ASSUME NEW T \in SUBSET Nat, T # {}
    PROVE  \E x \in T : \A y \in T : x <= y
<1>1. PICK x \in T : \A y \in T : ~ (<<y, x>> \in OpToRel(<, Nat))
  BY NatLessThanWellFounded, WFMin
<1>2. \A y \in T : x <= y
  <2> SUFFICES ASSUME NEW y \in T PROVE x <= y
    OBVIOUS
  <2>1. ~ (y < x)
    BY <1>1 DEF OpToRel
  <2> QED
    BY <2>1
<1> QED
  BY <1>2

\* What holds of x when it holds of all that measures less holds of everything.
Descends(D, m, T) == \A x \in D : (\A y \in D : m[y] < m[x] => y \in T) => x \in T

LEMMA Descent ==
    ASSUME NEW D, NEW m \in [D -> Nat], NEW T \in SUBSET D, Descends(D, m, T)
    PROVE  T = D
<1> DEFINE M == {m[x] : x \in D \ T}
<1> SUFFICES ASSUME D \ T # {} PROVE FALSE
  OBVIOUS
<1>1. M \in SUBSET Nat /\ M # {}
  OBVIOUS
<1> HIDE DEF M
<1>2. PICK n \in M : \A k \in M : n <= k
  BY <1>1, Smallest
<1>3. PICK x \in D \ T : n = m[x]
  BY <1>2 DEF M
<1>4. ASSUME NEW y \in D, m[y] < m[x] PROVE y \in T
  <2> SUFFICES ASSUME y \notin T PROVE FALSE
    OBVIOUS
  <2>1. m[y] \in M
    BY DEF M
  <2>2. m[x] <= m[y] /\ m[x] \in Nat /\ m[y] \in Nat
    BY <1>2, <1>3, <2>1
  <2> QED
    BY <2>2, <1>4
<1> QED
  BY <1>3, <1>4 DEF Descends

\* Below(D, m, k) is what measures less than k.
Below(D, m, k) == {x \in D : m[x] < k}

\* f is given on C by B where the recursion stops, and from its value at N elsewhere.
Recurs(f, C, Stop, B, N, op) ==
    f = [x \in C |-> IF x \in Stop THEN B[x] ELSE op[<<x, f[N[x]]>>]]

\* A recursion to arguments that measure less, with values in V, has a solution in V.
LEMMA Recursion ==
    ASSUME NEW D, NEW V, NEW Stop \in SUBSET D, NEW B \in [Stop -> V], NEW N \in [D \ Stop -> D],
           NEW op \in [(D \ Stop) \X V -> V],
           NEW K \in Nat, NEW m \in [D -> 0 .. K], \A x \in D \ Stop : m[N[x]] < m[x]
    PROVE  \E f \in [D -> V] : Recurs(f, D, Stop, B, N, op)
<1> DEFINE Has(k) == \E f : Recurs(f, Below(D, m, k), Stop, B, N, op)
           lacking == {k \in Nat : ~ Has(k)}
<1>1. Has(0)
  <2>1. Below(D, m, 0) = {}
    BY DEF Below
  <2>2. Recurs([x \in {} |-> 0], Below(D, m, 0), Stop, B, N, op)
    BY <2>1 DEF Recurs
  <2> QED
    BY <2>2
<1>2. ASSUME NEW k \in Nat, Has(k) PROVE Has(k + 1)
  <2>1. PICK f : Recurs(f, Below(D, m, k), Stop, B, N, op)
    BY <1>2
  <2> DEFINE g == [x \in Below(D, m, k + 1) |-> IF x \in Stop THEN B[x] ELSE op[<<x, f[N[x]]>>]]
  <2>2. \A x \in Below(D, m, k) : g[x] = f[x]
    <3>1. \A x \in Below(D, m, k) : x \in Below(D, m, k + 1)
      BY DEF Below
    <3>2. \A x \in Below(D, m, k) : f[x] = IF x \in Stop THEN B[x] ELSE op[<<x, f[N[x]]>>]
      BY <2>1 DEF Recurs
    <3> QED
      BY <3>1, <3>2
  <2>3. \A x \in Below(D, m, k + 1) \ Stop : f[N[x]] = g[N[x]]
    <3> SUFFICES ASSUME NEW x \in Below(D, m, k + 1) \ Stop PROVE f[N[x]] = g[N[x]]
      OBVIOUS
    <3>1. x \in D \ Stop /\ m[x] \in 0 .. K /\ m[x] < k + 1 /\ N[x] \in D /\ m[N[x]] \in 0 .. K
      BY DEF Below
    <3>2. N[x] \in Below(D, m, k)
      BY <3>1 DEF Below
    <3> HIDE DEF g
    <3> QED
      BY <2>2, <3>2
  <2>4. Recurs(g, Below(D, m, k + 1), Stop, B, N, op)
    <3>1. g = [x \in Below(D, m, k + 1) |-> IF x \in Stop THEN B[x] ELSE op[<<x, g[N[x]]>>]]
      BY <2>3
    <3> HIDE DEF g
    <3> QED
      BY <3>1 DEF Recurs
  <2> HIDE DEF g
  <2> QED
    BY <2>4
<1>3. Has(K + 1)
  <2> DEFINE T == {k \in Nat : Has(k)}
  <2>1. T \in SUBSET Nat /\ 0 \in T /\ \A k \in T : k + 1 \in T
    BY <1>1, <1>2
  <2> HIDE DEF T, Has
  <2>2. T = Nat
    <3> SUFFICES ASSUME Nat \ T # {} PROVE FALSE
      BY <2>1
    <3>1. PICK x \in Nat \ T : \A y \in Nat \ T : x <= y
      BY Smallest
    <3>2. x # 0 /\ x - 1 \in Nat /\ (x - 1) + 1 = x /\ ~ (x <= x - 1)
      BY <2>1
    <3>3. x - 1 \in T
      BY <3>1, <3>2
    <3> QED
      BY <2>1, <3>2, <3>3
  <2> QED
    BY <2>2 DEF T
<1> HIDE DEF Has
<1>4. Below(D, m, K + 1) = D
  BY DEF Below
<1>5. PICK f : Recurs(f, D, Stop, B, N, op)
  BY <1>3, <1>4 DEF Has
<1>6. f = [x \in D |-> f[x]] /\ \A x \in D : f[x] = IF x \in Stop THEN B[x] ELSE op[<<x, f[N[x]]>>]
  BY <1>5 DEF Recurs
<1> DEFINE T == {x \in D : f[x] \in V}
<1>7. ASSUME NEW x \in D, \A y \in D : m[y] < m[x] => y \in T PROVE x \in T
  <2>1. CASE x \in Stop
    BY <1>6, <2>1
  <2>2. CASE x \notin Stop
    <3>1. N[x] \in D /\ m[N[x]] < m[x]
      BY <2>2
    <3>2. f[N[x]] \in V
      BY <1>7, <3>1
    <3>3. op[<<x, f[N[x]]>>] \in V
      BY <2>2, <3>2
    <3>4. f[x] \in V
      BY <1>6, <2>2, <3>3
    <3> QED
      BY <3>4
  <2> QED
    BY <2>1, <2>2
<1>8. T = D
  <2>1. m \in [D -> Nat] /\ T \in SUBSET D
    OBVIOUS
  <2>2. Descends(D, m, T)
    BY <1>7 DEF Descends
  <2> HIDE DEF T
  <2> QED
    BY <2>1, <2>2, Descent
<1>9. f \in [D -> V]
  BY <1>6, <1>8
<1> QED
  BY <1>5, <1>9

LEMMA Induction ==
    ASSUME NEW T \in SUBSET Nat, 0 \in T, \A k \in T : k + 1 \in T
    PROVE  T = Nat
<1> SUFFICES ASSUME Nat \ T # {} PROVE FALSE
  OBVIOUS
<1>1. PICK x \in Nat \ T : \A y \in Nat \ T : x <= y
  BY Smallest
<1>2. x # 0 /\ x - 1 \in Nat /\ (x - 1) + 1 = x /\ ~ (x <= x - 1)
  BY <1>1
<1>3. x - 1 \in T
  BY <1>1, <1>2
<1> QED
  BY <1>2, <1>3

\* What holds of 0 and is passed on holds up to n.
LEMMA InductionTo ==
    ASSUME NEW n \in Nat, NEW T \in SUBSET (0 .. n), 0 \in T, \A k \in T : k < n => k + 1 \in T
    PROVE  T = 0 .. n
<1> DEFINE U == {k \in Nat : k <= n => k \in T}
<1>1. U \in SUBSET Nat /\ 0 \in U /\ \A k \in U : k + 1 \in U
  OBVIOUS
<1> HIDE DEF U
<1>2. U = Nat
  BY <1>1, Induction
<1>3. \A k \in 0 .. n : k \in Nat /\ k <= n
  OBVIOUS
<1>4. \A k \in 0 .. n : k \in T
  BY <1>2, <1>3 DEF U
<1> QED
  BY <1>4

\* A step of a recursion stays in V.
Keeps(I, V, op) == \A i \in I : \A v \in V : op[<<i, v>>] \in V

GoesUp(f, n, V, b, op)   == f \in [0 .. n -> V] /\ f[0] = b /\ \A i \in 1 .. n : f[i] = op[<<i, f[i - 1]>>]
GoesDown(f, n, V, b, op) == f \in [0 .. n -> V] /\ f[n] = b /\ \A i \in 0 .. n - 1 : f[i] = op[<<i, f[i + 1]>>]

\* A recursion to the number before has a solution.
LEMMA Upward ==
    ASSUME NEW n \in Nat, NEW V, NEW b \in V, NEW op, Keeps(1 .. n, V, op)
    PROVE  \E f : GoesUp(f, n, V, b, op)
<1> DEFINE D == 0 .. n
           Stop == {0}
           B == [i \in Stop |-> b]
           N == [i \in D \ Stop |-> i - 1]
           go == [p \in (D \ Stop) \X V |-> op[p]]
           m == [i \in D |-> i]
<1>1. Stop \in SUBSET D /\ B \in [Stop -> V] /\ N \in [D \ Stop -> D] /\ m \in [D -> 0 .. n]
  OBVIOUS
<1>2. \A i \in D \ Stop : m[N[i]] < m[i]
  OBVIOUS
<1>3. D \ Stop = 1 .. n
  OBVIOUS
<1>4. go \in [(D \ Stop) \X V -> V]
  BY <1>3 DEF Keeps
<1>5. PICK f \in [D -> V] : Recurs(f, D, Stop, B, N, go)
  <2> HIDE DEF D, Stop, B, N, m, go
  <2> QED
    BY <1>1, <1>2, <1>4, Recursion
<1>6. \A i \in D : f[i] = IF i \in Stop THEN B[i] ELSE op[<<i, f[N[i]]>>]
  <2>1. \A i \in D : f[i] = IF i \in Stop THEN B[i] ELSE go[<<i, f[N[i]]>>]
    BY <1>5 DEF Recurs
  <2>2. \A i \in D \ Stop : f[N[i]] \in V
    BY <1>1, <1>5
  <2> QED
    BY <2>1, <2>2
<1>7. f[0] = b
  <2>1. 0 \in D /\ 0 \in Stop /\ B[0] = b
    OBVIOUS
  <2> HIDE DEF D, Stop, B, N
  <2> QED
    BY <1>6, <2>1
<1>8. \A i \in 1 .. n : f[i] = op[<<i, f[i - 1]>>]
  BY <1>6
<1> QED
  BY <1>5, <1>7, <1>8 DEF GoesUp

\* So has one to the number behind.
LEMMA Downward ==
    ASSUME NEW n \in Nat, NEW V, NEW b \in V, NEW op, Keeps(0 .. n - 1, V, op)
    PROVE  \E f : GoesDown(f, n, V, b, op)
<1> DEFINE D == 0 .. n
           Stop == {n}
           B == [i \in Stop |-> b]
           N == [i \in D \ Stop |-> i + 1]
           go == [p \in (D \ Stop) \X V |-> op[p]]
           m == [i \in D |-> n - i]
<1>1. Stop \in SUBSET D /\ B \in [Stop -> V] /\ N \in [D \ Stop -> D] /\ m \in [D -> 0 .. n]
  OBVIOUS
<1>2. \A i \in D \ Stop : m[N[i]] < m[i]
  OBVIOUS
<1>3. D \ Stop = 0 .. n - 1
  OBVIOUS
<1>4. go \in [(D \ Stop) \X V -> V]
  BY <1>3 DEF Keeps
<1>5. PICK f \in [D -> V] : Recurs(f, D, Stop, B, N, go)
  <2> HIDE DEF D, Stop, B, N, m, go
  <2> QED
    BY <1>1, <1>2, <1>4, Recursion
<1>6. \A i \in D : f[i] = IF i \in Stop THEN B[i] ELSE op[<<i, f[N[i]]>>]
  <2>1. \A i \in D : f[i] = IF i \in Stop THEN B[i] ELSE go[<<i, f[N[i]]>>]
    BY <1>5 DEF Recurs
  <2>2. \A i \in D \ Stop : f[N[i]] \in V
    BY <1>1, <1>5
  <2> QED
    BY <2>1, <2>2
<1>7. f[n] = b
  <2>1. n \in D /\ n \in Stop /\ B[n] = b
    OBVIOUS
  <2> HIDE DEF D, Stop, B, N
  <2> QED
    BY <1>6, <2>1
<1>8. \A i \in 0 .. n - 1 : f[i] = op[<<i, f[i + 1]>>]
  BY <1>6
<1> QED
  BY <1>5, <1>7, <1>8 DEF GoesDown

-----------------------------------------------------------------------------
(***************************************************************************)
(* LZW: the table.                                                         *)
(***************************************************************************)
Bytes == 0 .. Clear - 1

\* Widths and codes are in range.
CodecOK ==
    /\ width \in LitWidth + 1 .. MaxWidth
    /\ overflow = Pow2[width]
    /\ hi \in Eof .. HiModulus - 1
    /\ last \in Codes \cup {Invalid}
    /\ prefix \in [Codes -> Codes]
    /\ full \in BOOLEAN

\* The last code is one that an entry may continue, and was there before the entry hi;
\* hi, far beyond the table, stops before it overflows.
LastBeforeHi ==
    /\ last # Invalid => (last < Clear \/ last > Eof) /\ (hi < TableSize => last < hi)
    /\ hi = HiModulus - 1 => last # Invalid

\* Until the table is full, the next entry is within it, and the code before is known but
\* right after a clear code.
NotFull ==
    ~ full => (hi + 1 < overflow \/ hi = Eof) /\ (last = Invalid => hi = Eof)

\* Less than a table-full of bytes waits in the buffer.
BufferOK == suffix \in [Codes -> Bytes] /\ output \in Seq(Bytes) /\ Len(output) < TableSize

DInv == CodecOK /\ PrefixesDescend /\ LastBeforeHi /\ NotFull /\ PanicOnlyWhenFull /\ BufferOK

LEMMA Sizes ==
  /\ Clear \in Nat /\ Clear >= 2 /\ Eof = Clear + 1 /\ Pow2[LitWidth + 1] = 2 * Clear
  /\ TableSize \in Nat /\ TableSize >= Clear + 2 /\ HiModulus > TableSize + 1 /\ HiModulus \in Nat
  /\ Invalid \in Nat /\ Invalid > TableSize /\ Codes = 0 .. TableSize - 1
  /\ LitWidth \in Nat /\ MaxWidth \in Nat /\ LitWidth + 1 <= MaxWidth
<1>1. LitWidth \in 1 .. MaxWidth /\ LitWidth \in 0 .. MaxWidth - 1 /\ 1 \in 0 .. MaxWidth /\ 0 \in 0 .. MaxWidth - 1
  BY LZWAssumption
<1>2. Pow2[LitWidth + 1] = 2 * Pow2[LitWidth] /\ Pow2[0 + 1] = 2 * Pow2[0] /\ Pow2[1] <= Pow2[LitWidth]
  BY <1>1, LZWAssumption
<1>3. Pow2[LitWidth] \in Nat /\ Pow2[MaxWidth] \in Nat
  BY <1>1, LZWAssumption
<1>4. Pow2[LitWidth] >= 2
  BY <1>2, <1>3, LZWAssumption
<1>5. HiModulus \in Nat /\ HiModulus > Pow2[MaxWidth] + 1 /\ Pow2[MaxWidth] >= Pow2[LitWidth] + 2
  BY LZWAssumption
<1>6. LitWidth \in Nat /\ MaxWidth \in Nat /\ LitWidth + 1 <= MaxWidth
  BY LZWAssumption
<1> QED BY <1>2, <1>3, <1>4, <1>5, <1>6 DEF Clear, Eof, TableSize, Codes, Invalid

LEMMA Widths ==
  ASSUME NEW w \in LitWidth + 1 .. MaxWidth
  PROVE  /\ Pow2[w] \in Nat /\ 2 * Clear <= Pow2[w] /\ Pow2[w] <= TableSize
         /\ w # MaxWidth => w + 1 \in LitWidth + 1 .. MaxWidth /\ Pow2[w + 1] = 2 * Pow2[w]
<1>1. w \in 0 .. MaxWidth /\ LitWidth + 1 \in 0 .. MaxWidth /\ MaxWidth \in 0 .. MaxWidth
  BY Sizes
<1>2. LitWidth + 1 <= w /\ w <= MaxWidth
  BY Sizes
<1>4. Pow2[LitWidth + 1] <= Pow2[w] /\ Pow2[w] <= Pow2[MaxWidth] /\ Pow2[w] \in Nat
  BY <1>1, <1>2, LZWAssumption
<1>3. w # MaxWidth => w \in 0 .. MaxWidth - 1
  BY <1>1, Sizes
<1>5. w # MaxWidth => w + 1 \in LitWidth + 1 .. MaxWidth /\ Pow2[w + 1] = 2 * Pow2[w]
  BY <1>2, <1>3, Sizes, LZWAssumption
<1> QED BY <1>4, <1>5, Sizes DEF TableSize

LEMMA InitDInv == DInit => DInv
<1> SUFFICES ASSUME DInit PROVE DInv
  OBVIOUS
<1>1. CodecOK
  <2>1. LitWidth + 1 \in LitWidth + 1 .. MaxWidth
    BY Sizes
  <2>2. \A c \in Codes : 0 \in Codes
    BY Sizes
  <2> QED BY <2>1, <2>2, Sizes DEF DInit, CodecOK
<1>2. PrefixesDescend
  BY Sizes DEF DInit, PrefixesDescend
<1>3. LastBeforeHi /\ NotFull /\ PanicOnlyWhenFull
  BY Sizes DEF DInit, LastBeforeHi, NotFull, PanicOnlyWhenFull
<1>4. BufferOK
  <2>1. 0 \in Bytes
    BY Sizes DEF Bytes
  <2>2. <<>> \in Seq(Bytes) /\ Len(<<>>) = 0
    BY EmptySeq
  <2> QED BY <2>1, <2>2, Sizes DEF DInit, BufferOK
<1> QED BY <1>1, <1>2, <1>3, <1>4 DEF DInv

\* hi counts up modulo HiModulus.
LEMMA NextHi ==
  ASSUME NEW h \in Nat, NEW m \in Nat, h < m
  PROVE  (h + 1) % m = IF h + 1 = m THEN 0 ELSE h + 1
<1>1. CASE h + 1 = m
  BY <1>1
<1>2. CASE h + 1 < m
  BY <1>2
<1> QED
  BY <1>1, <1>2

\* A code that is decoded leaves the counters as they must be.
LEMMA AdvanceInv ==
  ASSUME DInv, NEW code \in Codes, Advance(code), code < Clear \/ code > Eof, code <= hi,
         last # Invalid => hi < TableSize
  PROVE  /\ width' \in LitWidth + 1 .. MaxWidth /\ overflow' = Pow2[width']
         /\ hi' \in Eof .. HiModulus - 1 /\ last' \in Codes \cup {Invalid} /\ full' \in BOOLEAN
         /\ LastBeforeHi' /\ NotFull'
<1>1. /\ width \in LitWidth + 1 .. MaxWidth /\ overflow = Pow2[width] /\ overflow \in Nat
      /\ 2 * Clear <= overflow /\ overflow <= TableSize
      /\ width # MaxWidth => width + 1 \in LitWidth + 1 .. MaxWidth /\ Pow2[width + 1] = 2 * overflow
      /\ hi \in Eof .. HiModulus - 1 /\ full \in BOOLEAN
      /\ width = MaxWidth => overflow = TableSize
  BY Widths DEF DInv, CodecOK, TableSize
<1>2. hi + 1 \in Eof .. HiModulus - 1 /\ hi' = hi + 1
  <2>1. hi < HiModulus - 1
    BY <1>1, Sizes DEF DInv, LastBeforeHi
  <2>2. hi \in Nat /\ HiModulus \in Nat /\ hi < HiModulus /\ hi + 1 # HiModulus
    BY <2>1, <1>1, Sizes
  <2>3. (hi + 1) % HiModulus = IF hi + 1 = HiModulus THEN 0 ELSE hi + 1
    BY <2>2, NextHi
  <2> QED BY <2>1, <2>2, <2>3, <1>1, Sizes DEF Advance
<1>3. (hi' + 1) % HiModulus = IF hi' = HiModulus - 1 THEN 0 ELSE hi' + 1
  <2>1. hi' \in Nat /\ hi' < HiModulus /\ HiModulus \in Nat
    BY <1>2, Sizes
  <2>2. (hi' + 1) % HiModulus = IF hi' + 1 = HiModulus THEN 0 ELSE hi' + 1
    BY <2>1, NextHi
  <2> QED BY <2>1, <2>2
<1>4. code \in Nat /\ code # Invalid /\ code < hi'
  BY <1>1, <1>2, Sizes
<1>5. ~ full => hi + 1 < overflow \/ hi = Eof
  BY DEF DInv, NotFull
<1>6. CASE (hi' + 1) % HiModulus >= overflow /\ width = MaxWidth
  <2>1. last' = Invalid /\ full' = TRUE /\ UNCHANGED <<width, overflow>> /\ hi' # HiModulus - 1
    BY <1>6, <1>3, <1>1, Sizes DEF Advance
  <2> QED BY <2>1, <1>1, <1>2 DEF LastBeforeHi, NotFull
<1>7. CASE (hi' + 1) % HiModulus >= overflow /\ width # MaxWidth
  <2>1. last' = code /\ width' = width + 1 /\ overflow' = 2 * overflow /\ full' = full
    BY <1>7 DEF Advance
  <2>2. LastBeforeHi'
    BY <2>1, <1>4 DEF LastBeforeHi
  <2>3. ~ full => hi' + 1 < 2 * overflow
    BY <1>1, <1>2, <1>5, Sizes
  <2>4. NotFull'
    BY <2>1, <2>3, <1>4 DEF NotFull
  <2> QED BY <2>1, <2>2, <2>4, <1>1, <1>2, <1>7
<1>8. CASE ~ ((hi' + 1) % HiModulus >= overflow)
  <2>1. last' = code /\ UNCHANGED <<width, overflow, full>>
    BY <1>8 DEF Advance
  <2>2. LastBeforeHi'
    BY <2>1, <1>4 DEF LastBeforeHi
  <2>3. ~ full => hi' # HiModulus - 1
    BY <1>1, <1>2, <1>5, Sizes
  <2>4. ~ full => hi' + 1 < overflow
    BY <2>3, <1>1, <1>2, <1>3, <1>8, Sizes
  <2>5. NotFull'
    BY <2>1, <2>4, <1>4 DEF NotFull
  <2> QED BY <2>1, <2>2, <2>5, <1>1, <1>2
<1> QED BY <1>6, <1>7, <1>8

\* The entry that is saved continues the last code, which came before it.
LEMMA SaveInv ==
  ASSUME DInv, NEW code, NEW first \in Bytes, Save(code, first)
  PROVE  prefix' \in [Codes -> Codes] /\ PrefixesDescend' /\ suffix' \in [Codes -> Bytes]
<1>1. CASE last = Invalid
  BY <1>1 DEF Save, table, DInv, CodecOK, PrefixesDescend, BufferOK
<1>2. CASE last # Invalid
  <2>1. hi \in Codes /\ last \in Codes /\ last < hi /\ (last < Clear \/ last > Eof)
    BY <1>2, Sizes DEF Save, DInv, CodecOK, LastBeforeHi
  <2>2. prefix' = [prefix EXCEPT ![hi] = last]
    BY <1>2 DEF Save
  <2>3. prefix' \in [Codes -> Codes]
    BY <2>1, <2>2 DEF DInv, CodecOK
  <2>4. \A c \in Codes : prefix'[c] < Clear \/ (prefix'[c] > Eof /\ prefix'[c] < c)
    BY <2>1, <2>2 DEF DInv, CodecOK, PrefixesDescend
  <2>5. suffix' \in [Codes -> Bytes]
    BY <1>2, <2>1 DEF Save, DInv, BufferOK
  <2> QED BY <2>3, <2>4, <2>5 DEF PrefixesDescend
<1> QED BY <1>1, <1>2

\* The number of bytes that a code may stand for.
MostBytes(d) == IF d < Clear THEN 1 ELSE d - Clear + 2

\* A table whose chains descend, and the bytes at the end of a chain that e gives.
IsTable(p, s) ==
    /\ p \in [Codes -> Codes] /\ s \in [Codes -> Bytes]
    /\ \A c \in Codes : p[c] < Clear \/ (p[c] > Eof /\ p[c] < c)
ChainStep(p, s, e, d) == IF d < Clear THEN <<d>> ELSE Append(e[p[d]], s[d])
Expands(e, p, s) == e = [d \in Codes |-> ChainStep(p, s, e, d)]

\* A chain starts at a literal or goes on at a smaller code.
LEMMA ChainDown ==
  ASSUME NEW p, NEW s, IsTable(p, s), NEW d \in Codes, ~ (d < Clear)
  PROVE  p[d] \in Codes /\ p[d] < d /\ s[d] \in Bytes /\ d \in Nat /\ MostBytes(p[d]) + 1 <= MostBytes(d)
<1>1. /\ p[d] \in Codes /\ s[d] \in Bytes
      /\ p[d] < Clear \/ (p[d] > Eof /\ p[d] < d)
  BY DEF IsTable
<1> QED BY <1>1, Sizes DEF MostBytes

\* One more byte makes a sequence of bytes that is one longer.
LEMMA OneMore ==
  ASSUME NEW q \in Seq(Bytes), NEW x \in Bytes
  PROVE  Append(q, x) \in Seq(Bytes) /\ Len(Append(q, x)) = Len(q) + 1
BY AppendProperties

\* The bytes of all the chains of a table.
Chain(p, s) == CHOOSE e : Expands(e, p, s)

LEMMA ChainSolves ==
  ASSUME NEW p, NEW s, IsTable(p, s)
  PROVE  Expands(Chain(p, s), p, s)
<1> DEFINE V == Seq(Bytes)
           Stop == {d \in Codes : d < Clear}
           B == [d \in Stop |-> <<d>>]
           N == [d \in Codes \ Stop |-> p[d]]
           op == [q \in (Codes \ Stop) \X V |-> Append(q[2], s[q[1]])]
           m == [d \in Codes |-> d]
<1>2. \A d \in Codes \ Stop : p[d] \in Codes /\ m[p[d]] < m[d] /\ s[d] \in Bytes
  BY ChainDown
<1>3. PICK f \in [Codes -> V] : Recurs(f, Codes, Stop, B, N, op)
  <2>1. Stop \in SUBSET Codes /\ N \in [Codes \ Stop -> Codes]
    BY <1>2
  <2>2. B \in [Stop -> V]
    <3>1. \A d \in Stop : d \in Bytes
      BY Sizes DEF Bytes
    <3> QED BY <3>1
  <2>3. op \in [(Codes \ Stop) \X V -> V]
    <3>1. \A d \in Codes \ Stop, v \in V : Append(v, s[d]) \in V
      BY <1>2, OneMore
    <3> QED BY <3>1
  <2>4. m \in [Codes -> 0 .. TableSize] /\ TableSize \in Nat
    BY Sizes
  <2>5. \A d \in Codes \ Stop : m[N[d]] < m[d]
    BY <1>2
  <2> HIDE DEF V, Stop, B, N, op, m
  <2> QED BY <2>1, <2>2, <2>3, <2>4, <2>5, Recursion
<1>4. ASSUME NEW d \in Codes
      PROVE  (IF d \in Stop THEN B[d] ELSE op[<<d, f[N[d]]>>]) = ChainStep(p, s, f, d)
  <2>1. CASE d \in Stop
    BY <2>1 DEF ChainStep
  <2>2. CASE d \notin Stop
    <3>1. N[d] = p[d] /\ f[p[d]] \in V
      BY <1>2, <2>2
    <3>2. op[<<d, f[p[d]]>>] = Append(f[p[d]], s[d])
      BY <2>2, <3>1
    <3> QED BY <2>2, <3>1, <3>2 DEF ChainStep
  <2> QED BY <2>1, <2>2
<1>5. f = [d \in Codes |-> IF d \in Stop THEN B[d] ELSE op[<<d, f[N[d]]>>]]
  BY <1>3 DEF Recurs
<1> HIDE DEF Stop, B, N, op
<1>6. Expands(f, p, s)
  BY <1>4, <1>5 DEF Expands
<1> QED
  BY <1>6 DEF Chain

\* Every code has a chain, and the recursion of Expansion gives its bytes.
LEMMA ExpansionSolves ==
  ASSUME IsTable(prefix, suffix)
  PROVE  \E e : Expands(e, prefix, suffix) /\ \A c : Expansion(c) = e[c]
<1> DEFINE e == Chain(prefix, suffix)
<1>1. \A c : Expansion(c) = e[c]
  BY DEF Expansion, Chain, Expands, ChainStep
<1> HIDE DEF e
<1>2. Expands(e, prefix, suffix)
  BY ChainSolves DEF e
<1> QED
  BY <1>1, <1>2

GoodChain(e, d) == e[d] \in Seq(Bytes) /\ Len(e[d]) \in 1 .. MostBytes(d)

LEMMA ChainsGood ==
  ASSUME NEW p, NEW s, NEW e, IsTable(p, s), Expands(e, p, s), NEW c \in Codes
  PROVE  GoodChain(e, c)
<1> DEFINE bad == {d \in Codes : ~ GoodChain(e, d)}
<1> SUFFICES ASSUME bad # {} PROVE FALSE
  OBVIOUS
<1>1. PICK d \in bad : \A j \in bad : ~ (<<j, d>> \in OpToRel(<, Nat))
  <2>1. bad \subseteq Nat
    BY Sizes
  <2> QED BY <2>1, NatLessThanWellFounded, WFMin
<1>2. d \in Codes /\ d \in Nat /\ ~ GoodChain(e, d) /\ \A j \in Codes : j < d => GoodChain(e, j)
  <2>1. \A j \in Codes : j \in Nat
    BY Sizes
  <2>2. d \in Nat /\ \A j \in bad : ~ (j < d)
    <3>1. bad \subseteq Nat
      BY <2>1
    <3> HIDE DEF bad
    <3> QED BY <1>1, <3>1 DEF OpToRel
  <2>3. d \in Codes /\ ~ GoodChain(e, d)
    OBVIOUS
  <2> QED BY <2>1, <2>2, <2>3
<1>3. e[d] = ChainStep(p, s, e, d)
  BY <1>2 DEF Expands
<1>4. CASE d < Clear
  <2>1. e[d] = <<d>> /\ d \in Bytes
    BY <1>2, <1>3, <1>4, Sizes DEF ChainStep, Bytes
  <2>2. <<d>> \in Seq(Bytes) /\ Len(<<d>>) = 1
    BY <2>1
  <2> QED BY <2>1, <2>2, <1>2, <1>4 DEF GoodChain, MostBytes
<1>5. CASE ~ (d < Clear)
  <2>1. e[d] = Append(e[p[d]], s[d])
    BY <1>3, <1>5 DEF ChainStep
  <2>2. p[d] \in Codes /\ p[d] < d /\ s[d] \in Bytes /\ MostBytes(p[d]) + 1 <= MostBytes(d)
    BY <1>2, <1>5, ChainDown
  <2>3. GoodChain(e, p[d])
    BY <1>2, <2>2
  <2>4. e[d] \in Seq(Bytes) /\ Len(e[d]) = Len(e[p[d]]) + 1
    BY <2>1, <2>2, <2>3, OneMore DEF GoodChain
  <2>5. MostBytes(d) \in Nat /\ MostBytes(p[d]) \in Nat
    BY <1>2, <2>2, Sizes DEF MostBytes
  <2>6. Len(e[d]) \in 1 .. MostBytes(d)
    BY <2>2, <2>3, <2>4, <2>5 DEF GoodChain
  <2> QED BY <2>4, <2>6, <1>2 DEF GoodChain
<1> QED BY <1>4, <1>5

\* What a code is decoded to, the one that is being made included, has a byte and no more
\* than the table has codes.
LEMMA DecodedFits ==
  ASSUME IsTable(prefix, suffix), NEW c \in Codes, c = hi => last \in Codes /\ last < hi
  PROVE  /\ Decoded(c) \in Seq(Bytes) /\ Len(Decoded(c)) \in 1 .. TableSize
         /\ Decoded(c)[1] \in Bytes
<1>1. PICK e : Expands(e, prefix, suffix) /\ \A d : Expansion(d) = e[d]
  BY ExpansionSolves
<1>2. \A d \in Codes : Expansion(d) \in Seq(Bytes) /\ Len(Expansion(d)) \in 1 .. MostBytes(d)
  BY <1>1, ChainsGood DEF GoodChain
<1>3. \A d \in Codes : MostBytes(d) \in Nat /\ MostBytes(d) < TableSize
  BY Sizes DEF MostBytes
<1>4. Decoded(c) \in Seq(Bytes) /\ Len(Decoded(c)) \in 1 .. TableSize
  <2>1. CASE c # hi
    BY <2>1, <1>2, <1>3, Sizes DEF Decoded
  <2>2. CASE c = hi
    <3> DEFINE x == Expansion(last)
    <3>1. x \in Seq(Bytes) /\ Len(x) \in 1 .. MostBytes(last) /\ MostBytes(last) \in Nat
          /\ MostBytes(last) < TableSize
      BY <2>2, <1>2, <1>3
    <3>2. Decoded(c) = Append(x, x[1])
      BY <2>2 DEF Decoded
    <3> HIDE DEF x
    <3>3. x[1] \in Bytes
      BY <3>1, ElementOfSeq
    <3>4. Append(x, x[1]) \in Seq(Bytes) /\ Len(Append(x, x[1])) = Len(x) + 1
      BY <3>1, <3>3, OneMore
    <3> QED BY <3>1, <3>2, <3>4, Sizes
  <2> QED BY <2>1, <2>2
<1>5. Decoded(c)[1] \in Bytes
  <2> DEFINE x == Decoded(c)
  <2> HIDE DEF x
  <2>1. x \in Seq(Bytes) /\ Len(x) \in 1 .. TableSize
    BY <1>4 DEF x
  <2>2. x[1] \in Bytes
    BY <2>1, Sizes, ElementOfSeq
  <2> QED BY <2>2 DEF x
<1> QED BY <1>4, <1>5
LEMMA InvTable == DInv => IsTable(prefix, suffix)
BY DEF DInv, CodecOK, PrefixesDescend, BufferOK, IsTable

LEMMA EmptyBuffer == <<>> \in Seq(Bytes) /\ Len(<<>>) < TableSize
<1>1. <<>> \in Seq(Bytes) /\ Len(<<>>) = 0
  BY EmptySeq
<1> QED BY <1>1, Sizes

\* The bytes of a code are a step of the buffer.
LEMMA StoredInv ==
  ASSUME NEW bytes \in Seq(Bytes), Stored(bytes)
  PROVE  output' \in Seq(Bytes) /\ Len(output') < TableSize
<1>1. CASE Len(bytes) >= TableSize
  <2>1. output' = <<>>
    BY <1>1 DEF Stored
  <2> QED BY <2>1, EmptyBuffer
<1>2. CASE ~ (Len(bytes) >= TableSize)
  <2>1. output' = bytes
    BY <1>2 DEF Stored
  <2>2. Len(bytes) \in Nat
    BY LenProperties
  <2>3. Len(bytes) < TableSize
    BY <1>2, <2>2, Sizes
  <2> QED BY <2>1, <2>3
<1> QED BY <1>1, <1>2

LEMMA DecodeInv ==
  ASSUME DInv, NEW code \in Nat, code < Pow2[width], Decode(code)
  PROVE  DInv'
<1>1. code \in Codes
  BY Widths, Sizes DEF DInv, CodecOK
<1>2. CASE LiteralCode(code) \/ TableCode(code)
  <2>1. /\ Advance(code) /\ (code < Clear \/ code > Eof) /\ code <= hi
        /\ dpc' = dpc /\ dpc = "run"
    BY <1>2, <1>1, Sizes DEF LiteralCode, TableCode, Decoding, DInv, CodecOK
  <2>2. PICK first \in Bytes, bytes \in Seq(Bytes) : Save(code, first) /\ Stored(bytes)
    <3>1. output \in Seq(Bytes)
      BY DEF DInv, BufferOK
    <3>2. CASE LiteralCode(code)
      <4>1. code \in Bytes
        BY <3>2, Sizes DEF LiteralCode, Bytes
      <4>2. Append(output, code) \in Seq(Bytes)
        BY <3>1, <4>1, OneMore
      <4> QED BY <3>2, <4>1, <4>2 DEF LiteralCode
    <3>3. CASE TableCode(code)
      <4> DEFINE x == Decoded(code)
      <4>1. x \in Seq(Bytes) /\ x[1] \in Bytes
        <5>1. code = hi => last # Invalid
          BY <3>3 DEF TableCode
        <5>2. code = hi => last \in Codes /\ last < hi
          BY <5>1, <1>1, Sizes DEF DInv, CodecOK, LastBeforeHi
        <5> QED BY <1>1, <5>2, InvTable, DecodedFits
      <4>2. Save(code, x[1]) /\ Stored(output \o x)
        BY <3>3 DEF TableCode
      <4> HIDE DEF x
      <4>3. output \o x \in Seq(Bytes)
        BY <3>1, <4>1, ConcatProperties
      <4> QED BY <4>1, <4>2, <4>3
    <3> QED BY <1>2, <3>2, <3>3
  <2>3. last # Invalid => hi < TableSize
    BY <2>2 DEF Save
  <2>4. prefix' \in [Codes -> Codes] /\ PrefixesDescend' /\ suffix' \in [Codes -> Bytes]
    BY <2>2, SaveInv
  <2>5. /\ width' \in LitWidth + 1 .. MaxWidth /\ overflow' = Pow2[width']
        /\ hi' \in Eof .. HiModulus - 1 /\ last' \in Codes \cup {Invalid} /\ full' \in BOOLEAN
        /\ LastBeforeHi' /\ NotFull'
    BY <2>1, <2>3, <1>1, AdvanceInv
  <2>6. output' \in Seq(Bytes) /\ Len(output') < TableSize
    BY <2>2, StoredInv
  <2> QED BY <2>1, <2>4, <2>5, <2>6 DEF DInv, CodecOK, PanicOnlyWhenFull, BufferOK
<1>3. CASE ClearCode(code)
  <2>1. /\ width' = LitWidth + 1 /\ hi' = Eof /\ overflow' = Pow2[LitWidth + 1] /\ last' = Invalid
        /\ full' = FALSE /\ UNCHANGED <<prefix, suffix, output, dpc>> /\ dpc = "run"
    BY <1>3 DEF ClearCode, Decoding, table, buffer
  <2>2. CodecOK'
    <3>1. LitWidth + 1 \in LitWidth + 1 .. MaxWidth /\ Eof \in Eof .. HiModulus - 1
      BY Sizes
    <3> QED BY <2>1, <3>1 DEF DInv, CodecOK
  <2>3. PrefixesDescend' /\ LastBeforeHi' /\ NotFull' /\ PanicOnlyWhenFull' /\ BufferOK'
    BY <2>1, Sizes DEF DInv, PrefixesDescend, LastBeforeHi, NotFull, PanicOnlyWhenFull, BufferOK
  <2> QED BY <2>2, <2>3 DEF DInv
<1>4. CASE IndexOutOfRange(code)
  <2>1. full = TRUE
    <3>1. CASE code = hi /\ last = Invalid
      BY <3>1, <1>4 DEF IndexOutOfRange, DInv, NotFull, CodecOK
    <3>2. CASE last # Invalid /\ hi >= TableSize
      <4>1. overflow <= TableSize /\ overflow \in Nat /\ hi \in Nat
        BY Widths, Sizes DEF DInv, CodecOK
      <4> QED BY <3>2, <4>1, Sizes DEF DInv, NotFull, CodecOK
    <3> QED BY <3>1, <3>2, <1>4 DEF IndexOutOfRange
  <2>2. UNCHANGED <<width, hi, overflow, last, prefix, suffix, output, full>>
    BY <1>4 DEF IndexOutOfRange, codec, table, buffer
  <2> QED BY <2>1, <2>2
          DEF DInv, CodecOK, PrefixesDescend, LastBeforeHi, NotFull, PanicOnlyWhenFull, BufferOK
<1>5. CASE EofCode(code) \/ InvalidCode(code)
  <2>1. UNCHANGED <<width, hi, overflow, last, prefix, suffix, full, dpc>> /\ output' = <<>>
    BY <1>5 DEF EofCode, InvalidCode, Flush, codec, table
  <2> QED BY <2>1, EmptyBuffer
          DEF DInv, CodecOK, PrefixesDescend, LastBeforeHi, NotFull, PanicOnlyWhenFull, BufferOK
<1> QED BY <1>2, <1>3, <1>4, <1>5 DEF Decode

LEMMA NextDInv == DInv /\ [DNext]_dvars => DInv'
<1> SUFFICES ASSUME DInv, [DNext]_dvars PROVE DInv'
  OBVIOUS
<1>1. ASSUME NEW code \in Offered, code < Pow2[width], Decode(code) PROVE DInv'
  BY <1>1, DecodeInv, OfferedAssumption
<1>2. CASE EndOfInput \/ (\E n \in RoomSizes : Read(IF n < Len(toRead) THEN n ELSE Len(toRead)))
           \/ UNCHANGED dvars
  <2>1. /\ UNCHANGED <<width, hi, overflow, last, prefix, suffix, full, dpc>>
        /\ output' = <<>> \/ output' = output
    BY <1>2 DEF EndOfInput, Read, Flush, codec, table, buffer, dvars
  <2> QED BY <2>1, EmptyBuffer
          DEF DInv, CodecOK, PrefixesDescend, LastBeforeHi, NotFull, PanicOnlyWhenFull, BufferOK
<1> QED BY <1>1, <1>2 DEF DNext

\* The prefix chain of every code descends, on every sequence of codes.
THEOREM PrefixesDescendThm == DecoderSpec => []PrefixesDescend
<1>1. DInv => PrefixesDescend
  BY DEF DInv
<1> QED BY InitDInv, NextDInv, <1>1, PTL DEF DecoderSpec

\* decode indexes no array out of range unless a stream went on after filling the table.
THEOREM PanicOnlyWhenFullThm == DecoderSpec => []PanicOnlyWhenFull
<1>1. DInv => PanicOnlyWhenFull
  BY DEF DInv
<1> QED BY InitDInv, NextDInv, <1>1, PTL DEF DecoderSpec

\* Whatever the code that comes next, the output buffer has room for its bytes behind the
\* ones that wait in it.
THEOREM RoomForEveryCodeThm == DecoderSpec => []RoomForEveryCode
<1>1. DInv => RoomForEveryCode
  <2> SUFFICES ASSUME DInv, NEW c \in Eof + 1 .. TableSize - 1, c <= hi, c = hi => last # Invalid
               PROVE  Len(output) + Len(Decoded(c)) <= 2 * TableSize
    BY DEF RoomForEveryCode
  <2>1. c \in Codes /\ (c = hi => last \in Codes /\ last < hi)
    BY Sizes DEF DInv, CodecOK, LastBeforeHi
  <2>2. Len(Decoded(c)) \in 1 .. TableSize
    BY <2>1, InvTable, DecodedFits
  <2>3. Len(output) \in Nat /\ Len(output) < TableSize
    BY LenProperties DEF DInv, BufferOK
  <2> QED BY <2>2, <2>3, Sizes
<1> QED BY InitDInv, NextDInv, <1>1, PTL DEF DecoderSpec

-----------------------------------------------------------------------------
(***************************************************************************)
(* Group 4.  What FirstOf, RunLength and RunBits give comes first: they are*)
(* recursive functions, which are what they are defined to be only because *)
(* the recursions end.                                                     *)
(***************************************************************************)
\* f is the scan of FirstOf.
Scans(f, row, to, c) == f = [b \in 0 .. to |-> IF b = to \/ row[b + 1] = c THEN b ELSE f[b + 1]]

LEMMA FirstOfIs ==
    ASSUME NEW row, NEW c, NEW to \in Nat
    PROVE  \E g : Scans(g, row, to, c) /\ \A start : FirstOf(row, start, to, c) = g[start]
<1> DEFINE g == CHOOSE f : Scans(f, row, to, c)
           Stop == {b \in 0 .. to : b = to \/ row[b + 1] = c}
           B == [b \in Stop |-> b]
           N == [b \in 0 .. to \ Stop |-> b + 1]
           op == [p \in (0 .. to \ Stop) \X (0 .. to) |-> p[2]]
           m == [b \in 0 .. to |-> to - b]
<1>1. \E f \in [0 .. to -> 0 .. to] : Recurs(f, 0 .. to, Stop, B, N, op)
  <2>1. /\ Stop \in SUBSET (0 .. to) /\ B \in [Stop -> 0 .. to] /\ N \in [0 .. to \ Stop -> 0 .. to]
        /\ op \in [(0 .. to \ Stop) \X (0 .. to) -> 0 .. to] /\ m \in [0 .. to -> 0 .. to]
    OBVIOUS
  <2>2. \A b \in 0 .. to \ Stop : m[N[b]] < m[b]
    OBVIOUS
  <2> HIDE DEF Stop, B, N, op, m
  <2> QED
    BY <2>1, <2>2, Recursion
<1>2. PICK f \in [0 .. to -> 0 .. to] : Recurs(f, 0 .. to, Stop, B, N, op)
  BY <1>1
<1>3. Scans(f, row, to, c)
  <2>1. ASSUME NEW b \in 0 .. to
        PROVE  (IF b \in Stop THEN B[b] ELSE op[<<b, f[N[b]]>>])
                   = IF b = to \/ row[b + 1] = c THEN b ELSE f[b + 1]
    <3>1. CASE b \in Stop
      BY <3>1
    <3>2. CASE b \notin Stop
      <4>1. N[b] = b + 1 /\ f[b + 1] \in 0 .. to /\ ~ (b = to \/ row[b + 1] = c)
        BY <3>2
      <4>2. op[<<b, f[b + 1]>>] = f[b + 1]
        BY <3>2, <4>1
      <4> QED
        BY <3>2, <4>1, <4>2
    <3> QED
      BY <3>1, <3>2
  <2> QED
    BY <1>2, <2>1 DEF Scans, Recurs
<1>4. Scans(g, row, to, c)
  BY <1>3 DEF g
<1>5. \A start : FirstOf(row, start, to, c) = g[start]
  BY DEF Scans, FirstOf
<1> HIDE DEF g
<1> QED
  BY <1>4, <1>5

\* FirstOf does not leave the places it looks at.
LEMMA FirstOfBetween ==
    ASSUME NEW row, NEW c, NEW to \in Nat, NEW start \in 0 .. to
    PROVE  FirstOf(row, start, to, c) \in start .. to
<1> DEFINE m == [b \in 0 .. to |-> to - b]
<1>4. PICK g : Scans(g, row, to, c) /\ \A s : FirstOf(row, s, to, c) = g[s]
  BY FirstOfIs
<1> DEFINE T == {b \in 0 .. to : g[b] \in b .. to}
<1>5. ASSUME NEW b \in 0 .. to, \A d \in 0 .. to : m[d] < m[b] => d \in T PROVE b \in T
  <2>1. g[b] = IF b = to \/ row[b + 1] = c THEN b ELSE g[b + 1]
    BY <1>4 DEF Scans
  <2>2. CASE g[b] = b
    BY <2>2
  <2>3. CASE g[b] # b
    <3>1. b # to /\ g[b] = g[b + 1]
      BY <2>1, <2>3
    <3>2. b + 1 \in 0 .. to /\ m[b + 1] < m[b]
      BY <3>1
    <3>3. b + 1 \in T
      BY <1>5, <3>2
    <3>4. g[b + 1] \in b + 1 .. to
      BY <3>3
    <3>5. \A v \in b + 1 .. to : v \in b .. to
      OBVIOUS
    <3>6. g[b] \in b .. to
      BY <3>1, <3>4, <3>5
    <3> QED
      BY <3>6
  <2> QED
    BY <2>2, <2>3
<1>6. m \in [0 .. to -> Nat] /\ T \in SUBSET (0 .. to)
  OBVIOUS
<1>7. T = 0 .. to
  <2> DEFINE D == 0 .. to
  <2>1. m \in [D -> Nat] /\ T \in SUBSET D
    BY <1>6
  <2>2. Descends(D, m, T)
    BY <1>5 DEF Descends
  <2> HIDE DEF D, T, m
  <2>3. T = D
    BY <2>1, <2>2, Descent
  <2> QED
    BY <2>3 DEF D
<1> HIDE DEF T
<1> QED
  BY <1>4, <1>7 DEF T

\* Two sequences of known lengths, one after the other; a sequence as a function.
LEMMA Together ==
    ASSUME NEW S, NEW q \in Seq(S), NEW r \in Seq(S),
           NEW m \in Nat, NEW n \in Nat, Len(q) = m, Len(r) = n
    PROVE  q \o r \in Seq(S) /\ Len(q \o r) = m + n
  BY ConcatProperties

LEMMA AsFunction ==
    ASSUME NEW S, NEW n \in Nat, NEW q \in Seq(S), Len(q) = n
    PROVE  q \in [1 .. n -> S]
  OBVIOUS

\* A code: how long it is, and its value.
Pairs == (Nat \ {0}) \X Nat

LEMMA TablesTyped ==
    ASSUME NEW codes \in {WhiteCodes, BlackCodes}
    PROVE  codes \in [1 .. Len(codes) -> Pairs] /\ Len(codes) \in Nat /\ Len(codes) = 91 + 13
<1> DEFINE m == 91
           n == 13
<1>1. WhiteRuns \in Seq(Pairs) /\ Len(WhiteRuns) = m
  BY DEF WhiteRuns, Pairs
<1>2. BlackRuns \in Seq(Pairs) /\ Len(BlackRuns) = m
  BY DEF BlackRuns, Pairs
<1>3. LongRuns \in Seq(Pairs) /\ Len(LongRuns) = n
  BY DEF LongRuns, Pairs
<1>4. m \in Nat /\ n \in Nat /\ m + n = 91 + 13
  OBVIOUS
<1> HIDE DEF m, n
<1>5. WhiteRuns \o LongRuns \in Seq(Pairs) /\ Len(WhiteRuns \o LongRuns) = m + n
  BY <1>1, <1>3, <1>4, Together
<1>6. BlackRuns \o LongRuns \in Seq(Pairs) /\ Len(BlackRuns \o LongRuns) = m + n
  BY <1>2, <1>3, <1>4, Together
<1>7. codes \in Seq(Pairs) /\ Len(codes) = m + n
  BY <1>5, <1>6 DEF WhiteCodes, BlackCodes
<1> QED
  BY <1>4, <1>7, AsFunction

\* The table has the code that is found, if one is.
LEMMA CodeAtTyped ==
    ASSUME NEW bits, NEW i, NEW codes, Len(codes) \in Nat, DOMAIN codes = 1 .. Len(codes)
    PROVE  CodeAt(bits, i, codes) \in 0 .. Len(codes)
<1> DEFINE value == CHOOSE value :
               value = [n \in 0 .. 13 |-> IF n = 0 THEN 0 ELSE 2 * value[n - 1] + bits[i + n]]
           Found(k) == IF k = 0 THEN \A j \in DOMAIN codes : codes[j][2] # value[codes[j][1]]
                       ELSE codes[k][2] = value[codes[k][1]]
<1>1. CodeAt(bits, i, codes) = CHOOSE k \in 0 .. Len(codes) : Found(k)
  BY DEF CodeAt
<1> HIDE DEF value
<1>2. \E k \in 0 .. Len(codes) : Found(k)
  <2>1. CASE \A j \in DOMAIN codes : codes[j][2] # value[codes[j][1]]
    <3>1. Found(0) /\ 0 \in 0 .. Len(codes)
      BY <2>1
    <3> QED
      BY <3>1
  <2>2. CASE ~ \A j \in DOMAIN codes : codes[j][2] # value[codes[j][1]]
    <3>1. PICK j \in 1 .. Len(codes) : codes[j][2] = value[codes[j][1]]
      BY <2>2
    <3>2. Found(j) /\ j \in 0 .. Len(codes)
      BY <3>1
    <3> QED
      BY <3>2
  <2> QED
    BY <2>1, <2>2
<1> HIDE DEF Found
<1> QED
  BY <1>1, <1>2

\* Every code of a table is for a run.
LEMMA RunAtTyped == ASSUME NEW k \in Nat \ {0} PROVE RunAt(k) \in Nat
  BY DEF RunAt

\* What runLength returns on n bits, and how it goes on after a code.
Runs(n) == [count : Nat, at : 0 .. n, ok : BOOLEAN]

RunStep(f, bits, codes, at) ==
    LET k    == CodeAt(bits, at, codes)
        next == at + codes[k][1]
    IN  IF k = 0 THEN [count |-> 0, at |-> at, ok |-> TRUE]
        ELSE IF Len(bits) - next < 24 THEN [count |-> RunAt(k), at |-> at, ok |-> FALSE]
        ELSE IF RunAt(k) < 64 THEN [count |-> RunAt(k), at |-> next, ok |-> TRUE]
        ELSE [f[next] EXCEPT !.count = @ + RunAt(k)]

\* f is the recursion of RunLength.
RunSteps(f, bits, codes) == f = [at \in 0 .. Len(bits) |-> RunStep(f, bits, codes, at)]

\* The code at a place, and where it ends.
CodeHere(bits, codes, at)  == CodeAt(bits, at, codes)
AfterCode(bits, codes, at) == at + codes[CodeHere(bits, codes, at)][1]

\* The run goes on after the code.
Onward(bits, codes, at) ==
    /\ CodeHere(bits, codes, at) # 0
    /\ ~ (Len(bits) - AfterCode(bits, codes, at) < 24)
    /\ ~ (RunAt(CodeHere(bits, codes, at)) < 64)

\* A step either is the last one, or goes on at a place further on.
LEMMA RunStepTyped ==
    ASSUME NEW bits, Len(bits) \in Nat, NEW codes \in {WhiteCodes, BlackCodes},
           NEW at \in 0 .. Len(bits)
    PROVE  /\ ~ Onward(bits, codes, at) =>
                  \A f, g : /\ RunStep(f, bits, codes, at) \in Runs(Len(bits))
                            /\ RunStep(f, bits, codes, at) = RunStep(g, bits, codes, at)
           /\ Onward(bits, codes, at) =>
                  /\ AfterCode(bits, codes, at) \in 0 .. Len(bits)
                  /\ Len(bits) - AfterCode(bits, codes, at) < Len(bits) - at
                  /\ RunAt(CodeHere(bits, codes, at)) \in Nat
                  /\ \A f : RunStep(f, bits, codes, at) =
                       [f[AfterCode(bits, codes, at)] EXCEPT !.count = @ + RunAt(CodeHere(bits, codes, at))]
<1> DEFINE k    == CodeHere(bits, codes, at)
           next == AfterCode(bits, codes, at)
<1>1. codes \in [1 .. Len(codes) -> Pairs] /\ Len(codes) \in Nat
  BY TablesTyped
<1>2. k \in 0 .. Len(codes) /\ next = at + codes[k][1]
  BY <1>1, CodeAtTyped DEF CodeHere, AfterCode
<1>3. \A f : RunStep(f, bits, codes, at) =
        IF k = 0 THEN [count |-> 0, at |-> at, ok |-> TRUE]
        ELSE IF Len(bits) - next < 24 THEN [count |-> RunAt(k), at |-> at, ok |-> FALSE]
        ELSE IF RunAt(k) < 64 THEN [count |-> RunAt(k), at |-> next, ok |-> TRUE]
        ELSE [f[next] EXCEPT !.count = @ + RunAt(k)]
  BY DEF RunStep, CodeHere, AfterCode
<1>4. Onward(bits, codes, at) <=> k # 0 /\ ~ (Len(bits) - next < 24) /\ ~ (RunAt(k) < 64)
  BY DEF Onward
<1>5. k # 0 => RunAt(k) \in Nat /\ next \in Nat /\ next > at
  <2> SUFFICES ASSUME k # 0 PROVE RunAt(k) \in Nat /\ next \in Nat /\ next > at
    OBVIOUS
  <2> HIDE DEF k, next
  <2>1. RunAt(k) \in Nat
    BY <1>2, RunAtTyped
  <2>2. codes[k] \in Pairs
    BY <1>1, <1>2
  <2> QED
    BY <1>2, <2>1, <2>2 DEF Pairs
<1> HIDE DEF k, next
<1>6. ASSUME ~ Onward(bits, codes, at), NEW f, NEW g
      PROVE  /\ RunStep(f, bits, codes, at) \in Runs(Len(bits))
             /\ RunStep(f, bits, codes, at) = RunStep(g, bits, codes, at)
  <2> DEFINE Both(r) == RunStep(f, bits, codes, at) = r /\ RunStep(g, bits, codes, at) = r
  <2>1. CASE k = 0
    <3>1. Both([count |-> 0, at |-> at, ok |-> TRUE])
      BY <1>3, <2>1
    <3>2. [count |-> 0, at |-> at, ok |-> TRUE] \in Runs(Len(bits))
      BY DEF Runs
    <3> QED
      BY <3>1, <3>2
  <2>2. CASE k # 0 /\ Len(bits) - next < 24
    <3>1. Both([count |-> RunAt(k), at |-> at, ok |-> FALSE])
      BY <1>3, <2>2
    <3>2. [count |-> RunAt(k), at |-> at, ok |-> FALSE] \in Runs(Len(bits))
      BY <1>5, <2>2 DEF Runs
    <3> QED
      BY <3>1, <3>2
  <2>3. CASE k # 0 /\ ~ (Len(bits) - next < 24) /\ RunAt(k) < 64
    <3>1. Both([count |-> RunAt(k), at |-> next, ok |-> TRUE])
      BY <1>3, <2>3
    <3>2. [count |-> RunAt(k), at |-> next, ok |-> TRUE] \in Runs(Len(bits))
      BY <1>5, <2>3 DEF Runs
    <3> QED
      BY <3>1, <3>2
  <2> QED
    BY <1>4, <1>6, <2>1, <2>2, <2>3
<1>7. ASSUME Onward(bits, codes, at)
      PROVE  /\ next \in 0 .. Len(bits) /\ Len(bits) - next < Len(bits) - at
             /\ RunAt(k) \in Nat
             /\ \A f : RunStep(f, bits, codes, at) = [f[next] EXCEPT !.count = @ + RunAt(k)]
  BY <1>3, <1>4, <1>5, <1>7
<1> QED
  BY <1>6, <1>7 DEF k, next

\* The table of a colour.
CodesOf(c) == IF c = White THEN WhiteCodes ELSE BlackCodes

LEMMA RunLengthIs ==
    ASSUME NEW bits, Len(bits) \in Nat, NEW c
    PROVE  \E g : RunSteps(g, bits, CodesOf(c)) /\ \A start : RunLength(bits, start, c) = g[start]
<1> DEFINE codes == IF c = White THEN WhiteCodes ELSE BlackCodes
           g == CHOOSE f : RunSteps(f, bits, codes)
           D == 0 .. Len(bits)
           V == Runs(Len(bits))
           Stop == {at \in D : ~ Onward(bits, codes, at)}
           B == [at \in Stop |-> RunStep(0, bits, codes, at)]
           N == [at \in D \ Stop |-> AfterCode(bits, codes, at)]
           op == [p \in (D \ Stop) \X V |->
                    [p[2] EXCEPT !.count = @ + RunAt(CodeHere(bits, codes, p[1]))]]
           m == [at \in D |-> Len(bits) - at]
<1>1. \A start : RunLength(bits, start, c) = g[start]
  BY DEF RunLength, RunSteps, RunStep
<1>2. codes \in {WhiteCodes, BlackCodes}
  OBVIOUS
<1>8. codes = CodesOf(c)
  BY DEF CodesOf
<1> HIDE DEF codes, g
<1>3. \A at \in D \ Stop : AfterCode(bits, codes, at) \in D /\ m[AfterCode(bits, codes, at)] < m[at]
  BY <1>2, RunStepTyped
<1>4. ASSUME NEW at \in D \ Stop, NEW v \in V
      PROVE  [v EXCEPT !.count = @ + RunAt(CodeHere(bits, codes, at))] \in V
  <2>1. RunAt(CodeHere(bits, codes, at)) \in Nat
    BY <1>2, RunStepTyped
  <2> QED
    BY <2>1 DEF Runs
<1>5. PICK f \in [D -> V] : Recurs(f, D, Stop, B, N, op)
  <2>1. Stop \in SUBSET D /\ N \in [D \ Stop -> D]
    BY <1>3
  <2>5. Len(bits) \in Nat /\ m \in [D -> 0 .. Len(bits)]
    OBVIOUS
  <2>2. B \in [Stop -> V]
    BY <1>2, RunStepTyped
  <2>3. op \in [(D \ Stop) \X V -> V]
    BY <1>4
  <2>4. \A at \in D \ Stop : m[N[at]] < m[at]
    BY <1>3
  <2> HIDE DEF D, V, Stop, B, N, op, m
  <2> QED
    BY <2>1, <2>2, <2>3, <2>4, <2>5, Recursion
<1>6. RunSteps(f, bits, codes)
  <2>1. ASSUME NEW at \in D
        PROVE  (IF at \in Stop THEN B[at] ELSE op[<<at, f[N[at]]>>]) = RunStep(f, bits, codes, at)
    <3>1. CASE at \in Stop
      BY <1>2, <3>1, RunStepTyped
    <3>2. CASE at \notin Stop
      <4>1. N[at] = AfterCode(bits, codes, at) /\ f[AfterCode(bits, codes, at)] \in V
        BY <1>3, <3>2
      <4>2. op[<<at, f[N[at]]>>] =
              [f[AfterCode(bits, codes, at)] EXCEPT !.count = @ + RunAt(CodeHere(bits, codes, at))]
        BY <3>2, <4>1
      <4>3. RunStep(f, bits, codes, at) =
              [f[AfterCode(bits, codes, at)] EXCEPT !.count = @ + RunAt(CodeHere(bits, codes, at))]
        <5>1. Onward(bits, codes, at) /\ at \in 0 .. Len(bits)
          BY <3>2
        <5> HIDE DEF D, V, Stop, B, N, op, m
        <5> QED
          BY <1>2, <5>1, RunStepTyped
      <4> QED
        BY <3>2, <4>2, <4>3
    <3> QED
      BY <3>1, <3>2
  <2>2. f = [at \in D |-> IF at \in Stop THEN B[at] ELSE op[<<at, f[N[at]]>>]]
    BY <1>5 DEF Recurs
  <2> HIDE DEF Stop, B, op, N
  <2> QED
    BY <2>1, <2>2 DEF RunSteps
<1>7. RunSteps(g, bits, codes)
  BY <1>6 DEF g
<1> QED
  BY <1>1, <1>7, <1>8

\* A run is counted, and what is left of the bits begins at a place in them.
LEMMA RunLengthTyped ==
    ASSUME NEW bits, Len(bits) \in Nat, NEW start \in 0 .. Len(bits), NEW c
    PROVE  RunLength(bits, start, c) \in Runs(Len(bits))
<1> DEFINE codes == CodesOf(c)
           D == 0 .. Len(bits)
           V == Runs(Len(bits))
           Stop == {at \in D : ~ Onward(bits, codes, at)}
           m == [at \in D |-> Len(bits) - at]
<1>1. PICK g : RunSteps(g, bits, codes) /\ \A s : RunLength(bits, s, c) = g[s]
  BY RunLengthIs
<1>2. codes \in {WhiteCodes, BlackCodes}
  BY DEF CodesOf
<1>7. RunSteps(g, bits, codes)
  BY <1>1
<1> HIDE DEF codes
<1>3. \A at \in D \ Stop : AfterCode(bits, codes, at) \in D /\ m[AfterCode(bits, codes, at)] < m[at]
  BY <1>2, RunStepTyped
<1>4. ASSUME NEW at \in D \ Stop, NEW v \in V
      PROVE  [v EXCEPT !.count = @ + RunAt(CodeHere(bits, codes, at))] \in V
  <2>1. RunAt(CodeHere(bits, codes, at)) \in Nat
    BY <1>2, RunStepTyped
  <2> QED
    BY <2>1 DEF Runs
<1> DEFINE T == {at \in D : g[at] \in V}
<1>8. ASSUME NEW at \in D, \A d \in D : m[d] < m[at] => d \in T PROVE at \in T
  <2>1. g[at] = RunStep(g, bits, codes, at)
    BY <1>7 DEF RunSteps
  <2>2. CASE at \in Stop
    <3>1. RunStep(g, bits, codes, at) \in V
      BY <1>2, <2>2, RunStepTyped
    <3> QED
      BY <2>1, <3>1
  <2>3. CASE at \notin Stop
    <3>1. AfterCode(bits, codes, at) \in T
      BY <1>3, <1>8, <2>3
    <3>2. g[AfterCode(bits, codes, at)] \in V
      BY <3>1
    <3>3. RunStep(g, bits, codes, at) =
              [g[AfterCode(bits, codes, at)] EXCEPT !.count = @ + RunAt(CodeHere(bits, codes, at))]
      BY <1>2, <2>3, RunStepTyped
    <3>4. g[at] \in V
      BY <1>4, <2>1, <2>3, <3>2, <3>3
    <3> QED
      BY <3>4
  <2> QED
    BY <2>2, <2>3
<1>9. T = D
  <2>1. m \in [D -> Nat] /\ T \in SUBSET D
    OBVIOUS
  <2>2. Descends(D, m, T)
    BY <1>8 DEF Descends
  <2> HIDE DEF D, T, m
  <2> QED
    BY <2>1, <2>2, Descent
<1> QED
  BY <1>1, <1>9

Digit == {0, 1}

\* A number of bits is halved by each that goes.
Halves(f, n, w) == /\ f \in [0 .. w -> Nat] /\ f[w] = n
                   /\ \A i \in 0 .. w - 1 : f[i] = f[i + 1] \div 2

LEMMA ToBitsIs ==
    ASSUME NEW n \in Nat, NEW w \in Nat
    PROVE  \E f : Halves(f, n, w) /\ ToBits(n, w) = [i \in 1 .. w |-> f[i] % 2]
<1> DEFINE Steps(f) == f = [i \in 0 .. w |-> IF i = w THEN n ELSE f[i + 1] \div 2]
           g == CHOOSE f : Steps(f)
           V == Nat
           op == [p \in (0 .. w - 1) \X V |-> p[2] \div 2]
<1>1. n \in V /\ Keeps(0 .. w - 1, V, op)
  BY DEF Keeps
<1>2. PICK f : GoesDown(f, w, V, n, op)
  <2> HIDE DEF op, V
  <2> QED
    BY <1>1, Downward
<1>3. \A i \in 0 .. w : f[i] = IF i = w THEN n ELSE f[i + 1] \div 2
  <2> SUFFICES ASSUME NEW i \in 0 .. w, i # w PROVE f[i] = f[i + 1] \div 2
    BY <1>2 DEF GoesDown
  <2>1. i \in 0 .. w - 1 /\ f[i + 1] \in V /\ <<i, f[i + 1]>> \in (0 .. w - 1) \X V
    BY <1>2 DEF GoesDown
  <2>2. f[i] = op[<<i, f[i + 1]>>]
    BY <1>2, <2>1 DEF GoesDown
  <2> QED
    BY <2>1, <2>2
<1>4. Steps(f)
  BY <1>2, <1>3 DEF GoesDown
<1>5. Steps(g)
  BY <1>4
<1>6. ToBits(n, w) = [i \in 1 .. w |-> g[i] % 2]
  BY DEF ToBits
<1> HIDE DEF g
<1>7. g = f
  <2> DEFINE T == {k \in 0 .. w : g[w - k] = f[w - k]}
  <2>1. \A i \in 0 .. w : /\ g[i] = IF i = w THEN n ELSE g[i + 1] \div 2
                        /\ f[i] = IF i = w THEN n ELSE f[i + 1] \div 2
    BY <1>4, <1>5
  <2>2. 0 \in T
    BY <2>1
  <2>3. ASSUME NEW k \in T, k < w PROVE k + 1 \in T
    <3>1. w - (k + 1) \in 0 .. w /\ w - (k + 1) # w /\ w - (k + 1) + 1 = w - k /\ k + 1 \in 0 .. w
      BY <2>3
    <3>2. g[w - k] = f[w - k]
      OBVIOUS
    <3>3. g[w - (k + 1)] = f[w - (k + 1)]
      BY <2>1, <3>1, <3>2
    <3> QED
      BY <3>1, <3>3
  <2> HIDE DEF T
  <2>4. T = 0 .. w
    <3>1. T \in SUBSET (0 .. w)
      BY DEF T
    <3> QED
      BY <2>2, <2>3, <3>1, InductionTo
  <2>5. \A i \in 0 .. w : g[i] = f[i]
    <3> SUFFICES ASSUME NEW i \in 0 .. w PROVE g[i] = f[i]
      OBVIOUS
    <3>1. w - i \in T /\ w - (w - i) = i
      BY <2>4
    <3> QED
      BY <3>1 DEF T
  <2>6. f = [i \in 0 .. w |-> f[i]] /\ g = [i \in 0 .. w |-> g[i]]
    BY <1>4, <1>5
  <2> QED
    BY <2>5, <2>6
<1>8. Halves(f, n, w)
  BY <1>2, <1>4 DEF Halves, GoesDown
<1> QED
  BY <1>6, <1>7, <1>8

\* A number is written as bits.
LEMMA ToBitsTyped ==
    ASSUME NEW n \in Nat, NEW w \in Nat
    PROVE  ToBits(n, w) \in Seq(Digit) /\ Len(ToBits(n, w)) = w
<1>1. PICK f : Halves(f, n, w) /\ ToBits(n, w) = [i \in 1 .. w |-> f[i] % 2]
  BY ToBitsIs
<1>2. \A i \in 1 .. w : f[i] % 2 \in Digit
  <2> SUFFICES ASSUME NEW i \in 1 .. w PROVE f[i] % 2 \in Digit
    OBVIOUS
  <2>1. f[i] \in Nat
    BY <1>1 DEF Halves
  <2> QED
    BY <2>1 DEF Digit
<1> QED
  BY <1>1, <1>2

\* The longest run that one code counts in a run of n pixels.
Most(n) == IF n > 2560 THEN 2560 ELSE 64 * (n \div 64)

\* ... which is one of the runs that the tables have, and leaves less to count.
LEMMA MostTyped ==
    ASSUME NEW n \in Nat, ~ (n < 64)
    PROVE  Most(n) \in Nat /\ 0 < Most(n) /\ Most(n) <= n /\ Most(n) \div 64 <= 40
<1> DEFINE q == n \div 64
<1>1. q \in Nat /\ 64 * q <= n /\ n < 64 * q + 64
  OBVIOUS
<1> HIDE DEF q
<1>2. (64 * q) \div 64 = q
  BY <1>1
<1>3. Most(n) = IF n > 2560 THEN 2560 ELSE 64 * q
  BY DEF Most, q
<1> QED
  BY <1>1, <1>2, <1>3

\* The code of such a run is made of bits.
LEMMA CodeOfTyped ==
    ASSUME NEW n \in Nat, n < 64 \/ n \div 64 <= 40, NEW c
    PROVE  CodeOf(n, c) \in Seq(Digit)
<1> DEFINE i == IF n < 64 THEN n + 1 ELSE n \div 64 + 64
           codes == IF c = White THEN WhiteCodes ELSE BlackCodes
<1>1. CodeOf(n, c) = ToBits(codes[i][2], codes[i][1])
  BY DEF CodeOf
<1>2. codes \in {WhiteCodes, BlackCodes}
  OBVIOUS
<1>3. i \in 1 .. 91 + 13
  <2>1. n \div 64 \in Nat
    OBVIOUS
  <2> QED
    BY <2>1
<1> HIDE DEF i, codes
<1>4. codes[i] \in Pairs
  <2>1. i \in 1 .. Len(codes)
    BY <1>2, <1>3, TablesTyped
  <2> QED
    BY <1>2, <2>1, TablesTyped
<1>5. codes[i][1] \in Nat /\ codes[i][2] \in Nat
  BY <1>4 DEF Pairs
<1> QED
  BY <1>1, <1>5, ToBitsTyped

\* f is the recursion of RunBits.
CodeSteps(f, run, c) ==
    f = [n \in 0 .. run |-> IF n < 64 THEN CodeOf(n, c) ELSE CodeOf(Most(n), c) \o f[n - Most(n)]]

LEMMA RunBitsIs ==
    ASSUME NEW run \in Nat, NEW c
    PROVE  \E g : CodeSteps(g, run, c) /\ RunBits(run, c) = g[run]
<1> DEFINE g == CHOOSE f : CodeSteps(f, run, c)
           D == 0 .. run
           V == Seq(Digit)
           Stop == {n \in D : n < 64}
           B == [n \in Stop |-> CodeOf(n, c)]
           N == [n \in D \ Stop |-> n - Most(n)]
           op == [p \in (D \ Stop) \X V |-> CodeOf(Most(p[1]), c) \o p[2]]
           m == [n \in D |-> n]
<1>1. RunBits(run, c) = g[run]
  BY DEF RunBits, CodeSteps, Most
<1> HIDE DEF g
<1>2. \A n \in D \ Stop : n - Most(n) \in D /\ m[n - Most(n)] < m[n]
  BY MostTyped
<1>3. ASSUME NEW n \in D \ Stop, NEW v \in V PROVE CodeOf(Most(n), c) \o v \in V
  <2>1. CodeOf(Most(n), c) \in V
    BY MostTyped, CodeOfTyped
  <2> QED
    BY <2>1, ConcatProperties
<1>4. PICK f \in [D -> V] : Recurs(f, D, Stop, B, N, op)
  <2>1. Stop \in SUBSET D /\ N \in [D \ Stop -> D]
    BY <1>2
  <2>2. B \in [Stop -> V]
    BY CodeOfTyped
  <2>3. op \in [(D \ Stop) \X V -> V]
    BY <1>3
  <2>4. \A n \in D \ Stop : m[N[n]] < m[n]
    BY <1>2
  <2>5. m \in [D -> 0 .. run]
    OBVIOUS
  <2> HIDE DEF D, V, Stop, B, N, op, m
  <2> QED
    BY <2>1, <2>2, <2>3, <2>4, <2>5, Recursion
<1>5. CodeSteps(f, run, c)
  <2>1. ASSUME NEW n \in D
        PROVE  (IF n \in Stop THEN B[n] ELSE op[<<n, f[N[n]]>>])
                 = IF n < 64 THEN CodeOf(n, c) ELSE CodeOf(Most(n), c) \o f[n - Most(n)]
    <3>1. CASE n \in Stop
      BY <3>1
    <3>2. CASE n \notin Stop
      <4>1. N[n] = n - Most(n) /\ f[n - Most(n)] \in V
        BY <1>2, <3>2
      <4>2. op[<<n, f[N[n]]>>] = CodeOf(Most(n), c) \o f[n - Most(n)]
        BY <3>2, <4>1
      <4> QED
        BY <3>2, <4>2
    <3> QED
      BY <3>1, <3>2
  <2>2. f = [n \in D |-> IF n \in Stop THEN B[n] ELSE op[<<n, f[N[n]]>>]]
    BY <1>4 DEF Recurs
  <2> HIDE DEF Stop, B, op, N
  <2> QED
    BY <2>1, <2>2 DEF CodeSteps
<1>6. CodeSteps(g, run, c)
  BY <1>5 DEF g
<1> QED
  BY <1>1, <1>6

\* The steps give bits.
LEMMA CodeStepsTyped ==
    ASSUME NEW run \in Nat, NEW c, NEW g, CodeSteps(g, run, c)
    PROVE  \A n \in 0 .. run : g[n] \in Seq(Digit)
<1> DEFINE D == 0 .. run
           V == Seq(Digit)
           Stop == {n \in D : n < 64}
           m == [n \in D |-> n]
<1>2. \A n \in D \ Stop : n - Most(n) \in D /\ m[n - Most(n)] < m[n]
  BY MostTyped
<1>3. ASSUME NEW n \in D \ Stop, NEW v \in V PROVE CodeOf(Most(n), c) \o v \in V
  <2>1. CodeOf(Most(n), c) \in V
    BY MostTyped, CodeOfTyped
  <2> QED
    BY <2>1, ConcatProperties
<1> DEFINE T == {n \in D : g[n] \in V}
<1>7. ASSUME NEW n \in D, \A d \in D : m[d] < m[n] => d \in T PROVE n \in T
  <2>1. g[n] = IF n < 64 THEN CodeOf(n, c) ELSE CodeOf(Most(n), c) \o g[n - Most(n)]
    BY DEF CodeSteps
  <2>2. CASE n \in Stop
    <3>1. g[n] \in V
      BY <2>1, <2>2, CodeOfTyped
    <3> QED
      BY <3>1
  <2>3. CASE n \notin Stop
    <3>1. n - Most(n) \in T
      BY <1>2, <1>7, <2>3
    <3>2. g[n - Most(n)] \in V
      BY <3>1
    <3>3. g[n] \in V
      BY <1>3, <2>1, <2>3, <3>2
    <3> QED
      BY <3>3
  <2> QED
    BY <2>2, <2>3
<1>8. T = D
  <2>1. m \in [D -> Nat] /\ T \in SUBSET D
    OBVIOUS
  <2>2. Descends(D, m, T)
    BY <1>7 DEF Descends
  <2> HIDE DEF D, T, m
  <2> QED
    BY <2>1, <2>2, Descent
<1> QED
  BY <1>8

\* A run is written as bits.
LEMMA RunBitsTyped ==
    ASSUME NEW run \in Nat, NEW c
    PROVE  RunBits(run, c) \in Seq(Digit)
  BY RunBitsIs, CodeStepsTyped

\* The multiple of c that n has last passed, and the next one.
LEMMA RowArithmetic ==
    ASSUME NEW n \in Nat, NEW c \in Nat \ {0}
    PROVE  /\ (n \div c) * c \in Nat /\ (n \div c) * c <= n /\ n < (n \div c) * c + c
           /\ c - (n % c) = (n \div c) * c + c - n
           /\ ((n \div c) * c + c) % c = 0
<1> DEFINE q == n \div c
           r == n % c
<1>1. q \in Nat /\ r \in 0 .. c - 1 /\ n = c * q + r
  OBVIOUS
<1> HIDE DEF q, r
<1>2. q * c \in Nat /\ n = q * c + r
  BY <1>1
<1>3. (q * c + c) % c = 0
  <2>1. q * c + c = (q + 1) * c
    BY <1>1
  <2>2. ((q + 1) * c) % c = 0
    BY <1>1
  <2> QED
    BY <2>1, <2>2
<1> DEFINE s == q * c
<1> HIDE DEF s
<1>4. s \in Nat /\ s <= n /\ n < s + c /\ c - r = s + c - n
  BY <1>1, <1>2 DEF s
<1> QED
  BY <1>3, <1>4 DEF q, r, s

\* What pixels may be.
Colors == {White, Black}

-----------------------------------------------------------------------------
\* The rows of w pixels so far, new and c for atNewLine and color: a new line is white, and
\* begins where a row does.
RowsOK(w, p, new, c) ==
    /\ c \in Colors /\ new \in BOOLEAN
    /\ w > 0 => p \in Seq(Colors) /\ w <= Len(p)
    /\ new => c = White /\ (w > 0 => Len(p) % w = 0)

\* A row that has been completed is, and no more than that.
RowStep(w, p, q, new) ==
    w > 0 /\ Len(q) >= (Len(p) \div w) * w + w => new /\ Len(q) = (Len(p) \div w) * w + w

\* What a mode has to do.
LEMMA Painted ==
    ASSUME NEW w \in Nat \ {0}, NEW p \in Seq(Colors), w <= Len(p), NEW q \in Seq(Colors),
           NEW new \in BOOLEAN, NEW c \in Colors, NEW e, e = (Len(p) \div w) * w + w,
           Len(p) <= Len(q), Len(q) <= e, new <=> Len(q) = e, new => c = White
    PROVE  RowsOK(w, q, new, c) /\ RowStep(w, p, q, new)
<1>1. Len(q) \in Nat /\ Len(p) \in Nat
  OBVIOUS
<1>2. w <= Len(q)
  BY <1>1
<1>3. e \in Int /\ e % w = 0
  <2> DEFINE s == (Len(p) \div w) * w
  <2>1. s \in Nat /\ (s + w) % w = 0
    BY <1>1, RowArithmetic
  <2>2. e = s + w
    OBVIOUS
  <2> HIDE DEF s
  <2> QED
    BY <2>1, <2>2
<1>4. new => Len(q) % w = 0
  BY <1>3
<1>5. RowsOK(w, q, new, c)
  BY <1>2, <1>4 DEF RowsOK
<1>6. RowStep(w, p, q, new)
  BY <1>1, <1>3 DEF RowStep
<1> QED
  BY <1>5, <1>6

\* Nothing is painted.
LEMMA NotPainted ==
    ASSUME NEW w \in Int, NEW p, NEW new, NEW c, RowsOK(w, p, new, c)
    PROVE  RowStep(w, p, p, new)
<1> SUFFICES ASSUME w > 0 PROVE ~ (Len(p) >= (Len(p) \div w) * w + w)
  BY DEF RowStep
<1>1. w \in Nat \ {0} /\ Len(p) \in Nat
  BY DEF RowsOK
<1>2. Len(p) < (Len(p) \div w) * w + w /\ (Len(p) \div w) * w \in Nat
  BY <1>1, RowArithmetic
<1> QED
  BY <1>1, <1>2

\* The row above, up to the beginning of this one.
LEMMA Above ==
    ASSUME columns \in Nat \ {0}, pixels \in Seq(Colors), columns <= Len(pixels)
    PROVE  /\ Here \in Nat /\ LineStart \in Nat /\ columns <= Here
           /\ LineStart <= Here /\ Here < LineStart + columns
           /\ LineStart + columns = (Len(pixels) \div columns) * columns + columns
           /\ columns - (Here % columns) = LineStart + columns - Here
           /\ B1 \in Here - columns .. LineStart /\ B2 \in B1 .. LineStart
<1>1. Here \in Nat /\ Here = Len(pixels) /\ columns <= Here
  BY DEF Here
<1>2. LineStart = (Here \div columns) * columns /\ LineStart = (Len(pixels) \div columns) * columns
  BY DEF LineStart, Here
<1>3. /\ LineStart \in Nat /\ LineStart <= Here /\ Here < LineStart + columns
      /\ columns - (Here % columns) = LineStart + columns - Here
  BY <1>1, <1>2, RowArithmetic
<1> DEFINE first == Here - columns
<1>4. first \in 0 .. LineStart
  BY <1>1, <1>3
<1> HIDE DEF first
<1> DEFINE from == IF atNewLine THEN first ELSE FirstOf(pixels, first, LineStart, color)
<1>5. from \in first .. LineStart
  <2>1. FirstOf(pixels, first, LineStart, color) \in first .. LineStart
    BY <1>3, <1>4, FirstOfBetween
  <2> QED
    BY <1>3, <1>4, <2>1
<1>6. B1 = FirstOf(pixels, from, LineStart, Flip(color))
  BY DEF B1, first
<1> HIDE DEF from
<1>7. B1 \in from .. LineStart
  BY <1>3, <1>4, <1>5, <1>6, FirstOfBetween
<1>8. B1 \in 0 .. LineStart /\ B1 \in first .. LineStart
  BY <1>3, <1>4, <1>5, <1>7
<1>9. B2 \in B1 .. LineStart
  BY <1>3, <1>8, FirstOfBetween DEF B2
<1> QED
  BY <1>1, <1>2, <1>3, <1>8, <1>9 DEF first

\* Painting appends.
LEMMA Appended ==
    ASSUME NEW p \in Seq(Colors), NEW n \in Nat, NEW f, \A i \in 1 .. n : f[i] \in Colors,
           f = [i \in 1 .. n |-> f[i]]
    PROVE  p \o f \in Seq(Colors) /\ Len(p \o f) = Len(p) + n
<1>1. f \in [1 .. n -> Colors]
  OBVIOUS
<1>2. f \in Seq(Colors) /\ Len(f) = n
  BY <1>1
<1> QED
  BY <1>2, ConcatProperties

\* What a decoder's step has to do.
RowsNext ==
    RowsOK(columns, pixels', atNewLine', color') /\ RowStep(columns, pixels, pixels', atNewLine')

\* A step that fails before it paints.
LEMMA KeptRows ==
    ASSUME columns \in Int, RowsOK(columns, pixels, atNewLine, color),
           UNCHANGED <<pixels, atNewLine, color>>
    PROVE  RowsNext
<1>1. pixels' = pixels /\ atNewLine' = atNewLine /\ color' = color
  OBVIOUS
<1> QED
  BY <1>1, NotPainted DEF RowsNext

\* The other colour.
LEMMA FlipTyped == ASSUME NEW c \in Colors PROVE Flip(c) \in Colors
  BY DEF Flip, Colors, White, Black

\* Pass and Vertical: a place b in the row above is gone to, and painted up to.
LEMMA GoneTo ==
    ASSUME columns \in Nat \ {0}, RowsOK(columns, pixels, atNewLine, color),
           NEW b \in Int, b <= LineStart, NEW c \in Colors, GoTo(b, c),
           NEW n \in Nat, b - Here + columns <= n, n = b - Here + columns \/ n = 0,
           Paint(n, color)
    PROVE  RowsNext
<1>1. pixels \in Seq(Colors) /\ columns <= Len(pixels) /\ color \in Colors
  BY DEF RowsOK
<1>2. /\ Here \in Nat /\ LineStart \in Nat /\ Here < LineStart + columns /\ Here = Len(pixels)
      /\ LineStart + columns = (Len(pixels) \div columns) * columns + columns
  BY <1>1, Above DEF Here
<1>3. pixels' \in Seq(Colors) /\ Len(pixels') = Here + n
  <2> DEFINE f == [i \in 1 .. n |-> color]
  <2>1. f = [i \in 1 .. n |-> f[i]] /\ \A i \in 1 .. n : f[i] \in Colors
    BY <1>1
  <2>2. pixels' = pixels \o f
    BY DEF Paint
  <2> HIDE DEF f
  <2> QED
    BY <1>1, <1>2, <2>1, <2>2, Appended
<1> DEFINE e == LineStart + columns
<1>4. Here + n <= e /\ (Here + n = e <=> b >= LineStart)
  BY <1>2
<1>5. atNewLine' \in BOOLEAN /\ (atNewLine' <=> b >= LineStart)
  BY DEF GoTo
<1>6. color' \in Colors /\ (atNewLine' => color' = White)
  BY DEF GoTo, Colors
<1>7. e = (Len(pixels) \div columns) * columns + columns
  BY <1>2
<1> HIDE DEF e
<1>8. Len(pixels) <= Len(pixels') /\ Len(pixels') <= e /\ (atNewLine' <=> Len(pixels') = e)
  BY <1>2, <1>3, <1>4, <1>5
<1>9. RowsOK(columns, pixels', atNewLine', color') /\ RowStep(columns, pixels, pixels', atNewLine')
  BY <1>1, <1>3, <1>5, <1>6, <1>7, <1>8, Painted
<1> QED
  BY <1>9 DEF RowsNext

\* A part of a sequence is one, and no longer.
LEMMA PartTyped ==
    ASSUME NEW S, NEW s \in Seq(S), NEW from \in Nat \ {0}, NEW to \in Int, to <= Len(s)
    PROVE  SubSeq(s, from, to) \in Seq(S) /\ Len(SubSeq(s, from, to)) <= Len(s)
<1>1. Len(s) \in Nat
  OBVIOUS
<1>2. CASE from <= to
  <2>1. \A i \in from .. to : i \in 1 .. Len(s)
    BY <1>1, <1>2
  <2>2. SubSeq(s, from, to) \in Seq(S) /\ Len(SubSeq(s, from, to)) = to - from + 1
    BY <1>1, <1>2, <2>1, SubSeqProperties
  <2> QED
    BY <1>1, <2>2
<1>3. CASE ~ (from <= to)
  <2>1. SubSeq(s, from, to) = <<>>
    BY <1>3, SubSeqProperties
  <2> QED
    BY <1>1, <2>1, EmptySeq
<1> QED
  BY <1>2, <1>3

\* The bits that a pop leaves.
LEMMA DropTyped ==
    ASSUME stream \in Seq(Digit), NEW n \in Nat
    PROVE  Drop(n) \in Seq(Digit)
<1>1. n + 1 \in Nat \ {0} /\ Len(stream) \in Int
  OBVIOUS
<1>2. SubSeq(stream, n + 1, Len(stream)) \in Seq(Digit)
  BY <1>1, PartTyped
<1> QED
  BY <1>2 DEF Drop

\* The decoder's part of the stream's type: what is read is dropped.
StreamLeft == stream' \in Seq(Digit)

\* The modes, each with and without enough data to pop its code.
LEMMA PassRows ==
    ASSUME columns \in Int, RowsOK(columns, pixels, atNewLine, color), stream \in Seq(Digit), Pass
    PROVE  RowsNext /\ StreamLeft
<1>1. columns \in Nat \ {0} /\ Len(stream) \in Nat
  BY DEF Pass, Parsing
<1>2. CASE CanPop(4)
  <2>1. GoTo(B2, color) /\ Paint(B2 - Here + columns, color) /\ stream' = Drop(4)
    BY <1>2 DEF Pass, Proceed
  <2>2. pixels \in Seq(Colors) /\ columns <= Len(pixels) /\ color \in Colors
    BY <1>1 DEF RowsOK
  <2>3. B2 \in Int /\ B2 <= LineStart /\ B2 - Here + columns \in Nat
    BY <1>1, <2>2, Above
  <2>4. RowsNext
    BY <1>1, <2>1, <2>2, <2>3, GoneTo
  <2>5. stream' \in Seq(Digit)
    BY <2>1, DropTyped
  <2> QED
    BY <2>4, <2>5 DEF StreamLeft
<1>3. CASE ~ CanPop(4)
  <2>1. UNCHANGED <<pixels, atNewLine, color>> /\ stream' = stream
    BY <1>3 DEF Pass, Fail
  <2> QED
    BY <2>1, KeptRows DEF StreamLeft
<1> QED
  BY <1>2, <1>3

\* The codes of the modes are made of bits.
LEMMA VerticalCodeTyped ==
    ASSUME NEW d \in -3 .. 3
    PROVE  VerticalCode(d) \in Seq(Digit) /\ Len(VerticalCode(d)) \in Nat
<1>1. CASE d = 0
  BY <1>1 DEF VerticalCode, Digit
<1>2. CASE d = 1
  BY <1>2 DEF VerticalCode, Digit
<1>3. CASE d = -1
  BY <1>3 DEF VerticalCode, Digit
<1>4. CASE d = 2
  BY <1>4 DEF VerticalCode, Digit
<1>5. CASE d = -2
  BY <1>5 DEF VerticalCode, Digit
<1>6. CASE d = 3
  BY <1>6 DEF VerticalCode, Digit
<1>7. CASE d = -3
  BY <1>7 DEF VerticalCode, Digit
<1> QED
  BY <1>1, <1>2, <1>3, <1>4, <1>5, <1>6, <1>7

LEMMA VerticalRows ==
    ASSUME columns \in Int, RowsOK(columns, pixels, atNewLine, color), stream \in Seq(Digit),
           NEW d \in -3 .. 3, Vertical(d)
    PROVE  RowsNext /\ StreamLeft
<1>1. columns \in Nat \ {0} /\ Len(stream) \in Nat
  BY DEF Vertical, Parsing
<1>2. pixels \in Seq(Colors) /\ columns <= Len(pixels) /\ color \in Colors
  BY <1>1 DEF RowsOK
<1> DEFINE b     == IF B1 + d > LineStart THEN LineStart ELSE B1 + d
           count == b - Here + columns
           n     == IF count > 0 THEN count ELSE 0
<1>3. GoTo(b, Flip(color)) /\ Paint(n, color)
  BY DEF Vertical
<1>4. B1 \in Int /\ LineStart \in Int /\ Here \in Int
  BY <1>1, <1>2, Above
<1>5. b \in Int /\ b <= LineStart
  BY <1>4
<1>6. n \in Nat /\ count <= n /\ (n = count \/ n = 0)
  BY <1>1, <1>4, <1>5
<1> HIDE DEF b
<1>7. Flip(color) \in Colors
  BY <1>2, FlipTyped
<1>8. RowsNext
  BY <1>1, <1>3, <1>5, <1>6, <1>7, GoneTo
<1> DEFINE k == Len(VerticalCode(d))
<1>9. k \in Nat
  BY VerticalCodeTyped
<1>10. (CanPop(k) /\ stream' = Drop(k)) \/ stream' = stream
  BY DEF Vertical, Proceed, Fail
<1> HIDE DEF k
<1>11. stream' \in Seq(Digit)
  BY <1>9, <1>10, DropTyped
<1> QED
  BY <1>8, <1>11 DEF StreamLeft

LEMMA HorizontalRows ==
    ASSUME columns \in Int, RowsOK(columns, pixels, atNewLine, color), stream \in Seq(Digit),
           Horizontal
    PROVE  RowsNext /\ StreamLeft
<1>1. columns \in Nat \ {0} /\ Len(stream) \in Nat /\ Len(stream) >= 24
  BY DEF Horizontal, Parsing
<1>2. pixels \in Seq(Colors) /\ columns <= Len(pixels) /\ color \in Colors
  BY <1>1 DEF RowsOK
<1>3. CASE ~ CanPop(3)
  <2>1. UNCHANGED <<pixels, atNewLine, color>> /\ stream' = stream
    BY <1>3 DEF Horizontal, Fail
  <2> QED
    BY <2>1, KeptRows DEF StreamLeft
<1>4. CASE CanPop(3)
  <2> DEFINE Second(one) == IF one.ok THEN RunLength(stream, one.at, Flip(color))
                           ELSE [one EXCEPT !.count = 0]
             remaining == columns - (Here % columns)
             First(one) == IF one.count > remaining THEN remaining ELSE one.count
             Rest(one, two) == IF Fills(two.count, remaining - First(one)) THEN remaining - First(one)
                               ELSE two.count
  <2>1. PICK one \in {RunLength(stream, 3, color)} : \E two \in {Second(one)} :
            /\ pixels' = pixels \o [i \in 1 .. First(one) + Rest(one, two) |->
                                      IF i <= First(one) THEN color ELSE Flip(color)]
            /\ IF Fills(two.count, remaining - First(one)) THEN atNewLine' = TRUE /\ color' = White
               ELSE atNewLine' = FALSE /\ UNCHANGED color
            /\ IF two.ok THEN Proceed(Drop(two.at)) ELSE Fail
    BY <1>4 DEF Horizontal
  <2>2. PICK two \in {Second(one)} :
            /\ pixels' = pixels \o [i \in 1 .. First(one) + Rest(one, two) |->
                                      IF i <= First(one) THEN color ELSE Flip(color)]
            /\ IF Fills(two.count, remaining - First(one)) THEN atNewLine' = TRUE /\ color' = White
               ELSE atNewLine' = FALSE /\ UNCHANGED color
            /\ IF two.ok THEN Proceed(Drop(two.at)) ELSE Fail
    BY <2>1
  <2>3. one \in Runs(Len(stream))
    <3>1. 3 \in 0 .. Len(stream)
      BY <1>1
    <3>2. RunLength(stream, 3, color) \in Runs(Len(stream))
      BY <1>1, <3>1, RunLengthTyped
    <3> QED
      BY <3>2
  <2>4. one.count \in Nat /\ one.at \in 0 .. Len(stream) /\ one.ok \in BOOLEAN
    BY <2>3 DEF Runs
  <2>5. two.count \in Nat /\ two.at \in 0 .. Len(stream)
    <3>1. CASE one.ok
      <4>1. two = RunLength(stream, one.at, Flip(color))
        BY <3>1
      <4>2. two \in Runs(Len(stream))
        BY <1>1, <2>4, <4>1, RunLengthTyped
      <4> QED
        BY <4>2 DEF Runs
    <3>2. CASE ~ one.ok
      <4>1. two = [one EXCEPT !.count = 0]
        BY <3>2
      <4>2. two.count = 0 /\ two.at = one.at
        BY <2>3, <4>1 DEF Runs
      <4> QED
        BY <2>4, <4>2
    <3> QED
      BY <3>1, <3>2
  <2> DEFINE e == LineStart + columns
             rl1 == First(one)
             rl2 == Rest(one, two)
             ends == Fills(two.count, remaining - rl1)
  <2>6. /\ Here \in Nat /\ Here = Len(pixels) /\ Here < e /\ e \in Nat /\ remaining = e - Here
        /\ e = (Len(pixels) \div columns) * columns + columns
    BY <1>1, <1>2, Above DEF Here
  <2>7. atNewLine' \in BOOLEAN /\ (atNewLine' <=> ends) /\ color' \in Colors /\ (atNewLine' => color' = White)
    BY <1>2, <2>2 DEF Colors
  <2>8. pixels' = pixels \o [i \in 1 .. rl1 + rl2 |-> IF i <= rl1 THEN color ELSE Flip(color)]
    BY <2>2
  <2> HIDE DEF remaining, Second
  <2>9. rl1 \in Nat /\ rl1 <= e - Here
    BY <2>4, <2>6
  <2>10. rl1 = First(one)
    OBVIOUS
  <2> HIDE DEF rl1, First, e
  <2>11. rl2 = IF two.count >= e - Here - rl1 THEN e - Here - rl1 ELSE two.count
    BY <2>6, <2>10 DEF Fills
  <2>12. ends <=> two.count >= e - Here - rl1
    BY <2>6 DEF Fills
  <2> HIDE DEF ends, rl2, Rest
  <2>13. rl2 \in Nat /\ rl1 + rl2 \in Nat /\ Here + (rl1 + rl2) <= e
         /\ (two.count >= e - Here - rl1 <=> Here + (rl1 + rl2) = e)
    <3>1. Here \in Nat /\ e \in Nat /\ Here < e
      BY <2>6
    <3> QED
      BY <2>5, <2>9, <2>11, <3>1
  <2> DEFINE n == rl1 + rl2
             f == [i \in 1 .. n |-> IF i <= rl1 THEN color ELSE Flip(color)]
  <2>14. f = [i \in 1 .. n |-> f[i]] /\ \A i \in 1 .. n : f[i] \in Colors
    BY <1>2, FlipTyped
  <2>15. pixels' = pixels \o f /\ n \in Nat /\ Here + n <= e /\ (ends <=> Here + n = e)
    BY <2>8, <2>12, <2>13
  <2> HIDE DEF n, f
  <2>16. pixels' \in Seq(Colors) /\ Len(pixels') = Here + n
    BY <1>2, <2>6, <2>14, <2>15, Appended
  <2>17. Len(pixels) <= Len(pixels') /\ Len(pixels') <= e /\ (atNewLine' <=> Len(pixels') = e)
    BY <2>6, <2>7, <2>15, <2>16
  <2>18. RowsNext
    <3>1. RowsOK(columns, pixels', atNewLine', color') /\ RowStep(columns, pixels, pixels', atNewLine')
      BY <1>1, <1>2, <2>6, <2>7, <2>16, <2>17, Painted
    <3> QED
      BY <3>1 DEF RowsNext
  <2>19. stream' \in Seq(Digit)
    <3>1. stream' = Drop(two.at) \/ stream' = stream
      BY <2>2 DEF Proceed, Fail
    <3> QED
      BY <2>5, <3>1, DropTyped
  <2> QED
    BY <2>18, <2>19 DEF StreamLeft
<1> QED
  BY <1>3, <1>4

\* A step of the decoder keeps the rows and leaves a part of the stream.
LEMMA FaxStepRows ==
    ASSUME columns \in Int, RowsOK(columns, pixels, atNewLine, color), stream \in Seq(Digit),
           FaxStep
    PROVE  RowsNext /\ StreamLeft
<1>1. CASE Pass
  BY <1>1, PassRows
<1>2. CASE Horizontal
  BY <1>2, HorizontalRows
<1>3. CASE \E d \in -3 .. 3 : Vertical(d)
  BY <1>3, VerticalRows
<1>4. CASE Extension \/ NothingToParse \/ EndOfParsing
  <2>1. UNCHANGED <<pixels, atNewLine, color>> /\ stream' = stream
    BY <1>4 DEF Extension, Fail, NothingToParse, EndOfParsing
  <2> QED
    BY <2>1, KeptRows DEF StreamLeft
<1> QED
  BY <1>1, <1>2, <1>3, <1>4 DEF FaxStep

\* The methods that the decoder is behind.
Fax == {"G3", "G4"}

\* What a Group 4 encoder has yet to write is the end of whole rows, and it writes bits.
FaxData ==
    method \in Fax =>
        /\ stream \in Seq(Digit) /\ todo \in Seq(Colors) /\ input \in Seq(Colors)
        /\ Len(todo) <= Len(input) /\ (todo # <<>> => columns > 0)

\* The inductive invariant.
FaxInv == columns \in Int /\ RowsOK(columns, pixels, atNewLine, color) /\ FaxData

LEMMA InitFaxInv == Init => FaxInv
<1> SUFFICES ASSUME Init PROVE FaxInv
  OBVIOUS
<1>1. ASSUME NEW w \in Int, FaxInit(w)
      PROVE  columns \in Int /\ RowsOK(columns, pixels, atNewLine, color)
  <2>1. columns = w /\ pixels = WhiteRow(w) /\ atNewLine = TRUE /\ color = White
    BY <1>1 DEF FaxInit
  <2>2. ASSUME w > 0
        PROVE  WhiteRow(w) \in Seq(Colors) /\ w <= Len(WhiteRow(w)) /\ Len(WhiteRow(w)) % w = 0
    <3>1. WhiteRow(w) \in Seq(Colors) /\ Len(WhiteRow(w)) = w
      BY <2>2 DEF WhiteRow, Colors
    <3>2. w % w = 0
      BY <2>2
    <3> QED
      BY <3>1, <3>2
  <2> QED
    BY <2>1, <2>2 DEF RowsOK, Colors
<1>2. ASSUME NEW how, NEW what, NEW begin, NEW whole,
             CodedInit(how, what, begin, whole), how \notin Fax
      PROVE  FaxData
  BY <1>2 DEF CodedInit, FaxData
<1>3. CASE FaxInit(1) /\ \E s \in LZWInputs : CodedInit("LZW", s, LZWBegin, FALSE)
  <2>1. FaxData
    BY <1>2, <1>3 DEF Fax
  <2> QED
    BY <1>1, <1>3, <2>1 DEF FaxInv
<1>4. CASE \E f \in FaxInputs : FaxInit(f.columns) /\ CodedInit("G4", f.pixels, <<>>, FALSE)
  <2>1. PICK f \in FaxInputs : FaxInit(f.columns) /\ CodedInit("G4", f.pixels, <<>>, FALSE)
    BY <1>4
  <2>2. f.columns \in Nat \ {0} /\ f.pixels \in Seq(Colors)
    BY FaxAssumption DEF Colors
  <2>3. columns \in Int /\ RowsOK(columns, pixels, atNewLine, color)
    BY <1>1, <2>1, <2>2
  <2>4. columns = f.columns /\ stream = <<>> /\ todo = f.pixels /\ input = f.pixels
    BY <2>1 DEF FaxInit, CodedInit
  <2>5. FaxData
    <3>1. <<>> \in Seq(Digit)
      BY EmptySeq
    <3> QED
      BY <2>2, <2>4, <3>1 DEF FaxData
  <2> QED
    BY <2>3, <2>5 DEF FaxInv
<1>5. CASE FaxInit(1) /\ \E s \in ByteInputs :
              \/ \E how \in Whole \cup {"PackBits"} : CodedInit(how, s, <<>>, FALSE)
              \/ \E how \in Zlib : CodedInit(how, s, <<0>>, FALSE)
  <2>1. PICK how \in {"Nil", "None", "PackBits", "Deflate", "DeflateOld"}, s \in ByteInputs :
            CodedInit(how, s, <<>>, FALSE) \/ CodedInit(how, s, <<0>>, FALSE)
    BY <1>5 DEF Whole, Zlib
  <2>2. how \notin Fax
    BY DEF Fax
  <2>3. FaxData
    BY <1>2, <2>1, <2>2
  <2> QED
    BY <1>1, <1>5, <2>3 DEF FaxInv
<1>6. CASE FaxInit(1) /\ \E how \in Unsupported \cup {"LZW"} : CodedInit(how, <<>>, <<>>, TRUE)
  <2>1. PICK how \in Unsupported \cup {"LZW"} : CodedInit(how, <<>>, <<>>, TRUE)
    BY <1>6
  <2>2. how \notin Fax
    BY DEF Fax, Unsupported
  <2>3. FaxData
    BY <1>2, <2>1, <2>2
  <2> QED
    BY <1>1, <1>6, <2>3 DEF FaxInv
<1>7. CASE \E f \in FaxNoise, how \in {"G3", "G4"} :
              FaxInit(f.columns) /\ CodedInit(how, <<>>, f.bits, TRUE)
  <2>1. PICK f \in FaxNoise, how \in {"G3", "G4"} :
              FaxInit(f.columns) /\ CodedInit(how, <<>>, f.bits, TRUE)
    BY <1>7
  <2>2. f.columns \in Int /\ f.bits \in Seq({0, 1})
    BY FaxAssumption
  <2>3. columns \in Int /\ RowsOK(columns, pixels, atNewLine, color)
    BY <1>1, <2>1, <2>2
  <2>4. stream = f.bits /\ todo = <<>> /\ input = <<>>
    BY <2>1 DEF CodedInit
  <2>5. f.bits \in Seq(Digit)
    BY <2>2 DEF Digit
  <2>6. <<>> \in Seq(Colors) /\ Len(<<>>) <= Len(<<>>)
    BY EmptySeq
  <2> QED
    BY <2>3, <2>4, <2>5, <2>6 DEF FaxInv, FaxData
<1> QED
  BY <1>3, <1>4, <1>5, <1>6, <1>7 DEF Init

\* A mode leads to a place further on in the row.
LEMMA ModesTyped ==
    ASSUME columns \in Nat, NEW row, NEW over, NEW a0 \in 0 .. columns, NEW shade,
           NEW mode \in ModesAt(row, over, a0, shade)
    PROVE  mode[1] \in a0 .. columns /\ mode[2] \in Seq(Digit)
<1> DEFINE a1 == FirstOf(row, a0, columns, Flip(shade))
           a2 == FirstOf(row, a1, columns, shade)
           b0 == IF fresh THEN a0 ELSE FirstOf(over, a0, columns, shade)
           b1 == FirstOf(over, b0, columns, Flip(shade))
           b2 == FirstOf(over, b1, columns, shade)
           runs == RunBits(a1 - a0, shade) \o RunBits(a2 - a1, Flip(shade))
           coded == HorizontalCode \o RunBits(a1 - a0, shade) \o RunBits(a2 - a1, Flip(shade))
<1>1. a1 \in a0 .. columns /\ a1 \in 0 .. columns
  <2>1. a1 \in a0 .. columns
    BY FirstOfBetween
  <2> QED
    BY <2>1
<1>2. mode \in (IF b2 < a1 THEN {<<b2, PassCode>>}
                ELSE {<<a1, VerticalCode(d)>> : d \in {a1 - b1} \cap -3 .. 3} \cup {<<a2, coded>>})
  BY DEF ModesAt
<1> HIDE DEF a1
<1>3. a2 \in a1 .. columns /\ a2 \in a0 .. columns
  <2>1. a2 \in a1 .. columns
    BY <1>1, FirstOfBetween
  <2> QED
    BY <1>1, <2>1
<1>4. b0 \in a0 .. columns /\ b0 \in 0 .. columns
  <2>1. FirstOf(over, a0, columns, shade) \in a0 .. columns
    BY FirstOfBetween
  <2> QED
    BY <2>1
<1> HIDE DEF a2, b0
<1>5. b1 \in a0 .. columns /\ b1 \in 0 .. columns
  <2>1. b1 \in b0 .. columns
    BY <1>4, FirstOfBetween
  <2> QED
    BY <1>4, <2>1
<1> HIDE DEF b1
<1>6. b2 \in a0 .. columns
  <2>1. b2 \in b1 .. columns
    BY <1>5, FirstOfBetween
  <2> QED
    BY <1>5, <2>1
<1> HIDE DEF b2
<1>7. coded \in Seq(Digit)
  <2>1. a1 - a0 \in Nat /\ a2 - a1 \in Nat
    BY <1>1, <1>3
  <2>2. RunBits(a1 - a0, shade) \in Seq(Digit) /\ RunBits(a2 - a1, Flip(shade)) \in Seq(Digit)
    BY <2>1, RunBitsTyped
  <2>3. HorizontalCode \in Seq(Digit)
    BY DEF HorizontalCode, Digit
  <2>4. HorizontalCode \o RunBits(a1 - a0, shade) \in Seq(Digit)
    BY <2>2, <2>3, ConcatProperties
  <2> QED
    BY <2>2, <2>4, ConcatProperties
<1>8. PassCode \in Seq(Digit)
  BY DEF PassCode, Digit
<1> HIDE DEF coded
<1>9. CASE mode = <<b2, PassCode>>
  BY <1>6, <1>8, <1>9
<1>10. CASE \E d \in -3 .. 3 : mode = <<a1, VerticalCode(d)>>
  BY <1>1, <1>10, VerticalCodeTyped
<1>11. CASE mode = <<a2, coded>>
  BY <1>3, <1>7, <1>11
<1> QED
  BY <1>2, <1>9, <1>10, <1>11

\* The encoder's steps.
LEMMA EncodeModeData ==
    ASSUME FaxInv, method \in Fax, EncodeMode
    PROVE  FaxInv' /\ RowStep(columns, pixels, pixels', atNewLine')
<1>1. /\ stream \in Seq(Digit) /\ todo \in Seq(Colors) /\ input \in Seq(Colors)
      /\ Len(todo) <= Len(input) /\ columns \in Nat \ {0}
      /\ Len(todo) \in Nat /\ Len(input) \in Nat
  BY DEF FaxInv, FaxData, EncodeMode
<1>2. UNCHANGED <<method, input, columns, pixels, atNewLine, color>>
  BY DEF EncodeMode, Encoding
<1> DEFINE done  == Len(input) - Len(todo)
           start == (done \div columns) * columns
           a0    == done - start
           row   == SubSeq(input, start + 1, start + columns)
           over  == SubSeq(WhiteRow(columns) \o input, start + 1, start + columns)
           shade == IF fresh THEN White ELSE row[a0 + 1]
<1>3. PICK mode \in ModesAt(row, over, a0, shade) :
          todo' = SubSeq(todo, mode[1] - a0 + 1, Len(todo)) /\ stream' = stream \o mode[2]
  BY DEF EncodeMode
<1>4. a0 \in 0 .. columns
  <2>1. done \in Nat
    BY <1>1
  <2> HIDE DEF done
  <2>2. start \in Nat /\ start <= done /\ done < start + columns
    BY <1>1, <2>1, RowArithmetic
  <2> HIDE DEF start
  <2> QED
    BY <1>1, <2>1, <2>2
<1> HIDE DEF a0, row, over, shade
<1>5. mode[1] \in a0 .. columns /\ mode[2] \in Seq(Digit)
  BY <1>1, <1>4, ModesTyped
<1>6. stream' \in Seq(Digit)
  BY <1>1, <1>3, <1>5, ConcatProperties
<1>7. todo' \in Seq(Colors) /\ Len(todo') <= Len(todo)
  <2> DEFINE from == mode[1] - a0 + 1
  <2>1. from \in Nat \ {0}
    BY <1>4, <1>5
  <2>2. todo' = SubSeq(todo, from, Len(todo))
    BY <1>3
  <2> HIDE DEF from
  <2> QED
    BY <1>1, <2>1, <2>2, PartTyped
<1>8. Len(todo') <= Len(input)
  BY <1>1, <1>7
<1>9. FaxData'
  BY <1>1, <1>2, <1>6, <1>7, <1>8 DEF FaxData
<1>10. columns' \in Int /\ RowsOK(columns, pixels, atNewLine, color)
  BY <1>2 DEF FaxInv
<1> QED
  BY <1>2, <1>9, <1>10, NotPainted DEF FaxInv

\* What is left of the stream is bits, wherever it is cut.
LEMMA CloseData ==
    ASSUME NEW all \in Seq(Digit), Close(all, 8)
    PROVE  stream' \in Seq(Digit)
<1> DEFINE bytes == (Len(all) + 8 - 1) \div 8
           pad   == [i \in 1 .. bytes * 8 - Len(all) |-> 0]
<1>1. PICK cut \in Cuts : cut <= bytes /\ stream' = SubSeq(all \o pad, 1, (bytes - cut) * 8)
  BY DEF Close
<1>2. cut \in Nat
  BY CutsAssumption
<1> DEFINE n == bytes * 8 - Len(all)
<1>3. bytes \in Nat /\ n \in Nat /\ Len(all) \in Nat
  OBVIOUS
<1>4. pad = [i \in 1 .. n |-> 0]
  OBVIOUS
<1> HIDE DEF n, bytes, pad
<1>5. pad \in Seq(Digit) /\ Len(pad) = n
  BY <1>3, <1>4 DEF Digit
<1>6. all \o pad \in Seq(Digit) /\ Len(all \o pad) = Len(all) + n
  BY <1>5, ConcatProperties
<1>7. Len(all) + n = bytes * 8
  BY <1>3 DEF n
<1>8. (bytes - cut) * 8 \in Int /\ (bytes - cut) * 8 <= bytes * 8
  BY <1>1, <1>2, <1>3
<1>9. SubSeq(all \o pad, 1, (bytes - cut) * 8) \in Seq(Digit)
  BY <1>6, <1>7, <1>8, PartTyped
<1> QED
  BY <1>1, <1>9

LEMMA EncodeEndData ==
    ASSUME FaxInv, method \in Fax, EncodeEndOfFacsimile
    PROVE  FaxInv' /\ RowStep(columns, pixels, pixels', atNewLine')
<1>1. /\ stream \in Seq(Digit) /\ todo \in Seq(Colors) /\ input \in Seq(Colors)
      /\ Len(todo) <= Len(input) /\ todo = <<>>
  BY DEF FaxInv, FaxData, EncodeEndOfFacsimile
<1>2. UNCHANGED <<method, input, todo, columns, pixels, atNewLine, color>>
  BY DEF EncodeEndOfFacsimile, Close, Encoding, faxVars
<1>3. EndOfFacsimile \in Seq(Digit)
  <2>1. ToBits(1, 12) \in Seq(Digit)
    BY ToBitsTyped
  <2> QED
    BY <2>1, ConcatProperties DEF EndOfFacsimile
<1>4. stream \o EndOfFacsimile \in Seq(Digit)
  BY <1>1, <1>3, ConcatProperties
<1>5. stream' \in Seq(Digit)
  BY <1>4, CloseData DEF EncodeEndOfFacsimile
<1>6. FaxData'
  BY <1>1, <1>2, <1>5 DEF FaxData
<1>7. columns' \in Int /\ RowsOK(columns, pixels, atNewLine, color)
  BY <1>2 DEF FaxInv
<1> QED
  BY <1>2, <1>6, <1>7, NotPainted DEF FaxInv

\* The decoder's.
LEMMA FaxStepData ==
    ASSUME FaxInv, method \in Fax, FaxStep, UNCHANGED <<columns, fresh>>
    PROVE  FaxInv' /\ RowStep(columns, pixels, pixels', atNewLine')
<1>1. stream \in Seq(Digit) /\ columns \in Int /\ RowsOK(columns, pixels, atNewLine, color)
  BY DEF FaxInv, FaxData
<1>2. RowsNext /\ StreamLeft
  BY <1>1, FaxStepRows
<1>3. UNCHANGED <<method, input, todo>>
  BY DEF FaxStep, Pass, Horizontal, Extension, Vertical, NothingToParse, EndOfParsing, Parsing, Reading
<1>4. FaxData'
  BY <1>2, <1>3 DEF FaxInv, FaxData, StreamLeft
<1>5. RowsOK(columns', pixels', atNewLine', color')
  BY <1>2 DEF RowsNext
<1> QED
  BY <1>1, <1>2, <1>4, <1>5 DEF FaxInv, RowsNext

\* The other methods leave the rows alone.
LEMMA OtherMethods ==
    ASSUME FaxInv, method \notin Fax, method' = method, UNCHANGED faxVars
    PROVE  FaxInv' /\ RowStep(columns, pixels, pixels', atNewLine')
<1>1. UNCHANGED <<columns, pixels, atNewLine, color>>
  BY DEF faxVars
<1>2. columns \in Int /\ RowsOK(columns, pixels, atNewLine, color)
  BY DEF FaxInv
<1> QED
  BY <1>1, <1>2, NotPainted DEF FaxInv, FaxData

LEMMA NextFaxInv == FaxInv /\ [Next]_vars => FaxInv' /\ RowStep(columns, pixels, pixels', atNewLine')
<1> SUFFICES ASSUME FaxInv, [Next]_vars
             PROVE  FaxInv' /\ RowStep(columns, pixels, pixels', atNewLine')
  OBVIOUS
<1>1. CASE method \in Fax /\ FaxNext
  BY <1>1, EncodeModeData, EncodeEndData, FaxStepData DEF FaxNext
<1>2. CASE Plain /\ Others
  <2>1. method \notin Fax /\ method' = method
    BY <1>2 DEF Plain, EncodeWhole, EncodeWholeEnd, decode_None, decode_Deflate, DecodeUnsupported,
                Fax, Whole, Zlib, Unsupported, Encoding, Reading, Close
  <2> QED
    BY <1>2, <2>1, OtherMethods DEF Others
<1>3. CASE method = "PackBits" /\ PackBitsNext /\ Others
  <2>1. method \notin Fax /\ method' = method
    BY <1>3 DEF PackBitsNext, EncodePacket, EncodeLastPacket, ReadPacket, ReadEnd,
                Fax, Encoding, Reading, Close
  <2> QED
    BY <1>3, <2>1, OtherMethods DEF Others
<1>4. CASE method = "LZW" /\ LZWNext /\ UNCHANGED faxVars
  <2>1. method \notin Fax /\ method' = method
    BY <1>4 DEF LZWNext, EncodeString, EncodeEnd, ReadCode, ReadPastEnd, Receive, ReadAllEnds,
                Fax, Encoding, Reading, Close
  <2> QED
    BY <1>4, <2>1, OtherMethods
<1>5. CASE AnyCodes /\ UNCHANGED <<codedVars, lzwEncoder, faxVars>>
  <2>1. method \notin Fax /\ method' = method
    BY <1>5 DEF AnyCodes, codedVars, Fax
  <2> QED
    BY <1>5, <2>1, OtherMethods
<1>6. CASE UNCHANGED vars
  <2>1. UNCHANGED <<method, input, todo, stream, columns, pixels, atNewLine, color>>
    BY <1>6 DEF vars, codedVars, faxVars
  <2>2. columns \in Int /\ RowsOK(columns, pixels, atNewLine, color)
    BY DEF FaxInv
  <2> QED
    BY <2>1, <2>2, NotPainted DEF FaxInv, FaxData
<1> QED
  BY <1>1, <1>2, <1>3, <1>4, <1>5, <1>6 DEF Next, Fax

\* Whatever the data and the width, rows stay aligned: no mode of parsePixels paints across the
\* end of a row, one that completes it puts a0 before a new white line, and a0 is there only
\* between rows.
THEOREM FaxRowsAlignedThm == Spec => FaxRowsAligned
<1>1. FaxInv => (atNewLine => color = White /\ (columns > 0 => Len(pixels) % columns = 0))
  BY DEF FaxInv, RowsOK
<1>2. FaxInv /\ [Next]_vars =>
        [columns > 0 /\ Len(pixels') >= LineStart + columns
            => atNewLine' /\ Len(pixels') = LineStart + columns]_<<columns, pixels, atNewLine, color>>
  BY NextFaxInv DEF RowStep, LineStart, Here
<1>3. FaxInv /\ [Next]_vars => FaxInv'
  BY NextFaxInv
<1> QED
  BY InitFaxInv, <1>1, <1>2, <1>3, PTL DEF Spec, FaxRowsAligned

-----------------------------------------------------------------------------
(***************************************************************************)
(* What an encoder wrote and what is left of it.                           *)
(***************************************************************************)
\* One sequence after another, and a part of one.
LEMMA Joined ==
    ASSUME NEW S, NEW s \in Seq(S), NEW t \in Seq(S)
    PROVE  /\ s \o t \in Seq(S) /\ Len(s \o t) = Len(s) + Len(t)
           /\ \A k \in 1 .. Len(s) : (s \o t)[k] = s[k]
           /\ \A k \in 1 .. Len(t) : (s \o t)[Len(s) + k] = t[k]
<1>1. Len(s) \in Nat /\ Len(t) \in Nat
  OBVIOUS
<1>2. /\ s \o t \in Seq(S) /\ Len(s \o t) = Len(s) + Len(t)
      /\ \A i \in 1 .. Len(s) + Len(t) : (s \o t)[i] = IF i <= Len(s) THEN s[i] ELSE t[i - Len(s)]
  BY ConcatProperties
<1>3. ASSUME NEW k \in 1 .. Len(s) PROVE (s \o t)[k] = s[k]
  <2>1. k \in 1 .. Len(s) + Len(t) /\ k <= Len(s)
    BY <1>1
  <2> QED
    BY <1>2, <2>1
<1>4. ASSUME NEW k \in 1 .. Len(t) PROVE (s \o t)[Len(s) + k] = t[k]
  <2>1. Len(s) + k \in 1 .. Len(s) + Len(t) /\ ~ (Len(s) + k <= Len(s)) /\ (Len(s) + k) - Len(s) = k
    BY <1>1
  <2> QED
    BY <1>2, <2>1
<1> QED
  BY <1>2, <1>3, <1>4

\* What SubSeq gives, element by element.
LEMMA SubSeqIs ==
    ASSUME NEW S, NEW s \in Seq(S), NEW m \in Int, NEW n \in Nat, 1 <= m, m <= n + 1, n <= Len(s)
    PROVE  /\ SubSeq(s, m, n) \in Seq(S) /\ Len(SubSeq(s, m, n)) = n - m + 1
           /\ SubSeq(s, m, n) = [k \in 1 .. n - m + 1 |-> s[m + k - 1]]
<1>1. Len(s) \in Nat
  OBVIOUS
<1>2. \A k \in m .. n : s[k] \in S
  <2> SUFFICES ASSUME NEW k \in m .. n PROVE s[k] \in S
    OBVIOUS
  <2>1. k \in 1 .. Len(s)
    BY <1>1
  <2> QED
    BY <2>1
<1>3. SubSeq(s, m, n) = [k \in 1 .. n - m + 1 |-> s[m + k - 1]]
  BY <1>1
<1>4. n - m + 1 \in Nat /\ \A k \in 1 .. n - m + 1 : m + k - 1 \in m .. n
  BY <1>1
<1>5. SubSeq(s, m, n) \in [1 .. n - m + 1 -> S]
  BY <1>2, <1>3, <1>4
<1> HIDE <1>3
<1> QED
  BY <1>3, <1>4, <1>5

\* s is in f, behind the first o.
Lies(f, o, s) == o + Len(s) <= Len(f) /\ \A k \in 1 .. Len(s) : f[o + k] = s[k]

\* A part of a part.
LEMMA LiesIn ==
    ASSUME NEW S, NEW f \in Seq(S), NEW g \in Seq(S), NEW h \in Seq(S), NEW o \in Nat, NEW p \in Nat,
           Lies(f, o, g), Lies(g, p, h)
    PROVE  Lies(f, o + p, h)
<1>1. Len(f) \in Nat /\ Len(g) \in Nat /\ Len(h) \in Nat
  OBVIOUS
<1>2. o + Len(g) <= Len(f) /\ p + Len(h) <= Len(g)
  BY DEF Lies
<1>3. ASSUME NEW k \in 1 .. Len(h) PROVE f[(o + p) + k] = h[k]
  <2>1. p + k \in 1 .. Len(g) /\ o + (p + k) = (o + p) + k
    BY <1>1, <1>2
  <2>2. g[p + k] = h[k]
    BY DEF Lies
  <2>3. f[o + (p + k)] = g[p + k]
    BY <2>1 DEF Lies
  <2> QED
    BY <2>1, <2>2, <2>3
<1>4. (o + p) + Len(h) <= Len(f)
  BY <1>1, <1>2
<1> QED
  BY <1>3, <1>4 DEF Lies

\* The two halves of a concatenation lie in it.
LEMMA LiesFirst ==
    ASSUME NEW S, NEW f \in Seq(S), NEW g \in Seq(S)
    PROVE  Lies(f \o g, 0, f) /\ Lies(f \o g, Len(f), g)
<1> DEFINE u == f \o g
<1>1. Len(f) \in Nat /\ Len(g) \in Nat
  OBVIOUS
<1>2. Len(u) = Len(f) + Len(g)
  BY Joined
<1>3. \A k \in 1 .. Len(f) : u[k] = f[k]
  BY Joined
<1>4. \A k \in 1 .. Len(g) : u[Len(f) + k] = g[k]
  BY Joined
<1> HIDE DEF u
<1>5. Lies(u, 0, f)
  <2>1. \A k \in 1 .. Len(f) : 0 + k = k
    BY <1>1
  <2>2. 0 + Len(f) <= Len(u)
    BY <1>1, <1>2
  <2> QED
    BY <1>3, <2>1, <2>2 DEF Lies
<1>6. Lies(u, Len(f), g)
  BY <1>1, <1>2, <1>4 DEF Lies
<1> QED
  BY <1>5, <1>6 DEF u

\* What lies in the first part lies in the whole.
LEMMA LiesBefore ==
    ASSUME NEW S, NEW f \in Seq(S), NEW g \in Seq(S), NEW s \in Seq(S), NEW o \in Nat, Lies(f, o, s)
    PROVE  Lies(f \o g, o, s)
<1> DEFINE u == f \o g
           z == 0
<1>1. u \in Seq(S) /\ Lies(u, z, f) /\ z \in Nat /\ z + o = o
  BY Joined, LiesFirst
<1> HIDE DEF u, z
<1>2. Lies(u, z + o, s)
  BY <1>1, LiesIn
<1> QED
  BY <1>1, <1>2 DEF u

\* What lies in the second half.
LEMMA LiesBehind ==
    ASSUME NEW S, NEW f \in Seq(S), NEW g \in Seq(S), NEW s \in Seq(S), NEW o \in Nat, Lies(g, o, s),
           NEW p \in Nat, p = Len(f) + o
    PROVE  Lies(f \o g, p, s)
<1> DEFINE u == f \o g
           z == Len(f)
<1>1. u \in Seq(S) /\ Lies(u, z, g) /\ z \in Nat
  BY Joined, LiesFirst
<1> HIDE DEF u, z
<1>2. Lies(u, z + o, s)
  BY <1>1, LiesIn
<1>3. z + o = p
  BY DEF z
<1> QED
  BY <1>2, <1>3 DEF u

\* What lies where s does lies in s, if s is long enough.
LEMMA LiesWithin ==
    ASSUME NEW S, NEW f \in Seq(S), NEW s \in Seq(S), NEW h \in Seq(S), NEW o \in Nat, NEW p \in Nat,
           Lies(f, o, s), Lies(f, o + p, h), p + Len(h) <= Len(s)
    PROVE  Lies(s, p, h)
<1>1. Len(f) \in Nat /\ Len(s) \in Nat /\ Len(h) \in Nat
  OBVIOUS
<1>2. ASSUME NEW k \in 1 .. Len(h) PROVE s[p + k] = h[k]
  <2>1. p + k \in 1 .. Len(s) /\ o + (p + k) = (o + p) + k
    BY <1>1
  <2>2. f[(o + p) + k] = h[k]
    BY DEF Lies
  <2>3. f[o + (p + k)] = s[p + k]
    BY <2>1 DEF Lies
  <2> QED
    BY <2>1, <2>2, <2>3
<1> QED
  BY <1>2 DEF Lies

\* What is left behind the first n.
LEMMA LiesOn ==
    ASSUME NEW S, NEW f \in Seq(S), NEW s \in Seq(S), NEW o \in Nat, Lies(f, o, s),
           NEW n \in Nat, n <= Len(s)
    PROVE  LET r == SubSeq(s, n + 1, Len(s))
           IN  r \in Seq(S) /\ Len(r) = Len(s) - n /\ Lies(f, o + n, r) /\ Lies(s, n, r)
<1> DEFINE from == n + 1
           to == Len(s)
           r == SubSeq(s, from, to)
<1>1. from \in Int /\ to \in Nat /\ 1 <= from /\ from <= to + 1 /\ to <= Len(s)
      /\ to - from + 1 = Len(s) - n /\ Len(s) - n \in Nat
  OBVIOUS
<1>2. \A k \in 1 .. Len(s) - n : from + k - 1 = n + k
  OBVIOUS
<1>3. r \in Seq(S) /\ Len(r) = to - from + 1 /\ r = [k \in 1 .. to - from + 1 |-> s[from + k - 1]]
  <2> HIDE DEF from, to
  <2> QED
    BY <1>1, SubSeqIs
<1>4. \A k \in 1 .. Len(r) : r[k] = s[n + k]
  <2> HIDE DEF from, to, r
  <2> QED
    BY <1>1, <1>2, <1>3
<1>5. r \in Seq(S) /\ Len(r) = Len(s) - n
  <2> HIDE DEF from, to, r
  <2> QED
    BY <1>1, <1>3
<1> HIDE DEF from, to, r
<1>6. Lies(s, n, r)
  BY <1>4, <1>5 DEF Lies
<1>7. Lies(f, o + n, r)
  BY <1>5, <1>6, LiesIn
<1> QED
  BY <1>5, <1>6, <1>7 DEF r, from, to

\* The first n of s.
LEMMA FirstPart ==
    ASSUME NEW S, NEW s \in Seq(S), NEW n \in Nat, n <= Len(s)
    PROVE  LET t == SubSeq(s, 1, n)
           IN  /\ t \in Seq(S) /\ Len(t) = n /\ \A k \in 1 .. n : t[k] = s[k]
               /\ Lies(s, 0, t) /\ IsPrefix(t, s)
<1> DEFINE one == 1
           t == SubSeq(s, one, n)
<1>1. one \in Int /\ 1 <= one /\ one <= n + 1 /\ n - one + 1 = n /\ \A k \in 1 .. n : one + k - 1 = k
  OBVIOUS
<1> HIDE DEF one
<1>2. t \in Seq(S) /\ Len(t) = n /\ t = [k \in 1 .. n |-> s[one + k - 1]]
  BY <1>1, SubSeqIs
<1> HIDE DEF t
<1>3. \A k \in 1 .. n : t[k] = s[k]
  BY <1>1, <1>2
<1>4. \A k \in 1 .. n : 0 + k = k
  OBVIOUS
<1>5. Lies(s, 0, t)
  BY <1>2, <1>3, <1>4 DEF Lies
<1>6. t = SubSeq(s, 1, Len(t))
  BY <1>2 DEF t, one
<1>7. IsPrefix(t, s)
  BY <1>2, <1>6 DEF IsPrefix
<1> QED
  BY <1>2, <1>3, <1>5, <1>7 DEF t, one

\* Sequences of one length with the same elements are one.
LEMMA SameSeq ==
    ASSUME NEW S, NEW s \in Seq(S), NEW t \in Seq(S), Len(s) = Len(t), \A k \in 1 .. Len(s) : s[k] = t[k]
    PROVE  s = t
<1>1. s = [k \in 1 .. Len(s) |-> s[k]] /\ t = [k \in 1 .. Len(t) |-> t[k]]
  OBVIOUS
<1> QED
  BY <1>1

\* What lies at the beginning of a sequence is its first part.
LEMMA LiesIsPart ==
    ASSUME NEW S, NEW s \in Seq(S), NEW t \in Seq(S), NEW o \in Nat, Lies(s, o, t), NEW n \in Nat, Len(t) = n
    PROVE  SubSeq(s, o + 1, o + n) = t
<1> DEFINE from == o + 1
           to == o + n
<1>1. from \in Int /\ to \in Nat /\ 1 <= from /\ from <= to + 1 /\ to <= Len(s) /\ to - from + 1 = n
  BY DEF Lies
<1>2. \A k \in 1 .. n : from + k - 1 = o + k
  OBVIOUS
<1> HIDE DEF from, to
<1>3. SubSeq(s, from, to) = [k \in 1 .. to - from + 1 |-> s[from + k - 1]]
  BY <1>1, SubSeqIs
<1>4. \A k \in 1 .. n : s[from + k - 1] = t[k]
  BY <1>2 DEF Lies
<1>5. t = [k \in 1 .. n |-> t[k]]
  OBVIOUS
<1>6. SubSeq(s, from, to) = t
  BY <1>1, <1>3, <1>4, <1>5
<1> QED
  BY <1>6 DEF from, to

\* A part that lies at the beginning is a prefix.
LEMMA LiesIsFirst ==
    ASSUME NEW S, NEW s \in Seq(S), NEW t \in Seq(S), Lies(s, 0, t)
    PROVE  t = SubSeq(s, 1, Len(t)) /\ IsPrefix(t, s) /\ Len(t) <= Len(s)
<1> DEFINE z == 0
           n == Len(t)
<1>1. z \in Nat /\ Lies(s, z, t) /\ n \in Nat /\ z + 1 = 1 /\ z + n = n /\ n <= Len(s)
  BY DEF Lies
<1> HIDE DEF z
<1>2. SubSeq(s, z + 1, z + n) = t
  BY <1>1, LiesIsPart
<1>3. t = SubSeq(s, 1, Len(t))
  BY <1>1, <1>2
<1> QED
  BY <1>1, <1>3 DEF IsPrefix

\* More of a sequence behind its first part.
LEMMA FirstAndNext ==
    ASSUME NEW S, NEW s \in Seq(S), NEW n \in Nat, NEW t \in Seq(S), Lies(s, n, t)
    PROVE  SubSeq(s, 1, n) \o t = SubSeq(s, 1, n + Len(t))
<1> DEFINE p == SubSeq(s, 1, n)
           m == n + Len(t)
           q == SubSeq(s, 1, m)
<1>1. Len(t) \in Nat /\ n <= Len(s) /\ m \in Nat /\ m <= Len(s)
  BY DEF Lies
<1>2. p \in Seq(S) /\ Len(p) = n /\ \A k \in 1 .. n : p[k] = s[k]
  BY <1>1, FirstPart
<1>3. q \in Seq(S) /\ Len(q) = m /\ \A k \in 1 .. m : q[k] = s[k]
  <2> HIDE DEF m
  <2> QED
    BY <1>1, FirstPart
<1> HIDE DEF p, q
<1>4. p \o t \in Seq(S) /\ Len(p \o t) = m /\ (\A k \in 1 .. n : (p \o t)[k] = p[k])
      /\ \A k \in 1 .. Len(t) : (p \o t)[n + k] = t[k]
  <2>1. /\ p \o t \in Seq(S) /\ Len(p \o t) = Len(p) + Len(t)
        /\ \A k \in 1 .. Len(p) : (p \o t)[k] = p[k]
        /\ \A k \in 1 .. Len(t) : (p \o t)[Len(p) + k] = t[k]
    <3>1. p \in Seq(S)
      BY <1>2
    <3> QED
      BY <3>1, Joined
  <2> QED
    BY <2>1, <1>2
<1>5. ASSUME NEW k \in 1 .. m PROVE (p \o t)[k] = q[k]
  <2>1. CASE k \in 1 .. n
    BY <1>2, <1>3, <1>4, <2>1
  <2>2. CASE k \notin 1 .. n
    <3>1. k - n \in 1 .. Len(t) /\ n + (k - n) = k
      BY <2>2, <1>1
    <3>2. (p \o t)[k] = t[k - n]
      BY <1>4, <3>1
    <3>3. s[k] = t[k - n]
      BY <3>1 DEF Lies
    <3> QED
      BY <1>3, <3>2, <3>3
  <2> QED
    BY <2>1, <2>2
<1>6. p \o t = q
  <2> HIDE DEF m
  <2> QED
    BY <1>3, <1>4, <1>5, SameSeq
<1> QED
  BY <1>6 DEF p, q, m

\* What Close leaves: a first part of what was written and zeros behind it.
Closed(all, units, w) ==
    /\ Lies(w, 0, all) /\ Lies(w, 0, stream')
    /\ lost' \in Nat /\ Len(w) - lost' * units = Len(stream')
    /\ units = 1 => w = all

\* What Close leaves of the stream is the first part of some whole one.
LEMMA CloseIs ==
    ASSUME NEW S, 0 \in S, NEW all \in Seq(S), NEW units \in Nat \ {0}, Close(all, units)
    PROVE  stream' \in Seq(S) /\ \E w \in Seq(S) : Closed(all, units, w)
<1> DEFINE bytes == (Len(all) + units - 1) \div units
           n   == bytes * units - Len(all)
           pad == [i \in 1 .. n |-> 0]
           w   == all \o pad
<1>1. PICK cut \in Cuts : cut <= bytes /\ lost' = cut /\ stream' = SubSeq(w, 1, (bytes - cut) * units)
  BY DEF Close
<1>2. cut \in Nat /\ Len(all) \in Nat
  BY CutsAssumption
<1>3. bytes \in Nat /\ n \in Nat /\ (units = 1 => n = 0) /\ bytes * units \in Nat
  <2> DEFINE a == Len(all) + units - 1
             r == a % units
  <2>1. a \in Nat
    BY <1>2
  <2>2. bytes \in Nat /\ r \in 0 .. units - 1 /\ a = units * bytes + r
    <3>1. bytes = a \div units
      OBVIOUS
    <3> HIDE DEF a, bytes
    <3> QED
      BY <2>1, <3>1
  <2> DEFINE p == bytes * units
  <2>3. p \in Nat /\ a = p + r
    <3> HIDE DEF a, bytes, r
    <3> QED
      BY <2>2
  <2>4. n = p - Len(all)
    OBVIOUS
  <2>7. r \in 0 .. units - 1 /\ bytes \in Nat
    BY <2>2
  <2>8. a = Len(all) + units - 1
    OBVIOUS
  <2> HIDE DEF bytes, r, p, n, a
  <2>9. n = units - 1 - r
    BY <2>3, <2>4, <2>7, <2>8, <1>2
  <2>5. n \in Int /\ n >= 0
    BY <2>7, <2>9
  <2>6. ASSUME units = 1 PROVE n = 0
    <3>1. r \in 0 .. units - 1 /\ units - 1 = 0
      BY <2>6, <2>7
    <3>2. r = 0
      BY <3>1
    <3>3. n = units - 1 - r
      BY <2>9
    <3> QED
      BY <2>6, <3>2, <3>3
  <2> QED
    BY <2>2, <2>3, <2>5, <2>6 DEF p
<1>4. n = bytes * units - Len(all)
  OBVIOUS
<1> HIDE DEF n, bytes
<1>5. pad \in Seq(S) /\ Len(pad) = n
  BY <1>3
<1> HIDE DEF pad
<1>6. w \in Seq(S) /\ Len(w) = bytes * units /\ Lies(w, 0, all)
  <2>1. w \in Seq(S) /\ Len(w) = Len(all) + Len(pad) /\ Lies(w, 0, all)
    BY <1>5, Joined, LiesFirst
  <2> HIDE DEF w
  <2> QED
    BY <2>1, <1>2, <1>3, <1>4, <1>5
<1>7. units = 1 => w = all
  <2> SUFFICES ASSUME units = 1 PROVE w = all
    OBVIOUS
  <2>1. Len(w) = Len(all) /\ \A k \in 1 .. Len(all) : w[k] = all[k]
    BY <1>3, <1>5, Joined
  <2> HIDE DEF w
  <2> QED
    BY <1>6, <2>1, SameSeq
<1> HIDE DEF w
<1> DEFINE m == (bytes - cut) * units
<1>8. m \in Nat /\ m <= Len(w) /\ m = Len(w) - cut * units
  <2>1. m = bytes * units - cut * units
    BY <1>2, <1>3
  <2>2. cut * units \in Nat /\ cut * units <= bytes * units
    BY <1>1, <1>2, <1>3
  <2> HIDE DEF m
  <2> QED
    BY <2>1, <2>2, <1>3, <1>6
<1>9. stream' \in Seq(S) /\ Len(stream') = m /\ Lies(w, 0, stream')
  <2>1. stream' = SubSeq(w, 1, m)
    BY <1>1
  <2> HIDE DEF m
  <2> QED
    BY <2>1, <1>6, <1>8, FirstPart
<1>10. Closed(all, units, w)
  BY <1>1, <1>2, <1>6, <1>7, <1>8, <1>9 DEF Closed
<1> QED
  BY <1>6, <1>9, <1>10

-----------------------------------------------------------------------------
(***************************************************************************)
(* PackBits.  What the encoder has written is a path of packets: a point is*)
(* a pair of how many bytes of the stream and how many of the data are     *)
(* before it.                                                              *)
(***************************************************************************)
Points == Nat \X Nat

Packet(w, data, g, h) ==
    LET code == w[g[1] + 1]
    IN  /\ g[1] < Len(w) /\ h[1] <= Len(w) /\ h[2] <= Len(data)
        /\ \/ code = NoOp /\ h = <<g[1] + 1, g[2]>>
           \/ /\ code \in 0 .. Int8Max /\ h = <<g[1] + code + 2, g[2] + code + 1>>
              /\ \A k \in 1 .. code + 1 : data[g[2] + k] = w[g[1] + 1 + k]
           \/ /\ code \in - Int8Max .. -1 /\ h = <<g[1] + 2, g[2] + 1 - code>>
              /\ \A k \in 1 .. 1 - code : data[g[2] + k] = w[g[1] + 2]

Packets(w, data, P, e) ==
    /\ P \subseteq Points /\ <<0, 0>> \in P /\ e \in P
    /\ \A g \in P : g[1] <= Len(w) /\ g[2] <= Len(data)
    /\ \A g \in P : g = e \/ \E h \in P : Packet(w, data, g, h)

\* A packet behind all the others.
LEMMA PacketAdded ==
    ASSUME NEW w \in Seq(Int), NEW v \in Seq(Int), NEW data \in Seq(Int), NEW P, NEW e \in Points,
           Packets(w, data, P, e), Lies(v, 0, w), NEW h \in Points, Packet(v, data, e, h)
    PROVE  Packets(v, data, P \cup {h}, h)
<1>1. Len(w) \in Nat /\ Len(v) \in Nat /\ Len(w) <= Len(v) /\ \A k \in 1 .. Len(w) : v[k] = w[k]
  BY DEF Lies
<1>2. ASSUME NEW g \in P, NEW d \in P, Packet(w, data, g, d) PROVE Packet(v, data, g, d)
  <2>a. g[1] \in Nat /\ g[2] \in Nat /\ d[1] \in Nat /\ d[2] \in Nat
    BY DEF Packets, Points
  <2>b. g[1] < Len(w) /\ d[1] <= Len(w)
    BY <1>2 DEF Packet
  <2>1. g[1] \in Nat /\ g[2] \in Nat /\ d[1] \in Nat /\ d[2] \in Nat /\ g[1] + 1 \in 1 .. Len(w)
        /\ d[1] <= Len(v) /\ g[1] < Len(v)
    <3> DEFINE at == g[1]
               to == d[1]
    <3>1. at \in Nat /\ to \in Nat /\ at < Len(w) /\ to <= Len(w)
      BY <2>a, <2>b
    <3> HIDE DEF at, to
    <3>2. at + 1 \in 1 .. Len(w) /\ to <= Len(v) /\ at < Len(v)
      BY <3>1, <1>1
    <3> QED
      BY <3>2, <2>a DEF at, to
  <2> DEFINE code == w[g[1] + 1]
  <2>2. v[g[1] + 1] = code
    BY <1>1, <2>1
  <2>3. CASE code = NoOp /\ d = <<g[1] + 1, g[2]>>
    BY <1>2, <2>1, <2>2, <2>3 DEF Packet
  <2>4. CASE /\ code \in 0 .. Int8Max /\ d = <<g[1] + code + 2, g[2] + code + 1>>
             /\ \A k \in 1 .. code + 1 : data[g[2] + k] = w[g[1] + 1 + k]
    <3>1. code \in Nat /\ d[1] = g[1] + code + 2 /\ d[1] <= Len(w)
      BY <1>2, <2>4, Int8Assumption DEF Packet
    <3>2. \A k \in 1 .. code + 1 : g[1] + 1 + k \in 1 .. Len(w)
      <4> SUFFICES ASSUME NEW k \in 1 .. code + 1 PROVE g[1] + 1 + k \in 1 .. Len(w)
        OBVIOUS
      <4> DEFINE at == g[1]
                 to == d[1]
      <4>1. code \in Nat /\ k \in 1 .. code + 1 /\ at \in Nat /\ to = at + code + 2 /\ to <= Len(w) /\ Len(w) \in Nat
        BY <3>1, <2>1, <1>1
      <4> HIDE DEF code, at, to
      <4>2. at + 1 + k \in 1 .. Len(w)
        BY <4>1
      <4> QED
        BY <4>2 DEF at
    <3>3. \A k \in 1 .. code + 1 : data[g[2] + k] = v[g[1] + 1 + k]
      <4> HIDE DEF code
      <4> QED
        BY <3>2, <2>4, <1>1
    <3>4. d[2] <= Len(data)
      BY <1>2 DEF Packet
    <3> HIDE DEF code
    <3> QED
      BY <2>1, <2>2, <2>4, <3>3, <3>4 DEF Packet
  <2>5. CASE /\ code \in - Int8Max .. -1 /\ d = <<g[1] + 2, g[2] + 1 - code>>
             /\ \A k \in 1 .. 1 - code : data[g[2] + k] = w[g[1] + 2]
    <3>1. d[1] = g[1] + 2 /\ d[1] <= Len(w) /\ d[2] <= Len(data)
      BY <1>2, <2>5 DEF Packet
    <3>2. v[g[1] + 2] = w[g[1] + 2]
      <4>1. g[1] + 2 \in 1 .. Len(w)
        BY <3>1, <2>1, <1>1
      <4> QED
        BY <4>1, <1>1
    <3> HIDE DEF code
    <3> QED
      BY <2>1, <2>2, <2>5, <3>1, <3>2 DEF Packet
  <2> QED
    BY <1>2, <2>3, <2>4, <2>5 DEF Packet
<1> DEFINE Q == P \cup {h}
<1>3. Q \subseteq Points /\ <<0, 0>> \in Q /\ h \in Q
  BY DEF Packets
<1>4. \A g \in Q : g[1] <= Len(v) /\ g[2] <= Len(data)
  <2>1. h[1] <= Len(v) /\ h[2] <= Len(data)
    BY DEF Packet
  <2>2. \A g \in P : g[1] \in Nat /\ g[1] <= Len(w) /\ g[2] <= Len(data)
    BY DEF Packets, Points
  <2> QED
    BY <1>1, <2>1, <2>2
<1>5. \A g \in Q : g = h \/ \E d \in Q : Packet(v, data, g, d)
  <2> SUFFICES ASSUME NEW g \in P PROVE \E d \in Q : Packet(v, data, g, d)
    OBVIOUS
  <2>1. CASE g = e
    BY <2>1
  <2>2. CASE g # e
    <3>1. PICK d \in P : Packet(w, data, g, d)
      BY <2>2 DEF Packets
    <3>2. Packet(v, data, g, d) /\ d \in Q
      BY <1>2, <3>1
    <3> QED
      BY <3>2
  <2> QED
    BY <2>1, <2>2
<1> HIDE DEF Q
<1>6. Packets(v, data, Q, h)
  BY <1>3, <1>4, <1>5 DEF Packets
<1> QED
  BY <1>6 DEF Q

\* The stream and the data, in the order of things: the encoder writes, then the decoder reads.
PackBitsWriting ==
    /\ stream \in Seq(Int) /\ todo \in Seq(Int) /\ received = <<>> /\ result = "none"
    /\ Len(todo) <= Len(input) /\ Lies(input, Len(input) - Len(todo), todo)
    /\ \E P : Packets(stream, input, P, <<Len(stream), Len(input) - Len(todo)>>)

PackBitsReading ==
    /\ stream \in Seq(Int)
    /\ \E w \in Seq(Int) : \E P : \E g \in P :
           /\ Packets(w, input, P, <<Len(w), Len(input)>>)
           /\ Lies(w, g[1], stream) /\ received = SubSeq(input, 1, g[2])

PackBitsInv ==
    /\ input \in Seq(Int) /\ IsPrefix(received, input)
    /\ ~ closed => PackBitsWriting
    /\ closed /\ result = "none" => PackBitsReading

\* The empty sequence is a prefix of everything.
LEMMA NothingIsFirst ==
    ASSUME NEW S, NEW s \in Seq(S)
    PROVE  IsPrefix(<<>>, s) /\ SubSeq(s, 1, 0) = <<>>
<1> DEFINE n == 0
           e == <<>>
<1>1. n \in Nat /\ n <= Len(s) /\ e \in Seq(S) /\ Len(e) = n
  BY EmptySeq
<1> HIDE DEF n
<1>2. SubSeq(s, 1, n) \in Seq(S) /\ Len(SubSeq(s, 1, n)) = n /\ IsPrefix(SubSeq(s, 1, n), s)
  BY <1>1, FirstPart
<1>3. SubSeq(s, 1, n) = e
  <2>1. \A k \in 1 .. n : FALSE
    BY DEF n
  <2> HIDE DEF e
  <2> QED
    BY <1>1, <1>2, <2>1, SameSeq
<1> QED
  BY <1>2, <1>3 DEF n

\* Nothing written is a path of no packets.
LEMMA InitPackBits ==
    ASSUME NEW s \in Seq(Int), CodedInit("PackBits", s, <<>>, FALSE)
    PROVE  PackBitsInv
<1>1. /\ input = s /\ todo = s /\ closed = FALSE /\ stream = <<>> /\ received = <<>> /\ result = "none"
  BY DEF CodedInit
<1>2. <<>> \in Seq(Int) /\ Len(<<>>) = 0
  BY EmptySeq
<1>3. Len(s) \in Nat /\ Len(s) - Len(s) = 0 /\ Len(s) <= Len(s)
  OBVIOUS
<1>4. Lies(s, 0, s)
  BY <1>3 DEF Lies
<1>5. Packets(<<>>, s, {<<0, 0>>}, <<0, 0>>)
  <2>1. <<0, 0>> \in Points
    BY DEF Points
  <2> QED
    BY <1>2, <1>3, <2>1 DEF Packets
<1>6. PackBitsWriting
  BY <1>1, <1>2, <1>3, <1>4, <1>5 DEF PackBitsWriting
<1>7. IsPrefix(<<>>, s)
  BY NothingIsFirst
<1> QED
  BY <1>1, <1>6, <1>7 DEF PackBitsInv

\* One point more: the encoder's path leads to it.
Leads(w, data, n) == \E P : Packets(w, data, P, <<Len(w), n>>)

LEMMA PacketLeads ==
    ASSUME NEW w \in Seq(Int), NEW v \in Seq(Int), NEW data \in Seq(Int), NEW n \in Nat, NEW m \in Nat,
           Leads(w, data, n), Lies(v, 0, w), Packet(v, data, <<Len(w), n>>, <<Len(v), m>>)
    PROVE  Leads(v, data, m)
<1> DEFINE e == <<Len(w), n>>
           h == <<Len(v), m>>
<1>1. e \in Points /\ h \in Points
  BY DEF Points
<1>2. PICK P : Packets(w, data, P, e)
  BY DEF Leads
<1>3. Packet(v, data, e, h)
  OBVIOUS
<1> HIDE DEF e, h
<1>4. Packets(v, data, P \cup {h}, h)
  BY <1>1, <1>2, <1>3, PacketAdded
<1> QED
  BY <1>4 DEF Leads, h

\* A packet of no effect leaves the path at the same data.
LEMMA NoOpLeads ==
    ASSUME NEW w \in Seq(Int), NEW data \in Seq(Int), NEW n \in Nat, n <= Len(data), Leads(w, data, n),
           NEW noop \in {<<>>, <<NoOp>>}
    PROVE  w \o noop \in Seq(Int) /\ Leads(w \o noop, data, n)
<1>0. NoOp \in Int
  BY Int8Assumption DEF NoOp
<1>1. CASE noop = <<>>
  <2>1. w \o <<>> = w
    OBVIOUS
  <2> QED
    BY <1>1, <2>1
<1>2. CASE noop = <<NoOp>>
  <2> DEFINE v == w \o noop
  <2>1. noop \in Seq(Int) /\ Len(noop) = 1 /\ noop[1] = NoOp
    BY <1>0, <1>2
  <2>2. v \in Seq(Int) /\ Len(v) = Len(w) + Len(noop) /\ Lies(v, 0, w) /\ Lies(v, Len(w), noop)
    BY <2>1, Joined, LiesFirst
  <2> HIDE DEF v
  <2>3. v[Len(w) + 1] = NoOp /\ Len(v) = Len(w) + 1 /\ Len(w) \in Nat
    BY <2>1, <2>2 DEF Lies
  <2>4. Packet(v, data, <<Len(w), n>>, <<Len(v), n>>)
    BY <2>3 DEF Packet
  <2>5. Leads(v, data, n)
    BY <2>2, <2>4, PacketLeads
  <2> QED
    BY <2>2, <2>5 DEF v
<1> QED
  BY <1>1, <1>2

\* A literal packet leads on to the data behind its bytes.
LEMMA LiteralLeads ==
    ASSUME NEW w \in Seq(Int), NEW data \in Seq(Int), NEW n \in Nat, Leads(w, data, n),
           NEW t \in Seq(Int), Lies(data, n, t), Len(t) \in 1 .. Int8Max + 1,
           NEW v, v = (w \o <<Len(t) - 1>>) \o t
    PROVE  v \in Seq(Int) /\ Leads(v, data, n + Len(t))
<1> DEFINE c == <<Len(t) - 1>>
           u == w \o c
           l == Len(w)
           m == Len(t)
<1>1. c \in Seq(Int) /\ Len(c) = 1 /\ c[1] = m - 1 /\ l \in Nat /\ m \in Nat /\ m \in 1 .. Int8Max + 1
  OBVIOUS
<1> HIDE DEF c
<1>2. u \in Seq(Int) /\ Len(u) = l + Len(c) /\ Lies(u, 0, w) /\ Lies(u, l, c)
  BY <1>1, Joined, LiesFirst
<1>3. v = u \o t
  BY DEF c
<1> HIDE DEF u, l, m
<1>4. v \in Seq(Int) /\ Len(v) = Len(u) + Len(t) /\ Lies(v, 0, u) /\ Lies(v, Len(u), t)
  BY <1>2, <1>3, Joined, LiesFirst
<1>5. Len(u) = l + 1 /\ Len(v) = l + 1 + m /\ Len(t) = m
  BY <1>1, <1>2, <1>4 DEF m
<1>6. Lies(v, 0, w)
  <2> DEFINE z == 0
  <2>1. z \in Nat /\ Lies(u, z, w) /\ z + z = z /\ Lies(v, z, u)
    BY <1>2, <1>4
  <2> HIDE DEF z
  <2>2. Lies(v, z + z, w)
    BY <1>2, <1>4, <2>1, LiesIn
  <2> QED
    BY <2>1, <2>2 DEF z
<1>7. v[l + 1] = m - 1
  <2>1. u[l + 1] = c[1]
    BY <1>1, <1>2 DEF Lies
  <2>2. l + 1 \in 1 .. Len(u) /\ 0 + (l + 1) = l + 1
    BY <1>1, <1>5
  <2>3. v[l + 1] = u[l + 1]
    BY <1>4, <2>2 DEF Lies
  <2> QED
    BY <1>1, <2>1, <2>3
<1>8. \A k \in 1 .. m : data[n + k] = v[l + 1 + k]
  BY <1>4, <1>5 DEF Lies
<1>9. n + m <= Len(data)
  BY <1>5 DEF Lies
<1>10. Packet(v, data, <<l, n>>, <<Len(v), n + m>>)
  <2> DEFINE g == <<l, n>>
             h == <<Len(v), n + m>>
             code == v[g[1] + 1]
  <2>1. g[1] = l /\ g[2] = n /\ h[1] = Len(v) /\ h[2] = n + m
    OBVIOUS
  <2>0. code = m - 1
    BY <1>7, <2>1
  <2>2. code = m - 1 /\ code \in 0 .. Int8Max /\ code + 1 = m /\ l + code + 2 = Len(v) /\ n + code + 1 = n + m
    <3> HIDE DEF code
    <3> QED
      BY <1>1, <1>5, <2>0, Int8Assumption
  <2>3. h = <<g[1] + code + 2, g[2] + code + 1>>
    BY <2>1, <2>2
  <2>4. g[1] < Len(v)
    BY <1>1, <1>5, <2>1
  <2>5. \A k \in 1 .. code + 1 : data[g[2] + k] = v[g[1] + 1 + k]
    BY <1>8, <2>1, <2>2
  <2> HIDE DEF g, h
  <2>6. h[1] <= Len(v) /\ h[2] <= Len(data)
    BY <1>1, <1>5, <1>9, <2>1
  <2>7. Packet(v, data, g, h)
    BY <2>2, <2>3, <2>4, <2>5, <2>6 DEF Packet
  <2> QED
    BY <2>7 DEF g, h
<1>11. Leads(v, data, n + m)
  <2>1. n + m \in Nat
    BY <1>1
  <2> QED
    BY <1>4, <1>6, <1>10, <2>1, PacketLeads DEF l
<1> QED
  BY <1>4, <1>11 DEF m

\* A run leads on to the data behind its repetitions.
LEMMA RunLeads ==
    ASSUME NEW w \in Seq(Int), NEW data \in Seq(Int), NEW n \in Nat, Leads(w, data, n),
           NEW m \in 2 .. Int8Max + 1, NEW x \in Int, n + m <= Len(data), \A k \in 1 .. m : data[n + k] = x,
           NEW v, v = w \o <<1 - m, x>>
    PROVE  v \in Seq(Int) /\ Leads(v, data, n + m)
<1> DEFINE c == <<1 - m, x>>
           l == Len(w)
<1>1. c \in Seq(Int) /\ Len(c) = 2 /\ c[1] = 1 - m /\ c[2] = x /\ l \in Nat
  OBVIOUS
<1>a. v = w \o c
  OBVIOUS
<1> HIDE DEF c
<1>2. v \in Seq(Int) /\ Len(v) = l + Len(c) /\ Lies(v, 0, w) /\ Lies(v, l, c)
  <2>1. w \o c \in Seq(Int) /\ Len(w \o c) = l + Len(c) /\ Lies(w \o c, 0, w) /\ Lies(w \o c, l, c)
    BY <1>1, Joined, LiesFirst
  <2> QED
    BY <1>a, <2>1
<1> HIDE DEF l
<1>3. Len(v) = l + 2 /\ v[l + 1] = 1 - m /\ v[l + 2] = x
  BY <1>1, <1>2 DEF Lies
<1>4. Packet(v, data, <<l, n>>, <<Len(v), n + m>>)
  <2> DEFINE g == <<l, n>>
             h == <<Len(v), n + m>>
             code == v[g[1] + 1]
  <2>1. g[1] = l /\ g[2] = n /\ h[1] = Len(v) /\ h[2] = n + m
    OBVIOUS
  <2>0. code = 1 - m
    BY <1>3, <2>1
  <2>2. code = 1 - m /\ code \in - Int8Max .. -1 /\ 1 - code = m
    <3>1. m \in 2 .. Int8Max + 1 /\ Int8Max \in Nat
      BY Int8Assumption
    <3> HIDE DEF code
    <3> QED
      BY <2>0, <3>1
  <2>3. h = <<g[1] + 2, g[2] + 1 - code>>
    BY <1>3, <2>1, <2>2
  <2>4. g[1] < Len(v)
    BY <1>1, <1>3, <2>1
  <2>5. \A k \in 1 .. 1 - code : data[g[2] + k] = v[g[1] + 2]
    BY <1>3, <2>1, <2>2
  <2> HIDE DEF g, h
  <2>6. h[1] <= Len(v) /\ h[2] <= Len(data)
    BY <1>1, <1>3, <2>1
  <2>7. Packet(v, data, g, h)
    BY <2>2, <2>3, <2>4, <2>5, <2>6 DEF Packet
  <2> QED
    BY <2>7 DEF g, h
<1>5. Leads(v, data, n + m)
  <2>1. n + m \in Nat
    OBVIOUS
  <2> QED
    BY <1>2, <1>4, <2>1, PacketLeads DEF l
<1> QED
  BY <1>2, <1>5

\* Whatever packet the encoder writes, the path leads to what is still to do.
LEMMA EncodePacketInv ==
    ASSUME PackBitsInv, EncodePacket, ~ closed
    PROVE  PackBitsInv'
<1>1. UNCHANGED <<input, received, result, closed>> /\ todo # <<>>
  BY DEF EncodePacket, Encoding
<1> DEFINE d == Len(input) - Len(todo)
<1>2. /\ input \in Seq(Int) /\ stream \in Seq(Int) /\ todo \in Seq(Int) /\ received = <<>> /\ result = "none"
      /\ Len(todo) <= Len(input) /\ Lies(input, d, todo) /\ Leads(stream, input, d)
      /\ Len(todo) \in Nat /\ Len(input) \in Nat
  BY DEF PackBitsInv, PackBitsWriting, Leads
<1>3. PICK n \in 1 .. Len(todo) :
         /\ n <= Int8Max + 1
         /\ todo' = SubSeq(todo, n + 1, Len(todo))
         /\ \E noop \in {<<>>, <<NoOp>>} :
              \/ stream' = stream \o noop \o <<n - 1>> \o SubSeq(todo, 1, n)
              \/ /\ n > 1 /\ \A i \in 1 .. n : todo[i] = todo[1]
                 /\ stream' = stream \o noop \o <<1 - n, todo[1]>>
  BY DEF EncodePacket
<1>4. PICK noop \in {<<>>, <<NoOp>>} :
              \/ stream' = stream \o noop \o <<n - 1>> \o SubSeq(todo, 1, n)
              \/ /\ n > 1 /\ \A i \in 1 .. n : todo[i] = todo[1]
                 /\ stream' = stream \o noop \o <<1 - n, todo[1]>>
  BY <1>3
<1>5. d \in Nat /\ d <= Len(input) /\ n \in Nat /\ n <= Len(todo) /\ d + n <= Len(input) /\ n <= Int8Max + 1 /\ 1 <= n
  BY <1>2, <1>3
<1> HIDE DEF d
<1> DEFINE u == stream \o noop
           t == SubSeq(todo, 1, n)
<1>6. u \in Seq(Int) /\ Leads(u, input, d)
  BY <1>2, <1>5, NoOpLeads
<1>7. t \in Seq(Int) /\ Len(t) = n /\ Lies(todo, 0, t) /\ \A k \in 1 .. n : t[k] = todo[k]
  BY <1>2, <1>5, FirstPart
<1>8. (stream' = (u \o <<n - 1>>) \o t) \/ (n > 1 /\ (\A i \in 1 .. n : todo[i] = todo[1]) /\ stream' = u \o <<1 - n, todo[1]>>)
  BY <1>4
<1> HIDE DEF u, t
<1>9. stream' \in Seq(Int) /\ Leads(stream', input, d + n)
  <2>1. CASE stream' = (u \o <<n - 1>>) \o t
    <3>1. Lies(input, d + 0, t)
      <4> DEFINE z == 0
      <4>1. z \in Nat /\ Lies(todo, z, t)
        BY <1>7
      <4> HIDE DEF z
      <4>2. Lies(input, d + z, t)
        BY <4>1, <1>2, <1>5, <1>7, LiesIn
      <4> QED
        BY <4>2 DEF z
    <3>2. Lies(input, d, t) /\ Len(t) \in 1 .. Int8Max + 1 /\ stream' = (u \o <<Len(t) - 1>>) \o t
      BY <3>1, <1>5, <1>7, <2>1, Int8Assumption
    <3>3. stream' \in Seq(Int) /\ Leads(stream', input, d + Len(t))
      BY <1>2, <1>5, <1>6, <1>7, <3>2, LiteralLeads
    <3> QED
      BY <3>3, <1>7
  <2>2. CASE n > 1 /\ (\A i \in 1 .. n : todo[i] = todo[1]) /\ stream' = u \o <<1 - n, todo[1]>>
    <3> DEFINE x == todo[1]
    <3>1. n \in 2 .. Int8Max + 1
      BY <1>5, <2>2, Int8Assumption
    <3>2. \A k \in 1 .. n : input[d + k] = x
      <4>1. \A k \in 1 .. n : k \in 1 .. Len(todo)
        BY <1>5, <1>2
      <4>2. \A k \in 1 .. Len(todo) : input[d + k] = todo[k]
        BY <1>2 DEF Lies
      <4> QED
        BY <4>1, <4>2, <2>2
    <3>3. x \in Int
      <4>1. 1 \in 1 .. Len(todo)
        BY <1>5, <1>2
      <4> QED
        BY <4>1, <1>2
    <3>4. stream' = u \o <<1 - n, x>>
      BY <2>2
    <3> HIDE DEF x
    <3> QED
      BY <1>2, <1>5, <1>6, <3>1, <3>2, <3>3, <3>4, RunLeads
  <2> QED
    BY <1>8, <2>1, <2>2
<1>10. todo' \in Seq(Int) /\ Len(todo') = Len(todo) - n /\ Lies(input, d + n, todo')
  <2>1. input \in Seq(Int) /\ todo \in Seq(Int) /\ d \in Nat /\ Lies(input, d, todo) /\ n \in Nat /\ n <= Len(todo)
    BY <1>2, <1>5
  <2> DEFINE r == SubSeq(todo, n + 1, Len(todo))
  <2>2. r \in Seq(Int) /\ Len(r) = Len(todo) - n /\ Lies(input, d + n, r)
    BY <2>1, LiesOn
  <2>3. todo' = r
    BY <1>3
  <2> QED
    BY <2>2, <2>3
<1>11. Len(input) - Len(todo') = d + n /\ Len(todo') <= Len(input)
  BY <1>2, <1>5, <1>10 DEF d
<1>12. PackBitsWriting'
  BY <1>1, <1>2, <1>9, <1>10, <1>11 DEF PackBitsWriting, Leads
<1> QED
  BY <1>1, <1>12 DEF PackBitsInv

\* Whatever is cut, the decoder begins at the first point of the path.
LEMMA EncodeLastPacketInv ==
    ASSUME PackBitsInv, EncodeLastPacket
    PROVE  PackBitsInv'
<1>1. todo = <<>> /\ Close(stream, 1) /\ ~ closed
  BY DEF EncodeLastPacket, Close
<1>2. UNCHANGED <<input, received, result, todo>> /\ closed'
  BY <1>1 DEF Close, Encoding
<1>3. /\ input \in Seq(Int) /\ stream \in Seq(Int) /\ received = <<>> /\ result = "none" /\ IsPrefix(received, input)
      /\ Len(input) - Len(todo) = Len(input) /\ Leads(stream, input, Len(input) - Len(todo))
  BY <1>1 DEF PackBitsInv, PackBitsWriting, Leads
<1>4. PICK P : Packets(stream, input, P, <<Len(stream), Len(input)>>)
  BY <1>3 DEF Leads
<1>5. stream' \in Seq(Int) /\ Lies(stream, 0, stream')
  <2> DEFINE one == 1
  <2>1. one \in Nat \ {0} /\ 0 \in Int /\ Close(stream, one)
    BY <1>1
  <2> HIDE DEF one
  <2>2. stream' \in Seq(Int) /\ \E w \in Seq(Int) : Closed(stream, one, w)
    BY <1>3, <2>1, CloseIs
  <2>3. one = 1
    BY DEF one
  <2> QED
    BY <2>2, <2>3 DEF Closed
<1>6. PackBitsReading'
  <2> DEFINE g == <<0, 0>>
  <2>1. g \in P /\ g[1] = 0 /\ g[2] = 0
    BY <1>4 DEF Packets
  <2>2. received' = SubSeq(input', 1, g[2])
    BY <1>2, <1>3, <2>1, NothingIsFirst
  <2>3. Lies(stream, g[1], stream') /\ Packets(stream, input', P, <<Len(stream), Len(input')>>)
    BY <1>2, <1>4, <1>5, <2>1
  <2> HIDE DEF g
  <2> QED
    BY <1>3, <1>5, <2>1, <2>2, <2>3 DEF PackBitsReading
<1> QED
  BY <1>2, <1>3, <1>6 DEF PackBitsInv

\* A packet is read, or what is left of it is too short.
LEMMA TakeInv ==
    ASSUME PackBitsInv, NEW w \in Seq(Int), NEW P, NEW g \in P, NEW h \in P, stream \in Seq(Int), stream # <<>>,
           Packets(w, input, P, <<Len(w), Len(input)>>), Lies(w, g[1], stream),
           received = SubSeq(input, 1, g[2]),
           NEW n \in Nat, NEW bytes, Take(n, bytes), closed' = closed, input' = input, closed, result = "none",
           h[1] = g[1] + n + 1,
           Len(stream) - 1 >= n => bytes \in Seq(Int) /\ Lies(input, g[2], bytes) /\ h[2] = g[2] + Len(bytes)
    PROVE  PackBitsInv'
<1>1. input \in Seq(Int) /\ Len(stream) \in Nat /\ Len(stream) > 0
  BY DEF PackBitsInv
<1>2. CASE Len(stream) - 1 < n
  <2>1. result' = "error" /\ received' = <<>>
    BY <1>2 DEF Take
  <2> QED
    BY <1>1, <2>1, NothingIsFirst DEF PackBitsInv
<1>3. CASE ~ (Len(stream) - 1 < n)
  <2>1. /\ received' = received \o bytes /\ stream' = SubSeq(stream, n + 2, Len(stream)) /\ result' = result
    BY <1>3 DEF Take
  <2>2. bytes \in Seq(Int) /\ Lies(input, g[2], bytes) /\ h[2] = g[2] + Len(bytes)
    BY <1>1, <1>3
  <2>3. g[1] \in Nat /\ g[2] \in Nat /\ h[1] \in Nat /\ h[2] \in Nat
    BY DEF Packets, Points
  <2>4. received' = SubSeq(input, 1, h[2])
    <3> DEFINE from == g[2]
    <3>1. from \in Nat /\ Lies(input, from, bytes) /\ bytes \in Seq(Int) /\ received' = SubSeq(input, 1, from) \o bytes
          /\ h[2] = from + Len(bytes)
      BY <2>1, <2>2, <2>3
    <3> HIDE DEF from
    <3>2. SubSeq(input, 1, from) \o bytes = SubSeq(input, 1, from + Len(bytes))
      BY <1>1, <3>1, FirstAndNext
    <3> QED
      BY <3>1, <3>2
  <2>5. stream' \in Seq(Int) /\ Lies(w, h[1], stream')
    <3> DEFINE m == n + 1
    <3>1. m \in Nat /\ m <= Len(stream) /\ m + 1 = n + 2 /\ h[1] = g[1] + m
      <4> DEFINE at == g[1]
                 to == h[1]
      <4>1. at \in Nat /\ to = at + n + 1
        BY <2>3
      <4> HIDE DEF at, to
      <4>2. to = at + m
        BY <4>1
      <4>3. m \in Nat /\ m <= Len(stream) /\ m + 1 = n + 2
        BY <1>1, <1>3
      <4> QED
        BY <4>2, <4>3 DEF at, to
    <3> HIDE DEF m
    <3>2. SubSeq(stream, m + 1, Len(stream)) \in Seq(Int) /\ Lies(w, g[1] + m, SubSeq(stream, m + 1, Len(stream)))
      BY <1>1, <2>3, <3>1, LiesOn
    <3>3. stream' = SubSeq(stream, m + 1, Len(stream))
      BY <2>1, <3>1
    <3> QED
      BY <3>1, <3>2, <3>3
  <2>6. PackBitsReading'
    BY <2>4, <2>5 DEF PackBitsReading
  <2>7. IsPrefix(received', input)
    <3>1. h[2] <= Len(input)
      BY DEF Packets
    <3> QED
      BY <1>1, <2>3, <2>4, <3>1, FirstPart
  <2> QED
    BY <1>1, <2>6, <2>7 DEF PackBitsInv
<1> QED
  BY <1>2, <1>3

\* A packet read whole takes the decoder to the next point; one that is cut is an error.
LEMMA ReadPacketInv ==
    ASSUME PackBitsInv, ReadPacket
    PROVE  PackBitsInv'
<1>1. closed /\ result = "none" /\ UNCHANGED <<input, closed>> /\ stream # <<>>
  BY DEF ReadPacket, Reading
<1>2. PackBitsReading /\ input \in Seq(Int)
  BY <1>1 DEF PackBitsInv
<1>3. PICK w \in Seq(Int) : \E P : \E g \in P :
           /\ Packets(w, input, P, <<Len(w), Len(input)>>)
           /\ Lies(w, g[1], stream) /\ received = SubSeq(input, 1, g[2])
  BY <1>2 DEF PackBitsReading
<1>4. PICK P : \E g \in P :
           /\ Packets(w, input, P, <<Len(w), Len(input)>>)
           /\ Lies(w, g[1], stream) /\ received = SubSeq(input, 1, g[2])
  BY <1>3
<1>5. PICK g \in P :
           /\ Packets(w, input, P, <<Len(w), Len(input)>>)
           /\ Lies(w, g[1], stream) /\ received = SubSeq(input, 1, g[2])
  BY <1>4
<1>6. stream \in Seq(Int) /\ Len(stream) \in Nat /\ Len(stream) > 0 /\ Len(w) \in Nat
  BY <1>1, <1>2 DEF PackBitsReading
<1> DEFINE at == g[1]
           from == g[2]
           code == stream[1]
<1>7. at \in Nat /\ from \in Nat /\ at + Len(stream) <= Len(w)
      /\ \A k \in 1 .. Len(stream) : w[at + k] = stream[k]
  <2>1. at \in Nat /\ from \in Nat
    BY <1>5 DEF Packets, Points
  <2> QED
    BY <1>5, <2>1 DEF Lies
<1>8. PICK h \in P : Packet(w, input, g, h)
  <2>1. g # <<Len(w), Len(input)>>
    <3>1. at # Len(w)
      <4> HIDE DEF at
      <4> QED
        BY <1>6, <1>7
    <3> QED
      BY <3>1
  <2> QED
    BY <1>5, <2>1 DEF Packets
<1>9. code = w[at + 1]
  BY <1>6, <1>7
<1>10. \/ code = NoOp /\ h = <<at + 1, from>>
       \/ /\ code \in 0 .. Int8Max /\ h = <<at + code + 2, from + code + 1>>
          /\ \A k \in 1 .. code + 1 : input[from + k] = w[at + 1 + k]
       \/ /\ code \in - Int8Max .. -1 /\ h = <<at + 2, from + 1 - code>>
          /\ \A k \in 1 .. 1 - code : input[from + k] = w[at + 2]
  BY <1>8, <1>9 DEF Packet
<1>11. \/ code >= 0 /\ Take(code + 1, SubSeq(stream, 2, code + 2))
       \/ code = NoOp /\ Take(0, <<>>)
       \/ code < 0 /\ code # NoOp /\ Take(1, [j \in 1 .. 1 - code |-> stream[2]])
  BY DEF ReadPacket
<1>12. h[1] <= Len(w) /\ h[2] <= Len(input) /\ Len(input) \in Nat /\ from <= Len(input)
  BY <1>2, <1>5, <1>8 DEF Packet, Packets
<1>13. Int8Max \in Nat /\ NoOp = - Int8Max - 1
  BY Int8Assumption DEF NoOp
<1> HIDE DEF at, from, code
<1>14. CASE code = NoOp /\ h = <<at + 1, from>>
  <2> DEFINE n == 0
             none == <<>>
  <2>1. Take(n, none)
    BY <1>11, <1>13, <1>14
  <2>2. none \in Seq(Int) /\ Len(none) = n /\ n \in Nat /\ h[1] = at + n + 1 /\ h[2] = from + n
    BY <1>7, <1>14, EmptySeq
  <2>3. Lies(input, from, none)
    <3>1. \A k \in 1 .. Len(none) : FALSE
      BY <2>2 DEF n
    <3>2. from + Len(none) <= Len(input)
      BY <1>7, <1>12, <2>2
    <3> HIDE DEF none
    <3> QED
      BY <3>1, <3>2 DEF Lies
  <2> HIDE DEF n, none
  <2> QED
    BY <1>1, <1>5, <1>6, <2>1, <2>2, <2>3, TakeInv DEF at, from
<1>15. CASE /\ code \in 0 .. Int8Max /\ h = <<at + code + 2, from + code + 1>>
            /\ \A k \in 1 .. code + 1 : input[from + k] = w[at + 1 + k]
  <2> DEFINE n == code + 1
             two == 2
             to == code + 2
             bytes == SubSeq(stream, two, to)
  <2>1. n \in Nat /\ two \in Int /\ to \in Nat /\ 1 <= two /\ two <= to + 1 /\ to - two + 1 = n /\ to = n + 1
        /\ \A k \in 1 .. n : two + k - 1 = 1 + k
    BY <1>15
  <2>2. Take(n, bytes)
    BY <1>11, <1>13, <1>15
  <2>3. h[1] = at + n + 1 /\ h[2] = from + n
    BY <1>7, <1>15
  <2>4. \A k \in 1 .. n : input[from + k] = w[at + 1 + k]
    BY <1>15
  <2> HIDE DEF n, two, to
  <2>5. ASSUME Len(stream) - 1 >= n
        PROVE  bytes \in Seq(Int) /\ Lies(input, from, bytes) /\ h[2] = from + Len(bytes)
    <3>1. to <= Len(stream)
      BY <1>6, <2>1, <2>5
    <3>2. bytes \in Seq(Int) /\ Len(bytes) = n /\ bytes = [k \in 1 .. n |-> stream[two + k - 1]]
      BY <1>6, <2>1, <3>1, SubSeqIs
    <3> HIDE DEF bytes
    <3>3. ASSUME NEW k \in 1 .. n PROVE input[from + k] = bytes[k]
      <4>1. bytes[k] = stream[1 + k]
        BY <2>1, <3>2
      <4>2. 1 + k \in 1 .. Len(stream) /\ at + (1 + k) = at + 1 + k
        BY <2>1, <3>1, <1>6, <1>7
      <4>3. stream[1 + k] = w[at + 1 + k]
        BY <1>7, <4>2
      <4> QED
        BY <2>4, <4>1, <4>3
    <3>4. from + n <= Len(input)
      BY <1>12, <2>3
    <3> QED
      BY <2>3, <3>2, <3>3, <3>4 DEF Lies
  <2> HIDE DEF bytes
  <2> QED
    BY <1>1, <1>5, <1>6, <2>1, <2>2, <2>3, <2>5, TakeInv DEF at, from
<1>16. CASE /\ code \in - Int8Max .. -1 /\ h = <<at + 2, from + 1 - code>>
            /\ \A k \in 1 .. 1 - code : input[from + k] = w[at + 2]
  <2> DEFINE n == 1
             m == 1 - code
             bytes == [j \in 1 .. m |-> stream[2]]
  <2>1. ~ (code >= 0) /\ code < 0 /\ code # NoOp /\ n \in Nat /\ m \in Nat /\ n = 1
    BY <1>13, <1>16
  <2>2. Take(n, bytes)
    BY <1>11, <2>1
  <2>3. h[1] = at + n + 1 /\ h[2] = from + m
    BY <1>7, <1>16
  <2>4. \A k \in 1 .. m : input[from + k] = w[at + 2]
    BY <1>16
  <2>5. ASSUME Len(stream) - 1 >= n
        PROVE  bytes \in Seq(Int) /\ Lies(input, from, bytes) /\ h[2] = from + Len(bytes)
    <3>1. 2 \in 1 .. Len(stream)
      BY <1>6, <2>5
    <3>2. stream[2] \in Int /\ stream[2] = w[at + 2]
      BY <1>6, <1>7, <3>1
    <3> HIDE DEF m
    <3>3. bytes \in Seq(Int) /\ Len(bytes) = m /\ \A k \in 1 .. m : bytes[k] = stream[2]
      BY <2>1, <3>2
    <3> HIDE DEF bytes
    <3>4. from + m <= Len(input)
      BY <1>12, <2>3
    <3> QED
      BY <2>3, <2>4, <3>2, <3>3, <3>4 DEF Lies
  <2> HIDE DEF bytes, n, m
  <2> QED
    BY <1>1, <1>5, <1>6, <2>1, <2>2, <2>3, <2>5, TakeInv DEF at, from
<1> QED
  BY <1>10, <1>14, <1>15, <1>16

\* PackBits: every step keeps the invariant.
LEMMA PackBitsNextInv ==
    ASSUME PackBitsInv, PackBitsNext, closed => todo = <<>>
    PROVE  PackBitsInv'
<1>1. CASE EncodePacket
  <2>1. ~ closed
    BY <1>1 DEF EncodePacket
  <2> QED
    BY <1>1, <2>1, EncodePacketInv
<1>2. CASE ReadEnd
  <2>1. result' = "ok" /\ UNCHANGED <<input, closed, received>> /\ closed
    BY <1>2 DEF ReadEnd, Reading
  <2> QED
    BY <2>1 DEF PackBitsInv
<1> QED
  BY <1>1, <1>2, EncodeLastPacketInv, ReadPacketInv DEF PackBitsNext

-----------------------------------------------------------------------------
(***************************************************************************)
(* Data as it is, and zlib's.                                              *)
(***************************************************************************)
\* What is before the data, and how many bytes are around it.
Opening == IF method \in Zlib THEN <<0>> ELSE <<>>
Around == IF method \in Zlib THEN 2 ELSE 0

PlainWriting ==
    /\ stream \in Seq(Int) /\ received = <<>> /\ result = "none"
    /\ (todo = input /\ stream = Opening) \/ (todo = <<>> /\ stream = Opening \o input)

PlainReading ==
    /\ stream \in Seq(Int) /\ lost \in Nat
    /\ \E w \in Seq(Int) :
           /\ Lies(w, Len(Opening), input) /\ Lies(w, 0, stream)
           /\ Len(w) = Len(input) + Around /\ Len(w) - lost = Len(stream)

PlainInv ==
    /\ input \in Seq(Int) /\ IsPrefix(received, input)
    /\ ~ closed => PlainWriting
    /\ closed /\ result = "none" => PlainReading

LEMMA OpeningTyped ==
    /\ Opening \in Seq(Int)
    /\ method \in Zlib => Len(Opening) = 1 /\ Around = 2
    /\ method \notin Zlib => Opening = <<>> /\ Len(Opening) = 0 /\ Around = 0
<1>1. <<0>> \in Seq(Int) /\ Len(<<0>>) = 1 /\ <<>> \in Seq(Int) /\ Len(<<>>) = 0
  OBVIOUS
<1> QED
  BY <1>1 DEF Opening, Around

\* Data as it is, or zlib's: the beginning.
LEMMA InitPlain ==
    ASSUME NEW s \in Seq(Int), CodedInit(method, s, Opening, FALSE)
    PROVE  PlainInv
<1>1. input = s /\ todo = s /\ closed = FALSE /\ stream = Opening /\ received = <<>> /\ result = "none"
  BY DEF CodedInit
<1>2. PlainWriting
  BY <1>1, OpeningTyped DEF PlainWriting
<1> QED
  BY <1>1, <1>2, NothingIsFirst DEF PlainInv

\* All the data is written behind the opening.
LEMMA EncodeWholeInv ==
    ASSUME PlainInv, EncodeWhole, ~ closed
    PROVE  PlainInv'
<1>1. UNCHANGED <<input, received, result, closed, method>> /\ todo # <<>> /\ todo' = <<>> /\ stream' = stream \o todo
  BY DEF EncodeWhole, Encoding
<1>2. PlainWriting /\ input \in Seq(Int)
  BY DEF PlainInv
<1>3. todo = input /\ stream = Opening /\ received = <<>> /\ result = "none"
  BY <1>1, <1>2 DEF PlainWriting
<1>4. Opening' = Opening
  BY <1>1 DEF Opening
<1>5. Opening \o input \in Seq(Int)
  BY <1>2, OpeningTyped, ConcatProperties
<1>6. PlainWriting'
  BY <1>1, <1>3, <1>4, <1>5 DEF PlainWriting
<1> QED
  BY <1>1, <1>6 DEF PlainInv

\* A cut takes the checksum before it takes data.
LEMMA EncodeWholeEndInv ==
    ASSUME PlainInv, EncodeWholeEnd
    PROVE  PlainInv'
<1> DEFINE all == IF method \in Whole THEN stream ELSE Append(stream, 0)
           one == 1
<1>1. todo = <<>> /\ Close(all, one) /\ ~ closed /\ method \in Whole \cup Zlib
  BY DEF EncodeWholeEnd, Close
<1>2. UNCHANGED <<input, received, result, todo, method>> /\ closed'
  BY <1>1 DEF Close, Encoding
<1>3. PlainWriting /\ input \in Seq(Int) /\ IsPrefix(received, input)
  BY <1>1 DEF PlainInv
<1>4. stream \in Seq(Int) /\ stream = Opening \o input
  <2>1. CASE todo = input /\ stream = Opening
    <3>1. Opening \o <<>> = Opening
      BY OpeningTyped
    <3> QED
      BY <1>1, <1>3, <2>1, <3>1 DEF PlainWriting
  <2> QED
    BY <1>3, <2>1 DEF PlainWriting
<1>5. Len(stream) = Len(Opening) + Len(input) /\ Lies(stream, Len(Opening), input)
  BY <1>3, <1>4, OpeningTyped, Joined, LiesFirst
<1>6. all \in Seq(Int) /\ Len(all) = Len(input) + Around /\ Lies(all, Len(Opening), input)
  <2>1. CASE method \in Whole
    <3>1. method \notin Zlib
      BY <2>1 DEF Whole, Zlib
    <3> QED
      BY <1>3, <1>4, <1>5, <2>1, <3>1, OpeningTyped
  <2>2. CASE method \notin Whole
    <3>1. method \in Zlib
      BY <1>1, <2>2
    <3> DEFINE z == <<0>>
    <3>2. z \in Seq(Int) /\ Len(z) = 1 /\ all = stream \o z
      BY <1>4, <2>2
    <3>3. Len(Opening) \in Nat /\ Len(Opening) = 1 /\ Around = 2 /\ Len(input) \in Nat
      BY <1>3, <3>1, OpeningTyped
    <3> HIDE DEF z, all
    <3>4. stream \o z \in Seq(Int) /\ Len(stream \o z) = Len(stream) + Len(z)
      BY <1>4, <3>2, Joined
    <3>5. Lies(stream \o z, Len(Opening), input)
      BY <1>3, <1>4, <1>5, <3>2, <3>3, LiesBefore
    <3>6. Len(stream) + Len(z) = Len(input) + Around
      BY <1>5, <3>2, <3>3
    <3> QED
      BY <3>2, <3>4, <3>5, <3>6
  <2> QED
    BY <2>1, <2>2
<1>7. one \in Nat \ {0} /\ 0 \in Int /\ one = 1
  OBVIOUS
<1> HIDE DEF all, one
<1>8. stream' \in Seq(Int) /\ \E w \in Seq(Int) : Closed(all, one, w)
  BY <1>1, <1>6, <1>7, CloseIs
<1>9. Lies(all, 0, stream') /\ lost' \in Nat /\ Len(all) - lost' = Len(stream')
  <2>1. PICK w \in Seq(Int) : Closed(all, one, w)
    BY <1>8
  <2>2. w = all /\ Lies(w, 0, stream') /\ lost' \in Nat /\ Len(w) - lost' * one = Len(stream')
    BY <2>1, <1>7 DEF Closed
  <2>3. lost' * one = lost'
    <3>1. \A n \in Nat : n * one = n
      BY DEF one
    <3> QED
      BY <2>2, <3>1
  <2> QED
    BY <2>2, <2>3
<1>10. Opening' = Opening /\ Around' = Around
  BY <1>2 DEF Opening, Around
<1>11. PlainReading'
  BY <1>2, <1>6, <1>8, <1>9, <1>10 DEF PlainReading
<1> QED
  BY <1>2, <1>3, <1>11, <1>1 DEF PlainInv, PlainWriting

\* What ReadAll returns is the first part of the data.
LEMMA DecodePlainInv ==
    ASSUME PlainInv, decode_None \/ decode_Deflate
    PROVE  PlainInv'
<1>1. closed /\ result = "none" /\ UNCHANGED <<input, closed, method>> /\ result' # "none"
  BY DEF decode_None, decode_Deflate, Reading
<1>2. PlainReading /\ input \in Seq(Int)
  BY <1>1 DEF PlainInv
<1>3. PICK w \in Seq(Int) :
           /\ Lies(w, Len(Opening), input) /\ Lies(w, 0, stream)
           /\ Len(w) = Len(input) + Around /\ Len(w) - lost = Len(stream)
  BY <1>2 DEF PlainReading
<1>4. stream \in Seq(Int) /\ Len(stream) \in Nat /\ Len(input) \in Nat /\ lost \in Nat
  BY <1>2 DEF PlainReading
<1>5. /\ \A k \in 1 .. Len(stream) : w[k] = stream[k]
      /\ \A k \in 1 .. Len(input) : w[Len(Opening) + k] = input[k]
  <2>1. \A k \in 1 .. Len(stream) : 0 + k = k
    BY <1>4
  <2> QED
    BY <1>3, <2>1 DEF Lies
<1>6. CASE decode_None
  <2>1. received' = stream /\ method \notin Zlib
    BY <1>6 DEF decode_None, Whole, Zlib
  <2>2. Len(Opening) = 0 /\ Around = 0
    BY <2>1, OpeningTyped
  <2>3. Len(stream) <= Len(input)
    BY <1>3, <1>4, <2>2
  <2>4. \A k \in 1 .. Len(stream) : k \in 1 .. Len(input) /\ Len(Opening) + k = k
    BY <1>4, <2>2, <2>3
  <2>5. Lies(input, 0, stream)
    <3>1. ASSUME NEW k \in 1 .. Len(stream) PROVE input[0 + k] = stream[k]
      <4>1. 0 + k = k
        OBVIOUS
      <4> QED
        BY <1>5, <2>4, <4>1
    <3>2. 0 + Len(stream) <= Len(input)
      BY <1>4, <2>3
    <3> QED
      BY <3>1, <3>2 DEF Lies
  <2>6. IsPrefix(stream, input)
    BY <1>2, <1>4, <2>5, LiesIsFirst
  <2> QED
    BY <1>1, <1>2, <2>1, <2>6 DEF PlainInv
<1>7. CASE decode_Deflate
  <2> DEFINE m == IF lost = 0 THEN Len(stream) - 1 ELSE Len(stream)
             two == 2
             r == SubSeq(stream, two, m)
  <2>1. received' = r /\ method \in Zlib
    BY <1>7 DEF decode_Deflate
  <2>2. Len(Opening) = 1 /\ Around = 2
    BY <2>1, OpeningTyped
  <2>3. m \in Int /\ m <= Len(stream) /\ m - 1 <= Len(input)
    BY <1>3, <1>4, <2>2
  <2>4. two = 2
    OBVIOUS
  <2> HIDE DEF m, two, r
  <2>5. IsPrefix(r, input)
    <3>1. CASE m < 1
      <4>1. r = <<>>
        <5>1. ~ (two <= m)
          BY <2>3, <2>4, <3>1
        <5> QED
          BY <5>1, <2>3, <2>4, SubSeqProperties DEF r
      <4> QED
        BY <4>1, <1>2, NothingIsFirst
    <3>2. CASE ~ (m < 1)
      <4>1. two \in Int /\ m \in Nat /\ 1 <= two /\ two <= m + 1 /\ m - two + 1 = m - 1 /\ m - 1 \in Nat
            /\ \A k \in 1 .. m - 1 : two + k - 1 = 1 + k /\ 1 + k \in 1 .. Len(stream) /\ k \in 1 .. Len(input)
        BY <1>4, <2>3, <2>4, <3>2
      <4>2. r \in Seq(Int) /\ Len(r) = m - two + 1 /\ r = [k \in 1 .. m - two + 1 |-> stream[two + k - 1]]
        BY <1>4, <2>3, <4>1, SubSeqIs DEF r
      <4>3. ASSUME NEW k \in 1 .. Len(r) PROVE input[0 + k] = r[k]
        <5>1. k \in 1 .. m - 1
          BY <4>1, <4>2
        <5>2. r[k] = stream[1 + k] /\ 0 + k = k
          BY <4>1, <4>2, <5>1
        <5>3. stream[1 + k] = w[1 + k] /\ w[Len(Opening) + k] = input[k]
          BY <1>5, <4>1, <5>1
        <5> QED
          BY <2>2, <5>2, <5>3
      <4>4. 0 + Len(r) <= Len(input)
        BY <1>4, <2>3, <4>1, <4>2
      <4>5. Lies(input, 0, r)
        BY <4>3, <4>4 DEF Lies
      <4> QED
        BY <1>2, <4>2, <4>5, LiesIsFirst
    <3> QED
      BY <3>1, <3>2
  <2> QED
    BY <1>1, <1>2, <2>1, <2>5 DEF PlainInv
<1> QED
  BY <1>6, <1>7

-----------------------------------------------------------------------------
(***************************************************************************)
(* Numbers as bits, and back.                                              *)
(***************************************************************************)
\* g counts up the number that w bits are.
CountsBits(g, w, b) == g = [i \in 0 .. w |-> IF i = 0 THEN 0 ELSE 2 * g[i - 1] + b[i]]
Reads(g, w, b) == /\ g \in [0 .. w -> Nat] /\ g[0] = 0
                  /\ \A i \in 1 .. w : g[i] = 2 * g[i - 1] + b[i]

\* The recursion that counts up has a solution, and every solution follows it.
LEMMA BitsCounted ==
    ASSUME NEW w \in Nat, NEW b, \A i \in 1 .. w : b[i] \in Digit
    PROVE  /\ \E g : CountsBits(g, w, b)
           /\ \A g : CountsBits(g, w, b) => Reads(g, w, b)
<1> DEFINE V == Nat
           op == [p \in (1 .. w) \X V |-> 2 * p[2] + b[p[1]]]
           z == 0
<1>1. z \in V /\ Keeps(1 .. w, V, op)
  <2> SUFFICES ASSUME NEW i \in 1 .. w, NEW v \in V PROVE op[<<i, v>>] \in V
    BY DEF Keeps
  <2>1. b[i] \in Nat
    BY DEF Digit
  <2> QED
    BY <2>1
<1>2. PICK f : GoesUp(f, w, V, z, op)
  <2> HIDE DEF op, V, z
  <2> QED
    BY <1>1, Upward
<1>3. f \in [0 .. w -> V] /\ f[0] = 0 /\ \A i \in 1 .. w : f[i] = 2 * f[i - 1] + b[i]
  <2>1. f \in [0 .. w -> V] /\ f[0] = 0
    BY <1>2 DEF GoesUp
  <2> SUFFICES ASSUME NEW i \in 1 .. w PROVE f[i] = 2 * f[i - 1] + b[i]
    BY <2>1
  <2>2. f[i] = op[<<i, f[i - 1]>>]
    BY <1>2 DEF GoesUp
  <2>3. i - 1 \in 0 .. w
    OBVIOUS
  <2>4. f[i - 1] \in V
    BY <2>1, <2>3
  <2>5. <<i, f[i - 1]>> \in (1 .. w) \X V
    BY <2>4
  <2> QED
    BY <2>2, <2>5
<1>4. CountsBits(f, w, b)
  BY <1>3 DEF CountsBits
<1>5. ASSUME NEW g, CountsBits(g, w, b) PROVE Reads(g, w, b)
  <2>1. \A i \in 0 .. w : g[i] = IF i = 0 THEN 0 ELSE 2 * g[i - 1] + b[i]
    BY <1>5 DEF CountsBits
  <2> DEFINE T == {k \in 0 .. w : g[k] = f[k]}
  <2>2. 0 \in T
    BY <1>3, <2>1
  <2>3. ASSUME NEW k \in T, k < w PROVE k + 1 \in T
    <3>1. k + 1 \in 0 .. w /\ k + 1 \in 1 .. w /\ k + 1 # 0 /\ k + 1 - 1 = k /\ g[k] = f[k]
      BY <2>3
    <3>2. g[k + 1] = 2 * g[k] + b[k + 1]
      BY <2>1, <3>1
    <3>3. f[k + 1] = 2 * f[k] + b[k + 1]
      BY <1>3, <3>1
    <3> QED
      BY <3>1, <3>2, <3>3
  <2> HIDE DEF T
  <2>4. T = 0 .. w
    <3>1. T \in SUBSET (0 .. w)
      BY DEF T
    <3> QED
      BY <2>2, <2>3, <3>1, InductionTo
  <2>5. \A i \in 0 .. w : g[i] = f[i]
    BY <2>4 DEF T
  <2>6. f = [i \in 0 .. w |-> f[i]] /\ g = [i \in 0 .. w |-> g[i]]
    BY <1>3, <1>5 DEF CountsBits
  <2>7. g = f
    BY <2>5, <2>6
  <2> QED
    BY <1>3, <2>7 DEF Reads
<1> QED
  BY <1>4, <1>5

\* FromBits is the last number of the recursion.
LEMMA FromBitsIs ==
    ASSUME NEW bits \in Seq(Digit)
    PROVE  \E g : Reads(g, Len(bits), bits) /\ FromBits(bits) = g[Len(bits)]
<1> DEFINE g == CHOOSE f : CountsBits(f, Len(bits), bits)
<1>1. FromBits(bits) = g[Len(bits)]
  BY DEF FromBits, CountsBits
<1>2. Len(bits) \in Nat /\ \A i \in 1 .. Len(bits) : bits[i] \in Digit
  OBVIOUS
<1>3. CountsBits(g, Len(bits), bits)
  BY <1>2, BitsCounted
<1> HIDE DEF g
<1>4. Reads(g, Len(bits), bits)
  BY <1>2, <1>3, BitsCounted
<1> QED
  BY <1>1, <1>4

\* p has the powers of two.
Doubles(p, w) == p \in [0 .. w -> Nat] /\ p[0] = 1 /\ \A i \in 0 .. w - 1 : p[i + 1] = 2 * p[i]

\* A number of w bits is halved to nothing in w steps.
LEMMA HalvesEnd ==
    ASSUME NEW f, NEW n \in Nat, NEW w \in Nat, Halves(f, n, w), NEW p, Doubles(p, w), n < p[w]
    PROVE  f[0] = 0
<1> DEFINE T == {k \in 0 .. w : f[w - k] < p[w - k]}
<1>1. 0 \in T
  BY DEF Halves
<1>2. ASSUME NEW k \in T, k < w PROVE k + 1 \in T
  <2>1. w - (k + 1) \in 0 .. w - 1 /\ w - (k + 1) + 1 = w - k /\ k + 1 \in 0 .. w /\ w - k \in 0 .. w
        /\ w - (k + 1) \in 0 .. w
    BY <1>2
  <2>2. f[w - (k + 1)] = f[w - k] \div 2
    BY <2>1 DEF Halves
  <2>3. p[w - k] = 2 * p[w - (k + 1)]
    BY <2>1 DEF Doubles
  <2>4. f[w - k] < p[w - k]
    OBVIOUS
  <2>5. f[w - k] \in Nat /\ p[w - (k + 1)] \in Nat
    BY <2>1 DEF Halves, Doubles
  <2>6. f[w - (k + 1)] < p[w - (k + 1)]
    BY <2>2, <2>3, <2>4, <2>5
  <2> QED
    BY <2>1, <2>6
<1> HIDE DEF T
<1>3. T = 0 .. w
  <2>1. T \in SUBSET (0 .. w)
    BY DEF T
  <2> QED
    BY <1>1, <1>2, <2>1, InductionTo
<1>4. w \in T /\ w - w = 0
  BY <1>3
<1>5. f[0] < p[0]
  BY <1>4 DEF T
<1>6. f[0] \in Nat /\ p[0] = 1
  BY DEF Halves, Doubles
<1> QED
  BY <1>5, <1>6

\* The first l bits are the number that they were made of.
LEMMA ReadsBack ==
    ASSUME NEW f, NEW n \in Nat, NEW l \in Nat, Halves(f, n, l), f[0] = 0,
           NEW w \in Nat, l <= w, NEW b, NEW g, Reads(g, w, b), \A i \in 1 .. l : b[i] = f[i] % 2
    PROVE  g[l] = n
<1> DEFINE T == {k \in 0 .. l : g[k] = f[k]}
<1>1. 0 \in T
  BY DEF Reads
<1>2. ASSUME NEW k \in T, k < l PROVE k + 1 \in T
  <2>1. k \in 0 .. l - 1 /\ k + 1 \in 1 .. l /\ k + 1 \in 1 .. w /\ k + 1 - 1 = k /\ k + 1 \in 0 .. l
    BY <1>2
  <2>2. f[k] = f[k + 1] \div 2 /\ f[k + 1] \in Nat
    BY <2>1 DEF Halves
  <2>3. g[k + 1] = 2 * g[k] + b[k + 1] /\ b[k + 1] = f[k + 1] % 2 /\ g[k] = f[k]
    BY <2>1 DEF Reads
  <2>4. f[k + 1] = 2 * (f[k + 1] \div 2) + (f[k + 1] % 2)
    BY <2>2
  <2>5. g[k + 1] = f[k + 1]
    BY <2>2, <2>3, <2>4
  <2> QED
    BY <2>1, <2>5
<1> HIDE DEF T
<1>3. T = 0 .. l
  <2>1. T \in SUBSET (0 .. l)
    BY DEF T
  <2> QED
    BY <1>1, <1>2, <2>1, InductionTo
<1>4. l \in T
  BY <1>3
<1> QED
  BY <1>4 DEF T, Halves

\* A number that fits into w bits comes back from them.
LEMMA FromToBits ==
    ASSUME NEW n \in Nat, NEW w \in Nat, NEW p, Doubles(p, w), n < p[w]
    PROVE  FromBits(ToBits(n, w)) = n
<1> DEFINE b == ToBits(n, w)
<1>1. PICK f : Halves(f, n, w) /\ b = [i \in 1 .. w |-> f[i] % 2]
  BY ToBitsIs
<1>2. f[0] = 0
  BY <1>1, HalvesEnd
<1>3. b \in Seq(Digit) /\ Len(b) = w
  BY ToBitsTyped
<1>4. \A i \in 1 .. w : b[i] = f[i] % 2
  BY <1>1
<1> HIDE DEF b
<1>5. PICK g : Reads(g, w, b) /\ FromBits(b) = g[w]
  BY <1>3, FromBitsIs
<1>6. w <= w
  OBVIOUS
<1>7. g[w] = n
  BY <1>1, <1>2, <1>4, <1>5, <1>6, ReadsBack
<1> QED
  BY <1>5, <1>7 DEF b

\* The table of powers doubles.
LEMMA PowersDouble ==
    ASSUME NEW w \in 0 .. MaxWidth
    PROVE  Doubles([i \in 0 .. w |-> Pow2[i]], w)
<1>1. \A i \in 0 .. w : i \in 0 .. MaxWidth
  BY LZWAssumption
<1>2. \A i \in 0 .. w - 1 : i \in 0 .. MaxWidth - 1 /\ i + 1 \in 0 .. w /\ i \in 0 .. w
  BY LZWAssumption
<1>3. \A i \in 0 .. w : Pow2[i] \in Nat
  BY <1>1, LZWAssumption
<1>4. \A i \in 0 .. w - 1 : Pow2[i + 1] = 2 * Pow2[i]
  BY <1>2, LZWAssumption
<1>5. 0 \in 0 .. w /\ Pow2[0] = 1
  BY LZWAssumption
<1> QED
  BY <1>2, <1>3, <1>4, <1>5 DEF Doubles

\* A code that the width holds is read back.
LEMMA CodeReadsBack ==
    ASSUME NEW w \in LitWidth + 1 .. MaxWidth, NEW c \in Nat, c < Pow2[w]
    PROVE  FromBits(ToBits(c, w)) = c /\ ToBits(c, w) \in Seq(Digit) /\ Len(ToBits(c, w)) = w /\ w \in Nat
<1>1. w \in 0 .. MaxWidth /\ w \in Nat
  BY Sizes
<1> DEFINE p == [i \in 0 .. w |-> Pow2[i]]
<1>2. Doubles(p, w) /\ p[w] = Pow2[w]
  BY <1>1, PowersDouble
<1> HIDE DEF p
<1>3. FromBits(ToBits(c, w)) = c
  BY <1>1, <1>2, FromToBits
<1> QED
  BY <1>1, <1>3, ToBitsTyped

-----------------------------------------------------------------------------
(***************************************************************************)
(* LZW: what an encoder wrote.  A point has the place in the stream and in *)
(* the data, the width of the next code and the strings of the entries     *)
(* that were made; the decoder's table lags one entry behind them.         *)
(***************************************************************************)
LEMMA ExpansionIsChain ==
    /\ \A c : Expansion(c) = Chain(prefix, suffix)[c]
    /\ \A c : Expansion(c)' = Chain(prefix', suffix')[c]
<1>1. \A c : Expansion(c) = Chain(prefix, suffix)[c]
  BY DEF Expansion, Chain, Expands, ChainStep
<1>2. \A c : Expansion(c)' = Chain(prefix', suffix')[c]
  BY DEF Expansion, Chain, Expands, ChainStep
<1> QED
  BY <1>1, <1>2

\* Entries from m on do not change the bytes of a code below.
LEMMA ChainKept ==
  ASSUME NEW p, NEW s, NEW q, NEW t, IsTable(p, s), IsTable(q, t), NEW m \in Nat,
         \A c \in Codes : c < m => q[c] = p[c] /\ t[c] = s[c]
  PROVE  \A c \in Codes : c < m => Chain(q, t)[c] = Chain(p, s)[c]
<1> DEFINE e == Chain(p, s)
           f == Chain(q, t)
           bad == {c \in Codes : c < m /\ f[c] # e[c]}
<1> SUFFICES ASSUME bad # {} PROVE FALSE
  OBVIOUS
<1>1. \A d \in Codes : e[d] = ChainStep(p, s, e, d) /\ f[d] = ChainStep(q, t, f, d)
  BY ChainSolves DEF Expands
<1> HIDE DEF e, f
<1>2. bad \in SUBSET Nat
  BY Sizes
<1>3. PICK c \in bad : \A d \in bad : c <= d
  <2> HIDE DEF bad
  <2> QED
    BY <1>2, Smallest
<1>4. c \in Codes /\ c < m /\ f[c] # e[c] /\ c \in Nat
  BY <1>2, <1>3
<1>5. CASE c < Clear
  BY <1>1, <1>4, <1>5 DEF ChainStep
<1>6. CASE ~ (c < Clear)
  <2>1. p[c] \in Codes /\ p[c] < c /\ p[c] \in Nat
    BY <1>4, <1>6, ChainDown, Sizes
  <2>2. p[c] \notin bad
    BY <1>3, <1>4, <2>1
  <2>3. p[c] < m
    BY <1>4, <2>1
  <2>4. f[p[c]] = e[p[c]]
    BY <2>1, <2>2, <2>3
  <2>5. q[c] = p[c] /\ t[c] = s[c]
    BY <1>4
  <2>6. f[c] = Append(f[q[c]], t[c]) /\ e[c] = Append(e[p[c]], s[c])
    BY <1>1, <1>4, <1>6 DEF ChainStep
  <2> QED
    BY <1>4, <2>4, <2>5, <2>6
<1> QED
  BY <1>5, <1>6

\* The string of a code, the first of them literals.
Known(strs, c) == IF c < Clear THEN <<c>> ELSE strs[c - Eof]

LZWPoints == [at : Nat, n : Nat, strs : Seq(Seq(Bytes)), wd : LitWidth + 1 .. MaxWidth, last : Codes \cup {Invalid}]

\* What a table of the encoder is at a point of the stream, between two codes.
PointOK(data, g) ==
    /\ g.n <= Len(data)
    /\ g.strs = <<>> => g.wd = LitWidth + 1 /\ g.last = Invalid
    /\ g.strs # <<>> =>
          /\ Eof + Len(g.strs) + 1 < Pow2[g.wd] /\ Eof + Len(g.strs) + 1 <= TableSize - 2
          /\ g.last \in 0 .. Clear - 1 \/ g.last \in Eof + 1 .. Eof + Len(g.strs) - 1
          /\ g.n < Len(data) => g.strs[Len(g.strs)] = Append(Known(g.strs, g.last), data[g.n + 1])

\* The code c between two points.
CodeOfString(w, data, c, g, h) ==
    /\ c \in 0 .. Clear - 1 \/ c \in Eof + 1 .. Eof + Len(g.strs)
    /\ Lies(w, g.at, ToBits(c, g.wd)) /\ Lies(data, g.n, Known(g.strs, c)) /\ g.n < Len(data)
    /\ Known(g.strs, c) \in Seq(Bytes)
    /\ h.at = g.at + g.wd /\ h.n = g.n + Len(Known(g.strs, c)) /\ h.last = c
    /\ Len(h.strs) = Len(g.strs) + 1 /\ \A i \in 1 .. Len(g.strs) : h.strs[i] = g.strs[i]
    /\ h.wd = IF Eof + Len(h.strs) + 1 >= Pow2[g.wd] THEN g.wd + 1 ELSE g.wd

Start(at, n) == [at |-> at, n |-> n, strs |-> <<>>, wd |-> LitWidth + 1, last |-> Invalid]

ClearOfTable(w, g, h) == Lies(w, g.at, ToBits(Clear, g.wd)) /\ h = Start(g.at + g.wd, g.n)

CodeBetween(w, data, g, h) == ClearOfTable(w, g, h) \/ \E c \in Codes : CodeOfString(w, data, c, g, h)

\* All the points, up to e.
CodesTo(w, data, P, e) ==
    /\ P \subseteq LZWPoints /\ Start(0, 0) \in P /\ e \in P
    /\ \A g \in P : PointOK(data, g)
    /\ \A g \in P : g = e \/ \E h \in P : CodeBetween(w, data, g, h)

\* The point behind a clear code.
LEMMA StartIsPoint ==
    ASSUME NEW at \in Nat, NEW n \in Nat, NEW data, n <= Len(data)
    PROVE  Start(at, n) \in LZWPoints /\ PointOK(data, Start(at, n))
<1>1. LitWidth + 1 \in LitWidth + 1 .. MaxWidth /\ <<>> \in Seq(Seq(Bytes))
  BY Sizes
<1> QED
  BY <1>1 DEF Start, LZWPoints, PointOK

\* The bits of a code lie in whatever their stream lies in.
LEMMA BitsLie ==
    ASSUME NEW w \in Seq(Digit), NEW v \in Seq(Digit), Lies(v, 0, w), NEW at \in Nat, NEW c \in Nat,
           NEW wd \in Nat, Lies(w, at, ToBits(c, wd))
    PROVE  Lies(v, at, ToBits(c, wd))
<1> DEFINE z == 0
<1>1. ToBits(c, wd) \in Seq(Digit) /\ z \in Nat /\ z + at = at /\ Lies(v, z, w)
  BY ToBitsTyped
<1> HIDE DEF z
<1>2. Lies(v, z + at, ToBits(c, wd))
  BY <1>1, LiesIn
<1> QED
  BY <1>1, <1>2

\* A path through a stream is one through every longer stream.
LEMMA CodesLie ==
    ASSUME NEW w \in Seq(Digit), NEW v \in Seq(Digit), NEW data, NEW P, NEW e,
           CodesTo(w, data, P, e), Lies(v, 0, w)
    PROVE  /\ CodesTo(v, data, P, e)
           /\ \A g \in P, d \in P : CodeBetween(w, data, g, d) => CodeBetween(v, data, g, d)
<1>1. ASSUME NEW g \in P, NEW d \in P, CodeBetween(w, data, g, d) PROVE CodeBetween(v, data, g, d)
  <2>1. g \in LZWPoints /\ Clear \in Nat
    BY Sizes DEF CodesTo
  <2>2. g.at \in Nat /\ g.wd \in Nat
    BY <2>1, Sizes DEF LZWPoints
  <2>3. \A c \in Nat : Lies(w, g.at, ToBits(c, g.wd)) => Lies(v, g.at, ToBits(c, g.wd))
    BY <2>2, BitsLie
  <2>4. \A c \in Codes : c \in Nat
    BY Sizes
  <2> QED
    BY <1>1, <2>1, <2>3, <2>4 DEF CodeBetween, ClearOfTable, CodeOfString
<1>2. CodesTo(v, data, P, e)
  BY <1>1 DEF CodesTo
<1> QED
  BY <1>1, <1>2

\* A code behind all the others.
LEMMA CodeAdded ==
    ASSUME NEW w \in Seq(Digit), NEW v \in Seq(Digit), NEW data, NEW P, NEW e,
           CodesTo(w, data, P, e), Lies(v, 0, w), NEW h \in LZWPoints, PointOK(data, h),
           CodeBetween(v, data, e, h)
    PROVE  CodesTo(v, data, P \cup {h}, h)
<1>1. \A g \in P, d \in P : CodeBetween(w, data, g, d) => CodeBetween(v, data, g, d)
  BY CodesLie
<1> DEFINE Q == P \cup {h}
<1>2. Q \subseteq LZWPoints /\ Start(0, 0) \in Q /\ h \in Q /\ \A g \in Q : PointOK(data, g)
  BY DEF CodesTo
<1>3. \A g \in Q : g = h \/ \E d \in Q : CodeBetween(v, data, g, d)
  <2> SUFFICES ASSUME NEW g \in P PROVE \E d \in Q : CodeBetween(v, data, g, d)
    OBVIOUS
  <2>1. CASE g = e
    BY <2>1
  <2>2. CASE g # e
    <3>1. PICK d \in P : CodeBetween(w, data, g, d)
      BY <2>2 DEF CodesTo
    <3>2. CodeBetween(v, data, g, d) /\ d \in Q
      BY <1>1, <3>1
    <3> QED
      BY <3>2
  <2> QED
    BY <2>1, <2>2
<1> HIDE DEF Q
<1>4. CodesTo(v, data, Q, h)
  BY <1>2, <1>3 DEF CodesTo
<1> QED
  BY <1>4 DEF Q

\* The table is large enough for every width but the last to grow.
LEMMA TableHolds ==
    /\ TableSize >= 4 * Clear
    /\ \A wd \in LitWidth + 1 .. MaxWidth : wd # MaxWidth => 2 * Pow2[wd] <= TableSize
<1>1. LitWidth + 2 <= MaxWidth /\ LitWidth \in Nat /\ MaxWidth \in Nat
  BY EncoderAssumption, Sizes
<1>2. LitWidth + 1 \in LitWidth + 1 .. MaxWidth /\ LitWidth + 1 # MaxWidth
      /\ LitWidth + 1 \in 0 .. MaxWidth - 1
  BY <1>1
<1>3. ASSUME NEW wd \in LitWidth + 1 .. MaxWidth, wd # MaxWidth PROVE 2 * Pow2[wd] <= TableSize
  <2>1. wd + 1 \in LitWidth + 1 .. MaxWidth /\ Pow2[wd + 1] = 2 * Pow2[wd]
    BY <1>3, Widths
  <2>2. Pow2[wd + 1] <= TableSize
    BY <2>1, Widths
  <2> QED
    BY <2>1, <2>2
<1>4. Pow2[LitWidth + 1] = 2 * Clear
  BY Sizes
<1>5. 2 * Pow2[LitWidth + 1] <= TableSize
  BY <1>2, <1>3
<1> QED
  BY <1>3, <1>4, <1>5, Sizes

\* The width after one more entry than k, behind none that fills the table.
Roomy(wd, k) ==
    /\ wd \in LitWidth + 1 .. MaxWidth /\ k \in Nat
    /\ k = 0 => wd = LitWidth + 1
    /\ k # 0 => Eof + k + 1 < Pow2[wd] /\ Eof + k + 1 <= TableSize - 3

WidthBehind(wd, k) == IF Eof + (k + 1) + 1 >= Pow2[wd] THEN wd + 1 ELSE wd

NextFits(wd, k, next, nwd) ==
    /\ next \in Nat /\ next <= TableSize - 2 /\ nwd \in LitWidth + 1 .. MaxWidth /\ next < Pow2[nwd]
    /\ next = TableSize - 2 => nwd = wd

\* The next code fits into its width, whether the code before it widened or not.
LEMMA NextWidth ==
    ASSUME NEW wd, NEW k, Roomy(wd, k)
    PROVE  NextFits(wd, k, Eof + (k + 1) + 1, WidthBehind(wd, k))
<1> DEFINE next == Eof + (k + 1) + 1
           nwd == WidthBehind(wd, k)
<1>0. /\ wd \in LitWidth + 1 .. MaxWidth /\ k \in Nat
      /\ k = 0 => wd = LitWidth + 1
      /\ k # 0 => Eof + k + 1 < Pow2[wd] /\ Eof + k + 1 <= TableSize - 3
      /\ next = Eof + (k + 1) + 1
      /\ nwd = IF next >= Pow2[wd] THEN wd + 1 ELSE wd
  BY DEF Roomy, WidthBehind
<1> SUFFICES /\ next \in Nat /\ next <= TableSize - 2 /\ nwd \in LitWidth + 1 .. MaxWidth /\ next < Pow2[nwd]
             /\ next = TableSize - 2 => nwd = wd
  BY DEF NextFits
<1> HIDE DEF next, nwd
<1>1. /\ Clear \in Nat /\ Clear >= 2 /\ Eof = Clear + 1 /\ TableSize \in Nat /\ TableSize >= 4 * Clear
  BY Sizes, TableHolds
<1>2. /\ Pow2[wd] \in Nat /\ 2 * Clear <= Pow2[wd] /\ Pow2[wd] <= TableSize
      /\ wd # MaxWidth => wd + 1 \in LitWidth + 1 .. MaxWidth /\ Pow2[wd + 1] = 2 * Pow2[wd] /\ 2 * Pow2[wd] <= TableSize
  BY <1>0, Widths, TableHolds
<1>3. wd = MaxWidth => Pow2[wd] = TableSize
  BY DEF TableSize
<1>4. next \in Nat /\ next <= TableSize - 2
  BY <1>0, <1>1, <1>2
<1>5. CASE next >= Pow2[wd]
  <2>1. nwd = wd + 1 /\ wd # MaxWidth
    BY <1>0, <1>1, <1>3, <1>4, <1>5
  <2>2. next < 2 * Pow2[wd]
    BY <1>0, <1>1, <1>2
  <2>3. next # TableSize - 2
    <3> SUFFICES ASSUME next = TableSize - 2 PROVE FALSE
      OBVIOUS
    <3>1. CASE k = 0
      BY <1>0, <1>1, <3>1
    <3>2. CASE k # 0
      <4>1. next - 1 < Pow2[wd] /\ 2 * Pow2[wd] <= TableSize
        BY <1>0, <1>1, <1>2, <2>1, <3>2
      <4> QED
        BY <1>1, <1>2, <4>1
    <3> QED
      BY <3>1, <3>2
  <2> QED
    <3>1. wd + 1 \in LitWidth + 1 .. MaxWidth /\ Pow2[wd + 1] = 2 * Pow2[wd]
      BY <1>2, <2>1
    <3>2. nwd \in LitWidth + 1 .. MaxWidth /\ Pow2[nwd] = 2 * Pow2[wd]
      BY <2>1, <3>1
    <3>3. next < Pow2[nwd]
      BY <2>2, <3>2
    <3> QED
      BY <1>4, <2>3, <3>2, <3>3
<1>6. CASE ~ (next >= Pow2[wd])
  <2>1. nwd = wd
    BY <1>0, <1>6
  <2>2. next < Pow2[wd]
    BY <1>2, <1>4, <1>6
  <2> QED
    BY <1>0, <1>4, <2>1, <2>2
<1> QED
  BY <1>5, <1>6

\* A code that the encoder knows stands for bytes.
LEMMA KnownTyped ==
    ASSUME NEW strs \in Seq(Seq(Bytes)), NEW c \in Nat, c \in 0 .. Clear - 1 \/ c \in Eof + 1 .. Eof + Len(strs)
    PROVE  Known(strs, c) \in Seq(Bytes)
<1>1. CASE c < Clear
  <2>1. c \in Bytes
    BY <1>1, Sizes DEF Bytes
  <2>2. <<c>> \in Seq(Bytes)
    BY <2>1
  <2> QED
    BY <1>1, <2>2 DEF Known
<1>2. CASE ~ (c < Clear)
  <2>1. c - Eof \in 1 .. Len(strs)
    BY <1>2, Sizes
  <2>2. strs[c - Eof] \in Seq(Bytes)
    BY <2>1
  <2> QED
    BY <1>2, <2>2 DEF Known
<1> QED
  BY <1>1, <1>2

\* The next point after a code.
Behind(e, c, at, x) ==
    [at |-> at, n |-> e.n + Len(Known(e.strs, c)), strs |-> Append(e.strs, x),
     wd |-> WidthBehind(e.wd, Len(e.strs)), last |-> c]

\* A code that the encoder writes at a point leads to the next one.
CodeFits(data, g, c, x, h) ==
    /\ g \in LZWPoints /\ PointOK(data, g)
    /\ g.strs # <<>> => Eof + Len(g.strs) + 1 <= TableSize - 3
    /\ c \in Nat /\ (c \in 0 .. Clear - 1 \/ c \in Eof + 1 .. Eof + Len(g.strs))
    /\ Lies(data, g.n, Known(g.strs, c)) /\ g.n < Len(data)
    /\ h.n < Len(data) => x = Append(Known(g.strs, c), data[h.n + 1])

CodeLeads(w, v, data, g, h) ==
    /\ v \in Seq(Digit) /\ Lies(v, 0, w) /\ h \in LZWPoints /\ PointOK(data, h)
    /\ CodeBetween(v, data, g, h) /\ h.n <= Len(data)
    /\ Eof + Len(h.strs) + 1 <= TableSize - 2
    /\ Eof + Len(h.strs) + 1 = TableSize - 2 => h.wd = g.wd

\* A code written at the end of the stream leads from the last point to a new one.
LEMMA NewCode ==
    ASSUME NEW w \in Seq(Digit), NEW data \in Seq(Bytes), NEW g, g.at = Len(w),
           NEW c, NEW x \in Seq(Bytes), NEW v, v = w \o ToBits(c, g.wd),
           NEW h, h = Behind(g, c, Len(v), x), CodeFits(data, g, c, x, h)
    PROVE  CodeLeads(w, v, data, g, h)
<1> DEFINE k == Len(g.strs)
           b == ToBits(c, g.wd)
           string == Known(g.strs, c)
           next == Eof + (k + 1) + 1
<1>0. /\ g \in LZWPoints /\ PointOK(data, g)
      /\ g.strs # <<>> => Eof + Len(g.strs) + 1 <= TableSize - 3
      /\ c \in Nat /\ (c \in 0 .. Clear - 1 \/ c \in Eof + 1 .. Eof + k)
      /\ Lies(data, g.n, string) /\ g.n < Len(data)
      /\ h.n < Len(data) => x = Append(string, data[h.n + 1])
  BY DEF CodeFits
<1>1. g.at \in Nat /\ g.n \in Nat /\ g.strs \in Seq(Seq(Bytes)) /\ g.wd \in LitWidth + 1 .. MaxWidth /\ g.wd \in Nat
  BY <1>0, Sizes DEF LZWPoints
<1>2. k \in Nat /\ (k = 0 <=> g.strs = <<>>)
  BY <1>1
<1>3. h.at = Len(v) /\ h.n = g.n + Len(string) /\ h.strs = Append(g.strs, x) /\ h.last = c
      /\ h.wd = IF next >= Pow2[g.wd] THEN g.wd + 1 ELSE g.wd
  BY DEF Behind, WidthBehind
<1>4. (k = 0 => g.wd = LitWidth + 1) /\ (k # 0 => Eof + k + 1 < Pow2[g.wd] /\ Eof + k + 1 <= TableSize - 3)
  BY <1>0, <1>2 DEF PointOK
<1>5. NextFits(g.wd, k, next, h.wd)
  <2>1. Roomy(g.wd, k)
    BY <1>1, <1>2, <1>4 DEF Roomy
  <2>2. h.wd = WidthBehind(g.wd, k)
    BY <1>3 DEF WidthBehind
  <2> HIDE DEF k
  <2>3. NextFits(g.wd, k, Eof + (k + 1) + 1, WidthBehind(g.wd, k))
    BY <2>1, NextWidth
  <2> QED
    BY <2>2, <2>3
<1>6. string \in Seq(Bytes) /\ Len(string) \in Nat
  <2>1. string \in Seq(Bytes)
    BY <1>0, <1>1, KnownTyped
  <2> QED
    BY <2>1
<1>7. b \in Seq(Digit) /\ Len(b) = g.wd
  BY <1>0, <1>1, ToBitsTyped
<1>8. v \in Seq(Digit) /\ Len(v) = g.at + g.wd /\ Lies(v, 0, w) /\ Lies(v, g.at, b)
  <2>1. w \o b \in Seq(Digit) /\ Len(w \o b) = Len(w) + Len(b) /\ Lies(w \o b, 0, w) /\ Lies(w \o b, Len(w), b)
    <3>1. b \in Seq(Digit)
      BY <1>7
    <3> HIDE DEF b
    <3> QED
      BY <3>1, Joined, LiesFirst
  <2> QED
    BY <2>1, <1>7
<1>9. /\ h.strs \in Seq(Seq(Bytes)) /\ Len(h.strs) = k + 1 /\ h.strs[k + 1] = x
      /\ \A i \in 1 .. k : h.strs[i] = g.strs[i]
  <2>1. /\ Append(g.strs, x) \in Seq(Seq(Bytes)) /\ Len(Append(g.strs, x)) = Len(g.strs) + 1
        /\ \A i \in 1 .. Len(g.strs) : Append(g.strs, x)[i] = g.strs[i]
        /\ Append(g.strs, x)[Len(g.strs) + 1] = x
    BY <1>1, AppendProperties
  <2> QED
    BY <2>1, <1>3
<1>10. h.n <= Len(data) /\ h.n \in Nat
  BY <1>0, <1>1, <1>3, <1>6 DEF Lies
<1>c. c \in 0 .. Clear - 1 \/ c \in Eof + 1 .. Eof + k
  BY <1>0
<1>11. c \in Codes /\ c \in Nat
  <2>1. c < TableSize
    <3> HIDE DEF k
    <3>1. CASE k = 0
      BY <1>2, <1>c, <3>1, Sizes
    <3>2. CASE k # 0
      <4>1. Eof + k + 1 <= TableSize - 3
        BY <1>4, <3>2
      <4> QED
        BY <1>2, <1>c, <4>1, Sizes
    <3> QED
      BY <3>1, <3>2
  <2> QED
    BY <1>0, <2>1, Sizes
<1>12. h \in LZWPoints
  <2>1. h = [at |-> h.at, n |-> h.n, strs |-> h.strs, wd |-> h.wd, last |-> h.last]
    BY DEF Behind
  <2>2. h.at \in Nat
    BY <1>3, <1>8
  <2> QED
    BY <1>3, <1>5, <1>9, <1>10, <1>11, <2>1, <2>2 DEF LZWPoints, NextFits
<1>13. Known(h.strs, c) = string
  <2>1. CASE c < Clear
    BY <2>1 DEF Known
  <2>2. CASE ~ (c < Clear)
    <3>1. c - Eof \in 1 .. k
      <4> HIDE DEF k
      <4> QED
        BY <1>2, <1>c, <2>2, Sizes
    <3> QED
      BY <1>9, <2>2, <3>1 DEF Known
  <2> QED
    BY <2>1, <2>2
<1>14. PointOK(data, h)
  <2>1. h.strs # <<>>
    <3>1. Len(h.strs) # 0 /\ Len(<<>>) = 0
      BY <1>2, <1>9
    <3> QED
      BY <3>1
  <2>2. Eof + Len(h.strs) + 1 = next
    BY <1>9
  <2>3. h.last \in 0 .. Clear - 1 \/ h.last \in Eof + 1 .. Eof + Len(h.strs) - 1
    <3>1. Eof + (k + 1) - 1 = Eof + k
      BY <1>2, Sizes
    <3> QED
      BY <1>c, <1>3, <1>9, <3>1
  <2>4. h.n < Len(data) => h.strs[Len(h.strs)] = Append(Known(h.strs, h.last), data[h.n + 1])
    BY <1>0, <1>3, <1>9, <1>13
  <2> HIDE DEF next, k, string
  <2> QED
    BY <1>5, <1>10, <2>1, <2>2, <2>3, <2>4 DEF PointOK, NextFits
<1>15. CodeBetween(v, data, g, h)
  <2>1. h.at = g.at + g.wd
    BY <1>3, <1>8
  <2>2. h.wd = IF Eof + Len(h.strs) + 1 >= Pow2[g.wd] THEN g.wd + 1 ELSE g.wd
    BY <1>3, <1>9
  <2>3. CodeOfString(v, data, c, g, h)
    BY <1>0, <1>3, <1>6, <1>8, <1>9, <2>1, <2>2 DEF CodeOfString
  <2> QED
    BY <1>11, <2>3 DEF CodeBetween
<1>16. Eof + Len(h.strs) + 1 = next
  BY <1>9
<1> QED
  BY <1>5, <1>8, <1>10, <1>12, <1>14, <1>15, <1>16 DEF NextFits, CodeLeads

\* A prefix lies at the beginning.
LEMMA PrefixLies ==
    ASSUME NEW S, NEW s \in Seq(S), NEW t \in Seq(S), IsPrefix(s, t)
    PROVE  Lies(t, 0, s)
<1>1. Len(s) \in Nat /\ Len(s) <= Len(t) /\ SubSeq(s, 1, Len(s)) = SubSeq(t, 1, Len(s))
  BY DEF IsPrefix
<1> DEFINE n == Len(s)
<1>2. \A k \in 1 .. n : SubSeq(s, 1, n)[k] = s[k]
  BY <1>1, FirstPart
<1>3. \A k \in 1 .. n : SubSeq(t, 1, n)[k] = t[k]
  BY <1>1, FirstPart
<1>4. ASSUME NEW k \in 1 .. n PROVE t[0 + k] = s[k]
  <2>1. 0 + k = k
    BY <1>1
  <2> QED
    BY <1>1, <1>2, <1>3, <2>1
<1>5. 0 + Len(s) <= Len(t)
  BY <1>1
<1> QED
  BY <1>4, <1>5 DEF Lies

\* The encoder finds a code, for a string that the rest of the data starts with.
LEMMA LongestFound ==
    ASSUME todo \in Seq(Bytes), todo # <<>>, strings \in Seq(Seq(Bytes))
    PROVE  /\ Longest \in Nat /\ StringOf(Longest) = Known(strings, Longest)
           /\ Longest \in 0 .. Clear - 1 \/ Longest \in Eof + 1 .. Eof + Len(strings)
           /\ Lies(todo, 0, Known(strings, Longest)) /\ Len(Known(strings, Longest)) \in Nat \ {0}
<1>1. Len(todo) \in Nat /\ 1 \in 1 .. Len(todo) /\ todo[1] \in Bytes
  <2>1. Len(todo) \in Nat /\ 1 \in 1 .. Len(todo)
    OBVIOUS
  <2> QED
    BY <2>1
<1>2. \A c : StringOf(c) = Known(strings, c)
  BY DEF StringOf, Known
<1>3. ASSUME NEW c \in Candidates
      PROVE  /\ c \in Nat /\ (c \in 0 .. Clear - 1 \/ c \in Eof + 1 .. Eof + Len(strings))
             /\ Lies(todo, 0, Known(strings, c)) /\ Known(strings, c) \in Seq(Bytes)
  <2>1. CASE c = todo[1]
    <3>1. c \in Nat /\ c < Clear /\ c \in 0 .. Clear - 1
      BY <1>1, <2>1, Sizes DEF Bytes
    <3>2. Known(strings, c) = <<c>> /\ Len(<<c>>) = 1 /\ <<c>>[1] = todo[1]
      BY <2>1, <3>1 DEF Known
    <3>3. Lies(todo, 0, <<c>>)
      <4>1. ASSUME NEW k \in 1 .. Len(<<c>>) PROVE todo[0 + k] = <<c>>[k]
        <5>1. k = 1 /\ 0 + k = 1
          OBVIOUS
        <5> QED
          BY <2>1, <5>1
      <4>2. 0 + Len(<<c>>) <= Len(todo)
        BY <1>1, <3>2
      <4> QED
        BY <4>1, <4>2 DEF Lies
    <3> QED
      BY <3>1, <3>2, <3>3, KnownTyped
  <2>2. CASE c \in Eof + 1 .. Eof + Len(strings) /\ IsPrefix(StringOf(c), todo)
    <3>1. c \in Nat
      BY <2>2, Sizes
    <3>2. Known(strings, c) \in Seq(Bytes)
      BY <2>2, <3>1, KnownTyped
    <3>3. Lies(todo, 0, Known(strings, c))
      BY <1>2, <2>2, <3>2, PrefixLies
    <3> QED
      BY <2>2, <3>1, <3>2, <3>3
  <2> QED
    BY <2>1, <2>2 DEF Candidates
<1>4. todo[1] \in Candidates
  BY DEF Candidates
<1> DEFINE left(c) == Len(todo) - Len(StringOf(c))
           T == {left(c) : c \in Candidates}
<1>5. ASSUME NEW c \in Candidates
      PROVE  Len(StringOf(c)) \in Nat /\ Len(StringOf(c)) <= Len(todo) /\ left(c) \in Nat
  <2>1. Len(Known(strings, c)) \in Nat
    BY <1>3
  <2>2. 0 + Len(Known(strings, c)) <= Len(todo)
    BY <1>3 DEF Lies
  <2> QED
    BY <1>1, <1>2, <2>1, <2>2
<1>6. T \in SUBSET Nat /\ T # {}
  BY <1>4, <1>5
<1>7. PICK n \in T : \A m \in T : n <= m
  <2> HIDE DEF T
  <2> QED
    BY <1>6, Smallest
<1>8. PICK c \in Candidates : n = left(c)
  BY <1>7
<1>9. \A d \in Candidates : left(c) <= left(d)
  BY <1>7, <1>8
<1>10. \A d \in Candidates : Len(StringOf(d)) <= Len(StringOf(c))
  BY <1>1, <1>5, <1>9
<1>11. Longest \in Candidates /\ \A d \in Candidates : Len(StringOf(d)) <= Len(StringOf(Longest))
  BY <1>8, <1>10 DEF Longest
<1>12. Len(Known(strings, Longest)) \in Nat \ {0}
  <2>1. Len(StringOf(todo[1])) <= Len(StringOf(Longest))
    BY <1>4, <1>11
  <2>2. StringOf(todo[1]) = <<todo[1]>>
    BY <1>1, Sizes DEF StringOf, Bytes
  <2>3. Len(StringOf(Longest)) \in Nat
    BY <1>5, <1>11
  <2> QED
    BY <1>2, <2>1, <2>2, <2>3
<1> QED
  BY <1>2, <1>3, <1>11, <1>12

\* The codes w of all of data but the rest.
CodedBut(w, data, rest, P, e) ==
    CodesTo(w, data, P, e) /\ e.at = Len(w) /\ e.n + Len(rest) = Len(data) /\ Lies(data, e.n, rest)

\* The rest of the data behind a string, and the entry that a code of the string makes.
Left(rest, string)  == SubSeq(rest, Len(string) + 1, Len(rest))
Entry(string, left) == IF left = <<>> THEN string ELSE Append(string, left[1])

\* A code that the encoder may write at e.
Encodes(e, rest, c) ==
    /\ e.strs # <<>> => Eof + Len(e.strs) + 1 <= TableSize - 3
    /\ c \in Nat /\ (c \in 0 .. Clear - 1 \/ c \in Eof + 1 .. Eof + Len(e.strs))
    /\ rest # <<>> /\ Lies(rest, 0, Known(e.strs, c))

\* It is written.
Extended(v, data, left, P, e, h) ==
    /\ v \in Seq(Digit) /\ left \in Seq(Bytes) /\ h \in LZWPoints
    /\ CodedBut(v, data, left, P \cup {h}, h)
    /\ Eof + Len(h.strs) + 1 <= TableSize - 2
    /\ Eof + Len(h.strs) + 1 = TableSize - 2 => h.wd = e.wd

\* The code of a string lengthens the path by a point, with the table's new entry.
LEMMA StringAdded ==
    ASSUME NEW w \in Seq(Digit), NEW data \in Seq(Bytes), NEW rest \in Seq(Bytes),
           NEW P, NEW e, CodedBut(w, data, rest, P, e), NEW c, Encodes(e, rest, c),
           NEW string, string = Known(e.strs, c), NEW left, left = Left(rest, string),
           NEW v, v = w \o ToBits(c, e.wd), NEW x, x = Entry(string, left)
    PROVE  Extended(v, data, left, P, e, Behind(e, c, Len(v), x))
<1> DEFINE h == Behind(e, c, Len(v), x)
           k == Len(e.strs)
           l == Len(string)
<1>1. e \in LZWPoints /\ PointOK(data, e) /\ e \in P /\ e.at = Len(w) /\ e.n + Len(rest) = Len(data) /\ Lies(data, e.n, rest)
      /\ CodesTo(w, data, P, e)
  BY DEF CodedBut, CodesTo
<1>0. /\ e.strs # <<>> => Eof + Len(e.strs) + 1 <= TableSize - 3
      /\ c \in Nat /\ (c \in 0 .. Clear - 1 \/ c \in Eof + 1 .. Eof + Len(e.strs))
      /\ rest # <<>> /\ Lies(rest, 0, string)
  BY DEF Encodes
<1>2. e.n \in Nat /\ e.strs \in Seq(Seq(Bytes)) /\ Len(data) \in Nat /\ Len(rest) \in Nat /\ Len(rest) > 0
  <2>1. e.n \in Nat /\ e.strs \in Seq(Seq(Bytes))
    BY <1>1 DEF LZWPoints
  <2>2. Len(data) \in Nat /\ Len(rest) \in Nat /\ Len(rest) # 0
    BY <1>0
  <2> QED
    BY <2>1, <2>2
<1>3. string \in Seq(Bytes) /\ l \in Nat
  <2>1. string \in Seq(Bytes)
    BY <1>0, <1>2, KnownTyped
  <2> QED
    BY <2>1
<1>4. l <= Len(rest)
  <2>1. 0 + l <= Len(rest)
    BY <1>0 DEF Lies
  <2> QED
    BY <2>1, <1>3
<1>5. left \in Seq(Bytes) /\ Len(left) = Len(rest) - l /\ Lies(data, e.n + l, left) /\ Lies(rest, l, left)
  <2> DEFINE at == e.n
  <2>1. at \in Nat /\ Lies(data, at, rest) /\ left = SubSeq(rest, l + 1, Len(rest))
    BY <1>1, <1>2 DEF Left
  <2>2. l \in Nat /\ l <= Len(rest)
    BY <1>3, <1>4
  <2> HIDE DEF at, l
  <2>3. left \in Seq(Bytes) /\ Len(left) = Len(rest) - l /\ Lies(data, at + l, left) /\ Lies(rest, l, left)
    BY <2>1, <2>2, LiesOn
  <2> QED
    BY <2>3 DEF at
<1>6. Lies(data, e.n, string)
  <2> DEFINE z == 0
  <2>1. z \in Nat /\ e.n + z = e.n /\ Lies(rest, z, string)
    BY <1>0, <1>2
  <2> HIDE DEF z
  <2>2. Lies(data, e.n + z, string)
    BY <1>1, <1>2, <1>3, <2>1, LiesIn
  <2> QED
    BY <2>1, <2>2
<1>7. e.n < Len(data)
  BY <1>1, <1>2
<1>8. h.at = Len(v) /\ h.n = e.n + l
  BY DEF Behind
<1>9. left # <<>> => 1 \in 1 .. Len(left) /\ left[1] \in Bytes /\ data[h.n + 1] = left[1]
  <2> SUFFICES ASSUME left # <<>> PROVE 1 \in 1 .. Len(left) /\ left[1] \in Bytes /\ data[h.n + 1] = left[1]
    OBVIOUS
  <2>1. Len(left) \in Nat /\ Len(left) # 0
    BY <1>5
  <2>2. 1 \in 1 .. Len(left)
    BY <2>1
  <2>3. data[(e.n + l) + 1] = left[1]
    BY <1>5, <2>2 DEF Lies
  <2>4. left[1] \in Bytes
    BY <1>5, <2>2
  <2> QED
    BY <1>8, <2>2, <2>3, <2>4
<1>10. x \in Seq(Bytes)
  <2>1. CASE left = <<>>
    BY <1>3, <2>1 DEF Entry
  <2>2. CASE left # <<>>
    <3>1. Append(string, left[1]) \in Seq(Bytes)
      BY <1>3, <1>9, <2>2, OneMore
    <3> QED
      BY <2>2, <3>1 DEF Entry
  <2> QED
    BY <2>1, <2>2
<1>11. h.n < Len(data) => x = Append(Known(e.strs, c), data[h.n + 1])
  <2> SUFFICES ASSUME h.n < Len(data) PROVE x = Append(string, data[h.n + 1])
    OBVIOUS
  <2>1. Len(left) # 0
    <3>1. e.n + l < Len(data)
      BY <1>8
    <3> QED
      BY <3>1, <1>1, <1>2, <1>3, <1>5
  <2>2. left # <<>>
    BY <2>1
  <2> QED
    BY <1>9, <2>2 DEF Entry
<1> HIDE DEF h
<1>12. /\ v \in Seq(Digit) /\ Lies(v, 0, w) /\ h \in LZWPoints /\ PointOK(data, h)
       /\ CodeBetween(v, data, e, h) /\ h.n <= Len(data)
       /\ Eof + Len(h.strs) + 1 <= TableSize - 2
       /\ Eof + Len(h.strs) + 1 = TableSize - 2 => h.wd = e.wd
  <2>1. Lies(data, e.n, Known(e.strs, c))
    BY <1>6
  <2>2. h = Behind(e, c, Len(v), x)
    BY DEF h
  <2> QED
    <3>1. CodeFits(data, e, c, x, h)
      BY <1>0, <1>1, <1>7, <1>11, <2>1 DEF CodeFits
    <3>2. CodeLeads(w, v, data, e, h)
      BY <1>1, <1>10, <2>2, <3>1, NewCode
    <3> QED
      BY <3>2 DEF CodeLeads
<1>13. CodesTo(v, data, P \cup {h}, h)
  BY <1>1, <1>12, CodeAdded
<1>14. h.n + Len(left) = Len(data)
  <2>1. Len(left) = Len(rest) - l /\ h.n = e.n + l /\ e.n + Len(rest) = Len(data)
    BY <1>1, <1>5, <1>8
  <2> HIDE DEF l
  <2> QED
    BY <1>2, <1>3, <2>1
<1>15. CodedBut(v, data, left, P \cup {h}, h)
  BY <1>5, <1>8, <1>13, <1>14 DEF CodedBut
<1> QED
  BY <1>5, <1>12, <1>15 DEF h, Extended

\* A clear code behind them.
LEMMA ClearAdded ==
    ASSUME NEW w \in Seq(Digit), NEW data \in Seq(Bytes), NEW rest, NEW P, NEW e, CodedBut(w, data, rest, P, e),
           NEW v, v = w \o ToBits(Clear, e.wd)
    PROVE  LET h == Start(Len(v), e.n)
           IN  v \in Seq(Digit) /\ h \in LZWPoints /\ CodedBut(v, data, rest, P \cup {h}, h)
<1> DEFINE h == Start(Len(v), e.n)
           b == ToBits(Clear, e.wd)
<1>1. e \in LZWPoints /\ PointOK(data, e) /\ e.at = Len(w) /\ e.n + Len(rest) = Len(data) /\ Lies(data, e.n, rest)
      /\ CodesTo(w, data, P, e)
  BY DEF CodedBut, CodesTo
<1>2. e.n \in Nat /\ e.wd \in Nat /\ e.n <= Len(data)
  BY <1>1, Sizes DEF LZWPoints, PointOK
<1>3. b \in Seq(Digit) /\ Len(b) = e.wd
  BY <1>2, Sizes, ToBitsTyped
<1>4. v \in Seq(Digit) /\ Len(v) = Len(w) + e.wd /\ Lies(v, 0, w) /\ Lies(v, Len(w), b)
  <2> HIDE DEF b
  <2>1. w \o b \in Seq(Digit) /\ Len(w \o b) = Len(w) + Len(b) /\ Lies(w \o b, 0, w) /\ Lies(w \o b, Len(w), b)
    BY <1>3, Joined, LiesFirst
  <2> QED
    BY <2>1, <1>3 DEF b
<1>5. Len(v) \in Nat
  BY <1>4
<1>6. h \in LZWPoints /\ PointOK(data, h) /\ h.at = Len(v) /\ h.n = e.n
  BY <1>2, <1>5, StartIsPoint DEF Start
<1>7. h = Start(e.at + e.wd, e.n)
  BY <1>1, <1>4
<1>8. CodeBetween(v, data, e, h)
  BY <1>1, <1>4, <1>7 DEF CodeBetween, ClearOfTable
<1> HIDE DEF h
<1>9. CodesTo(v, data, P \cup {h}, h)
  BY <1>1, <1>4, <1>6, <1>8, CodeAdded
<1> QED
  BY <1>1, <1>4, <1>6, <1>9 DEF CodedBut, h

-----------------------------------------------------------------------------
LZWWriting ==
    /\ stream \in Seq(Digit) /\ todo \in Seq(Bytes)
    /\ strings # <<>> => Eof + Len(strings) + 1 <= TableSize - 3
    /\ \E P, e : CodedBut(stream, input, todo, P, e) /\ e.strs = strings /\ e.wd = ewidth

\* The decoder has read the codes before g.
AtPoint(g) ==
    /\ width = g.wd /\ hi = Eof + Len(g.strs) /\ last = g.last
    /\ \A i \in 1 .. Len(g.strs) - 1 : Chain(prefix, suffix)[Eof + i] = g.strs[i]

Buffered == received \o toRead \o output

LZWReading ==
    \E w, P, e :
       /\ w \in Seq(Digit) /\ CodesTo(w, input, P, e) /\ Lies(w, e.at, ToBits(Eof, e.wd))
       /\ stream \in Seq(Digit)
       /\ derr = "none" => \E g \in P : AtPoint(g) /\ Lies(w, g.at, stream) /\ Len(Buffered) = g.n

LZWInv ==
    /\ DInv /\ input \in Seq(Bytes) /\ received \in Seq(Bytes) /\ toRead \in Seq(Bytes)
    /\ Lies(input, 0, Buffered)
    /\ ~ closed => LZWWriting /\ AtPoint(Start(0, 0)) /\ Len(Buffered) = 0
    /\ closed => LZWReading

\* The clear code at the beginning is the first point's.
LEMMA InitLZW ==
    ASSUME NEW s \in Seq(Bytes), LZWInit, CodedInit("LZW", s, LZWBegin, FALSE)
    PROVE  LZWInv
<1>1. /\ input = s /\ todo = s /\ ~ closed /\ stream = ToBits(Clear, LitWidth + 1) /\ received = <<>> /\ toRead = <<>>
      /\ output = <<>> /\ strings = <<>> /\ ewidth = LitWidth + 1 /\ DInit
      /\ width = LitWidth + 1 /\ hi = Eof /\ last = Invalid
  BY DEF CodedInit, LZWInit, DInit, LZWBegin
<1>2. DInv
  BY <1>1, InitDInv
<1>3. Buffered = <<>> /\ Len(Buffered) = 0 /\ <<>> \in Seq(Bytes)
  BY <1>1 DEF Buffered
<1>4. Lies(input, 0, Buffered)
  <2>1. Len(input) \in Nat /\ 0 + Len(Buffered) = 0 /\ 1 .. Len(Buffered) = {}
    BY <1>1, <1>3
  <2> QED
    BY <2>1 DEF Lies
<1> DEFINE a == Start(0, 0)
           w == <<>>
           P == {a}
           v == w \o ToBits(Clear, a.wd)
           h == Start(Len(v), a.n)
<1>5. a \in LZWPoints /\ PointOK(s, a) /\ a.at = 0 /\ a.n = 0 /\ a.strs = <<>> /\ a.wd = LitWidth + 1 /\ a.last = Invalid
  <2>1. Len(s) \in Nat /\ 0 \in Nat
    OBVIOUS
  <2>2. 0 <= Len(s)
    BY <2>1
  <2> QED
    BY <2>1, <2>2, StartIsPoint DEF Start
<1>6. CodesTo(w, s, P, a)
  BY <1>5 DEF CodesTo
<1>7. CodedBut(w, s, s, P, a)
  <2>1. Len(s) \in Nat /\ Len(w) = 0 /\ 0 + Len(s) = Len(s) /\ \A k \in 1 .. Len(s) : 0 + k = k
    OBVIOUS
  <2>2. Lies(s, a.n, s)
    BY <1>5, <2>1 DEF Lies
  <2> HIDE DEF a, w
  <2> QED
    BY <1>5, <1>6, <2>1, <2>2 DEF CodedBut
<1>8. w \in Seq(Digit)
  OBVIOUS
<1>9. ToBits(Clear, a.wd) \in Seq(Digit)
  BY <1>5, Sizes, ToBitsTyped
<1>10. v = stream
  <2> HIDE DEF a
  <2> QED
    BY <1>1, <1>5, <1>9
<1>11. v \in Seq(Digit) /\ h \in LZWPoints /\ CodedBut(v, s, s, P \cup {h}, h)
  <2> HIDE DEF a, w, P
  <2> QED
    BY <1>7, <1>8, ClearAdded
<1>12. h.strs = strings /\ h.wd = ewidth
  BY <1>1 DEF Start
<1>13. LZWWriting
  <2> HIDE DEF h, v, P
  <2> QED
    BY <1>1, <1>10, <1>11, <1>12 DEF LZWWriting
<1>14. AtPoint(a)
  <2> HIDE DEF a
  <2>1. Len(a.strs) = 0
    BY <1>5
  <2>2. 1 .. Len(a.strs) - 1 = {} /\ Eof + Len(a.strs) = Eof
    BY <2>1, Sizes
  <2> QED
    BY <1>1, <1>5, <2>2 DEF AtPoint
<1> QED
  BY <1>1, <1>2, <1>3, <1>4, <1>13, <1>14 DEF LZWInv

\* The longest string that the table has lengthens the path.
LEMMA EncodeStringInv ==
    ASSUME LZWInv, EncodeString, ~ closed
    PROVE  LZWInv'
<1> DEFINE c == Longest
           string == StringOf(c)
           left == Left(todo, string)
           x == Entry(string, left)
           v == stream \o ToBits(c, ewidth)
           next == Eof + Len(Append(strings, x)) + 1
<1>1. PICK P, e : CodedBut(stream, input, todo, P, e) /\ e.strs = strings /\ e.wd = ewidth
  BY DEF LZWInv, LZWWriting
<1>2. /\ stream \in Seq(Digit) /\ todo \in Seq(Bytes) /\ input \in Seq(Bytes) /\ todo # <<>>
      /\ e.strs # <<>> => Eof + Len(e.strs) + 1 <= TableSize - 3
  BY <1>1 DEF LZWInv, LZWWriting, EncodeString
<1>3. e \in LZWPoints /\ strings \in Seq(Seq(Bytes))
  BY <1>1 DEF CodedBut, CodesTo, LZWPoints
<1>4. /\ c \in Nat /\ string = Known(strings, c)
      /\ c \in 0 .. Clear - 1 \/ c \in Eof + 1 .. Eof + Len(strings)
      /\ Lies(todo, 0, Known(strings, c))
  BY <1>2, <1>3, LongestFound
<1>5. /\ todo' = left /\ UNCHANGED <<dvars, closed, lost, method, input, received, result>>
      /\ IF next = TableSize - 2
         THEN strings' = <<>> /\ ewidth' = LitWidth + 1 /\ stream' = v \o ToBits(Clear, ewidth)
         ELSE strings' = Append(strings, x) /\ stream' = v /\ ewidth' = IF next >= Pow2[ewidth] THEN ewidth + 1 ELSE ewidth
  BY DEF EncodeString, Encoding, Left, Entry
<1> DEFINE h == Behind(e, c, Len(v), x)
<1>6. Extended(v, input, left, P, e, h)
  <2>1. string = Known(e.strs, c) /\ v = stream \o ToBits(c, e.wd)
    BY <1>1, <1>4
  <2>2. Encodes(e, todo, c)
    BY <1>1, <1>2, <1>4 DEF Encodes
  <2>3. left = Left(todo, string) /\ x = Entry(string, left)
    OBVIOUS
  <2> HIDE DEF c, string, left, x, v
  <2> QED
    BY <1>1, <1>2, <2>1, <2>2, <2>3, StringAdded
<1>7. h.strs = Append(strings, x) /\ next = Eof + Len(h.strs) + 1
      /\ h.wd = IF Eof + (Len(strings) + 1) + 1 >= Pow2[ewidth] THEN ewidth + 1 ELSE ewidth
  BY <1>1 DEF Behind, WidthBehind
<1>8. h.strs \in Seq(Seq(Bytes)) /\ Len(h.strs) = Len(strings) + 1
  <2> HIDE DEF h
  <2>1. h.strs \in Seq(Seq(Bytes)) /\ Len(h.strs) = Len(Append(strings, x))
    BY <1>6, <1>7 DEF LZWPoints, Extended
  <2>2. Len(Append(strings, x)) = Len(strings) + 1
    BY <1>3
  <2> QED
    BY <2>1, <2>2
<1> HIDE DEF c, string, left, x, v, h
<1>9. LZWWriting'
  <2>1. CASE next = TableSize - 2
    <3> DEFINE u == v \o ToBits(Clear, h.wd)
               d == Start(Len(u), h.n)
    <3>1. h.wd = ewidth
      BY <1>1, <1>6, <1>7, <2>1 DEF Extended
    <3>2. strings' = <<>> /\ ewidth' = LitWidth + 1 /\ stream' = u
      BY <1>5, <2>1, <3>1
    <3>3. u \in Seq(Digit) /\ d \in LZWPoints /\ CodedBut(u, input, left, (P \cup {h}) \cup {d}, d)
      BY <1>2, <1>6, ClearAdded DEF Extended
    <3>4. d.strs = <<>> /\ d.wd = LitWidth + 1
      BY DEF Start
    <3> HIDE DEF u, d
    <3>5. CodedBut(stream', input', todo', (P \cup {h}) \cup {d}, d) /\ d.strs = strings' /\ d.wd = ewidth'
      BY <1>5, <3>2, <3>3, <3>4
    <3>6. stream' \in Seq(Digit) /\ todo' \in Seq(Bytes) /\ strings' = <<>>
      BY <1>5, <1>6, <3>2, <3>3 DEF Extended
    <3> QED
      BY <3>5, <3>6 DEF LZWWriting
  <2>2. CASE next # TableSize - 2
    <3>1. strings' = h.strs /\ stream' = v
      BY <1>5, <1>7, <2>2
    <3>2. ewidth' = h.wd
      <4>1. next = Eof + (Len(strings) + 1) + 1
        BY <1>7, <1>8
      <4> QED
        BY <1>5, <1>7, <2>2, <4>1
    <3>3. CodedBut(stream', input', todo', P \cup {h}, h) /\ h.strs = strings' /\ h.wd = ewidth'
      BY <1>5, <1>6, <3>1, <3>2 DEF Extended
    <3>4. Eof + Len(strings') + 1 <= TableSize - 3
      <4>1. Len(h.strs) \in Nat
        BY <1>8
      <4>2. Eof + Len(h.strs) + 1 <= TableSize - 2 /\ Eof + Len(h.strs) + 1 # TableSize - 2
        BY <1>6, <1>7, <2>2 DEF Extended
      <4>0. Eof \in Nat /\ TableSize \in Nat
        BY Sizes
      <4>3. Eof + Len(h.strs) + 1 <= TableSize - 3
        BY <4>0, <4>1, <4>2
      <4> QED
        BY <3>1, <4>3
    <3>5. stream' \in Seq(Digit) /\ todo' \in Seq(Bytes)
      BY <1>5, <1>6, <3>1 DEF Extended
    <3> QED
      BY <3>3, <3>4, <3>5 DEF LZWWriting
  <2> QED
    BY <2>1, <2>2
<1>10. /\ DInv' /\ AtPoint(Start(0, 0))' /\ Buffered' = Buffered /\ ~ closed'
       /\ input' = input /\ received' = received /\ toRead' = toRead
  <2>1. /\ UNCHANGED <<width, hi, overflow, last, suffix, prefix, output, toRead, derr, dpc, full>>
        /\ UNCHANGED <<closed, input, received>>
    BY <1>5 DEF dvars, codec, table, buffer
  <2>2. DInv'
    BY <2>1 DEF LZWInv, DInv, CodecOK, PrefixesDescend, LastBeforeHi, NotFull, PanicOnlyWhenFull, BufferOK
  <2>3. AtPoint(Start(0, 0))'
    BY <2>1 DEF LZWInv, AtPoint
  <2> QED
    BY <2>1, <2>2, <2>3 DEF Buffered
<1> QED
  BY <1>9, <1>10 DEF LZWInv

\* Behind the last point is the code of the end; what is not cut lies where it was written.
LEMMA EncodeEofInv ==
    ASSUME LZWInv, EncodeEnd
    PROVE  LZWInv'
<1> DEFINE b == ToBits(Eof, ewidth)
           all == stream \o b
<1>1. /\ todo = <<>> /\ Close(all, ByteSize) /\ ~ closed /\ closed'
      /\ UNCHANGED <<dvars, input, received>>
  BY DEF EncodeEnd, Close, Encoding
<1>2. PICK P, e : CodedBut(stream, input, todo, P, e) /\ e.strs = strings /\ e.wd = ewidth
  BY <1>1 DEF LZWInv, LZWWriting
<1>3. /\ stream \in Seq(Digit) /\ input \in Seq(Bytes) /\ e \in LZWPoints /\ e.at = Len(stream)
      /\ CodesTo(stream, input, P, e)
  BY <1>1, <1>2 DEF LZWInv, LZWWriting, CodedBut, CodesTo
<1>4. e.wd \in Nat /\ e.at \in Nat
  BY <1>3, Sizes DEF LZWPoints
<1>5. b \in Seq(Digit)
  BY <1>2, <1>4, Sizes, ToBitsTyped
<1> HIDE DEF b
<1>6. all \in Seq(Digit) /\ Lies(all, 0, stream) /\ Lies(all, Len(stream), b)
  BY <1>3, <1>5, Joined, LiesFirst
<1> HIDE DEF all
<1>7. 0 \in Digit
  BY DEF Digit
<1>8. stream' \in Seq(Digit) /\ \E w \in Seq(Digit) : Closed(all, ByteSize, w)
  BY <1>1, <1>6, <1>7, CloseIs, ByteSizeAssumption
<1>9. PICK w \in Seq(Digit) : Lies(w, 0, all) /\ Lies(w, 0, stream')
  BY <1>8 DEF Closed
<1> DEFINE z == 0
<1>10. z \in Nat /\ z + z = z /\ z + e.at = e.at /\ Lies(w, z, all) /\ Lies(all, z, stream) /\ Lies(all, e.at, b)
       /\ z = 0
  BY <1>3, <1>4, <1>6, <1>9
<1> HIDE DEF z
<1>11. Lies(w, z + z, stream) /\ Lies(w, z + e.at, b)
  BY <1>3, <1>4, <1>5, <1>6, <1>10, LiesIn
<1>12. Lies(w, 0, stream) /\ Lies(w, e.at, ToBits(Eof, e.wd))
  BY <1>2, <1>10, <1>11 DEF b
<1>13. CodesTo(w, input, P, e)
  BY <1>3, <1>12, CodesLie
<1>14. /\ UNCHANGED <<width, hi, overflow, last, suffix, prefix, output, toRead, derr, dpc, full>>
       /\ UNCHANGED <<input, received>>
  BY <1>1 DEF dvars, codec, table, buffer
<1> DEFINE a == Start(0, 0)
<1>15. a \in P /\ a.at = 0 /\ a.n = 0
  BY <1>3 DEF Start, CodesTo
<1>16. AtPoint(a)' /\ Buffered' = Buffered /\ Len(Buffered) = 0
  <2>1. AtPoint(a) /\ Len(Buffered) = 0
    BY <1>1 DEF LZWInv
  <2> HIDE DEF a
  <2> QED
    BY <1>14, <2>1 DEF AtPoint, Buffered
<1>17. LZWReading'
  <2>1. AtPoint(a)' /\ Lies(w, a.at, stream') /\ Len(Buffered') = a.n
    BY <1>9, <1>15, <1>16
  <2> HIDE DEF a
  <2> QED
    BY <1>8, <1>12, <1>13, <1>14, <1>15, <2>1 DEF LZWReading, AtPoint
<1>18. DInv'
  BY <1>14 DEF LZWInv, DInv, CodecOK, PrefixesDescend, LastBeforeHi, NotFull, PanicOnlyWhenFull, BufferOK
<1> QED
  BY <1>1, <1>14, <1>16, <1>17, <1>18 DEF LZWInv

-----------------------------------------------------------------------------
\* The entries below the next one stand for the strings of the encoder.
LEMMA KnownInTable ==
    ASSUME DInv, NEW data, NEW g \in LZWPoints, PointOK(data, g), AtPoint(g),
           NEW c \in Codes, c < hi, c < Clear \/ c > Eof
    PROVE  /\ Chain(prefix, suffix)[c] = Known(g.strs, c)
           /\ Known(g.strs, c) \in Seq(Bytes) /\ Len(Known(g.strs, c)) \in Nat \ {0}
<1> DEFINE e == Chain(prefix, suffix)
           k == Len(g.strs)
<1>1. IsTable(prefix, suffix)
  BY InvTable
<1>2. Expands(e, prefix, suffix)
  BY <1>1, ChainSolves
<1>3. \A d \in Codes : e[d] = ChainStep(prefix, suffix, e, d)
  BY <1>2 DEF Expands
<1>4. hi = Eof + k /\ \A i \in 1 .. k - 1 : e[Eof + i] = g.strs[i]
  BY DEF AtPoint
<1>5. k \in Nat
  BY DEF LZWPoints
<1>6. GoodChain(e, c)
  BY <1>1, <1>2, ChainsGood
<1> HIDE DEF e, k
<1>7. CASE c < Clear
  <2>1. e[c] = <<c>>
    BY <1>3, <1>7 DEF ChainStep
  <2>2. Known(g.strs, c) = <<c>>
    BY <1>7 DEF Known
  <2> QED
    BY <1>6, <2>1, <2>2, Sizes DEF GoodChain, MostBytes, e
<1>8. CASE ~ (c < Clear)
  <2>1. c - Eof \in 1 .. k - 1 /\ Eof + (c - Eof) = c
    BY <1>4, <1>5, <1>8, Sizes
  <2>2. e[c] = g.strs[c - Eof]
    BY <1>4, <2>1
  <2>3. e[c] = Known(g.strs, c)
    BY <1>8, <2>2 DEF Known
  <2> QED
    BY <1>6, <2>3, Sizes DEF GoodChain, MostBytes, e
<1> QED
  BY <1>7, <1>8

\* There is room for the entry that the next code makes.
LEMMA PointInTable ==
    ASSUME NEW data, NEW g \in LZWPoints, PointOK(data, g)
    PROVE  /\ Len(g.strs) \in Nat /\ Eof + Len(g.strs) + 1 <= TableSize - 2 /\ g.wd \in LitWidth + 1 .. MaxWidth
           /\ Len(g.strs) = 0 => g.strs = <<>>
           /\ Len(g.strs) # 0 => g.strs # <<>>
<1>1. Len(g.strs) \in Nat /\ g.strs \in Seq(Seq(Bytes)) /\ g.wd \in LitWidth + 1 .. MaxWidth
  BY DEF LZWPoints
<1>2. CASE g.strs = <<>>
  <2>1. Len(g.strs) = 0
    BY <1>2
  <2>2. Eof + 0 + 1 <= TableSize - 2
    BY Sizes, TableHolds
  <2> QED
    BY <1>1, <1>2, <2>1, <2>2
<1>3. CASE g.strs # <<>>
  BY <1>1, <1>3 DEF PointOK
<1> QED
  BY <1>2, <1>3

\* At a point the decoder's table has the string of the next code, or it is the entry being made.
LEMMA DecodesCode ==
    ASSUME DInv, NEW w, NEW data \in Seq(Bytes), NEW g \in LZWPoints, PointOK(data, g), AtPoint(g),
           NEW h, NEW c \in Codes, CodeOfString(w, data, c, g, h)
    PROVE  LET s == Known(g.strs, c)
           IN  /\ s \in Seq(Bytes) /\ Len(s) \in Nat \ {0} /\ s[1] = data[g.n + 1]
               /\ c <= hi /\ (c = hi => last # Invalid) /\ (c > Eof => Decoded(c) = s)
               /\ c < Clear \/ c > Eof
               /\ c < Pow2[width]
<1> DEFINE s == Known(g.strs, c)
           k == Len(g.strs)
           e == Chain(prefix, suffix)
<1>1. /\ c \in 0 .. Clear - 1 \/ c \in Eof + 1 .. Eof + k
      /\ Lies(data, g.n, s) /\ s \in Seq(Bytes) /\ g.n < Len(data)
  BY DEF CodeOfString
<1>2. hi = Eof + k /\ last = g.last /\ width = g.wd
  BY DEF AtPoint
<1>3. k \in Nat /\ Eof + k + 1 <= TableSize - 2 /\ g.wd \in LitWidth + 1 .. MaxWidth /\ (k # 0 => g.strs # <<>>)
  BY PointInTable
<1>4. c <= hi /\ (c < Clear \/ c > Eof) /\ c \in Nat
  <2> HIDE DEF k
  <2> QED
    BY <1>1, <1>2, <1>3, Sizes
<1>5. k # 0 => (g.last \in 0 .. Clear - 1 \/ g.last \in Eof + 1 .. Eof + k - 1) /\ Eof + k + 1 < Pow2[g.wd]
               /\ g.strs[k] = Append(Known(g.strs, g.last), data[g.n + 1])
  BY <1>1, <1>3 DEF PointOK
<1>6. c < Pow2[width]
  <2>1. 2 * Clear <= Pow2[g.wd] /\ Pow2[g.wd] \in Nat
    BY <1>3, Widths
  <2>2. CASE k = 0
    <3> HIDE DEF k
    <3> QED
      BY <1>1, <1>2, <2>1, <2>2, Sizes
  <2>3. CASE k # 0
    <3>1. Eof + k + 1 < Pow2[g.wd]
      BY <1>5, <2>3
    <3> HIDE DEF k
    <3> QED
      BY <1>2, <1>3, <1>4, <2>1, <3>1, Sizes
  <2> QED
    BY <2>2, <2>3
<1>7. k # 0 => last \in Codes /\ last < hi /\ (last < Clear \/ last > Eof) /\ last # Invalid
  <2> SUFFICES ASSUME k # 0 PROVE last \in Codes /\ last < hi /\ (last < Clear \/ last > Eof) /\ last # Invalid
    OBVIOUS
  <2>1. g.last \in 0 .. Clear - 1 \/ g.last \in Eof + 1 .. Eof + k - 1
    BY <1>5
  <2> HIDE DEF k
  <2> QED
    BY <1>2, <1>3, <2>1, Sizes
<1>8. c = hi => k # 0
  <2> HIDE DEF k
  <2> QED
    BY <1>2, <1>4, Sizes
<1>9. CASE c < hi
  <2>1. e[c] = s /\ Len(s) \in Nat \ {0}
    BY <1>4, <1>9, KnownInTable
  <2>2. Decoded(c) = s
    BY <1>4, <1>9, <2>1, ExpansionIsChain, Sizes DEF Decoded
  <2>3. s[1] = data[g.n + 1]
    <3>1. 1 \in 1 .. Len(s)
      BY <2>1
    <3> QED
      BY <1>1, <3>1 DEF Lies
  <2> QED
    BY <1>1, <1>4, <1>6, <1>8, <1>7, <2>1, <2>2, <2>3
<1>10. CASE c = hi
  <2>1. k # 0
    BY <1>8, <1>10
  <2> DEFINE l == Known(g.strs, last)
             x == data[g.n + 1]
  <2>2. e[last] = l /\ l \in Seq(Bytes) /\ Len(l) \in Nat \ {0}
    BY <1>7, <2>1, KnownInTable
  <2>3. s = g.strs[k]
    <3>1. c - Eof = k /\ ~ (c < Clear)
      <4> HIDE DEF k
      <4> QED
        BY <1>2, <1>3, <1>10, Sizes
    <3> QED
      BY <3>1 DEF Known
  <2>4. s = Append(l, x)
    BY <1>2, <1>5, <2>1, <2>3
  <2>5. x \in Bytes
    <3>1. g.n + 1 \in 1 .. Len(data)
      <4>1. g.n \in Nat /\ Len(data) \in Nat
        BY DEF LZWPoints
      <4> QED
        BY <1>1, <4>1
    <3> QED
      BY <3>1
  <2> HIDE DEF l, x, s
  <2>6. Len(s) = Len(l) + 1 /\ s[1] = l[1]
    <3>1. /\ Len(Append(l, x)) = Len(l) + 1 /\ \A i \in 1 .. Len(l) : Append(l, x)[i] = l[i]
      BY <2>2, <2>5, AppendProperties
    <3>2. 1 \in 1 .. Len(l)
      BY <2>2
    <3> QED
      BY <2>4, <3>1, <3>2
  <2>7. s[1] = x
    <3>1. 1 \in 1 .. Len(s)
      BY <2>2, <2>6
    <3> QED
      BY <1>1, <3>1 DEF Lies, x
  <2>8. Decoded(c) = Append(l, l[1])
    BY <1>10, <2>2, ExpansionIsChain DEF Decoded
  <2>9. Decoded(c) = s
    BY <2>4, <2>6, <2>7, <2>8
  <2>10. Len(s) \in Nat \ {0}
    BY <2>2, <2>6
  <2> QED
    BY <1>1, <1>4, <1>6, <1>7, <2>1, <2>7, <2>9, <2>10 DEF s, x
<1>11. c < hi \/ c = hi
  <2> HIDE DEF k
  <2> QED
    BY <1>2, <1>3, <1>4, Sizes
<1> QED
  BY <1>9, <1>10, <1>11

\* What follows something that follows a part.
LEMMA LiesJoined ==
    ASSUME NEW S, NEW f \in Seq(S), NEW s \in Seq(S), NEW t \in Seq(S), NEW o \in Nat, NEW p \in Nat,
           Lies(f, o, s), p = o + Len(s), Lies(f, p, t)
    PROVE  Lies(f, o, s \o t)
<1>1. /\ s \o t \in Seq(S) /\ Len(s \o t) = Len(s) + Len(t)
      /\ \A k \in 1 .. Len(s) : (s \o t)[k] = s[k]
      /\ \A k \in 1 .. Len(t) : (s \o t)[Len(s) + k] = t[k]
  BY Joined
<1>2. Len(s) \in Nat /\ Len(t) \in Nat /\ Len(f) \in Nat
  OBVIOUS
<1>3. ASSUME NEW k \in 1 .. Len(s) + Len(t) PROVE f[o + k] = (s \o t)[k]
  <2>1. CASE k \in 1 .. Len(s)
    BY <1>1, <2>1 DEF Lies
  <2>2. CASE k \notin 1 .. Len(s)
    <3>1. k - Len(s) \in 1 .. Len(t) /\ Len(s) + (k - Len(s)) = k /\ p + (k - Len(s)) = o + k
      BY <1>2, <2>2
    <3>2. f[p + (k - Len(s))] = t[k - Len(s)]
      BY <3>1 DEF Lies
    <3>3. (s \o t)[Len(s) + (k - Len(s))] = t[k - Len(s)]
      BY <1>1, <3>1
    <3> QED
      BY <3>1, <3>2, <3>3
  <2> QED
    BY <2>1, <2>2
<1>4. o + Len(s \o t) <= Len(f)
  <2>1. p + Len(t) <= Len(f)
    BY DEF Lies
  <2> QED
    BY <1>1, <1>2, <2>1
<1> QED
  BY <1>1, <1>3, <1>4 DEF Lies

\* The next entry is saved.
LEMMA EntrySaved ==
    ASSUME DInv, DInv', NEW data, NEW g \in LZWPoints, PointOK(data, g), AtPoint(g), g.n < Len(data),
           NEW code, Save(code, data[g.n + 1])
    PROVE  \A i \in 1 .. Len(g.strs) : Chain(prefix', suffix')[Eof + i] = g.strs[i]
<1> DEFINE e == Chain(prefix, suffix)
           f == Chain(prefix', suffix')
           k == Len(g.strs)
           x == data[g.n + 1]
<1>1. IsTable(prefix, suffix) /\ IsTable(prefix', suffix')
  BY DEF DInv, CodecOK, PrefixesDescend, BufferOK, IsTable
<1>2. k \in Nat /\ Eof + k + 1 <= TableSize - 2 /\ (k # 0 => g.strs # <<>>)
  BY PointInTable
<1>3. hi = Eof + k /\ last = g.last /\ \A i \in 1 .. k - 1 : e[Eof + i] = g.strs[i]
  BY DEF AtPoint
<1> SUFFICES ASSUME k # 0 PROVE \A i \in 1 .. k : f[Eof + i] = g.strs[i]
  BY <1>2
<1>4. /\ g.last \in 0 .. Clear - 1 \/ g.last \in Eof + 1 .. Eof + k - 1
      /\ g.strs[k] = Append(Known(g.strs, g.last), x)
  BY <1>2 DEF PointOK
<1>5. last \in Codes /\ last < hi /\ (last < Clear \/ last > Eof) /\ last # Invalid /\ hi \in Codes /\ hi \in Nat
      /\ ~ (hi < Clear)
  <2> HIDE DEF k
  <2> QED
    BY <1>2, <1>3, <1>4, Sizes
<1>6. suffix' = [suffix EXCEPT ![hi] = x] /\ prefix' = [prefix EXCEPT ![hi] = last]
  BY <1>5 DEF Save
<1>7. suffix \in [Codes -> Bytes] /\ prefix \in [Codes -> Codes]
  BY <1>1 DEF IsTable
<1>8. suffix'[hi] = x /\ prefix'[hi] = last /\ \A c \in Codes : c < hi => suffix'[c] = suffix[c] /\ prefix'[c] = prefix[c]
  <2>1. \A c \in Codes : c < hi => c # hi
    BY <1>5, Sizes
  <2> QED
    BY <1>5, <1>6, <1>7, <2>1
<1> HIDE DEF e, f
<1>9. \A c \in Codes : c < hi => f[c] = e[c]
  BY <1>1, <1>5, <1>8, ChainKept DEF e, f
<1>10. f[hi] = Append(f[last], x)
  <2>1. \A d \in Codes : f[d] = ChainStep(prefix', suffix', f, d)
    BY <1>1, ChainSolves DEF Expands, f
  <2> QED
    BY <1>5, <1>8, <2>1 DEF ChainStep
<1>11. e[last] = Known(g.strs, last)
  BY <1>5, KnownInTable DEF e
<1>12. f[hi] = g.strs[k]
  BY <1>3, <1>4, <1>5, <1>9, <1>10, <1>11
<1> HIDE DEF k, x
<1>13. ASSUME NEW i \in 1 .. k PROVE f[Eof + i] = g.strs[i]
  <2>1. CASE i = k
    BY <1>3, <1>12, <2>1
  <2>2. CASE i # k
    <3>1. i \in 1 .. k - 1 /\ Eof + i \in Codes /\ Eof + i < hi
      BY <1>2, <1>3, <2>2, Sizes
    <3> QED
      BY <1>3, <1>9, <3>1
  <2> QED
    BY <2>1, <2>2
<1> QED
  BY <1>13

\* The counters get to the next point.
LEMMA AdvancedTo ==
    ASSUME DInv, NEW w, NEW data, NEW g \in LZWPoints, PointOK(data, g), AtPoint(g),
           NEW h, NEW c \in Codes, CodeOfString(w, data, c, g, h), Advance(c)
    PROVE  width' = h.wd /\ hi' = Eof + Len(h.strs) /\ last' = h.last
<1> DEFINE k == Len(g.strs)
<1>1. k \in Nat /\ Eof + k + 1 <= TableSize - 2 /\ g.wd \in LitWidth + 1 .. MaxWidth
  BY PointInTable
<1>2. hi = Eof + k /\ width = g.wd /\ overflow = Pow2[g.wd]
  BY DEF AtPoint, DInv, CodecOK
<1>3. /\ Len(h.strs) = k + 1 /\ h.last = c
      /\ h.wd = IF Eof + Len(h.strs) + 1 >= Pow2[g.wd] THEN g.wd + 1 ELSE g.wd
  BY DEF CodeOfString
<1> HIDE DEF k
<1>4. hi \in Nat /\ HiModulus \in Nat /\ hi < HiModulus /\ hi + 1 # HiModulus /\ hi + 1 \in Nat /\ hi + 1 < HiModulus
      /\ (hi + 1) + 1 # HiModulus /\ (hi + 1) + 1 < TableSize
  BY <1>1, <1>2, Sizes
<1>5. (hi + 1) % HiModulus = hi + 1
  BY <1>4, NextHi
<1>6. ((hi + 1) + 1) % HiModulus = (hi + 1) + 1
  BY <1>4, NextHi
<1>7. hi' = hi + 1 /\ (hi' + 1) % HiModulus = (hi + 1) + 1
  BY <1>5, <1>6 DEF Advance
<1>8. (hi + 1) + 1 = Eof + Len(h.strs) + 1 /\ hi + 1 = Eof + Len(h.strs)
  BY <1>1, <1>2, <1>3, Sizes
<1>9. CASE (hi + 1) + 1 >= overflow
  <2>1. width # MaxWidth
    <3>1. Pow2[MaxWidth] = TableSize
      BY DEF TableSize
    <3> QED
      BY <1>2, <1>4, <1>9, <3>1, Sizes
  <2>2. width' = width + 1 /\ last' = c
    BY <1>7, <1>9, <2>1 DEF Advance
  <2>3. h.wd = g.wd + 1
    BY <1>2, <1>3, <1>8, <1>9
  <2> QED
    BY <1>2, <1>3, <1>7, <1>8, <2>2, <2>3
<1>10. CASE ~ ((hi + 1) + 1 >= overflow)
  <2>1. width' = width /\ last' = c
    BY <1>7, <1>10 DEF Advance
  <2>2. h.wd = g.wd
    BY <1>2, <1>3, <1>8, <1>10
  <2> QED
    BY <1>2, <1>3, <1>7, <1>8, <2>1, <2>2
<1> QED
  BY <1>9, <1>10

\* A code of the encoder is decoded to its string.
LEMMA CodeDecoded ==
    ASSUME DInv, NEW w, NEW data \in Seq(Bytes), NEW g \in LZWPoints, PointOK(data, g), AtPoint(g),
           NEW h, NEW c \in Codes, CodeOfString(w, data, c, g, h), Decode(c)
    PROVE  /\ DInv' /\ AtPoint(h)' /\ UNCHANGED <<derr, dpc>> /\ toRead = <<>> /\ derr = "none"
           /\ Stored(output \o Known(g.strs, c))
<1> DEFINE s == Known(g.strs, c)
<1>1. /\ s \in Seq(Bytes) /\ Len(s) \in Nat \ {0} /\ s[1] = data[g.n + 1]
      /\ c <= hi /\ (c = hi => last # Invalid) /\ (c > Eof => Decoded(c) = s)
      /\ c < Clear \/ c > Eof
      /\ c < Pow2[width]
  BY DecodesCode
<1>2. c \in Nat /\ c # Clear /\ c # Eof
  BY <1>1, Sizes
<1>3. DInv'
  BY <1>1, <1>2, DecodeInv
<1>4. ~ IndexOutOfRange(c)
  <2> DEFINE k == Len(g.strs)
  <2>1. Eof + k + 1 <= TableSize - 2 /\ hi = Eof + k /\ k \in Nat
    BY PointInTable DEF AtPoint
  <2> HIDE DEF k
  <2>2. hi < TableSize
    BY <2>1, Sizes
  <2>3. ~ (hi >= TableSize)
    BY <2>1, <2>2, Sizes
  <2> QED
    BY <1>1, <2>3 DEF IndexOutOfRange
<1>5. ~ InvalidCode(c)
  <2>1. hi \in Nat
    BY Sizes DEF DInv, CodecOK
  <2>2. ~ (c > hi)
    BY <1>1, <1>2, <2>1
  <2> QED
    BY <2>2 DEF InvalidCode
<1>6. LiteralCode(c) \/ TableCode(c)
  BY <1>2, <1>4, <1>5 DEF Decode, ClearCode, EofCode
<1> HIDE DEF s
<1>7. /\ Save(c, s[1]) /\ Advance(c) /\ UNCHANGED <<derr, dpc>> /\ Decoding
      /\ Stored(output \o s)
  <2>1. CASE LiteralCode(c)
    <3>1. s = <<c>> /\ s[1] = c
      BY <2>1 DEF LiteralCode, Known, s
    <3>2. Append(output, c) = output \o <<c>>
      BY <1>2 DEF DInv, BufferOK
    <3> QED
      BY <2>1, <3>1, <3>2 DEF LiteralCode
  <2>2. CASE TableCode(c)
    <3>1. Decoded(c) = s
      BY <1>1, <2>2 DEF TableCode
    <3> QED
      BY <2>2, <3>1 DEF TableCode
  <2> QED
    BY <1>6, <2>1, <2>2
<1>8. width' = h.wd /\ hi' = Eof + Len(h.strs) /\ last' = h.last
  BY <1>7, AdvancedTo
<1>9. g.n < Len(data) /\ Len(h.strs) = Len(g.strs) + 1 /\ \A i \in 1 .. Len(g.strs) : h.strs[i] = g.strs[i]
  BY DEF CodeOfString
<1>10. \A i \in 1 .. Len(g.strs) : Chain(prefix', suffix')[Eof + i] = g.strs[i]
  BY <1>1, <1>3, <1>7, <1>9, EntrySaved
<1>11. \A i \in 1 .. Len(h.strs) - 1 : Chain(prefix', suffix')[Eof + i] = h.strs[i]
  <2>1. Len(h.strs) - 1 = Len(g.strs)
    <3>1. Len(g.strs) \in Nat
      BY PointInTable
    <3> QED
      BY <1>9, <3>1
  <2> QED
    BY <1>9, <1>10, <2>1
<1>12. AtPoint(h)'
  BY <1>8, <1>11 DEF AtPoint
<1> QED
  BY <1>3, <1>7, <1>12 DEF Decoding, s

\* The next unit of the stream, w digits of it, lies where they were written.
LEMMA NextBits ==
    ASSUME NEW w \in Seq(Digit), NEW at \in Nat, stream \in Seq(Digit), Lies(w, at, stream),
           NEW c \in Nat, NEW wd \in LitWidth + 1 .. MaxWidth, c < Pow2[wd], Lies(w, at, ToBits(c, wd)),
           Len(stream) >= wd
    PROVE  /\ FromBits(SubSeq(stream, 1, wd)) = c
           /\ SubSeq(stream, wd + 1, Len(stream)) \in Seq(Digit)
           /\ Lies(w, at + wd, SubSeq(stream, wd + 1, Len(stream)))
<1> DEFINE b == ToBits(c, wd)
           z == 0
<1>1. FromBits(b) = c /\ b \in Seq(Digit) /\ Len(b) = wd /\ wd \in Nat
  BY CodeReadsBack
<1>2. z \in Nat /\ at + z = at /\ z + Len(b) <= Len(stream) /\ wd <= Len(stream) /\ z = 0
  BY <1>1
<1> HIDE DEF b, z
<1>3. Lies(stream, z, b)
  <2>1. Lies(w, at + z, b)
    BY <1>2 DEF b
  <2> QED
    BY <1>1, <1>2, <2>1, LiesWithin
<1>4. Lies(stream, 0, b)
  BY <1>2, <1>3
<1>5. b = SubSeq(stream, 1, Len(b))
  BY <1>1, <1>4, LiesIsFirst
<1>6. /\ SubSeq(stream, wd + 1, Len(stream)) \in Seq(Digit)
      /\ Lies(w, at + wd, SubSeq(stream, wd + 1, Len(stream)))
  BY <1>1, <1>2, LiesOn
<1> QED
  BY <1>1, <1>5, <1>6

\* What the decoder holds grows by what it stores.
LEMMA StoredHeld ==
    ASSUME NEW n \in Nat, NEW s \in Seq(Bytes), input \in Seq(Bytes), received \in Seq(Bytes), output \in Seq(Bytes),
           toRead = <<>>, Lies(input, 0, Buffered), Len(Buffered) = n, Lies(input, n, s),
           Stored(output \o s), received' = received
    PROVE  Buffered' \in Seq(Bytes) /\ toRead' \in Seq(Bytes) /\ Lies(input, 0, Buffered') /\ Len(Buffered') = n + Len(s)
<1> DEFINE p == received \o output
           t == output \o s
           z == 0
<1>1. p \in Seq(Bytes) /\ Len(p) = Len(received) + Len(output) /\ Buffered = p
  <2>1. received \o <<>> = received
    OBVIOUS
  <2> QED
    BY <2>1, Joined DEF Buffered
<1>2. t \in Seq(Bytes)
  BY Joined
<1>3. Buffered' = received \o t
  <2>1. \/ toRead' = t /\ output' = <<>>
        \/ toRead' = <<>> /\ output' = t
    BY DEF Stored
  <2> HIDE DEF t
  <2>2. (received \o t) \o <<>> = received \o t /\ (received \o <<>>) \o t = received \o t
    BY <1>2
  <2> QED
    BY <2>1, <2>2 DEF Buffered
<1>4. received \o t = p \o s
  BY ConcatAssociative
<1>5. toRead' \in Seq(Bytes)
  <2>1. toRead' = t \/ toRead' = toRead
    BY DEF Stored
  <2> HIDE DEF t
  <2>2. <<>> \in Seq(Bytes)
    OBVIOUS
  <2> QED
    BY <1>2, <2>1, <2>2
<1>6. z \in Nat /\ n = z + Len(p) /\ Lies(input, z, p) /\ z = 0
  BY <1>1
<1> HIDE DEF p, t, z
<1>7. Lies(input, z, p \o s) /\ p \o s \in Seq(Bytes) /\ Len(p \o s) = Len(p) + Len(s)
  BY <1>1, <1>6, LiesJoined, Joined
<1> QED
  BY <1>1, <1>3, <1>4, <1>5, <1>6, <1>7

\* A code read takes the decoder to the next point, the code of the end to the end.
LEMMA ReadCodeInv ==
    ASSUME LZWInv, ReadCode
    PROVE  LZWInv'
<1> DEFINE code == FromBits(SubSeq(stream, 1, width))
           on == SubSeq(stream, width + 1, Len(stream))
<1>1. /\ closed /\ closed' = closed /\ input' = input /\ received' = received /\ stream' = on
      /\ Len(stream) >= width /\ Decode(code)
  BY DEF ReadCode, Reading
<1>2. Decoding
  BY <1>1 DEF Decode, LiteralCode, ClearCode, TableCode, IndexOutOfRange, EofCode, InvalidCode
<1>3. DInv /\ input \in Seq(Bytes) /\ received \in Seq(Bytes) /\ toRead = <<>> /\ derr = "none" /\ dpc = "run"
      /\ Lies(input, 0, Buffered) /\ LZWReading /\ output \in Seq(Bytes)
  BY <1>1, <1>2 DEF LZWInv, Decoding, DInv, BufferOK
<1>4. PICK w, P, e :
         /\ w \in Seq(Digit) /\ CodesTo(w, input, P, e) /\ Lies(w, e.at, ToBits(Eof, e.wd)) /\ stream \in Seq(Digit)
         /\ \E g \in P : AtPoint(g) /\ Lies(w, g.at, stream) /\ Len(Buffered) = g.n
  BY <1>3 DEF LZWReading
<1>5. PICK g \in P : AtPoint(g) /\ Lies(w, g.at, stream) /\ Len(Buffered) = g.n
  BY <1>4
<1>6. g \in LZWPoints /\ PointOK(input, g) /\ width = g.wd /\ g.at \in Nat /\ g.wd \in LitWidth + 1 .. MaxWidth /\ g.n \in Nat
  BY <1>4, <1>5 DEF CodesTo, AtPoint, LZWPoints
<1>7. Eof \in Nat /\ Clear \in Nat /\ Eof < Pow2[g.wd] /\ Clear < Pow2[g.wd]
  <2>1. 2 * Clear <= Pow2[g.wd] /\ Pow2[g.wd] \in Nat
    BY <1>6, Widths
  <2> QED
    BY <2>1, Sizes
<1>8. ASSUME NEW c \in Nat, c < Pow2[g.wd], Lies(w, g.at, ToBits(c, g.wd))
      PROVE  code = c /\ stream' \in Seq(Digit) /\ Lies(w, g.at + g.wd, stream')
  <2>1. /\ FromBits(SubSeq(stream, 1, g.wd)) = c
        /\ SubSeq(stream, g.wd + 1, Len(stream)) \in Seq(Digit)
        /\ Lies(w, g.at + g.wd, SubSeq(stream, g.wd + 1, Len(stream)))
    BY <1>1, <1>4, <1>5, <1>6, <1>8, NextBits
  <2> QED
    BY <1>1, <1>6, <2>1
<1> HIDE DEF code, on
<1>9. CASE g = e
  <2>1. code = Eof /\ stream' \in Seq(Digit)
    BY <1>4, <1>7, <1>8, <1>9
  <2>2. EofCode(code)
    BY <1>1, <2>1, Sizes DEF Decode, LiteralCode, ClearCode, TableCode, IndexOutOfRange, InvalidCode
  <2>3. /\ toRead' = output /\ output' = <<>> /\ derr' = "eof"
        /\ UNCHANGED <<width, hi, overflow, last, prefix, suffix, full, dpc>>
    BY <2>2 DEF EofCode, Flush, codec, table
  <2>4. DInv'
    BY <1>3, <2>3, EmptyBuffer
       DEF DInv, CodecOK, PrefixesDescend, LastBeforeHi, NotFull, PanicOnlyWhenFull, BufferOK
  <2>5. Buffered' = Buffered
    <3>1. (received \o <<>>) \o output = received \o output /\ (received \o output) \o <<>> = received \o output
      BY <1>3
    <3> QED
      BY <1>1, <1>3, <2>3, <3>1 DEF Buffered
  <2>6. LZWReading'
    BY <1>1, <1>4, <2>1, <2>3 DEF LZWReading
  <2> QED
    BY <1>1, <1>3, <2>3, <2>4, <2>5, <2>6 DEF LZWInv
<1>10. CASE g # e
  <2>1. PICK h \in P : CodeBetween(w, input, g, h)
    BY <1>4, <1>5, <1>10 DEF CodesTo
  <2>2. CASE ClearOfTable(w, g, h)
    <3>1. code = Clear /\ stream' \in Seq(Digit) /\ Lies(w, g.at + g.wd, stream')
      BY <1>7, <1>8, <2>2 DEF ClearOfTable
    <3>2. ClearCode(code)
      BY <1>1, <3>1, Sizes DEF Decode, LiteralCode, EofCode, TableCode, IndexOutOfRange, InvalidCode
    <3>3. DInv'
      <4>1. code \in Nat /\ code < Pow2[width]
        BY <1>6, <1>7, <3>1
      <4> QED
        BY <1>1, <1>3, <4>1, DecodeInv
    <3>4. /\ width' = LitWidth + 1 /\ hi' = Eof /\ last' = Invalid /\ UNCHANGED <<output, toRead, derr>>
      BY <3>2 DEF ClearCode, buffer
    <3>5. Buffered' = Buffered
      BY <1>1, <3>4 DEF Buffered
    <3>6. h.at = g.at + g.wd /\ h.n = g.n /\ h.strs = <<>> /\ h.wd = LitWidth + 1 /\ h.last = Invalid
      BY <2>2 DEF ClearOfTable, Start
    <3>7. AtPoint(h)'
      <4>1. Len(h.strs) = 0 /\ Eof + 0 = Eof
        BY <3>6, Sizes
      <4>2. 1 .. Len(h.strs) - 1 = {}
        BY <4>1
      <4> QED
        BY <3>4, <3>6, <4>1, <4>2 DEF AtPoint
    <3>8. LZWReading'
      <4>1. AtPoint(h)' /\ Lies(w, h.at, stream') /\ Len(Buffered') = h.n
        BY <1>5, <3>1, <3>5, <3>6, <3>7
      <4> QED
        BY <1>1, <1>4, <2>1, <3>1, <4>1 DEF LZWReading, AtPoint
    <3> QED
      BY <1>1, <1>3, <3>3, <3>4, <3>5, <3>8 DEF LZWInv
  <2>3. ASSUME NEW c \in Codes, CodeOfString(w, input, c, g, h) PROVE LZWInv'
    <3> DEFINE s == Known(g.strs, c)
    <3>1. c < Pow2[width] /\ c \in Nat /\ s \in Seq(Bytes)
      BY <1>3, <1>5, <1>6, <2>3, DecodesCode, Sizes
    <3>2. /\ Lies(w, g.at, ToBits(c, g.wd)) /\ Lies(input, g.n, s)
          /\ h.at = g.at + g.wd /\ h.n = g.n + Len(s)
      BY <2>3 DEF CodeOfString
    <3>3. code = c /\ stream' \in Seq(Digit) /\ Lies(w, g.at + g.wd, stream')
      BY <1>6, <1>8, <3>1, <3>2
    <3>4. Decode(c)
      BY <1>1, <3>3
    <3>5. DInv' /\ AtPoint(h)' /\ UNCHANGED <<derr, dpc>> /\ Stored(output \o s)
      BY <1>3, <1>5, <1>6, <2>3, <3>4, CodeDecoded
    <3> HIDE DEF s
    <3>6. toRead' \in Seq(Bytes) /\ Lies(input, 0, Buffered') /\ Len(Buffered') = h.n
      BY <1>1, <1>3, <1>5, <1>6, <3>1, <3>2, <3>5, StoredHeld
    <3>7. LZWReading'
      <4>1. AtPoint(h)' /\ Lies(w, h.at, stream') /\ Len(Buffered') = h.n
        BY <3>2, <3>3, <3>5, <3>6
      <4> QED
        BY <1>1, <1>4, <2>1, <3>3, <4>1 DEF LZWReading, AtPoint
    <3> QED
      BY <1>1, <1>3, <3>5, <3>6, <3>7 DEF LZWInv
  <2> QED
    BY <2>1, <2>2, <2>3 DEF CodeBetween
<1> QED
  BY <1>9, <1>10

\* A stream that is cut is an error, and what is held stays.
LEMMA ReadPastEndInv ==
    ASSUME LZWInv, ReadPastEnd
    PROVE  LZWInv'
<1>1. /\ closed /\ closed' = closed /\ input' = input /\ received' = received /\ stream' = stream
      /\ EndOfInput
  BY DEF ReadPastEnd, Reading
<1>2. /\ toRead = <<>> /\ toRead' = output /\ output' = <<>> /\ derr' = "unexpectedEOF"
      /\ UNCHANGED <<width, hi, overflow, last, prefix, suffix, full, dpc>>
  BY <1>1 DEF EndOfInput, Decoding, Flush, codec, table
<1>3. DInv /\ output \in Seq(Bytes) /\ received \in Seq(Bytes) /\ LZWReading
  BY <1>1 DEF LZWInv, DInv, BufferOK
<1>4. DInv'
  BY <1>2, <1>3, EmptyBuffer
     DEF DInv, CodecOK, PrefixesDescend, LastBeforeHi, NotFull, PanicOnlyWhenFull, BufferOK
<1>5. Buffered' = Buffered
  <2>1. (received \o <<>>) \o output = received \o output /\ (received \o output) \o <<>> = received \o output
    BY <1>3
  <2> QED
    BY <1>1, <1>2, <2>1 DEF Buffered
<1>6. LZWReading'
  <2>1. derr' # "none"
    BY <1>2
  <2> QED
    BY <1>1, <1>3, <2>1 DEF LZWReading
<1> QED
  BY <1>1, <1>2, <1>3, <1>4, <1>5, <1>6 DEF LZWInv

\* What the caller takes from the buffer it holds.
LEMMA ReceiveInv ==
    ASSUME LZWInv, Receive
    PROVE  LZWInv'
<1>1. PICK k : Read(k) /\ received' = received \o SubSeq(toRead, 1, k)
  BY DEF Receive
<1>2. closed /\ closed' = closed /\ input' = input /\ stream' = stream
  BY DEF Receive, Reading
<1> DEFINE a == SubSeq(toRead, 1, k)
           b == SubSeq(toRead, k + 1, Len(toRead))
<1>3. /\ k \in 1 .. Len(toRead) /\ toRead' = b /\ received' = received \o a
      /\ UNCHANGED <<width, hi, overflow, last, prefix, suffix, full, output, derr, dpc>>
  BY <1>1 DEF Read, codec, table
<1>4. DInv /\ output \in Seq(Bytes) /\ received \in Seq(Bytes) /\ toRead \in Seq(Bytes) /\ LZWReading
  BY <1>2 DEF LZWInv, DInv, BufferOK
<1>5. DInv'
  BY <1>3, <1>4 DEF DInv, CodecOK, PrefixesDescend, LastBeforeHi, NotFull, PanicOnlyWhenFull, BufferOK
<1>6. k \in Nat /\ k <= Len(toRead)
  BY <1>3
<1> DEFINE z == 0
           t == toRead
<1>7. a \in Seq(Bytes) /\ b \in Seq(Bytes) /\ a \o b = toRead
  <2>1. z \in Nat /\ Lies(t, z, t) /\ t \in Seq(Bytes) /\ z + k = k
    <3>1. \A i \in 1 .. Len(t) : 0 + i = i
      OBVIOUS
    <3>2. 0 + Len(t) <= Len(t)
      BY <1>4
    <3> QED
      BY <1>4, <1>6, <3>1, <3>2 DEF Lies
  <2> HIDE DEF z
  <2>2. b \in Seq(Bytes) /\ Len(b) = Len(t) - k /\ Lies(t, z + k, b)
    BY <1>6, <2>1, LiesOn
  <2>3. a \in Seq(Bytes)
    BY <1>4, <1>6, FirstPart
  <2> HIDE DEF b, t
  <2>4. SubSeq(t, 1, k) \o b = SubSeq(t, 1, k + Len(b))
    BY <1>6, <2>1, <2>2, FirstAndNext
  <2>5. k + Len(b) = Len(t) /\ SubSeq(t, 1, Len(t)) = t
    <3>1. Len(t) \in Nat
      BY <2>1
    <3>2. k + Len(b) = Len(t)
      BY <1>6, <2>2, <3>1
    <3> QED
      BY <2>1, <3>2
  <2> QED
    BY <2>2, <2>3, <2>4, <2>5 DEF t
<1> HIDE DEF a, b
<1>8. received' \in Seq(Bytes) /\ Buffered' = Buffered
  <2>1. (received \o a) \o b = received \o (a \o b)
    <3>1. a \in Seq(Bytes) /\ b \in Seq(Bytes) /\ received \in Seq(Bytes)
      BY <1>4, <1>7
    <3> QED
      BY <3>1, ConcatAssociative
  <2>2. received \o a \in Seq(Bytes)
    BY <1>4, <1>7, Joined
  <2> QED
    BY <1>3, <1>7, <2>1, <2>2 DEF Buffered
<1>9. LZWReading'
  BY <1>2, <1>3, <1>4, <1>8 DEF LZWReading, AtPoint
<1> QED
  BY <1>2, <1>3, <1>5, <1>7, <1>8, <1>9 DEF LZWInv

\* LZW: every step keeps the invariant.
LEMMA LZWNextInv ==
    ASSUME LZWInv, LZWNext, closed => todo = <<>>
    PROVE  LZWInv'
<1>1. CASE EncodeString
  <2>1. ~ closed
    BY <1>1 DEF EncodeString
  <2> QED
    BY <1>1, <2>1, EncodeStringInv
<1>2. CASE ReadAllEnds
  <2>1. /\ closed /\ closed' = closed /\ input' = input /\ received' = received /\ stream' = stream
        /\ UNCHANGED <<width, hi, overflow, last, prefix, suffix, full, output, toRead, derr, dpc>>
    BY <1>2 DEF ReadAllEnds, Reading, dvars, codec, table, buffer
  <2>2. DInv' /\ Buffered' = Buffered
    BY <2>1 DEF LZWInv, Buffered, DInv, CodecOK, PrefixesDescend, LastBeforeHi, NotFull, PanicOnlyWhenFull, BufferOK
  <2>3. LZWReading'
    BY <2>1, <2>2 DEF LZWInv, LZWReading, AtPoint
  <2> QED
    BY <2>1, <2>2, <2>3 DEF LZWInv
<1> QED
  BY <1>1, <1>2, EncodeEofInv, ReadCodeInv, ReadPastEndInv, ReceiveInv DEF LZWNext

-----------------------------------------------------------------------------
(***************************************************************************)
(* Group 4: the codes of runs, none of which begins another.               *)
(***************************************************************************)
\* How many numbers of 13 bits begin with the same l, and how many numbers have l bits.
Span   == <<4096, 2048, 1024, 512, 256, 128, 64, 32, 16, 8, 4, 2, 1>>
Powers == <<2, 4, 8, 16, 32, 64, 128, 256, 512, 1024, 2048, 4096, 8192>>

\* The number x of 13 bits begins with the code.
Begins(code, x) == code[2] * Span[code[1]] <= x /\ x < code[2] * Span[code[1]] + Span[code[1]]

\* A code is long enough for its value.
Fitting(code) == code[1] \in 1 .. 13 /\ code[2] \in Nat /\ code[2] < Powers[code[1]]

\* No code of a white run begins another.
LEMMA WhiteApart ==
    ASSUME NEW i \in 1 .. 91, NEW j \in 1 .. 91, NEW x \in Int, Begins(WhiteRuns[i], x), Begins(WhiteRuns[j], x)
    PROVE  i = j
  BY SMTT(60) DEF WhiteRuns, Begins, Span

\* No code of a black run begins another.
LEMMA BlackApart ==
    ASSUME NEW i \in 1 .. 91, NEW j \in 1 .. 91, NEW x \in Int, Begins(BlackRuns[i], x), Begins(BlackRuns[j], x)
    PROVE  i = j
  BY SMTT(60) DEF BlackRuns, Begins, Span

\* No code of a long run begins another.
LEMMA LongApart ==
    ASSUME NEW i \in 1 .. 13, NEW j \in 1 .. 13, NEW x \in Int, Begins(LongRuns[i], x), Begins(LongRuns[j], x)
    PROVE  i = j
  BY SMTT(60) DEF LongRuns, Begins, Span

\* No code of a long run begins one of the other tables, nor the other way round.
LEMMA TablesApart ==
    ASSUME NEW i \in 1 .. 91, NEW j \in 1 .. 13, NEW x \in Int, Begins(LongRuns[j], x)
    PROVE  ~ Begins(WhiteRuns[i], x) /\ ~ Begins(BlackRuns[i], x)
<1>1. ~ Begins(WhiteRuns[i], x)
  BY SMTT(60) DEF WhiteRuns, LongRuns, Begins, Span
<1>2. ~ Begins(BlackRuns[i], x)
  BY SMTT(60) DEF BlackRuns, LongRuns, Begins, Span
<1> QED
  BY <1>1, <1>2

\* Every code fits into the bits it is given with.
LEMMA RunsFit ==
    /\ \A i \in 1 .. 91 : Fitting(WhiteRuns[i]) /\ Fitting(BlackRuns[i])
    /\ \A i \in 1 .. 13 : Fitting(LongRuns[i])
<1>1. ASSUME NEW i \in 1 .. 91 PROVE Fitting(WhiteRuns[i])
  BY SMTT(60) DEF WhiteRuns, Fitting, Powers
<1>2. ASSUME NEW i \in 1 .. 91 PROVE Fitting(BlackRuns[i])
  BY SMTT(60) DEF BlackRuns, Fitting, Powers
<1>3. ASSUME NEW i \in 1 .. 13 PROVE Fitting(LongRuns[i])
  BY SMTT(60) DEF LongRuns, Fitting, Powers
<1> QED
  BY <1>1, <1>2, <1>3

\* The two tables one after the other.
LEMMA TableIs ==
    ASSUME NEW codes \in {WhiteCodes, BlackCodes}
    PROVE  \E short \in {WhiteRuns, BlackRuns} :
               /\ \A i \in 1 .. 91 : codes[i] = short[i]
               /\ \A i \in 92 .. 104 : codes[i] = LongRuns[i - 91] /\ i - 91 \in 1 .. 13
<1> DEFINE m == 91
           n == 13
<1>1. WhiteRuns \in Seq(Pairs) /\ Len(WhiteRuns) = m
  BY DEF WhiteRuns, Pairs
<1>2. BlackRuns \in Seq(Pairs) /\ Len(BlackRuns) = m
  BY DEF BlackRuns, Pairs
<1>3. LongRuns \in Seq(Pairs) /\ Len(LongRuns) = n
  BY DEF LongRuns, Pairs
<1>4. PICK short \in {WhiteRuns, BlackRuns} : codes = short \o LongRuns
  BY DEF WhiteCodes, BlackCodes
<1>5. m \in Nat /\ n \in Nat /\ \A i \in 92 .. 104 : i - 91 \in 1 .. n /\ m + (i - 91) = i
  OBVIOUS
<1> HIDE DEF m, n
<1>6. short \in Seq(Pairs) /\ Len(short) = m
  BY <1>1, <1>2
<1>7. /\ \A k \in 1 .. m : codes[k] = short[k]
      /\ \A k \in 1 .. n : codes[m + k] = LongRuns[k]
  BY <1>3, <1>4, <1>6, Joined
<1>8. \A i \in 92 .. 104 : codes[i] = LongRuns[i - 91] /\ i - 91 \in 1 .. n
  BY <1>5, <1>7
<1> QED
  BY <1>7, <1>8 DEF m, n

\* No code of a run of a colour begins another.
LEMMA CodesApart ==
    ASSUME NEW codes \in {WhiteCodes, BlackCodes}, NEW i \in 1 .. 104, NEW j \in 1 .. 104, NEW x \in Int,
           Begins(codes[i], x), Begins(codes[j], x)
    PROVE  i = j
<1>1. PICK short \in {WhiteRuns, BlackRuns} :
               /\ \A k \in 1 .. 91 : codes[k] = short[k]
               /\ \A k \in 92 .. 104 : codes[k] = LongRuns[k - 91] /\ k - 91 \in 1 .. 13
  BY TableIs
<1>2. CASE i \in 1 .. 91 /\ j \in 1 .. 91
  <2>1. Begins(short[i], x) /\ Begins(short[j], x)
    BY <1>1, <1>2
  <2> QED
    BY <1>2, <2>1, WhiteApart, BlackApart
<1>3. CASE i \in 92 .. 104 /\ j \in 92 .. 104
  <2>1. Begins(LongRuns[i - 91], x) /\ Begins(LongRuns[j - 91], x) /\ i - 91 \in 1 .. 13 /\ j - 91 \in 1 .. 13
    BY <1>1, <1>3
  <2>2. i - 91 = j - 91
    BY <2>1, LongApart
  <2> QED
    BY <2>2
<1>4. ASSUME NEW a \in 1 .. 91, NEW b \in 92 .. 104, Begins(codes[a], x), Begins(codes[b], x) PROVE FALSE
  <2>1. Begins(LongRuns[b - 91], x) /\ b - 91 \in 1 .. 13 /\ Begins(short[a], x)
    BY <1>1, <1>4
  <2> QED
    BY <2>1, TablesApart
<1>5. \A k \in 1 .. 104 : k \in 1 .. 91 \/ k \in 92 .. 104
  OBVIOUS
<1> QED
  BY <1>2, <1>3, <1>4, <1>5

\* Every code of a run of a colour fits into its bits.
LEMMA CodesFit ==
    ASSUME NEW codes \in {WhiteCodes, BlackCodes}, NEW i \in 1 .. 104
    PROVE  Fitting(codes[i])
<1>1. PICK short \in {WhiteRuns, BlackRuns} :
               /\ \A k \in 1 .. 91 : codes[k] = short[k]
               /\ \A k \in 92 .. 104 : codes[k] = LongRuns[k - 91] /\ k - 91 \in 1 .. 13
  BY TableIs
<1>2. CASE i \in 1 .. 91
  BY <1>1, <1>2, RunsFit
<1>3. CASE i \in 92 .. 104
  BY <1>1, <1>3, RunsFit
<1> QED
  BY <1>2, <1>3

\* The first l of 13 bits give the number that all of them begin with.
LEMMA FirstBits ==
    ASSUME NEW g, NEW b, \A i \in 1 .. 13 : b[i] \in Digit, Reads(g, 13, b), NEW l \in 1 .. 13
    PROVE  Begins(<<l, g[l]>>, g[13]) /\ g[13] \in Int /\ g[l] \in Nat
<1>1. \A i \in 0 .. 13 : g[i] \in Nat
  BY DEF Reads
<1>2. \A i \in 1 .. 13 : g[i] = 2 * g[i - 1] + b[i]
  BY DEF Reads
<1>3. \A i \in 1 .. 12 : 2 * g[i] <= g[i + 1] /\ g[i + 1] < 2 * g[i] + 2
  <2> SUFFICES ASSUME NEW i \in 1 .. 12 PROVE 2 * g[i] <= g[i + 1] /\ g[i + 1] < 2 * g[i] + 2
    OBVIOUS
  <2>1. i + 1 \in 1 .. 13 /\ i + 1 - 1 = i /\ i \in 0 .. 13 /\ i + 1 \in 0 .. 13
    OBVIOUS
  <2>2. g[i + 1] = 2 * g[i] + b[i + 1] /\ b[i + 1] \in Digit /\ g[i] \in Nat /\ g[i + 1] \in Nat
    BY <1>1, <1>2, <2>1
  <2> QED
    BY <2>2 DEF Digit
<1> DEFINE x == g[13]
<1>4. /\ 2 * g[12] <= x /\ x < 2 * g[12] + 2     /\ 2 * g[11] <= g[12] /\ g[12] < 2 * g[11] + 2
      /\ 2 * g[10] <= g[11] /\ g[11] < 2 * g[10] + 2 /\ 2 * g[9] <= g[10] /\ g[10] < 2 * g[9] + 2
      /\ 2 * g[8] <= g[9] /\ g[9] < 2 * g[8] + 2 /\ 2 * g[7] <= g[8] /\ g[8] < 2 * g[7] + 2
      /\ 2 * g[6] <= g[7] /\ g[7] < 2 * g[6] + 2 /\ 2 * g[5] <= g[6] /\ g[6] < 2 * g[5] + 2
      /\ 2 * g[4] <= g[5] /\ g[5] < 2 * g[4] + 2 /\ 2 * g[3] <= g[4] /\ g[4] < 2 * g[3] + 2
      /\ 2 * g[2] <= g[3] /\ g[3] < 2 * g[2] + 2 /\ 2 * g[1] <= g[2] /\ g[2] < 2 * g[1] + 2
  BY <1>3
<1>5. /\ x \in Nat /\ g[1] \in Nat /\ g[2] \in Nat /\ g[3] \in Nat /\ g[4] \in Nat /\ g[5] \in Nat /\ g[6] \in Nat
      /\ g[7] \in Nat /\ g[8] \in Nat /\ g[9] \in Nat /\ g[10] \in Nat /\ g[11] \in Nat /\ g[12] \in Nat
  BY <1>1
<1>6. g[l] * Span[l] <= x /\ x < g[l] * Span[l] + Span[l]
  <2> HIDE DEF x
  <2>1. /\ g[12] * 2 <= x /\ x < g[12] * 2 + 2          /\ g[11] * 4 <= x /\ x < g[11] * 4 + 4
        /\ g[10] * 8 <= x /\ x < g[10] * 8 + 8          /\ g[9] * 16 <= x /\ x < g[9] * 16 + 16
        /\ g[8] * 32 <= x /\ x < g[8] * 32 + 32         /\ g[7] * 64 <= x /\ x < g[7] * 64 + 64
        /\ g[6] * 128 <= x /\ x < g[6] * 128 + 128      /\ g[5] * 256 <= x /\ x < g[5] * 256 + 256
        /\ g[4] * 512 <= x /\ x < g[4] * 512 + 512      /\ g[3] * 1024 <= x /\ x < g[3] * 1024 + 1024
        /\ g[2] * 2048 <= x /\ x < g[2] * 2048 + 2048   /\ g[1] * 4096 <= x /\ x < g[1] * 4096 + 4096
    BY <1>4, <1>5
  <2>2. g[13] * 1 <= x /\ x < g[13] * 1 + 1
    BY <1>5 DEF x
  <2> QED
    BY <2>1, <2>2 DEF Span
<1>7. l \in 0 .. 13
  OBVIOUS
<1> QED
  BY <1>1, <1>5, <1>6, <1>7 DEF Begins, x

\* Powers holds powers of two.
LEMMA PowersOfTwo ==
    ASSUME NEW l \in 1 .. 13
    PROVE  \E p : Doubles(p, l) /\ p[l] = Powers[l]
<1> DEFINE p == [i \in 0 .. l |-> IF i = 0 THEN 1 ELSE Powers[i]]
<1>1. \A i \in 1 .. 13 : Powers[i] \in Nat
  BY DEF Powers
<1>2. Powers[1] = 2 /\ \A i \in 1 .. 12 : Powers[i + 1] = 2 * Powers[i]
  BY DEF Powers
<1>3. p \in [0 .. l -> Nat] /\ p[0] = 1 /\ p[l] = Powers[l]
  <2>1. \A i \in 0 .. l : (IF i = 0 THEN 1 ELSE Powers[i]) \in Nat
    <3> SUFFICES ASSUME NEW i \in 0 .. l, i # 0 PROVE Powers[i] \in Nat
      OBVIOUS
    <3>1. i \in 1 .. 13
      OBVIOUS
    <3> QED
      BY <1>1, <3>1
  <2>2. 0 \in 0 .. l /\ l \in 0 .. l /\ l # 0
    OBVIOUS
  <2> QED
    BY <2>1, <2>2
<1>4. ASSUME NEW i \in 0 .. l - 1 PROVE p[i + 1] = 2 * p[i]
  <2>1. i \in 0 .. l /\ i + 1 \in 0 .. l /\ i + 1 # 0 /\ (i = 0 \/ i \in 1 .. 12)
    OBVIOUS
  <2>2. p[i + 1] = Powers[i + 1]
    BY <2>1
  <2>3. CASE i = 0
    BY <1>2, <2>2, <2>3
  <2>4. CASE i # 0
    <3>1. p[i] = Powers[i] /\ i \in 1 .. 12
      BY <2>1, <2>4
    <3> QED
      BY <1>2, <2>2, <3>1
  <2> QED
    BY <2>3, <2>4
<1> HIDE DEF p
<1>5. Doubles(p, l)
  BY <1>3, <1>4 DEF Doubles
<1> QED
  BY <1>3, <1>5

\* The code that was written is the one that is found, because it is the only one that fits.
LEMMA CodeFound ==
    ASSUME NEW bits \in Seq(Digit), NEW at \in Nat, at + 13 <= Len(bits),
           NEW codes \in {WhiteCodes, BlackCodes}, NEW k \in 1 .. 104,
           Lies(bits, at, ToBits(codes[k][2], codes[k][1]))
    PROVE  CodeAt(bits, at, codes) = k
<1> DEFINE l == codes[k][1]
           n == codes[k][2]
<1>1. l \in 1 .. 13 /\ n \in Nat /\ n < Powers[l] /\ l \in Nat
  <2>1. Fitting(codes[k])
    BY CodesFit
  <2> QED
    BY <2>1 DEF Fitting
<1>2. Lies(bits, at, ToBits(n, l))
  OBVIOUS
<1> HIDE DEF l, n
<1> DEFINE b == [i \in 1 .. 13 |-> bits[at + i]]
<1>3. \A i \in 1 .. 13 : b[i] \in Digit
  <2> SUFFICES ASSUME NEW i \in 1 .. 13 PROVE bits[at + i] \in Digit
    OBVIOUS
  <2>1. at + i \in 1 .. Len(bits)
    OBVIOUS
  <2> QED
    BY <2>1
<1> DEFINE Counts(f) == f = [i \in 0 .. 13 |-> IF i = 0 THEN 0 ELSE 2 * f[i - 1] + bits[at + i]]
           value == CHOOSE f : Counts(f)
           Found(c) == IF c = 0 THEN \A j \in DOMAIN codes : codes[j][2] # value[codes[j][1]]
                       ELSE codes[c][2] = value[codes[c][1]]
<1>4. CodeAt(bits, at, codes) = CHOOSE c \in 0 .. Len(codes) : Found(c)
  BY DEF CodeAt
<1>5. \A f : Counts(f) <=> CountsBits(f, 13, b)
  <2> SUFFICES ASSUME NEW f PROVE Counts(f) <=> CountsBits(f, 13, b)
    OBVIOUS
  <2>1. \A i \in 0 .. 13 : i # 0 => b[i] = bits[at + i]
    OBVIOUS
  <2> HIDE DEF b
  <2>2. [i \in 0 .. 13 |-> IF i = 0 THEN 0 ELSE 2 * f[i - 1] + bits[at + i]]
          = [i \in 0 .. 13 |-> IF i = 0 THEN 0 ELSE 2 * f[i - 1] + b[i]]
    BY <2>1
  <2> QED
    BY <2>2 DEF CountsBits
<1>6. 13 \in Nat
  OBVIOUS
<1>7. \E f : CountsBits(f, 13, b)
  BY <1>3, <1>6, BitsCounted
<1>8. Counts(value)
  BY <1>5, <1>7
<1>9. Reads(value, 13, b)
  <2>1. CountsBits(value, 13, b)
    BY <1>5, <1>8
  <2> HIDE DEF value, b
  <2> QED
    BY <1>3, <1>6, <2>1, BitsCounted
<1> HIDE DEF value
<1>10. value[l] = n
  <2>1. PICK f : Halves(f, n, l) /\ ToBits(n, l) = [i \in 1 .. l |-> f[i] % 2]
    BY <1>1, ToBitsIs
  <2>2. PICK p : Doubles(p, l) /\ p[l] = Powers[l]
    BY <1>1, PowersOfTwo
  <2>3. f[0] = 0
    BY <1>1, <2>1, <2>2, HalvesEnd
  <2>4. \A i \in 1 .. l : b[i] = f[i] % 2
    <3> SUFFICES ASSUME NEW i \in 1 .. l PROVE b[i] = f[i] % 2
      OBVIOUS
    <3>1. i \in 1 .. 13 /\ i \in 1 .. Len(ToBits(n, l))
      BY <1>1, <2>1
    <3>2. bits[at + i] = ToBits(n, l)[i]
      BY <1>2, <3>1 DEF Lies
    <3> QED
      BY <2>1, <3>1, <3>2
  <2>5. l <= 13
    BY <1>1
  <2> HIDE DEF b
  <2> QED
    BY <1>1, <1>6, <1>9, <2>1, <2>3, <2>4, <2>5, ReadsBack
<1>11. DOMAIN codes = 1 .. 104 /\ Len(codes) = 104
  BY TablesTyped
<1>12. Found(k)
  BY <1>10 DEF l, n
<1>13. ASSUME NEW c \in 0 .. Len(codes), Found(c) PROVE c = k
  <2>1. c # 0
    <3> SUFFICES ASSUME c = 0 PROVE FALSE
      OBVIOUS
    <3>1. codes[k][2] # value[codes[k][1]]
      BY <1>11, <1>13
    <3> QED
      BY <3>1, <1>10 DEF l, n
  <2>2. c \in 1 .. 104 /\ codes[c][2] = value[codes[c][1]]
    BY <1>11, <1>13, <2>1
  <2>3. \A j \in 1 .. 104 : codes[j][2] = value[codes[j][1]] => Begins(codes[j], value[13])
    <3> SUFFICES ASSUME NEW j \in 1 .. 104, codes[j][2] = value[codes[j][1]]
                 PROVE  Begins(codes[j], value[13])
      OBVIOUS
    <3> DEFINE m == codes[j][1]
    <3>1. m \in 1 .. 13
      BY CodesFit DEF Fitting
    <3> HIDE DEF m, b
    <3>2. Begins(<<m, value[m]>>, value[13])
      BY <1>3, <1>9, <3>1, FirstBits
    <3> QED
      BY <3>2 DEF Begins, m
  <2>4. Begins(codes[c], value[13]) /\ Begins(codes[k], value[13])
    BY <1>10, <2>2, <2>3 DEF l, n
  <2>5. value[13] \in Int
    <3>1. 13 \in 1 .. 13
      OBVIOUS
    <3> HIDE DEF b
    <3> QED
      BY <1>3, <1>9, <3>1, FirstBits
  <2> QED
    BY <2>2, <2>4, <2>5, CodesApart
<1> HIDE DEF Found
<1>14. k \in 0 .. Len(codes)
  BY <1>11
<1> QED
  BY <1>4, <1>12, <1>13, <1>14

\* ... and then the run it is for has the colour's code for it in the table.
CodeIndex(n) == IF n < 64 THEN n + 1 ELSE n \div 64 + 64

\* The code of a run is the table's.
LEMMA CodeOfRun ==
    ASSUME NEW n \in Nat, n < 64 \/ (n \div 64 <= 40 /\ (64 * (n \div 64) = n)), NEW c
    PROVE  LET k == CodeIndex(n)
           IN  /\ k \in 1 .. 104 /\ RunAt(k) = n
               /\ CodeOf(n, c) = ToBits(CodesOf(c)[k][2], CodesOf(c)[k][1])
<1> DEFINE k == CodeIndex(n)
<1>1. CodeOf(n, c) = ToBits(CodesOf(c)[k][2], CodesOf(c)[k][1])
  BY DEF CodeOf, CodesOf, CodeIndex
<1>2. CASE n < 64
  <2>1. k = n + 1
    BY <1>2 DEF CodeIndex
  <2>2. k \in 1 .. 104 /\ RunAt(k) = n
    BY <1>2, <2>1 DEF RunAt
  <2> QED
    BY <1>1, <2>2
<1>3. CASE ~ (n < 64)
  <2> DEFINE q == n \div 64
  <2>1. q \in Nat /\ 64 * q = n /\ q <= 40
    BY <1>3
  <2>2. k = q + 64
    BY <1>3 DEF CodeIndex
  <2> HIDE DEF q
  <2>3. q > 0
    BY <1>3, <2>1
  <2>4. k \in 1 .. 104 /\ RunAt(k) = n
    BY <2>1, <2>2, <2>3 DEF RunAt
  <2> QED
    BY <1>1, <2>4
<1> QED
  BY <1>2, <1>3

\* The longest run of one code has a code.
LEMMA MostHasCode ==
    ASSUME NEW n \in Nat, ~ (n < 64)
    PROVE  /\ Most(n) \in Nat /\ 64 <= Most(n) /\ Most(n) <= n
           /\ Most(n) \div 64 <= 40 /\ 64 * (Most(n) \div 64) = Most(n)
<1> DEFINE q == n \div 64
<1>1. q \in Nat /\ 64 * q <= n /\ n < 64 * q + 64
  OBVIOUS
<1> HIDE DEF q
<1>2. (64 * q) \div 64 = q /\ 0 < q
  BY <1>1
<1>3. Most(n) = IF n > 2560 THEN 2560 ELSE 64 * q
  BY DEF Most, q
<1> QED
  BY <1>1, <1>2, <1>3

\* What is counted of a run, len bits at at, out of left: all of it, or no more than it.
Counted(r, run, at, len, left) ==
    r.count <= run /\ (r.ok => r.count = run /\ r.at = at + len /\ r.at + 24 <= left)

\* A code at a place of the bits that has 24 more of them.
LEMMA CodeRead ==
    ASSUME NEW w \in Seq(Digit), NEW bits \in Seq(Digit), NEW o \in Nat, Lies(w, o, bits),
           NEW n \in Nat, n < 64 \/ (n \div 64 <= 40 /\ (64 * (n \div 64) = n)), NEW c,
           NEW at \in Nat, at + 24 <= Len(bits), Lies(w, o + at, CodeOf(n, c))
    PROVE  /\ CodeHere(bits, CodesOf(c), at) # 0 /\ RunAt(CodeHere(bits, CodesOf(c), at)) = n
           /\ AfterCode(bits, CodesOf(c), at) = at + Len(CodeOf(n, c))
           /\ Len(CodeOf(n, c)) \in 1 .. 13
<1> DEFINE codes == CodesOf(c)
           k == CodeIndex(n)
           l == codes[k][1]
           v == codes[k][2]
           b == ToBits(v, l)
<1>1. codes \in {WhiteCodes, BlackCodes}
  BY DEF CodesOf
<1>2. k \in 1 .. 104 /\ RunAt(k) = n /\ CodeOf(n, c) = b
  BY CodeOfRun
<1> HIDE DEF k, codes
<1>3. l \in 1 .. 13 /\ v \in Nat
  BY <1>1, <1>2, CodesFit DEF Fitting
<1> HIDE DEF l, v
<1>4. b \in Seq(Digit) /\ Len(b) = l
  <2>1. l \in Nat
    BY <1>3
  <2> QED
    BY <1>3, <2>1, ToBitsTyped
<1>5. Lies(bits, at, b)
  <2>1. at + Len(b) <= Len(bits)
    BY <1>3, <1>4
  <2> HIDE DEF b
  <2> QED
    BY <1>2, <1>4, <2>1, LiesWithin
<1>6. CodeAt(bits, at, codes) = k
  <2>1. at + 13 <= Len(bits)
    OBVIOUS
  <2> QED
    BY <1>1, <1>2, <1>5, <2>1, CodeFound DEF l, v
<1> HIDE DEF b
<1>7. CodeHere(bits, codes, at) = k /\ AfterCode(bits, codes, at) = at + l
  BY <1>6 DEF CodeHere, AfterCode, l
<1>8. k # 0
  BY <1>2
<1> QED
  BY <1>2, <1>3, <1>4, <1>7, <1>8 DEF codes

\* A run that an encoder wrote is counted.
LEMMA RunRead ==
    ASSUME NEW w \in Seq(Digit), NEW bits \in Seq(Digit), NEW o \in Nat, Lies(w, o, bits),
           NEW run \in Nat, NEW c, NEW start \in Nat, start + 24 <= Len(bits),
           Lies(w, o + start, RunBits(run, c))
    PROVE  /\ RunLength(bits, start, c) \in Runs(Len(bits))
           /\ Counted(RunLength(bits, start, c), run, start, Len(RunBits(run, c)), Len(bits))
<1> DEFINE codes == CodesOf(c)
           left == Len(bits)
<1>1. PICK f : RunSteps(f, bits, codes) /\ \A s : RunLength(bits, s, c) = f[s]
  BY RunLengthIs
<1>2. PICK g : CodeSteps(g, run, c) /\ RunBits(run, c) = g[run]
  BY RunBitsIs
<1>3. \A n \in 0 .. run : g[n] \in Seq(Digit)
  BY <1>2, CodeStepsTyped
<1>4. \A s \in 0 .. left : f[s] \in Runs(left)
  <2> SUFFICES ASSUME NEW s \in 0 .. left PROVE f[s] \in Runs(left)
    OBVIOUS
  <2>1. RunLength(bits, s, c) \in Runs(left)
    BY RunLengthTyped
  <2> QED
    BY <1>1, <2>1
<1>5. left \in Nat /\ left = Len(bits)
  OBVIOUS
<1> HIDE DEF codes, left
<1>6. \A s \in 0 .. left : f[s] = RunStep(f, bits, codes, s)
  BY <1>1, <1>5 DEF RunSteps
<1> DEFINE Good(n) == \A at \in 0 .. left : at + 24 <= left /\ Lies(w, o + at, g[n])
                         => Counted(f[at], n, at, Len(g[n]), left)
           D == 0 .. run
           T == {n \in D : Good(n)}
           m == [n \in D |-> n]
<1>7. ASSUME NEW n \in D, \A d \in D : m[d] < m[n] => d \in T PROVE n \in T
  <2> SUFFICES ASSUME NEW at \in 0 .. left, at + 24 <= left, Lies(w, o + at, g[n])
               PROVE  Counted(f[at], n, at, Len(g[n]), left)
    OBVIOUS
  <2>1. g[n] = IF n < 64 THEN CodeOf(n, c) ELSE CodeOf(Most(n), c) \o g[n - Most(n)]
    BY <1>2 DEF CodeSteps
  <2> DEFINE k == CodeHere(bits, codes, at)
             next == AfterCode(bits, codes, at)
  <2>2. f[at] = IF k = 0 THEN [count |-> 0, at |-> at, ok |-> TRUE]
                ELSE IF left - next < 24 THEN [count |-> RunAt(k), at |-> at, ok |-> FALSE]
                ELSE IF RunAt(k) < 64 THEN [count |-> RunAt(k), at |-> next, ok |-> TRUE]
                ELSE [f[next] EXCEPT !.count = @ + RunAt(k)]
    BY <1>5, <1>6 DEF RunStep, CodeHere, AfterCode
  <2> HIDE DEF k, next
  <2>3. CASE n < 64
    <3>1. g[n] = CodeOf(n, c)
      BY <2>1, <2>3
    <3>2. k # 0 /\ RunAt(k) = n /\ next = at + Len(g[n]) /\ Len(g[n]) \in 1 .. 13
      <4>1. n \in Nat /\ at \in Nat /\ at + 24 <= Len(bits) /\ Lies(w, o + at, CodeOf(n, c))
        BY <1>5, <3>1
      <4> QED
        BY <2>3, <3>1, <4>1, CodeRead DEF k, next, codes
    <3>3. CASE left - next < 24
      <4>1. f[at] = [count |-> n, at |-> at, ok |-> FALSE]
        BY <2>2, <3>2, <3>3
      <4> QED
        BY <4>1 DEF Counted
    <3>4. CASE ~ (left - next < 24)
      <4>1. f[at] = [count |-> n, at |-> next, ok |-> TRUE]
        BY <2>2, <2>3, <3>2, <3>4
      <4>2. next + 24 <= left
        <5>1. next \in Int
          BY <3>2
        <5> QED
          BY <1>5, <3>4, <5>1
      <4> QED
        BY <3>2, <4>1, <4>2 DEF Counted
    <3> QED
      BY <3>3, <3>4
  <2>4. CASE ~ (n < 64)
    <3> DEFINE most == Most(n)
               code == CodeOf(most, c)
               rest == g[n - most]
    <3>1. /\ most \in Nat /\ 64 <= most /\ most <= n
          /\ most \div 64 <= 40 /\ (64 * (most \div 64) = most)
      BY <2>4, MostHasCode
    <3>2. g[n] = code \o rest
      BY <2>1, <2>4
    <3> HIDE DEF most
    <3>3. n - most \in D /\ m[n - most] < m[n]
      BY <3>1
    <3>4. rest \in Seq(Digit) /\ code \in Seq(Digit)
      BY <1>3, <3>1, <3>3, CodeOfTyped
    <3> HIDE DEF code, rest
    <3>5. Lies(g[n], 0, code) /\ Lies(g[n], Len(code), rest) /\ Len(g[n]) = Len(code) + Len(rest)
          /\ Len(code) \in Nat /\ Len(rest) \in Nat
      BY <3>2, <3>4, Joined, LiesFirst
    <3>6. Lies(w, o + at, code) /\ Lies(w, o + (at + Len(code)), rest)
      <4> DEFINE z == 0
      <4>1. Lies(g[n], z, code) /\ z \in Nat /\ o + at \in Nat /\ (o + at) + z = o + at
            /\ (o + at) + Len(code) = o + (at + Len(code)) /\ g[n] \in Seq(Digit)
        BY <1>3, <3>5
      <4> HIDE DEF z
      <4>2. Lies(w, (o + at) + z, code)
        BY <3>4, <4>1, LiesIn
      <4>3. Lies(w, (o + at) + Len(code), rest)
        BY <3>4, <3>5, <4>1, LiesIn
      <4> QED
        BY <4>1, <4>2, <4>3
    <3>7. k # 0 /\ RunAt(k) = most /\ next = at + Len(code) /\ Len(code) \in 1 .. 13
      <4>1. at \in Nat /\ at + 24 <= Len(bits) /\ Lies(w, o + at, CodeOf(most, c))
        BY <1>5, <3>6 DEF code
      <4>2. most \in Nat /\ (most < 64 \/ (most \div 64 <= 40 /\ (64 * (most \div 64) = most)))
        BY <3>1
      <4>3. /\ CodeHere(bits, CodesOf(c), at) # 0 /\ RunAt(CodeHere(bits, CodesOf(c), at)) = most
            /\ AfterCode(bits, CodesOf(c), at) = at + Len(CodeOf(most, c))
            /\ Len(CodeOf(most, c)) \in 1 .. 13
        BY <4>1, <4>2, CodeRead
      <4> QED
        BY <4>3 DEF k, next, codes, code
    <3>8. CASE left - next < 24
      <4>1. f[at] = [count |-> most, at |-> at, ok |-> FALSE]
        BY <2>2, <3>7, <3>8
      <4> QED
        BY <3>1, <4>1 DEF Counted
    <3>9. CASE ~ (left - next < 24)
      <4>1. f[at] = [f[next] EXCEPT !.count = @ + most]
        BY <2>2, <3>1, <3>7, <3>9
      <4>2. next \in 0 .. left /\ next + 24 <= left
        BY <1>5, <3>7, <3>9
      <4>3. n - most \in T
        BY <1>7, <3>3
      <4>4. Good(n - most)
        BY <4>3
      <4>5. Counted(f[next], n - most, next, Len(rest), left)
        BY <3>6, <3>7, <4>2, <4>4 DEF rest
      <4>6. f[next] \in Runs(left)
        BY <1>4, <4>2
      <4>7. f[at].count = f[next].count + most /\ f[at].ok = f[next].ok /\ f[at].at = f[next].at
            /\ f[next].count \in Nat /\ f[next].at \in Nat
        BY <4>1, <4>6 DEF Runs
      <4>8. f[at].count <= n
        BY <3>1, <4>5, <4>7 DEF Counted
      <4>9. ASSUME f[at].ok PROVE f[at].count = n /\ f[at].at = at + Len(g[n]) /\ f[at].at + 24 <= left
        <5>1. f[next].count = n - most /\ f[next].at = next + Len(rest) /\ f[next].at + 24 <= left
          BY <4>5, <4>7, <4>9 DEF Counted
        <5>2. next + Len(rest) = at + Len(g[n])
          BY <3>5, <3>7
        <5>3. n \in Nat
          OBVIOUS
        <5> QED
          BY <3>1, <4>7, <5>1, <5>2, <5>3
      <4> QED
        BY <4>8, <4>9 DEF Counted
    <3> QED
      BY <3>8, <3>9
  <2> QED
    BY <2>3, <2>4
<1>8. m \in [D -> Nat] /\ T \in SUBSET D /\ run \in D
  OBVIOUS
<1>9. Descends(D, m, T)
  BY <1>7 DEF Descends
<1>10. Good(run)
  <2>1. T = D
    <3> HIDE DEF D, T, m
    <3> QED
      BY <1>8, <1>9, Descent
  <2> QED
    BY <1>8, <2>1
<1>11. start \in 0 .. left /\ start + 24 <= left
  BY <1>5
<1>12. Counted(f[start], run, start, Len(g[run]), left)
  BY <1>2, <1>10, <1>11
<1> QED
  BY <1>1, <1>2, <1>4, <1>5, <1>11, <1>12

-----------------------------------------------------------------------------
(***************************************************************************)
(* Places where colours change.                                            *)
(***************************************************************************)
\* r is the first place from .. to - 1 with that colour, or to.
IsFirst(row, from, to, c, r) ==
    r \in from .. to /\ (\A i \in from .. r - 1 : row[i + 1] # c) /\ (r = to \/ row[r + 1] = c)

\* FirstOf gives the first place of a colour.
LEMMA FirstOfFirst ==
    ASSUME NEW row, NEW c, NEW to \in Nat, NEW from \in 0 .. to
    PROVE  IsFirst(row, from, to, c, FirstOf(row, from, to, c))
<1> DEFINE m == [b \in 0 .. to |-> to - b]
<1>1. PICK g : Scans(g, row, to, c) /\ \A s : FirstOf(row, s, to, c) = g[s]
  BY FirstOfIs
<1> DEFINE D == 0 .. to
           T == {b \in D : IsFirst(row, b, to, c, g[b])}
<1>2. ASSUME NEW b \in D, \A d \in D : m[d] < m[b] => d \in T PROVE b \in T
  <2>1. g[b] = IF b = to \/ row[b + 1] = c THEN b ELSE g[b + 1]
    BY <1>1 DEF Scans
  <2>2. CASE b = to \/ row[b + 1] = c
    <3>1. g[b] = b
      BY <2>1, <2>2
    <3>2. b \in b .. to /\ b .. b - 1 = {}
      OBVIOUS
    <3> QED
      BY <2>2, <3>1, <3>2 DEF IsFirst
  <2>3. CASE ~ (b = to \/ row[b + 1] = c)
    <3>1. g[b] = g[b + 1] /\ b + 1 \in D /\ m[b + 1] < m[b]
      BY <2>1, <2>3
    <3>2. IsFirst(row, b + 1, to, c, g[b + 1])
      BY <1>2, <3>1
    <3> DEFINE r == g[b + 1]
    <3>3. r \in b + 1 .. to /\ (\A i \in b + 1 .. r - 1 : row[i + 1] # c) /\ (r = to \/ row[r + 1] = c)
      BY <3>2 DEF IsFirst
    <3> HIDE DEF r
    <3>4. r \in b .. to /\ \A i \in b .. r - 1 : i = b \/ i \in b + 1 .. r - 1
      BY <3>3
    <3>5. IsFirst(row, b, to, c, r)
      BY <2>3, <3>3, <3>4 DEF IsFirst
    <3> QED
      BY <3>1, <3>5 DEF r
  <2> QED
    BY <2>2, <2>3
<1>3. m \in [D -> Nat] /\ T \in SUBSET D
  OBVIOUS
<1>4. Descends(D, m, T)
  BY <1>2 DEF Descends
<1>5. T = D
  <2> HIDE DEF D, T, m
  <2> QED
    BY <1>3, <1>4, Descent
<1>6. from \in T
  BY <1>5
<1> QED
  BY <1>1, <1>6

\* There is only one first place.
LEMMA OnlyFirst ==
    ASSUME NEW row, NEW c, NEW to \in Nat, NEW from \in 0 .. to,
           NEW r, IsFirst(row, from, to, c, r), NEW q, IsFirst(row, from, to, c, q)
    PROVE  r = q
<1>1. r \in from .. to /\ q \in from .. to
  BY DEF IsFirst
<1>2. ~ (r < q)
  <2> SUFFICES ASSUME r < q PROVE FALSE
    OBVIOUS
  <2>1. r \in from .. q - 1 /\ r # to
    BY <1>1
  <2> QED
    BY <2>1 DEF IsFirst
<1>3. ~ (q < r)
  <2> SUFFICES ASSUME q < r PROVE FALSE
    OBVIOUS
  <2>1. q \in from .. r - 1 /\ q # to
    BY <1>1
  <2> QED
    BY <2>1 DEF IsFirst
<1> QED
  BY <1>1, <1>2, <1>3

\* The places of a row that is k further on in t.
Shifted(s, t, k, from, to) == \A i \in from .. to - 1 : s[i + 1] = t[k + i + 1]

\* The first place in a part of the row is the one in the row.
LEMMA FirstMoved ==
    ASSUME NEW s, NEW t, NEW k \in Nat, NEW c, NEW to \in Nat, NEW from \in 0 .. to,
           Shifted(s, t, k, from, to)
    PROVE  FirstOf(t, k + from, k + to, c) = k + FirstOf(s, from, to, c)
<1> DEFINE r == FirstOf(s, from, to, c)
<1>1. IsFirst(s, from, to, c, r)
  BY FirstOfFirst
<1> HIDE DEF r
<1>2. r \in from .. to /\ (\A i \in from .. r - 1 : s[i + 1] # c) /\ (r = to \/ s[r + 1] = c)
  BY <1>1 DEF IsFirst
<1> DEFINE from2 == k + from
           to2 == k + to
           r2 == k + r
<1>4. to2 \in Nat /\ from2 \in 0 .. to2
  OBVIOUS
<1>3. IsFirst(t, from2, to2, c, r2)
  <2>1. r2 \in from2 .. to2
    BY <1>2
  <2>2. ASSUME NEW j \in from2 .. r2 - 1 PROVE t[j + 1] # c
    <3> DEFINE i == j - k
    <3>1. i \in from .. r - 1 /\ i \in from .. to - 1 /\ k + i + 1 = j + 1
      BY <1>2
    <3> HIDE DEF i
    <3>2. s[i + 1] = t[k + i + 1] /\ s[i + 1] # c
      BY <1>2, <3>1 DEF Shifted
    <3> QED
      BY <3>1, <3>2
  <2>3. r2 = to2 \/ t[r2 + 1] = c
    <3>1. CASE r = to
      BY <3>1
    <3>2. CASE r # to
      <4>1. r \in from .. to - 1
        BY <1>2, <3>2
      <4>2. s[r + 1] = t[k + r + 1] /\ s[r + 1] = c
        BY <1>2, <3>2, <4>1 DEF Shifted
      <4> QED
        BY <4>2
    <3> QED
      BY <3>1, <3>2
  <2> HIDE DEF from2, to2, r2
  <2> QED
    BY <2>1, <2>2, <2>3 DEF IsFirst
<1> HIDE DEF from2, to2, r2
<1>5. IsFirst(t, from2, to2, c, FirstOf(t, from2, to2, c))
  BY <1>4, FirstOfFirst
<1>6. FirstOf(t, from2, to2, c) = r2
  BY <1>3, <1>4, <1>5, OnlyFirst
<1> QED
  BY <1>6 DEF from2, to2, r, r2

-----------------------------------------------------------------------------
(***************************************************************************)
(* The encoder's path through the image.                                   *)
(***************************************************************************)
\* Where an encoder has come to: in the bits, and in the pixels behind the imaginary row.
FaxPoints == [at : Nat, here : Nat, fresh : BOOLEAN]

FaxPointOK(A, w, g) ==
    /\ g.here \in w .. Len(A)
    /\ g.fresh => g.here % w = 0
    /\ ~ g.fresh => g.here < Len(A)

\* The row that a place is in, the colour there, and the changing places in it and above it.
RowOf(w, h)  == (h \div w) * w
Shade(A, g)  == IF g.fresh THEN White ELSE A[g.here + 1]
A1(A, w, g)  == FirstOf(A, g.here, RowOf(w, g.here) + w, Flip(Shade(A, g)))
A2(A, w, g)  == FirstOf(A, A1(A, w, g), RowOf(w, g.here) + w, Shade(A, g))
U0(A, w, g)  == IF g.fresh THEN g.here - w ELSE FirstOf(A, g.here - w, RowOf(w, g.here), Shade(A, g))
U1(A, w, g)  == FirstOf(A, U0(A, w, g), RowOf(w, g.here), Flip(Shade(A, g)))
U2(A, w, g)  == FirstOf(A, U1(A, w, g), RowOf(w, g.here), Shade(A, g))

\* A whole image, with the imaginary row.
Image(A, w) == w \in Nat \ {0} /\ A \in Seq(Colors) /\ Len(A) % w = 0

\* A row that has begun ends in the image.
LEMMA RowEnds ==
    ASSUME NEW w \in Nat \ {0}, NEW len \in Nat, len % w = 0, NEW h \in Nat, h < len
    PROVE  /\ RowOf(w, h) \in Nat /\ RowOf(w, h) <= h /\ h < RowOf(w, h) + w
           /\ RowOf(w, h) + w <= len /\ (RowOf(w, h) + w) % w = 0
<1> DEFINE q == len \div w
           k == h \div w
<1>1. q \in Nat /\ len = w * q
  <2>1. len \div w \in Nat /\ len = w * (len \div w) + (len % w)
    OBVIOUS
  <2> QED
    BY <2>1
<1>2. k * w \in Nat /\ k * w <= h /\ h < k * w + w /\ (k * w + w) % w = 0
  BY RowArithmetic
<1>3. k \in Nat
  OBVIOUS
<1> HIDE DEF q, k
<1>4. k < q
  <2> SUFFICES ASSUME q <= k PROVE FALSE
    BY <1>1, <1>3
  <2> DEFINE s == k * w
  <2>1. len <= s
    BY <1>1, <1>3
  <2>2. s <= h
    BY <1>2
  <2>3. s \in Nat
    BY <1>2
  <2> HIDE DEF s
  <2> QED
    BY <2>1, <2>2, <2>3
<1>5. k * w + w <= w * q
  <2>1. k + 1 <= q
    BY <1>1, <1>3, <1>4
  <2>2. (k + 1) * w <= q * w
    BY <1>1, <1>3, <2>1
  <2>3. (k + 1) * w = k * w + w /\ q * w = w * q
    BY <1>1, <1>3
  <2> QED
    BY <2>2, <2>3
<1> QED
  BY <1>1, <1>2, <1>5 DEF RowOf, k

\* The other colour, in both directions.
LEMMA OtherColor == ASSUME NEW c \in Colors, NEW d \in Colors PROVE (d # Flip(c) <=> d = c) /\ Flip(Flip(c)) = c
  BY DEF Colors, Flip, White, Black

\* What the changing places of the row are.
RowRuns(A, w, g) ==
    LET here == g.here
        end  == RowOf(w, g.here) + w
        a1   == A1(A, w, g)
        a2   == A2(A, w, g)
        c    == Shade(A, g)
    IN  /\ c \in Colors /\ end \in Nat /\ end <= Len(A) /\ here < end /\ end % w = 0
        /\ RowOf(w, here) \in Nat /\ RowOf(w, here) <= here
        /\ a1 \in here .. end /\ a2 \in a1 .. end
        /\ \A i \in here .. a1 - 1 : A[i + 1] = c
        /\ \A i \in a1 .. a2 - 1 : A[i + 1] = Flip(c)
        /\ a1 < end => A[a1 + 1] = Flip(c)
        /\ a2 < end => A[a2 + 1] = c

\* The changing places of the row being coded, in order.
LEMMA RunsOfRow ==
    ASSUME NEW A, NEW w, Image(A, w), NEW g \in FaxPoints, FaxPointOK(A, w, g), g.here < Len(A)
    PROVE  RowRuns(A, w, g)
<1> DEFINE here == g.here
           len  == Len(A)
           row  == RowOf(w, g.here)
           end  == RowOf(w, g.here) + w
           a1   == A1(A, w, g)
           a2   == A2(A, w, g)
           c    == Shade(A, g)
<1>1. w \in Nat \ {0} /\ A \in Seq(Colors) /\ len \in Nat /\ len % w = 0 /\ here \in Nat /\ here < len
  BY DEF Image, FaxPoints
<1>2. row \in Nat /\ row <= here /\ here < row + w /\ row + w <= len /\ (row + w) % w = 0 /\ end = row + w
  BY <1>1, RowEnds
<1>3. \A i \in 0 .. len - 1 : A[i + 1] \in Colors
  <2> SUFFICES ASSUME NEW i \in 0 .. len - 1 PROVE A[i + 1] \in Colors
    OBVIOUS
  <2>1. i + 1 \in 1 .. Len(A)
    OBVIOUS
  <2> QED
    BY <1>1, <2>1
<1>4. c \in Colors
  <2>1. here \in 0 .. len - 1
    BY <1>1
  <2>2. White \in Colors
    BY DEF Colors
  <2> QED
    BY <1>3, <2>1, <2>2 DEF Shade
<1>5. a1 = FirstOf(A, here, end, Flip(c)) /\ a2 = FirstOf(A, a1, end, c)
  BY DEF A1, A2
<1> HIDE DEF here, len, row, end, a1, a2, c
<1>6. IsFirst(A, here, end, Flip(c), a1)
  <2>1. end \in Nat /\ here \in 0 .. end
    BY <1>1, <1>2
  <2> QED
    BY <1>5, <2>1, FirstOfFirst
<1>7. a1 \in here .. end /\ (\A i \in here .. a1 - 1 : A[i + 1] # Flip(c)) /\ (a1 = end \/ A[a1 + 1] = Flip(c))
  BY <1>6 DEF IsFirst
<1>8. IsFirst(A, a1, end, c, a2)
  <2>1. end \in Nat /\ a1 \in 0 .. end
    BY <1>1, <1>2, <1>7
  <2> QED
    BY <1>5, <2>1, FirstOfFirst
<1>9. a2 \in a1 .. end /\ (\A i \in a1 .. a2 - 1 : A[i + 1] # c) /\ (a2 = end \/ A[a2 + 1] = c)
  BY <1>8 DEF IsFirst
<1>10. ASSUME NEW i \in here .. a1 - 1 PROVE A[i + 1] = c
  <2>1. i \in 0 .. len - 1
    BY <1>1, <1>2, <1>7
  <2> QED
    BY <1>3, <1>4, <1>7, <2>1, OtherColor
<1>11. ASSUME NEW i \in a1 .. a2 - 1 PROVE A[i + 1] = Flip(c)
  <2>1. i \in 0 .. len - 1
    BY <1>1, <1>2, <1>7, <1>9
  <2>2. A[i + 1] \in Colors /\ A[i + 1] # c /\ Flip(c) \in Colors
    BY <1>3, <1>4, <1>9, <2>1, FlipTyped
  <2> QED
    BY <1>4, <2>2, OtherColor
<1> DEFINE All ==
        /\ c \in Colors /\ end \in Nat /\ end <= len /\ here < end /\ end % w = 0
        /\ row \in Nat /\ row <= here
        /\ a1 \in here .. end /\ a2 \in a1 .. end
        /\ \A i \in here .. a1 - 1 : A[i + 1] = c
        /\ \A i \in a1 .. a2 - 1 : A[i + 1] = Flip(c)
        /\ a1 < end => A[a1 + 1] = Flip(c)
        /\ a2 < end => A[a2 + 1] = c
<1>12. All
  <2>1. (a1 < end => A[a1 + 1] = Flip(c)) /\ (a2 < end => A[a2 + 1] = c)
    <3>1. end \in Nat /\ a1 \in here .. end /\ a2 \in a1 .. end
      BY <1>1, <1>2, <1>7, <1>9
    <3> QED
      BY <1>7, <1>9, <3>1
  <2>2. end \in Nat /\ end <= len /\ here < end /\ end % w = 0
    BY <1>1, <1>2
  <2> QED
    BY <1>2, <1>4, <1>7, <1>9, <1>10, <1>11, <2>1, <2>2
<1> QED
  BY <1>12 DEF RowRuns, here, len, row, end, a1, a2, c

-----------------------------------------------------------------------------
(***************************************************************************)
(* Group 4: what an encoder wrote.  A point has the place in the stream and*)
(* in the image, below its imaginary row, and whether the row is begun anew.*)
(***************************************************************************)
\* A mode leads from a point to a place p.
ByPass(A, w, g, p, code) == U2(A, w, g) + w < A1(A, w, g) /\ p = U2(A, w, g) + w /\ code = PassCode

ByVertical(A, w, g, p, code, d) ==
    d = A1(A, w, g) - w - U1(A, w, g) /\ p = A1(A, w, g) /\ code = VerticalCode(d)

ByHorizontal(A, w, g, p, code) ==
    /\ p = A2(A, w, g)
    /\ code = (HorizontalCode \o RunBits(A1(A, w, g) - g.here, Shade(A, g)))
                  \o RunBits(A2(A, w, g) - A1(A, w, g), Flip(Shade(A, g)))

FaxMode(A, w, g, p, code) ==
    \/ ByPass(A, w, g, p, code)
    \/ \E d \in -3 .. 3 : ByVertical(A, w, g, p, code, d)
    \/ ByHorizontal(A, w, g, p, code)

\* The changing places above are above.
UpperRuns(A, w, g) ==
    /\ U0(A, w, g) \in g.here - w .. RowOf(w, g.here) /\ U0(A, w, g) \in 0 .. RowOf(w, g.here)
    /\ U1(A, w, g) \in U0(A, w, g) .. RowOf(w, g.here) /\ U1(A, w, g) \in 0 .. RowOf(w, g.here)
    /\ U2(A, w, g) \in U1(A, w, g) .. RowOf(w, g.here) /\ g.here - w \in 0 .. RowOf(w, g.here)

\* The changing places of the row above.
LEMMA RunsAbove ==
    ASSUME NEW A, NEW w, Image(A, w), NEW g \in FaxPoints, FaxPointOK(A, w, g), g.here < Len(A)
    PROVE  UpperRuns(A, w, g)
<1> DEFINE here == g.here
           len  == Len(A)
           row  == RowOf(w, g.here)
           u0   == U0(A, w, g)
           u1   == U1(A, w, g)
           u2   == U2(A, w, g)
           c    == Shade(A, g)
           d    == Flip(Shade(A, g))
           up   == g.here - w
<1>1. w \in Nat \ {0} /\ A \in Seq(Colors) /\ len \in Nat /\ len % w = 0 /\ here \in Nat /\ here < len /\ w <= here
  BY DEF Image, FaxPoints, FaxPointOK
<1>2. row \in Nat /\ row <= here /\ here < row + w
  BY <1>1, RowEnds
<1>3. up = here - w
  OBVIOUS
<1>4. u0 = (IF g.fresh THEN up ELSE FirstOf(A, up, row, c)) /\ u1 = FirstOf(A, u0, row, d) /\ u2 = FirstOf(A, u1, row, c)
  BY DEF U0, U1, U2
<1> HIDE DEF here, len, row, u0, u1, u2, c, d, up
<1>5. up \in 0 .. row
  BY <1>1, <1>2, <1>3
<1>6. u0 \in up .. row
  <2>1. FirstOf(A, up, row, c) \in up .. row
    BY <1>2, <1>5, FirstOfBetween
  <2>2. up \in up .. row
    BY <1>2, <1>5
  <2> QED
    BY <1>4, <2>1, <2>2
<1>7. u0 \in 0 .. row
  BY <1>2, <1>5, <1>6
<1>8. u1 \in u0 .. row
  BY <1>2, <1>4, <1>7, FirstOfBetween
<1>9. u1 \in 0 .. row
  BY <1>2, <1>7, <1>8
<1>10. u2 \in u1 .. row
  BY <1>2, <1>4, <1>9, FirstOfBetween
<1> QED
  BY <1>3, <1>5, <1>6, <1>7, <1>8, <1>9, <1>10 DEF UpperRuns, here, row, u0, u1, u2, up

\* The point that a mode leads to.
ModeEnd(w, g, p, at) == [at |-> at, here |-> p, fresh |-> (p = RowOf(w, g.here) + w)]

\* A mode leads to a place in the same row, and to a point.
LEMMA ModeLeads ==
    ASSUME NEW A, NEW w, Image(A, w), NEW g \in FaxPoints, FaxPointOK(A, w, g), g.here < Len(A),
           NEW p, NEW code, FaxMode(A, w, g, p, code), NEW at \in Nat
    PROVE  /\ p \in g.here .. RowOf(w, g.here) + w /\ code \in Seq(Digit)
           /\ ModeEnd(w, g, p, at) \in FaxPoints /\ FaxPointOK(A, w, ModeEnd(w, g, p, at))
<1> DEFINE here == g.here
           len  == Len(A)
           row  == RowOf(w, g.here)
           end  == RowOf(w, g.here) + w
           a1   == A1(A, w, g)
           a2   == A2(A, w, g)
           u1   == U1(A, w, g)
           u2   == U2(A, w, g)
           c    == Shade(A, g)
<1>1. w \in Nat \ {0} /\ len \in Nat /\ here \in Nat /\ w <= here /\ here < len
  BY DEF Image, FaxPoints, FaxPointOK
<1>2. /\ end \in Nat /\ end <= len /\ here < end /\ end % w = 0
      /\ a1 \in here .. end /\ a2 \in a1 .. end
  BY RunsOfRow DEF RowRuns
<1>3. u2 \in u1 .. row /\ u1 \in 0 .. row /\ here - w \in 0 .. row /\ u1 \in U0(A, w, g) .. row
      /\ U0(A, w, g) \in here - w .. row
  BY RunsAbove DEF UpperRuns
<1>4. here - w <= u2 /\ u2 \in Nat
  BY <1>1, <1>3
<1> HIDE DEF here, len, row, end, a1, a2, u1, u2, c
<1>5. ASSUME ByPass(A, w, g, p, code) PROVE p \in here .. end /\ code \in Seq(Digit)
  <2>1. u2 + w < a1 /\ p = u2 + w /\ code = PassCode
    BY <1>5 DEF ByPass, u2, a1
  <2>2. p \in here .. end
    BY <1>1, <1>2, <1>4, <2>1
  <2>3. PassCode \in Seq(Digit)
    BY DEF PassCode, Digit
  <2> QED
    BY <2>1, <2>2, <2>3
<1>6. ASSUME \E d \in -3 .. 3 : ByVertical(A, w, g, p, code, d) PROVE p \in here .. end /\ code \in Seq(Digit)
  <2>1. PICK d \in -3 .. 3 : p = a1 /\ code = VerticalCode(d)
    BY <1>6 DEF ByVertical, a1
  <2> QED
    BY <1>2, <2>1, VerticalCodeTyped
<1>7. ASSUME ByHorizontal(A, w, g, p, code) PROVE p \in here .. end /\ code \in Seq(Digit)
  <2>1. p = a2 /\ code = (HorizontalCode \o RunBits(a1 - here, c)) \o RunBits(a2 - a1, Flip(c))
    BY <1>7 DEF ByHorizontal, a1, a2, c, here
  <2>2. p \in here .. end /\ a1 - here \in Nat /\ a2 - a1 \in Nat
    BY <1>1, <1>2, <2>1
  <2>3. RunBits(a1 - here, c) \in Seq(Digit) /\ RunBits(a2 - a1, Flip(c)) \in Seq(Digit)
    BY <2>2, RunBitsTyped
  <2>4. HorizontalCode \in Seq(Digit)
    BY DEF HorizontalCode, Digit
  <2>5. HorizontalCode \o RunBits(a1 - here, c) \in Seq(Digit)
    BY <2>3, <2>4, ConcatProperties
  <2>6. code \in Seq(Digit)
    BY <2>1, <2>3, <2>5, ConcatProperties
  <2> QED
    BY <2>2, <2>6
<1>8. p \in here .. end /\ code \in Seq(Digit)
  BY <1>5, <1>6, <1>7 DEF FaxMode
<1> DEFINE h == ModeEnd(w, g, p, at)
<1>9. h.at = at /\ h.here = p /\ h.fresh = (p = end) /\ h \in FaxPoints
  <2>1. p \in Nat
    BY <1>1, <1>2, <1>8
  <2> QED
    BY <2>1 DEF ModeEnd, FaxPoints, end
<1> HIDE DEF h
<1>10. FaxPointOK(A, w, h)
  <2>1. h.here \in w .. len /\ (h.fresh => h.here % w = 0) /\ (~ h.fresh => h.here < len)
    <3>1. p \in here .. end /\ end % w = 0 /\ end <= len /\ w <= here
      BY <1>1, <1>2, <1>8
    <3>2. h.here \in w .. len
      BY <1>1, <1>2, <1>9, <3>1
    <3>3. h.fresh => h.here % w = 0
      BY <1>9, <3>1
    <3>4. ~ h.fresh => h.here < len
      <4> SUFFICES ASSUME ~ h.fresh PROVE h.here < len
        OBVIOUS
      <4>1. p # end
        BY <1>9
      <4> QED
        BY <1>1, <1>2, <1>9, <3>1, <4>1
    <3> QED
      BY <3>2, <3>3, <3>4
  <2> QED
    BY <2>1 DEF FaxPointOK, len
<1> QED
  BY <1>8, <1>9, <1>10 DEF here, end, h

\* The row after another.
LEMMA NextRow ==
    ASSUME NEW w \in Nat \ {0}, NEW n \in Nat
    PROVE  RowOf(w, w + n) = RowOf(w, n) + w
<1> DEFINE q == n \div w
           r == n % w
<1>1. q \in Nat /\ r \in 0 .. w - 1 /\ n = w * q + r
  OBVIOUS
<1> HIDE DEF q, r
<1>2. (w + n) \div w = q + 1
  <2>1. w + n = w * (q + 1) + r
    BY <1>1
  <2>2. q + 1 \in Nat
    BY <1>1
  <2> DEFINE k == q + 1
  <2> HIDE DEF k
  <2>3. (w * k + r) \div w = k
    BY <1>1, <2>2 DEF k
  <2> QED
    BY <2>1, <2>3 DEF k
<1>3. (q + 1) * w = q * w + w
  BY <1>1
<1> QED
  BY <1>2, <1>3 DEF RowOf, q

\* The image with its imaginary row.
All(w) == WhiteRow(w) \o input

\* The image with its imaginary row is of whole rows.
LEMMA AllIs ==
    ASSUME NEW w \in Nat \ {0}, input \in Seq(Colors), Len(input) % w = 0
    PROVE  /\ Image(All(w), w) /\ Len(All(w)) = w + Len(input)
           /\ WhiteRow(w) \in Seq(Colors) /\ Len(WhiteRow(w)) = w
           /\ Lies(All(w), 0, WhiteRow(w)) /\ Lies(All(w), w, input)
<1>1. WhiteRow(w) \in Seq(Colors) /\ Len(WhiteRow(w)) = w
  BY DEF WhiteRow, Colors
<1>2. All(w) \in Seq(Colors) /\ Len(All(w)) = w + Len(input)
  BY <1>1, Joined DEF All
<1>3. Lies(All(w), 0, WhiteRow(w)) /\ Lies(All(w), w, input)
  BY <1>1, LiesFirst DEF All
<1>4. (w + Len(input)) % w = 0
  <2> DEFINE n == Len(input)
             q == n \div w
  <2>1. n \in Nat /\ n % w = 0
    OBVIOUS
  <2>2. q \in Nat /\ n = w * q
    <3>1. n \div w \in Nat /\ n = w * (n \div w) + (n % w)
      BY <2>1
    <3> QED
      BY <2>1, <3>1
  <2> HIDE DEF n, q
  <2>3. w + n = w * (q + 1)
    BY <2>2
  <2>4. \A k \in Nat : (w * k) % w = 0
    OBVIOUS
  <2>5. q + 1 \in Nat
    BY <2>2
  <2> QED
    BY <2>3, <2>4, <2>5 DEF n
<1> QED
  BY <1>1, <1>2, <1>3, <1>4 DEF Image

\* The rows of the input are whole.
WholeRows == Len(input) % columns = 0

\* The encoder's point.
Written(w) == [at |-> Len(stream), here |-> w + (Len(input) - Len(todo)), fresh |-> fresh]

\* A row is a part of the image.
PartOf(row, s, start, w) == row = SubSeq(s, start + 1, start + w)

\* The places in a row and in the one above it are those in the image.
LEMMA PlacesInRow ==
    ASSUME NEW A, NEW w \in Nat \ {0}, w = columns, NEW start \in Nat, NEW line \in Nat, line = w + start,
           NEW a0 \in 0 .. w, NEW row, \A i \in 0 .. w - 1 : row[i + 1] = A[line + i + 1],
           NEW over, \A i \in 0 .. w - 1 : over[i + 1] = A[start + i + 1],
           NEW g, g.here = line + a0, g.fresh = fresh, RowOf(w, g.here) = line,
           NEW s, s = Shade(A, g), NEW mode \in ModesAt(row, over, a0, s)
    PROVE  FaxMode(A, w, g, line + mode[1], mode[2])
<1>15. \A i \in 0 .. w - 1 : row[i + 1] = A[line + i + 1]
  OBVIOUS
<1>8. \A i \in 0 .. w - 1 : over[i + 1] = A[start + i + 1]
  OBVIOUS
<1> DEFINE c  == Flip(s)
           x1 == FirstOf(row, a0, w, c)
           x2 == FirstOf(row, x1, w, s)
           y0 == IF fresh THEN a0 ELSE FirstOf(over, a0, w, s)
           y1 == FirstOf(over, y0, w, c)
           y2 == FirstOf(over, y1, w, s)
           coded == HorizontalCode \o RunBits(x1 - a0, s) \o RunBits(x2 - x1, c)
<1>10. mode \in (IF y2 < x1 THEN {<<y2, PassCode>>}
                 ELSE {<<x1, VerticalCode(d)>> : d \in {x1 - y1} \cap -3 .. 3} \cup {<<x2, coded>>})
  BY DEF ModesAt
<1> DEFINE here == g.here
           a1 == A1(A, w, g)
           a2 == A2(A, w, g)
           u0 == U0(A, w, g)
           u1 == U1(A, w, g)
           u2 == U2(A, w, g)
           end == line + w
           up == here - w
<1>11. /\ a1 = FirstOf(A, here, end, c) /\ a2 = FirstOf(A, a1, end, s)
       /\ u0 = (IF fresh THEN up ELSE FirstOf(A, up, line, s))
       /\ u1 = FirstOf(A, u0, line, c) /\ u2 = FirstOf(A, u1, line, s)
  BY DEF A1, A2, U0, U1, U2
<1> HIDE DEF a1, a2, u0, u1, u2, x1, x2, y0, y1, y2, c
<1>12. here = line + a0 /\ end = line + w /\ up = start + a0 /\ line = start + w
  OBVIOUS
<1>13. x1 = FirstOf(row, a0, w, c) /\ x2 = FirstOf(row, x1, w, s)
       /\ y0 = (IF fresh THEN a0 ELSE FirstOf(over, a0, w, s))
       /\ y1 = FirstOf(over, y0, w, c) /\ y2 = FirstOf(over, y1, w, s)
  BY DEF x1, x2, y0, y1, y2, c
<1>14. w \in Nat /\ w \in Int /\ coded = (HorizontalCode \o RunBits(x1 - a0, s)) \o RunBits(x2 - x1, c)
  OBVIOUS
<1> HIDE DEF coded
<1> HIDE DEF here, end, up
<1>16. a1 = line + x1 /\ x1 \in a0 .. w
  <2>1. Shifted(row, A, line, a0, w)
    BY <1>14, <1>15 DEF Shifted
  <2>2. FirstOf(A, line + a0, line + w, c) = line + FirstOf(row, a0, w, c)
    BY <1>14, <2>1, FirstMoved
  <2>3. FirstOf(row, a0, w, c) \in a0 .. w
    BY <1>14, FirstOfBetween
  <2> QED
    BY <1>11, <1>12, <1>13, <2>2, <2>3
<1>17. a2 = line + x2 /\ x2 \in x1 .. w
  <2>1. x1 \in 0 .. w
    BY <1>14, <1>16
  <2>2. Shifted(row, A, line, x1, w)
    BY <1>14, <1>15, <2>1 DEF Shifted
  <2>3. FirstOf(A, line + x1, line + w, s) = line + FirstOf(row, x1, w, s)
    BY <1>14, <2>1, <2>2, FirstMoved
  <2>4. FirstOf(row, x1, w, s) \in x1 .. w
    BY <1>14, <2>1, FirstOfBetween
  <2> QED
    BY <1>11, <1>12, <1>13, <1>16, <2>3, <2>4
<1>18. u0 = start + y0 /\ y0 \in a0 .. w
  <2>1. Shifted(over, A, start, a0, w)
    BY <1>8, <1>14 DEF Shifted
  <2>4. FirstOf(A, start + a0, start + w, s) = start + FirstOf(over, a0, w, s)
    BY <1>14, <2>1, FirstMoved
  <2>5. FirstOf(over, a0, w, s) \in a0 .. w
    BY <1>14, FirstOfBetween
  <2>2. FirstOf(A, up, line, s) = start + FirstOf(over, a0, w, s) /\ FirstOf(over, a0, w, s) \in a0 .. w
    BY <1>12, <2>4, <2>5
  <2>3. a0 \in a0 .. w
    BY <1>14
  <2> QED
    BY <1>11, <1>12, <1>13, <2>2, <2>3
<1>19. u1 = start + y1 /\ y1 \in y0 .. w
  <2>1. y0 \in 0 .. w
    BY <1>14, <1>18
  <2>2. Shifted(over, A, start, y0, w)
    BY <1>8, <1>14, <2>1 DEF Shifted
  <2>3. FirstOf(A, start + y0, start + w, c) = start + FirstOf(over, y0, w, c)
    BY <1>14, <2>1, <2>2, FirstMoved
  <2>4. FirstOf(over, y0, w, c) \in y0 .. w
    BY <1>14, <2>1, FirstOfBetween
  <2> QED
    BY <1>11, <1>12, <1>13, <1>18, <2>3, <2>4
<1>20. u2 = start + y2 /\ y2 \in y1 .. w
  <2>1. y1 \in 0 .. w
    BY <1>14, <1>18, <1>19
  <2>2. Shifted(over, A, start, y1, w)
    BY <1>8, <1>14, <2>1 DEF Shifted
  <2>3. FirstOf(A, start + y1, start + w, s) = start + FirstOf(over, y1, w, s)
    BY <1>14, <2>1, <2>2, FirstMoved
  <2>4. FirstOf(over, y1, w, s) \in y1 .. w
    BY <1>14, <2>1, FirstOfBetween
  <2> QED
    BY <1>11, <1>12, <1>13, <1>19, <2>3, <2>4
<1>21. /\ a0 \in Int /\ x1 \in Int /\ x2 \in Int /\ y0 \in Int /\ y1 \in Int /\ y2 \in Int /\ start \in Int /\ line \in Int /\ w \in Int
  BY <1>14, <1>16, <1>17, <1>18, <1>19, <1>20
<1>22. /\ x1 - y1 = a1 - w - u1 /\ (y2 < x1 <=> u2 + w < a1) /\ line + y2 = u2 + w
       /\ x1 - a0 = a1 - here /\ x2 - x1 = a2 - a1
  BY <1>12, <1>16, <1>17, <1>18, <1>19, <1>20, <1>21
<1> DEFINE p == line + mode[1]
<1>23. FaxMode(A, w, g, p, mode[2])
  <2>1. ASSUME y2 < x1, mode = <<y2, PassCode>> PROVE ByPass(A, w, g, p, mode[2])
    <3>1. p = line + y2 /\ mode[2] = PassCode
      BY <2>1
    <3> HIDE DEF p
    <3> QED
      BY <1>22, <2>1, <3>1 DEF ByPass, u2, a1
  <2>2. ASSUME NEW d \in {x1 - y1} \cap -3 .. 3, mode = <<x1, VerticalCode(d)>>
        PROVE  \E e \in -3 .. 3 : ByVertical(A, w, g, p, mode[2], e)
    <3>1. p = line + x1 /\ mode[2] = VerticalCode(d) /\ d = x1 - y1 /\ d \in -3 .. 3
      BY <2>2
    <3> HIDE DEF p
    <3>2. ByVertical(A, w, g, p, mode[2], d)
      BY <1>16, <1>22, <3>1 DEF ByVertical, u1, a1
    <3> QED
      BY <3>1, <3>2
  <2>3. ASSUME mode = <<x2, coded>> PROVE ByHorizontal(A, w, g, p, mode[2])
    <3>1. p = line + x2 /\ mode[2] = coded
      BY <2>3
    <3>2. coded = (HorizontalCode \o RunBits(a1 - here, s)) \o RunBits(a2 - a1, Flip(s))
      BY <1>14, <1>22 DEF c
    <3> HIDE DEF p
    <3> QED
      BY <1>17, <3>1, <3>2 DEF ByHorizontal, a1, a2, here
  <2> HIDE DEF p
  <2> QED
    BY <1>10, <2>1, <2>2, <2>3 DEF FaxMode
<1> QED
  BY <1>23

\* The modes it has to choose from lead where it goes.
LEMMA EncoderLeads ==
    ASSUME columns \in Nat \ {0}, input \in Seq(Colors), todo \in Seq(Colors), WholeRows,
           0 < Len(todo), Len(todo) <= Len(input), FaxPointOK(All(columns), columns, Written(columns)),
           NEW n \in Nat, n = Len(input) - Len(todo), NEW start, start = RowOf(columns, n),
           NEW a0, a0 = n - start,
           NEW row, PartOf(row, input, start, columns),
           NEW over, PartOf(over, All(columns), start, columns),
           NEW s, s = (IF fresh THEN White ELSE row[a0 + 1]), NEW mode \in ModesAt(row, over, a0, s)
    PROVE  /\ FaxMode(All(columns), columns, Written(columns), columns + start + mode[1], mode[2])
           /\ RowOf(columns, Written(columns).here) = columns + start
           /\ start \in Nat /\ a0 \in 0 .. columns - 1
<1> DEFINE w    == columns
           A    == All(columns)
           g    == Written(columns)
           line == columns + start
           len  == Len(input)
<1>1. w \in Nat \ {0} /\ A \in Seq(Colors) /\ Len(A) = w + len /\ Lies(A, w, input)
  BY AllIs DEF Image, WholeRows
<1>2. len \in Nat /\ n < len /\ len % w = 0
  BY DEF WholeRows
<1>3. start \in Nat /\ start <= n /\ n < start + w /\ start + w <= len
  <2> HIDE DEF len
  <2>1. RowOf(w, n) \in Nat /\ RowOf(w, n) <= n /\ n < RowOf(w, n) + w /\ RowOf(w, n) + w <= len
    BY <1>1, <1>2, RowEnds
  <2> QED
    BY <2>1
<1>4. RowOf(w, w + n) = line /\ line \in Nat
  <2>1. RowOf(w, w + n) = RowOf(w, n) + w
    BY NextRow
  <2>2. line = start + w /\ line \in Nat
    BY <1>3
  <2> QED
    BY <2>1, <2>2
<1>5. a0 \in 0 .. w - 1 /\ line + a0 = w + n /\ a0 \in 0 .. w
  BY <1>3
<1>6. g.here = w + n /\ g.fresh = fresh /\ line = w + start /\ w = columns
  BY DEF Written
<1>7. \A i \in 0 .. w - 1 : row[i + 1] = A[line + i + 1]
  <2> SUFFICES ASSUME NEW i \in 0 .. w - 1 PROVE row[i + 1] = A[line + i + 1]
    OBVIOUS
  <2> DEFINE from == start + 1
             to == start + w
  <2>1. from \in Int /\ to \in Nat /\ 1 <= from /\ from <= to + 1 /\ to <= len /\ to - from + 1 = w
        /\ from + (i + 1) - 1 = start + i + 1 /\ i + 1 \in 1 .. w
    BY <1>3
  <2>2. row = SubSeq(input, from, to)
    BY DEF PartOf
  <2> HIDE DEF from, to
  <2>3. SubSeq(input, from, to) = [k \in 1 .. to - from + 1 |-> input[from + k - 1]]
    BY <2>1, SubSeqIs
  <2>4. row[i + 1] = input[start + i + 1]
    BY <2>1, <2>2, <2>3
  <2>5. start + i + 1 \in 1 .. Len(input) /\ w + (start + i + 1) = line + i + 1
    BY <1>2, <1>3
  <2>6. A[w + (start + i + 1)] = input[start + i + 1]
    BY <1>1, <2>5 DEF Lies
  <2> QED
    BY <2>4, <2>5, <2>6
<1>8. \A i \in 0 .. w - 1 : over[i + 1] = A[start + i + 1]
  <2> SUFFICES ASSUME NEW i \in 0 .. w - 1 PROVE over[i + 1] = A[start + i + 1]
    OBVIOUS
  <2> DEFINE from == start + 1
             to == start + w
  <2>1. /\ from \in Int /\ to \in Nat /\ 1 <= from /\ from <= to + 1 /\ to - from + 1 = w
        /\ from + (i + 1) - 1 = start + i + 1 /\ i + 1 \in 1 .. w
    BY <1>3
  <2>4. to <= w + len
    <3> HIDE DEF len
    <3> QED
      BY <1>2, <1>3
  <2>2. over = SubSeq(A, from, to)
    BY DEF PartOf
  <2> HIDE DEF from, to, A
  <2>3. SubSeq(A, from, to) = [k \in 1 .. to - from + 1 |-> A[from + k - 1]]
    BY <1>1, <2>1, <2>4, SubSeqIs
  <2> QED
    BY <2>1, <2>2, <2>3
<1>9. s = Shade(A, g)
  <2>1. row[a0 + 1] = A[line + a0 + 1]
    BY <1>5, <1>7
  <2>2. line + a0 + 1 = g.here + 1
    BY <1>5, <1>6
  <2> HIDE DEF A, g, line
  <2> QED
    BY <1>6, <2>1, <2>2 DEF Shade
<1>10. mode \in ModesAt(row, over, a0, s) /\ g.here = line + a0 /\ RowOf(w, g.here) = line
  BY <1>4, <1>5, <1>6
<1>11. FaxMode(A, w, g, line + mode[1], mode[2])
  <2> HIDE DEF A, w, g, line
  <2> QED
    BY <1>1, <1>3, <1>4, <1>5, <1>6, <1>7, <1>8, <1>9, <1>10, PlacesInRow
<1> QED
  BY <1>3, <1>5, <1>10, <1>11

\* A mode of the bits between two points, and all of them, up to e.
ModeBetween(A, w, bits, g, h) ==
    /\ g.here < Len(A)
    /\ \E p, code : /\ FaxMode(A, w, g, p, code) /\ code \in Seq(Digit)
                    /\ Lies(bits, g.at, code) /\ h = ModeEnd(w, g, p, g.at + Len(code))

FaxStart(w) == [at |-> 0, here |-> w, fresh |-> TRUE]

ModesTo(A, w, bits, P, e) ==
    /\ P \subseteq FaxPoints /\ FaxStart(w) \in P /\ e \in P
    /\ \A g \in P : FaxPointOK(A, w, g)
    /\ \A g \in P : g = e \/ \E h \in P : ModeBetween(A, w, bits, g, h)

\* The image begins behind the imaginary row.
LEMMA FaxStartIsPoint ==
    ASSUME NEW A, NEW w, Image(A, w), w <= Len(A)
    PROVE  FaxStart(w) \in FaxPoints /\ FaxPointOK(A, w, FaxStart(w))
<1>1. w \in Nat \ {0} /\ Len(A) \in Nat
  BY DEF Image
<1>2. \A n \in Nat \ {0} : n % n = 0
  OBVIOUS
<1>3. w % w = 0 /\ w \in w .. Len(A)
  BY <1>1, <1>2
<1> QED
  BY <1>1, <1>3 DEF FaxStart, FaxPoints, FaxPointOK

\* The modes lie in whatever their bits lie in.
LEMMA ModesLie ==
    ASSUME NEW b \in Seq(Digit), NEW v \in Seq(Digit), NEW A, NEW w, NEW P, NEW e,
           ModesTo(A, w, b, P, e), Lies(v, 0, b)
    PROVE  /\ ModesTo(A, w, v, P, e)
           /\ \A g \in P, h \in P : ModeBetween(A, w, b, g, h) => ModeBetween(A, w, v, g, h)
<1>1. ASSUME NEW g \in P, NEW h \in P, ModeBetween(A, w, b, g, h) PROVE ModeBetween(A, w, v, g, h)
  <2>1. PICK p, code : /\ FaxMode(A, w, g, p, code) /\ code \in Seq(Digit)
                       /\ Lies(b, g.at, code) /\ h = ModeEnd(w, g, p, g.at + Len(code))
    BY <1>1 DEF ModeBetween
  <2>2. g.at \in Nat
    BY DEF ModesTo, FaxPoints
  <2> DEFINE z == 0
             at == g.at
  <2>3. z \in Nat /\ at \in Nat /\ z + at = at /\ Lies(v, z, b) /\ Lies(b, at, code)
    BY <2>1, <2>2
  <2> HIDE DEF z, at
  <2>4. Lies(v, z + at, code)
    BY <2>1, <2>3, LiesIn
  <2>5. Lies(v, g.at, code)
    BY <2>3, <2>4 DEF at
  <2> QED
    BY <1>1, <2>1, <2>5 DEF ModeBetween
<1>2. ModesTo(A, w, v, P, e)
  BY <1>1 DEF ModesTo
<1> QED
  BY <1>1, <1>2

\* A mode behind all the others.
LEMMA ModeAdded ==
    ASSUME NEW b \in Seq(Digit), NEW v \in Seq(Digit), NEW A, NEW w, NEW P, NEW e,
           ModesTo(A, w, b, P, e), Lies(v, 0, b), NEW h \in FaxPoints, FaxPointOK(A, w, h),
           ModeBetween(A, w, v, e, h)
    PROVE  ModesTo(A, w, v, P \cup {h}, h)
<1>1. \A g \in P, d \in P : ModeBetween(A, w, b, g, d) => ModeBetween(A, w, v, g, d)
  BY ModesLie
<1> DEFINE Q == P \cup {h}
<1>2. Q \subseteq FaxPoints /\ FaxStart(w) \in Q /\ h \in Q /\ \A g \in Q : FaxPointOK(A, w, g)
  BY DEF ModesTo
<1>3. \A g \in Q : g = h \/ \E d \in Q : ModeBetween(A, w, v, g, d)
  <2> SUFFICES ASSUME NEW g \in P PROVE \E d \in Q : ModeBetween(A, w, v, g, d)
    OBVIOUS
  <2>1. CASE g = e
    BY <2>1
  <2>2. CASE g # e
    <3>1. PICK d \in P : ModeBetween(A, w, b, g, d)
      BY <2>2 DEF ModesTo
    <3>2. ModeBetween(A, w, v, g, d) /\ d \in Q
      BY <1>1, <3>1
    <3> QED
      BY <3>2
  <2> QED
    BY <2>1, <2>2
<1> HIDE DEF Q
<1>4. ModesTo(A, w, v, Q, h)
  BY <1>2, <1>3 DEF ModesTo
<1> QED
  BY <1>4 DEF Q

-----------------------------------------------------------------------------
(***************************************************************************)
(* Group 4.                                                                *)
(***************************************************************************)
G4Typed ==
    /\ columns \in Nat \ {0} /\ input \in Seq(Colors) /\ todo \in Seq(Colors)
    /\ Len(todo) <= Len(input) /\ WholeRows /\ stream \in Seq(Digit) /\ pixels \in Seq(Colors)

\* The decoder has painted the pixels before g.
AtFaxPoint(A, w, g) == Len(pixels) = g.here /\ atNewLine = g.fresh /\ color = Shade(A, g)

G4Writing ==
    /\ pixels = WhiteRow(columns) /\ atNewLine = TRUE /\ color = White /\ result = "none"
    /\ \E P : ModesTo(All(columns), columns, stream, P, Written(columns))

\* The bits are b, of which the ones from g on are left.
G4ReadingOf(b, P, e, g) ==
    /\ b \in Seq(Digit) /\ ModesTo(All(columns), columns, b, P, e) /\ g \in P
    /\ e.here = Len(All(columns)) /\ Lies(b, e.at, EndOfFacsimile)
    /\ Lies(b, g.at, stream) /\ AtFaxPoint(All(columns), columns, g)

G4Inv ==
    /\ G4Typed
    /\ Lies(All(columns), 0, pixels) /\ columns <= Len(pixels)
    /\ received = <<>> \/ received = Stripped(pixels)
    /\ result = "none" => received = <<>>
    /\ ~ closed => G4Writing
    /\ closed /\ result = "none" => \E b, P, e, g : G4ReadingOf(b, P, e, g)

\* Nothing written is a path of no modes.
LEMMA InitG4 ==
    ASSUME NEW w \in Nat \ {0}, NEW s \in Seq(Colors), Len(s) % w = 0,
           FaxInit(w), CodedInit("G4", s, <<>>, FALSE)
    PROVE  G4Inv
<1>1. /\ columns = w /\ pixels = WhiteRow(w) /\ atNewLine = TRUE /\ color = White /\ fresh = TRUE
      /\ input = s /\ todo = s /\ closed = FALSE /\ stream = <<>> /\ received = <<>> /\ result = "none"
  BY DEF FaxInit, CodedInit
<1>2. /\ Image(All(w), w) /\ Len(All(w)) = w + Len(input)
      /\ WhiteRow(w) \in Seq(Colors) /\ Len(WhiteRow(w)) = w
      /\ Lies(All(w), 0, WhiteRow(w))
  BY <1>1, AllIs
<1>3. Len(s) \in Nat /\ <<>> \in Seq(Digit) /\ Len(<<>>) = 0
  OBVIOUS
<1>4. G4Typed
  BY <1>1, <1>2, <1>3 DEF G4Typed, WholeRows
<1>5. Written(w) = FaxStart(w)
  <2>1. Len(s) - Len(s) = 0 /\ w + 0 = w
    BY <1>3
  <2> QED
    BY <1>1, <1>3, <2>1 DEF Written, FaxStart
<1>6. FaxStart(w) \in FaxPoints /\ FaxPointOK(All(w), w, FaxStart(w))
  <2>1. w <= Len(All(w))
    BY <1>1, <1>2, <1>3
  <2> QED
    BY <1>2, <2>1, FaxStartIsPoint
<1>7. ModesTo(All(w), w, stream, {FaxStart(w)}, FaxStart(w))
  BY <1>6 DEF ModesTo
<1>8. G4Writing
  BY <1>1, <1>5, <1>7 DEF G4Writing
<1> QED
  BY <1>1, <1>2, <1>4, <1>8 DEF G4Inv

\* The mode that is written is the next one of the path.
LEMMA EncodeModeInv ==
    ASSUME G4Inv, EncodeMode, ~ closed
    PROVE  G4Inv'
<1> DEFINE w     == columns
           A     == All(columns)
           g     == Written(columns)
           n     == Len(input) - Len(todo)
           start == RowOf(columns, n)
           a0    == n - start
           row   == SubSeq(input, start + 1, start + columns)
           over  == SubSeq(All(columns), start + 1, start + columns)
           s     == IF fresh THEN White ELSE row[a0 + 1]
<1>1. /\ UNCHANGED <<input, received, result, closed, columns, pixels, atNewLine, color>>
      /\ todo # <<>> /\ result = "none"
  BY DEF EncodeMode, Encoding, G4Inv, G4Writing
<1>2. /\ columns \in Nat \ {0} /\ input \in Seq(Colors) /\ todo \in Seq(Colors) /\ Len(todo) <= Len(input)
      /\ WholeRows /\ stream \in Seq(Digit) /\ pixels \in Seq(Colors)
  BY DEF G4Inv, G4Typed
<1>3. PICK P : ModesTo(A, w, stream, P, g)
  BY DEF G4Inv, G4Writing
<1>4. g \in FaxPoints /\ FaxPointOK(A, w, g) /\ g \in P
  BY <1>3 DEF ModesTo
<1>5. Len(todo) \in Nat /\ Len(input) \in Nat /\ 0 < Len(todo) /\ n \in Nat /\ n < Len(input)
  BY <1>1, <1>2
<1>6. PICK mode \in ModesAt(row, over, a0, s) :
        /\ todo' = SubSeq(todo, mode[1] - a0 + 1, Len(todo))
        /\ fresh' = (mode[1] = columns) /\ stream' = stream \o mode[2]
  BY DEF EncodeMode, All, RowOf
<1>7. PartOf(row, input, start, w) /\ PartOf(over, A, start, w)
  BY DEF PartOf
<1>8. Image(A, w) /\ Len(A) = w + Len(input)
  BY <1>2, AllIs DEF WholeRows
<1>9. n = Len(input) - Len(todo) /\ start = RowOf(w, n) /\ a0 = n - start /\ s = (IF fresh THEN White ELSE row[a0 + 1])
      /\ g.here = w + n /\ g.at = Len(stream) /\ g.fresh = fresh
  BY DEF Written
<1> HIDE DEF row, over, s, a0, start, n
<1> DEFINE m    == mode[1]
           code == mode[2]
           line == w + start
           p    == w + start + mode[1]
<1>10. FaxMode(A, w, g, p, code) /\ RowOf(w, g.here) = line /\ start \in Nat /\ a0 \in 0 .. w - 1
  BY <1>2, <1>4, <1>5, <1>6, <1>7, <1>9, EncoderLeads
<1>11. m \in a0 .. w /\ code \in Seq(Digit)
  <2>1. columns \in Nat /\ a0 \in 0 .. columns
    BY <1>2, <1>10
  <2> QED
    BY <1>6, <2>1, ModesTyped
<1>12. /\ todo' = SubSeq(todo, m - a0 + 1, Len(todo)) /\ fresh' = (m = w) /\ stream' = stream \o code
       /\ p = line + m /\ line = w + start
  BY <1>6
<1> HIDE DEF g, A, m, code, line, p
<1>13. stream' \in Seq(Digit) /\ Len(stream') = Len(stream) + Len(code)
       /\ Lies(stream', 0, stream) /\ Lies(stream', Len(stream), code) /\ Len(stream) \in Nat /\ Len(code) \in Nat
  BY <1>2, <1>11, <1>12, Joined, LiesFirst
<1> DEFINE at == Len(stream) + Len(code)
           h  == ModeEnd(w, g, p, at)
<1>14. at \in Nat /\ g.here < Len(A)
  BY <1>2, <1>5, <1>8, <1>9, <1>13
<1>15. p \in g.here .. RowOf(w, g.here) + w /\ h \in FaxPoints /\ FaxPointOK(A, w, h)
  <2> HIDE DEF at
  <2> QED
    BY <1>4, <1>8, <1>10, <1>14, ModeLeads
<1>16. ModeBetween(A, w, stream', g, h)
  <2>1. h = ModeEnd(w, g, p, g.at + Len(code)) /\ Lies(stream', g.at, code)
    BY <1>9, <1>13
  <2> HIDE DEF h, at
  <2> QED
    BY <1>10, <1>11, <1>14, <2>1 DEF ModeBetween
<1> HIDE DEF h
<1>17. ModesTo(A, w, stream', P \cup {h}, h)
  BY <1>2, <1>3, <1>13, <1>15, <1>16, ModeAdded
<1>18. todo' \in Seq(Colors) /\ Len(todo') = Len(todo) - (m - a0)
  <2> DEFINE k == m - a0
  <2>1. k \in Nat
    BY <1>10, <1>11
  <2>2. k <= Len(todo)
    <3>1. h.here = p
      BY DEF h, ModeEnd
    <3>2. h.here \in w .. Len(A)
      BY <1>15 DEF FaxPointOK
    <3>3. line + m <= w + Len(input) /\ line = w + start /\ n = Len(input) - Len(todo) /\ a0 = n - start
      BY <1>2, <1>5, <1>8, <1>9, <1>12, <3>1, <3>2
    <3> QED
      BY <1>2, <1>5, <1>10, <1>11, <3>3
  <2> HIDE DEF k
  <2>4. SubSeq(todo, k + 1, Len(todo)) \in Seq(Colors) /\ Len(SubSeq(todo, k + 1, Len(todo))) = Len(todo) - k
    <3> DEFINE z == 0
               t == todo
    <3>1. z \in Nat /\ Lies(t, z, t) /\ t \in Seq(Colors)
      <4>1. \A i \in 1 .. Len(t) : 0 + i = i
        OBVIOUS
      <4> QED
        BY <1>2, <4>1 DEF Lies
    <3> HIDE DEF z, t
    <3>2. SubSeq(t, k + 1, Len(t)) \in Seq(Colors) /\ Len(SubSeq(t, k + 1, Len(t))) = Len(t) - k
      <4>1. k <= Len(t)
        BY <2>2 DEF t
      <4> QED
        BY <2>1, <3>1, <4>1, LiesOn
    <3> QED
      BY <3>2 DEF t
  <2> QED
    BY <1>12, <2>4 DEF k
<1>19. Written(columns)' = h
  <2>1. h.at = Len(stream') /\ h.here = p /\ h.fresh = (p = line + w)
    BY <1>10, <1>13 DEF h, ModeEnd
  <2>2. w + (Len(input) - Len(todo')) = p
    <3>1. n = Len(input) - Len(todo) /\ a0 = n - start /\ p = line + m /\ line = w + start
      BY <1>9, <1>12
    <3>2. Len(todo') = Len(todo) - (m - a0) /\ Len(todo) \in Int /\ Len(input) \in Int
          /\ start \in Int /\ w \in Int /\ a0 \in Int /\ m \in Int
      BY <1>2, <1>5, <1>10, <1>11, <1>18
    <3>3. Len(todo') = Len(todo) - m + n - start
      BY <3>1, <3>2
    <3> QED
      BY <3>1, <3>2, <3>3
  <2>3. (p = line + w) <=> (m = w)
    BY <1>2, <1>10, <1>11, <1>12
  <2>4. Written(columns)' = [at |-> Len(stream'), here |-> w + (Len(input) - Len(todo')), fresh |-> fresh']
    BY <1>1 DEF Written
  <2>5. h = [at |-> Len(stream'), here |-> p, fresh |-> (p = line + w)]
    BY <1>10, <1>13 DEF h, ModeEnd
  <2>6. fresh' = (p = line + w)
    <3>1. fresh' = (m = w)
      BY <1>12
    <3> QED
      BY <2>3, <3>1
  <2> QED
    BY <2>2, <2>4, <2>5, <2>6
<1>20. Len(todo') <= Len(input)
  BY <1>2, <1>5, <1>10, <1>11, <1>18
<1>21. All(columns)' = A /\ WholeRows' /\ WhiteRow(columns)' = WhiteRow(columns) /\ Stripped(pixels)' = Stripped(pixels)
  BY <1>1, <1>2 DEF A, All, WholeRows, WhiteRow, Stripped
<1>22. G4Typed'
  BY <1>1, <1>2, <1>13, <1>18, <1>20, <1>21 DEF G4Typed
<1>23. G4Writing'
  <2>1. ModesTo(A, columns', stream', P \cup {h}, Written(columns)')
    BY <1>1, <1>17, <1>19
  <2>2. \E Q : ModesTo(All(columns)', columns', stream', Q, Written(columns)')
    BY <1>21, <2>1
  <2> QED
    BY <1>1, <1>21, <2>2 DEF G4Inv, G4Writing
<1>24. Lies(All(columns)', 0, pixels') /\ columns' <= Len(pixels') /\ received' = received /\ closed' = closed
  BY <1>1, <1>21 DEF G4Inv, A
<1> QED
  BY <1>1, <1>21, <1>22, <1>23, <1>24 DEF G4Inv

\* The end of the stream is behind the last mode.
LEMMA EncodeEndOfFacsimileInv ==
    ASSUME G4Inv, EncodeEndOfFacsimile
    PROVE  G4Inv'
<1> DEFINE all == stream \o EndOfFacsimile
           A   == All(columns)
           e   == Written(columns)
<1>1. /\ todo = <<>> /\ Close(all, 8) /\ ~ closed /\ closed'
      /\ UNCHANGED <<input, todo, received, result, columns, pixels, atNewLine, color, fresh>>
  BY DEF EncodeEndOfFacsimile, Close, Encoding, faxVars
<1>2. /\ columns \in Nat \ {0} /\ input \in Seq(Colors) /\ todo \in Seq(Colors) /\ Len(todo) <= Len(input)
      /\ WholeRows /\ stream \in Seq(Digit) /\ pixels \in Seq(Colors)
  BY DEF G4Inv, G4Typed
<1>3. PICK P : ModesTo(A, columns, stream, P, e)
  BY <1>1 DEF G4Inv, G4Writing
<1>4. Len(A) = columns + Len(input) /\ Image(A, columns) /\ Len(WhiteRow(columns)) = columns
  BY <1>2, AllIs DEF WholeRows
<1>5. e.here = Len(A) /\ e.at = Len(stream) /\ Len(stream) \in Nat
  BY <1>1, <1>2, <1>4 DEF Written
<1>6. EndOfFacsimile \in Seq(Digit)
  <2>1. ToBits(1, 12) \in Seq(Digit)
    BY ToBitsTyped
  <2> QED
    BY <2>1, ConcatProperties DEF EndOfFacsimile
<1>7. all \in Seq(Digit) /\ Lies(all, 0, stream) /\ Lies(all, Len(stream), EndOfFacsimile)
  BY <1>2, <1>6, Joined, LiesFirst
<1> DEFINE eight == 8
<1>8. eight \in Nat \ {0} /\ Close(all, eight) /\ 0 \in Digit
  BY <1>1 DEF Digit
<1> HIDE DEF all, A, e, eight
<1>9. stream' \in Seq(Digit) /\ \E b \in Seq(Digit) : Closed(all, eight, b)
  BY <1>7, <1>8, CloseIs
<1>10. PICK b \in Seq(Digit) : Lies(b, 0, all) /\ Lies(b, 0, stream')
  BY <1>9 DEF Closed
<1> DEFINE z == 0
<1>11. z \in Nat /\ z + z = z /\ z + e.at = e.at /\ Lies(b, z, all) /\ Lies(all, z, stream)
       /\ Lies(all, e.at, EndOfFacsimile) /\ z = 0 /\ e.at \in Nat
  BY <1>5, <1>7, <1>10
<1> HIDE DEF z
<1>12. Lies(b, z + z, stream) /\ Lies(b, z + e.at, EndOfFacsimile)
  BY <1>2, <1>6, <1>7, <1>11, LiesIn
<1>13. Lies(b, 0, stream) /\ Lies(b, e.at, EndOfFacsimile)
  BY <1>11, <1>12
<1>14. ModesTo(A, columns, b, P, e)
  BY <1>2, <1>3, <1>13, ModesLie
<1> DEFINE g == FaxStart(columns)
<1>15. g \in P /\ g.at = 0 /\ g.here = columns /\ g.fresh = TRUE
  BY <1>3 DEF ModesTo, FaxStart
<1>16. AtFaxPoint(A, columns, g)
  <2>1. pixels = WhiteRow(columns) /\ atNewLine = TRUE /\ color = White
    <3>1. G4Writing
      BY <1>1 DEF G4Inv
    <3> QED
      BY <3>1 DEF G4Writing
  <2>2. Shade(A, g) = White
    BY <1>15 DEF Shade
  <2> HIDE DEF g
  <2> QED
    BY <1>4, <1>15, <2>1, <2>2 DEF AtFaxPoint
<1>17. All(columns)' = A /\ WholeRows' /\ columns' = columns /\ Stripped(pixels)' = Stripped(pixels)
  BY <1>1, <1>2 DEF A, All, WholeRows, WhiteRow, Stripped
<1>18. AtFaxPoint(A, columns, g)'
  <2>1. A' = A /\ g' = g
    BY <1>1 DEF A, All, WhiteRow
  <2> HIDE DEF g
  <2> QED
    BY <1>1, <1>16, <2>1 DEF AtFaxPoint
<1>19. Lies(b, g.at, stream')
  BY <1>10, <1>15
<1>20. /\ b \in Seq(Digit) /\ ModesTo(All(columns)', columns', b, P, e) /\ g \in P
       /\ e.here = Len(All(columns)') /\ Lies(b, e.at, EndOfFacsimile) /\ Lies(b, g.at, stream')
       /\ Len(pixels') = g.here /\ atNewLine' = g.fresh /\ color' = Shade(All(columns)', g)
  <2>1. Len(pixels) = g.here /\ atNewLine = g.fresh /\ color = Shade(A, g)
    BY <1>16 DEF AtFaxPoint
  <2> HIDE DEF g
  <2> QED
    BY <1>1, <1>5, <1>13, <1>14, <1>15, <1>17, <1>19, <2>1
<1> HIDE DEF g
<1>21. \E b2, P2, e2, g2 : G4ReadingOf(b2, P2, e2, g2)'
  BY <1>20 DEF G4ReadingOf, AtFaxPoint
<1>22. G4Typed'
  BY <1>1, <1>2, <1>9, <1>17 DEF G4Typed
<1>23. Lies(All(columns)', 0, pixels') /\ columns' <= Len(pixels') /\ received' = received
  BY <1>1, <1>17 DEF G4Inv, A
<1> QED
  BY <1>1, <1>17, <1>21, <1>22, <1>23 DEF G4Inv

-----------------------------------------------------------------------------
(***************************************************************************)
(* Group 4: what the decoder reads of it.                                  *)
(***************************************************************************)
\* The decoder finds the changing places above that the encoder did.
LEMMA DecoderSees ==
    ASSUME NEW A, Image(A, columns), NEW g \in FaxPoints, FaxPointOK(A, columns, g), g.here < Len(A),
           pixels \in Seq(Colors), Lies(A, 0, pixels), AtFaxPoint(A, columns, g)
    PROVE  /\ LineStart = RowOf(columns, g.here) /\ Here = g.here
           /\ B1 = U1(A, columns, g) /\ B2 = U2(A, columns, g)
<1> DEFINE w   == columns
           row == RowOf(columns, g.here)
           up  == g.here - columns
           c   == Shade(A, g)
           d   == Flip(Shade(A, g))
           u0  == U0(A, columns, g)
           u1  == U1(A, columns, g)
           u2  == U2(A, columns, g)
<1>1. Len(pixels) = g.here /\ atNewLine = g.fresh /\ color = c
  BY DEF AtFaxPoint
<1>2. LineStart = row /\ Here = g.here
  BY <1>1 DEF LineStart, Here, RowOf
<1>3. /\ u0 \in up .. row /\ u0 \in 0 .. row /\ u1 \in u0 .. row /\ u1 \in 0 .. row
      /\ u2 \in u1 .. row /\ up \in 0 .. row
  BY RunsAbove DEF UpperRuns
<1>4. u0 = (IF g.fresh THEN up ELSE FirstOf(A, up, row, c)) /\ u1 = FirstOf(A, u0, row, d) /\ u2 = FirstOf(A, u1, row, c)
  BY DEF U0, U1, U2
<1>5. w \in Nat \ {0} /\ g.here \in Nat /\ g.here < Len(A) /\ Len(A) \in Nat /\ Len(A) % w = 0
  BY DEF Image, FaxPoints
<1>6. row \in Nat /\ row <= g.here
  BY <1>5, RowEnds
<1>7. ASSUME NEW from \in 0 .. row, NEW x PROVE FirstOf(A, from, row, x) = FirstOf(pixels, from, row, x)
  <2> DEFINE z == 0
  <2>1. z \in Nat /\ z + from = from /\ z + row = row /\ z = 0
    BY <1>6
  <2>2. ASSUME NEW i \in from .. row - 1 PROVE pixels[i + 1] = A[z + i + 1]
    <3>1. i + 1 \in 1 .. Len(pixels) /\ 0 + (i + 1) = i + 1 /\ z + i + 1 = i + 1
      BY <1>1, <1>5, <1>6
    <3> QED
      BY <3>1 DEF Lies
  <2> HIDE DEF z, row
  <2>3. Shifted(pixels, A, z, from, row)
    BY <2>2 DEF Shifted
  <2>4. FirstOf(A, z + from, z + row, x) = z + FirstOf(pixels, from, row, x)
    BY <1>6, <2>1, <2>3, FirstMoved
  <2>5. FirstOf(pixels, from, row, x) \in from .. row
    BY <1>6, FirstOfBetween
  <2>6. \A n \in from .. row : z + n = n
    BY <1>6, <2>1
  <2> QED
    BY <2>1, <2>4, <2>5, <2>6
<1>8. B1 = FirstOf(pixels, IF g.fresh THEN up ELSE FirstOf(pixels, up, row, c), row, d)
      /\ B2 = FirstOf(pixels, B1, row, c)
  BY <1>1, <1>2 DEF B1, B2
<1> HIDE DEF w, row, up, c, d, u0, u1, u2
<1>9. u0 = IF g.fresh THEN up ELSE FirstOf(pixels, up, row, c)
  BY <1>3, <1>4, <1>7
<1>10. B1 = u1
  BY <1>3, <1>4, <1>7, <1>8, <1>9
<1>11. B2 = u2
  BY <1>3, <1>4, <1>7, <1>8, <1>10
<1> QED
  BY <1>2, <1>10, <1>11 DEF row, u1, u2

-----------------------------------------------------------------------------
(***************************************************************************)
(* No code of a mode begins with another one.                              *)
(***************************************************************************)
\* s begins with code.
Heads(s, code) == \A i \in 1 .. Len(code) : s[i] = code[i]

\* The mode whose code bits begin with: 4 for Horizontal, 5 for Pass, 6 for none, and how far
\* right of b1 for Vertical.
ModeOf(s) ==
    IF s[1] = 1 THEN 0
    ELSE IF s[2] = 1 THEN (IF s[3] = 1 THEN 1 ELSE -1)
    ELSE IF s[3] = 1 THEN 4
    ELSE IF s[4] = 1 THEN 5
    ELSE IF s[5] = 1 THEN (IF s[6] = 1 THEN 2 ELSE -2)
    ELSE IF s[6] = 1 THEN (IF s[7] = 1 THEN 3 ELSE -3)
    ELSE 6

\* The code of a vertical mode is read as that mode.
LEMMA ModeOfVertical ==
    ASSUME NEW s, NEW d \in -3 .. 3, Heads(s, VerticalCode(d))
    PROVE  ModeOf(s) = d
<1>1. CASE d = 0
  BY <1>1 DEF VerticalCode, Heads, ModeOf
<1>2. CASE d = 1
  BY <1>2 DEF VerticalCode, Heads, ModeOf
<1>3. CASE d = -1
  BY <1>3 DEF VerticalCode, Heads, ModeOf
<1>4. CASE d = 2
  BY <1>4 DEF VerticalCode, Heads, ModeOf
<1>5. CASE d = -2
  BY <1>5 DEF VerticalCode, Heads, ModeOf
<1>6. CASE d = 3
  BY <1>6 DEF VerticalCode, Heads, ModeOf
<1>7. CASE d = -3
  BY <1>7 DEF VerticalCode, Heads, ModeOf
<1> QED
  BY <1>1, <1>2, <1>3, <1>4, <1>5, <1>6, <1>7

\* So are the others.
LEMMA ModeOfOthers ==
    ASSUME NEW s
    PROVE  /\ Heads(s, HorizontalCode) => ModeOf(s) = 4
           /\ Heads(s, PassCode) => ModeOf(s) = 5
           /\ (\A i \in 1 .. 7 : s[i] = 0) => ModeOf(s) = 6
<1>1. ASSUME Heads(s, HorizontalCode) PROVE ModeOf(s) = 4
  BY <1>1 DEF HorizontalCode, Heads, ModeOf
<1>2. ASSUME Heads(s, PassCode) PROVE ModeOf(s) = 5
  BY <1>2 DEF PassCode, Heads, ModeOf
<1>3. ASSUME \A i \in 1 .. 7 : s[i] = 0 PROVE ModeOf(s) = 6
  BY <1>3 DEF ModeOf
<1> QED
  BY <1>1, <1>2, <1>3

\* The first bits of the stream.
LEMMA UpcomingHeads ==
    ASSUME stream \in Seq(Digit), NEW code \in Seq(Digit), Upcoming(code)
    PROVE  Heads(stream, code)
<1> DEFINE n == Len(code)
           one == 1
<1>1. n \in Nat /\ n <= Len(stream) /\ SubSeq(code, 1, n) = SubSeq(stream, 1, n)
  BY DEF Upcoming, IsPrefix
<1> HIDE DEF n
<1>2. n = Len(code)
  BY DEF n
<1>3. \A k \in 1 .. n : SubSeq(code, 1, n)[k] = code[k]
  BY <1>1, <1>2, FirstPart
<1>4. \A k \in 1 .. n : SubSeq(stream, 1, n)[k] = stream[k]
  BY <1>1, FirstPart
<1> QED
  BY <1>1, <1>2, <1>3, <1>4 DEF Heads

\* A code that lies at the decoder's place heads what is left of the stream.
LEMMA LyingHeads ==
    ASSUME stream \in Seq(Digit), NEW b \in Seq(Digit), NEW at \in Nat, Lies(b, at, stream),
           NEW code \in Seq(Digit), Lies(b, at, code), Len(code) <= Len(stream)
    PROVE  Heads(stream, code)
<1> SUFFICES ASSUME NEW i \in 1 .. Len(code) PROVE stream[i] = code[i]
  BY DEF Heads
<1>1. i \in 1 .. Len(stream)
  BY DEF Lies
<1>2. b[at + i] = code[i]
  BY DEF Lies
<1>3. b[at + i] = stream[i]
  BY <1>1 DEF Lies
<1> QED
  BY <1>2, <1>3

\* At the end no mode is seen.
LEMMA EndHasNoMode ==
    ASSUME stream \in Seq(Digit), NEW b \in Seq(Digit), NEW at \in Nat, Lies(b, at, stream),
           Lies(b, at, EndOfFacsimile), Len(stream) >= 24
    PROVE  ModeOf(stream) = 6
<1> DEFINE t == ToBits(1, 12)
<1>1. t \in Seq(Digit) /\ Len(t) = 12
  <2> DEFINE one == 1
             twelve == 12
  <2>1. one \in Nat /\ twelve \in Nat
    OBVIOUS
  <2> HIDE DEF one, twelve
  <2>2. ToBits(one, twelve) \in Seq(Digit) /\ Len(ToBits(one, twelve)) = twelve
    BY <2>1, ToBitsTyped
  <2> QED
    BY <2>2 DEF one, twelve
<1>2. \A i \in 1 .. 7 : t[i] = 0
  <2>1. PICK f : Halves(f, 1, 12) /\ t = [i \in 1 .. 12 |-> f[i] % 2]
    <3> DEFINE one == 1
               twelve == 12
    <3>1. one \in Nat /\ twelve \in Nat /\ one = 1 /\ twelve = 12
      OBVIOUS
    <3> HIDE DEF one, twelve
    <3>2. \E f : Halves(f, one, twelve) /\ ToBits(one, twelve) = [i \in 1 .. twelve |-> f[i] % 2]
      BY <3>1, ToBitsIs
    <3> QED
      BY <3>1, <3>2 DEF t
  <2>2. f[12] = 1 /\ \A i \in 0 .. 11 : f[i] = f[i + 1] \div 2
    BY <2>1 DEF Halves
  <2>3. f[11] = 0
    BY <2>2
  <2>4. f[10] = 0
    BY <2>2, <2>3
  <2>5. f[9] = 0
    BY <2>2, <2>4
  <2>6. f[8] = 0
    BY <2>2, <2>5
  <2>7. f[7] = 0
    BY <2>2, <2>6
  <2>8. f[6] = 0
    BY <2>2, <2>7
  <2>9. f[5] = 0
    BY <2>2, <2>8
  <2>10. f[4] = 0
    BY <2>2, <2>9
  <2>11. f[3] = 0
    BY <2>2, <2>10
  <2>12. f[2] = 0
    BY <2>2, <2>11
  <2>13. f[1] = 0
    BY <2>2, <2>12
  <2> QED
    BY <2>1, <2>7, <2>8, <2>9, <2>10, <2>11, <2>12, <2>13
<1> HIDE DEF t
<1>3. EndOfFacsimile \in Seq(Digit) /\ Len(EndOfFacsimile) = 24 /\ \A i \in 1 .. 12 : EndOfFacsimile[i] = t[i]
  <2>1. EndOfFacsimile = t \o t
    BY DEF EndOfFacsimile, t
  <2>2. t \o t \in Seq(Digit) /\ Len(t \o t) = Len(t) + Len(t) /\ \A i \in 1 .. Len(t) : (t \o t)[i] = t[i]
    <3>1. t \in Seq(Digit)
      BY <1>1
    <3> QED
      BY <3>1, Joined
  <2>3. EndOfFacsimile \in Seq(Digit) /\ Len(EndOfFacsimile) = 24
    BY <1>1, <2>1, <2>2
  <2>4. \A i \in 1 .. 12 : EndOfFacsimile[i] = t[i]
    BY <1>1, <2>1, <2>2
  <2> QED
    BY <2>3, <2>4
<1>4. Heads(stream, EndOfFacsimile)
  <2>1. Len(EndOfFacsimile) <= Len(stream)
    BY <1>3
  <2> QED
    BY <1>3, <2>1, LyingHeads
<1>5. \A i \in 1 .. 7 : stream[i] = 0
  <2>1. \A i \in 1 .. 24 : stream[i] = EndOfFacsimile[i]
    BY <1>3, <1>4 DEF Heads
  <2>2. \A i \in 1 .. 7 : i \in 1 .. 24 /\ i \in 1 .. 12
    OBVIOUS
  <2> QED
    BY <1>2, <1>3, <2>1, <2>2
<1> QED
  BY <1>5, ModeOfOthers

\* The parts of the code of a horizontal mode.
PartsAt(b, at, x, y, len) ==
    /\ x \in Seq(Digit) /\ y \in Seq(Digit)
    /\ HorizontalCode \in Seq(Digit) /\ Len(HorizontalCode) = 3
    /\ Lies(b, at, HorizontalCode) /\ Lies(b, at + 3, x) /\ Lies(b, (at + 3) + Len(x), y)
    /\ len = (3 + Len(x)) + Len(y)

\* The code of a horizontal mode is followed by those of its two runs.
LEMMA HorizontalParts ==
    ASSUME NEW b \in Seq(Digit), NEW at \in Nat, NEW m \in Nat, NEW n \in Nat, NEW c, NEW d,
           NEW code, code = (HorizontalCode \o RunBits(m, c)) \o RunBits(n, d), Lies(b, at, code)
    PROVE  PartsAt(b, at, RunBits(m, c), RunBits(n, d), Len(code))
<1> DEFINE x == HorizontalCode
           y == RunBits(m, c)
           u == RunBits(n, d)
           xy == x \o y
           z == 0
           three == 3
<1>1. y \in Seq(Digit) /\ u \in Seq(Digit)
  BY RunBitsTyped
<1>2. x \in Seq(Digit) /\ Len(x) = three
  BY DEF HorizontalCode, Digit
<1> HIDE DEF x, y, u
<1>3. Len(x) \in Nat /\ Len(y) \in Nat /\ Len(u) \in Nat
  BY <1>1, <1>2
<1>4. xy \in Seq(Digit) /\ Len(xy) = three + Len(y) /\ Lies(xy, z, x) /\ Lies(xy, three, y)
  <2>1. xy \in Seq(Digit) /\ Len(xy) = Len(x) + Len(y)
    BY <1>1, <1>2, Joined
  <2>2. Lies(x \o y, 0, x) /\ Lies(x \o y, Len(x), y)
    BY <1>1, <1>2, LiesFirst
  <2> QED
    BY <1>2, <2>1, <2>2
<1> HIDE DEF xy
<1>5. code = xy \o u
  BY DEF xy, x, y, u
<1>6. code \in Seq(Digit) /\ Len(code) = Len(xy) + Len(u) /\ Lies(code, z, xy) /\ Lies(code, Len(xy), u)
  <2>1. xy \o u \in Seq(Digit) /\ Len(xy \o u) = Len(xy) + Len(u)
    BY <1>1, <1>4, Joined
  <2>2. Lies(xy \o u, 0, xy) /\ Lies(xy \o u, Len(xy), u)
    BY <1>1, <1>4, LiesFirst
  <2> QED
    BY <1>5, <2>1, <2>2
<1>7. z \in Nat /\ three \in Nat /\ at + z = at /\ Len(xy) \in Nat /\ at + Len(xy) = (at + three) + Len(y)
      /\ z = 0
  BY <1>3, <1>4
<1> HIDE DEF z, three
<1>8. Lies(b, at + z, xy) /\ Lies(b, at + Len(xy), u)
  BY <1>1, <1>4, <1>6, <1>7, LiesIn
<1>9. Lies(b, at, xy)
  BY <1>7, <1>8
<1>10. Lies(b, at + z, x) /\ Lies(b, at + three, y)
  BY <1>1, <1>2, <1>4, <1>7, <1>9, LiesIn
<1>11. Lies(b, at, x) /\ Lies(b, (at + three) + Len(y), u)
  BY <1>7, <1>8, <1>10
<1>12. Len(code) = (three + Len(y)) + Len(u)
  BY <1>4, <1>6
<1> QED
  BY <1>1, <1>2, <1>10, <1>11, <1>12 DEF PartsAt, x, y, u, three

\* What the decoder sees is the mode that was written.
LEMMA ModeAhead ==
    ASSUME NEW A, NEW w, Image(A, w), NEW g \in FaxPoints, FaxPointOK(A, w, g), g.here < Len(A),
           stream \in Seq(Digit), NEW b \in Seq(Digit), Lies(b, g.at, stream), Len(stream) >= 24,
           NEW p, NEW code \in Seq(Digit), FaxMode(A, w, g, p, code), Lies(b, g.at, code)
    PROVE  /\ ModeOf(stream) = 5 => ByPass(A, w, g, p, code)
           /\ ModeOf(stream) = 4 => ByHorizontal(A, w, g, p, code)
           /\ \A d \in -3 .. 3 : ModeOf(stream) = d => ByVertical(A, w, g, p, code, d)
<1>1. g.at \in Nat
  BY DEF FaxPoints
<1> DEFINE at == g.at
<1>2. at \in Nat /\ Lies(b, at, stream) /\ Lies(b, at, code)
  BY <1>1
<1> HIDE DEF at
<1>3. ASSUME ByPass(A, w, g, p, code) PROVE ModeOf(stream) = 5
  <2>1. code = PassCode /\ Len(PassCode) = 4
    BY <1>3 DEF ByPass, PassCode
  <2>2. Len(code) <= Len(stream)
    BY <2>1
  <2>3. Heads(stream, code)
    BY <1>2, <2>2, LyingHeads
  <2> QED
    BY <2>1, <2>3, ModeOfOthers
<1>4. ASSUME NEW d \in -3 .. 3, ByVertical(A, w, g, p, code, d) PROVE ModeOf(stream) = d
  <2>1. code = VerticalCode(d)
    BY <1>4 DEF ByVertical
  <2>2. Len(code) <= Len(stream)
    <3>1. Len(VerticalCode(d)) <= 7
      <4>1. d \in {-3, -2, -1, 0, 1, 2, 3}
        OBVIOUS
      <4> QED
        BY <4>1 DEF VerticalCode
    <3> QED
      BY <2>1, <3>1, VerticalCodeTyped
  <2>3. Heads(stream, code)
    BY <1>2, <2>2, LyingHeads
  <2> QED
    BY <2>1, <2>3, ModeOfVertical
<1>5. ASSUME ByHorizontal(A, w, g, p, code) PROVE ModeOf(stream) = 4
  <2> DEFINE m == A1(A, w, g) - g.here
             n == A2(A, w, g) - A1(A, w, g)
             c == Shade(A, g)
             d == Flip(Shade(A, g))
  <2>1. m \in Nat /\ n \in Nat
    <3>1. g.here \in Nat /\ RowOf(w, g.here) + w \in Nat
          /\ A1(A, w, g) \in g.here .. RowOf(w, g.here) + w /\ A2(A, w, g) \in A1(A, w, g) .. RowOf(w, g.here) + w
      BY RunsOfRow DEF RowRuns, FaxPoints
    <3> QED
      BY <3>1
  <2>2. code = (HorizontalCode \o RunBits(m, c)) \o RunBits(n, d)
    BY <1>5 DEF ByHorizontal
  <2> HIDE DEF m, n, c, d
  <2>3. HorizontalCode \in Seq(Digit) /\ Len(HorizontalCode) = 3 /\ Lies(b, at, HorizontalCode)
    <3>1. PartsAt(b, at, RunBits(m, c), RunBits(n, d), Len(code))
      BY <1>2, <2>1, <2>2, HorizontalParts
    <3> QED
      BY <3>1 DEF PartsAt
  <2>4. Len(HorizontalCode) <= Len(stream)
    BY <2>3
  <2>5. Heads(stream, HorizontalCode)
    BY <1>2, <2>3, <2>4, LyingHeads
  <2> QED
    BY <2>5, ModeOfOthers
<1>6. ASSUME NEW d \in -3 .. 3 PROVE d # 4 /\ d # 5
  OBVIOUS
<1>7. \/ ByPass(A, w, g, p, code) \/ (\E d \in -3 .. 3 : ByVertical(A, w, g, p, code, d)) \/ ByHorizontal(A, w, g, p, code)
  BY DEF FaxMode
<1> QED
  BY <1>3, <1>4, <1>5, <1>6, <1>7

-----------------------------------------------------------------------------
\* What a step of the decoder has to do: paint what is in the image, and come to the next
\* point or fail.
FaxPainted(A) == pixels' \in Seq(Colors) /\ Lies(A, 0, pixels') /\ columns <= Len(pixels')

FaxOn(A, b, h) ==
    /\ UNCHANGED <<received, result>> /\ Lies(b, h.at, stream')
    /\ Len(pixels') = h.here /\ atNewLine' = h.fresh /\ color' = Shade(A, h)

FaxEnds == result' # "none" /\ received' \in {received, Stripped(pixels')}

\* Pixels painted as they are in the image leave its first part.
LEMMA PaintLies ==
    ASSUME NEW A \in Seq(Colors), pixels \in Seq(Colors), Lies(A, 0, pixels), columns \in Nat, columns <= Len(pixels),
           NEW n \in Nat, NEW f, f = [k \in 1 .. n |-> f[k]], Len(pixels) + n <= Len(A),
           \A k \in 1 .. n : A[Len(pixels) + k] = f[k], pixels' = pixels \o f
    PROVE  FaxPainted(A) /\ Len(pixels') = Len(pixels) + n
<1>1. Len(pixels) \in Nat /\ Len(A) \in Nat
  OBVIOUS
<1>2. \A k \in 1 .. n : f[k] \in Colors
  <2> SUFFICES ASSUME NEW k \in 1 .. n PROVE f[k] \in Colors
    OBVIOUS
  <2>1. Len(pixels) + k \in 1 .. Len(A)
    BY <1>1
  <2> QED
    BY <2>1
<1>3. f \in Seq(Colors) /\ Len(f) = n
  <2>1. f \in [1 .. n -> Colors]
    BY <1>2
  <2> QED
    BY <2>1
<1> DEFINE z == 0
           p == Len(pixels)
<1>4. z \in Nat /\ p \in Nat /\ p = z + Len(pixels) /\ Lies(A, z, pixels) /\ Lies(A, p, f) /\ z = 0
  BY <1>1, <1>3 DEF Lies
<1> HIDE DEF z, p
<1>5. Lies(A, z, pixels \o f)
  BY <1>3, <1>4, LiesJoined
<1>6. pixels' \in Seq(Colors) /\ Len(pixels') = Len(pixels) + n
  BY <1>3, Joined
<1>7. columns <= Len(pixels')
  BY <1>1, <1>6
<1> QED
  BY <1>4, <1>5, <1>6, <1>7 DEF FaxPainted

\* The bits behind a code.
LEMMA PopLies ==
    ASSUME stream \in Seq(Digit), NEW b \in Seq(Digit), NEW at \in Nat, Lies(b, at, stream),
           NEW n \in Nat, n <= Len(stream)
    PROVE  Lies(b, at + n, Drop(n))
<1>1. Lies(b, at + n, SubSeq(stream, n + 1, Len(stream)))
  BY LiesOn
<1> QED
  BY <1>1 DEF Drop

\* The decoder is at g, at the beginning of a mode.
AtMode(A, b, g) ==
    /\ Image(A, columns) /\ g \in FaxPoints /\ FaxPointOK(A, columns, g) /\ g.here < Len(A)
    /\ pixels \in Seq(Colors) /\ Lies(A, 0, pixels) /\ columns <= Len(pixels)
    /\ AtFaxPoint(A, columns, g)
    /\ stream \in Seq(Digit) /\ b \in Seq(Digit) /\ Lies(b, g.at, stream)

\* To a place p in the row, over pixels of the colour there.
LEMMA GoneToPoint ==
    ASSUME NEW A, NEW b, NEW g, AtMode(A, b, g), NEW at, NEW h,
           NEW p \in g.here .. RowOf(columns, g.here) + columns,
           h = ModeEnd(columns, g, p, at),
           \A i \in g.here .. p - 1 : A[i + 1] = Shade(A, g),
           NEW n, n = p - g.here, Paint(n, color), NEW to, to = p - columns, NEW c, GoTo(to, c),
           p < RowOf(columns, g.here) + columns => c = A[p + 1]
    PROVE  /\ FaxPainted(A)
           /\ Len(pixels') = h.here /\ atNewLine' = h.fresh /\ color' = Shade(A, h)
<1> DEFINE w    == columns
           here == g.here
           row  == RowOf(columns, g.here)
           end  == RowOf(columns, g.here) + columns
<1>1. /\ w \in Nat \ {0} /\ A \in Seq(Colors) /\ Len(A) \in Nat /\ here \in Nat /\ Len(pixels) = here
      /\ atNewLine = g.fresh /\ color = Shade(A, g) /\ LineStart = row
      /\ pixels \in Seq(Colors) /\ Lies(A, 0, pixels) /\ w <= Len(pixels)
  BY DecoderSees DEF AtMode, Image, FaxPoints, AtFaxPoint
<1>2. end \in Nat /\ end <= Len(A) /\ here < end /\ row \in Nat
  <2>1. RowRuns(A, columns, g)
    BY RunsOfRow DEF AtMode
  <2> QED
    BY <2>1 DEF RowRuns
<1>3. p \in Nat /\ p <= end /\ here <= p /\ n \in Nat /\ end = row + w
  BY <1>1, <1>2
<1>4. h.here = p /\ h.fresh = (p = end)
  BY DEF ModeEnd
<1> DEFINE f == [i \in 1 .. n |-> color]
<1>5. pixels' = pixels \o f /\ f = [k \in 1 .. n |-> f[k]]
  BY DEF Paint
<1>6. \A k \in 1 .. n : A[Len(pixels) + k] = f[k]
  <2> SUFFICES ASSUME NEW k \in 1 .. n PROVE A[Len(pixels) + k] = color
    OBVIOUS
  <2>1. (here + k) - 1 \in here .. p - 1 /\ ((here + k) - 1) + 1 = here + k
    BY <1>1, <1>3
  <2>2. A[((here + k) - 1) + 1] = Shade(A, g)
    BY <2>1
  <2> QED
    BY <1>1, <2>1, <2>2
<1>7. Len(pixels) + n <= Len(A) /\ Len(pixels) + n = p
  <2>1. n = p - here
    OBVIOUS
  <2> HIDE DEF here, end, row, f
  <2> QED
    BY <1>1, <1>2, <1>3, <2>1
<1> HIDE DEF f, end, row, here
<1>8. FaxPainted(A) /\ Len(pixels') = Len(pixels) + n
  BY <1>1, <1>3, <1>5, <1>6, <1>7, PaintLies
<1>9. to >= LineStart <=> p = end
  BY <1>1, <1>2, <1>3
<1>10. atNewLine' = h.fresh /\ color' = Shade(A, h)
  <2>1. CASE p = end
    BY <1>4, <1>9, <2>1 DEF GoTo, Shade
  <2>2. CASE p # end
    <3>1. p < end
      BY <1>2, <1>3, <2>2
    <3>2. c = A[p + 1]
      BY <3>1 DEF end
    <3> QED
      BY <1>4, <1>9, <2>2, <3>2 DEF GoTo, Shade
  <2> QED
    BY <2>1, <2>2
<1> QED
  BY <1>4, <1>7, <1>8, <1>10

\* A mode leads from g to h.
ModeHere(A, b, g, h, p, code) ==
    /\ FaxMode(A, columns, g, p, code) /\ code \in Seq(Digit)
    /\ Lies(b, g.at, code) /\ h = ModeEnd(columns, g, p, g.at + Len(code))

\* At a point the decoder has the encoder's places and colour.
LEMMA PlacesAt ==
    ASSUME NEW A, NEW b, NEW g, AtMode(A, b, g)
    PROVE  /\ RowRuns(A, columns, g) /\ UpperRuns(A, columns, g) /\ columns \in Nat \ {0} /\ g.at \in Nat /\ g.here \in Nat
           /\ LineStart = RowOf(columns, g.here) /\ Here = g.here /\ Len(pixels) = g.here
           /\ B1 = U1(A, columns, g) /\ B2 = U2(A, columns, g) /\ color = Shade(A, g)
           /\ columns <= g.here
<1>1. Image(A, columns) /\ g \in FaxPoints /\ FaxPointOK(A, columns, g) /\ g.here < Len(A)
      /\ pixels \in Seq(Colors) /\ Lies(A, 0, pixels) /\ AtFaxPoint(A, columns, g) /\ columns <= Len(pixels)
  BY DEF AtMode
<1>2. RowRuns(A, columns, g) /\ UpperRuns(A, columns, g)
  BY <1>1, RunsOfRow, RunsAbove
<1>3. columns \in Nat \ {0} /\ g.at \in Nat /\ g.here \in Nat /\ Len(pixels) = g.here /\ color = Shade(A, g)
  BY <1>1 DEF Image, FaxPoints, AtFaxPoint
<1>4. /\ LineStart = RowOf(columns, g.here) /\ Here = g.here
      /\ B1 = U1(A, columns, g) /\ B2 = U2(A, columns, g)
  BY <1>1, DecoderSees
<1> QED
  BY <1>1, <1>2, <1>3, <1>4

\* A step that paints nothing.
LEMMA NothingPainted ==
    ASSUME NEW A, NEW b, NEW g, AtMode(A, b, g), UNCHANGED <<pixels, columns>>
    PROVE  FaxPainted(A)
  BY DEF AtMode, FaxPainted

\* Pass takes the decoder to the next point.
LEMMA PassStep ==
    ASSUME NEW A, NEW b, NEW g, AtMode(A, b, g), NEW h, NEW p, NEW code, ModeHere(A, b, g, h, p, code), Pass,
           UNCHANGED columns
    PROVE  FaxPainted(A) /\ (FaxOn(A, b, h) \/ FaxEnds)
<1>1. Parsing /\ Upcoming(PassCode) /\ Len(stream) >= 24
  BY DEF Pass, Parsing
<1>2. CASE ~ CanPop(4)
  <2>1. UNCHANGED <<pixels, columns>> /\ FaxEnds
    BY <1>2 DEF Pass, Fail, FaxEnds
  <2> QED
    BY <2>1, NothingPainted
<1>3. CASE CanPop(4)
  <2>1. GoTo(B2, color) /\ Paint(B2 - Here + columns, color) /\ Proceed(Drop(4))
    BY <1>3 DEF Pass
  <2>2. /\ stream \in Seq(Digit) /\ b \in Seq(Digit) /\ Lies(b, g.at, stream)
        /\ Image(A, columns) /\ g \in FaxPoints /\ FaxPointOK(A, columns, g) /\ g.here < Len(A)
    BY DEF AtMode
  <2>3. FaxMode(A, columns, g, p, code) /\ code \in Seq(Digit) /\ Lies(b, g.at, code)
        /\ h = ModeEnd(columns, g, p, g.at + Len(code))
    BY DEF ModeHere
  <2>4. ModeOf(stream) = 5
    <3>1. PassCode \in Seq(Digit)
      BY DEF PassCode, Digit
    <3>2. Heads(stream, PassCode)
      BY <1>1, <2>2, <3>1, UpcomingHeads
    <3> QED
      BY <3>2, ModeOfOthers
  <2>5. ByPass(A, columns, g, p, code)
    BY <1>1, <2>2, <2>3, <2>4, ModeAhead
  <2>6. B2 + columns < A1(A, columns, g) /\ p = B2 + columns /\ Len(code) = 4
    <3>1. Len(PassCode) = 4 /\ B2 = U2(A, columns, g)
      BY PlacesAt DEF PassCode
    <3> QED
      BY <2>5, <3>1 DEF ByPass
  <2> DEFINE here == g.here
             row  == RowOf(columns, g.here)
             end  == RowOf(columns, g.here) + columns
             a1   == A1(A, columns, g)
             n    == B2 - Here + columns
             at   == g.at + Len(code)
             c    == Shade(A, g)
  <2>7. /\ columns \in Nat \ {0} /\ here \in Nat /\ row \in Nat /\ end = row + columns /\ a1 \in here .. end
        /\ Here = here /\ (\A i \in here .. a1 - 1 : A[i + 1] = c) /\ color = c /\ g.at \in Nat
    BY PlacesAt DEF RowRuns
  <2>8. B2 \in Int /\ here - columns <= B2
    <3>1. B2 = U2(A, columns, g) /\ UpperRuns(A, columns, g)
      BY PlacesAt
    <3>2. U0(A, columns, g) \in here - columns .. row /\ U1(A, columns, g) \in U0(A, columns, g) .. row
          /\ U2(A, columns, g) \in U1(A, columns, g) .. row
      BY <3>1 DEF UpperRuns
    <3> HIDE DEF row, here
    <3> QED
      BY <2>7, <3>1, <3>2
  <2>9. p \in here .. end /\ p \in here .. a1 - 1 /\ n = p - here /\ B2 = p - columns
    <3>1. B2 + columns < a1 /\ p = B2 + columns
      BY <2>6
    <3> HIDE DEF row, end, a1, here, c
    <3>2. n = B2 - here + columns
      BY <2>7
    <3> HIDE DEF n
    <3> QED
      BY <2>7, <2>8, <3>1, <3>2
  <2>10. (\A i \in here .. p - 1 : A[i + 1] = c) /\ A[p + 1] = c
    <3>1. \A i \in here .. p - 1 : i \in here .. a1 - 1
      BY <2>6, <2>7, <2>9
    <3> QED
      BY <2>7, <2>9, <3>1
  <2>11. GoTo(B2, color) /\ Paint(n, color)
    BY <2>1
  <2> HIDE DEF n
  <2>12. /\ FaxPainted(A)
         /\ Len(pixels') = h.here /\ atNewLine' = h.fresh /\ color' = Shade(A, h)
    <3>1. p < end => color = A[p + 1]
      BY <2>7, <2>10
    <3>2. h = ModeEnd(columns, g, p, at)
      BY <2>3
    <3> HIDE DEF at
    <3> QED
      BY <2>9, <2>10, <2>11, <3>1, <3>2, GoneToPoint
  <2>13. Lies(b, h.at, stream') /\ UNCHANGED <<received, result>>
    <3> DEFINE four == 4
    <3>1. four \in Nat /\ four <= Len(stream) /\ h.at = g.at + four /\ stream' = Drop(four)
      BY <1>1, <2>1, <2>3, <2>6 DEF ModeEnd, Proceed
    <3> HIDE DEF four
    <3>2. Lies(b, g.at + four, Drop(four))
      BY <2>2, <2>7, <3>1, PopLies
    <3> QED
      BY <2>1, <3>1, <3>2 DEF Proceed
  <2> QED
    BY <2>12, <2>13 DEF FaxOn
<1> QED
  BY <1>2, <1>3

\* So does a vertical mode.
LEMMA VerticalStep ==
    ASSUME NEW A, NEW b, NEW g, AtMode(A, b, g), NEW h, NEW p, NEW code, ModeHere(A, b, g, h, p, code),
           NEW d \in -3 .. 3, Vertical(d), UNCHANGED columns
    PROVE  FaxPainted(A) /\ (FaxOn(A, b, h) \/ FaxEnds)
<1> DEFINE to    == IF B1 + d > LineStart THEN LineStart ELSE B1 + d
           count == to - Here + columns
           n     == IF count > 0 THEN count ELSE 0
           k     == Len(VerticalCode(d))
<1>1. /\ Upcoming(VerticalCode(d)) /\ Len(stream) >= 24
      /\ GoTo(to, Flip(color)) /\ Paint(n, color)
      /\ IF CanPop(k) THEN Proceed(Drop(k)) ELSE Fail
  BY DEF Vertical, Parsing
<1>2. /\ stream \in Seq(Digit) /\ b \in Seq(Digit) /\ Lies(b, g.at, stream)
      /\ Image(A, columns) /\ g \in FaxPoints /\ FaxPointOK(A, columns, g) /\ g.here < Len(A)
  BY DEF AtMode
<1>3. FaxMode(A, columns, g, p, code) /\ code \in Seq(Digit) /\ Lies(b, g.at, code)
      /\ h = ModeEnd(columns, g, p, g.at + Len(code))
  BY DEF ModeHere
<1>4. VerticalCode(d) \in Seq(Digit) /\ k \in Nat
  BY VerticalCodeTyped
<1>5. ModeOf(stream) = d
  <2>1. Heads(stream, VerticalCode(d))
    BY <1>1, <1>2, <1>4, UpcomingHeads
  <2> QED
    BY <2>1, ModeOfVertical
<1>6. ByVertical(A, columns, g, p, code, d)
  BY <1>1, <1>2, <1>3, <1>5, ModeAhead
<1> DEFINE here == g.here
           row  == RowOf(columns, g.here)
           end  == RowOf(columns, g.here) + columns
           a1   == A1(A, columns, g)
           c    == Shade(A, g)
           at   == g.at + Len(code)
<1>7. /\ columns \in Nat \ {0} /\ here \in Nat /\ row \in Nat /\ end = row + columns /\ a1 \in here .. end
      /\ Here = here /\ LineStart = row /\ (\A i \in here .. a1 - 1 : A[i + 1] = c) /\ color = c /\ g.at \in Nat
      /\ (a1 < end => A[a1 + 1] = Flip(c)) /\ columns <= here
  BY PlacesAt DEF RowRuns
<1>8. p = a1 /\ code = VerticalCode(d) /\ B1 + d = a1 - columns
  <2>1. d = a1 - columns - U1(A, columns, g) /\ p = a1 /\ code = VerticalCode(d)
    BY <1>6 DEF ByVertical
  <2>2. B1 = U1(A, columns, g) /\ U1(A, columns, g) \in 0 .. row
    BY PlacesAt DEF UpperRuns
  <2> HIDE DEF a1, here, row, end, c
  <2> QED
    BY <1>7, <2>1, <2>2
<1>9. p \in here .. end /\ to = p - columns /\ n = p - here
  <2>1. p \in here .. end /\ a1 - columns <= row /\ a1 \in Int
    <3> HIDE DEF a1, here, row, end, c
    <3> QED
      BY <1>7, <1>8
  <2>2. to = p - columns
    <3> HIDE DEF a1, here, row, end, c
    <3> QED
      BY <1>7, <1>8, <2>1
  <2>3. count = to - here + columns
    BY <1>7
  <2> HIDE DEF a1, here, row, end, c, to, count
  <2>4. count = p - here /\ p - here >= 0 /\ p - here \in Int
    BY <1>7, <2>1, <2>2, <2>3
  <2> QED
    BY <2>1, <2>2, <2>4
<1>10. GoTo(to, Flip(color)) /\ Paint(n, color)
  BY <1>1
<1> HIDE DEF to, count, n
<1>11. /\ FaxPainted(A)
       /\ Len(pixels') = h.here /\ atNewLine' = h.fresh /\ color' = Shade(A, h)
  <2>1. (p < end => Flip(color) = A[p + 1]) /\ \A i \in here .. p - 1 : A[i + 1] = c
    BY <1>7, <1>8
  <2>2. h = ModeEnd(columns, g, p, at)
    BY <1>3
  <2> HIDE DEF at
  <2> QED
    BY <1>9, <1>10, <2>1, <2>2, GoneToPoint
<1>12. CASE ~ CanPop(k)
  <2>1. FaxEnds
    BY <1>1, <1>12 DEF Fail, FaxEnds
  <2> QED
    BY <1>11, <2>1
<1>13. CASE CanPop(k)
  <2>1. stream' = Drop(k) /\ UNCHANGED <<received, result>>
    BY <1>1, <1>13 DEF Proceed
  <2>2. k <= Len(stream) /\ h.at = g.at + k
    <3>1. h.at = g.at + Len(code)
      BY <1>3 DEF ModeEnd
    <3>2. Len(stream) - k >= 24 /\ Len(stream) \in Nat
      BY <1>2, <1>13 DEF CanPop
    <3> QED
      BY <1>4, <1>8, <3>1, <3>2
  <2> HIDE DEF k
  <2>3. Lies(b, g.at + k, Drop(k))
    BY <1>2, <1>4, <1>7, <2>2, PopLies
  <2> QED
    BY <1>11, <2>1, <2>2, <2>3 DEF FaxOn
<1> QED
  BY <1>12, <1>13

\* What Horizontal counts: no more than was written, the second run only behind all of the first.
TwoRuns(one, two, m, n, len, size) ==
    /\ one \in Nat /\ two.count \in Nat /\ one <= m /\ two.count <= n
    /\ two.count = 0 \/ one = m
    /\ two.ok => one = m /\ two.count = n /\ two.at = len /\ two.at + 24 <= size

\* The decoder counts the two runs, or no more of them than was written.
LEMMA RunsCounted ==
    ASSUME stream \in Seq(Digit), NEW b \in Seq(Digit), NEW at \in Nat, Lies(b, at, stream), CanPop(3),
           NEW m \in Nat, NEW n \in Nat, NEW c, NEW d, NEW code, Lies(b, at, code),
           code = (HorizontalCode \o RunBits(m, c)) \o RunBits(n, d),
           NEW one, one = RunLength(stream, 3, c),
           NEW two, two = (IF one.ok THEN RunLength(stream, one.at, d) ELSE [one EXCEPT !.count = 0])
    PROVE  TwoRuns(one.count, two, m, n, Len(code), Len(stream))
<1> DEFINE x == RunBits(m, c)
           y == RunBits(n, d)
           size == Len(stream)
           three == 3
<1>1. /\ x \in Seq(Digit) /\ y \in Seq(Digit) /\ Lies(b, at + three, x) /\ Lies(b, (at + three) + Len(x), y)
      /\ Len(code) = (three + Len(x)) + Len(y)
  <2>1. PartsAt(b, at, RunBits(m, c), RunBits(n, d), Len(code))
    <3> HIDE DEF x, y, size, three
    <3> QED
      BY HorizontalParts
  <2> QED
    BY <2>1 DEF PartsAt
<1>2. three \in Nat /\ size \in Nat /\ three + 24 <= size /\ Len(x) \in Nat /\ Len(y) \in Nat
  BY <1>1 DEF CanPop
<1>3. one = RunLength(stream, three, c)
  OBVIOUS
<1> HIDE DEF three
<1>4. one \in Runs(size) /\ Counted(one, m, three, Len(x), size)
  <2>1. /\ RunLength(stream, three, c) \in Runs(Len(stream))
        /\ Counted(RunLength(stream, three, c), m, three, Len(RunBits(m, c)), Len(stream))
    BY <1>1, <1>2, RunRead
  <2> QED
    BY <1>3, <2>1
<1>5. one.count \in Nat /\ one.at \in 0 .. size /\ one.ok \in BOOLEAN /\ one.count <= m
      /\ (one.ok => one.count = m /\ one.at = three + Len(x) /\ one.at + 24 <= size)
  BY <1>4 DEF Runs, Counted
<1>6. CASE ~ one.ok
  <2>1. two.count = 0 /\ two.ok = FALSE
    BY <1>4, <1>5, <1>6 DEF Runs
  <2> QED
    BY <1>5, <2>1 DEF TwoRuns
<1>7. CASE one.ok
  <2>1. two = RunLength(stream, one.at, d) /\ one.count = m /\ one.at = three + Len(x) /\ one.at + 24 <= size
    BY <1>5, <1>7
  <2> DEFINE start == one.at
  <2>2. start \in Nat /\ start + 24 <= Len(stream) /\ Lies(b, at + start, y)
    <3>1. (at + three) + Len(x) = at + start
      BY <1>2, <2>1
    <3>2. Lies(b, at + start, y)
      BY <1>1, <3>1
    <3> QED
      BY <1>5, <2>1, <3>2
  <2> HIDE DEF start
  <2>3. /\ RunLength(stream, start, d) \in Runs(Len(stream))
        /\ Counted(RunLength(stream, start, d), n, start, Len(RunBits(n, d)), Len(stream))
    BY <2>2, RunRead
  <2>4. two \in Runs(size) /\ Counted(two, n, start, Len(y), size)
    BY <2>1, <2>3 DEF start
  <2>5. two.count \in Nat /\ two.count <= n /\ two.at \in 0 .. size
        /\ (two.ok => two.count = n /\ two.at = start + Len(y) /\ two.at + 24 <= size)
    BY <2>4 DEF Runs, Counted
  <2>6. start + Len(y) = Len(code)
    BY <1>1, <1>2, <2>1 DEF start
  <2> QED
    BY <1>5, <2>1, <2>5, <2>6 DEF TwoRuns
<1> QED
  BY <1>5, <1>6, <1>7

\* They are painted as they are, and the second reaches the end of the row if it was written so.
PaintedRuns(here, end, a1, a2, two, remaining, rl1, rl2) ==
    /\ rl1 \in Nat /\ rl2 \in Nat /\ here + (rl1 + rl2) <= end
    /\ rl1 <= a1 - here /\ rl2 <= a2 - a1 /\ (rl2 = 0 \/ rl1 = a1 - here)
    /\ two.ok => here + (rl1 + rl2) = a2 /\ (two.count >= remaining - rl1 <=> a2 = end)

\* What it paints of them does not leave the row.
LEMMA RunsPainted ==
    ASSUME NEW here \in Nat, NEW end \in Nat, NEW a1 \in here .. end, NEW a2 \in a1 .. end, here < end,
           NEW one, NEW two, NEW len, NEW size, TwoRuns(one, two, a1 - here, a2 - a1, len, size),
           NEW remaining, remaining = end - here,
           NEW rl1, rl1 = (IF one > remaining THEN remaining ELSE one),
           NEW rl2, rl2 = (IF two.count >= remaining - rl1 THEN remaining - rl1 ELSE two.count)
    PROVE  PaintedRuns(here, end, a1, a2, two, remaining, rl1, rl2)
<1> DEFINE m == a1 - here
           n == a2 - a1
           k == two.count
<1>1. /\ one \in Nat /\ k \in Nat /\ one <= m /\ k <= n /\ (k = 0 \/ one = m)
      /\ two.ok => one = m /\ k = n
  BY DEF TwoRuns
<1>2. /\ m \in Nat /\ n \in Nat /\ remaining \in Nat /\ m + n <= remaining /\ here + remaining = end
      /\ m = a1 - here /\ n = a2 - a1
  OBVIOUS
<1> HIDE DEF m, n, k
<1>3. rl1 = one
  BY <1>1, <1>2
<1>4. rl2 = (IF k >= remaining - rl1 THEN remaining - rl1 ELSE k)
  BY DEF k
<1>5. rl2 = k
  BY <1>1, <1>2, <1>3, <1>4
<1>6. here + (rl1 + rl2) <= end
  BY <1>1, <1>2, <1>3, <1>5
<1>7. ASSUME two.ok PROVE here + (rl1 + rl2) = a2 /\ (k >= remaining - rl1 <=> a2 = end)
  <2>1. one = m /\ k = n
    BY <1>1, <1>7
  <2> QED
    BY <1>2, <1>3, <1>5, <2>1
<1> QED
  BY <1>1, <1>3, <1>5, <1>6, <1>7 DEF PaintedRuns, m, n, k

\* A horizontal mode takes the decoder to the next point, or the stream ends in it.
LEMMA HorizontalStep ==
    ASSUME NEW A, NEW b, NEW g, AtMode(A, b, g), NEW h, NEW p, NEW code, ModeHere(A, b, g, h, p, code), Horizontal,
           UNCHANGED columns
    PROVE  FaxPainted(A) /\ (FaxOn(A, b, h) \/ FaxEnds)
<1>1. Parsing /\ Upcoming(HorizontalCode) /\ Len(stream) >= 24
  BY DEF Horizontal, Parsing
<1>2. CASE ~ CanPop(3)
  <2>1. UNCHANGED <<pixels, columns>> /\ FaxEnds
    BY <1>2 DEF Horizontal, Fail, FaxEnds
  <2> QED
    BY <2>1, NothingPainted
<1>3. CASE CanPop(3)
  <2> DEFINE Second(one) == IF one.ok THEN RunLength(stream, one.at, Flip(color))
                           ELSE [one EXCEPT !.count = 0]
             remaining == columns - (Here % columns)
             First(one) == IF one.count > remaining THEN remaining ELSE one.count
             Rest(one, two) == IF Fills(two.count, remaining - First(one)) THEN remaining - First(one)
                               ELSE two.count
  <2>1. PICK one \in {RunLength(stream, 3, color)} : \E two \in {Second(one)} :
            /\ pixels' = pixels \o [i \in 1 .. First(one) + Rest(one, two) |->
                                      IF i <= First(one) THEN color ELSE Flip(color)]
            /\ IF Fills(two.count, remaining - First(one)) THEN atNewLine' = TRUE /\ color' = White
               ELSE atNewLine' = FALSE /\ UNCHANGED color
            /\ IF two.ok THEN Proceed(Drop(two.at)) ELSE Fail
    BY <1>3 DEF Horizontal
  <2>2. PICK two \in {Second(one)} :
            /\ pixels' = pixels \o [i \in 1 .. First(one) + Rest(one, two) |->
                                      IF i <= First(one) THEN color ELSE Flip(color)]
            /\ IF Fills(two.count, remaining - First(one)) THEN atNewLine' = TRUE /\ color' = White
               ELSE atNewLine' = FALSE /\ UNCHANGED color
            /\ IF two.ok THEN Proceed(Drop(two.at)) ELSE Fail
    BY <2>1
  <2>3. /\ stream \in Seq(Digit) /\ b \in Seq(Digit) /\ Lies(b, g.at, stream) /\ pixels \in Seq(Colors)
        /\ Image(A, columns) /\ g \in FaxPoints /\ FaxPointOK(A, columns, g) /\ g.here < Len(A)
        /\ Lies(A, 0, pixels) /\ columns <= Len(pixels)
    BY DEF AtMode
  <2>4. FaxMode(A, columns, g, p, code) /\ code \in Seq(Digit) /\ Lies(b, g.at, code)
        /\ h = ModeEnd(columns, g, p, g.at + Len(code))
    BY DEF ModeHere
  <2>5. ModeOf(stream) = 4
    <3>1. HorizontalCode \in Seq(Digit)
      BY DEF HorizontalCode, Digit
    <3>2. Heads(stream, HorizontalCode)
      BY <1>1, <2>3, <3>1, UpcomingHeads
    <3> QED
      BY <3>2, ModeOfOthers
  <2>6. ByHorizontal(A, columns, g, p, code)
    BY <1>1, <2>3, <2>4, <2>5, ModeAhead
  <2> DEFINE here == g.here
             row  == RowOf(columns, g.here)
             end  == RowOf(columns, g.here) + columns
             a1   == A1(A, columns, g)
             a2   == A2(A, columns, g)
             c    == Shade(A, g)
             at   == g.at
             len  == Len(code)
             rl1  == First(one)
             rl2  == Rest(one, two)
             ends == Fills(two.count, remaining - First(one))
             size == Len(stream)
  <2>7. /\ columns \in Nat \ {0} /\ here \in Nat /\ row \in Nat /\ end = row + columns /\ end <= Len(A)
        /\ here < end /\ a1 \in here .. end /\ a2 \in a1 .. end /\ end \in Nat
        /\ (\A i \in here .. a1 - 1 : A[i + 1] = c) /\ (\A i \in a1 .. a2 - 1 : A[i + 1] = Flip(c))
        /\ (a2 < end => A[a2 + 1] = c) /\ color = c /\ at \in Nat /\ Len(pixels) = here
        /\ Here = here /\ LineStart = row /\ columns <= here
    BY PlacesAt DEF RowRuns
  <2>8. remaining = end - here
    <3>1. columns - (Here % columns) = LineStart + columns - Here
      BY <2>3, <2>7, Above
    <3> DEFINE r == columns - (Here % columns)
    <3>2. r = LineStart + columns - Here
      BY <3>1
    <3> HIDE DEF r, end, row, here
    <3>3. r = end - here
      BY <2>7, <3>2
    <3> QED
      BY <3>3 DEF r
  <2>9. p = a2 /\ code = (HorizontalCode \o RunBits(a1 - here, c)) \o RunBits(a2 - a1, Flip(c))
    BY <2>6 DEF ByHorizontal
  <2>10. one = RunLength(stream, 3, c) /\ two = (IF one.ok THEN RunLength(stream, one.at, Flip(c)) ELSE [one EXCEPT !.count = 0])
    BY <2>7
  <2>11. a1 - here \in Nat /\ a2 - a1 \in Nat
    <3> HIDE DEF a1, a2, here, end
    <3> QED
      BY <2>7
  <2>12. TwoRuns(one.count, two, a1 - here, a2 - a1, len, size)
    <3> DEFINE m == a1 - here
               n == a2 - a1
               d == Flip(c)
    <3>1. m \in Nat /\ n \in Nat /\ code = (HorizontalCode \o RunBits(m, c)) \o RunBits(n, d)
      BY <2>9, <2>11
    <3>2. one = RunLength(stream, 3, c) /\ two = (IF one.ok THEN RunLength(stream, one.at, d) ELSE [one EXCEPT !.count = 0])
      BY <2>10
    <3>3. Lies(b, at, stream) /\ Lies(b, at, code) /\ at \in Nat
      BY <2>3, <2>4, <2>7
    <3> HIDE DEF m, n, c, d, at
    <3>4. TwoRuns(one.count, two, m, n, Len(code), Len(stream))
      BY <1>3, <2>3, <3>1, <3>2, <3>3, RunsCounted
    <3> QED
      BY <3>4 DEF m, n
  <2>13. rl2 = (IF two.count >= remaining - rl1 THEN remaining - rl1 ELSE two.count)
         /\ rl1 = (IF one.count > remaining THEN remaining ELSE one.count)
         /\ (ends <=> two.count >= remaining - rl1)
    BY DEF Fills
  <2>14. /\ pixels' = pixels \o [i \in 1 .. rl1 + rl2 |-> IF i <= rl1 THEN color ELSE Flip(color)]
         /\ IF ends THEN atNewLine' = TRUE /\ color' = White ELSE atNewLine' = FALSE /\ color' = color
         /\ IF two.ok THEN Proceed(Drop(two.at)) ELSE Fail
    BY <2>2
  <2> HIDE DEF rl1, rl2, ends, remaining, Second, First, Rest, here, row, end, a1, a2, c, at, len, size
  <2>15. /\ rl1 \in Nat /\ rl2 \in Nat /\ here + (rl1 + rl2) <= end
         /\ rl1 <= a1 - here /\ rl2 <= a2 - a1 /\ (rl2 = 0 \/ rl1 = a1 - here)
         /\ two.ok => here + (rl1 + rl2) = a2 /\ (ends <=> a2 = end)
    <3> DEFINE count == one.count
    <3>1. TwoRuns(count, two, a1 - here, a2 - a1, len, size) /\ rl1 = (IF count > remaining THEN remaining ELSE count)
      BY <2>12, <2>13
    <3>3. /\ here \in Nat /\ end \in Nat /\ a1 \in here .. end /\ a2 \in a1 .. end /\ here < end
          /\ remaining = end - here
          /\ rl2 = (IF two.count >= remaining - rl1 THEN remaining - rl1 ELSE two.count)
      BY <2>7, <2>8, <2>13
    <3> HIDE DEF count
    <3>2. PaintedRuns(here, end, a1, a2, two, remaining, rl1, rl2)
      BY <3>1, <3>3, RunsPainted
    <3> QED
      BY <2>13, <3>2 DEF PaintedRuns
  <2> DEFINE n == rl1 + rl2
             f == [i \in 1 .. n |-> IF i <= rl1 THEN color ELSE Flip(color)]
  <2>16. n \in Nat /\ f = [k \in 1 .. n |-> f[k]] /\ pixels' = pixels \o f
    BY <2>14, <2>15
  <2>17. \A k \in 1 .. n : A[Len(pixels) + k] = f[k]
    <3> SUFFICES ASSUME NEW k \in 1 .. n PROVE A[here + k] = f[k]
      BY <2>7
    <3> DEFINE i == (here + k) - 1
    <3>1. k \in 1 .. rl1 + rl2 /\ k \in Nat /\ i = (here + k) - 1 /\ i + 1 = here + k
      BY <2>7, <2>15
    <3>2. f[k] = IF k <= rl1 THEN c ELSE Flip(c)
      BY <2>7
    <3> HIDE DEF i, f, n
    <3>3. CASE k <= rl1
      <4>1. i \in here .. a1 - 1
        BY <2>7, <2>15, <3>1, <3>3
      <4>2. A[i + 1] = c
        BY <2>7, <4>1
      <4> QED
        BY <3>1, <3>2, <3>3, <4>2
    <3>4. CASE ~ (k <= rl1)
      <4>1. i \in a1 .. a2 - 1
        <5>1. rl2 # 0 /\ rl1 = a1 - here
          BY <2>15, <3>1, <3>4
        <5> QED
          BY <2>7, <2>15, <3>1, <3>4, <5>1
      <4>2. A[i + 1] = Flip(c)
        BY <2>7, <4>1
      <4> QED
        BY <3>1, <3>2, <3>4, <4>2
    <3> QED
      BY <3>3, <3>4
  <2>18. Len(pixels) + n <= Len(A)
    <3>1. A \in Seq(Colors) /\ Len(A) \in Nat
      BY <2>3 DEF Image
    <3> QED
      BY <2>7, <2>15, <3>1
  <2> HIDE DEF f
  <2>19. FaxPainted(A) /\ Len(pixels') = Len(pixels) + n
    <3> HIDE DEF n
    <3>1. A \in Seq(Colors) /\ columns \in Nat
      BY <2>3, <2>7 DEF Image
    <3> QED
      BY <2>3, <2>16, <2>17, <2>18, <3>1, PaintLies
  <2>20. CASE ~ two.ok
    <3>1. FaxEnds
      BY <2>14, <2>20 DEF Fail, FaxEnds
    <3> QED
      BY <2>19, <3>1
  <2>21. CASE two.ok
    <3>1. Len(pixels') = p /\ (ends <=> p = end)
      BY <2>7, <2>9, <2>15, <2>19, <2>21
    <3>2. h.here = p /\ h.fresh = (p = end) /\ h.at = at + len
      BY <2>4 DEF ModeEnd, end, at, len
    <3>3. atNewLine' = h.fresh
      BY <2>14, <3>1, <3>2
    <3>4. color' = Shade(A, h)
      <4>1. CASE p = end
        BY <2>14, <3>1, <3>2, <4>1 DEF Shade
      <4>2. CASE p # end
        <5>1. a2 < end
          BY <2>7, <2>9, <4>2
        <5>2. color' = c /\ A[p + 1] = c
          BY <2>7, <2>9, <2>14, <3>1, <4>2, <5>1
        <5> QED
          BY <3>2, <4>2, <5>2 DEF Shade
      <4> QED
        BY <4>1, <4>2
    <3>5. stream' = Drop(two.at) /\ UNCHANGED <<received, result>> /\ two.at = len
      BY <2>12, <2>14, <2>21 DEF Proceed, TwoRuns
    <3>6. len \in Nat /\ len <= Len(stream)
      <4>1. len \in Nat
        BY <2>4 DEF len
      <4>2. two.at + 24 <= size /\ size \in Nat
        BY <2>3, <2>12, <2>21 DEF TwoRuns, size
      <4> QED
        BY <3>5, <4>1, <4>2 DEF size
    <3>7. Lies(b, at + len, Drop(len))
      <4>1. Lies(b, at, stream) /\ at \in Nat
        BY <2>3, <2>7 DEF at
      <4> QED
        BY <2>3, <3>6, <4>1, PopLies
    <3>8. FaxOn(A, b, h)
      BY <3>1, <3>2, <3>3, <3>4, <3>5, <3>7 DEF FaxOn
    <3> QED
      BY <2>19, <3>8
  <2> QED
    BY <2>20, <2>21
<1> QED
  BY <1>2, <1>3

\* The steps that read no mode.
NoMode == Extension \/ NothingToParse \/ EndOfParsing

\* The decoder's steps that read one come to the next point or end.
LEMMA ModeStep ==
    ASSUME NEW b, NEW P, NEW e, NEW g, G4ReadingOf(b, P, e, g), G4Inv, UNCHANGED columns,
           Pass \/ Horizontal \/ \E d \in -3 .. 3 : Vertical(d)
    PROVE  FaxPainted(All(columns)) /\ ((\E h \in P : FaxOn(All(columns), b, h)) \/ FaxEnds)
<1> DEFINE A == All(columns)
<1>1. /\ b \in Seq(Digit) /\ ModesTo(A, columns, b, P, e) /\ g \in P /\ e.here = Len(A)
      /\ Lies(b, e.at, EndOfFacsimile) /\ Lies(b, g.at, stream) /\ AtFaxPoint(A, columns, g)
  BY DEF G4ReadingOf
<1>2. /\ columns \in Nat \ {0} /\ input \in Seq(Colors) /\ Len(input) % columns = 0 /\ stream \in Seq(Digit)
      /\ pixels \in Seq(Colors) /\ Lies(A, 0, pixels) /\ columns <= Len(pixels)
  BY DEF G4Inv, G4Typed, WholeRows
<1>3. Image(A, columns)
  BY <1>2, AllIs
<1>4. g \in FaxPoints /\ FaxPointOK(A, columns, g) /\ g.at \in Nat
  BY <1>1 DEF ModesTo, FaxPoints
<1>5. Len(stream) >= 24
  BY DEF Pass, Horizontal, Vertical, Parsing
<1> HIDE DEF A
<1>6. g # e
  <2> SUFFICES ASSUME g = e PROVE FALSE
    OBVIOUS
  <2> DEFINE at == g.at
  <2>1. Lies(b, at, stream) /\ Lies(b, at, EndOfFacsimile) /\ at \in Nat
    BY <1>1, <1>4
  <2> HIDE DEF at
  <2>2. ModeOf(stream) = 6
    BY <1>1, <1>2, <1>5, <2>1, EndHasNoMode
  <2>3. CASE Pass
    <3>1. Upcoming(PassCode) /\ PassCode \in Seq(Digit)
      BY <2>3 DEF Pass, PassCode, Digit
    <3>2. Heads(stream, PassCode)
      BY <1>2, <3>1, UpcomingHeads
    <3> QED
      BY <2>2, <3>2, ModeOfOthers
  <2>4. CASE Horizontal
    <3>1. Upcoming(HorizontalCode)
      BY <2>4 DEF Horizontal
    <3>2. HorizontalCode \in Seq(Digit)
      BY DEF HorizontalCode, Digit
    <3>3. Heads(stream, HorizontalCode)
      BY <1>2, <3>1, <3>2, UpcomingHeads
    <3> QED
      BY <2>2, <3>3, ModeOfOthers
  <2>5. ASSUME NEW d \in -3 .. 3, Vertical(d) PROVE FALSE
    <3>1. Upcoming(VerticalCode(d)) /\ VerticalCode(d) \in Seq(Digit)
      BY <2>5, VerticalCodeTyped DEF Vertical
    <3>2. Heads(stream, VerticalCode(d))
      BY <1>2, <3>1, UpcomingHeads
    <3>3. ModeOf(stream) = d
      BY <3>2, ModeOfVertical
    <3> QED
      BY <2>2, <3>3
  <2> QED
    BY <2>3, <2>4, <2>5
<1>7. PICK h \in P : ModeBetween(A, columns, b, g, h)
  BY <1>1, <1>6 DEF ModesTo
<1>8. PICK p, code : ModeHere(A, b, g, h, p, code)
  BY <1>7 DEF ModeBetween, ModeHere
<1>9. AtMode(A, b, g)
  <2>1. g.here < Len(A)
    BY <1>7 DEF ModeBetween
  <2> QED
    BY <1>1, <1>2, <1>3, <1>4, <2>1 DEF AtMode
<1>10. FaxPainted(A) /\ (FaxOn(A, b, h) \/ FaxEnds)
  BY <1>8, <1>9, PassStep, HorizontalStep, VerticalStep
<1> QED
  BY <1>7, <1>10 DEF A

\* Group 4: every step of the decoder keeps the invariant.
LEMMA FaxStepInv ==
    ASSUME G4Inv, FaxStep, UNCHANGED <<columns, fresh>>
    PROVE  G4Inv'
<1> DEFINE A == All(columns)
<1>1. closed /\ closed' = closed /\ result = "none" /\ UNCHANGED <<input, todo, columns>>
  BY DEF FaxStep, Pass, Horizontal, Extension, Vertical, NothingToParse, EndOfParsing, Parsing, Reading
<1>2. /\ columns \in Nat \ {0} /\ input \in Seq(Colors) /\ todo \in Seq(Colors) /\ Len(todo) <= Len(input)
      /\ WholeRows /\ stream \in Seq(Digit) /\ pixels \in Seq(Colors)
      /\ Lies(A, 0, pixels) /\ columns <= Len(pixels) /\ received = <<>>
  BY <1>1 DEF G4Inv, G4Typed
<1>3. PICK b, P, e, g : G4ReadingOf(b, P, e, g)
  BY <1>1 DEF G4Inv
<1>4. stream' \in Seq(Digit)
  <2> DEFINE n == Len(pixels)
  <2>1. Lies(A, 0, pixels) /\ AtFaxPoint(A, columns, g) /\ g \in P /\ ModesTo(A, columns, b, P, e)
    BY <1>2, <1>3 DEF G4ReadingOf
  <2>2. Image(A, columns)
    BY <1>2, AllIs DEF WholeRows
  <2>3. g \in FaxPoints /\ FaxPointOK(A, columns, g)
    BY <2>1 DEF ModesTo
  <2>4. color \in Colors /\ atNewLine \in BOOLEAN /\ (atNewLine => color = White /\ Len(pixels) % columns = 0)
    <3>1. g.fresh \in BOOLEAN /\ g.here \in Nat /\ (g.fresh => g.here % columns = 0)
          /\ (~ g.fresh => g.here < Len(A))
      BY <2>3 DEF FaxPoints, FaxPointOK
    <3>2. atNewLine = g.fresh /\ color = Shade(A, g) /\ Len(pixels) = g.here
      BY <2>1 DEF AtFaxPoint
    <3>3. CASE g.fresh
      BY <3>1, <3>2, <3>3 DEF Shade, Colors
    <3>4. CASE ~ g.fresh
      <4>1. A \in Seq(Colors)
        BY <2>2 DEF Image
      <4>2. g.here + 1 \in 1 .. Len(A)
        BY <3>1, <3>4
      <4> HIDE DEF A
      <4>3. A[g.here + 1] \in Colors
        BY <4>1, <4>2
      <4> QED
        BY <3>1, <3>2, <3>4, <4>3 DEF Shade
    <3> QED
      BY <3>1, <3>3, <3>4
  <2>5. RowsOK(columns, pixels, atNewLine, color) /\ columns \in Int
    BY <1>2, <2>4 DEF RowsOK
  <2> QED
    BY <1>2, <2>5, FaxStepRows DEF StreamLeft
<1>5. A' = A /\ WholeRows' /\ Stripped(pixels)' = SubSeq(pixels', columns + 1, Len(pixels'))
  BY <1>1, <1>2 DEF All, WholeRows, WhiteRow, Stripped
<1> DEFINE Kept == FaxPainted(A) /\ ((\E h \in P : FaxOn(A, b, h)) \/ FaxEnds)
<1>6. ASSUME NoMode PROVE Kept
  <2>1. UNCHANGED pixels /\ result' # "none"
    BY <1>6 DEF NoMode, Extension, Fail, NothingToParse, EndOfParsing
  <2>2. received' = received \/ received' = Stripped(pixels)' \/ received' = Stripped(pixels)
    BY <1>6 DEF NoMode, Extension, Fail, NothingToParse, EndOfParsing, Stripped
  <2>3. FaxPainted(A)
    BY <1>2, <2>1 DEF FaxPainted
  <2>4. FaxEnds
    BY <1>1, <2>1, <2>2 DEF FaxEnds, Stripped
  <2> QED
    BY <2>3, <2>4
<1>7. Kept
  BY <1>1, <1>3, <1>6, ModeStep DEF FaxStep, NoMode
<1>8. /\ pixels' \in Seq(Colors) /\ Lies(A, 0, pixels') /\ columns <= Len(pixels')
      /\ (\E h \in P : FaxOn(A, b, h)) \/ FaxEnds
  BY <1>7 DEF FaxPainted
<1>9. G4Typed'
  BY <1>1, <1>2, <1>4, <1>5, <1>8 DEF G4Typed
<1> HIDE DEF A
<1>10. CASE FaxEnds
  <2>1. result' # "none" /\ (received' = <<>> \/ received' = Stripped(pixels)')
    BY <1>2, <1>5, <1>10 DEF FaxEnds, Stripped
  <2>2. All(columns)' = A /\ columns' = columns
    BY <1>1, <1>5 DEF A
  <2> QED
    BY <1>1, <1>8, <1>9, <2>1, <2>2 DEF G4Inv
<1>11. ASSUME NEW h \in P, FaxOn(A, b, h) PROVE G4Inv'
  <2>1. /\ received' = received /\ result' = result /\ Lies(b, h.at, stream')
        /\ Len(pixels') = h.here /\ atNewLine' = h.fresh /\ color' = Shade(A, h)
    BY <1>11 DEF FaxOn
  <2>2. All(columns)' = A /\ columns' = columns /\ All(columns) = A
    BY <1>1, <1>5 DEF A
  <2>3. /\ b \in Seq(Digit) /\ ModesTo(All(columns)', columns', b, P, e) /\ h \in P
        /\ e.here = Len(All(columns)') /\ Lies(b, e.at, EndOfFacsimile) /\ Lies(b, h.at, stream')
        /\ Len(pixels') = h.here /\ atNewLine' = h.fresh /\ color' = Shade(All(columns)', h)
    BY <1>3, <2>1, <2>2 DEF G4ReadingOf
  <2>4. G4ReadingOf(b, P, e, h)'
    BY <2>3 DEF G4ReadingOf, AtFaxPoint
  <2> QED
    BY <1>1, <1>2, <1>8, <1>9, <2>1, <2>2, <2>4 DEF G4Inv
<1> QED
  BY <1>8, <1>10, <1>11

\* Group 4: every step keeps the invariant.
LEMMA G4NextInv ==
    ASSUME G4Inv, FaxNext, closed => todo = <<>>
    PROVE  G4Inv'
<1>1. CASE EncodeMode
  <2>1. ~ closed
    BY <1>1 DEF EncodeMode
  <2> QED
    BY <1>1, <2>1, EncodeModeInv
<1> QED
  BY <1>1, EncodeEndOfFacsimileInv, FaxStepInv DEF FaxNext

\* The pixels that are returned are the first of the image.
LEMMA G4RoundTrip ==
    ASSUME G4Inv
    PROVE  IsPrefix(Stripped(pixels), input) /\ IsPrefix(received, input)
<1> DEFINE A == All(columns)
           z == 0
           r == Stripped(pixels)
<1>1. /\ columns \in Nat \ {0} /\ input \in Seq(Colors) /\ Len(input) % columns = 0 /\ pixels \in Seq(Colors)
      /\ Lies(A, 0, pixels) /\ columns <= Len(pixels) /\ (received = <<>> \/ received = r)
  BY DEF G4Inv, G4Typed, WholeRows
<1>2. A \in Seq(Colors) /\ Lies(A, columns, input) /\ Len(A) = columns + Len(input)
  BY <1>1, AllIs DEF Image
<1>3. z \in Nat /\ Lies(A, z, pixels) /\ z + columns = columns /\ columns + z = columns /\ z = 0 /\ columns \in Nat
  BY <1>1
<1>4. r = SubSeq(pixels, columns + 1, Len(pixels))
  BY DEF Stripped
<1> HIDE DEF A, z, r
<1>5. r \in Seq(Colors) /\ Len(r) = Len(pixels) - columns /\ Lies(A, z + columns, r)
  BY <1>1, <1>2, <1>3, <1>4, LiesOn
<1>6. z + Len(r) <= Len(input)
  <2>1. Len(pixels) <= Len(A) /\ Len(pixels) \in Nat /\ Len(input) \in Nat
    BY <1>1, <1>3 DEF Lies
  <2> QED
    BY <1>1, <1>2, <1>3, <1>5, <2>1
<1>7. Lies(input, z, r)
  <2>1. Lies(A, columns + z, r)
    BY <1>3, <1>5
  <2> QED
    BY <1>1, <1>2, <1>3, <1>5, <1>6, <2>1, LiesWithin
<1>8. IsPrefix(r, input)
  BY <1>1, <1>3, <1>5, <1>7, LiesIsFirst
<1>9. IsPrefix(<<>>, input)
  BY <1>1, NothingIsFirst
<1> QED
  BY <1>1, <1>8, <1>9 DEF r

-----------------------------------------------------------------------------
(***************************************************************************)
(* All the methods.                                                        *)
(***************************************************************************)
Coded == Whole \cup Zlib \cup {"PackBits", "LZW", "G4"}

\* What holds of a method's stream that an encoder wrote.
StreamInv ==
    /\ method \in Coded
    /\ closed \in BOOLEAN /\ (closed => todo = <<>>)
    /\ method \in Whole \cup Zlib => PlainInv
    /\ method = "PackBits" => PackBitsInv
    /\ method = "LZW" => LZWInv
    /\ method = "G4" => G4Inv

RoundTripInv == noise \in BOOLEAN /\ (~ noise => StreamInv)

\* The methods are apart.
LEMMA Methods ==
    /\ \A m \in Whole \cup Zlib : m \notin {"PackBits", "LZW", "G4", "G3"} /\ m \notin Unsupported
    /\ \A m \in {"PackBits", "LZW", "G4"} : m \notin Whole \cup Zlib /\ m \notin Unsupported
    /\ \A m \in Whole : m \notin Zlib
    /\ \A m \in Zlib : m \notin Whole
  BY DEF Whole, Zlib, Unsupported

\* The invariant holds in the beginning.
LEMMA InitRoundTrip == Init => RoundTripInv
<1> SUFFICES ASSUME Init, noise = FALSE PROVE StreamInv
  <2>1. Init => noise \in BOOLEAN
    BY DEF Init
  <2> QED
    BY <2>1 DEF RoundTripInv
<1>1. LZWInit
  BY DEF Init
<1>2. CASE FaxInit(1) /\ \E s \in LZWInputs : CodedInit("LZW", s, LZWBegin, FALSE)
  <2>1. PICK s \in LZWInputs : CodedInit("LZW", s, LZWBegin, FALSE)
    BY <1>2
  <2>2. s \in Seq(Bytes)
    BY InputsAssumption DEF Bytes
  <2>3. LZWInv
    BY <1>1, <2>1, <2>2, InitLZW
  <2>4. method = "LZW" /\ closed = FALSE
    BY <2>1 DEF CodedInit
  <2> QED
    BY <2>3, <2>4, Methods DEF StreamInv, Coded
<1>3. CASE \E f \in FaxInputs : FaxInit(f.columns) /\ CodedInit("G4", f.pixels, <<>>, FALSE)
  <2>1. PICK f \in FaxInputs : FaxInit(f.columns) /\ CodedInit("G4", f.pixels, <<>>, FALSE)
    BY <1>3
  <2>2. f.columns \in Nat \ {0} /\ f.pixels \in Seq(Colors) /\ Len(f.pixels) % f.columns = 0
    BY FaxAssumption DEF Colors
  <2> DEFINE w == f.columns
             s == f.pixels
  <2>3. w \in Nat \ {0} /\ s \in Seq(Colors) /\ Len(s) % w = 0 /\ FaxInit(w) /\ CodedInit("G4", s, <<>>, FALSE)
    BY <2>1, <2>2
  <2> HIDE DEF w, s
  <2>4. G4Inv
    BY <2>3, InitG4
  <2>5. method = "G4" /\ closed = FALSE
    BY <2>3 DEF CodedInit
  <2> QED
    BY <2>4, <2>5, Methods DEF StreamInv, Coded
<1>4. ASSUME NEW s \in ByteInputs, NEW how \in Whole, CodedInit(how, s, <<>>, FALSE) PROVE StreamInv
  <2>1. method = how /\ closed = FALSE
    BY <1>4 DEF CodedInit
  <2>2. CodedInit(method, s, Opening, FALSE)
    BY <1>4, <2>1, Methods DEF Opening
  <2>3. PlainInv
    BY <2>2, InputsAssumption, InitPlain
  <2> QED
    BY <1>4, <2>1, <2>3, Methods DEF StreamInv, Coded
<1> DEFINE header == <<0>>
<1>5. ASSUME NEW s \in ByteInputs, NEW how \in Zlib, CodedInit(how, s, header, FALSE) PROVE StreamInv
  <2>1. method = how /\ closed = FALSE
    BY <1>5 DEF CodedInit
  <2>2. CodedInit(method, s, Opening, FALSE)
    BY <1>5, <2>1, Methods DEF Opening
  <2>3. PlainInv
    BY <2>2, InputsAssumption, InitPlain
  <2> QED
    BY <1>5, <2>1, <2>3, Methods DEF StreamInv, Coded
<1>6. ASSUME NEW s \in ByteInputs, CodedInit("PackBits", s, <<>>, FALSE) PROVE StreamInv
  <2>1. method = "PackBits" /\ closed = FALSE
    BY <1>6 DEF CodedInit
  <2>2. PackBitsInv
    BY <1>6, InputsAssumption, InitPackBits
  <2> QED
    BY <2>1, <2>2, Methods DEF StreamInv, Coded
<1>7. CASE FaxInit(1) /\ \E s \in ByteInputs :
              \/ \E how \in Whole \cup {"PackBits"} : CodedInit(how, s, <<>>, FALSE)
              \/ \E how \in Zlib : CodedInit(how, s, <<0>>, FALSE)
  BY <1>4, <1>5, <1>6, <1>7
<1> QED
  BY <1>2, <1>3, <1>7 DEF Init

\* The steps of Plain.
LEMMA PlainNextInv ==
    ASSUME StreamInv, Plain
    PROVE  StreamInv'
<1>1. method \in Whole \cup Zlib /\ method' = method
  <2>1. method' = method
    BY DEF Plain, EncodeWhole, EncodeWholeEnd, decode_None, decode_Deflate, DecodeUnsupported,
           Encoding, Reading, Close
  <2>2. method \in Whole \cup Zlib \cup Unsupported
    BY DEF Plain, EncodeWhole, EncodeWholeEnd, decode_None, decode_Deflate, DecodeUnsupported
  <2> QED
    BY <2>1, <2>2, Methods DEF StreamInv, Coded
<1>2. PlainInv /\ closed \in BOOLEAN /\ (closed => todo = <<>>)
  BY <1>1 DEF StreamInv
<1>3. CASE EncodeWhole
  <2>1. ~ closed /\ closed' = closed
    BY <1>2, <1>3 DEF EncodeWhole
  <2>2. PlainInv'
    BY <1>2, <1>3, <2>1, EncodeWholeInv
  <2> QED
    BY <1>1, <1>2, <2>1, <2>2, Methods DEF StreamInv
<1>4. CASE EncodeWholeEnd
  <2>1. todo' = todo /\ todo = <<>> /\ closed' = TRUE
    BY <1>4 DEF EncodeWholeEnd, Close
  <2>2. PlainInv'
    BY <1>2, <1>4, EncodeWholeEndInv
  <2> QED
    BY <1>1, <2>1, <2>2, Methods DEF StreamInv
<1>5. CASE decode_None \/ decode_Deflate
  <2>1. todo' = todo /\ closed' = closed
    BY <1>5 DEF decode_None, decode_Deflate, Reading
  <2>2. PlainInv'
    BY <1>2, <1>5, DecodePlainInv
  <2> QED
    BY <1>1, <1>2, <2>1, <2>2, Methods DEF StreamInv
<1>6. CASE DecodeUnsupported
  BY <1>1, <1>6, Methods DEF DecodeUnsupported
<1> QED
  BY <1>3, <1>4, <1>5, <1>6 DEF Plain

\* An encoder that is done has nothing left to encode.
Done == closed' \in BOOLEAN /\ (closed' => todo' = <<>>)

\* No step of an encoder or a decoder gives one that is done something to do.
LEMMA StillDone ==
    ASSUME closed \in BOOLEAN, closed => todo = <<>>,
           \/ todo # <<>> /\ closed' = closed
           \/ todo = <<>> /\ todo' = todo /\ closed' = TRUE
           \/ UNCHANGED <<todo, closed>>
    PROVE  Done
<1>1. CASE todo # <<>> /\ closed' = closed
  <2>1. closed = FALSE
    BY <1>1, Zenon
  <2> QED
    BY <1>1, <2>1, Zenon DEF Done
<1>2. CASE todo = <<>> /\ todo' = todo /\ closed' = TRUE
  BY <1>2, Zenon DEF Done
<1>3. CASE UNCHANGED <<todo, closed>>
  BY <1>3 DEF Done
<1> QED
  BY <1>1, <1>2, <1>3, Zenon

\* The steps of PackBits, LZW and Group 4.
LEMMA OtherNextInv ==
    ASSUME StreamInv,
           \/ method = "PackBits" /\ PackBitsNext
           \/ method = "G4" /\ FaxNext
           \/ method = "LZW" /\ LZWNext
    PROVE  StreamInv'
<1>1. closed \in BOOLEAN /\ (closed => todo = <<>>)
  BY DEF StreamInv
<1>2. CASE method = "PackBits" /\ PackBitsNext
  <2>1. PackBitsInv'
    BY <1>1, <1>2, PackBitsNextInv DEF StreamInv
  <2>2. Done
    <3>1. \/ todo # <<>> /\ closed' = closed
          \/ todo = <<>> /\ todo' = todo /\ closed' = TRUE
          \/ UNCHANGED <<todo, closed>>
      BY <1>2 DEF PackBitsNext, EncodePacket, EncodeLastPacket, Close, ReadPacket, ReadEnd, Reading
    <3> QED
      BY <1>1, <3>1, StillDone
  <2>3. method' = method
    BY <1>2 DEF PackBitsNext, EncodePacket, EncodeLastPacket, Close, Encoding, ReadPacket, ReadEnd, Reading
  <2> QED
    BY <1>2, <2>1, <2>2, <2>3, Methods DEF StreamInv, Coded, Done
<1>3. CASE method = "LZW" /\ LZWNext
  <2>1. LZWInv'
    BY <1>1, <1>3, LZWNextInv DEF StreamInv
  <2>2. Done
    <3>1. \/ todo # <<>> /\ closed' = closed
          \/ todo = <<>> /\ todo' = todo /\ closed' = TRUE
          \/ UNCHANGED <<todo, closed>>
      BY <1>3 DEF LZWNext, EncodeString, EncodeEnd, Close, ReadCode, ReadPastEnd, Receive, ReadAllEnds, Reading
    <3> QED
      BY <1>1, <3>1, StillDone
  <2>3. method' = method
    BY <1>3 DEF LZWNext, EncodeString, EncodeEnd, Close, Encoding, ReadCode, ReadPastEnd, Receive, ReadAllEnds, Reading
  <2> QED
    BY <1>3, <2>1, <2>2, <2>3, Methods DEF StreamInv, Coded, Done
<1>4. CASE method = "G4" /\ FaxNext
  <2>1. G4Inv'
    BY <1>1, <1>4, G4NextInv DEF StreamInv
  <2>2. Done
    <3>1. \/ todo # <<>> /\ closed' = closed
          \/ todo = <<>> /\ todo' = todo /\ closed' = TRUE
          \/ UNCHANGED <<todo, closed>>
      BY <1>4 DEF FaxNext, EncodeMode, EncodeEndOfFacsimile, Close, FaxStep, Pass, Horizontal, Extension, Vertical,
                  NothingToParse, EndOfParsing, Parsing, Reading
    <3> QED
      BY <1>1, <3>1, StillDone
  <2>3. method' = method
    BY <1>4 DEF FaxNext, EncodeMode, EncodeEndOfFacsimile, Close, Encoding, FaxStep, Pass, Horizontal, Extension, Vertical,
                NothingToParse, EndOfParsing, Parsing, Reading
  <2> QED
    BY <1>4, <2>1, <2>2, <2>3, Methods DEF StreamInv, Coded, Done
<1> QED
  BY <1>2, <1>3, <1>4

\* A step of nothing.
LEMMA StillInv ==
    ASSUME StreamInv, UNCHANGED vars
    PROVE  StreamInv'
<1>1. /\ UNCHANGED <<method, input, todo, closed, lost, stream, received, result, noise>>
      /\ UNCHANGED <<columns, pixels, atNewLine, color, fresh>> /\ UNCHANGED dvars /\ UNCHANGED lzwEncoder
  BY DEF vars, codedVars, faxVars
<1>2. method \in Whole \cup Zlib => PlainInv'
  BY <1>1 DEF StreamInv, PlainInv, PlainWriting, PlainReading, Opening, Around
<1>3. method = "PackBits" => PackBitsInv'
  BY <1>1 DEF StreamInv, PackBitsInv, PackBitsWriting, PackBitsReading
<1>4. method = "LZW" => LZWInv'
  <2> SUFFICES ASSUME LZWInv PROVE LZWInv'
    BY DEF StreamInv
  <2>1. UNCHANGED <<width, hi, overflow, last, suffix, prefix, output, toRead, derr, dpc, full, strings, ewidth>>
    BY <1>1 DEF dvars, codec, table, buffer, lzwEncoder
  <2>2. DInv' /\ Buffered' = Buffered
    BY <1>1, <2>1 DEF LZWInv, Buffered, DInv, CodecOK, PrefixesDescend, LastBeforeHi, NotFull, PanicOnlyWhenFull, BufferOK
  <2>3. closed => LZWReading'
    BY <1>1, <2>1, <2>2 DEF LZWInv, LZWReading, AtPoint
  <2>4. ~ closed => LZWWriting' /\ AtPoint(Start(0, 0))' /\ Len(Buffered') = 0
    BY <1>1, <2>1, <2>2 DEF LZWInv, LZWWriting, AtPoint, Start
  <2> QED
    BY <1>1, <2>1, <2>2, <2>3, <2>4 DEF LZWInv
<1>5. method = "G4" => G4Inv'
  <2> SUFFICES ASSUME G4Inv PROVE G4Inv'
    BY DEF StreamInv
  <2>1. All(columns)' = All(columns) /\ Written(columns)' = Written(columns) /\ WhiteRow(columns)' = WhiteRow(columns)
        /\ Stripped(pixels)' = Stripped(pixels) /\ columns' = columns /\ pixels' = pixels
    BY <1>1 DEF All, Written, WhiteRow, Stripped
  <2>2. G4Typed'
    BY <1>1 DEF G4Inv, G4Typed, WholeRows
  <2>3. ~ closed => G4Writing'
    BY <1>1, <2>1 DEF G4Inv, G4Writing
  <2>4. closed /\ result = "none" => (\E b, P, e, g : G4ReadingOf(b, P, e, g)')
    BY <1>1, <2>1 DEF G4Inv, G4ReadingOf, AtFaxPoint
  <2> QED
    BY <1>1, <2>1, <2>2, <2>3, <2>4 DEF G4Inv
<1> QED
  BY <1>1, <1>2, <1>3, <1>4, <1>5 DEF StreamInv

\* Every step keeps the invariant.
LEMMA NextRoundTrip == RoundTripInv /\ [Next]_vars => RoundTripInv'
<1> SUFFICES ASSUME RoundTripInv, [Next]_vars PROVE RoundTripInv'
  OBVIOUS
<1>1. noise' = noise /\ noise \in BOOLEAN
  BY DEF RoundTripInv, Next, vars
<1> SUFFICES ASSUME noise = FALSE PROVE StreamInv'
  BY <1>1 DEF RoundTripInv
<1>2. StreamInv
  BY DEF RoundTripInv
<1>3. CASE Plain
  BY <1>2, <1>3, PlainNextInv
<1>4. CASE \/ method = "PackBits" /\ PackBitsNext
           \/ method \in {"G3", "G4"} /\ FaxNext
           \/ method = "LZW" /\ LZWNext
  <2>1. method # "G3"
    BY <1>2, Methods DEF StreamInv, Coded
  <2> QED
    BY <1>2, <1>4, <2>1, OtherNextInv
<1>5. CASE UNCHANGED vars
  BY <1>2, <1>5, StillInv
<1> QED
  BY <1>3, <1>4, <1>5 DEF Next, AnyCodes

\* It implies the property.
LEMMA RoundTripHolds == RoundTripInv => RoundTrip
<1> SUFFICES ASSUME RoundTripInv, ~ noise PROVE IsPrefix(Held, input) /\ IsPrefix(received, input)
  BY DEF RoundTrip
<1>1. StreamInv
  BY DEF RoundTripInv
<1>2. CASE method \in Whole \cup Zlib \cup {"PackBits"}
  <2>1. IsPrefix(received, input)
    BY <1>1, <1>2 DEF StreamInv, PlainInv, PackBitsInv
  <2>2. Held = received
    BY <1>2, Methods DEF Held
  <2> QED
    BY <2>1, <2>2
<1>3. CASE method = "LZW"
  <2>1. /\ input \in Seq(Bytes) /\ received \in Seq(Bytes) /\ toRead \in Seq(Bytes) /\ output \in Seq(Bytes)
        /\ Lies(input, 0, Buffered)
    BY <1>1, <1>3 DEF StreamInv, LZWInv, DInv, BufferOK
  <2> DEFINE more == toRead \o output
             z == 0
  <2>2. more \in Seq(Bytes) /\ Buffered = received \o more
    <3>1. toRead \o output \in Seq(Bytes)
      BY <2>1, Joined
    <3>2. (received \o toRead) \o output = received \o (toRead \o output)
      BY <2>1, ConcatAssociative
    <3> QED
      BY <3>1, <3>2 DEF Buffered
  <2> HIDE DEF more
  <2>3. Buffered \in Seq(Bytes) /\ Lies(Buffered, 0, received)
    BY <2>1, <2>2, Joined, LiesFirst
  <2>4. z \in Nat /\ z + z = z /\ Lies(input, z, Buffered) /\ Lies(Buffered, z, received) /\ z = 0
    BY <2>1, <2>3
  <2> HIDE DEF z
  <2>5. Lies(input, z + z, received)
    BY <2>1, <2>3, <2>4, LiesIn
  <2>6. IsPrefix(received, input)
    BY <2>1, <2>4, <2>5, LiesIsFirst
  <2>7. IsPrefix(Buffered, input)
    BY <2>1, <2>3, LiesIsFirst
  <2>8. Held = Buffered
    BY <1>3 DEF Held, Buffered
  <2> QED
    BY <2>6, <2>7, <2>8
<1>4. CASE method = "G4"
  <2>1. G4Inv
    BY <1>1, <1>4 DEF StreamInv
  <2>2. Held = Stripped(pixels)
    BY <1>4 DEF Held
  <2> QED
    BY <2>1, <2>2, G4RoundTrip
<1> QED
  BY <1>1, <1>2, <1>3, <1>4 DEF StreamInv, Coded

\* Whatever an encoder writes, and wherever the stream is cut, the decoders of compress.go hold
\* and return nothing but the first part of the data, by every method.
THEOREM RoundTripThm == Spec => []RoundTrip
  BY InitRoundTrip, NextRoundTrip, RoundTripHolds, PTL DEF Spec
=============================================================================
