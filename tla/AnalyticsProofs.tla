-------------------------- MODULE AnalyticsProofs ---------------------------
(***************************************************************************)
(* Proofs about Analytics for any rows, days, limits and number width:     *)
(* sums over rows, the day arithmetic of the filters, and the replies.     *)
(***************************************************************************)
EXTENDS Analytics, SortingProofs, SequenceTheorems

-----------------------------------------------------------------------------
(***************************************************************************)
(* sumIf.  The fold of MapThenSumSet is a recursive function over the      *)
(* subsets of its set; IsTotal is its equation.                            *)
(***************************************************************************)

Total(S) == MapThenSumSet(Revenue, S)

First(s) == CHOOSE x \in s : TRUE

Fold(f, s) == IF s = {} THEN 0 ELSE Revenue(First(s)) + f[s \ {First(s)}]

IsTotal(f, S) == f = [s \in SUBSET S |-> Fold(f, s)]

LEMMA TotalIsChosen ==
    ASSUME NEW S
    PROVE  Total(S) = (CHOOSE f : IsTotal(f, S))[S]
  BY DEF Total, MapThenSumSet, MapThenFoldSet, IsTotal, Fold, First

LEMMA FirstIsMember ==
    ASSUME NEW s, s # {}
    PROVE  First(s) \in s
  BY DEF First

\* Among bad subsets of a finite set one stops being bad whichever element it
\* loses.
LEMMA SmallestBad ==
    ASSUME NEW S, IsFiniteSet(S), NEW Bad \in SUBSET SUBSET S, Bad # {}
    PROVE  \E b \in Bad : \A x \in b : b \ {x} \notin Bad
  <1> DEFINE Sizes == {Cardinality(b) : b \in Bad}
  <1>1. \A b \in Bad : IsFiniteSet(b) /\ Cardinality(b) \in Nat
    BY FS_Subset, FS_CardinalityType
  <1>2. Sizes \in SUBSET Nat /\ Sizes # {}
    BY <1>1
  <1>3. PICK n \in Sizes : \A m \in Sizes : n <= m
    BY <1>2, HasSmallest
  <1>4. PICK b \in Bad : n = Cardinality(b)
    BY <1>3
  <1>5. ASSUME NEW x \in b, b \ {x} \in Bad PROVE FALSE
    <2>1. Cardinality(b \ {x}) = Cardinality(b) - 1
      BY <1>1, FS_RemoveElement
    <2>2. Cardinality(b \ {x}) \in Sizes
      BY <1>5
    <2>3. Cardinality(b) <= Cardinality(b \ {x})
      BY <1>3, <1>4, <2>2
    <2> QED
      BY <1>1, <2>1, <2>3
  <1> QED
    BY <1>5

\* The fold is defined on the subsets of at most n elements, for every n.
LEMMA FoldUpTo ==
    ASSUME NEW S \in SUBSET Rows, IsFiniteSet(S), NEW n \in Nat
    PROVE  \E f \in [SUBSET S -> Int] :
             \A s \in SUBSET S : Cardinality(s) <= n => f[s] = Fold(f, s)
  <1> DEFINE Good(m) == \E f \in [SUBSET S -> Int] :
                          \A s \in SUBSET S : Cardinality(s) <= m => f[s] = Fold(f, s)
             Bad == {m \in Nat : ~Good(m)}
  <1>1. \A s \in SUBSET S : IsFiniteSet(s) /\ Cardinality(s) \in Nat
    BY FS_Subset, FS_CardinalityType
  <1>2. \A r \in S : Revenue(r) \in Int
    BY AnalyticsAssumption DEF Revenue
  <1>3. Good(0)
    <2> DEFINE f == [s \in SUBSET S |-> 0]
    <2>1. \A s \in SUBSET S : Cardinality(s) <= 0 => s = {}
      BY <1>1, FS_EmptySet
    <2>2. f \in [SUBSET S -> Int] /\ \A s \in SUBSET S : f[s] = 0
      OBVIOUS
    <2> HIDE DEF f
    <2>3. \A s \in SUBSET S : Cardinality(s) <= 0 => f[s] = Fold(f, s)
      BY <2>1, <2>2 DEF Fold
    <2> QED
      BY <2>2, <2>3
  <1>4. ASSUME NEW m \in Nat, Good(m) PROVE Good(m + 1)
    <2>1. PICK f \in [SUBSET S -> Int] :
            \A s \in SUBSET S : Cardinality(s) <= m => f[s] = Fold(f, s)
      BY <1>4
    <2> DEFINE g == [s \in SUBSET S |-> IF Cardinality(s) <= m THEN f[s] ELSE Fold(f, s)]
    <2>2. ASSUME NEW s \in SUBSET S PROVE Fold(f, s) \in Int
      <3>1. CASE s = {}
        BY <3>1 DEF Fold
      <3>2. CASE s # {}
        <4>1. First(s) \in S /\ s \ {First(s)} \in SUBSET S
          BY <3>2, FirstIsMember
        <4>2. Revenue(First(s)) \in Int /\ f[s \ {First(s)}] \in Int
          BY <1>2, <4>1
        <4> QED
          BY <3>2, <4>2 DEF Fold
      <3> QED
        BY <3>1, <3>2
    <2>3. g \in [SUBSET S -> Int]
      BY <2>2
    <2>4. ASSUME NEW s \in SUBSET S, Cardinality(s) <= m + 1 PROVE g[s] = Fold(g, s)
      <3>1. g[s] = Fold(f, s)
        BY <2>1
      <3>2. CASE s = {}
        BY <3>1, <3>2 DEF Fold
      <3>3. CASE s # {}
        <4> DEFINE t == s \ {First(s)}
        <4>1. First(s) \in s
          BY <3>3, FirstIsMember
        <4>2. t \in SUBSET S /\ Cardinality(t) = Cardinality(s) - 1
          BY <1>1, <4>1, FS_RemoveElement
        <4>3. Cardinality(t) <= m
          BY <1>1, <2>4, <4>2
        <4>4. g[t] = f[t]
          BY <4>2, <4>3
        <4> HIDE DEF g
        <4> QED
          BY <3>1, <3>3, <4>4 DEF Fold
      <3> QED
        BY <3>2, <3>3
    <2> HIDE DEF g
    <2> QED
      BY <2>3, <2>4
  <1> HIDE DEF Good
  <1>5. CASE Bad # {}
    <2>1. PICK m \in Bad : \A k \in Bad : m <= k
      BY <1>5, HasSmallest
    <2>2. m # 0
      BY <1>3, <2>1
    <2>3. m - 1 \in Nat /\ m - 1 \notin Bad
      BY <2>1, <2>2
    <2>4. Good((m - 1) + 1)
      BY <1>4, <2>3
    <2>5. (m - 1) + 1 = m
      BY <2>1
    <2> QED
      BY <2>1, <2>4, <2>5
  <1>6. CASE Bad = {}
    BY <1>6 DEF Good
  <1> QED
    BY <1>5, <1>6

LEMMA TotalExists ==
    ASSUME NEW S \in SUBSET Rows, IsFiniteSet(S)
    PROVE  \E f : IsTotal(f, S)
  <1>1. Cardinality(S) \in Nat
    BY FS_CardinalityType
  <1>2. PICK f \in [SUBSET S -> Int] :
          \A s \in SUBSET S : Cardinality(s) <= Cardinality(S) => f[s] = Fold(f, s)
    BY <1>1, FoldUpTo
  <1>3. \A s \in SUBSET S : f[s] = Fold(f, s)
    BY <1>2, FS_Subset
  <1>4. f = [s \in SUBSET S |-> Fold(f, s)]
    BY <1>3
  <1> QED
    BY <1>4 DEF IsTotal

LEMMA TotalStep ==
    ASSUME NEW f, NEW S, IsTotal(f, S), NEW s \in SUBSET S
    PROVE  f[s] = Fold(f, s)
  <1> DEFINE g == [t \in SUBSET S |-> Fold(f, t)]
  <1>1. g[s] = Fold(f, s)
    OBVIOUS
  <1>2. f = g
    BY DEF IsTotal
  <1> HIDE DEF g
  <1> QED
    BY <1>1, <1>2

\* Two such functions agree on the sets both are defined on.
LEMMA TotalsAgree ==
    ASSUME NEW S \in SUBSET Rows, IsFiniteSet(S), NEW f, IsTotal(f, S),
           NEW T \in SUBSET S, NEW g, IsTotal(g, T)
    PROVE  \A t \in SUBSET T : f[t] = g[t] /\ f[t] \in Int
  <1> DEFINE Bad == {t \in SUBSET T : ~(f[t] = g[t] /\ f[t] \in Int)}
  <1> SUFFICES ASSUME Bad # {} PROVE FALSE
    OBVIOUS
  <1>1. IsFiniteSet(T) /\ Bad \in SUBSET SUBSET T
    BY FS_Subset
  <1>2. PICK b \in Bad : \A x \in b : b \ {x} \notin Bad
    <2> HIDE DEF Bad
    <2> QED
      BY <1>1, SmallestBad
  <1>3. f[b] = Fold(f, b) /\ g[b] = Fold(g, b)
    BY TotalStep
  <1>4. CASE b = {}
    BY <1>3, <1>4 DEF Fold
  <1>5. CASE b # {}
    <2> DEFINE x == First(b)
    <2>1. x \in b /\ Revenue(x) \in Int
      BY <1>5, FirstIsMember, AnalyticsAssumption DEF Revenue
    <2>2. f[b \ {x}] = g[b \ {x}] /\ f[b \ {x}] \in Int
      BY <1>2, <2>1
    <2>3. /\ f[b] = Revenue(x) + f[b \ {x}]
          /\ g[b] = Revenue(x) + g[b \ {x}]
      BY <1>3, <1>5 DEF Fold
    <2> QED
      BY <2>1, <2>2, <2>3
  <1> QED
    BY <1>4, <1>5

\* Any element may be the first: the fold does not depend on the order.
LEMMA TotalRemoves ==
    ASSUME NEW S \in SUBSET Rows, IsFiniteSet(S), NEW f, IsTotal(f, S)
    PROVE  \A s \in SUBSET S : \A x \in s : f[s] = Revenue(x) + f[s \ {x}]
  <1> DEFINE Bad == {s \in SUBSET S : \E x \in s : f[s] # Revenue(x) + f[s \ {x}]}
  <1> SUFFICES ASSUME Bad # {} PROVE FALSE
    OBVIOUS
  <1>1. PICK b \in Bad : \A x \in b : b \ {x} \notin Bad
    <2>1. Bad \in SUBSET SUBSET S
      OBVIOUS
    <2> HIDE DEF Bad
    <2> QED
      BY <2>1, SmallestBad
  <1>2. PICK x \in b : f[b] # Revenue(x) + f[b \ {x}]
    OBVIOUS
  <1> DEFINE y == First(b)
  <1>3. y \in b /\ f[b] = Revenue(y) + f[b \ {y}]
    BY TotalStep, FirstIsMember DEF Fold
  <1>4. x # y
    BY <1>2, <1>3
  <1> HIDE DEF y
  <1>5. f[b \ {x}] = Revenue(y) + f[(b \ {x}) \ {y}]
    BY <1>1, <1>3, <1>4
  <1>6. f[b \ {y}] = Revenue(x) + f[(b \ {y}) \ {x}]
    BY <1>1, <1>3, <1>4
  <1>7. (b \ {y}) \ {x} = (b \ {x}) \ {y}
    OBVIOUS
  <1>8. Revenue(x) \in Int /\ Revenue(y) \in Int /\ f[(b \ {x}) \ {y}] \in Int
    BY <1>3, TotalsAgree, AnalyticsAssumption DEF Revenue
  <1>9. f[b] = Revenue(y) + (Revenue(x) + f[(b \ {x}) \ {y}])
    BY <1>3, <1>6, <1>7
  <1>10. Revenue(x) + f[b \ {x}] = Revenue(x) + (Revenue(y) + f[(b \ {x}) \ {y}])
    BY <1>5
  <1> HIDE DEF Bad
  <1>11. \A i, j, k \in Int : i + (j + k) = j + (i + k)
    OBVIOUS
  <1> QED
    BY <1>2, <1>8, <1>9, <1>10, <1>11

\* The revenue of two disjoint sets of rows adds up.
LEMMA TotalAddsUp ==
    ASSUME NEW A \in SUBSET Rows, IsFiniteSet(A), NEW B \in SUBSET Rows, IsFiniteSet(B),
           A \cap B = {}
    PROVE  /\ Total(A) \in Int /\ Total(B) \in Int
           /\ Total(A \cup B) = Total(A) + Total(B)
  <1> DEFINE S == A \cup B
  <1>1. S \in SUBSET Rows /\ IsFiniteSet(S)
    BY FS_Union
  <1>2. PICK f : IsTotal(f, S)
    BY <1>1, TotalExists
  <1>3. ASSUME NEW T \in SUBSET S PROVE Total(T) = f[T] /\ f[T] \in Int
    <2> DEFINE g == CHOOSE h : IsTotal(h, T)
    <2>1. IsFiniteSet(T)
      BY <1>1, FS_Subset
    <2>2. IsTotal(g, T)
      BY <1>1, <2>1, TotalExists
    <2>3. Total(T) = g[T]
      BY TotalIsChosen
    <2> HIDE DEF g, S
    <2> QED
      BY <1>1, <1>2, <2>2, <2>3, TotalsAgree
  <1> DEFINE Bad == {b \in SUBSET B : f[A \cup b] # f[A] + f[b]}
  <1>4. CASE Bad # {}
    <2>1. PICK b \in Bad : \A x \in b : b \ {x} \notin Bad
      <3>1. Bad \in SUBSET SUBSET B
        OBVIOUS
      <3> HIDE DEF Bad
      <3> QED
        BY <1>4, <3>1, SmallestBad
    <2>2. CASE b = {}
      <3>1. f[b] = 0
        BY <1>2, <2>2, TotalStep DEF Fold
      <3>2. A \cup b = A
        BY <2>2
      <3>3. f[A] \in Int /\ f[A \cup b] = f[A]
        BY <1>3, <3>2
      <3>4. f[A \cup b] = f[A] + f[b]
        <4> HIDE DEF Bad
        <4> QED
          BY <3>1, <3>3
      <3> QED
        BY <3>4
    <2>3. CASE b # {}
      <3>1. PICK x \in b : TRUE
        BY <2>3
      <3>2. f[b] = Revenue(x) + f[b \ {x}]
        BY <1>1, <1>2, TotalRemoves
      <3>3. f[A \cup b] = Revenue(x) + f[(A \cup b) \ {x}]
        BY <1>1, <1>2, TotalRemoves
      <3>4. (A \cup b) \ {x} = A \cup (b \ {x})
        OBVIOUS
      <3>5. f[A \cup (b \ {x})] = f[A] + f[b \ {x}]
        BY <2>1
      <3>6. Revenue(x) \in Int /\ f[A] \in Int /\ f[b \ {x}] \in Int
        BY <1>3, AnalyticsAssumption DEF Revenue
      <3>7. f[A \cup b] = Revenue(x) + (f[A] + f[b \ {x}])
        BY <3>3, <3>4, <3>5
      <3>8. \A i, j, k \in Int : i + (j + k) = j + (i + k)
        OBVIOUS
      <3>9. f[A \cup b] = f[A] + f[b]
        BY <3>2, <3>6, <3>7, <3>8
      <3> QED
        BY <3>9
    <2> QED
      BY <2>2, <2>3
  <1>5. CASE Bad = {}
    <2>1. f[A \cup B] = f[A] + f[B]
      BY <1>5
    <2> QED
      BY <1>3, <2>1
  <1> QED
    BY <1>4, <1>5

-----------------------------------------------------------------------------
(* Division: days, and Int64 wrap-around. *)

LEMMA Division ==
    ASSUME NEW x \in Int, NEW m \in Nat \ {0}
    PROVE  /\ x \div m \in Int /\ x % m \in Int
           /\ x = m * (x \div m) + (x % m)
           /\ 0 <= x % m /\ x % m < m
  OBVIOUS

\* Multiples of m lie m apart.
LEMMA Multiples ==
    ASSUME NEW m \in Nat \ {0}, NEW i \in Int, NEW j \in Int, i < j
    PROVE  m * i + m <= m * j
  <1>1. m * (j - i - 1) >= 0
    OBVIOUS
  <1>2. m * (j - i - 1) = m * j - m * i - m
    OBVIOUS
  <1> QED
    BY <1>1, <1>2

\* A time is not before the first tick of a day, or before the first tick of the
\* next one, exactly if its day is not earlier, or not later.
LEMMA DayBounds ==
    ASSUME NEW t \in Int, NEW d \in Int
    PROVE  /\ t \div DayLength \in Int
           /\ t >= d * DayLength <=> d <= t \div DayLength
           /\ t < (d + 1) * DayLength <=> t \div DayLength <= d
  <1> DEFINE m == DayLength
             q == t \div m
             r == t % m
  <1>1. m \in Nat \ {0}
    BY AnalyticsAssumption
  <1>2. q \in Int /\ r \in Int /\ t = m * q + r /\ 0 <= r /\ r < m
    BY <1>1, Division
  <1> HIDE DEF m, q, r
  <1>3. d * m = m * d /\ (d + 1) * m = m * d + m /\ m * d \in Int /\ m * q \in Int
    BY <1>1, <1>2
  <1>4. CASE d < q
    <2>1. m * d + m <= m * q
      BY <1>1, <1>2, <1>4, Multiples
    <2> QED
      BY <1>1, <1>2, <1>3, <1>4, <2>1 DEF m, q
  <1>5. CASE d = q
    BY <1>1, <1>2, <1>3, <1>5 DEF m, q
  <1>6. CASE q < d
    <2>1. m * q + m <= m * d
      BY <1>1, <1>2, <1>6, Multiples
    <2> QED
      BY <1>1, <1>2, <1>3, <1>6, <2>1 DEF m, q
  <1> QED
    BY <1>2, <1>4, <1>5, <1>6

LEMMA ModOfMultiple ==
    ASSUME NEW m \in Nat \ {0}, NEW x \in Int, NEW k \in Int
    PROVE  (x - m * k) % m = x % m
  <1> DEFINE y == x - m * k
             q == x \div m
             r == x % m
             p == y \div m
             s == y % m
  <1>1. q \in Int /\ r \in Int /\ x = m * q + r /\ 0 <= r /\ r < m
    BY Division
  <1>2. y \in Int
    OBVIOUS
  <1>3. p \in Int /\ s \in Int /\ y = m * p + s /\ 0 <= s /\ s < m
    <2> HIDE DEF y
    <2> QED
      BY <1>2, Division
  <1>4. x = m * k + y /\ m * k \in Int
    OBVIOUS
  <1> HIDE DEF y, q, r, p, s
  <1>5. m * (p + k) = m * p + m * k /\ p + k \in Int
    BY <1>3
  <1>6. m * q + r = m * (p + k) + s
    BY <1>1, <1>2, <1>3, <1>4, <1>5
  <1>7. CASE q < p + k
    <2>1. m * q + m <= m * (p + k)
      BY <1>1, <1>5, <1>7, Multiples
    <2> QED
      BY <1>1, <1>3, <1>5, <1>6, <2>1
  <1>8. CASE p + k < q
    <2>1. m * (p + k) + m <= m * q
      BY <1>1, <1>5, <1>8, Multiples
    <2> QED
      BY <1>1, <1>3, <1>5, <1>6, <2>1
  <1>9. CASE q = p + k
    <2>1. r = s
      BY <1>1, <1>3, <1>5, <1>6, <1>9
    <2> QED
      BY <2>1 DEF y, r, s
  <1> QED
    BY <1>1, <1>5, <1>7, <1>8, <1>9

\* Sums agree after wrapping, whichever parts were wrapped before.
LEMMA WrapAddsUp ==
    ASSUME NEW a \in Int, NEW b \in Int
    PROVE  Wrap(a + b) = Wrap(Wrap(a) + Wrap(b))
  <1> DEFINE n == Int64Range
             m == 2 * n
             p == (a + n) \div m
             q == (b + n) \div m
  <1>1. n \in Nat \ {0} /\ m \in Nat \ {0}
    BY AnalyticsAssumption
  <1> HIDE DEF n
  <1>2. p \in Int /\ Wrap(a) = a - m * p /\ m * p \in Int
    <2> DEFINE rest == (a + n) % m
    <2>1. a + n \in Int
      BY <1>1
    <2>2. p \in Int /\ rest \in Int /\ a + n = m * p + rest
      <3> HIDE DEF m
      <3> QED
        BY <1>1, <2>1, Division
    <2>3. Wrap(a) = rest - n
      BY DEF Wrap, n
    <2> HIDE DEF m, p, rest
    <2>4. m * p \in Int
      BY <1>1, <2>2
    <2> QED
      BY <1>1, <2>2, <2>3, <2>4
  <1>3. q \in Int /\ Wrap(b) = b - m * q /\ m * q \in Int
    <2> DEFINE rest == (b + n) % m
    <2>1. b + n \in Int
      BY <1>1
    <2>2. q \in Int /\ rest \in Int /\ b + n = m * q + rest
      <3> HIDE DEF m
      <3> QED
        BY <1>1, <2>1, Division
    <2>3. Wrap(b) = rest - n
      BY DEF Wrap, n
    <2> HIDE DEF m, q, rest
    <2>4. m * q \in Int
      BY <1>1, <2>2
    <2> QED
      BY <1>1, <2>2, <2>3, <2>4
  <1>4. /\ Wrap(a + b) = (((a + b) + n) % m) - n
        /\ Wrap(Wrap(a) + Wrap(b)) = (((Wrap(a) + Wrap(b)) + n) % m) - n
    BY DEF Wrap, n
  <1> HIDE DEF m, p, q
  <1>5. m * (p + q) = m * p + m * q
    BY <1>1, <1>2, <1>3
  <1>6. (Wrap(a) + Wrap(b)) + n = ((a + b) + n) - m * (p + q)
    BY <1>1, <1>2, <1>3, <1>5
  <1>7. (a + b) + n \in Int /\ p + q \in Int
    BY <1>1, <1>2, <1>3
  <1>8. (((a + b) + n) - m * (p + q)) % m = ((a + b) + n) % m
    BY <1>1, <1>7, ModOfMultiple
  <1> QED
    BY <1>4, <1>6, <1>8

-----------------------------------------------------------------------------
(* The filter of a question, by calendar day. *)

\* A row a question asks for, as AskedInstalls has it.
Asked(in, r) ==
    /\ in.from = Absent \/ in.from <= DayOf(r)
    /\ in.to = Absent \/ DayOf(r) <= in.to
    /\ Trim(in.country) \in {"", RowData[r].country}
    /\ Trim(in.platform) \in {"", RowData[r].platform}

\* The half-open range of ticks that validateFilter makes of two inclusive dates
\* selects the rows of these days.
LEMMA WhereByDay ==
    ASSUME NEW in, in.from \in Nat \cup {Absent}, in.to \in Nat \cup {Absent},
           NEW r \in Rows
    PROVE  Where(Filter(in), r) <=> Asked(in, r)
  <1> DEFINE filter == Filter(in)
             t == RowData[r].time
  <1>1. t \in Int /\ DayLength \in Nat \ {0} /\ Absent = -1
    BY AnalyticsAssumption DEF Absent
  <1>2. /\ filter.from = (IF in.from = Absent THEN Absent ELSE in.from * DayLength)
        /\ filter.toExclusive = (IF in.to = Absent THEN Absent ELSE (in.to + 1) * DayLength)
        /\ filter.country = Trim(in.country)
        /\ filter.platform = Trim(in.platform)
    BY DEF Filter, ToExclusive
  <1> HIDE DEF filter, t
  <1>3. \A d \in Nat : d * DayLength \in Nat
    BY <1>1
  <1>4. (filter.from # Absent => t >= filter.from) <=>
          (in.from = Absent \/ in.from <= DayOf(r))
    <2>1. CASE in.from = Absent
      BY <1>2, <2>1
    <2>2. CASE in.from \in Nat
      <3>1. filter.from = in.from * DayLength /\ filter.from # Absent /\ in.from # Absent
        BY <1>1, <1>2, <1>3, <2>2
      <3>2. t >= in.from * DayLength <=> in.from <= DayOf(r)
        BY <1>1, <2>2, DayBounds DEF DayOf, t
      <3> QED
        BY <3>1, <3>2
    <2> QED
      BY <2>1, <2>2
  <1>5. (filter.toExclusive # Absent => t < filter.toExclusive) <=>
          (in.to = Absent \/ DayOf(r) <= in.to)
    <2>1. CASE in.to = Absent
      BY <1>2, <2>1
    <2>2. CASE in.to \in Nat
      <3>1. in.to # Absent /\ in.to + 1 \in Nat
        BY <1>1, <2>2
      <3>2. filter.toExclusive = (in.to + 1) * DayLength /\ filter.toExclusive # Absent
        BY <1>1, <1>2, <1>3, <3>1
      <3>3. t < (in.to + 1) * DayLength <=> DayOf(r) <= in.to
        BY <1>1, <2>2, DayBounds DEF DayOf, t
      <3> QED
        BY <3>1, <3>2, <3>3
    <2> QED
      BY <2>1, <2>2
  <1>6. /\ (filter.country # "" => RowData[r].country = filter.country) <=>
             Trim(in.country) \in {"", RowData[r].country}
        /\ (filter.platform # "" => RowData[r].platform = filter.platform) <=>
             Trim(in.platform) \in {"", RowData[r].platform}
    BY <1>2
  <1> QED
    BY <1>4, <1>5, <1>6 DEF Where, Asked, filter, t

\* ApplicationStatistics counts and sums the rows a question asks for.
AskedRows(S, app, in, type) ==
    {r \in S : RowData[r].app = app /\ RowData[r].type = type /\ Asked(in, r)}

LEMMA StatisticsOfAsked ==
    ASSUME NEW S \in SUBSET Rows, NEW app,
           NEW in, in.from \in Nat \cup {Absent}, in.to \in Nat \cup {Absent}
    PROVE  LET statistics == ApplicationStatistics(S, app, Filter(in))
           IN  /\ statistics.installs = Cardinality(AskedRows(S, app, in, "install"))
               /\ statistics.purchases = Cardinality(AskedRows(S, app, in, "purchase"))
               /\ statistics.revenue = Wrap(Total(AskedRows(S, app, in, "purchase")))
  <1> DEFINE hits == {r \in S : RowData[r].app = app /\ Where(Filter(in), r)}
             OfType(type) == {r \in hits : RowData[r].type = type}
  <1>1. \A type : OfType(type) = AskedRows(S, app, in, type)
    BY WhereByDay DEF AskedRows
  <1>2. /\ ApplicationStatistics(S, app, Filter(in)).installs = Cardinality(OfType("install"))
        /\ ApplicationStatistics(S, app, Filter(in)).purchases = Cardinality(OfType("purchase"))
        /\ ApplicationStatistics(S, app, Filter(in)).revenue = Wrap(Total(OfType("purchase")))
    BY DEF ApplicationStatistics, Total
  <1> HIDE DEF OfType
  <1> QED
    BY <1>1, <1>2

-----------------------------------------------------------------------------
(* The inductive invariant of the stored rows. *)

RowsInv == stored \subseteq Rows /\ IsFiniteSet(stored)

LEMMA NextRowsInv == RowsInv /\ [Next]_vars => RowsInv'
  <1> SUFFICES ASSUME RowsInv, [Next]_vars PROVE RowsInv'
    OBVIOUS
  <1>1. ASSUME NEW r \in Rows, Insert(r) PROVE RowsInv'
    <2>1. stored' = stored \cup {r}
      BY <1>1 DEF Insert
    <2> QED
      BY <2>1, FS_AddElement DEF RowsInv
  <1>2. CASE UNCHANGED stored
    BY <1>2 DEF RowsInv
  <1>3. (\E r \in Rows : Insert(r)) \/ UNCHANGED stored
    BY DEF Next, vars, GetApplicationStatistics, GetApplicationRankings, RefuseRequest,
           ReadRow, ReadFails, ReadDone
  <1> QED
    BY <1>1, <1>2, <1>3

LEMMA RowsInvariant == Spec => []RowsInv
  <1>1. Init => RowsInv
    BY FS_EmptySet DEF Init, RowsInv
  <1> QED
    BY <1>1, NextRowsInv, PTL DEF Spec

\* The question of AdjacentRangesAddUp.
OfDays(from, to) == [from |-> from, to |-> to, country |-> "", platform |-> ""]

\* Two adjacent ranges share no row and miss none.
LEMMA RangesSplit ==
    ASSUME RowsInv, NEW app, NEW type, NEW from \in Nat, NEW to \in Nat, from < to
    PROVE  LET Between(d1, d2) == AskedRows(stored, app, OfDays(d1, d2), type)
           IN  /\ Between(from, to) = Between(from, from) \cup Between(from + 1, to)
               /\ Between(from, from) \cap Between(from + 1, to) = {}
               /\ Between(from, from) \in SUBSET Rows /\ IsFiniteSet(Between(from, from))
               /\ Between(from + 1, to) \in SUBSET Rows /\ IsFiniteSet(Between(from + 1, to))
  <1> DEFINE Between(d1, d2) == AskedRows(stored, app, OfDays(d1, d2), type)
             Hit(r) == RowData[r].app = app /\ RowData[r].type = type
  <1>1. \A r \in stored : DayOf(r) \in Int
    BY DayBounds, AnalyticsAssumption DEF DayOf, RowsInv
  <1>2. ASSUME NEW d1 \in Nat, NEW d2 \in Nat, NEW r \in stored
        PROVE  r \in Between(d1, d2) <=> Hit(r) /\ d1 <= DayOf(r) /\ DayOf(r) <= d2
    <2>1. d1 # Absent /\ d2 # Absent /\ Trim("") = ""
      BY DEF Absent, Trim
    <2>2. Asked(OfDays(d1, d2), r) <=> d1 <= DayOf(r) /\ DayOf(r) <= d2
      BY <2>1 DEF Asked, OfDays
    <2> QED
      BY <2>2 DEF AskedRows
  <1>3. \A d1, d2 : Between(d1, d2) \in SUBSET stored
    BY DEF AskedRows
  <1>4. \A d1, d2 : Between(d1, d2) \in SUBSET Rows /\ IsFiniteSet(Between(d1, d2))
    <2> HIDE DEF Between
    <2> QED
      BY <1>3, FS_Subset DEF RowsInv
  <1>5. from + 1 \in Nat
    OBVIOUS
  <1> HIDE DEF Between, Hit
  <1>6. Between(from, to) = Between(from, from) \cup Between(from + 1, to)
    <2>1. ASSUME NEW r \in stored
          PROVE  r \in Between(from, to) <=> r \in Between(from, from) \/ r \in Between(from + 1, to)
      BY <1>1, <1>2, <1>5
    <2> QED
      BY <1>3, <2>1
  <1>7. Between(from, from) \cap Between(from + 1, to) = {}
    <2>1. ASSUME NEW r \in stored, r \in Between(from, from), r \in Between(from + 1, to)
          PROVE  FALSE
      BY <1>1, <1>2, <1>5, <2>1
    <2> QED
      BY <1>3, <2>1
  <1> QED
    BY <1>4, <1>6, <1>7 DEF Between

\* For any rows, any length of a day and any number width: the statistics of a
\* day and of the days after it add up to those of the whole range, so the
\* half-open conversion of the dates drops and repeats nothing at midnight.
THEOREM RangesAddUp == Spec => []AdjacentRangesAddUp
  <1>1. RowsInv => AdjacentRangesAddUp
    <2> SUFFICES ASSUME RowsInv, NEW app \in Apps, NEW from \in Days, NEW to \in Days,
                        from < to
                 PROVE  LET Stats(d1, d2) ==
                              ApplicationStatistics(stored, app,
                                Filter([from |-> d1, to |-> d2, country |-> "",
                                        platform |-> ""]))
                            whole == Stats(from, to)
                            first == Stats(from, from)
                            rest == Stats(from + 1, to)
                        IN  /\ whole.installs = first.installs + rest.installs
                            /\ whole.purchases = first.purchases + rest.purchases
                            /\ whole.revenue = Wrap(first.revenue + rest.revenue)
      BY DEF AdjacentRangesAddUp
    <2> DEFINE Stats(d1, d2) == ApplicationStatistics(stored, app, Filter(OfDays(d1, d2)))
               Between(d1, d2, type) == AskedRows(stored, app, OfDays(d1, d2), type)
    <2>1. from \in Nat /\ to \in Nat /\ from + 1 \in Nat
      BY AnalyticsAssumption
    <2>2. ASSUME NEW d1 \in Nat, NEW d2 \in Nat
          PROVE  /\ Stats(d1, d2).installs = Cardinality(Between(d1, d2, "install"))
                 /\ Stats(d1, d2).purchases = Cardinality(Between(d1, d2, "purchase"))
                 /\ Stats(d1, d2).revenue = Wrap(Total(Between(d1, d2, "purchase")))
      <3>1. /\ OfDays(d1, d2).from \in Nat \cup {Absent}
            /\ OfDays(d1, d2).to \in Nat \cup {Absent}
        BY DEF OfDays
      <3> QED
        BY <3>1, StatisticsOfAsked DEF RowsInv
    <2>3. ASSUME NEW type
          PROVE  /\ Between(from, to, type)
                      = Between(from, from, type) \cup Between(from + 1, to, type)
                 /\ Between(from, from, type) \cap Between(from + 1, to, type) = {}
                 /\ Between(from, from, type) \in SUBSET Rows
                 /\ IsFiniteSet(Between(from, from, type))
                 /\ Between(from + 1, to, type) \in SUBSET Rows
                 /\ IsFiniteSet(Between(from + 1, to, type))
      BY <2>1, RangesSplit
    <2> HIDE DEF Stats, Between
    <2>4. ASSUME NEW type
          PROVE  Cardinality(Between(from, to, type))
                   = Cardinality(Between(from, from, type)) + Cardinality(Between(from + 1, to, type))
      <3>1. /\ Cardinality(Between(from, from, type)) \in Nat
            /\ Cardinality(Between(from + 1, to, type)) \in Nat
        BY <2>3, FS_CardinalityType
      <3>2. Cardinality(Between(from, to, type))
              = Cardinality(Between(from, from, type)) + Cardinality(Between(from + 1, to, type))
                - Cardinality({})
        BY <2>3, FS_Union
      <3> QED
        BY <3>1, <3>2, FS_EmptySet
    <2>5. /\ Total(Between(from, from, "purchase")) \in Int
          /\ Total(Between(from + 1, to, "purchase")) \in Int
          /\ Total(Between(from, to, "purchase"))
               = Total(Between(from, from, "purchase")) + Total(Between(from + 1, to, "purchase"))
      BY <2>3, TotalAddsUp
    <2>6. Wrap(Total(Between(from, to, "purchase")))
            = Wrap(Wrap(Total(Between(from, from, "purchase")))
                   + Wrap(Total(Between(from + 1, to, "purchase"))))
      BY <2>5, WrapAddsUp
    <2>7. /\ Stats(from, to).installs = Stats(from, from).installs + Stats(from + 1, to).installs
          /\ Stats(from, to).purchases
               = Stats(from, from).purchases + Stats(from + 1, to).purchases
          /\ Stats(from, to).revenue
               = Wrap(Stats(from, from).revenue + Stats(from + 1, to).revenue)
      BY <2>1, <2>2, <2>4, <2>6
    <2> QED
      BY <2>7 DEF Stats, OfDays
  <1> QED
    BY <1>1, RowsInvariant, PTL

-----------------------------------------------------------------------------
(* ApplicationRankings: GROUP BY, ORDER BY and LIMIT. *)

Rankings == [app : Nat, value : Nat]

Hits(S, filter) == {r \in S : RowData[r].type = "install" /\ Where(filter, r)}

Group(S, filter, a) ==
    [app |-> a, value |-> Cardinality({r \in Hits(S, filter) : RowData[r].app = a})]

Groups(S, filter) == {Group(S, filter, a) : a \in {RowData[r].app : r \in Hits(S, filter)}}

BestFirst(S, filter) ==
    {p \in Groups(S, filter) \X Groups(S, filter) : RanksBefore(p[1], p[2])}

LEMMA RankingsOfGroups ==
    ASSUME NEW S, NEW filter, NEW limit
    PROVE  LET sorted == InOrder(Groups(S, filter), BestFirst(S, filter))
           IN  ApplicationRankings(S, filter, limit)
                 = SubSeq(sorted, 1, Min({limit, Len(sorted)}))
  BY DEF ApplicationRankings, Groups, Group, Hits, BestFirst

\* GROUP BY gives one ranking for each application with an install.
LEMMA GroupsAreRankings ==
    ASSUME NEW S \in SUBSET Rows, IsFiniteSet(S), NEW filter
    PROVE  IsFiniteSet(Groups(S, filter)) /\ Groups(S, filter) \subseteq Rankings
  <1> DEFINE hits == Hits(S, filter)
             groups == Groups(S, filter)
             f == [r \in hits |-> Group(S, filter, RowData[r].app)]
  <1>1. hits \in SUBSET S /\ IsFiniteSet(hits)
    BY FS_Subset DEF Hits
  <1>2. f \in Surjection(hits, groups)
    BY DEF Surjection, Groups
  <1>3. IsFiniteSet(groups)
    <2> HIDE DEF f, hits, groups
    <2> QED
      BY <1>1, <1>2, FS_Surjection
  <1>4. ASSUME NEW a \in {RowData[r].app : r \in hits} PROVE Group(S, filter, a) \in Rankings
    <2>1. a \in Nat
      BY <1>1, AnalyticsAssumption
    <2>2. {r \in hits : RowData[r].app = a} \in SUBSET hits
      OBVIOUS
    <2>3. Cardinality({r \in hits : RowData[r].app = a}) \in Nat
      <3> HIDE DEF hits
      <3> QED
        BY <1>1, <2>2, FS_Subset, FS_CardinalityType
    <2> QED
      BY <2>1, <2>3 DEF Group, Rankings
  <1> QED
    BY <1>3, <1>4 DEF Groups

\* ORDER BY leaves no tie: the IDs of two rankings differ.
LEMMA BestFirstIsOrder ==
    ASSUME NEW S \in SUBSET Rows, IsFiniteSet(S), NEW filter
    PROVE  IsStrictTotalOrder(BestFirst(S, filter), Groups(S, filter))
  <1> DEFINE groups == Groups(S, filter)
             before == BestFirst(S, filter)
  <1>1. \A g \in groups : g \in Rankings /\ g.app \in Nat /\ g.value \in Nat
    BY GroupsAreRankings DEF Rankings
  <1>2. \A g, h \in groups :
          <<g, h>> \in before <=> g.value > h.value \/ (g.value = h.value /\ g.app < h.app)
    BY DEF BestFirst, RanksBefore
  <1> HIDE DEF groups, before
  <1>3. \A g \in groups : <<g, g>> \notin before
    BY <1>1, <1>2
  <1>4. ASSUME NEW g \in groups, NEW h \in groups, NEW k \in groups,
               <<g, h>> \in before, <<h, k>> \in before
        PROVE  <<g, k>> \in before
    BY <1>1, <1>2, <1>4
  <1>5. ASSUME NEW g \in groups, NEW h \in groups, g # h
        PROVE  <<g, h>> \in before \/ <<h, g>> \in before
    <2>1. g.app # h.app \/ g.value # h.value
      BY <1>1, <1>5 DEF Rankings
    <2> QED
      BY <1>1, <1>2, <2>1
  <1> QED
    BY <1>3, <1>4, <1>5 DEF IsStrictTotalOrder, groups, before

\* LIMIT keeps the best rankings, all of them if there are fewer.
LEMMA RankingsAreBest ==
    ASSUME NEW S \in SUBSET Rows, IsFiniteSet(S), NEW filter, NEW limit \in Nat \ {0}
    PROVE  LET list == ApplicationRankings(S, filter, limit)
           IN  /\ list \in Seq(Rankings) /\ Len(list) <= limit
               /\ \A i \in DOMAIN list : list[i] \in Groups(S, filter)
               /\ \A i, j \in DOMAIN list : i < j => RanksBefore(list[i], list[j])
               /\ \A g \in Groups(S, filter) :
                    \/ \E i \in DOMAIN list : list[i] = g
                    \/ Len(list) = limit /\ RanksBefore(list[Len(list)], g)
  <1> DEFINE groups == Groups(S, filter)
             before == BestFirst(S, filter)
             sorted == InOrder(groups, before)
             n == Cardinality(groups)
             m == IF limit <= n THEN limit ELSE n
             list == ApplicationRankings(S, filter, limit)
  <1>1. IsFiniteSet(groups) /\ groups \subseteq Rankings /\ IsStrictTotalOrder(before, groups)
    BY GroupsAreRankings, BestFirstIsOrder
  <1>2. /\ n \in Nat
        /\ sorted \in [1 .. n -> groups]
        /\ \A g \in groups : \E i \in 1 .. n : sorted[i] = g
        /\ \A i, j \in 1 .. n : i < j => <<sorted[i], sorted[j]>> \in before
    <2> HIDE DEF groups, before
    <2> QED
      BY <1>1, InOrderSorts
  <1>3. \A i, j \in 1 .. n : i < j => RanksBefore(sorted[i], sorted[j])
    BY <1>2 DEF BestFirst
  <1>4. list = SubSeq(sorted, 1, Min({limit, Len(sorted)}))
    BY RankingsOfGroups
  <1> HIDE DEF sorted, list, n, groups
  <1>5. Len(sorted) = n
    BY <1>2
  <1>6. Min({limit, n}) = m
    BY <1>2 DEF Min
  <1>7. m \in 0 .. n /\ m <= limit /\ (m < n => m = limit) /\ m \in Nat
    BY <1>2
  <1> HIDE DEF m
  <1>8. list = SubSeq(sorted, 1, m)
    BY <1>4, <1>5, <1>6
  <1>9. \A i \in 1 .. m : sorted[i] \in Rankings
    BY <1>1, <1>2, <1>7
  <1>10. /\ list \in Seq(Rankings) /\ Len(list) = m
         /\ \A i \in 1 .. m : list[i] = sorted[i]
    BY <1>7, <1>8, <1>9
  <1>11. DOMAIN list = 1 .. m
    BY <1>10
  <1>12. ASSUME NEW g \in groups
         PROVE  \/ \E i \in DOMAIN list : list[i] = g
                \/ Len(list) = limit /\ RanksBefore(list[Len(list)], g)
    <2>1. PICK k \in 1 .. n : sorted[k] = g
      BY <1>2
    <2>2. CASE k <= m
      <3>1. k \in 1 .. m
        BY <1>2, <1>7, <2>2
      <3> QED
        BY <1>10, <1>11, <2>1, <3>1
    <2>3. CASE m < k
      <3>1. m = limit /\ m \in 1 .. m /\ m \in 1 .. n
        BY <1>2, <1>7, <2>3
      <3>2. RanksBefore(sorted[m], sorted[k])
        BY <1>3, <2>3, <3>1
      <3> QED
        BY <1>10, <2>1, <3>1, <3>2
    <2> QED
      BY <1>2, <1>7, <2>2, <2>3
  <1>13. \A i \in DOMAIN list : list[i] \in groups
    BY <1>2, <1>7, <1>10, <1>11
  <1>14. ASSUME NEW i \in DOMAIN list, NEW j \in DOMAIN list, i < j
         PROVE  RanksBefore(list[i], list[j])
    <2>1. i \in 1 .. n /\ j \in 1 .. n /\ i \in 1 .. m /\ j \in 1 .. m
      BY <1>2, <1>7, <1>11
    <2>2. RanksBefore(sorted[i], sorted[j])
      BY <1>3, <1>14, <2>1
    <2> QED
      BY <1>10, <2>1, <2>2
  <1> QED
    BY <1>7, <1>10, <1>12, <1>13, <1>14 DEF list, groups

-----------------------------------------------------------------------------
(* The inductive invariant of the request. *)

\* The ranking the request asks for, of the rows its query saw.
Wanted == ApplicationRankings(snapshot, Filter(question), Limit(question.limit))

RankingAsked ==
    /\ question \in RankingInputs
    /\ FilterIsValid(question) /\ LimitIsValid(question.limit)

\* Nothing has happened to a request that is awaited.
IdleIsFresh ==
    phase = "idle" => question = NoQuestion /\ items = <<>> /\ reply = [status |-> 0]

\* What is read and what is to be read make up the ranking.
ReadIsPrefix ==
    phase = "reading" =>
      /\ RankingAsked /\ reply = [status |-> 0]
      /\ items \in Seq(Rankings) /\ cursor \in Seq(Rankings)
      /\ items \o cursor = Wanted

\* A reply answers the question it was asked.
ReplyAnswers ==
    /\ "statistics" \in DOMAIN reply =>
         /\ question \in StatisticsInputs /\ FilterIsValid(question)
         /\ reply.statistics = ApplicationStatistics(snapshot, reply.app, Filter(question))
    /\ "rankings" \in DOMAIN reply => RankingAsked /\ reply.rankings = Wanted
    /\ reply.status = 400 =>
         \/ question = NoQuestion
         \/ question \in StatisticsInputs /\ ~FilterIsValid(question)
         \/ question \in RankingInputs

RequestInv ==
    /\ RowsInv
    /\ snapshot \subseteq Rows /\ IsFiniteSet(snapshot)
    /\ IdleIsFresh /\ ReadIsPrefix /\ ReplyAnswers

\* The dates of a valid question are days or absent.
LEMMA ValidDates ==
    ASSUME NEW in \in StatisticsInputs \cup RankingInputs, FilterIsValid(in)
    PROVE  in.from \in Nat \cup {Absent} /\ in.to \in Nat \cup {Absent}
  BY AnalyticsAssumption DEF StatisticsInputs, RankingInputs, RawDates, FilterIsValid

LEMMA ValidLimit ==
    ASSUME NEW raw, LimitIsValid(raw)
    PROVE  Limit(raw) \in 1 .. MaximumLimit /\ Limit(raw) \in Nat \ {0}
  BY AnalyticsAssumption DEF LimitIsValid, Limit

\* Reading one ranking moves it from the cursor to the items.
LEMMA ReadNext ==
    ASSUME NEW read \in Seq(Rankings), NEW rest \in Seq(Rankings), rest # <<>>
    PROVE  /\ Append(read, Head(rest)) \in Seq(Rankings) /\ Tail(rest) \in Seq(Rankings)
           /\ Append(read, Head(rest)) \o Tail(rest) = read \o rest
  <1> DEFINE x == Head(rest)
             t == Tail(rest)
             one == Append(read, x)
  <1>1. /\ x \in Rankings /\ t \in Seq(Rankings) /\ x = rest[1]
        /\ Len(rest) \in Nat \ {0} /\ Len(t) = Len(rest) - 1
        /\ \A i \in 1 .. Len(t) : t[i] = rest[i + 1]
    OBVIOUS
  <1> HIDE DEF x, t
  <1>2. /\ one \in Seq(Rankings) /\ Len(one) = Len(read) + 1 /\ Len(read) \in Nat
        /\ \A i \in 1 .. Len(read) : one[i] = read[i]
        /\ one[Len(read) + 1] = x
    BY <1>1
  <1> HIDE DEF one
  <1>3. /\ one \o t \in Seq(Rankings) /\ Len(one \o t) = Len(one) + Len(t)
        /\ \A i \in 1 .. Len(one) + Len(t) :
             (one \o t)[i] = IF i <= Len(one) THEN one[i] ELSE t[i - Len(one)]
    BY <1>1, <1>2, ConcatProperties
  <1>4. /\ read \o rest \in Seq(Rankings) /\ Len(read \o rest) = Len(read) + Len(rest)
        /\ \A i \in 1 .. Len(read) + Len(rest) :
             (read \o rest)[i] = IF i <= Len(read) THEN read[i] ELSE rest[i - Len(read)]
    BY ConcatProperties
  <1>5. Len(one \o t) = Len(read \o rest)
    BY <1>1, <1>2, <1>3, <1>4
  <1>6. ASSUME NEW i \in 1 .. Len(one \o t) PROVE (one \o t)[i] = (read \o rest)[i]
    <2>1. i \in Nat /\ i >= 1 /\ i <= Len(read) + Len(rest) /\ i <= Len(one) + Len(t)
      BY <1>1, <1>2, <1>3
    <2>2. CASE i <= Len(read)
      BY <1>1, <1>2, <1>3, <1>4, <2>1, <2>2
    <2>3. CASE i = Len(read) + 1
      <3>1. (one \o t)[i] = x
        BY <1>2, <1>3, <2>1, <2>3
      <3>2. (read \o rest)[i] = rest[1]
        BY <1>2, <1>4, <2>1, <2>3
      <3> QED
        BY <1>1, <3>1, <3>2
    <2>4. CASE i > Len(read) + 1
      <3> DEFINE k == i - Len(one)
      <3>1. k \in 1 .. Len(t) /\ k + 1 = i - Len(read) /\ ~(i <= Len(one)) /\ ~(i <= Len(read))
        BY <1>1, <1>2, <2>1, <2>4
      <3>2. (one \o t)[i] = t[k]
        BY <1>3, <2>1, <3>1
      <3>3. (read \o rest)[i] = rest[k + 1]
        BY <1>4, <2>1, <3>1
      <3> HIDE DEF k
      <3> QED
        BY <1>1, <3>1, <3>2, <3>3
    <2> QED
      BY <1>2, <2>1, <2>2, <2>3, <2>4
  <1>7. one \o t = read \o rest
    <2> DEFINE u == one \o t
               v == read \o rest
    <2>1. u \in Seq(Rankings) /\ v \in Seq(Rankings) /\ Len(u) = Len(v)
          /\ \A i \in 1 .. Len(u) : u[i] = v[i]
      BY <1>3, <1>4, <1>5, <1>6
    <2> HIDE DEF u, v
    <2>2. u = v
      BY <2>1, SeqEqual
    <2> QED
      BY <2>2 DEF u, v
  <1> QED
    BY <1>1, <1>2, <1>7 DEF one, x, t

LEMMA InitRequestInv == Init => RequestInv
  <1> SUFFICES ASSUME Init PROVE RequestInv
    OBVIOUS
  <1>1. RowsInv /\ snapshot \subseteq Rows /\ IsFiniteSet(snapshot)
    BY FS_EmptySet DEF Init, RowsInv
  <1> QED
    BY <1>1 DEF Init, RequestInv, IdleIsFresh, ReadIsPrefix, ReplyAnswers

LEMMA NextRequestInv == RequestInv /\ [Next]_vars => RequestInv'
  <1> SUFFICES ASSUME RequestInv, [Next]_vars PROVE RequestInv'
    OBVIOUS
  <1>1. RowsInv /\ RowsInv'
    BY NextRowsInv DEF RequestInv
  <1>2. snapshot \subseteq Rows /\ IsFiniteSet(snapshot)
    BY DEF RequestInv
  <1>3. ASSUME NEW r \in Rows, Insert(r) PROVE RequestInv'
    <2>1. UNCHANGED <<phase, question, snapshot, cursor, items, reply>>
      BY <1>3 DEF Insert
    <2> QED
      BY <1>1, <2>1
      DEF RequestInv, IdleIsFresh, ReadIsPrefix, ReplyAnswers, RankingAsked, Wanted
  <1>4. ASSUME NEW app \in Apps, NEW in \in StatisticsInputs,
               GetApplicationStatistics(app, in)
        PROVE  RequestInv'
    <2>1. phase' = "answered" /\ question' = in /\ snapshot' = stored
      BY <1>4 DEF GetApplicationStatistics
    <2>2. IdleIsFresh' /\ ReadIsPrefix'
      BY <2>1 DEF IdleIsFresh, ReadIsPrefix
    <2>3. ASSUME ~FilterIsValid(in), reply' = [status |-> 400] PROVE ReplyAnswers'
      BY <2>1, <2>3 DEF ReplyAnswers
    <2>4. ASSUME reply' = [status |-> 500] PROVE ReplyAnswers'
      BY <2>4 DEF ReplyAnswers
    <2>5. ASSUME FilterIsValid(in),
                 reply' = [status |-> 200, app |-> app,
                           statistics |-> ApplicationStatistics(stored, app, Filter(in))]
          PROVE  ReplyAnswers'
      <3>1. /\ DOMAIN reply' = {"status", "app", "statistics"} /\ reply'.status = 200
            /\ reply'.statistics = ApplicationStatistics(snapshot', reply'.app, Filter(question'))
        BY <2>1, <2>5
      <3> QED
        BY <2>1, <2>5, <3>1 DEF ReplyAnswers
    <2>6. ReplyAnswers'
      BY <1>4, <2>3, <2>4, <2>5 DEF GetApplicationStatistics
    <2>7. (snapshot \subseteq Rows /\ IsFiniteSet(snapshot))'
      BY <1>1, <2>1 DEF RowsInv
    <2> QED
      BY <1>1, <2>2, <2>6, <2>7 DEF RequestInv
  <1>5. CASE RefuseRequest
    <2>1. /\ phase' = "answered" /\ question' = NoQuestion /\ reply' = [status |-> 400]
          /\ snapshot' = snapshot
      BY <1>5 DEF RefuseRequest, RequestInv, IdleIsFresh
    <2>2. IdleIsFresh' /\ ReadIsPrefix'
      BY <2>1 DEF IdleIsFresh, ReadIsPrefix
    <2>3. ReplyAnswers'
      BY <2>1 DEF ReplyAnswers, NoQuestion
    <2> QED
      BY <1>1, <1>2, <2>1, <2>2, <2>3 DEF RequestInv
  <1>6. ASSUME NEW in \in RankingInputs, GetApplicationRankings(in) PROVE RequestInv'
    <2>1. /\ question' = in /\ snapshot' = stored /\ items' = <<>> /\ reply = [status |-> 0]
      BY <1>6 DEF GetApplicationRankings, RequestInv, IdleIsFresh
    <2>2. (snapshot \subseteq Rows /\ IsFiniteSet(snapshot))'
      BY <1>1, <2>1 DEF RowsInv
    <2>3. CASE phase' = "answered" /\ reply' = [status |-> 400]
      <3>1. IdleIsFresh' /\ ReadIsPrefix'
        BY <2>3 DEF IdleIsFresh, ReadIsPrefix
      <3>2. ReplyAnswers'
        BY <2>1, <2>3 DEF ReplyAnswers
      <3> QED
        BY <1>1, <2>2, <3>1, <3>2 DEF RequestInv
    <2>4. CASE /\ FilterIsValid(in) /\ LimitIsValid(in.limit) /\ phase' = "reading"
               /\ cursor' = ApplicationRankings(stored, Filter(in), Limit(in.limit))
               /\ UNCHANGED reply
      <3>1. cursor' \in Seq(Rankings)
        BY <1>1, <2>4, ValidLimit, RankingsAreBest DEF RowsInv
      <3>2. items' \o cursor' = cursor' /\ items' \in Seq(Rankings)
        BY <2>1, <3>1, ConcatEmptySeq
      <3>3. Wanted' = cursor' /\ RankingAsked'
        BY <2>1, <2>4 DEF Wanted, RankingAsked
      <3>4. IdleIsFresh' /\ ReadIsPrefix'
        BY <2>1, <2>4, <3>1, <3>2, <3>3 DEF IdleIsFresh, ReadIsPrefix
      <3>5. ReplyAnswers'
        BY <2>1, <2>4 DEF ReplyAnswers
      <3> QED
        BY <1>1, <2>2, <3>4, <3>5 DEF RequestInv
    <2> QED
      BY <1>6, <2>3, <2>4 DEF GetApplicationRankings
  <1>7. CASE ReadRow
    <2>1. /\ phase = "reading" /\ cursor # <<>> /\ UNCHANGED <<phase, question, snapshot, reply>>
          /\ items' = Append(items, Head(cursor)) /\ cursor' = Tail(cursor)
      BY <1>7 DEF ReadRow
    <2>2. /\ RankingAsked /\ reply = [status |-> 0]
          /\ items \in Seq(Rankings) /\ cursor \in Seq(Rankings)
          /\ items \o cursor = Wanted
      BY <2>1 DEF RequestInv, ReadIsPrefix
    <2>3. /\ items' \in Seq(Rankings) /\ cursor' \in Seq(Rankings)
          /\ items' \o cursor' = Wanted
      BY <2>1, <2>2, ReadNext
    <2>4. Wanted' = Wanted /\ RankingAsked'
      BY <2>1, <2>2 DEF Wanted, RankingAsked
    <2>5. IdleIsFresh' /\ ReadIsPrefix'
      BY <2>1, <2>2, <2>3, <2>4 DEF IdleIsFresh, ReadIsPrefix
    <2>6. ReplyAnswers'
      BY <2>1, <2>2 DEF ReplyAnswers
    <2> QED
      BY <1>1, <1>2, <2>1, <2>5, <2>6 DEF RequestInv
  <1>8. CASE ReadFails
    <2>1. phase' = "answered" /\ reply' = [status |-> 500] /\ snapshot' = snapshot
      BY <1>8 DEF ReadFails, ReadErrorReply
    <2>2. IdleIsFresh' /\ ReadIsPrefix' /\ ReplyAnswers'
      BY <2>1 DEF IdleIsFresh, ReadIsPrefix, ReplyAnswers
    <2> QED
      BY <1>1, <1>2, <2>1, <2>2 DEF RequestInv
  <1>9. CASE ReadDone
    <2>1. /\ phase = "reading" /\ cursor = <<>> /\ phase' = "answered"
          /\ reply' = [status |-> 200, rankings |-> items] /\ UNCHANGED <<question, snapshot>>
      BY <1>9 DEF ReadDone
    <2>2. RankingAsked /\ items \in Seq(Rankings) /\ items \o cursor = Wanted
      BY <2>1 DEF RequestInv, ReadIsPrefix
    <2>3. items = Wanted
      BY <2>1, <2>2, ConcatEmptySeq
    <2>4. Wanted' = Wanted /\ RankingAsked'
      BY <2>1, <2>2 DEF Wanted, RankingAsked
    <2>5. DOMAIN reply' = {"status", "rankings"} /\ reply'.status = 200 /\ reply'.rankings = Wanted'
      BY <2>1, <2>3, <2>4
    <2>6. IdleIsFresh' /\ ReadIsPrefix' /\ ReplyAnswers'
      BY <2>1, <2>4, <2>5 DEF IdleIsFresh, ReadIsPrefix, ReplyAnswers
    <2> QED
      BY <1>1, <1>2, <2>1, <2>6 DEF RequestInv
  <1>10. CASE UNCHANGED vars
    BY <1>1, <1>10
    DEF vars, RequestInv, IdleIsFresh, ReadIsPrefix, ReplyAnswers, RankingAsked, Wanted
  <1> QED
    BY <1>3, <1>4, <1>5, <1>6, <1>7, <1>8, <1>9, <1>10 DEF Next

LEMMA RequestInvariant == Spec => []RequestInv
  BY InitRequestInv, NextRequestInv, PTL DEF Spec

-----------------------------------------------------------------------------
\* For any rows and any question: a reply of the Statistics API counts exactly
\* the installs of the asked calendar days, country and platform, and a range
\* of a single day is not refused.
THEOREM StatisticsExact == Spec => []StatisticsCountAskedDays
  <1>1. RequestInv => StatisticsCountAskedDays
    <2> SUFFICES ASSUME RequestInv PROVE StatisticsCountAskedDays
      OBVIOUS
    <2>1. ASSUME "statistics" \in DOMAIN reply
          PROVE  reply.statistics.installs = Cardinality(AskedInstalls(question, reply.app))
      <3>1. /\ question \in StatisticsInputs /\ FilterIsValid(question)
            /\ reply.statistics = ApplicationStatistics(snapshot, reply.app, Filter(question))
        BY <2>1 DEF RequestInv, ReplyAnswers
      <3>2. question.from \in Nat \cup {Absent} /\ question.to \in Nat \cup {Absent}
        BY <3>1, ValidDates
      <3>3. reply.statistics.installs
              = Cardinality(AskedRows(snapshot, reply.app, question, "install"))
        BY <3>1, <3>2, StatisticsOfAsked DEF RequestInv
      <3>4. AskedRows(snapshot, reply.app, question, "install")
              = AskedInstalls(question, reply.app)
        BY DEF AskedRows, AskedInstalls, Asked
      <3> QED
        BY <3>3, <3>4
    <2>2. ASSUME reply.status = 400, question.from \in Days, question.from = question.to
          PROVE  \/ Trim(question.platform) \notin {"", "ios", "android"}
                 \/ "limit" \in DOMAIN question
      <3>1. question.from \in Nat
        BY <2>2, AnalyticsAssumption
      <3>2. question.from # Absent /\ question.from # Unparsable
        BY <3>1 DEF Absent, Unparsable
      <3>3. CASE question = NoQuestion
        BY <3>2, <3>3 DEF NoQuestion
      <3>4. CASE ~FilterIsValid(question)
        <4>1. DatesInOrder(question.from, question.to)
          BY <2>2, <3>1 DEF DatesInOrder
        <4>2. Trim(question.platform) \notin {"", "android", "ios"}
          BY <2>2, <3>2, <3>4, <4>1 DEF FilterIsValid
        <4> QED
          BY <4>2
      <3>5. CASE question \in RankingInputs
        BY <3>5 DEF RankingInputs
      <3> QED
        BY <2>2, <3>3, <3>4, <3>5 DEF RequestInv, ReplyAnswers
    <2> QED
      BY <2>1, <2>2 DEF StatisticsCountAskedDays
  <1> QED
    BY <1>1, RequestInvariant, PTL

\* For any rows, question and limit, however the result set is read: a ranking
\* that is returned lists each application once with the installs of the asked
\* days, best first with ties by ID, and leaves one out only when the limit is
\* reached by better ones.
THEOREM RankingsExact == Spec => []RankingIsExact
  <1>1. RequestInv => RankingIsExact
    <2> SUFFICES ASSUME RequestInv, "rankings" \in DOMAIN reply
                 PROVE  RankingIsExact
      BY DEF RankingIsExact
    <2> DEFINE list == reply.rankings
               filter == Filter(question)
               limit == Limit(question.limit)
               Value(a) == Cardinality(AskedInstalls(question, a))
               groups == Groups(snapshot, filter)
    <2>1. /\ question \in RankingInputs /\ FilterIsValid(question)
          /\ LimitIsValid(question.limit)
          /\ list = ApplicationRankings(snapshot, filter, limit)
          /\ snapshot \in SUBSET Rows /\ IsFiniteSet(snapshot)
      BY DEF RequestInv, ReplyAnswers, RankingAsked, Wanted
    <2>2. limit \in 1 .. MaximumLimit /\ limit \in Nat \ {0}
      BY <2>1, ValidLimit
    <2>3. question.from \in Nat \cup {Absent} /\ question.to \in Nat \cup {Absent}
      BY <2>1, ValidDates
    <2>4. \A a : {r \in Hits(snapshot, filter) : RowData[r].app = a} = AskedInstalls(question, a)
      BY <2>1, <2>3, WhereByDay DEF Hits, AskedInstalls, Asked
    <2>5. \A a : Group(snapshot, filter, a) = [app |-> a, value |-> Value(a)]
      BY <2>4 DEF Group
    <2>6. /\ list \in Seq(Rankings) /\ Len(list) <= limit
          /\ \A i \in DOMAIN list : list[i] \in groups
          /\ \A i, j \in DOMAIN list : i < j => RanksBefore(list[i], list[j])
          /\ \A g \in groups :
               \/ \E i \in DOMAIN list : list[i] = g
               \/ Len(list) = limit /\ RanksBefore(list[Len(list)], g)
      BY <2>1, <2>2, RankingsAreBest
    <2>7. \A g \in groups : \E a : g = [app |-> a, value |-> Value(a)]
      BY <2>5 DEF Groups
    <2>8. ASSUME NEW a, Value(a) > 0 PROVE [app |-> a, value |-> Value(a)] \in groups
      <3>1. AskedInstalls(question, a) # {}
        BY <2>8, FS_EmptySet
      <3>2. PICK r \in Hits(snapshot, filter) : RowData[r].app = a
        BY <2>4, <3>1
      <3> QED
        BY <2>5, <3>2 DEF Groups
    <2> HIDE DEF list, filter, limit, Value, groups
    <2>9. \A i \in DOMAIN list : list[i].value = Value(list[i].app)
      BY <2>6, <2>7
    <2>10. ASSUME NEW a \in Apps \ {list[i].app : i \in DOMAIN list}, Value(a) > 0
           PROVE  /\ Len(list) = limit
                  /\ RanksBefore(list[Len(list)], [app |-> a, value |-> Value(a)])
      <3> DEFINE g == [app |-> a, value |-> Value(a)]
      <3>1. g \in groups
        BY <2>8, <2>10
      <3>2. ~\E i \in DOMAIN list : list[i] = g
        BY <2>10
      <3> HIDE DEF g
      <3>3. Len(list) = limit /\ RanksBefore(list[Len(list)], g)
        BY <2>6, <3>1, <3>2
      <3> QED
        BY <3>3 DEF g
    <2> QED
      BY <2>2, <2>6, <2>9, <2>10 DEF RankingIsExact, list, limit, Value
  <1> QED
    BY <1>1, RequestInvariant, PTL
=============================================================================
