------------------------ MODULE PromptEditorTheorems ------------------------
(***************************************************************************)
(* What the operators of PromptEditor preserve, for every set of runes, and *)
(* what a sum over a sequence is, in the window of the activity and in the *)
(* cells of a line.                                                        *)
(***************************************************************************)
EXTENDS PromptEditor, SequencesExt, SequenceTheorems, WellFoundedInduction, TLAPS

-----------------------------------------------------------------------------
(* A non-empty set of naturals has a least element. *)
LEMMA LeastNatural ==
  ASSUME NEW S \in SUBSET Nat, S # {}
  PROVE  \E m \in S : \A k \in S : m <= k
<1>1. PICK m \in S : \A k \in S : ~ (<<k, m>> \in OpToRel(<, Nat))
  BY NatLessThanWellFounded, WFMin, Zenon
<1>2. \A k \in S : k \in Nat /\ m \in Nat /\ ~(k < m)
  BY <1>1 DEF OpToRel
<1> QED
  BY <1>2

(* A non-empty set of naturals with a bound has a greatest element. *)
LEMMA GreatestNatural ==
  ASSUME NEW n \in Nat, NEW S \in SUBSET (0..n), S # {}
  PROVE  \E m \in S : \A k \in S : k <= m
<1> DEFINE R == {n - k : k \in S}
<1>0. \A k \in S : k \in Nat /\ n - k \in Nat
  OBVIOUS
<1>1. R \in SUBSET Nat /\ R # {}
  BY <1>0
<1>2. PICK r \in R : \A k \in R : r <= k
  BY <1>1, LeastNatural
<1>3. PICK m \in S : r = n - m
  OBVIOUS
<1>4. \A k \in S : k <= m
  <2> TAKE k \in S
  <2>1. n - k \in R
    OBVIOUS
  <2>2. n - m <= n - k /\ m \in Nat /\ k \in Nat
    BY <1>0, <1>2, <1>3, <2>1
  <2> QED
    BY <2>2
<1> QED
  BY <1>4

-----------------------------------------------------------------------------
(* Sums over a sequence, by a fold *)

LEMMA GreatestOfSet ==
  ASSUME NEW n \in Nat, NEW s \in SUBSET (1..n), s # {}
  PROVE  Max(s) \in s /\ \A x \in s : Max(s) >= x
<1>1. s \in SUBSET (0..n)
  OBVIOUS
<1>2. \E m \in s : \A x \in s : x <= m
  BY <1>1, GreatestNatural
<1>3. \E m \in s : \A x \in s : m >= x
  BY <1>2
<1> QED
  BY <1>3 DEF Max

(* The sum of the weights of a sequence. *)
FoldSum(weight, items) == FoldLeft(LAMBDA sum, item : sum + weight[item], 0, items)

(* One more step of the function that FoldLeft goes by. *)
Sums(weight, items, n, f) ==
  [s \in SUBSET (1..n) |-> IF s = {} THEN 0 ELSE f[s \ {Max(s)}] + weight[items[Max(s)]]]

IsSum(f, weight, items) == f = Sums(weight, items, Len(items), f)

LEMMA FoldSumIsSum ==
  ASSUME NEW D, NEW weight \in [D -> Nat], NEW items \in Seq(D)
  PROVE  FoldSum(weight, items) = (CHOOSE f : f = Sums(weight, items, Len(items), f))[1..Len(items)]
<1>1. DOMAIN items = 1..Len(items)
  OBVIOUS
<1> QED
  BY <1>1 DEF FoldSum, FoldLeft, MapThenFoldSet, Sums

LEMMA RestOfInterval ==
  ASSUME NEW n \in Nat \ {0}
  PROVE  /\ 1..n # {} /\ Max(1..n) = n /\ (1..n) \ {n} = 1..(n - 1)
         /\ \A s \in SUBSET (1..n) : n \in s => Max(s) = n /\ s \ {n} \in SUBSET (1..(n - 1))
<1>1. ASSUME NEW s \in SUBSET (1..n), n \in s
      PROVE  Max(s) = n /\ s \ {n} \in SUBSET (1..(n - 1))
  <2>1. Max(s) \in s /\ Max(s) >= n
    BY <1>1, GreatestOfSet
  <2>2. Max(s) \in 1..n
    BY <2>1
  <2>3. Max(s) = n
    BY <2>1, <2>2
  <2>4. \A x \in s \ {n} : x \in 1..(n - 1)
    OBVIOUS
  <2> QED
    BY <2>3, <2>4
<1>2. n \in 1..n /\ 1..n \in SUBSET (1..n) /\ (1..n) \ {n} = 1..(n - 1)
  OBVIOUS
<1> QED
  BY <1>1, <1>2

LEMMA SumExists ==
  ASSUME NEW D, NEW weight \in [D -> Nat], NEW items \in Seq(D), NEW n \in 0..Len(items)
  PROVE  \E f : f = Sums(weight, items, n, f)
<1> DEFINE Bad == {m \in 0..n : ~\E f : f = Sums(weight, items, m, f)}
<1>1. ASSUME Bad # {} PROVE FALSE
  <2>1. Bad \in SUBSET Nat
    OBVIOUS
  <2>2. PICK m \in Bad : \A k \in Bad : m <= k
    BY <1>1, <2>1, LeastNatural
  <2>3. m # 0
    <3>1. SUBSET (1..0) = {{}}
      OBVIOUS
    <3> DEFINE f == [s \in SUBSET (1..0) |-> 0]
    <3>2. f = Sums(weight, items, 0, f)
      BY <3>1 DEF Sums
    <3> QED
      BY <2>2, <3>2
  <2>4. m \in Nat \ {0} /\ m - 1 \in 0..n /\ m - 1 \notin Bad
    BY <2>2, <2>3
  <2>5. PICK f : f = Sums(weight, items, m - 1, f)
    BY <2>4
  <2> DEFINE g == [s \in SUBSET (1..m) |->
                    IF m \in s THEN f[s \ {m}] + weight[items[m]] ELSE f[s]]
  <2>6. ASSUME NEW s \in SUBSET (1..m)
        PROVE  g[s] = IF s = {} THEN 0 ELSE g[s \ {Max(s)}] + weight[items[Max(s)]]
    <3>1. CASE m \in s
      <4>1. Max(s) = m /\ s \ {m} \in SUBSET (1..m)
        BY <2>4, <3>1, RestOfInterval
      <4>2. g[s \ {m}] = f[s \ {m}]
        BY <4>1
      <4> QED
        BY <3>1, <4>1, <4>2
    <3>2. CASE m \notin s
      <4>1. s \in SUBSET (1..(m - 1)) /\ m - 1 \in Nat
        BY <2>4, <3>2
      <4>2. f[s] = IF s = {} THEN 0 ELSE f[s \ {Max(s)}] + weight[items[Max(s)]]
        BY <2>5, <4>1, Zenon DEF Sums
      <4>3. g[s] = f[s] /\ g[s \ {Max(s)}] = f[s \ {Max(s)}]
        BY <3>2
      <4> QED
        BY <4>2, <4>3
    <3> QED
      BY <3>1, <3>2
  <2>7. g = Sums(weight, items, m, g)
    <3> DEFINE v(s) == IF m \in s THEN f[s \ {m}] + weight[items[m]] ELSE f[s]
               w(s) == IF s = {} THEN 0 ELSE g[s \ {Max(s)}] + weight[items[Max(s)]]
    <3>1. \A s \in SUBSET (1..m) : v(s) = w(s)
      BY <2>6
    <3>2. g = [s \in SUBSET (1..m) |-> v(s)] /\ Sums(weight, items, m, g) = [s \in SUBSET (1..m) |-> w(s)]
      BY DEF Sums
    <3> HIDE DEF v, w, g
    <3> QED
      BY <3>1, <3>2
  <2> QED
    BY <2>2, <2>7
<1>2. n \in 0..n
  OBVIOUS
<1> QED
  BY <1>1, <1>2

LEMMA SumStep ==
  ASSUME NEW E, NEW price \in [E -> Nat], NEW list \in Seq(E),
         NEW sum, IsSum(sum, price, list)
  PROVE  /\ sum[1..0] = 0
         /\ \A m \in 1..Len(list) :
              price[list[m]] \in Nat /\ sum[1..m] = sum[1..(m - 1)] + price[list[m]]
<1>1. Len(list) \in Nat
  OBVIOUS
<1>2. \A s \in SUBSET (1..Len(list)) :
        sum[s] = IF s = {} THEN 0 ELSE sum[s \ {Max(s)}] + price[list[Max(s)]]
  BY Zenon DEF IsSum, Sums
<1>3. sum[1..0] = 0
  <2>1. 1..0 = {} /\ 1..0 \in SUBSET (1..Len(list))
    OBVIOUS
  <2> QED
    BY <1>2, <2>1
<1>4. ASSUME NEW m \in 1..Len(list)
      PROVE  price[list[m]] \in Nat /\ sum[1..m] = sum[1..(m - 1)] + price[list[m]]
  <2>1. list[m] \in E
    BY ElementOfSeq
  <2>2. m \in Nat \ {0} /\ 1..m \in SUBSET (1..Len(list))
    BY <1>1
  <2>3. 1..m # {} /\ Max(1..m) = m /\ (1..m) \ {m} = 1..(m - 1)
    BY <2>2, RestOfInterval
  <2> QED
    BY <1>2, <2>1, <2>2, <2>3
<1> QED
  BY <1>3, <1>4

LEMMA SumIsNatural ==
  ASSUME NEW D, NEW weight \in [D -> Nat], NEW items \in Seq(D),
         NEW f, IsSum(f, weight, items), NEW n \in 0..Len(items)
  PROVE  f[1..n] \in Nat
<1>0. Len(items) \in Nat
  OBVIOUS
<1> DEFINE Bad == {m \in 0..n : f[1..m] \notin Nat}
<1>1. ASSUME Bad # {} PROVE FALSE
  <2>1. PICK m \in Bad : \A k \in Bad : m <= k
    <3>1. Bad \in SUBSET Nat
      OBVIOUS
    <3> QED
      BY <1>1, <3>1, LeastNatural
  <2>2. m # 0
    BY <2>1, SumStep
  <2>3. m \in 1..Len(items) /\ f[1..(m - 1)] \in Nat
    BY <1>0, <2>1, <2>2
  <2>4. weight[items[m]] \in Nat /\ f[1..m] = f[1..(m - 1)] + weight[items[m]]
    BY <2>3, SumStep
  <2>5. f[1..m] \in Nat
    BY <2>3, <2>4
  <2> QED
    BY <2>1, <2>5
<1> QED
  BY <1>1

(* A longer sequence has the same sums up to the length of a shorter one    *)
(* that it begins with.                                                     *)
BeginsWith(long, short) ==
  /\ Len(short) <= Len(long)
  /\ \A i \in 1..Len(short) : long[i] = short[i]

LEMMA SumsAgree ==
  ASSUME NEW F, NEW cost \in [F -> Nat], NEW short \in Seq(F), NEW long \in Seq(F),
         BeginsWith(long, short),
         NEW partial, IsSum(partial, cost, short),
         NEW total, IsSum(total, cost, long),
         NEW upTo \in 0..Len(short)
  PROVE  partial[1..upTo] = total[1..upTo]
<1>0. Len(short) \in Nat /\ Len(long) \in Nat
  OBVIOUS
<1>1. \A k \in 1..Len(short) :
        cost[short[k]] \in Nat /\ partial[1..k] = partial[1..(k - 1)] + cost[short[k]]
  <2>1. IsSum(partial, cost, short)
    OBVIOUS
  <2> QED
    BY <2>1, SumStep
<1>2. \A k \in 1..Len(long) :
        cost[long[k]] \in Nat /\ total[1..k] = total[1..(k - 1)] + cost[long[k]]
  <2>1. IsSum(total, cost, long)
    OBVIOUS
  <2> QED
    BY <2>1, SumStep
<1>3. upTo \in 0..upTo
  BY <1>0
<1> DEFINE Bad == {m \in 0..upTo : partial[1..m] # total[1..m]}
<1>4. ASSUME Bad # {} PROVE FALSE
  <2>1. PICK m \in Bad : \A k \in Bad : m <= k
    <3>1. Bad \in SUBSET Nat
      OBVIOUS
    <3> QED
      BY <1>4, <3>1, LeastNatural
  <2>2. partial[1..0] = 0 /\ total[1..0] = 0
    BY SumStep
  <2>3. m \in 1..Len(short) /\ m \in 1..Len(long) /\ partial[1..(m - 1)] = total[1..(m - 1)]
    BY <1>0, <2>1, <2>2 DEF BeginsWith
  <2>4. /\ cost[short[m]] \in Nat
        /\ partial[1..m] = partial[1..(m - 1)] + cost[short[m]]
    BY <1>1, <2>3
  <2>5. /\ cost[long[m]] \in Nat
        /\ total[1..m] = total[1..(m - 1)] + cost[long[m]]
    BY <2>3, <1>2
  <2>6. long[m] = short[m]
    BY <2>3 DEF BeginsWith
  <2> QED
    BY <2>1, <2>3, <2>4, <2>5, <2>6
<1> QED
  BY <1>3, <1>4

(* What a sum is made of. *)
LEMMA FoldSumFunction ==
  ASSUME NEW D, NEW weight \in [D -> Nat], NEW items \in Seq(D)
  PROVE  \E f : IsSum(f, weight, items) /\ FoldSum(weight, items) = f[1..Len(items)]
<1> DEFINE f == CHOOSE g : g = Sums(weight, items, Len(items), g)
<1>1. Len(items) \in 0..Len(items)
  OBVIOUS
<1>2. f = Sums(weight, items, Len(items), f)
  BY <1>1, SumExists
<1>3. FoldSum(weight, items) = f[1..Len(items)]
  BY FoldSumIsSum
<1> HIDE DEF f
<1> QED
  BY <1>2, <1>3 DEF IsSum

LEMMA FoldSumIsNatural ==
  ASSUME NEW D, NEW weight \in [D -> Nat], NEW items \in Seq(D)
  PROVE  /\ FoldSum(weight, items) \in Nat
         /\ items = << >> => FoldSum(weight, items) = 0
<1>1. PICK f : IsSum(f, weight, items) /\ FoldSum(weight, items) = f[1..Len(items)]
  BY FoldSumFunction
<1>2. Len(items) \in 0..Len(items) /\ (items = << >> => Len(items) = 0)
  OBVIOUS
<1>3. f[1..0] = 0
  BY <1>1, SumStep
<1> QED
  BY <1>1, <1>2, <1>3, SumIsNatural

LEMMA FoldSumOfAppend ==
  ASSUME NEW D, NEW weight \in [D -> Nat], NEW items \in Seq(D), NEW item \in D
  PROVE  FoldSum(weight, Append(items, item)) = FoldSum(weight, items) + weight[item]
<1> DEFINE more == Append(items, item)
<1>1. /\ more \in Seq(D) /\ Len(items) \in Nat /\ Len(more) = Len(items) + 1
      /\ \A i \in 1..Len(items) : more[i] = items[i]
      /\ more[Len(more)] = item
  BY AppendProperties
<1> HIDE DEF more
<1>2. PICK f : IsSum(f, weight, items) /\ FoldSum(weight, items) = f[1..Len(items)]
  BY FoldSumFunction
<1>3. PICK g : IsSum(g, weight, more) /\ FoldSum(weight, more) = g[1..Len(more)]
  BY <1>1, FoldSumFunction
<1>4. f[1..Len(items)] = g[1..Len(items)]
  <2>1. BeginsWith(more, items) /\ Len(items) \in 0..Len(items) /\ more \in Seq(D)
    BY <1>1 DEF BeginsWith
  <2>2. IsSum(f, weight, items) /\ IsSum(g, weight, more)
    BY <1>2, <1>3
  <2> QED
    BY <2>1, <2>2, SumsAgree
<1>5. Len(more) \in 1..Len(more) /\ Len(more) - 1 = Len(items)
  BY <1>1
<1>6. g[1..Len(more)] = g[1..(Len(more) - 1)] + weight[more[Len(more)]]
  BY <1>1, <1>3, <1>5, SumStep
<1>7. FoldSum(weight, more) = FoldSum(weight, items) + weight[item]
  BY <1>1, <1>2, <1>3, <1>4, <1>5, <1>6
<1> QED
  BY <1>7 DEF more

LEMMA FoldSumOfConcat ==
  ASSUME NEW D, NEW weight \in [D -> Nat], NEW items \in Seq(D), NEW rest \in Seq(D)
  PROVE  FoldSum(weight, items \o rest) = FoldSum(weight, items) + FoldSum(weight, rest)
<1> DEFINE front(n) == SubSeq(rest, 1, n)
           Bad == {n \in 0..Len(rest) : FoldSum(weight, items \o front(n))
                                          # FoldSum(weight, items) + FoldSum(weight, front(n))}
<1>0. Len(rest) \in Nat
  OBVIOUS
<1>1. FoldSum(weight, items) \in Nat
  BY FoldSumIsNatural
<1>2. ASSUME NEW n \in 0..Len(rest) PROVE front(n) \in Seq(D)
  <2>1. \A i \in 1..n : rest[i] \in D
    BY <1>0, ElementOfSeq
  <2> QED
    BY <1>0, <2>1, SubSeqProperties
<1>3. ASSUME NEW v \in Seq(D), NEW w \in Seq(D)
      PROVE  (items \o v) \o w = items \o (v \o w)
  BY ConcatAssociative
<1>4. ASSUME Bad # {} PROVE FALSE
  <2>1. PICK n \in Bad : \A k \in Bad : n <= k
    <3>1. Bad \in SUBSET Nat
      BY <1>0
    <3> QED
      BY <1>4, <3>1, LeastNatural
  <2>2. n # 0
    <3>1. front(0) = << >> /\ items \o << >> = items
      BY SubSeqEmpty, ConcatEmptySeq
    <3>2. FoldSum(weight, << >>) = 0
      BY FoldSumIsNatural, EmptySeq
    <3>3. ASSUME n = 0 PROVE n \notin Bad
      <4> HIDE DEF front
      <4>1. FoldSum(weight, items) = FoldSum(weight, items) + 0
        BY <1>1
      <4>2. FoldSum(weight, items \o front(0)) = FoldSum(weight, items) + FoldSum(weight, front(0))
        BY <3>1, <3>2, <4>1, Zenon
      <4> USE DEF front
      <4> QED
        BY <3>3, <4>2
    <3> QED
      BY <2>1, <3>3
  <2>3. n \in 1..Len(rest) /\ n - 1 \in 0..Len(rest) /\ n - 1 \notin Bad /\ rest[n] \in D
    <3>1. n \in 1..Len(rest) /\ n - 1 \in 0..Len(rest) /\ n - 1 \notin Bad
      BY <1>0, <2>1, <2>2
    <3> QED
      BY <3>1, ElementOfSeq
  <2> DEFINE s == front(n - 1)
  <2>4. s \in Seq(D) /\ items \o s \in Seq(D)
    BY <1>2, <2>3, ConcatProperties
  <2>5. front(n) = Append(s, rest[n])
    <3>1. 1 \in 1..Len(rest) /\ n \in 1..Len(rest)
      BY <1>0, <2>3
    <3>2. SubSeq(rest, 1, n) = SubSeq(rest, 1, n - 1) \o <<rest[n]>>
      BY <3>1, SubSeqRecursiveSecond
    <3>3. Append(s, rest[n]) = s \o <<rest[n]>>
      BY <2>3, <2>4, AppendIsConcat
    <3> QED
      BY <3>2, <3>3
  <2>6. FoldSum(weight, items \o s) = FoldSum(weight, items) + FoldSum(weight, s)
    BY <2>3
  <2> HIDE DEF s
  <2>7. items \o Append(s, rest[n]) = Append(items \o s, rest[n])
    <3>1. /\ Append(s, rest[n]) = s \o <<rest[n]>>
          /\ Append(items \o s, rest[n]) = (items \o s) \o <<rest[n]>>
      BY <2>3, <2>4, AppendIsConcat
    <3>2. <<rest[n]>> \in Seq(D)
      BY <2>3
    <3> DEFINE last == <<rest[n]>>
    <3> HIDE DEF last
    <3>3. (items \o s) \o last = items \o (s \o last)
      <4>1. last \in Seq(D)
        BY <3>2 DEF last
      <4> QED
        BY <1>3, <2>4, <4>1
    <3> USE DEF last
    <3> QED
      BY <3>1, <3>3
  <2>8. /\ FoldSum(weight, Append(items \o s, rest[n])) = FoldSum(weight, items \o s) + weight[rest[n]]
        /\ FoldSum(weight, Append(s, rest[n])) = FoldSum(weight, s) + weight[rest[n]]
    <3>1. rest[n] \in D
      BY <2>3
    <3>2. FoldSum(weight, Append(items \o s, rest[n])) = FoldSum(weight, items \o s) + weight[rest[n]]
      BY <2>4, <3>1, FoldSumOfAppend
    <3>3. FoldSum(weight, Append(s, rest[n])) = FoldSum(weight, s) + weight[rest[n]]
      BY <2>4, <3>1, FoldSumOfAppend
    <3> QED
      BY <3>2, <3>3
  <2>9. FoldSum(weight, s) \in Nat /\ weight[rest[n]] \in Nat
    BY <2>3, <2>4, FoldSumIsNatural
  <2>10. FoldSum(weight, items \o front(n)) = FoldSum(weight, items) + FoldSum(weight, front(n))
    <3>1. \A i, j, k \in Nat : (i + j) + k = i + (j + k)
      OBVIOUS
    <3>2. FoldSum(weight, items \o front(n)) = (FoldSum(weight, items) + FoldSum(weight, s)) + weight[rest[n]]
      BY <2>5, <2>6, <2>7, <2>8
    <3>3. FoldSum(weight, front(n)) = FoldSum(weight, s) + weight[rest[n]]
      BY <2>5, <2>8
    <3> QED
      BY <1>1, <2>9, <3>1, <3>2, <3>3
  <2> QED
    BY <2>1, <2>10
<1>5. Len(rest) \in 0..Len(rest) /\ front(Len(rest)) = rest
  BY <1>0, SubSeqFull
<1> QED
  BY <1>4, <1>5

-----------------------------------------------------------------------------
(* Boundaries *)

(* Boundaries are offsets of the text, and include its two ends. *)
LEMMA BoundariesAreOffsets ==
  ASSUME NEW text \in Text
  PROVE  /\ Boundaries(text) \subseteq 0..Len(text)
         /\ 0 \in Boundaries(text)
         /\ Len(text) \in Boundaries(text)
         /\ Len(text) \in Nat
BY DEF Boundaries, Text

(* The next boundary is a boundary, at or after the offset asked for. *)
LEMMA NextBoundaryIsBoundary ==
  ASSUME NEW text \in Text, NEW desired \in 0..Len(text)
  PROVE  /\ NextBoundary(text, desired) \in Boundaries(text)
         /\ NextBoundary(text, desired) >= desired
<1> DEFINE after == {b \in Boundaries(text) : b >= desired}
<1>1. after \in SUBSET Nat /\ after # {}
  BY BoundariesAreOffsets
<1>2. \E b \in after : \A c \in after : b <= c
  BY <1>1, LeastNatural
<1> QED
  BY <1>1, <1>2 DEF NextBoundary

(* The previous boundary is a boundary, before the offset unless that is 0. *)
LEMMA PreviousBoundaryIsBoundary ==
  ASSUME NEW text \in Text, NEW offset \in 1..Len(text)
  PROVE  /\ PreviousBoundary(text, offset) \in Boundaries(text)
         /\ PreviousBoundary(text, offset) \in 0..(offset - 1)
<1> DEFINE before == {b \in Boundaries(text) : b < offset}
<1>1. before \in SUBSET (0..Len(text)) /\ before # {} /\ Len(text) \in Nat
  BY BoundariesAreOffsets
<1>2. \E b \in before : \A c \in before : c <= b
  BY <1>1, GreatestNatural
<1> QED
  BY <1>1, <1>2 DEF PreviousBoundary

(* No boundary lies between the offset asked for and the next boundary. *)
LEMMA NextBoundaryIsLeast ==
  ASSUME NEW text \in Text, NEW desired \in 0..Len(text)
  PROVE  \A b \in Boundaries(text) : b >= desired => NextBoundary(text, desired) <= b
<1> DEFINE after == {b \in Boundaries(text) : b >= desired}
<1>1. after \in SUBSET Nat /\ after # {}
  BY BoundariesAreOffsets
<1>2. \E b \in after : \A c \in after : b <= c
  BY <1>1, LeastNatural
<1> QED
  BY <1>1, <1>2 DEF NextBoundary

(* No boundary lies between the previous boundary and the offset. *)
LEMMA PreviousBoundaryIsGreatest ==
  ASSUME NEW text \in Text, NEW offset \in 1..Len(text)
  PROVE  \A b \in Boundaries(text) : b < offset => b <= PreviousBoundary(text, offset)
<1> DEFINE before == {b \in Boundaries(text) : b < offset}
<1>1. before \in SUBSET (0..Len(text)) /\ before # {} /\ Len(text) \in Nat
  BY BoundariesAreOffsets
<1>2. \E b \in before : \A c \in before : c <= b
  BY <1>1, GreatestNatural
<1> QED
  BY <1>1, <1>2 DEF PreviousBoundary

(* Cutting a text keeps a text, and its length is what is left of it. *)
LEMMA CutProperties ==
  ASSUME NEW text \in Text, NEW to \in 0..Len(text), NEW from \in 0..to
  PROVE  /\ Cut(text, from, to) \in Text
         /\ Len(Cut(text, from, to)) = Len(text) - (to - from)
         /\ \A i \in 1..from : Cut(text, from, to)[i] = text[i]
         /\ \A i \in (from + 1)..(Len(text) - (to - from)) :
              Cut(text, from, to)[i] = text[i + (to - from)]
<1> DEFINE head == SubSeq(text, 1, from)
           tail == SubSeq(text, to + 1, Len(text))
<1>1. /\ Len(text) \in Nat /\ to \in Nat /\ from \in Nat
      /\ \A i \in 1..Len(text) : text[i] \in Rune
  BY LenProperties DEF Text
<1>2. /\ head \in Seq(Rune) /\ Len(head) = from
      /\ \A i \in 1..from : head[i] = text[i]
  BY <1>1, SubSeqProperties
<1>3. /\ tail \in Seq(Rune) /\ Len(tail) = Len(text) - to
      /\ \A i \in 1..(Len(text) - to) : tail[i] = text[to + i]
  BY <1>1, SubSeqProperties
<1>4. /\ head \o tail \in Seq(Rune)
      /\ Len(head \o tail) = Len(head) + Len(tail)
      /\ \A i \in 1..(Len(head) + Len(tail)) :
           (head \o tail)[i] = IF i <= Len(head) THEN head[i] ELSE tail[i - Len(head)]
  BY <1>2, <1>3, ConcatProperties
<1>5. Cut(text, from, to) = head \o tail
  BY DEF Cut
<1> HIDE DEF head, tail
<1>6. ASSUME NEW i \in (from + 1)..(Len(text) - (to - from))
      PROVE  (head \o tail)[i] = text[i + (to - from)]
  <2>1. (head \o tail)[i] = tail[i - from] /\ i - from \in 1..(Len(text) - to)
    BY <1>1, <1>2, <1>3, <1>4
  <2>2. tail[i - from] = text[to + (i - from)]
    BY <2>1, <1>3
  <2> QED
    BY <1>1, <2>1, <2>2
<1> DEFINE whole == head \o tail
<1> HIDE DEF whole
<1>7. whole \in Text /\ Len(whole) = Len(text) - (to - from)
  BY <1>1, <1>2, <1>3, <1>4 DEF Text, whole
<1>8. \A i \in 1..from : whole[i] = text[i]
  BY <1>1, <1>2, <1>3, <1>4 DEF whole
<1>9. \A i \in (from + 1)..(Len(text) - (to - from)) : whole[i] = text[i + (to - from)]
  BY <1>6 DEF whole
<1>10. Cut(text, from, to) = whole
  BY <1>5 DEF whole
<1> QED
  BY <1>7, <1>8, <1>9, <1>10

(* Splicing a text into another one gives a text of their two lengths. *)
LEMMA SpliceProperties ==
  ASSUME NEW text \in Text, NEW offset \in 0..Len(text), NEW inserted \in Text
  PROVE  /\ Splice(text, offset, inserted) \in Text
         /\ Len(Splice(text, offset, inserted)) = Len(text) + Len(inserted)
<1> DEFINE head == SubSeq(text, 1, offset)
           tail == SubSeq(text, offset + 1, Len(text))
<1>1. /\ Len(text) \in Nat /\ offset \in Nat /\ Len(inserted) \in Nat
      /\ \A i \in 1..Len(text) : text[i] \in Rune
  BY LenProperties DEF Text
<1>2. head \in Seq(Rune) /\ Len(head) = offset
  BY <1>1, SubSeqProperties
<1>3. tail \in Seq(Rune) /\ Len(tail) = Len(text) - offset
  BY <1>1, SubSeqProperties
<1> HIDE DEF head, tail
<1> DEFINE front == head \o inserted
<1>4. front \in Seq(Rune) /\ Len(front) = offset + Len(inserted)
  BY <1>2, ConcatProperties DEF Text
<1>5. Splice(text, offset, inserted) = front \o tail
  BY DEF Splice, head, tail
<1> HIDE DEF front
<1>6. front \o tail \in Seq(Rune) /\ Len(front \o tail) = Len(front) + Len(tail)
  BY <1>3, <1>4, ConcatProperties
<1>7. Len(front) + Len(tail) = Len(text) + Len(inserted)
  BY <1>1, <1>3, <1>4
<1> QED
  BY <1>5, <1>6, <1>7 DEF Text

-----------------------------------------------------------------------------
(* The operations give editors, and all but Backspace put the cursor on a   *)
(* boundary whatever runes the text has.                                    *)

LEMMA NewEditorSound ==
  ASSUME NEW text \in Text
  PROVE  /\ NewEditor(text) \in Editor
         /\ ValidPrompt(text) => ValidEditor(NewEditor(text))
<1>1. Len(text) \in Nat /\ Len(text) \in Boundaries(text)
  BY BoundariesAreOffsets
<1> QED
  BY <1>1 DEF NewEditor, Editor, ValidEditor, OnBoundary

LEMMA ZeroEditorSound == ZeroEditor \in Editor /\ ValidEditor(ZeroEditor)
<1>1. << >> \in Text /\ Len(<< >>) = 0
  BY DEF Text
<1>2. 0 \in Boundaries(<< >>)
  BY <1>1, BoundariesAreOffsets
<1> QED
  BY <1>1, <1>2, PromptEditorAssumption
  DEF ZeroEditor, Editor, ValidEditor, ValidPrompt, OnBoundary

LEMMA InsertSound ==
  ASSUME NEW editor \in Editor, NEW text \in Text, CanInsert(editor, text)
  PROVE  /\ Insert(editor, text) \in Editor
         /\ ValidEditor(Insert(editor, text))
<1> DEFINE value == Splice(editor.value, editor.cursor, text)
           cursor == NextBoundary(value, editor.cursor + Len(text))
<1>1. /\ editor.value \in Text /\ editor.cursor \in Nat
      /\ editor.cursor \in Boundaries(editor.value)
      /\ Len(editor.value) + Len(text) <= MaxPrompt
  BY DEF Editor, CanInsert, ValidEditor, OnBoundary
<1>2. /\ editor.cursor \in 0..Len(editor.value)
      /\ Len(editor.value) \in Nat /\ Len(text) \in Nat
  BY <1>1, BoundariesAreOffsets
<1>3. value \in Text /\ Len(value) = Len(editor.value) + Len(text)
  BY <1>1, <1>2, SpliceProperties
<1>4. editor.cursor + Len(text) \in 0..Len(value)
  BY <1>2, <1>3
<1>5. Insert(editor, text) = [value |-> value, cursor |-> cursor]
  BY DEF Insert
<1> HIDE DEF value
<1>6. cursor \in Boundaries(value)
  BY <1>3, <1>4, NextBoundaryIsBoundary
<1>7. cursor \in Nat
  BY <1>3, <1>6, BoundariesAreOffsets
<1> HIDE DEF cursor
<1>8. Len(value) <= MaxPrompt
  BY <1>1, <1>3
<1> QED
  BY <1>3, <1>5, <1>6, <1>7, <1>8 DEF Editor, ValidEditor, ValidPrompt, OnBoundary

LEMMA MoveSound ==
  ASSUME NEW editor \in Editor, NEW direction \in Moves
  PROVE  /\ Move(editor, direction) \in Editor
         /\ ValidEditor(Move(editor, direction))
         /\ ValidEditor(editor) => Move(editor, direction).value = editor.value
<1>1. CASE ~ValidEditor(editor)
  BY <1>1, ZeroEditorSound DEF Move
<1>2. CASE ValidEditor(editor)
  <2> DEFINE text == editor.value
             cursor == Move(editor, direction).cursor
  <2>1. /\ text \in Text /\ editor.cursor \in Boundaries(text)
        /\ editor.cursor \in 0..Len(text) /\ Len(text) \in Nat
        /\ 0 \in Boundaries(text) /\ Len(text) \in Boundaries(text)
    BY <1>2, BoundariesAreOffsets DEF Editor, ValidEditor, OnBoundary
  <2>2. Move(editor, direction).value = text
    BY <1>2 DEF Move
  <2>3. cursor \in Boundaries(text)
    <3>1. CASE direction = "left"
      <4>1. cursor = PreviousBoundary(text, editor.cursor)
        BY <1>2, <3>1 DEF Move
      <4>2. CASE editor.cursor = 0
        <5>1. {b \in Boundaries(text) : b < 0} = {}
          BY <2>1, BoundariesAreOffsets
        <5> QED
          BY <2>1, <4>1, <4>2, <5>1 DEF PreviousBoundary
      <4>3. CASE editor.cursor # 0
        BY <2>1, <4>1, <4>3, PreviousBoundaryIsBoundary
      <4> QED
        BY <4>2, <4>3
    <3>2. CASE direction = "right"
      <4>1. cursor = NextBoundary(text, editor.cursor + 1)
        BY <1>2, <3>2 DEF Move
      <4>2. CASE editor.cursor = Len(text)
        <5>1. {b \in Boundaries(text) : b >= Len(text) + 1} = {}
          BY <2>1, BoundariesAreOffsets
        <5> QED
          BY <2>1, <4>1, <4>2, <5>1 DEF NextBoundary
      <4>3. CASE editor.cursor # Len(text)
        <5>1. editor.cursor + 1 \in 0..Len(text)
          BY <2>1, <4>3
        <5> QED
          BY <2>1, <4>1, <5>1, NextBoundaryIsBoundary
      <4> QED
        BY <4>2, <4>3
    <3>3. CASE direction \in {"start", "end"}
      BY <1>2, <2>1, <3>3 DEF Move
    <3> QED
      BY <3>1, <3>2, <3>3 DEF Moves
  <2>4. cursor \in Nat
    BY <2>1, <2>3, BoundariesAreOffsets
  <2>5. Move(editor, direction) = [value |-> text, cursor |-> cursor]
    BY <1>2, Zenon DEF Move
  <2> HIDE DEF cursor
  <2> QED
    BY <1>2, <2>1, <2>3, <2>4, <2>5 DEF Editor, ValidEditor, OnBoundary
<1> QED
  BY <1>1, <1>2

(* Stepping over a character and back returns to the same editor: the       *)
(* boundary stepped from is the nearest one on the way back.                *)
LEMMA RightThenLeft ==
  ASSUME NEW editor \in Editor, ValidEditor(editor), editor.cursor < Len(editor.value)
  PROVE  Move(Move(editor, "right"), "left") = editor
<1> DEFINE text   == editor.value
           cursor == editor.cursor
           next   == NextBoundary(text, cursor + 1)
           moved  == Move(editor, "right")
<1>1. /\ text \in Text /\ Len(text) \in Nat /\ cursor \in Boundaries(text)
      /\ cursor \in 0..Len(text) /\ cursor + 1 \in 0..Len(text)
  BY BoundariesAreOffsets DEF Editor, ValidEditor, OnBoundary
<1>2. editor = [value |-> text, cursor |-> cursor]
  BY DEF Editor
<1>3. moved = [value |-> text, cursor |-> next]
  BY DEF Move
<1>4. ValidEditor(moved)
  BY MoveSound DEF Moves
<1>5. Move(moved, "left") = [value |-> text, cursor |-> PreviousBoundary(text, next)]
  BY <1>3, <1>4 DEF Move
<1> HIDE DEF moved, text, cursor
<1>6. next \in Boundaries(text) /\ next >= cursor + 1
  BY <1>1, NextBoundaryIsBoundary
<1>7. \A b \in Boundaries(text) : b >= cursor + 1 => next <= b
  BY <1>1, NextBoundaryIsLeast
<1> HIDE DEF next
<1>8. next \in 1..Len(text)
  BY <1>1, <1>6, BoundariesAreOffsets
<1>9. /\ PreviousBoundary(text, next) \in Boundaries(text)
      /\ PreviousBoundary(text, next) \in 0..(next - 1)
      /\ \A b \in Boundaries(text) : b < next => b <= PreviousBoundary(text, next)
  BY <1>1, <1>8, PreviousBoundaryIsBoundary, PreviousBoundaryIsGreatest
<1>10. PreviousBoundary(text, next) = cursor
  BY <1>1, <1>6, <1>7, <1>8, <1>9
<1> QED
  BY <1>2, <1>5, <1>10 DEF moved

LEMMA LeftThenRight ==
  ASSUME NEW editor \in Editor, ValidEditor(editor), editor.cursor > 0
  PROVE  Move(Move(editor, "left"), "right") = editor
<1> DEFINE text     == editor.value
           cursor   == editor.cursor
           previous == PreviousBoundary(text, cursor)
           moved    == Move(editor, "left")
<1>1. /\ text \in Text /\ Len(text) \in Nat /\ cursor \in Boundaries(text)
      /\ cursor \in 1..Len(text)
  BY BoundariesAreOffsets DEF Editor, ValidEditor, OnBoundary
<1>2. editor = [value |-> text, cursor |-> cursor]
  BY DEF Editor
<1>3. moved = [value |-> text, cursor |-> previous]
  BY DEF Move
<1>4. ValidEditor(moved)
  BY MoveSound DEF Moves
<1>5. Move(moved, "right") = [value |-> text, cursor |-> NextBoundary(text, previous + 1)]
  BY <1>3, <1>4 DEF Move
<1> HIDE DEF moved, text, cursor
<1>6. /\ previous \in Boundaries(text) /\ previous \in 0..(cursor - 1)
      /\ \A b \in Boundaries(text) : b < cursor => b <= previous
  BY <1>1, PreviousBoundaryIsBoundary, PreviousBoundaryIsGreatest
<1> HIDE DEF previous
<1>7. previous + 1 \in 0..Len(text)
  BY <1>1, <1>6
<1>8. /\ NextBoundary(text, previous + 1) \in Boundaries(text)
      /\ NextBoundary(text, previous + 1) >= previous + 1
      /\ \A b \in Boundaries(text) :
           b >= previous + 1 => NextBoundary(text, previous + 1) <= b
  BY <1>1, <1>7, NextBoundaryIsBoundary, NextBoundaryIsLeast
<1>9. NextBoundary(text, previous + 1) \in 0..Len(text)
  BY <1>1, <1>8, BoundariesAreOffsets
<1>10. NextBoundary(text, previous + 1) = cursor
  BY <1>1, <1>6, <1>8, <1>9
<1> QED
  BY <1>2, <1>5, <1>10 DEF moved

(* Whether a rune joins the one before it depends on that rune alone. *)
GluedByRight ==
  \A r, s, t \in Rune : <<r, t>> \in Glued <=> <<s, t>> \in Glued

(* Backspace gives an editor, and one with its cursor on a boundary if no   *)
(* rune is kept with the one before it because of that one.                 *)
LEMMA BackspaceSound ==
  ASSUME NEW editor \in Editor
  PROVE  /\ Backspace(editor) \in Editor
         /\ Len(Backspace(editor).value) <= Len(editor.value)
         /\ GluedByRight /\ ValidEditor(editor) => ValidEditor(Backspace(editor))
<1>0. Len(editor.value) \in Nat
  BY LenProperties DEF Editor, Text
<1>1. CASE ~ValidEditor(editor)
  <2>1. Backspace(editor) = ZeroEditor
    BY <1>1 DEF Backspace
  <2>2. Len(ZeroEditor.value) = 0
    BY DEF ZeroEditor
  <2> QED
    BY <1>0, <1>1, <2>1, <2>2, ZeroEditorSound
<1>2. CASE ValidEditor(editor) /\ editor.cursor = 0
  BY <1>0, <1>2 DEF Backspace
<1>3. CASE ValidEditor(editor) /\ editor.cursor # 0
  <2> DEFINE text   == editor.value
             cursor == editor.cursor
             start  == PreviousBoundary(text, cursor)
             value  == Cut(text, start, cursor)
  <2>1. /\ text \in Text /\ Len(text) \in Nat /\ Len(text) <= MaxPrompt
        /\ cursor \in 1..Len(text) /\ cursor \in Boundaries(text)
    BY <1>3, BoundariesAreOffsets DEF Editor, ValidEditor, ValidPrompt, OnBoundary
  <2> HIDE DEF text, cursor
  <2>2. start \in Boundaries(text) /\ start \in 0..(cursor - 1)
    BY <2>1, PreviousBoundaryIsBoundary
  <2> HIDE DEF start
  <2>3. /\ value \in Text /\ Len(value) = Len(text) - (cursor - start)
        /\ \A i \in 1..start : value[i] = text[i]
        /\ \A i \in (start + 1)..(Len(text) - (cursor - start)) :
             value[i] = text[i + (cursor - start)]
    <3>1. start \in 0..cursor /\ cursor \in 0..Len(text)
      BY <2>1, <2>2
    <3> QED
      BY <2>1, <3>1, CutProperties
  <2> HIDE DEF value
  <2>4. Backspace(editor) = [value |-> value, cursor |-> start]
    BY <1>3 DEF Backspace, value, start, text, cursor
  <2>5. start \in Nat /\ Len(value) <= MaxPrompt
    BY <2>1, <2>2, <2>3, PromptEditorAssumption
  <2>6. ASSUME GluedByRight
        PROVE  start \in Boundaries(value)
    <3>1. CASE start = 0 \/ start = Len(value)
      BY <2>3, <3>1, BoundariesAreOffsets
    <3>2. CASE start # 0 /\ start # Len(value)
      <4>1. /\ start \in 1..(Len(value) - 1)
            /\ cursor \in 1..(Len(text) - 1)
        <5>1. /\ Len(text) \in Nat /\ cursor \in Nat /\ start \in Nat
              /\ 0 <= start /\ start < cursor /\ cursor <= Len(text)
          BY <2>1, <2>2
        <5>2. Len(value) = Len(text) - (cursor - start)
          BY <2>3
        <5>3. start # 0 /\ start # Len(value)
          BY <3>2
        <5>4. cursor # Len(text)
          BY <5>1, <5>2, <5>3
        <5> QED
          BY <5>1, <5>2, <5>3, <5>4
      <4>2. value[start] = text[start] /\ value[start + 1] = text[cursor + 1]
        <5>1. value[start] = text[start]
          BY <2>3, <4>1
        <5>2. start + 1 \in (start + 1)..(Len(text) - (cursor - start))
          BY <2>1, <2>2, <2>3, <4>1
        <5>3. value[start + 1] = text[(start + 1) + (cursor - start)]
          BY <2>3, <5>2
        <5>4. (start + 1) + (cursor - start) = cursor + 1
          BY <2>1, <2>2
        <5> QED
          BY <5>1, <5>3, <5>4
      <4>3. <<text[cursor], text[cursor + 1]>> \notin Glued
        BY <2>1, <4>1 DEF Boundaries
      <4>4. /\ text[start] \in Rune /\ text[cursor] \in Rune
            /\ text[cursor + 1] \in Rune
        <5>1. \A i \in 1..Len(text) : text[i] \in Rune
          BY <2>1, LenProperties DEF Text
        <5>2. start \in 1..Len(text) /\ cursor + 1 \in 1..Len(text)
          BY <2>1, <2>2, <4>1
        <5> QED
          BY <2>1, <5>1, <5>2
      <4>5. <<value[start], value[start + 1]>> \notin Glued
        BY <2>6, <4>2, <4>3, <4>4 DEF GluedByRight
      <4> QED
        BY <4>1, <4>5 DEF Boundaries
    <3> QED
      BY <3>1, <3>2
  <2>7. Len(value) <= Len(text)
    BY <2>1, <2>2, <2>3
  <2> QED
    BY <2>3, <2>4, <2>5, <2>6, <2>7 DEF text, Editor, ValidEditor, ValidPrompt, OnBoundary
<1> QED
  BY <1>1, <1>2, <1>3

=============================================================================
