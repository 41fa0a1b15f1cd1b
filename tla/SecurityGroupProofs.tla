------------------------ MODULE SecurityGroupProofs ------------------------
(* Batches of rules for any callers, rules and priorities: what the          *)
(* generator hands out is free, and the lock of the group keeps it free.     *)
EXTENDS SecurityGroup, WellFoundedInduction, FiniteSetTheorems, SequenceTheorems, TLAPS

LEMMA LeastElement ==
  ASSUME NEW T \in SUBSET Nat, T # {}
  PROVE  \E n \in T : \A m \in T : n <= m
<1>1. PICK n \in T : \A m \in T : <<m, n>> \notin OpToRel(<, Nat)
  BY WFMin, NatLessThanWellFounded, Zenon
<1>2. \A m \in T : ~(m < n)
  BY <1>1, Zenon DEF OpToRel
<1> QED
  BY <1>2

LEMMA GreatestElement ==
  ASSUME NEW S \in SUBSET Nat, NEW bound \in Nat, NEW s0 \in S,
         \A x \in S : x <= bound
  PROVE  \E x \in S : \A y \in S : y <= x
<1> DEFINE Above == {n \in Nat : \A x \in S : x <= n}
<1>1. PICK n \in Above : \A m \in Above : n <= m
  <2>1. bound \in Above
    OBVIOUS
  <2> QED
    BY <2>1, LeastElement
<1>2. n \in S
  <2> SUFFICES ASSUME n \notin S PROVE FALSE
    OBVIOUS
  <2>1. \A x \in S : x <= n - 1
    OBVIOUS
  <2>2. n - 1 \in Above
    BY <2>1
  <2> QED
    BY <1>1, <2>2
<1> QED
  BY <1>1, <1>2

LEMMA RelevantBounds ==
  ASSUME NEW max \in Nat, NEW taken \in SUBSET (1..max),
         NEW start \in Nat, start > RulePriorityIncreaseStep
  PROVE  /\ Relevant(start, taken) \in SUBSET Nat
         /\ start - RulePriorityIncreaseStep \in Relevant(start, taken)
         /\ \A x \in Relevant(start, taken) : x >= start - RulePriorityIncreaseStep /\ x <= max + start
<1> USE DEF RulePriorityIncreaseStep
<1> DEFINE limit == start - RulePriorityIncreaseStep
           R == Relevant(start, taken)
<1>1. limit \in Nat /\ limit <= max + start
  OBVIOUS
<1>2. \A x \in taken : x \in Nat /\ x <= max + start
  OBVIOUS
<1>3. limit \in R /\ \A x \in R : x = limit \/ (x \in taken /\ x >= limit)
  BY DEF Relevant
<1> HIDE DEF limit, R
<1>4. R \in SUBSET Nat /\ limit \in R /\ \A x \in R : x >= limit /\ x <= max + start
  BY <1>1, <1>2, <1>3
<1> QED
  BY <1>4 DEF limit, R

(* The generator always finds a priority, the least of those it may yield.   *)
LEMMA NextPriorityLeast ==
  ASSUME NEW max \in Nat, NEW taken \in SUBSET (1..max),
         NEW start \in Nat, start > RulePriorityIncreaseStep
  PROVE  /\ Gaps(start, taken) \in SUBSET Nat
         /\ \A p \in Gaps(start, taken) : p >= start /\ p \notin taken
         /\ NextPriority(start, taken) \in Gaps(start, taken)
         /\ \A p \in Gaps(start, taken) : NextPriority(start, taken) <= p
<1> USE DEF RulePriorityIncreaseStep
<1> DEFINE limit == start - RulePriorityIncreaseStep
           R == Relevant(start, taken)
           G == Gaps(start, taken)
<1>1. R \in SUBSET Nat /\ limit \in R /\ \A x \in R : x >= limit /\ x <= max + start
  BY RelevantBounds
<1>2. PICK y \in R : \A x \in R : x <= y
  BY <1>1, GreatestElement, max + start \in Nat
<1>3. \A z \in taken : z <= y
  <2> TAKE z \in taken
  <2>1. z \in Nat /\ y \in Nat /\ limit \in Nat /\ limit <= y
    BY <1>1, <1>2
  <2>2. z >= limit => z \in R
    BY DEF Relevant
  <2> QED
    BY <1>2, <2>1, <2>2
<1>4. y + 5 \in G
  BY <1>1, <1>3 DEF Gaps
<1>5. G \in SUBSET Nat /\ \A p \in G : p >= start /\ p \notin taken
  BY <1>1 DEF Gaps
<1>6. \E p \in G : \A q \in G : p <= q
  BY <1>4, <1>5, LeastElement
<1>7. NextPriority(start, taken) \in G /\ \A q \in G : NextPriority(start, taken) <= q
  BY <1>6 DEF NextPriority
<1> QED
  BY <1>5, <1>7

(* The generator always finds a priority; it is not below the start and no   *)
(* listed or yielded rule has it.                                           *)
THEOREM NextPriorityFresh ==
  ASSUME NEW max \in Nat, NEW taken \in SUBSET (1..max),
         NEW start \in Nat, start > RulePriorityIncreaseStep
  PROVE  /\ NextPriority(start, taken) \in Nat
         /\ NextPriority(start, taken) >= start
         /\ NextPriority(start, taken) \notin taken
BY NextPriorityLeast

(* The loop of the generator, iteration by iteration: gen[i] is what it holds  *)
(* when its cursor reaches i.                                               *)
LEMMA GenDefined ==
  ASSUME NEW list, NEW n \in Nat, Len(list) \in Nat
  PROVE  \E gen : /\ gen[1] = [list |-> list, out |-> <<>>]
                  /\ \A i \in 1..(Len(list) + n) : gen[i + 1] = Iteration(gen[i], i, n)
                  /\ Generated(list, n) = gen[Len(list) + n + 1].out
<1> DEFINE a == [list |-> list, out |-> <<>>]
           last == Len(list) + n + 1
           Is(g, m) == g = [i \in 1..m |-> IF i = 1 THEN a ELSE Iteration(g[i - 1], i - 1, n)]
           Gen == CHOOSE g : Is(g, last)
           Bad == {m \in Nat : ~\E g : Is(g, m)}
<1>1. Generated(list, n) = Gen[last].out
  BY DEF Generated
<1>2. Bad = {}
  <2> SUFFICES ASSUME Bad # {} PROVE FALSE
    OBVIOUS
  <2>1. PICK m \in Bad : \A k \in Bad : m <= k
    BY LeastElement
  <2>2. m # 0
    <3>1. Is([i \in 1..0 |-> a], 0)
      OBVIOUS
    <3> QED
      BY <3>1
  <2>3. PICK h : Is(h, m - 1)
    <3>1. m - 1 \in Nat /\ ~(m <= m - 1)
      BY <2>1, <2>2
    <3>2. m - 1 \notin Bad
      BY <2>1, <3>1, Zenon
    <3> QED
      BY <3>1, <3>2, Zenon
  <2> DEFINE g == [i \in 1..m |-> IF i < m THEN h[i] ELSE IF i = 1 THEN a ELSE Iteration(h[i - 1], i - 1, n)]
  <2>4. \A i \in 1..m : g[i] = IF i = 1 THEN a ELSE Iteration(g[i - 1], i - 1, n)
    <3> SUFFICES ASSUME NEW i \in 1..m PROVE g[i] = IF i = 1 THEN a ELSE Iteration(g[i - 1], i - 1, n)
      OBVIOUS
    <3>1. i # 1 => g[i - 1] = h[i - 1]
      OBVIOUS
    <3>2. CASE i < m
      <4>1. h[i] = IF i = 1 THEN a ELSE Iteration(h[i - 1], i - 1, n)
        BY <2>3, <3>2
      <4> QED
        BY <3>1, <3>2, <4>1
    <3>3. CASE i = m
      BY <3>1, <3>3
    <3> QED
      BY <3>2, <3>3
  <2>5. Is(g, m)
    BY <2>4
  <2> QED
    BY <2>5
<1>3. Is(Gen, last)
  BY <1>2
<1> HIDE DEF Gen
<1>4. \A i \in 1..last : Gen[i] = IF i = 1 THEN a ELSE Iteration(Gen[i - 1], i - 1, n)
  BY <1>3
<1>5. \A i \in 1..(Len(list) + n) : Gen[i + 1] = Iteration(Gen[i], i, n)
  BY <1>4
<1> QED
  BY <1>1, <1>4, <1>5

(* What f holds for each number of values, up to n.                          *)
Prefixes(f, start, taken, n) ==
  /\ f[0] = <<>>
  /\ \A k \in 0..(n - 1) :
       f[k + 1] = Append(f[k], NextPriority(start, taken \union {f[k][j] : j \in 1..k}))

LEMMA YieldsDefined ==
  ASSUME NEW start, NEW taken, NEW n \in Nat
  PROVE  \E f : Prefixes(f, start, taken, n) /\ NextPriorities(start, taken, n) = f[n]
<1> DEFINE Step(b, k) == Append(b, NextPriority(start, taken \union {b[j] : j \in 1..(k - 1)}))
           Is(f, m) == f = [k \in 0..m |-> IF k = 0 THEN <<>> ELSE Step(f[k - 1], k)]
           F == CHOOSE f : Is(f, n)
           Bad == {m \in Nat : ~\E f : Is(f, m)}
<1>1. NextPriorities(start, taken, n) = F[n]
  BY DEF NextPriorities
<1> HIDE DEF Step
<1>2. Bad = {}
  <2> SUFFICES ASSUME Bad # {} PROVE FALSE
    OBVIOUS
  <2>1. PICK m \in Bad : \A k \in Bad : m <= k
    BY LeastElement
  <2>2. m # 0
    <3>1. Is([k \in 0..0 |-> <<>>], 0)
      OBVIOUS
    <3> QED
      BY <3>1
  <2>3. PICK h : Is(h, m - 1)
    <3>1. m - 1 \in Nat /\ ~(m <= m - 1)
      BY <2>1, <2>2
    <3>2. m - 1 \notin Bad
      BY <2>1, <3>1, Zenon
    <3> QED
      BY <3>1, <3>2, Zenon
  <2> DEFINE f == [k \in 0..m |-> IF k < m THEN h[k] ELSE Step(h[k - 1], k)]
  <2>4. \A k \in 0..m : f[k] = IF k = 0 THEN <<>> ELSE Step(f[k - 1], k)
    <3> SUFFICES ASSUME NEW k \in 0..m PROVE f[k] = IF k = 0 THEN <<>> ELSE Step(f[k - 1], k)
      OBVIOUS
    <3>1. k # 0 => f[k - 1] = h[k - 1]
      OBVIOUS
    <3>2. CASE k < m
      <4>1. h[k] = IF k = 0 THEN <<>> ELSE Step(h[k - 1], k)
        BY <2>3, <3>2
      <4> QED
        BY <3>1, <3>2, <4>1
    <3>3. CASE k = m
      BY <2>2, <3>1, <3>3
    <3> QED
      BY <3>2, <3>3
  <2>5. Is(f, m)
    BY <2>4
  <2> QED
    BY <2>5
<1>3. Is(F, n)
  BY <1>2
<1> HIDE DEF F
<1>4. \A k \in 0..n : F[k] = IF k = 0 THEN <<>> ELSE Step(F[k - 1], k)
  BY <1>3
<1>5. \A k \in 0..(n - 1) : F[k + 1] = Step(F[k], k + 1)
  BY <1>4
<1>6. \A k \in 0..(n - 1) : F[k + 1] = Append(F[k], NextPriority(start, taken \union {F[k][j] : j \in 1..k}))
  <2> TAKE k \in 0..(n - 1)
  <2>1. (k + 1) - 1 = k
    OBVIOUS
  <2> QED
    BY <1>5, <2>1 DEF Step
<1>7. F[0] = <<>>
  BY <1>4
<1> QED
  BY <1>1, <1>6, <1>7 DEF Prefixes

(* The list holds what is relevant in ascending order, and up to the cursor   *)
(* i no element is more than a step above the one before it.                *)
Walked(list, i, start, taken) ==
  /\ list \in Seq(Nat)
  /\ i \in 1..Len(list)
  /\ \A j, k \in 1..Len(list) : j <= k => list[j] <= list[k]
  /\ \A j \in 1..Len(list) : list[j] \in Relevant(start, taken)
  /\ \A x \in Relevant(start, taken) : \E j \in 1..Len(list) : list[j] = x
  /\ \A j \in 1..(i - 1) : list[j + 1] <= list[j] + RulePriorityIncreaseStep

(* The cursor yields where a gap follows: the least priority that is free.    *)
LEMMA GapYields ==
  ASSUME NEW max \in Nat, NEW taken \in SUBSET (1..max),
         NEW start \in Nat, start > RulePriorityIncreaseStep,
         NEW list, NEW i, Walked(list, i, start, taken),
         i >= Len(list) \/ list[i + 1] > list[i] + RulePriorityIncreaseStep
  PROVE  list[i] + RulePriorityIncreaseStep = NextPriority(start, taken)
<1> USE DEF RulePriorityIncreaseStep
<1> DEFINE R == Relevant(start, taken)
           G == Gaps(start, taken)
           limit == start - 5
<1>1. PICK L \in Nat : L = Len(list)
  BY LenProperties DEF Walked
<1>2. i \in Nat /\ 1 <= i /\ i <= L /\ (i < L => list[i + 1] > list[i] + 5)
  BY <1>1 DEF Walked
<1>3. \A j \in 1..L : list[j] \in R /\ list[j] \in Nat
  BY <1>1, ElementOfSeq DEF Walked
<1>4. \A j, k \in 1..L : j <= k => list[j] <= list[k]
  BY <1>1 DEF Walked
<1>5. \A x \in R : \E j \in 1..L : list[j] = x
  BY <1>1 DEF Walked
<1>6. \A j \in 1..(i - 1) : list[j + 1] <= list[j] + 5
  BY DEF Walked
<1>7. limit \in Nat /\ R \in SUBSET Nat /\ \A x \in R : x >= limit
  BY RelevantBounds
<1>8. \A x \in taken : x \in Nat /\ (x >= limit => x \in R)
  BY DEF Relevant
<1>9. \A x \in R : x = limit \/ x \in taken
  BY DEF Relevant
<1>10. G = {x + 5 : x \in {y \in R : \A z \in taken : ~(y < z /\ z <= y + 5)}}
  BY DEF Gaps
<1>11. /\ G \in SUBSET Nat
       /\ NextPriority(start, taken) \in G
       /\ \A p \in G : NextPriority(start, taken) <= p
  BY NextPriorityLeast
<1> HIDE DEF R, G, limit
<1>12. list[i] \in R /\ list[i] \in Nat
  BY <1>2, <1>3
<1>13. list[i] + 5 \in G
  <2>1. ASSUME NEW z \in taken, list[i] < z, z <= list[i] + 5 PROVE FALSE
    <3>1. z \in Nat /\ z \in R
      BY <1>7, <1>8, <1>12, <2>1
    <3>2. PICK j \in 1..L : list[j] = z
      BY <1>5, <3>1
    <3>3. j > i
      <4> SUFFICES ASSUME j <= i PROVE FALSE
        BY <1>2
      <4>1. list[j] <= list[i]
        BY <1>2, <1>4
      <4> QED
        BY <1>12, <2>1, <3>1, <3>2, <4>1
    <3>4. i + 1 \in 1..L /\ i + 1 <= j /\ i < L
      BY <1>1, <1>2, <3>3
    <3>5. list[i + 1] <= z /\ list[i + 1] \in Nat /\ list[i + 1] > list[i] + 5
      BY <1>2, <1>3, <1>4, <3>2, <3>4
    <3> QED
      BY <1>12, <2>1, <3>1, <3>5
  <2> QED
    BY <1>10, <1>12, <2>1
<1>14. ASSUME NEW y \in R, \A z \in taken : ~(y < z /\ z <= y + 5) PROVE list[i] <= y
  <2> SUFFICES ASSUME y < list[i] PROVE FALSE
    BY <1>7, <1>12
  <2> DEFINE J == {j \in 1..L : list[j] = y}
  <2>1. PICK j \in J : \A k \in J : k <= j
    <3>1. PICK j0 \in 1..L : list[j0] = y
      BY <1>5
    <3>2. J \in SUBSET Nat /\ j0 \in J /\ \A k \in J : k <= L
      BY <1>1, <3>1
    <3> HIDE DEF J
    <3> QED
      BY <1>1, <3>2, GreatestElement
  <2>2. j \in 1..L /\ list[j] = y /\ y \in Nat /\ y >= limit
    BY <1>7
  <2>3. j < i
    <3> SUFFICES ASSUME i <= j PROVE FALSE
      BY <1>2, <2>2
    <3>1. list[i] <= list[j]
      BY <1>2, <1>4, <2>2
    <3> QED
      BY <1>12, <2>2, <3>1
  <2>4. j \in 1..(i - 1) /\ j + 1 \in 1..L /\ j <= j + 1 /\ ~(j + 1 <= j)
    BY <1>1, <1>2, <2>2, <2>3
  <2>5. list[j + 1] # y
    BY <2>1, <2>4
  <2>6. list[j + 1] \in R /\ list[j + 1] \in Nat /\ list[j] <= list[j + 1] /\ list[j + 1] <= list[j] + 5
    BY <1>3, <1>4, <1>6, <2>2, <2>4
  <2>7. y < list[j + 1] /\ list[j + 1] <= y + 5
    BY <2>2, <2>5, <2>6
  <2>8. list[j + 1] \in taken
    BY <1>7, <1>9, <2>2, <2>6, <2>7
  <2> QED
    BY <1>14, <2>7, <2>8
<1>15. \A p \in G : list[i] + 5 <= p
  <2> TAKE p \in G
  <2>1. PICK y \in R : p = y + 5 /\ \A z \in taken : ~(y < z /\ z <= y + 5)
    BY <1>10
  <2>2. list[i] <= y /\ y \in Nat
    BY <1>7, <1>14, <2>1
  <2> QED
    BY <1>12, <2>1, <2>2
<1>16. /\ NextPriority(start, taken) \in Nat
       /\ NextPriority(start, taken) <= list[i] + 5
       /\ list[i] + 5 <= NextPriority(start, taken)
  BY <1>11, <1>13, <1>15
<1> QED
  BY <1>12, <1>16

(* What list.insert leaves when p comes to stand after the element i.        *)
Inserted(list, i, p, after) ==
  /\ after \in Seq(Nat)
  /\ Len(after) = Len(list) + 1
  /\ \A j \in 1..i : after[j] = list[j]
  /\ after[i + 1] = p
  /\ \A j \in (i + 1)..Len(list) : after[j + 1] = list[j]

LEMMA InsertedElements ==
  ASSUME NEW list \in Seq(Nat), NEW i \in 1..Len(list), NEW p \in Nat
  PROVE  Inserted(list, i, p, SubSeq(list, 1, i) \o <<p>> \o SubSeq(list, i + 1, Len(list)))
<1> DEFINE s1 == SubSeq(list, 1, i)
           s2 == SubSeq(list, i + 1, Len(list))
           s3 == s1 \o <<p>>
           after == s3 \o s2
<1>1. PICK L \in Nat : L = Len(list)
  BY LenProperties
<1>2. i \in Nat /\ 1 <= i /\ i <= L
  BY <1>1
<1>3. \A j \in 1..L : list[j] \in Nat
  BY <1>1, ElementOfSeq
<1>4. s1 \in Seq(Nat) /\ Len(s1) = i /\ \A j \in 1..i : s1[j] = list[j]
  <2>1. \A j \in 1..i : list[j] \in Nat
    BY <1>2, <1>3
  <2>2. /\ s1 \in Seq(Nat) /\ Len(s1) = (IF 1 <= i THEN i - 1 + 1 ELSE 0)
        /\ \A j \in 1..(i - 1 + 1) : s1[j] = list[1 + j - 1]
    <3>1. 1 \in Int /\ i \in Int
      BY <1>2
    <3> QED
      BY <2>1, <3>1, SubSeqProperties
  <2>3. i - 1 + 1 = i /\ \A j \in 1..i : 1 + j - 1 = j
    BY <1>2
  <2> QED
    BY <1>2, <2>2, <2>3
<1>5. s2 \in Seq(Nat) /\ Len(s2) = L - i /\ \A j \in 1..(L - i) : s2[j] = list[i + j]
  <2>1. \A j \in (i + 1)..L : list[j] \in Nat
    BY <1>2, <1>3
  <2>2. /\ s2 \in Seq(Nat) /\ Len(s2) = (IF i + 1 <= L THEN L - (i + 1) + 1 ELSE 0)
        /\ \A j \in 1..(L - (i + 1) + 1) : s2[j] = list[(i + 1) + j - 1]
    <3>1. i + 1 \in Int /\ L \in Int
      BY <1>2
    <3> QED
      BY <1>1, <2>1, <3>1, SubSeqProperties
  <2>3. L - (i + 1) + 1 = L - i /\ \A j \in 1..(L - i) : (i + 1) + j - 1 = i + j
    BY <1>2
  <2>4. Len(s2) = L - i
    BY <1>2, <2>2, <2>3
  <2> QED
    BY <2>2, <2>3, <2>4
<1>6. after = s3 \o s2
  OBVIOUS
<1> HIDE DEF s1, s2, after
<1>7. /\ s3 \in Seq(Nat) /\ Len(s3) = i + 1
      /\ \A j \in 1..i : s3[j] = list[j]
      /\ s3[i + 1] = p
  <2>1. <<p>> \in Seq(Nat) /\ Len(<<p>>) = 1 /\ <<p>>[1] = p
    OBVIOUS
  <2>2. /\ s3 \in Seq(Nat) /\ Len(s3) = Len(s1) + Len(<<p>>)
        /\ \A j \in 1..(Len(s1) + Len(<<p>>)) : s3[j] = IF j <= Len(s1) THEN s1[j] ELSE <<p>>[j - Len(s1)]
    BY <1>4, <2>1, ConcatProperties
  <2>3. Len(s3) = i + 1 /\ \A j \in 1..(i + 1) : s3[j] = IF j <= i THEN s1[j] ELSE <<p>>[j - i]
    BY <1>4, <2>1, <2>2
  <2>4. \A j \in 1..i : s3[j] = list[j]
    BY <1>2, <1>4, <2>3
  <2>5. s3[i + 1] = p
    <3>1. i + 1 \in 1..(i + 1) /\ ~(i + 1 <= i) /\ (i + 1) - i = 1
      BY <1>2
    <3> QED
      BY <2>1, <2>3, <3>1
  <2> QED
    BY <2>2, <2>3, <2>4, <2>5
<1> HIDE DEF s3
<1>8. /\ after \in Seq(Nat) /\ Len(after) = L + 1
      /\ \A j \in 1..(L + 1) : after[j] = IF j <= i + 1 THEN s3[j] ELSE s2[j - (i + 1)]
  <2>1. /\ after \in Seq(Nat) /\ Len(after) = Len(s3) + Len(s2)
        /\ \A j \in 1..(Len(s3) + Len(s2)) : after[j] = IF j <= Len(s3) THEN s3[j] ELSE s2[j - Len(s3)]
    <3>1. s3 \in Seq(Nat) /\ s2 \in Seq(Nat)
      BY <1>5, <1>7
    <3>2. /\ s3 \o s2 \in Seq(Nat) /\ Len(s3 \o s2) = Len(s3) + Len(s2)
          /\ \A j \in 1..(Len(s3) + Len(s2)) :
               (s3 \o s2)[j] = IF j <= Len(s3) THEN s3[j] ELSE s2[j - Len(s3)]
      BY <3>1, ConcatProperties, Zenon
    <3> QED
      BY <1>6, <3>2, Zenon
  <2>2. Len(s3) + Len(s2) = L + 1
    BY <1>2, <1>5, <1>7
  <2> QED
    BY <1>7, <2>1, <2>2
<1>9. \A j \in 1..i : after[j] = list[j]
  <2> TAKE j \in 1..i
  <2>1. j \in 1..(L + 1) /\ j <= i + 1
    BY <1>2
  <2> QED
    BY <1>7, <1>8, <2>1
<1>10. after[i + 1] = p
  <2>1. i + 1 \in 1..(L + 1) /\ i + 1 <= i + 1
    BY <1>2
  <2> QED
    BY <1>7, <1>8, <2>1
<1>11. \A j \in (i + 1)..L : after[j + 1] = list[j]
  <2> TAKE j \in (i + 1)..L
  <2>1. /\ j + 1 \in 1..(L + 1) /\ ~(j + 1 <= i + 1)
        /\ (j + 1) - (i + 1) \in 1..(L - i) /\ i + ((j + 1) - (i + 1)) = j
    BY <1>2
  <2>2. after[j + 1] = s2[(j + 1) - (i + 1)]
    BY <1>8, <2>1
  <2> QED
    BY <1>5, <2>1, <2>2
<1>12. Inserted(list, i, p, after)
  BY <1>1, <1>8, <1>9, <1>10, <1>11 DEF Inserted
<1> QED
  BY <1>12, Zenon DEF after, s1, s2, s3

(* The list with the value yielded in it is that of the priorities in use     *)
(* with that value.                                                         *)
LEMMA WalkedInserted ==
  ASSUME NEW max \in Nat, NEW taken \in SUBSET (1..max),
         NEW start \in Nat, start > RulePriorityIncreaseStep,
         NEW list, NEW i, Walked(list, i, start, taken),
         i >= Len(list) \/ list[i + 1] > list[i] + RulePriorityIncreaseStep,
         NEW p, p = list[i] + RulePriorityIncreaseStep,
         NEW after, Inserted(list, i, p, after)
  PROVE  Walked(after, i + 1, start, taken \union {p})
<1> USE DEF RulePriorityIncreaseStep
<1> DEFINE R == Relevant(start, taken)
           limit == start - 5
<1>1. PICK L \in Nat : L = Len(list)
  BY LenProperties DEF Walked
<1>2. i \in Nat /\ 1 <= i /\ i <= L /\ (i < L => list[i + 1] > list[i] + 5)
  BY <1>1 DEF Walked
<1>3. \A j \in 1..L : list[j] \in R /\ list[j] \in Nat
  BY <1>1, ElementOfSeq DEF Walked
<1>4. \A j, k \in 1..L : j <= k => list[j] <= list[k]
  BY <1>1 DEF Walked
<1>5. \A x \in R : \E j \in 1..L : list[j] = x
  BY <1>1 DEF Walked
<1>6. \A j \in 1..(i - 1) : list[j + 1] <= list[j] + 5
  BY DEF Walked
<1>7. limit \in Nat /\ \A x \in R : x >= limit
  BY RelevantBounds
<1>8. list[i] \in Nat /\ p = list[i] + 5 /\ p \in Nat /\ p >= limit
  BY <1>2, <1>3, <1>7
<1>9. Relevant(start, taken \union {p}) = R \union {p}
  BY <1>8 DEF Relevant
<1>10. Len(after) = L + 1
  BY <1>1 DEF Inserted
<1>11. \A j \in 1..i : after[j] = list[j]
  BY DEF Inserted
<1>12. after[i + 1] = p
  BY DEF Inserted
<1>13. \A j \in (i + 1)..L : after[j + 1] = list[j]
  BY <1>1 DEF Inserted
<1>14. after \in Seq(Nat)
  BY DEF Inserted
<1> HIDE DEF R, limit
<1>15. \A j \in 1..i : j \in 1..L /\ list[j] \in Nat /\ list[j] < p
  <2> TAKE j \in 1..i
  <2>1. j \in 1..L /\ i \in 1..L /\ j <= i
    BY <1>2
  <2>2. list[j] <= list[i] /\ list[j] \in Nat
    BY <1>3, <1>4, <2>1
  <2> QED
    BY <1>8, <2>1, <2>2
<1>16. \A j \in (i + 1)..L : j \in 1..L /\ list[j] \in Nat /\ p < list[j]
  <2> TAKE j \in (i + 1)..L
  <2>1. j \in 1..L /\ i + 1 \in 1..L /\ i + 1 <= j /\ i < L
    BY <1>1, <1>2
  <2>2. list[i + 1] <= list[j] /\ list[j] \in Nat /\ list[i + 1] \in Nat /\ list[i + 1] > list[i] + 5
    BY <1>2, <1>3, <1>4, <2>1
  <2> QED
    BY <1>8, <2>1, <2>2
(* An element of the new list is one of the old list or p.                   *)
<1>17. \A k \in 1..(L + 1) : k \in 1..i \/ k = i + 1 \/ k - 1 \in (i + 1)..L
  BY <1>1, <1>2
<1>18. \A k \in 1..(L + 1) : k - 1 \in (i + 1)..L => after[k] = list[k - 1]
  <2> TAKE k \in 1..(L + 1)
  <2> HAVE k - 1 \in (i + 1)..L
  <2>1. (k - 1) + 1 = k
    OBVIOUS
  <2> QED
    BY <1>13, <2>1
<1>19. ASSUME NEW j \in 1..(L + 1), NEW k \in 1..(L + 1), j <= k PROVE after[j] <= after[k]
  <2>1. CASE k \in 1..i
    <3>1. j \in 1..i
      BY <1>2, <1>19, <2>1
    <3>2. list[j] <= list[k]
      BY <1>4, <1>15, <1>19, <2>1, <3>1
    <3> QED
      BY <1>11, <2>1, <3>1, <3>2
  <2>2. CASE k = i + 1
    <3>1. after[k] = p /\ p \in Nat /\ (j \in 1..i \/ j = k)
      BY <1>2, <1>8, <1>12, <1>19, <2>2
    <3>2. j \in 1..i => after[j] = list[j] /\ list[j] \in Nat /\ list[j] < p
      BY <1>11, <1>15
    <3> QED
      BY <3>1, <3>2
  <2>3. CASE k - 1 \in (i + 1)..L
    <3>1. after[k] = list[k - 1] /\ k - 1 \in 1..L /\ p < list[k - 1] /\ list[k - 1] \in Nat
      BY <1>16, <1>18, <2>3
    <3>2. CASE j \in 1..i
      <4>1. after[j] = list[j] /\ list[j] \in Nat /\ list[j] < p
        BY <1>11, <1>15, <3>2
      <4> QED
        BY <1>8, <3>1, <4>1
    <3>3. CASE j = i + 1
      <4>1. after[j] = p /\ p \in Nat
        BY <1>8, <1>12, <3>3
      <4> QED
        BY <3>1, <4>1
    <3>4. CASE j - 1 \in (i + 1)..L
      <4>1. after[j] = list[j - 1] /\ j - 1 \in 1..L /\ j - 1 <= k - 1
        <5>1. after[j] = list[j - 1] /\ j - 1 \in 1..L
          BY <1>16, <1>18, <3>4
        <5>2. j - 1 <= k - 1
          BY <1>19
        <5> QED
          BY <5>1, <5>2
      <4>2. list[j - 1] <= list[k - 1]
        BY <1>4, <3>1, <4>1
      <4> QED
        BY <3>1, <4>1, <4>2
    <3> QED
      BY <1>17, <3>2, <3>3, <3>4
  <2> QED
    BY <1>17, <2>1, <2>2, <2>3
<1>20. ASSUME NEW k \in 1..(L + 1) PROVE after[k] \in R \union {p}
  <2>1. k \in 1..i => after[k] \in R
    BY <1>3, <1>11, <1>15
  <2>2. k - 1 \in (i + 1)..L => after[k] \in R
    BY <1>3, <1>16, <1>18
  <2> QED
    BY <1>12, <1>17, <2>1, <2>2
<1>21. ASSUME NEW x \in R \union {p} PROVE \E k \in 1..(L + 1) : after[k] = x
  <2>1. CASE x = p
    <3>1. i + 1 \in 1..(L + 1)
      BY <1>1, <1>2
    <3> QED
      BY <1>12, <2>1, <3>1
  <2>2. CASE x \in R
    <3>1. PICK j \in 1..L : list[j] = x
      BY <1>5, <2>2
    <3>2. j \in 1..i \/ j \in (i + 1)..L
      BY <1>1, <1>2
    <3>3. j \in 1..(L + 1) /\ j + 1 \in 1..(L + 1)
      BY <1>1
    <3> QED
      BY <1>11, <1>13, <3>1, <3>2, <3>3
  <2> QED
    BY <2>1, <2>2
<1>22. ASSUME NEW j \in 1..((i + 1) - 1) PROVE after[j + 1] <= after[j] + 5
  <2>1. j \in 1..i /\ i \in 1..i
    BY <1>2
  <2>2. CASE j = i
    <3>1. after[j] = list[i] /\ after[j + 1] = p
      BY <1>11, <1>12, <2>1, <2>2
    <3> QED
      BY <1>8, <3>1
  <2>3. CASE j # i
    <3>1. j \in 1..(i - 1) /\ j + 1 \in 1..i
      BY <1>2, <2>1, <2>3
    <3> QED
      BY <1>6, <1>11, <2>1, <3>1
  <2> QED
    BY <2>2, <2>3
<1>23. i + 1 \in 1..(L + 1)
  BY <1>1, <1>2
<1> QED
  BY <1>9, <1>10, <1>19, <1>20, <1>21, <1>22, <1>23, <1>14 DEF Walked

(* Where no gap follows, nothing is yielded and the walk goes on.            *)
LEMMA WalkedOn ==
  ASSUME NEW start, NEW taken, NEW list, NEW i, Walked(list, i, start, taken),
         i < Len(list), ~(list[i + 1] > list[i] + RulePriorityIncreaseStep)
  PROVE  Walked(list, i + 1, start, taken)
<1> USE DEF RulePriorityIncreaseStep
<1>1. PICK L \in Nat : L = Len(list)
  BY LenProperties DEF Walked
<1>2. i \in Nat /\ 1 <= i /\ i < L
  BY <1>1 DEF Walked
<1>3. i + 1 \in 1..Len(list)
  BY <1>1, <1>2
<1>4. list[i] \in Nat /\ list[i + 1] \in Nat
  BY <1>1, <1>2, <1>3, ElementOfSeq DEF Walked
<1>5. list[i + 1] <= list[i] + 5
  BY <1>4
<1>6. ASSUME NEW j \in 1..((i + 1) - 1) PROVE list[j + 1] <= list[j] + 5
  <2>1. j = i \/ j \in 1..(i - 1)
    BY <1>2
  <2> QED
    BY <1>5, <2>1 DEF Walked
<1> QED
  BY <1>3, <1>6 DEF Walked

(* What holds when the cursor of a walk for n values reaches i: the values    *)
(* yielded are the first of the function f, and while more are wanted, the    *)
(* list has grown by them and the cursor is still inside it.                 *)
Yielded(g) == {g.out[j] : j \in 1..Len(g.out)}
Reached(g, i, f, start, taken, length, n) ==
  /\ g.out \in Seq(Nat)
  /\ Len(g.out) <= n
  /\ g.out = f[Len(g.out)]
  /\ Len(g.out) < n =>
       /\ Len(g.list) = length + Len(g.out)
       /\ Walked(g.list, i, start, taken \union Yielded(g))
       /\ \E max \in Nat : taken \union Yielded(g) \in SUBSET (1..max)

LEMMA IterationReaches ==
  ASSUME NEW taken, NEW start \in Nat, start > RulePriorityIncreaseStep,
         NEW n \in Nat, NEW length \in Nat, NEW f, Prefixes(f, start, taken, n),
         NEW g, NEW i \in Nat, Reached(g, i, f, start, taken, length, n)
  PROVE  Reached(Iteration(g, i, n), i + 1, f, start, taken, length, n)
<1> DEFINE p == g.list[i] + RulePriorityIncreaseStep
           after == SubSeq(g.list, 1, i) \o <<p>> \o SubSeq(g.list, i + 1, Len(g.list))
           h == [list |-> after, out |-> Append(g.out, p)]
           used == taken \union Yielded(g)
<1>1. PICK k \in Nat : k = Len(g.out)
  BY LenProperties DEF Reached
<1>2. CASE k = n
  <2>1. ~(Len(g.out) < n)
    BY <1>1, <1>2
  <2>2. Iteration(g, i, n) = g
    BY <2>1, Zenon DEF Iteration
  <2> QED
    BY <2>1, <2>2, Zenon DEF Reached
<1>3. CASE k < n
  <2>1. /\ Len(g.list) = length + k
        /\ Walked(g.list, i, start, used)
    BY <1>1, <1>3 DEF Reached
  <2>2. PICK max \in Nat : used \in SUBSET (1..max)
    BY <1>1, <1>3 DEF Reached
  <2>3. CASE i < Len(g.list) /\ ~(g.list[i + 1] > p)
    <3>1. Iteration(g, i, n) = g
      BY <2>1, <2>3 DEF Iteration
    <3>2. Walked(g.list, i + 1, start, used)
      BY <2>1, <2>3, WalkedOn
    <3> QED
      BY <3>1, <3>2 DEF Reached
  <2>4. CASE i >= Len(g.list) \/ g.list[i + 1] > p
    <3>1. Iteration(g, i, n) = h
      BY <1>1, <1>3, <2>4 DEF Iteration
    <3>2. p = NextPriority(start, used)
      <4>1. Walked(g.list, i, start, used)
        BY <2>1, Zenon
      <4> HIDE DEF used
      <4> QED
        BY <2>2, <2>4, <4>1, GapYields
    <3>3. g.list \in Seq(Nat) /\ i \in 1..Len(g.list) /\ g.list[i] \in Nat
      BY <2>1, ElementOfSeq DEF Walked
    <3>4. p \in Nat /\ p >= 1
      BY <3>3, SMTT(30) DEF RulePriorityIncreaseStep
    <3> HIDE DEF p
    <3>5. Inserted(g.list, i, p, after)
      BY <3>3, <3>4, InsertedElements
    <3>6. Walked(after, i + 1, start, used \union {p})
      BY <2>1, <2>2, <2>4, <3>5, WalkedInserted DEF p
    <3>7. Len(after) = length + (k + 1)
      BY <2>1, <3>5 DEF Inserted
    <3>8. g.out \in Seq(Nat) /\ g.out = f[k]
      BY <1>1 DEF Reached
    <3>9. /\ Append(g.out, p) \in Seq(Nat)
          /\ Len(Append(g.out, p)) = k + 1
          /\ \A j \in 1..k : Append(g.out, p)[j] = g.out[j]
          /\ Append(g.out, p)[k + 1] = p
      BY <1>1, <3>4, <3>8
    <3> HIDE DEF after
    <3>10. h.list = after /\ h.out = Append(g.out, p) /\ Len(h.out) = k + 1
      BY <3>9
    <3>11. Yielded(h) = Yielded(g) \union {p}
      <4>1. Yielded(h) = {Append(g.out, p)[j] : j \in 1..(k + 1)}
        BY <3>10 DEF Yielded
      <4>2. Yielded(g) = {g.out[j] : j \in 1..k}
        BY <1>1 DEF Yielded
      <4>3. 1..(k + 1) = 1..k \union {k + 1}
        OBVIOUS
      <4>4. {Append(g.out, p)[j] : j \in 1..(k + 1)} = {g.out[j] : j \in 1..k} \union {p}
        BY <3>9, <4>3, Zenon
      <4> QED
        BY <4>1, <4>2, <4>4, Zenon
    <3>12. f[k + 1] = Append(g.out, p)
      <4>1. Yielded(g) = {f[k][j] : j \in 1..k}
        BY <1>1, <3>8 DEF Yielded
      <4>2. k \in 0..(n - 1)
        BY <1>3
      <4>3. f[k + 1] = Append(f[k], NextPriority(start, taken \union {f[k][j] : j \in 1..k}))
        BY <4>2, Zenon DEF Prefixes
      <4> QED
        BY <3>2, <3>8, <4>1, <4>3, Zenon
    <3>13. taken \union Yielded(h) = used \union {p}
      BY <3>11
    <3>14. \E m \in Nat : taken \union Yielded(h) \in SUBSET (1..m)
      <4>1. max + p \in Nat /\ used \union {p} \in SUBSET (1..(max + p))
        BY <2>2, <3>4
      <4> QED
        BY <3>13, <4>1
    <3> HIDE DEF h, used
    <3>15. Reached(h, i + 1, f, start, taken, length, n)
      <4>1. h.out \in Seq(Nat) /\ Len(h.out) <= n /\ h.out = f[Len(h.out)]
        BY <1>3, <3>9, <3>10, <3>12
      <4>2. Len(h.list) = length + Len(h.out)
        BY <3>7, <3>10
      <4>3. Walked(h.list, i + 1, start, taken \union Yielded(h))
        BY <3>6, <3>10, <3>13
      <4> QED
        BY <3>14, <4>1, <4>2, <4>3 DEF Reached
    <3> QED
      BY <3>1, <3>15
  <2>5. Len(g.list) \in Nat
    BY <2>1
  <2> QED
    BY <2>3, <2>4, <2>5
<1>4. k <= n
  BY <1>1 DEF Reached
<1> QED
  BY <1>2, <1>3, <1>4

(* The loop of _rule_priority_generator, run on what it has sorted, yields    *)
(* the least free priorities one after the other: for any priorities in use,  *)
(* any start, any number of values, and with duplicates in the list, as when  *)
(* a rule has the priority the search starts below.                          *)
THEOREM GeneratorYieldsNextPriorities ==
  ASSUME NEW max \in Nat, NEW taken \in SUBSET (1..max),
         NEW start \in Nat, start > RulePriorityIncreaseStep, NEW n \in Nat,
         NEW sorted \in Seq(Nat),
         \A j, k \in 1..Len(sorted) : j <= k => sorted[j] <= sorted[k],
         {sorted[j] : j \in 1..Len(sorted)} = Relevant(start, taken)
  PROVE  Generated(sorted, n) = NextPriorities(start, taken, n)
<1> DEFINE L == Len(sorted)
           last == L + n + 1
<1>1. L \in Nat
  BY LenProperties
<1>2. PICK gen : /\ gen[1] = [list |-> sorted, out |-> <<>>]
                 /\ \A i \in 1..(L + n) : gen[i + 1] = Iteration(gen[i], i, n)
                 /\ Generated(sorted, n) = gen[last].out
  BY <1>1, GenDefined
<1>3. PICK f : Prefixes(f, start, taken, n) /\ NextPriorities(start, taken, n) = f[n]
  BY YieldsDefined, Zenon
<1> DEFINE At(i) == Reached(gen[i], i, f, start, taken, L, n)
<1>4. At(1)
  <2>1. 1 \in 1..L
    <3>1. PICK j \in 1..L : sorted[j] = start - RulePriorityIncreaseStep
      <4>1. start - RulePriorityIncreaseStep \in Relevant(start, taken)
        BY RelevantBounds
      <4> QED
        BY <4>1
    <3> QED
      BY <1>1, <3>1
  <2>2. Walked(sorted, 1, start, taken)
    <3>1. \A j \in 1..(1 - 1) : FALSE
      OBVIOUS
    <3> QED
      BY <2>1, <3>1 DEF Walked
  <2>3. gen[1].list = sorted /\ gen[1].out = <<>>
    BY <1>2
  <2>4. <<>> \in Seq(Nat) /\ Len(<<>>) = 0
    OBVIOUS
  <2>5. taken \union Yielded(gen[1]) = taken
    BY <2>3, <2>4 DEF Yielded
  <2>6. gen[1].out = f[Len(gen[1].out)] /\ Len(gen[1].out) = 0 /\ gen[1].out \in Seq(Nat)
    BY <1>3, <2>3, <2>4 DEF Prefixes
  <2>7. Len(gen[1].list) = L + Len(gen[1].out)
    BY <1>1, <2>3, <2>6
  <2>8. Walked(gen[1].list, 1, start, taken \union Yielded(gen[1]))
    BY <2>2, <2>3, <2>5
  <2>9. \E m \in Nat : taken \union Yielded(gen[1]) \in SUBSET (1..m)
    BY <2>5
  <2>10. Len(gen[1].out) <= n
    BY <2>6
  <2> QED
    BY <2>6, <2>7, <2>8, <2>9, <2>10, Zenon DEF Reached
<1>5. ASSUME NEW i \in 1..(L + n), At(i) PROVE At(i + 1)
  <2>1. Reached(Iteration(gen[i], i, n), i + 1, f, start, taken, L, n)
    <3>1. i \in Nat
      BY <1>1
    <3> QED
      BY <1>1, <1>3, <1>5, <3>1, IterationReaches, Zenon
  <2>2. gen[i + 1] = Iteration(gen[i], i, n)
    BY <1>2
  <2> QED
    BY <2>1, <2>2
<1> HIDE DEF At, L
<1>6. At(last)
  <2> DEFINE Bad == {i \in Nat : i \in 1..last /\ ~At(i)}
  <2>1. Bad = {}
    <3> SUFFICES ASSUME Bad # {} PROVE FALSE
      OBVIOUS
    <3>1. PICK i \in Bad : \A j \in Bad : i <= j
      BY LeastElement
    <3>2. i # 1 /\ i \in 1..last
      BY <1>4
    <3>3. i - 1 \in 1..(L + n) /\ i - 1 \in 1..last /\ ~(i <= i - 1) /\ i - 1 \in Nat /\ (i - 1) + 1 = i
      BY <1>1, <3>2
    <3>4. At(i - 1)
      BY <3>1, <3>3
    <3>5. At(i)
      BY <1>5, <3>3, <3>4
    <3> QED
      BY <3>1, <3>5
  <2>2. last \in Nat /\ last \in 1..last
    BY <1>1
  <2> QED
    BY <2>1, <2>2
<1>7. PICK k \in Nat : k = Len(gen[last].out)
  BY <1>6, LenProperties DEF At, Reached
<1>8. k = n
  <2> SUFFICES ASSUME k < n PROVE FALSE
    BY <1>6, <1>7 DEF At, Reached
  <2>1. Len(gen[last].list) = L + k /\ last \in 1..Len(gen[last].list)
    BY <1>6, <1>7 DEF At, Reached, Walked
  <2> QED
    BY <1>1, <2>1
<1>9. gen[last].out = f[n]
  BY <1>6, <1>7, <1>8 DEF At, Reached
<1> QED
  BY <1>2, <1>3, <1>9

(* With at most k priorities in use between the start and k steps above it,   *)
(* one of the k + 1 steps is free: the generator yields none above them.      *)
THEOREM NextPriorityBounded ==
  ASSUME NEW max \in Nat, NEW taken \in SUBSET (1..max), NEW k \in Nat,
         NEW start \in Nat, start > RulePriorityIncreaseStep,
         Cardinality({p \in taken : /\ start - RulePriorityIncreaseStep < p
                                   /\ p <= start + RulePriorityIncreaseStep * k}) <= k
  PROVE  NextPriority(start, taken) <= start + RulePriorityIncreaseStep * k
<1> USE DEF RulePriorityIncreaseStep
<1> DEFINE limit == start - 5
           T == {p \in taken : limit < p /\ p <= start + 5 * k}
           Step(i) == {z \in Nat : limit + 5 * i < z /\ z <= limit + 5 * i + 5}
<1>1. limit \in Nat /\ T \in SUBSET Nat /\ IsFiniteSet(T) /\ Cardinality(T) <= k
  <2>1. IsFiniteSet(1..max)
    BY FS_Interval
  <2>2. T \subseteq 1..max
    OBVIOUS
  <2>3. IsFiniteSet(T)
    BY <2>1, <2>2, FS_Subset, Zenon
  <2>4. limit \in Nat
    OBVIOUS
  <2>5. \A z \in T : z \in Nat
    OBVIOUS
  <2> QED
    BY <2>3, <2>4, <2>5
<1>2. PICK i \in 0..k : T \intersect Step(i) = {}
  <2> SUFFICES ASSUME \A i \in 0..k : T \intersect Step(i) # {}
               PROVE  FALSE
    OBVIOUS
  <2> DEFINE f == [i \in 0..k |-> CHOOSE z \in T : z \in Step(i)]
  <2>1. \A i \in 0..k : f[i] \in T /\ f[i] \in Step(i)
    OBVIOUS
  <2>2. \A i, j \in 0..k : i < j => Step(i) \intersect Step(j) = {}
    BY <1>1
  <2>3. \A i, j \in 0..k : f[i] = f[j] => i = j
    <3> TAKE i, j \in 0..k
    <3>1. i < j \/ j < i \/ i = j
      OBVIOUS
    <3> HIDE DEF f, Step, T
    <3> QED
      BY <2>1, <2>2, <3>1
  <2>4. f \in Injection(0..k, T)
    <3>1. f \in [0..k -> T]
      BY <2>1
    <3> QED
      BY <2>3, <3>1 DEF Injection, IsInjective
  <2>5. Cardinality(0..k) = k + 1 /\ IsFiniteSet(0..k)
    BY FS_Interval
  <2>6. Cardinality(0..k) <= Cardinality(T)
    BY <1>1, <2>4, FS_Injection
  <2> QED
    BY <1>1, <2>5, <2>6, FS_CardinalityType
<1> DEFINE B == {x \in Relevant(start, taken) : x <= limit + 5 * i}
<1>3. B \in SUBSET Nat /\ limit \in B /\ limit + 5 * i \in Nat /\ \A x \in B : x >= limit
  <2>1. Relevant(start, taken) \in SUBSET Nat /\ limit \in Relevant(start, taken)
    BY RelevantBounds
  <2>2. \A x \in Relevant(start, taken) : x >= limit
    BY RelevantBounds
  <2>3. limit <= limit + 5 * i /\ limit + 5 * i \in Nat
    BY <1>1
  <2> HIDE DEF limit
  <2> QED
    BY <2>1, <2>2, <2>3
<1>4. PICK y \in B : \A x \in B : x <= y
  <2> DEFINE bound == limit + 5 * i
  <2>1. \A x \in B : x <= bound
    OBVIOUS
  <2> HIDE DEF B, limit, bound
  <2>2. bound \in Nat
    BY <1>3 DEF bound
  <2> QED
    BY <1>3, <2>1, <2>2, GreatestElement
<1>5. ASSUME NEW z \in taken, y < z, z <= y + 5
      PROVE  FALSE
  <2>1. z \in Nat /\ y \in Nat /\ limit <= y /\ y <= limit + 5 * i
    BY <1>3
  <2>2. z > limit + 5 * i
    <3>1. z \in Relevant(start, taken)
      BY <1>1, <1>5, <2>1 DEF Relevant
    <3>2. z \notin B
      BY <1>4, <1>5, <2>1
    <3> QED
      BY <1>1, <2>1, <3>1, <3>2
  <2>3. z \in T /\ z \in Step(i)
    BY <1>1, <1>5, <2>1, <2>2
  <2> QED
    BY <1>2, <2>3
<1>6. y + 5 \in Gaps(start, taken)
  BY <1>5 DEF Gaps
<1>7. y + 5 <= start + 5 * k
  BY <1>1, <1>3
<1>8. NextPriority(start, taken) <= y + 5 /\ NextPriority(start, taken) \in Nat /\ y \in Nat
  BY <1>3, <1>6, NextPriorityLeast
<1> QED
  BY <1>7, <1>8
-----------------------------------------------------------------------------
(* Callers that start their rules at one priority pass one lock: in the code, *)
(* deployments from 1000, and the preparation, under subnet_locker, from 2000 *)
(* up, in the group of a sandbox; and all of them in a machine's own group.   *)
Banded == \A i, j \in Jobs : i.start = j.start => i.lock = j.lock

(* Every caller of the group passes one lock, as the lock provider gives it. *)
OneLock == \A i, j \in Jobs : i.lock = j.lock

(* The rules a batch knows from its start up to where the callers of another *)
(* lock start are fewer than a fifth of the priorities there.               *)
HasRoom ==
  \A t \in Thread : Putting(t) =>
    \A j \in Jobs : j.lock # job[t].lock /\ job[t].start < j.start =>
      LET low == job[t].start
          inBand == {p \in known[t] : low - RulePriorityIncreaseStep < p /\ p < j.start}
      IN low + RulePriorityIncreaseStep * Cardinality(inBand) < j.start

InBatch(t) == pc[t] \in {"clear", "list", "put"}
LockInv == \A t \in Thread : InBatch(t) => holder[job[t].lock] = t
KnownInv ==
  \A t \in Thread : pc[t] = "put" =>
    \A p \in Priorities(rules) : p \in Band(job[t].lock) => p \in known[t]

IInv == TypeOK /\ LockInv /\ KnownInv

LEMMA Lengths ==
  ASSUME TypeOK, NEW t \in Thread
  PROVE  /\ Len(job[t].names) \in Nat /\ job[t] \in Jobs
         /\ first[t] \in Nat \ {0} /\ next[t] \in Nat \ {0}
BY JobsAssumption DEF TypeOK, Batch

LEMMA PuttingIndex ==
  ASSUME TypeOK, NEW t \in Thread, Putting(t)
  PROVE  /\ pc[t] = "put" /\ next[t] \in 1..Len(job[t].names)
         /\ next[t] <= Len(job[t].names)
<1>1. ~(next[t] > Len(job[t].names))
  BY DEF Putting, Over, AllPut
<1>2. Len(job[t].names) \in Nat /\ next[t] \in Nat \ {0}
  BY Lengths
<1>3. pc[t] = "put"
  BY DEF Putting
<1> QED
  BY <1>1, <1>2, <1>3

(* The rule a batch is about to create is well formed, and new to it.        *)
LEMMA NextRuleFresh ==
  ASSUME TypeOK, NEW t \in Thread, Putting(t)
  PROVE  /\ NextRule(t).name \in Name \union {NONE}
         /\ NextRule(t).priority \in Nat \ {0}
         /\ NextRule(t).priority \notin known[t]
<1>1. job[t] \in Batch /\ job[t].start > RulePriorityIncreaseStep
  BY JobsAssumption DEF TypeOK
<1>2. /\ NextPriority(job[t].start, known[t]) \in Nat
      /\ NextPriority(job[t].start, known[t]) >= job[t].start
      /\ NextPriority(job[t].start, known[t]) \notin known[t]
  <2>1. known[t] \in SUBSET (1..MaxPriority) /\ MaxPriority \in Nat /\ job[t].start \in Nat
    BY <1>1, RulesAssumption DEF TypeOK, Batch
  <2> QED
    BY <1>1, <2>1, NextPriorityFresh
<1>3. job[t].names[next[t]] \in Name \union {NONE}
  <2>1. job[t].names \in Seq(Name \union {NONE}) /\ next[t] \in 1..Len(job[t].names)
    BY <1>1, PuttingIndex DEF Batch
  <2> QED
    BY <2>1
<1> QED
  BY <1>1, <1>2, <1>3 DEF NextRule, RulePriorityIncreaseStep, Batch

LEMMA NextRuleTyped ==
  ASSUME TypeOK, NEW t \in Thread, Putting(t), ~Refused(NextRule(t))
  PROVE  NextRule(t) \in Rule
<1>1. NextRule(t).priority \in 1..MaxPriority
  BY NextRuleFresh, RulesAssumption DEF Refused
<1> QED
  BY <1>1, NextRuleFresh DEF NextRule, Rule

(* What ending a batch does to the lock and to the generator.               *)
LEMMA UnlockTyped ==
  ASSUME TypeOK, NEW t \in Thread, Unlock(t)
  PROVE  holder' \in [Lock -> Thread \union {NONE}]
BY DEF TypeOK, Unlock

LEMMA DropTyped ==
  ASSUME TypeOK, NEW t \in Thread, DropGenerator(t)
  PROVE  /\ known' \in [Thread -> SUBSET (1..MaxPriority)]
         /\ next' \in [Thread -> Nat \ {0}]
<1>1. known' \in [Thread -> SUBSET (1..MaxPriority)]
  BY DEF TypeOK, DropGenerator
<1>2. next' \in [Thread -> Nat \ {0}]
  <2>1. first[t] \in Nat \ {0}
    BY DEF TypeOK
  <2> QED
    BY <2>1 DEF TypeOK, DropGenerator
<1> QED
  BY <1>1, <1>2

(* Where a command goes on when a batch is over.                            *)
LEMMA BatchTarget ==
  ASSUME NEW t \in Thread, BatchDone(t)
  PROVE  /\ \E l \in {"done", "idle", "failed"} : pc' = [pc EXCEPT ![t] = l] /\ (l = "done" => AllPut(t))
         /\ pc[t] = "put" /\ Unlock(t)
         /\ first' = [first EXCEPT ![t] = next[t]] /\ known' = [known EXCEPT ![t] = {}]
         /\ UNCHANGED <<rules, job, listed, sole, next, faults>>
<1>1. CASE AllPut(t)
  BY <1>1 DEF BatchDone, Goto
<1>2. CASE ~AllPut(t)
  <2>1. PICK l \in {"idle", "failed"} : pc' = [pc EXCEPT ![t] = l]
    BY <1>2 DEF BatchDone, ForNic, Goto
  <2> QED
    BY <2>1 DEF BatchDone
<1> QED
  BY <1>1, <1>2

(* Where a command goes on when a call fails.                               *)
LEMMA RetryTarget ==
  ASSUME NEW t \in Thread, CallFails(t)
  PROVE  \E l \in {"find", "idle", "failed"} : pc' = [pc EXCEPT ![t] = l]
<1>1. pc[t] \in {"find", "clear", "nics", "list", "put"}
  BY DEF CallFails, RetryFrom
<1>2. RetryFrom[pc[t]] \in {"find", "idle", "failed"}
  BY <1>1 DEF RetryFrom
<1> QED
  BY <1>2 DEF CallFails, Goto

LEMMA TypeStep ==
  ASSUME TypeOK, [Next]_vars
  PROVE  TypeOK'
<1> USE CallersAssumption DEF TypeOK
<1>1. ASSUME NEW t \in Thread, Acquire(t) \/ AcquireClear(t)
      PROVE  TypeOK'
  BY <1>1 DEF Acquire, AcquireClear, Goto
<1>2. ASSUME NEW t \in Thread, ListRules(t)
      PROVE  TypeOK'
  <2>1. Priorities(rules) \subseteq 1..MaxPriority
    BY DEF Priorities, Rule
  <2> QED
    BY <1>2, <2>1 DEF ListRules, Goto
<1>3. ASSUME NEW t \in Thread, CreateRule(t)
      PROVE  TypeOK'
  <2>1. NextRule(t) \in Rule
    BY <1>3, NextRuleTyped DEF CreateRule
  <2>2. NextRule(t).priority \in 1..MaxPriority
    BY <2>1 DEF Rule
  <2>3. rules' \subseteq Rule
    BY <1>3, <2>1 DEF CreateRule, Put
  <2> QED
    BY <1>3, <2>2, <2>3 DEF CreateRule
<1>4. ASSUME NEW t \in Thread, RuleRefused(t) \/ BatchDone(t)
      PROVE  TypeOK'
  <2>1. CASE RuleRefused(t)
    <3>1. Unlock(t) /\ DropGenerator(t)
      BY <2>1 DEF RuleRefused
    <3> QED
      BY <2>1, <3>1, UnlockTyped, DropTyped DEF RuleRefused, Goto
  <2>2. CASE BatchDone(t)
    <3>1. PICK l \in {"done", "idle", "failed"} : pc' = [pc EXCEPT ![t] = l]
      BY <2>2, BatchTarget
    <3>2. holder' \in [Lock -> Thread \union {NONE}]
      BY <2>2, BatchTarget, UnlockTyped
    <3>3. next[t] \in Nat \ {0} /\ first' = [first EXCEPT ![t] = next[t]] /\ known' = [known EXCEPT ![t] = {}]
      BY <2>2, BatchTarget
    <3>4. UNCHANGED <<rules, job, listed, sole, next, faults>>
      BY <2>2, BatchTarget
    <3> QED
      BY <3>1, <3>2, <3>3, <3>4
  <2> QED
    BY <1>4, <2>1, <2>2
<1>5. ASSUME NEW t \in Thread, CallFails(t)
      PROVE  TypeOK'
  <2>1. rules' \subseteq Rule
    BY <1>5, NextRuleTyped DEF CallFails, Put, Without
  <2>2. Unlock(t) /\ DropGenerator(t)
    BY <1>5 DEF CallFails
  <2>3. \E l \in {"find", "idle", "failed"} : pc' = [pc EXCEPT ![t] = l]
    BY <1>5, RetryTarget
  <2> QED
    BY <1>5, <2>1, <2>2, <2>3, UnlockTyped, DropTyped DEF CallFails, Fault
<1>6. CASE DeleteRule
  BY <1>6 DEF DeleteRule
<1>7. ASSUME NEW t \in Thread, FindCustom(t)
      PROVE  TypeOK'
  BY <1>7 DEF FindCustom, Goto
<1>8. ASSUME NEW t \in Thread, DeleteCustom(t)
      PROVE  TypeOK'
  BY <1>8 DEF DeleteCustom, Without
<1>9. ASSUME NEW t \in Thread, ClearDone(t) \/ FindNic(t)
      PROVE  TypeOK'
  BY <1>9 DEF ClearDone, FindNic, ForNic, Unlock, Goto
<1>10. CASE UNCHANGED vars
  BY <1>10 DEF vars
<1> QED
  BY <1>1, <1>2, <1>3, <1>4, <1>5, <1>6, <1>7, <1>8, <1>9, <1>10
  DEF Next, CreateRules, SetCustomRules
-----------------------------------------------------------------------------
(* Bands of different locks have no priority in common.                     *)
LEMMA BandsApart ==
  ASSUME Banded, NEW l, NEW m, l # m, NEW p \in Band(l)
  PROVE  p \notin Band(m)
<1> SUFFICES ASSUME p \in Band(m) PROVE FALSE
  OBVIOUS
<1>1. PICK j \in Jobs : /\ j.lock = l /\ j.start <= p
                       /\ \A i \in Jobs : i.lock # l => ~(j.start < i.start /\ i.start <= p)
  BY DEF Band
<1>2. PICK k \in Jobs : /\ k.lock = m /\ k.start <= p
                       /\ \A i \in Jobs : i.lock # m => ~(k.start < i.start /\ i.start <= p)
  BY DEF Band
<1>3. j.start \in Nat /\ k.start \in Nat /\ j.start # k.start
  BY <1>1, <1>2, JobsAssumption DEF Batch, Banded
<1>4. ~(j.start < k.start) /\ ~(k.start < j.start)
  BY <1>1, <1>2
<1> QED
  BY <1>3, <1>4

(* Only one thread at a time is inside a lock.                               *)
LEMMA OneInBatch ==
  ASSUME LockInv, NEW t \in Thread, NEW u \in Thread, InBatch(t), InBatch(u), job[t].lock = job[u].lock
  PROVE  t = u
BY DEF LockInv

LEMMA LockStep ==
  ASSUME TypeOK, LockInv, [Next]_vars
  PROVE  LockInv'
<1> USE CallersAssumption DEF TypeOK, LockInv, InBatch
<1>1. ASSUME NEW t \in Thread, Acquire(t) \/ AcquireClear(t)
      PROVE  LockInv'
  <2>1. job[t].lock \in Lock /\ holder[job[t].lock] = NONE
    BY <1>1, JobsAssumption DEF Acquire, AcquireClear, Batch
  <2>2. \A u \in Thread : InBatch(u) => job[u].lock # job[t].lock
    BY <2>1
  <2>3. /\ holder' = [holder EXCEPT ![job[t].lock] = t] /\ job' = job
        /\ \A u \in Thread \ {t} : pc'[u] = pc[u]
    BY <1>1, <2>1 DEF Acquire, AcquireClear, Goto
  <2> QED
    BY <2>1, <2>2, <2>3
<1>2. ASSUME NEW t \in Thread,
             ListRules(t) \/ CreateRule(t) \/ FindCustom(t) \/ DeleteCustom(t) \/ FindNic(t)
      PROVE  LockInv'
  BY <1>2 DEF ListRules, CreateRule, Putting, FindCustom, DeleteCustom, FindNic, ForNic, Goto
<1>3. ASSUME NEW t \in Thread,
             RuleRefused(t) \/ CallFails(t) \/ BatchDone(t) \/ ClearDone(t)
      PROVE  LockInv'
  <2>1. ~InBatch(t)' /\ job' = job /\ \A u \in Thread \ {t} : pc'[u] = pc[u]
    <3>1. CASE BatchDone(t)
      <4>1. PICK l \in {"done", "idle", "failed"} : pc' = [pc EXCEPT ![t] = l]
        BY <3>1, BatchTarget
      <4> QED
        BY <3>1, <4>1, BatchTarget
    <3>2. CASE RuleRefused(t) \/ CallFails(t) \/ ClearDone(t)
      BY <3>2 DEF RuleRefused, CallFails, RetryFrom, ClearDone, Goto
    <3> QED
      BY <1>3, <3>1, <3>2
  <2>2. \A u \in Thread \ {t} : holder[job[u].lock] = u => holder'[job[u].lock] = u
    BY <1>3, JobsAssumption DEF RuleRefused, CallFails, BatchDone, ClearDone, Unlock, Batch
  <2> QED
    BY <2>1, <2>2
<1>4. CASE DeleteRule \/ UNCHANGED vars
  BY <1>4 DEF DeleteRule, vars
<1> QED
  BY <1>1, <1>2, <1>3, <1>4 DEF Next, CreateRules, SetCustomRules

(* Another thread's PUT is not in the band of this one: they would share the *)
(* lock, and only one is inside it.                                         *)
LEMMA OtherPut ==
  ASSUME Banded, LockInv, RulesInBand, NEW t \in Thread, NEW u \in Thread \ {t},
         Putting(t), pc[u] = "put"
  PROVE  NextRule(t).priority \notin Band(job[u].lock)
<1>1. NextRule(t).priority \in Band(job[t].lock)
  BY DEF RulesInBand
<1>2. job[t].lock # job[u].lock
  BY OneInBatch DEF Putting, InBatch
<1> QED
  BY <1>1, <1>2, BandsApart

LEMMA KnownStep ==
  ASSUME Banded, TypeOK, LockInv, KnownInv, RulesInBand, [Next]_vars
  PROVE  KnownInv'
<1>1. job' = job
  BY DEF Next, vars, CreateRules, SetCustomRules, DeleteRule, Acquire, ListRules, CreateRule, RuleRefused,
         CallFails, BatchDone, FindCustom, AcquireClear, DeleteCustom, ClearDone, FindNic
<1>2. SUFFICES ASSUME NEW u \in Thread, pc'[u] = "put", NEW p \in Priorities(rules'), p \in Band(job[u].lock)
               PROVE  p \in known'[u]
  BY <1>1 DEF KnownInv, Band, Priorities
<1> USE DEF TypeOK
<1>3. CASE ListRules(u)
  BY <1>2, <1>3 DEF ListRules
<1>4. CASE ~ListRules(u)
  <2>1. pc[u] = "put" /\ known[u] \subseteq known'[u] /\ \A q \in Priorities(rules) : q \in Band(job[u].lock) => q \in known[u]
    <3>1. ASSUME NEW t \in Thread, CallFails(t)
          PROVE  t # u /\ pc'[u] = pc[u] /\ known'[u] = known[u]
      <4>1. \E l \in {"find", "idle", "failed"} : pc' = [pc EXCEPT ![t] = l]
        BY <3>1, RetryTarget
      <4>2. DropGenerator(t)
        BY <3>1 DEF CallFails
      <4> QED
        BY <1>2, <4>1, <4>2 DEF DropGenerator
    <3>2. ASSUME NEW t \in Thread, BatchDone(t)
          PROVE  t # u /\ pc'[u] = pc[u] /\ known'[u] = known[u]
      <4>1. PICK l \in {"done", "idle", "failed"} : pc' = [pc EXCEPT ![t] = l]
        BY <3>2, BatchTarget
      <4> QED
        BY <1>2, <3>2, <4>1, BatchTarget
    <3>3. pc[u] = "put" /\ known[u] \subseteq known'[u]
      BY <1>2, <1>4, <3>1, <3>2
      DEF Next, vars, CreateRules, SetCustomRules, DeleteRule, Acquire, ListRules, CreateRule, RuleRefused,
          FindCustom, AcquireClear, DeleteCustom, ClearDone, FindNic, ForNic, Goto, DropGenerator
    <3> QED
      BY <3>3 DEF KnownInv
  <2>2. CASE p \in Priorities(rules)
    BY <1>2, <2>1, <2>2
  <2>3. CASE p \notin Priorities(rules)
    <3>1. PICK t \in Thread : Putting(t) /\ rules' = Put(NextRule(t)) /\ (CreateRule(t) \/ CallFails(t))
      BY <1>2, <2>3
      DEF Next, vars, CreateRules, SetCustomRules, DeleteRule, Acquire, ListRules, CreateRule, RuleRefused,
          CallFails, BatchDone, FindCustom, AcquireClear, DeleteCustom, ClearDone, FindNic, Without, Priorities
    <3>2. p = NextRule(t).priority
      BY <1>2, <2>3, <3>1 DEF Put, Priorities
    <3>3. t = u
      BY <1>2, <2>1, <3>1, <3>2, OtherPut
    <3>4. ~CallFails(t)
      <4>1. CallFails(t) => \E l \in {"find", "idle", "failed"} : pc' = [pc EXCEPT ![t] = l]
        BY RetryTarget
      <4> QED
        BY <1>2, <3>3, <4>1
    <3> QED
      BY <3>1, <3>2, <3>3, <3>4 DEF CreateRule
  <2> QED
    BY <2>2, <2>3
<1> QED
  BY <1>3, <1>4

LEMMA Invariance == Banded => (Spec /\ []RulesInBand => []IInv)
<1> SUFFICES ASSUME Banded PROVE Spec /\ []RulesInBand => []IInv
  OBVIOUS
<1>1. Init => IInv
  BY CallersAssumption, RulesAssumption
  DEF Init, IInv, TypeOK, LockInv, InBatch, KnownInv
<1>2. IInv /\ RulesInBand /\ [Next]_vars => IInv'
  BY TypeStep, LockStep, KnownStep DEF IInv
<1> QED
  BY <1>1, <1>2, PTL DEF Spec

LEMMA FreshInvariant ==
  ASSUME IInv, RulesInBand
  PROVE  NoPriorityClash
BY NextRuleFresh DEF IInv, KnownInv, NoPriorityClash, Putting, RulesInBand
-----------------------------------------------------------------------------
(* Every variable keeps its type, whatever locks the callers pass.           *)
THEOREM TypeCorrect == Spec => []TypeOK
<1>1. Init => TypeOK
  BY CallersAssumption, RulesAssumption DEF Init, TypeOK
<1> QED
  BY <1>1, TypeStep, PTL DEF Spec

(* While the batches of each lock have room before the next band, all of them  *)
(* stay in their own, however the generators of the others interleave.       *)
THEOREM StaysInBand == Spec /\ []HasRoom => []RulesInBand
<1>1. ASSUME TypeOK, HasRoom, NEW t \in Thread, Putting(t)
      PROVE  NextRule(t).priority \in Band(job[t].lock)
  <2> DEFINE low == job[t].start
             p == NextPriority(low, known[t])
  <2>1. /\ job[t] \in Jobs /\ low \in Nat /\ low > RulePriorityIncreaseStep
        /\ known[t] \in SUBSET (1..MaxPriority) /\ MaxPriority \in Nat
    BY <1>1, JobsAssumption, RulesAssumption DEF TypeOK, Batch
  <2>2. p \in Nat /\ p >= low
    BY <2>1, NextPriorityFresh
  <2>3. ASSUME NEW j \in Jobs, j.lock # job[t].lock, low < j.start
        PROVE  p < j.start
    <3> DEFINE inBand == {q \in known[t] : low - RulePriorityIncreaseStep < q /\ q < j.start}
               k == Cardinality(inBand)
               within == {q \in known[t] : /\ low - RulePriorityIncreaseStep < q
                                          /\ q <= low + RulePriorityIncreaseStep * k}
    <3>1. low + RulePriorityIncreaseStep * k < j.start /\ j.start \in Nat
      BY <1>1, <2>3, JobsAssumption DEF HasRoom, Batch
    <3>2. IsFiniteSet(inBand) /\ k \in Nat
      <4>1. IsFiniteSet(1..MaxPriority) /\ inBand \subseteq 1..MaxPriority
        BY <2>1, FS_Interval
      <4> QED
        BY <4>1, FS_Subset, FS_CardinalityType
    <3>3. within \subseteq inBand
      <4>1. \A q \in within : q \in known[t] /\ q \in Nat /\ q <= low + RulePriorityIncreaseStep * k
        BY <2>1
      <4>2. ASSUME NEW n \in Nat, n = k
            PROVE  \A q \in Nat : q <= low + RulePriorityIncreaseStep * n => q < j.start
        BY <2>1, <3>1, <4>2 DEF RulePriorityIncreaseStep
      <4>3. \A q \in within : q < j.start
        <5> HIDE DEF k, low, within
        <5> QED
          BY <3>2, <4>1, <4>2
      <4> QED
        BY <4>1, <4>3
    <3>4. Cardinality(within) <= k
      BY <3>2, <3>3, FS_Subset
    <3>5. p <= low + RulePriorityIncreaseStep * k
      <4> HIDE DEF k, p, low
      <4> QED
        BY <2>1, <3>2, <3>4, NextPriorityBounded DEF p
    <3> HIDE DEF k, p, low
    <3> QED
      BY <2>1, <2>2, <3>1, <3>2, <3>5 DEF RulePriorityIncreaseStep
  <2>4. \A j \in Jobs : j.lock # job[t].lock => ~(low < j.start /\ j.start <= p)
    <3>1. \A j \in Jobs : j.start \in Nat
      BY JobsAssumption DEF Batch
    <3> HIDE DEF p, low
    <3> QED
      BY <2>1, <2>2, <2>3, <3>1
  <2>5. p \in Band(job[t].lock)
    <3> HIDE DEF p
    <3> QED
      BY <2>1, <2>2, <2>4 DEF Band
  <2> QED
    BY <2>5 DEF NextRule
<1>2. TypeOK /\ HasRoom => RulesInBand
  BY <1>1 DEF RulesInBand
<1> QED
  BY <1>2, TypeCorrect, PTL

(* As long as the batches of each lock stay in their band, Azure never        *)
(* refuses a rule for a priority in use, whatever is retried or deleted       *)
(* meanwhile, under that lock or another.                                    *)
THEOREM PrioritiesFree == Banded => (Spec /\ []RulesInBand => []NoPriorityClash)
BY Invariance, FreshInvariant, PTL

(* As long as they do, no batch loses another's rule: only a deletion, or a   *)
(* rule of its own explicit name, takes one away.                            *)
THEOREM RulesKept == Banded => (Spec /\ []RulesInBand => NoRuleLost)
<1>1. ASSUME IInv, RulesInBand, [Next]_vars
      PROVE  [\A r \in rules \ rules' :
                \/ r.name \in Deletable \/ \E t \in Thread : pc[t] = "clear" /\ r.name \in listed[t]
                \/ r.name # NONE /\ \E s \in rules' : s.name = r.name]_vars
  <2> SUFFICES ASSUME NEW r \in rules \ rules', r.name \notin Deletable,
                      \A t \in Thread : ~(pc[t] = "clear" /\ r.name \in listed[t])
               PROVE  r.name # NONE /\ \E s \in rules' : s.name = r.name
    OBVIOUS
  <2>1. PICK t \in Thread : Putting(t) /\ rules' = Put(NextRule(t))
    BY <1>1
    DEF Next, vars, CreateRules, SetCustomRules, DeleteRule, Acquire, ListRules, CreateRule,
        RuleRefused, CallFails, BatchDone, FindCustom, AcquireClear, DeleteCustom, ClearDone,
        FindNic, Without
  <2>2. r.name = NextRule(t).name /\ (r.name = NONE => r.priority = NextRule(t).priority)
    BY <2>1 DEF Put, SameName
  <2>3. r.priority # NextRule(t).priority
    BY <1>1, <2>1, FreshInvariant DEF NoPriorityClash, Priorities
  <2> QED
    BY <2>1, <2>2, <2>3 DEF Put
<1> QED
  BY <1>1, Invariance, PTL DEF Spec, NoRuleLost
-----------------------------------------------------------------------------
(* What the first n rules of a batch have left in the group.                *)
Safe == {NONE} \union Deletable \union Custom \union {r.name : r \in rules}
Mine(t) == {r \in rules : r.name = NONE /\ r.by = t}
UnnamedUpTo(t, n) == {i \in Unnamed(t) : i <= n}
Landed(t, n) ==
  /\ \A i \in 1..n : job[t].names[i] \in Safe
  /\ Cardinality(Mine(t)) >= Cardinality(UnnamedUpTo(t, n))

(* The earlier batches of a command, the one at hand, and all of them.       *)
LandedInv ==
  \A t \in Thread : \A n \in Nat :
    /\ first[t] = n + 1 => n <= Len(job[t].names) /\ Landed(t, n)
    /\ pc[t] = "put" /\ next[t] = n + 1 => n <= Len(job[t].names) /\ Landed(t, n)
    /\ pc[t] = "done" => first[t] > Len(job[t].names)

(* Unnamed rules of one batch differ in their priority.                     *)
LEMMA MineFinite ==
  ASSUME NEW rs \in SUBSET Rule, NEW t \in Thread
  PROVE  LET mine == {r \in rs : r.name = NONE /\ r.by = t}
         IN  IsFiniteSet(mine) /\ Cardinality(mine) \in Nat
<1> DEFINE mine == {r \in rs : r.name = NONE /\ r.by = t}
           f == [r \in mine |-> r.priority]
<1>1. \A r \in mine : r.priority \in 1..MaxPriority /\ r = [name |-> NONE, priority |-> r.priority, by |-> t]
  BY DEF Rule
<1>2. f \in Injection(mine, 1..MaxPriority)
  <2>1. f \in [mine -> 1..MaxPriority]
    BY <1>1
  <2>2. \A r, s \in mine : f[r] = f[s] => r = s
    <3> SUFFICES ASSUME NEW r \in mine, NEW s \in mine, r.priority = s.priority PROVE r = s
      OBVIOUS
    <3> QED
      BY <1>1
  <2> QED
    BY <2>1, <2>2 DEF Injection, IsInjective
<1>3. IsFiniteSet(1..MaxPriority)
  BY RulesAssumption, FS_Interval
<1> QED
  BY <1>2, <1>3, FS_Injection, FS_CardinalityType

LEMMA MineFiniteNow ==
  ASSUME TypeOK, NEW t \in Thread
  PROVE  IsFiniteSet(Mine(t)) /\ Cardinality(Mine(t)) \in Nat
BY MineFinite DEF TypeOK, Mine

LEMMA MineFiniteNext ==
  ASSUME TypeOK', NEW t \in Thread
  PROVE  IsFiniteSet(Mine(t)') /\ Cardinality(Mine(t)') \in Nat
BY MineFinite DEF TypeOK, Mine

LEMMA UnnamedFinite ==
  ASSUME TypeOK, NEW t \in Thread, NEW n \in Nat
  PROVE  IsFiniteSet(UnnamedUpTo(t, n)) /\ Cardinality(UnnamedUpTo(t, n)) \in Nat
<1>1. UnnamedUpTo(t, n) \subseteq 1..Len(job[t].names)
  BY DEF UnnamedUpTo, Unnamed
<1>2. IsFiniteSet(1..Len(job[t].names))
  BY Lengths, FS_Interval
<1> QED
  BY <1>1, <1>2, FS_Subset, FS_CardinalityType

(* No step takes an unnamed rule from the group, nor the last rule of a name *)
(* that nothing deletes.                                                    *)
LEMMA Persists ==
  ASSUME IInv, RulesInBand, [Next]_vars
  PROVE  /\ job' = job
         /\ \A t \in Thread : Mine(t) \subseteq Mine(t)'
         /\ Safe \subseteq Safe'
<1>1. job' = job
  BY DEF Next, vars, CreateRules, SetCustomRules, DeleteRule, Acquire, ListRules, CreateRule, RuleRefused,
         CallFails, BatchDone, FindCustom, AcquireClear, DeleteCustom, ClearDone, FindNic
<1>2. \/ rules' = rules
      \/ \E u \in Thread : Putting(u) /\ rules' = Put(NextRule(u))
      \/ \E u \in Thread : \E n \in listed[u] : rules' = Without(n)
      \/ \E r \in rules : r.name \in Deletable /\ rules' = rules \ {r}
  BY DEF Next, vars, CreateRules, SetCustomRules, DeleteRule, Acquire, ListRules, CreateRule, RuleRefused,
         CallFails, BatchDone, FindCustom, AcquireClear, DeleteCustom, ClearDone, FindNic
<1>3. CASE rules' = rules
  BY <1>1, <1>3 DEF Mine, Safe
<1>4. ASSUME NEW u \in Thread, Putting(u), rules' = Put(NextRule(u))
      PROVE  (\A t \in Thread : Mine(t) \subseteq Mine(t)') /\ Safe \subseteq Safe'
  <2>1. \A s \in rules : s.priority # NextRule(u).priority
    BY <1>4, FreshInvariant DEF NoPriorityClash, Priorities
  <2>2. \A s \in rules : s \in rules' \/ (s.name = NextRule(u).name /\ s.name # NONE)
    BY <1>4, <2>1 DEF Put, SameName
  <2>3. NextRule(u) \in rules'
    BY <1>4 DEF Put
  <2>4. \A t \in Thread : Mine(t) \subseteq Mine(t)'
    BY <2>2 DEF Mine
  <2>5. Safe \subseteq Safe'
    BY <2>2, <2>3 DEF Safe
  <2> QED
    BY <2>4, <2>5
<1>5. ASSUME NEW u \in Thread, NEW n \in listed[u], rules' = Without(n)
      PROVE  (\A t \in Thread : Mine(t) \subseteq Mine(t)') /\ Safe \subseteq Safe'
  <2>1. n \in Custom /\ n # NONE
    BY RulesAssumption DEF IInv, TypeOK
  <2> QED
    BY <1>5, <2>1 DEF Without, Mine, Safe
<1>6. ASSUME NEW r \in rules, r.name \in Deletable, rules' = rules \ {r}
      PROVE  (\A t \in Thread : Mine(t) \subseteq Mine(t)') /\ Safe \subseteq Safe'
  BY <1>6, RulesAssumption DEF Mine, Safe
<1> QED
  BY <1>1, <1>2, <1>3, <1>4, <1>5, <1>6

LEMMA StaysLanded ==
  ASSUME IInv, RulesInBand, [Next]_vars, NEW t \in Thread, NEW n \in Nat, Landed(t, n)
  PROVE  Landed(t, n)'
<1>1. job' = job /\ Mine(t) \subseteq Mine(t)' /\ Safe \subseteq Safe'
  BY Persists
<1>2. TypeOK /\ TypeOK'
  BY TypeStep DEF IInv
<1>3. Cardinality(Mine(t)) <= Cardinality(Mine(t)')
  <2>1. IsFiniteSet(Mine(t)')
    BY <1>2, MineFiniteNext
  <2> QED
    BY <1>1, <2>1, FS_Subset
<1>4. UnnamedUpTo(t, n)' = UnnamedUpTo(t, n)
  BY <1>1 DEF UnnamedUpTo, Unnamed
<1>5. /\ Cardinality(Mine(t)) \in Nat /\ Cardinality(Mine(t)') \in Nat
      /\ Cardinality(UnnamedUpTo(t, n)) \in Nat
  BY <1>2, MineFiniteNow, MineFiniteNext, UnnamedFinite
<1>6. \A i \in 1..n : job'[t].names[i] \in Safe'
  BY <1>1 DEF Landed
<1> QED
  BY <1>3, <1>4, <1>5, <1>6 DEF Landed

(* A PUT that succeeds lands the rule it is about.                          *)
LEMMA OneMore ==
  ASSUME IInv, RulesInBand, [Next]_vars, NEW t \in Thread, NEW n \in Nat, n = next[t], CreateRule(t), Landed(t, n - 1)
  PROVE  Landed(t, n)'
<1>1. TypeOK /\ TypeOK' /\ n \in Nat \ {0} /\ n <= Len(job[t].names) /\ Len(job[t].names) \in Nat
  BY Lengths, TypeStep, PuttingIndex DEF IInv, CreateRule
<1>2. /\ job' = job /\ Mine(t) \subseteq Mine(t)' /\ Safe \subseteq Safe'
      /\ NextRule(t) \in rules' /\ NextRule(t).name = job[t].names[n] /\ NextRule(t).by = t
  BY Persists DEF CreateRule, Put, NextRule
<1>3. NextRule(t) \notin rules
  BY FreshInvariant DEF CreateRule, NoPriorityClash, Priorities
<1>4. \A i \in 1..n : job'[t].names[i] \in Safe'
  <2>1. job[t].names[n] \in Safe'
    BY <1>2 DEF Safe
  <2>2. \A i \in 1..n : i = n \/ i \in 1..(n - 1)
    BY <1>1
  <2> QED
    BY <1>2, <2>1, <2>2 DEF Landed
<1>5. Cardinality(Mine(t)') >= Cardinality(UnnamedUpTo(t, n))
  <2>1. /\ IsFiniteSet(Mine(t)) /\ Cardinality(Mine(t)) \in Nat
        /\ IsFiniteSet(Mine(t)') /\ Cardinality(Mine(t)') \in Nat
        /\ IsFiniteSet(UnnamedUpTo(t, n - 1)) /\ Cardinality(UnnamedUpTo(t, n - 1)) \in Nat
    <3>1. n - 1 \in Nat
      BY <1>1
    <3> QED
      BY <1>1, <3>1, MineFiniteNow, MineFiniteNext, UnnamedFinite
  <2>2. Cardinality(Mine(t)) >= Cardinality(UnnamedUpTo(t, n - 1))
    BY DEF Landed
  <2>3. CASE job[t].names[n] = NONE
    <3>1. Mine(t) \union {NextRule(t)} \subseteq Mine(t)'
      BY <1>2, <2>3 DEF Mine
    <3>2. Cardinality(Mine(t) \union {NextRule(t)}) = Cardinality(Mine(t)) + 1
      BY <1>3, <2>1, FS_AddElement DEF Mine
    <3>3. Cardinality(Mine(t) \union {NextRule(t)}) <= Cardinality(Mine(t)')
      BY <2>1, <3>1, FS_Subset
    <3>4. UnnamedUpTo(t, n) = UnnamedUpTo(t, n - 1) \union {n} /\ n \notin UnnamedUpTo(t, n - 1)
      BY <1>1, <2>3 DEF UnnamedUpTo, Unnamed
    <3>5. Cardinality(UnnamedUpTo(t, n)) = Cardinality(UnnamedUpTo(t, n - 1)) + 1
      <4>1. IsFiniteSet(UnnamedUpTo(t, n - 1)) /\ n \notin UnnamedUpTo(t, n - 1)
        BY <2>1, <3>4
      <4>2. Cardinality(UnnamedUpTo(t, n - 1) \union {n}) = Cardinality(UnnamedUpTo(t, n - 1)) + 1
        BY <4>1, FS_AddElement
      <4> QED
        BY <3>4, <4>2
    <3>6. Cardinality(UnnamedUpTo(t, n)) <= Cardinality(Mine(t) \union {NextRule(t)})
      BY <2>1, <2>2, <3>2, <3>5
    <3> QED
      BY <2>1, <3>2, <3>3, <3>5, <3>6
  <2>4. CASE job[t].names[n] # NONE
    <3>1. UnnamedUpTo(t, n) = UnnamedUpTo(t, n - 1)
      BY <1>1, <2>4 DEF UnnamedUpTo, Unnamed
    <3>2. Cardinality(Mine(t)) <= Cardinality(Mine(t)')
      BY <1>2, <2>1, FS_Subset
    <3> QED
      BY <2>1, <2>2, <3>1, <3>2
  <2> QED
    BY <2>3, <2>4
<1>6. UnnamedUpTo(t, n)' = UnnamedUpTo(t, n)
  BY <1>2 DEF UnnamedUpTo, Unnamed
<1> QED
  BY <1>4, <1>5, <1>6 DEF Landed

LEMMA NothingLanded ==
  ASSUME TypeOK, NEW t \in Thread
  PROVE  Landed(t, 0)
<1>1. UnnamedUpTo(t, 0) = {}
  BY Lengths DEF UnnamedUpTo, Unnamed
<1> QED
  BY <1>1, MineFiniteNow, FS_EmptySet DEF Landed

LEMMA LandedStep ==
  ASSUME IInv, RulesInBand, LandedInv, [Next]_vars
  PROVE  LandedInv'
<1>1. TypeOK /\ job' = job
  BY Persists DEF IInv
<1>2. ASSUME NEW t \in Thread, NEW n \in Nat
      PROVE  /\ first'[t] = n + 1 => n <= Len(job[t].names) /\ Landed(t, n)'
             /\ pc'[t] = "put" /\ next'[t] = n + 1 => n <= Len(job[t].names) /\ Landed(t, n)'
             /\ pc'[t] = "done" => first'[t] > Len(job[t].names)
  <2>1. /\ first[t] = n + 1 => n <= Len(job[t].names) /\ Landed(t, n)'
        /\ pc[t] = "put" /\ next[t] = n + 1 => n <= Len(job[t].names) /\ Landed(t, n)'
        /\ pc[t] = "done" => first[t] > Len(job[t].names)
    BY StaysLanded DEF LandedInv
  <2>2. CASE pc'[t] = pc[t] /\ first'[t] = first[t] /\ next'[t] = next[t]
    BY <2>1, <2>2
  <2>3. CASE ListRules(t)
    <3>1. pc'[t] = "put" /\ next'[t] = first[t] /\ first'[t] = first[t]
      BY <1>1, <2>3 DEF ListRules, Goto, TypeOK
    <3> QED
      BY <2>1, <3>1
  <2>4. CASE CreateRule(t)
    <3>1. pc'[t] = "put" /\ next'[t] = next[t] + 1 /\ first'[t] = first[t]
      BY <1>1, <2>4, PuttingIndex DEF CreateRule, TypeOK
    <3>2. next[t] \in Nat \ {0} /\ pc[t] = "put" /\ next[t] <= Len(job[t].names)
      BY <1>1, <2>4, Lengths, PuttingIndex DEF CreateRule
    <3>3. CASE next'[t] = n + 1
      <4>1. next[t] = n /\ n - 1 \in Nat /\ n = (n - 1) + 1
        BY <3>1, <3>2, <3>3
      <4>2. Landed(t, n - 1)
        BY <3>2, <4>1 DEF LandedInv
      <4>3. Landed(t, n)'
        BY <2>4, <4>1, <4>2, OneMore
      <4> QED
        BY <2>1, <3>1, <3>2, <4>1, <4>3
    <3> QED
      BY <2>1, <3>1, <3>3
  <2>5. CASE BatchDone(t)
    <3>1. PICK l \in {"done", "idle", "failed"} : pc' = [pc EXCEPT ![t] = l] /\ (l = "done" => AllPut(t))
      BY <2>5, BatchTarget
    <3>2. pc'[t] = l /\ pc[t] = "put" /\ first'[t] = next[t]
      BY <1>1, <2>5, <3>1, BatchTarget DEF TypeOK
    <3> QED
      BY <2>1, <3>1, <3>2 DEF AllPut
  <2>6. CASE pc'[t] \notin {"put", "done"} /\ first'[t] = first[t]
    BY <2>1, <2>6
  <2> QED
    <3>1. CASE UNCHANGED vars \/ DeleteRule
      BY <2>2, <3>1 DEF vars, DeleteRule
    <3>2. ASSUME NEW u \in Thread \ {t}, CreateRules(u) \/ SetCustomRules(u)
          PROVE  pc'[t] = pc[t] /\ first'[t] = first[t] /\ next'[t] = next[t]
      <4>1. CASE BatchDone(u)
        <5>1. PICK l \in {"done", "idle", "failed"} : pc' = [pc EXCEPT ![u] = l]
          BY <4>1, BatchTarget
        <5>2. first' = [first EXCEPT ![u] = next[u]] /\ next' = next
          BY <4>1, BatchTarget
        <5>3. pc'[t] = pc[t] /\ first'[t] = first[t]
          BY <1>1, <5>1, <5>2 DEF TypeOK
        <5> QED
          BY <5>2, <5>3
      <4>2. CASE ~BatchDone(u)
        BY <1>1, <3>2, <4>2 DEF TypeOK, CreateRules, SetCustomRules, Acquire, ListRules, CreateRule,
           RuleRefused, CallFails, FindCustom, AcquireClear, DeleteCustom, ClearDone, FindNic, ForNic, Goto,
           DropGenerator
      <4> QED
        BY <4>1, <4>2
    <3>3. CASE SetCustomRules(t) \/ Acquire(t) \/ RuleRefused(t) \/ CallFails(t)
      <4>1. CASE CallFails(t)
        <5>1. PICK l \in {"find", "idle", "failed"} : pc' = [pc EXCEPT ![t] = l]
          BY <4>1, RetryTarget
        <5>2. first' = first
          BY <4>1 DEF CallFails
        <5> QED
          BY <1>1, <2>6, <5>1, <5>2 DEF TypeOK
      <4>2. CASE SetCustomRules(t) \/ Acquire(t) \/ RuleRefused(t)
        BY <1>1, <2>6, <4>2 DEF TypeOK, SetCustomRules, Acquire, RuleRefused, FindCustom, AcquireClear,
           DeleteCustom, ClearDone, FindNic, ForNic, Goto
      <4> QED
        BY <3>3, <4>1, <4>2
    <3> QED
      BY <2>2, <2>3, <2>4, <2>5, <3>1, <3>2, <3>3 DEF Next, CreateRules
<1> QED
  BY <1>1, <1>2 DEF LandedInv

(* As long as the batches of each lock stay in their band, a command that     *)
(* reports success has the rules of all its batches in the group, each name   *)
(* and a rule for each unnamed one.                                          *)
THEOREM BatchesLand == Banded => (Spec /\ []RulesInBand => []BatchLanded)
<1> SUFFICES ASSUME Banded PROVE Spec /\ []RulesInBand => []BatchLanded
  OBVIOUS
<1>1. Init /\ TypeOK => LandedInv
  <2> SUFFICES ASSUME Init, TypeOK, NEW t \in Thread, NEW n \in Nat
               PROVE  /\ first[t] = n + 1 => n <= Len(job[t].names) /\ Landed(t, n)
                      /\ pc[t] \notin {"put", "done"}
    BY DEF LandedInv
  <2>1. first[t] = 1 /\ pc[t] \in {"find", "idle"}
    BY DEF Init
  <2>2. Len(job[t].names) \in Nat /\ Landed(t, 0)
    BY Lengths, NothingLanded
  <2> QED
    BY <2>1, <2>2
<1>2. IInv /\ LandedInv => BatchLanded
  <2> SUFFICES ASSUME IInv, LandedInv, NEW t \in Thread, pc[t] = "done"
               PROVE  /\ \A i \in 1..Len(job[t].names) : job[t].names[i] \in Safe
                      /\ Cardinality(Mine(t)) >= Cardinality(Unnamed(t))
    BY DEF BatchLanded, Safe, Mine
  <2>1. TypeOK /\ Len(job[t].names) \in Nat
    BY Lengths DEF IInv
  <2>2. Landed(t, Len(job[t].names))
    <3>1. PICK n \in Nat : first[t] = n + 1
      <4>1. first[t] - 1 \in Nat /\ first[t] = (first[t] - 1) + 1
        BY <2>1, Lengths
      <4> QED
        BY <4>1
    <3>2. n <= Len(job[t].names) /\ Landed(t, n) /\ first[t] > Len(job[t].names)
      BY <3>1 DEF LandedInv
    <3>3. n = Len(job[t].names)
      BY <2>1, <3>1, <3>2
    <3> QED
      BY <3>2, <3>3
  <2>3. UnnamedUpTo(t, Len(job[t].names)) = Unnamed(t)
    BY <2>1 DEF UnnamedUpTo, Unnamed
  <2> QED
    BY <2>2, <2>3 DEF Landed
<1>3. Spec /\ []RulesInBand => []IInv
  BY Invariance
<1> QED
  BY <1>1, <1>2, <1>3, TypeCorrect, LandedStep, PTL DEF Spec

(* When all callers of a group share a lock there is one band: nothing is     *)
(* asked of the number of rules.                                             *)
THEOREM OneLockSuffices == OneLock => (Spec => []NoPriorityClash /\ NoRuleLost /\ []BatchLanded)
<1> SUFFICES ASSUME OneLock PROVE Spec => []NoPriorityClash /\ NoRuleLost /\ []BatchLanded
  OBVIOUS
<1>1. Banded
  BY DEF OneLock, Banded
<1>2. TypeOK => HasRoom
  BY DEF OneLock, HasRoom, TypeOK
<1> QED
  BY <1>1, <1>2, TypeCorrect, StaysInBand, PrioritiesFree, RulesKept, BatchesLand, PTL
-----------------------------------------------------------------------------
(* set_app_security_groups names its rules 'custom_rule...', and no other    *)
(* caller does; a deletion of a machine's rules leaves them alone.           *)
CustomNaming ==
  /\ Deletable \intersect Custom = {}
  /\ \A j \in Jobs : \A i \in 1..Len(j.names) : j.names[i] \in Custom <=> j.custom

CustomRules == {r \in rules : r.name \in Custom}
NameAt(t, n) == \E i \in 1..Len(job[t].names) : job[t].names[i] = n

(* What is left of older custom rules, and what there is of the new ones,    *)
(* while the command that listed them last is the only one.                  *)
SoleInv ==
  sole # NONE =>
    /\ job[sole].custom
    /\ \A u \in Thread \ {sole} : job[u].custom => pc[u] \in {"find", "done", "failed"}
    /\ pc[sole] \in {"wait", "clear"} => \A r \in CustomRules : r.name \in listed[sole]
    /\ pc[sole] \in {"nics", "idle", "list", "put", "done"} =>
         \A r \in CustomRules : r.by = sole /\ NameAt(sole, r.name)
    /\ pc[sole] \in {"idle", "list", "put", "done"} =>
         /\ first[sole] <= Len(job[sole].names) + 1
         /\ \A i \in 1..(first[sole] - 1) : \E r \in CustomRules : r.name = job[sole].names[i]
    /\ pc[sole] = "put" =>
         /\ next[sole] <= Len(job[sole].names) + 1
         /\ \A i \in 1..(next[sole] - 1) : \E r \in CustomRules : r.name = job[sole].names[i]
    /\ pc[sole] = "done" => first[sole] > Len(job[sole].names)

(* Before its first batch a command has not been elsewhere.                  *)
Stages ==
  \A t \in Thread : pc[t] \in {"find", "wait", "clear", "nics"} => job[t].custom /\ first[t] = 1

LEMMA StagesStep ==
  ASSUME TypeOK, Stages, [Next]_vars
  PROVE  Stages'
<1> USE DEF TypeOK, Stages
<1>1. ASSUME NEW t \in Thread, Acquire(t) \/ ListRules(t) \/ CreateRule(t) \/ RuleRefused(t) \/ BatchDone(t)
      PROVE  Stages'
  <2>1. CASE BatchDone(t)
    <3>1. PICK l \in {"done", "idle", "failed"} : pc' = [pc EXCEPT ![t] = l]
      BY <2>1, BatchTarget
    <3>2. job' = job /\ first' = [first EXCEPT ![t] = next[t]]
      BY <2>1, BatchTarget
    <3> QED
      BY <3>1, <3>2
  <2>2. CASE Acquire(t) \/ ListRules(t) \/ CreateRule(t) \/ RuleRefused(t)
    BY <2>2 DEF Acquire, ListRules, CreateRule, RuleRefused, Goto
  <2> QED
    BY <1>1, <2>1, <2>2
<1>2. ASSUME NEW t \in Thread, SetCustomRules(t)
      PROVE  Stages'
  BY <1>2 DEF SetCustomRules, FindCustom, AcquireClear, DeleteCustom, ClearDone, FindNic, ForNic, Goto
<1>3. ASSUME NEW t \in Thread, CallFails(t)
      PROVE  Stages'
  <2>1. pc[t] \in {"find", "clear", "nics", "list", "put"}
    BY <1>3 DEF CallFails, RetryFrom
  <2>2. pc[t] \in {"list", "put"} => RetryFrom[pc[t]] = "idle"
    BY DEF RetryFrom
  <2>3. PICK l \in {"find", "idle", "failed"} : pc' = [pc EXCEPT ![t] = l]
    BY <1>3, RetryTarget
  <2>4. pc[t] \in {"list", "put"} => pc'[t] \in {"idle", "failed"}
    BY <1>3, <2>2 DEF CallFails, Goto
  <2>5. job' = job /\ first' = first
    BY <1>3 DEF CallFails
  <2> QED
    BY <2>1, <2>3, <2>4, <2>5
<1>4. CASE DeleteRule \/ UNCHANGED vars
  BY <1>4 DEF DeleteRule, vars
<1> QED
  BY <1>1, <1>2, <1>3, <1>4 DEF Next, CreateRules

(* The rules the steps of the other callers leave alone.                     *)
LEMMA SoleUndisturbed ==
  ASSUME CustomNaming, TypeOK, SoleInv, sole \in Thread, sole' = sole, job' = job, CustomRules' = CustomRules,
         pc'[sole] = pc[sole], listed'[sole] = listed[sole],
         first'[sole] = first[sole], next'[sole] = next[sole],
         \A u \in Thread \ {sole} : job[u].custom => pc'[u] \in {"find", "done", "failed"}
  PROVE  SoleInv'
<1>1. \A n : NameAt(sole, n)' <=> NameAt(sole, n)
  BY DEF NameAt
<1>2. sole # NONE
  BY CallersAssumption
<1>3. /\ job[sole].custom
      /\ pc[sole] \in {"wait", "clear"} => \A r \in CustomRules : r.name \in listed[sole]
      /\ pc[sole] \in {"nics", "idle", "list", "put", "done"} =>
           \A r \in CustomRules : r.by = sole /\ NameAt(sole, r.name)
      /\ pc[sole] \in {"idle", "list", "put", "done"} =>
           /\ first[sole] <= Len(job[sole].names) + 1
           /\ \A i \in 1..(first[sole] - 1) : \E r \in CustomRules : r.name = job[sole].names[i]
      /\ pc[sole] = "put" =>
           /\ next[sole] <= Len(job[sole].names) + 1
           /\ \A i \in 1..(next[sole] - 1) : \E r \in CustomRules : r.name = job[sole].names[i]
      /\ pc[sole] = "done" => first[sole] > Len(job[sole].names)
  BY <1>2 DEF SoleInv
<1> HIDE DEF CustomRules, NameAt
<1> QED
  BY <1>1, <1>3 DEF SoleInv

(* A caller whose rules are not custom ones leaves the custom rules alone,   *)
(* and so does one that is yet to list them, or has ended.                   *)
LEMMA OthersKeepCustom ==
  ASSUME CustomNaming, TypeOK, Stages, SoleInv, sole \in Thread, NEW u \in Thread \ {sole},
         CreateRules(u) \/ SetCustomRules(u), ~FindCustom(u)
  PROVE  SoleInv'
<1> USE DEF TypeOK
<1>1. /\ sole' = sole /\ job' = job /\ pc'[sole] = pc[sole]
      /\ listed'[sole] = listed[sole] /\ first'[sole] = first[sole] /\ next'[sole] = next[sole]
      /\ \A v \in Thread \ {u} : pc'[v] = pc[v]
  <2>1. CASE BatchDone(u)
    <3>1. PICK l \in {"done", "idle", "failed"} : pc' = [pc EXCEPT ![u] = l]
      BY <2>1, BatchTarget
    <3> QED
      BY <2>1, <3>1, BatchTarget
  <2>2. CASE ~BatchDone(u)
    BY <2>2 DEF CreateRules, SetCustomRules, Acquire, ListRules, CreateRule, RuleRefused, CallFails,
         AcquireClear, DeleteCustom, ClearDone, FindNic, ForNic, Goto, DropGenerator
  <2> QED
    BY <2>1, <2>2
<1>2. sole # NONE
  BY CallersAssumption
<1>3. \A v \in Thread \ {sole} : job[v].custom => pc[v] \in {"find", "done", "failed"}
  BY <1>2 DEF SoleInv
<1>4. CASE job[u].custom
  <2>1. pc[u] = "find" /\ CallFails(u)
    BY <1>3, <1>4 DEF CreateRules, SetCustomRules, Acquire, ListRules, CreateRule, RuleRefused, BatchDone,
         CallFails, RetryFrom, AcquireClear, DeleteCustom, ClearDone, FindNic, Putting
  <2>2. rules' = rules /\ pc'[u] \in {"find", "failed"}
    BY <2>1 DEF CallFails, RetryFrom, Putting, Goto
  <2>3. CustomRules' = CustomRules
    BY <2>2 DEF CustomRules
  <2>4. \A v \in Thread \ {sole} : job[v].custom => pc'[v] \in {"find", "done", "failed"}
    BY <1>1, <1>3, <2>2
  <2> QED
    BY <1>1, <2>3, <2>4, SoleUndisturbed
<1>5. CASE ~job[u].custom
  <2>1. pc[u] \notin {"find", "wait", "clear", "nics"}
    BY <1>5 DEF Stages
  <2>2. rules' = rules \/ (Putting(u) /\ rules' = Put(NextRule(u)))
    BY <2>1 DEF CreateRules, SetCustomRules, Acquire, ListRules, CreateRule, RuleRefused, BatchDone,
         CallFails, AcquireClear, DeleteCustom, ClearDone, FindNic
  <2>3. Putting(u) => NextRule(u).name \notin Custom
    <3>1. job[u] \in Jobs /\ next[u] \in Nat \ {0} /\ Len(job[u].names) \in Nat
      BY Lengths
    <3> QED
      BY <1>5, <3>1, PuttingIndex DEF CustomNaming, NextRule
  <2>4. CustomRules' = CustomRules
    <3>1. Putting(u) /\ rules' = Put(NextRule(u)) =>
            \A r : r \in rules' /\ r.name \in Custom <=> r \in rules /\ r.name \in Custom
      BY <2>3 DEF Put, SameName
    <3> QED
      BY <2>2, <3>1 DEF CustomRules
  <2>5. \A v \in Thread \ {sole} : job[v].custom => pc'[v] \in {"find", "done", "failed"}
    BY <1>1, <1>3, <1>5
  <2> QED
    BY <1>1, <2>4, <2>5, SoleUndisturbed
<1> QED
  BY <1>4, <1>5

(* Each step of that command itself: once the older rules have been deleted, *)
(* the custom rules there are its own, and those yet to come are counted.    *)
LEMMA SoleSteps ==
  ASSUME CustomNaming, TypeOK, Stages, SoleInv, sole \in Thread, NEW t \in Thread, t = sole,
         CreateRules(t) \/ SetCustomRules(t), ~FindCustom(t)
  PROVE  SoleInv'
<1> USE DEF TypeOK
<1> DEFINE Own(r) == r.by = t /\ NameAt(t, r.name)
           Present(n) == \A i \in 1..n : \E r \in CustomRules : r.name = job[t].names[i]
<1>1. /\ sole' = sole /\ job' = job /\ sole # NONE
      /\ \A v \in Thread \ {t} : pc'[v] = pc[v]
      /\ \A n : NameAt(t, n)' <=> NameAt(t, n)
  <2>1. CASE BatchDone(t)
    <3>1. PICK l \in {"done", "idle", "failed"} : pc' = [pc EXCEPT ![t] = l]
      BY <2>1, BatchTarget
    <3> QED
      BY <2>1, <3>1, BatchTarget, CallersAssumption DEF NameAt
  <2>2. CASE ~BatchDone(t)
    BY <2>2, CallersAssumption
    DEF CreateRules, SetCustomRules, Acquire, ListRules, CreateRule, RuleRefused, CallFails,
        AcquireClear, DeleteCustom, ClearDone, FindNic, ForNic, Goto, NameAt
  <2> QED
    BY <2>1, <2>2
<1>2. /\ job[t].custom
      /\ \A u \in Thread \ {t} : job[u].custom => pc[u] \in {"find", "done", "failed"}
      /\ pc[t] \in {"wait", "clear"} => \A r \in CustomRules : r.name \in listed[t]
      /\ pc[t] \in {"nics", "idle", "list", "put", "done"} => \A r \in CustomRules : Own(r)
      /\ pc[t] \in {"idle", "list", "put", "done"} =>
           first[t] <= Len(job[t].names) + 1 /\ Present(first[t] - 1)
      /\ pc[t] = "put" => next[t] <= Len(job[t].names) + 1 /\ Present(next[t] - 1)
      /\ pc[t] = "done" => first[t] > Len(job[t].names)
  BY <1>1 DEF SoleInv
<1>3. SUFFICES
      /\ pc'[t] \in {"wait", "clear"} => \A r \in CustomRules' : r.name \in listed'[t]
      /\ pc'[t] \in {"nics", "idle", "list", "put", "done"} => \A r \in CustomRules' : Own(r)
      /\ pc'[t] \in {"idle", "list", "put", "done"} =>
           first'[t] <= Len(job[t].names) + 1 /\ Present(first[t] - 1)'
      /\ pc'[t] = "put" => next'[t] <= Len(job[t].names) + 1 /\ Present(next[t] - 1)'
      /\ pc'[t] = "done" => first'[t] > Len(job[t].names)
  <2>1. sole' = t /\ job' = job /\ t = sole
    BY <1>1
  <2>2. job[t].custom /\ \A u \in Thread \ {t} : job[u].custom => pc'[u] \in {"find", "done", "failed"}
    BY <1>1, <1>2
  <2>3. pc'[t] \in {"nics", "idle", "list", "put", "done"} => \A r \in CustomRules' : r.by = t /\ NameAt(t, r.name)'
    BY <1>1, <1>3
  <2>4. Present(first[t] - 1)' <=> \A i \in 1..(first'[t] - 1) : \E r \in CustomRules' : r.name = job[t].names[i]
    BY <2>1
  <2>5. Present(next[t] - 1)' <=> \A i \in 1..(next'[t] - 1) : \E r \in CustomRules' : r.name = job[t].names[i]
    BY <2>1
  <2> HIDE DEF CustomRules, NameAt, Own, Present
  <2> QED
    BY <1>3, <2>1, <2>2, <2>3, <2>4, <2>5 DEF SoleInv
<1>4. Len(job[t].names) \in Nat /\ job[t] \in Jobs /\ first[t] \in Nat \ {0} /\ next[t] \in Nat \ {0}
  BY Lengths
<1>5. CASE AcquireClear(t) \/ ClearDone(t) \/ FindNic(t) \/ Acquire(t)
  <2>1. CustomRules' = CustomRules /\ listed' = listed /\ first' = first
    BY <1>5 DEF AcquireClear, ClearDone, FindNic, Acquire, CustomRules
  <2>2. \/ pc[t] = "wait" /\ pc'[t] = "clear"
        \/ pc[t] = "clear" /\ pc'[t] = "nics" /\ listed[t] = {}
        \/ pc[t] = "nics" /\ pc'[t] \in {"idle", "failed"}
        \/ pc[t] = "idle" /\ pc'[t] = "list"
    BY <1>5 DEF AcquireClear, ClearDone, FindNic, ForNic, Acquire, Goto
  <2>3. pc[t] = "nics" => first[t] = 1 /\ Present(first[t] - 1)
    BY DEF Stages
  <2>4. Present(first[t] - 1) => Present(first[t] - 1)'
    BY <1>1, <2>1
  <2> HIDE DEF CustomRules, Own, Present
  <2> QED
    BY <1>2, <1>4, <2>1, <2>2, <2>3, <2>4, SMTT(30)
<1>6. CASE DeleteCustom(t)
  <2>1. PICK n \in listed[t] : rules' = Without(n) /\ listed'[t] = listed[t] \ {n}
    BY <1>6 DEF DeleteCustom
  <2>2. pc[t] = "clear" /\ pc' = pc
    BY <1>6 DEF DeleteCustom
  <2>3. \A r \in CustomRules' : r \in CustomRules /\ r.name # n
    BY <2>1 DEF CustomRules, Without
  <2> HIDE DEF CustomRules, Own, Present
  <2> QED
    BY <1>2, <2>1, <2>2, <2>3
<1>7. CASE ListRules(t)
  <2>1. CustomRules' = CustomRules /\ pc[t] = "list" /\ pc'[t] = "put" /\ next'[t] = first[t] /\ first' = first
    BY <1>7 DEF ListRules, Goto, CustomRules
  <2>2. Present(first[t] - 1)' /\ Present(next[t] - 1)'
    BY <1>1, <1>2, <2>1
  <2> HIDE DEF CustomRules, Own, Present
  <2> QED
    BY <1>2, <1>4, <2>1, <2>2
<1>8. ASSUME Putting(t), rules' = Put(NextRule(t))
      PROVE  /\ \A r \in CustomRules' : Own(r)
             /\ \A i \in 1..next[t] : \E r \in CustomRules' : r.name = job[t].names[i]
             /\ \A i \in 1..(first[t] - 1) : \E r \in CustomRules' : r.name = job[t].names[i]
  <2>1. pc[t] = "put" /\ next[t] <= Len(job[t].names)
    BY <1>8, PuttingIndex
  <2>2. NextRule(t).name = job[t].names[next[t]] /\ NextRule(t).by = t
    BY DEF NextRule
  <2>3. NextRule(t).name \in Custom
    BY <1>2, <1>4, <2>1, <2>2 DEF CustomNaming
  <2>4. NextRule(t) \in CustomRules' /\ \A r \in CustomRules' : r = NextRule(t) \/ r \in CustomRules
    BY <1>8, <2>3 DEF Put, CustomRules
  <2>5. Own(NextRule(t))
    BY <1>4, <2>1, <2>2 DEF NameAt
  <2>6. \A r \in CustomRules : r \in CustomRules' \/ r.name = NextRule(t).name
    BY <1>8 DEF Put, SameName, CustomRules
  <2>7. \A i \in 1..next[t] : i = next[t] \/ i \in 1..(next[t] - 1)
    BY <1>4
  <2>8. \A r \in CustomRules' : Own(r)
    <3> HIDE DEF CustomRules, Own
    <3> QED
      BY <1>2, <2>1, <2>4, <2>5
  <2>9. \A i \in 1..(next[t] - 1) : \E r \in CustomRules : r.name = job[t].names[i]
    BY <1>2, <2>1
  <2>10. ASSUME NEW i \in 1..next[t]
         PROVE  \E r \in CustomRules' : r.name = job[t].names[i]
    <3> HIDE DEF CustomRules
    <3>1. CASE i = next[t]
      BY <2>2, <2>4, <3>1
    <3>2. CASE i \in 1..(next[t] - 1)
      BY <2>2, <2>4, <2>6, <2>9, <3>2
    <3> QED
      BY <2>7, <3>1, <3>2
  <2>11. ASSUME NEW i \in 1..(first[t] - 1)
         PROVE  \E r \in CustomRules' : r.name = job[t].names[i]
    <3>1. PICK r \in CustomRules : r.name = job[t].names[i]
      BY <1>2, <2>1
    <3> HIDE DEF CustomRules
    <3> QED
      BY <2>2, <2>4, <2>6, <3>1
  <2> QED
    BY <2>8, <2>10, <2>11
<1>9. CASE CreateRule(t)
  <2>1. /\ Putting(t) /\ rules' = Put(NextRule(t)) /\ pc[t] = "put" /\ pc'[t] = "put"
        /\ next'[t] = next[t] + 1 /\ next[t] <= Len(job[t].names) /\ first' = first
    BY <1>9, PuttingIndex DEF CreateRule
  <2>2. Present(first[t] - 1)' /\ Present(next[t] - 1)'
    <3>1. next'[t] - 1 = next[t]
      BY <1>4, <2>1
    <3> QED
      BY <1>1, <1>8, <2>1, <3>1
  <2> HIDE DEF CustomRules, Own, Present
  <2> QED
    BY <1>2, <1>4, <1>8, <2>1, <2>2
<1>10. CASE RuleRefused(t)
  BY <1>10 DEF RuleRefused, Goto
<1>11. CASE BatchDone(t)
  <2>1. PICK l \in {"done", "idle", "failed"} : pc' = [pc EXCEPT ![t] = l] /\ (l = "done" => AllPut(t))
    BY <1>11, BatchTarget
  <2>2. /\ pc[t] = "put" /\ pc'[t] \in {"done", "idle", "failed"} /\ first'[t] = next[t]
        /\ pc'[t] = "done" => next[t] > Len(job[t].names)
    BY <1>11, <2>1, BatchTarget DEF AllPut
  <2>3. CustomRules' = CustomRules
    BY <1>11, BatchTarget DEF CustomRules
  <2>4. Present(first[t] - 1)'
    BY <1>1, <1>2, <2>2, <2>3
  <2> HIDE DEF CustomRules, Own, Present
  <2> QED
    BY <1>2, <2>2, <2>3, <2>4
<1>12. CASE CallFails(t)
  <2>1. pc[t] \in {"find", "clear", "nics", "list", "put"}
    BY <1>12 DEF CallFails, RetryFrom
  <2>2. /\ pc'[t] \in {"find", "idle", "failed"} /\ first' = first
        /\ pc'[t] = "idle" => pc[t] \in {"list", "put"}
    BY <1>12, <2>1 DEF CallFails, RetryFrom, Goto
  <2>3. pc[t] \in {"list", "put"} => (\A r \in CustomRules' : Own(r)) /\ Present(first[t] - 1)'
    <3>1. CASE rules' = rules
      BY <1>1, <1>2, <2>2, <3>1 DEF CustomRules
    <3>2. CASE Putting(t) /\ rules' = Put(NextRule(t))
      BY <1>1, <1>8, <2>2, <3>2
    <3> QED
      BY <1>12, <3>1, <3>2 DEF CallFails
  <2> HIDE DEF CustomRules, Own, Present
  <2> QED
    BY <1>2, <2>2, <2>3
<1> QED
  BY <1>5, <1>6, <1>7, <1>9, <1>10, <1>11, <1>12 DEF CreateRules, SetCustomRules

LEMMA SoleStep ==
  ASSUME CustomNaming, TypeOK, Stages, SoleInv, [Next]_vars
  PROVE  SoleInv'
<1> USE DEF TypeOK
<1>1. ASSUME NEW t \in Thread, FindCustom(t), sole' = t
      PROVE  SoleInv'
  <2>1. /\ job' = job /\ job[t].custom /\ pc'[t] = "wait" /\ rules' = rules
        /\ listed'[t] = {r.name : r \in rules} \intersect Custom
        /\ \A u \in Thread \ {t} : pc'[u] = pc[u]
    BY <1>1 DEF FindCustom, Goto, Stages
  <2>2. \A u \in Thread \ {t} : job[u].custom => pc[u] \in {"find", "done", "failed"}
    BY <1>1, CallersAssumption DEF FindCustom
  <2>3. \A r \in CustomRules' : r.name \in listed'[t]
    BY <2>1 DEF CustomRules
  <2> HIDE DEF CustomRules
  <2> QED
    BY <1>1, <2>1, <2>2, <2>3 DEF SoleInv
<1>2. ASSUME NEW t \in Thread, FindCustom(t)
      PROVE  SoleInv'
  <2>1. sole' = t \/ sole' = NONE
    BY <1>2 DEF FindCustom
  <2> QED
    BY <1>1, <1>2, <2>1 DEF SoleInv
<1>3. ASSUME NEW t \in Thread, CreateRules(t) \/ SetCustomRules(t), ~FindCustom(t)
      PROVE  SoleInv'
  <2>1. sole' = sole
    BY <1>3 DEF CreateRules, SetCustomRules, Acquire, ListRules, CreateRule, RuleRefused, CallFails, BatchDone,
         AcquireClear, DeleteCustom, ClearDone, FindNic
  <2>2. CASE sole = NONE
    BY <2>1, <2>2 DEF SoleInv
  <2>3. CASE sole = t
    BY <1>3, <2>3, SoleSteps
  <2>4. CASE sole \in Thread \ {t}
    BY <1>3, <2>4, OthersKeepCustom
  <2> QED
    BY <2>2, <2>3, <2>4
<1>4. CASE DeleteRule \/ UNCHANGED vars
  <2>1. /\ sole' = sole /\ job' = job /\ pc' = pc /\ listed' = listed
        /\ first' = first /\ next' = next
        /\ CustomRules' = CustomRules
    BY <1>4 DEF DeleteRule, vars, CustomRules, CustomNaming
  <2>2. CASE sole = NONE
    BY <2>1, <2>2 DEF SoleInv
  <2>3. CASE sole # NONE
    <3>1. sole \in Thread /\ \A u \in Thread \ {sole} : job[u].custom => pc'[u] \in {"find", "done", "failed"}
      BY <2>1, <2>3 DEF SoleInv
    <3> QED
      BY <2>1, <3>1, SoleUndisturbed
  <2> QED
    BY <2>2, <2>3
<1> QED
  BY <1>2, <1>3, <1>4 DEF Next

(* A command that was alone when it listed the custom rules of a machine     *)
(* leaves exactly its own ones when it reports success, whatever locks the   *)
(* callers pass, and whatever fails, is retried or deleted meanwhile.        *)
THEOREM CustomReplaced == CustomNaming => (Spec => []CustomRulesReplaced)
<1> SUFFICES ASSUME CustomNaming PROVE Spec => []CustomRulesReplaced
  OBVIOUS
<1>1. Init => Stages /\ SoleInv
  BY DEF Init, Stages, SoleInv
<1>2. Stages /\ SoleInv /\ TypeOK /\ [Next]_vars => Stages' /\ SoleInv'
  BY StagesStep, SoleStep
<1>3. SoleInv /\ TypeOK => CustomRulesReplaced
  <2> SUFFICES ASSUME SoleInv, TypeOK, NEW t \in Thread, pc[t] = "done", sole = t
               PROVE  /\ {r.name : r \in CustomRules} = {job[t].names[i] : i \in 1..Len(job[t].names)}
                      /\ \A r \in CustomRules : r.by = t
    BY DEF CustomRulesReplaced, CustomRules
  <2>1. /\ \A r \in CustomRules : r.by = t /\ NameAt(t, r.name)
        /\ \A i \in 1..(first[t] - 1) : \E r \in CustomRules : r.name = job[t].names[i]
        /\ first[t] <= Len(job[t].names) + 1 /\ first[t] > Len(job[t].names)
    BY CallersAssumption DEF SoleInv
  <2>2. first[t] - 1 = Len(job[t].names)
    BY <2>1, Lengths
  <2> HIDE DEF CustomRules
  <2>3. ASSUME NEW r \in CustomRules
        PROVE  r.by = t /\ r.name \in {job[t].names[i] : i \in 1..Len(job[t].names)}
    BY <2>1 DEF NameAt
  <2>4. ASSUME NEW i \in 1..Len(job[t].names)
        PROVE  job[t].names[i] \in {r.name : r \in CustomRules}
    BY <2>1, <2>2
  <2> QED
    BY <2>3, <2>4
<1>4. Spec => []TypeOK
  BY TypeCorrect
<1> QED
  BY <1>1, <1>2, <1>3, <1>4, PTL DEF Spec
-----------------------------------------------------------------------------
(* How far a caller is from its end: a step of its own brings it nearer, a    *)
(* retry by the call that failed, and no other caller, deletion or lock takes *)
(* it further away.                                                          *)

(* The steps from a place on, with n rules to create, f the first of the       *)
(* batch at hand, i the next one, and c custom rules to delete: each rule may  *)
(* have a batch of its own, which takes the lock, lists, PUTs and ends.        *)
Steps(at, n, f, i, c) ==
  CASE at = "find"  -> 4 * n + Cardinality(Custom) + 7
    [] at = "wait"  -> 4 * n + c + 6
    [] at = "clear" -> 4 * n + c + 5
    [] at = "nics"  -> 4 * n + 4
    [] at = "idle"  -> 4 * (n + 1 - f) + 3
    [] at = "list"  -> 4 * (n + 1 - f) + 2
    [] at = "put"   -> 4 * (n + 1 - i) + IF i > f THEN 4 ELSE 1
    [] OTHER        -> 0

Place(t) == Steps(pc[t], Len(job[t].names), first[t], next[t], Cardinality(listed[t]))
(* What a retry may run again.                                               *)
Again(t) == 4 * Len(job[t].names) + Cardinality(Custom) + 3
Remaining(t) == Place(t) + Again(t) * (MaxFaults - faults)

LEMMA StepsAt ==
  ASSUME NEW n, NEW f, NEW i, NEW c
  PROVE  /\ Steps("find", n, f, i, c) = 4 * n + Cardinality(Custom) + 7
         /\ Steps("wait", n, f, i, c) = 4 * n + c + 6
         /\ Steps("clear", n, f, i, c) = 4 * n + c + 5
         /\ Steps("nics", n, f, i, c) = 4 * n + 4
         /\ Steps("idle", n, f, i, c) = 4 * (n + 1 - f) + 3
         /\ Steps("list", n, f, i, c) = 4 * (n + 1 - f) + 2
         /\ Steps("put", n, f, i, c) = 4 * (n + 1 - i) + IF i > f THEN 4 ELSE 1
         /\ \A at \in {"done", "failed"} : Steps(at, n, f, i, c) = 0
BY DEF Steps

(* The generator of a batch ends with its rules, and no earlier batch comes    *)
(* again; before the first there was none.                                   *)
Counted ==
  /\ faults \in 0..MaxFaults
  /\ \A t \in Thread : /\ first[t] <= next[t] /\ next[t] <= Len(job[t].names) + 1
                       /\ pc[t] \in {"find", "wait", "clear", "nics"} => first[t] = 1

LEMMA CountedStep ==
  ASSUME TypeOK, Counted, [Next]_vars
  PROVE  Counted'
<1> USE DEF Counted
<1>1. MaxFaults \in Nat
      /\ \A t \in Thread : Len(job[t].names) \in Nat /\ first[t] \in Nat \ {0} /\ next[t] \in Nat \ {0}
  BY Lengths, RulesAssumption
<1>2. ASSUME NEW t \in Thread, CreateRule(t)
      PROVE  Counted'
  <2>1. next[t] <= Len(job[t].names) /\ next' = [next EXCEPT ![t] = @ + 1] /\ UNCHANGED <<pc, job, first, faults>>
    BY <1>2, PuttingIndex DEF CreateRule
  <2> QED
    BY <1>1, <2>1 DEF TypeOK
<1>3. ASSUME NEW t \in Thread, ListRules(t) \/ RuleRefused(t) \/ CallFails(t)
      PROVE  Counted'
  <2>1. /\ next' = [next EXCEPT ![t] = first[t]] /\ job' = job /\ first' = first
        /\ faults' = faults \/ Fault
    BY <1>3 DEF ListRules, RuleRefused, CallFails, DropGenerator
  <2>2. /\ \A u \in Thread \ {t} : pc'[u] = pc[u]
        /\ pc'[t] \in {"find", "wait", "clear", "nics"} => pc[t] \in {"find", "clear"}
    <3>1. CASE CallFails(t)
      <4>1. /\ \A u \in Thread \ {t} : pc'[u] = pc[u]
            /\ pc'[t] \in {RetryFrom[pc[t]], "failed"}
        BY <3>1 DEF CallFails, Goto, TypeOK
      <4>2. pc[t] \in {"find", "clear", "nics", "list", "put"}
        BY <3>1 DEF CallFails, RetryFrom
      <4> QED
        BY <4>1, <4>2 DEF RetryFrom
    <3>2. CASE ListRules(t) \/ RuleRefused(t)
      BY <3>2 DEF ListRules, RuleRefused, Goto, TypeOK
    <3> QED
      BY <1>3, <3>1, <3>2
  <2> QED
    BY <1>1, <2>1, <2>2 DEF TypeOK, Fault
<1>4. ASSUME NEW t \in Thread, BatchDone(t)
      PROVE  Counted'
  <2>1. PICK l \in {"done", "idle", "failed"} : pc' = [pc EXCEPT ![t] = l]
    BY <1>4, BatchTarget
  <2>2. first' = [first EXCEPT ![t] = next[t]] /\ UNCHANGED <<job, next, faults>>
    BY <1>4, BatchTarget
  <2> QED
    BY <1>1, <2>1, <2>2 DEF TypeOK
<1>5. ASSUME NEW t \in Thread, Acquire(t) \/ SetCustomRules(t)
      PROVE  Counted'
  <2>1. UNCHANGED <<job, first, next, faults>>
    BY <1>5 DEF Acquire, SetCustomRules, FindCustom, AcquireClear, DeleteCustom, ClearDone, FindNic
  <2>2. \A u \in Thread : pc'[u] \in {"find", "wait", "clear", "nics"} => pc[u] \in {"find", "wait", "clear", "nics"}
    BY <1>5 DEF TypeOK, Acquire, SetCustomRules, FindCustom, AcquireClear, DeleteCustom, ClearDone, FindNic,
       ForNic, Goto
  <2> QED
    BY <2>1, <2>2
<1>6. CASE DeleteRule \/ UNCHANGED vars
  BY <1>6 DEF DeleteRule, vars
<1> QED
  BY <1>2, <1>3, <1>4, <1>5, <1>6 DEF Next, CreateRules

LEMMA CountedInvariance == Spec => [](TypeOK /\ Counted)
<1>1. Init => Counted
  <2> SUFFICES ASSUME Init, NEW t \in Thread
               PROVE  /\ faults \in 0..MaxFaults /\ first[t] = 1 /\ next[t] = 1
                      /\ next[t] <= Len(job[t].names) + 1
    BY RulesAssumption DEF Init, Counted
  <2>1. job[t].names \in Seq(Name \union {NONE})
    BY JobsAssumption DEF Init, Batch
  <2> QED
    BY <2>1, RulesAssumption DEF Init
<1>2. TypeOK /\ Counted /\ [Next]_vars => Counted'
  BY CountedStep
<1> QED
  BY <1>1, <1>2, TypeCorrect, PTL DEF Spec

LEMMA ListedSize ==
  ASSUME IsFiniteSet(Custom), TypeOK, NEW t \in Thread
  PROVE  /\ IsFiniteSet(listed[t]) /\ Cardinality(listed[t]) \in 0..Cardinality(Custom)
         /\ Cardinality(Custom) \in Nat
BY FS_Subset, FS_CardinalityType DEF TypeOK

LEMMA PlaceBounds ==
  ASSUME IsFiniteSet(Custom), TypeOK, Counted, NEW t \in Thread
  PROVE  /\ Again(t) \in Nat /\ Place(t) \in 0..(Again(t) + 4)
         /\ Place(t) = 0 => pc[t] \in {"done", "failed"}
<1> DEFINE n == Len(job[t].names)
           f == first[t]
           i == next[t]
           c == Cardinality(listed[t])
           k == Cardinality(Custom)
<1>1. n \in Nat /\ i \in 1..(n + 1) /\ f \in 1..i /\ k \in Nat /\ c \in 0..k
  BY ListedSize, Lengths DEF Counted
<1>2. /\ Again(t) = 4 * n + k + 3 /\ Place(t) = Steps(pc[t], n, f, i, c)
      /\ pc[t] \in {"find", "wait", "clear", "nics", "idle", "list", "put", "done", "failed"}
  BY DEF Again, Place, TypeOK
<1>3. /\ Steps(pc[t], n, f, i, c) \in 0..(4 * n + k + 7)
      /\ Steps(pc[t], n, f, i, c) = 0 => pc[t] \in {"done", "failed"}
  <2>1. k = Cardinality(Custom)
    OBVIOUS
  <2> HIDE DEF n, f, i, c, k
  <2> QED
    BY <1>1, <1>2, <2>1 DEF Steps
<1> HIDE DEF n, f, i, c, k
<1> QED
  BY <1>1, <1>2, <1>3

(* What a step of a caller does to its place, and what it costs.             *)
Nearer(t) ==
  /\ Again(t)' = Again(t) /\ Place(t)' \in Nat
  /\ \/ faults' = faults /\ Place(t)' < Place(t)
     \/ faults < MaxFaults /\ faults' = faults + 1 /\ Place(t)' < Place(t) + Again(t)

LEMMA StepsNearer ==
  ASSUME IsFiniteSet(Custom), TypeOK, Counted, NEW t \in Thread, CreateRules(t) \/ SetCustomRules(t)
  PROVE  Nearer(t)
<1> DEFINE n == Len(job[t].names)
           f == first[t]
           i == next[t]
           c == Cardinality(listed[t])
           k == Cardinality(Custom)
           d == Cardinality(listed'[t])
<1>1. n \in Nat /\ i \in 1..(n + 1) /\ f \in 1..i /\ k \in Nat /\ c \in 0..k
  BY ListedSize, Lengths DEF Counted
<1>2. job' = job /\ (first' = first \/ BatchDone(t))
  BY DEF CreateRules, Acquire, ListRules, CreateRule, RuleRefused, CallFails, BatchDone,
         SetCustomRules, FindCustom, AcquireClear, DeleteCustom, ClearDone, FindNic
<1>3. /\ Again(t) = 4 * n + k + 3 /\ Again(t)' = Again(t)
      /\ Place(t) = Steps(pc[t], n, f, i, c) /\ Place(t)' = Steps(pc'[t], n, first'[t], next'[t], d)
      /\ first' = first => Place(t)' = Steps(pc'[t], n, f, next'[t], d)
      /\ k = Cardinality(Custom)
  BY <1>2 DEF Again, Place
<1>4. Place(t)' \in Nat
  <2>1. TypeOK' /\ Counted'
    BY TypeStep, CountedStep DEF Next
  <2>2. d \in 0..k
    BY <2>1, FS_Subset, FS_CardinalityType DEF TypeOK
  <2>3. next'[t] \in 1..(n + 1) /\ first'[t] \in 1..next'[t]
    BY <1>1, <1>2, <2>1 DEF TypeOK, Counted
  <2> HIDE DEF n, f, i, c, k, d
  <2> QED
    BY <1>1, <1>3, <2>2, <2>3 DEF Steps
<1>5. ASSUME NEW l \in {"find", "wait", "clear", "nics", "idle", "list", "put"},
             pc[t] = l, pc'[t] \in {"done", "failed"}
      PROVE  Place(t)' < Place(t)
  <2> HIDE DEF n, f, i, c, k, d
  <2> QED
    BY <1>1, <1>3, <1>5 DEF Steps
<1>6. CASE FindCustom(t)
  <2>1. pc[t] = "find" /\ pc'[t] = "wait" /\ listed'[t] \subseteq Custom /\ faults' = faults /\ first' = first
    BY <1>6 DEF FindCustom, Goto, TypeOK
  <2>2. d \in 0..k
    BY <2>1, FS_Subset, FS_CardinalityType
  <2> HIDE DEF n, f, i, c, k, d
  <2> QED
    BY <1>1, <1>3, <1>4, <2>1, <2>2 DEF Nearer, Steps
<1>7. CASE DeleteCustom(t)
  <2>1. PICK x \in listed[t] : listed' = [listed EXCEPT ![t] = @ \ {x}]
    BY <1>7 DEF DeleteCustom
  <2>2. pc[t] = "clear" /\ pc'[t] = "clear" /\ faults' = faults /\ first' = first
    BY <1>7 DEF DeleteCustom
  <2>3. listed'[t] = listed[t] \ {x}
    BY <2>1 DEF TypeOK
  <2>4. d = c - 1
    BY <2>1, <2>3, ListedSize, FS_RemoveElement
  <2> HIDE DEF n, f, i, c, k, d
  <2> QED
    BY <1>1, <1>3, <1>4, <2>2, <2>4 DEF Nearer, Steps
<1>8. CASE AcquireClear(t) \/ ClearDone(t) \/ FindNic(t) \/ Acquire(t)
  <2>1. /\ faults' = faults /\ listed' = listed /\ first' = first /\ next' = next
        /\ \/ pc[t] = "wait" /\ pc'[t] = "clear"
           \/ pc[t] = "clear" /\ pc'[t] = "nics"
           \/ pc[t] = "nics" /\ pc'[t] = "idle"
           \/ pc[t] = "nics" /\ pc'[t] = "failed"
           \/ pc[t] = "idle" /\ pc'[t] = "list"
    BY <1>8 DEF AcquireClear, ClearDone, FindNic, ForNic, Acquire, Goto, TypeOK
  <2>2. d = c
    BY <2>1
  <2>3. pc[t] = "nics" => f = 1
    BY DEF Counted
  <2> HIDE DEF n, f, i, c, k, d
  <2> QED
    BY <1>1, <1>3, <1>4, <2>1, <2>2, <2>3, StepsAt DEF Nearer
<1>9. CASE ListRules(t)
  <2>1. pc[t] = "list" /\ pc'[t] = "put" /\ next'[t] = f /\ faults' = faults /\ first' = first
    BY <1>9 DEF ListRules, Goto, TypeOK
  <2> HIDE DEF n, f, i, c, k, d
  <2> QED
    BY <1>1, <1>3, <1>4, <2>1, StepsAt DEF Nearer
<1>10. CASE CreateRule(t)
  <2>1. pc[t] = "put" /\ pc'[t] = "put" /\ i <= n /\ next'[t] = i + 1 /\ faults' = faults /\ first' = first
    BY <1>10, PuttingIndex DEF CreateRule, TypeOK
  <2> HIDE DEF n, f, i, c, k, d
  <2> QED
    BY <1>1, <1>3, <1>4, <2>1, StepsAt DEF Nearer
<1>11. CASE RuleRefused(t)
  <2>1. pc[t] = "put" /\ pc'[t] = "failed" /\ faults' = faults
    BY <1>11 DEF RuleRefused, Putting, Goto, TypeOK
  <2> QED
    BY <1>3, <1>4, <1>5, <2>1 DEF Nearer
<1>12. CASE BatchDone(t)
  <2>1. /\ pc[t] = "put" /\ UNCHANGED <<listed, next, faults>>
        /\ first' = [first EXCEPT ![t] = next[t]]
    BY <1>12, BatchTarget
  <2>2. PICK l \in {"done", "idle", "failed"} : pc' = [pc EXCEPT ![t] = l] /\ (l = "done" => AllPut(t))
    BY <1>12, BatchTarget
  <2>3. pc'[t] = l /\ first'[t] = i /\ next'[t] = i
    BY <2>1, <2>2 DEF TypeOK
  <2>4. CASE l \in {"done", "failed"}
    BY <1>3, <1>4, <1>5, <2>1, <2>3, <2>4 DEF Nearer
  <2>5. CASE l = "idle"
    <3>1. i > f
      <4>1. ~AllPut(t)
        <5>1. AllPut(t) => pc'[t] = "done"
          BY <1>12 DEF BatchDone, Goto, TypeOK
        <5> QED
          BY <2>3, <2>5, <5>1
      <4> QED
        BY <1>12, <4>1 DEF BatchDone, Over
    <3> HIDE DEF n, f, i, c, k, d
    <3> QED
      BY <1>1, <1>3, <1>4, <2>1, <2>3, <2>5, <3>1, StepsAt DEF Nearer
  <2> QED
    BY <2>4, <2>5
<1>13. CASE CallFails(t)
  <2>1. pc[t] \in {"find", "clear", "nics", "list", "put"} /\ faults < MaxFaults /\ faults' = faults + 1
    BY <1>13 DEF CallFails, RetryFrom, Fault
  <2>2. pc'[t] \in {RetryFrom[pc[t]], "failed"}
    BY <1>13 DEF CallFails, Goto, TypeOK
  <2>3. /\ first' = first
        /\ \/ pc'[t] \in {"done", "failed"}
           \/ pc[t] \in {"find", "clear"} /\ pc'[t] = "find"
           \/ pc[t] \in {"list", "put"} /\ pc'[t] = "idle"
    BY <1>13, <2>1, <2>2 DEF RetryFrom, CallFails
  <2>4. Place(t) \in Nat /\ Again(t) \in Nat \ {0}
    <3> HIDE DEF n, f, i, c, k, d
    <3> QED
      BY <1>1, <1>3 DEF Steps
  <2>5. SUFFICES Place(t)' < Place(t) + Again(t)
    BY <1>3, <1>4, <2>1 DEF Nearer
  <2>6. CASE pc'[t] \in {"done", "failed"}
    BY <1>4, <1>5, <2>1, <2>4, <2>6
  <2>7. CASE pc[t] \in {"find", "clear"} /\ pc'[t] = "find"
    <3> HIDE DEF n, f, i, c, k, d
    <3>1. Place(t)' = 4 * n + k + 7
      BY <1>3, <2>7, StepsAt
    <3>2. Place(t) = 4 * n + k + 7 \/ Place(t) = 4 * n + c + 5
      BY <1>3, <2>7, StepsAt
    <3> QED
      BY <1>1, <1>3, <3>1, <3>2
  <2>8. CASE pc[t] \in {"list", "put"} /\ pc'[t] = "idle"
    <3> HIDE DEF n, f, i, c, k, d
    <3>1. Place(t)' = 4 * (n + 1 - f) + 3
      BY <1>3, <2>3, <2>8, StepsAt
    <3>2. Place(t) = 4 * (n + 1 - f) + 2 \/ Place(t) = 4 * (n + 1 - i) + IF i > f THEN 4 ELSE 1
      BY <1>3, <2>8, StepsAt
    <3> QED
      BY <1>1, <1>3, <3>1, <3>2
  <2> QED
    BY <2>3, <2>6, <2>7, <2>8
<1> QED
  BY <1>6, <1>7, <1>8, <1>9, <1>10, <1>11, <1>12, <1>13 DEF CreateRules, SetCustomRules

LEMMA OthersStay ==
  ASSUME TypeOK, [Next]_vars, NEW t \in Thread, ~(CreateRules(t) \/ SetCustomRules(t))
  PROVE  /\ Place(t)' = Place(t) /\ Again(t)' = Again(t)
         /\ faults' = faults \/ (faults < MaxFaults /\ faults' = faults + 1)
<1>1. CASE UNCHANGED vars \/ DeleteRule
  BY <1>1 DEF vars, DeleteRule, Place, Again
<1>2. ASSUME NEW u \in Thread \ {t}, CreateRules(u) \/ SetCustomRules(u)
      PROVE  /\ job' = job /\ (faults' = faults \/ Fault)
             /\ pc'[t] = pc[t] /\ first'[t] = first[t] /\ next'[t] = next[t] /\ listed'[t] = listed[t]
  <2>1. CASE CallFails(u)
    <3>1. /\ job' = job /\ Fault /\ first' = first
          /\ next' = [next EXCEPT ![u] = first[u]] /\ listed' = [listed EXCEPT ![u] = {}]
      BY <2>1 DEF CallFails, DropGenerator
    <3>2. PICK l : pc' = [pc EXCEPT ![u] = l]
      BY <2>1, RetryTarget
    <3>3. pc'[t] = pc[t] /\ next'[t] = next[t] /\ listed'[t] = listed[t]
      BY <3>1, <3>2 DEF TypeOK
    <3> QED
      BY <3>1, <3>3
  <2>2. CASE SetCustomRules(u)
    BY <2>2 DEF SetCustomRules, FindCustom, AcquireClear, DeleteCustom, ClearDone, FindNic, ForNic, Goto, TypeOK
  <2>3. CASE Acquire(u) \/ ListRules(u) \/ CreateRule(u) \/ RuleRefused(u)
    BY <2>3 DEF Acquire, ListRules, CreateRule, RuleRefused, DropGenerator, Goto, TypeOK
  <2>4. CASE BatchDone(u)
    <3>1. PICK l \in {"done", "idle", "failed"} : pc' = [pc EXCEPT ![u] = l]
      BY <2>4, BatchTarget
    <3>2. first' = [first EXCEPT ![u] = next[u]] /\ UNCHANGED <<job, listed, next, faults>>
      BY <2>4, BatchTarget
    <3> QED
      BY <3>1, <3>2 DEF TypeOK
  <2> QED
    BY <1>2, <2>1, <2>2, <2>3, <2>4 DEF CreateRules
<1> QED
  BY <1>1, <1>2 DEF Next, Place, Again, Fault

(* The rounds of retries that are left.                                      *)
LEMMA Rounds ==
  ASSUME NEW w \in Nat, NEW m \in Nat, NEW f \in 0..m
  PROVE  /\ w * (m - f) \in Nat
         /\ w * (m - f) <= w * m
         /\ w * (m - f) = w * (m - (f + 1)) + w
<1>1. \A x \in Nat : w * x \in Nat
  OBVIOUS
<1>2. w * m = w * (m - f) + w * f
  OBVIOUS
<1>3. w * (m - f) = w * (m - (f + 1)) + w
  OBVIOUS
<1>4. m - f \in Nat /\ f \in Nat
  OBVIOUS
<1> QED
  BY <1>1, <1>2, <1>3, <1>4

(* The calls and waits a caller still has before it are at most those of one  *)
(* round, which removes the custom rules of the machine and creates its rules *)
(* in the batches of the command, and of another for each call that fails;   *)
(* none is left only where it has ended.                                     *)
DistanceBounded ==
  \A t \in Thread : /\ Remaining(t) \in 0..(Again(t) * MaxFaults + Again(t) + 4)
                    /\ Remaining(t) = 0 => pc[t] \in {"done", "failed"}

THEOREM BatchesBounded == IsFiniteSet(Custom) => (Spec => []DistanceBounded)
<1> SUFFICES ASSUME IsFiniteSet(Custom) PROVE Spec => []DistanceBounded
  OBVIOUS
<1>1. ASSUME TypeOK, Counted, NEW t \in Thread
      PROVE  /\ Remaining(t) \in 0..(Again(t) * MaxFaults + Again(t) + 4)
             /\ Remaining(t) = 0 => pc[t] \in {"done", "failed"}
  <2>1. /\ Again(t) \in Nat /\ Place(t) \in 0..(Again(t) + 4)
        /\ Place(t) = 0 => pc[t] \in {"done", "failed"}
    BY <1>1, PlaceBounds
  <2>2. /\ Again(t) * (MaxFaults - faults) \in Nat /\ Again(t) * MaxFaults \in Nat
        /\ Again(t) * (MaxFaults - faults) <= Again(t) * MaxFaults
    BY <1>1, <2>1, Rounds, RulesAssumption DEF Counted
  <2> QED
    BY <2>1, <2>2 DEF Remaining
<1>2. TypeOK /\ Counted => DistanceBounded
  BY <1>1 DEF DistanceBounded
<1> QED
  BY <1>2, CountedInvariance, PTL

(* Every step of a caller leaves it fewer, and no step of another caller, nor *)
(* a deletion without the lock, gives it more: with the bound above, batches  *)
(* and their retries end.                                                    *)
DistanceShrinks ==
  \A t \in Thread : /\ Remaining(t)' <= Remaining(t)
                    /\ CreateRules(t) \/ SetCustomRules(t) => Remaining(t)' < Remaining(t)

THEOREM BatchesProgress == IsFiniteSet(Custom) => (Spec => [][DistanceShrinks]_vars)
<1> SUFFICES ASSUME IsFiniteSet(Custom) PROVE Spec => [][DistanceShrinks]_vars
  OBVIOUS
<1>1. ASSUME TypeOK, Counted, [Next]_vars, NEW t \in Thread
      PROVE  /\ Remaining(t)' <= Remaining(t)
             /\ CreateRules(t) \/ SetCustomRules(t) => Remaining(t)' < Remaining(t)
  <2>1. /\ Again(t) \in Nat /\ Place(t) \in Nat /\ MaxFaults \in Nat /\ faults \in 0..MaxFaults
    BY <1>1, PlaceBounds, RulesAssumption DEF Counted
  <2> DEFINE left == Again(t) * (MaxFaults - faults)
             then == Again(t) * (MaxFaults - (faults + 1))
  <2>2. left \in Nat /\ left = then + Again(t) /\ then \in Int
    BY <2>1, Rounds
  <2>3. /\ Remaining(t) = Place(t) + left
        /\ Again(t)' = Again(t) /\ faults' = faults => Remaining(t)' = Place(t)' + left
        /\ Again(t)' = Again(t) /\ faults' = faults + 1 => Remaining(t)' = Place(t)' + then
    BY DEF Remaining
  <2> HIDE DEF left, then
  <2>4. CASE CreateRules(t) \/ SetCustomRules(t)
    BY <1>1, <2>1, <2>2, <2>3, <2>4, StepsNearer DEF Nearer
  <2>5. CASE ~(CreateRules(t) \/ SetCustomRules(t))
    BY <1>1, <2>1, <2>2, <2>3, <2>5, OthersStay
  <2> QED
    BY <2>4, <2>5
<1>2. TypeOK /\ Counted /\ [Next]_vars => [DistanceShrinks]_vars
  BY <1>1 DEF DistanceShrinks
<1> QED
  BY <1>2, CountedInvariance, PTL DEF Spec
-----------------------------------------------------------------------------
(* The lock of a batch is never left behind: whoever is registered in it is   *)
(* inside, at work, and goes on without waiting for any other lock.          *)
HolderAtWork ==
  \A l \in Lock : \A t \in Thread : holder[l] = t => InBatch(t) /\ job[t].lock = l

THEOREM NoLockLeftBehind == Spec => []HolderAtWork
<1> USE DEF HolderAtWork, InBatch
<1>1. Init => HolderAtWork
  BY CallersAssumption DEF Init
<1>2. ASSUME TypeOK, HolderAtWork, [Next]_vars
      PROVE  HolderAtWork'
  <2> USE <1>2 DEF TypeOK
  <2>1. ASSUME NEW t \in Thread, Acquire(t) \/ AcquireClear(t)
        PROVE  HolderAtWork'
    <3>1. \A l \in Lock : holder[l] # t
      BY <2>1 DEF Acquire, AcquireClear
    <3>2. /\ holder' = [holder EXCEPT ![job[t].lock] = t] /\ job' = job
          /\ pc'[t] \in {"clear", "list"} /\ \A u \in Thread \ {t} : pc'[u] = pc[u]
      BY <2>1 DEF Acquire, AcquireClear, Goto
    <3>3. \A l \in Lock : holder'[l] = IF l = job[t].lock THEN t ELSE holder[l]
      BY <3>2
    <3> QED
      BY <3>1, <3>2, <3>3
  <2>2. ASSUME NEW t \in Thread,
               ListRules(t) \/ CreateRule(t) \/ FindCustom(t) \/ DeleteCustom(t) \/ FindNic(t)
        PROVE  HolderAtWork'
    BY <2>2 DEF ListRules, CreateRule, FindCustom, DeleteCustom, FindNic, ForNic, Goto
  <2>3. ASSUME NEW t \in Thread,
               RuleRefused(t) \/ CallFails(t) \/ BatchDone(t) \/ ClearDone(t)
        PROVE  HolderAtWork'
    <3>1. /\ job' = job /\ Unlock(t) /\ \A u \in Thread \ {t} : pc'[u] = pc[u]
      BY <2>3, BatchTarget DEF RuleRefused, CallFails, ClearDone, Goto
    <3>2. \A l \in Lock : holder'[l] = IF l = job[t].lock /\ holder[l] = t THEN NONE ELSE holder[l]
      BY <3>1 DEF Unlock
    <3> QED
      BY <3>1, <3>2, CallersAssumption
  <2>4. CASE DeleteRule \/ UNCHANGED vars
    BY <2>4 DEF DeleteRule, vars
  <2> QED
    BY <1>2, <2>1, <2>2, <2>3, <2>4 DEF Next, CreateRules, SetCustomRules
<1> QED
  BY <1>1, <1>2, TypeCorrect, PTL DEF Spec
=============================================================================
