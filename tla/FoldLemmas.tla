----------------------------- MODULE FoldLemmas -----------------------------
(***************************************************************************)
(* What the proofs about FoldLeft rest on.  A fold is a recursive function *)
(* on the sets of positions that are still to be taken; that there is such *)
(* a function, and what every result of it satisfies, is proved here once. *)
(* The step of the fold is a function F and what the results satisfy is a  *)
(* set of values for each set of positions, so that both can be named in a *)
(* lemma.                                                                  *)
(***************************************************************************)
EXTENDS Integers, Sequences, FiniteSets, SequencesExt, FiniteSetTheorems,
        WellFoundedInduction, TLAPS

\* A set of naturals that is not empty has a least element.
LEMMA LeastOf ==
  ASSUME NEW S \in SUBSET Nat, S # {}
  PROVE  \E i \in S : \A j \in S : i <= j
<1>1. PICK i \in S : \A j \in S : ~(<<j, i>> \in OpToRel(<, Nat))
  BY NatLessThanWellFounded, WFMin
<1>2. \A j \in S : ~(j < i)
  BY <1>1, Zenon DEF OpToRel
<1> QED
  BY <1>2

\* What holds of 0 and of k + 1 when it holds of k, for k < n, holds up to n: H
\* is the set of numbers of which it holds.
LEMMA UpTo ==
  ASSUME NEW n \in Nat, NEW H, 0 \in H,
         \A k \in 0..n : k # n /\ k \in H => k + 1 \in H
  PROVE  \A k \in 0..n : k \in H
<1> DEFINE Bad == {k \in 0..n : k \notin H}
<1> SUFFICES ASSUME Bad # {} PROVE FALSE
  OBVIOUS
<1>0. Bad \in SUBSET Nat
  OBVIOUS
<1>1. PICK i \in Bad : \A j \in Bad : i <= j
  <2> HIDE DEF Bad
  <2> QED BY <1>0, LeastOf
<1>2. i # 0 /\ i - 1 \in 0..n /\ i - 1 # n /\ i - 1 \notin Bad
  BY <1>1
<1> QED
  BY <1>2

\* The greatest position of a set that has k + 1 and none after it.
LEMMA MaxTop ==
  ASSUME NEW k \in Nat, NEW s \in SUBSET (1..(k + 1)), k + 1 \in s
  PROVE  Max(s) = k + 1 /\ s \ {Max(s)} \in SUBSET (1..k)
<1>1. \A y \in s : k + 1 >= y
  OBVIOUS
<1>2. \A x \in s : (\A y \in s : x >= y) => x = k + 1
  OBVIOUS
<1>3. Max(s) = k + 1
  BY <1>1, <1>2 DEF Max
<1> QED
  BY <1>3

\* The greatest position of a set is one of its positions.
LEMMA MaxIn ==
  ASSUME NEW n \in Nat, NEW s \in SUBSET (1..n), s # {}
  PROVE  Max(s) \in s /\ \A y \in s : y <= Max(s)
<1> DEFINE H == {k \in 0..n : \A t \in SUBSET (1..k) : t # {} => Max(t) \in t /\ \A y \in t : y <= Max(t)}
<1>1. 0 \in H
  <2>1. 0 \in 0..n /\ \A t \in SUBSET (1..0) : t = {}
    OBVIOUS
  <2> QED BY <2>1
<1>2. ASSUME NEW k \in 0..n, k # n, k \in H PROVE k + 1 \in H
  <2>1. ASSUME NEW t \in SUBSET (1..(k + 1)), t # {}
        PROVE  Max(t) \in t /\ \A y \in t : y <= Max(t)
    <3>1. CASE k + 1 \in t
      BY <3>1, MaxTop
    <3>2. CASE k + 1 \notin t
      <4>1. t \in SUBSET (1..k)
        BY <3>2
      <4> QED BY <1>2, <2>1, <4>1
    <3> QED BY <3>1, <3>2
  <2>2. k + 1 \in 0..n
    BY <1>2
  <2> QED BY <2>1, <2>2
<1>3. n \in H
  <2> HIDE DEF H
  <2> QED BY <1>1, <1>2, UpTo
<1> QED
  BY <1>3

\* A fold whose step F takes results for the positions before the last one to
\* results for all of them exists, and all its results are as T says.
IsFold(f, S, base, F) ==
  f = [s \in SUBSET S |-> IF s = {} THEN base ELSE F[<<f[s \ {Max(s)}], Max(s)>>]]

\* Such a function exists.
LEMMA FoldExists ==
  ASSUME NEW n \in Nat, NEW T, NEW base \in T[{}], NEW F,
         \A s \in SUBSET (1..n) : s # {} =>
           \A x \in T[s \ {Max(s)}] : F[<<x, Max(s)>>] \in T[s]
  PROVE  \E f : IsFold(f, 1..n, base, F) /\ \A s \in SUBSET (1..n) : f[s] \in T[s]
<1> DEFINE Good(f, k) == IsFold(f, 1..k, base, F) /\ \A s \in SUBSET (1..k) : f[s] \in T[s]
           H == {k \in 0..n : \E f : Good(f, k)}
<1>1. 0 \in H
  <2> DEFINE f == [s \in SUBSET (1..0) |-> base]
  <2>1. 0 \in 0..n /\ \A s \in SUBSET (1..0) : s = {}
    OBVIOUS
  <2>2. Good(f, 0)
    BY <2>1 DEF IsFold
  <2> HIDE DEF f, Good
  <2> QED BY <2>1, <2>2
<1>2. ASSUME NEW k \in 0..n, k # n, k \in H PROVE k + 1 \in H
  <2>1. PICK f : Good(f, k)
    BY <1>2
  <2> DEFINE g == [s \in SUBSET (1..(k + 1)) |->
                     IF k + 1 \in s THEN F[<<f[s \ {k + 1}], k + 1>>] ELSE f[s]]
  <2>2. k \in Nat /\ k + 1 \in 0..n /\ 1..k \subseteq 1..n /\ 1..(k + 1) \subseteq 1..n
    BY <1>2
  <2>3. ASSUME NEW s \in SUBSET (1..(k + 1)), k + 1 \notin s
        PROVE  s \in SUBSET (1..k) /\ g[s] = f[s]
    BY <2>2, <2>3
  <2>4. ASSUME NEW s \in SUBSET (1..(k + 1)), s # {}
        PROVE  g[s] = F[<<g[s \ {Max(s)}], Max(s)>>]
    <3>1. CASE k + 1 \in s
      <4>1. Max(s) = k + 1 /\ s \ {Max(s)} \in SUBSET (1..k)
        BY <2>2, <3>1, MaxTop
      <4>2. s \ {Max(s)} \in SUBSET (1..(k + 1)) /\ k + 1 \notin s \ {Max(s)}
        BY <4>1
      <4>3. g[s \ {Max(s)}] = f[s \ {Max(s)}]
        BY <2>3, <4>2
      <4> QED BY <3>1, <4>1, <4>3
    <3>2. CASE k + 1 \notin s
      <4>1. s \in SUBSET (1..k) /\ g[s] = f[s]
        BY <2>3, <3>2
      <4>2. s \ {Max(s)} \in SUBSET (1..(k + 1)) /\ k + 1 \notin s \ {Max(s)}
        BY <3>2
      <4>3. g[s \ {Max(s)}] = f[s \ {Max(s)}]
        BY <2>3, <4>2
      <4>4. f[s] = F[<<f[s \ {Max(s)}], Max(s)>>]
        BY <2>1, <2>4, <4>1 DEF IsFold
      <4> QED BY <4>1, <4>3, <4>4
    <3> QED BY <3>1, <3>2
  <2>5. g[{}] = base
    <3>1. {} \in SUBSET (1..(k + 1)) /\ {} \in SUBSET (1..k)
      OBVIOUS
    <3>2. f[{}] = base
      BY <2>1, <3>1 DEF IsFold
    <3> QED BY <3>1, <3>2
  <2>6. IsFold(g, 1..(k + 1), base, F)
    <3>1. \A s \in SUBSET (1..(k + 1)) :
            g[s] = IF s = {} THEN base ELSE F[<<g[s \ {Max(s)}], Max(s)>>]
      BY <2>4, <2>5
    <3>2. DOMAIN g = SUBSET (1..(k + 1)) /\ g = [s \in DOMAIN g |-> g[s]]
      OBVIOUS
    <3> HIDE DEF g
    <3> QED BY <3>1, <3>2 DEF IsFold
  <2>7. ASSUME NEW s \in SUBSET (1..(k + 1)) PROVE g[s] \in T[s]
    <3>1. CASE k + 1 \in s
      <4>1. Max(s) = k + 1 /\ s \ {Max(s)} \in SUBSET (1..k) /\ s # {}
        BY <2>2, <3>1, MaxTop
      <4>2. f[s \ {Max(s)}] \in T[s \ {Max(s)}]
        BY <2>1, <4>1
      <4>3. s \in SUBSET (1..n)
        BY <2>2
      <4>4. F[<<f[s \ {Max(s)}], Max(s)>>] \in T[s]
        BY <4>1, <4>2, <4>3
      <4> QED BY <3>1, <4>1, <4>4
    <3>2. CASE k + 1 \notin s
      BY <2>1, <2>3, <3>2
    <3> QED BY <3>1, <3>2
  <2>8. Good(g, k + 1)
    BY <2>6, <2>7
  <2> HIDE DEF g, Good
  <2> QED BY <2>2, <2>8
<1>3. n \in H
  <2> HIDE DEF H
  <2> QED BY <1>1, <1>2, UpTo
<1> QED
  BY <1>3

\* What the fold of nothing satisfies, and every step keeps, the fold satisfies.
LEMMA FoldKeeps ==
  ASSUME NEW n \in Nat, NEW T, NEW f, f[{}] \in T[{}],
         \A s \in SUBSET (1..n) : s # {} /\ f[s \ {Max(s)}] \in T[s \ {Max(s)}] => f[s] \in T[s]
  PROVE  f[1..n] \in T[1..n]
<1> DEFINE H == {k \in 0..n : f[1..k] \in T[1..k]}
<1>1. 0 \in H
  <2>1. 1..0 = {}
    OBVIOUS
  <2> QED BY <2>1
<1>2. ASSUME NEW k \in 0..n, k # n, k \in H PROVE k + 1 \in H
  <2>0. k \in Nat /\ k + 1 \in 0..n /\ k + 1 \in 1..(k + 1)
    BY <1>2
  <2>1. Max(1..(k + 1)) = k + 1
    BY <2>0, MaxTop
  <2>2. (1..(k + 1)) \ {k + 1} = 1..k /\ 1..(k + 1) \in SUBSET (1..n) /\ 1..(k + 1) # {}
    BY <2>0
  <2>3. f[1..(k + 1)] \in T[1..(k + 1)]
    BY <1>2, <2>1, <2>2
  <2> QED BY <2>0, <2>3
<1>3. n \in H
  <2> HIDE DEF H
  <2> QED BY <1>1, <1>2, UpTo
<1> QED
  BY <1>3

\* The same for a function that is defined along the numbers from a to n.
IsRecursion(f, a, n, base, F) ==
  f = [i \in a..n |-> IF i = a THEN base ELSE F[<<f[i - 1], i>>]]

\* Such a function exists.
LEMMA RecursionExists ==
  ASSUME NEW a \in Nat, NEW n \in Nat, a <= n, NEW T, NEW base \in T, NEW F,
         \A i \in (a + 1)..n : \A x \in T : F[<<x, i>>] \in T
  PROVE  \E f : IsRecursion(f, a, n, base, F) /\ f \in [a..n -> T]
<1> DEFINE Good(f, k) == IsRecursion(f, a, a + k, base, F) /\ f \in [a..(a + k) -> T]
           m == n - a
           H == {k \in 0..m : \E f : Good(f, k)}
<1>0. m \in Nat /\ a + m = n
  OBVIOUS
<1>1. 0 \in H
  <2> DEFINE f == [i \in a..(a + 0) |-> base]
  <2>1. Good(f, 0)
    BY DEF IsRecursion
  <2> HIDE DEF f, Good
  <2> QED BY <2>1
<1>2. ASSUME NEW k \in 0..m, k # m, k \in H PROVE k + 1 \in H
  <2>1. PICK f : Good(f, k)
    BY <1>2
  <2> DEFINE top == a + (k + 1)
             g == [i \in a..top |-> IF i = top THEN F[<<f[a + k], top>>] ELSE f[i]]
  <2>2. /\ k \in Nat /\ k + 1 \in 0..m /\ top \in (a + 1)..n /\ top - 1 = a + k
        /\ top # a /\ a + k \in a..(a + k) /\ top \in Nat
        /\ \A i \in a..top : i # top => i \in a..(a + k)
        /\ \A i \in a..top : i # a => i - 1 \in a..(a + k) /\ i - 1 # top /\ i - 1 \in a..top
    BY <1>0, <1>2
  <2> HIDE DEF top, m
  <2>3. g \in [a..top -> T]
    BY <2>1, <2>2
  <2>4. \A i \in a..(a + k) : f[i] = IF i = a THEN base ELSE F[<<f[i - 1], i>>]
    BY <2>1 DEF IsRecursion
  <2>5. \A i \in a..top : g[i] = IF i = a THEN base ELSE F[<<g[i - 1], i>>]
    <3> SUFFICES ASSUME NEW i \in a..top
                 PROVE  g[i] = IF i = a THEN base ELSE F[<<g[i - 1], i>>]
      OBVIOUS
    <3>1. CASE i = a
      BY <2>2, <2>4, <3>1
    <3>2. CASE i # a
      <4>1. g[i - 1] = f[i - 1]
        BY <2>2, <3>2
      <4>2. CASE i = top
        BY <2>2, <4>1, <4>2
      <4>3. CASE i # top
        BY <2>2, <2>4, <3>2, <4>1, <4>3
      <4> QED BY <4>2, <4>3
    <3> QED BY <3>1, <3>2
  <2>6. IsRecursion(g, a, top, base, F)
    <3>1. g = [i \in a..top |-> g[i]]
      BY <2>3
    <3> HIDE DEF g
    <3> QED BY <2>5, <3>1 DEF IsRecursion
  <2>7. Good(g, k + 1)
    BY <2>3, <2>6 DEF top
  <2> HIDE DEF g, Good
  <2> QED BY <2>2, <2>7
<1>3. m \in H
  <2> HIDE DEF H, m
  <2> QED BY <1>0, <1>1, <1>2, UpTo
<1> QED
  BY <1>0, <1>3

\* And what is kept from each number to the next holds at the last.
LEMMA RecursionKeeps ==
  ASSUME NEW a \in Nat, NEW n \in Nat, a <= n, NEW f, NEW T, f[a] \in T,
         \A i \in (a + 1)..n : f[i - 1] \in T => f[i] \in T
  PROVE  f[n] \in T
<1> DEFINE m == n - a
           H == {k \in 0..m : f[a + k] \in T}
<1>0. m \in Nat /\ a + m = n /\ a + 0 = a
  OBVIOUS
<1>1. 0 \in H
  BY <1>0
<1>2. ASSUME NEW k \in 0..m, k # m, k \in H PROVE k + 1 \in H
  <2>1. a + (k + 1) \in (a + 1)..n /\ (a + (k + 1)) - 1 = a + k /\ k + 1 \in 0..m
    BY <1>0, <1>2
  <2> QED BY <1>2, <2>1
<1>3. m \in H
  <2> HIDE DEF H, m
  <2> QED BY <1>0, <1>1, <1>2, UpTo
<1> QED
  BY <1>0, <1>3

\* FlattenSeq puts the sequences together one after the other.
LEMMA FlattenSteps ==
  ASSUME NEW S, NEW ss \in Seq(Seq(S)), Len(ss) # 0
  PROVE  \E g \in [1..Len(ss) -> Seq(S)] :
           /\ g[1] = ss[1] /\ g[Len(ss)] = FlattenSeq(ss)
           /\ \A i \in 2..Len(ss) : g[i] = g[i - 1] \o ss[i]
<1> DEFINE n == Len(ss)
           F == [x \in Seq(S) \X (1..n) |-> x[1] \o ss[x[2]]]
           flatten == CHOOSE f : f = [i \in 1..n |-> IF i = 1 THEN ss[i] ELSE f[i - 1] \o ss[i]]
<1>1. n \in Nat /\ 1 <= n /\ \A i \in 1..n : ss[i] \in Seq(S)
  OBVIOUS
<1>c. \A x, y \in Seq(S) : x \o y \in Seq(S)
  OBVIOUS
<1> HIDE DEF n
<1>2. \A x \in Seq(S), i \in 1..n : F[<<x, i>>] = x \o ss[i] /\ F[<<x, i>>] \in Seq(S)
  BY <1>1, <1>c, Zenon
<1>3. \A i \in (1 + 1)..n : i \in 1..n /\ i # 1 /\ i - 1 \in 1..n
  BY <1>1
<1>4. PICK f : IsRecursion(f, 1, n, ss[1], F) /\ f \in [1..n -> Seq(S)]
  <2> HIDE DEF F
  <2>1. ss[1] \in Seq(S)
    BY <1>1
  <2>2. \A i \in (1 + 1)..n : \A x \in Seq(S) : F[<<x, i>>] \in Seq(S)
    BY <1>2, <1>3
  <2> QED BY <1>1, <2>1, <2>2, RecursionExists
<1>5. f = [i \in 1..n |-> IF i = 1 THEN ss[i] ELSE f[i - 1] \o ss[i]]
  <2>1. \A i \in 1..n : i # 1 => i - 1 \in 1..n
    BY <1>1
  <2>2. \A i \in 1..n : f[i] = IF i = 1 THEN ss[i] ELSE f[i - 1] \o ss[i]
    BY <1>2, <1>4, <2>1 DEF IsRecursion
  <2>3. f = [i \in 1..n |-> f[i]]
    BY <1>4
  <2> QED BY <2>2, <2>3
<1>6. flatten = [i \in 1..n |-> IF i = 1 THEN ss[i] ELSE flatten[i - 1] \o ss[i]]
  BY <1>5
<1>7. FlattenSeq(ss) = flatten[n]
  BY DEF FlattenSeq, n
<1> HIDE DEF flatten, F
<1>8. /\ flatten[1] = ss[1] /\ \A i \in 2..n : flatten[i] = flatten[i - 1] \o ss[i]
      /\ flatten = [i \in 1..n |-> flatten[i]]
  <2>1. \A i \in 1..n : flatten[i] = IF i = 1 THEN ss[i] ELSE flatten[i - 1] \o ss[i]
    BY <1>6, Zenon
  <2>2. 1 \in 1..n /\ \A i \in 2..n : i \in 1..n /\ i # 1
    BY <1>1
  <2>3. flatten = [i \in 1..n |-> flatten[i]]
    BY <1>6, <2>1
  <2> QED BY <2>1, <2>2, <2>3, Zenon
<1>9. \A i \in 1..n : flatten[i] \in Seq(S)
  <2> DEFINE H == {k \in 0..(n - 1) : flatten[k + 1] \in Seq(S)}
  <2>1. n - 1 \in Nat /\ 0 \in H
    BY <1>1, <1>8
  <2>2. ASSUME NEW k \in 0..(n - 1), k # n - 1, k \in H PROVE k + 1 \in H
    <3>1. (k + 1) + 1 \in 2..n /\ ((k + 1) + 1) - 1 = k + 1 /\ k + 1 \in 0..(n - 1)
          /\ (k + 1) + 1 \in 1..n
      BY <1>1, <2>2
    <3>2. flatten[(k + 1) + 1] = flatten[k + 1] \o ss[(k + 1) + 1]
      BY <1>8, <3>1
    <3>3. flatten[k + 1] \in Seq(S) /\ ss[(k + 1) + 1] \in Seq(S)
      BY <1>1, <2>2, <3>1
    <3>4. flatten[(k + 1) + 1] \in Seq(S)
      BY <1>c, <3>2, <3>3
    <3> QED BY <3>1, <3>4
  <2>3. \A k \in 0..(n - 1) : k \in H
    <3> HIDE DEF H
    <3> QED BY <2>1, <2>2, UpTo
  <2>4. \A i \in 1..n : i - 1 \in 0..(n - 1) /\ (i - 1) + 1 = i
    BY <1>1
  <2> QED BY <2>3, <2>4
<1>10. flatten \in [1..n -> Seq(S)]
  BY <1>8, <1>9
<1> QED
  BY <1>7, <1>8, <1>10 DEF n

\* They are together a sequence over S.
LEMMA Flattened ==
  ASSUME NEW S, NEW ss \in Seq(Seq(S))
  PROVE  FlattenSeq(ss) \in Seq(S)
<1>1. CASE Len(ss) = 0
  <2>1. ss = <<>>
    BY <1>1
  <2> QED BY <1>1, <2>1 DEF FlattenSeq
<1>2. CASE Len(ss) # 0
  <2>1. PICK g \in [1..Len(ss) -> Seq(S)] : g[Len(ss)] = FlattenSeq(ss)
    BY <1>2, FlattenSteps
  <2>2. Len(ss) \in 1..Len(ss)
    BY <1>2
  <2> QED BY <2>1, <2>2
<1> QED
  BY <1>1, <1>2

\* What two sequences hold together.
LEMMA ConcatSet ==
  ASSUME NEW S, NEW x \in Seq(S), NEW y \in Seq(S)
  PROVE  ToSet(x \o y) = ToSet(x) \cup ToSet(y)
<1>1. /\ Len(x) \in Nat /\ Len(y) \in Nat /\ Len(x \o y) = Len(x) + Len(y)
      /\ DOMAIN x = 1..Len(x) /\ DOMAIN y = 1..Len(y) /\ DOMAIN (x \o y) = 1..(Len(x) + Len(y))
      /\ \A i \in 1..Len(x) : (x \o y)[i] = x[i]
      /\ \A i \in 1..Len(y) : (x \o y)[Len(x) + i] = y[i]
  OBVIOUS
<1> DEFINE a == Len(x)
           b == Len(y)
           z == x \o y
<1> HIDE DEF a, b, z
<1>2. /\ a \in Nat /\ b \in Nat /\ DOMAIN x = 1..a /\ DOMAIN y = 1..b /\ DOMAIN z = 1..(a + b)
      /\ \A i \in 1..a : z[i] = x[i]
      /\ \A i \in 1..b : z[a + i] = y[i]
  BY <1>1 DEF a, b, z
<1>3. /\ \A i \in 1..(a + b) : i \in 1..a \/ (i - a \in 1..b /\ a + (i - a) = i)
      /\ \A i \in 1..a : i \in 1..(a + b)
      /\ \A i \in 1..b : a + i \in 1..(a + b)
  BY <1>2
<1>4. ToSet(z) = ToSet(x) \cup ToSet(y)
  <2>1. \A v : (\E i \in 1..(a + b) : v = z[i]) <=> (\E i \in 1..a : v = x[i]) \/ (\E i \in 1..b : v = y[i])
    <3>1. ASSUME NEW i \in 1..(a + b)
          PROVE  (\E j \in 1..a : z[i] = x[j]) \/ (\E j \in 1..b : z[i] = y[j])
      <4>1. CASE i \in 1..a
        BY <1>2, <4>1
      <4>2. CASE i - a \in 1..b /\ a + (i - a) = i
        <5>1. z[a + (i - a)] = y[i - a]
          BY <1>2, <4>2
        <5> QED BY <4>2, <5>1
      <4> QED BY <1>3, <4>1, <4>2
    <3>2. ASSUME NEW i \in 1..a PROVE \E j \in 1..(a + b) : x[i] = z[j]
      BY <1>2, <1>3
    <3>3. ASSUME NEW i \in 1..b PROVE \E j \in 1..(a + b) : y[i] = z[j]
      BY <1>2, <1>3
    <3> SUFFICES ASSUME NEW v
                 PROVE  (\E i \in 1..(a + b) : v = z[i])
                          <=> (\E i \in 1..a : v = x[i]) \/ (\E i \in 1..b : v = y[i])
      OBVIOUS
    <3>4. CASE \E i \in 1..(a + b) : v = z[i]
      BY <3>1, <3>4
    <3>5. CASE \E i \in 1..a : v = x[i]
      BY <3>2, <3>5
    <3>6. CASE \E i \in 1..b : v = y[i]
      BY <3>3, <3>6
    <3> QED BY <3>4, <3>5, <3>6
  <2>2. /\ ToSet(z) = {z[i] : i \in 1..(a + b)}
        /\ ToSet(x) = {x[i] : i \in 1..a} /\ ToSet(y) = {y[i] : i \in 1..b}
    BY <1>2, Zenon DEF ToSet
  <2> QED BY <2>1, <2>2
<1> QED
  BY <1>4 DEF z

\* A flattened sequence holds what its sequences hold.
LEMMA FlattenedSet ==
  ASSUME NEW S, NEW ss \in Seq(Seq(S))
  PROVE  \A x : x \in ToSet(FlattenSeq(ss)) <=> \E i \in 1..Len(ss) : x \in ToSet(ss[i])
<1>1. CASE Len(ss) = 0
  <2>1. ss = <<>>
    BY <1>1
  <2>2. FlattenSeq(ss) = <<>> /\ 1..Len(ss) = {}
    BY <1>1, <2>1 DEF FlattenSeq
  <2> QED BY <2>2 DEF ToSet
<1>2. CASE Len(ss) # 0
  <2> DEFINE n == Len(ss)
             Held(k) == UNION {ToSet(ss[i]) : i \in 1..k}
  <2>0. n \in Nat /\ 1 <= n /\ \A i \in 1..n : ss[i] \in Seq(S)
    BY <1>2
  <2>1. PICK g \in [1..n -> Seq(S)] : /\ g[1] = ss[1] /\ g[n] = FlattenSeq(ss)
                                      /\ \A i \in 2..n : g[i] = g[i - 1] \o ss[i]
    BY <1>2, FlattenSteps
  <2> HIDE DEF n
  <2>2. ToSet(g[1]) = Held(1)
    <3>1. 1..1 = {1}
      OBVIOUS
    <3> QED BY <2>1, <3>1
  <2>3. ASSUME NEW i \in 2..n PROVE ToSet(g[i]) = ToSet(g[i - 1]) \cup ToSet(ss[i])
    <3>1. i \in 1..n /\ i - 1 \in 1..n
      BY <2>0
    <3>2. g[i - 1] \in Seq(S) /\ ss[i] \in Seq(S) /\ g[i] = g[i - 1] \o ss[i]
      BY <2>0, <2>1, <3>1
    <3> QED BY <3>2, ConcatSet
  <2>4. ASSUME NEW i \in 2..n PROVE Held(i) = Held(i - 1) \cup ToSet(ss[i])
    <3>1. i \in Nat /\ \A j \in 1..i : j \in 1..(i - 1) \/ j = i
      BY <2>0
    <3>2. i \in 1..i /\ \A j \in 1..(i - 1) : j \in 1..i
      BY <2>0, <3>1
    <3>3. \A x : (\E j \in 1..i : x \in ToSet(ss[j]))
                   <=> (\E j \in 1..(i - 1) : x \in ToSet(ss[j])) \/ x \in ToSet(ss[i])
      BY <3>1, <3>2
    <3> QED BY <3>3
  <2> HIDE DEF Held
  <2> DEFINE H == {k \in 0..(n - 1) : ToSet(g[k + 1]) = Held(k + 1)}
  <2>5. n - 1 \in Nat /\ 0 \in H
    BY <2>0, <2>2
  <2>6. ASSUME NEW k \in 0..(n - 1), k # n - 1, k \in H PROVE k + 1 \in H
    <3>1. (k + 1) + 1 \in 2..n /\ ((k + 1) + 1) - 1 = k + 1 /\ k + 1 \in 0..(n - 1)
      BY <2>0, <2>6
    <3>2. /\ ToSet(g[(k + 1) + 1]) = ToSet(g[k + 1]) \cup ToSet(ss[(k + 1) + 1])
          /\ Held((k + 1) + 1) = Held(k + 1) \cup ToSet(ss[(k + 1) + 1])
      BY <2>3, <2>4, <3>1
    <3>3. ToSet(g[k + 1]) = Held(k + 1)
      BY <2>6
    <3> QED BY <3>1, <3>2, <3>3
  <2>7. \A k \in 0..(n - 1) : k \in H
    <3> HIDE DEF H
    <3> QED BY <2>5, <2>6, UpTo
  <2>8. n - 1 \in 0..(n - 1) /\ (n - 1) + 1 = n
    BY <2>0
  <2>9. ToSet(FlattenSeq(ss)) = Held(n)
    BY <2>1, <2>7, <2>8
  <2> QED BY <2>9 DEF n, Held
<1> QED
  BY <1>1, <1>2

\* A list of the elements of S, each of them once.
IsListing(f, m, S) ==
  /\ m \in Nat /\ f \in [1..m -> S]
  /\ \A i, j \in 1..m : f[i] = f[j] => i = j
  /\ \A x \in S : \E i \in 1..m : f[i] = x

\* SetToSeq lists the elements of a finite set.
LEMMA ListedOnce ==
  ASSUME NEW S, IsFiniteSet(S)
  PROVE  IsListing(SetToSeq(S), Cardinality(S), S)
<1> DEFINE m == Cardinality(S)
           f == SetToSeq(S)
<1>1. m \in Nat /\ ExistsBijection(1..m, S)
  BY FS_CardinalityType
<1>2. \E g \in [1..m -> S] : IsInjective(g)
  BY <1>1 DEF ExistsBijection, Bijection, Injection, IsInjective
<1>3. f \in [1..m -> S] /\ IsInjective(f)
  BY <1>2 DEF SetToSeq
<1>4. f \in Injection(1..m, S)
  BY <1>3, Zenon DEF Injection
<1>5. IsFiniteSet(1..m) /\ Cardinality(1..m) = m
  BY <1>1, FS_Interval
<1> HIDE DEF f
<1>6. f \in Surjection(1..m, S)
  BY <1>4, <1>5, FS_Injection
<1>7. \A x \in S : \E i \in 1..m : f[i] = x
  BY <1>6 DEF Surjection
<1>8. \A i, j \in 1..m : f[i] = f[j] => i = j
  BY <1>3 DEF IsInjective
<1> QED
  BY <1>1, <1>3, <1>7, <1>8 DEF f, IsListing

\* So they make a sequence over the set.
LEMMA Listed ==
  ASSUME NEW S, IsFiniteSet(S)
  PROVE  SetToSeq(S) \in Seq(S)
<1> DEFINE f == SetToSeq(S)
<1>1. Cardinality(S) \in Nat /\ f \in [1..Cardinality(S) -> S]
  BY ListedOnce, Zenon DEF IsListing
<1> HIDE DEF f
<1>2. f \in Seq(S)
  BY <1>1
<1> QED
  BY <1>2 DEF f

\* A fold whose step stays in V exists, and its results are in V.
LEMMA FoldExistsIn ==
  ASSUME NEW n \in Nat, NEW V, NEW base \in V, NEW F,
         \A x \in V, i \in 1..n : F[<<x, i>>] \in V
  PROVE  \E f : IsFold(f, 1..n, base, F) /\ \A s \in SUBSET (1..n) : f[s] \in V
<1> DEFINE T == [s \in SUBSET (1..n) |-> V]
<1>1. \A s \in SUBSET (1..n) : T[s] = V /\ s \ {Max(s)} \in SUBSET (1..n)
  OBVIOUS
<1>2. \A s \in SUBSET (1..n) : s # {} => Max(s) \in 1..n
  BY MaxIn
<1> HIDE DEF T
<1>3. base \in T[{}]
  BY <1>1
<1>4. \A s \in SUBSET (1..n) : s # {} => \A x \in T[s \ {Max(s)}] : F[<<x, Max(s)>>] \in T[s]
  BY <1>1, <1>2
<1>5. \E f : IsFold(f, 1..n, base, F) /\ \A s \in SUBSET (1..n) : f[s] \in T[s]
  BY <1>3, <1>4, FoldExists
<1> QED
  BY <1>1, <1>5

\* iter is a fold as long as its results are in V.
FoldsIn(iter, n, base, F, V) ==
  /\ n \in Nat /\ base \in V /\ iter[{}] = base
  /\ \A x \in V, i \in 1..n : F[<<x, i>>] \in V
  /\ \A s \in SUBSET (1..n) : s # {} /\ iter[s \ {Max(s)}] \in V
       => iter[s] = F[<<iter[s \ {Max(s)}], Max(s)>>]

\* Then its result is reached in n steps.
LEMMA FoldSteps ==
  ASSUME NEW n, NEW V, NEW base, NEW F, NEW iter, FoldsIn(iter, n, base, F, V)
  PROVE  \E g \in [0..n -> V] : /\ g[0] = base /\ g[n] = iter[1..n]
                                /\ \A k \in 1..n : g[k] = F[<<g[k - 1], k>>]
<1> DEFINE g == [k \in 0..n |-> iter[1..k]]
           H == {k \in 0..n : iter[1..k] \in V}
<1>0. /\ n \in Nat /\ base \in V /\ iter[{}] = base
      /\ \A x \in V, i \in 1..n : F[<<x, i>>] \in V
      /\ \A s \in SUBSET (1..n) : s # {} /\ iter[s \ {Max(s)}] \in V
           => iter[s] = F[<<iter[s \ {Max(s)}], Max(s)>>]
  BY DEF FoldsIn
<1>1. ASSUME NEW k \in 0..n, k # n
      PROVE  /\ Max(1..(k + 1)) = k + 1 /\ (1..(k + 1)) \ {k + 1} = 1..k
             /\ 1..(k + 1) \in SUBSET (1..n) /\ 1..(k + 1) # {} /\ k + 1 \in 1..n /\ k + 1 \in 0..n
  <2>1. k \in Nat /\ k + 1 \in 1..(k + 1) /\ 1..(k + 1) \in SUBSET (1..(k + 1))
    BY <1>1
  <2>2. Max(1..(k + 1)) = k + 1
    BY <2>1, MaxTop
  <2>3. (1..(k + 1)) \ {k + 1} = 1..k
    BY <2>1
  <2> QED BY <1>0, <1>1, <2>1, <2>2, <2>3
<1>2. 0 \in H
  <2>1. 1..0 = {}
    OBVIOUS
  <2> QED BY <1>0, <2>1
<1>3. ASSUME NEW k \in 0..n, k # n, k \in H PROVE k + 1 \in H
  <2>1. iter[1..(k + 1)] = F[<<iter[1..k], k + 1>>]
    BY <1>0, <1>1, <1>3
  <2> QED BY <1>0, <1>1, <1>3, <2>1
<1>4. \A k \in 0..n : k \in H
  <2> HIDE DEF H
  <2> QED BY <1>0, <1>2, <1>3, UpTo
<1>5. g \in [0..n -> V]
  BY <1>4
<1>6. g[0] = base /\ g[n] = iter[1..n]
  <2>1. 1..0 = {}
    OBVIOUS
  <2> QED BY <1>0, <2>1
<1>7. ASSUME NEW k \in 1..n PROVE g[k] = F[<<g[k - 1], k>>]
  <2>1. k - 1 \in 0..n /\ k - 1 # n /\ (k - 1) + 1 = k
    BY <1>0
  <2>2. iter[1..k] = F[<<iter[1..(k - 1)], k>>]
    <3>1. iter[1..(k - 1)] \in V
      BY <1>4, <2>1
    <3>2. /\ Max(1..k) = k /\ (1..k) \ {k} = 1..(k - 1) /\ 1..k \in SUBSET (1..n) /\ 1..k # {}
      BY <1>1, <2>1
    <3> QED BY <1>0, <3>1, <3>2
  <2> QED BY <2>1, <2>2
<1> HIDE DEF g
<1> QED
  BY <1>5, <1>6, <1>7
=============================================================================
