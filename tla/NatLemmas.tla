----------------------------- MODULE NatLemmas -----------------------------
(* Least and greatest members of sets of numbers, and induction over the     *)
(* members of a set: what the proofs about loops, jumps and cursors rest on; *)
(* and what a text is that is put together, or cut.                          *)
EXTENDS Integers, Sequences, SequenceTheorems, WellFoundedInduction, TLAPS

\* A set of numbers has a least one.
LEMMA LeastNat ==
  ASSUME NEW T, T \subseteq Nat, T # {}
  PROVE  \E x \in T : \A y \in T : x <= y
<1> DEFINE R == {ss \in Nat \X Nat : ss[1] < ss[2]}
<1>1. IsWellFoundedOn(R, Nat)
  BY NatLessThanWellFounded DEF OpToRel
<1>2. \A x, y \in Nat : y < x => <<y, x>> \in R
  OBVIOUS
<1> HIDE DEF R
<1>3. PICK x \in T : \A y \in T : ~ (<<y, x>> \in R)
  BY <1>1, WFMin
<1>4. \A y \in T : ~ (y < x)
  BY <1>2, <1>3, Zenon
<1>5. x \in Nat /\ \A y \in T : y \in Nat
  OBVIOUS
<1>6. \A y \in T : x <= y
  BY <1>4, <1>5
<1> QED BY <1>6

\* A set of numbers of which none is above n has a greatest one.
LEMMA GreatestBelow ==
  ASSUME NEW n \in Nat, NEW T, T \subseteq 0 .. n, T # {}
  PROVE  \E x \in T : \A y \in T : y <= x
<1> DEFINE D == {k \in Nat : \E x \in T : k = n - x}
<1>0. \A x \in T : x \in Nat /\ n - x \in Nat
  OBVIOUS
<1>1. D \subseteq Nat /\ D # {}
  BY <1>0
<1>2. PICK d \in D : \A e \in D : d <= e
  BY <1>1, LeastNat
<1>3. PICK x \in T : d = n - x
  OBVIOUS
<1>4. \A y \in T : n - y \in D
  BY <1>0
<1>5. \A y \in T : n - x <= n - y
  BY <1>2, <1>3, <1>4
<1>6. \A y \in T : y <= x
  BY <1>0, <1>5
<1> QED BY <1>6

\* A set that has 0, and with every number the next, has all of them.
LEMMA NatInd ==
  ASSUME NEW S, 0 \in S, \A n \in Nat : n \in S => n + 1 \in S
  PROVE  Nat \subseteq S
<1> DEFINE T == {n \in Nat : n \notin S}
<1>1. SUFFICES ASSUME T # {} PROVE FALSE
  OBVIOUS
<1>2. PICK x \in T : \A y \in T : x <= y
  BY <1>1, LeastNat
<1>3. x \in Nat /\ x # 0 /\ x \notin S
  OBVIOUS
<1>4. x - 1 \in Nat /\ (x - 1) + 1 = x /\ ~(x <= x - 1)
  BY <1>3
<1>5. x - 1 \in S
  BY <1>2, <1>4
<1> QED BY <1>3, <1>4, <1>5

\* What grows from each to the next grows.
LEMMA Rises ==
  ASSUME NEW n \in Nat, NEW g \in [1 .. n -> Nat], \A i \in 1 .. n : i < n => g[i] < g[i + 1],
         NEW i \in 1 .. n, NEW j \in 1 .. n, i < j
  PROVE  g[i] < g[j]
<1> DEFINE Good == {r \in Nat : i + (r + 1) <= n => g[i] < g[i + (r + 1)]}
<1>1. 0 \in Good
  <2> SUFFICES ASSUME i + (0 + 1) <= n PROVE g[i] < g[i + (0 + 1)]
    OBVIOUS
  <2>1. i < n /\ i + (0 + 1) = i + 1
    OBVIOUS
  <2> QED BY <2>1
<1>2. ASSUME NEW r \in Nat, r \in Good PROVE r + 1 \in Good
  <2> SUFFICES ASSUME i + ((r + 1) + 1) <= n PROVE g[i] < g[i + ((r + 1) + 1)]
    OBVIOUS
  <2> DEFINE k == i + (r + 1)
             m == i + ((r + 1) + 1)
  <2>1. k \in 1 .. n /\ k < n /\ m = k + 1 /\ m \in 1 .. n
    OBVIOUS
  <2>2. g[i] < g[k]
    BY <1>2, <2>1
  <2> HIDE DEF k, m
  <2>3. g[k] < g[m]
    BY <2>1
  <2>4. g[i] \in Nat /\ g[k] \in Nat /\ g[m] \in Nat
    BY <2>1
  <2>5. g[i] < g[m]
    BY <2>2, <2>3, <2>4
  <2> QED BY <2>5 DEF m
<1>3. Nat \subseteq Good
  <2> HIDE DEF Good
  <2> QED BY <1>1, <1>2, NatInd
<1>4. (j - i) - 1 \in Nat /\ i + (((j - i) - 1) + 1) = j
  OBVIOUS
<1>5. i + (((j - i) - 1) + 1) <= n
  BY <1>4
<1> QED BY <1>3, <1>4, <1>5

\* f is the function on the numbers up to n that has the value start at 0 and of which
\* step says how each value is made of the one before.
Recursive(f, start, step, n) ==
  f = [k \in 0 .. n |-> IF k = 0 THEN start ELSE step[k][f[k - 1]]]

\* There is one.
LEMMA Recursion ==
  ASSUME NEW S, NEW start \in S, NEW n \in Nat, NEW step \in [1 .. n -> [S -> S]]
  PROVE  \E f \in [0 .. n -> S] : Recursive(f, start, step, n)
<1> DEFINE Rounds(f, m) == /\ f \in [0 .. m -> S] /\ f[0] = start
                           /\ \A k \in 1 .. m : f[k] = step[k][f[k - 1]]
           Can == {m \in Nat : m <= n => \E f : Rounds(f, m)}
<1>1. 0 \in Can
  <2>1. Rounds([k \in 0 .. 0 |-> start], 0)
    OBVIOUS
  <2> QED BY <2>1, Zenon
<1>2. ASSUME NEW m \in Nat, m \in Can PROVE m + 1 \in Can
  <2> SUFFICES ASSUME m + 1 <= n PROVE \E f : Rounds(f, m + 1)
    OBVIOUS
  <2>1. PICK f : Rounds(f, m)
    BY <1>2
  <2> DEFINE g == [k \in 0 .. m + 1 |-> IF k = m + 1 THEN step[m + 1][f[m]] ELSE f[k]]
  <2>2. f[m] \in S /\ step[m + 1][f[m]] \in S
    BY <2>1
  <2>3. g \in [0 .. m + 1 -> S] /\ g[0] = start
    BY <2>1, <2>2
  <2>4. ASSUME NEW k \in 1 .. m + 1 PROVE g[k] = step[k][g[k - 1]]
    <3>1. k - 1 \in 0 .. m /\ g[k - 1] = f[k - 1]
      BY <2>4
    <3>2. CASE k = m + 1
      BY <3>1, <3>2
    <3>3. CASE k # m + 1
      <4>1. k \in 1 .. m /\ g[k] = f[k]
        BY <3>3
      <4> QED BY <4>1, <3>1, <2>1
    <3> QED BY <3>2, <3>3
  <2>5. Rounds(g, m + 1)
    <3> HIDE DEF g
    <3> QED BY <2>3, <2>4
  <2> QED BY <2>5, Zenon
<1>3. n \in Can
  <2> HIDE DEF Can
  <2> QED BY <1>1, <1>2, NatInd
<1>4. PICK f : Rounds(f, n)
  BY <1>3
<1>5. \A k \in 0 .. n : f[k] = IF k = 0 THEN start ELSE step[k][f[k - 1]]
  <2> SUFFICES ASSUME NEW k \in 0 .. n, k # 0 PROVE f[k] = step[k][f[k - 1]]
    BY <1>4
  <2>1. k \in 1 .. n
    OBVIOUS
  <2> QED BY <2>1, <1>4
<1>6. Recursive(f, start, step, n)
  BY <1>4, <1>5 DEF Recursive
<1> QED BY <1>4, <1>6, Zenon

\* step says how each value is made of those for greater numbers; above n, of nothing.
Downward(S, n, step) ==
  /\ step \in [Nat -> [[Nat -> S] -> S]]
  /\ \A i \in Nat : \A f, g \in [Nat -> S] :
       (\A j \in Nat : j > i => f[j] = g[j]) => step[i][f] = step[i][g]
  /\ \A i \in Nat : \A f, g \in [Nat -> S] : i > n => step[i][f] = step[i][g]

\* Such a function there is, too.
LEMMA RecursionDown ==
  ASSUME NEW S, NEW some \in S, NEW n \in Nat, NEW step, Downward(S, n, step)
  PROVE  \E f \in [Nat -> S] : f = [i \in Nat |-> step[i][f]]
<1>d. /\ step \in [Nat -> [[Nat -> S] -> S]]
      /\ \A i \in Nat : \A f, g \in [Nat -> S] :
           (\A j \in Nat : j > i => f[j] = g[j]) => step[i][f] = step[i][g]
      /\ \A i \in Nat : \A f, g \in [Nat -> S] : i > n => step[i][f] = step[i][g]
  BY Zenon DEF Downward
<1> DEFINE Done(f, m) == f \in [Nat -> S] /\ \A i \in Nat : i + m > n => f[i] = step[i][f]
           Can == {m \in Nat : \E f : Done(f, m)}
<1>1. 0 \in Can
  <2> DEFINE c == [i \in Nat |-> some]
             f == [i \in Nat |-> step[i][c]]
  <2>1. c \in [Nat -> S]
    OBVIOUS
  <2> HIDE DEF c
  <2>2. f \in [Nat -> S] /\ \A i \in Nat : f[i] = step[i][c]
    BY <1>d, <2>1
  <2> HIDE DEF f
  <2>3. ASSUME NEW i \in Nat, i + 0 > n PROVE f[i] = step[i][f]
    <3>1. i > n
      BY <2>3
    <3>2. step[i][c] = step[i][f]
      BY <1>d, <3>1, <2>1, <2>2
    <3> QED BY <3>2, <2>2
  <2>4. Done(f, 0)
    BY <2>2, <2>3
  <2> QED BY <2>4, Zenon
<1>2. ASSUME NEW m \in Nat, m \in Can PROVE m + 1 \in Can
  <2>1. PICK f : Done(f, m)
    BY <1>2
  <2> DEFINE g == [i \in Nat |-> step[i][f]]
  <2>2. g \in [Nat -> S] /\ \A i \in Nat : g[i] = step[i][f]
    BY <1>d, <2>1
  <2> HIDE DEF g
  <2>3. ASSUME NEW i \in Nat, i + (m + 1) > n PROVE g[i] = step[i][g]
    <3>1. ASSUME NEW j \in Nat, j > i PROVE f[j] = g[j]
      <4>1. j + m > n
        BY <2>3, <3>1
      <4> QED BY <4>1, <2>1, <2>2
    <3>2. step[i][f] = step[i][g]
      BY <1>d, <3>1, <2>1, <2>2
    <3> QED BY <3>2, <2>2
  <2>4. Done(g, m + 1)
    BY <2>2, <2>3
  <2> QED BY <2>4, m + 1 \in Nat, Zenon
<1>3. n + 1 \in Can
  <2> HIDE DEF Can
  <2> QED BY <1>1, <1>2, NatInd
<1>4. PICK f : Done(f, n + 1)
  BY <1>3
<1>5. \A i \in Nat : f[i] = step[i][f]
  BY <1>4
<1>6. f = [i \in Nat |-> step[i][f]]
  BY <1>4, <1>5
<1> QED BY <1>4, <1>6

\* step says how each value is made of those at places of a lesser measure.
Measured(D, S, m, step) ==
  /\ m \in [D -> Nat] /\ step \in [D -> [[D -> S] -> S]]
  /\ \A d \in D : \A f, g \in [D -> S] :
       (\A e \in D : m[e] < m[d] => f[e] = g[e]) => step[d][f] = step[d][g]

Solves(f, D, step) == f = [d \in D |-> step[d][f]]

\* Such a function there is, whatever it is defined on.
LEMMA MeasureRecursion ==
  ASSUME NEW D, NEW S, NEW some \in S, NEW m, NEW step, Measured(D, S, m, step)
  PROVE  \E f \in [D -> S] : Solves(f, D, step)
<1>m. /\ m \in [D -> Nat] /\ step \in [D -> [[D -> S] -> S]]
      /\ \A d \in D : \A f, g \in [D -> S] :
           (\A e \in D : m[e] < m[d] => f[e] = g[e]) => step[d][f] = step[d][g]
  BY Zenon DEF Measured
<1> DEFINE Done(f, n) == f \in [D -> S] /\ \A d \in D : m[d] < n => f[d] = step[d][f]
           Can == {n \in Nat : \E f : Done(f, n)}
           Same == {n \in Nat : \A f, g : Done(f, n) /\ Done(g, n) =>
                                           \A d \in D : m[d] < n => f[d] = g[d]}
<1>1. 0 \in Can
  <2> DEFINE c == [d \in D |-> some]
  <2>1. c \in [D -> S] /\ \A d \in D : ~(m[d] < 0)
    BY <1>m
  <2> HIDE DEF c
  <2>2. Done(c, 0)
    BY <2>1
  <2> QED BY <2>2, Zenon
<1>2. ASSUME NEW n \in Nat, n \in Can PROVE n + 1 \in Can
  <2>1. PICK f : Done(f, n)
    BY <1>2
  <2> DEFINE g == [d \in D |-> step[d][f]]
  <2>2. g \in [D -> S] /\ \A d \in D : g[d] = step[d][f]
    BY <1>m, <2>1
  <2> HIDE DEF g
  <2>3. ASSUME NEW d \in D, m[d] < n + 1 PROVE g[d] = step[d][g]
    <3>1. ASSUME NEW e \in D, m[e] < m[d] PROVE f[e] = g[e]
      <4>1. m[e] \in Nat /\ m[d] \in Nat
        BY <1>m
      <4>2. m[e] < n
        BY <4>1, <3>1, <2>3
      <4> QED BY <4>2, <2>1, <2>2
    <3>2. step[d][f] = step[d][g]
      BY <1>m, <3>1, <2>1, <2>2
    <3> QED BY <3>2, <2>2
  <2>4. Done(g, n + 1)
    BY <2>2, <2>3
  <2> QED BY <2>4, n + 1 \in Nat, Zenon
<1>3. \A n \in Nat : \E f : Done(f, n)
  <2>1. Nat \subseteq Can
    <3> HIDE DEF Can
    <3> QED BY <1>1, <1>2, NatInd
  <2> QED BY <2>1
<1>4. 0 \in Same
  <2>1. \A d \in D : ~(m[d] < 0)
    BY <1>m
  <2> QED BY <2>1
<1>5. ASSUME NEW n \in Nat, n \in Same PROVE n + 1 \in Same
  <2> SUFFICES ASSUME NEW f, NEW g, Done(f, n + 1), Done(g, n + 1), NEW d \in D, m[d] < n + 1
               PROVE  f[d] = g[d]
    BY n + 1 \in Nat
  <2>0. \A e \in D : m[e] \in Nat
    BY <1>m
  <2>1. Done(f, n) /\ Done(g, n)
    BY <2>0
  <2>2. \A e \in D : m[e] < n => f[e] = g[e]
    BY <2>1, <1>5
  <2>3. \A e \in D : m[e] < m[d] => f[e] = g[e]
    BY <2>0, <2>2
  <2>4. step[d][f] = step[d][g]
    BY <2>3, <1>m
  <2> QED BY <2>4
<1>6. \A n \in Nat : \A f, g : Done(f, n) /\ Done(g, n) => \A d \in D : m[d] < n => f[d] = g[d]
  <2>1. Nat \subseteq Same
    <3> HIDE DEF Same
    <3> QED BY <1>4, <1>5, NatInd
  <2> QED BY <2>1
<1> HIDE DEF Done, Can, Same
<1> DEFINE of(n) == CHOOSE f : Done(f, n)
           whole == [d \in D |-> of(m[d] + 1)[d]]
<1>7. \A n \in Nat : Done(of(n), n)
  BY <1>3, Zenon
<1> HIDE DEF of
<1>8. \A n \in Nat : of(n) \in [D -> S] /\ \A d \in D : m[d] < n => of(n)[d] = step[d][of(n)]
  BY <1>7 DEF Done
<1>9. whole \in [D -> S] /\ \A d \in D : whole[d] = of(m[d] + 1)[d]
  <2>1. \A d \in D : m[d] + 1 \in Nat
    BY <1>m
  <2> QED BY <2>1, <1>8
<1> HIDE DEF whole
<1>10. ASSUME NEW d \in D PROVE whole[d] = step[d][whole]
  <2>1. m[d] \in Nat /\ m[d] + 1 \in Nat /\ m[d] < m[d] + 1
    BY <1>m
  <2>2. ASSUME NEW e \in D, m[e] < m[d] PROVE of(m[d] + 1)[e] = whole[e]
    <3>1. m[e] \in Nat /\ m[e] + 1 \in Nat /\ m[e] < m[e] + 1 /\ m[e] + 1 <= m[d] + 1
      BY <1>m, <2>1, <2>2
    <3>2. Done(of(m[d] + 1), m[e] + 1)
      <4>1. \A b \in D : m[b] < m[e] + 1 => m[b] < m[d] + 1
        BY <1>m, <3>1, <2>1
      <4> QED BY <4>1, <1>8, <2>1 DEF Done
    <3>3. of(m[d] + 1)[e] = of(m[e] + 1)[e]
      BY <3>1, <3>2, <1>6, <1>7
    <3> QED BY <3>3, <1>9
  <2>3. step[d][of(m[d] + 1)] = step[d][whole]
    BY <2>2, <1>m, <1>8, <1>9, <2>1
  <2>4. of(m[d] + 1)[d] = step[d][of(m[d] + 1)]
    BY <2>1, <1>8
  <2> QED BY <2>3, <2>4, <1>9
<1>11. Solves(whole, D, step)
  BY <1>9, <1>10 DEF Solves
<1> QED BY <1>9, <1>11

\* Outside stops, the value is what pre says, and behind it the value for a next place,
\* of a lesser measure.
TailMade(D, stops, base, pre, next, f) ==
  f = [d \in D |-> IF d \in stops THEN base[d] ELSE pre[d] \o f[next[d]]]
Descends(D, m, stops, next) ==
  /\ m \in [D -> Nat] /\ next \in [D -> D]
  /\ \A d \in D : d \notin stops => m[next[d]] < m[d]

\* Such a function there is.
LEMMA TailRecursion ==
  ASSUME NEW D, NEW S, NEW m, NEW stops, NEW base \in [D -> Seq(S)], NEW pre \in [D -> Seq(S)],
         NEW next, Descends(D, m, stops, next)
  PROVE  \E f \in [D -> Seq(S)] : TailMade(D, stops, base, pre, next, f)
<1> DEFINE R == Seq(S)
           made(d, f) == IF d \in stops THEN base[d] ELSE pre[d] \o f[next[d]]
           step == [d \in D |-> [f \in [D -> R] |-> made(d, f)]]
<1>g. /\ m \in [D -> Nat] /\ next \in [D -> D]
      /\ \A d \in D : d \notin stops => m[next[d]] < m[d]
  BY Zenon DEF Descends
<1>1. <<>> \in R
  OBVIOUS
<1>2. \A a, t \in R : a \o t \in R
  BY ConcatProperties
<1>0. base \in [D -> R] /\ pre \in [D -> R]
  OBVIOUS
<1> HIDE DEF R
<1>3. ASSUME NEW d \in D, NEW f \in [D -> R] PROVE made(d, f) \in R
  BY <1>0, <1>g, <1>2
<1>4. ASSUME NEW d \in D, NEW f \in [D -> R], NEW g \in [D -> R],
             \A e \in D : m[e] < m[d] => f[e] = g[e]
      PROVE  made(d, f) = made(d, g)
  <2>1. CASE d \in stops
    BY <2>1
  <2>2. CASE d \notin stops
    <3>1. next[d] \in D /\ m[next[d]] < m[d]
      BY <1>g, <2>2
    <3>2. f[next[d]] = g[next[d]]
      BY <3>1, <1>4
    <3> QED BY <2>2, <3>2
  <2> QED BY <2>1, <2>2
<1> HIDE DEF made
<1>5. step \in [D -> [[D -> R] -> R]] /\ \A d \in D : \A f \in [D -> R] : step[d][f] = made(d, f)
  BY <1>3
<1> HIDE DEF step
<1>6. Measured(D, R, m, step)
  <2>1. \A d \in D : \A f, g \in [D -> R] :
          (\A e \in D : m[e] < m[d] => f[e] = g[e]) => step[d][f] = step[d][g]
    <3> SUFFICES ASSUME NEW d \in D, NEW f \in [D -> R], NEW g \in [D -> R],
                        \A e \in D : m[e] < m[d] => f[e] = g[e]
                 PROVE  step[d][f] = step[d][g]
      OBVIOUS
    <3>1. made(d, f) = made(d, g)
      BY <1>4
    <3> QED BY <3>1, <1>5
  <2> QED BY <2>1, <1>5, <1>g, Zenon DEF Measured
<1>7. PICK f \in [D -> R] : Solves(f, D, step)
  BY <1>1, <1>6, MeasureRecursion
<1>8. f = [d \in D |-> made(d, f)]
  BY <1>5, <1>7 DEF Solves
<1>9. TailMade(D, stops, base, pre, next, f)
  BY <1>8, Zenon DEF TailMade, made
<1> QED BY <1>7, <1>9 DEF R

-----------------------------------------------------------------------------
(* Texts                                                                     *)

\* What one text behind another is.
LEMMA Joined ==
  ASSUME NEW S, NEW a \in Seq(S), NEW t \in Seq(S)
  PROVE  /\ Len(a) \in Nat /\ Len(t) \in Nat /\ a \o t \in Seq(S) /\ Len(a \o t) = Len(a) + Len(t)
         /\ \A j \in 1 .. Len(a) : (a \o t)[j] = a[j]
         /\ \A j \in 1 .. Len(t) : (a \o t)[Len(a) + j] = t[j]
<1> DEFINE w == a \o t
           m == Len(a)
           n == Len(t)
<1>1. m \in Nat /\ n \in Nat
  BY LenProperties
<1>2. /\ w \in Seq(S) /\ Len(w) = m + n
      /\ \A i \in 1 .. m + n : w[i] = IF i <= m THEN a[i] ELSE t[i - m]
  BY ConcatProperties
<1> HIDE DEF w, m, n
<1>3. \A j \in 1 .. m : w[j] = a[j]
  BY <1>1, <1>2
<1>4. ASSUME NEW j \in 1 .. n PROVE w[m + j] = t[j]
  <2>1. m + j \in 1 .. m + n /\ ~(m + j <= m) /\ (m + j) - m = j
    BY <1>1
  <2> QED BY <1>2, <2>1
<1> QED BY <1>1, <1>2, <1>3, <1>4 DEF w, m, n

\* What w is if it is t behind a.
Joins(w, a, t) ==
  /\ Len(a) \in Nat /\ Len(t) \in Nat /\ Len(w) = Len(a) + Len(t)
  /\ \A j \in 1 .. Len(a) : w[j] = a[j]
  /\ \A j \in 1 .. Len(t) : w[Len(a) + j] = t[j]

\* One text behind another is that.
LEMMA JoinsIs ==
  ASSUME NEW S, NEW a \in Seq(S), NEW t \in Seq(S)
  PROVE  a \o t \in Seq(S) /\ Joins(a \o t, a, t)
PROOF BY Joined DEF Joins

\* What a text is up to a place, and from one on.
LEMMA PartIs ==
  ASSUME NEW S, NEW s \in Seq(S), NEW i \in 1 .. Len(s) + 1, NEW j \in i - 1 .. Len(s)
  PROVE  /\ SubSeq(s, i, j) \in Seq(S) /\ Len(SubSeq(s, i, j)) = j + 1 - i
         /\ \A k \in 1 .. j + 1 - i : SubSeq(s, i, j)[k] = s[i + (k - 1)]
<1>1. Len(s) \in Nat
  BY LenProperties
<1>2. \A k \in i .. j : s[k] \in S
  BY <1>1, ElementOfSeq
<1> DEFINE w == SubSeq(s, i, j)
<1>3. /\ w \in Seq(S) /\ Len(w) = (IF i <= j THEN j - i + 1 ELSE 0)
      /\ \A k \in 1 .. j - i + 1 : w[k] = s[i + k - 1]
  BY <1>1, <1>2, SubSeqProperties
<1> HIDE DEF w
<1>4. Len(w) = j + 1 - i /\ \A k \in 1 .. j + 1 - i : k \in 1 .. j - i + 1 /\ i + k - 1 = i + (k - 1)
  BY <1>1, <1>3
<1>5. \A k \in 1 .. j + 1 - i : w[k] = s[i + (k - 1)]
  BY <1>3, <1>4
<1> QED BY <1>3, <1>4, <1>5 DEF w

RestOf(s, e) == SubSeq(s, e + 1, Len(s))

\* The rest has the characters from there on.
LEMMA RestIs ==
  ASSUME NEW S, NEW s \in Seq(S), NEW e \in 0 .. Len(s) + 1
  PROVE  /\ RestOf(s, e) \in Seq(S)
         /\ Len(RestOf(s, e)) = (IF e > Len(s) THEN 0 ELSE Len(s) - e)
         /\ \A k \in 1 .. Len(s) - e : RestOf(s, e)[k] = s[e + k]
<1>1. Len(s) \in Nat
  BY LenProperties
<1> DEFINE n == Len(s)
<1>2. CASE e <= Len(s)
  <2>1. e + 1 \in 1 .. n + 1 /\ n \in (e + 1) - 1 .. n
    BY <1>1, <1>2
  <2> DEFINE w == SubSeq(s, e + 1, n)
  <2>2. /\ w \in Seq(S) /\ Len(w) = n + 1 - (e + 1)
        /\ \A k \in 1 .. n + 1 - (e + 1) : w[k] = s[(e + 1) + (k - 1)]
    BY <2>1, PartIs
  <2>3. RestOf(s, e) = w
    BY DEF RestOf
  <2> HIDE DEF w
  <2>4. n + 1 - (e + 1) = n - e /\ \A k \in 1 .. n - e : (e + 1) + (k - 1) = e + k
    BY <1>1
  <2>5. \A k \in 1 .. n - e : w[k] = s[e + k]
    BY <2>2, <2>4
  <2>6. Len(w) = n - e
    BY <2>2, <2>4
  <2> QED BY <1>1, <1>2, <2>2, <2>3, <2>5, <2>6
<1>3. CASE e = n + 1
  <2>1. RestOf(s, e) = <<>>
    BY <1>1, <1>3 DEF RestOf
  <2>2. <<>> \in Seq(S) /\ Len(<<>>) = 0
    OBVIOUS
  <2>3. \A k \in 1 .. n - e : RestOf(s, e)[k] = s[e + k]
    BY <1>1, <1>3
  <2>4. e > n
    BY <1>1, <1>3
  <2>5. RestOf(s, e) \in Seq(S) /\ Len(RestOf(s, e)) = 0
    BY <2>1, <2>2, Zenon
  <2> QED BY <2>3, <2>4, <2>5
<1> QED BY <1>1, <1>2, <1>3

\* Texts are the same if their characters are.
LEMMA SameChars ==
  ASSUME NEW S, NEW T, NEW a \in Seq(S), NEW t \in Seq(T), Len(a) = Len(t), \A k \in 1 .. Len(a) : a[k] = t[k]
  PROVE  a = t
BY SeqEqual

\* Texts put together in either order.
Regroups(a, b, c) == (a \o b) \o c = a \o (b \o c)

LEMMA Regroup ==
  ASSUME NEW S, NEW a \in Seq(S), NEW b \in Seq(S), NEW c \in Seq(S)
  PROVE  Regroups(a, b, c)
PROOF BY ConcatAssociative DEF Regroups
=============================================================================
