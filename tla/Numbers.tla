-------------------------------- MODULE Numbers --------------------------------
(***************************************************************************)
(* What the proofs need of natural numbers: division, least and greatest   *)
(* elements, and induction and recursion over an interval, stated of sets  *)
(* and functions so that the provers can instantiate them.                 *)
(***************************************************************************)
EXTENDS Integers, FiniteSetsExt, FiniteSetTheorems, WellFoundedInduction, TLAPS

-----------------------------------------------------------------------------
(* Division                                                                *)

\* The quotient is the only number whose multiple lies less than d below a.
LEMMA Division ==
  ASSUME NEW a \in Nat, NEW d \in Nat \ {0}
  PROVE  /\ a \div d \in Nat
         /\ d * (a \div d) <= a /\ a < d * (a \div d) + d
OBVIOUS

\* Multiples are ordered as what they are multiples of.
LEMMA Multiples ==
  ASSUME NEW q \in Int, NEW r \in Int, NEW d \in Nat \ {0}
  PROVE  /\ d * q <= d * r <=> q <= r
         /\ d * q < d * r <=> q < r
         /\ d * (q + 1) = d * q + d
<1>1. ASSUME NEW x \in Int, NEW y \in Int, x <= y PROVE d * x <= d * y
  <2>1. PICK k \in Nat : y = x + k
    BY <1>1
  <2>2. d * y = d * x + d * k /\ d * k >= 0
    BY <2>1
  <2> QED BY <2>2
<1>2. ASSUME NEW x \in Int, NEW y \in Int, x < y PROVE d * x < d * y
  <2>1. d * (x + 1) <= d * y
    BY <1>1, <1>2
  <2>2. d * (x + 1) = d * x + d
    OBVIOUS
  <2> QED BY <2>1, <2>2
<1> QED BY <1>1, <1>2

\* Division by d and multiplication by d.
LEMMA Quotient ==
  ASSUME NEW a \in Nat, NEW d \in Nat \ {0}, NEW q \in Int
  PROVE  /\ q <= a \div d <=> d * q <= a
         /\ a \div d < q <=> a < d * q
<1> DEFINE r == a \div d
<1>1. r \in Nat /\ d * r <= a /\ a < d * r + d
  BY Division
<1> HIDE DEF r
<1>2. ASSUME q <= r PROVE d * q <= a
  BY <1>1, <1>2, Multiples
<1>3. ASSUME r < q PROVE a < d * q
  <2>1. d * (r + 1) <= d * q /\ d * (r + 1) = d * r + d
    BY <1>1, <1>3, Multiples
  <2> QED BY <1>1, <2>1
<1>4. d * q \in Int
  OBVIOUS
<1>5. (q <= r <=> d * q <= a) /\ (r < q <=> a < d * q)
  BY <1>1, <1>2, <1>3, <1>4
<1> QED BY <1>5 DEF r

-----------------------------------------------------------------------------
(* The least and the greatest of a set                                     *)

\* A set of natural numbers has a least element.
LEMMA Least ==
  ASSUME NEW T \in SUBSET Nat, T # {}
  PROVE  \E x \in T : \A y \in T : x <= y
<1> DEFINE Below == {0 .. x - 1 : x \in T}
           R == StrictSubsetOrdering(Nat)
<1>1. IsWellFoundedOn(R, FiniteSubsetsOf(Nat))
  BY FS_StrictSubsetOrderingWellFounded
<1>2. Below \subseteq FiniteSubsetsOf(Nat) /\ Below # {}
  <2>1. \A x \in T : IsFiniteSet(0 .. x - 1) /\ 0 .. x - 1 \subseteq Nat
    BY FS_Interval
  <2>2. \A x \in T : 0 .. x - 1 \in FiniteSubsetsOf(Nat)
    BY <2>1 DEF FiniteSubsetsOf
  <2> QED BY <2>2
<1> HIDE DEF R, Below
<1>3. PICK b \in Below : \A c \in Below : ~ (<<c, b>> \in R)
  BY <1>1, <1>2, WFMin
<1>4. PICK x \in T : b = 0 .. x - 1
  BY <1>3 DEF Below
<1>5. ASSUME NEW y \in T, y < x PROVE FALSE
  <2>1. 0 .. y - 1 \in Below
    BY DEF Below
  <2>2. 0 .. y - 1 \subseteq 0 .. x - 1 /\ y \in 0 .. x - 1 /\ y \notin 0 .. y - 1
    BY <1>5
  <2>3. <<0 .. y - 1, 0 .. x - 1>> \in R
    BY <2>2 DEF R, StrictSubsetOrdering
  <2> QED BY <1>3, <1>4, <2>1, <2>3
<1> QED BY <1>5

LEMMA MinExists ==
  ASSUME NEW T \in SUBSET Nat, T # {}
  PROVE  Min(T) \in T /\ \A y \in T : Min(T) <= y
<1>1. \E x \in T : \A y \in T : x <= y
  BY Least
<1> QED BY <1>1 DEF Min

LEMMA MaxExists ==
  ASSUME NEW n \in Nat, NEW T \in SUBSET (0 .. n), T # {}
  PROVE  Max(T) \in T /\ \A y \in T : y <= Max(T)
<1> DEFINE D == {n - x : x \in T}
<1>1. D \in SUBSET Nat /\ D # {}
  <2>1. \A x \in T : n - x \in Nat
    OBVIOUS
  <2> QED BY <2>1
<1>2. PICK d \in D : \A e \in D : d <= e
  BY <1>1, Least
<1>3. PICK x \in T : d = n - x
  BY <1>2
<1>4. \A y \in T : y <= x
  <2> TAKE y \in T
  <2>1. n - x <= n - y
    BY <1>2, <1>3
  <2> QED BY <2>1
<1>5. \E z \in T : \A y \in T : z >= y
  BY <1>4
<1> QED BY <1>5 DEF Max

\* The least and the greatest of two.
LEMMA OfTwo ==
  ASSUME NEW a \in Int, NEW b \in Int
  PROVE  /\ Min({a, b}) = IF a <= b THEN a ELSE b
         /\ Max({a, b}) = IF a <= b THEN b ELSE a
<1> DEFINE least == IF a <= b THEN a ELSE b
           greatest == IF a <= b THEN b ELSE a
<1>1. \A x \in {a, b} : (\A y \in {a, b} : x <= y) <=> x = least
  OBVIOUS
<1>2. \A x \in {a, b} : (\A y \in {a, b} : x >= y) <=> x = greatest
  OBVIOUS
<1>3. least \in {a, b} /\ greatest \in {a, b}
  OBVIOUS
<1> HIDE DEF least, greatest
<1>4. Min({a, b}) = least
  BY <1>1, <1>3 DEF Min
<1>5. Max({a, b}) = greatest
  BY <1>2, <1>3 DEF Max
<1> QED BY <1>4, <1>5 DEF least, greatest

-----------------------------------------------------------------------------
(* Induction and recursion                                                 *)

\* Induction, of a set.
LEMMA Induction ==
  ASSUME NEW T, 0 \in T, \A n \in Nat : n \in T => n + 1 \in T
  PROVE  \A n \in Nat : n \in T
<1> DEFINE Rest == Nat \ T
<1>1. ASSUME Rest # {} PROVE FALSE
  <2>1. PICK x \in Rest : \A y \in Rest : x <= y
    BY <1>1, Least
  <2>2. x \in Nat /\ x # 0 /\ x \notin T
    BY <2>1
  <2>3. x - 1 \in Nat /\ x - 1 \notin Rest
    <3>1. x - 1 \in Nat /\ ~(x <= x - 1)
      BY <2>2
    <3> HIDE DEF Rest
    <3> QED BY <2>1, <3>1
  <2>4. x - 1 \in T /\ (x - 1) + 1 = x
    BY <2>2, <2>3
  <2> QED BY <2>2, <2>3, <2>4
<1> QED BY <1>1

\* f[k] is step[k] applied to f[k - 1].
Iterates(f, n, first, step) ==
  f = [k \in 0 .. n |-> IF k = 0 THEN first ELSE step[k][f[k - 1]]]

\* A function that is defined by recursion over 0 .. n exists.
LEMMA Recursion ==
  ASSUME NEW X, NEW first \in X, NEW n \in Nat, NEW step \in [1 .. n -> [X -> X]]
  PROVE  \E f \in [0 .. n -> X] : Iterates(f, n, first, step)
<1> DEFINE Exists(m) == \E f \in [0 .. m -> X] : Iterates(f, m, first, step)
           T == {m \in Nat : m <= n => Exists(m)}
<1>1. 0 \in T
  <2> DEFINE f == [k \in 0 .. 0 |-> first]
  <2>1. f \in [0 .. 0 -> X] /\ Iterates(f, 0, first, step)
    BY DEF Iterates
  <2>2. Exists(0)
    BY <2>1
  <2> HIDE DEF Exists
  <2> QED BY <2>2
<1>2. ASSUME NEW m \in Nat, m \in T PROVE m + 1 \in T
  <2> SUFFICES ASSUME m + 1 <= n PROVE Exists(m + 1)
    <3> HIDE DEF Exists
    <3> QED OBVIOUS
  <2>1. PICK f \in [0 .. m -> X] : Iterates(f, m, first, step)
    BY <1>2
  <2> DEFINE g == [k \in 0 .. m + 1 |-> IF k = m + 1 THEN step[m + 1][f[m]] ELSE f[k]]
  <2>2. step[m + 1] \in [X -> X] /\ step[m + 1][f[m]] \in X
    BY <2>1
  <2>3. g \in [0 .. m + 1 -> X]
    BY <2>1, <2>2
  <2>4. ASSUME NEW k \in 0 .. m + 1
        PROVE  g[k] = IF k = 0 THEN first ELSE step[k][g[k - 1]]
    <3>1. CASE k = m + 1
      <4>1. g[k] = step[m + 1][f[m]] /\ g[m] = f[m] /\ k - 1 = m /\ k # 0
        BY <3>1
      <4> QED BY <3>1, <4>1
    <3>2. CASE k # m + 1 /\ k # 0
      <4>1. k \in 0 .. m /\ k - 1 \in 0 .. m
        BY <3>2
      <4>2. g[k] = f[k] /\ g[k - 1] = f[k - 1]
        BY <4>1
      <4>3. f[k] = step[k][f[k - 1]]
        BY <2>1, <3>2, <4>1 DEF Iterates
      <4> QED BY <3>2, <4>2, <4>3
    <3>3. CASE k = 0
      <4>1. f[0] = first
        BY <2>1 DEF Iterates
      <4> QED BY <3>3, <4>1
    <3> QED BY <3>1, <3>2, <3>3
  <2>5. Iterates(g, m + 1, first, step)
    <3> HIDE DEF g
    <3>1. g = [k \in 0 .. m + 1 |-> g[k]]
      BY <2>3
    <3> QED BY <2>4, <3>1 DEF Iterates
  <2> QED BY <2>3, <2>5
<1>3. n \in T
  <2> HIDE DEF T
  <2> QED BY <1>1, <1>2, Induction
<1> QED BY <1>3

\* Two functions that start alike and go on alike are alike.
GoAlike(f, g, n) == f[0] = g[0] /\ \A k \in 1 .. n : f[k - 1] = g[k - 1] => f[k] = g[k]

LEMMA Agreement ==
  ASSUME NEW n \in Nat, NEW f, NEW g, GoAlike(f, g, n)
  PROVE  \A k \in 0 .. n : f[k] = g[k]
<1> DEFINE T == {k \in Nat : k <= n => f[k] = g[k]}
<1>1. 0 \in T
  BY DEF GoAlike
<1>2. ASSUME NEW k \in Nat, k \in T PROVE k + 1 \in T
  <2>1. k + 1 <= n => k + 1 \in 1 .. n /\ (k + 1) - 1 = k /\ k <= n
    OBVIOUS
  <2> QED BY <1>2, <2>1 DEF GoAlike
<1> HIDE DEF T
<1>3. \A k \in Nat : k \in T
  BY <1>1, <1>2, Induction
<1> QED BY <1>3 DEF T

\* Induction from all that is smaller.
LEMMA StrongInduction ==
  ASSUME NEW T, \A n \in Nat : (\A m \in 0 .. n - 1 : m \in T) => n \in T
  PROVE  \A n \in Nat : n \in T
<1> DEFINE Rest == {n \in Nat : n \notin T}
<1>1. ASSUME Rest # {} PROVE FALSE
  <2>1. Rest \in SUBSET Nat
    OBVIOUS
  <2>2. PICK x \in Rest : \A y \in Rest : x <= y
    BY <1>1, <2>1, Least
  <2>3. ASSUME NEW m \in 0 .. x - 1 PROVE m \in T
    <3>1. m \in Nat /\ ~(x <= m)
      BY <2>1, <2>2
    <3> QED BY <2>2, <3>1
  <2> QED BY <2>2, <2>3
<1> QED BY <1>1

\* f[k] is step[k] applied to f[back[k]], for the numbers up to n.
IteratesBack(f, n, first, step, back) ==
  \A k \in 0 .. n : f[k] = IF k = 0 THEN first ELSE step[k][f[back[k]]]

\* f[k] is step[k] applied to f[back[k]].
Recurses(f, first, step, back) ==
  f = [k \in Nat |-> IF k = 0 THEN first ELSE step[k][f[back[k]]]]

\* A function that is defined by recursion on something smaller exists.
LEMMA StrongRecursion ==
  ASSUME NEW X, NEW first \in X, NEW step \in [Nat -> [X -> X]],
         NEW back \in [Nat -> Nat], \A n \in Nat \ {0} : back[n] < n
  PROVE  \E f \in [Nat -> X] : Recurses(f, first, step, back)
<1> DEFINE P(f, n) == IteratesBack(f, n, first, step, back)
           T == {n \in Nat : \E f \in [Nat -> X] : P(f, n)}
<1>1. 0 \in T
  <2> DEFINE f == [n \in Nat |-> first]
  <2>1. f \in [Nat -> X] /\ P(f, 0)
    BY DEF IteratesBack
  <2> HIDE DEF P
  <2> QED BY <2>1
<1>2. ASSUME NEW n \in Nat, n \in T PROVE n + 1 \in T
  <2>1. PICK f \in [Nat -> X] : P(f, n)
    BY <1>2
  <2> DEFINE new == step[n + 1][f[back[n + 1]]]
             g == [f EXCEPT ![n + 1] = new]
  <2>2. n + 1 \in Nat \ {0} /\ back[n + 1] \in Nat /\ back[n + 1] < n + 1
    OBVIOUS
  <2>3. new \in X
    BY <2>1, <2>2
  <2>4. /\ g \in [Nat -> X] /\ g[n + 1] = new
        /\ \A k \in Nat : k # n + 1 => g[k] = f[k]
    <3> HIDE DEF new
    <3> QED BY <2>1, <2>2, <2>3
  <2> HIDE DEF g
  <2>5. ASSUME NEW k \in 0 .. n + 1
        PROVE  g[k] = IF k = 0 THEN first ELSE step[k][g[back[k]]]
    <3>1. CASE k = n + 1
      <4>1. k # 0 /\ back[k] \in Nat /\ back[k] # n + 1
        BY <2>2, <3>1
      <4> QED BY <2>4, <3>1, <4>1
    <3>2. CASE k # n + 1
      <4>1. k \in 0 .. n /\ k \in Nat /\ (k # 0 => back[k] \in Nat /\ back[k] # n + 1)
        <5>1. k # 0 => back[k] \in Nat /\ back[k] < k
          OBVIOUS
        <5> QED BY <3>2, <5>1
      <4>2. f[k] = IF k = 0 THEN first ELSE step[k][f[back[k]]]
        BY <2>1, <4>1 DEF IteratesBack
      <4> QED BY <2>4, <3>2, <4>1, <4>2
    <3> QED BY <3>1, <3>2
  <2>6. P(g, n + 1)
    BY <2>5 DEF IteratesBack
  <2> HIDE DEF P
  <2> QED BY <2>2, <2>4, <2>6
<1>3. \A n \in Nat : \E f \in [Nat -> X] : P(f, n)
  <2> HIDE DEF T
  <2>1. \A n \in Nat : n \in T
    BY <1>1, <1>2, Induction
  <2> QED BY <2>1 DEF T
<1>4. ASSUME NEW f, NEW g, NEW m \in Nat, NEW n \in Nat, m <= n, P(f, m), P(g, n)
      PROVE  f[m] = g[m]
  <2> DEFINE U == {k \in Nat : k <= m => f[k] = g[k]}
  <2>1. ASSUME NEW k \in Nat, \A j \in 0 .. k - 1 : j \in U PROVE k \in U
    <3> SUFFICES ASSUME k <= m PROVE f[k] = g[k]
      OBVIOUS
    <3>1. k \in 0 .. m /\ k \in 0 .. n
      BY <1>4
    <3>2. /\ f[k] = IF k = 0 THEN first ELSE step[k][f[back[k]]]
          /\ g[k] = IF k = 0 THEN first ELSE step[k][g[back[k]]]
      BY <1>4, <3>1 DEF IteratesBack
    <3>3. CASE k = 0
      BY <3>2, <3>3
    <3>4. CASE k # 0
      <4>1. back[k] \in Nat /\ back[k] < k
        BY <3>4
      <4>2. back[k] \in 0 .. k - 1 /\ back[k] <= m
        BY <4>1
      <4>3. f[back[k]] = g[back[k]]
        BY <2>1, <4>2
      <4> QED BY <3>2, <3>4, <4>3
    <3> QED BY <3>3, <3>4
  <2> HIDE DEF U
  <2>2. \A k \in Nat : k \in U
    BY <2>1, StrongInduction
  <2> QED BY <2>2 DEF U
<1> DEFINE Upto(n) == CHOOSE f \in [Nat -> X] : P(f, n)
           h == [n \in Nat |-> Upto(n)[n]]
<1>5. \A n \in Nat : Upto(n) \in [Nat -> X] /\ P(Upto(n), n)
  <2> HIDE DEF P
  <2> QED BY <1>3
<1> HIDE DEF Upto
<1>6. h \in [Nat -> X]
  <2> HIDE DEF P
  <2> QED BY <1>5
<1>7. ASSUME NEW k \in Nat PROVE h[k] = IF k = 0 THEN first ELSE step[k][h[back[k]]]
  <2>1. k \in 0 .. k /\ h[k] = Upto(k)[k]
    OBVIOUS
  <2>2. Upto(k)[k] = IF k = 0 THEN first ELSE step[k][Upto(k)[back[k]]]
    BY <1>5, <2>1 DEF IteratesBack
  <2>3. k # 0 => back[k] \in Nat /\ back[k] <= k
    OBVIOUS
  <2>4. k # 0 => Upto(k)[back[k]] = Upto(back[k])[back[k]]
    <3> HIDE DEF P
    <3> QED BY <1>4, <1>5, <2>3
  <2>5. k # 0 => h[back[k]] = Upto(back[k])[back[k]]
    BY <2>3
  <2> HIDE DEF h
  <2> QED BY <2>1, <2>2, <2>4, <2>5
<1>8. h = [k \in Nat |-> h[k]]
  BY <1>6
<1> HIDE DEF h
<1>9. h = [k \in Nat |-> IF k = 0 THEN first ELSE step[k][h[back[k]]]]
  BY <1>7, <1>8
<1> QED BY <1>6, <1>9 DEF Recurses

\* A loop that goes on at the places of `go' and stops at n + 1 at the latest:
\* f[k] is what it returns when it has reached k.
Loops(f, n, go, out) == f = [k \in 1 .. n + 1 |-> IF k \in go THEN f[k + 1] ELSE out[k]]

\* The first place from k on at which a loop stops
Stops(n, go, k, j) == j \in k .. n + 1 /\ j \notin go /\ \A i \in k .. j - 1 : i \in go

\* A loop stops at one place and returns what stands there; the function that
\* says so exists.
LEMMA LoopStops ==
  ASSUME NEW n \in Nat, NEW go \in SUBSET (1 .. n), NEW out
  PROVE  /\ \A k \in 1 .. n + 1 : \E j \in 1 .. n + 1 : Stops(n, go, k, j)
         /\ \E f : Loops(f, n, go, out)
         /\ \A f : Loops(f, n, go, out) =>
              \A k, j \in 1 .. n + 1 : Stops(n, go, k, j) => f[k] = out[j]
<1>1. ASSUME NEW k \in 1 .. n + 1 PROVE \E j \in 1 .. n + 1 : Stops(n, go, k, j)
  <2> DEFINE T == {j \in k .. n + 1 : j \notin go}
  <2>1. T \in SUBSET Nat /\ n + 1 \in T
    OBVIOUS
  <2>2. PICK j \in T : \A i \in T : j <= i
    BY <2>1, Least
  <2>3. j \in k .. n + 1 /\ j \notin go /\ j \in 1 .. n + 1
    BY <2>2
  <2>4. ASSUME NEW i \in k .. j - 1 PROVE i \in go
    <3>1. i \in k .. n + 1 /\ ~(j <= i)
      BY <2>3
    <3> QED BY <2>2, <3>1
  <2> QED BY <2>3, <2>4 DEF Stops
<1>2. ASSUME NEW k \in 1 .. n + 1, NEW j \in 1 .. n + 1, NEW i \in 1 .. n + 1,
             Stops(n, go, k, j), Stops(n, go, k, i)
      PROVE  i = j
  <2>1. ~(i < j)
    <3>1. i < j => i \in k .. j - 1
      BY <1>2 DEF Stops
    <3> QED BY <1>2, <3>1 DEF Stops
  <2>2. ~(j < i)
    <3>1. j < i => j \in k .. i - 1
      BY <1>2 DEF Stops
    <3> QED BY <1>2, <3>1 DEF Stops
  <2> QED BY <2>1, <2>2
<1>3. ASSUME NEW k \in 1 .. n + 1, k \notin go PROVE Stops(n, go, k, k)
  BY <1>3 DEF Stops
<1>4. ASSUME NEW k \in 1 .. n + 1, k \in go, NEW j \in 1 .. n + 1
      PROVE  k + 1 \in 1 .. n + 1 /\ (Stops(n, go, k, j) <=> Stops(n, go, k + 1, j))
  <2>1. k + 1 \in 1 .. n + 1
    BY <1>4
  <2>2. ASSUME Stops(n, go, k, j) PROVE Stops(n, go, k + 1, j)
    <3>1. j # k
      BY <1>4, <2>2 DEF Stops
    <3> QED BY <1>4, <2>2, <3>1 DEF Stops
  <2>3. ASSUME Stops(n, go, k + 1, j) PROVE Stops(n, go, k, j)
    <3>1. \A i \in k .. j - 1 : i = k \/ i \in k + 1 .. j - 1
      OBVIOUS
    <3>2. j \in k .. n + 1
      BY <2>3 DEF Stops
    <3> QED BY <1>4, <2>3, <3>1, <3>2 DEF Stops
  <2> QED BY <2>1, <2>2, <2>3
<1> DEFINE at(k) == CHOOSE j \in 1 .. n + 1 : Stops(n, go, k, j)
           g == [k \in 1 .. n + 1 |-> out[at(k)]]
<1>5. \A k \in 1 .. n + 1 : at(k) \in 1 .. n + 1 /\ Stops(n, go, k, at(k))
  BY <1>1
<1> HIDE DEF at
<1>6. Loops(g, n, go, out)
  <2>1. ASSUME NEW k \in 1 .. n + 1
        PROVE  g[k] = IF k \in go THEN g[k + 1] ELSE out[k]
    <3>1. CASE k \notin go
      BY <1>2, <1>3, <1>5, <3>1
    <3>2. CASE k \in go
      <4>1. k + 1 \in 1 .. n + 1 /\ Stops(n, go, k + 1, at(k))
        BY <1>4, <1>5, <3>2
      <4>2. at(k + 1) = at(k)
        BY <1>2, <1>5, <4>1
      <4> QED BY <3>2, <4>1, <4>2
    <3> QED BY <3>1, <3>2
  <2>2. g = [k \in 1 .. n + 1 |-> g[k]]
    OBVIOUS
  <2> HIDE DEF g
  <2> QED BY <2>1, <2>2 DEF Loops
<1>7. ASSUME NEW f, Loops(f, n, go, out)
      PROVE  \A k, j \in 1 .. n + 1 : Stops(n, go, k, j) => f[k] = out[j]
  <2> DEFINE T == {m \in Nat : m <= n => \A j \in 1 .. n + 1 :
                     Stops(n, go, n + 1 - m, j) => f[n + 1 - m] = out[j]}
  <2>1. ASSUME NEW k \in 1 .. n + 1
        PROVE  f[k] = IF k \in go THEN f[k + 1] ELSE out[k]
    BY <1>7 DEF Loops
  <2>2. 0 \in T
    <3> SUFFICES ASSUME NEW j \in 1 .. n + 1, Stops(n, go, n + 1 - 0, j)
                 PROVE  f[n + 1 - 0] = out[j]
      OBVIOUS
    <3>1. n + 1 - 0 = n + 1 /\ n + 1 \in 1 .. n + 1 /\ n + 1 \notin go
      OBVIOUS
    <3>2. j = n + 1
      BY <3>1 DEF Stops
    <3> QED BY <2>1, <3>1, <3>2
  <2>3. ASSUME NEW m \in Nat, m \in T PROVE m + 1 \in T
    <3> SUFFICES ASSUME m + 1 <= n, NEW j \in 1 .. n + 1, Stops(n, go, n + 1 - (m + 1), j)
                 PROVE  f[n + 1 - (m + 1)] = out[j]
      OBVIOUS
    <3> DEFINE k == n + 1 - (m + 1)
    <3>1. k \in 1 .. n + 1 /\ k + 1 = n + 1 - m /\ m <= n
      OBVIOUS
    <3>2. Stops(n, go, k + 1, j) => f[k + 1] = out[j]
      BY <2>3, <3>1
    <3>3. Stops(n, go, k, j)
      OBVIOUS
    <3> HIDE DEF k
    <3>4. CASE k \in go
      <4>1. Stops(n, go, k + 1, j)
        BY <1>4, <3>1, <3>3, <3>4
      <4> QED BY <2>1, <3>1, <3>2, <3>4, <4>1 DEF k
    <3>5. CASE k \notin go
      <4>1. j = k
        BY <1>2, <1>3, <3>1, <3>3, <3>5
      <4> QED BY <2>1, <3>1, <3>5, <4>1 DEF k
    <3> QED BY <3>4, <3>5
  <2> HIDE DEF T
  <2>4. \A m \in Nat : m \in T
    BY <2>2, <2>3, Induction
  <2> SUFFICES ASSUME NEW k \in 1 .. n + 1, NEW j \in 1 .. n + 1, Stops(n, go, k, j)
               PROVE  f[k] = out[j]
    OBVIOUS
  <2>5. n + 1 - k \in Nat /\ n + 1 - k <= n /\ n + 1 - (n + 1 - k) = k
    OBVIOUS
  <2>6. n + 1 - k \in T
    BY <2>4, <2>5
  <2> QED BY <2>5, <2>6 DEF T
<1> QED BY <1>1, <1>6, <1>7

=================================================================================
