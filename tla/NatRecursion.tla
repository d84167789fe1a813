---------------------------- MODULE NatRecursion ----------------------------
(***************************************************************************)
(* Induction and recursion over the natural numbers and over sequences,    *)
(* for the proofs about functions that are defined by recursion.           *)
(* Properties are sets here, and steps functions, which the provers        *)
(* instantiate.                                                            *)
(***************************************************************************)
EXTENDS Naturals, Sequences, WellFoundedInduction, TLAPS

(* A set of numbers has a least element.                                   *)
LEMMA LeastElement ==
  ASSUME NEW T, T \subseteq Nat, T # {}
  PROVE  \E x \in T : \A y \in T : x <= y
<1>1. IsWellFoundedOn(OpToRel(<, Nat), Nat)
  BY NatLessThanWellFounded
<1>2. PICK x \in T : \A y \in T : ~(<<y, x>> \in OpToRel(<, Nat))
  BY <1>1, WFMin
<1>3. \A y \in T : ~(y < x)
  BY <1>2 DEF OpToRel
<1>4. QED
  BY <1>3

(* A set with 0 and with the successors of its elements has every number.  *)
LEMMA SetInduction ==
  ASSUME NEW T, T \subseteq Nat, 0 \in T, \A n \in T : n + 1 \in T
  PROVE  T = Nat
<1> SUFFICES ASSUME Nat \ T # {} PROVE FALSE
  OBVIOUS
<1>1. PICK x \in Nat \ T : \A y \in Nat \ T : x <= y
  BY LeastElement
<1>2. x # 0 /\ x - 1 \in T
  BY <1>1
<1>3. QED
  BY <1>1, <1>2

(* f goes from base by step as far as n.                                   *)
GoesTo(f, base, step, n) ==
  f[0] = base /\ \A m \in Nat : m < n => f[m + 1] = step[<<m, f[m]>>]

LEMMA GoesOneWay ==
  ASSUME NEW base, NEW step, NEW n \in Nat, NEW f, NEW g,
         GoesTo(f, base, step, n), GoesTo(g, base, step, n)
  PROVE  \A m \in Nat : m <= n => f[m] = g[m]
<1> DEFINE T == {m \in Nat : m <= n => f[m] = g[m]}
<1>1. 0 \in T
  BY DEF GoesTo
<1>2. ASSUME NEW m \in T PROVE m + 1 \in T
  <2>1. m \in Nat /\ m + 1 \in Nat /\ (m <= n => f[m] = g[m])
    BY <1>2
  <2>2. ASSUME m + 1 <= n PROVE f[m + 1] = g[m + 1]
    <3>1. m < n /\ m <= n
      BY <2>1, <2>2
    <3>2. f[m + 1] = step[<<m, f[m]>>] /\ g[m + 1] = step[<<m, g[m]>>]
      BY <2>1, <3>1 DEF GoesTo
    <3>3. QED
      BY <2>1, <3>1, <3>2
  <2>3. QED
    BY <2>1, <2>2
<1>3. T \subseteq Nat
  OBVIOUS
<1> HIDE DEF T
<1>4. T = Nat
  BY <1>1, <1>2, <1>3, SetInduction
<1>5. QED
  BY <1>4 DEF T

LEMMA GoesAnywhere ==
  ASSUME NEW S, NEW base \in S, NEW step \in [Nat \X S -> S], NEW n \in Nat
  PROVE  \E f \in [Nat -> S] : GoesTo(f, base, step, n)
<1> DEFINE T == {m \in Nat : \E f \in [Nat -> S] : GoesTo(f, base, step, m)}
<1>1. 0 \in T
  <2>1. [m \in Nat |-> base] \in [Nat -> S] /\ GoesTo([m \in Nat |-> base], base, step, 0)
    BY DEF GoesTo
  <2>2. QED
    BY <2>1
<1>2. ASSUME NEW m \in T PROVE m + 1 \in T
  <2>1. PICK f \in [Nat -> S] : GoesTo(f, base, step, m)
    BY <1>2
  <2> DEFINE g == [f EXCEPT ![m + 1] = step[<<m, f[m]>>]]
  <2>2. g \in [Nat -> S]
    OBVIOUS
  <2>3. g[0] = base /\ \A k \in Nat : k <= m => g[k] = f[k]
    BY <2>1 DEF GoesTo
  <2>4. g[m + 1] = step[<<m, f[m]>>]
    OBVIOUS
  <2> HIDE DEF g
  <2>5. ASSUME NEW k \in Nat, k < m + 1 PROVE g[k + 1] = step[<<k, g[k]>>]
    <3>1. CASE k = m
      BY <2>3, <2>4, <3>1
    <3>2. CASE k < m
      BY <2>1, <2>3, <3>2 DEF GoesTo
    <3>3. QED
      BY <2>5, <3>1, <3>2
  <2>6. GoesTo(g, base, step, m + 1)
    BY <2>3, <2>5 DEF GoesTo
  <2>7. QED
    BY <2>2, <2>6
<1>3. T \subseteq Nat
  OBVIOUS
<1> HIDE DEF T
<1>4. n \in T
  BY <1>1, <1>2, <1>3, SetInduction
<1>5. QED
  BY <1>4 DEF T

(* Recursion from a number to the next.                                    *)
Iterates(f, base, step) == f[0] = base /\ \A n \in Nat : f[n + 1] = step[<<n, f[n]>>]

LEMMA Recursion ==
  ASSUME NEW S, NEW base \in S, NEW step \in [Nat \X S -> S]
  PROVE  \E f \in [Nat -> S] : Iterates(f, base, step)
<1> DEFINE Upto(n) == CHOOSE f \in [Nat -> S] : GoesTo(f, base, step, n)
           h == [n \in Nat |-> Upto(n)[n]]
<1>1. \A n \in Nat : Upto(n) \in [Nat -> S] /\ GoesTo(Upto(n), base, step, n)
  BY GoesAnywhere
<1> HIDE DEF Upto
<1>2. h \in [Nat -> S] /\ h[0] = base
  BY <1>1 DEF GoesTo
<1>3. ASSUME NEW n \in Nat PROVE h[n + 1] = step[<<n, h[n]>>]
  <2>1. GoesTo(Upto(n + 1), base, step, n)
    BY <1>1 DEF GoesTo
  <2>2. Upto(n + 1)[n] = Upto(n)[n]
    BY <1>1, <2>1, GoesOneWay
  <2>3. Upto(n + 1)[n + 1] = step[<<n, Upto(n + 1)[n]>>]
    BY <1>1 DEF GoesTo
  <2>4. QED
    BY <2>2, <2>3
<1>4. QED
  BY <1>2, <1>3 DEF Iterates

(* Recursion from all the numbers below one: step looks no further.        *)
AgreeBelow(f, g, n) == \A m \in Nat : m < n => f[m] = g[m]

Solves(h, step) == \A n \in Nat : h[n] = step[<<n, h>>]

LEMMA StrongRecursion ==
  ASSUME NEW S, NEW some \in S, NEW step \in [Nat \X [Nat -> S] -> S],
         \A n \in Nat, f, g \in [Nat -> S] :
           AgreeBelow(f, g, n) => step[<<n, f>>] = step[<<n, g>>]
  PROVE  \E h \in [Nat -> S] : Solves(h, step)
<1> DEFINE F == [Nat -> S]
           base == [n \in Nat |-> some]
           next == [p \in Nat \X F |-> [p[2] EXCEPT ![p[1]] = step[<<p[1], p[2]>>]]]
<1>1. base \in F
  OBVIOUS
<1>2. next \in [Nat \X F -> F]
  <2>1. ASSUME NEW n \in Nat, NEW f \in F
        PROVE  [f EXCEPT ![n] = step[<<n, f>>]] \in F
    OBVIOUS
  <2>2. QED
    BY <2>1
<1>3. \A n \in Nat, f \in F : next[<<n, f>>] = [f EXCEPT ![n] = step[<<n, f>>]]
  OBVIOUS
<1> HIDE DEF base, next, F
<1>4. PICK g \in [Nat -> F] : Iterates(g, base, next)
  BY <1>1, <1>2, Recursion
<1>5. ASSUME NEW n \in Nat
      PROVE  /\ g[n] \in [Nat -> S] /\ g[n + 1] \in [Nat -> S]
             /\ g[n + 1] = [g[n] EXCEPT ![n] = step[<<n, g[n]>>]]
  <2>1. g[n] \in F /\ g[n + 1] \in F
    OBVIOUS
  <2>2. g[n + 1] = next[<<n, g[n]>>]
    BY <1>4 DEF Iterates
  <2>3. QED
    BY <1>3, <2>1, <2>2 DEF F
<1> DEFINE h == [n \in Nat |-> g[n + 1][n]]
           T == {n \in Nat : \A m \in Nat : m < n => g[n][m] = h[m]}
<1>6. h \in [Nat -> S] /\ \A n \in Nat : h[n] = g[n + 1][n]
  BY <1>5
<1>7. \A n \in Nat : n \in T <=> \A m \in Nat : m < n => g[n][m] = h[m]
  OBVIOUS
<1>8. T \subseteq Nat
  OBVIOUS
<1> HIDE DEF h, T
<1>9. 0 \in T
  BY <1>7
<1>10. ASSUME NEW n \in T PROVE n + 1 \in T
  <2>1. n \in Nat
    BY <1>8
  <2>2. ASSUME NEW m \in Nat, m < n + 1 PROVE g[n + 1][m] = h[m]
    <3>1. CASE m = n
      BY <1>6, <3>1
    <3>2. CASE m < n
      <4>1. g[n][m] = h[m]
        BY <1>7, <1>10, <2>1, <3>2
      <4>2. g[n + 1][m] = g[n][m]
        <5>1. g[n] \in [Nat -> S] /\ g[n + 1] = [g[n] EXCEPT ![n] = step[<<n, g[n]>>]]
          BY <1>5, <2>1
        <5>2. m # n
          BY <2>1, <3>2
        <5>3. QED
          BY <5>1, <5>2
      <4>3. QED
        BY <4>1, <4>2
    <3>3. QED
      BY <2>1, <2>2, <3>1, <3>2
  <2>3. QED
    BY <1>7, <2>1, <2>2
<1>11. T = Nat
  BY <1>8, <1>9, <1>10, SetInduction
<1>12. ASSUME NEW n \in Nat PROVE h[n] = step[<<n, h>>]
  <2>1. h[n] = step[<<n, g[n]>>]
    BY <1>5, <1>6
  <2>2. AgreeBelow(g[n], h, n)
    BY <1>7, <1>11 DEF AgreeBelow
  <2>3. g[n] \in [Nat -> S]
    BY <1>5
  <2>4. QED
    BY <1>6, <2>1, <2>2, <2>3
<1>13. QED
  BY <1>6, <1>12 DEF Solves
(* A set with every sequence all the shorter ones of which it has, has     *)
(* them all.                                                               *)
LEMMA SequenceInduction ==
  ASSUME NEW A, NEW P, P \subseteq Seq(A),
         \A s \in Seq(A) : (\A u \in Seq(A) : Len(u) < Len(s) => u \in P) => s \in P
  PROVE  P = Seq(A)
<1> DEFINE T == {n \in Nat : \A u \in Seq(A) : Len(u) < n => u \in P}
<1>1. T \subseteq Nat /\ \A n \in Nat : n \in T <=> \A u \in Seq(A) : Len(u) < n => u \in P
  OBVIOUS
<1> HIDE DEF T
<1>2. 0 \in T
  BY <1>1
<1>3. ASSUME NEW n \in T PROVE n + 1 \in T
  <2>1. n \in Nat /\ \A u \in Seq(A) : Len(u) < n => u \in P
    BY <1>1
  <2>2. ASSUME NEW s \in Seq(A), Len(s) < n + 1 PROVE s \in P
    <3>1. \A u \in Seq(A) : Len(u) < Len(s) => Len(u) < n
      BY <2>1, <2>2
    <3>2. QED
      BY <2>1, <3>1
  <2>3. QED
    BY <1>1, <2>1, <2>2
<1>4. T = Nat
  BY <1>1, <1>2, <1>3, SetInduction
<1>5. ASSUME NEW s \in Seq(A) PROVE s \in P
  <2>1. Len(s) + 1 \in T /\ Len(s) < Len(s) + 1
    BY <1>4
  <2>2. QED
    BY <1>1, <2>1
<1>6. QED
  BY <1>5

(* Recursion from all the shorter sequences.                               *)
AgreeShorter(f, g, s, A) == \A u \in Seq(A) : Len(u) < Len(s) => f[u] = g[u]

SolvesOver(h, step, A) == \A s \in Seq(A) : h[s] = step[<<s, h>>]

LEMMA SequenceRecursion ==
  ASSUME NEW A, NEW S, NEW some \in S, NEW step \in [Seq(A) \X [Seq(A) -> S] -> S],
         \A s \in Seq(A), f, g \in [Seq(A) -> S] :
           AgreeShorter(f, g, s, A) => step[<<s, f>>] = step[<<s, g>>]
  PROVE  \E h \in [Seq(A) -> S] : SolvesOver(h, step, A)
<1> DEFINE F == [Seq(A) -> S]
           (* Of a function for every length, the one for every sequence.  *)
           Join(g) == [u \in Seq(A) |-> g[Len(u)][u]]
           Level(n, g) == [s \in Seq(A) |-> IF Len(s) = n THEN step[<<s, Join(g)>>] ELSE some]
           levels == [p \in Nat \X [Nat -> F] |-> Level(p[1], p[2])]
<1>1. \A g \in [Nat -> F] : Join(g) \in F /\ \A u \in Seq(A) : Join(g)[u] = g[Len(u)][u]
  OBVIOUS
<1>2. [s \in Seq(A) |-> some] \in F
  OBVIOUS
<1> HIDE DEF Join
<1>3. \A n \in Nat, g \in [Nat -> F], s \in Seq(A) :
        Level(n, g)[s] = IF Len(s) = n THEN step[<<s, Join(g)>>] ELSE some
  OBVIOUS
<1>4. \A n \in Nat, g \in [Nat -> F] : Level(n, g) \in F
  <2>1. ASSUME NEW g \in [Nat -> F], NEW s \in Seq(A) PROVE step[<<s, Join(g)>>] \in S
    <3>1. <<s, Join(g)>> \in Seq(A) \X F
      BY <1>1
    <3>2. QED
      BY <3>1
  <2>2. QED
    BY <2>1
<1> HIDE DEF F
<1>5. ASSUME NEW f \in [Nat -> F], NEW g \in [Nat -> F], NEW s \in Seq(A), AgreeBelow(f, g, Len(s))
      PROVE  step[<<s, Join(f)>>] = step[<<s, Join(g)>>]
  <2>1. \A u \in Seq(A) : Len(u) < Len(s) => f[Len(u)] = g[Len(u)]
    BY <1>5 DEF AgreeBelow
  <2>2. ASSUME NEW u \in Seq(A), Len(u) < Len(s) PROVE Join(f)[u] = Join(g)[u]
    <3>1. Join(f)[u] = f[Len(u)][u] /\ Join(g)[u] = g[Len(u)][u]
      BY <1>1
    <3>2. QED
      BY <2>1, <2>2, <3>1
  <2>3. AgreeShorter(Join(f), Join(g), s, A)
    BY <2>2 DEF AgreeShorter
  <2>4. QED
    BY <1>1, <2>3 DEF F
<1>6. \A n \in Nat, f, g \in [Nat -> F] : AgreeBelow(f, g, n) => Level(n, f) = Level(n, g)
  BY <1>5
<1> HIDE DEF Level
<1>7. /\ levels \in [Nat \X [Nat -> F] -> F]
      /\ \A n \in Nat, g \in [Nat -> F] : levels[<<n, g>>] = Level(n, g)
  BY <1>4
<1> HIDE DEF levels
<1>8. ASSUME NEW n \in Nat, NEW f \in [Nat -> F], NEW g \in [Nat -> F], AgreeBelow(f, g, n)
      PROVE  levels[<<n, f>>] = levels[<<n, g>>]
  <2>1. levels[<<n, f>>] = Level(n, f) /\ levels[<<n, g>>] = Level(n, g)
    BY <1>7
  <2>2. QED
    BY <1>6, <1>8, <2>1
<1>9. PICK g \in [Nat -> F] : Solves(g, levels)
  BY <1>2, <1>7, <1>8, StrongRecursion
<1>10. ASSUME NEW s \in Seq(A) PROVE Join(g)[s] = step[<<s, Join(g)>>]
  <2>1. Join(g)[s] = g[Len(s)][s]
    BY <1>1
  <2>2. g[Len(s)] = levels[<<Len(s), g>>]
    BY <1>9 DEF Solves
  <2>3. g[Len(s)] = Level(Len(s), g)
    BY <1>7, <2>2
  <2>4. QED
    BY <1>3, <2>1, <2>3
<1>11. QED
  BY <1>1, <1>10 DEF SolvesOver, F

=============================================================================
