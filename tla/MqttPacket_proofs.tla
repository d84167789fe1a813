-------------------------- MODULE MqttPacket_proofs --------------------------
(***************************************************************************)
(* What the wire format's operators give, for every width of a byte: the   *)
(* lemmas that the proofs about packets on a connection use.               *)
(***************************************************************************)
EXTENDS MqttPacket, NatRecursion, SequenceTheorems

----------------------------------------------------------------------------
(* Digits.                                                                 *)

(* The last digit of a number, and the number without it.                  *)
Digit(n) == n % Half
Rest(n)  == n \div Half

LEMMA DigitAndRest ==
  ASSUME NEW n \in Nat
  PROVE  n = Half * Rest(n) + Digit(n)
  BY HalfAssumption DEF Digit, Rest

(* Taking a digit off a number leaves a smaller one, and not 0 if the      *)
(* number is not a digit itself.                                           *)
LEMMA TakeDigit ==
  ASSUME NEW n \in Nat
  PROVE  /\ Rest(n) \in Nat /\ Digit(n) \in Nat /\ Digit(n) < Half
         /\ Rest(n) <= n
         /\ n >= Half => Rest(n) >= 1 /\ Rest(n) < n
<1>1. /\ n \div Half \in Nat /\ n % Half \in Nat /\ n % Half < Half
      /\ n = Half * (n \div Half) + (n % Half)
  BY HalfAssumption
<1>2. ASSUME NEW q \in Nat, NEW r \in Nat, r < Half, n = Half * q + r
      PROVE  q <= n /\ (n >= Half => q >= 1 /\ q < n)
  <2>1. CASE q = 0
    BY <1>2, <2>1, HalfAssumption
  <2>2. CASE q # 0
    <3>1. Half * q >= 2 * q
      BY HalfAssumption
    <3>2. Half * q \in Nat
      BY HalfAssumption
    <3>3. QED
      BY <1>2, <2>2, <3>1, <3>2
  <2>3. QED
    BY <2>1, <2>2
<1>3. QED
  BY <1>1, <1>2 DEF Digit, Rest

(* What appendVarLen() makes of a length.                                  *)
LEMMA VarLenStep ==
  /\ VarLen \in [Nat -> Seq(Nat)]
  /\ \A n \in Nat : VarLen[n] = IF n < Half THEN <<n>>
                                ELSE <<Digit(n) + Half>> \o VarLen[Rest(n)]
<1> DEFINE step == [p \in Nat \X [Nat -> Seq(Nat)] |-> IF p[1] < Half THEN <<p[1]>>
                                       ELSE <<Digit(p[1]) + Half>> \o p[2][Rest(p[1])]]
<1>1. \A n \in Nat, f \in [Nat -> Seq(Nat)] :
        step[<<n, f>>] = IF n < Half THEN <<n>> ELSE <<Digit(n) + Half>> \o f[Rest(n)]
  OBVIOUS
<1>2. \A n \in Nat, f \in [Nat -> Seq(Nat)] :
        (IF n < Half THEN <<n>> ELSE <<Digit(n) + Half>> \o f[Rest(n)]) \in Seq(Nat)
  <2> HIDE DEF step
  <2>1. ASSUME NEW n \in Nat, NEW f \in [Nat -> Seq(Nat)]
        PROVE  (IF n < Half THEN <<n>> ELSE <<Digit(n) + Half>> \o f[Rest(n)]) \in Seq(Nat)
    <3>1. f[Rest(n)] \in Seq(Nat)
      BY TakeDigit
    <3>2. Digit(n) + Half \in Nat
      BY TakeDigit, HalfAssumption
    <3>3. QED
      BY <3>1, <3>2
  <2>2. QED
    BY <2>1
<1>3. step \in [Nat \X [Nat -> Seq(Nat)] -> Seq(Nat)]
  BY <1>2
<1> HIDE DEF step
<1>4. ASSUME NEW n \in Nat, NEW f \in [Nat -> Seq(Nat)], NEW g \in [Nat -> Seq(Nat)], AgreeBelow(f, g, n)
      PROVE  step[<<n, f>>] = step[<<n, g>>]
  <2>1. CASE n < Half
    BY <1>1, <2>1
  <2>2. CASE ~(n < Half)
    <3>1. Rest(n) \in Nat /\ Rest(n) < n
      BY <2>2, TakeDigit, HalfAssumption
    <3>2. f[Rest(n)] = g[Rest(n)]
      BY <1>4, <3>1 DEF AgreeBelow
    <3>3. QED
      BY <1>1, <2>2, <3>2
  <2>3. QED
    BY <2>1, <2>2
<1>5. <<>> \in Seq(Nat)
  OBVIOUS
<1>6. PICK h \in [Nat -> Seq(Nat)] : Solves(h, step)
  BY <1>3, <1>4, <1>5, StrongRecursion
<1>7. h = [n \in Nat |-> IF n < Half THEN <<n>> ELSE <<Digit(n) + Half>> \o h[Rest(n)]]
  <2>1. \A n \in Nat : h[n] = step[<<n, h>>]
    BY <1>6 DEF Solves
  <2>2. QED
    BY <1>1, <2>1
<1>8. VarLen = [n \in Nat |-> IF n < Half THEN <<n>> ELSE <<Digit(n) + Half>> \o VarLen[Rest(n)]]
  BY <1>7 DEF VarLen, Digit, Rest
<1>9. \A n \in Nat : VarLen[n] = IF n < Half THEN <<n>> ELSE <<Digit(n) + Half>> \o VarLen[Rest(n)]
  BY <1>8
<1> DEFINE T == {n \in Nat : \A m \in Nat : m <= n => VarLen[m] \in Seq(Nat)}
<1>10. T \subseteq Nat /\ \A n \in Nat : n \in T <=> \A m \in Nat : m <= n => VarLen[m] \in Seq(Nat)
  OBVIOUS
<1> HIDE DEF T
<1>11. ASSUME NEW n \in Nat, \A m \in Nat : m < n => VarLen[m] \in Seq(Nat)
       PROVE  VarLen[n] \in Seq(Nat)
  <2>1. CASE n < Half
    <3>1. VarLen[n] = <<n>>
      BY <1>9, <2>1
    <3>2. QED
      BY <3>1
  <2>2. CASE ~(n < Half)
    <3>1. Rest(n) \in Nat /\ Rest(n) < n /\ Digit(n) + Half \in Nat
      BY <2>2, TakeDigit, HalfAssumption
    <3>2. VarLen[Rest(n)] \in Seq(Nat)
      BY <1>11, <3>1
    <3>3. VarLen[n] = <<Digit(n) + Half>> \o VarLen[Rest(n)]
      BY <1>9, <2>2
    <3>4. QED
      BY <3>1, <3>2, <3>3
  <2>3. QED
    BY <2>1, <2>2
<1>12. 0 \in T
  <2>1. VarLen[0] \in Seq(Nat)
    BY <1>11
  <2>2. QED
    BY <1>10, <2>1
<1>13. ASSUME NEW n \in T PROVE n + 1 \in T
  <2>1. n \in Nat /\ \A m \in Nat : m < n + 1 => VarLen[m] \in Seq(Nat)
    BY <1>10, <1>13
  <2>2. VarLen[n + 1] \in Seq(Nat)
    BY <1>11, <2>1
  <2>3. QED
    BY <1>10, <2>1, <2>2
<1>14. T = Nat
  BY <1>10, <1>12, <1>13, SetInduction
<1>15. ASSUME NEW n \in Nat PROVE VarLen[n] \in Seq(Nat)
  <2>1. n \in T /\ n <= n
    BY <1>14
  <2>2. QED
    BY <1>10, <2>1
<1>16. VarLen \in [Nat -> Seq(Nat)]
  BY <1>8, <1>15
<1>17. QED
  BY <1>9, <1>16

LEMMA LaterDigits ==
  ASSUME NEW n \in Nat
  PROVE  Digit(n) + Half \in Nat /\ VarLen[Rest(n)] \in Seq(Nat)
<1>1. Digit(n) + Half \in Nat
  BY TakeDigit, HalfAssumption
<1>2. VarLen[Rest(n)] \in Seq(Nat)
  BY TakeDigit, VarLenStep
<1>3. QED
  BY <1>1, <1>2

(* A length has at least a digit; the first one tells, by its top bit,     *)
(* whether others follow, and they are the digits of what it leaves.       *)
LEMMA VarLenDigits ==
  ASSUME NEW n \in Nat
  PROVE  /\ VarLen[n] \in Seq(Nat) /\ Len(VarLen[n]) \in Nat \ {0}
         /\ n < Half => VarLen[n] = <<n>>
         /\ n >= Half => VarLen[n] = <<Digit(n) + Half>> \o VarLen[Rest(n)]
<1>1. VarLen[n] \in Seq(Nat)
  BY VarLenStep
<1>2. n < Half => VarLen[n] = <<n>>
  BY VarLenStep
<1>3. n >= Half => VarLen[n] = <<Digit(n) + Half>> \o VarLen[Rest(n)]
  BY VarLenStep, HalfAssumption
<1>4. Len(VarLen[n]) # 0
  <2>1. CASE n < Half
    BY <1>2, <2>1
  <2>2. CASE n >= Half
    <3>1. Digit(n) + Half \in Nat /\ VarLen[Rest(n)] \in Seq(Nat)
      BY LaterDigits
    <3>2. QED
      BY <1>3, <2>2, <3>1
  <2>3. QED
    BY <2>1, <2>2, HalfAssumption
<1>5. QED
  BY <1>1, <1>2, <1>3, <1>4

LEMMA FirstDigit ==
  ASSUME NEW n \in Nat
  PROVE  /\ VarLen[n][1] % Half = IF n < Half THEN n ELSE Digit(n)
         /\ (VarLen[n][1] \div Half) % 2 = IF n < Half THEN 0 ELSE 1
<1>1. CASE n < Half
  <2>1. VarLen[n][1] = n
    <3>1. VarLen[n] = <<n>>
      BY <1>1, VarLenDigits
    <3>2. QED
      BY <3>1
  <2>2. n % Half = n /\ n \div Half = 0
    BY <1>1, HalfAssumption
  <2>3. QED
    BY <1>1, <2>1, <2>2
<1>2. CASE n >= Half
  <2>1. Digit(n) \in Nat /\ Digit(n) < Half
    BY TakeDigit
  <2>2. VarLen[n][1] = Digit(n) + Half
    <3>1. Digit(n) + Half \in Nat /\ VarLen[Rest(n)] \in Seq(Nat)
      BY LaterDigits
    <3>2. VarLen[n] = <<Digit(n) + Half>> \o VarLen[Rest(n)]
      BY <1>2, VarLenDigits
    <3>3. QED
      BY <3>1, <3>2
  <2>3. ASSUME NEW d \in Nat, d < Half
        PROVE  (d + Half) % Half = d /\ (d + Half) \div Half = 1
    BY <2>3, HalfAssumption
  <2>4. QED
    BY <1>2, <2>1, <2>2, <2>3, HalfAssumption
<1>3. QED
  BY <1>1, <1>2, HalfAssumption

LEMMA OtherDigits ==
  ASSUME NEW n \in Nat, n >= Half
  PROVE  /\ Len(VarLen[n]) = 1 + Len(VarLen[Rest(n)])
         /\ \A j \in 1 .. Len(VarLen[Rest(n)]) : VarLen[n][1 + j] = VarLen[Rest(n)][j]
<1>1. Digit(n) + Half \in Nat /\ VarLen[Rest(n)] \in Seq(Nat)
  BY LaterDigits
<1>2. VarLen[n] = <<Digit(n) + Half>> \o VarLen[Rest(n)]
  BY VarLenDigits
<1>3. QED
  BY <1>1, <1>2

----------------------------------------------------------------------------
(* Fields.                                                                 *)

LEMMA Regroup ==
  \A S : \A a, b, c \in Seq(S) : (a \o b) \o c = a \o (b \o c)
<1>1. ASSUME NEW S, NEW a \in Seq(S), NEW b \in Seq(S), NEW c \in Seq(S)
      PROVE  (a \o b) \o c = a \o (b \o c)
  BY ConcatAssociative
<1>2. QED
  BY <1>1
LEMMA RegroupBytes == \A v, w, t \in Seq(Nat) : (v \o w) \o t = v \o (w \o t)
  BY Regroup

(* FlattenSeq puts one sequence after the other.                           *)
Joins(f, seqs) ==
  /\ f[0] = <<>>
  /\ \A n \in Nat : n < Len(seqs) => f[n + 1] = f[n] \o seqs[n + 1]
  /\ FlattenSeq(seqs) = f[Len(seqs)]

LEMMA FlattenJoins ==
  ASSUME NEW S, NEW seqs \in Seq(Seq(S))
  PROVE  \E f \in [Nat -> Seq(S)] : Joins(f, seqs)
<1>1. PICK N \in Nat : N = Len(seqs)
  OBVIOUS
<1> DEFINE flatten[i \in 1 .. Len(seqs)] == IF i = 1 THEN seqs[i] ELSE flatten[i-1] \o seqs[i]
           step == [p \in Nat \X Seq(S) |->
                      IF p[1] < N THEN p[2] \o seqs[p[1] + 1] ELSE p[2]]
<1>2. \A i \in 1 .. N : seqs[i] \in Seq(S)
  BY <1>1
<1>3. N # 0 => FlattenSeq(seqs) = flatten[N]
  BY <1>1 DEF FlattenSeq
<1> HIDE DEF flatten
<1>4. \A n \in Nat, s \in Seq(S) :
        step[<<n, s>>] = IF n < N THEN s \o seqs[n + 1] ELSE s
  OBVIOUS
<1>5. step \in [Nat \X Seq(S) -> Seq(S)]
  <2>1. ASSUME NEW n \in Nat, NEW s \in Seq(S)
        PROVE  (IF n < N THEN s \o seqs[n + 1] ELSE s) \in Seq(S)
    <3>1. n < N => seqs[n + 1] \in Seq(S)
      BY <1>2
    <3>2. QED
      BY <3>1
  <2>2. QED
    BY <2>1
<1> HIDE DEF step
<1>6. <<>> \in Seq(S)
  OBVIOUS
<1>7. PICK f \in [Nat -> Seq(S)] : Iterates(f, <<>>, step)
  BY <1>5, <1>6, Recursion
<1>8. ASSUME NEW n \in Nat, n < N PROVE f[n + 1] = f[n] \o seqs[n + 1]
  BY <1>4, <1>7, <1>8 DEF Iterates
<1>9. ASSUME N # 0 PROVE f[1] = seqs[1]
  <2>0. 0 < N /\ 0 \in Nat
    BY <1>9
  <2>1. f[0] = <<>> /\ f[0 + 1] = f[0] \o seqs[0 + 1]
    <3>1. f[0] = <<>>
      BY <1>7 DEF Iterates
    <3>2. f[0 + 1] = f[0] \o seqs[0 + 1]
      BY <1>8, <2>0
    <3>3. QED
      BY <3>1, <3>2
  <2>2. seqs[1] \in Seq(S)
    BY <1>2, <1>9
  <2>3. QED
    BY <2>1, <2>2
<1> DEFINE h == [i \in 1 .. N |-> f[i]]
<1>10. h = [i \in 1 .. N |-> IF i = 1 THEN seqs[i] ELSE h[i-1] \o seqs[i]]
  <2>1. ASSUME NEW i \in 1 .. N
        PROVE  f[i] = IF i = 1 THEN seqs[i] ELSE h[i-1] \o seqs[i]
    <3>1. CASE i = 1
      BY <1>2, <1>9, <3>1
    <3>2. CASE i # 1
      <4>1. i - 1 \in Nat /\ i - 1 < N /\ (i - 1) + 1 = i /\ i - 1 \in 1 .. N
        BY <1>2, <3>2
      <4>2. f[i] = f[i - 1] \o seqs[i]
        BY <1>8, <4>1
      <4>3. QED
        BY <3>2, <4>1, <4>2
    <3>3. QED
      BY <3>1, <3>2
  <2>2. QED
    BY <2>1
<1> HIDE DEF h
<1>11. flatten = [i \in 1 .. N |-> IF i = 1 THEN seqs[i] ELSE flatten[i-1] \o seqs[i]]
  BY <1>1, <1>10 DEF flatten
<1>12. \A i \in 1 .. N : flatten[i] = IF i = 1 THEN seqs[i] ELSE flatten[i-1] \o seqs[i]
  BY <1>11
<1> DEFINE T == {n \in Nat : n < N => flatten[n + 1] = f[n + 1]}
<1>13. T \subseteq Nat /\ \A n \in Nat : n \in T <=> (n < N => flatten[n + 1] = f[n + 1])
  OBVIOUS
<1> HIDE DEF T
<1>14. 0 \in T
  <2>1. ASSUME 0 < N PROVE flatten[0 + 1] = f[0 + 1]
    <3>1. 1 \in 1 .. N /\ N # 0
      BY <1>2, <2>1
    <3>2. flatten[1] = seqs[1]
      BY <1>12, <3>1
    <3>3. QED
      BY <1>9, <3>1, <3>2
  <2>2. QED
    BY <1>13, <2>1
<1>15. ASSUME NEW n \in T PROVE n + 1 \in T
  <2>1. n \in Nat
    BY <1>13
  <2>2. ASSUME n + 1 < N PROVE flatten[(n + 1) + 1] = f[(n + 1) + 1]
    <3> DEFINE i == (n + 1) + 1
    <3>1. i \in 1 .. N /\ i # 1 /\ i - 1 = n + 1 /\ n < N
      BY <1>2, <2>1, <2>2
    <3> HIDE DEF i
    <3>2. flatten[i] = flatten[i - 1] \o seqs[i]
      BY <1>12, <3>1
    <3>3. flatten[n + 1] = f[n + 1]
      BY <1>13, <1>15, <2>1, <3>1
    <3>4. f[i] = f[n + 1] \o seqs[i]
      <4> DEFINE m == n + 1
      <4>1. m \in Nat /\ m < N
        BY <2>1, <2>2
      <4> HIDE DEF m
      <4>2. f[m + 1] = f[m] \o seqs[m + 1]
        BY <1>8, <4>1
      <4>3. QED
        BY <4>2 DEF i, m
    <3>5. QED
      BY <3>1, <3>2, <3>3, <3>4 DEF i
  <2>3. QED
    BY <1>13, <2>1, <2>2
<1>16. T = Nat
  BY <1>13, <1>14, <1>15, SetInduction
<1>17. ASSUME N = 0 PROVE FlattenSeq(seqs) = f[N]
  <2>1. seqs = <<>>
    BY <1>1, <1>17, EmptySeq
  <2>2. FlattenSeq(seqs) = <<>>
    BY <2>1 DEF FlattenSeq
  <2>3. QED
    BY <1>7, <1>17, <2>2 DEF Iterates
<1>18. ASSUME N # 0 PROVE FlattenSeq(seqs) = f[N]
  <2>1. N - 1 \in T /\ N - 1 \in Nat /\ (N - 1) + 1 = N
    BY <1>2, <1>16, <1>18
  <2>2. flatten[N] = f[N]
    BY <1>2, <1>13, <2>1
  <2>3. QED
    BY <1>2, <1>3, <1>18, <2>2
<1>19. f[0] = <<>>
  BY <1>7 DEF Iterates
<1>20. Joins(f, seqs)
  BY <1>1, <1>8, <1>17, <1>18, <1>19 DEF Joins
<1>21. QED
  BY <1>20

LEMMA FlattenType ==
  ASSUME NEW S, NEW seqs \in Seq(Seq(S))
  PROVE  FlattenSeq(seqs) \in Seq(S)
<1>1. PICK f \in [Nat -> Seq(S)] : Joins(f, seqs)
  BY FlattenJoins
<1>2. FlattenSeq(seqs) = f[Len(seqs)]
  BY <1>1 DEF Joins
<1>3. PICK N \in Nat : N = Len(seqs)
  OBVIOUS
<1>4. f[N] \in Seq(S)
  OBVIOUS
<1>5. QED
  BY <1>2, <1>3, <1>4

LEMMA FlattenEmpty == FlattenSeq(<<>>) = <<>>
  BY DEF FlattenSeq

(* The first one can be taken off.                                         *)
LEMMA FlattenHead ==
  ASSUME NEW S, NEW seqs \in Seq(Seq(S)), seqs # <<>>
  PROVE  FlattenSeq(seqs) = Head(seqs) \o FlattenSeq(Tail(seqs))
<1>0. \A a, b, c \in Seq(S) : (a \o b) \o c = a \o (b \o c)
  BY Regroup
<1>1. PICK N \in Nat : Len(seqs) = N + 1
  <2>1. PICK k \in Nat : k = Len(seqs)
    OBVIOUS
  <2>2. k # 0
    BY <2>1, EmptySeq
  <2>3. k - 1 \in Nat /\ k = (k - 1) + 1
    BY <2>2
  <2>4. QED
    BY <2>1, <2>3
<1>2. Tail(seqs) \in Seq(Seq(S)) /\ Len(Tail(seqs)) = N
      /\ \A i \in 1 .. N : Tail(seqs)[i] = seqs[i + 1]
  BY <1>1
<1>3. Head(seqs) = seqs[1] /\ \A i \in 1 .. N + 1 : seqs[i] \in Seq(S)
  BY <1>1
<1>4. PICK f \in [Nat -> Seq(S)] : Joins(f, seqs)
  BY FlattenJoins
<1>5. PICK g \in [Nat -> Seq(S)] : Joins(g, Tail(seqs))
  BY <1>2, FlattenJoins
<1> DEFINE x == seqs[1]
           T == {n \in Nat : n <= N => f[n + 1] = x \o g[n]}
<1>6. T \subseteq Nat /\ \A n \in Nat : n \in T <=> (n <= N => f[n + 1] = x \o g[n])
  OBVIOUS
<1> HIDE DEF T
<1>7. 0 \in T
  <2>1. x \in Seq(S)
    BY <1>3, <1>1
  <2>2. f[0] = <<>> /\ g[0] = <<>>
    BY <1>4, <1>5 DEF Joins
  <2>3. f[0 + 1] = <<>> \o x
    <3>1. 0 \in Nat /\ 0 < Len(seqs)
      BY <1>1
    <3>2. f[0 + 1] = f[0] \o seqs[0 + 1]
      BY <1>4, <3>1 DEF Joins
    <3>3. 0 + 1 = 1
      OBVIOUS
    <3>4. QED
      BY <2>2, <3>2, <3>3
  <2>4. <<>> \o x = x /\ x \o <<>> = x
    BY <2>1, ConcatEmptySeq
  <2>5. f[0 + 1] = x \o g[0]
    BY <2>2, <2>3, <2>4
  <2>6. QED
    BY <1>6, <2>5
<1>8. ASSUME NEW n \in T PROVE n + 1 \in T
  <2>1. n \in Nat
    BY <1>6
  <2>2. ASSUME n + 1 <= N PROVE f[(n + 1) + 1] = x \o g[n + 1]
    <3>1. PICK k \in Nat : k = n + 1
      BY <2>1
    <3>2. k < N + 1 /\ n < N /\ n <= N /\ 1 \in 1 .. N + 1 /\ k + 1 \in 1 .. N + 1
      BY <2>1, <2>2, <3>1
    <3>3. f[k + 1] = f[k] \o seqs[k + 1]
      BY <1>1, <1>4, <3>2 DEF Joins
    <3>4. g[n + 1] = g[n] \o Tail(seqs)[n + 1]
      BY <1>2, <1>5, <2>1, <3>2 DEF Joins
    <3>5. Tail(seqs)[n + 1] = seqs[k + 1]
      <4>1. n + 1 \in 1 .. N
        BY <2>1, <3>2
      <4>2. Tail(seqs)[n + 1] = seqs[(n + 1) + 1]
        BY <1>2, <4>1
      <4>3. QED
        BY <3>1, <4>2
    <3>6. f[k] = x \o g[n]
      BY <1>6, <1>8, <2>1, <3>1, <3>2
    <3>7. x \in Seq(S) /\ g[n] \in Seq(S) /\ seqs[k + 1] \in Seq(S)
      BY <1>3, <2>1, <3>2
    <3>8. (x \o g[n]) \o seqs[k + 1] = x \o (g[n] \o seqs[k + 1])
      BY <1>0, <3>7, Zenon
    <3>9. QED
      BY <3>1, <3>3, <3>4, <3>5, <3>6, <3>8
  <2>3. n + 1 \in Nat
    BY <2>1
  <2>4. n + 1 \in T <=> (n + 1 <= N => f[(n + 1) + 1] = x \o g[n + 1])
    BY <1>6, <2>3
  <2>5. QED
    BY <2>2, <2>4
<1>9. T = Nat
  BY <1>6, <1>7, <1>8, SetInduction
<1>10. N \in T /\ N <= N
  BY <1>9
<1>11. f[N + 1] = x \o g[N]
  BY <1>6, <1>10
<1>12. FlattenSeq(seqs) = f[N + 1] /\ FlattenSeq(Tail(seqs)) = g[N]
  BY <1>1, <1>2, <1>4, <1>5 DEF Joins
<1>13. QED
  BY <1>3, <1>11, <1>12

LEMMA ByteType == Byte \in Nat /\ Byte > 1 /\ U16Space \in Nat /\ U16Space >= Byte
<1>1. Byte \in Nat /\ Byte > 1
  BY HalfAssumption DEF Byte
<1>2. ASSUME NEW b \in Nat, b > 1 PROVE b * b \in Nat /\ b * b >= b
  BY <1>2
<1>3. QED
  BY <1>1, <1>2 DEF U16Space

LEMMA U32Type ==
  /\ U32Space \in Nat \ {0}
  /\ \A n \in Nat : n % U32Space \in Nat
<1>1. ASSUME NEW b \in Nat, b > 1 PROVE b * b \in Nat \ {0}
  BY <1>1
<1>2. U32Space \in Nat \ {0}
  BY <1>1, ByteType DEF U32Space
<1>3. QED
  BY <1>2

LEMMA U16Type ==
  ASSUME NEW n \in Nat
  PROVE  U16(n) \in Seq(Nat) /\ Len(U16(n)) = 2
<1>1. ASSUME NEW b \in Nat, b > 1, NEW m \in Nat PROVE m \div b \in Nat /\ m % b \in Nat
  BY <1>1
<1>2. (n \div Byte) % Byte \in Nat /\ n % Byte \in Nat
  BY <1>1, ByteType
<1>3. QED
  BY <1>2 DEF U16

LEMMA MqttStringType ==
  ASSUME NEW s \in Seq(Nat)
  PROVE  MqttString(s) \in Seq(Nat)
<1>1. U16(Len(s)) \in Seq(Nat)
  BY U16Type
<1>2. QED
  BY <1>1 DEF MqttString

LEMMA OptionalType ==
  ASSUME NEW s \in {None} \cup Seq(Nat)
  PROVE  Optional(s) \in Seq(Nat)
<1>1. CASE s = None
  BY <1>1 DEF Optional
<1>2. CASE s # None
  BY <1>2, MqttStringType DEF Optional
<1>3. QED
  BY <1>1, <1>2

LEMMA TopicsType ==
  ASSUME NEW subs \in Seq([topic : Seq(Nat), qos : 0 .. 2])
  PROVE  Topics(subs) \in Seq(Nat)
<1> DEFINE item(i) == MqttString(subs[i].topic) \o <<subs[i].qos % 4>>
<1>1. ASSUME NEW i \in 1 .. Len(subs) PROVE item(i) \in Seq(Nat)
  <2>1. subs[i].topic \in Seq(Nat) /\ subs[i].qos \in 0 .. 2
    <3>1. subs[i] \in [topic : Seq(Nat), qos : 0 .. 2]
      BY <1>1, ElementOfSeq
    <3>2. QED
      BY <3>1
  <2>2. subs[i].qos % 4 \in Nat
    BY <2>1
  <2>3. MqttString(subs[i].topic) \in Seq(Nat)
    BY <2>1, MqttStringType
  <2>4. QED
    BY <2>2, <2>3
<1>2. DOMAIN subs = 1 .. Len(subs) /\ Len(subs) \in Nat
  OBVIOUS
<1> HIDE DEF item
<1>3. [i \in DOMAIN subs |-> item(i)] \in Seq(Seq(Nat))
  BY <1>1, <1>2, IsASeq
<1>4. FlattenSeq([i \in DOMAIN subs |-> item(i)]) \in Seq(Nat)
  BY <1>3, FlattenType
<1>5. QED
  BY <1>4 DEF Topics, item

LEMMA FiltersType ==
  ASSUME NEW topics \in Seq(Seq(Nat))
  PROVE  Filters(topics) \in Seq(Nat)
<1> DEFINE item(i) == MqttString(topics[i])
<1>1. ASSUME NEW i \in 1 .. Len(topics) PROVE item(i) \in Seq(Nat)
  BY <1>1, MqttStringType
<1>2. DOMAIN topics = 1 .. Len(topics) /\ Len(topics) \in Nat
  OBVIOUS
<1> HIDE DEF item
<1>3. [i \in DOMAIN topics |-> item(i)] \in Seq(Seq(Nat))
  BY <1>1, <1>2, IsASeq
<1>4. FlattenSeq([i \in DOMAIN topics |-> item(i)]) \in Seq(Nat)
  BY <1>3, FlattenType
<1>5. QED
  BY <1>4 DEF Filters, item

LEMMA NoneToJoin == Topics(<<>>) = <<>> /\ Filters(<<>>) = <<>>
<1>1. ASSUME NEW items, DOMAIN items = {}, items = [i \in {} |-> items[i]] PROVE items = <<>>
  <2>1. items \in Seq(Nat)
    <3>1. items = [i \in 1 .. 0 |-> items[i]]
      BY <1>1
    <3>2. QED
      BY <3>1, IsASeq
  <2>2. Len(items) = 0
    BY <1>1, <2>1
  <2>3. QED
    BY <2>1, <2>2, EmptySeq
<1>2. DOMAIN <<>> = {}
  OBVIOUS
<1>3. [i \in DOMAIN <<>> |-> MqttString(<<>>[i].topic) \o <<(<<>>[i].qos) % 4>>] = <<>>
  BY <1>1, <1>2
<1>4. [i \in DOMAIN <<>> |-> MqttString(<<>>[i])] = <<>>
  BY <1>1, <1>2
<1>5. QED
  BY <1>3, <1>4, FlattenEmpty DEF Topics, Filters

LEMMA ItemsTail ==
  ASSUME NEW S, NEW items \in Seq(S), NEW rest \in Seq(S), Len(items) = Len(rest) + 1,
         \A i \in 1 .. Len(rest) : rest[i] = items[i + 1]
  PROVE  items # <<>> /\ Head(items) = items[1] /\ Tail(items) = rest
<1>1. PICK N \in Nat : N = Len(rest)
  OBVIOUS
<1>2. Len(items) = N + 1
  BY <1>1
<1>3. items # <<>> /\ Head(items) = items[1]
  BY <1>2
<1>4. Tail(items) \in Seq(S) /\ Len(Tail(items)) = N /\ \A i \in 1 .. N : Tail(items)[i] = items[i + 1]
  BY <1>2, <1>3
<1>5. \A i \in 1 .. N : Tail(items)[i] = rest[i]
  BY <1>1, <1>4
<1>6. Tail(items) = rest
  BY <1>1, <1>4, <1>5, SeqEqual
<1>7. QED
  BY <1>3, <1>6

LEMMA TailFacts ==
  ASSUME NEW S, NEW s \in Seq(S), s # <<>>
  PROVE  /\ Tail(s) \in Seq(S) /\ s[1] \in S /\ Len(Tail(s)) \in Nat
         /\ Len(s) = Len(Tail(s)) + 1
         /\ \A i \in 1 .. Len(Tail(s)) : Tail(s)[i] = s[i + 1]
<1>1. PICK N \in Nat : N = Len(s)
  OBVIOUS
<1>2. N # 0
  BY <1>1, EmptySeq
<1>3. QED
  BY <1>1, <1>2

(* What a SUBSCRIBE and an UNSUBSCRIBE begin with.                         *)
LEMMA TopicsHead ==
  ASSUME NEW subs \in Seq([topic : Seq(Nat), qos : 0 .. 2]), subs # <<>>
  PROVE  Topics(subs) = (MqttString(subs[1].topic) \o <<subs[1].qos % 4>>) \o Topics(Tail(subs))
<1> DEFINE item(x) == MqttString(x.topic) \o <<x.qos % 4>>
           items(s) == [i \in DOMAIN s |-> item(s[i])]
<1>1. ASSUME NEW x \in [topic : Seq(Nat), qos : 0 .. 2] PROVE item(x) \in Seq(Nat)
  <2>1. x.topic \in Seq(Nat) /\ x.qos \in 0 .. 2
    OBVIOUS
  <2>2. x.qos % 4 \in Nat
    BY <2>1
  <2>3. MqttString(x.topic) \in Seq(Nat)
    BY <2>1, MqttStringType
  <2>4. QED
    BY <2>2, <2>3
<1> HIDE DEF item
<1>2. ASSUME NEW s \in Seq([topic : Seq(Nat), qos : 0 .. 2])
      PROVE  /\ items(s) \in Seq(Seq(Nat)) /\ Len(items(s)) = Len(s)
             /\ \A i \in 1 .. Len(s) : items(s)[i] = item(s[i])
  <2>1. PICK N \in Nat : N = Len(s) /\ DOMAIN s = 1 .. N
    OBVIOUS
  <2>2. \A i \in 1 .. N : s[i] \in [topic : Seq(Nat), qos : 0 .. 2]
    BY <2>1, ElementOfSeq
  <2>3. items(s) = [i \in 1 .. N |-> item(s[i])] /\ \A i \in 1 .. N : item(s[i]) \in Seq(Nat)
    BY <1>1, <2>1, <2>2
  <2>4. items(s) \in Seq(Seq(Nat)) /\ Len(items(s)) = N
    BY <2>3, IsASeq
  <2>5. QED
    BY <2>1, <2>3, <2>4
<1>3. ASSUME NEW s PROVE Topics(s) = FlattenSeq(items(s))
  BY DEF Topics, item
<1> HIDE DEF items
<1>4. /\ Tail(subs) \in Seq([topic : Seq(Nat), qos : 0 .. 2]) /\ Len(Tail(subs)) \in Nat
      /\ Len(subs) = Len(Tail(subs)) + 1
      /\ \A i \in 1 .. Len(Tail(subs)) : Tail(subs)[i] = subs[i + 1]
  BY TailFacts
<1>5. PICK N \in Nat : N = Len(Tail(subs))
  BY <1>4
<1>6. /\ items(subs) \in Seq(Seq(Nat)) /\ items(Tail(subs)) \in Seq(Seq(Nat))
      /\ Len(items(subs)) = N + 1 /\ Len(items(Tail(subs))) = N
  BY <1>2, <1>4, <1>5
<1>7. /\ \A i \in 1 .. N + 1 : items(subs)[i] = item(subs[i])
      /\ \A i \in 1 .. N : items(Tail(subs))[i] = item(Tail(subs)[i])
  BY <1>2, <1>4, <1>5
<1>8. \A i \in 1 .. N : items(Tail(subs))[i] = items(subs)[i + 1]
  <2>1. ASSUME NEW i \in 1 .. N PROVE items(Tail(subs))[i] = items(subs)[i + 1]
    <3>1. i + 1 \in 1 .. N + 1 /\ Tail(subs)[i] = subs[i + 1]
      BY <1>4, <1>5
    <3>2. QED
      BY <1>7, <3>1
  <2>2. QED
    BY <2>1
<1>9. /\ items(subs) # <<>> /\ Head(items(subs)) = items(subs)[1]
      /\ Tail(items(subs)) = items(Tail(subs))
  BY <1>6, <1>8, ItemsTail
<1>10. items(subs)[1] = item(subs[1])
  BY <1>7
<1>11. FlattenSeq(items(subs)) = Head(items(subs)) \o FlattenSeq(Tail(items(subs)))
  BY <1>6, <1>9, FlattenHead
<1>12. FlattenSeq(items(subs)) = item(subs[1]) \o FlattenSeq(items(Tail(subs)))
  BY <1>9, <1>10, <1>11
<1>13. QED
  BY <1>3, <1>12 DEF item

LEMMA FiltersHead ==
  ASSUME NEW topics \in Seq(Seq(Nat)), topics # <<>>
  PROVE  Filters(topics) = MqttString(topics[1]) \o Filters(Tail(topics))
<1> DEFINE items(s) == [i \in DOMAIN s |-> MqttString(s[i])]
<1>2. ASSUME NEW s \in Seq(Seq(Nat))
      PROVE  /\ items(s) \in Seq(Seq(Nat)) /\ Len(items(s)) = Len(s)
             /\ \A i \in 1 .. Len(s) : items(s)[i] = MqttString(s[i])
  <2>1. PICK N \in Nat : N = Len(s) /\ DOMAIN s = 1 .. N
    OBVIOUS
  <2>2. \A i \in 1 .. N : s[i] \in Seq(Nat)
    BY <2>1
  <2>3. items(s) = [i \in 1 .. N |-> MqttString(s[i])] /\ \A i \in 1 .. N : MqttString(s[i]) \in Seq(Nat)
    BY <2>1, <2>2, MqttStringType
  <2>4. items(s) \in Seq(Seq(Nat)) /\ Len(items(s)) = N
    BY <2>3, IsASeq
  <2>5. QED
    BY <2>1, <2>3, <2>4
<1>3. ASSUME NEW s PROVE Filters(s) = FlattenSeq(items(s))
  BY DEF Filters
<1> HIDE DEF items
<1>4. /\ Tail(topics) \in Seq(Seq(Nat)) /\ Len(Tail(topics)) \in Nat
      /\ Len(topics) = Len(Tail(topics)) + 1
      /\ \A i \in 1 .. Len(Tail(topics)) : Tail(topics)[i] = topics[i + 1]
  BY TailFacts
<1>5. PICK N \in Nat : N = Len(Tail(topics))
  BY <1>4
<1>6. /\ items(topics) \in Seq(Seq(Nat)) /\ items(Tail(topics)) \in Seq(Seq(Nat))
      /\ Len(items(topics)) = N + 1 /\ Len(items(Tail(topics))) = N
  BY <1>2, <1>4, <1>5
<1>7. /\ \A i \in 1 .. N + 1 : items(topics)[i] = MqttString(topics[i])
      /\ \A i \in 1 .. N : items(Tail(topics))[i] = MqttString(Tail(topics)[i])
  BY <1>2, <1>4, <1>5
<1>8. \A i \in 1 .. N : items(Tail(topics))[i] = items(topics)[i + 1]
  <2>1. ASSUME NEW i \in 1 .. N PROVE items(Tail(topics))[i] = items(topics)[i + 1]
    <3>1. i + 1 \in 1 .. N + 1 /\ Tail(topics)[i] = topics[i + 1]
      BY <1>4, <1>5
    <3>2. QED
      BY <1>7, <3>1
  <2>2. QED
    BY <2>1
<1>9. /\ items(topics) # <<>> /\ Head(items(topics)) = items(topics)[1]
      /\ Tail(items(topics)) = items(Tail(topics))
  BY <1>6, <1>8, ItemsTail
<1>10. items(topics)[1] = MqttString(topics[1])
  BY <1>7
<1>11. FlattenSeq(items(topics)) = Head(items(topics)) \o FlattenSeq(Tail(items(topics)))
  BY <1>6, <1>9, FlattenHead
<1>12. QED
  BY <1>3, <1>9, <1>10, <1>11

----------------------------------------------------------------------------
(* Packets: a first byte, the length of what follows it, and that.         *)

LEMMA FramedParts ==
  ASSUME NEW first \in Nat, NEW body \in Seq(Nat), Len(Framed(first, body)) < U32Space
  PROVE  LET b == Framed(first, body)
             k == Len(VarLen[Len(body)])
         IN  /\ b \in Seq(Nat) /\ Len(b) = 1 + k + Len(body)
             /\ b[1] = first
             /\ \A j \in 1 .. k : b[1 + j] = VarLen[Len(body)][j]
             /\ \A j \in 1 .. Len(body) : b[1 + k + j] = body[j]
<1> DEFINE v == VarLen[Len(body)]
           w == VarLen[Len(body) % U32Space]
<1>1. Len(body) \in Nat /\ Len(body) % U32Space \in Nat
  BY U32Type
<1>2. v \in Seq(Nat) /\ w \in Seq(Nat)
  BY <1>1, VarLenDigits
<1>3. v \in Seq(Nat)
  BY <1>2
<1>4. Framed(first, body) = <<first>> \o w \o body
  BY DEF Framed
<1> HIDE DEF w
<1>5. Len(body) < U32Space
  <2>1. Len(<<first>> \o w \o body) = 1 + Len(w) + Len(body) /\ Len(w) \in Nat
    BY <1>2
  <2>2. QED
    BY <1>1, <1>4, <2>1, U32Type
<1>6. Framed(first, body) = <<first>> \o v \o body
  <2>1. ASSUME NEW n \in Nat, NEW k \in Nat, n < k PROVE n % k = n
    BY <2>1
  <2>2. Len(body) % U32Space = Len(body)
    BY <1>1, <1>5, <2>1, U32Type
  <2>3. QED
    BY <1>4, <2>2 DEF w
<1> HIDE DEF v
<1>7. /\ <<first>> \o v \o body \in Seq(Nat)
      /\ Len(<<first>> \o v \o body) = 1 + Len(v) + Len(body)
  BY <1>3
<1>8. (<<first>> \o v \o body)[1] = first
  BY <1>3
<1>9. \A j \in 1 .. Len(v) : (<<first>> \o v \o body)[1 + j] = v[j]
  BY <1>3
<1>10. \A j \in 1 .. Len(body) : (<<first>> \o v \o body)[1 + Len(v) + j] = body[j]
  BY <1>3
<1>11. QED
  BY <1>6, <1>7, <1>8, <1>9, <1>10 DEF v
=============================================================================
