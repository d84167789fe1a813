------------------------- MODULE TopicFilter_proofs -------------------------
(***************************************************************************)
(* topicMatchesFilter() and section 4.7 of MQTT, for topics and filters of *)
(* any length over any letters.                                            *)
(***************************************************************************)
EXTENDS TopicFilter, NatRecursion, SequenceTheorems

----------------------------------------------------------------------------
(* Levels.                                                                 *)

LevelLists == {ls \in Seq(Text) : ls # <<>>}

LEMMA PutFirst ==
  ASSUME NEW A, NEW s \in Seq(A), s # <<>>, NEW x \in A
  PROVE  /\ [s EXCEPT ![1] = x] \in Seq(A)
         /\ Len([s EXCEPT ![1] = x]) = Len(s)
         /\ [s EXCEPT ![1] = x][1] = x
         /\ \A k \in 2 .. Len(s) : [s EXCEPT ![1] = x][k] = s[k]
<1>1. PICK n \in Nat : n = Len(s)
  OBVIOUS
<1>2. s \in [1 .. n -> A] /\ 1 \in 1 .. n
  BY <1>1
<1>3. [s EXCEPT ![1] = x] \in [1 .. n -> A]
  BY <1>2
<1>4. [s EXCEPT ![1] = x] \in Seq(A) /\ Len([s EXCEPT ![1] = x]) = n
  BY <1>3
<1>5. QED
  BY <1>1, <1>2, <1>4

LEMMA PutBefore ==
  ASSUME NEW A, NEW s \in Seq(A), NEW x \in A
  PROVE  /\ <<x>> \o s \in Seq(A)
         /\ <<x>> \o s # <<>>
         /\ Len(<<x>> \o s) = Len(s) + 1
         /\ (<<x>> \o s)[1] = x
         /\ \A k \in 1 .. Len(s) : (<<x>> \o s)[k + 1] = s[k]
  OBVIOUS

LEMMA LevelsDefined ==
  /\ Levels \in [Text -> LevelLists]
  /\ Levels[<<>>] = <<<<>>>>
  /\ \A s \in Text : s # <<>> =>
       Levels[s] = IF Head(s) = "/" THEN <<<<>>>> \o Levels[Tail(s)]
                   ELSE [Levels[Tail(s)] EXCEPT ![1] = <<Head(s)>> \o @]
<1> DEFINE Cut(s, f) == IF s = <<>> THEN <<<<>>>>
                        ELSE IF Head(s) = "/" THEN <<<<>>>> \o f[Tail(s)]
                        ELSE [f[Tail(s)] EXCEPT ![1] = <<Head(s)>> \o @]
           F == [Text -> LevelLists]
           step == [p \in Text \X F |-> Cut(p[1], p[2])]
<1>1. <<>> \in Text /\ <<<<>>>> \in LevelLists
  BY DEF Text, LevelLists
<1>2. ASSUME NEW s \in Text, s # <<>>
      PROVE  Tail(s) \in Text /\ Head(s) \in Char /\ Len(Tail(s)) < Len(s)
  BY <1>2 DEF Text
<1>3. ASSUME NEW s \in Text, NEW f \in F PROVE Cut(s, f) \in LevelLists
  <2>1. CASE s = <<>>
    BY <1>1, <2>1
  <2>2. CASE s # <<>>
    <3>1. f[Tail(s)] \in Seq(Text) /\ f[Tail(s)] # <<>>
      BY <1>2, <2>2 DEF LevelLists
    <3>2. PICK ls \in Seq(Text) : ls = f[Tail(s)] /\ ls # <<>>
      BY <3>1
    <3>3. <<<<>>>> \o ls \in LevelLists
      BY <1>1, PutBefore DEF LevelLists
    <3>4. <<Head(s)>> \o ls[1] \in Text
      <4>1. ls[1] \in Text
        BY <3>2
      <4>2. QED
        BY <1>2, <2>2, <4>1 DEF Text
    <3>5. [ls EXCEPT ![1] = <<Head(s)>> \o ls[1]] \in LevelLists
      <4>1. PICK x \in Text : x = <<Head(s)>> \o ls[1]
        BY <3>4
      <4>2. /\ [ls EXCEPT ![1] = x] \in Seq(Text)
            /\ Len([ls EXCEPT ![1] = x]) = Len(ls)
        BY <3>2, PutFirst
      <4>3. [ls EXCEPT ![1] = x] # <<>>
        BY <3>2, <4>2
      <4>4. QED
        BY <4>1, <4>2, <4>3 DEF LevelLists
    <3>6. QED
      BY <2>2, <3>2, <3>3, <3>5
  <2>3. QED
    BY <2>1, <2>2
<1>4. ASSUME NEW s \in Text, NEW f \in F, NEW g \in F, AgreeShorter(f, g, s, Char)
      PROVE  Cut(s, f) = Cut(s, g)
  <2>1. CASE s = <<>>
    BY <2>1
  <2>2. CASE s # <<>>
    <3>1. f[Tail(s)] = g[Tail(s)]
      BY <1>2, <1>4, <2>2 DEF AgreeShorter, Text
    <3>2. QED
      BY <2>2, <3>1
  <2>3. QED
    BY <2>1, <2>2
<1>5. ASSUME NEW h, h = [s \in Text |-> Cut(s, h)]
      PROVE  h = [s \in Text |-> IF s = <<>> THEN <<<<>>>>
                                 ELSE IF Head(s) = "/" THEN <<<<>>>> \o h[Tail(s)]
                                 ELSE [h[Tail(s)] EXCEPT ![1] = <<Head(s)>> \o @]]
  BY <1>5
<1>6. \A s \in Text, f \in F : s # <<>> =>
        Cut(s, f) = IF Head(s) = "/" THEN <<<<>>>> \o f[Tail(s)]
                    ELSE [f[Tail(s)] EXCEPT ![1] = <<Head(s)>> \o @]
  OBVIOUS
<1>7. \A f \in F : Cut(<<>>, f) = <<<<>>>>
  OBVIOUS
<1>8. (\E h : h = [s \in Text |-> Cut(s, h)]) => Levels = [s \in Text |-> Cut(s, Levels)]
  BY DEF Levels
<1> HIDE DEF Cut
<1>9. step \in [Text \X F -> LevelLists] /\ \A s \in Text, f \in F : step[<<s, f>>] = Cut(s, f)
  BY <1>3
<1> HIDE DEF step
<1>10. \A s \in Text, f, g \in F : AgreeShorter(f, g, s, Char) => step[<<s, f>>] = step[<<s, g>>]
  BY <1>4, <1>9
<1>11. PICK h \in F : SolvesOver(h, step, Char)
  BY <1>1, <1>9, <1>10, SequenceRecursion DEF Text
<1>12. h = [s \in Text |-> Cut(s, h)]
  BY <1>9, <1>11 DEF SolvesOver, Text
<1>13. Levels = [s \in Text |-> Cut(s, Levels)]
  BY <1>8, <1>12
<1>14. ASSUME NEW s \in Text, \A u \in Text : Len(u) < Len(s) => Levels[u] \in LevelLists
       PROVE  Levels[s] \in LevelLists
  <2> DEFINE g == [u \in Text |-> IF Len(u) < Len(s) THEN Levels[u] ELSE <<<<>>>>]
  <2>1. g \in F /\ \A u \in Text : Len(u) < Len(s) => g[u] = Levels[u]
    BY <1>1, <1>14
  <2> HIDE DEF g
  <2>2. Cut(s, g) = Cut(s, Levels)
    <3>1. CASE s = <<>>
      BY <3>1 DEF Cut
    <3>2. CASE s # <<>>
      <4>1. g[Tail(s)] = Levels[Tail(s)]
        BY <1>2, <2>1, <3>2
      <4>2. QED
        BY <3>2, <4>1 DEF Cut
    <3>3. QED
      BY <3>1, <3>2
  <2>3. QED
    BY <1>3, <1>13, <2>1, <2>2
<1> DEFINE P == {s \in Text : Levels[s] \in LevelLists}
<1>15. P = Text
  <2>1. P \subseteq Seq(Char) /\ \A s \in Seq(Char) : s \in P <=> Levels[s] \in LevelLists
    BY DEF Text
  <2> HIDE DEF P
  <2>2. \A s \in Seq(Char) : (\A u \in Seq(Char) : Len(u) < Len(s) => u \in P) => s \in P
    BY <1>14, <2>1 DEF Text
  <2>3. QED
    BY <2>1, <2>2, SequenceInduction DEF Text
<1>16. Levels \in F
  BY <1>13, <1>15
<1>17. QED
  BY <1>1, <1>6, <1>7, <1>13, <1>16
(* ls opens with an empty level, rest follows.                             *)
Opens(ls, rest) ==
  /\ Len(ls) = Len(rest) + 1 /\ ls[1] = <<>>
  /\ \A k \in 1 .. Len(rest) : ls[k + 1] = rest[k]

SameLater(ls, rest) == Len(ls) = Len(rest) /\ \A k \in 2 .. Len(rest) : ls[k] = rest[k]

(* ls is rest with c before its first level.                               *)
Grows(ls, rest, c) == SameLater(ls, rest) /\ ls[1] = <<c>> \o rest[1]

LEMMA LevelsTyped ==
  ASSUME NEW s \in Text
  PROVE  /\ Levels[s] \in LevelLists /\ Levels[s] \in Seq(Text)
         /\ Len(Levels[s]) \in Nat /\ Len(Levels[s]) >= 1
         /\ \A k \in 1 .. Len(Levels[s]) : Levels[s][k] \in Text
<1>1. PICK ls \in Seq(Text) : ls = Levels[s] /\ ls # <<>>
  BY LevelsDefined DEF LevelLists
<1>2. Len(ls) \in Nat /\ Len(ls) >= 1 /\ \A k \in 1 .. Len(ls) : ls[k] \in Text
  BY <1>1
<1>3. QED
  BY <1>1, <1>2, LevelsDefined

LEMMA TailOfText ==
  ASSUME NEW s \in Text, s # <<>>
  PROVE  Tail(s) \in Text /\ Head(s) \in Char /\ Len(Tail(s)) = Len(s) - 1 /\ Len(s) >= 1
  BY DEF Text

LEMMA SlashLevels ==
  ASSUME NEW s \in Text, s # <<>>, Head(s) = "/"
  PROVE  Opens(Levels[s], Levels[Tail(s)])
<1>1. Levels[s] = <<<<>>>> \o Levels[Tail(s)]
  BY LevelsDefined
<1>2. PICK ls \in Seq(Text) : ls = Levels[Tail(s)]
  BY LevelsTyped, TailOfText
<1>3. <<>> \in Text
  BY DEF Text
<1>4. Opens(<<<<>>>> \o ls, ls)
  BY <1>3, PutBefore DEF Opens
<1>5. QED
  BY <1>1, <1>2, <1>4

LEMMA LetterLevels ==
  ASSUME NEW s \in Text, s # <<>>, Head(s) # "/"
  PROVE  Grows(Levels[s], Levels[Tail(s)], Head(s))
<1>1. PICK ls \in Seq(Text) : ls = Levels[Tail(s)] /\ ls # <<>>
  BY LevelsTyped, TailOfText DEF LevelLists
<1>2. Levels[s] = [ls EXCEPT ![1] = <<Head(s)>> \o ls[1]]
  BY <1>1, LevelsDefined
<1>3. <<Head(s)>> \o ls[1] \in Text
  <2>1. ls[1] \in Text /\ Head(s) \in Char
    BY <1>1, TailOfText
  <2>2. QED
    BY <2>1 DEF Text
<1>4. PICK x \in Text : x = <<Head(s)>> \o ls[1]
  BY <1>3
<1>5. /\ Len([ls EXCEPT ![1] = x]) = Len(ls)
      /\ [ls EXCEPT ![1] = x][1] = x
      /\ \A k \in 2 .. Len(ls) : [ls EXCEPT ![1] = x][k] = ls[k]
  BY <1>1, PutFirst
<1>6. Grows([ls EXCEPT ![1] = x], ls, Head(s))
  BY <1>4, <1>5 DEF Grows, SameLater
<1>7. QED
  BY <1>1, <1>2, <1>4, <1>6

(* A string from its i-th character on.                                    *)
Rest(s, i) == SubSeq(s, i, Len(s))

LEMMA RestOf ==
  ASSUME NEW s \in Text, NEW i \in 1 .. Len(s)
  PROVE  /\ Rest(s, i) \in Text /\ Rest(s, i + 1) \in Text /\ Rest(s, i) # <<>>
         /\ Head(Rest(s, i)) = s[i] /\ Tail(Rest(s, i)) = Rest(s, i + 1)
<1>1. PICK n \in Nat : n = Len(s)
  BY DEF Text
<1>2. /\ Rest(s, i) \in Text /\ Len(Rest(s, i)) = n - i + 1
      /\ \A k \in 1 .. n - i + 1 : Rest(s, i)[k] = s[i + k - 1]
  BY <1>1 DEF Rest, Text
<1>3. /\ Rest(s, i + 1) \in Text /\ Len(Rest(s, i + 1)) = n - i
      /\ \A k \in 1 .. n - i : Rest(s, i + 1)[k] = s[i + k]
  BY <1>1 DEF Rest, Text
<1>4. Rest(s, i) # <<>>
  BY <1>1, <1>2
<1>5. Head(Rest(s, i)) = s[i]
  BY <1>1, <1>2, <1>4
<1>6. /\ Tail(Rest(s, i)) \in Text /\ Len(Tail(Rest(s, i))) = n - i
      /\ \A k \in 1 .. n - i : Tail(Rest(s, i))[k] = Rest(s, i)[k + 1]
  BY <1>1, <1>2, <1>4 DEF Text
<1>7. \A k \in 1 .. n - i : Tail(Rest(s, i))[k] = Rest(s, i + 1)[k]
  <2>1. ASSUME NEW k \in 1 .. n - i PROVE Tail(Rest(s, i))[k] = Rest(s, i + 1)[k]
    <3>1. k + 1 \in 1 .. n - i + 1 /\ i + (k + 1) - 1 = i + k
      BY <1>1, <2>1
    <3>2. Rest(s, i)[k + 1] = s[i + k]
      BY <1>2, <3>1
    <3>3. QED
      BY <1>3, <1>6, <2>1, <3>2
  <2>2. QED
    BY <2>1
<1>8. Tail(Rest(s, i)) = Rest(s, i + 1)
  BY <1>1, <1>3, <1>6, <1>7, SeqEqual DEF Text
<1>9. QED
  BY <1>2, <1>3, <1>4, <1>5, <1>8

LEMMA RestEnds ==
  ASSUME NEW s \in Text
  PROVE  Rest(s, 1) = s /\ Rest(s, Len(s) + 1) = <<>>
<1>1. PICK n \in Nat : n = Len(s)
  BY DEF Text
<1>2. Rest(s, 1) \in Seq(Char) /\ Len(Rest(s, 1)) = n /\ \A k \in 1 .. n : Rest(s, 1)[k] = s[k]
  BY <1>1 DEF Rest, Text
<1>3. Rest(s, 1) = s
  BY <1>1, <1>2, SeqEqual DEF Text
<1>4. QED
  BY <1>1, <1>3 DEF Rest, Text

----------------------------------------------------------------------------
(* Valid filters.                                                          *)

ValidLevels(fl) ==
  \A n \in 1 .. Len(fl) :
    /\ "+" \in ToSet(fl[n]) => fl[n] = <<"+">>
    /\ "#" \in ToSet(fl[n]) => fl[n] = <<"#">> /\ n = Len(fl)

LEMMA ValidByLevels ==
  ASSUME NEW f \in Text
  PROVE  ValidFilter(f) <=> ValidLevels(Levels[f])
<1>1. DOMAIN Levels[f] = 1 .. Len(Levels[f])
  BY LevelsTyped
<1>2. QED
  BY <1>1 DEF ValidFilter, ValidLevels

(* A character before a level.                                             *)
LEMMA FirstLetter ==
  ASSUME NEW l \in Text, NEW c \in Char
  PROVE  /\ c \in ToSet(<<c>> \o l) /\ ToSet(l) \subseteq ToSet(<<c>> \o l)
         /\ <<c>> \o l # <<>>
         /\ \A d \in Char : <<c>> \o l = <<d>> => c = d /\ l = <<>>
         /\ \A d \in Char, m \in Text : <<c>> \o l = <<d>> \o m => c = d /\ l = m
<1> DEFINE w == <<c>> \o l
<1>1. PICK n \in Nat : n = Len(l)
  BY DEF Text
<1>2. /\ w \in Seq(Char) /\ Len(w) = n + 1 /\ w[1] = c
      /\ \A k \in 1 .. n : w[k + 1] = l[k]
  BY <1>1, PutBefore DEF Text
<1> HIDE DEF w
<1>3. c \in ToSet(w)
  BY <1>1, <1>2 DEF ToSet
<1>4. ASSUME NEW x \in ToSet(l) PROVE x \in ToSet(w)
  <2>1. PICK k \in 1 .. n : x = l[k]
    BY <1>1 DEF ToSet, Text
  <2>2. k + 1 \in DOMAIN w /\ w[k + 1] = x
    BY <1>1, <1>2, <2>1
  <2>3. QED
    BY <2>2 DEF ToSet
<1>5. w # <<>>
  BY <1>1, <1>2
<1>6. ASSUME NEW d \in Char, w = <<d>> PROVE c = d /\ l = <<>>
  <2>1. Len(<<d>>) = 1 /\ <<d>>[1] = d
    OBVIOUS
  <2>2. n = 0 /\ c = d
    BY <1>1, <1>2, <1>6, <2>1
  <2>3. l \in Seq(Char) /\ Len(l) = 0
    BY <1>1, <2>2 DEF Text
  <2>4. l = <<>>
    BY <2>3
  <2>5. QED
    BY <2>2, <2>4
<1>7. ASSUME NEW d \in Char, NEW m \in Text, w = <<d>> \o m PROVE c = d /\ l = m
  <2>1. PICK v \in Seq(Char) : v = <<d>> \o m
    BY <1>2, <1>7
  <2>2. Len(v) = Len(m) + 1 /\ v[1] = d /\ \A k \in 1 .. Len(m) : v[k + 1] = m[k]
    BY <2>1, PutBefore DEF Text
  <2>3. Len(m) \in Nat
    BY DEF Text
  <2>4. c = d /\ Len(m) = n
    BY <1>1, <1>2, <1>7, <2>1, <2>2, <2>3
  <2>5. \A k \in 1 .. n : l[k] = m[k]
    BY <1>2, <1>7, <2>1, <2>2, <2>4
  <2>6. QED
    BY <1>1, <2>4, <2>5, SeqEqual DEF Text
<1>8. QED
  BY <1>3, <1>4, <1>5, <1>6, <1>7 DEF w

LEMMA SameAfterFirst ==
  ASSUME NEW c \in Char, NEW l \in Text, NEW m \in Text, <<c>> \o l = <<c>> \o m
  PROVE  l = m
  BY FirstLetter

LEMMA ValidTail ==
  ASSUME NEW f \in Text, f # <<>>, ValidFilter(f)
  PROVE  ValidFilter(Tail(f))
<1>1. Tail(f) \in Text /\ Head(f) \in Char
  BY TailOfText
<1>2. ValidLevels(Levels[f])
  BY ValidByLevels
<1>3. PICK fl \in Seq(Text) : fl = Levels[f] /\ Len(fl) \in Nat /\ Len(fl) >= 1
  BY LevelsTyped
<1>4. PICK ft \in Seq(Text) : /\ ft = Levels[Tail(f)] /\ Len(ft) \in Nat /\ Len(ft) >= 1
                              /\ \A k \in 1 .. Len(ft) : ft[k] \in Text
  BY <1>1, LevelsTyped
<1>5. CASE Head(f) = "/"
  <2>1. Opens(fl, ft)
    BY <1>3, <1>4, <1>5, SlashLevels
  <2>2. ASSUME NEW n \in 1 .. Len(ft)
        PROVE  /\ "+" \in ToSet(ft[n]) => ft[n] = <<"+">>
               /\ "#" \in ToSet(ft[n]) => ft[n] = <<"#">> /\ n = Len(ft)
    <3>1. n + 1 \in 1 .. Len(fl) /\ fl[n + 1] = ft[n] /\ (n + 1 = Len(fl) => n = Len(ft))
      BY <1>3, <1>4, <2>1 DEF Opens
    <3>2. QED
      BY <1>2, <1>3, <3>1 DEF ValidLevels
  <2>3. QED
    BY <1>1, <1>4, <2>2, ValidByLevels DEF ValidLevels
<1>6. CASE Head(f) # "/"
  <2>1. Grows(fl, ft, Head(f))
    BY <1>3, <1>4, <1>6, LetterLevels
  <2>2. ASSUME NEW n \in 1 .. Len(ft)
        PROVE  /\ "+" \in ToSet(ft[n]) => ft[n] = <<"+">>
               /\ "#" \in ToSet(ft[n]) => ft[n] = <<"#">> /\ n = Len(ft)
    <3>1. CASE n >= 2
      <4>1. n \in 1 .. Len(fl) /\ fl[n] = ft[n] /\ Len(fl) = Len(ft)
        BY <1>3, <1>4, <2>1, <3>1 DEF Grows, SameLater
      <4>2. QED
        BY <1>2, <1>3, <4>1 DEF ValidLevels
    <3>2. CASE n = 1
      <4>1. fl[1] = <<Head(f)>> \o ft[1] /\ ft[1] \in Text /\ 1 \in 1 .. Len(fl)
        BY <1>3, <1>4, <2>1 DEF Grows
      <4>2. ToSet(ft[1]) \subseteq ToSet(fl[1])
        BY <1>1, <4>1, FirstLetter
      <4>3. ASSUME NEW c \in {"+", "#"}, c \in ToSet(ft[1]) PROVE FALSE
        <5>1. fl[1] = <<c>>
          BY <1>2, <1>3, <4>1, <4>2, <4>3 DEF ValidLevels
        <5>2. ft[1] = <<>>
          <6>1. c \in Char
            BY <4>3 DEF Char
          <6>2. QED
            BY <1>1, <4>1, <5>1, <6>1, FirstLetter
        <5>3. ToSet(ft[1]) = {}
          BY <5>2 DEF ToSet
        <5>4. QED
          BY <4>3, <5>3
      <4>4. QED
        BY <3>2, <4>3
    <3>3. QED
      BY <1>4, <3>1, <3>2
  <2>3. QED
    BY <1>1, <1>4, <2>2, ValidByLevels DEF ValidLevels
<1>7. QED
  BY <1>5, <1>6

(* What a valid filter that begins with c says of its first level, and of  *)
(* the first level of what follows c.                                      *)
FirstLevel(c, fl, ft) ==
  /\ c = "+" => fl[1] = <<"+">> /\ ft[1] = <<>>
  /\ c = "#" => fl[1] = <<"#">> /\ Len(fl) = 1 /\ ft[1] = <<>>
  /\ c \notin {"+", "#"} => /\ fl[1] # <<"+">> /\ fl[1] # <<"#">>
                            /\ c # "/" => ft[1] # <<"+">> /\ ft[1] # <<"#">>

LEMMA ValidFirst ==
  ASSUME NEW f \in Text, f # <<>>, ValidFilter(f)
  PROVE  FirstLevel(Head(f), Levels[f], Levels[Tail(f)])
<1>1. Tail(f) \in Text /\ Head(f) \in Char
  BY TailOfText
<1>2. ValidLevels(Levels[f])
  BY ValidByLevels
<1>3. PICK fl \in Seq(Text) : fl = Levels[f] /\ Len(fl) \in Nat /\ Len(fl) >= 1
  BY LevelsTyped
<1>4. PICK ft \in Seq(Text) : /\ ft = Levels[Tail(f)] /\ Len(ft) \in Nat /\ Len(ft) >= 1
                              /\ ft[1] \in Text
  BY <1>1, LevelsTyped
<1>5. CASE Head(f) = "/"
  <2>1. fl[1] = <<>>
    BY <1>3, <1>4, <1>5, SlashLevels DEF Opens
  <2>2. <<>> # <<"+">> /\ <<>> # <<"#">>
    OBVIOUS
  <2>3. QED
    BY <1>3, <1>4, <1>5, <2>1, <2>2 DEF FirstLevel
<1>6. CASE Head(f) # "/"
  <2>1. fl[1] = <<Head(f)>> \o ft[1]
    BY <1>3, <1>4, <1>6, LetterLevels DEF Grows
  <2>2. /\ Head(f) \in ToSet(fl[1]) /\ ToSet(ft[1]) \subseteq ToSet(fl[1])
        /\ \A d \in Char : fl[1] = <<d>> => Head(f) = d /\ ft[1] = <<>>
    BY <1>1, <1>4, <2>1, FirstLetter
  <2>3. "+" \in Char /\ "#" \in Char
    BY DEF Char
  <2>4. /\ "+" \in ToSet(fl[1]) => fl[1] = <<"+">>
        /\ "#" \in ToSet(fl[1]) => fl[1] = <<"#">> /\ 1 = Len(fl)
    <3>1. 1 \in 1 .. Len(fl) /\ ValidLevels(fl)
      BY <1>2, <1>3
    <3>2. QED
      BY <3>1 DEF ValidLevels
  <2>5. "+" \in ToSet(<<"+">>) /\ "#" \in ToSet(<<"#">>)
    BY DEF ToSet
  <2>6. CASE Head(f) = "+"
    BY <1>3, <1>4, <2>2, <2>3, <2>4, <2>6 DEF FirstLevel
  <2>7. CASE Head(f) = "#"
    BY <1>3, <1>4, <2>2, <2>3, <2>4, <2>7 DEF FirstLevel
  <2>8. CASE Head(f) \notin {"+", "#"}
    <3>1. fl[1] # <<"+">> /\ fl[1] # <<"#">>
      BY <2>2, <2>3, <2>8
    <3>2. "+" \notin ToSet(fl[1]) /\ "#" \notin ToSet(fl[1])
      BY <2>4, <3>1
    <3>3. ft[1] # <<"+">> /\ ft[1] # <<"#">>
      BY <2>2, <2>5, <3>2
    <3>4. QED
      BY <1>3, <1>4, <2>8, <3>1, <3>3 DEF FirstLevel
  <2>9. QED
    BY <2>6, <2>7, <2>8
<1>7. QED
  BY <1>5, <1>6

----------------------------------------------------------------------------
(* Matching level by level.                                                *)

ListsMatch(tl, fl) ==
  IF fl[Len(fl)] = <<"#">>
    THEN Len(tl) >= Len(fl) - 1 /\ LevelsMatch(tl, fl, Len(fl) - 1)
    ELSE Len(tl) = Len(fl) /\ LevelsMatch(tl, fl, Len(fl))

LEMMA MatchesByLevels ==
  \A t, f : MqttMatches(t, f) <=> ListsMatch(Levels[t], Levels[f])
  BY DEF MqttMatches, ListsMatch

Fits(l, t) == l = <<"+">> \/ l = t

LEMMA MatchByFits ==
  ASSUME NEW tl, NEW fl, NEW n
  PROVE  LevelsMatch(tl, fl, n) <=> \A k \in 1 .. n : Fits(fl[k], tl[k])
  BY DEF LevelsMatch, Fits

(* An empty level before both lists changes nothing.                       *)
LEMMA MatchDrop ==
  ASSUME NEW tl \in LevelLists, NEW t2 \in LevelLists, Opens(tl, t2),
         NEW fl \in LevelLists, NEW f2 \in LevelLists, Opens(fl, f2)
  PROVE  ListsMatch(tl, fl) <=> ListsMatch(t2, f2)
<1>1. PICK n \in Nat : n = Len(f2) /\ n >= 1
  BY DEF LevelLists
<1>2. PICK m \in Nat : m = Len(t2) /\ m >= 1
  BY DEF LevelLists
<1>3. Len(fl) = n + 1 /\ Len(tl) = m + 1 /\ fl[n + 1] = f2[n]
  BY <1>1, <1>2 DEF Opens
<1>4. Fits(fl[1], tl[1])
  BY DEF Opens, Fits
<1>5. ASSUME NEW p \in Nat, p <= n, p <= m
      PROVE  LevelsMatch(tl, fl, p + 1) <=> LevelsMatch(t2, f2, p)
  <2>1. \A k \in 1 .. p : Fits(fl[k + 1], tl[k + 1]) <=> Fits(f2[k], t2[k])
    BY <1>1, <1>2, <1>5 DEF Opens
  <2>2. ASSUME LevelsMatch(t2, f2, p), NEW k \in 1 .. p + 1 PROVE Fits(fl[k], tl[k])
    <3>1. CASE k = 1
      BY <1>4, <3>1
    <3>2. CASE k # 1
      <4>1. k - 1 \in 1 .. p /\ (k - 1) + 1 = k
        BY <2>2, <3>2
      <4>2. QED
        BY <2>1, <2>2, <4>1, MatchByFits
    <3>3. QED
      BY <3>1, <3>2
  <2>3. ASSUME LevelsMatch(tl, fl, p + 1), NEW k \in 1 .. p PROVE Fits(f2[k], t2[k])
    <3>1. k + 1 \in 1 .. p + 1
      BY <1>5
    <3>2. QED
      BY <2>1, <2>3, <3>1, MatchByFits
  <2>4. QED
    BY <2>2, <2>3, MatchByFits
<1>6. CASE f2[n] = <<"#">>
  <2>1. ListsMatch(tl, fl) <=> m + 1 >= n /\ LevelsMatch(tl, fl, n)
    BY <1>1, <1>2, <1>3, <1>6 DEF ListsMatch
  <2>2. ListsMatch(t2, f2) <=> m >= n - 1 /\ LevelsMatch(t2, f2, n - 1)
    BY <1>1, <1>2, <1>6 DEF ListsMatch
  <2>3. m + 1 >= n <=> m >= n - 1
    BY <1>1, <1>2
  <2>4. m >= n - 1 => (LevelsMatch(tl, fl, n) <=> LevelsMatch(t2, f2, n - 1))
    <3>1. n - 1 \in Nat /\ n - 1 <= n /\ (n - 1) + 1 = n
      BY <1>1
    <3>2. QED
      BY <1>5, <3>1
  <2>5. QED
    BY <2>1, <2>2, <2>3, <2>4
<1>7. CASE f2[n] # <<"#">>
  <2>1. ListsMatch(tl, fl) <=> m + 1 = n + 1 /\ LevelsMatch(tl, fl, n + 1)
    BY <1>1, <1>2, <1>3, <1>7 DEF ListsMatch
  <2>2. ListsMatch(t2, f2) <=> m = n /\ LevelsMatch(t2, f2, n)
    BY <1>1, <1>2, <1>7 DEF ListsMatch
  <2>3. m = n => (LevelsMatch(tl, fl, n + 1) <=> LevelsMatch(t2, f2, n))
    BY <1>1, <1>5
  <2>4. QED
    BY <1>1, <1>2, <2>1, <2>2, <2>3
<1>8. QED
  BY <1>6, <1>7

(* First levels that fit are as good as others that do.                    *)
LEMMA MatchChange ==
  ASSUME NEW tl \in LevelLists, NEW t2 \in LevelLists, SameLater(tl, t2),
         NEW fl \in LevelLists, NEW f2 \in LevelLists, SameLater(fl, f2),
         Fits(fl[1], tl[1]) <=> Fits(f2[1], t2[1]),
         fl[1] # <<"#">>, f2[1] # <<"#">>
  PROVE  ListsMatch(tl, fl) <=> ListsMatch(t2, f2)
<1>1. PICK n \in Nat : n = Len(f2) /\ n >= 1
  BY DEF LevelLists
<1>2. PICK m \in Nat : m = Len(t2) /\ m >= 1
  BY DEF LevelLists
<1>3. Len(fl) = n /\ Len(tl) = m
  BY <1>1, <1>2 DEF SameLater
<1>4. fl[n] = <<"#">> <=> f2[n] = <<"#">>
  BY <1>1 DEF SameLater
<1>5. ASSUME NEW p \in Nat, p <= n, p <= m
      PROVE  LevelsMatch(tl, fl, p) <=> LevelsMatch(t2, f2, p)
  <2>1. ASSUME NEW k \in 1 .. p PROVE Fits(fl[k], tl[k]) <=> Fits(f2[k], t2[k])
    <3>1. CASE k = 1
      BY <3>1
    <3>2. CASE k # 1
      <4>1. k \in 2 .. n /\ k \in 2 .. m
        BY <1>5, <2>1, <3>2
      <4>2. QED
        BY <1>1, <1>2, <4>1 DEF SameLater
    <3>3. QED
      BY <3>1, <3>2
  <2>2. QED
    BY <2>1, MatchByFits
<1>6. CASE f2[n] = <<"#">>
  <2>1. ListsMatch(tl, fl) <=> m >= n - 1 /\ LevelsMatch(tl, fl, n - 1)
    BY <1>3, <1>4, <1>6 DEF ListsMatch
  <2>2. ListsMatch(t2, f2) <=> m >= n - 1 /\ LevelsMatch(t2, f2, n - 1)
    BY <1>1, <1>2, <1>6 DEF ListsMatch
  <2>3. n - 1 \in Nat /\ n - 1 <= n
    BY <1>1
  <2>4. QED
    BY <1>5, <2>1, <2>2, <2>3
<1>7. CASE f2[n] # <<"#">>
  <2>1. ListsMatch(tl, fl) <=> m = n /\ LevelsMatch(tl, fl, n)
    BY <1>3, <1>4, <1>7 DEF ListsMatch
  <2>2. ListsMatch(t2, f2) <=> m = n /\ LevelsMatch(t2, f2, n)
    BY <1>1, <1>2, <1>7 DEF ListsMatch
  <2>3. QED
    BY <1>1, <1>5, <2>1, <2>2
<1>8. QED
  BY <1>6, <1>7

----------------------------------------------------------------------------
(* What each branch of the loop does to a match of what is left.           *)

LEMMA SlashesMatch ==
  ASSUME NEW t \in Text, t # <<>>, Head(t) = "/", NEW f \in Text, f # <<>>, Head(f) = "/"
  PROVE  MqttMatches(t, f) <=> MqttMatches(Tail(t), Tail(f))
<1>1. Tail(t) \in Text /\ Tail(f) \in Text
  BY TailOfText
<1>2. /\ Levels[t] \in LevelLists /\ Levels[Tail(t)] \in LevelLists
      /\ Levels[f] \in LevelLists /\ Levels[Tail(f)] \in LevelLists
  BY <1>1, LevelsTyped
<1>3. Opens(Levels[t], Levels[Tail(t)]) /\ Opens(Levels[f], Levels[Tail(f)])
  BY SlashLevels
<1>4. QED
  BY <1>2, <1>3, MatchDrop, MatchesByLevels

LEMMA LettersMatch ==
  ASSUME NEW t \in Text, t # <<>>, NEW f \in Text, f # <<>>, ValidFilter(f),
         Head(t) = Head(f), Head(f) \notin {"/", "+", "#"}
  PROVE  MqttMatches(t, f) <=> MqttMatches(Tail(t), Tail(f))
<1>1. Tail(t) \in Text /\ Tail(f) \in Text /\ Head(f) \in Char
  BY TailOfText
<1>2. PICK tl \in LevelLists, t2 \in LevelLists, fl \in LevelLists, f2 \in LevelLists :
        tl = Levels[t] /\ t2 = Levels[Tail(t)] /\ fl = Levels[f] /\ f2 = Levels[Tail(f)]
  BY <1>1, LevelsTyped
<1>3. t2[1] \in Text /\ f2[1] \in Text
  BY <1>1, <1>2, LevelsTyped
<1>4. Grows(tl, t2, Head(f)) /\ Grows(fl, f2, Head(f))
  BY <1>2, LetterLevels
<1>5. FirstLevel(Head(f), fl, f2)
  BY <1>2, ValidFirst
<1>6. fl[1] # <<"+">> /\ fl[1] # <<"#">> /\ f2[1] # <<"+">> /\ f2[1] # <<"#">>
  BY <1>5 DEF FirstLevel
<1>7. fl[1] = tl[1] <=> f2[1] = t2[1]
  <2>1. fl[1] = <<Head(f)>> \o f2[1] /\ tl[1] = <<Head(f)>> \o t2[1]
    BY <1>4 DEF Grows
  <2>2. \A m \in Text : <<Head(f)>> \o f2[1] = <<Head(f)>> \o m => f2[1] = m
    BY <1>1, <1>3, SameAfterFirst
  <2>3. QED
    BY <1>3, <2>1, <2>2
<1>8. Fits(fl[1], tl[1]) <=> Fits(f2[1], t2[1])
  BY <1>6, <1>7 DEF Fits
<1>9. ListsMatch(tl, fl) <=> ListsMatch(t2, f2)
  BY <1>4, <1>6, <1>8, MatchChange DEF Grows
<1>10. QED
  BY <1>2, <1>9, MatchesByLevels

(* u is what is left of t after its first level.                           *)
LEMMA PlusMatches ==
  ASSUME NEW t \in Text, NEW u \in Text, SameLater(Levels[t], Levels[u]), Levels[u][1] = <<>>,
         NEW f \in Text, f # <<>>, ValidFilter(f), Head(f) = "+"
  PROVE  MqttMatches(t, f) <=> MqttMatches(u, Tail(f))
<1>1. Tail(f) \in Text
  BY TailOfText
<1>2. PICK tl \in LevelLists, t2 \in LevelLists, fl \in LevelLists, f2 \in LevelLists :
        tl = Levels[t] /\ t2 = Levels[u] /\ fl = Levels[f] /\ f2 = Levels[Tail(f)]
  BY <1>1, LevelsTyped
<1>3. SameLater(fl, f2)
  BY <1>2, LetterLevels DEF Grows
<1>4. fl[1] = <<"+">> /\ f2[1] = <<>>
  BY <1>2, ValidFirst DEF FirstLevel
<1>5. <<>> # <<"#">> /\ <<"+">> # <<"#">>
  OBVIOUS
<1>6. Fits(fl[1], tl[1]) /\ Fits(f2[1], t2[1])
  BY <1>2, <1>4 DEF Fits
<1>7. ListsMatch(tl, fl) <=> ListsMatch(t2, f2)
  BY <1>2, <1>3, <1>4, <1>5, <1>6, MatchChange
<1>8. QED
  BY <1>2, <1>7, MatchesByLevels

LEMMA HashMatches ==
  ASSUME NEW t \in Text, NEW f \in Text, f # <<>>, ValidFilter(f), Head(f) = "#"
  PROVE  MqttMatches(t, f)
<1>1. Levels[f][1] = <<"#">> /\ Len(Levels[f]) = 1
  BY ValidFirst DEF FirstLevel
<1>2. Len(Levels[t]) >= 1 - 1
  BY LevelsTyped
<1>3. LevelsMatch(Levels[t], Levels[f], 1 - 1)
  BY DEF LevelsMatch
<1>4. QED
  BY <1>1, <1>2, <1>3, MatchesByLevels DEF ListsMatch

(* Where the first levels do not fit, nothing does.                        *)
LEMMA FirstMustFit ==
  ASSUME NEW tl \in LevelLists, NEW fl \in LevelLists, ListsMatch(tl, fl), fl[1] # <<"#">>
  PROVE  Fits(fl[1], tl[1])
<1>1. PICK n \in Nat : n = Len(fl) /\ n >= 1
  BY DEF LevelLists
<1>2. CASE fl[n] = <<"#">>
  <2>1. LevelsMatch(tl, fl, n - 1) /\ n # 1
    BY <1>1, <1>2 DEF ListsMatch
  <2>2. 1 \in 1 .. n - 1
    BY <1>1, <2>1
  <2>3. QED
    BY <2>1, <2>2, MatchByFits
<1>3. CASE fl[n] # <<"#">>
  <2>1. LevelsMatch(tl, fl, n) /\ 1 \in 1 .. n
    BY <1>1, <1>3 DEF ListsMatch
  <2>2. QED
    BY <2>1, MatchByFits
<1>4. QED
  BY <1>2, <1>3

LEMMA DifferentFails ==
  ASSUME NEW t \in Text, t # <<>>, NEW f \in Text, f # <<>>, ValidFilter(f),
         Head(f) \notin {"+", "#", Head(t)}
  PROVE  ~MqttMatches(t, f)
<1>1. Tail(t) \in Text /\ Tail(f) \in Text /\ Head(f) \in Char /\ Head(t) \in Char
  BY TailOfText
<1>2. PICK tl \in LevelLists, t2 \in LevelLists, fl \in LevelLists, f2 \in LevelLists :
        tl = Levels[t] /\ t2 = Levels[Tail(t)] /\ fl = Levels[f] /\ f2 = Levels[Tail(f)]
  BY <1>1, LevelsTyped
<1>3. t2[1] \in Text /\ f2[1] \in Text
  BY <1>1, <1>2, LevelsTyped
<1>4. fl[1] # <<"+">> /\ fl[1] # <<"#">>
  BY <1>2, ValidFirst DEF FirstLevel
<1>5. IF Head(f) = "/" THEN fl[1] = <<>> ELSE fl[1] = <<Head(f)>> \o f2[1]
  BY <1>2, SlashLevels, LetterLevels DEF Opens, Grows
<1>6. IF Head(t) = "/" THEN tl[1] = <<>> ELSE tl[1] = <<Head(t)>> \o t2[1]
  BY <1>2, SlashLevels, LetterLevels DEF Opens, Grows
<1>7. <<Head(f)>> \o f2[1] # <<>> /\ <<Head(t)>> \o t2[1] # <<>>
  BY <1>1, <1>3, FirstLetter
<1>8. <<Head(f)>> \o f2[1] # <<Head(t)>> \o t2[1]
  BY <1>1, <1>3, FirstLetter
<1>9. fl[1] # tl[1]
  BY <1>5, <1>6, <1>7, <1>8
<1>10. ~Fits(fl[1], tl[1])
  BY <1>4, <1>9 DEF Fits
<1>11. QED
  BY <1>2, <1>4, <1>10, FirstMustFit, MatchesByLevels

(* Only of the empty string is the only level empty.                       *)
LEMMA OnlyLevelEmpty ==
  ASSUME NEW s \in Text, s # <<>>, Levels[s][1] = <<>>
  PROVE  Len(Levels[s]) >= 2
<1>1. Tail(s) \in Text /\ Head(s) \in Char
  BY TailOfText
<1>2. Levels[Tail(s)][1] \in Text /\ Len(Levels[Tail(s)]) \in Nat /\ Len(Levels[Tail(s)]) >= 1
  BY <1>1, LevelsTyped
<1>3. CASE Head(s) = "/"
  BY <1>2, <1>3, SlashLevels DEF Opens
<1>4. CASE Head(s) # "/"
  <2>1. Levels[s][1] = <<Head(s)>> \o Levels[Tail(s)][1]
    BY <1>4, LetterLevels DEF Grows
  <2>2. <<Head(s)>> \o Levels[Tail(s)][1] # <<>>
    BY <1>1, <1>2, FirstLetter
  <2>3. QED
    BY <2>1, <2>2
<1>5. QED
  BY <1>3, <1>4

LEMMA EmptyText == <<>> \in Text /\ Len(Levels[<<>>]) = 1 /\ Levels[<<>>][1] = <<>>
  BY LevelsDefined DEF Text

LEMMA BothEnded == MqttMatches(<<>>, <<>>)
<1>1. Levels[<<>>][1] # <<"#">>
  BY EmptyText
<1>2. LevelsMatch(Levels[<<>>], Levels[<<>>], 1)
  BY DEF LevelsMatch
<1>3. QED
  BY <1>1, <1>2, EmptyText, MatchesByLevels DEF ListsMatch

LEMMA FilterEnded ==
  ASSUME NEW t \in Text, t # <<>>
  PROVE  ~MqttMatches(t, <<>>)
<1> SUFFICES ASSUME ListsMatch(Levels[t], Levels[<<>>]) PROVE FALSE
  BY MatchesByLevels
<1>1. Levels[<<>>][1] # <<"#">> /\ Levels[<<>>][1] # <<"+">>
  BY EmptyText
<1>2. Fits(Levels[<<>>][1], Levels[t][1])
  BY <1>1, EmptyText, LevelsTyped, FirstMustFit
<1>3. Levels[t][1] = <<>>
  BY <1>1, <1>2, EmptyText DEF Fits
<1>4. Len(Levels[t]) = 1
  BY <1>1, EmptyText DEF ListsMatch
<1>5. Len(Levels[t]) >= 2
  BY <1>3, OnlyLevelEmpty
<1>6. QED
  BY <1>4, <1>5

(* The topic is at its end: what is left of a filter that matches is a     *)
(* "#", after a slash or after a "+" and a slash, or a "+".                *)
LEMMA TopicEnded ==
  ASSUME NEW f \in Text, f # <<>>, ValidFilter(f), Head(f) # "#", MqttMatches(<<>>, f)
  PROVE  \/ Len(Levels[f]) = 2 /\ Levels[f][2] = <<"#">>
         \/ Head(f) = "+" /\ Tail(f) = <<>>
<1>1. Tail(f) \in Text /\ Head(f) \in Char
  BY TailOfText
<1>2. PICK n \in Nat : n = Len(Levels[f]) /\ n >= 1
  BY LevelsTyped
<1>3. ListsMatch(Levels[<<>>], Levels[f])
  BY MatchesByLevels
<1>4. FirstLevel(Head(f), Levels[f], Levels[Tail(f)])
  BY ValidFirst
<1>5. Levels[f][1] # <<"#">>
  <2>1. <<"+">> # <<"#">>
    OBVIOUS
  <2>2. QED
    BY <1>4, <2>1 DEF FirstLevel
<1>6. CASE Levels[f][n] = <<"#">>
  <2>1. 1 >= n - 1
    BY <1>2, <1>3, <1>6, EmptyText DEF ListsMatch
  <2>2. n # 1
    BY <1>5, <1>6
  <2>3. n = 2
    <3>1. \A k \in Nat : k >= 1 /\ 1 >= k - 1 /\ k # 1 => k = 2
      OBVIOUS
    <3>2. n \in Nat /\ n >= 1
      BY <1>2
    <3>3. QED
      BY <2>1, <2>2, <3>1, <3>2
  <2>4. QED
    BY <1>2, <1>6, <2>3
<1>7. CASE Levels[f][n] # <<"#">>
  <2>1. n = 1
    BY <1>2, <1>3, <1>7, EmptyText DEF ListsMatch
  <2>2. Levels[f][1] # <<>>
    <3>1. ~(Len(Levels[f]) >= 2)
      BY <1>2, <2>1
    <3>2. QED
      BY <3>1, OnlyLevelEmpty
  <2>3. Fits(Levels[f][1], Levels[<<>>][1])
    BY <1>3, <1>5, EmptyText, LevelsTyped, FirstMustFit
  <2>4. Levels[f][1] = <<"+">>
    BY <2>2, <2>3, EmptyText DEF Fits
  <2>5. Head(f) = "+"
    BY <1>4, <2>4 DEF FirstLevel
  <2>6. Levels[Tail(f)][1] = <<>> /\ Len(Levels[Tail(f)]) = 1
    BY <1>2, <1>4, <2>1, <2>5, LetterLevels DEF FirstLevel, Grows, SameLater
  <2>7. Tail(f) = <<>>
    <3>1. ~(Len(Levels[Tail(f)]) >= 2)
      BY <2>6
    <3>2. QED
      BY <1>1, <2>6, <3>1, OnlyLevelEmpty
  <2>8. QED
    BY <2>5, <2>7
<1>8. QED
  BY <1>6, <1>7

----------------------------------------------------------------------------
(* Levels of what is left of a string.                                     *)

LEMMA RestTyped ==
  ASSUME NEW s \in Text, NEW i \in 1 .. Len(s) + 1
  PROVE  Rest(s, i) \in Text
<1>1. Len(s) \in Nat
  BY DEF Text
<1>2. CASE i \in 1 .. Len(s)
  BY <1>2, RestOf
<1>3. CASE i = Len(s) + 1
  BY <1>3, RestEnds, EmptyText
<1>4. QED
  BY <1>1, <1>2, <1>3

(* Up to the next slash there is one level, or the end of one.             *)
LEMMA SkipLevel ==
  ASSUME NEW s \in Text, NEW i \in 1 .. Len(s) + 1, NEW j \in i .. Len(s) + 1,
         \A k \in i .. j - 1 : s[k] # "/"
  PROVE  SameLater(Levels[Rest(s, i)], Levels[Rest(s, j)])
<1>1. PICK n \in Nat : n = Len(s)
  BY DEF Text
<1> DEFINE L(m) == Levels[Rest(s, m)]
           T == {d \in Nat : i + d <= j => SameLater(L(i), L(i + d))}
<1>2. T \subseteq Nat /\ \A d \in Nat : d \in T <=> (i + d <= j => SameLater(L(i), L(i + d)))
  OBVIOUS
<1>3. \A m \in i .. j - 1 : SameLater(L(m), L(m + 1))
  <2>1. ASSUME NEW m \in i .. j - 1 PROVE SameLater(L(m), L(m + 1))
    <3>1. m \in 1 .. n /\ s[m] # "/"
      BY <1>1, <2>1
    <3>2. /\ Rest(s, m) \in Text /\ Rest(s, m) # <<>>
          /\ Head(Rest(s, m)) = s[m] /\ Tail(Rest(s, m)) = Rest(s, m + 1)
      BY <1>1, <3>1, RestOf
    <3>3. QED
      BY <3>1, <3>2, LetterLevels DEF Grows
  <2>2. QED
    BY <2>1
<1> HIDE DEF L, T
<1>4. 0 \in T
  <2>1. SameLater(L(i), L(i)) /\ i + 0 = i
    BY DEF SameLater
  <2>2. QED
    BY <1>2, <2>1
<1>5. ASSUME NEW d \in T PROVE d + 1 \in T
  <2>1. d \in Nat /\ (i + d <= j => SameLater(L(i), L(i + d)))
    BY <1>2
  <2>2. ASSUME i + (d + 1) <= j PROVE SameLater(L(i), L(i + (d + 1)))
    <3>1. i + d <= j /\ i + d \in i .. j - 1 /\ (i + d) + 1 = i + (d + 1)
      BY <1>1, <2>1, <2>2
    <3>2. SameLater(L(i), L(i + d)) /\ SameLater(L(i + d), L(i + (d + 1)))
      BY <1>3, <2>1, <3>1
    <3>3. QED
      BY <3>2 DEF SameLater
  <2>3. QED
    BY <1>2, <2>1, <2>2
<1>6. T = Nat
  BY <1>2, <1>4, <1>5, SetInduction
<1>7. j - i \in T /\ i + (j - i) = j
  BY <1>1, <1>6
<1>8. QED
  BY <1>1, <1>2, <1>7 DEF L

LastOf(ls) == ls[Len(ls)]

LEMMA LastOfTail ==
  ASSUME NEW s \in Text, s # <<>>, Len(Levels[Tail(s)]) >= 2 \/ Head(s) = "/"
  PROVE  LastOf(Levels[s]) = LastOf(Levels[Tail(s)]) /\ Len(Levels[s]) >= 2
<1>1. PICK n \in Nat : n = Len(Levels[Tail(s)]) /\ n >= 1
  BY TailOfText, LevelsTyped
<1>2. CASE Head(s) = "/"
  <2>1. n \in 1 .. n /\ Opens(Levels[s], Levels[Tail(s)])
    BY <1>1, <1>2, SlashLevels
  <2>2. Len(Levels[s]) = n + 1 /\ Levels[s][n + 1] = Levels[Tail(s)][n]
    BY <1>1, <2>1 DEF Opens
  <2>3. QED
    BY <1>1, <2>2 DEF LastOf
<1>3. CASE Head(s) # "/"
  <2>1. n \in 2 .. n /\ SameLater(Levels[s], Levels[Tail(s)])
    <3>1. n >= 2
      BY <1>1, <1>3
    <3>2. n \in 2 .. n
      BY <3>1
    <3>3. SameLater(Levels[s], Levels[Tail(s)])
      BY <1>3, LetterLevels DEF Grows
    <3>4. QED
      BY <3>2, <3>3
  <2>2. QED
    BY <1>1, <2>1 DEF LastOf, SameLater
<1>4. QED
  BY <1>2, <1>3

LEMMA LastLevel ==
  ASSUME NEW s \in Text, NEW i \in 1 .. Len(s) + 1, Len(Levels[Rest(s, i)]) >= 2
  PROVE  LastOf(Levels[s]) = LastOf(Levels[Rest(s, i)])
<1>1. PICK n \in Nat : n = Len(s)
  BY DEF Text
<1> DEFINE L(m) == Levels[Rest(s, m)]
           T == {d \in Nat : d <= n /\ Len(L(d + 1)) >= 2 => LastOf(L(1)) = LastOf(L(d + 1))}
<1>2. /\ T \subseteq Nat
      /\ \A d \in Nat : d \in T <=>
           (d <= n /\ Len(L(d + 1)) >= 2 => LastOf(L(1)) = LastOf(L(d + 1)))
  OBVIOUS
<1>3. \A m \in 1 .. n : Len(L(m + 1)) >= 2 => LastOf(L(m)) = LastOf(L(m + 1)) /\ Len(L(m)) >= 2
  <2>1. ASSUME NEW m \in 1 .. n, Len(L(m + 1)) >= 2
        PROVE  LastOf(L(m)) = LastOf(L(m + 1)) /\ Len(L(m)) >= 2
    <3>1. Rest(s, m) \in Text /\ Rest(s, m) # <<>> /\ Tail(Rest(s, m)) = Rest(s, m + 1)
      BY <1>1, RestOf
    <3>2. QED
      BY <2>1, <3>1, LastOfTail
  <2>2. QED
    BY <2>1
<1>4. L(1) = Levels[s] /\ L(i) = Levels[Rest(s, i)]
  BY RestEnds
<1> HIDE DEF L, T
<1>5. 0 \in T
  BY <1>2
<1>6. ASSUME NEW d \in T PROVE d + 1 \in T
  <2>1. d \in Nat /\ d + 1 \in Nat
    BY <1>2
  <2>2. ASSUME d + 1 <= n, Len(L((d + 1) + 1)) >= 2 PROVE LastOf(L(1)) = LastOf(L((d + 1) + 1))
    <3>1. d + 1 \in 1 .. n /\ d <= n
      BY <1>1, <2>1, <2>2
    <3>2. LastOf(L(d + 1)) = LastOf(L((d + 1) + 1)) /\ Len(L(d + 1)) >= 2
      BY <1>3, <2>2, <3>1
    <3>3. QED
      BY <1>2, <1>6, <2>1, <3>1, <3>2
  <2>3. QED
    BY <1>2, <2>1, <2>2
<1>7. T = Nat
  BY <1>2, <1>5, <1>6, SetInduction
<1>8. i - 1 \in T /\ (i - 1) + 1 = i /\ i - 1 <= n
  BY <1>1, <1>7
<1>9. QED
  BY <1>2, <1>4, <1>8

(* Where a level begins, the last one is still to come.                    *)
LEMMA LastFromStart ==
  ASSUME NEW s \in Text, NEW i \in 1 .. Len(s) + 1, i > 1 => s[i - 1] = "/"
  PROVE  LastOf(Levels[s]) = LastOf(Levels[Rest(s, i)])
<1>1. PICK n \in Nat : n = Len(s)
  BY DEF Text
<1>2. CASE i = 1
  BY <1>2, RestEnds
<1>3. CASE i > 1
  <2>1. i - 1 \in 1 .. n /\ i - 1 \in 1 .. n + 1 /\ (i - 1) + 1 = i
    BY <1>1, <1>3
  <2>2. /\ Rest(s, i - 1) \in Text /\ Rest(s, i - 1) # <<>>
        /\ Head(Rest(s, i - 1)) = "/" /\ Tail(Rest(s, i - 1)) = Rest(s, i)
    BY <1>1, <1>3, <2>1, RestOf
  <2>3. /\ LastOf(Levels[Rest(s, i - 1)]) = LastOf(Levels[Rest(s, i)])
        /\ Len(Levels[Rest(s, i - 1)]) >= 2
    BY <2>2, LastOfTail
  <2>4. LastOf(Levels[s]) = LastOf(Levels[Rest(s, i - 1)])
    BY <1>1, <2>1, <2>3, LastLevel
  <2>5. QED
    BY <2>3, <2>4
<1>4. QED
  BY <1>1, <1>2, <1>3

(* The last character is in the last level, or begins it.                  *)
LEMMA LastCharacter ==
  ASSUME NEW s \in Text, s # <<>>
  PROVE  IF s[Len(s)] = "/" THEN LastOf(Levels[s]) = <<>>
                            ELSE s[Len(s)] \in ToSet(LastOf(Levels[s]))
<1>1. PICK n \in Nat : n = Len(s) /\ n >= 1
  BY DEF Text
<1> DEFINE c == s[n]
           L(m) == Levels[Rest(s, m)]
           T == {d \in Nat : d < n => c \in ToSet(LastOf(L(n - d)))}
<1>2. CASE c = "/"
  <2>1. n + 1 \in 1 .. n + 1 /\ (n + 1) - 1 = n
    BY <1>1
  <2>2. LastOf(Levels[s]) = LastOf(Levels[Rest(s, n + 1)])
    BY <1>1, <1>2, <2>1, LastFromStart
  <2>3. Rest(s, n + 1) = <<>>
    BY <1>1, RestEnds
  <2>4. QED
    BY <1>1, <1>2, <2>2, <2>3, EmptyText DEF LastOf
<1>3. CASE c # "/"
  <2>1. T \subseteq Nat /\ \A d \in Nat : d \in T <=> (d < n => c \in ToSet(LastOf(L(n - d))))
    OBVIOUS
  <2>2. \A m \in 1 .. n : /\ Rest(s, m) \in Text /\ Rest(s, m) # <<>> /\ Head(Rest(s, m)) = s[m]
                          /\ Tail(Rest(s, m)) = Rest(s, m + 1) /\ Rest(s, m + 1) \in Text
    BY <1>1, RestOf
  <2>3. L(1) = Levels[s] /\ L(n + 1) = Levels[<<>>]
    BY <1>1, RestEnds
  <2>4. c \in ToSet(LastOf(L(n)))
    <3>1. n \in 1 .. n
      BY <1>1
    <3>2. Grows(L(n), L(n + 1), c)
      BY <1>3, <2>2, <3>1, LetterLevels
    <3>3. Len(L(n)) = 1 /\ L(n)[1] = <<c>> \o <<>>
      BY <2>3, <3>2, EmptyText DEF Grows, SameLater
    <3>4. c \in Char
      BY <2>2, <3>1, TailOfText
    <3>5. QED
      BY <3>3, <3>4, EmptyText, FirstLetter DEF LastOf
  <2>5. ASSUME NEW m \in 1 .. n, c \in ToSet(LastOf(L(m + 1))) PROVE c \in ToSet(LastOf(L(m)))
    <3>1. CASE Len(L(m + 1)) >= 2 \/ Head(Rest(s, m)) = "/"
      <4>1. LastOf(L(m)) = LastOf(L(m + 1))
        BY <2>2, <3>1, LastOfTail
      <4>2. QED
        BY <2>5, <4>1
    <3>2. CASE ~(Len(L(m + 1)) >= 2) /\ Head(Rest(s, m)) # "/"
      <4>1. Len(L(m + 1)) = 1 /\ L(m + 1)[1] \in Text
        <5>1. /\ Len(L(m + 1)) \in Nat /\ Len(L(m + 1)) >= 1
              /\ \A k \in 1 .. Len(L(m + 1)) : L(m + 1)[k] \in Text
          BY <2>2, LevelsTyped
        <5>2. PICK k \in Nat : k = Len(L(m + 1)) /\ k >= 1
          BY <5>1
        <5>3. k = 1
          <6>1. ~(k >= 2)
            BY <3>2, <5>2
          <6>2. k \in Nat /\ k >= 1
            BY <5>2
          <6>3. QED
            BY <6>1, <6>2
        <5>4. 1 \in 1 .. k
          BY <5>3
        <5>5. QED
          BY <5>1, <5>2, <5>3, <5>4
      <4>2. Grows(L(m), L(m + 1), Head(Rest(s, m))) /\ Head(Rest(s, m)) \in Char
        BY <2>2, <3>2, LetterLevels, TailOfText
      <4>3. LastOf(L(m)) = <<Head(Rest(s, m))>> \o L(m + 1)[1] /\ LastOf(L(m + 1)) = L(m + 1)[1]
        BY <4>1, <4>2 DEF Grows, SameLater, LastOf
      <4>4. ToSet(LastOf(L(m + 1))) \subseteq ToSet(LastOf(L(m)))
        BY <4>1, <4>2, <4>3, FirstLetter
      <4>5. QED
        BY <2>5, <4>4
    <3>3. QED
      BY <3>1, <3>2
  <2> HIDE DEF L, T, c
  <2>6. 0 \in T
    BY <1>1, <2>1, <2>4
  <2>7. ASSUME NEW d \in T PROVE d + 1 \in T
    <3>1. d \in Nat /\ d + 1 \in Nat
      BY <2>1
    <3>2. ASSUME d + 1 < n PROVE c \in ToSet(LastOf(L(n - (d + 1))))
      <4>1. n - (d + 1) \in 1 .. n /\ (n - (d + 1)) + 1 = n - d /\ d < n
        BY <1>1, <3>1, <3>2
      <4>2. c \in ToSet(LastOf(L(n - d)))
        BY <2>1, <2>7, <3>1, <4>1
      <4>3. QED
        BY <2>5, <4>1, <4>2
    <3>3. QED
      BY <2>1, <3>1, <3>2
  <2>8. T = Nat
    BY <2>1, <2>6, <2>7, SetInduction
  <2>9. n - 1 \in T /\ n - (n - 1) = 1 /\ n - 1 < n
    BY <1>1, <2>8
  <2>10. c \in ToSet(LastOf(Levels[s]))
    BY <1>1, <2>1, <2>3, <2>9
  <2>11. QED
    BY <1>1, <1>3, <2>10 DEF c
<1>4. QED
  BY <1>2, <1>3

----------------------------------------------------------------------------
(* Valid filters, from any character on.                                   *)

LEMMA ValidRest ==
  ASSUME NEW g \in Text, ValidFilter(g), NEW j \in 1 .. Len(g) + 1
  PROVE  ValidFilter(Rest(g, j))
<1>1. PICK n \in Nat : n = Len(g)
  BY DEF Text
<1> DEFINE T == {d \in Nat : d <= n => ValidFilter(Rest(g, d + 1))}
<1>2. T \subseteq Nat /\ \A d \in Nat : d \in T <=> (d <= n => ValidFilter(Rest(g, d + 1)))
  OBVIOUS
<1> HIDE DEF T
<1>3. 0 \in T
  BY <1>2, RestEnds
<1>4. ASSUME NEW d \in T PROVE d + 1 \in T
  <2>1. d \in Nat /\ d + 1 \in Nat
    BY <1>2
  <2>2. ASSUME d + 1 <= n PROVE ValidFilter(Rest(g, (d + 1) + 1))
    <3>1. d + 1 \in 1 .. n /\ d <= n
      BY <1>1, <2>1, <2>2
    <3>2. /\ Rest(g, d + 1) \in Text /\ Rest(g, d + 1) # <<>>
          /\ Tail(Rest(g, d + 1)) = Rest(g, (d + 1) + 1)
      BY <1>1, <3>1, RestOf
    <3>3. ValidFilter(Rest(g, d + 1))
      BY <1>2, <1>4, <2>1, <3>1
    <3>4. QED
      BY <3>2, <3>3, ValidTail
  <2>3. QED
    BY <1>2, <2>1, <2>2
<1>5. T = Nat
  BY <1>2, <1>3, <1>4, SetInduction
<1>6. j - 1 \in T /\ (j - 1) + 1 = j /\ j - 1 <= n
  BY <1>1, <1>5
<1>7. QED
  BY <1>2, <1>6

(* A wildcard begins a level.                                              *)
LEMMA WildBeginsLevel ==
  ASSUME NEW g \in Text, ValidFilter(g), NEW j \in 1 .. Len(g), g[j] \in {"+", "#"}, j > 1
  PROVE  g[j - 1] = "/"
<1>1. PICK n \in Nat : n = Len(g)
  BY DEF Text
<1>2. j - 1 \in 1 .. n /\ j - 1 \in 1 .. n + 1 /\ j \in 1 .. n + 1 /\ (j - 1) + 1 = j
  BY <1>1
<1> DEFINE f == Rest(g, j - 1)
           ft == Levels[Rest(g, j)]
<1>3. f \in Text /\ f # <<>> /\ Head(f) = g[j - 1] /\ Tail(f) = Rest(g, j)
  BY <1>1, <1>2, RestOf
<1>4. Rest(g, j) \in Text /\ Rest(g, j) # <<>> /\ Head(Rest(g, j)) = g[j]
  BY RestOf
<1>5. ValidFilter(f) /\ ValidFilter(Rest(g, j))
  BY <1>1, <1>2, ValidRest
<1>6. FirstLevel(g[j - 1], Levels[f], ft)
  BY <1>3, <1>5, ValidFirst
<1>7. ft[1] = <<g[j]>>
  BY <1>4, <1>5, ValidFirst DEF FirstLevel
<1>8. <<g[j]>> # <<>>
  OBVIOUS
<1> HIDE DEF f, ft
<1>9. g[j - 1] \notin {"+", "#"}
  BY <1>6, <1>7, <1>8 DEF FirstLevel
<1>10. QED
  BY <1>6, <1>7, <1>9 DEF FirstLevel

----------------------------------------------------------------------------
(* The loop.                                                               *)

Topics == {t \in Seq(Letters \cup {"/"}) : t # <<>>}

(* What the function is given.                                             *)
Given(t, f) == t \in Topics /\ f \in Text /\ f # <<>> /\ ValidFilter(f)

(* Before the i-th character of t and the j-th of f the loop has taken as  *)
(* many levels off the one as off the other; it is at the beginning of a   *)
(* level of t if it is at the beginning of one of f; a "+" that took all   *)
(* that t had took something; and t and f match if what is left does.      *)
Along(t, f, i, j) ==
  /\ i \in 1 .. Len(t) + 1 /\ j \in 1 .. Len(f) + 1
  /\ Len(Levels[t]) + Len(Levels[Rest(f, j)]) = Len(Levels[f]) + Len(Levels[Rest(t, i)])
  /\ j = 1 => i = 1
  /\ j > 1 /\ f[j - 1] = "/" => i > 1 /\ t[i - 1] = "/"
  /\ j > 1 /\ f[j - 1] = "+" /\ i = Len(t) + 1 => t[Len(t)] # "/"
  /\ MqttMatches(t, f) <=> MqttMatches(Rest(t, i), Rest(f, j))

(* The two cases in which a match is missed.                               *)
Missed(tl, fl) ==
  \/ Len(fl) = Len(tl) + 1 /\ fl[Len(fl)] = <<"#">>
  \/ tl[Len(tl)] = <<>> /\ Len(fl) >= Len(tl) /\ fl[Len(tl)] = <<"+">>

AnswerRight(t, f, r) ==
  /\ r = "yes" => MqttMatches(t, f) /\ ~Missed(Levels[t], Levels[f])
  /\ r = "no" /\ MqttMatches(t, f) => Missed(Levels[t], Levels[f])

(* The inductive invariant.                                                *)
LoopInv ==
  /\ Given(topic, filter)
  /\ Along(topic, filter, ti, fi)
  /\ matched \in {"none", "yes", "no"}
  /\ AnswerRight(topic, filter, matched)

LEMMA GivenTexts ==
  ASSUME NEW t, NEW f, Given(t, f)
  PROVE  /\ t \in Text /\ t # <<>> /\ f \in Text /\ f # <<>> /\ ValidFilter(f)
         /\ Len(t) \in Nat /\ Len(t) >= 1 /\ Len(f) \in Nat /\ Len(f) >= 1
         /\ \A i \in 1 .. Len(t) : t[i] \notin {"+", "#"}
<1>1. t \in Seq(Letters \cup {"/"}) /\ t # <<>>
  BY DEF Given, Topics
<1>2. Letters \cup {"/"} \subseteq Char
  BY DEF Char
<1>3. t \in Text
  BY <1>1, <1>2 DEF Text
<1>4. ASSUME NEW i \in 1 .. Len(t) PROVE t[i] \notin {"+", "#"}
  <2>1. t[i] \in Letters \cup {"/"}
    BY <1>1
  <2>2. QED
    BY <2>1, LettersAssumption
<1>5. Len(t) \in Nat /\ Len(t) >= 1
  BY <1>1
<1>6. f \in Text /\ f # <<>> /\ ValidFilter(f)
  BY DEF Given
<1>7. Len(f) \in Nat /\ Len(f) >= 1
  BY <1>6 DEF Text
<1>8. QED
  BY <1>1, <1>3, <1>4, <1>5, <1>6, <1>7

(* What is left, in the middle of both.                                    *)
LEMMA RestsLeft ==
  ASSUME NEW t, NEW f, Given(t, f), NEW i \in 1 .. Len(t), NEW j \in 1 .. Len(f)
  PROVE  /\ Rest(t, i) \in Text /\ Rest(t, i) # <<>> /\ Head(Rest(t, i)) = t[i]
         /\ Tail(Rest(t, i)) = Rest(t, i + 1) /\ Rest(t, i + 1) \in Text
         /\ Rest(f, j) \in Text /\ Rest(f, j) # <<>> /\ Head(Rest(f, j)) = f[j]
         /\ Tail(Rest(f, j)) = Rest(f, j + 1) /\ Rest(f, j + 1) \in Text
         /\ ValidFilter(Rest(f, j))
<1>1. t \in Text /\ f \in Text /\ ValidFilter(f) /\ Len(f) \in Nat
  BY GivenTexts
<1>2. j \in 1 .. Len(f) + 1
  BY <1>1
<1>3. ValidFilter(Rest(f, j))
  BY <1>1, <1>2, ValidRest
<1>4. QED
  BY <1>1, <1>3, RestOf

LEMMA SameKeeps ==
  ASSUME NEW t, NEW f, Given(t, f), NEW i \in 1 .. Len(t), NEW j \in 1 .. Len(f),
         Along(t, f, i, j), f[j] = t[i]
  PROVE  Along(t, f, i + 1, j + 1)
<1>1. /\ t \in Text /\ f \in Text
      /\ Len(t) \in Nat /\ Len(f) \in Nat /\ t[i] \notin {"+", "#"}
  BY GivenTexts
<1> DEFINE tr == Rest(t, i)
           fr == Rest(f, j)
           tr2 == Rest(t, i + 1)
           fr2 == Rest(f, j + 1)
<1>2. /\ tr \in Text /\ tr # <<>> /\ Head(tr) = t[i] /\ Tail(tr) = tr2 /\ tr2 \in Text
      /\ fr \in Text /\ fr # <<>> /\ Head(fr) = f[j] /\ Tail(fr) = fr2 /\ fr2 \in Text
      /\ ValidFilter(fr)
  BY RestsLeft
<1>3. /\ Len(Levels[t]) + Len(Levels[fr]) = Len(Levels[f]) + Len(Levels[tr])
      /\ MqttMatches(t, f) <=> MqttMatches(tr, fr)
  BY DEF Along
<1> HIDE DEF tr, fr, tr2, fr2
<1>4. MqttMatches(tr, fr) <=> MqttMatches(tr2, fr2)
  <2>1. CASE t[i] = "/"
    BY <1>2, <2>1, SlashesMatch
  <2>2. CASE t[i] # "/"
    <3>1. Head(fr) \notin {"/", "+", "#"} /\ Head(tr) = Head(fr)
      BY <1>1, <1>2, <2>2
    <3>2. QED
      BY <1>2, <3>1, LettersMatch
  <2>3. QED
    BY <2>1, <2>2
<1>5. /\ Len(Levels[t]) \in Nat /\ Len(Levels[f]) \in Nat /\ Len(Levels[tr]) \in Nat
      /\ Len(Levels[fr]) \in Nat /\ Len(Levels[tr2]) \in Nat /\ Len(Levels[fr2]) \in Nat
  BY <1>1, <1>2, LevelsTyped
<1>6. \/ Len(Levels[tr]) = Len(Levels[tr2]) /\ Len(Levels[fr]) = Len(Levels[fr2])
      \/ Len(Levels[tr]) = Len(Levels[tr2]) + 1 /\ Len(Levels[fr]) = Len(Levels[fr2]) + 1
  <2>1. CASE t[i] = "/"
    BY <1>2, <2>1, SlashLevels DEF Opens
  <2>2. CASE t[i] # "/"
    BY <1>2, <2>2, LetterLevels DEF Grows, SameLater
  <2>3. QED
    BY <2>1, <2>2
<1>7. Len(Levels[t]) + Len(Levels[fr2]) = Len(Levels[f]) + Len(Levels[tr2])
  <2>1. PICK a \in Nat, b \in Nat, m \in Nat, n \in Nat, m2 \in Nat, n2 \in Nat :
          /\ a = Len(Levels[t]) /\ b = Len(Levels[f]) /\ m = Len(Levels[tr])
          /\ n = Len(Levels[fr]) /\ m2 = Len(Levels[tr2]) /\ n2 = Len(Levels[fr2])
    BY <1>5
  <2>2. /\ a + n = b + m
        /\ (m = m2 /\ n = n2) \/ (m = m2 + 1 /\ n = n2 + 1)
    BY <1>3, <1>6, <2>1
  <2>3. a + n2 = b + m2
    BY <2>2
  <2>4. QED
    BY <2>1, <2>3
<1>8. /\ i + 1 \in 1 .. Len(t) + 1 /\ j + 1 \in 1 .. Len(f) + 1
      /\ i + 1 > 1 /\ j + 1 # 1 /\ (i + 1) - 1 = i /\ (j + 1) - 1 = j
  BY <1>1
<1>9. f[j] # "+"
  BY <1>1
<1>10. QED
  BY <1>3, <1>4, <1>7, <1>8, <1>9 DEF Along, tr2, fr2

(* k is where Plus goes.                                                   *)
SlashOrEnd(t, i, k) ==
  /\ k \in i .. Len(t) + 1
  /\ \A m \in i .. k - 1 : t[m] # "/"
  /\ k <= Len(t) => t[k] = "/"

LEMMA PlusKeeps ==
  ASSUME NEW t, NEW f, Given(t, f), NEW i \in 1 .. Len(t), NEW j \in 1 .. Len(f),
         Along(t, f, i, j), f[j] = "+", NEW k, SlashOrEnd(t, i, k)
  PROVE  Along(t, f, k, j + 1)
<1>1. /\ t \in Text /\ f \in Text
      /\ Len(t) \in Nat /\ Len(t) >= 1 /\ Len(f) \in Nat
  BY GivenTexts
<1>2. k \in i .. Len(t) + 1 /\ k \in 1 .. Len(t) + 1 /\ i \in 1 .. Len(t) + 1
  BY <1>1 DEF SlashOrEnd
<1> DEFINE tr == Rest(t, i)
           fr == Rest(f, j)
           tr2 == Rest(t, k)
           fr2 == Rest(f, j + 1)
<1>3. /\ tr \in Text /\ fr \in Text /\ fr # <<>> /\ Head(fr) = "+" /\ Tail(fr) = fr2 /\ fr2 \in Text
      /\ ValidFilter(fr)
  BY RestsLeft
<1>4. tr2 \in Text
  BY <1>1, <1>2, RestTyped
<1>5. SameLater(Levels[tr], Levels[tr2])
  BY <1>1, <1>2, SkipLevel DEF SlashOrEnd
<1>6. Levels[tr2][1] = <<>>
  <2>1. CASE k = Len(t) + 1
    BY <1>1, <2>1, RestEnds, EmptyText
  <2>2. CASE k # Len(t) + 1
    <3>1. k \in 1 .. Len(t) /\ t[k] = "/"
      BY <1>1, <1>2, <2>2 DEF SlashOrEnd
    <3>2. tr2 # <<>> /\ Head(tr2) = "/"
      BY <1>1, <3>1, RestOf
    <3>3. QED
      BY <1>4, <3>2, SlashLevels DEF Opens
  <2>3. QED
    BY <2>1, <2>2
<1>7. /\ Len(Levels[t]) + Len(Levels[fr]) = Len(Levels[f]) + Len(Levels[tr])
      /\ MqttMatches(t, f) <=> MqttMatches(tr, fr)
  BY DEF Along
<1>8. k = Len(t) + 1 => t[Len(t)] # "/"
  <2>1. ASSUME k = Len(t) + 1 PROVE Len(t) \in i .. k - 1
    BY <1>1, <2>1
  <2>2. QED
    BY <2>1 DEF SlashOrEnd
<1> HIDE DEF tr, fr, tr2, fr2
<1>9. MqttMatches(tr, fr) <=> MqttMatches(tr2, fr2)
  BY <1>3, <1>4, <1>5, <1>6, PlusMatches
<1>10. Len(Levels[tr]) = Len(Levels[tr2]) /\ Len(Levels[fr]) = Len(Levels[fr2])
  BY <1>3, <1>5, LetterLevels DEF Grows, SameLater
<1>11. Len(Levels[t]) + Len(Levels[fr2]) = Len(Levels[f]) + Len(Levels[tr2])
  BY <1>7, <1>10
<1>12. j + 1 \in 1 .. Len(f) + 1 /\ j + 1 # 1 /\ (j + 1) - 1 = j
  BY <1>1
<1>13. QED
  BY <1>2, <1>7, <1>8, <1>9, <1>11, <1>12 DEF Along, tr2, fr2

(* The answers.                                                            *)

LEMMA HashAnswer ==
  ASSUME NEW t, NEW f, Given(t, f), NEW i, NEW j \in 1 .. Len(f), Along(t, f, i, j), f[j] = "#"
  PROVE  MqttMatches(t, f) /\ ~Missed(Levels[t], Levels[f])
<1>1. t \in Text /\ f \in Text /\ Len(t) \in Nat /\ Len(f) \in Nat /\ ValidFilter(f)
  BY GivenTexts
<1>2. i \in 1 .. Len(t) + 1 /\ j \in 1 .. Len(f) + 1
  BY DEF Along
<1> DEFINE tr == Rest(t, i)
           fr == Rest(f, j)
<1>3. tr \in Text /\ fr \in Text /\ fr # <<>> /\ Head(fr) = "#"
  BY <1>1, <1>2, RestTyped, RestOf
<1>4. ValidFilter(fr)
  BY <1>1, <1>2, ValidRest
<1>5. j > 1 => f[j - 1] = "/"
  BY <1>1, WildBeginsLevel
<1>6. LastOf(Levels[f]) = LastOf(Levels[fr])
  BY <1>1, <1>2, <1>5, LastFromStart
<1>7. /\ Len(Levels[t]) + Len(Levels[fr]) = Len(Levels[f]) + Len(Levels[tr])
      /\ MqttMatches(t, f) <=> MqttMatches(tr, fr)
  BY DEF Along
<1> HIDE DEF tr, fr
<1>8. Levels[fr][1] = <<"#">> /\ Len(Levels[fr]) = 1
  BY <1>3, <1>4, ValidFirst DEF FirstLevel
<1>9. MqttMatches(t, f)
  BY <1>3, <1>4, <1>7, HashMatches
<1>10. PICK a \in Nat, b \in Nat, m \in Nat :
         a = Len(Levels[t]) /\ b = Len(Levels[f]) /\ m = Len(Levels[tr]) /\ m >= 1
  BY <1>1, <1>3, LevelsTyped
<1>11. a + 1 = b + m
  BY <1>7, <1>8, <1>10
<1>12. b # a + 1 /\ (b >= a => b = a)
  <2>1. m >= 1
    BY <1>10
  <2>2. QED
    BY <1>11, <2>1
<1>13. Levels[f][b] = <<"#">>
  BY <1>6, <1>8, <1>10 DEF LastOf
<1>14. <<"#">> # <<"+">>
  OBVIOUS
<1>15. ~Missed(Levels[t], Levels[f])
  BY <1>10, <1>12, <1>13, <1>14 DEF Missed
<1>16. QED
  BY <1>9, <1>15

LEMMA DifferentAnswer ==
  ASSUME NEW t, NEW f, Given(t, f), NEW i \in 1 .. Len(t), NEW j \in 1 .. Len(f),
         Along(t, f, i, j), f[j] \notin {"#", "+", t[i]}
  PROVE  ~MqttMatches(t, f)
<1>1. /\ Rest(t, i) \in Text /\ Rest(t, i) # <<>> /\ Head(Rest(t, i)) = t[i]
      /\ Rest(f, j) \in Text /\ Rest(f, j) # <<>> /\ Head(Rest(f, j)) = f[j]
      /\ ValidFilter(Rest(f, j))
  BY RestsLeft
<1>2. Head(Rest(f, j)) \notin {"+", "#", Head(Rest(t, i))}
  BY <1>1
<1>3. ~MqttMatches(Rest(t, i), Rest(f, j))
  BY <1>1, <1>2, DifferentFails
<1>4. QED
  BY <1>3 DEF Along

LEMMA TopicLeftAnswer ==
  ASSUME NEW t, NEW f, Given(t, f), NEW i \in 1 .. Len(t), Along(t, f, i, Len(f) + 1)
  PROVE  ~MqttMatches(t, f)
<1>1. Rest(t, i) \in Text /\ Rest(t, i) # <<>> /\ Rest(f, Len(f) + 1) = <<>>
  BY GivenTexts, RestOf, RestEnds
<1>2. ~MqttMatches(Rest(t, i), Rest(f, Len(f) + 1))
  BY <1>1, FilterEnded
<1>3. QED
  BY <1>2 DEF Along

LEMMA BothEndedAnswer ==
  ASSUME NEW t, NEW f, Given(t, f), Along(t, f, Len(t) + 1, Len(f) + 1)
  PROVE  MqttMatches(t, f) /\ ~Missed(Levels[t], Levels[f])
<1>1. /\ t \in Text /\ t # <<>> /\ f \in Text /\ f # <<>>
      /\ Len(t) \in Nat /\ Len(t) >= 1 /\ Len(f) \in Nat /\ Len(f) >= 1
  BY GivenTexts
<1>2. Rest(t, Len(t) + 1) = <<>> /\ Rest(f, Len(f) + 1) = <<>>
  BY <1>1, RestEnds
<1>3. MqttMatches(t, f)
  BY <1>2, BothEnded DEF Along
<1>4. PICK a \in Nat, b \in Nat : a = Len(Levels[t]) /\ b = Len(Levels[f])
  BY <1>1, LevelsTyped
<1>5. a + 1 = b + 1
  BY <1>2, <1>4, EmptyText DEF Along
<1>6. a = b
  BY <1>4, <1>5
<1>7. f[Len(f)] = "+" => t[Len(t)] # "/"
  <2>1. Len(f) + 1 > 1 /\ (Len(f) + 1) - 1 = Len(f)
    BY <1>1
  <2>2. QED
    BY <2>1 DEF Along
<1>8. ASSUME Levels[t][a] = <<>>, Levels[f][a] = <<"+">> PROVE FALSE
  <2>1. LastOf(Levels[t]) = <<>> /\ LastOf(Levels[f]) = <<"+">>
    BY <1>4, <1>6, <1>8 DEF LastOf
  <2>2. ToSet(<<>>) = {} /\ ToSet(<<"+">>) = {"+"} /\ <<"+">> # <<>>
    BY DEF ToSet
  <2>3. t[Len(t)] = "/"
    BY <1>1, <2>1, <2>2, LastCharacter
  <2>4. f[Len(f)] = "+"
    <3>1. f[Len(f)] # "/"
      BY <1>1, <2>1, <2>2, LastCharacter
    <3>2. f[Len(f)] \in ToSet(<<"+">>)
      BY <1>1, <2>1, <3>1, LastCharacter
    <3>3. QED
      BY <2>2, <3>2
  <2>5. QED
    BY <1>7, <2>3, <2>4
<1>9. b # a + 1
  BY <1>4, <1>6
<1>10. ~Missed(Levels[t], Levels[f])
  BY <1>4, <1>8, <1>9 DEF Missed
<1>11. QED
  BY <1>3, <1>10

LEMMA FilterLeftAnswer ==
  ASSUME NEW t, NEW f, Given(t, f), NEW j \in 1 .. Len(f), Along(t, f, Len(t) + 1, j),
         f[j] # "#", MqttMatches(t, f)
  PROVE  Missed(Levels[t], Levels[f])
<1>1. /\ t \in Text /\ t # <<>> /\ f \in Text /\ ValidFilter(f)
      /\ Len(t) \in Nat /\ Len(t) >= 1 /\ Len(f) \in Nat
  BY GivenTexts
<1>2. j \in 1 .. Len(f) + 1 /\ Len(t) + 1 \in 1 .. Len(t) + 1
  BY <1>1
<1> DEFINE fr == Rest(f, j)
<1>3. /\ fr \in Text /\ fr # <<>> /\ Head(fr) = f[j] /\ Tail(fr) = Rest(f, j + 1)
      /\ Rest(f, j + 1) \in Text
  BY <1>1, RestOf
<1>4. ValidFilter(fr)
  BY <1>1, <1>2, ValidRest
<1>5. Rest(t, Len(t) + 1) = <<>>
  BY <1>1, RestEnds
<1>6. /\ Len(Levels[t]) + Len(Levels[fr]) = Len(Levels[f]) + 1
      /\ MqttMatches(<<>>, fr)
      /\ j = 1 => Len(t) + 1 = 1
      /\ j > 1 /\ f[j - 1] = "/" => t[(Len(t) + 1) - 1] = "/"
  BY <1>5, EmptyText DEF Along
<1>7. PICK a \in Nat, b \in Nat : a = Len(Levels[t]) /\ b = Len(Levels[f])
  BY <1>1, LevelsTyped
<1>8. CASE Len(Levels[fr]) = 2 /\ Levels[fr][2] = <<"#">>
  <2>1. a + 2 = b + 1
    BY <1>6, <1>7, <1>8
  <2>2. b = a + 1
    BY <1>7, <2>1
  <2>3. LastOf(Levels[f]) = LastOf(Levels[fr])
    <3>1. Len(Levels[fr]) >= 2
      BY <1>8
    <3>2. QED
      BY <1>1, <1>2, <3>1, LastLevel
  <2>4. Levels[f][b] = <<"#">>
    BY <1>7, <1>8, <2>3 DEF LastOf
  <2>5. QED
    BY <1>7, <2>2, <2>4 DEF Missed
<1>9. CASE Head(fr) = "+" /\ Tail(fr) = <<>>
  <2>1. j > 1
    BY <1>1, <1>6
  <2>2. f[j - 1] = "/"
    BY <1>1, <1>3, <1>9, <2>1, WildBeginsLevel
  <2>3. t[Len(t)] = "/"
    BY <1>1, <1>6, <2>1, <2>2
  <2>4. LastOf(Levels[t]) = <<>>
    BY <1>1, <2>3, LastCharacter
  <2>5. LastOf(Levels[f]) = LastOf(Levels[fr])
    BY <1>1, <1>2, <2>2, LastFromStart
  <2>6. Len(Levels[fr]) = 1 /\ Levels[fr][1] = <<"+">>
    <3>1. Levels[fr][1] = <<"+">>
      BY <1>3, <1>4, <1>9, ValidFirst DEF FirstLevel
    <3>2. Len(Levels[fr]) = Len(Levels[<<>>])
      BY <1>3, <1>9, LetterLevels DEF Grows, SameLater
    <3>3. QED
      BY <3>1, <3>2, EmptyText
  <2>7. a + 1 = b + 1
    BY <1>6, <1>7, <2>6
  <2>8. a = b /\ b >= a
    BY <1>7, <2>7
  <2>9. Levels[t][a] = <<>> /\ Levels[f][a] = <<"+">>
    BY <1>7, <2>4, <2>5, <2>6, <2>8 DEF LastOf
  <2>10. QED
    BY <1>7, <2>8, <2>9 DEF Missed
<1>10. QED
  BY <1>3, <1>4, <1>6, <1>8, <1>9, TopicEnded

----------------------------------------------------------------------------
(* The invariant.                                                          *)

LEMMA InitLoop == Init => LoopInv
<1> SUFFICES ASSUME Init PROVE LoopInv
  OBVIOUS
<1>1. PICK n \in 1 .. MaxTopic : topic \in [1 .. n -> Letters \cup {"/"}]
  BY DEF Init, Strings
<1>2. topic \in Topics
  <2>1. n \in Nat /\ n >= 1
    BY LengthsAssumption
  <2>2. topic \in Seq(Letters \cup {"/"}) /\ Len(topic) = n
    BY <1>1, <2>1
  <2>3. QED
    BY <2>1, <2>2 DEF Topics
<1>3. PICK m \in 1 .. MaxFilter : filter \in [1 .. m -> Char] /\ ValidFilter(filter)
  BY DEF Init, Strings
<1>4. filter \in Text /\ filter # <<>>
  <2>1. m \in Nat /\ m >= 1
    BY LengthsAssumption
  <2>2. filter \in Seq(Char) /\ Len(filter) = m
    BY <1>3, <2>1
  <2>3. QED
    BY <2>1, <2>2 DEF Text
<1>5. Given(topic, filter)
  BY <1>2, <1>3, <1>4 DEF Given
<1>6. ti = 1 /\ fi = 1 /\ matched = "none"
  BY DEF Init
<1>7. Along(topic, filter, 1, 1)
  <2>1. topic \in Text /\ filter \in Text /\ Len(topic) \in Nat /\ Len(filter) \in Nat
    BY <1>5, GivenTexts
  <2>2. Rest(topic, 1) = topic /\ Rest(filter, 1) = filter
    BY <2>1, RestEnds
  <2>3. PICK a \in Nat, b \in Nat : a = Len(Levels[topic]) /\ b = Len(Levels[filter])
    BY <2>1, LevelsTyped
  <2>4. a + b = b + a
    OBVIOUS
  <2>5. 1 \in 1 .. Len(topic) + 1 /\ 1 \in 1 .. Len(filter) + 1 /\ ~(1 > 1)
    BY <2>1
  <2>6. QED
    BY <2>2, <2>3, <2>4, <2>5 DEF Along
<1>8. AnswerRight(topic, filter, "none")
  BY DEF AnswerRight
<1>9. QED
  BY <1>5, <1>6, <1>7, <1>8 DEF LoopInv

LEMMA InLoopPlaces ==
  ASSUME LoopInv, InLoop
  PROVE  ti \in 1 .. Len(topic) /\ fi \in 1 .. Len(filter)
<1>1. Len(topic) \in Nat /\ Len(filter) \in Nat
  BY GivenTexts DEF LoopInv
<1>2. ti \in 1 .. Len(topic) + 1 /\ fi \in 1 .. Len(filter) + 1
  BY DEF LoopInv, Along
<1>3. QED
  BY <1>1, <1>2 DEF InLoop

LEMMA ReturnKeeps ==
  ASSUME LoopInv, NEW r \in {"yes", "no"}, Return(r), AnswerRight(topic, filter, r)
  PROVE  LoopInv'
  BY DEF LoopInv, Return

LEMMA PlusStep ==
  ASSUME LoopInv, Plus
  PROVE  LoopInv'
<1>1. ti \in 1 .. Len(topic) /\ fi \in 1 .. Len(filter)
  BY InLoopPlaces DEF Plus
<1>2. Given(topic, filter) /\ Along(topic, filter, ti, fi) /\ Len(topic) \in Nat
  BY GivenTexts DEF LoopInv
<1> DEFINE slashes == {j \in ti .. Len(topic) : topic[j] = "/"}
<1>3. SlashOrEnd(topic, ti, ti')
  <2>1. CASE slashes = {}
    <3>1. ti' = Len(topic) + 1
      BY <2>1 DEF Plus
    <3>2. \A m \in ti .. Len(topic) : topic[m] # "/"
      BY <2>1
    <3>3. ti' \in ti .. Len(topic) + 1 /\ ti' - 1 = Len(topic) /\ ~(ti' <= Len(topic))
      BY <1>1, <1>2, <3>1
    <3>4. QED
      BY <3>2, <3>3 DEF SlashOrEnd
  <2>2. CASE slashes # {}
    <3>1. slashes \subseteq Nat
      BY <1>1, <1>2
    <3>2. \E j \in slashes : \A k \in slashes : j <= k
      BY <2>2, <3>1, LeastElement
    <3>3. ti' = CHOOSE j \in slashes : \A k \in slashes : j <= k
      BY <2>2 DEF Plus
    <3>4. ti' \in slashes /\ \A k \in slashes : ti' <= k
      BY <3>2, <3>3
    <3>5. ti' \in ti .. Len(topic) /\ topic[ti'] = "/"
      BY <3>4
    <3>6. ASSUME NEW m \in ti .. ti' - 1, topic[m] = "/" PROVE FALSE
      <4>1. m \in ti .. Len(topic) /\ ~(ti' <= m)
        <5>1. PICK n \in Nat : n = Len(topic)
          BY <1>2
        <5>2. PICK i \in Nat, k \in Nat : i = ti /\ k = ti' /\ k <= n
          BY <1>1, <3>5, <5>1
        <5>3. m \in i .. k - 1
          BY <3>6, <5>2
        <5>4. m \in i .. n /\ ~(k <= m)
          <6>1. k <= n
            BY <5>2
          <6>2. m \in Nat /\ i <= m /\ m <= k - 1
            BY <5>3
          <6>3. QED
            BY <6>1, <6>2
        <5>5. QED
          BY <5>1, <5>2, <5>4
      <4>2. QED
        BY <3>4, <3>6, <4>1
    <3>7. ti' \in ti .. Len(topic) + 1
      BY <1>1, <1>2, <3>5
    <3>8. QED
      BY <3>5, <3>6, <3>7 DEF SlashOrEnd
  <2>3. QED
    BY <2>1, <2>2
<1>4. fi' = fi + 1 /\ filter[fi] = "+" /\ UNCHANGED <<topic, filter, matched>>
  BY DEF Plus
<1>5. Along(topic, filter, ti', fi + 1)
  BY <1>1, <1>2, <1>3, <1>4, PlusKeeps
<1>6. QED
  BY <1>4, <1>5 DEF LoopInv

LEMMA LoopStep == LoopInv /\ [Next]_vars => LoopInv'
<1> SUFFICES ASSUME LoopInv, [Next]_vars PROVE LoopInv'
  OBVIOUS
<1>1. /\ Given(topic, filter) /\ Along(topic, filter, ti, fi)
      /\ Len(topic) \in Nat /\ Len(filter) \in Nat
      /\ ti \in 1 .. Len(topic) + 1 /\ fi \in 1 .. Len(filter) + 1
  BY GivenTexts DEF LoopInv, Along
<1>2. CASE Hash
  <2>1. fi \in 1 .. Len(filter) /\ filter[fi] = "#" /\ Return("yes")
    BY <1>2, InLoopPlaces DEF Hash
  <2>2. AnswerRight(topic, filter, "yes")
    BY <1>1, <2>1, HashAnswer DEF AnswerRight
  <2>3. QED
    BY <2>1, <2>2, ReturnKeeps
<1>3. CASE Plus
  BY <1>3, PlusStep
<1>4. CASE Same
  <2>1. /\ ti \in 1 .. Len(topic) /\ fi \in 1 .. Len(filter) /\ filter[fi] = topic[ti]
        /\ ti' = ti + 1 /\ fi' = fi + 1 /\ UNCHANGED <<topic, filter, matched>>
    BY <1>4, InLoopPlaces DEF Same
  <2>2. Along(topic, filter, ti + 1, fi + 1)
    BY <1>1, <2>1, SameKeeps
  <2>3. QED
    BY <2>1, <2>2 DEF LoopInv
<1>5. CASE Different
  <2>1. /\ ti \in 1 .. Len(topic) /\ fi \in 1 .. Len(filter)
        /\ filter[fi] \notin {"#", "+", topic[ti]} /\ Return("no")
    BY <1>5, InLoopPlaces DEF Different
  <2>2. AnswerRight(topic, filter, "no")
    BY <1>1, <2>1, DifferentAnswer DEF AnswerRight
  <2>3. QED
    BY <2>1, <2>2, ReturnKeeps
<1>6. CASE Finish
  <2>1. ~(fi <= Len(filter) /\ ti <= Len(topic))
    BY <1>6 DEF Finish, InLoop
  <2>2. CASE AtEnds
    <3>1. ti = Len(topic) + 1 /\ fi = Len(filter) + 1
      BY <1>1, <2>2 DEF AtEnds
    <3>2. Return("yes")
      BY <1>6, <2>2 DEF Finish
    <3>3. AnswerRight(topic, filter, "yes")
      BY <1>1, <3>1, BothEndedAnswer DEF AnswerRight
    <3>4. QED
      BY <3>2, <3>3, ReturnKeeps
  <2>3. CASE fi <= Len(filter) /\ filter[fi] = "#"
    <3>1. fi \in 1 .. Len(filter)
      BY <1>1, <2>3
    <3>2. Return("yes")
      BY <1>6, <2>3 DEF Finish
    <3>3. AnswerRight(topic, filter, "yes")
      BY <1>1, <2>3, <3>1, HashAnswer DEF AnswerRight
    <3>4. QED
      BY <3>2, <3>3, ReturnKeeps
  <2>4. CASE ~AtEnds /\ ~(fi <= Len(filter) /\ filter[fi] = "#")
    <3>1. Return("no")
      BY <1>6, <2>4 DEF Finish
    <3>2. CASE fi <= Len(filter)
      <4>1. ti = Len(topic) + 1 /\ fi \in 1 .. Len(filter) /\ filter[fi] # "#"
        BY <1>1, <2>1, <2>4, <3>2
      <4>2. AnswerRight(topic, filter, "no")
        BY <1>1, <4>1, FilterLeftAnswer DEF AnswerRight
      <4>3. QED
        BY <3>1, <4>2, ReturnKeeps
    <3>3. CASE ~(fi <= Len(filter))
      <4>1. fi = Len(filter) + 1 /\ ti \in 1 .. Len(topic)
        BY <1>1, <2>4, <3>3 DEF AtEnds
      <4>2. AnswerRight(topic, filter, "no")
        BY <1>1, <4>1, TopicLeftAnswer DEF AnswerRight
      <4>3. QED
        BY <3>1, <4>2, ReturnKeeps
    <3>4. QED
      BY <3>2, <3>3
  <2>5. QED
    BY <2>2, <2>3, <2>4
<1>7. CASE UNCHANGED vars
  BY <1>7 DEF vars, LoopInv
<1>8. QED
  BY <1>2, <1>3, <1>4, <1>5, <1>6, <1>7 DEF Next

LEMMA LoopAlways == Spec => []LoopInv
  BY InitLoop, LoopStep, PTL DEF Spec

(* For topics and filters of any length, over any letters, the function    *)
(* says yes only to what section 4.7 of MQTT calls a match: no callback is *)
(* given a message its filter does not match.                              *)
THEOREM NothingInExcess == Spec => []NeverTooMuch
<1>1. LoopInv => NeverTooMuch
  BY DEF LoopInv, AnswerRight, NeverTooMuch
<1>2. QED
  BY <1>1, LoopAlways, PTL

(* And of the matches it misses exactly those to the parent level of a     *)
(* filter that ends in "#" and those of an empty last level to a "+".      *)
THEOREM MissesExactly == Spec => []MissesTwoCases
<1>1. LoopInv => MissesTwoCases
  <2> SUFFICES ASSUME LoopInv, matched # "none", MqttMatches(topic, filter)
               PROVE  matched = "no" <=> Missed(Levels[topic], Levels[filter])
    BY DEF MissesTwoCases, Missed
  <2>1. matched \in {"yes", "no"} /\ AnswerRight(topic, filter, matched)
    BY DEF LoopInv
  <2>2. QED
    BY <2>1 DEF AnswerRight
<1>2. QED
  BY <1>1, LoopAlways, PTL

=============================================================================
