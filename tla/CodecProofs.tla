---------------------------- MODULE CodecProofs ----------------------------
(***************************************************************************)
(* What is written to the flash log is read back: theorems about           *)
(* EventCodec.  Its functions are recursive; RankRecursion shows that      *)
(* they satisfy their defining equations, by induction over a rank.        *)
(***************************************************************************)
EXTENDS EventCodec, WellFoundedInduction, SequenceTheorems, FiniteSetTheorems,
        TLAPS
-----------------------------------------------------------------------------
(* Recursion and induction                                                 *)

LEMMA LeastNat ==
  ASSUME NEW T \in SUBSET Nat, T # {}
  PROVE  \E m \in T : \A n \in T : m <= n
<1> DEFINE R == OpToRel(<, Nat)
<1>1. IsWellFoundedOn(R, Nat)
  BY NatLessThanWellFounded
<1>2. \A x, y \in Nat : x < y => <<x, y>> \in R
  BY DEF OpToRel
<1> HIDE DEF R
<1>3. PICK m \in T : \A n \in T : ~ (<<n, m>> \in R)
  BY <1>1, WFMin
<1>4. ASSUME NEW n \in T PROVE m <= n
  <2>1. m \in Nat /\ n \in Nat /\ ~(n < m)
    BY <1>2, <1>3
  <2> QED
    BY <2>1
<1> QED
  BY <1>4

LEMMA NatSetInduction ==
  ASSUME NEW S, 0 \in S, \A n \in Nat : n \in S => n + 1 \in S
  PROVE  Nat \subseteq S
<1> SUFFICES ASSUME Nat \ S # {} PROVE FALSE
  OBVIOUS
<1>1. PICK m \in Nat \ S : \A n \in Nat \ S : m <= n
  BY LeastNat
<1>2. m - 1 \in Nat /\ ~(m <= m - 1)
  BY <1>1
<1> QED
  BY <1>1, <1>2

(* What holds of a thing when it holds of all those of lower rank holds of *)
(* everything.                                                             *)
LEMMA RankInduction ==
  ASSUME NEW T, NEW rank \in [T -> Nat], NEW S,
         \A t \in T : (\A u \in T : rank[u] < rank[t] => u \in S) => t \in S
  PROVE  T \subseteq S
<1> SUFFICES ASSUME NEW x \in T, x \notin S PROVE FALSE
  OBVIOUS
<1> DEFINE R == {rank[t] : t \in T \ S}
<1>1. R \in SUBSET Nat /\ R # {}
  OBVIOUS
<1>2. PICK n \in R : \A m \in R : n <= m
  BY <1>1, LeastNat
<1>3. PICK t \in T \ S : rank[t] = n
  BY <1>2
<1>4. \A u \in T \ S : rank[u] \in R /\ rank[u] \in Nat
  OBVIOUS
<1>5. ASSUME NEW u \in T, rank[u] < rank[t] PROVE u \in S
  <2>1. rank[u] \in Nat /\ rank[t] \in Nat /\ ~(n <= rank[u])
    BY <1>3, <1>5
  <2> QED
    BY <1>2, <1>4, <2>1
<1> QED
  BY <1>3, <1>5

(* The right side Phi of a recursive definition looks, at each argument,   *)
(* only at arguments of lower rank.                                        *)
LooksLower(T, V, rank, Phi) ==
  /\ V # {}
  /\ rank \in [T -> Nat]
  /\ Phi \in [[T -> V] -> [T -> V]]
  /\ \A f, g \in [T -> V] : \A t \in T :
       (\A u \in T : rank[u] < rank[t] => f[u] = g[u]) => Phi[f][t] = Phi[g][t]

(* Such a definition is satisfied by a function.  This is what lets the    *)
(* loops of event_queue.cpp:225-348, written as recursive functions, be    *)
(* reasoned about by their equations.                                      *)
THEOREM RankRecursion ==
  ASSUME NEW T, NEW V, NEW rank, NEW Phi, LooksLower(T, V, rank, Phi)
  PROVE  \E f \in [T -> V] : f = Phi[f]
<1> USE DEF LooksLower
<1>b. PICK base \in V : TRUE
  OBVIOUS
<1> DEFINE Fix(f, n) == \A t \in T : rank[t] < n => f[t] = Phi[f][t]
           Some == {n \in Nat : \E f \in [T -> V] : Fix(f, n)}
           One == {n \in Nat : \A f, g \in [T -> V] :
                     Fix(f, n) /\ Fix(g, n) => \A t \in T : rank[t] < n => f[t] = g[t]}
           h(n) == CHOOSE f \in [T -> V] : Fix(f, n)
           F == [t \in T |-> h(rank[t] + 1)[t]]
<1>0. \A t \in T : rank[t] \in Nat
  OBVIOUS
<1>a. \A f \in [T -> V] : Phi[f] \in [T -> V]
  OBVIOUS
<1>1. Nat \subseteq Some
  <2>1. 0 \in Some
    <3>1. [t \in T |-> base] \in [T -> V]
      OBVIOUS
    <3>2. Fix([t \in T |-> base], 0)
      BY <1>0
    <3> QED
      BY <3>1, <3>2
  <2>2. ASSUME NEW n \in Nat, n \in Some PROVE n + 1 \in Some
    <3>1. PICK f \in [T -> V] : Fix(f, n)
      BY <2>2
    <3> DEFINE g == Phi[f]
    <3>2. g \in [T -> V]
      BY <1>a
    <3>3. ASSUME NEW t \in T, rank[t] < n + 1 PROVE g[t] = Phi[g][t]
      <4>1. \A u \in T : rank[u] < rank[t] => f[u] = g[u]
        BY <1>0, <3>1, <3>3
      <4> QED
        BY <3>2, <4>1
    <3>4. Fix(g, n + 1)
      BY <3>3
    <3> HIDE DEF g, Fix
    <3> QED
      BY <3>2, <3>4
  <2> HIDE DEF Some
  <2> QED
    BY <2>1, <2>2, NatSetInduction
<1>2. Nat \subseteq One
  <2>1. 0 \in One
    BY <1>0
  <2>2. ASSUME NEW n \in Nat, n \in One PROVE n + 1 \in One
    <3>1. ASSUME NEW f \in [T -> V], NEW g \in [T -> V],
                 Fix(f, n + 1), Fix(g, n + 1), NEW t \in T, rank[t] < n + 1
          PROVE  f[t] = g[t]
      <4>2. Fix(f, n) /\ Fix(g, n)
        BY <1>0, <3>1
      <4>3. \A u \in T : rank[u] < n => f[u] = g[u]
        BY <2>2, <4>2
      <4>4. \A u \in T : rank[u] < rank[t] => f[u] = g[u]
        BY <1>0, <3>1, <4>3
      <4>5. Phi[f][t] = Phi[g][t]
        BY <4>4
      <4> QED
        BY <3>1, <4>5
    <3>2. n + 1 \in Nat
      OBVIOUS
    <3> HIDE DEF Fix
    <3> QED
      BY <3>1, <3>2
  <2> HIDE DEF One
  <2> QED
    BY <2>1, <2>2, NatSetInduction
<1>3. \A n \in Nat : h(n) \in [T -> V] /\ Fix(h(n), n)
  <2> HIDE DEF Fix
  <2> QED
    BY <1>1
<1>4. ASSUME NEW m \in Nat, NEW n \in Nat, m <= n, NEW t \in T, rank[t] < m
      PROVE  h(m)[t] = h(n)[t]
  <2>1. /\ h(m) \in [T -> V] /\ Fix(h(m), m)
        /\ h(n) \in [T -> V] /\ Fix(h(n), n)
    BY <1>3
  <2> HIDE DEF h
  <2>2. Fix(h(n), m)
    BY <1>0, <1>4, <2>1
  <2>3. m \in One
    BY <1>2
  <2> QED
    BY <1>4, <2>1, <2>2, <2>3
<1> HIDE DEF h
<1>5. F \in [T -> V] /\ \A t \in T : F[t] = h(rank[t] + 1)[t]
  BY <1>0, <1>3
<1> HIDE DEF F
<1>6. ASSUME NEW t \in T PROVE F[t] = Phi[F][t]
  <2> DEFINE n == rank[t] + 1
             f == h(n)
  <2>1. n \in Nat /\ rank[t] < n /\ f \in [T -> V] /\ Fix(f, n)
    BY <1>0, <1>3
  <2>2. \A u \in T : rank[u] < rank[t] => F[u] = f[u]
    BY <1>0, <1>4, <1>5
  <2>3. Phi[F][t] = Phi[f][t]
    <3> HIDE DEF f
    <3> QED
      BY <1>5, <2>1, <2>2
  <2>4. F[t] = f[t]
    BY <1>5
  <2> HIDE DEF f, n
  <2> QED
    BY <2>1, <2>3, <2>4
<1>7. Phi[F] \in [T -> V]
  BY <1>5, <1>a
<1>8. F = Phi[F]
  <2> HIDE DEF Fix
  <2> QED
    BY <1>5, <1>6, <1>7
<1> QED
  BY <1>5, <1>8
-----------------------------------------------------------------------------
(* Sequences built from the front                                          *)

LEMMA FrontFacts ==
  ASSUME NEW E, NEW c \in E, NEW u \in Seq(E)
  PROVE  /\ <<c>> \o u \in Seq(E) /\ <<c>> \o u # <<>>
         /\ Len(<<c>> \o u) = Len(u) + 1
         /\ Head(<<c>> \o u) = c /\ Tail(<<c>> \o u) = u
         /\ (<<c>> \o u)[1] = c
         /\ \A i \in 1..Len(u) : (<<c>> \o u)[i + 1] = u[i]
<1> DEFINE s == <<c>> \o u
<1>1. <<c>> \in Seq(E) /\ Len(<<c>>) = 1 /\ <<c>>[1] = c
  OBVIOUS
<1>2. /\ s \in Seq(E) /\ Len(s) = 1 + Len(u)
      /\ \A i \in 1..(1 + Len(u)) : s[i] = IF i <= 1 THEN <<c>>[i] ELSE u[i - 1]
  <2> HIDE DEF s
  <2> QED
    BY <1>1, ConcatProperties DEF s
<1>3. Len(u) \in Nat
  OBVIOUS
<1> HIDE DEF s
<1>4. s # <<>> /\ Len(s) = Len(u) + 1 /\ s[1] = c
  BY <1>1, <1>2, <1>3
<1>5. \A i \in 1..Len(u) : s[i + 1] = u[i]
  BY <1>2, <1>3
<1>6. Head(s) = c
  BY <1>2, <1>4
<1>7. Tail(s) = u
  <2>1. /\ Tail(s) \in Seq(E) /\ Len(Tail(s)) = Len(s) - 1
        /\ \A i \in 1..Len(Tail(s)) : Tail(s)[i] = s[i + 1]
    BY <1>2, <1>4, HeadTailProperties
  <2>2. Len(Tail(s)) = Len(u) /\ \A i \in 1..Len(Tail(s)) : Tail(s)[i] = u[i]
    BY <1>3, <1>4, <1>5, <2>1
  <2> QED
    BY <2>1, <2>2, SeqEqual
<1> QED
  BY <1>2, <1>4, <1>5, <1>6, <1>7 DEF s

LEMMA PairOfTwo ==
  ASSUME NEW E, NEW x \in E, NEW y \in E
  PROVE  <<x>> \o <<y>> = <<x, y>>
<1> DEFINE u == <<y>>
           s == <<x>> \o u
           p == <<x, y>>
<1>1. u \in Seq(E) /\ Len(u) = 1 /\ u[1] = y
  OBVIOUS
<1>2. p \in Seq(E) /\ Len(p) = 2 /\ p[1] = x /\ p[2] = y
  OBVIOUS
<1> HIDE DEF u, p
<1>3. /\ s \in Seq(E) /\ Len(s) = Len(u) + 1 /\ s[1] = x
      /\ \A i \in 1..Len(u) : s[i + 1] = u[i]
  <2>1. u \in Seq(E)
    BY <1>1
  <2> QED
    BY <2>1, FrontFacts
<1> HIDE DEF s
<1>4. s[2] = y
  BY <1>1, <1>3
<1>5. \A i \in 1..2 : s[i] = p[i]
  BY <1>2, <1>3, <1>4
<1>6. s = p
  BY <1>1, <1>2, <1>3, <1>5, SeqEqual
<1> QED
  BY <1>6 DEF s, u, p

LEMMA FrontOff ==
  ASSUME NEW E, NEW s \in Seq(E), s # <<>>
  PROVE  /\ Head(s) \in E /\ Tail(s) \in Seq(E) /\ s = <<Head(s)>> \o Tail(s)
         /\ Len(s) \in Nat \ {0} /\ Len(Tail(s)) = Len(s) - 1
         /\ Head(s) = s[1]
<1>1. /\ Head(s) \in E /\ Tail(s) \in Seq(E) /\ Len(Tail(s)) = Len(s) - 1
      /\ \A i \in 1..Len(Tail(s)) : Tail(s)[i] = s[i + 1]
  BY HeadTailProperties
<1>2. Len(s) \in Nat \ {0} /\ Head(s) = s[1]
  BY EmptySeq
<1> DEFINE r == <<Head(s)>> \o Tail(s)
<1>3. /\ r \in Seq(E) /\ Len(r) = Len(Tail(s)) + 1 /\ r[1] = Head(s)
      /\ \A i \in 1..Len(Tail(s)) : r[i + 1] = Tail(s)[i]
  <2> DEFINE c == Head(s)
             u == Tail(s)
  <2>1. c \in E /\ u \in Seq(E)
    BY <1>1
  <2> HIDE DEF c, u
  <2>2. /\ <<c>> \o u \in Seq(E) /\ Len(<<c>> \o u) = Len(u) + 1 /\ (<<c>> \o u)[1] = c
        /\ \A i \in 1..Len(u) : (<<c>> \o u)[i + 1] = u[i]
    BY <2>1, FrontFacts
  <2> QED
    BY <2>2 DEF c, u
<1> HIDE DEF r
<1>4. Len(r) = Len(s)
  BY <1>1, <1>2, <1>3
<1>5. ASSUME NEW i \in 1..Len(r) PROVE r[i] = s[i]
  <2>1. CASE i = 1
    BY <2>1, <1>2, <1>3
  <2>2. CASE i # 1
    <3> DEFINE j == i - 1
    <3>1. j \in 1..Len(Tail(s)) /\ j + 1 = i
      BY <1>1, <1>2, <1>4, <2>2
    <3> HIDE DEF j
    <3> QED
      BY <1>1, <1>3, <3>1
  <2> QED
    BY <2>1, <2>2
<1>6. r = s
  BY <1>3, <1>4, <1>5, SeqEqual
<1> QED
  BY <1>1, <1>2, <1>6 DEF r

(* Induction on a sequence, from its end to its front.                     *)
LEMMA SeqInduction ==
  ASSUME NEW E, NEW S, <<>> \in S,
         \A c \in E : \A u \in Seq(E) : u \in S => <<c>> \o u \in S
  PROVE  Seq(E) \subseteq S
<1> DEFINE rank == [s \in Seq(E) |-> Len(s)]
<1>1. rank \in [Seq(E) -> Nat]
  OBVIOUS
<1>2. ASSUME NEW s \in Seq(E), \A u \in Seq(E) : rank[u] < rank[s] => u \in S
      PROVE  s \in S
  <2>1. CASE s # <<>>
    <3>1. /\ Head(s) \in E /\ Tail(s) \in Seq(E) /\ s = <<Head(s)>> \o Tail(s)
          /\ Len(s) \in Nat /\ Len(Tail(s)) = Len(s) - 1
      BY <2>1, FrontOff
    <3>2. rank[Tail(s)] < rank[s]
      BY <3>1
    <3>3. Tail(s) \in S
      BY <1>2, <3>1, <3>2
    <3> QED
      BY <3>1, <3>3
  <2> QED
    BY <2>1
<1> DEFINE T == Seq(E)
<1>3. /\ rank \in [T -> Nat]
      /\ \A t \in T : (\A u \in T : rank[u] < rank[t] => u \in S) => t \in S
  BY <1>1, <1>2
<1> HIDE DEF rank, T
<1>4. T \subseteq S
  BY <1>3, RankInduction
<1> QED
  BY <1>4 DEF T
-----------------------------------------------------------------------------
(* Escaping                                                                *)

LEMMA Literals ==
  /\ "%" \in Char /\ "|" \in Char /\ ";" \in Char /\ "=" \in Char /\ "-" \in Char
  /\ \A c \in HexDigits : c \in Char
  /\ \A c \in Digits : c \in Char
<1>1. Reserved \subseteq Char /\ HexDigits \subseteq Char /\ {"-"} \subseteq Char
  BY CodecAssumption
<1>2. "%" \in Reserved /\ "|" \in Reserved /\ ";" \in Reserved /\ "=" \in Reserved
  BY DEF Reserved
<1> QED
  BY <1>1, <1>2, Zenon DEF HexDigits

LEMMA HexCodes ==
  /\ HexCode["%"] = <<"2", "5">> /\ HexCode["|"] = <<"7", "C">>
  /\ HexCode[";"] = <<"3", "B">> /\ HexCode["="] = <<"3", "D">>
  BY DEF HexCode, Reserved

LEMMA HexDigitsHold ==
  /\ "2" \in HexDigits /\ "3" \in HexDigits /\ "5" \in HexDigits /\ "7" \in HexDigits
  /\ "B" \in HexDigits /\ "C" \in HexDigits /\ "D" \in HexDigits
<1>1. /\ Numeral[2 + 1] = "2" /\ Numeral[3 + 1] = "3"
      /\ Numeral[5 + 1] = "5" /\ Numeral[7 + 1] = "7"
  BY DEF Numeral
<1>2. 2 \in 0..9 /\ 3 \in 0..9 /\ 5 \in 0..9 /\ 7 \in 0..9
  OBVIOUS
<1>3. "2" \in Digits /\ "3" \in Digits /\ "5" \in Digits /\ "7" \in Digits
  BY <1>1, <1>2, Zenon DEF Digits
<1> QED
  BY <1>3, Zenon DEF HexDigits

LEMMA HexCodeForm ==
  ASSUME NEW c \in Reserved
  PROVE  \E h, l \in HexDigits : HexCode[c] = <<h, l>> /\ Decode(h, l) = c
<1>1. \A d \in Reserved : HexCode[d] = HexCode[c] => d = c
  <2>1. \A x \in Reserved : x = "%" \/ x = "|" \/ x = ";" \/ x = "="
    BY DEF Reserved
  <2>2. /\ <<"2", "5">> # <<"7", "C">> /\ <<"2", "5">> # <<"3", "B">>
        /\ <<"2", "5">> # <<"3", "D">> /\ <<"7", "C">> # <<"3", "B">>
        /\ <<"7", "C">> # <<"3", "D">> /\ <<"3", "B">> # <<"3", "D">>
    OBVIOUS
  <2> QED
    BY <2>1, <2>2, HexCodes, Zenon
<1>2. PICK h \in HexDigits, l \in HexDigits : HexCode[c] = <<h, l>>
  BY HexCodes, HexDigitsHold, Zenon DEF Reserved
<1>3. Decode(h, l) = c
  BY <1>1, <1>2, Zenon DEF Decode
<1> QED
  BY <1>2, <1>3

(* A character is written as it is, or as '%' and two hex digits that      *)
(* stand for it.                                                           *)
LEMMA EscapeForm ==
  ASSUME NEW c \in Char
  PROVE  \/ c \notin Reserved /\ EscapeChar(c) = <<c>>
         \/ /\ c \in Reserved
            /\ \E h, l \in HexDigits :
                 /\ EscapeChar(c) = <<"%">> \o (<<h>> \o <<l>>)
                 /\ Decode(h, l) = c
<1>1. CASE c \in Reserved
  <2>1. PICK h \in HexDigits, l \in HexDigits : HexCode[c] = <<h, l>> /\ Decode(h, l) = c
    BY <1>1, HexCodeForm
  <2>2. <<h>> \o <<l>> = <<h, l>>
    BY PairOfTwo
  <2> QED
    BY <1>1, <2>1, <2>2, Zenon DEF EscapeChar
<1>2. CASE c \notin Reserved
  BY <1>2, Zenon DEF EscapeChar
<1> QED
  BY <1>1, <1>2

LEMMA EscapeCharText == ASSUME NEW c \in Char PROVE EscapeChar(c) \in Text
<1>1. CASE c \notin Reserved
  <2>1. <<c>> \in Text
    BY DEF Text
  <2> QED
    BY <1>1, <2>1, EscapeForm, Zenon
<1>2. CASE c \in Reserved
  <2>1. PICK h \in HexDigits, l \in HexDigits :
               EscapeChar(c) = <<"%">> \o (<<h>> \o <<l>>)
    BY <1>2, EscapeForm
  <2>2. \A x, y, z \in Char : <<x>> \o (<<y>> \o <<z>>) \in Seq(Char)
    OBVIOUS
  <2> QED
    BY <2>1, <2>2, Literals, Zenon DEF Text
<1> QED
  BY <1>1, <1>2

LEMMA EscapeFixed ==
  \A t \in Text : Escape[t] = IF t = <<>> THEN <<>>
                              ELSE EscapeChar(Head(t)) \o Escape[Tail(t)]
<1> DEFINE Body(f) == [text \in Text |-> IF text = <<>> THEN <<>>
                          ELSE EscapeChar(Head(text)) \o f[Tail(text)]]
           rank == [t \in Text |-> Len(t)]
           Phi == [f \in [Text -> Text] |-> Body(f)]
<1>1. \E f : f = Body(f)
  <2>1. rank \in [Text -> Nat]
    BY DEF Text
  <2>2. ASSUME NEW t \in Text, t # <<>>
        PROVE  Tail(t) \in Text /\ rank[Tail(t)] < rank[t] /\ EscapeChar(Head(t)) \in Text
    <3>1. Head(t) \in Char /\ Tail(t) \in Text /\ Len(t) \in Nat /\ Len(Tail(t)) = Len(t) - 1
      BY <2>2, FrontOff DEF Text
    <3> QED
      BY <3>1, EscapeCharText
  <2> HIDE DEF rank
  <2>3. ASSUME NEW f \in [Text -> Text] PROVE Body(f) \in [Text -> Text]
    <3>1. \A t, u \in Text : t \o u \in Text
      BY DEF Text
    <3>2. <<>> \in Text
      BY DEF Text
    <3>3. ASSUME NEW t \in Text, t # <<>> PROVE EscapeChar(Head(t)) \o f[Tail(t)] \in Text
      BY <2>2, <3>1, <3>3
    <3> QED
      BY <3>2, <3>3
  <2>4. Phi \in [[Text -> Text] -> [Text -> Text]]
    <3> HIDE DEF Body
    <3> QED
      BY <2>3
  <2>5. \A f, g \in [Text -> Text] : \A t \in Text :
          (\A u \in Text : rank[u] < rank[t] => f[u] = g[u]) => Phi[f][t] = Phi[g][t]
    BY <2>2
  <2>6. Text # {}
    <3>1. <<>> \in Text
      BY DEF Text
    <3> QED
      BY <3>1
  <2> HIDE DEF Phi
  <2>7. LooksLower(Text, Text, rank, Phi)
    BY <2>1, <2>4, <2>5, <2>6 DEF LooksLower
  <2>8. \E f \in [Text -> Text] : f = Phi[f]
    BY <2>7, RankRecursion
  <2> QED
    BY <2>8 DEF Phi
<1>2. Escape = CHOOSE f : f = Body(f)
  BY Zenon DEF Escape
<1>3. Escape = Body(Escape)
  BY <1>1, <1>2
<1> QED
  BY <1>3
LEMMA EscapeEquations ==
  /\ Escape[<<>>] = <<>>
  /\ \A c \in Char : \A u \in Text : Escape[<<c>> \o u] = EscapeChar(c) \o Escape[u]
<1>1. <<>> \in Text
  BY DEF Text
<1>2. ASSUME NEW c \in Char, NEW u \in Text
      PROVE  Escape[<<c>> \o u] = EscapeChar(c) \o Escape[u]
  <2> DEFINE t == <<c>> \o u
  <2>1. t \in Text /\ t # <<>> /\ Head(t) = c /\ Tail(t) = u
    BY FrontFacts DEF Text
  <2> HIDE DEF t
  <2>2. Escape[t] = EscapeChar(c) \o Escape[u]
    BY <2>1, EscapeFixed, Zenon
  <2> QED
    BY <2>2 DEF t
<1> QED
  BY <1>1, <1>2, EscapeFixed

LEMMA TextConcat == \A t, u \in Text : t \o u \in Text
  BY DEF Text

LEMMA EscapeText == ASSUME NEW t \in Text PROVE Escape[t] \in Text
<1> DEFINE S == {x \in Text : Escape[x] \in Text}
<1>1. <<>> \in S
  <2>1. <<>> \in Text
    BY DEF Text
  <2> QED
    BY <2>1, EscapeEquations
<1>2. ASSUME NEW c \in Char, NEW u \in Text, u \in S PROVE <<c>> \o u \in S
  <2>1. <<c>> \o u \in Text
    BY FrontFacts DEF Text
  <2>2. Escape[<<c>> \o u] = EscapeChar(c) \o Escape[u]
    BY EscapeEquations
  <2>3. EscapeChar(c) \in Text /\ Escape[u] \in Text
    BY <1>2, EscapeCharText
  <2> QED
    BY <2>1, <2>2, <2>3, TextConcat
<1> HIDE DEF S
<1>3. Seq(Char) \subseteq S
  BY <1>1, <1>2, SeqInduction DEF Text
<1> QED
  BY <1>3 DEF S, Text

(* What reading an escaped text may give: a character, or a code.          *)
Wide == Char \cup {Decode(h, l) : h \in HexDigits, l \in HexDigits}

LEMMA UnescapeFixed ==
  \A t \in Text :
    Unescape[t] = IF t = <<>> THEN <<>>
                  ELSE IF BeginsWithCode(t)
                    THEN <<Decode(t[2], t[3])>> \o Unescape[SubSeq(t, 4, Len(t))]
                    ELSE <<Head(t)>> \o Unescape[Tail(t)]
<1> DEFINE Body(f) == [text \in Text |->
                         IF text = <<>> THEN <<>>
                         ELSE IF BeginsWithCode(text)
                           THEN <<Decode(text[2], text[3])>> \o f[SubSeq(text, 4, Len(text))]
                           ELSE <<Head(text)>> \o f[Tail(text)]]
           V == Seq(Wide)
           rank == [t \in Text |-> Len(t)]
           Phi == [f \in [Text -> V] |-> Body(f)]
<1>1. \E f : f = Body(f)
  <2>1. rank \in [Text -> Nat]
    BY DEF Text
  <2>2. ASSUME NEW t \in Text, t # <<>>
        PROVE  Tail(t) \in Text /\ rank[Tail(t)] < rank[t] /\ Head(t) \in Wide
    <3>1. Head(t) \in Char /\ Tail(t) \in Text /\ Len(t) \in Nat /\ Len(Tail(t)) = Len(t) - 1
      BY <2>2, FrontOff DEF Text
    <3> QED
      BY <3>1 DEF Wide
  <2>3. ASSUME NEW t \in Text, BeginsWithCode(t)
        PROVE  /\ SubSeq(t, 4, Len(t)) \in Text /\ rank[SubSeq(t, 4, Len(t))] < rank[t]
               /\ Decode(t[2], t[3]) \in Wide
    <3>1. Len(t) \in Nat /\ Len(t) >= 3 /\ t[2] \in HexDigits /\ t[3] \in HexDigits
      BY <2>3 DEF BeginsWithCode, Text
    <3>2. SubSeq(t, 4, Len(t)) \in Text /\ Len(SubSeq(t, 4, Len(t))) = Len(t) - 3
      <4> DEFINE q == SubSeq(t, 4, Len(t))
      <4>1. \A i \in 4..Len(t) : t[i] \in Char
        BY DEF Text
      <4>2. q \in Seq(Char) /\ Len(q) = IF 4 <= Len(t) THEN Len(t) - 4 + 1 ELSE 0
        BY <3>1, <4>1, SubSeqProperties
      <4> HIDE DEF q
      <4>3. Len(q) = Len(t) - 3
        <5> DEFINE n == Len(t)
        <5>1. n \in Nat /\ n >= 3 /\ Len(q) = IF 4 <= n THEN n - 4 + 1 ELSE 0
          BY <3>1, <4>2
        <5> HIDE DEF n
        <5>2. Len(q) = n - 3
          BY <5>1
        <5> QED
          BY <5>2 DEF n
      <4> QED
        BY <4>2, <4>3, Zenon DEF Text, q
    <3>3. Decode(t[2], t[3]) \in Wide
      <4>1. \A h, l \in HexDigits : Decode(h, l) \in Wide
        BY DEF Wide
      <4> QED
        BY <3>1, <4>1, Zenon
    <3> QED
      BY <3>1, <3>2, <3>3
  <2> HIDE DEF rank
  <2>4. ASSUME NEW f \in [Text -> V] PROVE Body(f) \in [Text -> V]
    <3>1. \A x \in Wide : \A v \in V : <<x>> \o v \in V
      BY FrontFacts
    <3>2. <<>> \in V
      OBVIOUS
    <3> HIDE DEF V
    <3>3. ASSUME NEW t \in Text, t # <<>>, ~BeginsWithCode(t)
          PROVE  <<Head(t)>> \o f[Tail(t)] \in V
      BY <2>2, <3>1, <3>3
    <3>4. ASSUME NEW t \in Text, BeginsWithCode(t)
          PROVE  <<Decode(t[2], t[3])>> \o f[SubSeq(t, 4, Len(t))] \in V
      BY <2>3, <3>1, <3>4
    <3> QED
      BY <3>2, <3>3, <3>4
  <2>5. Phi \in [[Text -> V] -> [Text -> V]]
    <3> HIDE DEF Body, V
    <3> QED
      BY <2>4
  <2>6. ASSUME NEW f \in [Text -> V], NEW g \in [Text -> V], NEW t \in Text,
               \A u \in Text : rank[u] < rank[t] => f[u] = g[u]
        PROVE  Phi[f][t] = Phi[g][t]
    <3> HIDE DEF V
    <3>1. BeginsWithCode(t) => f[SubSeq(t, 4, Len(t))] = g[SubSeq(t, 4, Len(t))]
      BY <2>3, <2>6
    <3>2. t # <<>> => f[Tail(t)] = g[Tail(t)]
      BY <2>2, <2>6
    <3>3. Body(f)[t] = Body(g)[t]
      BY <3>1, <3>2
    <3> HIDE DEF Body
    <3> QED
      BY <3>3
  <2>7. V # {}
    <3>1. <<>> \in V
      OBVIOUS
    <3> QED
      BY <3>1
  <2> HIDE DEF Phi, V
  <2>8. LooksLower(Text, V, rank, Phi)
    BY <2>1, <2>5, <2>6, <2>7 DEF LooksLower
  <2>9. \E f \in [Text -> V] : f = Phi[f]
    BY <2>8, RankRecursion
  <2> QED
    BY <2>9 DEF Phi
<1>2. Unescape = CHOOSE f : f = Body(f)
  BY Zenon DEF Unescape
<1>3. Unescape = Body(Unescape)
  BY <1>1, <1>2
<1> QED
  BY <1>3
LEMMA UnescapePlain ==
  ASSUME NEW c \in Char, c # "%", NEW u \in Text
  PROVE  Unescape[<<c>> \o u] = <<c>> \o Unescape[u]
<1> DEFINE t == <<c>> \o u
<1>1. t \in Text /\ t # <<>> /\ Head(t) = c /\ Tail(t) = u /\ t[1] = c
  BY FrontFacts DEF Text
<1> HIDE DEF t
<1>2. ~BeginsWithCode(t)
  BY <1>1, Zenon DEF BeginsWithCode
<1>3. Unescape[t] = <<c>> \o Unescape[u]
  BY <1>1, <1>2, UnescapeFixed, Zenon
<1> QED
  BY <1>3 DEF t

LEMMA UnescapeCode ==
  ASSUME NEW h \in HexDigits, NEW l \in HexDigits, NEW u \in Text
  PROVE  Unescape[<<"%">> \o (<<h>> \o (<<l>> \o u))] = <<Decode(h, l)>> \o Unescape[u]
<1> DEFINE p == "%"
           x == <<l>> \o u
           y == <<h>> \o x
           t == <<p>> \o y
<1>0. p \in Char /\ h \in Char /\ l \in Char
  BY Literals, Zenon
<1> HIDE DEF p
<1>1. /\ x \in Seq(Char) /\ Len(x) = Len(u) + 1 /\ x[1] = l
      /\ \A i \in 1..Len(u) : x[i + 1] = u[i]
  BY <1>0, FrontFacts DEF Text
<1> HIDE DEF x
<1>2. /\ y \in Seq(Char) /\ Len(y) = Len(x) + 1 /\ y[1] = h
      /\ \A i \in 1..Len(x) : y[i + 1] = x[i]
  BY <1>0, <1>1, FrontFacts
<1> HIDE DEF y
<1>3. /\ t \in Seq(Char) /\ Len(t) = Len(y) + 1 /\ t[1] = p /\ t # <<>>
      /\ \A i \in 1..Len(y) : t[i + 1] = y[i]
  BY <1>0, <1>2, FrontFacts
<1> HIDE DEF t
<1>4. Len(u) \in Nat /\ u \in Seq(Char)
  BY DEF Text
<1>5. Len(t) = Len(u) + 3 /\ t[2] = h /\ t[3] = l
  BY <1>1, <1>2, <1>3, <1>4
<1>6. \A i \in 1..Len(u) : t[i + 3] = u[i]
  <2>1. ASSUME NEW i \in 1..Len(u) PROVE t[i + 3] = u[i]
    <3>1. i \in Nat /\ i + 1 \in 1..Len(x) /\ i + 2 \in 1..Len(y)
      BY <1>1, <1>2, <1>4
    <3>2. t[(i + 2) + 1] = y[i + 2] /\ y[(i + 1) + 1] = x[i + 1] /\ x[i + 1] = u[i]
      BY <1>1, <1>2, <1>3, <3>1
    <3>3. (i + 2) + 1 = i + 3 /\ (i + 1) + 1 = i + 2
      BY <3>1
    <3> QED
      BY <3>2, <3>3
  <2> QED
    BY <2>1
<1>7. SubSeq(t, 4, Len(t)) = u
  <2> DEFINE q == SubSeq(t, 4, Len(t))
             n == Len(t)
  <2>1. n \in Nat /\ n = Len(u) + 3 /\ \A i \in 4..n : t[i] \in Char
    BY <1>3, <1>4, <1>5
  <2>2. /\ q \in Seq(Char) /\ Len(q) = IF 4 <= n THEN n - 4 + 1 ELSE 0
        /\ \A i \in 1..(n - 4 + 1) : q[i] = t[4 + i - 1]
    <3> HIDE DEF n
    <3>1. /\ SubSeq(t, 4, n) \in Seq(Char) /\ Len(SubSeq(t, 4, n)) = IF 4 <= n THEN n - 4 + 1 ELSE 0
          /\ \A i \in 1..(n - 4 + 1) : SubSeq(t, 4, n)[i] = t[4 + i - 1]
      BY <2>1, SubSeqProperties
    <3> QED
      BY <3>1 DEF n
  <2> HIDE DEF q, n
  <2>3. Len(q) = Len(u)
    BY <1>4, <2>1, <2>2
  <2>4. ASSUME NEW i \in 1..Len(u) PROVE q[i] = u[i]
    <3>1. i \in Nat /\ i \in 1..(n - 4 + 1) /\ 4 + i - 1 = i + 3
      BY <1>4, <2>1
    <3>2. q[i] = t[i + 3]
      BY <2>2, <3>1
    <3> QED
      BY <1>6, <3>2
  <2>5. q = u
    BY <1>4, <2>2, <2>3, <2>4, SeqEqual
  <2> QED
    BY <2>5 DEF q, n
<1>8. BeginsWithCode(t)
  <2>1. Len(t) >= 3 /\ t[2] \in HexDigits /\ t[3] \in HexDigits
    BY <1>4, <1>5
  <2> QED
    BY <1>3, <2>1, Zenon DEF BeginsWithCode, p
<1>9. Unescape[t] = <<Decode(h, l)>> \o Unescape[u]
  <2>1. t \in Text
    BY <1>3 DEF Text
  <2>2. Unescape[t] = <<Decode(t[2], t[3])>> \o Unescape[SubSeq(t, 4, Len(t))]
    BY <1>3, <1>8, <2>1, UnescapeFixed, Zenon
  <2> QED
    BY <1>5, <1>7, <2>2, Zenon
<1> QED
  BY <1>9, Zenon DEF t, y, x, p

LEMMA UnescapeEscapeChar ==
  ASSUME NEW c \in Char, NEW u \in Text
  PROVE  Unescape[EscapeChar(c) \o u] = <<c>> \o Unescape[u]
<1>1. CASE c \notin Reserved
  <2>1. c # "%"
    BY <1>1, Zenon DEF Reserved
  <2>2. EscapeChar(c) = <<c>>
    BY <1>1, EscapeForm
  <2>3. Unescape[<<c>> \o u] = <<c>> \o Unescape[u]
    BY <2>1, UnescapePlain
  <2> QED
    BY <2>2, <2>3, Zenon
<1>2. CASE c \in Reserved
  <2>1. PICK h \in HexDigits, l \in HexDigits :
               /\ EscapeChar(c) = <<"%">> \o (<<h>> \o <<l>>)
               /\ Decode(h, l) = c
    BY <1>2, EscapeForm
  <2>2. (<<"%">> \o (<<h>> \o <<l>>)) \o u = <<"%">> \o (<<h>> \o (<<l>> \o u))
    <3>1. \A x, y, z \in Text : (x \o y) \o z = x \o (y \o z)
      BY ConcatAssociative DEF Text
    <3>2. \A d \in Char : <<d>> \in Text
      BY DEF Text
    <3>3. <<"%">> \in Text /\ <<h>> \in Text /\ <<l>> \in Text
      BY <3>2, Literals, Zenon
    <3> DEFINE p == <<"%">>
               x == <<h>>
               y == <<l>>
    <3>4. p \in Text /\ x \in Text /\ y \in Text
      BY <3>3
    <3> HIDE DEF p, x, y
    <3>5. x \o y \in Text
      BY <3>4, TextConcat
    <3>6. (x \o y) \o u = x \o (y \o u)
      BY <3>1, <3>4
    <3>7. (p \o (x \o y)) \o u = p \o ((x \o y) \o u)
      BY <3>1, <3>4, <3>5, Zenon
    <3> QED
      BY <3>6, <3>7, Zenon DEF p, x, y
  <2>3. Unescape[<<"%">> \o (<<h>> \o (<<l>> \o u))] = <<Decode(h, l)>> \o Unescape[u]
    BY UnescapeCode
  <2> QED
    BY <2>1, <2>2, <2>3, Zenon
<1> QED
  BY <1>1, <1>2

(* Unescaping gives back what was escaped, whatever the text holds: escape *)
(* codes of its own, reserved characters, a lone '%' at its end            *)
(* (escape_field and unescape_field, event_queue.cpp:225-262).             *)
THEOREM EscapeRoundTrip == \A text \in Text : Unescape[Escape[text]] = text
<1> DEFINE S == {t \in Text : Unescape[Escape[t]] = t}
<1>1. <<>> \in S
  <2>1. <<>> \in Text
    BY DEF Text
  <2> QED
    BY <2>1, EscapeEquations, UnescapeFixed
<1>2. ASSUME NEW c \in Char, NEW u \in Text, u \in S PROVE <<c>> \o u \in S
  <2>1. <<c>> \o u \in Text
    BY FrontFacts DEF Text
  <2>2. Escape[<<c>> \o u] = EscapeChar(c) \o Escape[u]
    BY EscapeEquations
  <2>3. Unescape[EscapeChar(c) \o Escape[u]] = <<c>> \o Unescape[Escape[u]]
    BY EscapeText, UnescapeEscapeChar
  <2> QED
    BY <1>2, <2>1, <2>2, <2>3, Zenon
<1> HIDE DEF S
<1>3. Seq(Char) \subseteq S
  BY <1>1, <1>2, SeqInduction DEF Text
<1> QED
  BY <1>3 DEF S, Text
-----------------------------------------------------------------------------
(* Which characters a written text holds                                   *)

(* The text t does not hold the character c.                               *)
Without(t, c) == \A i \in 1..Len(t) : t[i] # c

LEMMA WithoutFront ==
  ASSUME NEW E, NEW c \in E, NEW u \in Seq(E), NEW x
  PROVE  Without(<<c>> \o u, x) <=> c # x /\ Without(u, x)
<1> DEFINE s == <<c>> \o u
<1>1. /\ s \in Seq(E) /\ Len(s) = Len(u) + 1 /\ s[1] = c /\ Len(u) \in Nat
      /\ \A i \in 1..Len(u) : s[i + 1] = u[i]
  BY FrontFacts
<1> HIDE DEF s
<1>2. ASSUME Without(s, x) PROVE c # x /\ Without(u, x)
  <2>1. \A i \in 1..Len(u) : i + 1 \in 1..Len(s)
    BY <1>1
  <2>2. 1 \in 1..Len(s)
    BY <1>1
  <2> QED
    BY <1>1, <1>2, <2>1, <2>2 DEF Without
<1>3. ASSUME c # x, Without(u, x) PROVE Without(s, x)
  <2>1. ASSUME NEW i \in 1..Len(s) PROVE s[i] # x
    <3>1. CASE i = 1
      BY <1>1, <1>3, <3>1
    <3>2. CASE i # 1
      <4> DEFINE j == i - 1
      <4>1. j \in 1..Len(u) /\ i = j + 1
        BY <1>1, <3>2
      <4> HIDE DEF j
      <4> QED
        BY <1>1, <1>3, <4>1 DEF Without
    <3> QED
      BY <3>1, <3>2
  <2> QED
    BY <2>1 DEF Without
<1> QED
  BY <1>2, <1>3 DEF s

LEMMA WithoutConcat ==
  ASSUME NEW E, NEW s \in Seq(E), NEW t \in Seq(E), NEW x, Without(s, x), Without(t, x)
  PROVE  Without(s \o t, x)
<1> DEFINE u == s \o t
<1>1. /\ u \in Seq(E) /\ Len(u) = Len(s) + Len(t) /\ Len(s) \in Nat /\ Len(t) \in Nat
      /\ \A i \in 1..(Len(s) + Len(t)) : u[i] = IF i <= Len(s) THEN s[i] ELSE t[i - Len(s)]
  BY ConcatProperties
<1> HIDE DEF u
<1>2. ASSUME NEW i \in 1..Len(u) PROVE u[i] # x
  <2>1. CASE i <= Len(s)
    BY <1>1, <2>1 DEF Without
  <2>2. CASE ~(i <= Len(s))
    <3> DEFINE j == i - Len(s)
    <3>1. j \in 1..Len(t) /\ u[i] = t[j]
      BY <1>1, <2>2
    <3> HIDE DEF j
    <3> QED
      BY <3>1 DEF Without
  <2> QED
    BY <2>1, <2>2
<1> QED
  BY <1>2 DEF Without, u

LEMMA NumeralValues ==
  /\ Numeral[0 + 1] = "0" /\ Numeral[1 + 1] = "1" /\ Numeral[2 + 1] = "2"
  /\ Numeral[3 + 1] = "3" /\ Numeral[4 + 1] = "4" /\ Numeral[5 + 1] = "5"
  /\ Numeral[6 + 1] = "6" /\ Numeral[7 + 1] = "7" /\ Numeral[8 + 1] = "8"
  /\ Numeral[9 + 1] = "9"
  BY DEF Numeral

LEMMA DigitsAre ==
  \A c \in Digits : c \in {"0", "1", "2", "3", "4", "5", "6", "7", "8", "9"}
<1>1. \A d \in 0..9 : Numeral[d + 1] \in {"0", "1", "2", "3", "4", "5", "6", "7", "8", "9"}
  <2>1. \A d \in 0..9 : \/ d = 0 \/ d = 1 \/ d = 2 \/ d = 3 \/ d = 4
                       \/ d = 5 \/ d = 6 \/ d = 7 \/ d = 8 \/ d = 9
    OBVIOUS
  <2> QED
    BY <2>1, NumeralValues, Zenon
<1> QED
  BY <1>1, Zenon DEF Digits

LEMMA HexDigitsDiffer ==
  ASSUME NEW c \in HexDigits
  PROVE  c # "%" /\ c # "|" /\ c # ";" /\ c # "="
<1>1. c \in {"0", "1", "2", "3", "4", "5", "6", "7", "8", "9"} \cup {"A", "B", "C", "D", "E", "F"}
  BY DigitsAre, Zenon DEF HexDigits
<1> QED
  BY <1>1

LEMMA DigitsDiffer ==
  ASSUME NEW c \in Digits
  PROVE  c # "-" /\ c # "|"
  BY DigitsAre

(* The characters the format gives a meaning.                              *)
Separators == {"|", ";", "="}

(* An escaped text holds no separator.                                     *)
LEMMA EscapeWithout ==
  ASSUME NEW x \in Separators
  PROVE  \A t \in Text : Without(Escape[t], x)
<1> DEFINE p == "%"
<1>0. x \in Reserved /\ x # p /\ x \notin HexDigits
  BY HexDigitsDiffer, Zenon DEF Reserved, Separators
<1> HIDE DEF p
<1>1. ASSUME NEW c \in Char PROVE Without(EscapeChar(c), x)
  <2>0. \A d \in Char : d # x => Without(<<d>>, x)
    BY DEF Without
  <2>1. CASE c \notin Reserved
    BY <1>0, <2>0, <2>1, EscapeForm, Zenon
  <2>2. CASE c \in Reserved
    <3>1. PICK h \in HexDigits, l \in HexDigits : EscapeChar(c) = <<p>> \o (<<h>> \o <<l>>)
      BY <2>2, EscapeForm DEF p
    <3>2. p \in Char /\ h \in Char /\ l \in Char /\ p # x /\ h # x /\ l # x
      BY <1>0, Literals, Zenon DEF p
    <3>3. <<l>> \in Seq(Char) /\ <<h>> \o <<l>> \in Seq(Char)
      <4>1. \A d \in Char : <<d>> \in Seq(Char)
        OBVIOUS
      <4>2. <<h>> \in Seq(Char) /\ <<l>> \in Seq(Char)
        BY <3>2, <4>1, Zenon
      <4> QED
        BY <4>2, ConcatProperties
    <3>4. Without(<<h>> \o <<l>>, x)
      BY <2>0, <3>2, <3>3, WithoutFront
    <3>5. Without(<<p>> \o (<<h>> \o <<l>>), x)
      BY <3>2, <3>3, <3>4, WithoutFront
    <3> QED
      BY <3>1, <3>5
  <2> QED
    BY <2>1, <2>2
<1> DEFINE S == {t \in Text : Without(Escape[t], x)}
<1>2. <<>> \in S
  <2>1. <<>> \in Text
    BY DEF Text
  <2>2. Without(<<>>, x)
    BY DEF Without
  <2> QED
    BY <2>1, <2>2, EscapeEquations, Zenon
<1>3. ASSUME NEW c \in Char, NEW u \in Text, u \in S PROVE <<c>> \o u \in S
  <2>1. <<c>> \o u \in Text
    BY FrontFacts DEF Text
  <2>2. Escape[<<c>> \o u] = EscapeChar(c) \o Escape[u]
    BY EscapeEquations
  <2>3. EscapeChar(c) \in Seq(Char) /\ Escape[u] \in Seq(Char)
    BY EscapeCharText, EscapeText DEF Text
  <2>4. Without(EscapeChar(c) \o Escape[u], x)
    BY <1>1, <1>3, <2>3, WithoutConcat
  <2> QED
    BY <2>1, <2>2, <2>4
<1> HIDE DEF S
<1>4. Seq(Char) \subseteq S
  BY <1>2, <1>3, SeqInduction DEF Text
<1> QED
  BY <1>4 DEF S, Text
-----------------------------------------------------------------------------
(* Splitting                                                               *)

(* What Split may give: there is always a part.                            *)
Parts == {ts \in Seq(Text) : ts # <<>>}

LEMMA GrowFirst ==
  ASSUME NEW ts \in Parts, NEW c \in Char
  PROVE  /\ [ts EXCEPT ![1] = <<c>> \o @] \in Parts
         /\ Len([ts EXCEPT ![1] = <<c>> \o @]) = Len(ts)
<1>1. ts \in Seq(Text) /\ ts # <<>>
  BY DEF Parts
<1>2. 1 \in 1..Len(ts) /\ ts[1] \in Text
  BY <1>1, EmptySeq
<1> DEFINE e == <<c>> \o ts[1]
<1>3. e \in Text
  BY <1>2, FrontFacts DEF Text
<1> HIDE DEF e
<1> DEFINE r == [ts EXCEPT ![1] = e]
<1>4. r \in Seq(Text) /\ Len(r) = Len(ts)
  BY <1>1, <1>2, <1>3, ExceptSeq
<1>5. r # <<>>
  <2> HIDE DEF r
  <2> QED
    BY <1>1, <1>4, EmptySeq
<1>6. [ts EXCEPT ![1] = <<c>> \o @] = r
  BY Zenon DEF e
<1> HIDE DEF r
<1> QED
  BY <1>4, <1>5, <1>6 DEF Parts

LEMMA SplitFixed ==
  ASSUME NEW sep
  PROVE  \A t \in Text :
           Split(t, sep) = IF t = <<>> THEN << <<>> >>
                           ELSE IF Head(t) = sep
                             THEN << <<>> >> \o Split(Tail(t), sep)
                             ELSE [Split(Tail(t), sep) EXCEPT ![1] = <<Head(t)>> \o @]
<1> DEFINE Body(f) == [rest \in Text |->
                         IF rest = <<>> THEN << <<>> >>
                         ELSE IF Head(rest) = sep
                           THEN << <<>> >> \o f[Tail(rest)]
                           ELSE [f[Tail(rest)] EXCEPT ![1] = <<Head(rest)>> \o @]]
           rank == [t \in Text |-> Len(t)]
           Phi == [f \in [Text -> Parts] |-> Body(f)]
           parts == CHOOSE f : f = Body(f)
<1>1. \E f : f = Body(f)
  <2>1. rank \in [Text -> Nat]
    BY DEF Text
  <2>2. ASSUME NEW t \in Text, t # <<>>
        PROVE  Tail(t) \in Text /\ rank[Tail(t)] < rank[t] /\ Head(t) \in Char
    BY <2>2, FrontOff DEF Text
  <2> HIDE DEF rank
  <2>0. <<>> \in Text /\ << <<>> >> \in Parts
    <3>1. <<>> \in Text
      BY DEF Text
    <3>2. \A t \in Text : <<t>> \in Seq(Text) /\ <<t>> # <<>>
      OBVIOUS
    <3> QED
      BY <3>1, <3>2, Zenon DEF Parts
  <2>3. ASSUME NEW f \in [Text -> Parts] PROVE Body(f) \in [Text -> Parts]
    <3>1. ASSUME NEW t \in Text, t # <<>> PROVE << <<>> >> \o f[Tail(t)] \in Parts
      <4>1. f[Tail(t)] \in Seq(Text)
        BY <2>2, <3>1 DEF Parts
      <4> DEFINE e == <<>>
                 u == f[Tail(t)]
      <4>2. e \in Text
        BY <2>0
      <4> HIDE DEF e, u
      <4>3. <<e>> \o u \in Seq(Text) /\ <<e>> \o u # <<>>
        BY <4>1, <4>2, FrontFacts DEF u
      <4> QED
        BY <4>3 DEF e, u, Parts
    <3>2. ASSUME NEW t \in Text, t # <<>>
          PROVE  [f[Tail(t)] EXCEPT ![1] = <<Head(t)>> \o @] \in Parts
      <4> DEFINE u == f[Tail(t)]
                 c == Head(t)
      <4>1. u \in Parts /\ c \in Char
        BY <2>2, <3>2
      <4> HIDE DEF u, c
      <4>2. [u EXCEPT ![1] = <<c>> \o @] \in Parts
        BY <4>1, GrowFirst
      <4> QED
        BY <4>2 DEF u, c
    <3> QED
      BY <2>0, <3>1, <3>2, Zenon
  <2>4. Phi \in [[Text -> Parts] -> [Text -> Parts]]
    <3> HIDE DEF Body
    <3> QED
      BY <2>3
  <2>5. ASSUME NEW f \in [Text -> Parts], NEW g \in [Text -> Parts], NEW t \in Text,
               \A u \in Text : rank[u] < rank[t] => f[u] = g[u]
        PROVE  Phi[f][t] = Phi[g][t]
    <3>1. t # <<>> => f[Tail(t)] = g[Tail(t)]
      BY <2>2, <2>5
    <3>2. Body(f)[t] = Body(g)[t]
      BY <3>1, Zenon
    <3> HIDE DEF Body
    <3> QED
      BY <3>2
  <2>6. Parts # {}
    BY <2>0
  <2> HIDE DEF Phi
  <2>7. LooksLower(Text, Parts, rank, Phi)
    BY <2>1, <2>4, <2>5, <2>6 DEF LooksLower
  <2>8. \E f \in [Text -> Parts] : f = Phi[f]
    BY <2>7, RankRecursion
  <2> QED
    BY <2>8 DEF Phi
<1>2. \A t : Split(t, sep) = parts[t]
  BY Zenon DEF Split
<1>3. parts = Body(parts)
  BY <1>1
<1> HIDE DEF parts
<1>4. ASSUME NEW t \in Text
      PROVE  parts[t] = IF t = <<>> THEN << <<>> >>
                        ELSE IF Head(t) = sep
                          THEN << <<>> >> \o parts[Tail(t)]
                          ELSE [parts[Tail(t)] EXCEPT ![1] = <<Head(t)>> \o @]
  <2>1. parts[t] = Body(parts)[t]
    BY <1>3, Zenon
  <2> QED
    BY <2>1
<1>5. ASSUME NEW t \in Text
      PROVE  Split(t, sep) = IF t = <<>> THEN << <<>> >>
                             ELSE IF Head(t) = sep
                               THEN << <<>> >> \o Split(Tail(t), sep)
                               ELSE [Split(Tail(t), sep) EXCEPT ![1] = <<Head(t)>> \o @]
  <2>1. Split(t, sep) = parts[t] /\ Split(Tail(t), sep) = parts[Tail(t)]
    BY <1>2
  <2> QED
    BY <1>4, <2>1, Zenon
<1> QED
  BY <1>5
LEMMA EmptyText == <<>> \in Text
  BY DEF Text

LEMMA SplitEquations ==
  ASSUME NEW sep
  PROVE  /\ Split(<<>>, sep) = << <<>> >>
         /\ \A c \in Char : \A u \in Text :
              /\ c = sep => Split(<<c>> \o u, sep) = << <<>> >> \o Split(u, sep)
              /\ c # sep => Split(<<c>> \o u, sep)
                              = [Split(u, sep) EXCEPT ![1] = <<c>> \o @]
<1>1. Split(<<>>, sep) = << <<>> >>
  BY EmptyText, SplitFixed
<1>2. ASSUME NEW c \in Char, NEW u \in Text
      PROVE  Split(<<c>> \o u, sep)
               = IF c = sep THEN << <<>> >> \o Split(u, sep)
                 ELSE [Split(u, sep) EXCEPT ![1] = <<c>> \o @]
  <2> DEFINE t == <<c>> \o u
  <2>1. t \in Text /\ t # <<>> /\ Head(t) = c /\ Tail(t) = u
    BY FrontFacts DEF Text
  <2> HIDE DEF t
  <2>2. Split(t, sep) = IF Head(t) = sep
                          THEN << <<>> >> \o Split(Tail(t), sep)
                          ELSE [Split(Tail(t), sep) EXCEPT ![1] = <<Head(t)>> \o @]
    BY <2>1, SplitFixed, Zenon
  <2>3. Split(t, sep) = IF c = sep THEN << <<>> >> \o Split(u, sep)
                        ELSE [Split(u, sep) EXCEPT ![1] = <<c>> \o @]
    BY <2>1, <2>2, Zenon
  <2> QED
    BY <2>3 DEF t
<1> QED
  BY <1>1, <1>2, Zenon

LEMMA SplitCut ==
  ASSUME NEW sep \in Char, NEW u \in Text
  PROVE  Split(<<sep>> \o u, sep) = << <<>> >> \o Split(u, sep)
  BY SplitEquations

LEMMA SplitGrow ==
  ASSUME NEW sep, NEW c \in Char, c # sep, NEW u \in Text
  PROVE  Split(<<c>> \o u, sep) = [Split(u, sep) EXCEPT ![1] = <<c>> \o @]
  BY SplitEquations, Zenon

LEMMA EmptyPartFirst ==
  ASSUME NEW ts \in Seq(Text)
  PROVE  << <<>> >> \o ts \in Parts
<1> DEFINE e == <<>>
<1>1. e \in Text
  BY EmptyText
<1> HIDE DEF e
<1>2. <<e>> \o ts \in Seq(Text) /\ <<e>> \o ts # <<>>
  BY <1>1, FrontFacts
<1> QED
  BY <1>2 DEF e, Parts

LEMMA SplitParts ==
  ASSUME NEW sep, NEW t \in Text
  PROVE  Split(t, sep) \in Parts
<1> DEFINE S == {x \in Text : Split(x, sep) \in Parts}
<1>1. <<>> \in S
  <2>1. \A x \in Text : <<x>> \in Seq(Text) /\ <<x>> # <<>>
    OBVIOUS
  <2>2. << <<>> >> \in Parts
    BY <2>1, EmptyText, Zenon DEF Parts
  <2> QED
    BY <2>2, EmptyText, SplitEquations
<1>2. ASSUME NEW c \in Char, NEW u \in Text, u \in S PROVE <<c>> \o u \in S
  <2> DEFINE ts == Split(u, sep)
  <2>1. ts \in Parts /\ ts \in Seq(Text)
    BY <1>2 DEF Parts
  <2>2. <<c>> \o u \in Text
    BY FrontFacts DEF Text
  <2>3. /\ c = sep => Split(<<c>> \o u, sep) = << <<>> >> \o ts
        /\ c # sep => Split(<<c>> \o u, sep) = [ts EXCEPT ![1] = <<c>> \o @]
    BY SplitEquations
  <2> HIDE DEF ts
  <2>4. << <<>> >> \o ts \in Parts /\ [ts EXCEPT ![1] = <<c>> \o @] \in Parts
    BY <2>1, EmptyPartFirst, GrowFirst
  <2> QED
    BY <2>2, <2>3, <2>4
<1> HIDE DEF S
<1>3. Seq(Char) \subseteq S
  BY <1>1, <1>2, SeqInduction DEF Text
<1> QED
  BY <1>3 DEF S, Text

LEMMA ReplaceFirst ==
  ASSUME NEW ts \in Seq(Text), NEW a \in Text, NEW c \in Char
  PROVE  [<<a>> \o ts EXCEPT ![1] = <<c>> \o @] = <<(<<c>> \o a)>> \o ts
<1> DEFINE b == <<c>> \o a
           s == <<a>> \o ts
           r == <<b>> \o ts
           q == [s EXCEPT ![1] = <<c>> \o s[1]]
<1>1. b \in Text
  BY FrontFacts DEF Text
<1>2. /\ s \in Seq(Text) /\ Len(s) = Len(ts) + 1 /\ s[1] = a /\ Len(ts) \in Nat
      /\ \A i \in 1..Len(ts) : s[i + 1] = ts[i]
  BY FrontFacts
<1>3. <<c>> \o s[1] = b
  BY <1>2
<1> HIDE DEF b
<1>4. /\ r \in Seq(Text) /\ Len(r) = Len(ts) + 1 /\ r[1] = b
      /\ \A i \in 1..Len(ts) : r[i + 1] = ts[i]
  BY <1>1, FrontFacts
<1> HIDE DEF s, r
<1>5. /\ q \in Seq(Text) /\ Len(q) = Len(s)
      /\ \A j \in 1..Len(s) : q[j] = IF j = 1 THEN b ELSE s[j]
  <2>1. 1 \in 1..Len(s)
    BY <1>2
  <2>2. /\ [s EXCEPT ![1] = b] \in Seq(Text) /\ Len([s EXCEPT ![1] = b]) = Len(s)
        /\ \A j \in 1..Len(s) : [s EXCEPT ![1] = b][j] = IF j = 1 THEN b ELSE s[j]
    BY <1>1, <1>2, <2>1, ExceptSeq
  <2> QED
    BY <1>3, <2>2
<1> HIDE DEF q
<1>6. ASSUME NEW j \in 1..Len(s) PROVE q[j] = r[j]
  <2>1. CASE j = 1
    BY <1>4, <1>5, <2>1
  <2>2. CASE j # 1
    <3> DEFINE i == j - 1
    <3>1. i \in 1..Len(ts) /\ j = i + 1
      BY <1>2, <2>2
    <3> HIDE DEF i
    <3> QED
      BY <1>2, <1>4, <1>5, <2>2, <3>1
  <2> QED
    BY <2>1, <2>2
<1>7. q = r
  BY <1>2, <1>4, <1>5, <1>6, SeqEqual
<1> QED
  BY <1>7, Zenon DEF q, r, s, b

(* A piece that holds no separator is cut off whole.                       *)
LEMMA SplitPiece ==
  ASSUME NEW sep \in Char, NEW x \in Text, Without(x, sep)
  PROVE  /\ Split(x, sep) = <<x>>
         /\ \A y \in Text : Split(x \o (<<sep>> \o y), sep) = <<x>> \o Split(y, sep)
<1> DEFINE S == {w \in Text : Without(w, sep) =>
                   /\ Split(w, sep) = <<w>>
                   /\ \A y \in Text : Split(w \o (<<sep>> \o y), sep) = <<w>> \o Split(y, sep)}
<1>0. \A y \in Text : <<sep>> \o y \in Text
  BY FrontFacts DEF Text
<1>1. <<>> \in S
  <2>1. Split(<<>>, sep) = << <<>> >>
    BY SplitEquations
  <2>2. ASSUME NEW y \in Text
        PROVE  Split(<<>> \o (<<sep>> \o y), sep) = << <<>> >> \o Split(y, sep)
    <3>1. <<>> \o (<<sep>> \o y) = <<sep>> \o y
      BY <1>0, ConcatEmptySeq DEF Text
    <3> QED
      BY <3>1, SplitCut, Zenon
  <2> QED
    BY <2>1, <2>2, EmptyText
<1>2. ASSUME NEW c \in Char, NEW u \in Text, u \in S PROVE <<c>> \o u \in S
  <2> DEFINE w == <<c>> \o u
  <2>1. w \in Text
    BY FrontFacts DEF Text
  <2>2. ASSUME Without(w, sep)
        PROVE  /\ Split(w, sep) = <<w>>
               /\ \A y \in Text : Split(w \o (<<sep>> \o y), sep) = <<w>> \o Split(y, sep)
    <3>1. c # sep /\ Without(u, sep)
      BY <2>2, WithoutFront DEF Text
    <3>2. /\ Split(u, sep) = <<u>>
          /\ \A y \in Text : Split(u \o (<<sep>> \o y), sep) = <<u>> \o Split(y, sep)
      BY <1>2, <3>1
    <3>3. Split(w, sep) = <<w>>
      <4>0. Split(<<c>> \o u, sep) = [Split(u, sep) EXCEPT ![1] = <<c>> \o @]
        BY <3>1, SplitGrow
      <4>1. Split(w, sep) = [<<u>> EXCEPT ![1] = <<c>> \o @]
        BY <3>2, <4>0, Zenon
      <4> DEFINE e == <<>>
      <4>2. e \in Seq(Text) /\ <<u>> \o e = <<u>> /\ <<w>> \o e = <<w>>
        BY <2>1
      <4> HIDE DEF e
      <4>3. [<<u>> \o e EXCEPT ![1] = <<c>> \o @] = <<w>> \o e
        BY <4>2, ReplaceFirst
      <4> QED
        BY <4>1, <4>2, <4>3, Zenon
    <3>4. ASSUME NEW y \in Text PROVE Split(w \o (<<sep>> \o y), sep) = <<w>> \o Split(y, sep)
      <4> DEFINE z == <<sep>> \o y
                 ts == Split(y, sep)
      <4>1. z \in Text /\ ts \in Seq(Text) /\ u \o z \in Text
        BY <1>0, SplitParts, TextConcat DEF Parts
      <4>2. Split(u \o z, sep) = <<u>> \o ts
        BY <3>2
      <4> HIDE DEF z, ts
      <4>3. w \o z = <<c>> \o (u \o z)
        <5>1. <<c>> \in Seq(Char)
          OBVIOUS
        <5> DEFINE d == <<c>>
        <5> HIDE DEF d
        <5>2. (d \o u) \o z = d \o (u \o z)
          BY <4>1, <5>1, ConcatAssociative DEF Text, d
        <5> QED
          BY <5>2 DEF d
      <4>4. Split(<<c>> \o (u \o z), sep) = [<<u>> \o ts EXCEPT ![1] = <<c>> \o @]
        <5> DEFINE v == u \o z
        <5>1. v \in Text
          BY <4>1
        <5> HIDE DEF v
        <5>2. Split(<<c>> \o v, sep) = [Split(v, sep) EXCEPT ![1] = <<c>> \o @]
          BY <3>1, <5>1, SplitGrow
        <5> QED
          BY <4>2, <5>2, Zenon DEF v
      <4>5. [<<u>> \o ts EXCEPT ![1] = <<c>> \o @] = <<w>> \o ts
        BY <4>1, ReplaceFirst
      <4>6. Split(w \o z, sep) = <<w>> \o ts
        BY <4>3, <4>4, <4>5, Zenon
      <4> QED
        BY <4>6 DEF z, ts
    <3> QED
      BY <3>3, <3>4
  <2> HIDE DEF w
  <2> QED
    BY <2>1, <2>2 DEF w
<1> HIDE DEF S
<1>3. Seq(Char) \subseteq S
  BY <1>1, <1>2, SeqInduction DEF Text
<1> QED
  BY <1>3 DEF S, Text
-----------------------------------------------------------------------------
(* Joining                                                                 *)

LEMMA JoinFixed ==
  ASSUME NEW sep \in Char
  PROVE  \A ts \in Seq(Text) :
           JoinWith(ts, sep) = IF ts = <<>> THEN <<>>
                               ELSE IF Len(ts) = 1 THEN ts[1]
                               ELSE ts[1] \o <<sep>> \o JoinWith(Tail(ts), sep)
<1> DEFINE Body(f) == [rest \in Seq(Text) |->
                         IF rest = <<>> THEN <<>>
                         ELSE IF Len(rest) = 1 THEN rest[1]
                         ELSE rest[1] \o <<sep>> \o f[Tail(rest)]]
           T == Seq(Text)
           rank == [t \in T |-> Len(t)]
           Phi == [f \in [T -> Text] |-> Body(f)]
           joined == CHOOSE f : f = Body(f)
<1>1. \E f : f = Body(f)
  <2>1. rank \in [T -> Nat]
    OBVIOUS
  <2>2. ASSUME NEW t \in T, t # <<>>
        PROVE  Tail(t) \in T /\ rank[Tail(t)] < rank[t] /\ t[1] \in Text
    BY <2>2, FrontOff
  <2> HIDE DEF rank
  <2>3. ASSUME NEW f \in [T -> Text] PROVE Body(f) \in [T -> Text]
    <3>1. ASSUME NEW t \in T, t # <<>> PROVE t[1] \o <<sep>> \o f[Tail(t)] \in Text
      <4>1. <<sep>> \in Text
        BY DEF Text
      <4>2. t[1] \in Text /\ f[Tail(t)] \in Text
        BY <2>2, <3>1
      <4> QED
        BY <4>1, <4>2, TextConcat
    <3> QED
      BY <2>2, <3>1, EmptyText
  <2>4. Phi \in [[T -> Text] -> [T -> Text]]
    <3> HIDE DEF Body, T
    <3> QED
      BY <2>3
  <2>5. ASSUME NEW f \in [T -> Text], NEW g \in [T -> Text], NEW t \in T,
               \A u \in T : rank[u] < rank[t] => f[u] = g[u]
        PROVE  Phi[f][t] = Phi[g][t]
    <3>1. t # <<>> => f[Tail(t)] = g[Tail(t)]
      BY <2>2, <2>5
    <3>2. Body(f)[t] = Body(g)[t]
      BY <3>1, Zenon
    <3> HIDE DEF Body, T
    <3> QED
      BY <3>2
  <2>6. Text # {}
    BY EmptyText
  <2> HIDE DEF Phi, T
  <2>7. LooksLower(T, Text, rank, Phi)
    BY <2>1, <2>4, <2>5, <2>6 DEF LooksLower
  <2>8. \E f \in [T -> Text] : f = Phi[f]
    BY <2>7, RankRecursion
  <2> QED
    BY <2>8 DEF Phi
<1>2. \A ts : JoinWith(ts, sep) = joined[ts]
  BY Zenon DEF JoinWith
<1>3. joined = Body(joined)
  BY <1>1
<1> HIDE DEF joined
<1>4. ASSUME NEW t \in T
      PROVE  joined[t] = IF t = <<>> THEN <<>>
                         ELSE IF Len(t) = 1 THEN t[1]
                         ELSE t[1] \o <<sep>> \o joined[Tail(t)]
  <2>1. joined[t] = Body(joined)[t]
    BY <1>3, Zenon
  <2> QED
    BY <2>1
<1>5. ASSUME NEW t \in T
      PROVE  JoinWith(t, sep) = IF t = <<>> THEN <<>>
                                ELSE IF Len(t) = 1 THEN t[1]
                                ELSE t[1] \o <<sep>> \o JoinWith(Tail(t), sep)
  <2>1. JoinWith(t, sep) = joined[t] /\ JoinWith(Tail(t), sep) = joined[Tail(t)]
    BY <1>2
  <2> QED
    BY <1>4, <2>1, Zenon
<1> QED
  BY <1>5

LEMMA JoinNone == ASSUME NEW sep \in Char PROVE JoinWith(<<>>, sep) = <<>>
<1>1. <<>> \in Seq(Text)
  OBVIOUS
<1> QED
  BY <1>1, JoinFixed

LEMMA JoinOne ==
  ASSUME NEW sep \in Char, NEW x \in Text
  PROVE  JoinWith(<<x>>, sep) = x
<1> DEFINE t == <<x>>
<1>1. t \in Seq(Text) /\ t # <<>> /\ Len(t) = 1 /\ t[1] = x
  OBVIOUS
<1> HIDE DEF t
<1>2. JoinWith(t, sep) = x
  BY <1>1, JoinFixed, Zenon
<1> QED
  BY <1>2 DEF t

LEMMA JoinText ==
  ASSUME NEW sep \in Char, NEW ts \in Seq(Text)
  PROVE  JoinWith(ts, sep) \in Text
<1> DEFINE S == {t \in Seq(Text) : JoinWith(t, sep) \in Text}
<1>1. <<>> \in S
  <2>1. <<>> \in Seq(Text)
    OBVIOUS
  <2> QED
    BY <2>1, JoinNone, EmptyText
<1>2. ASSUME NEW x \in Text, NEW r \in Seq(Text), r \in S PROVE <<x>> \o r \in S
  <2> DEFINE t == <<x>> \o r
  <2>1. t \in Seq(Text) /\ t # <<>> /\ t[1] = x /\ Tail(t) = r
    BY FrontFacts
  <2> HIDE DEF t
  <2>2. JoinWith(t, sep) = IF Len(t) = 1 THEN x ELSE x \o <<sep>> \o JoinWith(r, sep)
    BY <2>1, JoinFixed, Zenon
  <2>3. x \o <<sep>> \o JoinWith(r, sep) \in Text
    <3>1. <<sep>> \in Text
      BY DEF Text
    <3>2. JoinWith(r, sep) \in Text
      BY <1>2
    <3> QED
      BY <3>1, <3>2, TextConcat
  <2>4. JoinWith(t, sep) \in Text
    BY <2>2, <2>3
  <2> QED
    BY <2>1, <2>4 DEF t
<1> HIDE DEF S
<1>3. Seq(Text) \subseteq S
  BY <1>1, <1>2, SeqInduction
<1> QED
  BY <1>3 DEF S

LEMMA JoinMore ==
  ASSUME NEW sep \in Char, NEW x \in Text, NEW r \in Seq(Text), r # <<>>
  PROVE  JoinWith(<<x>> \o r, sep) = x \o (<<sep>> \o JoinWith(r, sep))
<1> DEFINE t == <<x>> \o r
           y == JoinWith(r, sep)
<1>1. /\ t \in Seq(Text) /\ t # <<>> /\ t[1] = x /\ Tail(t) = r
      /\ Len(t) = Len(r) + 1 /\ Len(r) \in Nat \ {0}
  BY FrontFacts, EmptySeq
<1>2. y \in Text
  BY JoinText
<1> HIDE DEF t
<1>3. Len(t) # 1
  BY <1>1
<1>4. JoinWith(t, sep) = x \o <<sep>> \o y
  BY <1>1, <1>3, JoinFixed, Zenon
<1> HIDE DEF y
<1>5. x \o <<sep>> \o y = x \o (<<sep>> \o y)
  <2> DEFINE d == <<sep>>
  <2>1. d \in Text
    BY DEF Text
  <2> HIDE DEF d
  <2>2. (x \o d) \o y = x \o (d \o y)
    BY <1>2, <2>1, ConcatAssociative DEF Text
  <2> QED
    BY <2>2 DEF d
<1> QED
  BY <1>4, <1>5 DEF t, y

(* Texts joined by a character come apart again: the first k of them when  *)
(* these do not hold it, and all of them when none does.                   *)
LEMMA SplitJoin ==
  ASSUME NEW sep \in Char, NEW ts \in Seq(Text), NEW k \in 1..Len(ts),
         \A i \in 1..k : Without(ts[i], sep)
  PROVE  /\ Split(JoinWith(ts, sep), sep) \in Seq(Text)
         /\ k <= Len(Split(JoinWith(ts, sep), sep))
         /\ \A i \in 1..k : Split(JoinWith(ts, sep), sep)[i] = ts[i]
         /\ k = Len(ts) => Split(JoinWith(ts, sep), sep) = ts
<1> DEFINE D(t) == Split(JoinWith(t, sep), sep)
           Holds(t, n) == /\ n <= Len(D(t))
                          /\ \A i \in 1..n : D(t)[i] = t[i]
                          /\ n = Len(t) => Len(D(t)) = n
           S == {t \in Seq(Text) : \A n \in 1..Len(t) :
                   (\A i \in 1..n : Without(t[i], sep)) => Holds(t, n)}
<1>0. \A t \in Seq(Text) : D(t) \in Seq(Text) /\ Len(D(t)) \in Nat /\ Len(D(t)) >= 1
  <2>1. ASSUME NEW t \in Seq(Text) PROVE D(t) \in Seq(Text) /\ D(t) # <<>>
    BY JoinText, SplitParts DEF Parts
  <2> HIDE DEF D
  <2> QED
    BY <2>1, EmptySeq
<1>1. <<>> \in S
  <2>1. <<>> \in Seq(Text) /\ 1..Len(<<>>) = {}
    OBVIOUS
  <2> HIDE DEF Holds
  <2> QED
    BY <2>1
<1>2. ASSUME NEW x \in Text, NEW r \in Seq(Text), r \in S PROVE <<x>> \o r \in S
  <2> DEFINE t == <<x>> \o r
  <2>1. /\ t \in Seq(Text) /\ Len(t) = Len(r) + 1 /\ t[1] = x /\ Len(r) \in Nat
        /\ \A i \in 1..Len(r) : t[i + 1] = r[i]
    BY FrontFacts
  <2>2. ASSUME NEW n \in 1..Len(t), \A i \in 1..n : Without(t[i], sep)
        PROVE  Holds(t, n)
    <3>0. n \in Nat /\ n >= 1 /\ n <= Len(r) + 1
      <4> HIDE DEF t
      <4> QED
        BY <2>1
    <3>1. Without(x, sep)
      <4> HIDE DEF t
      <4>1. 1 \in 1..n
        BY <3>0
      <4> QED
        BY <2>1, <2>2, <4>1
    <3>2. CASE r = <<>>
      <4>1. t = <<x>> /\ Len(r) = 0
        BY <3>2
      <4>2. D(t) = <<x>>
        <5>1. JoinWith(<<x>>, sep) = x
          BY JoinOne
        <5>2. Split(x, sep) = <<x>>
          BY <3>1, SplitPiece
        <5> QED
          BY <4>1, <5>1, <5>2, Zenon
      <4>3. Len(<<x>>) = 1 /\ D(t) = t
        BY <4>1, <4>2
      <4> HIDE DEF D, t
      <4>4. Len(t) = 1 /\ Len(D(t)) = 1 /\ n = 1
        BY <2>1, <3>0, <4>1, <4>3
      <4> QED
        BY <4>3, <4>4
    <3>3. CASE r # <<>>
      <4> DEFINE d == D(r)
      <4>1. D(t) = <<x>> \o d
        <5>1. JoinWith(t, sep) = x \o (<<sep>> \o JoinWith(r, sep))
          BY <3>3, JoinMore
        <5>2. Split(x \o (<<sep>> \o JoinWith(r, sep)), sep) = <<x>> \o d
          BY <3>1, JoinText, SplitPiece
        <5> QED
          BY <5>1, <5>2, Zenon
      <4>2. d \in Seq(Text) /\ Len(d) \in Nat /\ Len(d) >= 1
        BY <1>0
      <4> HIDE DEF D, d, t
      <4>3. /\ Len(D(t)) = Len(d) + 1 /\ D(t)[1] = x
            /\ \A i \in 1..Len(d) : D(t)[i + 1] = d[i]
        BY <4>1, <4>2, FrontFacts
      <4>4. CASE n = 1
        <5>1. n # Len(t)
          BY <2>1, <3>3, <4>4, EmptySeq
        <5>2. \A i \in 1..n : i = 1
          BY <4>4
        <5> QED
          BY <2>1, <4>2, <4>3, <4>4, <5>1, <5>2
      <4>5. CASE n # 1
        <5> DEFINE m == n - 1
        <5>1. m \in 1..Len(r) /\ n = m + 1 /\ m \in Nat
          BY <3>0, <4>5
        <5> HIDE DEF m
        <5>2. ASSUME NEW i \in 1..m PROVE Without(r[i], sep)
          <6>1. i \in 1..Len(r) /\ i + 1 \in 1..n
            BY <2>1, <5>1
          <6> QED
            BY <2>1, <2>2, <6>1
        <5>3. Holds(r, m)
          BY <1>2, <5>1, <5>2
        <5>4. m <= Len(d) /\ (\A i \in 1..m : d[i] = r[i]) /\ (m = Len(r) => Len(d) = m)
          BY <5>3 DEF d
        <5>5. ASSUME NEW i \in 1..n PROVE D(t)[i] = t[i]
          <6>1. CASE i = 1
            BY <2>1, <4>3, <6>1
          <6>2. CASE i # 1
            <7> DEFINE j == i - 1
            <7>1. j \in 1..m /\ j \in 1..Len(r) /\ j \in 1..Len(d) /\ i = j + 1
              BY <2>1, <4>2, <5>1, <5>4, <6>2
            <7> HIDE DEF j
            <7> QED
              BY <2>1, <4>3, <5>4, <7>1
          <6> QED
            BY <6>1, <6>2
        <5>6. n <= Len(D(t)) /\ (n = Len(t) => Len(D(t)) = n)
          BY <2>1, <4>2, <4>3, <5>1, <5>4
        <5> QED
          BY <5>5, <5>6
      <4> QED
        BY <4>4, <4>5
    <3> QED
      BY <3>2, <3>3
  <2> HIDE DEF Holds, t
  <2>3. t \in S
    BY <2>1, <2>2
  <2> QED
    BY <2>3 DEF t
<1> HIDE DEF S
<1>3. Seq(Text) \subseteq S
  BY <1>1, <1>2, SeqInduction
<1>4. Holds(ts, k)
  <2> HIDE DEF Holds
  <2> QED
    BY <1>3 DEF S
<1>5. k = Len(ts) => D(ts) = ts
  <2>1. D(ts) \in Seq(Text)
    BY <1>0
  <2> HIDE DEF D
  <2> QED
    BY <1>4, <2>1, SeqEqual
<1>6. D(ts) \in Seq(Text)
  BY <1>0
<1> HIDE DEF D
<1>7. D(ts) \in Seq(Text) /\ k <= Len(D(ts)) /\ \A i \in 1..k : D(ts)[i] = ts[i]
  BY <1>4, <1>6
<1> QED
  BY <1>5, <1>7 DEF D
-----------------------------------------------------------------------------
(* Numbers                                                                 *)

LEMMA DivideByTen ==
  ASSUME NEW n \in Nat
  PROVE  /\ n \div 10 \in Nat /\ n % 10 \in 0..9 /\ n = 10 * (n \div 10) + (n % 10)
         /\ n >= 10 => n \div 10 < n
  OBVIOUS

LEMMA NumeralDigit ==
  /\ \A d \in 0..9 : Numeral[d + 1] \in Digits
  /\ \A d \in 0..9 : DigitOf(Numeral[d + 1]) = d
<1>1. \A d \in 0..9 : Numeral[d + 1] \in Digits
  BY Zenon DEF Digits
<1>2. ASSUME NEW d \in 0..9, NEW e \in 0..9, Numeral[d + 1] = Numeral[e + 1]
      PROVE  d = e
  <2>1. \A x \in 0..9 : \/ x = 0 \/ x = 1 \/ x = 2 \/ x = 3 \/ x = 4
                       \/ x = 5 \/ x = 6 \/ x = 7 \/ x = 8 \/ x = 9
    OBVIOUS
  <2> QED
    BY <1>2, <2>1, NumeralValues
<1>3. ASSUME NEW d \in 0..9 PROVE DigitOf(Numeral[d + 1]) = d
  BY <1>2 DEF DigitOf
<1> QED
  BY <1>1, <1>3

LEMMA NumeralsFixed ==
  \A n \in Nat : Numerals[n] = IF n < 10 THEN <<Numeral[n + 1]>>
                               ELSE Append(Numerals[n \div 10], Numeral[(n % 10) + 1])
<1> DEFINE Body(f) == [n \in Nat |-> IF n < 10 THEN <<Numeral[n + 1]>>
                                     ELSE Append(f[n \div 10], Numeral[(n % 10) + 1])]
           V == Seq(Digits)
           rank == [n \in Nat |-> n]
           Phi == [f \in [Nat -> V] |-> Body(f)]
<1>1. \E f : f = Body(f)
  <2>1. rank \in [Nat -> Nat]
    OBVIOUS
  <2>2. ASSUME NEW n \in Nat, ~(n < 10)
        PROVE  /\ n \div 10 \in Nat /\ rank[n \div 10] < rank[n]
               /\ Numeral[(n % 10) + 1] \in Digits
    <3>1. n \div 10 \in Nat /\ n \div 10 < n /\ n % 10 \in 0..9
      BY <2>2, DivideByTen
    <3> QED
      BY <3>1, NumeralDigit
  <2> HIDE DEF rank
  <2>3. ASSUME NEW f \in [Nat -> V] PROVE Body(f) \in [Nat -> V]
    <3>1. ASSUME NEW n \in Nat, n < 10 PROVE <<Numeral[n + 1]>> \in V
      <4>1. n \in 0..9
        BY <3>1
      <4>2. \A c \in Digits : <<c>> \in V
        OBVIOUS
      <4> QED
        BY <4>1, <4>2, NumeralDigit
    <3>2. ASSUME NEW n \in Nat, ~(n < 10)
          PROVE  Append(f[n \div 10], Numeral[(n % 10) + 1]) \in V
      <4>1. \A t \in V : \A c \in Digits : Append(t, c) \in V
        BY AppendProperties
      <4> HIDE DEF V
      <4> QED
        BY <2>2, <3>2, <4>1
    <3> QED
      BY <3>1, <3>2, Zenon
  <2>4. Phi \in [[Nat -> V] -> [Nat -> V]]
    <3> HIDE DEF Body, V
    <3> QED
      BY <2>3
  <2>5. ASSUME NEW f \in [Nat -> V], NEW g \in [Nat -> V], NEW n \in Nat,
               \A u \in Nat : rank[u] < rank[n] => f[u] = g[u]
        PROVE  Phi[f][n] = Phi[g][n]
    <3>1. ~(n < 10) => f[n \div 10] = g[n \div 10]
      BY <2>2, <2>5
    <3>2. Body(f)[n] = Body(g)[n]
      BY <3>1, Zenon
    <3> HIDE DEF Body, V
    <3> QED
      BY <3>2
  <2>6. V # {}
    <3>1. <<>> \in V
      OBVIOUS
    <3> QED
      BY <3>1
  <2> DEFINE T == Nat
  <2> HIDE DEF Phi, V, T
  <2>7. LooksLower(T, V, rank, Phi)
    BY <2>1, <2>4, <2>5, <2>6 DEF LooksLower, T
  <2>8. \E f \in [T -> V] : f = Phi[f]
    BY <2>7, RankRecursion
  <2> QED
    BY <2>8 DEF Phi, T
<1>2. Numerals = CHOOSE f : f = Body(f)
  BY Zenon DEF Numerals
<1>3. Numerals = Body(Numerals)
  BY <1>1, <1>2
<1>4. ASSUME NEW n \in Nat PROVE Numerals[n] = Body(Numerals)[n]
  BY <1>3, Zenon
<1> QED
  BY <1>4

LEMMA FrontAndLast ==
  ASSUME NEW E, NEW s \in Seq(E)
  PROVE  /\ \A e \in E : Front(Append(s, e)) = s /\ Last(Append(s, e)) = e
         /\ s # <<>> => Front(s) \in Seq(E) /\ Len(Front(s)) = Len(s) - 1 /\ Last(s) \in E
<1>1. ASSUME NEW e \in E PROVE Front(Append(s, e)) = s /\ Last(Append(s, e)) = e
  <2> DEFINE t == Append(s, e)
             n == Len(s)
  <2>1. /\ t \in Seq(E) /\ Len(t) = n + 1 /\ n \in Nat /\ t[n + 1] = e
        /\ \A i \in 1..n : t[i] = s[i]
    BY AppendProperties
  <2> HIDE DEF t
  <2>2. Last(t) = e
    BY <2>1 DEF Last
  <2> DEFINE q == SubSeq(t, 1, n)
  <2>3. Front(t) = q
    <3>1. Len(t) - 1 = n
      BY <2>1
    <3> QED
      BY <3>1, Zenon DEF Front
  <2>4. \A i \in 1..n : t[i] \in E
    BY <2>1
  <2>5. /\ q \in Seq(E) /\ Len(q) = (IF 1 <= n THEN n - 1 + 1 ELSE 0)
        /\ \A i \in 1..(n - 1 + 1) : q[i] = t[1 + i - 1]
    <3> HIDE DEF n
    <3> QED
      BY <2>1, <2>4, SubSeqProperties
  <2> HIDE DEF q, n
  <2>6. Len(q) = n
    BY <2>1, <2>5
  <2>7. ASSUME NEW i \in 1..n PROVE q[i] = s[i]
    <3>1. i \in 1..(n - 1 + 1) /\ 1 + i - 1 = i
      BY <2>1
    <3> QED
      BY <2>1, <2>5, <3>1
  <2>8. q = s
    BY <2>5, <2>6, <2>7, SeqEqual DEF n
  <2> QED
    BY <2>2, <2>3, <2>8 DEF t
<1>2. ASSUME s # <<>>
      PROVE  Front(s) \in Seq(E) /\ Len(Front(s)) = Len(s) - 1 /\ Last(s) \in E
  <2> DEFINE n == Len(s) - 1
             q == SubSeq(s, 1, n)
  <2>1. n \in Nat /\ Len(s) = n + 1 /\ Len(s) \in 1..Len(s) /\ \A i \in 1..n : s[i] \in E
    BY <1>2, EmptySeq
  <2>2. q \in Seq(E) /\ Len(q) = (IF 1 <= n THEN n - 1 + 1 ELSE 0)
    <3> HIDE DEF n
    <3> QED
      BY <2>1, SubSeqProperties
  <2>3. Front(s) = q
    BY Zenon DEF Front
  <2>4. Last(s) \in E
    BY <2>1 DEF Last
  <2> HIDE DEF q, n
  <2>5. Len(q) = Len(s) - 1
    BY <2>1, <2>2
  <2> QED
    BY <2>2, <2>3, <2>4, <2>5
<1> QED
  BY <1>1, <1>2
LEMMA NumberFixed ==
  \A t \in Seq(Digits) :
    Number[t] = IF t = <<>> THEN 0 ELSE 10 * Number[Front(t)] + DigitOf(Last(t))
<1> DEFINE Body(f) == [digits \in Seq(Digits) |->
                         IF digits = <<>> THEN 0
                         ELSE 10 * f[Front(digits)] + DigitOf(Last(digits))]
           T == Seq(Digits)
           V == Nat
           rank == [t \in T |-> Len(t)]
           Phi == [f \in [T -> V] |-> Body(f)]
<1>1. \E f : f = Body(f)
  <2>1. rank \in [T -> Nat]
    OBVIOUS
  <2>2. ASSUME NEW t \in T, t # <<>>
        PROVE  Front(t) \in T /\ rank[Front(t)] < rank[t] /\ DigitOf(Last(t)) \in Nat
    <3>1. Front(t) \in T /\ Len(Front(t)) = Len(t) - 1 /\ Last(t) \in Digits
      BY <2>2, FrontAndLast
    <3>2. Len(t) \in Nat
      OBVIOUS
    <3>3. DigitOf(Last(t)) \in Nat
      <4>1. PICK d \in 0..9 : Last(t) = Numeral[d + 1]
        BY <3>1 DEF Digits
      <4>2. DigitOf(Last(t)) = d
        BY <4>1, NumeralDigit
      <4> QED
        BY <4>2
    <3>4. rank[Front(t)] < rank[t]
      BY <3>1, <3>2
    <3> QED
      BY <3>1, <3>3, <3>4
  <2> HIDE DEF rank
  <2>3. ASSUME NEW f \in [T -> V] PROVE Body(f) \in [T -> V]
    <3>1. ASSUME NEW t \in T, t # <<>>
          PROVE  10 * f[Front(t)] + DigitOf(Last(t)) \in Nat
      <4>1. f[Front(t)] \in Nat /\ DigitOf(Last(t)) \in Nat
        BY <2>2, <3>1
      <4> QED
        BY <4>1
    <3> QED
      BY <3>1
  <2>4. Phi \in [[T -> V] -> [T -> V]]
    <3> HIDE DEF Body, T, V
    <3> QED
      BY <2>3
  <2>5. ASSUME NEW f \in [T -> V], NEW g \in [T -> V], NEW t \in T,
               \A u \in T : rank[u] < rank[t] => f[u] = g[u]
        PROVE  Phi[f][t] = Phi[g][t]
    <3>1. t # <<>> => f[Front(t)] = g[Front(t)]
      BY <2>2, <2>5
    <3>2. Body(f)[t] = Body(g)[t]
      BY <3>1, Zenon
    <3> HIDE DEF Body, T, V
    <3> QED
      BY <3>2
  <2>6. V # {}
    OBVIOUS
  <2> HIDE DEF Phi, T, V
  <2>7. LooksLower(T, V, rank, Phi)
    BY <2>1, <2>4, <2>5, <2>6 DEF LooksLower
  <2>8. \E f \in [T -> V] : f = Phi[f]
    BY <2>7, RankRecursion
  <2> QED
    BY <2>8 DEF Phi
<1>2. Number = CHOOSE f : f = Body(f)
  BY Zenon DEF Number
<1>3. Number = Body(Number)
  BY <1>1, <1>2
<1>4. ASSUME NEW t \in Seq(Digits) PROVE Number[t] = Body(Number)[t]
  BY <1>3, Zenon
<1> QED
  BY <1>4

(* A number written in decimal is read back.                               *)
LEMMA NumberOfNumerals ==
  ASSUME NEW n \in Nat
  PROVE  /\ Numerals[n] \in Seq(Digits) /\ Numerals[n] # <<>>
         /\ Number[Numerals[n]] = n
<1> DEFINE S == {m \in Nat : /\ Numerals[m] \in Seq(Digits) /\ Numerals[m] # <<>>
                            /\ Number[Numerals[m]] = m}
           T == Nat
           rank == [m \in T |-> m]
<1>1. rank \in [T -> Nat]
  OBVIOUS
<1>2. ASSUME NEW m \in T, \A u \in T : rank[u] < rank[m] => u \in S
      PROVE  m \in S
  <2>1. CASE m < 10
    <3> DEFINE c == Numeral[m + 1]
               e == <<>>
    <3>1. c \in Digits /\ DigitOf(c) = m
      <4>1. m \in 0..9
        BY <2>1
      <4> QED
        BY <4>1, NumeralDigit
    <3>2. Numerals[m] = <<c>>
      BY <2>1, NumeralsFixed
    <3> HIDE DEF c
    <3>3. e \in Seq(Digits) /\ Append(e, c) = <<c>>
      OBVIOUS
    <3>4. <<c>> \in Seq(Digits) /\ <<c>> # <<>>
      BY <3>1
    <3>5. Number[e] = 0
      BY <3>3, NumberFixed
    <3> HIDE DEF e
    <3>6. Front(<<c>>) = e /\ Last(<<c>>) = c
      <4>1. Front(Append(e, c)) = e /\ Last(Append(e, c)) = c
        BY <3>1, <3>3, FrontAndLast
      <4> QED
        BY <3>3, <4>1
    <3>7. Number[<<c>>] = 10 * Number[Front(<<c>>)] + DigitOf(Last(<<c>>))
      BY <3>4, NumberFixed, Zenon
    <3>8. Number[<<c>>] = 10 * 0 + m
      BY <3>1, <3>5, <3>6, <3>7, Zenon
    <3>9. 10 * 0 + m = m
      OBVIOUS
    <3> QED
      BY <3>2, <3>4, <3>8, <3>9, Zenon
  <2>2. CASE ~(m < 10)
    <3> DEFINE q == m \div 10
               r == m % 10
               c == Numeral[r + 1]
               t == Append(Numerals[q], c)
    <3>1. q \in Nat /\ q < m /\ r \in 0..9 /\ m = 10 * q + r
      BY <2>2, DivideByTen
    <3>2. Numerals[m] = t
      BY <2>2, NumeralsFixed, Zenon
    <3> HIDE DEF q, r
    <3>3. c \in Digits /\ DigitOf(c) = r
      BY <3>1, NumeralDigit
    <3> HIDE DEF c
    <3>4. /\ Numerals[q] \in Seq(Digits) /\ Numerals[q] # <<>>
          /\ Number[Numerals[q]] = q
      BY <1>2, <3>1
    <3>5. t \in Seq(Digits) /\ t # <<>>
      BY <3>3, <3>4, AppendProperties
    <3>6. Front(t) = Numerals[q] /\ Last(t) = c
      BY <3>3, <3>4, FrontAndLast
    <3> HIDE DEF t
    <3>7. Number[t] = 10 * Number[Front(t)] + DigitOf(Last(t))
      BY <3>5, NumberFixed, Zenon
    <3>8. Number[t] = m
      BY <3>1, <3>3, <3>4, <3>6, <3>7
    <3> QED
      BY <3>2, <3>5, <3>8, Zenon
  <2> QED
    BY <2>1, <2>2
<1> HIDE DEF S, rank
<1>3. \A t \in T : (\A u \in T : rank[u] < rank[t] => u \in S) => t \in S
  BY <1>2
<1> HIDE DEF T
<1>4. T \subseteq S
  BY <1>1, <1>3, RankInduction
<1> QED
  BY <1>4 DEF S, T

LEMMA DigitsAsText == Seq(Digits) \subseteq Text
<1>1. Digits \subseteq Char
  BY Literals
<1> QED
  BY <1>1 DEF Text

(* A text of digits is read as the number they write.                      *)
LEMMA ValueOfDigits ==
  ASSUME NEW t \in Seq(Digits), t # <<>>
  PROVE  /\ Unsigned(t) = t /\ IsNumber(t) /\ Value(t) = Number[t]
         /\ Unsigned(<<"-">> \o t) = t /\ IsNumber(<<"-">> \o t)
         /\ Value(<<"-">> \o t) = -Number[t]
<1> DEFINE p == "-"
           m == <<p>> \o t
<1>1. Head(t) \in Digits /\ Len(t) \in Nat /\ \A i \in 1..Len(t) : t[i] \in Digits
  BY FrontOff
<1>2. Head(t) # "-"
  BY <1>1, DigitsDiffer
<1>3. Unsigned(t) = t
  BY <1>2, Zenon DEF Unsigned
<1>4. p \in Char /\ t \in Seq(Char)
  BY Literals, DigitsAsText, Zenon DEF Text
<1>5. m # <<>> /\ Head(m) = p /\ Tail(m) = t /\ Len(m) = Len(t) + 1
  <2> HIDE DEF p
  <2> QED
    BY <1>4, FrontFacts
<1>6. m # t
  <2> HIDE DEF m
  <2> QED
    BY <1>1, <1>5
<1>7. Unsigned(m) = t
  <2> HIDE DEF m
  <2> QED
    BY <1>5, Zenon DEF Unsigned, p
<1>8. IsNumber(t) /\ IsNumber(m)
  BY <1>1, <1>3, <1>7, Zenon DEF IsNumber
<1> DEFINE Ends == {k \in 0..Len(t) : \A i \in 1..k : t[i] \in Digits}
           End == CHOOSE k \in Ends : \A j \in Ends : j <= k
<1>9. End = Len(t)
  <2>1. Len(t) \in Ends /\ \A j \in Ends : j \in Nat /\ j <= Len(t)
    BY <1>1
  <2>2. ASSUME NEW k \in Ends, \A j \in Ends : j <= k PROVE k = Len(t)
    BY <1>1, <2>1, <2>2
  <2> HIDE DEF Ends
  <2> QED
    BY <2>1, <2>2
<1>10. SubSeq(t, 1, End) = t
  <2>1. SubSeq(t, 1, Len(t)) = t
    BY SubSeqFull
  <2> QED
    BY <1>9, <2>1, Zenon
<1>11. Value(t) = Number[t]
  BY <1>3, <1>10, Zenon DEF Value
<1>12. Value(m) = -Number[t]
  BY <1>6, <1>7, <1>10, Zenon DEF Value
<1> QED
  BY <1>3, <1>7, <1>8, <1>11, <1>12, Zenon DEF m, p

LEMMA DecimalRead ==
  ASSUME NEW n \in Int
  PROVE  /\ Decimal(n) \in Text /\ Without(Decimal(n), "|")
         /\ IsNumber(Decimal(n)) /\ Value(Decimal(n)) = n
<1> DEFINE bar == "|"
<1>0. \A t \in Seq(Digits) : t \in Text /\ Without(t, bar)
  <2>1. \A c \in Digits : c # bar
    BY DigitsDiffer
  <2> HIDE DEF bar
  <2>2. \A t \in Seq(Digits) : \A i \in 1..Len(t) : t[i] \in Digits
    OBVIOUS
  <2> QED
    BY <2>1, <2>2, DigitsAsText DEF Without
<1>1. CASE n < 0
  <2> DEFINE t == Numerals[-n]
             p == "-"
  <2>1. -n \in Nat
    BY <1>1
  <2>2. t \in Seq(Digits) /\ t # <<>> /\ Number[t] = -n
    BY <2>1, NumberOfNumerals
  <2>3. Decimal(n) = <<p>> \o t
    BY <1>1, Zenon DEF Decimal
  <2> HIDE DEF t
  <2>4. IsNumber(<<p>> \o t) /\ Value(<<p>> \o t) = -Number[t]
    BY <2>2, ValueOfDigits
  <2>5. p \in Char /\ p # bar
    BY Literals
  <2> HIDE DEF p, bar
  <2>6. <<p>> \o t \in Text /\ Without(<<p>> \o t, bar)
    <3>1. t \in Seq(Char) /\ Without(t, bar)
      BY <1>0, <2>2 DEF Text
    <3> QED
      BY <2>5, <3>1, FrontFacts, WithoutFront DEF Text
  <2>7. -(-n) = n
    OBVIOUS
  <2> QED
    BY <2>2, <2>3, <2>4, <2>6, <2>7, Zenon DEF bar
<1>2. CASE ~(n < 0)
  <2> DEFINE t == Numerals[n]
  <2>1. n \in Nat
    BY <1>2
  <2>2. t \in Seq(Digits) /\ t # <<>> /\ Number[t] = n
    BY <2>1, NumberOfNumerals
  <2>3. Decimal(n) = t
    BY <1>2, Zenon DEF Decimal
  <2> HIDE DEF t
  <2>4. IsNumber(t) /\ Value(t) = Number[t]
    BY <2>2, ValueOfDigits
  <2> QED
    BY <1>0, <2>2, <2>3, <2>4, Zenon
<1> QED
  BY <1>1, <1>2
-----------------------------------------------------------------------------
(* The payload                                                             *)

LEMMA SetInOrder ==
  ASSUME NEW S, IsFiniteSet(S)
  PROVE  /\ SetToSeq(S) \in Seq(S) /\ Len(SetToSeq(S)) \in Nat
         /\ \A i, j \in 1..Len(SetToSeq(S)) : SetToSeq(S)[i] = SetToSeq(S)[j] => i = j
         /\ \A x \in S : \E i \in 1..Len(SetToSeq(S)) : SetToSeq(S)[i] = x
<1> DEFINE n == Cardinality(S)
           f == SetToSeq(S)
<1>1. n \in Nat /\ ExistsBijection(1..n, S)
  BY FS_CardinalityType
<1>2. PICK g : g \in Bijection(1..n, S)
  BY <1>1 DEF ExistsBijection
<1>3. g \in [1..n -> S] /\ IsInjective(g)
  BY <1>2 DEF Bijection, Injection
<1>4. f \in [1..n -> S] /\ IsInjective(f)
  BY <1>3, Zenon DEF SetToSeq
<1> HIDE DEF f
<1>5. f \in Injection(1..n, S)
  BY <1>4 DEF Injection
<1>6. Cardinality(1..n) = n
  <2>1. Cardinality(1..n) = IF 1 > n THEN 0 ELSE n - 1 + 1
    <3> HIDE DEF n
    <3> QED
      BY <1>1, FS_Interval
  <2> HIDE DEF n
  <2> QED
    BY <1>1, <2>1
<1>7. f \in Surjection(1..n, S)
  BY <1>5, <1>6, FS_Injection
<1>8. \A x \in S : \E i \in 1..n : f[i] = x
  BY <1>7 DEF Surjection
<1> HIDE DEF n
<1>9. f \in Seq(S) /\ Len(f) = n
  BY <1>1, <1>4
<1>10. \A i, j \in 1..n : f[i] = f[j] => i = j
  BY <1>4 DEF IsInjective
<1> QED
  BY <1>1, <1>8, <1>9, <1>10, Zenon DEF f

LEMMA JoinWithout ==
  ASSUME NEW sep \in Char, NEW x, sep # x, NEW ts \in Seq(Text),
         \A i \in 1..Len(ts) : Without(ts[i], x)
  PROVE  Without(JoinWith(ts, sep), x)
<1> DEFINE S == {t \in Seq(Text) :
                   (\A i \in 1..Len(t) : Without(t[i], x)) => Without(JoinWith(t, sep), x)}
<1>1. <<>> \in S
  <2>1. <<>> \in Seq(Text)
    OBVIOUS
  <2>2. Without(<<>>, x)
    BY DEF Without
  <2> QED
    BY <2>1, <2>2, JoinNone, Zenon
<1>2. ASSUME NEW y \in Text, NEW r \in Seq(Text), r \in S PROVE <<y>> \o r \in S
  <2> DEFINE t == <<y>> \o r
  <2>1. /\ t \in Seq(Text) /\ Len(t) = Len(r) + 1 /\ t[1] = y /\ Len(r) \in Nat
        /\ \A i \in 1..Len(r) : t[i + 1] = r[i]
    BY FrontFacts
  <2>2. ASSUME \A i \in 1..Len(t) : Without(t[i], x)
        PROVE  Without(JoinWith(t, sep), x)
    <3> HIDE DEF t
    <3>1. Without(y, x)
      <4>1. 1 \in 1..Len(t)
        BY <2>1
      <4> QED
        BY <2>1, <2>2, <4>1
    <3>2. ASSUME NEW i \in 1..Len(r) PROVE Without(r[i], x)
      <4>1. i + 1 \in 1..Len(t)
        BY <2>1
      <4> QED
        BY <2>1, <2>2, <4>1
    <3>3. Without(JoinWith(r, sep), x)
      BY <1>2, <3>2
    <3>4. CASE r = <<>>
      <4>1. <<y>> \o r = <<y>>
        BY <3>4
      <4> QED
        BY <3>1, <4>1, JoinOne, Zenon DEF t
    <3>5. CASE r # <<>>
      <4> DEFINE z == JoinWith(r, sep)
      <4>1. JoinWith(t, sep) = y \o (<<sep>> \o z)
        BY <3>5, JoinMore DEF t
      <4>2. z \in Seq(Char) /\ y \in Seq(Char)
        BY JoinText DEF Text
      <4>3. Without(z, x)
        BY <3>3
      <4> HIDE DEF z
      <4>4. <<sep>> \o z \in Seq(Char) /\ Without(<<sep>> \o z, x)
        BY <4>2, <4>3, FrontFacts, WithoutFront
      <4>5. Without(y \o (<<sep>> \o z), x)
        BY <3>1, <4>2, <4>4, WithoutConcat
      <4> QED
        BY <4>1, <4>5
    <3> QED
      BY <3>4, <3>5
  <2> HIDE DEF t
  <2>3. t \in S
    BY <2>1, <2>2
  <2> QED
    BY <2>3 DEF t
<1> HIDE DEF S
<1>3. Seq(Text) \subseteq S
  BY <1>1, <1>2, SeqInduction
<1> QED
  BY <1>3 DEF S

(* A text cut at the first of a character.                                 *)
LEMMA CutAt ==
  ASSUME NEW d \in Char, NEW x \in Text, NEW y \in Text, Without(x, d)
  PROVE  LET item == x \o (<<d>> \o y)
             cut  == CHOOSE k \in DOMAIN item :
                       item[k] = d /\ \A j \in 1..(k - 1) : item[j] # d
         IN  /\ item \in Text /\ Contains(item, d)
             /\ SubSeq(item, 1, cut - 1) = x
             /\ SubSeq(item, cut + 1, Len(item)) = y
<1> DEFINE z == <<d>> \o y
           item == x \o z
           cut  == CHOOSE k \in DOMAIN item :
                       item[k] = d /\ \A j \in 1..(k - 1) : item[j] # d
           n == Len(x)
           m == Len(y)
<1>1. /\ z \in Seq(Char) /\ Len(z) = m + 1 /\ z[1] = d
      /\ \A i \in 1..m : z[i + 1] = y[i]
  BY FrontFacts DEF Text
<1>2. n \in Nat /\ m \in Nat /\ x \in Seq(Char) /\ y \in Seq(Char)
  BY DEF Text
<1> HIDE DEF z
<1>3. /\ item \in Seq(Char) /\ Len(item) = n + Len(z)
      /\ \A i \in 1..(n + Len(z)) : item[i] = IF i <= n THEN x[i] ELSE z[i - n]
  BY <1>1, <1>2, ConcatProperties
<1> HIDE DEF item
<1>4. Len(item) = n + m + 1
  BY <1>1, <1>2, <1>3
<1>5. \A i \in 1..n : item[i] = x[i]
  BY <1>1, <1>2, <1>3
<1>6. item[n + 1] = d
  <2>1. n + 1 \in 1..(n + Len(z)) /\ ~(n + 1 <= n) /\ (n + 1) - n = 1
    BY <1>1, <1>2
  <2> QED
    BY <1>1, <1>3, <2>1
<1>7. ASSUME NEW i \in 1..m PROVE item[n + 1 + i] = y[i]
  <2>1. /\ n + 1 + i \in 1..(n + Len(z)) /\ ~(n + 1 + i <= n) /\ (n + 1 + i) - n = i + 1
    BY <1>1, <1>2
  <2> QED
    BY <1>1, <1>3, <2>1
<1>8. \A j \in 1..n : item[j] # d
  BY <1>5 DEF Without
<1>9. cut = n + 1
  <2>1. DOMAIN item = 1..(n + m + 1)
    BY <1>3, <1>4
  <2> HIDE DEF n, m
  <2>2. n + 1 \in 1..(n + m + 1) /\ (n + 1) - 1 = n
    BY <1>2
  <2>3. ASSUME NEW k \in 1..(n + m + 1), item[k] = d, \A j \in 1..(k - 1) : item[j] # d
        PROVE  k = n + 1
    <3>1. ~(k \in 1..n)
      BY <1>8, <2>3
    <3>2. ~(n + 1 \in 1..(k - 1))
      BY <1>6, <2>3
    <3> QED
      BY <1>2, <3>1, <3>2
  <2>4. \E k \in DOMAIN item : item[k] = d /\ \A j \in 1..(k - 1) : item[j] # d
    BY <1>6, <1>8, <2>1, <2>2
  <2>5. /\ cut \in DOMAIN item /\ item[cut] = d /\ \A j \in 1..(cut - 1) : item[j] # d
    BY <2>4
  <2> HIDE DEF cut
  <2> QED
    BY <2>1, <2>3, <2>5
<1> HIDE DEF cut, n, m
<1>10. SubSeq(item, 1, cut - 1) = x
  <2> DEFINE q == SubSeq(item, 1, n)
  <2>1. \A i \in 1..n : item[i] \in Char
    BY <1>2, <1>3, <1>4
  <2>2. /\ q \in Seq(Char) /\ Len(q) = (IF 1 <= n THEN n - 1 + 1 ELSE 0)
        /\ \A i \in 1..(n - 1 + 1) : q[i] = item[1 + i - 1]
    BY <1>2, <2>1, SubSeqProperties
  <2>3. SubSeq(item, 1, cut - 1) = q
    <3>1. cut - 1 = n
      BY <1>2, <1>9
    <3> QED
      BY <3>1, Zenon
  <2> HIDE DEF q
  <2>4. Len(q) = n
    BY <1>2, <2>2
  <2>5. ASSUME NEW i \in 1..n PROVE q[i] = x[i]
    <3>1. i \in 1..(n - 1 + 1) /\ 1 + i - 1 = i
      BY <1>2
    <3> QED
      BY <1>5, <2>2, <3>1
  <2>6. q = x
    BY <1>2, <2>2, <2>4, <2>5, SeqEqual DEF n
  <2> QED
    BY <2>3, <2>6
<1>11. SubSeq(item, cut + 1, Len(item)) = y
  <2> DEFINE a == n + 2
             b == n + m + 1
             q == SubSeq(item, a, b)
  <2>0. a \in Int /\ b \in Int
    BY <1>2
  <2>1. \A i \in a..b : item[i] \in Char
    BY <1>2, <1>3, <1>4
  <2>2. /\ q \in Seq(Char) /\ Len(q) = (IF a <= b THEN b - a + 1 ELSE 0)
        /\ \A i \in 1..(b - a + 1) : q[i] = item[a + i - 1]
    <3> HIDE DEF a, b
    <3> QED
      BY <2>0, <2>1, SubSeqProperties
  <2>3. SubSeq(item, cut + 1, Len(item)) = q
    <3>1. cut + 1 = a /\ Len(item) = b
      BY <1>2, <1>4, <1>9
    <3> HIDE DEF a, b
    <3> QED
      BY <3>1, Zenon
  <2> HIDE DEF q
  <2>4. Len(q) = m
    BY <1>2, <2>2
  <2>5. ASSUME NEW i \in 1..m PROVE q[i] = y[i]
    <3>1. i \in 1..(b - a + 1) /\ a + i - 1 = n + 1 + i
      BY <1>2
    <3>2. q[i] = item[a + i - 1]
      <4> HIDE DEF a, b
      <4> QED
        BY <2>2, <3>1
    <3> HIDE DEF a
    <3> QED
      BY <1>7, <3>1, <3>2
  <2>6. q = y
    <3>1. q \in Seq(Char)
      BY <2>2
    <3> QED
      BY <1>2, <2>4, <2>5, <3>1, SeqEqual DEF m
  <2> QED
    BY <2>3, <2>6
<1>12. item \in Text /\ Contains(item, d)
  <2>1. n + 1 \in 1..Len(item)
    BY <1>2, <1>4
  <2> QED
    BY <1>3, <1>6, <2>1 DEF Text, Contains
<1> QED
  BY <1>10, <1>11, <1>12, Zenon DEF cut, item, z

(* What PayloadText joins.                                                 *)
Items(p) == [i \in DOMAIN SetToSeq(DOMAIN p) |->
               Escape[SetToSeq(DOMAIN p)[i]] \o <<"=">>
                 \o Escape[p[SetToSeq(DOMAIN p)[i]]]]

LEMMA ItemFacts ==
  ASSUME NEW p, IsPayload(p), NEW i \in 1..Len(SetToSeq(DOMAIN p))
  PROVE  LET key == SetToSeq(DOMAIN p)[i]
             x == Escape[key]
             y == Escape[p[key]]
         IN  /\ key \in DOMAIN p /\ x \in Text /\ y \in Text
             /\ Items(p)[i] = x \o (<<"=">> \o y)
             /\ Items(p)[i] \in Text
             /\ Without(Items(p)[i], ";") /\ Without(Items(p)[i], "|")
<1> DEFINE keys == SetToSeq(DOMAIN p)
           key == keys[i]
           x == Escape[key]
           y == Escape[p[key]]
           eq == "="
           d == <<eq>>
<1>1. keys \in Seq(DOMAIN p) /\ i \in 1..Len(keys)
  BY SetInOrder DEF IsPayload
<1>2. key \in DOMAIN p /\ i \in DOMAIN keys
  <2> HIDE DEF keys
  <2> QED
    BY <1>1
<1>3. key \in Text /\ p[key] \in Text
  <2> HIDE DEF key
  <2> QED
    BY <1>2 DEF IsPayload
<1>4. x \in Text /\ y \in Text
  BY <1>3, EscapeText
<1>5. eq \in Char
  BY Literals
<1>6. Items(p)[i] = x \o d \o y
  BY <1>2, Zenon DEF Items
<1>7. \A c \in {";", "|"} : Without(x, c) /\ Without(y, c) /\ eq # c
  <2>1. \A c \in {";", "|"} : c \in Separators /\ eq # c
    BY DEF Separators
  <2> QED
    BY <1>3, <2>1, EscapeWithout, Zenon
<1> HIDE DEF x, y, eq
<1>8. d \in Text
  BY <1>5 DEF Text
<1> HIDE DEF d
<1>9. x \o d \o y = x \o (d \o y)
  BY <1>4, <1>8, ConcatAssociative DEF Text
<1>10. ASSUME NEW c, Without(x, c), Without(y, c), eq # c PROVE Without(x \o (d \o y), c)
  <2>1. Without(<<eq>> \o y, c)
    BY <1>4, <1>5, <1>10, WithoutFront DEF Text
  <2>2. d \o y \in Seq(Char) /\ Without(d \o y, c)
    BY <1>4, <1>8, <2>1, TextConcat DEF Text, d
  <2> QED
    BY <1>4, <1>10, <2>2, WithoutConcat DEF Text
<1>11. x \o (d \o y) \in Text
  BY <1>4, <1>8, TextConcat
<1>12. Without(x \o (d \o y), ";") /\ Without(x \o (d \o y), "|")
  BY <1>7, <1>10, Zenon
<1> QED
  BY <1>2, <1>4, <1>6, <1>9, <1>11, <1>12, Zenon DEF x, y, d, eq

LEMMA ItemsTexts ==
  ASSUME NEW p, IsPayload(p)
  PROVE  /\ Items(p) \in Seq(Text) /\ Len(Items(p)) = Len(SetToSeq(DOMAIN p))
         /\ PayloadText(p) = JoinWith(Items(p), ";")
<1> DEFINE keys == SetToSeq(DOMAIN p)
           n == Len(keys)
           ts == Items(p)
<1>1. n \in Nat /\ DOMAIN keys = 1..n
  <2>1. keys \in Seq(DOMAIN p) /\ Len(keys) \in Nat
    BY SetInOrder DEF IsPayload
  <2> HIDE DEF keys
  <2> QED
    BY <2>1
<1>2. PayloadText(p) = JoinWith(ts, ";")
  BY Zenon DEF PayloadText, Items
<1>3. \A i \in 1..n : ts[i] \in Text
  BY ItemFacts, Zenon
<1>4. ts = [i \in 1..n |-> ts[i]]
  BY <1>1, Zenon DEF Items
<1> HIDE DEF ts, n
<1>5. ts \in [1..n -> Text]
  BY <1>3, <1>4
<1>6. ts \in Seq(Text) /\ Len(ts) = n
  BY <1>1, <1>5
<1> QED
  BY <1>2, <1>6 DEF ts, n

(* The items of a payload are read back, whatever its keys and values hold *)
(* (serialize and deserialize, event_queue.cpp:282-287, 332-342).          *)
LEMMA PayloadRead ==
  ASSUME NEW p, IsPayload(p)
  PROVE  /\ PayloadText(p) \in Text /\ Without(PayloadText(p), "|")
         /\ PayloadOf(PayloadText(p)) = p
<1> DEFINE keys == SetToSeq(DOMAIN p)
           n == Len(keys)
           ts == Items(p)
           text == PayloadText(p)
<1>1. /\ n \in Nat /\ keys \in Seq(DOMAIN p)
      /\ \A i, j \in 1..n : keys[i] = keys[j] => i = j
      /\ \A x \in DOMAIN p : \E i \in 1..n : keys[i] = x
  BY SetInOrder DEF IsPayload
<1>2. /\ ts \in Seq(Text) /\ Len(ts) = n
  BY ItemsTexts
<1>a. text = JoinWith(ts, ";")
  BY ItemsTexts
<1>3. \A i \in 1..n : Without(ts[i], ";") /\ Without(ts[i], "|")
  BY ItemFacts, Zenon
<1>4. text \in Text /\ Without(text, "|")
  <2> DEFINE semi == ";"
             bar == "|"
  <2>1. semi \in Char /\ semi # bar
    BY Literals
  <2>2. text = JoinWith(ts, semi) /\ \A i \in 1..Len(ts) : Without(ts[i], bar)
    BY <1>2, <1>a, <1>3
  <2>3. ts \in Seq(Text)
    BY <1>2
  <2> HIDE DEF semi, bar, ts, text
  <2>4. text \in Text /\ Without(text, bar)
    BY <2>1, <2>2, <2>3, JoinText, JoinWithout
  <2> QED
    BY <2>4 DEF bar
<1> DEFINE items == Split(text, ";")
           Pairs == {i \in DOMAIN items : Contains(items[i], "=")}
           Cut(i) == CHOOSE k \in DOMAIN items[i] :
                       items[i][k] = "=" /\ \A j \in 1..(k - 1) : items[i][j] # "="
           Key(i) == Unescape[SubSeq(items[i], 1, Cut(i) - 1)]
           Item(i) == Unescape[SubSeq(items[i], Cut(i) + 1, Len(items[i]))]
           Latest(k) == CHOOSE i \in Pairs :
                          Key(i) = k /\ \A j \in Pairs : Key(j) = k => j <= i
<1>5. PayloadOf(text) = [k \in {Key(i) : i \in Pairs} |-> Item(Latest(k))]
  BY Zenon DEF PayloadOf
<1>6. Pairs = 1..n /\ \A i \in 1..n : items[i] = ts[i]
  <2>1. CASE n = 0
    <3>1. text = <<>>
      <4>1. ts = <<>>
        <5> HIDE DEF ts
        <5> QED
          BY <1>2, <2>1, EmptySeq
      <4>2. ";" \in Char
        BY Literals
      <4> QED
        BY <1>a, <4>1, <4>2, JoinNone, Zenon
    <3>2. items = << <<>> >>
      BY <3>1, SplitEquations, Zenon
    <3> DEFINE e == <<>>
    <3>3. DOMAIN << e >> = {1} /\ << e >>[1] = e /\ ~Contains(e, "=")
      BY DEF Contains
    <3> HIDE DEF items
    <3>4. Pairs = {}
      BY <3>2, <3>3
    <3>5. 1..n = {}
      <4> HIDE DEF n
      <4> QED
        BY <2>1
    <3> QED
      BY <3>4, <3>5
  <2>2. CASE n # 0
    <3>1. items = ts
      <4> DEFINE semi == ";"
      <4>1. semi \in Char
        BY Literals
      <4>2. text = JoinWith(ts, semi) /\ \A i \in 1..n : Without(ts[i], semi)
        BY <1>a, <1>3
      <4> HIDE DEF semi, ts, text, n
      <4>3. n \in 1..Len(ts)
        BY <1>1, <1>2, <2>2
      <4>4. Split(JoinWith(ts, semi), semi) = ts
        BY <1>2, <4>1, <4>2, <4>3, SplitJoin
      <4> QED
        BY <4>2, <4>4, Zenon DEF semi
    <3>2. DOMAIN ts = 1..n
      <4> HIDE DEF ts, n
      <4> QED
        BY <1>2
    <3>3. ASSUME NEW i \in 1..n PROVE Contains(ts[i], "=")
      <4> DEFINE x == Escape[keys[i]]
                 y == Escape[p[keys[i]]]
                 d == "="
      <4>1. ts[i] = x \o (<<d>> \o y) /\ x \in Text /\ y \in Text
        BY ItemFacts
      <4>2. Without(x, d)
        <5>1. d \in Separators
          BY DEF Separators
        <5>2. keys[i] \in Text
          BY <1>1 DEF IsPayload
        <5> QED
          BY <5>1, <5>2, EscapeWithout, Zenon
      <4>3. d \in Char
        BY Literals
      <4> HIDE DEF x, y, d
      <4>4. Contains(x \o (<<d>> \o y), d)
        BY <4>1, <4>2, <4>3, CutAt, Zenon
      <4> QED
        BY <4>1, <4>4, Zenon DEF d
    <3>4. Pairs = 1..n
      <4> HIDE DEF items, ts, n
      <4> QED
        BY <3>1, <3>2, <3>3
    <3> QED
      BY <3>1, <3>4
  <2> QED
    BY <2>1, <2>2
<1>7. ASSUME NEW i \in 1..n PROVE Key(i) = keys[i] /\ Item(i) = p[keys[i]]
  <2> DEFINE x == Escape[keys[i]]
             y == Escape[p[keys[i]]]
             d == "="
             w == x \o (<<d>> \o y)
             cut == CHOOSE k \in DOMAIN w : w[k] = d /\ \A j \in 1..(k - 1) : w[j] # d
  <2>1. keys[i] \in DOMAIN p /\ x \in Text /\ y \in Text /\ ts[i] = w
    BY ItemFacts, Zenon
  <2>2. keys[i] \in Text /\ p[keys[i]] \in Text
    <3> HIDE DEF keys
    <3> QED
      BY <2>1 DEF IsPayload
  <2>3. d \in Char /\ Without(x, d)
    <3>1. d \in Separators /\ d \in Char
      BY Literals, Zenon DEF Separators
    <3> QED
      BY <2>2, <3>1, EscapeWithout, Zenon
  <2>4. SubSeq(w, 1, cut - 1) = x /\ SubSeq(w, cut + 1, Len(w)) = y
    <3> HIDE DEF x, y, d
    <3> QED
      BY <2>1, <2>3, CutAt, Zenon
  <2>5. items[i] = w
    BY <1>6, <2>1, Zenon
  <2>6. Cut(i) = cut
    <3> HIDE DEF items, w
    <3> QED
      BY <2>5, Zenon
  <2>7. Key(i) = Unescape[x] /\ Item(i) = Unescape[y]
    <3> HIDE DEF items, w, x, y, cut, Cut
    <3> QED
      BY <2>4, <2>5, <2>6, Zenon
  <2>8. Unescape[x] = keys[i] /\ Unescape[y] = p[keys[i]]
    BY <2>2, EscapeRoundTrip, Zenon
  <2> QED
    BY <2>7, <2>8, Zenon
<1>b. Pairs = 1..n
  BY <1>6
<1> HIDE DEF Key, Item, Pairs
<1>8. ASSUME NEW i \in 1..n PROVE Latest(keys[i]) = i
  <2> HIDE DEF keys, n
  <2>1. \A j \in Pairs : Key(j) = keys[i] => j = i
    BY <1>1, <1>b, <1>7
  <2>2. i \in Pairs /\ Key(i) = keys[i] /\ i <= i
    BY <1>1, <1>b, <1>7
  <2> QED
    BY <2>1, <2>2
<1> HIDE DEF Latest, keys, n
<1>9. {Key(i) : i \in Pairs} = DOMAIN p
  <2>1. ASSUME NEW x \in DOMAIN p PROVE x \in {Key(i) : i \in Pairs}
    <3>1. PICK i \in 1..n : keys[i] = x
      BY <1>1
    <3> QED
      BY <1>b, <1>7, <3>1
  <2>2. ASSUME NEW i \in Pairs PROVE Key(i) \in DOMAIN p
    <3>1. i \in 1..n /\ n \in Nat /\ keys \in Seq(DOMAIN p) /\ n = Len(keys)
      BY <1>1, <1>b DEF n
    <3>2. keys[i] \in DOMAIN p
      BY <3>1
    <3> QED
      BY <1>7, <3>1, <3>2
  <2> QED
    BY <2>1, <2>2
<1>10. \A x \in DOMAIN p : Item(Latest(x)) = p[x]
  <2>1. ASSUME NEW x \in DOMAIN p PROVE Item(Latest(x)) = p[x]
    <3>1. PICK i \in 1..n : keys[i] = x
      BY <1>1
    <3> QED
      BY <1>7, <1>8, <3>1
  <2> QED
    BY <2>1
<1>11. p = [x \in DOMAIN p |-> p[x]]
  BY DEF IsPayload
<1>12. PayloadOf(text) = p
  <2>1. PayloadOf(text) = [k \in DOMAIN p |-> Item(Latest(k))]
    BY <1>5, <1>9, Zenon DEF Key, Item, Pairs, Latest
  <2> QED
    BY <1>10, <1>11, <2>1, Zenon
<1> QED
  BY <1>4, <1>12
-----------------------------------------------------------------------------
(* The record                                                              *)

LEMMA EightTexts ==
  ASSUME NEW E, NEW a \in E, NEW b \in E, NEW c \in E, NEW d \in E,
         NEW e \in E, NEW f \in E, NEW g \in E, NEW h \in E
  PROVE  LET t == <<a, b, c, d, e, f, g, h>>
         IN  /\ t \in Seq(E) /\ Len(t) = 8
             /\ t[1] = a /\ t[2] = b /\ t[3] = c /\ t[4] = d
             /\ t[5] = e /\ t[6] = f /\ t[7] = g /\ t[8] = h
  OBVIOUS

(* How the commitment is written.                                          *)
Flag(b) == IF b THEN <<"1">> ELSE <<"0">>

LEMMA FlagRead ==
  ASSUME NEW b \in BOOLEAN
  PROVE  Flag(b) \in Text /\ Without(Flag(b), "|") /\ (Flag(b) = <<"1">>) = b
<1> DEFINE one == "1"
           nil == "0"
           bar == "|"
<1>1. one \in Char /\ nil \in Char /\ one # bar /\ nil # bar /\ one # nil
  <2>1. Numeral[0 + 1] \in Digits /\ Numeral[1 + 1] \in Digits
    BY NumeralDigit
  <2>2. "0" \in Digits /\ "1" \in Digits
    BY <2>1, NumeralValues, Zenon
  <2>3. one # bar /\ nil # bar /\ one # nil
    OBVIOUS
  <2> QED
    BY <2>2, <2>3, Literals, Zenon
<1>2. Flag(b) = IF b THEN <<one>> ELSE <<nil>>
  BY Zenon DEF Flag
<1> HIDE DEF one, nil, bar
<1>3. <<one>> \in Text /\ <<nil>> \in Text /\ Without(<<one>>, bar) /\ Without(<<nil>>, bar)
  BY <1>1 DEF Text, Without
<1>4. <<one>> # <<nil>>
  BY <1>1
<1>5. CASE b
  BY <1>2, <1>3, <1>5, Zenon DEF bar, one
<1>6. CASE ~b
  BY <1>2, <1>3, <1>4, <1>6, Zenon DEF bar, one
<1> QED
  BY <1>5, <1>6

LEMMA EventFields ==
  ASSUME NEW e, IsEvent(e)
  PROVE  /\ e.header \in [1..5 -> Nat] /\ e.committed \in BOOLEAN
         /\ e.device \in Text /\ e.session \in Text
         /\ e.battery \in 0..255 /\ e.rssi \in Int /\ e.version \in Text
         /\ e.correlation \in Nat /\ IsPayload(e.payload)
         /\ e = [header |-> e.header, committed |-> e.committed, device |-> e.device,
                 session |-> e.session, battery |-> e.battery, rssi |-> e.rssi,
                 version |-> e.version, correlation |-> e.correlation,
                 payload |-> e.payload]
<1>1. /\ e \in [header : [1..5 -> Nat], committed : BOOLEAN,
                device : Text, session : Text, battery : 0..255, rssi : Int16,
                version : Text, correlation : Nat, payload : {e.payload}]
      /\ IsPayload(e.payload)
  BY DEF IsEvent
<1>2. \A i \in Int16 : i \in Int
  BY SMTT(30) DEF Int16
<1>3. /\ e.header \in [1..5 -> Nat] /\ e.committed \in BOOLEAN
      /\ e.device \in Text /\ e.session \in Text
      /\ e.battery \in 0..255 /\ e.rssi \in Int16 /\ e.version \in Text
      /\ e.correlation \in Nat
  BY <1>1
<1>4. e = [header |-> e.header, committed |-> e.committed, device |-> e.device,
          session |-> e.session, battery |-> e.battery, rssi |-> e.rssi,
          version |-> e.version, correlation |-> e.correlation,
          payload |-> e.payload]
  BY <1>1
<1> QED
  BY <1>1, <1>2, <1>3, <1>4

LEMMA EventNumbers ==
  ASSUME NEW e, IsEvent(e)
  PROVE  /\ \A i \in 1..5 : e.header[i] \in Int
         /\ e.battery \in Int /\ e.rssi \in Int /\ e.correlation \in Int
<1>1. \A i \in 1..5 : e.header[i] \in Int
  BY EventFields
<1>2. e.battery \in Int /\ e.rssi \in Int /\ e.correlation \in Int
  BY EventFields
<1> QED
  BY <1>1, <1>2

(* The thirteen fields; only the ids may hold the separator.               *)
LEMMA FieldsFacts ==
  ASSUME NEW e, IsEvent(e)
  PROVE  /\ Fields(e) \in Seq(Text) /\ Len(Fields(e)) = 13
         /\ \A i \in 1..5 : Fields(e)[i] = Decimal(e.header[i])
         /\ Fields(e)[6] = Flag(e.committed)
         /\ Fields(e)[7] = e.device /\ Fields(e)[8] = e.session
         /\ Fields(e)[9] = Decimal(e.battery) /\ Fields(e)[10] = Decimal(e.rssi)
         /\ Fields(e)[11] = Escape[e.version] /\ Fields(e)[12] = Decimal(e.correlation)
         /\ Fields(e)[13] = PayloadText(e.payload)
         /\ \A i \in (1..13) \ {7, 8} : Without(Fields(e)[i], "|")
<1> DEFINE H == [i \in 1..5 |-> Decimal(e.header[i])]
           f6 == Flag(e.committed)
           f9 == Decimal(e.battery)
           f10 == Decimal(e.rssi)
           f11 == Escape[e.version]
           f12 == Decimal(e.correlation)
           f13 == PayloadText(e.payload)
           R == <<f6, e.device, e.session, f9, f10, f11, f12, f13>>
           F == Fields(e)
           bar == "|"
<1>1. \A i \in 1..5 : Decimal(e.header[i]) \in Text /\ Without(Decimal(e.header[i]), bar)
  BY EventNumbers, DecimalRead, Zenon
<1>2. /\ f6 \in Text /\ e.device \in Text /\ e.session \in Text /\ f9 \in Text
      /\ f10 \in Text /\ f11 \in Text /\ f12 \in Text /\ f13 \in Text
      /\ Without(f6, bar) /\ Without(f9, bar) /\ Without(f10, bar) /\ Without(f11, bar)
      /\ Without(f12, bar) /\ Without(f13, bar)
  <2>1. e.battery \in Int /\ e.rssi \in Int /\ e.correlation \in Int
    BY EventNumbers
  <2>2. f6 \in Text /\ Without(f6, bar)
    BY EventFields, FlagRead
  <2>3. /\ f9 \in Text /\ f10 \in Text /\ f12 \in Text
        /\ Without(f9, bar) /\ Without(f10, bar) /\ Without(f12, bar)
    BY <2>1, DecimalRead, Zenon
  <2>4. bar \in Separators
    BY DEF Separators
  <2>5. e.version \in Text /\ e.device \in Text /\ e.session \in Text
    BY EventFields
  <2>6. f11 \in Text /\ Without(f11, bar)
    BY <2>4, <2>5, EscapeText, EscapeWithout
  <2>7. f13 \in Text /\ Without(f13, bar)
    BY EventFields, PayloadRead
  <2> QED
    BY <2>2, <2>3, <2>5, <2>6, <2>7
<1>3. F = H \o R
  BY Zenon DEF Fields, Flag
<1>4. H \in Seq(Text) /\ Len(H) = 5 /\ \A i \in 1..5 : H[i] = Decimal(e.header[i])
  <2> DEFINE T == Text
  <2>1. \A i \in 1..5 : Decimal(e.header[i]) \in T
    BY <1>1
  <2> HIDE DEF T
  <2>2. H \in Seq(T) /\ Len(H) = 5
    BY <2>1
  <2> QED
    BY <2>2 DEF T
<1>5. /\ R \in Seq(Text) /\ Len(R) = 8
      /\ R[1] = f6 /\ R[2] = e.device /\ R[3] = e.session /\ R[4] = f9
      /\ R[5] = f10 /\ R[6] = f11 /\ R[7] = f12 /\ R[8] = f13
  <2> HIDE DEF f6, f9, f10, f11, f12, f13
  <2> QED
    BY <1>2, EightTexts
<1> HIDE DEF H, R, F, bar, f6, f9, f10, f11, f12, f13
<1>6. /\ F \in Seq(Text) /\ Len(F) = 13
      /\ \A i \in 1..13 : F[i] = IF i <= 5 THEN H[i] ELSE R[i - 5]
  <2>1. /\ H \o R \in Seq(Text) /\ Len(H \o R) = Len(H) + Len(R)
        /\ \A i \in 1..(Len(H) + Len(R)) : (H \o R)[i] = IF i <= Len(H) THEN H[i] ELSE R[i - Len(H)]
    BY <1>4, <1>5, ConcatProperties
  <2>2. Len(H) = 5 /\ Len(R) = 8 /\ Len(H) + Len(R) = 13
    BY <1>4, <1>5
  <2> QED
    BY <1>3, <2>1, <2>2
<1>7. \A i \in 1..5 : F[i] = Decimal(e.header[i])
  BY <1>4, <1>6
<1>8. /\ F[6] = R[1] /\ F[7] = R[2] /\ F[8] = R[3] /\ F[9] = R[4] /\ F[10] = R[5]
      /\ F[11] = R[6] /\ F[12] = R[7] /\ F[13] = R[8]
  BY <1>6
<1>9. ASSUME NEW i \in (1..13) \ {7, 8} PROVE Without(F[i], bar)
  <2>1. \/ i \in 1..5 \/ i = 6 \/ i = 9 \/ i = 10 \/ i = 11 \/ i = 12 \/ i = 13
    OBVIOUS
  <2> QED
    BY <1>1, <1>2, <1>5, <1>7, <1>8, <2>1, Zenon
<1> QED
  BY <1>5, <1>6, <1>7, <1>8, <1>9, Zenon DEF F, f6, f9, f10, f11, f12, f13, bar

(* What deserialize() makes of a record.                                   *)
Reading(r) == IF IsRefused(Split(r, "|")) THEN Nothing ELSE Parsed(Split(r, "|"))

(* The two forms in which an event may stand in the log.                   *)
IsRecordOf(r, e) ==
  \/ r = JoinWith(Fields(e), "|")
  \/ /\ r = JoinWith(SubSeq(Fields(e), 1, 11), "|")
     /\ e.correlation = 0 /\ e.payload = <<>>

(* Such a record is the join of n texts, thirteen or eleven, which are the *)
(* first fields of the event.                                              *)
LEMMA RecordTexts ==
  ASSUME NEW e, IsEvent(e), NEW r, IsRecordOf(r, e)
  PROVE  \E ts \in Seq(Text) :
           /\ r = JoinWith(ts, "|")
           /\ \/ Len(ts) = 13
              \/ Len(ts) = 11 /\ e.correlation = 0 /\ e.payload = <<>>
           /\ \A i \in 1..Len(ts) : ts[i] = Fields(e)[i]
<1> DEFINE F == Fields(e)
           q == SubSeq(F, 1, 11)
<1>1. F \in Seq(Text) /\ Len(F) = 13
  BY FieldsFacts
<1>2. CASE r = JoinWith(F, "|")
  <2>1. \A i \in 1..Len(F) : F[i] = Fields(e)[i]
    OBVIOUS
  <2> HIDE DEF F
  <2> QED
    BY <1>1, <1>2, <2>1, Zenon
<1>3. CASE r = JoinWith(q, "|") /\ e.correlation = 0 /\ e.payload = <<>>
  <2> HIDE DEF F
  <2>0. 1 \in Int /\ 11 \in Int /\ \A i \in 1..11 : F[i] \in Text
    <3>1. \A i \in 1..11 : i \in 1..Len(F)
      BY <1>1
    <3>2. \A i \in 1..Len(F) : F[i] \in Text
      BY <1>1, ElementOfSeq
    <3> QED
      BY <3>1, <3>2
  <2>1. /\ q \in Seq(Text) /\ Len(q) = (IF 1 <= 11 THEN 11 - 1 + 1 ELSE 0)
        /\ \A i \in 1..(11 - 1 + 1) : q[i] = F[1 + i - 1]
    BY <2>0, SubSeqProperties
  <2> HIDE DEF q
  <2>2. Len(q) = 11
    BY <2>1
  <2>3. ASSUME NEW i \in 1..Len(q) PROVE q[i] = F[i]
    <3>1. i \in 1..(11 - 1 + 1) /\ 1 + i - 1 = i
      BY <2>2
    <3> QED
      BY <2>1, <3>1
  <2> QED
    BY <1>3, <2>1, <2>2, <2>3, Zenon DEF F
<1> QED
  BY <1>2, <1>3, Zenon DEF IsRecordOf

LEMMA RecordLengths ==
  ASSUME NEW n, n = 13 \/ n = 11
  PROVE  /\ n \in 1..n /\ ~(n < 11)
         /\ \A i \in 1..n : i \in 1..13
         /\ \A i \in 1..11 : i \in 1..n
         /\ n = 13 => 12 \in 1..n /\ 13 \in 1..n
         /\ 12 \in 1..n => n = 13
  OBVIOUS

LEMMA HasBarWithout == \A t : HasBar(t) <=> ~Without(t, "|")
  BY Zenon DEF HasBar, Contains, Without

(* What the record of an event without a bar in its ids is read as.        *)
LEMMA ReadWithoutBar ==
  ASSUME NEW e, IsEvent(e), NEW r, IsRecordOf(r, e),
         ~HasBar(e.device), ~HasBar(e.session)
  PROVE  Reading(r) = e
<1> DEFINE bar == "|"
           F == Fields(e)
<1>1. PICK ts \in Seq(Text) :
        /\ r = JoinWith(ts, bar)
        /\ \/ Len(ts) = 13
           \/ Len(ts) = 11 /\ e.correlation = 0 /\ e.payload = <<>>
        /\ \A i \in 1..Len(ts) : ts[i] = F[i]
  BY RecordTexts
<1>a. Len(ts) = 13 \/ Len(ts) = 11
  BY <1>1, Zenon
<1>2. \A i \in 1..13 : Without(F[i], bar)
  <2>1. Without(F[7], bar) /\ Without(F[8], bar)
    BY FieldsFacts, HasBarWithout, Zenon
  <2>2. \A i \in 1..13 : i \in (1..13) \ {7, 8} \/ i = 7 \/ i = 8
    OBVIOUS
  <2> QED
    BY <2>1, <2>2, FieldsFacts, Zenon
<1>3. Split(r, bar) = ts
  <2>1. bar \in Char
    BY Literals
  <2> HIDE DEF bar, F
  <2>2. Len(ts) \in 1..Len(ts) /\ \A i \in 1..Len(ts) : i \in 1..13
    BY <1>a, RecordLengths, Zenon
  <2>3. \A i \in 1..Len(ts) : Without(ts[i], bar)
    BY <1>1, <1>2, <2>2
  <2>4. Split(JoinWith(ts, bar), bar) = ts
    BY <2>1, <2>2, <2>3, SplitJoin
  <2> QED
    BY <1>1, <2>4
<1> DEFINE R == Reading(r)
<1>4. /\ \A i \in 1..5 : ts[i] = Decimal(e.header[i])
      /\ ts[6] = Flag(e.committed) /\ ts[7] = e.device /\ ts[8] = e.session
      /\ ts[9] = Decimal(e.battery) /\ ts[10] = Decimal(e.rssi)
      /\ ts[11] = Escape[e.version]
      /\ Len(ts) = 13 => ts[12] = Decimal(e.correlation)
      /\ Len(ts) = 13 => ts[13] = PayloadText(e.payload)
  <2> HIDE DEF F
  <2>1. /\ \A i \in 1..11 : ts[i] = F[i]
        /\ Len(ts) = 13 => ts[12] = F[12] /\ ts[13] = F[13]
    <3>1. \A i \in 1..11 : i \in 1..Len(ts)
      BY <1>a, RecordLengths, Zenon
    <3>2. Len(ts) = 13 => 12 \in 1..Len(ts) /\ 13 \in 1..Len(ts)
      BY <1>a, RecordLengths, Zenon
    <3> QED
      BY <1>1, <3>1, <3>2
  <2>2. \A i \in 1..5 : i \in 1..11
    OBVIOUS
  <2>3. 6 \in 1..11 /\ 7 \in 1..11 /\ 8 \in 1..11 /\ 9 \in 1..11 /\ 10 \in 1..11 /\ 11 \in 1..11
    OBVIOUS
  <2> QED
    BY <2>1, <2>2, <2>3, FieldsFacts, Zenon DEF F
<1>5. /\ \A i \in 1..5 : IsNumber(ts[i]) /\ Value(ts[i]) = e.header[i]
      /\ IsNumber(ts[9]) /\ Value(ts[9]) = e.battery
      /\ IsNumber(ts[10]) /\ Value(ts[10]) = e.rssi
      /\ Len(ts) = 13 => IsNumber(ts[12]) /\ Value(ts[12]) = e.correlation
  BY <1>4, EventNumbers, DecimalRead, Zenon
<1>6. ~IsRefused(ts)
  <2> DEFINE N == {1, 2, 3, 4, 5, 9, 10, 12}
  <2> HIDE DEF bar
  <2>0. ~(Len(ts) < 11) /\ (12 \in 1..Len(ts) => Len(ts) = 13)
    BY <1>a, RecordLengths, Zenon
  <2>1. DOMAIN ts = 1..Len(ts)
    BY LenProperties
  <2>2. ASSUME NEW i \in N \cap DOMAIN ts PROVE IsNumber(ts[i])
    <3>1. i \in 1..5 \/ i = 9 \/ i = 10 \/ (i = 12 /\ Len(ts) = 13)
      BY <2>0, <2>1
    <3> QED
      BY <1>5, <3>1
  <2> QED
    BY <2>0, <2>2, Zenon DEF IsRefused, N
<1>7. Reading(r) = Parsed(ts)
  BY <1>3, <1>6, Zenon DEF Reading
<1>8. /\ [i \in 1..5 |-> Value(ts[i])] = e.header
      /\ (ts[6] = <<"1">>) = e.committed
      /\ ts[7] = e.device /\ ts[8] = e.session
      /\ Value(ts[9]) % 256 = e.battery
      /\ Value(ts[10]) = e.rssi
      /\ Unescape[ts[11]] = e.version
      /\ (IF Len(ts) >= 12 THEN Value(ts[12]) ELSE 0) = e.correlation
      /\ (IF Len(ts) >= 13 THEN PayloadOf(ts[13]) ELSE <<>>) = e.payload
  <2>1. [i \in 1..5 |-> Value(ts[i])] = e.header
    <3>1. e.header = [i \in 1..5 |-> e.header[i]]
      BY EventFields
    <3> QED
      BY <1>5, <3>1, Zenon
  <2>2. (ts[6] = <<"1">>) = e.committed
    BY <1>4, EventFields, FlagRead, Zenon
  <2>3. Value(ts[9]) % 256 = e.battery
    <3>1. \A b \in 0..255 : b % 256 = b
      OBVIOUS
    <3>2. e.battery \in 0..255
      BY EventFields
    <3> QED
      BY <1>5, <3>1, <3>2, Zenon
  <2>4. Unescape[ts[11]] = e.version
    BY <1>4, EventFields, EscapeRoundTrip, Zenon
  <2>5. Len(ts) = 13 => PayloadOf(ts[13]) = e.payload
    BY <1>4, EventFields, PayloadRead, Zenon
  <2>6. CASE Len(ts) = 13
    <3>1. Len(ts) >= 12 /\ Len(ts) >= 13
      BY <2>6
    <3> QED
      BY <1>4, <1>5, <2>1, <2>2, <2>3, <2>4, <2>5, <2>6, <3>1, Zenon
  <2>7. CASE Len(ts) = 11 /\ e.correlation = 0 /\ e.payload = <<>>
    <3>1. ~(Len(ts) >= 12) /\ ~(Len(ts) >= 13)
      BY <2>7
    <3> QED
      BY <1>4, <1>5, <2>1, <2>2, <2>3, <2>4, <2>7, <3>1, Zenon
  <2> QED
    BY <1>1, <2>6, <2>7, Zenon
<1>9. Parsed(ts) = [header |-> e.header, committed |-> e.committed, device |-> e.device,
                    session |-> e.session, battery |-> e.battery, rssi |-> e.rssi,
                    version |-> e.version, correlation |-> e.correlation,
                    payload |-> e.payload]
  BY <1>8, Zenon DEF Parsed
<1> QED
  BY <1>7, <1>9, EventFields, Zenon

(* Whatever the ids hold, the header and the commitment come first.        *)
LEMMA ReadWithBar ==
  ASSUME NEW e, IsEvent(e), NEW r, IsRecordOf(r, e)
  PROVE  \/ Reading(r) = Nothing
         \/ Reading(r).header = e.header /\ Reading(r).committed = e.committed
<1> DEFINE bar == "|"
           F == Fields(e)
           P == Split(r, bar)
<1>1. PICK ts \in Seq(Text) :
        /\ r = JoinWith(ts, bar)
        /\ \/ Len(ts) = 13
           \/ Len(ts) = 11 /\ e.correlation = 0 /\ e.payload = <<>>
        /\ \A i \in 1..Len(ts) : ts[i] = F[i]
  BY RecordTexts
<1>a. Len(ts) = 13 \/ Len(ts) = 11
  BY <1>1, Zenon
<1>2. \A i \in 1..6 : Without(F[i], bar)
  <2>1. \A i \in 1..6 : i \in (1..13) \ {7, 8}
    OBVIOUS
  <2> QED
    BY <2>1, FieldsFacts, Zenon
<1>3. \A i \in 1..6 : P[i] = F[i]
  <2>1. bar \in Char
    BY Literals
  <2> HIDE DEF bar, F
  <2>2. 6 \in 1..Len(ts) /\ \A i \in 1..6 : i \in 1..Len(ts)
    <3>1. 6 \in 1..11 /\ \A i \in 1..6 : i \in 1..11
      OBVIOUS
    <3> QED
      BY <1>a, <3>1, RecordLengths, Zenon
  <2>3. \A i \in 1..6 : Without(ts[i], bar)
    BY <1>1, <1>2, <2>2
  <2>4. \A i \in 1..6 : Split(JoinWith(ts, bar), bar)[i] = ts[i]
    BY <2>1, <2>2, <2>3, SplitJoin
  <2> QED
    BY <1>1, <2>2, <2>4
<1>4. /\ [i \in 1..5 |-> Value(P[i])] = e.header
      /\ (P[6] = <<"1">>) = e.committed
  <2>0. 6 \in 1..6 /\ \A i \in 1..5 : i \in 1..6
    OBVIOUS
  <2>1. \A i \in 1..5 : Value(P[i]) = e.header[i]
    <3>1. \A i \in 1..5 : P[i] = Decimal(e.header[i])
      BY <1>3, <2>0, FieldsFacts, Zenon
    <3> QED
      BY <3>1, EventNumbers, DecimalRead, Zenon
  <2>2. e.header = [i \in 1..5 |-> e.header[i]]
    BY EventFields
  <2>3. P[6] = Flag(e.committed)
    BY <1>3, <2>0, FieldsFacts, Zenon
  <2>4. [i \in 1..5 |-> Value(P[i])] = e.header
    BY <2>1, <2>2, Zenon
  <2>5. (P[6] = <<"1">>) = e.committed
    BY <2>3, EventFields, FlagRead, Zenon
  <2> QED
    BY <2>4, <2>5
<1>5. /\ Parsed(P).header = [i \in 1..5 |-> Value(P[i])]
      /\ Parsed(P).committed = (P[6] = <<"1">>)
  BY Zenon DEF Parsed
<1> QED
  BY <1>4, <1>5, Zenon DEF Reading
-----------------------------------------------------------------------------
(* The codec                                                               *)

(* While an event is on its way it is one that may be stored, and what is  *)
(* in the log is its record.                                               *)
CodecInv ==
  /\ stage \in {"idle", "made", "written", "read"}
  /\ stage = "made" => IsEvent(event)
  /\ stage = "written" => IsEvent(event) /\ IsRecordOf(record, event)
  /\ RoundTrip
LEMMA CodecInitHolds == CodecInit => CodecInv
<1>1. ASSUME CodecInit PROVE CodecInv
  <2>1. stage = "idle"
    BY <1>1 DEF CodecInit
  <2> QED
    BY <2>1 DEF CodecInv, RoundTrip
<1> QED
  BY <1>1

(* An event stored by the earlier format is one without a correlation id   *)
(* and a payload, and its first eleven fields are those of the event made. *)
LEMMA EarlierForm ==
  ASSUME NEW e, IsEvent(e)
  PROVE  LET f == [e EXCEPT !.correlation = 0, !.payload = <<>>]
         IN  /\ IsEvent(f) /\ f.correlation = 0 /\ f.payload = <<>>
             /\ SubSeq(Fields(f), 1, 11) = SubSeq(Fields(e), 1, 11)
<1> DEFINE none == <<>>
           f == [e EXCEPT !.correlation = 0, !.payload = none]
           F == Fields(e)
           G == Fields(f)
<1>1. /\ e \in [header : [1..5 -> Nat], committed : BOOLEAN,
                device : Text, session : Text, battery : 0..255, rssi : Int16,
                version : Text, correlation : Nat, payload : {e.payload}]
  BY DEF IsEvent
<1>2. /\ f \in [header : [1..5 -> Nat], committed : BOOLEAN,
                device : Text, session : Text, battery : 0..255, rssi : Int16,
                version : Text, correlation : Nat, payload : {none}]
      /\ f.correlation = 0 /\ f.payload = none
      /\ f.header = e.header /\ f.committed = e.committed /\ f.device = e.device
      /\ f.session = e.session /\ f.battery = e.battery /\ f.rssi = e.rssi
      /\ f.version = e.version
  BY <1>1
<1>3. IsPayload(none)
  <2>1. DOMAIN none = {} /\ none \in [{} -> Text] /\ {} \subseteq Text
    OBVIOUS
  <2>2. IsFiniteSet({})
    BY FS_EmptySet
  <2> HIDE DEF none
  <2> QED
    BY <2>1, <2>2 DEF IsPayload
<1> HIDE DEF none, f
<1>4. IsEvent(f)
  <2>1. f.payload = none
    BY <1>2
  <2> QED
    BY <1>2, <1>3, <2>1 DEF IsEvent
<1>5. F \in Seq(Text) /\ Len(F) = 13 /\ G \in Seq(Text) /\ Len(G) = 13
  BY <1>4, FieldsFacts
<1>6. \A i \in 1..11 : F[i] = G[i]
  <2>1. /\ f.header = e.header /\ f.committed = e.committed /\ f.device = e.device
        /\ f.session = e.session /\ f.battery = e.battery /\ f.rssi = e.rssi
        /\ f.version = e.version
    BY <1>2
  <2>2. /\ \A i \in 1..5 : F[i] = Decimal(e.header[i])
        /\ F[6] = Flag(e.committed) /\ F[7] = e.device /\ F[8] = e.session
        /\ F[9] = Decimal(e.battery) /\ F[10] = Decimal(e.rssi)
        /\ F[11] = Escape[e.version]
    BY FieldsFacts, Zenon
  <2>3. /\ \A i \in 1..5 : G[i] = Decimal(f.header[i])
        /\ G[6] = Flag(f.committed) /\ G[7] = f.device /\ G[8] = f.session
        /\ G[9] = Decimal(f.battery) /\ G[10] = Decimal(f.rssi)
        /\ G[11] = Escape[f.version]
    BY <1>4, FieldsFacts, Zenon
  <2> HIDE DEF F, G
  <2>4. \A i \in 1..5 : F[i] = G[i]
    BY <2>1, <2>2, <2>3, Zenon
  <2>5. F[6] = G[6] /\ F[7] = G[7] /\ F[8] = G[8]
    BY <2>1, <2>2, <2>3, Zenon
  <2>6. F[9] = G[9] /\ F[10] = G[10] /\ F[11] = G[11]
    BY <2>1, <2>2, <2>3, Zenon
  <2>7. \A i \in 1..11 : \/ i \in 1..5 \/ i = 6 \/ i = 7 \/ i = 8 \/ i = 9 \/ i = 10 \/ i = 11
    OBVIOUS
  <2> QED
    BY <2>4, <2>5, <2>6, <2>7, Zenon
<1> HIDE DEF F, G
<1>7. SubSeq(G, 1, 11) = SubSeq(F, 1, 11)
  <2> DEFINE p == SubSeq(F, 1, 11)
             q == SubSeq(G, 1, 11)
  <2>1. ASSUME NEW s \in Seq(Text), Len(s) = 13
        PROVE  /\ SubSeq(s, 1, 11) \in Seq(Text) /\ Len(SubSeq(s, 1, 11)) = 11
               /\ \A i \in 1..11 : SubSeq(s, 1, 11)[i] = s[i]
    <3> DEFINE r == SubSeq(s, 1, 11)
    <3>1. 1 \in Int /\ 11 \in Int /\ \A i \in 1..11 : s[i] \in Text
      <4>1. \A i \in 1..11 : i \in 1..Len(s)
        BY <2>1
      <4>2. \A i \in 1..Len(s) : s[i] \in Text
        BY <2>1, ElementOfSeq
      <4> QED
        BY <4>1, <4>2
    <3>2. /\ r \in Seq(Text) /\ Len(r) = (IF 1 <= 11 THEN 11 - 1 + 1 ELSE 0)
          /\ \A i \in 1..(11 - 1 + 1) : r[i] = s[1 + i - 1]
      BY <3>1, SubSeqProperties
    <3> HIDE DEF r
    <3>3. Len(r) = 11
      BY <3>2
    <3>4. ASSUME NEW i \in 1..11 PROVE r[i] = s[i]
      <4>1. i \in 1..(11 - 1 + 1) /\ 1 + i - 1 = i
        OBVIOUS
      <4> QED
        BY <3>2, <4>1
    <3> QED
      BY <3>2, <3>3, <3>4 DEF r
  <2>2. /\ p \in Seq(Text) /\ Len(p) = 11 /\ \A i \in 1..11 : p[i] = F[i]
        /\ q \in Seq(Text) /\ Len(q) = 11 /\ \A i \in 1..11 : q[i] = G[i]
    BY <1>5, <2>1
  <2> HIDE DEF p, q
  <2>3. p = q
    BY <1>6, <2>2, SeqEqual
  <2> QED
    BY <2>3 DEF p, q
<1> QED
  BY <1>2, <1>4, <1>7, Zenon DEF f, none, F, G

LEMMA CodecStep == CodecInv /\ [CodecNext]_vars => CodecInv'
<1> SUFFICES ASSUME CodecInv, [CodecNext]_vars PROVE CodecInv'
  OBVIOUS
<1>1. CASE Make
  <2>1. stage' = "made" /\ event' \in Events
    BY <1>1 DEF Make
  <2>2. IsEvent(event')
    BY <2>1, CodecAssumption, Zenon
  <2> QED
    BY <2>1, <2>2 DEF CodecInv, RoundTrip
<1>2. CASE Serialize
  <2>1. stage = "made" /\ stage' = "written" /\ event' = event
        /\ record' = JoinWith(Fields(event), "|")
    BY <1>2 DEF Serialize
  <2>2. IsEvent(event)
    BY <2>1 DEF CodecInv
  <2>3. IsEvent(event') /\ IsRecordOf(record', event')
    BY <2>1, <2>2, Zenon DEF IsRecordOf
  <2> QED
    BY <2>1, <2>3 DEF CodecInv, RoundTrip
<1>3. CASE SerializeEarlier
  <2> DEFINE f == [event EXCEPT !.correlation = 0, !.payload = <<>>]
  <2>1. stage = "made" /\ stage' = "written" /\ event' = f
        /\ record' = JoinWith(SubSeq(Fields(event), 1, 11), "|")
    BY <1>3 DEF SerializeEarlier
  <2>2. IsEvent(event)
    BY <2>1 DEF CodecInv
  <2>3. /\ IsEvent(f) /\ f.correlation = 0 /\ f.payload = <<>>
        /\ SubSeq(Fields(f), 1, 11) = SubSeq(Fields(event), 1, 11)
    BY <2>2, EarlierForm
  <2> HIDE DEF f
  <2>4. IsEvent(event') /\ IsRecordOf(record', event')
    BY <2>1, <2>3, Zenon DEF IsRecordOf
  <2> QED
    BY <2>1, <2>4 DEF CodecInv, RoundTrip
<1>4. CASE Deserialize
  <2>1. stage = "written" /\ stage' = "read" /\ event' = event /\ decoded' = Reading(record)
    BY <1>4 DEF Deserialize, Reading
  <2>2. IsEvent(event) /\ IsRecordOf(record, event)
    BY <2>1 DEF CodecInv
  <2>3. CASE HasBar(event.device) \/ HasBar(event.session)
    <3>1. \/ decoded' = Nothing
          \/ decoded'.header = event.header /\ decoded'.committed = event.committed
      BY <2>1, <2>2, ReadWithBar, Zenon
    <3>2. RoundTrip'
      BY <2>1, <2>3, <3>1, Zenon DEF RoundTrip
    <3> QED
      BY <2>1, <3>2 DEF CodecInv
  <2>4. CASE ~(HasBar(event.device) \/ HasBar(event.session))
    <3>1. decoded' = event
      BY <2>1, <2>2, <2>4, ReadWithoutBar, Zenon
    <3>2. RoundTrip'
      BY <2>1, <2>4, <3>1, Zenon DEF RoundTrip
    <3> QED
      BY <2>1, <3>2 DEF CodecInv
  <2> QED
    BY <2>3, <2>4
<1>5. CASE Forget
  <2>1. stage' = "idle"
    BY <1>5 DEF Forget
  <2> QED
    BY <2>1 DEF CodecInv, RoundTrip
<1>6. CASE UNCHANGED vars
  BY <1>6 DEF CodecInv, RoundTrip, vars
<1> QED
  BY <1>1, <1>2, <1>3, <1>4, <1>5, <1>6 DEF CodecNext

(* The invariant of the codec (event_queue.cpp:265-348).                   *)
THEOREM CodecInvariance == CodecSpec => []CodecInv
<1> QED
  BY CodecInitHolds, CodecStep, PTL DEF CodecSpec

(* Whatever texts and numbers an event is made of, it comes back from the  *)
(* log as it went in, unless an id holds the field separator; and then its *)
(* header and its commitment do (serialize and deserialize,                *)
(* event_queue.cpp:265-348).                                               *)
THEOREM RoundTripHolds == CodecSpec => []RoundTrip
<1>1. CodecInv => RoundTrip
  BY DEF CodecInv
<1> QED
  BY <1>1, CodecInvariance, PTL
=============================================================================
